------------------------------ MODULE ReportsProofs -----------------------------
(***************************************************************************)
(* The theorems about Reports, for every set of plugins, definitions,      *)
(* datasets and rows.  What the two loops of the module compute for every  *)
(* sequence is proved by induction on its length, which rests on the well- *)
(* foundedness of the naturals.                                            *)
(***************************************************************************)
EXTENDS Reports, WellFoundedInduction, TLAPS

-------------------------------------------------------------------------------
(* Induction.                                                              *)

\* A set of naturals has a least element.
LEMMA LeastNumber ==
    ASSUME NEW S \in SUBSET Nat, S # {}
    PROVE  \E n \in S : \A m \in S : n <= m
<1> DEFINE R == {z \in Nat \X Nat : z[1] < z[2]}
<1>1. IsWellFoundedOn(OpToRel(<, Nat), Nat)
    BY NatLessThanWellFounded
<1>2. OpToRel(<, Nat) = R
    BY DEF OpToRel
<1>3. IsWellFoundedOn(R, Nat)
    BY <1>1, <1>2, Zenon
<1>4. \E x \in S : \A y \in S : ~ (<<y, x>> \in R)
    <2> HIDE DEF R
    <2> QED
        BY <1>3, WFMin
<1>5. \A x, y \in Nat : <<y, x>> \notin R => x <= y
    OBVIOUS
<1> HIDE DEF R
<1> QED
    BY <1>4, <1>5

\* Induction over the naturals, for a set.
LEMMA Induction ==
    ASSUME NEW S, 0 \in S, \A n \in Nat : n \in S => n + 1 \in S
    PROVE  Nat \subseteq S
<1> SUFFICES ASSUME Nat \ S # {} PROVE FALSE
    OBVIOUS
<1>1. PICK n \in Nat \ S : \A m \in Nat \ S : n <= m
    BY LeastNumber
<1>2. n # 0 /\ n - 1 \in Nat
    BY <1>1
<1>3. n - 1 \in S
    BY <1>1, <1>2
<1> QED
    BY <1>1, <1>2, <1>3

\* A sequence that is not empty is an Append.
LEMMA LastOff ==
    ASSUME NEW S, NEW s \in Seq(S), s # <<>>
    PROVE  \E t \in Seq(S), x \in S : s = Append(t, x) /\ Len(s) = Len(t) + 1
<1> DEFINE t == [i \in 1 .. (Len(s) - 1) |-> s[i]]
<1>1. Len(s) \in Nat /\ Len(s) > 0 /\ s[Len(s)] \in S
    OBVIOUS
<1>2. t \in Seq(S) /\ Len(t) = Len(s) - 1
    BY <1>1
<1>3. s = Append(t, s[Len(s)]) /\ Len(s) = Len(t) + 1
    BY <1>1, <1>2
<1> HIDE DEF t
<1> QED
    BY <1>1, <1>2, <1>3

\* Induction over sequences, for a set.
LEMMA SequenceInduction ==
    ASSUME NEW S, NEW P, <<>> \in P,
           \A s \in Seq(S), x \in S : s \in P => Append(s, x) \in P
    PROVE  Seq(S) \subseteq P
<1> DEFINE N == {n \in Nat : \A s \in Seq(S) : Len(s) = n => s \in P}
<1>1. 0 \in N
    OBVIOUS
<1>2. ASSUME NEW n \in Nat, n \in N
      PROVE  n + 1 \in N
    <2> SUFFICES ASSUME NEW s \in Seq(S), Len(s) = n + 1
                 PROVE  s \in P
        OBVIOUS
    <2>1. PICK t \in Seq(S), x \in S : s = Append(t, x) /\ Len(s) = Len(t) + 1
        BY LastOff
    <2>2. Len(t) = n
        BY <1>2, <2>1
    <2>3. t \in P
        BY <1>2, <2>2
    <2> QED
        BY <2>1, <2>3
<1>3. Nat \subseteq N
    <2> HIDE DEF N
    <2> QED
        BY <1>1, <1>2, Induction
<1> QED
    BY <1>3

-------------------------------------------------------------------------------
(* What Only keeps.                                                        *)

\* f is the function of the loop of Only over s.
OnlyRun(f, s, S) ==
    /\ f[0] = <<>>
    /\ \A n \in 1 .. Len(s) : f[n] = IF s[n] \in S THEN Append(f[n - 1], s[n]) ELSE f[n - 1]

\* Only is where that loop ends.
LEMMA OnlyEnds ==
    ASSUME NEW T, NEW s \in Seq(T), NEW S, NEW f, OnlyRun(f, s, S)
    PROVE  Only(s, S) = f[Len(s)]
<1> DEFINE N == Len(s)
           Eq(g) == g = [n \in 0 .. N |-> IF n = 0 THEN <<>>
                             ELSE IF s[n] \in S THEN Append(g[n - 1], s[n]) ELSE g[n - 1]]
           g == [n \in 0 .. N |-> f[n]]
           c == CHOOSE h : Eq(h)
<1>1. N \in Nat
    OBVIOUS
<1>2. Eq(g)
    <2> SUFFICES ASSUME NEW n \in 0 .. N
                 PROVE  f[n] = IF n = 0 THEN <<>>
                               ELSE IF s[n] \in S THEN Append(g[n - 1], s[n]) ELSE g[n - 1]
        BY Zenon
    <2>1. CASE n = 0
        BY <2>1 DEF OnlyRun
    <2>2. CASE n # 0
        <3>1. n \in 1 .. N /\ g[n - 1] = f[n - 1]
            BY <1>1, <2>2
        <3> QED
            BY <2>2, <3>1 DEF OnlyRun
    <2> QED
        BY <2>1, <2>2
<1>3. Only(s, S) = c[N]
    BY Zenon DEF Only
<1>4. Eq(c)
    <2> HIDE DEF Eq, g
    <2> QED
        BY <1>2
<1> HIDE DEF c
<1>5. \A n \in 0 .. N : c[n] = IF n = 0 THEN <<>>
                              ELSE IF s[n] \in S THEN Append(c[n - 1], s[n]) ELSE c[n - 1]
    BY <1>4, Zenon
<1>6. OnlyRun(c, s, S)
    BY <1>1, <1>5 DEF OnlyRun
<1> DEFINE P == {k \in Nat : k <= N => c[k] = f[k]}
<1>7. 0 \in P
    BY <1>6 DEF OnlyRun
<1>8. ASSUME NEW k \in Nat, k \in P
      PROVE  k + 1 \in P
    <2> SUFFICES ASSUME k + 1 <= N PROVE c[k + 1] = f[k + 1]
        OBVIOUS
    <2>1. c[k] = f[k]
        BY <1>1, <1>8
    <2>2. k + 1 \in 1 .. N /\ (k + 1) - 1 = k
        BY <1>1
    <2>3. /\ c[k + 1] = IF s[k + 1] \in S THEN Append(c[(k + 1) - 1], s[k + 1]) ELSE c[(k + 1) - 1]
          /\ f[k + 1] = IF s[k + 1] \in S THEN Append(f[(k + 1) - 1], s[k + 1]) ELSE f[(k + 1) - 1]
        BY <1>6, <2>2 DEF OnlyRun
    <2> QED
        BY <2>1, <2>2, <2>3
<1>9. Nat \subseteq P
    <2> HIDE DEF P
    <2> QED
        BY <1>7, <1>8, Induction
<1> QED
    BY <1>1, <1>3, <1>9

\* The run over a longer sequence goes on from that over the shorter one.
LEMMA OnlyRunAppend ==
    ASSUME NEW T, NEW s \in Seq(T), NEW x \in T, NEW S, NEW f, OnlyRun(f, s, S)
    PROVE  \E g : /\ OnlyRun(g, Append(s, x), S)
                  /\ g[Len(s)] = f[Len(s)]
                  /\ g[Len(s) + 1] = IF x \in S THEN Append(f[Len(s)], x) ELSE f[Len(s)]
<1> DEFINE N == Len(s)
           g == [n \in 0 .. (N + 1) |-> IF n = N + 1
                                        THEN IF x \in S THEN Append(f[N], x) ELSE f[N]
                                        ELSE f[n]]
<1>1. N \in Nat /\ Len(Append(s, x)) = N + 1 /\ Append(s, x)[N + 1] = x
    OBVIOUS
<1>2. g[N + 1] = IF x \in S THEN Append(f[N], x) ELSE f[N]
    BY <1>1
<1>3. \A n \in 0 .. N : g[n] = f[n]
    BY <1>1
<1>4. \A n \in 1 .. N : Append(s, x)[n] = s[n]
    OBVIOUS
<1> HIDE DEF g
<1>5. OnlyRun(g, Append(s, x), S)
    <2>1. g[0] = <<>>
        BY <1>1, <1>3 DEF OnlyRun
    <2>2. ASSUME NEW n \in 1 .. (N + 1)
          PROVE  g[n] = IF Append(s, x)[n] \in S THEN Append(g[n - 1], Append(s, x)[n]) ELSE g[n - 1]
        <3>1. CASE n = N + 1
            <4>1. g[n - 1] = f[N]
                BY <1>1, <1>3, <3>1
            <4> QED
                BY <1>1, <1>2, <3>1, <4>1
        <3>2. CASE n # N + 1
            <4>1. n \in 1 .. N /\ g[n] = f[n] /\ g[n - 1] = f[n - 1] /\ Append(s, x)[n] = s[n]
                BY <1>1, <1>3, <1>4, <3>2
            <4> QED
                BY <4>1 DEF OnlyRun
        <3> QED
            BY <3>1, <3>2
    <2> QED
        BY <1>1, <2>1, <2>2 DEF OnlyRun
<1> QED
    BY <1>1, <1>2, <1>3, <1>5

\* The loop runs over every sequence.
LEMMA OnlyRuns ==
    ASSUME NEW T, NEW s \in Seq(T), NEW S
    PROVE  \E f : OnlyRun(f, s, S)
<1> DEFINE P == {t \in Seq(T) : \E f : OnlyRun(f, t, S)}
<1>1. <<>> \in P
    <2>1. OnlyRun([n \in {0} |-> <<>>], <<>>, S)
        BY DEF OnlyRun
    <2> QED
        BY <2>1
<1>2. ASSUME NEW t \in Seq(T), NEW x \in T, t \in P
      PROVE  Append(t, x) \in P
    BY <1>2, OnlyRunAppend
<1>3. Seq(T) \subseteq P
    <2> HIDE DEF P
    <2> QED
        BY <1>1, <1>2, SequenceInduction
<1> QED
    BY <1>3

\* Only, one element after the other.
LEMMA OnlyAppend ==
    ASSUME NEW T, NEW s \in Seq(T), NEW x \in T, NEW S
    PROVE  Only(Append(s, x), S) = IF x \in S THEN Append(Only(s, S), x) ELSE Only(s, S)
<1>1. PICK f : OnlyRun(f, s, S)
    BY OnlyRuns
<1>2. PICK g : /\ OnlyRun(g, Append(s, x), S)
               /\ g[Len(s) + 1] = IF x \in S THEN Append(f[Len(s)], x) ELSE f[Len(s)]
    BY <1>1, OnlyRunAppend
<1>3. Append(s, x) \in Seq(T) /\ Len(Append(s, x)) = Len(s) + 1
    OBVIOUS
<1>4. Only(s, S) = f[Len(s)]
    BY <1>1, OnlyEnds
<1>5. Only(Append(s, x), S) = g[Len(s) + 1]
    BY <1>2, <1>3, OnlyEnds
<1> QED
    BY <1>2, <1>4, <1>5

\* Only keeps nothing of nothing.
LEMMA OnlyEmpty ==
    ASSUME NEW S
    PROVE  Only(<<>>, S) = <<>>
<1>1. <<>> \in Seq({})
    OBVIOUS
<1>2. PICK f : OnlyRun(f, <<>>, S)
    BY <1>1, OnlyRuns
<1>3. Only(<<>>, S) = f[Len(<<>>)]
    BY <1>1, <1>2, OnlyEnds
<1>4. f[0] = <<>> /\ Len(<<>>) = 0
    BY <1>2 DEF OnlyRun
<1> QED
    BY <1>3, <1>4

\* What Only keeps is a sequence, of what is in both.
LEMMA OnlyKeeps ==
    ASSUME NEW T, NEW s \in Seq(T), NEW S
    PROVE  /\ Only(s, S) \in Seq(T)
           /\ \A i \in DOMAIN Only(s, S) :
                  Only(s, S)[i] \in S /\ \E j \in DOMAIN s : s[j] = Only(s, S)[i]
           /\ \A j \in DOMAIN s : s[j] \in S =>
                  \E i \in DOMAIN Only(s, S) : Only(s, S)[i] = s[j]
<1> DEFINE Good(t) ==
               /\ Only(t, S) \in Seq(T)
               /\ \A i \in DOMAIN Only(t, S) :
                      Only(t, S)[i] \in S /\ \E j \in DOMAIN t : t[j] = Only(t, S)[i]
               /\ \A j \in DOMAIN t : t[j] \in S =>
                      \E i \in DOMAIN Only(t, S) : Only(t, S)[i] = t[j]
           P == {t \in Seq(T) : Good(t)}
<1>1. <<>> \in P
    <2>1. Only(<<>>, S) = <<>>
        BY OnlyEmpty
    <2>2. <<>> \in Seq(T) /\ DOMAIN <<>> = {}
        OBVIOUS
    <2> QED
        BY <2>1, <2>2
<1>2. ASSUME NEW t \in Seq(T), NEW x \in T, t \in P
      PROVE  Append(t, x) \in P
    <2> DEFINE o == Only(t, S)
               u == Append(t, x)
    <2>1. Only(u, S) = IF x \in S THEN Append(o, x) ELSE o
        BY OnlyAppend
    <2>2. Good(t)
        BY <1>2
    <2>3. /\ u \in Seq(T) /\ Len(u) = Len(t) + 1 /\ u[Len(t) + 1] = x
          /\ \A j \in DOMAIN t : j \in DOMAIN u /\ u[j] = t[j]
          /\ \A j \in DOMAIN u : j \in DOMAIN t \/ j = Len(t) + 1
        OBVIOUS
    <2>4. CASE x \in S
        <3> DEFINE v == Append(o, x)
        <3>1. Only(u, S) = v
            BY <2>1, <2>4
        <3>2. /\ v \in Seq(T) /\ v[Len(o) + 1] = x /\ Len(o) + 1 \in DOMAIN v
              /\ \A j \in DOMAIN o : j \in DOMAIN v /\ v[j] = o[j]
              /\ \A j \in DOMAIN v : j \in DOMAIN o \/ j = Len(o) + 1
            BY <2>2
        <3>3. Len(t) + 1 \in DOMAIN u
            BY <2>3
        <3> HIDE DEF o, u, v
        <3>4. \A i \in DOMAIN o : o[i] \in S /\ \E j \in DOMAIN u : u[j] = o[i]
            BY <2>2, <2>3 DEF o
        <3>5. \A i \in DOMAIN v : v[i] \in S /\ \E j \in DOMAIN u : u[j] = v[i]
            <4> SUFFICES ASSUME NEW i \in DOMAIN v
                         PROVE  v[i] \in S /\ \E j \in DOMAIN u : u[j] = v[i]
                OBVIOUS
            <4>1. CASE i \in DOMAIN o
                BY <3>2, <3>4, <4>1
            <4>2. CASE i = Len(o) + 1
                BY <2>3, <2>4, <3>2, <3>3, <4>2
            <4>3. i \in DOMAIN o \/ i = Len(o) + 1
                BY <3>2
            <4> QED
                BY <4>1, <4>2, <4>3, Zenon
        <3>6. \A j \in DOMAIN u : u[j] \in S => \E i \in DOMAIN v : v[i] = u[j]
            BY <2>2, <2>3, <3>2 DEF o
        <3> QED
            BY <2>3, <3>1, <3>2, <3>5, <3>6 DEF u
    <2>5. CASE x \notin S
        <3>1. Only(u, S) = o
            BY <2>1, <2>5
        <3> HIDE DEF o, u
        <3>2. o \in Seq(T) /\ \A i \in DOMAIN o : o[i] \in S /\ \E j \in DOMAIN u : u[j] = o[i]
            BY <2>2, <2>3 DEF o
        <3>3. \A j \in DOMAIN u : u[j] \in S => \E i \in DOMAIN o : o[i] = u[j]
            BY <2>2, <2>3, <2>5 DEF o
        <3> QED
            BY <2>3, <3>1, <3>2, <3>3 DEF u
    <2> QED
        BY <2>4, <2>5
<1>3. Seq(T) \subseteq P
    <2> HIDE DEF P
    <2> QED
        BY <1>1, <1>2, SequenceInduction
<1> QED
    BY <1>3

-------------------------------------------------------------------------------
(* The elements of sequences.                                              *)

LEMMA ToSetAppend ==
    ASSUME NEW T, NEW s \in Seq(T), NEW x \in T
    PROVE  ToSet(Append(s, x)) = ToSet(s) \cup {x}
<1>1. /\ Len(Append(s, x)) = Len(s) + 1 /\ Append(s, x)[Len(s) + 1] = x /\ Len(s) \in Nat
      /\ \A i \in DOMAIN s : i \in DOMAIN Append(s, x) /\ Append(s, x)[i] = s[i]
      /\ \A i \in DOMAIN Append(s, x) : i \in DOMAIN s \/ i = Len(s) + 1
      /\ Len(s) + 1 \in DOMAIN Append(s, x)
    OBVIOUS
<1>2. ASSUME NEW y \in ToSet(Append(s, x))
      PROVE  y \in ToSet(s) \cup {x}
    BY <1>1 DEF ToSet
<1>3. ASSUME NEW y \in ToSet(s) \cup {x}
      PROVE  y \in ToSet(Append(s, x))
    BY <1>1 DEF ToSet
<1> QED
    BY <1>2, <1>3

LEMMA ToSetHead ==
    ASSUME NEW T, NEW s \in Seq(T), s # <<>>
    PROVE  ToSet(s) = {Head(s)} \cup ToSet(Tail(s))
<1>1. /\ Len(s) \in Nat \ {0} /\ Head(s) = s[1] /\ 1 \in DOMAIN s
      /\ \A i \in DOMAIN Tail(s) : i + 1 \in DOMAIN s /\ Tail(s)[i] = s[i + 1]
      /\ \A i \in DOMAIN s : i = 1 \/ (i - 1 \in DOMAIN Tail(s) /\ Tail(s)[i - 1] = s[i])
    OBVIOUS
<1>2. ASSUME NEW y \in ToSet(s)
      PROVE  y \in {Head(s)} \cup ToSet(Tail(s))
    <2>1. PICK i \in DOMAIN s : s[i] = y
        BY DEF ToSet
    <2>2. CASE i = 1
        BY <1>1, <2>1, <2>2
    <2>3. CASE i # 1
        <3>1. i - 1 \in DOMAIN Tail(s) /\ Tail(s)[i - 1] = y
            BY <1>1, <2>1, <2>3
        <3> QED
            BY <3>1 DEF ToSet
    <2> QED
        BY <2>2, <2>3
<1>3. ASSUME NEW y \in {Head(s)} \cup ToSet(Tail(s))
      PROVE  y \in ToSet(s)
    BY <1>1 DEF ToSet
<1> QED
    BY <1>2, <1>3

LEMMA ToSetType ==
    ASSUME NEW T, NEW s \in Seq(T)
    PROVE  ToSet(s) \subseteq T
BY DEF ToSet

-------------------------------------------------------------------------------
(* What Shape computes.                                                    *)

\* The groups after one more row.
Joined(groups, row, f) ==
    IF Passes(row, f) THEN AddToGroup(groups, Cells(row, GroupBy[f]), Cells(row, Detail[f]))
    ELSE groups

\* h is the function of the loop of Shape over s.
ShapeRun(h, s, f) ==
    /\ h[0] = <<>>
    /\ \A n \in 1 .. Len(s) : h[n] = Joined(h[n - 1], s[n], f)

\* Shape is where that loop ends.
LEMMA ShapeEnds ==
    ASSUME NEW T, NEW s \in Seq(T), NEW f, NEW h, ShapeRun(h, s, f)
    PROVE  Shape(s, f) = h[Len(s)]
<1> DEFINE N == Len(s)
           Eq(g) == g = [n \in 0 .. N |-> IF n = 0 THEN <<>> ELSE Joined(g[n - 1], s[n], f)]
           g == [n \in 0 .. N |-> h[n]]
           c == CHOOSE e : Eq(e)
<1>1. N \in Nat
    OBVIOUS
<1>2. Eq(g)
    <2> SUFFICES ASSUME NEW n \in 0 .. N
                 PROVE  h[n] = IF n = 0 THEN <<>> ELSE Joined(g[n - 1], s[n], f)
        BY Zenon
    <2>1. CASE n = 0
        BY <2>1 DEF ShapeRun
    <2>2. CASE n # 0
        <3>1. n \in 1 .. N /\ g[n - 1] = h[n - 1]
            BY <1>1, <2>2
        <3> QED
            BY <2>2, <3>1 DEF ShapeRun
    <2> QED
        BY <2>1, <2>2
<1>3. Shape(s, f) = c[N]
    BY Zenon DEF Shape, Joined
<1>4. Eq(c)
    <2> HIDE DEF Eq, g
    <2> QED
        BY <1>2
<1> HIDE DEF c
<1>5. \A n \in 0 .. N : c[n] = IF n = 0 THEN <<>> ELSE Joined(c[n - 1], s[n], f)
    BY <1>4, Zenon
<1>6. ShapeRun(c, s, f)
    BY <1>1, <1>5 DEF ShapeRun
<1> DEFINE P == {k \in Nat : k <= N => c[k] = h[k]}
<1>7. 0 \in P
    BY <1>6 DEF ShapeRun
<1>8. ASSUME NEW k \in Nat, k \in P
      PROVE  k + 1 \in P
    <2> SUFFICES ASSUME k + 1 <= N PROVE c[k + 1] = h[k + 1]
        OBVIOUS
    <2>1. c[k] = h[k]
        BY <1>1, <1>8
    <2>2. k + 1 \in 1 .. N /\ (k + 1) - 1 = k
        BY <1>1
    <2>3. c[k + 1] = Joined(c[(k + 1) - 1], s[k + 1], f) /\ h[k + 1] = Joined(h[(k + 1) - 1], s[k + 1], f)
        BY <1>6, <2>2 DEF ShapeRun
    <2> QED
        BY <2>1, <2>2, <2>3
<1>9. Nat \subseteq P
    <2> HIDE DEF P
    <2> QED
        BY <1>7, <1>8, Induction
<1> QED
    BY <1>1, <1>3, <1>9

\* The run over a longer sequence goes on from that over the shorter one.
LEMMA ShapeRunAppend ==
    ASSUME NEW T, NEW s \in Seq(T), NEW x \in T, NEW f, NEW h, ShapeRun(h, s, f)
    PROVE  \E g : /\ ShapeRun(g, Append(s, x), f)
                  /\ g[Len(s) + 1] = Joined(h[Len(s)], x, f)
<1> DEFINE N == Len(s)
           g == [n \in 0 .. (N + 1) |-> IF n = N + 1 THEN Joined(h[N], x, f) ELSE h[n]]
<1>1. N \in Nat /\ Len(Append(s, x)) = N + 1 /\ Append(s, x)[N + 1] = x
    OBVIOUS
<1>2. g[N + 1] = Joined(h[N], x, f)
    BY <1>1
<1>3. \A n \in 0 .. N : g[n] = h[n]
    BY <1>1
<1>4. \A n \in 1 .. N : Append(s, x)[n] = s[n]
    OBVIOUS
<1> HIDE DEF g
<1>5. ShapeRun(g, Append(s, x), f)
    <2>1. g[0] = <<>>
        BY <1>1, <1>3 DEF ShapeRun
    <2>2. ASSUME NEW n \in 1 .. (N + 1)
          PROVE  g[n] = Joined(g[n - 1], Append(s, x)[n], f)
        <3>1. CASE n = N + 1
            <4>1. g[n - 1] = h[N]
                BY <1>1, <1>3, <3>1
            <4> QED
                BY <1>1, <1>2, <3>1, <4>1
        <3>2. CASE n # N + 1
            <4>1. n \in 1 .. N /\ g[n] = h[n] /\ g[n - 1] = h[n - 1] /\ Append(s, x)[n] = s[n]
                BY <1>1, <1>3, <1>4, <3>2
            <4> QED
                BY <4>1 DEF ShapeRun
        <3> QED
            BY <3>1, <3>2
    <2> QED
        BY <1>1, <2>1, <2>2 DEF ShapeRun
<1> QED
    BY <1>1, <1>2, <1>5

\* The loop runs over every sequence.
LEMMA ShapeRuns ==
    ASSUME NEW T, NEW s \in Seq(T), NEW f
    PROVE  \E h : ShapeRun(h, s, f)
<1> DEFINE P == {t \in Seq(T) : \E h : ShapeRun(h, t, f)}
<1>1. <<>> \in P
    <2>1. ShapeRun([n \in {0} |-> <<>>], <<>>, f)
        BY DEF ShapeRun
    <2> QED
        BY <2>1
<1>2. ASSUME NEW t \in Seq(T), NEW x \in T, t \in P
      PROVE  Append(t, x) \in P
    BY <1>2, ShapeRunAppend
<1>3. Seq(T) \subseteq P
    <2> HIDE DEF P
    <2> QED
        BY <1>1, <1>2, SequenceInduction
<1> QED
    BY <1>3

\* Shape, one row after the other.
LEMMA ShapeAppend ==
    ASSUME NEW T, NEW s \in Seq(T), NEW x \in T, NEW f
    PROVE  Shape(Append(s, x), f) = Joined(Shape(s, f), x, f)
<1>1. PICK h : ShapeRun(h, s, f)
    BY ShapeRuns
<1>2. PICK g : ShapeRun(g, Append(s, x), f) /\ g[Len(s) + 1] = Joined(h[Len(s)], x, f)
    BY <1>1, ShapeRunAppend
<1>3. Append(s, x) \in Seq(T) /\ Len(Append(s, x)) = Len(s) + 1
    OBVIOUS
<1>4. Shape(s, f) = h[Len(s)]
    BY <1>1, ShapeEnds
<1>5. Shape(Append(s, x), f) = g[Len(s) + 1]
    BY <1>2, <1>3, ShapeEnds
<1> QED
    BY <1>2, <1>4, <1>5

\* Of no rows there are no groups.
LEMMA ShapeEmpty ==
    ASSUME NEW f
    PROVE  Shape(<<>>, f) = <<>>
<1>1. <<>> \in Seq({})
    OBVIOUS
<1>2. PICK h : ShapeRun(h, <<>>, f)
    BY <1>1, ShapeRuns
<1>3. Shape(<<>>, f) = h[Len(<<>>)]
    BY <1>1, <1>2, ShapeEnds
<1>4. h[0] = <<>> /\ Len(<<>>) = 0
    BY <1>2 DEF ShapeRun
<1> QED
    BY <1>3, <1>4

Group == [key : Seq(Value), rows : Seq(Seq(Value))]

LEMMA CellsType ==
    ASSUME NEW row \in Row, NEW names \in Seq(Column)
    PROVE  Cells(row, names) \in Seq(Value)
BY DEF Cells, Row

\* The row of a key that there is goes to the end of its group,
LEMMA JoinsGroup ==
    ASSUME NEW groups \in Seq(Group), NEW key \in Seq(Value), NEW detail \in Seq(Value),
           \E i \in DOMAIN groups : groups[i].key = key
    PROVE  /\ AddToGroup(groups, key, detail) \in Seq(Group)
           /\ DOMAIN AddToGroup(groups, key, detail) = DOMAIN groups
           /\ \A i \in DOMAIN groups :
                 /\ AddToGroup(groups, key, detail)[i].key = groups[i].key
                 /\ AddToGroup(groups, key, detail)[i].rows =
                       IF groups[i].key = key THEN Append(groups[i].rows, detail) ELSE groups[i].rows
<1> DEFINE e(i) == IF groups[i].key = key THEN [groups[i] EXCEPT !.rows = Append(@, detail)] ELSE groups[i]
           g == [i \in DOMAIN groups |-> e(i)]
<1>1. AddToGroup(groups, key, detail) = g
    BY DEF AddToGroup
<1>2. ASSUME NEW i \in DOMAIN groups
      PROVE  /\ e(i) \in Group /\ e(i).key = groups[i].key
             /\ e(i).rows = IF groups[i].key = key THEN Append(groups[i].rows, detail) ELSE groups[i].rows
    <2>1. groups[i] \in Group
        OBVIOUS
    <2>2. groups[i].rows \in Seq(Seq(Value)) /\ Append(groups[i].rows, detail) \in Seq(Seq(Value))
        BY <2>1 DEF Group
    <2> QED
        BY <2>1, <2>2 DEF Group
<1>3. DOMAIN g = DOMAIN groups /\ DOMAIN groups = 1 .. Len(groups) /\ Len(groups) \in Nat
    OBVIOUS
<1>4. \A i \in DOMAIN groups : g[i] = e(i)
    OBVIOUS
<1>5. g \in Seq(Group)
    <2> HIDE DEF e
    <2>1. g \in [1 .. Len(groups) -> Group]
        BY <1>2, <1>3
    <2> QED
        BY <1>3, <2>1
<1> HIDE DEF g, e
<1> QED
    BY <1>1, <1>2, <1>3, <1>4, <1>5

\* and that of another key makes a group.
LEMMA MakesGroup ==
    ASSUME NEW groups \in Seq(Group), NEW key \in Seq(Value), NEW detail \in Seq(Value),
           ~ \E i \in DOMAIN groups : groups[i].key = key
    PROVE  /\ AddToGroup(groups, key, detail) \in Seq(Group)
           /\ DOMAIN AddToGroup(groups, key, detail) = DOMAIN groups \cup {Len(groups) + 1}
           /\ \A i \in DOMAIN groups : AddToGroup(groups, key, detail)[i] = groups[i]
           /\ AddToGroup(groups, key, detail)[Len(groups) + 1] = [key |-> key, rows |-> <<detail>>]
<1> DEFINE n == [key |-> key, rows |-> <<detail>>]
<1>1. AddToGroup(groups, key, detail) = Append(groups, n)
    BY Zenon DEF AddToGroup
<1>2. n \in Group
    BY DEF Group
<1> HIDE DEF n
<1>3. /\ Append(groups, n) \in Seq(Group)
      /\ DOMAIN Append(groups, n) = DOMAIN groups \cup {Len(groups) + 1}
      /\ \A i \in DOMAIN groups : Append(groups, n)[i] = groups[i]
      /\ Append(groups, n)[Len(groups) + 1] = n
    BY <1>2
<1> QED
    BY <1>1, <1>3 DEF n

\* The shape of rows is a sequence of groups.
LEMMA ShapeType ==
    ASSUME NEW of \in Seq(Row), NEW f \in Definition
    PROVE  Shape(of, f) \in Seq(Group)
<1> DEFINE P == {t \in Seq(Row) : Shape(t, f) \in Seq(Group)}
<1>1. <<>> \in P
    <2>1. Shape(<<>>, f) = <<>>
        BY ShapeEmpty
    <2>2. <<>> \in Seq(Row) /\ <<>> \in Seq(Group)
        OBVIOUS
    <2> QED
        BY <2>1, <2>2
<1>2. ASSUME NEW t \in Seq(Row), NEW x \in Row, t \in P
      PROVE  Append(t, x) \in P
    <2>1. Shape(Append(t, x), f) = Joined(Shape(t, f), x, f)
        BY ShapeAppend
    <2>2. Shape(t, f) \in Seq(Group)
        BY <1>2
    <2>3. Cells(x, GroupBy[f]) \in Seq(Value) /\ Cells(x, Detail[f]) \in Seq(Value)
        BY CellsType, ShapeAssumption
    <2>4. AddToGroup(Shape(t, f), Cells(x, GroupBy[f]), Cells(x, Detail[f])) \in Seq(Group)
        BY <2>2, <2>3, JoinsGroup, MakesGroup
    <2>5. Joined(Shape(t, f), x, f) \in Seq(Group)
        BY <2>2, <2>4 DEF Joined
    <2>6. Append(t, x) \in Seq(Row)
        OBVIOUS
    <2> QED
        BY <2>1, <2>5, <2>6
<1>3. Seq(Row) \subseteq P
    <2> HIDE DEF P
    <2> QED
        BY <1>1, <1>2, SequenceInduction
<1> QED
    BY <1>3

\* The rows that pass the filters, and those of a key among them.
Passing(of, f) == Only(of, {row \in Row : Passes(row, f)})
OfKey(of, f, key) == Only(of, {row \in Row : Passes(row, f) /\ Cells(row, GroupBy[f]) = key})
KeyOf(row, f) == Cells(row, GroupBy[f])
Details(rs, f) == [i \in DOMAIN rs |-> Cells(rs[i], Detail[f])]

\* Regroups, in these words.
LEMMA RegroupsMeans ==
    ASSUME NEW groups, NEW of, NEW f
    PROVE  Regroups(groups, of, f) <=>
           /\ {groups[i].key : i \in DOMAIN groups} = {KeyOf(Passing(of, f)[i], f) : i \in DOMAIN Passing(of, f)}
           /\ \A i \in DOMAIN groups : groups[i].rows = Details(OfKey(of, f, groups[i].key), f)
           /\ \A i, j \in DOMAIN groups : i < j =>
                 \E n \in DOMAIN Passing(of, f) :
                    /\ KeyOf(Passing(of, f)[n], f) = groups[i].key
                    /\ \A m \in 1 .. n : KeyOf(Passing(of, f)[m], f) # groups[j].key
BY Zenon DEF Regroups, KeyOf, Passing, OfKey, Details

\* One more row among those that pass.
LEMMA PassingAppend ==
    ASSUME NEW t \in Seq(Row), NEW x \in Row, NEW f \in Definition
    PROVE  /\ Passing(t, f) \in Seq(Row)
           /\ Passing(Append(t, x), f) = IF Passes(x, f) THEN Append(Passing(t, f), x) ELSE Passing(t, f)
BY OnlyAppend, OnlyKeeps DEF Passing

\* One more row among those of a key.
LEMMA OfKeyAppend ==
    ASSUME NEW t \in Seq(Row), NEW x \in Row, NEW f \in Definition, NEW key
    PROVE  Details(OfKey(Append(t, x), f, key), f) =
               IF Passes(x, f) /\ KeyOf(x, f) = key
               THEN Append(Details(OfKey(t, f, key), f), Cells(x, Detail[f]))
               ELSE Details(OfKey(t, f, key), f)
<1> DEFINE S == {row \in Row : Passes(row, f) /\ Cells(row, GroupBy[f]) = key}
           o == Only(t, S)
<1>1. o \in Seq(Row)
    BY OnlyKeeps
<1>2. Only(Append(t, x), S) = IF x \in S THEN Append(o, x) ELSE o
    BY OnlyAppend
<1>3. x \in S <=> Passes(x, f) /\ KeyOf(x, f) = key
    BY DEF KeyOf
<1>4. OfKey(Append(t, x), f, key) = Only(Append(t, x), S) /\ OfKey(t, f, key) = o
    BY DEF OfKey
<1>5. Details(Append(o, x), f) = Append(Details(o, f), Cells(x, Detail[f]))
    <2> HIDE DEF o
    <2> DEFINE c(row) == Cells(row, Detail[f])
               d == [i \in DOMAIN o |-> c(o[i])]
               e == [i \in DOMAIN Append(o, x) |-> c(Append(o, x)[i])]
    <2>1. Details(o, f) = d /\ Details(Append(o, x), f) = e
        BY DEF Details
    <2> HIDE DEF c
    <2>2. e = Append(d, c(x))
        BY <1>1
    <2> QED
        BY <2>1, <2>2 DEF c
<1> HIDE DEF o, S
<1> QED
    BY <1>2, <1>3, <1>4, <1>5

\* No row of a key, if none that passes has it.
LEMMA NoneOfKey ==
    ASSUME NEW t \in Seq(Row), NEW f \in Definition, NEW key,
           \A n \in DOMAIN Passing(t, f) : KeyOf(Passing(t, f)[n], f) # key
    PROVE  Details(OfKey(t, f, key), f) = <<>>
<1> DEFINE S == {row \in Row : Passes(row, f)}
           K == {row \in Row : Passes(row, f) /\ Cells(row, GroupBy[f]) = key}
<1>1. Passing(t, f) = Only(t, S) /\ OfKey(t, f, key) = Only(t, K)
    BY DEF Passing, OfKey
<1>2. Only(t, K) = <<>>
    <2> SUFFICES ASSUME Only(t, K) # <<>> PROVE FALSE
        OBVIOUS
    <2>1. Only(t, K) \in Seq(Row)
        BY OnlyKeeps
    <2>2. 1 \in DOMAIN Only(t, K)
        BY <2>1
    <2>3. PICK j \in DOMAIN t : t[j] \in K
        BY <2>2, OnlyKeeps
    <2>4. t[j] \in S
        BY <2>3
    <2> HIDE DEF S, K
    <2>5. PICK i \in DOMAIN Only(t, S) : Only(t, S)[i] = t[j]
        <3>1. \A n \in DOMAIN t : t[n] \in S =>
                  \E i \in DOMAIN Only(t, S) : Only(t, S)[i] = t[n]
            BY OnlyKeeps
        <3> QED
            BY <2>4, <3>1
    <2>6. KeyOf(t[j], f) = key
        BY <2>3 DEF KeyOf, K
    <2> QED
        BY <1>1, <2>5, <2>6
<1>3. Details(<<>>, f) = <<>>
    BY DEF Details
<1> QED
    BY <1>1, <1>2, <1>3

\* A group more, or a row more in a group, keeps what Regroups says.
LEMMA RegroupsStep ==
    ASSUME NEW t \in Seq(Row), NEW x \in Row, NEW f \in Definition,
           Regroups(Shape(t, f), t, f)
    PROVE  Regroups(Shape(Append(t, x), f), Append(t, x), f)
<1> DEFINE g == Shape(t, f)
           h == Shape(Append(t, x), f)
           p == Passing(t, f)
           q == Passing(Append(t, x), f)
           kx == KeyOf(x, f)
           dx == Cells(x, Detail[f])
           D(key) == Details(OfKey(t, f, key), f)
           E(key) == Details(OfKey(Append(t, x), f, key), f)
           K(row) == KeyOf(row, f)
<1>1. g \in Seq(Group) /\ p \in Seq(Row) /\ kx \in Seq(Value) /\ dx \in Seq(Value)
    BY ShapeType, PassingAppend, CellsType, ShapeAssumption DEF KeyOf
<1>2. /\ {g[i].key : i \in DOMAIN g} = {K(p[i]) : i \in DOMAIN p}
      /\ \A i \in DOMAIN g : g[i].rows = D(g[i].key)
      /\ \A i, j \in DOMAIN g : i < j =>
            \E n \in DOMAIN p : K(p[n]) = g[i].key /\ \A m \in 1 .. n : K(p[m]) # g[j].key
    BY RegroupsMeans
<1>3. h = IF Passes(x, f) THEN AddToGroup(g, kx, dx) ELSE g
    BY ShapeAppend DEF Joined, KeyOf
<1>4. q = IF Passes(x, f) THEN Append(p, x) ELSE p
    BY PassingAppend
<1>5. \A key : E(key) = IF Passes(x, f) /\ K(x) = key THEN Append(D(key), dx) ELSE D(key)
    BY OfKeyAppend
<1>6. (\A n \in DOMAIN p : K(p[n]) # kx) => D(kx) = <<>>
    BY NoneOfKey
<1>7. K(x) = kx
    OBVIOUS
<1>8. SUFFICES
      /\ {h[i].key : i \in DOMAIN h} = {K(q[i]) : i \in DOMAIN q}
      /\ \A i \in DOMAIN h : h[i].rows = E(h[i].key)
      /\ \A i, j \in DOMAIN h : i < j =>
            \E n \in DOMAIN q : K(q[n]) = h[i].key /\ \A m \in 1 .. n : K(q[m]) # h[j].key
    BY RegroupsMeans
<1> HIDE DEF g, h, p, q, kx, dx, D, E, K
<1>9. CASE ~ Passes(x, f)
    <2>1. h = g /\ q = p
        BY <1>3, <1>4, <1>9
    <2>2. \A i \in DOMAIN g : g[i].rows = E(g[i].key)
        <3>1. ASSUME NEW i \in DOMAIN g
              PROVE  E(g[i].key) = D(g[i].key)
            BY <1>5, <1>9, Zenon
        <3> QED
            BY <1>2, <3>1
    <2>3. {h[i].key : i \in DOMAIN h} = {K(q[i]) : i \in DOMAIN q}
        <3>1. \A i \in DOMAIN g : \E n \in DOMAIN p : K(p[n]) = g[i].key
            BY <1>2
        <3>2. \A n \in DOMAIN p : \E i \in DOMAIN g : g[i].key = K(p[n])
            BY <1>2
        <3>3. \A i \in DOMAIN h : \E n \in DOMAIN q : K(q[n]) = h[i].key
            BY <2>1, <3>1
        <3>4. \A n \in DOMAIN q : \E i \in DOMAIN h : h[i].key = K(q[n])
            BY <2>1, <3>2
        <3> QED
            BY <3>3, <3>4
    <2>4. \A i \in DOMAIN h : h[i].rows = E(h[i].key)
        BY <2>1, <2>2
    <2>5. \A i, j \in DOMAIN h : i < j =>
              \E n \in DOMAIN q : K(q[n]) = h[i].key /\ \A m \in 1 .. n : K(q[m]) # h[j].key
        BY <1>2, <2>1
    <2> QED
        BY <2>3, <2>4, <2>5
<1>10. CASE Passes(x, f)
    <2>1. h = AddToGroup(g, kx, dx) /\ q = Append(p, x)
        BY <1>3, <1>4, <1>10
    <2>2. /\ Len(p) \in Nat /\ DOMAIN p = 1 .. Len(p) /\ DOMAIN q = 1 .. (Len(p) + 1)
          /\ q[Len(p) + 1] = x
          /\ \A n \in DOMAIN p : n \in DOMAIN q /\ q[n] = p[n]
        BY <1>1, <2>1
    <2>3. /\ Len(g) \in Nat /\ DOMAIN g = 1 .. Len(g)
        BY <1>1
    <2>4. \A n \in DOMAIN p : \E i \in DOMAIN g : g[i].key = K(p[n])
        BY <1>2
    <2>5. \A i \in DOMAIN g : \E n \in DOMAIN p : K(p[n]) = g[i].key
        BY <1>2
    <2>6. CASE \E i \in DOMAIN g : g[i].key = kx
        <3>1. /\ DOMAIN h = DOMAIN g
              /\ \A i \in DOMAIN g :
                    /\ h[i].key = g[i].key
                    /\ h[i].rows = IF g[i].key = kx THEN Append(g[i].rows, dx) ELSE g[i].rows
            BY <1>1, <2>1, <2>6, JoinsGroup
        <3>2. {h[i].key : i \in DOMAIN h} = {K(q[i]) : i \in DOMAIN q}
            <4>1. ASSUME NEW i \in DOMAIN h
                  PROVE  \E n \in DOMAIN q : K(q[n]) = h[i].key
                BY <2>2, <2>5, <3>1
            <4>2. ASSUME NEW n \in DOMAIN q
                  PROVE  \E i \in DOMAIN h : h[i].key = K(q[n])
                <5>1. CASE n \in DOMAIN p
                    BY <2>2, <2>4, <3>1, <5>1
                <5>2. CASE n = Len(p) + 1
                    BY <1>7, <2>2, <2>6, <3>1, <5>2
                <5> QED
                    BY <2>2, <5>1, <5>2
            <4> QED
                BY <4>1, <4>2
        <3>3. ASSUME NEW i \in DOMAIN h
              PROVE  h[i].rows = E(h[i].key)
            <4>1. i \in DOMAIN g /\ h[i].key = g[i].key /\ g[i].rows = D(g[i].key)
                BY <1>2, <3>1
            <4>2. E(g[i].key) = IF K(x) = g[i].key THEN Append(D(g[i].key), dx) ELSE D(g[i].key)
                BY <1>5, <1>10
            <4>3. h[i].rows = IF g[i].key = kx THEN Append(g[i].rows, dx) ELSE g[i].rows
                BY <3>1, <4>1
            <4> QED
                BY <1>7, <4>1, <4>2, <4>3
        <3>4. \A i, j \in DOMAIN h : i < j =>
                  \E n \in DOMAIN q : K(q[n]) = h[i].key /\ \A m \in 1 .. n : K(q[m]) # h[j].key
            <4> SUFFICES ASSUME NEW i \in DOMAIN h, NEW j \in DOMAIN h, i < j
                         PROVE  \E n \in DOMAIN q : K(q[n]) = h[i].key /\ \A m \in 1 .. n : K(q[m]) # h[j].key
                OBVIOUS
            <4>1. PICK n \in DOMAIN p : K(p[n]) = g[i].key /\ \A m \in 1 .. n : K(p[m]) # g[j].key
                BY <1>2, <3>1
            <4>2. n \in DOMAIN q /\ K(q[n]) = h[i].key
                BY <2>2, <3>1, <4>1
            <4>3. ASSUME NEW m \in 1 .. n
                  PROVE  K(q[m]) # h[j].key
                <5>1. m \in DOMAIN p
                    BY <2>2
                <5> QED
                    BY <2>2, <3>1, <4>1, <5>1
            <4> QED
                BY <4>2, <4>3
        <3> QED
            BY <3>2, <3>3, <3>4
    <2>7. CASE ~ \E i \in DOMAIN g : g[i].key = kx
        <3>1. /\ DOMAIN h = DOMAIN g \cup {Len(g) + 1}
              /\ \A i \in DOMAIN g : h[i] = g[i]
              /\ h[Len(g) + 1] = [key |-> kx, rows |-> <<dx>>]
            BY <1>1, <2>1, <2>7, MakesGroup
        <3>2. \A n \in DOMAIN p : K(p[n]) # kx
            BY <2>4, <2>7
        <3>3. {h[i].key : i \in DOMAIN h} = {K(q[i]) : i \in DOMAIN q}
            <4>1. ASSUME NEW i \in DOMAIN h
                  PROVE  \E n \in DOMAIN q : K(q[n]) = h[i].key
                <5>1. CASE i \in DOMAIN g
                    BY <2>2, <2>5, <3>1, <5>1
                <5>2. CASE i = Len(g) + 1
                    <6>1. Len(p) + 1 \in DOMAIN q /\ K(q[Len(p) + 1]) = kx
                        BY <1>7, <2>2
                    <6> QED
                        BY <3>1, <5>2, <6>1
                <5> QED
                    BY <3>1, <5>1, <5>2
            <4>2. ASSUME NEW n \in DOMAIN q
                  PROVE  \E i \in DOMAIN h : h[i].key = K(q[n])
                <5>1. CASE n \in DOMAIN p
                    BY <2>2, <2>4, <3>1, <5>1
                <5>2. CASE n = Len(p) + 1
                    <6>1. Len(g) + 1 \in DOMAIN h /\ h[Len(g) + 1].key = kx
                        BY <3>1
                    <6> QED
                        BY <1>7, <2>2, <5>2, <6>1
                <5> QED
                    BY <2>2, <5>1, <5>2
            <4> QED
                BY <4>1, <4>2
        <3>4. ASSUME NEW i \in DOMAIN h
              PROVE  h[i].rows = E(h[i].key)
            <4>1. CASE i \in DOMAIN g
                BY <1>2, <1>5, <1>7, <2>7, <3>1, <4>1
            <4>2. CASE i = Len(g) + 1
                <5>1. D(kx) = <<>>
                    BY <1>6, <3>2
                <5>2. E(kx) = Append(D(kx), dx)
                    BY <1>5, <1>7, <1>10
                <5>3. Append(<<>>, dx) = <<dx>>
                    OBVIOUS
                <5>4. h[i].key = kx /\ h[i].rows = <<dx>>
                    BY <3>1, <4>2
                <5> QED
                    BY <5>1, <5>2, <5>3, <5>4
            <4> QED
                BY <3>1, <4>1, <4>2
        <3>5. ASSUME NEW i \in DOMAIN h, NEW j \in DOMAIN h, i < j
              PROVE  \E n \in DOMAIN q : K(q[n]) = h[i].key /\ \A m \in 1 .. n : K(q[m]) # h[j].key
            <4>1. i \in DOMAIN g
                BY <2>3, <3>1, <3>5
            <4>2. \E n \in DOMAIN p : K(p[n]) = h[i].key /\ \A m \in 1 .. n : K(p[m]) # h[j].key
                <5>1. CASE j \in DOMAIN g
                    BY <1>2, <3>1, <3>5, <4>1, <5>1
                <5>2. CASE j = Len(g) + 1
                    <6>1. PICK n \in DOMAIN p : K(p[n]) = g[i].key
                        BY <2>5, <4>1
                    <6>2. h[j].key = kx /\ h[i].key = g[i].key
                        BY <3>1, <4>1, <5>2
                    <6>3. \A m \in 1 .. n : m \in DOMAIN p
                        BY <2>2, <6>1
                    <6> QED
                        BY <3>2, <6>1, <6>2, <6>3
                <5> QED
                    BY <3>1, <5>1, <5>2
            <4>3. PICK n \in DOMAIN p : K(p[n]) = h[i].key /\ \A m \in 1 .. n : K(p[m]) # h[j].key
                BY <4>2
            <4>4. \A m \in 1 .. n : m \in DOMAIN p
                BY <2>2, <4>3
            <4>5. n \in DOMAIN q /\ q[n] = p[n] /\ \A m \in 1 .. n : q[m] = p[m]
                BY <2>2, <4>3, <4>4
            <4> QED
                BY <4>3, <4>5
        <3> QED
            BY <3>3, <3>4, <3>5
    <2> QED
        BY <2>6, <2>7
<1> QED
    BY <1>9, <1>10

\* Shape puts every row that passes, once, into the group of its key.
THEOREM ShapeRegroups ==
    ASSUME NEW of \in Seq(Row), NEW f \in Definition
    PROVE  Regroups(Shape(of, f), of, f)
<1> DEFINE P == {t \in Seq(Row) : Regroups(Shape(t, f), t, f)}
<1>1. <<>> \in P
    <2>1. Shape(<<>>, f) = <<>> /\ Passing(<<>>, f) = <<>>
        BY ShapeEmpty, OnlyEmpty DEF Passing
    <2>2. DOMAIN <<>> = {} /\ <<>> \in Seq(Row)
        OBVIOUS
    <2>3. Regroups(<<>>, <<>>, f)
        BY <2>1, <2>2, RegroupsMeans
    <2> QED
        BY <2>1, <2>2, <2>3
<1>2. ASSUME NEW t \in Seq(Row), NEW x \in Row, t \in P
      PROVE  Append(t, x) \in P
    BY <1>2, RegroupsStep
<1>3. Seq(Row) \subseteq P
    <2> HIDE DEF P
    <2> QED
        BY <1>1, <1>2, SequenceInduction
<1> QED
    BY <1>3

-------------------------------------------------------------------------------
(* Answers and sections.                                                   *)

AnswerType == [by : Plugin, rows : Seq(Row)]

\* The answer that is kept of a dataset is one of it.
LEMMA KeptIsInstalled ==
    ASSUME NEW T, NEW of \in Seq(T), NEW d, Installed(of, d) # {}
    PROVE  /\ Kept(of, d) \in Installed(of, d) /\ Kept(of, d) \in DOMAIN of
           /\ Supplies[of[Kept(of, d)].by] = d
<1> DEFINE I == Installed(of, d)
           N == Len(of)
           R == {N - i : i \in I}
<1>1. N \in Nat /\ \A i \in I : i \in 1 .. N
    BY DEF Installed
<1> HIDE DEF I
<1>2. R \in SUBSET Nat /\ R # {}
    BY <1>1 DEF I
<1> HIDE DEF R
<1>3. PICK n \in R : \A m \in R : n <= m
    BY <1>2, LeastNumber
<1>4. PICK i \in I : n = N - i
    BY DEF R
<1>5. ASSUME NEW j \in I
      PROVE  j <= i
    <2>1. N - j \in R
        BY DEF R
    <2> QED
        BY <1>1, <1>3, <1>4, <2>1
<1>6. Kept(of, d) \in I
    BY <1>4, <1>5 DEF Kept, I
<1> QED
    BY <1>6 DEF I, Installed

Made(s, d, by, state, groups) ==
    /\ s \in Sections
    /\ s.dataset = d /\ s.by = by /\ s.state = state /\ s.groups = groups

LEMMA SectionType ==
    ASSUME NEW d \in Dataset, NEW by \in Plugin \cup {None},
           NEW state \in {"not installed", "lacks columns", "shaped", "flat"},
           NEW groups \in Seq(Group) \cup Seq(Row)
    PROVE  Made(Section(d, by, state, groups), d, by, state, groups)
BY DEF Made, Section, Sections, Groups, Group

\* The section of a dataset in a report of a definition.
LEMMA ShapedSection ==
    ASSUME NEW of \in Seq(AnswerType), NEW d \in Dataset, NEW f \in Definition
    PROVE  /\ Shaped(of, d, f) \in Sections
           /\ Shaped(of, d, f).dataset = d
           /\ IF Shaped(of, d, f).state = "not installed"
              THEN Installed(of, d) = {} /\ Shaped(of, d, f).by = None
              ELSE /\ Installed(of, d) # {} /\ Shaped(of, d, f).by = of[Kept(of, d)].by
                   /\ Shaped(of, d, f).state = "shaped" =>
                          Shaped(of, d, f).groups = Shape(of[Kept(of, d)].rows, f)
<1>1. <<>> \in Seq(Group)
    OBVIOUS
<1>2. CASE Installed(of, d) = {}
    <2>1. Shaped(of, d, f) = Section(d, None, "not installed", <<>>)
        BY <1>2 DEF Shaped
    <2>2. Made(Section(d, None, "not installed", <<>>), d, None, "not installed", <<>>)
        BY <1>1, SectionType
    <2> QED
        BY <1>2, <2>1, <2>2 DEF Made
<1>3. CASE Installed(of, d) # {}
    <2> DEFINE a == of[Kept(of, d)]
    <2>1. a \in AnswerType
        BY <1>3, KeptIsInstalled
    <2>2. a.by \in Plugin /\ a.rows \in Seq(Row)
        BY <2>1 DEF AnswerType
    <2>3. Shape(a.rows, f) \in Seq(Group)
        BY <2>2, ShapeType
    <2>4. Shaped(of, d, f) = IF Referenced(f) \subseteq Columns[d]
                             THEN Section(d, a.by, "shaped", Shape(a.rows, f))
                             ELSE Section(d, a.by, "lacks columns", <<>>)
        BY <1>3 DEF Shaped
    <2> HIDE DEF a
    <2>5. CASE Referenced(f) \subseteq Columns[d]
        <3>1. Shaped(of, d, f) = Section(d, a.by, "shaped", Shape(a.rows, f))
            BY <2>4, <2>5
        <3>2. Made(Section(d, a.by, "shaped", Shape(a.rows, f)), d, a.by, "shaped", Shape(a.rows, f))
            BY <2>2, <2>3, SectionType
        <3> QED
            BY <1>3, <3>1, <3>2 DEF Made, a
    <2>6. CASE ~ Referenced(f) \subseteq Columns[d]
        <3>1. Shaped(of, d, f) = Section(d, a.by, "lacks columns", <<>>)
            BY <2>4, <2>6
        <3>2. Made(Section(d, a.by, "lacks columns", <<>>), d, a.by, "lacks columns", <<>>)
            BY <1>1, <2>2, SectionType
        <3> QED
            BY <1>3, <3>1, <3>2 DEF Made, a
    <2> QED
        BY <2>5, <2>6
<1> QED
    BY <1>2, <1>3

\* The sections of a flat report.
LEMMA FlatSections ==
    ASSUME NEW of \in Seq(AnswerType), \A i \in DOMAIN of : Supplies[of[i].by] # None
    PROVE  /\ Flat(of) \in Seq(Sections)
           /\ \A n \in DOMAIN Flat(of) :
                 /\ Flat(of)[n].state = "flat"
                 /\ Installed(of, Flat(of)[n].dataset) # {}
                 /\ Flat(of)[n].by = of[Kept(of, Flat(of)[n].dataset)].by
<1> DEFINE all == [i \in DOMAIN of |-> i]
           F == {i \in DOMAIN of : \A j \in 1 .. (i - 1) : Supplies[of[j].by] # Supplies[of[i].by]}
           firsts == Only(all, F)
           d(i) == Supplies[of[i].by]
           e(i) == Section(d(i), of[Kept(of, d(i))].by, "flat", of[Kept(of, d(i))].rows)
<1>1. all \in Seq(DOMAIN of)
    OBVIOUS
<1>2. firsts \in Seq(DOMAIN of)
    BY <1>1, OnlyKeeps
<1>3. Flat(of) = [n \in DOMAIN firsts |-> e(firsts[n])]
    BY Zenon DEF Flat
<1>4. ASSUME NEW i \in DOMAIN of
      PROVE  /\ e(i) \in Sections
             /\ e(i).state = "flat"
             /\ Installed(of, e(i).dataset) # {}
             /\ e(i).by = of[Kept(of, e(i).dataset)].by
    <2>1. of[i] \in AnswerType
        OBVIOUS
    <2>2. of[i].by \in Plugin /\ d(i) # None
        BY <2>1 DEF AnswerType
    <2>3. d(i) \in Dataset
        BY <2>2, PluginAssumption
    <2>4. Installed(of, d(i)) # {}
        BY DEF Installed
    <2>5. of[Kept(of, d(i))] \in AnswerType
        BY <2>4, KeptIsInstalled
    <2>6. of[Kept(of, d(i))].by \in Plugin /\ of[Kept(of, d(i))].rows \in Seq(Row)
        BY <2>5 DEF AnswerType
    <2>7. Made(e(i), d(i), of[Kept(of, d(i))].by, "flat", of[Kept(of, d(i))].rows)
        <3> HIDE DEF d
        <3> QED
            BY <2>3, <2>6, SectionType
    <2> HIDE DEF e, d
    <2> QED
        BY <2>4, <2>7 DEF Made
<1> HIDE DEF firsts, e, all, F
<1>5. Flat(of) \in Seq(Sections)
    <2>1. DOMAIN firsts = 1 .. Len(firsts) /\ Len(firsts) \in Nat
        BY <1>2
    <2>2. Flat(of) \in [1 .. Len(firsts) -> Sections]
        BY <1>2, <1>3, <1>4, <2>1
    <2> QED
        BY <2>1, <2>2
<1>6. ASSUME NEW n \in DOMAIN Flat(of)
      PROVE  firsts[n] \in DOMAIN of /\ Flat(of)[n] = e(firsts[n])
    BY <1>2, <1>3
<1> QED
    BY <1>4, <1>5, <1>6

-------------------------------------------------------------------------------
(* Listing.                                                                *)

\* What a plugin offers is what it provides.
LEMMA OffersProvided ==
    ASSUME NEW p \in Plugin
    PROVE  /\ \A i \in DOMAIN Offers(p) :
                 /\ Offers(p)[i] \in Binding
                 /\ Offers(p)[i][2] = p /\ Provided(Offers(p)[i][1], p)
           /\ \A k \in Contract : Provided(k, p) => <<k, p>> \in ToSet(Offers(p))
<1> DEFINE d == <<"definition", p>>
           s == <<"dataset", p>>
<1>1. d \in Binding /\ s \in Binding
    BY DEF Binding, Contract
<1>2. d[1] = "definition" /\ d[2] = p /\ s[1] = "dataset" /\ s[2] = p
    OBVIOUS
<1>3. Offers(p) = (IF Provided("definition", p) THEN <<d>> ELSE <<>>)
                      \o (IF Provided("dataset", p) THEN <<s>> ELSE <<>>)
    BY DEF Offers
<1> HIDE DEF d, s
<1>4. CASE Provided("definition", p) /\ Provided("dataset", p)
    <2>1. Offers(p) = <<d, s>>
        <3>1. <<d>> \o <<s>> = <<d, s>>
            <4> DEFINE u == <<d>> \o <<s>>
            <4>1. <<d>> \in Seq(Binding) /\ <<s>> \in Seq(Binding) /\ Len(<<d>>) = 1 /\ Len(<<s>>) = 1
                BY <1>1
            <4>2. u \in Seq(Binding) /\ Len(u) = 2 /\ u[1] = d /\ u[2] = s
                BY <4>1
            <4>3. DOMAIN u = 1 .. 2
                BY <4>2
            <4> HIDE DEF u
            <4>4. u = <<d, s>>
                BY <4>2, <4>3
            <4> QED
                BY <4>4 DEF u
        <3> QED
            BY <1>3, <1>4, <3>1
    <2>2. \A i \in DOMAIN Offers(p) : Offers(p)[i] = d \/ Offers(p)[i] = s
        BY <2>1
    <2>3. ToSet(Offers(p)) = {d, s}
        <3>1. ToSet(Offers(p)) = {Offers(p)[i] : i \in 1 .. 2}
            BY <2>1 DEF ToSet
        <3> QED
            BY <2>1, <3>1
    <2> QED
        BY <1>1, <1>2, <1>4, <2>2, <2>3 DEF Contract, d, s
<1>5. CASE Provided("definition", p) /\ ~ Provided("dataset", p)
    <2>1. Offers(p) = <<d>>
        BY <1>3, <1>5
    <2>2. ToSet(Offers(p)) = {d}
        BY <2>1 DEF ToSet
    <2> QED
        BY <1>1, <1>2, <1>5, <2>1, <2>2 DEF Contract, d
<1>6. CASE ~ Provided("definition", p) /\ Provided("dataset", p)
    <2>1. Offers(p) = <<s>>
        BY <1>3, <1>6
    <2>2. ToSet(Offers(p)) = {s}
        BY <2>1 DEF ToSet
    <2> QED
        BY <1>1, <1>2, <1>6, <2>1, <2>2 DEF Contract, s
<1>7. CASE ~ Provided("definition", p) /\ ~ Provided("dataset", p)
    <2>1. Offers(p) = <<>>
        BY <1>3, <1>7
    <2> QED
        BY <1>7, <2>1 DEF Contract
<1> QED
    BY <1>4, <1>5, <1>6, <1>7

\* The order of _bound lists the plugins that have bound the contract.
LEMMA BoundLists ==
    ASSUME bindings \in Seq(Binding), NEW k \in Contract
    PROVE  /\ Bound(k) \in Seq(Plugin)
           /\ \A p \in Plugin : <<k, p>> \in ToSet(bindings) => p \in ToSet(Bound(k))
           /\ \A p \in ToSet(Bound(k)) : <<k, p>> \in ToSet(bindings)
<1> DEFINE S == {k} \X Plugin
           of == Only(bindings, S)
<1>1. /\ of \in Seq(Binding)
      /\ \A i \in DOMAIN of : of[i] \in S /\ \E j \in DOMAIN bindings : bindings[j] = of[i]
      /\ \A j \in DOMAIN bindings : bindings[j] \in S => \E i \in DOMAIN of : of[i] = bindings[j]
    <2> HIDE DEF S
    <2> QED
        BY OnlyKeeps
<1>2. Bound(k) = [i \in DOMAIN of |-> of[i][2]]
    BY Zenon DEF Bound
<1> HIDE DEF of
<1>3. DOMAIN of = 1 .. Len(of) /\ Len(of) \in Nat
    BY <1>1
<1>4. \A i \in DOMAIN of : of[i][2] \in Plugin /\ of[i] = <<k, of[i][2]>>
    BY <1>1
<1>5. Bound(k) \in Seq(Plugin)
    <2>1. Bound(k) \in [1 .. Len(of) -> Plugin]
        BY <1>2, <1>3, <1>4
    <2> QED
        BY <1>3, <2>1
<1>6. ASSUME NEW p \in Plugin, <<k, p>> \in ToSet(bindings)
      PROVE  p \in ToSet(Bound(k))
    <2>1. PICK j \in DOMAIN bindings : bindings[j] = <<k, p>>
        BY <1>6 DEF ToSet
    <2>2. PICK i \in DOMAIN of : of[i] = <<k, p>>
        BY <1>1, <2>1
    <2>3. i \in DOMAIN Bound(k) /\ Bound(k)[i] = p
        BY <1>2, <2>2
    <2> QED
        BY <2>3 DEF ToSet
<1>7. ASSUME NEW p \in ToSet(Bound(k))
      PROVE  <<k, p>> \in ToSet(bindings)
    <2>1. PICK i \in DOMAIN of : of[i][2] = p
        BY <1>2 DEF ToSet
    <2>2. PICK j \in DOMAIN bindings : bindings[j] = of[i]
        BY <1>1, <2>1
    <2>3. bindings[j] = <<k, p>>
        BY <1>4, <2>1, <2>2
    <2> QED
        BY <2>3 DEF ToSet
<1> QED
    BY <1>5, <1>6, <1>7

\* What was listed now is bound at the present moment.
LEMMA ListedNow ==
    ASSUME bindings \in Seq(Binding), Offered, NEW k \in Contract, NEW answered, NEW seen,
           Moment \in seen
    PROVE  Listed(k, Bound(k), answered, seen)
<1>1. Moment.bindings = bindings
    BY DEF Moment
<1>2. \A p \in Plugin : <<k, p>> \in ToSet(Moment.bindings) => p \in ToSet(Bound(k)) \cup answered
    BY <1>1, BoundLists
<1>3. ASSUME NEW p \in ToSet(Bound(k))
      PROVE  Provided(k, p) /\ <<k, p>> \in ToSet(Moment.bindings)
    <2>1. <<k, p>> \in ToSet(bindings)
        BY BoundLists
    <2>2. PICK n \in DOMAIN bindings : bindings[n] = <<k, p>>
        BY <2>1 DEF ToSet
    <2>3. Provided(bindings[n][1], bindings[n][2])
        BY DEF Offered
    <2>4. bindings[n][1] = k /\ bindings[n][2] = p
        BY <2>2
    <2> QED
        BY <1>1, <2>1, <2>3, <2>4
<1> HIDE DEF Moment
<1> QED
    BY <1>2, <1>3 DEF Listed

\* Who has answered leaves the list.
LEMMA ListedOn ==
    ASSUME NEW k, NEW asked \in Seq(Plugin), asked # <<>>, NEW answered, NEW more, NEW seen,
           Listed(k, asked, answered, seen), answered \cup {Head(asked)} \subseteq more
    PROVE  Listed(k, Tail(asked), more, seen)
<1>1. ToSet(asked) = {Head(asked)} \cup ToSet(Tail(asked))
    BY ToSetHead
<1> QED
    BY <1>1 DEF Listed

\* Nobody is left, and so whoever was bound has answered.
LEMMA ListedOut ==
    ASSUME NEW k, NEW answered, NEW seen, Listed(k, <<>>, answered, seen)
    PROVE  \E now \in seen : \A p \in Plugin : <<k, p>> \in ToSet(now.bindings) => p \in answered
<1>1. ToSet(<<>>) = {}
    BY DEF ToSet
<1> QED
    BY <1>1 DEF Listed

-------------------------------------------------------------------------------
(* As more is seen.                                                        *)

LEMMA MoreSeen ==
    ASSUME NEW seen, NEW more, seen \subseteq more, NEW k, NEW asked, NEW answered,
           NEW p, NEW wanted, NEW bound, NEW a, NEW what, NEW s, NEW of, NEW at
    PROVE  /\ Listed(k, asked, answered, seen) => Listed(k, asked, answered, more)
           /\ Deciding(p, wanted, bound, seen) => Deciding(p, wanted, bound, more)
           /\ Vouched(a, wanted, what, bound, seen) => Vouched(a, wanted, what, bound, more)
           /\ Told(s, what, of, seen) => Told(s, what, of, more)
           /\ Refused(what, at, bound, seen) => Refused(what, at, bound, more)
<1>1. \A c : Given(c, bound, seen) => Given(c, bound, more)
    BY DEF Given
<1>2. \A q : WasOwned(q, seen) => WasOwned(q, more)
    BY DEF WasOwned
<1>3. Listed(k, asked, answered, seen) => Listed(k, asked, answered, more)
    BY DEF Listed
<1>4. Deciding(p, wanted, bound, seen) => Deciding(p, wanted, bound, more)
    BY <1>1, <1>2 DEF Deciding
<1>5. Vouched(a, wanted, what, bound, seen) => Vouched(a, wanted, what, bound, more)
    BY <1>1, <1>2 DEF Vouched
<1>6. Told(s, what, of, seen) => Told(s, what, of, more)
    BY DEF Told
<1>7. Refused(what, at, bound, seen) => Refused(what, at, bound, more)
    BY DEF Refused
<1> QED
    BY <1>3, <1>4, <1>5, <1>6, <1>7

-------------------------------------------------------------------------------
(* One request.                                                            *)

\* A step of request r, by the values it leaves.
Becomes(r, l, b, q, w, n, a, m, h) ==
    /\ bindings' = bindings /\ owned' = owned /\ granted' = granted /\ rows' = rows
    /\ changes' = changes /\ call' = call
    /\ pc' = [pc EXCEPT ![r] = l]
    /\ caps' = [caps EXCEPT ![r] = b]
    /\ queue' = [queue EXCEPT ![r] = q]
    /\ wants' = [wants EXCEPT ![r] = w]
    /\ found' = [found EXCEPT ![r] = n]
    /\ answers' = [answers EXCEPT ![r] = a]
    /\ report' = [report EXCEPT ![r] = m]
    /\ moments' = [moments EXCEPT ![r] = h]

\* The types of what it leaves.
Fitting(l, b, q, w, n, a, m, h) ==
    /\ l \in {"idle"} \cup Running \cup Ended
    /\ b \in SUBSET Capability
    /\ q \in Seq(Plugin)
    /\ w \in SUBSET Capability
    /\ n \in Seq(Plugin)
    /\ a \in Seq(AnswerType)
    /\ m \in Seq(Sections)
    /\ h \in SUBSET Moments

\* What the invariant says of request r.
LEMMA OfRequest ==
    ASSUME IInv, NEW r \in Request
    PROVE  /\ call[r] \in Call
           /\ Fitting(pc[r], caps[r], queue[r], wants[r], found[r], answers[r], report[r], moments[r])
           /\ pc[r] \in Running => Moment \in moments[r]
           /\ Sound(call[r], pc[r], caps[r], queue[r], wants[r], found[r], answers[r], report[r], moments[r])
<1>1. TypeOK
    BY DEF IInv
<1>2. /\ pc[r] \in Running => Moment \in moments[r]
      /\ Sound(call[r], pc[r], caps[r], queue[r], wants[r], found[r], answers[r], report[r], moments[r])
    BY DEF IInv
<1> QED
    BY <1>1, <1>2 DEF TypeOK, Fitting, AnswerType

LEMMA MomentType ==
    ASSUME TypeOK
    PROVE  Moment \in Moments /\ Moment.bindings = bindings /\ Moment.owned = owned
           /\ Moment.granted = granted /\ Moment.rows = rows
BY DEF TypeOK, Moment, Moments

\* A step of one request keeps the invariant if what it leaves is sound.
LEMMA BecomesSound ==
    ASSUME IInv, NEW r \in Request,
           NEW l, NEW b, NEW q, NEW w, NEW n, NEW a, NEW m, NEW h,
           Becomes(r, l, b, q, w, n, a, m, h), Fitting(l, b, q, w, n, a, m, h),
           Sound(call[r], l, b, q, w, n, a, m, h), l \in Running => Moment \in h
    PROVE  IInv'
<1>1. TypeOK'
    BY DEF IInv, TypeOK, Becomes, Fitting, AnswerType
<1>2. Offered'
    BY DEF IInv, Offered, Becomes
<1>3. Moment' = Moment
    BY DEF Moment, Becomes
<1>4. ASSUME NEW o \in Request
      PROVE  /\ pc'[o] \in Running => Moment' \in moments'[o]
             /\ Sound(call'[o], pc'[o], caps'[o], queue'[o], wants'[o], found'[o], answers'[o], report'[o],
                      moments'[o])
    <2>1. TypeOK
        BY DEF IInv
    <2>2. CASE o = r
        <3>1. /\ call'[o] = call[r] /\ pc'[o] = l /\ caps'[o] = b /\ queue'[o] = q /\ wants'[o] = w
              /\ found'[o] = n /\ answers'[o] = a /\ report'[o] = m /\ moments'[o] = h
            BY <2>1, <2>2 DEF TypeOK, Becomes
        <3> QED
            BY <1>3, <3>1
    <2>3. CASE o # r
        <3>1. /\ call'[o] = call[o] /\ pc'[o] = pc[o] /\ caps'[o] = caps[o] /\ queue'[o] = queue[o]
              /\ wants'[o] = wants[o] /\ found'[o] = found[o] /\ answers'[o] = answers[o]
              /\ report'[o] = report[o] /\ moments'[o] = moments[o]
            BY <2>1, <2>3 DEF TypeOK, Becomes
        <3> QED
            BY <1>3, <3>1, OfRequest
    <2> QED
        BY <2>2, <2>3
<1> QED
    BY <1>1, <1>2, <1>4 DEF IInv

-------------------------------------------------------------------------------
(* What changes meanwhile.                                                 *)

LEMMA MoreSound ==
    ASSUME NEW l, NEW b, NEW q, NEW w, NEW n, NEW a, NEW m, NEW h, NEW what,
           NEW more, h \subseteq more, Sound(what, l, b, q, w, n, a, m, h)
    PROVE  Sound(what, l, b, q, w, n, a, m, more)
<1>1. ASSUME NEW k, NEW answered
      PROVE  Listed(k, q, answered, h) => Listed(k, q, answered, more)
    BY MoreSeen
<1>2. Deciding(Head(q), w, b, h) => Deciding(Head(q), w, b, more)
    BY MoreSeen
<1>3. ASSUME NEW x, NEW wanted
      PROVE  Vouched(x, wanted, what, b, h) => Vouched(x, wanted, what, b, more)
    BY MoreSeen
<1>4. ASSUME NEW s
      PROVE  Told(s, what, a, h) => Told(s, what, a, more)
    BY MoreSeen
<1>5. Refused(what, l, b, h) => Refused(what, l, b, more)
    BY MoreSeen
<1>6. l \in {"catalogue", "lookup"} => Listed("definition", q, ToSet(n), more)
    BY <1>1 DEF Sound
<1>7. l \in {"dataset", "decide", "join"} => Listed("dataset", q, {a[i].by : i \in DOMAIN a}, more)
    BY <1>1 DEF Sound
<1>8. l = "decide" => Deciding(Head(q), w, b, more)
    BY <1>2 DEF Sound
<1>9. l \in {"dataset", "decide", "join", "compose", "done"} => \A i \in DOMAIN a :
          Vouched(a[i], IF l = "join" /\ i = Len(a) THEN w ELSE {}, what, b, more)
    BY <1>3 DEF Sound
<1>10. \A i \in DOMAIN m : Told(m[i], what, a, more)
    BY <1>4 DEF Sound
<1> QED
    BY <1>5, <1>6, <1>7, <1>8, <1>9, <1>10 DEF Sound

\* A step beside the requests keeps the invariant: they see more.
LEMMA BesideSound ==
    ASSUME IInv, Elsewhere, Noted,
           bindings' \in Seq(Binding), owned' \in SUBSET Plugin, granted' \in SUBSET Grantable,
           rows' \in [Plugin -> Seq(Row)], changes' \in 0 .. MaxChanges, Offered'
    PROVE  IInv'
<1>1. TypeOK
    BY DEF IInv
<1>2. /\ call' = call /\ pc' = pc /\ caps' = caps /\ queue' = queue /\ wants' = wants
      /\ found' = found /\ answers' = answers /\ report' = report
    BY DEF Elsewhere
<1>3. Moment' \in Moments
    BY DEF Moment, Moments
<1>4. /\ DOMAIN moments' = Request
      /\ \A o \in Request : moments'[o] = IF pc[o] \in Running THEN moments[o] \cup {Moment'} ELSE moments[o]
    BY DEF Noted
<1>5. moments' \in [Request -> SUBSET Moments]
    <2>1. ASSUME NEW o \in Request
          PROVE  moments'[o] \in SUBSET Moments
        <3>1. moments[o] \in SUBSET Moments
            BY <1>1 DEF TypeOK
        <3> HIDE DEF Moment
        <3> QED
            BY <1>3, <1>4, <3>1
    <2> HIDE DEF Moment
    <2>2. moments' = [o \in Request |-> IF pc[o] \in Running THEN moments[o] \cup {Moment'} ELSE moments[o]]
        BY DEF Noted
    <2> QED
        BY <1>4, <2>1, <2>2
<1>6. TypeOK'
    BY <1>1, <1>2, <1>5 DEF TypeOK
<1>7. ASSUME NEW o \in Request
      PROVE  /\ pc'[o] \in Running => Moment' \in moments'[o]
             /\ Sound(call'[o], pc'[o], caps'[o], queue'[o], wants'[o], found'[o], answers'[o], report'[o],
                      moments'[o])
    <2> HIDE DEF Moment
    <2>1. moments[o] \subseteq moments'[o]
        BY <1>4
    <2>2. Sound(call[o], pc[o], caps[o], queue[o], wants[o], found[o], answers[o], report[o], moments[o])
        BY OfRequest
    <2>3. Sound(call[o], pc[o], caps[o], queue[o], wants[o], found[o], answers[o], report[o], moments'[o])
        BY <2>1, <2>2, MoreSound
    <2>4. pc[o] \in Running => Moment' \in moments'[o]
        BY <1>4
    <2> QED
        BY <1>2, <2>3, <2>4
<1> QED
    BY <1>6, <1>7 DEF IInv

LEMMA BindNextSound ==
    ASSUME IInv, NEW p \in Plugin, BindNext(p)
    PROVE  IInv'
<1>1. TypeOK /\ Offered
    BY DEF IInv
<1>2. PICK i \in DOMAIN Offers(p) : /\ bindings' = Append(bindings, Offers(p)[i])
                                    /\ IF i = 1 THEN Changes ELSE UNCHANGED changes
    BY DEF BindNext
<1> DEFINE x == Offers(p)[i]
<1>3. x \in Binding /\ x[2] = p /\ Provided(x[1], p)
    BY OffersProvided
<1> HIDE DEF x
<1>4. bindings \in Seq(Binding) /\ bindings' = Append(bindings, x)
    BY <1>1, <1>2 DEF TypeOK, x
<1>5. bindings' \in Seq(Binding)
    BY <1>3, <1>4
<1>6. Offered'
    <2>1. ASSUME NEW n \in DOMAIN bindings'
          PROVE  Provided(bindings'[n][1], bindings'[n][2])
        <3>1. CASE n \in DOMAIN bindings
            <4>1. bindings'[n] = bindings[n]
                BY <1>3, <1>4, <3>1
            <4> QED
                BY <1>1, <3>1, <4>1 DEF Offered
        <3>2. CASE n \notin DOMAIN bindings
            <4>1. bindings'[n] = x
                BY <1>3, <1>4, <3>2
            <4> QED
                BY <1>3, <4>1
        <3> QED
            BY <3>1, <3>2
    <2> QED
        BY <2>1 DEF Offered, Provided
<1>7. changes' \in 0 .. MaxChanges
    BY <1>1, <1>2, InitialAssumption DEF TypeOK, Changes
<1>8. Elsewhere /\ Noted /\ owned' = owned /\ granted' = granted /\ rows' = rows
    BY DEF BindNext
<1> QED
    BY <1>1, <1>5, <1>6, <1>7, <1>8, BesideSound DEF TypeOK

LEMMA UnbindSound ==
    ASSUME IInv, NEW p \in Plugin, Unbind(p)
    PROVE  IInv'
<1>1. TypeOK /\ Offered
    BY DEF IInv
<1> DEFINE S == Contract \X (Plugin \ {p})
<1>2. bindings' = Only(bindings, S) /\ Changes
    BY DEF Unbind
<1> HIDE DEF S
<1>3. /\ bindings' \in Seq(Binding)
      /\ \A i \in DOMAIN bindings' : \E j \in DOMAIN bindings : bindings[j] = bindings'[i]
    <2>1. bindings \in Seq(Binding)
        BY <1>1 DEF TypeOK
    <2> QED
        BY <1>2, <2>1, OnlyKeeps
<1>4. Offered'
    <2>1. ASSUME NEW n \in DOMAIN bindings'
          PROVE  Provided(bindings'[n][1], bindings'[n][2])
        <3>1. PICK j \in DOMAIN bindings : bindings[j] = bindings'[n]
            BY <1>3
        <3>2. Provided(bindings[j][1], bindings[j][2])
            BY <1>1 DEF Offered
        <3> QED
            BY <3>1, <3>2
    <2> QED
        BY <2>1 DEF Offered, Provided
<1>5. changes' \in 0 .. MaxChanges
    BY <1>1, <1>2, InitialAssumption DEF TypeOK, Changes
<1>6. Elsewhere /\ Noted /\ owned' = owned /\ granted' = granted /\ rows' = rows
    BY DEF Unbind
<1> QED
    BY <1>1, <1>3, <1>4, <1>5, <1>6, BesideSound DEF TypeOK

LEMMA OwnersSound ==
    ASSUME IInv, NEW p \in Plugin, RegisterOwner(p) \/ UnregisterOwner(p)
    PROVE  IInv'
<1>1. TypeOK /\ Offered
    BY DEF IInv
<1>2. /\ Elsewhere /\ Noted /\ bindings' = bindings /\ granted' = granted /\ rows' = rows
      /\ changes' = changes /\ owned' \in {owned \cup {p}, owned \ {p}}
    BY DEF RegisterOwner, UnregisterOwner
<1>3. owned' \in SUBSET Plugin
    BY <1>1, <1>2 DEF TypeOK
<1>4. Offered'
    BY <1>1, <1>2 DEF Offered
<1> QED
    BY <1>1, <1>2, <1>3, <1>4, BesideSound DEF TypeOK

LEMMA GrantsSound ==
    ASSUME IInv, ChangeGrants
    PROVE  IInv'
<1>1. TypeOK /\ Offered
    BY DEF IInv
<1>2. PICK g \in Grantable : granted' \in {granted \cup {g}, granted \ {g}}
    BY DEF ChangeGrants
<1>3. granted' \in SUBSET Grantable
    BY <1>1, <1>2 DEF TypeOK
<1>4. Elsewhere /\ Noted /\ bindings' = bindings /\ owned' = owned /\ rows' = rows
    BY DEF ChangeGrants
<1>5. changes' \in 0 .. MaxChanges
    BY <1>1, InitialAssumption DEF TypeOK, ChangeGrants, Changes
<1>6. Offered'
    BY <1>1, <1>4 DEF Offered
<1> QED
    BY <1>1, <1>3, <1>4, <1>5, <1>6, BesideSound DEF TypeOK

LEMMA RowsSound ==
    ASSUME IInv, NEW p \in Plugin, ChangeRows(p)
    PROVE  IInv'
<1>1. TypeOK /\ Offered
    BY DEF IInv
<1>2. rows \in [Plugin -> Seq(Row)] /\ rows[p] \in Seq(Row)
    BY <1>1 DEF TypeOK
<1>3. rows' \in [Plugin -> Seq(Row)]
    <2>1. ASSUME NEW row \in NewRows[p], rows' = [rows EXCEPT ![p] = Append(@, row)]
          PROVE  rows' \in [Plugin -> Seq(Row)]
        <3>1. row \in Row
            BY InitialAssumption
        <3>2. Append(rows[p], row) \in Seq(Row)
            BY <1>2, <3>1
        <3> QED
            BY <1>2, <2>1, <3>2
    <2>2. ASSUME rows[p] # <<>>, rows' = [rows EXCEPT ![p] = Tail(@)]
          PROVE  rows' \in [Plugin -> Seq(Row)]
        <3>1. Tail(rows[p]) \in Seq(Row)
            BY <1>2, <2>2
        <3> QED
            BY <1>2, <2>2, <3>1
    <2> QED
        BY <2>1, <2>2 DEF ChangeRows
<1>4. Elsewhere /\ Noted /\ bindings' = bindings /\ owned' = owned /\ granted' = granted
    BY DEF ChangeRows
<1>5. changes' \in 0 .. MaxChanges
    BY <1>1, InitialAssumption DEF TypeOK, ChangeRows, Changes
<1>6. Offered'
    BY <1>1, <1>4 DEF Offered
<1> QED
    BY <1>1, <1>3, <1>4, <1>5, <1>6, BesideSound DEF TypeOK

-------------------------------------------------------------------------------
(* The steps of a request.                                                 *)

LEMMA Unmoved ==
    ASSUME TypeOK, NEW r \in Request
    PROVE  /\ pc = [pc EXCEPT ![r] = pc[r]]
           /\ caps = [caps EXCEPT ![r] = caps[r]]
           /\ queue = [queue EXCEPT ![r] = queue[r]]
           /\ wants = [wants EXCEPT ![r] = wants[r]]
           /\ found = [found EXCEPT ![r] = found[r]]
           /\ answers = [answers EXCEPT ![r] = answers[r]]
           /\ report = [report EXCEPT ![r] = report[r]]
           /\ moments = [moments EXCEPT ![r] = moments[r]]
BY DEF TypeOK

\* A handle for the organization contains a scope of the organization, but not
\* that of a principal in it; that for a principal contains its own.
LEMMA HandleFacts ==
    /\ HandleContains(OrganizationScope, OrganizationScope)
    /\ ~ HandleContains(OrganizationScope, Resolve(Own, None, Caller))
    /\ HandleContains(SelfScope, SelfScope)
BY CallerAssumption, DimensionAssumption
   DEF HandleContains, OrganizationScope, SelfScope, Resolve, IsEmpty

\* A request that ends without a report keeps the invariant if it has a cause.
LEMMA EndsSound ==
    ASSUME IInv, NEW r \in Request, NEW l \in Ended \ {"done"}, NEW b \in SUBSET Capability,
           NEW n \in Seq(Plugin), NEW h \in SUBSET Moments,
           Becomes(r, l, b, queue[r], wants[r], n, answers[r], <<>>, h),
           Refused(call[r], l, b, h)
    PROVE  IInv'
<1>1. /\ call[r] \in Call
      /\ Fitting(pc[r], caps[r], queue[r], wants[r], found[r], answers[r], report[r], moments[r])
      /\ Placed(call[r], pc[r], caps[r], queue[r], wants[r], answers[r], report[r])
    BY OfRequest DEF Sound
<1>2. Fitting(l, b, queue[r], wants[r], n, answers[r], <<>>, h)
    BY <1>1 DEF Fitting
<1>3. Placed(call[r], l, b, queue[r], wants[r], answers[r], <<>>)
    BY <1>1 DEF Placed, Ended
<1>4. Sound(call[r], l, b, queue[r], wants[r], n, answers[r], <<>>, h)
    <2>1. l \notin {"catalogue", "lookup", "dataset", "decide", "join", "compose", "done"}
        BY DEF Ended
    <2>2. DOMAIN <<>> = {}
        OBVIOUS
    <2> QED
        BY <1>3, <2>1, <2>2 DEF Sound
<1>5. l \notin Running
    BY DEF Ended, Running
<1> QED
    BY <1>2, <1>4, <1>5, BecomesSound

\* In particular one that is denied.
LEMMA DeniedSound ==
    ASSUME IInv, NEW r \in Request, NEW b \in SUBSET Capability, NEW h \in SUBSET Moments,
           Becomes(r, "denied", b, queue[r], wants[r], found[r], answers[r], <<>>, h),
           NEW c \in Demanded(call[r]),
           \/ \E now \in h : ~ Permits(now.granted, c, HandleScope(call[r]))
           \/ c \notin b /\ c # Manage
    PROVE  IInv'
<1>1. Refused(call[r], "denied", b, h)
    BY DEF Refused
<1>2. "denied" \in Ended \ {"done"}
    BY DEF Ended
<1>3. found[r] \in Seq(Plugin)
    BY OfRequest DEF Fitting
<1> QED
    BY <1>1, <1>2, <1>3, EndsSound

\* Where a request has no report yet.
LEMMA NoReportYet ==
    ASSUME IInv, NEW r \in Request, pc[r] \notin {"compose", "done"}
    PROVE  report[r] = <<>>
BY OfRequest DEF Sound, Placed

LEMMA BeginCatalogueSound ==
    ASSUME IInv, NEW r \in Request, BeginCatalogue(r)
    PROVE  IInv'
<1>1. TypeOK /\ Offered
    BY DEF IInv
<1>2. pc[r] = "idle" /\ call[r].kind \in {"catalogue", "definition"}
    BY DEF BeginCatalogue
<1>3. /\ Fitting(pc[r], caps[r], queue[r], wants[r], found[r], answers[r], report[r], moments[r])
      /\ Placed(call[r], pc[r], caps[r], queue[r], wants[r], answers[r], report[r])
    BY OfRequest DEF Sound
<1>4. report[r] = <<>> /\ answers[r] = <<>>
    BY <1>2, <1>3 DEF Placed
<1>5. {Manage} \in SUBSET Capability /\ {Moment} \in SUBSET Moments
    BY <1>1, CapabilityAssumption, MomentType
<1>6. CASE Permits(granted, Manage, HandleScope(call[r]))
    <2>1. Becomes(r, "catalogue", {Manage}, Bound("definition"), wants[r], found[r], answers[r], report[r], {Moment})
        BY <1>1, <1>6, Unmoved DEF BeginCatalogue, Issue, List, Goto, Becomes, shared
    <2>2. Bound("definition") \in Seq(Plugin)
        BY <1>1, BoundLists DEF TypeOK, Contract
    <2>3. Fitting("catalogue", {Manage}, Bound("definition"), wants[r], found[r], answers[r], report[r], {Moment})
        BY <1>3, <1>5, <2>2 DEF Fitting, Running
    <2>4. Listed("definition", Bound("definition"), ToSet(found[r]), {Moment})
        BY <1>1, ListedNow DEF TypeOK, Contract
    <2>5. Placed(call[r], "catalogue", {Manage}, Bound("definition"), wants[r], answers[r], report[r])
        BY <1>2, <1>3, <1>4 DEF Placed
    <2>6. Sound(call[r], "catalogue", {Manage}, Bound("definition"), wants[r], found[r], answers[r], report[r],
                {Moment})
        BY <1>4, <2>4, <2>5 DEF Sound, Refused
    <2>7. Moment \in {Moment}
        OBVIOUS
    <2> QED
        BY <2>1, <2>3, <2>6, <2>7, BecomesSound
<1>7. CASE ~ Permits(granted, Manage, HandleScope(call[r]))
    <2>1. Becomes(r, "denied", {Manage}, queue[r], wants[r], found[r], answers[r], <<>>, {Moment})
        BY <1>1, <1>4, <1>7, Unmoved DEF BeginCatalogue, Issue, List, Goto, Becomes, shared
    <2>2. Manage \in Demanded(call[r])
        BY <1>2 DEF Demanded
    <2>3. \E now \in {Moment} : ~ Permits(now.granted, Manage, HandleScope(call[r]))
        BY <1>1, <1>7, MomentType
    <2> QED
        BY <1>5, <2>1, <2>2, <2>3, DeniedSound
<1> QED
    BY <1>6, <1>7

\* A request goes on with a new handle.
LEMMA IssuedSound ==
    ASSUME IInv, NEW r \in Request, pc[r] \in {"idle", "issue"},
           NEW l \in {"studio", "own"}, NEW b \in SUBSET Capability,
           Becomes(r, l, b, queue[r], wants[r], found[r], answers[r], report[r], {Moment}),
           Placed(call[r], l, b, queue[r], wants[r], answers[r], report[r])
    PROVE  IInv'
<1>1. TypeOK /\ report[r] = <<>>
    BY NoReportYet DEF IInv
<1>2. Fitting(pc[r], caps[r], queue[r], wants[r], found[r], answers[r], report[r], moments[r])
    BY OfRequest
<1>3. Fitting(l, b, queue[r], wants[r], found[r], answers[r], report[r], {Moment})
    BY <1>1, <1>2, MomentType DEF Fitting, Running
<1>4. Sound(call[r], l, b, queue[r], wants[r], found[r], answers[r], report[r], {Moment})
    BY <1>1 DEF Sound, Refused
<1>5. Moment \in {Moment}
    OBVIOUS
<1> QED
    BY <1>3, <1>4, <1>5, BecomesSound

LEMMA BeginComposeSound ==
    ASSUME IInv, NEW r \in Request, BeginCompose(r)
    PROVE  IInv'
<1>1. TypeOK /\ report[r] = <<>>
    BY NoReportYet DEF IInv, BeginCompose
<1>2. pc[r] = "idle" /\ call[r].kind = "compose"
    BY DEF BeginCompose
<1>3. Placed(call[r], pc[r], caps[r], queue[r], wants[r], answers[r], report[r])
    BY OfRequest DEF Sound
<1>4. Operator \in SUBSET Capability /\ {Moment} \in SUBSET Moments
    BY <1>1, CapabilityAssumption, MomentType
<1>5. CASE Permits(granted, Render, HandleScope(call[r]))
    <2>1. Becomes(r, "studio", Operator, queue[r], wants[r], found[r], answers[r], report[r], {Moment})
        BY <1>1, <1>5, Unmoved DEF BeginCompose, Issue, Goto, Becomes, shared
    <2>2. Placed(call[r], "studio", Operator, queue[r], wants[r], answers[r], report[r])
        BY <1>2, <1>3 DEF Placed
    <2> QED
        BY <1>2, <1>4, <2>1, <2>2, IssuedSound
<1>6. CASE ~ Permits(granted, Render, HandleScope(call[r]))
    <2>1. Becomes(r, "denied", Operator, queue[r], wants[r], found[r], answers[r], <<>>, {Moment})
        BY <1>1, <1>6, Unmoved DEF BeginCompose, Issue, Goto, Becomes, shared
    <2>2. Render \in Demanded(call[r])
        BY <1>2 DEF Demanded
    <2>3. \E now \in {Moment} : ~ Permits(now.granted, Render, HandleScope(call[r]))
        BY <1>1, <1>6, MomentType
    <2> QED
        BY <1>4, <2>1, <2>2, <2>3, DeniedSound
<1> QED
    BY <1>5, <1>6

LEMMA BeginSelfSound ==
    ASSUME IInv, NEW r \in Request, BeginSelf(r)
    PROVE  IInv'
<1>1. TypeOK /\ report[r] = <<>>
    BY NoReportYet DEF IInv, BeginSelf
<1>2. pc[r] = "idle" /\ call[r].kind = "self"
    BY DEF BeginSelf
<1>3. Placed(call[r], pc[r], caps[r], queue[r], wants[r], answers[r], report[r])
    BY OfRequest DEF Sound
<1>4. {SelfView} \in SUBSET Capability /\ {Moment} \in SUBSET Moments
    BY <1>1, CapabilityAssumption, MomentType
<1>5. CASE Permits(granted, SelfView, HandleScope(call[r]))
    <2>1. Becomes(r, "own", {SelfView}, queue[r], wants[r], found[r], answers[r], report[r], {Moment})
        BY <1>1, <1>5, Unmoved DEF BeginSelf, Issue, Goto, Becomes, shared
    <2>2. Placed(call[r], "own", {SelfView}, queue[r], wants[r], answers[r], report[r])
        BY <1>2, <1>3 DEF Placed
    <2> QED
        BY <1>2, <1>4, <2>1, <2>2, IssuedSound
<1>6. CASE ~ Permits(granted, SelfView, HandleScope(call[r]))
    <2>1. Becomes(r, "denied", {SelfView}, queue[r], wants[r], found[r], answers[r], <<>>, {Moment})
        BY <1>1, <1>6, Unmoved DEF BeginSelf, Issue, Goto, Becomes, shared
    <2>2. SelfView \in Demanded(call[r])
        BY <1>2 DEF Demanded
    <2>3. \E now \in {Moment} : ~ Permits(now.granted, SelfView, HandleScope(call[r]))
        BY <1>1, <1>6, MomentType
    <2> QED
        BY <1>4, <2>1, <2>2, <2>3, DeniedSound
<1> QED
    BY <1>5, <1>6

LEMMA IssueRenderSound ==
    ASSUME IInv, NEW r \in Request, IssueRender(r)
    PROVE  IInv'
<1> DEFINE b == {Render} \cup Required[call[r].definition]
<1>1. TypeOK /\ report[r] = <<>>
    BY NoReportYet DEF IInv, IssueRender
<1>2. Placed(call[r], pc[r], caps[r], queue[r], wants[r], answers[r], report[r])
    BY OfRequest DEF Sound
<1>3. pc[r] = "issue" /\ call[r].kind = "definition" /\ call[r].definition \in Definition
    BY <1>2 DEF IssueRender, Placed
<1>4. b \in SUBSET Capability /\ {Moment} \in SUBSET Moments
    BY <1>1, <1>3, CapabilityAssumption, MomentType
<1>5. Issue(r, b, Render, UNCHANGED queue, "studio")
    BY DEF IssueRender
<1>6. Placed(call[r], "studio", b, queue[r], wants[r], answers[r], report[r])
    BY <1>2, <1>3 DEF Placed
<1> HIDE DEF b
<1>7. CASE Permits(granted, Render, HandleScope(call[r]))
    <2>1. Becomes(r, "studio", b, queue[r], wants[r], found[r], answers[r], report[r], {Moment})
        BY <1>1, <1>5, <1>7, Unmoved DEF Issue, Goto, Becomes, shared
    <2> QED
        BY <1>3, <1>4, <1>6, <2>1, IssuedSound
<1>8. CASE ~ Permits(granted, Render, HandleScope(call[r]))
    <2>1. Becomes(r, "denied", b, queue[r], wants[r], found[r], answers[r], <<>>, {Moment})
        BY <1>1, <1>5, <1>8, Unmoved DEF Issue, Goto, Becomes, shared
    <2>2. Render \in Demanded(call[r])
        BY <1>3 DEF Demanded
    <2>3. \E now \in {Moment} : ~ Permits(now.granted, Render, HandleScope(call[r]))
        BY <1>1, <1>8, MomentType
    <2> QED
        BY <1>4, <2>1, <2>2, <2>3, DeniedSound
<1> QED
    BY <1>7, <1>8

LEMMA AskUnownedSound ==
    ASSUME IInv, NEW r \in Request, AskUnowned(r)
    PROVE  IInv'
<1> DEFINE p == Head(queue[r])
<1>1. TypeOK
    BY DEF IInv
<1>2. /\ pc[r] \in {"catalogue", "lookup", "dataset"} /\ queue[r] # <<>> /\ p \notin owned
      /\ report[r] = <<>>
    BY NoReportYet DEF AskUnowned
<1>3. /\ Fitting(pc[r], caps[r], queue[r], wants[r], found[r], answers[r], report[r], moments[r])
      /\ Sound(call[r], pc[r], caps[r], queue[r], wants[r], found[r], answers[r], report[r], moments[r])
      /\ Moment \in moments[r]
    BY <1>2, OfRequest DEF Running
<1>4. Becomes(r, "unowned", caps[r], queue[r], wants[r], found[r], answers[r], <<>>, moments[r])
    BY <1>1, <1>2, Unmoved DEF AskUnowned, Goto, Becomes, shared
<1>5. queue[r] \in Seq(Plugin) /\ p \in Plugin
    BY <1>2, <1>3 DEF Fitting
<1>6. p \in ToSet(queue[r])
    BY <1>2, <1>5, ToSetHead
<1>7. \E k \in Contract : Provided(k, p) /\ \E then \in moments[r] : <<k, p>> \in ToSet(then.bindings)
    <2>1. CASE pc[r] \in {"catalogue", "lookup"}
        <3>1. Listed("definition", queue[r], ToSet(found[r]), moments[r])
            BY <1>3, <2>1 DEF Sound
        <3> QED
            BY <1>6, <3>1 DEF Listed, Contract
    <2>2. CASE pc[r] = "dataset"
        <3>1. Listed("dataset", queue[r], {answers[r][i].by : i \in DOMAIN answers[r]}, moments[r])
            BY <1>3, <2>2 DEF Sound
        <3> QED
            BY <1>6, <3>1 DEF Listed, Contract
    <2> QED
        BY <1>2, <2>1, <2>2
<1>8. p \notin Moment.owned
    BY <1>1, <1>2, MomentType
<1> HIDE DEF p
<1>9. Refused(call[r], "unowned", caps[r], moments[r])
    <2>1. PICK k \in Contract, then \in moments[r] : Provided(k, p) /\ <<k, p>> \in ToSet(then.bindings)
        BY <1>7
    <2> QED
        BY <1>3, <1>5, <1>8, <2>1 DEF Refused
<1>10. "unowned" \in Ended \ {"done"}
    BY DEF Ended
<1> QED
    BY <1>3, <1>4, <1>9, <1>10, EndsSound DEF Fitting

LEMMA AnswerDefinitionSound ==
    ASSUME IInv, NEW r \in Request, AnswerDefinition(r)
    PROVE  IInv'
<1> DEFINE q == Tail(queue[r])
           n == Append(found[r], Head(queue[r]))
<1>1. TypeOK
    BY DEF IInv
<1>2. pc[r] \in {"catalogue", "lookup"} /\ queue[r] # <<>> /\ report[r] = <<>>
    BY NoReportYet DEF AnswerDefinition, Ask
<1>3. /\ Fitting(pc[r], caps[r], queue[r], wants[r], found[r], answers[r], report[r], moments[r])
      /\ Sound(call[r], pc[r], caps[r], queue[r], wants[r], found[r], answers[r], report[r], moments[r])
      /\ Moment \in moments[r]
    BY <1>2, OfRequest DEF Running
<1>4. Becomes(r, pc[r], caps[r], q, wants[r], n, answers[r], report[r], moments[r])
    BY <1>1, <1>2, Unmoved DEF TypeOK, AnswerDefinition, Becomes, shared
<1>5. queue[r] \in Seq(Plugin) /\ Head(queue[r]) \in Plugin /\ q \in Seq(Plugin) /\ found[r] \in Seq(Plugin)
    BY <1>2, <1>3 DEF Fitting
<1>6. ToSet(n) = ToSet(found[r]) \cup {Head(queue[r])} /\ n \in Seq(Plugin)
    BY <1>5, ToSetAppend
<1> HIDE DEF n
<1>7. Listed("definition", q, ToSet(n), moments[r])
    <2>1. Listed("definition", queue[r], ToSet(found[r]), moments[r])
        BY <1>2, <1>3 DEF Sound
    <2> QED
        BY <1>2, <1>5, <1>6, <2>1, ListedOn
<1> HIDE DEF q
<1>8. Fitting(pc[r], caps[r], q, wants[r], n, answers[r], report[r], moments[r])
    BY <1>3, <1>5, <1>6 DEF Fitting
<1>9. Placed(call[r], pc[r], caps[r], q, wants[r], answers[r], report[r])
    BY <1>2, <1>3 DEF Sound, Placed
<1>10. Sound(call[r], pc[r], caps[r], q, wants[r], n, answers[r], report[r], moments[r])
    BY <1>2, <1>3, <1>7, <1>9 DEF Sound
<1> QED
    BY <1>3, <1>4, <1>8, <1>10, BecomesSound

\* Whoever was listed has answered, and nobody with the definition.
LEMMA NotKnown ==
    ASSUME IInv, NEW r \in Request, pc[r] \in {"catalogue", "lookup"}, queue[r] = <<>>, ~ Known(r)
    PROVE  \E now \in moments[r] : \A p \in Plugin :
               Defines[p] = call[r].definition => <<"definition", p>> \notin ToSet(now.bindings)
<1>1. Listed("definition", <<>>, ToSet(found[r]), moments[r])
    BY OfRequest DEF Sound
<1>2. PICK now \in moments[r] : \A p \in Plugin :
          <<"definition", p>> \in ToSet(now.bindings) => p \in ToSet(found[r])
    BY <1>1, ListedOut
<1>3. ASSUME NEW p \in ToSet(found[r])
      PROVE  Defines[p] # call[r].definition
    BY DEF Known, ToSet
<1> QED
    BY <1>2, <1>3

LEMMA CataloguedSound ==
    ASSUME IInv, NEW r \in Request, Catalogued(r)
    PROVE  IInv'
<1>1. TypeOK
    BY DEF IInv
<1>2. pc[r] = "catalogue" /\ queue[r] = <<>> /\ report[r] = <<>>
    BY NoReportYet DEF Catalogued
<1>3. /\ Fitting(pc[r], caps[r], queue[r], wants[r], found[r], answers[r], report[r], moments[r])
      /\ Placed(call[r], pc[r], caps[r], queue[r], wants[r], answers[r], report[r])
      /\ Moment \in moments[r]
    BY <1>2, OfRequest DEF Running, Sound
<1>4. call[r].kind \in {"catalogue", "definition"} /\ answers[r] = <<>>
    BY <1>2, <1>3 DEF Placed
<1>5. <<>> \in Seq(Plugin)
    OBVIOUS
<1>6. CASE call[r].kind = "catalogue"
    <2>1. Becomes(r, "listed", caps[r], queue[r], wants[r], <<>>, answers[r], <<>>, moments[r])
        <3>1. pc' = [pc EXCEPT ![r] = "listed"]
            BY <1>6 DEF Catalogued, Goto
        <3> QED
            BY <1>1, <1>2, <3>1, Unmoved DEF Catalogued, Becomes, shared
    <2>2. Refused(call[r], "listed", caps[r], moments[r]) /\ "listed" \in Ended \ {"done"}
        BY DEF Refused, Ended
    <2> QED
        BY <1>3, <1>5, <2>1, <2>2, EndsSound DEF Fitting
<1>7. CASE call[r].kind # "catalogue" /\ Known(r)
    <2>1. Becomes(r, "issue", caps[r], queue[r], wants[r], <<>>, answers[r], report[r], moments[r])
        BY <1>1, <1>2, <1>7, Unmoved DEF Catalogued, Goto, Becomes, shared
    <2>2. Fitting("issue", caps[r], queue[r], wants[r], <<>>, answers[r], report[r], moments[r])
        BY <1>3, <1>5 DEF Fitting, Running
    <2>3. Placed(call[r], "issue", caps[r], queue[r], wants[r], answers[r], report[r])
        BY <1>2, <1>3, <1>4, <1>7 DEF Placed
    <2>4. Sound(call[r], "issue", caps[r], queue[r], wants[r], <<>>, answers[r], report[r], moments[r])
        BY <1>2, <2>3 DEF Sound, Refused
    <2> QED
        BY <1>3, <2>1, <2>2, <2>4, BecomesSound
<1>8. CASE call[r].kind # "catalogue" /\ ~ Known(r)
    <2>1. Becomes(r, "unknown", caps[r], queue[r], wants[r], <<>>, answers[r], <<>>, moments[r])
        BY <1>1, <1>2, <1>8, Unmoved DEF Catalogued, Goto, Becomes, shared
    <2>2. Refused(call[r], "unknown", caps[r], moments[r]) /\ "unknown" \in Ended \ {"done"}
        BY <1>2, <1>8, NotKnown DEF Refused, Ended
    <2> QED
        BY <1>3, <1>5, <2>1, <2>2, EndsSound DEF Fitting
<1> QED
    BY <1>6, <1>7, <1>8

\* What a request of the organization may not do, for want of a grant or of a
\* capability of its handle.
LEMMA Undecided ==
    ASSUME IInv, NEW r \in Request, call[r].kind \in {"definition", "compose"}, Moment \in moments[r],
           NEW c, c # Manage, ~ Decision(r, c, OrganizationScope)
    PROVE  \/ \E now \in moments[r] : ~ Permits(now.granted, c, HandleScope(call[r]))
           \/ c \notin caps[r] /\ c # Manage
<1>1. HandleScope(call[r]) = OrganizationScope
    BY DEF HandleScope
<1>2. c \notin caps[r] \/ ~ Permits(granted, c, OrganizationScope)
    BY <1>1, HandleFacts DEF Decision
<1>3. Moment.granted = granted
    BY MomentType DEF IInv
<1> HIDE DEF Moment
<1> QED
    BY <1>1, <1>2, <1>3

\* A request lists the datasets that are bound.
LEMMA DatasetsListed ==
    ASSUME IInv, NEW r \in Request, pc[r] \in {"studio", "lookup"},
           Becomes(r, "dataset", caps[r], Bound("dataset"), wants[r], found[r], answers[r], report[r], moments[r])
    PROVE  IInv'
<1>1. TypeOK /\ Offered /\ report[r] = <<>>
    BY NoReportYet DEF IInv
<1>2. /\ Fitting(pc[r], caps[r], queue[r], wants[r], found[r], answers[r], report[r], moments[r])
      /\ Placed(call[r], pc[r], caps[r], queue[r], wants[r], answers[r], report[r])
      /\ Moment \in moments[r]
    BY OfRequest DEF Running, Sound
<1>3. Bound("dataset") \in Seq(Plugin)
    BY <1>1, BoundLists DEF TypeOK, Contract
<1>4. Listed("dataset", Bound("dataset"), {answers[r][i].by : i \in DOMAIN answers[r]}, moments[r])
    BY <1>1, <1>2, ListedNow DEF TypeOK, Contract
<1>5. Fitting("dataset", caps[r], Bound("dataset"), wants[r], found[r], answers[r], report[r], moments[r])
    BY <1>2, <1>3 DEF Fitting, Running
<1>6. Placed(call[r], "dataset", caps[r], Bound("dataset"), wants[r], answers[r], report[r])
    BY <1>1, <1>2 DEF Placed
<1>7. answers[r] = <<>>
    BY <1>2 DEF Placed
<1>8. Sound(call[r], "dataset", caps[r], Bound("dataset"), wants[r], found[r], answers[r], report[r], moments[r])
    BY <1>1, <1>4, <1>6, <1>7 DEF Sound, Refused
<1> QED
    BY <1>2, <1>5, <1>8, BecomesSound

LEMMA AuthorizeSound ==
    ASSUME IInv, NEW r \in Request, Authorize(r)
    PROVE  IInv'
<1>1. TypeOK /\ Offered
    BY DEF IInv
<1>2. pc[r] = "studio" /\ report[r] = <<>>
    BY NoReportYet DEF Authorize
<1>3. /\ Fitting(pc[r], caps[r], queue[r], wants[r], found[r], answers[r], report[r], moments[r])
      /\ Placed(call[r], pc[r], caps[r], queue[r], wants[r], answers[r], report[r])
      /\ Moment \in moments[r]
    BY <1>2, OfRequest DEF Running, Sound
<1>4. call[r].kind \in {"definition", "compose"} /\ answers[r] = <<>>
    BY <1>2, <1>3 DEF Placed
<1>5. CASE ~ Decision(r, Render, OrganizationScope)
    <2>1. Becomes(r, "denied", caps[r], queue[r], wants[r], found[r], answers[r], <<>>, moments[r])
        BY <1>1, <1>2, <1>5, Unmoved DEF Authorize, Goto, Becomes, shared
    <2>2. Render \in Demanded(call[r]) /\ Render # Manage
        BY <1>4, CapabilityAssumption DEF Demanded
    <2>3. \/ \E now \in moments[r] : ~ Permits(now.granted, Render, HandleScope(call[r]))
          \/ Render \notin caps[r] /\ Render # Manage
        BY <1>3, <1>4, <1>5, <2>2, Undecided
    <2> QED
        BY <1>3, <2>1, <2>2, <2>3, DeniedSound DEF Fitting
<1>6. CASE Decision(r, Render, OrganizationScope) /\ call[r].kind = "compose"
    <2>1. Becomes(r, "dataset", caps[r], Bound("dataset"), wants[r], found[r], answers[r], report[r], moments[r])
        BY <1>1, <1>6, Unmoved DEF Authorize, List, Goto, Becomes, shared
    <2> QED
        BY <1>2, <2>1, DatasetsListed
<1>7. CASE Decision(r, Render, OrganizationScope) /\ call[r].kind # "compose"
    <2>1. Becomes(r, "lookup", caps[r], Bound("definition"), wants[r], found[r], answers[r], report[r], moments[r])
        BY <1>1, <1>7, Unmoved DEF Authorize, List, Goto, Becomes, shared
    <2>2. Bound("definition") \in Seq(Plugin)
        BY <1>1, BoundLists DEF TypeOK, Contract
    <2>3. Fitting("lookup", caps[r], Bound("definition"), wants[r], found[r], answers[r], report[r], moments[r])
        BY <1>3, <2>2 DEF Fitting, Running
    <2>4. Listed("definition", Bound("definition"), ToSet(found[r]), moments[r])
        BY <1>1, <1>3, ListedNow DEF TypeOK, Contract
    <2>5. Placed(call[r], "lookup", caps[r], Bound("definition"), wants[r], answers[r], report[r])
        BY <1>2, <1>3, <1>4, <1>7 DEF Placed
    <2>6. Sound(call[r], "lookup", caps[r], Bound("definition"), wants[r], found[r], answers[r], report[r],
                moments[r])
        BY <1>2, <2>4, <2>5 DEF Sound, Refused
    <2> QED
        BY <1>3, <2>1, <2>3, <2>6, BecomesSound
<1> QED
    BY <1>5, <1>6, <1>7

LEMMA LookedUpSound ==
    ASSUME IInv, NEW r \in Request, LookedUp(r)
    PROVE  IInv'
<1>1. TypeOK
    BY DEF IInv
<1>2. pc[r] = "lookup" /\ queue[r] = <<>> /\ report[r] = <<>>
    BY NoReportYet DEF LookedUp
<1>3. Fitting(pc[r], caps[r], queue[r], wants[r], found[r], answers[r], report[r], moments[r])
    BY OfRequest
<1>4. CASE Known(r)
    <2>1. Becomes(r, "dataset", caps[r], Bound("dataset"), wants[r], found[r], answers[r], report[r], moments[r])
        BY <1>1, <1>4, Unmoved DEF LookedUp, List, Goto, Becomes, shared
    <2> QED
        BY <1>2, <2>1, DatasetsListed
<1>5. CASE ~ Known(r)
    <2>1. Becomes(r, "missing", caps[r], queue[r], wants[r], found[r], answers[r], <<>>, moments[r])
        BY <1>1, <1>2, <1>5, Unmoved DEF LookedUp, Goto, Becomes, shared
    <2>2. Refused(call[r], "missing", caps[r], moments[r]) /\ "missing" \in Ended \ {"done"}
        BY <1>2, <1>5, NotKnown DEF Refused, Ended
    <2> QED
        BY <1>3, <2>1, <2>2, EndsSound DEF Fitting
<1> QED
    BY <1>4, <1>5

LEMMA AskDatasetSound ==
    ASSUME IInv, NEW r \in Request, AskDataset(r)
    PROVE  IInv'
<1> DEFINE p == Head(queue[r])
<1>1. TypeOK
    BY DEF IInv
<1>2. pc[r] = "dataset" /\ queue[r] # <<>> /\ p \in owned /\ report[r] = <<>>
    BY NoReportYet DEF AskDataset, Ask
<1>3. /\ Fitting(pc[r], caps[r], queue[r], wants[r], found[r], answers[r], report[r], moments[r])
      /\ Sound(call[r], pc[r], caps[r], queue[r], wants[r], found[r], answers[r], report[r], moments[r])
      /\ Moment \in moments[r]
    BY <1>2, OfRequest DEF Running
<1>4. p \in Plugin
    BY <1>2, <1>3 DEF Fitting
<1>5. Becomes(r, "decide", caps[r], queue[r], Needs[p], found[r], answers[r], report[r], moments[r])
    BY <1>1, Unmoved DEF AskDataset, Goto, Becomes, shared
<1>6. Fitting("decide", caps[r], queue[r], Needs[p], found[r], answers[r], report[r], moments[r])
    BY <1>3, <1>4, CapabilityAssumption DEF Fitting, Running
<1>7. Placed(call[r], "decide", caps[r], queue[r], Needs[p], answers[r], report[r])
    BY <1>2, <1>3 DEF Sound, Placed
<1>8. Deciding(p, Needs[p], caps[r], moments[r])
    <2>1. p \in Moment.owned
        BY <1>1, <1>2, MomentType
    <2> QED
        BY <1>3, <2>1 DEF Deciding, WasOwned
<1>9. Sound(call[r], "decide", caps[r], queue[r], Needs[p], found[r], answers[r], report[r], moments[r])
    BY <1>2, <1>3, <1>7, <1>8 DEF Sound, Refused
<1> QED
    BY <1>3, <1>5, <1>6, <1>9, BecomesSound

\* A decision taken is one less that is wanted.
LEMMA OneLess ==
    ASSUME NEW p, NEW wanted, NEW bound, NEW seen, NEW a, NEW what, NEW c, Given(c, bound, seen)
    PROVE  /\ Deciding(p, wanted, bound, seen) => Deciding(p, wanted \ {c}, bound, seen)
           /\ Vouched(a, wanted, what, bound, seen) => Vouched(a, wanted \ {c}, what, bound, seen)
<1>1. Deciding(p, wanted, bound, seen) => Deciding(p, wanted \ {c}, bound, seen)
    BY DEF Deciding
<1>2. Vouched(a, wanted, what, bound, seen) => Vouched(a, wanted \ {c}, what, bound, seen)
    BY DEF Vouched
<1> QED
    BY <1>1, <1>2

LEMMA DecideSound ==
    ASSUME IInv, NEW r \in Request, Decide(r)
    PROVE  IInv'
<1> DEFINE p == Head(queue[r])
<1>1. TypeOK
    BY DEF IInv
<1>2. pc[r] \in {"decide", "join"} /\ p # Self /\ report[r] = <<>>
    BY NoReportYet DEF Decide
<1>3. /\ Fitting(pc[r], caps[r], queue[r], wants[r], found[r], answers[r], report[r], moments[r])
      /\ Sound(call[r], pc[r], caps[r], queue[r], wants[r], found[r], answers[r], report[r], moments[r])
      /\ Moment \in moments[r]
    BY <1>2, OfRequest DEF Running
<1>4. Placed(call[r], pc[r], caps[r], queue[r], wants[r], answers[r], report[r])
    BY <1>3 DEF Sound
<1>5. call[r].kind \in {"definition", "compose"} /\ queue[r] # <<>>
    BY <1>2, <1>4 DEF Placed
<1>6. queue[r] \in Seq(Plugin) /\ p \in Plugin /\ p \in ToSet(queue[r])
    BY <1>3, <1>5, ToSetHead DEF Fitting
<1>7. Supplies[p] # None
    <2>1. Listed("dataset", queue[r], {answers[r][i].by : i \in DOMAIN answers[r]}, moments[r])
        BY <1>2, <1>3 DEF Sound
    <2> QED
        BY <1>6, <2>1 DEF Listed, Provided
<1>8. PICK c \in wants[r] :
          IF Decision(r, c, OrganizationScope)
          THEN wants' = [wants EXCEPT ![r] = @ \ {c}] /\ UNCHANGED pc
          ELSE Goto(r, "denied") /\ UNCHANGED wants
    BY DEF Decide
<1>9. c \in Asked(p, <<0>>) /\ c # Manage
    <2>1. c \in Needs[p] \cup NeedsPerRow[p]
        BY <1>2, <1>4 DEF Placed
    <2>2. <<0>> # <<>>
        OBVIOUS
    <2>3. c # Manage
        BY <1>6, <2>1, CapabilityAssumption
    <2> QED
        BY <2>1, <2>2, <2>3 DEF Asked
<1>10. CASE Decision(r, c, OrganizationScope)
    <2> DEFINE w == wants[r] \ {c}
    <2>1. Becomes(r, pc[r], caps[r], queue[r], w, found[r], answers[r], report[r], moments[r])
        BY <1>1, <1>8, <1>10, Unmoved DEF Decide, Becomes, shared
    <2>2. Given(c, caps[r], moments[r])
        <3>1. c \in caps[r] /\ Permits(Moment.granted, c, OrganizationScope)
            BY <1>1, <1>10, MomentType DEF Decision
        <3> QED
            BY <1>3, <3>1 DEF Given
    <2>3. Fitting(pc[r], caps[r], queue[r], w, found[r], answers[r], report[r], moments[r])
        BY <1>3 DEF Fitting
    <2>4. Placed(call[r], pc[r], caps[r], queue[r], w, answers[r], report[r])
        BY <1>2, <1>4 DEF Placed
    <2>5. pc[r] = "decide" => Deciding(p, w, caps[r], moments[r])
        BY <1>3, <2>2, OneLess DEF Sound
    <2>6. ASSUME NEW i \in DOMAIN answers[r]
          PROVE  Vouched(answers[r][i], IF pc[r] = "join" /\ i = Len(answers[r]) THEN w ELSE {},
                         call[r], caps[r], moments[r])
        <3>1. Vouched(answers[r][i], IF pc[r] = "join" /\ i = Len(answers[r]) THEN wants[r] ELSE {},
                      call[r], caps[r], moments[r])
            BY <1>2, <1>3 DEF Sound
        <3> HIDE DEF w
        <3>2. CASE pc[r] = "join" /\ i = Len(answers[r])
            <4>1. Vouched(answers[r][i], wants[r], call[r], caps[r], moments[r])
                BY <3>1, <3>2
            <4>2. Vouched(answers[r][i], wants[r] \ {c}, call[r], caps[r], moments[r])
                BY <2>2, <4>1, OneLess
            <4> QED
                BY <3>2, <4>2 DEF w
        <3>3. CASE ~ (pc[r] = "join" /\ i = Len(answers[r]))
            BY <3>1, <3>3
        <3> QED
            BY <3>2, <3>3
    <2> HIDE DEF w
    <2>7. Sound(call[r], pc[r], caps[r], queue[r], w, found[r], answers[r], report[r], moments[r])
        BY <1>2, <1>3, <2>4, <2>5, <2>6 DEF Sound
    <2> QED
        BY <1>3, <2>1, <2>3, <2>7, BecomesSound
<1>11. CASE ~ Decision(r, c, OrganizationScope)
    <2>1. Becomes(r, "denied", caps[r], queue[r], wants[r], found[r], answers[r], <<>>, moments[r])
        BY <1>1, <1>2, <1>8, <1>11, Unmoved DEF Decide, Goto, Becomes, shared
    <2>2. c \in Demanded(call[r])
        <3>1. c \in UNION {Asked(q, <<0>>) : q \in {o \in Plugin : Supplies[o] # None} \ {Self}}
            BY <1>2, <1>6, <1>7, <1>9
        <3> QED
            BY <1>5, <3>1 DEF Demanded
    <2>3. \/ \E now \in moments[r] : ~ Permits(now.granted, c, HandleScope(call[r]))
          \/ c \notin caps[r] /\ c # Manage
        BY <1>3, <1>5, <1>9, <1>11, Undecided
    <2> QED
        BY <1>3, <2>1, <2>2, <2>3, DeniedSound DEF Fitting
<1> QED
    BY <1>10, <1>11

\* The plugin that is asked answers.
LEMMA AnswerSound ==
    ASSUME IInv, NEW r \in Request, pc[r] = "decide",
           NEW a \in AnswerType, a.by = Head(queue[r]),
           NEW w \in SUBSET Capability, w \subseteq NeedsPerRow[Head(queue[r])],
           Vouched(a, w, call[r], caps[r], moments[r]),
           Becomes(r, "join", caps[r], queue[r], w, found[r], Append(answers[r], a), report[r], moments[r])
    PROVE  IInv'
<1> DEFINE of == Append(answers[r], a)
<1>1. report[r] = <<>>
    BY NoReportYet
<1>2. /\ Fitting(pc[r], caps[r], queue[r], wants[r], found[r], answers[r], report[r], moments[r])
      /\ Sound(call[r], pc[r], caps[r], queue[r], wants[r], found[r], answers[r], report[r], moments[r])
      /\ Moment \in moments[r]
    BY OfRequest DEF Running
<1>3. /\ Len(answers[r]) \in Nat /\ of \in Seq(AnswerType) /\ of # <<>>
      /\ Len(of) = Len(answers[r]) + 1 /\ of[Len(of)] = a
      /\ \A i \in DOMAIN answers[r] : i \in DOMAIN of /\ of[i] = answers[r][i] /\ i # Len(of)
      /\ \A i \in DOMAIN of : i \in DOMAIN answers[r] \/ i = Len(of)
    <2>1. answers[r] \in Seq(AnswerType)
        BY <1>2 DEF Fitting
    <2>2. /\ Len(answers[r]) \in Nat /\ of \in Seq(AnswerType)
          /\ Len(of) = Len(answers[r]) + 1 /\ of[Len(answers[r]) + 1] = a
          /\ DOMAIN answers[r] = 1 .. Len(answers[r]) /\ DOMAIN of = 1 .. (Len(answers[r]) + 1)
        BY <2>1
    <2>3. \A i \in DOMAIN answers[r] : of[i] = answers[r][i]
        BY <2>1
    <2> HIDE DEF of
    <2> QED
        BY <2>2, <2>3
<1> HIDE DEF of
<1>4. Fitting("join", caps[r], queue[r], w, found[r], of, report[r], moments[r])
    BY <1>2, <1>3 DEF Fitting, Running
<1>5. Placed(call[r], "join", caps[r], queue[r], w, of, report[r])
    BY <1>1, <1>2, <1>3 DEF Sound, Placed
<1>6. Listed("dataset", queue[r], {of[i].by : i \in DOMAIN of}, moments[r])
    <2>1. Listed("dataset", queue[r], {answers[r][i].by : i \in DOMAIN answers[r]}, moments[r])
        BY <1>2 DEF Sound
    <2>2. {answers[r][i].by : i \in DOMAIN answers[r]} \subseteq {of[i].by : i \in DOMAIN of}
        BY <1>3
    <2> QED
        BY <2>1, <2>2 DEF Listed
<1>7. ASSUME NEW i \in DOMAIN of
      PROVE  Vouched(of[i], IF i = Len(of) THEN w ELSE {}, call[r], caps[r], moments[r])
    <2>1. CASE i = Len(of)
        BY <1>3, <2>1
    <2>2. CASE i # Len(of)
        <3>1. i \in DOMAIN answers[r] /\ of[i] = answers[r][i]
            BY <1>3, <2>2
        <3>2. Vouched(answers[r][i], {}, call[r], caps[r], moments[r])
            BY <1>2, <3>1 DEF Sound
        <3> QED
            BY <2>2, <3>1, <3>2
    <2> QED
        BY <2>1, <2>2
<1>8. Sound(call[r], "join", caps[r], queue[r], w, found[r], of, report[r], moments[r])
    BY <1>1, <1>5, <1>6, <1>7 DEF Sound, Refused
<1>9. Becomes(r, "join", caps[r], queue[r], w, found[r], of, report[r], moments[r])
    BY DEF of
<1> QED
    BY <1>2, <1>4, <1>8, <1>9, BecomesSound

\* What a request that asks a plugin knows of it.
LEMMA InHand ==
    ASSUME IInv, NEW r \in Request, pc[r] = "decide"
    PROVE  /\ TypeOK /\ Moment \in moments[r] /\ report[r] = <<>>
           /\ Head(queue[r]) \in Plugin /\ Supplies[Head(queue[r])] # None
           /\ call[r].kind \in {"definition", "compose"}
           /\ Deciding(Head(queue[r]), wants[r], caps[r], moments[r])
<1>1. /\ Fitting(pc[r], caps[r], queue[r], wants[r], found[r], answers[r], report[r], moments[r])
      /\ Sound(call[r], pc[r], caps[r], queue[r], wants[r], found[r], answers[r], report[r], moments[r])
      /\ Moment \in moments[r] /\ TypeOK
    BY OfRequest DEF Running, IInv
<1>2. queue[r] # <<>> /\ call[r].kind \in {"definition", "compose"} /\ report[r] = <<>>
    BY <1>1 DEF Sound, Placed
<1>3. Head(queue[r]) \in Plugin /\ Head(queue[r]) \in ToSet(queue[r])
    BY <1>1, <1>2, ToSetHead DEF Fitting
<1>4. Listed("dataset", queue[r], {answers[r][i].by : i \in DOMAIN answers[r]}, moments[r])
    BY <1>1 DEF Sound
<1>5. Supplies[Head(queue[r])] # None
    BY <1>3, <1>4 DEF Listed, Provided
<1> QED
    BY <1>1, <1>2, <1>3, <1>5 DEF Sound

LEMMA ReadRowsSound ==
    ASSUME IInv, NEW r \in Request, ReadRows(r)
    PROVE  IInv'
<1> DEFINE p == Head(queue[r])
           a == [by |-> p, rows |-> rows[p]]
           w == IF rows[p] = <<>> THEN {} ELSE NeedsPerRow[p]
<1>1. pc[r] = "decide" /\ wants[r] = {} /\ p # Self
    BY DEF ReadRows
<1>2. /\ TypeOK /\ Moment \in moments[r] /\ report[r] = <<>>
      /\ p \in Plugin /\ Supplies[p] # None
      /\ Deciding(p, wants[r], caps[r], moments[r])
    BY <1>1, InHand
<1>3. rows[p] \in Seq(Row)
    BY <1>2 DEF TypeOK
<1>4. a \in AnswerType /\ a.by = p /\ a.rows = rows[p]
    BY <1>2, <1>3 DEF AnswerType
<1>5. w \in SUBSET Capability /\ w \subseteq NeedsPerRow[p]
    BY <1>2, CapabilityAssumption
<1>6. Vouched(a, w, call[r], caps[r], moments[r])
    <2>1. WasOwned(p, moments[r]) /\ \A c \in Needs[p] : Given(c, caps[r], moments[r])
        BY <1>1, <1>2 DEF Deciding
    <2>2. Asked(p, rows[p]) \ w \subseteq Needs[p]
        BY DEF Asked
    <2>3. rows[p] = Moment.rows[p]
        BY <1>2, MomentType
    <2> HIDE DEF a, w
    <2> QED
        BY <1>1, <1>2, <1>4, <2>1, <2>2, <2>3 DEF Vouched
<1>7. Becomes(r, "join", caps[r], queue[r], w, found[r], Append(answers[r], a), report[r], moments[r])
    <2>1. /\ answers' = [answers EXCEPT ![r] = Append(@, a)]
          /\ wants' = [wants EXCEPT ![r] = w]
          /\ pc' = [pc EXCEPT ![r] = "join"]
          /\ UNCHANGED <<shared, changes, call, caps, queue, found, report, moments>>
        BY DEF ReadRows, Answer, Goto
    <2> HIDE DEF a, w
    <2> QED
        BY <1>2, <2>1, Unmoved DEF Becomes, shared, TypeOK
<1> HIDE DEF a, w
<1> QED
    BY <1>1, <1>4, <1>5, <1>6, <1>7, AnswerSound

\* The caller's own rows are rows of the caller.
LEMMA OwnRowsFacts ==
    ASSUME NEW of \in Seq(Row)
    PROVE  /\ OwnRows(of) \in Seq(Row)
           /\ \A i \in DOMAIN OwnRows(of) : OwnRows(of)[i]["principal"] = Caller
<1> DEFINE S == {row \in Row : row["principal"] = Caller}
<1>1. /\ Only(of, S) \in Seq(Row)
      /\ \A i \in DOMAIN Only(of, S) : Only(of, S)[i] \in S
    <2> HIDE DEF S
    <2> QED
        BY OnlyKeeps
<1> QED
    BY <1>1 DEF OwnRows

LEMMA ReadOwnRowsSound ==
    ASSUME IInv, NEW r \in Request, ReadOwnRows(r)
    PROVE  IInv'
<1> DEFINE a == [by |-> Self, rows |-> <<>>]
<1>1. pc[r] = "decide" /\ Head(queue[r]) = Self
    BY DEF ReadOwnRows
<1>2. /\ TypeOK /\ Moment \in moments[r] /\ report[r] = <<>>
      /\ Self \in Plugin /\ Supplies[Self] # None
      /\ call[r].kind \in {"definition", "compose"}
    BY <1>1, InHand
<1>3. ~ Decision(r, SelfView, Resolve(Own, None, Caller))
    <2>1. HandleScope(call[r]) = OrganizationScope
        BY <1>2 DEF HandleScope
    <2> QED
        BY <2>1, HandleFacts DEF Decision
<1>4. a \in AnswerType /\ a.by = Self /\ a.rows = <<>>
    BY <1>2 DEF AnswerType
<1>5. {} \in SUBSET Capability /\ {} \subseteq NeedsPerRow[Head(queue[r])]
    OBVIOUS
<1>6. Becomes(r, "join", caps[r], queue[r], {}, found[r], Append(answers[r], a), report[r], moments[r])
    <2>1. /\ answers' = [answers EXCEPT ![r] = Append(@, a)]
          /\ wants' = [wants EXCEPT ![r] = {}]
          /\ pc' = [pc EXCEPT ![r] = "join"]
          /\ UNCHANGED <<shared, changes, call, caps, queue, found, report, moments>>
        BY <1>1, <1>3 DEF ReadOwnRows, Answer, Goto
    <2> HIDE DEF a
    <2> QED
        BY <1>2, <2>1, Unmoved DEF Becomes, shared, TypeOK
<1> HIDE DEF a
<1>7. Vouched(a, {}, call[r], caps[r], moments[r])
    <2>1. DOMAIN <<>> = {}
        OBVIOUS
    <2> QED
        BY <1>2, <1>4, <2>1 DEF Vouched
<1> QED
    BY <1>1, <1>4, <1>5, <1>6, <1>7, AnswerSound

LEMMA AnsweredSound ==
    ASSUME IInv, NEW r \in Request, Answered(r)
    PROVE  IInv'
<1> DEFINE q == Tail(queue[r])
<1>1. TypeOK
    BY DEF IInv
<1>2. pc[r] = "join" /\ wants[r] = {} /\ report[r] = <<>>
    BY NoReportYet DEF Answered
<1>3. /\ Fitting(pc[r], caps[r], queue[r], wants[r], found[r], answers[r], report[r], moments[r])
      /\ Sound(call[r], pc[r], caps[r], queue[r], wants[r], found[r], answers[r], report[r], moments[r])
      /\ Moment \in moments[r]
    BY <1>2, OfRequest DEF Running
<1>4. /\ queue[r] # <<>> /\ answers[r] # <<>> /\ answers[r][Len(answers[r])].by = Head(queue[r])
    BY <1>2, <1>3 DEF Sound, Placed
<1>5. queue[r] \in Seq(Plugin) /\ q \in Seq(Plugin) /\ answers[r] \in Seq(AnswerType)
    BY <1>3, <1>4 DEF Fitting
<1>6. Becomes(r, "dataset", caps[r], q, wants[r], found[r], answers[r], report[r], moments[r])
    BY <1>1, Unmoved DEF TypeOK, Answered, Goto, Becomes, shared
<1>7. Head(queue[r]) \in {answers[r][i].by : i \in DOMAIN answers[r]}
    <2>1. Len(answers[r]) \in DOMAIN answers[r]
        BY <1>4, <1>5
    <2> QED
        BY <1>4, <2>1
<1>8. Listed("dataset", q, {answers[r][i].by : i \in DOMAIN answers[r]}, moments[r])
    <2>1. Listed("dataset", queue[r], {answers[r][i].by : i \in DOMAIN answers[r]}, moments[r])
        BY <1>2, <1>3 DEF Sound
    <2> QED
        BY <1>4, <1>5, <1>7, <2>1, ListedOn
<1> HIDE DEF q
<1>9. Fitting("dataset", caps[r], q, wants[r], found[r], answers[r], report[r], moments[r])
    BY <1>3, <1>5 DEF Fitting, Running
<1>10. Placed(call[r], "dataset", caps[r], q, wants[r], answers[r], report[r])
    BY <1>2, <1>3 DEF Sound, Placed
<1>11. ASSUME NEW i \in DOMAIN answers[r]
       PROVE  Vouched(answers[r][i], {}, call[r], caps[r], moments[r])
    <2>1. Vouched(answers[r][i], IF pc[r] = "join" /\ i = Len(answers[r]) THEN wants[r] ELSE {},
                  call[r], caps[r], moments[r])
        BY <1>2, <1>3 DEF Sound
    <2> QED
        BY <1>2, <2>1
<1>12. Sound(call[r], "dataset", caps[r], q, wants[r], found[r], answers[r], report[r], moments[r])
    BY <1>2, <1>8, <1>10, <1>11 DEF Sound, Refused
<1> QED
    BY <1>3, <1>6, <1>9, <1>12, BecomesSound

LEMMA CommitSound ==
    ASSUME IInv, NEW r \in Request, Commit(r)
    PROVE  IInv'
<1>1. TypeOK
    BY DEF IInv
<1>2. pc[r] = "compose"
    BY DEF Commit
<1>3. /\ Fitting(pc[r], caps[r], queue[r], wants[r], found[r], answers[r], report[r], moments[r])
      /\ Sound(call[r], pc[r], caps[r], queue[r], wants[r], found[r], answers[r], report[r], moments[r])
    BY OfRequest
<1>4. Becomes(r, "done", caps[r], queue[r], wants[r], found[r], answers[r], report[r], moments[r])
    BY <1>1, Unmoved DEF Commit, Goto, Becomes, shared
<1>5. Fitting("done", caps[r], queue[r], wants[r], found[r], answers[r], report[r], moments[r])
    BY <1>3 DEF Fitting, Ended
<1>6. Placed(call[r], "done", caps[r], queue[r], wants[r], answers[r], report[r])
    BY <1>2, <1>3 DEF Sound, Placed
<1>7. Sound(call[r], "done", caps[r], queue[r], wants[r], found[r], answers[r], report[r], moments[r])
    BY <1>2, <1>3, <1>6 DEF Sound, Refused
<1>8. "done" \notin Running
    BY DEF Running
<1> QED
    BY <1>4, <1>5, <1>7, <1>8, BecomesSound

LEMMA FailSound ==
    ASSUME IInv, NEW r \in Request, Fail(r)
    PROVE  IInv'
<1>1. TypeOK
    BY DEF IInv
<1>2. Fitting(pc[r], caps[r], queue[r], wants[r], found[r], answers[r], report[r], moments[r])
    BY OfRequest
<1>3. Becomes(r, "failed", caps[r], queue[r], wants[r], found[r], answers[r], <<>>, moments[r])
    BY <1>1, Unmoved DEF Fail, Goto, Becomes, shared
<1>4. Refused(call[r], "failed", caps[r], moments[r]) /\ "failed" \in Ended \ {"done"}
    BY DEF Refused, Ended
<1> QED
    BY <1>2, <1>3, <1>4, EndsSound DEF Fitting

LEMMA ComposeSound ==
    ASSUME IInv, NEW r \in Request, Compose(r)
    PROVE  IInv'
<1> DEFINE of == answers[r]
           f == call[r].definition
           sections == [i \in DOMAIN Parts[f] |-> Shaped(of, Parts[f][i], f)]
           made == IF call[r].kind = "compose" THEN Flat(of) ELSE sections
<1>1. TypeOK
    BY DEF IInv
<1>2. pc[r] = "dataset" /\ queue[r] = <<>>
    BY DEF Compose
<1>3. /\ Fitting(pc[r], caps[r], queue[r], wants[r], found[r], answers[r], report[r], moments[r])
      /\ Sound(call[r], pc[r], caps[r], queue[r], wants[r], found[r], answers[r], report[r], moments[r])
      /\ Moment \in moments[r]
    BY <1>2, OfRequest DEF Running
<1>4. Placed(call[r], pc[r], caps[r], queue[r], wants[r], answers[r], report[r])
    BY <1>3 DEF Sound
<1>5. /\ call[r].kind \in {"definition", "compose"}
      /\ call[r].kind = "definition" => f \in Definition
      /\ of \in Seq(AnswerType)
    BY <1>2, <1>3, <1>4 DEF Placed, Fitting
<1>6. Becomes(r, "compose", caps[r], queue[r], wants[r], found[r], answers[r], made, moments[r])
    BY <1>1, Unmoved DEF Compose, Goto, Becomes, shared
<1>7. \A i \in DOMAIN of : Vouched(of[i], {}, call[r], caps[r], moments[r])
    BY <1>2, <1>3 DEF Sound
<1>8. made \in Seq(Sections) /\ \A n \in DOMAIN made : Told(made[n], call[r], of, moments[r])
    <2>1. CASE call[r].kind = "compose"
        <3>1. \A i \in DOMAIN of : Supplies[of[i].by] # None
            BY <1>7 DEF Vouched
        <3>2. /\ Flat(of) \in Seq(Sections)
              /\ \A n \in DOMAIN Flat(of) :
                    /\ Flat(of)[n].state = "flat"
                    /\ Installed(of, Flat(of)[n].dataset) # {}
                    /\ Flat(of)[n].by = of[Kept(of, Flat(of)[n].dataset)].by
            BY <1>5, <3>1, FlatSections
        <3>3. made = Flat(of)
            BY <2>1
        <3> HIDE DEF made, of
        <3> QED
            BY <3>2, <3>3 DEF Told
    <2>2. CASE call[r].kind = "definition"
        <3>1. f \in Definition /\ Parts[f] \in Seq(Dataset)
            BY <1>5, <2>2, ShapeAssumption
        <3>2. PICK now \in moments[r] : \A p \in Plugin :
                  <<"dataset", p>> \in ToSet(now.bindings) => p \in {of[i].by : i \in DOMAIN of}
            <4>1. Listed("dataset", <<>>, {of[i].by : i \in DOMAIN of}, moments[r])
                BY <1>2, <1>3 DEF Sound
            <4> QED
                BY <4>1, ListedOut
        <3>3. DefinitionOf(call[r]) = f
            BY <2>2 DEF DefinitionOf
        <3>4. ASSUME NEW i \in DOMAIN Parts[f]
              PROVE  Shaped(of, Parts[f][i], f) \in Sections /\ Told(Shaped(of, Parts[f][i], f), call[r], of, moments[r])
            <4> DEFINE d == Parts[f][i]
                       s == Shaped(of, d, f)
            <4>1. d \in Dataset
                BY <3>1
            <4> HIDE DEF d
            <4>2. /\ s \in Sections /\ s.dataset = d
                  /\ IF s.state = "not installed"
                     THEN Installed(of, d) = {} /\ s.by = None
                     ELSE /\ Installed(of, d) # {} /\ s.by = of[Kept(of, d)].by
                          /\ s.state = "shaped" => s.groups = Shape(of[Kept(of, d)].rows, f)
                BY <1>5, <3>1, <4>1, ShapedSection
            <4> HIDE DEF s
            <4>3. ASSUME Installed(of, d) = {}, NEW p \in Plugin, <<"dataset", p>> \in ToSet(now.bindings)
                  PROVE  Supplies[p] # d
                <5>1. PICK j \in DOMAIN of : of[j].by = p
                    BY <3>2, <4>3
                <5> QED
                    BY <4>3, <5>1 DEF Installed
            <4>4. Told(s, call[r], of, moments[r])
                BY <2>2, <3>3, <4>2, <4>3 DEF Told
            <4> QED
                BY <4>2, <4>4 DEF s, d
        <3>5. made = sections /\ DOMAIN Parts[f] = 1 .. Len(Parts[f]) /\ Len(Parts[f]) \in Nat
            BY <2>2, <3>1
        <3>6. sections \in [1 .. Len(Parts[f]) -> Sections]
            BY <3>4, <3>5
        <3>7. \A n \in DOMAIN sections : Told(sections[n], call[r], of, moments[r])
            BY <3>4
        <3> HIDE DEF made, sections, of
        <3> QED
            BY <3>5, <3>6, <3>7
    <2> QED
        BY <1>5, <2>1, <2>2
<1>9. call[r].kind = "definition" => Len(made) = Len(Parts[f])
    <2> SUFFICES ASSUME call[r].kind = "definition" PROVE Len(made) = Len(Parts[f])
        OBVIOUS
    <2>1. Parts[f] \in Seq(Dataset) /\ made = sections
        BY <1>5, ShapeAssumption
    <2>2. DOMAIN sections = 1 .. Len(Parts[f]) /\ Len(Parts[f]) \in Nat
        BY <2>1
    <2>3. made \in Seq(Sections)
        BY <1>8
    <2> HIDE DEF made, sections
    <2>4. DOMAIN made = 1 .. Len(made) /\ Len(made) \in Nat
        BY <2>3
    <2> QED
        BY <2>1, <2>2, <2>4
<1> HIDE DEF made, sections
<1>10. Fitting("compose", caps[r], queue[r], wants[r], found[r], answers[r], made, moments[r])
    BY <1>3, <1>8 DEF Fitting, Running
<1>11. Placed(call[r], "compose", caps[r], queue[r], wants[r], answers[r], made)
    BY <1>2, <1>4, <1>5, <1>9 DEF Placed
<1>12. Sound(call[r], "compose", caps[r], queue[r], wants[r], found[r], answers[r], made, moments[r])
    BY <1>7, <1>8, <1>11 DEF Sound, Refused
<1> QED
    BY <1>3, <1>6, <1>10, <1>12, BecomesSound

LEMMA RenderOwnSound ==
    ASSUME IInv, NEW r \in Request, RenderOwn(r)
    PROVE  IInv'
<1> DEFINE own == OwnRows(rows[Self])
           d == Supplies[Self]
           g == Shape(own, Defines[Self])
           a == [by |-> Self, rows |-> own]
           s == Section(d, Self, "shaped", g)
<1>1. TypeOK
    BY DEF IInv
<1>2. pc[r] = "own" /\ report[r] = <<>>
    BY NoReportYet DEF RenderOwn
<1>3. /\ Fitting(pc[r], caps[r], queue[r], wants[r], found[r], answers[r], report[r], moments[r])
      /\ Placed(call[r], pc[r], caps[r], queue[r], wants[r], answers[r], report[r])
      /\ Moment \in moments[r]
    BY <1>2, OfRequest DEF Running, Sound
<1>4. call[r].kind = "self" /\ caps[r] = {SelfView}
    BY <1>2, <1>3 DEF Placed
<1>5. CASE Decision(r, SelfView, SelfScope)
    <2>1. Self \in Plugin /\ d \in Dataset /\ d # None /\ Defines[Self] \in Definition
        BY PluginAssumption
    <2>2. rows[Self] \in Seq(Row)
        BY <1>1, <2>1 DEF TypeOK
    <2>3. own \in Seq(Row) /\ \A i \in DOMAIN own : own[i]["principal"] = Caller
        BY <2>2, OwnRowsFacts
    <2>4. own = OwnRows(Moment.rows[Self])
        BY <1>1, MomentType
    <2> HIDE DEF own, d
    <2>5. g \in Seq(Group)
        BY <2>1, <2>3, ShapeType
    <2>6. Made(s, d, Self, "shaped", g)
        BY <2>1, <2>5, SectionType
    <2>7. a \in AnswerType /\ a.by = Self /\ a.rows = own
        BY <2>1, <2>3 DEF AnswerType
    <2>8. Becomes(r, "compose", caps[r], queue[r], wants[r], found[r], <<a>>, <<s>>, moments[r])
        <3>1. /\ report' = [report EXCEPT ![r] = <<s>>]
              /\ answers' = [answers EXCEPT ![r] = <<a>>]
              /\ pc' = [pc EXCEPT ![r] = "compose"]
              /\ UNCHANGED <<shared, changes, call, caps, queue, wants, found, moments>>
            BY <1>5 DEF RenderOwn, Goto, own, d
        <3> HIDE DEF a, s
        <3> QED
            BY <1>1, <3>1, Unmoved DEF Becomes, shared
    <2> HIDE DEF a, s, g
    <2>9. Vouched(a, {}, call[r], caps[r], moments[r])
        BY <1>3, <1>4, <2>1, <2>3, <2>4, <2>7 DEF Vouched, d
    <2>10. /\ <<a>> \in Seq(AnswerType) /\ <<s>> \in Seq(Sections)
           /\ DOMAIN <<a>> = {1} /\ <<a>>[1] = a /\ DOMAIN <<s>> = {1} /\ <<s>>[1] = s
        BY <2>6, <2>7 DEF Made
    <2>11. Told(s, call[r], <<a>>, moments[r])
        <3>1. Installed(<<a>>, d) = {1}
            BY <2>7, <2>10 DEF Installed, d
        <3>2. Kept(<<a>>, d) = 1
            <4>1. Installed(<<a>>, d) # {}
                BY <3>1
            <4>2. Kept(<<a>>, d) \in Installed(<<a>>, d)
                BY <2>10, <4>1, KeptIsInstalled
            <4> QED
                BY <3>1, <4>2
        <3>3. DefinitionOf(call[r]) = Defines[Self]
            BY <1>4 DEF DefinitionOf
        <3>4. s.dataset = d /\ s.by = Self /\ s.state = "shaped" /\ s.groups = g
            BY <2>6 DEF Made
        <3>5. g = Shape(a.rows, Defines[Self])
            BY <2>7 DEF g
        <3> QED
            BY <1>4, <2>7, <2>10, <3>1, <3>2, <3>3, <3>4, <3>5 DEF Told
    <2>12. Fitting("compose", caps[r], queue[r], wants[r], found[r], <<a>>, <<s>>, moments[r])
        BY <1>3, <2>10 DEF Fitting, Running
    <2>13. Placed(call[r], "compose", caps[r], queue[r], wants[r], <<a>>, <<s>>)
        BY <1>3, <1>4 DEF Placed
    <2>14. Sound(call[r], "compose", caps[r], queue[r], wants[r], found[r], <<a>>, <<s>>, moments[r])
        BY <2>9, <2>10, <2>11, <2>13 DEF Sound, Refused
    <2> QED
        BY <1>3, <2>8, <2>12, <2>14, BecomesSound
<1>6. CASE ~ Decision(r, SelfView, SelfScope)
    <2>1. Becomes(r, "denied", caps[r], queue[r], wants[r], found[r], answers[r], <<>>, moments[r])
        BY <1>1, <1>2, <1>6, Unmoved DEF RenderOwn, Goto, Becomes, shared
    <2>2. SelfView \in Demanded(call[r])
        BY <1>4 DEF Demanded
    <2>3. HandleScope(call[r]) = SelfScope
        BY <1>4 DEF HandleScope
    <2>4. ~ Permits(granted, SelfView, SelfScope)
        BY <1>4, <1>6, <2>3, HandleFacts DEF Decision
    <2>5. \E now \in moments[r] : ~ Permits(now.granted, SelfView, HandleScope(call[r]))
        <3>1. ~ Permits(Moment.granted, SelfView, HandleScope(call[r]))
            BY <1>1, <2>3, <2>4, MomentType
        <3> HIDE DEF Moment
        <3> QED
            BY <1>3, <3>1
    <2> QED
        BY <1>3, <2>1, <2>2, <2>5, DeniedSound DEF Fitting
<1> QED
    BY <1>5, <1>6

-------------------------------------------------------------------------------
(* The theorems.                                                           *)

LEMMA InitSound ==
    ASSUME Init
    PROVE  IInv
<1>1. bindings \in Seq(Binding) /\ \A b \in ToSet(bindings) : Provided(b[1], b[2])
    BY InitialAssumption DEF Init
<1>2. owned \in SUBSET Plugin
    <2>1. \A b \in ToSet(bindings) : b[2] \in Plugin
        BY <1>1, ToSetType DEF Binding
    <2> QED
        BY <2>1 DEF Init
<1>3. <<>> \in Seq(Plugin) /\ <<>> \in Seq(AnswerType) /\ <<>> \in Seq(Sections) /\ DOMAIN <<>> = {}
    OBVIOUS
<1>4. TypeOK
    BY <1>1, <1>2, <1>3, InitialAssumption DEF Init, TypeOK, AnswerType
<1>5. Offered
    BY <1>1 DEF Offered, ToSet
<1>6. ASSUME NEW r \in Request
      PROVE  /\ pc[r] \in Running => Moment \in moments[r]
             /\ Sound(call[r], pc[r], caps[r], queue[r], wants[r], found[r], answers[r], report[r], moments[r])
    <2>1. /\ call[r] \in Call /\ (call[r].kind = "definition" => call[r].definition # None)
          /\ pc[r] = "idle" /\ answers[r] = <<>> /\ report[r] = <<>>
        BY DEF Init
    <2>2. call[r].kind = "definition" => call[r].definition \in Definition
        BY <2>1 DEF Call
    <2>3. Placed(call[r], pc[r], caps[r], queue[r], wants[r], answers[r], report[r])
        BY <2>1, <2>2 DEF Placed
    <2> QED
        BY <1>3, <2>1, <2>3 DEF Sound, Refused, Running
<1> QED
    BY <1>4, <1>5, <1>6 DEF IInv

LEMMA StepSound ==
    ASSUME IInv, [Next]_vars
    PROVE  IInv'
<1>1. CASE UNCHANGED vars
    <2>1. /\ bindings' = bindings /\ owned' = owned /\ granted' = granted /\ rows' = rows
          /\ changes' = changes /\ call' = call /\ pc' = pc /\ caps' = caps /\ queue' = queue
          /\ wants' = wants /\ found' = found /\ answers' = answers /\ report' = report /\ moments' = moments
        BY <1>1 DEF vars
    <2>2. TypeOK' /\ Offered' /\ Moment' = Moment
        BY <2>1 DEF IInv, TypeOK, Offered, Moment
    <2>3. ASSUME NEW r \in Request
          PROVE  /\ pc'[r] \in Running => Moment' \in moments'[r]
                 /\ Sound(call'[r], pc'[r], caps'[r], queue'[r], wants'[r], found'[r], answers'[r], report'[r],
                          moments'[r])
        BY <2>1, <2>2, OfRequest
    <2> QED
        BY <2>2, <2>3 DEF IInv
<1>2. ASSUME NEW r \in Request, Step(r)
      PROVE  IInv'
    BY <1>2, BeginCatalogueSound, BeginComposeSound, BeginSelfSound, AskUnownedSound, AnswerDefinitionSound,
       CataloguedSound, IssueRenderSound, AuthorizeSound, LookedUpSound, AskDatasetSound, DecideSound,
       ReadRowsSound, ReadOwnRowsSound, AnsweredSound, ComposeSound, RenderOwnSound, CommitSound DEF Step
<1>3. ASSUME NEW p \in Plugin,
             BindNext(p) \/ RegisterOwner(p) \/ Unbind(p) \/ UnregisterOwner(p) \/ ChangeRows(p)
      PROVE  IInv'
    BY <1>3, BindNextSound, OwnersSound, UnbindSound, RowsSound
<1> QED
    BY <1>1, <1>2, <1>3, FailSound, GrantsSound DEF Next

\* In every state of every run the invariant holds, for all plugins, definitions,
\* rows and grants.
THEOREM ReportsInvariant == Spec => []IInv
<1>1. Init => IInv
    BY InitSound
<1>2. IInv /\ [Next]_vars => IInv'
    BY StepSound
<1> QED
    BY <1>1, <1>2, PTL DEF Spec

\* A section that is reported.
LEMMA OfReported ==
    ASSUME IInv, NEW r \in Request, NEW s \in Reported(r)
    PROVE  /\ pc[r] \in {"compose", "done"} /\ call[r].kind # "catalogue"
           /\ call[r] \in Call /\ (call[r].kind = "definition" => call[r].definition \in Definition)
           /\ moments[r] \in SUBSET Moments /\ answers[r] \in Seq(AnswerType)
           /\ Told(s, call[r], answers[r], moments[r])
           /\ s.state # "not installed" =>
                 /\ answers[r][Kept(answers[r], s.dataset)] \in AnswerType
                 /\ answers[r][Kept(answers[r], s.dataset)].by = s.by
                 /\ Supplies[s.by] = s.dataset
                 /\ Vouched(answers[r][Kept(answers[r], s.dataset)], {}, call[r], caps[r], moments[r])
<1>1. /\ call[r] \in Call
      /\ Fitting(pc[r], caps[r], queue[r], wants[r], found[r], answers[r], report[r], moments[r])
      /\ Sound(call[r], pc[r], caps[r], queue[r], wants[r], found[r], answers[r], report[r], moments[r])
    BY OfRequest
<1>2. PICK n \in DOMAIN report[r] : report[r][n] = s
    BY DEF Reported
<1>3. report[r] # <<>>
    <2>1. DOMAIN <<>> = {}
        OBVIOUS
    <2> QED
        BY <1>2, <2>1
<1>4. Placed(call[r], pc[r], caps[r], queue[r], wants[r], answers[r], report[r])
    BY <1>1 DEF Sound
<1>5. pc[r] \in {"compose", "done"}
    BY <1>3, <1>4 DEF Placed
<1>6. Told(s, call[r], answers[r], moments[r])
    BY <1>1, <1>2 DEF Sound
<1>7. answers[r] \in Seq(AnswerType) /\ moments[r] \in SUBSET Moments
    BY <1>1 DEF Fitting
<1>8. ASSUME s.state # "not installed"
      PROVE  /\ answers[r][Kept(answers[r], s.dataset)] \in AnswerType
             /\ answers[r][Kept(answers[r], s.dataset)].by = s.by
             /\ Supplies[s.by] = s.dataset
             /\ Vouched(answers[r][Kept(answers[r], s.dataset)], {}, call[r], caps[r], moments[r])
    <2> DEFINE i == Kept(answers[r], s.dataset)
    <2>1. Installed(answers[r], s.dataset) # {} /\ s.by = answers[r][i].by
        BY <1>6, <1>8 DEF Told
    <2>2. i \in DOMAIN answers[r] /\ Supplies[answers[r][i].by] = s.dataset
        BY <1>7, <2>1, KeptIsInstalled
    <2> HIDE DEF i
    <2>3. Vouched(answers[r][i], IF pc[r] = "join" /\ i = Len(answers[r]) THEN wants[r] ELSE {},
                  call[r], caps[r], moments[r])
        BY <1>1, <1>5, <2>2 DEF Sound
    <2>4. Vouched(answers[r][i], {}, call[r], caps[r], moments[r])
        BY <1>5, <2>3
    <2>5. answers[r][i] \in AnswerType
        BY <1>7, <2>2
    <2> QED
        BY <2>1, <2>2, <2>4, <2>5 DEF i
<1>9. call[r].kind # "catalogue" /\ (call[r].kind = "definition" => call[r].definition \in Definition)
    BY <1>4, <1>5 DEF Placed
<1> QED
    BY <1>1, <1>5, <1>6, <1>7, <1>8, <1>9

\* Every state is typed, a plugin is asked with its own needs under the handle of
\* the use case, and a report has a section for every dataset of its definition
\* (ReportStudioPlugin.render_definition).
THEOREM ReportsAreTyped == Spec => []RpInv
<1>1. IInv => RpInv
    <2> SUFFICES ASSUME IInv PROVE RpInv
        OBVIOUS
    <2>1. TypeOK
        BY DEF IInv
    <2>2. ASSUME NEW r \in Request
          PROVE  Placed(call[r], pc[r], caps[r], queue[r], wants[r], answers[r], report[r])
        BY OfRequest DEF Sound
    <2>3. <<0>> # <<>>
        OBVIOUS
    <2>4. \A p : Asked(p, <<0>>) = Needs[p] \cup NeedsPerRow[p]
        BY <2>3 DEF Asked
    <2> QED
        BY <2>1, <2>2, <2>4 DEF RpInv, Placed
<1> QED
    BY <1>1, ReportsInvariant, PTL

\* Whose rows are in a report was enabled, and what that plugin asks for was bound
\* to the handle and granted at a moment since; a principal's own rows are in no
\* report of an organization (ReportStudioPlugin, SelfMonthlyDatasetContract).
THEOREM ReportsAreAllowed == Spec => []RowsWereAllowed
<1>1. IInv => RowsWereAllowed
    <2> SUFFICES ASSUME IInv, NEW r \in Request, NEW s \in Reported(r)
                 PROVE  /\ s.by \notin {None, Self} =>
                              /\ \E now \in moments[r] : s.by \in now.owned
                              /\ \A c \in Asked(s.by, AnswerOf(r, s)) :
                                    c \in caps[r] /\ \E now \in moments[r] : Permits(now.granted, c, OrganizationScope)
                        /\ s.by = Self =>
                              /\ call[r].kind # "self" => AnswerOf(r, s) = <<>>
                              /\ \A i \in DOMAIN AnswerOf(r, s) : AnswerOf(r, s)[i]["principal"] = Caller
        BY DEF RowsWereAllowed
    <2> DEFINE a == answers[r][Kept(answers[r], s.dataset)]
    <2>1. AnswerOf(r, s) = a.rows
        BY DEF AnswerOf
    <2>2. CASE s.state = "not installed"
        <3>1. s.by = None /\ None # Self
            BY <2>2, OfReported, PluginAssumption DEF Told
        <3> QED
            BY <3>1
    <2>3. CASE s.state # "not installed"
        <3>1. a.by = s.by /\ Vouched(a, {}, call[r], caps[r], moments[r])
            BY <2>3, OfReported
        <3> HIDE DEF a
        <3>2. CASE s.by = Self
            BY <2>1, <3>1, <3>2 DEF Vouched
        <3>3. CASE s.by # Self
            <4>1. WasOwned(s.by, moments[r]) /\ \A c \in Asked(s.by, a.rows) : Given(c, caps[r], moments[r])
                BY <3>1, <3>3 DEF Vouched
            <4> QED
                BY <2>1, <3>3, <4>1 DEF WasOwned, Given
        <3> QED
            BY <3>2, <3>3
    <2> QED
        BY <2>2, <2>3
<1> QED
    BY <1>1, ReportsInvariant, PTL

\* The rows of a section are those of one moment since the handle and of the plugin
\* that is named for them; "not installed" was so (ReportStudioPlugin, _invoke_one).
THEOREM ReportsAreCurrent == Spec => []AnswersAreCurrent
<1>1. IInv => AnswersAreCurrent
    <2> SUFFICES ASSUME IInv, NEW r \in Request, NEW s \in Reported(r)
                 PROVE  IF s.state = "not installed"
                        THEN \E now \in moments[r] : \A n \in DOMAIN now.bindings :
                                 now.bindings[n][1] = "dataset" => Supplies[now.bindings[n][2]] # s.dataset
                        ELSE /\ Supplies[s.by] = s.dataset
                             /\ \E now \in moments[r] :
                                   \/ AnswerOf(r, s) = now.rows[s.by]
                                   \/ /\ s.by = Self
                                      /\ AnswerOf(r, s) \in {<<>>, OwnRows(now.rows[Self])}
        BY DEF AnswersAreCurrent
    <2>1. CASE s.state = "not installed"
        <3>1. PICK now \in moments[r] : \A p \in Plugin :
                  <<"dataset", p>> \in ToSet(now.bindings) => Supplies[p] # s.dataset
            BY <2>1, OfReported DEF Told
        <3>2. now.bindings \in Seq(Binding)
            BY OfReported DEF Moments
        <3>3. ASSUME NEW n \in DOMAIN now.bindings, now.bindings[n][1] = "dataset"
              PROVE  Supplies[now.bindings[n][2]] # s.dataset
            <4>1. now.bindings[n] \in Contract \X Plugin
                BY <3>2 DEF Binding
            <4>2. now.bindings[n][2] \in Plugin /\ now.bindings[n] = <<"dataset", now.bindings[n][2]>>
                BY <3>3, <4>1
            <4>3. now.bindings[n] \in ToSet(now.bindings)
                BY DEF ToSet
            <4> QED
                BY <3>1, <4>2, <4>3
        <3> QED
            BY <2>1, <3>3
    <2>2. CASE s.state # "not installed"
        <3> DEFINE a == answers[r][Kept(answers[r], s.dataset)]
        <3>1. a.by = s.by /\ Supplies[s.by] = s.dataset /\ Vouched(a, {}, call[r], caps[r], moments[r])
            BY <2>2, OfReported
        <3>2. AnswerOf(r, s) = a.rows
            BY DEF AnswerOf
        <3> HIDE DEF a
        <3> QED
            BY <2>2, <3>1, <3>2 DEF Vouched
    <2> QED
        BY <2>1, <2>2
<1> QED
    BY <1>1, ReportsInvariant, PTL

\* A request is refused for a cause that was there: a grant that was missing, a
\* definition that was away, a plugin on its way in or out (_invoke_one, authorize).
THEOREM RefusalsHaveACause == Spec => []RefusedForCause
<1>1. IInv => RefusedForCause
    <2> SUFFICES ASSUME IInv, NEW r \in Request
                 PROVE
            /\ pc[r] = "denied" => \E c \in Demanded(call[r]) :
                  \/ \E now \in moments[r] : ~Permits(now.granted, c, HandleScope(call[r]))
                  \/ c \notin caps[r] /\ c # Manage
            /\ pc[r] \in {"missing", "unknown"} => \E now \in moments[r] : \A p \in Plugin :
                  Defines[p] = call[r].definition => <<"definition", p>> \notin ToSet(now.bindings)
            /\ pc[r] = "unowned" => \E p \in Plugin, now, then \in moments[r] :
                  p \notin now.owned /\ Offers(p) # <<>> /\ ToSet(Offers(p)) \cap ToSet(then.bindings) # {}
        BY DEF RefusedForCause
    <2>1. Refused(call[r], pc[r], caps[r], moments[r])
        BY OfRequest DEF Sound
    <2>2. ASSUME pc[r] = "unowned"
          PROVE  \E p \in Plugin, now, then \in moments[r] :
                    p \notin now.owned /\ Offers(p) # <<>> /\ ToSet(Offers(p)) \cap ToSet(then.bindings) # {}
        <3>1. PICK p \in Plugin, now \in moments[r], then \in moments[r] :
                  p \notin now.owned /\ \E k \in Contract : Provided(k, p) /\ <<k, p>> \in ToSet(then.bindings)
            BY <2>1, <2>2 DEF Refused
        <3>2. PICK k \in Contract : Provided(k, p) /\ <<k, p>> \in ToSet(then.bindings)
            BY <3>1
        <3>3. <<k, p>> \in ToSet(Offers(p))
            BY <3>2, OffersProvided
        <3>4. ToSet(<<>>) = {}
            BY DEF ToSet
        <3> QED
            BY <3>1, <3>2, <3>3, <3>4
    <2> QED
        BY <2>1, <2>2 DEF Refused
<1> QED
    BY <1>1, ReportsInvariant, PTL

\* The groups of a section are the rows that pass the filters, each once, in the
\* group of its key and in its order (shape_dataset).
THEOREM GroupsAreExact == Spec => []GroupsAreTheRows
<1>1. IInv => GroupsAreTheRows
    <2> SUFFICES ASSUME IInv, NEW r \in Request, NEW s \in Reported(r), s.state = "shaped"
                 PROVE  Regroups(s.groups, AnswerOf(r, s), DefinitionOf(call[r]))
        BY DEF GroupsAreTheRows
    <2> DEFINE a == answers[r][Kept(answers[r], s.dataset)]
    <2>1. /\ a \in AnswerType
          /\ call[r].kind # "compose" /\ s.groups = Shape(a.rows, DefinitionOf(call[r]))
        BY OfReported DEF Told
    <2>2. a.rows \in Seq(Row) /\ AnswerOf(r, s) = a.rows
        BY <2>1 DEF AnswerType, AnswerOf
    <2>3. DefinitionOf(call[r]) \in Definition
        <3>1. call[r].kind \in {"definition", "self"}
            BY <2>1, OfReported DEF Call, Kinds
        <3> QED
            BY <3>1, OfReported, PluginAssumption DEF DefinitionOf
    <2> HIDE DEF a
    <2> QED
        BY <2>1, <2>2, <2>3, ShapeRegroups
<1> QED
    BY <1>1, ReportsInvariant, PTL
===============================================================================
