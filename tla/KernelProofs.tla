------------------------------ MODULE KernelProofs ------------------------------
(***************************************************************************)
(* The theorems about the kernel: about Kernel.boot for every set of       *)
(* plugins, every dependency graph and every combination of faults, and    *)
(* about the lifecycle of the plugins a boot registered, for any number of *)
(* instances and every hook that may raise.                                *)
(***************************************************************************)
EXTENDS Boot, Lifecycle, TLAPS

-------------------------------------------------------------------------------
(* Kernel.boot.  BInv is preserved by every step; the first boot is the    *)
(* one it speaks of, since a second one starts from registries that are    *)
(* not empty.                                                              *)

LEMMA TypeInit == Init => TypeOK
<1> SUFFICES ASSUME Init PROVE TypeOK
  OBVIOUS
<1>1. boots \in 0..MaxBoots
  BY BootsAssumption DEF Init
<1>2. state \in [Plugin -> State]
  BY DEF Init, State
<1>3. provides \in [Plugin -> SUBSET Capability]
  BY ProvisionsAssumption DEF Init
<1>4. owner \in [Capability -> Plugin \cup {Core, Nobody}]
  BY DEF Init, Seeded
<1> QED
  BY <1>1, <1>2, <1>3, <1>4 DEF Init, TypeOK

\* What a claim does to the two registries of capabilities.
LEMMA ProvideType ==
    ASSUME TypeOK, NEW p \in Plugin, NEW S, Provide(p, S)
    PROVE  /\ providers' \in [Capability -> SUBSET Plugin]
           /\ \A c \in Capability :
                 providers'[c] = IF c \in S THEN providers[c] \cup {p} ELSE providers[c]
BY DEF TypeOK, Provide

LEMMA OwnType ==
    ASSUME TypeOK, NEW p \in Plugin, NEW S, Own(p, S)
    PROVE  /\ owner' \in [Capability -> Plugin \cup {Core, Nobody}]
           /\ \A c \in Capability : owner'[c] = IF c \in S THEN p ELSE owner[c]
BY DEF TypeOK, Own

LEMMA TypeStep == TypeOK /\ [Next]_vars => TypeOK'
<1> SUFFICES ASSUME TypeOK, [Next]_vars PROVE TypeOK'
  OBVIOUS
<1> USE BootsAssumption DEF TypeOK, State
<1>1. CASE Discover
  <2>1. state' \in [Plugin -> State]
    BY <1>1 DEF Discover
  <2>2. boots' \in 0..MaxBoots
    BY <1>1 DEF Discover
  <2>3. pending' \in SUBSET Plugin /\ ids' \in SUBSET Plugin
    BY <1>1 DEF Discover
  <2> QED
    BY <1>1, <2>1, <2>2, <2>3 DEF Discover, static, claims
<1>2. CASE DiscoverRaises
  BY <1>2 DEF DiscoverRaises, static, claims
<1>3. ASSUME NEW p \in Plugin, Reject(p) PROVE TypeOK'
  BY <1>3 DEF Reject, Take, static, claims
<1>4. ASSUME NEW p \in Plugin, Defer(p) PROVE TypeOK'
  BY <1>4 DEF Defer, Take, static, claims
<1>5. ASSUME NEW p \in Plugin, Register(p) PROVE TypeOK'
  BY <1>5, ProvideType, OwnType DEF Register, Registered, Take, static
<1>6. ASSUME NEW p \in Plugin, RegisterAgain(p) PROVE TypeOK'
  BY <1>6 DEF RegisterAgain, Take, static, claims
<1>7. ASSUME NEW p \in Plugin, RegisterRaises(p) PROVE TypeOK'
  <2>1. PICK at \in Capability, S \in SUBSET (provides[p] \ Foreign(p)) : RaiseAt(p, at, S)
    BY <1>7 DEF RegisterRaises
  <2>2. /\ providers' \in [Capability -> SUBSET Plugin]
        /\ owner' \in [Capability -> Plugin \cup {Core, Nobody}]
    BY <2>1, ProvideType, OwnType DEF RaiseAt
  <2> QED
    BY <1>7, <2>2 DEF RegisterRaises, Take, static
<1>8. CASE NextPass
  BY <1>8 DEF NextPass, static, claims
<1>9. CASE Finish
  BY <1>9 DEF Finish, static, claims
<1>10. CASE UNCHANGED vars
  BY <1>10 DEF vars
<1> QED
  BY <1>1, <1>2, <1>3, <1>4, <1>5, <1>6, <1>7, <1>8, <1>9, <1>10 DEF Next, Step

\* Type correctness of boot().
THEOREM TypeCorrect == Spec => []TypeOK
BY TypeInit, TypeStep, PTL DEF Spec

-------------------------------------------------------------------------------
(* Who owns which capability.                                              *)

\* Who is refused a capability stays refused: an owner is never replaced.
LEMMA ForeignStays ==
    ASSUME TypeOK, UNCHANGED static, NEW p \in Plugin, NEW C, Own(p, C),
           C \cap Foreign(p) = {}, C \subseteq provides[p]
    PROVE  \A q \in Plugin : Foreign(q) \subseteq Foreign(q)'
<1> SUFFICES ASSUME NEW q \in Plugin, NEW c \in Foreign(q) PROVE c \in Foreign(q)'
  OBVIOUS
<1>1. c \in Capability /\ c \in provides[q] /\ owner[c] \notin {q, Nobody}
  BY DEF Foreign, TypeOK
<1>2. owner'[c] = IF c \in C THEN p ELSE owner[c]
  BY <1>1, OwnType
<1>3. CASE c \in C
  <2>1. q # p
    BY <1>3
  <2> QED
    BY <1>1, <1>2, <1>3, <2>1, OwnersAssumption DEF Foreign, static
<1>4. CASE c \notin C
  BY <1>1, <1>2, <1>4 DEF Foreign, static
<1> QED
  BY <1>3, <1>4

LEMMA ForeignKept ==
    ASSUME UNCHANGED static, UNCHANGED claims
    PROVE  \A q \in Plugin : Foreign(q)' = Foreign(q)
BY DEF static, claims, Foreign

Claims == ClaimsInOrder /\ CapabilitiesOwned

LEMMA ClaimsInit == Init => Claims
<1> SUFFICES ASSUME Init PROVE Claims
  OBVIOUS
<1>1. \A c \in Capability : owner[c] = IF c \in CoreCapability THEN Core ELSE Nobody
  BY DEF Init, Seeded
<1> QED
  BY <1>1, OwnersAssumption DEF Init, Claims, ClaimsInOrder, CapabilitiesOwned

\* A plugin that is not listed claims capabilities that nobody else owns.
LEMMA ClaimPreserves ==
    ASSUME TypeOK, Claims, UNCHANGED static, NEW p \in Plugin, p \notin listed,
           listed' = listed \cup {p}, NEW S, NEW C, Provide(p, S), Own(p, C),
           C \subseteq S, C \subseteq provides[p], C \cap Foreign(p) = {},
           booted' \in {booted, booted \cup {p}},
           p \in booted' => provides[p] \subseteq C
    PROVE  Claims'
<1>1. \A c \in Capability :
         /\ owner'[c] = IF c \in C THEN p ELSE owner[c]
         /\ providers'[c] = IF c \in S THEN providers[c] \cup {p} ELSE providers[c]
  BY ProvideType, OwnType
<1>2. \A c \in C : c \in Capability /\ owner[c] \in {p, Nobody}
  BY DEF Foreign, TypeOK
<1>3. provides' = provides
  BY DEF static
<1>4. ClaimsInOrder'
  <2>1. booted' \subseteq listed'
    BY DEF Claims, ClaimsInOrder
  <2> SUFFICES ASSUME NEW c \in Capability
               PROVE  /\ owner'[c] \in Plugin =>
                            /\ c \in provides'[owner'[c]]
                            /\ owner'[c] \in listed' \cap providers'[c]
                      /\ owner'[c] = Core <=> c \in CoreCapability
    BY <2>1 DEF ClaimsInOrder
  <2>2. CASE c \in C
    <3>1. owner'[c] = p /\ c \in provides'[p] /\ p \in listed' /\ p \in providers'[c]
      BY <1>1, <1>3, <2>2
    <3>2. owner[c] # Core
      BY <1>2, <2>2, OwnersAssumption
    <3>3. c \notin CoreCapability
      BY <3>2 DEF Claims, ClaimsInOrder
    <3> QED
      BY <3>1, <3>3, OwnersAssumption
  <2>3. CASE c \notin C
    BY <1>1, <1>3, <2>3 DEF Claims, ClaimsInOrder
  <2> QED
    BY <2>2, <2>3
<1>5. CapabilitiesOwned'
  <2> SUFFICES ASSUME NEW q \in booted', NEW c \in provides[q]
               PROVE  owner'[c] = q /\ q \in providers'[c]
    BY <1>3 DEF CapabilitiesOwned
  <2>1. CASE q = p
    BY <1>1, <1>2, <2>1
  <2>2. CASE q # p
    <3>1. q \in booted /\ q \in Plugin /\ c \in Capability
      BY <2>2 DEF TypeOK
    <3>2. owner[c] = q /\ q \in providers[c]
      BY <3>1 DEF Claims, CapabilitiesOwned
    <3>3. c \notin C
      BY <1>2, <2>2, <3>1, <3>2, OwnersAssumption
    <3> QED
      BY <1>1, <3>1, <3>2, <3>3
  <2> QED
    BY <2>1, <2>2
<1> QED
  BY <1>4, <1>5 DEF Claims

LEMMA ClaimsKept ==
    ASSUME Claims, UNCHANGED static, UNCHANGED claims, UNCHANGED <<listed, booted>>
    PROVE  Claims'
BY DEF static, claims, Claims, ClaimsInOrder, CapabilitiesOwned

LEMMA ClaimsStep == TypeOK /\ Claims /\ [Next]_vars => Claims'
<1> SUFFICES ASSUME TypeOK, Claims, [Next]_vars PROVE Claims'
  OBVIOUS
<1>1. CASE Discover \/ DiscoverRaises \/ NextPass \/ Finish \/ UNCHANGED vars
  BY <1>1, ClaimsKept
  DEF Discover, DiscoverRaises, NextPass, Finish, vars, static, claims
<1>2. ASSUME NEW p \in Plugin, Reject(p) \/ Defer(p) \/ RegisterAgain(p) PROVE Claims'
  BY <1>2, ClaimsKept DEF Reject, Defer, RegisterAgain, Take
<1>3. ASSUME NEW p \in Plugin, Register(p) PROVE Claims'
  <2>1. /\ Provide(p, provides[p]) /\ Own(p, provides[p]) /\ UNCHANGED static
        /\ p \notin listed /\ listed' = listed \cup {p}
        /\ booted' = booted \cup {p} /\ Foreign(p) = {}
    BY <1>3 DEF Register, Registrable, Registered, Take
  <2> QED
    BY <2>1, ClaimPreserves
<1>4. ASSUME NEW p \in Plugin, RegisterRaises(p) PROVE Claims'
  <2>1. /\ UNCHANGED static /\ booted' = booted
        /\ p \notin listed /\ listed' = listed \cup {p}
    BY <1>4 DEF RegisterRaises, Take
  <2>2. PICK at \in Capability, S \in SUBSET (provides[p] \ Foreign(p)) : RaiseAt(p, at, S)
    BY <1>4 DEF RegisterRaises
  <2> DEFINE C == (S \cup {at}) \ Foreign(p)
  <2>3. Provide(p, S \cup {at}) /\ Own(p, C) /\ C \subseteq provides[p]
    BY <2>2 DEF RaiseAt
  <2>4. C \cap Foreign(p) = {} /\ C \subseteq S \cup {at}
    OBVIOUS
  <2>5. p \notin booted'
    BY <2>1 DEF Claims, ClaimsInOrder
  <2> HIDE DEF C
  <2> QED
    BY <2>1, <2>3, <2>4, <2>5, ClaimPreserves
<1> QED
  BY <1>1, <1>2, <1>3, <1>4 DEF Next, Step

\* Whoever came up owns all that it provides, whatever fails before or after and
\* however often boot() is called.
THEOREM OwnersStand == Spec => []CapabilitiesOwned
<1>1. Claims => CapabilitiesOwned
  BY DEF Claims
<1> QED
  BY <1>1, TypeInit, TypeStep, ClaimsInit, ClaimsStep, PTL DEF Spec

-------------------------------------------------------------------------------
(* What can be brought up.                                                 *)

\* The least of the closed sets is closed.
LEMMA LeastIsClosed == ASSUME NEW P \in SUBSET Plugin PROVE Closed(Least(P), P)
<1> SUFFICES ASSUME NEW p \in P, Sound(p), requires[p] \subseteq Least(P),
                    NEW S \in SUBSET Plugin, Closed(S, P)
             PROVE  p \in S
  BY DEF Closed, Least
<1>1. Least(P) \subseteq S
  BY DEF Least
<1> QED
  BY <1>1 DEF Closed

LEMMA LeastIsLeast ==
    ASSUME NEW P \in SUBSET Plugin, NEW S \in SUBSET Plugin, Closed(S, P)
    PROVE  Least(P) \subseteq S
BY DEF Least

\* The faults, the graph and the manifests are given once: so is what can be
\* brought up.
LEMMA ResolvableIsFixed ==
    ASSUME UNCHANGED static
    PROVE  Resolvable' = Resolvable /\ Assured' = Assured /\ Loadable' = Loadable
BY DEF static, Resolvable, Assured, Least, Closed, Sound, Uncontested, Loadable

\* The conjuncts of BInv that are preserved together; the other two are what they
\* say of the end of the first boot.
Inductive ==
    /\ TypeOK /\ InOrder /\ OnlyResolvable /\ NothingForgotten /\ RequirementsRegistered
    /\ Claims

LEMMA InductiveInit == Init => Inductive
<1> SUFFICES ASSUME Init PROVE Inductive
  OBVIOUS
<1>1. TypeOK /\ Claims
  BY TypeInit, ClaimsInit
<1>2. \A p \in Plugin : state[p] = "none"
  BY DEF Init
<1>3. InOrder /\ OnlyResolvable /\ NothingForgotten /\ RequirementsRegistered
  BY <1>2 DEF Init, InOrder, OnlyResolvable, NothingForgotten, RequirementsRegistered
<1> QED
  BY <1>1, <1>3 DEF Inductive

\* boots is 0 or 1 wherever the invariant says something.
LEMMA Boots == ASSUME TypeOK, boots <= 1 PROVE boots = 0 \/ boots = 1
BY BootsAssumption DEF TypeOK

\* A step that takes p out of pending and registers nothing.
LEMMA TakePreserves ==
    ASSUME Inductive, TypeOK', Claims', NEW p \in Plugin, NEW s \in State, Take(p, s),
           boots <= 1 => s # "registered",
           UNCHANGED <<booted, ids, progress>>,
           listed' \in {listed, listed \cup {p}},
           \A q \in Plugin : Foreign(q) \subseteq Foreign(q)',
           \/ deferred' = deferred /\ (boots <= 1 => ~Sound(p) \/ Blocked(p)')
           \/ /\ deferred' = deferred \cup {p}
              /\ listed' = listed /\ ~Rejected(p) /\ ~(requires[p] \subseteq ids)
    PROVE  Inductive'
<1> USE DEF Inductive, Take
<1>1. InOrder'
  BY ResolvableIsFixed DEF InOrder, Loadable
<1>2. CASE boots > 1
  BY <1>1, <1>2 DEF OnlyResolvable, NothingForgotten, RequirementsRegistered, TypeOK
<1>3. CASE boots <= 1
  <2>1. boots = 1 /\ pc = "pass" /\ boots' = 1
    BY <1>3, Boots DEF InOrder
  <2>2. p \notin ids
    BY <2>1 DEF OnlyResolvable, NothingForgotten
  <2>3. {q \in Plugin : state'[q] = "registered"} = {q \in Plugin : state[q] = "registered"}
    BY <2>1, <2>2 DEF OnlyResolvable, TypeOK
  <2>4. OnlyResolvable'
    BY <2>1, <2>3, ResolvableIsFixed DEF OnlyResolvable
  <2>5. RequirementsRegistered'
    BY <2>1, <2>3 DEF RequirementsRegistered, static, TypeOK
  <2>6. \A q \in Plugin : Blocked(q) => Blocked(q)'
    BY DEF Blocked, static
  <2>7. NothingForgotten'
    <3> HIDE DEF Inductive
    <3>1. NothingForgotten /\ TypeOK
      BY DEF Inductive
    <3>2. fault' = fault /\ requires' = requires
      BY DEF static
    <3> QED
      BY <2>1, <2>6, <3>1, <3>2 DEF NothingForgotten, Sound, Rejected, TypeOK
  <2> QED
    BY <1>1, <2>4, <2>5, <2>7
<1> QED
  BY <1>2, <1>3, BootsAssumption DEF TypeOK

\* A registration adds a sound plugin whose requirements are registered.
LEMMA RegisterPreserves ==
    ASSUME Inductive, TypeOK', Claims', NEW p \in Plugin, Register(p) PROVE Inductive'
<1> USE DEF Inductive, Register, Registrable, Registered, Take
<1>1. InOrder'
  BY ResolvableIsFixed DEF InOrder, Loadable
<1>2. CASE boots > 1
  BY <1>1, <1>2 DEF OnlyResolvable, NothingForgotten, RequirementsRegistered, TypeOK
<1>3. CASE boots <= 1
  <2>1. boots = 1 /\ pc = "pass" /\ boots' = 1
    BY <1>3, Boots DEF InOrder
  <2>2. Sound(p)
    BY <2>1, FaultAssumption
    DEF NothingForgotten, Sound, Rejected, InOrder, Loadable, TypeOK, FaultKind
  <2>3. provides[p] \cap CoreCapability = {}
    BY OwnersAssumption DEF Foreign, Claims, ClaimsInOrder, TypeOK
  <2>4. p \in Resolvable
    BY <2>1, <2>2, <2>3, LeastIsClosed DEF Closed, OnlyResolvable, Resolvable
  <2>5. {q \in Plugin : state'[q] = "registered"} = ids'
    BY <2>1 DEF OnlyResolvable, TypeOK
  <2>6. OnlyResolvable'
    BY <2>1, <2>4, <2>5, ResolvableIsFixed DEF OnlyResolvable
  <2>7. \A q \in ids : requires[q] \subseteq ids
    BY <2>1 DEF RequirementsRegistered, OnlyResolvable, TypeOK
  <2>8. \A q \in ids' : requires'[q] \subseteq ids'
    BY <2>7 DEF static
  <2>9. RequirementsRegistered'
    BY <2>5, <2>8 DEF RequirementsRegistered, TypeOK
  <2>10. \A q \in Plugin : Foreign(q) \subseteq Foreign(q)'
    BY ForeignStays
  <2>11. \A q \in Plugin : Blocked(q) => Blocked(q)'
    BY <2>10 DEF Blocked, static
  <2>12. NothingForgotten'
    BY <2>1, <2>11 DEF NothingForgotten, Sound, static, TypeOK
  <2> QED
    BY <1>1, <2>6, <2>9, <2>12
<1> QED
  BY <1>2, <1>3, BootsAssumption DEF TypeOK

LEMMA InductiveStep == Inductive /\ [Next]_vars => Inductive'
<1> SUFFICES ASSUME Inductive, [Next]_vars PROVE Inductive'
  OBVIOUS
<1>0. TypeOK' /\ Claims'
  BY TypeStep, ClaimsStep DEF Inductive
<1>1. CASE Discover
  <2>1. InOrder' /\ pc' = "pass"
    BY <1>1, BootsAssumption DEF Inductive, TypeOK, InOrder, Discover, Loadable, static
  <2>2. CASE boots' > 1
    BY <1>0, <2>1, <2>2
    DEF Inductive, TypeOK, OnlyResolvable, NothingForgotten, RequirementsRegistered
  <2>3. CASE boots' <= 1
    <3>1. boots = 0 /\ boots' = 1
      BY <1>1, <2>3, BootsAssumption DEF Discover, Inductive, TypeOK
    <3>2. ids' = {} /\ listed' = {}
      BY <1>1, <3>1 DEF Discover, Inductive, InOrder
    <3>3. {q \in Plugin : state'[q] = "registered"} = {}
      BY <1>1, <3>1 DEF Discover, Inductive, InOrder
    <3>4. OnlyResolvable' /\ RequirementsRegistered'
      BY <3>2, <3>3 DEF OnlyResolvable, RequirementsRegistered
    <3>5. NothingForgotten'
      BY <1>1, <3>2 DEF Discover, NothingForgotten, Sound, static
    <3> QED
      BY <1>0, <2>1, <3>4, <3>5 DEF Inductive
  <2> QED
    BY <1>0, <2>2, <2>3, BootsAssumption DEF TypeOK
<1>2. CASE DiscoverRaises
  <2>1. InOrder' /\ pc' # "pass"
    BY <1>2, BootsAssumption DEF Inductive, TypeOK, InOrder, DiscoverRaises, Loadable, static
  <2>2. CASE boots' > 1
    BY <1>0, <2>1, <2>2
    DEF Inductive, TypeOK, OnlyResolvable, NothingForgotten, RequirementsRegistered
  <2>3. CASE boots' <= 1
    <3>1. boots = 0
      BY <1>2, <2>3, BootsAssumption DEF DiscoverRaises, Inductive, TypeOK
    <3>2. OnlyResolvable'
      BY <1>2, <3>1, ResolvableIsFixed DEF DiscoverRaises, Inductive, OnlyResolvable
    <3>3. RequirementsRegistered'
      BY <1>2, <3>1 DEF DiscoverRaises, Inductive, RequirementsRegistered, static
    <3> QED
      BY <1>0, <2>1, <3>2, <3>3 DEF Inductive, NothingForgotten
  <2> QED
    BY <1>0, <2>2, <2>3, BootsAssumption DEF TypeOK
<1>3. ASSUME NEW p \in Plugin, Reject(p) PROVE Inductive'
  <2>1. ~Sound(p)
    BY <1>3 DEF Reject, Rejected, Sound
  <2>2. \A q \in Plugin : Foreign(q) \subseteq Foreign(q)'
    BY <1>3, ForeignKept DEF Reject, Take
  <2> QED
    BY <1>0, <1>3, <2>1, <2>2, TakePreserves DEF Reject, State
<1>4. ASSUME NEW p \in Plugin, Defer(p) PROVE Inductive'
  <2> DEFINE s == IF first THEN "validated" ELSE state[p]
  <2>1. Take(p, s)
    BY <1>4 DEF Defer
  <2>2. s \in State
    BY DEF Inductive, TypeOK, State
  <2>3. boots <= 1 => s # "registered"
    <3> SUFFICES ASSUME boots <= 1 PROVE state[p] # "registered"
      OBVIOUS
    <3>1. boots = 1 /\ pc = "pass" /\ p \in pending
      BY <2>1, Boots DEF Inductive, InOrder, Take
    <3> QED
      BY <3>1 DEF Inductive, NothingForgotten, OnlyResolvable
  <2>4. \A q \in Plugin : Foreign(q) \subseteq Foreign(q)'
    BY <1>4, <2>1, ForeignKept DEF Defer, Take
  <2> HIDE DEF s
  <2> QED
    BY <1>0, <1>4, <2>1, <2>2, <2>3, <2>4, TakePreserves DEF Defer
<1>5. ASSUME NEW p \in Plugin, Register(p) PROVE Inductive'
  BY <1>0, <1>5, RegisterPreserves
<1>6. ASSUME NEW p \in Plugin, RegisterAgain(p) PROVE Inductive'
  <2>1. ~(boots <= 1)
    BY <1>6, Boots DEF Inductive, InOrder, NothingForgotten, RegisterAgain, Take
  <2>2. \A q \in Plugin : Foreign(q) \subseteq Foreign(q)'
    BY <1>6, ForeignKept DEF RegisterAgain, Take
  <2> QED
    BY <1>0, <1>6, <2>1, <2>2, TakePreserves DEF RegisterAgain, State
<1>7. ASSUME NEW p \in Plugin, RegisterRaises(p) PROVE Inductive'
  <2>1. PICK at \in Capability, S \in SUBSET (provides[p] \ Foreign(p)) : RaiseAt(p, at, S)
    BY <1>7 DEF RegisterRaises
  <2> DEFINE C == (S \cup {at}) \ Foreign(p)
  <2>2. Provide(p, S \cup {at}) /\ Own(p, C) /\ C \cap Foreign(p) = {} /\ C \subseteq provides[p]
    BY <2>1 DEF RaiseAt
  <2>3. UNCHANGED static
    BY <1>7 DEF RegisterRaises, Take
  <2> HIDE DEF C
  <2>4. \A q \in Plugin : Foreign(q) \subseteq Foreign(q)'
    BY <2>2, <2>3, ForeignStays DEF Inductive
  <2>5. ~Sound(p) \/ Blocked(p)'
    <3>1. ~Sound(p) \/ Foreign(p) # {}
      BY <2>1 DEF RaiseAt, Sound
    <3>2. ids' = ids /\ requires' = requires /\ requires[p] \subseteq ids
      BY <1>7, <2>3 DEF RegisterRaises, static
    <3> QED
      BY <2>4, <3>1, <3>2 DEF Blocked
  <2> QED
    BY <1>0, <1>7, <2>4, <2>5, TakePreserves DEF RegisterRaises, State
<1>8. CASE NextPass
  <2> USE <1>8 DEF NextPass, Inductive
  <2>1. InOrder'
    BY ResolvableIsFixed DEF InOrder
  <2>2. OnlyResolvable'
    BY ResolvableIsFixed DEF OnlyResolvable
  <2>3. RequirementsRegistered'
    BY DEF RequirementsRegistered, static
  <2>4. NothingForgotten'
    BY ForeignKept DEF NothingForgotten, Sound, Blocked, static
  <2> QED
    BY <1>0, <2>1, <2>2, <2>3, <2>4
<1>9. CASE Finish
  <2> USE <1>9 DEF Finish, Inductive
  <2>1. InOrder'
    BY DEF InOrder
  <2>2. NothingForgotten'
    BY DEF NothingForgotten
  <2>3. CASE boots > 1
    BY <1>0, <2>1, <2>2, <2>3 DEF OnlyResolvable, RequirementsRegistered, TypeOK
  <2>4. CASE boots <= 1
    <3>1. boots = 1
      BY <2>4, Boots DEF InOrder
    <3>2. deferred \cap ids = {}
      BY <3>1 DEF NothingForgotten, OnlyResolvable, TypeOK
    <3>3. {q \in Plugin : state'[q] = "registered"} = {q \in Plugin : state[q] = "registered"}
      BY <3>1, <3>2 DEF OnlyResolvable, TypeOK
    <3>4. OnlyResolvable'
      BY <3>1, <3>3, ResolvableIsFixed DEF OnlyResolvable
    <3>5. RequirementsRegistered'
      BY <3>1, <3>3 DEF RequirementsRegistered, static, TypeOK
    <3> QED
      BY <1>0, <2>1, <2>2, <3>4, <3>5
  <2> QED
    BY <2>3, <2>4, BootsAssumption DEF TypeOK
<1>10. CASE UNCHANGED vars
  <2>1. UNCHANGED static /\ UNCHANGED claims
    BY <1>10 DEF vars, static, claims
  <2>2. \A q \in Plugin : Blocked(q)' = Blocked(q)
    BY <1>10, <2>1, ForeignKept DEF Blocked, vars, static
  <2>3. NothingForgotten'
    BY <1>10, <2>2 DEF Inductive, NothingForgotten, Sound, vars, static
  <2> QED
    BY <1>0, <1>10, <2>1, <2>3, ResolvableIsFixed
    DEF vars, static, Inductive, InOrder, OnlyResolvable, RequirementsRegistered
<1> QED
  BY <1>1, <1>2, <1>3, <1>4, <1>5, <1>6, <1>7, <1>8, <1>9, <1>10 DEF Next, Step

\* The plugins a registered plugin requires are registered, at every moment of
\* the first boot.
THEOREM RequirementsHold == Spec => []RequirementsRegistered
<1>1. Inductive => RequirementsRegistered
  BY DEF Inductive
<1> QED
  BY <1>1, InductiveInit, InductiveStep, PTL DEF Spec

-------------------------------------------------------------------------------
(* The end of the first boot.                                              *)

Ended == RegistersResolvable /\ FailsForCause

\* A sound plugin that nobody contests and whose requirements are registered was
\* registered: nothing was forgotten, and nobody could own what it provides.
LEMMA RegisteredIsClosed ==
    ASSUME Inductive, Finish, boots = 1 PROVE Closed(ids, {p \in Plugin : Uncontested(p)})
<1> SUFFICES ASSUME NEW p \in Plugin, Uncontested(p), Sound(p), requires[p] \subseteq ids,
                    p \notin ids
             PROVE  FALSE
  BY DEF Closed
<1>1. Blocked(p)
  BY DEF Inductive, Finish, NothingForgotten
<1>2. PICK c \in Capability : c \in provides[p] /\ owner[c] \notin {p, Nobody}
  BY <1>1 DEF Blocked, Foreign, Inductive, TypeOK
<1>3. owner[c] # Core
  BY <1>2 DEF Uncontested, Inductive, Claims, ClaimsInOrder
<1>4. owner[c] \in Plugin /\ c \in provides[owner[c]]
  BY <1>2, <1>3 DEF Inductive, TypeOK, Claims, ClaimsInOrder
<1> QED
  BY <1>2, <1>4 DEF Uncontested

LEMMA FinishEnds == ASSUME Inductive, Finish, boots = 1 PROVE Ended'
<1>1. Inductive'
  BY InductiveStep DEF Next, Step
<1>2. Assured \subseteq ids
  BY RegisteredIsClosed, LeastIsLeast DEF Assured, Inductive, TypeOK
<1>3. ids' = ids /\ ids \subseteq Resolvable
  BY DEF Finish, Inductive, OnlyResolvable
<1>4. {q \in Plugin : state'[q] = "registered"} = ids' /\ UNCHANGED static
  BY <1>1 DEF Finish, Inductive, OnlyResolvable
<1>5. RegistersResolvable'
  BY <1>2, <1>3, <1>4, ResolvableIsFixed DEF RegistersResolvable
<1>6. FailsForCause'
  <2> SUFFICES ASSUME NEW p \in Plugin, Sound(p), p \notin ids
               PROVE  ~(requires[p] \subseteq ids) \/ Foreign(p) # {}
    BY <1>3, <1>4, ForeignKept DEF FailsForCause, Sound, static, Finish, Inductive, TypeOK
  <2> QED
    BY DEF Inductive, Finish, NothingForgotten, Blocked
<1> QED
  BY <1>5, <1>6 DEF Ended

LEMMA EndedStep == Inductive /\ Ended /\ [Next]_vars => Ended'
<1> SUFFICES ASSUME Inductive, Ended, [Next]_vars, Done', Loadable' PROVE Ended'
  BY DEF Ended, RegistersResolvable, FailsForCause
<1>1. CASE Discover \/ \E p \in Plugin : \/ Reject(p) \/ Defer(p) \/ Register(p)
                                         \/ RegisterAgain(p) \/ RegisterRaises(p)
  BY <1>1 DEF Inductive, InOrder, Done, Discover, Reject, Defer, Register, Registered,
              RegisterAgain, RegisterRaises, Take
<1>2. CASE DiscoverRaises
  BY <1>2 DEF DiscoverRaises, Loadable, static
<1>3. CASE NextPass
  BY <1>3 DEF NextPass, Done
<1>4. CASE Finish
  BY <1>4, FinishEnds DEF Finish, Done
<1>5. CASE UNCHANGED vars
  <2>1. UNCHANGED static /\ UNCHANGED claims
    BY <1>5 DEF vars, static, claims
  <2> QED
    BY <1>5, <2>1, ResolvableIsFixed, ForeignKept
    DEF vars, static, Ended, RegistersResolvable, FailsForCause, Done, Sound
<1> QED
  BY <1>1, <1>2, <1>3, <1>4, <1>5 DEF Next, Step

LEMMA EndedInit == Init => Ended
BY DEF Init, Ended, RegistersResolvable, FailsForCause, Done

\* The invariant of boot() in full.
THEOREM InvariantHolds == Spec => []BInv
<1>1. Inductive /\ Ended => BInv
  BY DEF Inductive, Claims, Ended, BInv
<1> QED
  BY <1>1, InductiveInit, InductiveStep, EndedInit, EndedStep, PTL DEF Spec

\* One boot registers only what can be brought up, and all of it that nobody
\* contests, whatever the order of discovery and whatever is wrong with the
\* others.
THEOREM BringsUpWhatCanBe == Spec => []RegistersResolvable
<1>1. BInv => RegistersResolvable
  BY DEF BInv
<1> QED
  BY <1>1, InvariantHolds, PTL

\* A sound plugin is left out only for want of a requirement or of a capability
\* that another one owns.
THEOREM FailsOnlyForCause == Spec => []FailsForCause
<1>1. BInv => FailsForCause
  BY DEF BInv
<1> QED
  BY <1>1, InvariantHolds, PTL

-------------------------------------------------------------------------------
(* enable, disable, stop, enable_all.  Steady is what the contracts need,  *)
(* Quiet what the subscriptions need.                                      *)

USE NoneAssumption, InstancesAssumption

Steady == LifecycleTypeOK /\ Numbered /\ Enabling /\ DownUncallable /\ CallableOwned

LEMMA SteadyInit == LifecycleInit => Steady
<1> SUFFICES ASSUME LifecycleInit PROVE Steady
  OBVIOUS
<1>1. LifecycleTypeOK
  BY DEF LifecycleInit, LifecycleTypeOK, LifeState
<1>2. Numbered /\ Enabling /\ DownUncallable /\ CallableOwned
  BY DEF LifecycleInit, Numbered, Enabling, DownUncallable, CallableOwned
<1> QED
  BY <1>1, <1>2 DEF Steady

LEMMA LifecycleTypeStep == Steady /\ [LifecycleNext]_lifecycleVars => LifecycleTypeOK'
<1> SUFFICES ASSUME Steady, [LifecycleNext]_lifecycleVars PROVE LifecycleTypeOK'
  OBVIOUS
<1> USE DEF Steady, LifecycleTypeOK, history, LifeState, Up, Instance
<1>1. ASSUME NEW p \in Managed, BeginEnable(p) PROVE LifecycleTypeOK'
  BY <1>1 DEF BeginEnable, Called
<1>2. ASSUME NEW p \in Managed, Initialize(p) PROVE LifecycleTypeOK'
  BY <1>2 DEF Initialize, At, Mark, GoTo, Numbered, Enabling
<1>3. ASSUME NEW p \in Managed, InitializeRaises(p) PROVE LifecycleTypeOK'
  BY <1>3 DEF InitializeRaises, At, EnableFails, Mark
<1>4. ASSUME NEW p \in Managed, Subscribe(p) PROVE LifecycleTypeOK'
  BY <1>4 DEF Subscribe, At, GoTo, Enabling
<1>5. ASSUME NEW p \in Managed, SubscribeRaises(p) PROVE LifecycleTypeOK'
  BY <1>5 DEF SubscribeRaises, At, Unbind, EnableFails, Mark
<1>6. ASSUME NEW p \in Managed, Bind(p) PROVE LifecycleTypeOK'
  BY <1>6 DEF Bind, At, GoTo
<1>7. ASSUME NEW p \in Managed, BindRaises(p) PROVE LifecycleTypeOK'
  BY <1>7 DEF BindRaises, At, CleanupEnable, Unbind, Unsubscribe, EnableFails, Mark
<1>8. ASSUME NEW p \in Managed, OnEnable(p) PROVE LifecycleTypeOK'
  BY <1>8 DEF OnEnable, At, Mark
<1>9. ASSUME NEW p \in Managed, OnEnableRaises(p) PROVE LifecycleTypeOK'
  BY <1>9 DEF OnEnableRaises, At, CleanupEnable, Unbind, Unsubscribe, EnableFails, Mark
<1>10. ASSUME NEW p \in Managed, Disable(p) PROVE LifecycleTypeOK'
  BY <1>10 DEF Disable, Called, CleanupEnable, Unbind, Unsubscribe, Mark, CallEnds
<1>11. ASSUME NEW p \in Managed, StopUp(p) PROVE LifecycleTypeOK'
  BY <1>11 DEF StopUp, Called, CleanupEnable, Unbind, Unsubscribe, Mark, CallEnds
<1>12. ASSUME NEW p \in Managed, StopDown(p) PROVE LifecycleTypeOK'
  BY <1>12 DEF StopDown, Called, Unbind, Mark, CallEnds
<1>13. ASSUME NEW p \in Managed, Skip(p) PROVE LifecycleTypeOK'
  BY <1>13 DEF Skip
<1>14. CASE EnableAll
  BY <1>14 DEF EnableAll, Called
<1>15. CASE EnableAllReturns
  BY <1>15 DEF EnableAllReturns
<1>16. CASE UNCHANGED lifecycleVars
  BY <1>16 DEF lifecycleVars
<1> QED
  BY <1>1, <1>2, <1>3, <1>4, <1>5, <1>6, <1>7, <1>8, <1>9,
     <1>10, <1>11, <1>12, <1>13, <1>14, <1>15, <1>16 DEF LifecycleNext, EnableStep

LEMMA NumberedStep == Steady /\ [LifecycleNext]_lifecycleVars => Numbered'
<1> SUFFICES ASSUME Steady, [LifecycleNext]_lifecycleVars PROVE Numbered'
  OBVIOUS
<1> USE DEF Steady, LifecycleTypeOK, history, Numbered
<1>1. ASSUME NEW p \in Managed, BeginEnable(p) PROVE Numbered'
  BY <1>1 DEF BeginEnable, Called
<1>2. ASSUME NEW p \in Managed, Initialize(p) PROVE Numbered'
  BY <1>2 DEF Initialize, At, Mark, GoTo, Enabling
<1>3. ASSUME NEW p \in Managed, InitializeRaises(p) PROVE Numbered'
  BY <1>3 DEF InitializeRaises, At, EnableFails, Mark
<1>4. ASSUME NEW p \in Managed, Subscribe(p) PROVE Numbered'
  BY <1>4 DEF Subscribe, At, GoTo
<1>5. ASSUME NEW p \in Managed, SubscribeRaises(p) PROVE Numbered'
  BY <1>5 DEF SubscribeRaises, At, Unbind, EnableFails, Mark
<1>6. ASSUME NEW p \in Managed, Bind(p) PROVE Numbered'
  BY <1>6 DEF Bind, At, GoTo
<1>7. ASSUME NEW p \in Managed, BindRaises(p) PROVE Numbered'
  BY <1>7 DEF BindRaises, At, CleanupEnable, Unbind, Unsubscribe, EnableFails, Mark
<1>8. ASSUME NEW p \in Managed, OnEnable(p) PROVE Numbered'
  BY <1>8 DEF OnEnable, At, Mark
<1>9. ASSUME NEW p \in Managed, OnEnableRaises(p) PROVE Numbered'
  BY <1>9 DEF OnEnableRaises, At, CleanupEnable, Unbind, Unsubscribe, EnableFails, Mark
<1>10. ASSUME NEW p \in Managed, Disable(p) PROVE Numbered'
  BY <1>10 DEF Disable, Called, CleanupEnable, Unbind, Unsubscribe, Mark, CallEnds
<1>11. ASSUME NEW p \in Managed, StopUp(p) PROVE Numbered'
  BY <1>11 DEF StopUp, Called, CleanupEnable, Unbind, Unsubscribe, Mark, CallEnds
<1>12. ASSUME NEW p \in Managed, StopDown(p) PROVE Numbered'
  BY <1>12 DEF StopDown, Called, Unbind, Mark, CallEnds
<1>13. ASSUME NEW p \in Managed, Skip(p) PROVE Numbered'
  BY <1>13 DEF Skip
<1>14. CASE EnableAll
  BY <1>14 DEF EnableAll, Called
<1>15. CASE EnableAllReturns
  BY <1>15 DEF EnableAllReturns
<1>16. CASE UNCHANGED lifecycleVars
  BY <1>16 DEF lifecycleVars
<1> QED
  BY <1>1, <1>2, <1>3, <1>4, <1>5, <1>6, <1>7, <1>8, <1>9,
     <1>10, <1>11, <1>12, <1>13, <1>14, <1>15, <1>16 DEF LifecycleNext, EnableStep

LEMMA EnablingStep == Steady /\ [LifecycleNext]_lifecycleVars => Enabling'
<1> SUFFICES ASSUME Steady, [LifecycleNext]_lifecycleVars PROVE Enabling'
  OBVIOUS
<1> USE DEF Steady, LifecycleTypeOK, history, Enabling
<1>1. ASSUME NEW p \in Managed, BeginEnable(p) PROVE Enabling'
  BY <1>1 DEF BeginEnable, Called, CallableOwned, Settled
<1>2. ASSUME NEW p \in Managed, Initialize(p) PROVE Enabling'
  BY <1>2 DEF Initialize, At, Mark, GoTo
<1>3. ASSUME NEW p \in Managed, InitializeRaises(p) PROVE Enabling'
  BY <1>3 DEF InitializeRaises, At, EnableFails, Mark
<1>4. ASSUME NEW p \in Managed, Subscribe(p) PROVE Enabling'
  BY <1>4 DEF Subscribe, At, GoTo
<1>5. ASSUME NEW p \in Managed, SubscribeRaises(p) PROVE Enabling'
  BY <1>5 DEF SubscribeRaises, At, Unbind, EnableFails, Mark
<1>6. ASSUME NEW p \in Managed, Bind(p) PROVE Enabling'
  BY <1>6 DEF Bind, At, GoTo
<1>7. ASSUME NEW p \in Managed, BindRaises(p) PROVE Enabling'
  BY <1>7 DEF BindRaises, At, CleanupEnable, Unbind, Unsubscribe, EnableFails, Mark
<1>8. ASSUME NEW p \in Managed, OnEnable(p) PROVE Enabling'
  BY <1>8 DEF OnEnable, At, Mark
<1>9. ASSUME NEW p \in Managed, OnEnableRaises(p) PROVE Enabling'
  BY <1>9 DEF OnEnableRaises, At, CleanupEnable, Unbind, Unsubscribe, EnableFails, Mark
<1>10. ASSUME NEW p \in Managed, Disable(p) PROVE Enabling'
  BY <1>10 DEF Disable, Called, CleanupEnable, Unbind, Unsubscribe, Mark, CallEnds
<1>11. ASSUME NEW p \in Managed, StopUp(p) PROVE Enabling'
  BY <1>11 DEF StopUp, Called, CleanupEnable, Unbind, Unsubscribe, Mark, CallEnds
<1>12. ASSUME NEW p \in Managed, StopDown(p) PROVE Enabling'
  BY <1>12 DEF StopDown, Called, Unbind, Mark, CallEnds
<1>13. ASSUME NEW p \in Managed, Skip(p) PROVE Enabling'
  BY <1>13 DEF Skip
<1>14. CASE EnableAll
  BY <1>14 DEF EnableAll, Called
<1>15. CASE EnableAllReturns
  BY <1>15 DEF EnableAllReturns
<1>16. CASE UNCHANGED lifecycleVars
  BY <1>16 DEF lifecycleVars
<1> QED
  BY <1>1, <1>2, <1>3, <1>4, <1>5, <1>6, <1>7, <1>8, <1>9,
     <1>10, <1>11, <1>12, <1>13, <1>14, <1>15, <1>16 DEF LifecycleNext, EnableStep

LEMMA CallableStep == Steady /\ [LifecycleNext]_lifecycleVars => DownUncallable' /\ CallableOwned'
<1> SUFFICES ASSUME Steady, [LifecycleNext]_lifecycleVars PROVE DownUncallable' /\ CallableOwned'
  OBVIOUS
<1> USE DEF Steady, LifecycleTypeOK, history, Up, Enabling, DownUncallable, CallableOwned, Settled
<1>1. ASSUME NEW p \in Managed, BeginEnable(p) PROVE DownUncallable' /\ CallableOwned'
  BY <1>1 DEF BeginEnable, Called
<1>2. ASSUME NEW p \in Managed, Initialize(p) PROVE DownUncallable' /\ CallableOwned'
  BY <1>2 DEF Initialize, At, Mark, GoTo
<1>3. ASSUME NEW p \in Managed, InitializeRaises(p) PROVE DownUncallable' /\ CallableOwned'
  BY <1>3 DEF InitializeRaises, At, EnableFails, Mark
<1>4. ASSUME NEW p \in Managed, Subscribe(p) PROVE DownUncallable' /\ CallableOwned'
  BY <1>4 DEF Subscribe, At, GoTo
<1>5. ASSUME NEW p \in Managed, SubscribeRaises(p) PROVE DownUncallable' /\ CallableOwned'
  BY <1>5 DEF SubscribeRaises, At, Unbind, EnableFails, Mark
<1>6. ASSUME NEW p \in Managed, Bind(p) PROVE DownUncallable' /\ CallableOwned'
  BY <1>6 DEF Bind, At, GoTo
<1>7. ASSUME NEW p \in Managed, BindRaises(p) PROVE DownUncallable' /\ CallableOwned'
  BY <1>7 DEF BindRaises, At, CleanupEnable, Unbind, Unsubscribe, EnableFails, Mark
<1>8. ASSUME NEW p \in Managed, OnEnable(p) PROVE DownUncallable' /\ CallableOwned'
  BY <1>8 DEF OnEnable, At, Mark
<1>9. ASSUME NEW p \in Managed, OnEnableRaises(p) PROVE DownUncallable' /\ CallableOwned'
  BY <1>9 DEF OnEnableRaises, At, CleanupEnable, Unbind, Unsubscribe, EnableFails, Mark
<1>10. ASSUME NEW p \in Managed, Disable(p) PROVE DownUncallable' /\ CallableOwned'
  BY <1>10 DEF Disable, Called, CleanupEnable, Unbind, Unsubscribe, Mark, CallEnds
<1>11. ASSUME NEW p \in Managed, StopUp(p) PROVE DownUncallable' /\ CallableOwned'
  BY <1>11 DEF StopUp, Called, CleanupEnable, Unbind, Unsubscribe, Mark, CallEnds
<1>12. ASSUME NEW p \in Managed, StopDown(p) PROVE DownUncallable' /\ CallableOwned'
  BY <1>12 DEF StopDown, Called, Unbind, Mark, CallEnds
<1>13. ASSUME NEW p \in Managed, Skip(p) PROVE DownUncallable' /\ CallableOwned'
  BY <1>13 DEF Skip
<1>14. CASE EnableAll
  BY <1>14 DEF EnableAll, Called
<1>15. CASE EnableAllReturns
  BY <1>15 DEF EnableAllReturns
<1>16. CASE UNCHANGED lifecycleVars
  BY <1>16 DEF lifecycleVars
<1> QED
  BY <1>1, <1>2, <1>3, <1>4, <1>5, <1>6, <1>7, <1>8, <1>9,
     <1>10, <1>11, <1>12, <1>13, <1>14, <1>15, <1>16 DEF LifecycleNext, EnableStep

LEMMA SteadyStep == Steady /\ [LifecycleNext]_lifecycleVars => Steady'
BY LifecycleTypeStep, NumberedStep, EnablingStep, CallableStep DEF Steady

\* Type correctness of the lifecycle.
THEOREM LifecycleIsTyped == LifecycleSpec => []LifecycleTypeOK
<1>1. Steady => LifecycleTypeOK
  BY DEF Steady
<1> QED
  BY <1>1, SteadyInit, SteadyStep, PTL DEF LifecycleSpec

\* Whatever hooks raise: the contracts of a plugin that is not up cannot be
\* called.
THEOREM DownIsUncallable == LifecycleSpec => []DownUncallable
<1>1. Steady => DownUncallable
  BY DEF Steady
<1> QED
  BY <1>1, SteadyInit, SteadyStep, PTL DEF LifecycleSpec

\* Whatever hooks raise: a contract that can be called is the live instance's,
\* and its transaction has an owner.
THEOREM CallableIsOwned == LifecycleSpec => []CallableOwned
<1>1. Steady => CallableOwned
  BY DEF Steady
<1> QED
  BY <1>1, SteadyInit, SteadyStep, PTL DEF LifecycleSpec

-------------------------------------------------------------------------------
(* The subscriptions.                                                      *)

Quiet == Subscribed /\ DownSilent

LEMMA QuietInit == LifecycleInit => Quiet
BY DEF LifecycleInit, Quiet, Subscribed, DownSilent, Settled

LEMMA SubscribedStep == Steady /\ Quiet /\ [LifecycleNext]_lifecycleVars => Subscribed'
<1> SUFFICES ASSUME Steady, Quiet, [LifecycleNext]_lifecycleVars PROVE Subscribed'
  OBVIOUS
<1> USE DEF Steady, LifecycleTypeOK, history, Up, Enabling, Quiet, Subscribed, DownSilent, Settled
<1>1. ASSUME NEW p \in Managed, BeginEnable(p) PROVE Subscribed'
  BY <1>1 DEF BeginEnable, Called
<1>2. ASSUME NEW p \in Managed, Initialize(p) PROVE Subscribed'
  <2>1. subs[p] \subseteq leaked[p]
    BY <1>2 DEF Initialize, At, Instance
  <2> QED
    BY <1>2, <2>1 DEF Initialize, At, Mark, GoTo
<1>3. ASSUME NEW p \in Managed, InitializeRaises(p) PROVE Subscribed'
  BY <1>3 DEF InitializeRaises, At, EnableFails, Mark
<1>4. ASSUME NEW p \in Managed, Subscribe(p) PROVE Subscribed'
  BY <1>4 DEF Subscribe, At, GoTo
<1>5. ASSUME NEW p \in Managed, SubscribeRaises(p) PROVE Subscribed'
  BY <1>5 DEF SubscribeRaises, At, Unbind, EnableFails, Mark
<1>6. ASSUME NEW p \in Managed, Bind(p) PROVE Subscribed'
  BY <1>6 DEF Bind, At, GoTo
<1>7. ASSUME NEW p \in Managed, BindRaises(p) PROVE Subscribed'
  BY <1>7 DEF BindRaises, At, CleanupEnable, Unbind, Unsubscribe, EnableFails, Mark
<1>8. ASSUME NEW p \in Managed, OnEnable(p) PROVE Subscribed'
  BY <1>8 DEF OnEnable, At, Mark
<1>9. ASSUME NEW p \in Managed, OnEnableRaises(p) PROVE Subscribed'
  BY <1>9 DEF OnEnableRaises, At, CleanupEnable, Unbind, Unsubscribe, EnableFails, Mark
<1>10. ASSUME NEW p \in Managed, Disable(p) PROVE Subscribed'
  BY <1>10 DEF Disable, Called, CleanupEnable, Unbind, Unsubscribe, Mark, CallEnds
<1>11. ASSUME NEW p \in Managed, StopUp(p) PROVE Subscribed'
  BY <1>11 DEF StopUp, Called, CleanupEnable, Unbind, Unsubscribe, Mark, CallEnds
<1>12. ASSUME NEW p \in Managed, StopDown(p) PROVE Subscribed'
  BY <1>12 DEF StopDown, Called, Unbind, Mark, CallEnds
<1>13. ASSUME NEW p \in Managed, Skip(p) PROVE Subscribed'
  BY <1>13 DEF Skip
<1>14. CASE EnableAll
  BY <1>14 DEF EnableAll, Called
<1>15. CASE EnableAllReturns
  BY <1>15 DEF EnableAllReturns
<1>16. CASE UNCHANGED lifecycleVars
  BY <1>16 DEF lifecycleVars
<1> QED
  BY <1>1, <1>2, <1>3, <1>4, <1>5, <1>6, <1>7, <1>8, <1>9,
     <1>10, <1>11, <1>12, <1>13, <1>14, <1>15, <1>16 DEF LifecycleNext, EnableStep

LEMMA DownSilentStep == Steady /\ Quiet /\ [LifecycleNext]_lifecycleVars => DownSilent'
<1> SUFFICES ASSUME Steady, Quiet, [LifecycleNext]_lifecycleVars PROVE DownSilent'
  OBVIOUS
<1> USE DEF Steady, LifecycleTypeOK, history, Up, Enabling, Quiet, Subscribed, DownSilent, Settled
<1>1. ASSUME NEW p \in Managed, BeginEnable(p) PROVE DownSilent'
  BY <1>1 DEF BeginEnable, Called
<1>2. ASSUME NEW p \in Managed, Initialize(p) PROVE DownSilent'
  BY <1>2 DEF Initialize, At, Mark, GoTo
<1>3. ASSUME NEW p \in Managed, InitializeRaises(p) PROVE DownSilent'
  <2>1. subs[p] \subseteq leaked[p]
    BY <1>3 DEF InitializeRaises, At, Instance
  <2> QED
    BY <1>3, <2>1 DEF InitializeRaises, At, EnableFails, Mark
<1>4. ASSUME NEW p \in Managed, Subscribe(p) PROVE DownSilent'
  BY <1>4 DEF Subscribe, At, GoTo
<1>5. ASSUME NEW p \in Managed, SubscribeRaises(p) PROVE DownSilent'
  BY <1>5 DEF SubscribeRaises, At, Unbind, EnableFails, Mark
<1>6. ASSUME NEW p \in Managed, Bind(p) PROVE DownSilent'
  BY <1>6 DEF Bind, At, GoTo
<1>7. ASSUME NEW p \in Managed, BindRaises(p) PROVE DownSilent'
  BY <1>7 DEF BindRaises, At, CleanupEnable, Unbind, Unsubscribe, EnableFails, Mark
<1>8. ASSUME NEW p \in Managed, OnEnable(p) PROVE DownSilent'
  BY <1>8 DEF OnEnable, At, Mark
<1>9. ASSUME NEW p \in Managed, OnEnableRaises(p) PROVE DownSilent'
  BY <1>9 DEF OnEnableRaises, At, CleanupEnable, Unbind, Unsubscribe, EnableFails, Mark
<1>10. ASSUME NEW p \in Managed, Disable(p) PROVE DownSilent'
  BY <1>10 DEF Disable, Called, CleanupEnable, Unbind, Unsubscribe, Mark, CallEnds
<1>11. ASSUME NEW p \in Managed, StopUp(p) PROVE DownSilent'
  BY <1>11 DEF StopUp, Called, CleanupEnable, Unbind, Unsubscribe, Mark, CallEnds
<1>12. ASSUME NEW p \in Managed, StopDown(p) PROVE DownSilent'
  BY <1>12 DEF StopDown, Called, Unbind, Mark, CallEnds
<1>13. ASSUME NEW p \in Managed, Skip(p) PROVE DownSilent'
  BY <1>13 DEF Skip
<1>14. CASE EnableAll
  BY <1>14 DEF EnableAll, Called
<1>15. CASE EnableAllReturns
  BY <1>15 DEF EnableAllReturns
<1>16. CASE UNCHANGED lifecycleVars
  BY <1>16 DEF lifecycleVars
<1> QED
  BY <1>1, <1>2, <1>3, <1>4, <1>5, <1>6, <1>7, <1>8, <1>9,
     <1>10, <1>11, <1>12, <1>13, <1>14, <1>15, <1>16 DEF LifecycleNext, EnableStep

LEMMA QuietStep == Steady /\ Quiet /\ [LifecycleNext]_lifecycleVars => (Steady /\ Quiet)'
BY SteadyStep, SubscribedStep, DownSilentStep DEF Quiet

\* A plugin that is not up receives no event, but through an instance whose
\* bind_subscriptions raised when it was enabled again and which no cleanup has
\* found since.
THEOREM DownIsSilent == LifecycleSpec => []DownSilent
<1>1. Quiet => DownSilent
  BY DEF Quiet
<1>2. LifecycleInit => Steady /\ Quiet
  BY SteadyInit, QuietInit
<1> QED
  BY <1>1, <1>2, QuietStep, PTL DEF LifecycleSpec

-------------------------------------------------------------------------------
(* The plugins that are up.                                                *)

LEMMA UpServesStep == Steady /\ Quiet /\ UpServes /\ [LifecycleNext]_lifecycleVars => UpServes'
<1> SUFFICES ASSUME Steady, Quiet, UpServes, [LifecycleNext]_lifecycleVars PROVE UpServes'
  OBVIOUS
<1> USE DEF Steady, LifecycleTypeOK, history, Up, Enabling, Quiet, Subscribed, UpServes, Settled, Serves, Silent
<1>1. ASSUME NEW p \in Managed, BeginEnable(p) PROVE UpServes'
  BY <1>1 DEF BeginEnable, Called
<1>2. ASSUME NEW p \in Managed, Initialize(p) PROVE UpServes'
  BY <1>2 DEF Initialize, At, Mark, GoTo
<1>3. ASSUME NEW p \in Managed, InitializeRaises(p) PROVE UpServes'
  BY <1>3 DEF InitializeRaises, At, EnableFails, Mark
<1>4. ASSUME NEW p \in Managed, Subscribe(p) PROVE UpServes'
  BY <1>4 DEF Subscribe, At, GoTo
<1>5. ASSUME NEW p \in Managed, SubscribeRaises(p) PROVE UpServes'
  BY <1>5 DEF SubscribeRaises, At, Unbind, EnableFails, Mark
<1>6. ASSUME NEW p \in Managed, Bind(p) PROVE UpServes'
  BY <1>6 DEF Bind, At, GoTo
<1>7. ASSUME NEW p \in Managed, BindRaises(p) PROVE UpServes'
  BY <1>7 DEF BindRaises, At, CleanupEnable, Unbind, Unsubscribe, EnableFails, Mark
<1>8. ASSUME NEW p \in Managed, OnEnable(p) PROVE UpServes'
  BY <1>8 DEF OnEnable, At, Mark
<1>9. ASSUME NEW p \in Managed, OnEnableRaises(p) PROVE UpServes'
  BY <1>9 DEF OnEnableRaises, At, CleanupEnable, Unbind, Unsubscribe, EnableFails, Mark
<1>10. ASSUME NEW p \in Managed, Disable(p) PROVE UpServes'
  BY <1>10 DEF Disable, Called, CleanupEnable, Unbind, Unsubscribe, Mark, CallEnds
<1>11. ASSUME NEW p \in Managed, StopUp(p) PROVE UpServes'
  BY <1>11 DEF StopUp, Called, CleanupEnable, Unbind, Unsubscribe, Mark, CallEnds
<1>12. ASSUME NEW p \in Managed, StopDown(p) PROVE UpServes'
  BY <1>12 DEF StopDown, Called, Unbind, Mark, CallEnds
<1>13. ASSUME NEW p \in Managed, Skip(p) PROVE UpServes'
  BY <1>13 DEF Skip
<1>14. CASE EnableAll
  BY <1>14 DEF EnableAll, Called
<1>15. CASE EnableAllReturns
  BY <1>15 DEF EnableAllReturns
<1>16. CASE UNCHANGED lifecycleVars
  BY <1>16 DEF lifecycleVars
<1> QED
  BY <1>1, <1>2, <1>3, <1>4, <1>5, <1>6, <1>7, <1>8, <1>9,
     <1>10, <1>11, <1>12, <1>13, <1>14, <1>15, <1>16 DEF LifecycleNext, EnableStep

\* A plugin that is up is served by one instance, bound and subscribed, or not
\* at all where on_disable raised: never in part, and with no other handler than
\* those a bind_subscriptions that raised has left behind.
THEOREM UpIsServed == LifecycleSpec => []UpServes
<1>1. LifecycleInit => Steady /\ Quiet /\ UpServes
  <2>1. LifecycleInit => UpServes
    BY DEF LifecycleInit, UpServes, Up
  <2> QED
    BY <2>1, SteadyInit, QuietInit
<1>2. Steady /\ Quiet /\ UpServes /\ [LifecycleNext]_lifecycleVars => (Steady /\ Quiet /\ UpServes)'
  BY QuietStep, UpServesStep
<1> QED
  BY <1>1, <1>2, PTL DEF LifecycleSpec

\* The invariant of the lifecycle in full.
THEOREM LifecycleInvariant == LifecycleSpec => []LInv
<1>1. Steady /\ Quiet /\ UpServes => LInv
  BY DEF Steady, Quiet, LInv
<1>2. LifecycleInit => Steady /\ Quiet /\ UpServes
  <2>1. LifecycleInit => UpServes
    BY DEF LifecycleInit, UpServes, Up
  <2> QED
    BY <2>1, SteadyInit, QuietInit
<1>3. Steady /\ Quiet /\ UpServes /\ [LifecycleNext]_lifecycleVars => (Steady /\ Quiet /\ UpServes)'
  BY QuietStep, UpServesStep
<1> QED
  BY <1>1, <1>2, <1>3, PTL DEF LifecycleSpec

-------------------------------------------------------------------------------
(* enable_all.                                                             *)

\* What enable_all has come to is up or failed, but for the plugin it is busy with.
Swept ==
    /\ all # "off" => \A p \in Managed : p \notin todo /\ p # busy => life[p] \in {"running", "failed"}
    /\ all = "done" => todo = {} /\ busy = None

LEMMA SweptInit == LifecycleInit => Swept
BY DEF LifecycleInit, Swept

LEMMA SweptStep == Steady /\ Swept /\ [LifecycleNext]_lifecycleVars => Swept'
<1> SUFFICES ASSUME Steady, Swept, [LifecycleNext]_lifecycleVars PROVE Swept'
  OBVIOUS
<1> USE DEF Steady, LifecycleTypeOK, Swept
<1>1. ASSUME NEW p \in Managed, BeginEnable(p) PROVE Swept'
  BY <1>1 DEF BeginEnable, Called
<1>2. ASSUME NEW p \in Managed, Initialize(p) PROVE Swept'
  BY <1>2 DEF Initialize, At, Mark, GoTo
<1>3. ASSUME NEW p \in Managed, InitializeRaises(p) PROVE Swept'
  BY <1>3 DEF InitializeRaises, At, EnableFails, Mark
<1>4. ASSUME NEW p \in Managed, Subscribe(p) PROVE Swept'
  BY <1>4 DEF Subscribe, At, GoTo
<1>5. ASSUME NEW p \in Managed, SubscribeRaises(p) PROVE Swept'
  BY <1>5 DEF SubscribeRaises, At, EnableFails, Mark
<1>6. ASSUME NEW p \in Managed, Bind(p) PROVE Swept'
  BY <1>6 DEF Bind, At, GoTo
<1>7. ASSUME NEW p \in Managed, BindRaises(p) PROVE Swept'
  BY <1>7 DEF BindRaises, At, EnableFails, Mark
<1>8. ASSUME NEW p \in Managed, OnEnable(p) PROVE Swept'
  BY <1>8 DEF OnEnable, At, Mark
<1>9. ASSUME NEW p \in Managed, OnEnableRaises(p) PROVE Swept'
  BY <1>9 DEF OnEnableRaises, At, EnableFails, Mark
<1>10. ASSUME NEW p \in Managed, Disable(p) \/ StopUp(p) \/ StopDown(p) PROVE Swept'
  BY <1>10 DEF Disable, StopUp, StopDown, CallEnds
<1>11. ASSUME NEW p \in Managed, Skip(p) PROVE Swept'
  BY <1>11 DEF Skip
<1>12. CASE EnableAll
  BY <1>12 DEF EnableAll
<1>13. CASE EnableAllReturns
  BY <1>13 DEF EnableAllReturns
<1>14. CASE UNCHANGED lifecycleVars
  BY <1>14 DEF lifecycleVars
<1> QED
  BY <1>1, <1>2, <1>3, <1>4, <1>5, <1>6, <1>7, <1>8, <1>9,
     <1>10, <1>11, <1>12, <1>13, <1>14 DEF LifecycleNext, EnableStep

\* When enable_all returns every plugin is running or failed: one that is broken
\* keeps no other from coming up.
THEOREM EnablingAllSettles == LifecycleSpec => []EnableAllSettles
<1>1. Swept => EnableAllSettles
  BY NoneAssumption DEF Swept, EnableAllSettles
<1> QED
  BY <1>1, SteadyInit, SteadyStep, SweptInit, SweptStep, PTL DEF LifecycleSpec
===============================================================================
