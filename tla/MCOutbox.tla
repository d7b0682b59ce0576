------------------------------- MODULE MCOutbox -------------------------------
EXTENDS Outbox, TLC

CONSTANTS s1, s2

\* One subscriber listens to everything, the other to the first envelope only.
MCInterest == s1 :> Envelope @@ s2 :> {1}
MCEnvelopes2 == 1..2
\* The second subscriber never takes the first envelope.
MCBad == {<<s2, 1>>}
MCSymmetry == Permutations(Process)
===============================================================================
