----------------------------- MODULE MCMetadata -----------------------------
(* A small instance of Metadata: two deliveries that both answer a comment *)
(* of one session, or of which the second is a change of the delegate.     *)
EXTENDS Metadata, TLC

CONSTANTS d1, d2, s1, u1, u2

TwoDeliveries == {d1, d2}
OneSession == {s1}
TwoBases == {u1, u2}

Session == [session |-> s1, source |-> TRUE]
Delegate == [session |-> NoSession, source |-> FALSE]

TwoReplies == {(d1 :> Session @@ d2 :> Session)}
OneEach == {(d1 :> Session @@ d2 :> Delegate)}

Symmetry == Permutations(TwoDeliveries) \cup Permutations(TwoBases)
=============================================================================
