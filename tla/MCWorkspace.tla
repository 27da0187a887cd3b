---------------------------- MODULE MCWorkspace ----------------------------
(* A small instance of Workspace: two issues, which ask for two branches   *)
(* or for the same one.                                                    *)
EXTENDS Workspace, TLC

CONSTANTS i1, i2, a, b

TwoIssues == {i1, i2}
TwoBranches == {a, b}
OwnOrShared ==
  {[kind |-> "checkout", name |-> (i1 :> a @@ i2 :> b)],
   [kind |-> "managed", name |-> (i1 :> a @@ i2 :> a)]}
=============================================================================
