--------------------------- MODULE MCLinearCalls ---------------------------
(***************************************************************************)
(* Small instances of LinearCalls: a worker and the loop of the daemon,    *)
(* with the client of the workflow as loaded and that of a reload, and a   *)
(* setup command beside them.                                              *)
(***************************************************************************)
EXTENDS LinearCalls, TLC

HomeOf ==
  [k \in {"worker", "loop", "old", "new"} |-> "daemon"] @@ [k \in {"setup", "cli"} |-> "setup"]
OpsOf ==
  [worker |-> {"label"}, loop |-> {"move", "unlabel", "actor"}, setup |-> {"hook", "visit", "callback"}]
TwoHooks == [h \in {1, 2} |-> IF h = 1 THEN "odd" ELSE "good"]
============================================================================
