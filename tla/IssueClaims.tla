---------------------------- MODULE IssueClaims ----------------------------
(***************************************************************************)
(* What the orchestrator promises about its claims (SPEC.md 7.1), without  *)
(* the maps, the channel and the ticks that implement it.                  *)
(*                                                                         *)
(* An issue is unclaimed, running, or queued for a retry.  A run of an     *)
(* issue is a worker that lives for a while and ends once; only then is    *)
(* the run concluded, by queueing a retry or by giving the claim up.  Runs *)
(* start only while new work is accepted and a global slot is free, and    *)
(* once a shutdown was requested no run starts for the rest of the         *)
(* process's life.                                                         *)
(***************************************************************************)
EXTENDS Naturals, FiniteSets

CONSTANTS Issues

VARIABLES
  status,     \* what the orchestrator has decided about each issue
  alive,      \* the issues whose worker is alive
  accepting,  \* new runs may start
  limit       \* how many issues may be running

vars == <<status, alive, accepting, limit>>

Status == {"unclaimed", "running", "retry_queued"}

TypeOK ==
  /\ status \in [Issues -> Status]
  /\ alive \subseteq Issues
  /\ accepting \in BOOLEAN
  /\ limit \in Nat

InStatus(s) == {i \in Issues : status[i] = s}

AllUnclaimed == [i \in Issues |-> "unclaimed"]

Init ==
  /\ status = AllUnclaimed
  /\ alive = {}
  /\ accepting = TRUE
  /\ limit \in Nat

Start(i) ==
  /\ accepting
  /\ status[i] # "running" /\ i \notin alive
  /\ Cardinality(InStatus("running")) < limit
  /\ status' = [status EXCEPT ![i] = "running"]
  /\ alive' = alive \cup {i}
  /\ UNCHANGED <<accepting, limit>>

(* The worker ends; the run is concluded later.                            *)
End(i) ==
  /\ status[i] = "running" /\ i \in alive
  /\ alive' = alive \ {i}
  /\ UNCHANGED <<status, accepting, limit>>

Conclude(i) ==
  /\ status[i] = "running" /\ i \notin alive
  /\ \E s \in {"unclaimed", "retry_queued"} : status' = [status EXCEPT ![i] = s]
  /\ UNCHANGED <<alive, accepting, limit>>

(* A queued retry finds that the issue is not to be run.                   *)
Release(i) ==
  /\ status[i] = "retry_queued"
  /\ status' = [status EXCEPT ![i] = "unclaimed"]
  /\ UNCHANGED <<alive, accepting, limit>>

RequestShutdown ==
  /\ accepting' = FALSE
  /\ UNCHANGED <<status, alive, limit>>

(* The drain gives up every queued retry and leaves running work alone.    *)
Drain ==
  /\ ~accepting
  /\ status' = [i \in Issues |-> IF status[i] = "retry_queued" THEN "unclaimed"
                                 ELSE status[i]]
  /\ UNCHANGED <<alive, accepting, limit>>

Reload ==
  /\ limit' \in Nat
  /\ UNCHANGED <<status, alive, accepting>>

(* A new process knows of no claim, and no worker survives the old one.    *)
Reset ==
  /\ status' = AllUnclaimed
  /\ alive' = {}
  /\ accepting' = TRUE
  /\ limit' \in Nat

Next ==
  \/ \E i \in Issues : Start(i) \/ End(i) \/ Conclude(i) \/ Release(i)
  \/ RequestShutdown \/ Drain \/ Reload \/ Reset

Spec == Init /\ [][Next]_vars

=============================================================================
