-------------------------- MODULE SchedulerClaims --------------------------
(* The scheduler implements IssueClaims: the state of an issue is read off *)
(* the maps claimed and running, and a worker is alive until it has put    *)
(* its exit event into the channel.                                        *)
EXTENDS Scheduler

claimStatus ==
  [i \in Issues |-> IF i \notin claimed THEN "unclaimed"
                    ELSE IF i \in Running THEN "running" ELSE "retry_queued"]

aliveWorkers == {i \in Issues : worker[i] # NoState}

Claims == INSTANCE IssueClaims WITH
  status <- claimStatus, alive <- aliveWorkers,
  accepting <- ~shutdownRequested, limit <- limit

(* SPEC.md 7.1: every step of the loop, its goroutines and its environment *)
(* is a step of the claim protocol or leaves the claims alone.             *)
ImplementsClaims == Claims!Spec

=============================================================================
