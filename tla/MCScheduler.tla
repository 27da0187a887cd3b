---------------------------- MODULE MCScheduler ----------------------------
(* Instances of the scheduler for TLC, and its refinement of IssueClaims.  *)
EXTENDS SchedulerClaims

CONSTANTS i1, i2

MCIssues == {i1, i2}
OneIssue == {i1}
MCRank == [i \in Issues |-> IF i = i1 THEN 1 ELSE 2]
NoBlockers == [i \in Issues |-> {}]
SecondBlocked == [i \in Issues |-> IF i = i2 THEN {i1} ELSE {}]
OneActive == <<"Todo">>
TwoActive == <<"Todo", "In Progress">>
MergeOne == [s \in {"Merge"} |-> 1]

=============================================================================
