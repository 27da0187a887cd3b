-------------------------- MODULE CodingRun_proofs --------------------------
(***************************************************************************)
(* Proofs about coding runs, for any set of threads, board, number of      *)
(* turns and number of tasks: the gates of the handoff to Review.          *)
(***************************************************************************)
EXTENDS CodingRun, TLAPS

(* After a turn has been synced, Linear has the plan the run last read.    *)
PlanSynced ==
  run.tracked /\ run.at \in {"refresh", "judge", "finalize", "reply", "verify",
                             "record", "handoff"}
    => plan = run.progress

Gated == PlanDone /\ diff

(* A run that has left its turns while its issue is active has a reason:   *)
(* it was cut short, Codex asked for a spec, or both gates are open.       *)
TurnsEnded ==
  run.at \in {"finalize", "reply", "verify", "record"} /\ IsActive(issue.state)
    => run.maxed \/ run.forced \/ run.said = "spec" \/ Gated

HandoffChosen ==
  run.at = "handoff" /\ IsActive(issue.state) /\ run.handoff = ReviewState
    => SpecHidden \/ Gated

(* A run for a reaction's thread was given that thread and answers no other.*)
TargetOnly ==
  /\ issue.target # NoThread => issue.threads = {issue.target}
  /\ run.at = "reply" /\ issue.target # NoThread => run.batch \subseteq {issue.target}

ThreadsAnswered ==
  run.at \in {"record", "handoff"} => issue.threads \cap open \subseteq late

RunInv == PlanSynced /\ TurnsEnded /\ HandoffChosen /\ TargetOnly /\ ThreadsAnswered

-----------------------------------------------------------------------------

LEMMA NextActiveState ==
  ASSUME CodingRunAssumption, NEW s \in States
  PROVE  NextActive(s) \in States
<1> DEFINE later == {k \in DOMAIN ActiveOrder \ {1} : ActiveOrder[k - 1] = s}
<1>1. CASE later = {}
  BY <1>1 DEF NextActive
<1>2. CASE later # {}
  <2>1. (CHOOSE k \in later : TRUE) \in DOMAIN ActiveOrder
    BY <1>2
  <2>2. QED
    BY <1>2, <2>1 DEF NextActive, ActiveStates, States
<1>3. QED
  BY <1>1, <1>2

LEMMA IdleTyped ==
  ASSUME CodingRunAssumption
  PROVE  Idle \in Run /\ NoIssue \in Issue
BY DEF CodingRunAssumption, Idle, Run, NoIssue, Issue, Steps, Messages, Bodies, States

LEMMA StepTyped ==
  ASSUME run \in Run, NEW s \in Steps
  PROVE  [run EXCEPT !.at = s] \in Run
BY DEF Run

LEMMA AnotherTurnTyped ==
  ASSUME CodingRunAssumption, NEW r \in Run
  PROVE  AnotherTurn(r) \in Run
<1>1. AfterTurns \in Steps
  BY DEF AfterTurns, Steps
<1>2. CASE r.turn < MaxTurns
  <2>1. r.turn + 1 \in 0 .. MaxTurns
    BY <1>2 DEF Run, CodingRunAssumption
  <2>2. QED
    BY <1>2, <2>1 DEF AnotherTurn, Run, Steps
<1>3. CASE ~(r.turn < MaxTurns)
  BY <1>1, <1>3 DEF AnotherTurn, Run
<1>4. QED
  BY <1>2, <1>3

LEMMA MoveAndLeaveTyped ==
  ASSUME CodingRunAssumption, TypeOK, NEW s \in States, MoveAndLeave(s)
  PROVE  board' \in States /\ run' \in Run /\ issue' \in Issue
BY IdleTyped DEF MoveAndLeave, Leave, TypeOK

LEMMA ToRefineTyped ==
  ASSUME CodingRunAssumption, TypeOK, ToRefine
  PROVE  TypeOK'
<1>1. RefineState \in States
  BY DEF States
<1>2. board' \in States /\ run' \in Run /\ issue' \in Issue
  BY <1>1, MoveAndLeaveTyped DEF ToRefine
<1>3. QED
  BY <1>2 DEF ToRefine, TypeOK, world

LEMMA ReviewReadyTyped ==
  ASSUME CodingRunAssumption, TypeOK, ReviewReady
  PROVE  TypeOK'
<1>1. run' \in Run
  BY DEF ReviewReady, TypeOK, Run, Steps
<1>2. issue' \in Issue
  BY DEF ReviewReady, TypeOK, Issue
<1>3. QED
  BY <1>1, <1>2 DEF ReviewReady, TypeOK

(* TypeOK: every step leaves the variables in their sets.                  *)
LEMMA TypeStep ==
  ASSUME CodingRunAssumption, TypeOK, [Next]_vars
  PROVE  TypeOK'
<1> USE IdleTyped DEF linear, world
<1>0. CASE UNCHANGED vars
  BY <1>0 DEF vars, TypeOK
<1>1. CASE Dispatch
  <2>1. run' \in Run
    BY <1>1, StepTyped DEF TypeOK, Dispatch, GoTo, Steps
  <2>2. PICK threads \in IF target = NoThread THEN {open, {}} ELSE {{target}} :
          issue' = [state |-> board, duplicated |-> duplicated,
                    threads |-> threads, target |-> target]
    BY <1>1 DEF Dispatch
  <2>3. threads \subseteq Threads
    BY <2>2 DEF TypeOK
  <2>4. issue' \in Issue
    BY <2>2, <2>3 DEF TypeOK, Issue
  <2>5. QED
    BY <1>1, <2>1, <2>4 DEF TypeOK, Dispatch
<1>2. CASE OpeningMove
  <2>1. run' \in Run
    BY <1>2, StepTyped DEF TypeOK, OpeningMove, GoTo, Steps
  <2>2. board' \in States /\ issue' \in Issue
    BY <1>2, NextActiveState, issue.state \in States DEF TypeOK, OpeningMove, Issue
  <2>3. QED
    BY <1>2, <2>1, <2>2 DEF TypeOK, OpeningMove
<1>3. CASE DuplicatePlans
  BY <1>3, ToRefineTyped DEF DuplicatePlans
<1>4. CASE Decide
  <2>1. run' \in Run
    BY <1>4, StepTyped DEF TypeOK, Decide, GoTo, Steps
  <2>2. QED
    BY <1>4, <2>1 DEF TypeOK, Decide
<1>5. CASE WritePlan
  <2>1. CASE ToRefine
    BY <2>1, ToRefineTyped
  <2>2. CASE GoTo("copy") /\ plan' \in {plan} \cup Bodies
             /\ UNCHANGED <<board, duplicated, decision, target, world, issue>>
    <3>1. run' \in Run
      BY <2>2, StepTyped DEF TypeOK, GoTo, Steps
    <3>2. QED
      BY <2>2, <3>1 DEF TypeOK
  <2>3. QED
    BY <1>5, <2>1, <2>2 DEF WritePlan
<1>6. CASE CopyPlan
  <2>1. CASE ToRefine
    BY <2>1, ToRefineTyped
  <2>2. CASE ~ToRefine
    <3>1. 1 \in 0 .. MaxTurns
      BY DEF CodingRunAssumption
    <3>2. CASE ~Tracked
      <4>1. run' \in Run
        BY <1>6, <2>2, <3>1, <3>2, ZenonT(60) DEF CopyPlan, TypeOK, Run, Steps
      <4>2. QED
        BY <1>6, <2>2, <3>2, <4>1 DEF CopyPlan, TypeOK
    <3>3. CASE Tracked
      <4>1. plan \in Bodies /\ plan \in 0 .. Tasks
        BY <1>6, <2>2, <3>3 DEF CopyPlan, Tracked, TypeOK, Bodies
      <4>2. run' \in Run
        BY <1>6, <2>2, <3>1, <3>3, <4>1, ZenonT(60) DEF CopyPlan, TypeOK, Run, Steps
      <4>3. QED
        BY <1>6, <2>2, <3>3, <4>2 DEF CopyPlan, TypeOK
    <3>4. QED
      BY <3>2, <3>3
  <2>3. QED
    BY <2>1, <2>2
<1>7. CASE Turn
  <2>1. PICK file \in IF run.tracked THEN Bodies ELSE {run.file}, said \in Messages :
          run' = [run EXCEPT !.at = "sync", !.file = file, !.said = said]
    BY <1>7 DEF Turn
  <2>2. file \in Bodies
    BY <2>1 DEF TypeOK, Run
  <2>3. run' \in Run
    BY <2>1, <2>2 DEF TypeOK, Run, Steps
  <2>4. QED
    BY <1>7, <2>3 DEF TypeOK, Turn
<1>8. CASE TurnFails
  BY <1>8 DEF TurnFails, Leave, TypeOK
<1>9. CASE SyncPlan
  <2>1. CASE ToRefine
    BY <2>1, ToRefineTyped
  <2>2. CASE ~run.tracked /\ ~ToRefine
    <3>1. run' \in Run
      BY <1>9, <2>2, StepTyped DEF SyncPlan, TypeOK, GoTo, Steps
    <3>2. QED
      BY <1>9, <2>2, <3>1 DEF SyncPlan, TypeOK
  <2>3. CASE run.tracked /\ ~ToRefine
    <3>1. run.file \in Bodies /\ run.file \in 0 .. Tasks
      BY <1>9, <2>3 DEF SyncPlan, TypeOK, Run, Bodies
    <3>2. run' = [run EXCEPT !.at = "refresh", !.progress = run.file]
      BY <1>9, <2>3 DEF SyncPlan
    <3>3. run' \in Run
      BY <3>1, <3>2 DEF TypeOK, Run, Steps
    <3>4. QED
      BY <1>9, <2>3, <3>1, <3>3 DEF SyncPlan, TypeOK
  <2>4. QED
    BY <2>1, <2>2, <2>3
<1>10. CASE Refresh
  <2>1. PICK seen \in {board, issue.state} :
          /\ issue' = [issue EXCEPT !.state = seen]
          /\ GoTo(IF IsActive(seen) THEN "judge" ELSE AfterTurns)
    BY <1>10 DEF Refresh
  <2>2. issue' \in Issue
    BY <2>1 DEF TypeOK, Issue
  <2>3. (IF IsActive(seen) THEN "judge" ELSE AfterTurns) \in Steps
    BY DEF AfterTurns, Steps
  <2>4. run' \in Run
    BY <2>1, <2>3, StepTyped DEF TypeOK, GoTo
  <2>5. QED
    BY <1>10, <2>2, <2>4 DEF TypeOK, Refresh
<1>11. CASE Judge
  <2>1. run \in Run /\ AfterTurns \in Steps
    BY DEF TypeOK, AfterTurns, Steps
  <2>2. [run EXCEPT !.noDiff = 0] \in Run /\ [run EXCEPT !.at = AfterTurns, !.noDiff = 0] \in Run
    <3>1. 0 \in 0 .. 2
      OBVIOUS
    <3>2. QED
      BY <2>1, <3>1 DEF Run
  <2>3. [run EXCEPT !.at = AfterTurns, !.noDiff = 2, !.forced = TRUE] \in Run
    <3>1. 2 \in 0 .. 2
      OBVIOUS
    <3>2. QED
      BY <2>1, <3>1 DEF Run
  <2>4. ~(run.noDiff + 1 >= 2) => [run EXCEPT !.noDiff = @ + 1] \in Run
    <3>1. run.noDiff \in 0 .. 2
      BY <2>1 DEF Run
    <3>2. SUFFICES ASSUME ~(run.noDiff + 1 >= 2)
                   PROVE  [run EXCEPT !.noDiff = run.noDiff + 1] \in Run
      OBVIOUS
    <3>3. run.noDiff + 1 \in 0 .. 2
      BY <3>1, <3>2
    <3>4. QED
      BY <2>1, <3>3 DEF Run
  <2>5. run' \in Run
    BY <1>11, <2>1, <2>2, <2>3, <2>4, StepTyped, AnotherTurnTyped DEF Judge, GoTo
  <2>6. QED
    BY <1>11, <2>5 DEF TypeOK, Judge
<1>12. CASE Finalize
  <2>1. CASE ToAnswer = {}
    BY <1>12, <2>1, ReviewReadyTyped DEF Finalize
  <2>2. CASE ToAnswer # {}
    <3>1. ToAnswer \subseteq Threads
      BY DEF TypeOK, ToAnswer
    <3>2. run' = [run EXCEPT !.at = "reply", !.batch = ToAnswer]
      BY <1>12, <2>2 DEF Finalize
    <3>3. run' \in Run
      BY <3>1, <3>2 DEF TypeOK, Run, Steps
    <3>4. QED
      BY <1>12, <2>2, <3>3 DEF Finalize, TypeOK
  <2>3. QED
    BY <2>1, <2>2
<1>13. CASE Reply
  <2>1. PICK t \in run.batch :
          /\ open' = open \ {t}
          /\ run' = [run EXCEPT !.batch = @ \ {t},
                                !.at = IF run.batch = {t} THEN "verify" ELSE @]
    BY <1>13 DEF Reply
  <2>2. (IF run.batch = {t} THEN "verify" ELSE run.at) \in Steps
    BY DEF TypeOK, Run, Steps
  <2>3. run.batch \ {t} \subseteq Threads
    BY DEF TypeOK, Run
  <2>4. run' \in Run
    BY <2>1, <2>2, <2>3 DEF TypeOK, Run
  <2>5. QED
    BY <1>13, <2>1, <2>4 DEF Reply, TypeOK
<1>14. CASE ReplyFails
  <2>1. PICK t \in run.batch :
          run' = [run EXCEPT !.batch = @ \ {t}, !.failed = TRUE,
                             !.at = IF run.batch = {t} THEN "verify" ELSE @]
    BY <1>14 DEF ReplyFails
  <2>2. (IF run.batch = {t} THEN "verify" ELSE run.at) \in Steps
    BY DEF TypeOK, Run, Steps
  <2>3. run.batch \ {t} \subseteq Threads
    BY DEF TypeOK, Run
  <2>4. run' \in Run
    BY <2>1, <2>2, <2>3 DEF TypeOK, Run
  <2>5. QED
    BY <1>14, <2>4 DEF ReplyFails, TypeOK
<1>15. CASE Verify
  BY <1>15, ReviewReadyTyped DEF Verify, Leave, TypeOK
<1>16. CASE Record
  <2>1. Verdict \in States
    BY DEF Verdict, States
  <2>2. run' \in Run
    BY <1>16, <2>1 DEF Record, TypeOK, Run, Steps
  <2>3. QED
    BY <1>16, <2>2 DEF Record, TypeOK, Issue
<1>17. CASE Handoff
  <2>1. run.handoff \in States
    BY DEF TypeOK, Run
  <2>2. board' \in States /\ run' \in Run /\ issue' \in Issue
    BY <1>17, <2>1, MoveAndLeaveTyped DEF Handoff, Leave, TypeOK
  <2>3. QED
    BY <1>17, <2>2 DEF Handoff, TypeOK
<1>18. CASE Fails
  BY <1>18 DEF Fails, Leave, TypeOK
<1>19. CASE Publish
  <2>1. ActiveOrder[Len(ActiveOrder)] \in States
    BY DEF CodingRunAssumption, ActiveStates, States
  <2>2. QED
    BY <1>19, <2>1 DEF Publish, TypeOK
<1>20. CASE HumanMove
  BY <1>20 DEF HumanMove, TypeOK, CodingRunAssumption
<1>21. CASE HumanPlans
  BY <1>21 DEF HumanPlans, TypeOK
<1>22. CASE ThreadOpened
  BY <1>22 DEF ThreadOpened, TypeOK
<1>23. CASE ThreadClosed
  BY <1>23 DEF ThreadClosed, TypeOK
<1>24. CASE FollowUp
  <2>1. ActiveOrder[1] \in States /\ ReviewState \in States
    BY DEF CodingRunAssumption, ActiveStates, States
  <2>2. QED
    BY <1>24, <2>1 DEF FollowUp, TypeOK
<1>25. QED
  BY <1>0, <1>1, <1>2, <1>3, <1>4, <1>5, <1>6, <1>7, <1>8, <1>9, <1>10, <1>11,
     <1>12, <1>13, <1>14, <1>15, <1>16, <1>17, <1>18, <1>19, <1>20, <1>21,
     <1>22, <1>23, <1>24 DEF Next, RunStep

(* The types of the variables hold in every state of every behaviour.      *)
THEOREM TypeInvariant == Spec => []TypeOK
<1>1. Init => TypeOK
  <2>1. ActiveOrder[1] \in States
    BY CodingRunAssumption DEF CodingRunAssumption, ActiveStates, States
  <2>2. QED
    BY <2>1, CodingRunAssumption, IdleTyped DEF Init, TypeOK
<1>2. TypeOK /\ [Next]_vars => TypeOK'
  BY CodingRunAssumption, TypeStep
<1>3. QED
  BY <1>1, <1>2, PTL DEF Spec

-----------------------------------------------------------------------------

(* The runner's own steps, between the first turn and the handoff, and the *)
(* steps after which the run is over or has not left its turns.            *)
Unended == run'.at \in {"idle", "begin", "decide", "write", "copy", "turn", "sync"}

LEMMA UnendedKeeps ==
  ASSUME RunInv, Unended, issue'.target # NoThread => issue'.threads = {issue'.target}
  PROVE  RunInv'
BY DEF RunInv, Unended, PlanSynced, TurnsEnded, HandoffChosen, TargetOnly, ThreadsAnswered

LEMMA LeaveKeeps ==
  ASSUME RunInv, Leave
  PROVE  RunInv'
BY UnendedKeeps DEF Leave, Unended, Idle, NoIssue

LEMMA ToRefineKeeps ==
  ASSUME RunInv, ToRefine
  PROVE  RunInv'
BY LeaveKeeps DEF ToRefine, MoveAndLeave

(* A step of the environment: the run and its copy of the issue, the plan  *)
(* and the workspace are what they were, and threads that become open are  *)
(* late.                                                                   *)
LEMMA OutsideKeeps ==
  ASSUME RunInv, UNCHANGED <<run, issue, plan, diff>>, open' \ open \subseteq late', late \subseteq late'
  PROVE  RunInv'
BY DEF RunInv, PlanSynced, TurnsEnded, HandoffChosen, TargetOnly, ThreadsAnswered,
       Gated, PlanDone, SpecHidden

(* The handoff step waits until the answers are verified.                  *)
LEMMA ReviewReadyKeeps ==
  ASSUME TypeOK, RunInv, ReviewReady, ToAnswer = {}, run.at \in {"finalize", "verify"}
  PROVE  RunInv'
<1>1. issue.threads \cap open = {}
  BY DEF RunInv, TargetOnly, ToAnswer
<1>2. /\ run'.at = "record" /\ issue'.target = NoThread
      /\ issue'.threads = issue.threads /\ issue'.state = issue.state
      /\ \A f \in {"tracked", "progress", "said", "maxed", "forced"} : run'[f] = run[f]
  BY DEF ReviewReady, TypeOK, Run, Issue
<1>3. QED
  BY <1>1, <1>2 DEF ReviewReady, RunInv, PlanSynced, TurnsEnded, HandoffChosen, TargetOnly,
     ThreadsAnswered, Gated, PlanDone

LEMMA InvStep ==
  ASSUME CodingRunAssumption, TypeOK, RunInv, [Next]_vars
  PROVE  RunInv'
<1> USE DEF linear, world, At, GoTo
<1>0. CASE UNCHANGED vars
  BY <1>0, OutsideKeeps DEF vars
<1>1. CASE Dispatch
  <2>1. Unended
    BY <1>1 DEF Dispatch, Unended, TypeOK, Run
  <2>2. issue'.target # NoThread => issue'.threads = {issue'.target}
    BY <1>1 DEF Dispatch
  <2>3. QED
    BY <2>1, <2>2, UnendedKeeps
<1>2. CASE OpeningMove
  BY <1>2, UnendedKeeps DEF OpeningMove, Unended, TypeOK, Run, Issue, RunInv, TargetOnly
<1>3. CASE DuplicatePlans
  BY <1>3, ToRefineKeeps DEF DuplicatePlans
<1>4. CASE Decide
  BY <1>4, UnendedKeeps DEF Decide, Unended, TypeOK, Run, RunInv, TargetOnly
<1>5. CASE WritePlan
  <2>1. CASE ToRefine
    BY <2>1, ToRefineKeeps
  <2>2. CASE ~ToRefine
    BY <1>5, <2>2, UnendedKeeps DEF WritePlan, Unended, TypeOK, Run, RunInv, TargetOnly
  <2>3. QED
    BY <2>1, <2>2
<1>6. CASE CopyPlan
  <2>1. CASE ToRefine
    BY <2>1, ToRefineKeeps
  <2>2. CASE ~ToRefine
    BY <1>6, <2>2, UnendedKeeps DEF CopyPlan, Unended, TypeOK, Run, RunInv, TargetOnly
  <2>3. QED
    BY <2>1, <2>2
<1>7. CASE Turn
  BY <1>7, UnendedKeeps DEF Turn, Unended, TypeOK, Run, RunInv, TargetOnly
<1>8. CASE TurnFails
  BY <1>8, LeaveKeeps DEF TurnFails
<1>9. CASE SyncPlan
  <2>1. CASE ToRefine
    BY <2>1, ToRefineKeeps
  <2>2. CASE ~ToRefine
    BY <1>9, <2>2 DEF SyncPlan, TypeOK, Run, RunInv, PlanSynced, TurnsEnded,
       HandoffChosen, TargetOnly, ThreadsAnswered
  <2>3. QED
    BY <2>1, <2>2
<1>10. CASE Refresh
  <2>1. PICK seen \in {board, issue.state} :
          /\ issue' = [issue EXCEPT !.state = seen]
          /\ GoTo(IF IsActive(seen) THEN "judge" ELSE AfterTurns)
    BY <1>10 DEF Refresh
  <2>2. issue'.state = seen /\ issue'.threads = issue.threads /\ issue'.target = issue.target
    BY <2>1 DEF TypeOK, Issue
  <2>3. CASE IsActive(seen)
    BY <1>10, <2>1, <2>2, <2>3 DEF Refresh, TypeOK, Run, RunInv, PlanSynced, TurnsEnded,
       HandoffChosen, TargetOnly, ThreadsAnswered
  <2>4. CASE ~IsActive(seen)
    BY <1>10, <2>1, <2>2, <2>4 DEF Refresh, TypeOK, Run, RunInv, PlanSynced, TurnsEnded,
       HandoffChosen, TargetOnly, ThreadsAnswered, AfterTurns
  <2>5. QED
    BY <2>3, <2>4
<1>11. CASE Judge
  <2>1. /\ run'.at \in {"turn", AfterTurns}
        /\ run'.tracked = run.tracked /\ run'.progress = run.progress
        /\ run'.said = run.said
    BY <1>11, ZenonT(60) DEF Judge, AnotherTurn, TypeOK, Run
  <2>2. run'.at # "turn" => run'.maxed \/ run'.forced \/ run'.said = "spec" \/ Gated
    BY <1>11 DEF Judge, AnotherTurn, TypeOK, Run, Gated
  <2>3. QED
    BY <1>11, <2>1, <2>2 DEF Judge, RunInv, PlanSynced, TurnsEnded, HandoffChosen,
       TargetOnly, ThreadsAnswered, AfterTurns, Gated, PlanDone
<1>12. CASE Finalize
  <2>1. CASE ToAnswer = {}
    BY <1>12, <2>1, ReviewReadyKeeps DEF Finalize
  <2>2. CASE ToAnswer # {}
    <3>1. run' = [run EXCEPT !.at = "reply", !.batch = ToAnswer]
      BY <1>12, <2>2 DEF Finalize
    <3>2. issue.target # NoThread => run'.batch \subseteq {issue.target}
      BY <3>1 DEF ToAnswer, TypeOK, Run
    <3>3. run.at = "finalize" /\ UNCHANGED <<linear, world, issue>>
      BY <1>12, <2>2 DEF Finalize
    <3>4. QED
      BY <3>1, <3>2, <3>3 DEF TypeOK, Run, RunInv, PlanSynced, TurnsEnded,
         HandoffChosen, TargetOnly, ThreadsAnswered, Gated, PlanDone
  <2>3. QED
    BY <2>1, <2>2
<1>13. CASE Reply
  <2>1. PICK t \in run.batch :
          run' = [run EXCEPT !.batch = @ \ {t},
                             !.at = IF run.batch = {t} THEN "verify" ELSE @]
    BY <1>13 DEF Reply
  <2>2. /\ run'.at \in {"reply", "verify"} /\ run'.batch \subseteq run.batch
        /\ run'.tracked = run.tracked /\ run'.progress = run.progress
        /\ run'.said = run.said /\ run'.maxed = run.maxed /\ run'.forced = run.forced
    BY <1>13, <2>1 DEF Reply, TypeOK, Run
  <2>3. QED
    BY <1>13, <2>2 DEF Reply, RunInv, PlanSynced, TurnsEnded, HandoffChosen,
       TargetOnly, ThreadsAnswered, Gated, PlanDone
<1>14. CASE ReplyFails
  BY <1>14, ZenonT(60) DEF ReplyFails, TypeOK, Run, RunInv, PlanSynced, TurnsEnded, HandoffChosen,
     TargetOnly, ThreadsAnswered, Gated, PlanDone
<1>15. CASE Verify
  <2>1. CASE AllAnswered
    BY <1>15, <2>1, ReviewReadyKeeps DEF Verify, AllAnswered
  <2>2. CASE ~AllAnswered
    BY <1>15, <2>2, LeaveKeeps DEF Verify
  <2>3. QED
    BY <2>1, <2>2
<1>16. CASE Record
  <2>1. run' = [run EXCEPT !.at = "handoff", !.handoff = Verdict]
    BY <1>16 DEF Record
  <2>2. /\ run'.at = "handoff" /\ run'.handoff = Verdict
        /\ run'.tracked = run.tracked /\ run'.progress = run.progress
        /\ run'.said = run.said /\ run'.rewritten = run.rewritten
    BY <2>1 DEF TypeOK, Run
  <2>3. Verdict = ReviewState /\ IsActive(issue.state) => SpecHidden \/ Gated
    BY <1>16 DEF Record, Verdict, RunInv, TurnsEnded, SpecHidden, CodingRunAssumption
  <2>4. QED
    BY <1>16, <2>2, <2>3 DEF Record, RunInv, PlanSynced, TurnsEnded, HandoffChosen,
       TargetOnly, ThreadsAnswered, Gated, PlanDone, SpecHidden
<1>17. CASE Handoff
  BY <1>17, LeaveKeeps DEF Handoff, MoveAndLeave
<1>18. CASE Fails
  BY <1>18, LeaveKeeps DEF Fails
<1>19. CASE Publish
  BY <1>19, OutsideKeeps DEF Publish
<1>20. CASE HumanMove
  BY <1>20, OutsideKeeps DEF HumanMove
<1>21. CASE HumanPlans
  BY <1>21, OutsideKeeps DEF HumanPlans
<1>22. CASE ThreadOpened
  BY <1>22, OutsideKeeps DEF ThreadOpened
<1>23. CASE ThreadClosed
  BY <1>23, OutsideKeeps DEF ThreadClosed
<1>24. CASE FollowUp
  BY <1>24, OutsideKeeps DEF FollowUp
<1>25. QED
  BY <1>0, <1>1, <1>2, <1>3, <1>4, <1>5, <1>6, <1>7, <1>8, <1>9, <1>10, <1>11,
     <1>12, <1>13, <1>14, <1>15, <1>16, <1>17, <1>18, <1>19, <1>20, <1>21,
     <1>22, <1>23, <1>24 DEF Next, RunStep

(* The strengthening that the gates rest on.                               *)
THEOREM RunInvariant == Spec => []RunInv
<1>1. Init => RunInv
  <2>1. Init => run = Idle /\ issue = NoIssue
    BY DEF Init
  <2>2. Idle.at = "idle" /\ NoIssue.target = NoThread
    BY DEF Idle, NoIssue
  <2>3. QED
    BY <2>1, <2>2 DEF RunInv, PlanSynced, TurnsEnded, HandoffChosen, TargetOnly, ThreadsAnswered
<1>2. TypeOK /\ RunInv /\ [Next]_vars => RunInv'
  BY CodingRunAssumption, InvStep
<1>3. QED
  BY <1>1, <1>2, TypeInvariant, PTL DEF Spec

-----------------------------------------------------------------------------

(* Only the handoff step of a run is a move to review of the run.          *)
LEMMA ToReviewIsHandoff ==
  ASSUME TypeOK, Next, ToReview
  PROVE  Handoff /\ IsActive(issue.state) /\ run.handoff = ReviewState
<1>1. run.at = "handoff" /\ run'.at # run.at /\ board' # board
  BY DEF ToReview, At
<1>2. Handoff
  BY <1>1 DEF Next, RunStep, At, Dispatch, OpeningMove, DuplicatePlans, Decide, WritePlan,
     CopyPlan, Turn, TurnFails, SyncPlan, Refresh, Judge, Finalize, Reply, ReplyFails,
     Verify, Record, Fails, Publish, HumanMove, HumanPlans, ThreadOpened, ThreadClosed,
     FollowUp, linear
<1>3. QED
  BY <1>1, <1>2 DEF Handoff, MoveAndLeave, ToReview

(* PlanGate: an unfinished plan reaches Review only behind a hidden        *)
(* request for a spec.                                                     *)
THEOREM PlanGateHolds == Spec => PlanGate
<1>1. TypeOK /\ RunInv /\ [Next]_vars => [ToReview /\ run.tracked => plan = 0 \/ SpecHidden]_vars
  BY ToReviewIsHandoff
  DEF RunInv, PlanSynced, HandoffChosen, Gated, PlanDone, ToReview, At
<1>2. QED
  BY <1>1, TypeInvariant, RunInvariant, PTL DEF Spec, PlanGate

(* ReviewHasDiff: without a diff Codex's word does not reach Review, for   *)
(* any number of turns.                                                    *)
THEOREM ReviewHasDiffHolds == Spec => ReviewHasDiff
<1>1. TypeOK /\ RunInv /\ [Next]_vars => [ToReview => diff \/ SpecHidden]_vars
  BY ToReviewIsHandoff DEF RunInv, HandoffChosen, Gated, ToReview, At
<1>2. QED
  BY <1>1, TypeInvariant, RunInvariant, PTL DEF Spec, ReviewHasDiff

(* AnsweredBeforeReview: for any set of threads and any order of replies,  *)
(* failures and new comments.                                              *)
THEOREM AnsweredBeforeReviewHolds == Spec => AnsweredBeforeReview
<1>1. RunInv /\ [Next]_vars => [ToReview => issue.threads \cap open \subseteq late]_vars
  BY DEF RunInv, ThreadsAnswered, ToReview, At
<1>2. QED
  BY <1>1, RunInvariant, PTL DEF Spec, AnsweredBeforeReview

(* OnlyTargetResolved: the other threads of the pull request are left to   *)
(* the people who opened them.                                             *)
THEOREM OnlyTargetResolvedHolds == Spec => OnlyTargetResolved
<1>1. ASSUME TypeOK, RunInv, Next, At("reply"), run'.batch # run.batch, issue.target # NoThread
      PROVE  open \ open' \subseteq {issue.target}
  <2>1. CASE Reply
    BY <1>1, <2>1 DEF Reply, RunInv, TargetOnly, At
  <2>2. CASE ~Reply
    <3>1. UNCHANGED open
      BY <1>1, <2>2 DEF Next, RunStep, At, Dispatch, OpeningMove, DuplicatePlans, Decide,
         WritePlan, CopyPlan, Turn, TurnFails, SyncPlan, Refresh, Judge, Finalize,
         ReplyFails, Verify, Record, Handoff, Fails, Publish, HumanMove, HumanPlans,
         ThreadOpened, ThreadClosed, FollowUp, world
    <3>2. QED
      BY <3>1
  <2>3. QED
    BY <2>1, <2>2
<1>2. TypeOK /\ RunInv /\ [Next]_vars
        => [At("reply") /\ run'.batch # run.batch /\ issue.target # NoThread
              => open \ open' \subseteq {issue.target}]_vars
  BY <1>1
<1>3. QED
  BY <1>2, TypeInvariant, RunInvariant, PTL DEF Spec, OnlyTargetResolved

=============================================================================
