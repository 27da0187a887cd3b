--------------------------- MODULE MergeRun_proofs ---------------------------
(***************************************************************************)
(* What holds of the merge runs of an issue for any changes, any limits    *)
(* and any number of faults and steps of people.                           *)
(***************************************************************************)
EXTENDS MergeRun, TLAPS

Loops == [reason : Reasons \cup {NoReason}, count : Counts, at : BOOLEAN]
Entries == [kind : {"none", "retry", "completed"}, attempt : 0 .. MaxRetries, state : States]
Histories == [opened : 0 .. 2, retries : 0 .. MaxRetries + 1, streak : Counts]

(* The variables that the end of a run writes.                             *)
EndTypes ==
  /\ paused \in BOOLEAN /\ loop \in Loops /\ entry \in Entries /\ run \in Run
  /\ events \in 0 .. Events /\ hist \in Histories

-----------------------------------------------------------------------------
(* Identical failures.                                                     *)

(* The count in the metadata is not behind the failures in a row, and once *)
(* those reach the threshold the pause is on record.                       *)
Streaks ==
  /\ hist.streak <= loop.count
  /\ hist.streak >= Threshold => At("idle") /\ loop.at
  /\ hist.streak <= Threshold

(* How a run may end: nothing of it is left.                               *)
Ends == run' = Idle /\ hist'.opened = hist.opened /\ Streaks'

LEMMA Numbers ==
  /\ Threshold \in Nat \ {0} /\ MaxRetries \in Nat /\ Events \in Nat /\ MaxBase \in Nat
  /\ MaxTurns \in Nat \ {0}
  /\ \A n \in Counts : Raise(n, Threshold + 1) \in Counts
  /\ \A n \in 0 .. MaxRetries : NextAttempt(n) \in 0 .. MaxRetries
  /\ 0 \in Counts /\ 1 \in Counts
<1>1. /\ Threshold \in Nat \ {0} /\ MaxRetries \in Nat /\ Events \in Nat /\ MaxBase \in Nat
      /\ MaxTurns \in Nat \ {0}
  BY MergeRunAssumption
<1> QED BY <1>1 DEF Counts, Raise, NextAttempt

LEMMA IdleType == Idle \in Run /\ NoLoop \in Loops /\ Free \in Entries
<1>1. 0 \in 0 .. MaxRetries /\ 0 \in 0 .. MaxTurns /\ 0 \in 0 .. MaxBase
  BY Numbers
<1>2. Empty \in Branch
  BY <1>1 DEF Empty, Branch
<1> QED BY <1>1, <1>2, Numbers DEF Idle, Run, Steps, PullRequests, NoLoop, Loops, Free, Entries, States

LEMMA FaultType == TypeOK /\ Fault => events' \in 0 .. Events
BY Numbers DEF TypeOK, Fault

LEMMA RetryType ==
  ASSUME TypeOK, Retry(run.attempt)
  PROVE  entry' \in Entries
<1>1. run.attempt \in 0 .. MaxRetries
  BY DEF TypeOK, Run
<1>2. NextAttempt(run.attempt) \in 0 .. MaxRetries
  BY <1>1, Numbers
<1> QED BY <1>2 DEF Retry, Entries, States

LEMMA StoreLoopType ==
  ASSUME TypeOK, StoreLoop(NoLoop)
  PROVE  loop' \in {loop, NoLoop} /\ loop' \in Loops /\ events' \in 0 .. Events
<1>1. loop' \in {loop, NoLoop} /\ (UNCHANGED events \/ Fault)
  BY DEF StoreLoop
<1> QED BY <1>1, IdleType, FaultType DEF TypeOK, Loops

LEMMA NoStreak ==
  ASSUME hist'.streak = 0, loop' \in Loops
  PROVE  Streaks'
<1>1. loop'.count \in Nat
  BY Numbers DEF Loops, Counts
<1> QED BY <1>1, Numbers DEF Streaks

LEMMA BlockedEnds ==
  ASSUME TypeOK, NEW b \in BOOLEAN, EndBlocked(b)
  PROVE  EndTypes' /\ Ends
<1>1. loop' \in Loops /\ events' \in 0 .. Events
  BY StoreLoopType DEF EndBlocked
<1>2. entry' \in Entries
  BY RetryType DEF EndBlocked
<1>3. /\ hist' \in Histories /\ hist'.opened = hist.opened /\ hist'.streak = 0
  <2>1. Raise(hist.retries, MaxRetries + 1) \in 0 .. MaxRetries + 1
    BY Numbers DEF TypeOK, Raise
  <2>2. hist \in Histories
    BY DEF TypeOK, Histories
  <2> QED BY <2>1, <2>2, Numbers DEF EndBlocked, Histories
<1> QED BY <1>1, <1>2, <1>3, IdleType, NoStreak DEF EndBlocked, EndTypes, Ends, TypeOK

LEMMA SuccessEnds ==
  ASSUME TypeOK, NEW s \in States, EndSucceeded(s), UNCHANGED paused
  PROVE  EndTypes' /\ Ends
<1>1. loop' \in Loops /\ events' \in 0 .. Events
  BY StoreLoopType DEF EndSucceeded
<1>2. entry' \in Entries
  BY Numbers DEF EndSucceeded, Entries
<1>3. /\ hist' \in Histories /\ hist'.opened = hist.opened /\ hist'.streak = 0
  <2>1. hist \in Histories /\ 0 \in 0 .. MaxRetries + 1
    BY Numbers DEF TypeOK, Histories
  <2> QED BY <2>1, Numbers DEF EndSucceeded, Histories
<1> QED BY <1>1, <1>2, <1>3, IdleType, NoStreak DEF EndSucceeded, EndTypes, Ends, TypeOK

LEMMA CountedType ==
  ASSUME TypeOK, NEW reason \in Reasons
  PROVE  Counted(reason) \in Loops
<1>1. loop.count \in Counts
  BY DEF TypeOK
<1> QED BY <1>1, Numbers DEF Counted, Loops

(* A failure that is recorded.  The run it ends was started below the      *)
(* threshold, so this is at most the failure that reaches it.              *)
LEMMA FailureEnds ==
  ASSUME TypeOK, Streaks, ~At("idle"), NEW reason \in Reasons, EndFailed(reason)
  PROVE  /\ paused' \in BOOLEAN /\ loop' \in Loops /\ entry' \in Entries /\ run' \in Run
         /\ hist' \in Histories /\ Ends
<1> DEFINE new == Counted(reason)
<1>1. new \in Loops
  BY CountedType
<1>2. hist \in Histories /\ hist.streak \in Counts /\ loop.count \in Counts
  BY DEF TypeOK, Histories
<1>3. Identical(reason) \in Counts
  BY <1>2, Numbers DEF Identical
<1>4. hist' \in Histories /\ hist'.opened = hist.opened /\ hist'.streak = Identical(reason)
  BY <1>2, <1>3 DEF EndFailed, Histories
<1>5. Identical(reason) <= new.count /\ Identical(reason) <= Threshold
  <2>1. hist.streak < Threshold /\ hist.streak <= loop.count
    BY <1>2, Numbers DEF Streaks, Counts
  <2> QED BY <1>2, <2>1, Numbers DEF Identical, Counted, Raise, Counts
<1>6. CASE Pauses(new.count)
  <2>1. loop' = [new EXCEPT !.at = TRUE] /\ paused' = TRUE /\ entry' = Free /\ run' = Idle
    BY <1>6 DEF EndFailed
  <2>2. loop' \in Loops /\ loop'.count = new.count /\ loop'.at = TRUE
    BY <1>1, <2>1 DEF Loops
  <2>3. Streaks'
    BY <1>4, <1>5, <2>1, <2>2 DEF Streaks, At, Idle
  <2> QED BY <1>4, <2>1, <2>2, <2>3, IdleType DEF Ends
<1>7. CASE ~Pauses(new.count)
  <2>1. loop' = new /\ Retry(run.attempt) /\ UNCHANGED paused /\ run' = Idle
    BY <1>7 DEF EndFailed
  <2>2. entry' \in Entries
    BY <2>1, RetryType
  <2>3. new.count < Threshold
    BY <1>1, <1>7, Numbers DEF Pauses, Loops, Counts
  <2>4. Identical(reason) < Threshold
    BY <1>1, <1>3, <1>5, <2>3, Numbers DEF Counts, Loops
  <2>5. Streaks'
    BY <1>3, <1>4, <1>5, <2>1, <2>4, Numbers DEF Streaks, Counts
  <2> QED BY <1>1, <1>4, <2>1, <2>2, <2>5, IdleType DEF Ends, TypeOK
<1> QED BY <1>6, <1>7

LEMMA UnrecordedEnds ==
  ASSUME TypeOK, NEW reason \in Reasons, EndFailedUnrecorded(reason)
  PROVE  /\ paused' \in BOOLEAN /\ loop' \in Loops /\ entry' \in Entries /\ run' \in Run
         /\ hist' \in Histories /\ Ends
<1> DEFINE new == Counted(reason)
<1>1. loop' \in Loops
  BY CountedType DEF EndFailedUnrecorded, TypeOK, Loops
<1>2. (paused \/ Pauses(new.count)) \in BOOLEAN
  OBVIOUS
<1>3. paused' \in BOOLEAN
  BY <1>2 DEF EndFailedUnrecorded, TypeOK
<1>4. entry' \in Entries
  BY RetryType, IdleType DEF EndFailedUnrecorded
<1>5. hist' \in Histories /\ hist'.opened = hist.opened /\ hist'.streak = 0
  BY Numbers DEF EndFailedUnrecorded, TypeOK, Histories
<1> QED BY <1>1, <1>3, <1>4, <1>5, IdleType, NoStreak DEF EndFailedUnrecorded, Ends

LEMMA FailedEnds ==
  ASSUME TypeOK, Streaks, ~At("idle"), NEW reason \in Reasons, Failed(reason)
  PROVE  EndTypes' /\ Ends
BY FailureEnds, UnrecordedEnds, FaultType DEF Failed, EndTypes

LEMMA ToReviewEnds ==
  ASSUME TypeOK, Streaks, ~At("idle"), ToReview
  PROVE  EndTypes' /\ Ends /\ UNCHANGED <<github, disk>> /\ board' \in States
<1>1. "Review" \in States /\ board \in States
  BY DEF States, TypeOK
<1>2. CASE board' = "Review" /\ EndSucceeded("Review") /\ UNCHANGED <<paused, github, disk>>
  BY <1>1, <1>2, SuccessEnds
<1>3. CASE \E reason \in Reasons :
             board' \in {board, "Review"} /\ Failed(reason) /\ UNCHANGED <<github, disk>>
  BY <1>1, <1>3, FailedEnds
<1> QED BY <1>2, <1>3 DEF ToReview

-----------------------------------------------------------------------------
(* Types.                                                                  *)

(* The variables that no end of a run writes.                              *)
PlaceTypes ==
  /\ board \in States /\ base \in 0 .. MaxBase /\ landed \subseteq Works
  /\ remote \in Branch \cup {NoBranch} /\ pr \in PullRequests
  /\ codex \in [threads : BOOLEAN, seen : BOOLEAN, signal : {"none", "pending", "approved"}]
  /\ local \in Branch /\ dirty \subseteq Works

LEMMA TypeParts ==
  /\ TypeOK <=> EndTypes /\ PlaceTypes
  /\ TypeOK' <=> EndTypes' /\ PlaceTypes'
BY DEF TypeOK, EndTypes, PlaceTypes, Loops, Entries, Histories

LEMMA RebasedIs ==
  ASSUME NEW a \in Branch, NEW b \in Branch
  PROVE  LET c == [base |-> b.base, work |-> a.work \cup b.work] IN c \in Branch /\ Contains(c, b)
BY Numbers DEF Branch, Contains

LEMMA InitType == Init => TypeOK
<1> SUFFICES ASSUME Init PROVE TypeOK
  OBVIOUS
<1>1. Empty \in Branch /\ {} \subseteq Works /\ Mine \subseteq Works
  BY Numbers, MergeRunAssumption DEF Empty, Branch
<1>2. EndTypes
  <2>1. [opened |-> 0, retries |-> 0, streak |-> 0] \in Histories /\ Events \in 0 .. Events
    BY Numbers DEF Histories
  <2> QED BY <2>1, IdleType DEF Init, EndTypes
<1>3. PlaceTypes
  BY <1>1, Numbers DEF Init, PlaceTypes, States, PullRequests
<1> QED BY <1>2, <1>3, TypeParts

(* A step to another place of the run that no end writes.                  *)
LEMMA GoToType ==
  ASSUME TypeOK, NEW step \in Steps, GoTo(step)
  PROVE  run' \in Run
BY DEF TypeOK, Run, GoTo

(* A pull request is of a branch that is there.                            *)
HasBranch == pr # "none" => remote # NoBranch

(* A step of a run leaves every variable in its type.                      *)
LEMMA RunnerType ==
  ASSUME TypeOK, Streaks, HasBranch, RunnerStep
  PROVE  TypeOK'
<1>a. EndTypes /\ PlaceTypes /\ run \in Run
  BY TypeParts DEF TypeOK
<1>b. ~At("idle")
  BY DEF RunnerStep, At, GateBlocks, GatePasses, Look, NothingToPublish, Push, Open, AlreadyMerged,
         MergeWorks, Refused, RepairTurn, RepairFails, Validate, PostMergeMove, CallFails
<1>c. UNCHANGED <<board, github, disk>> => PlaceTypes'
  BY <1>a DEF PlaceTypes, github, disk
<1>d. UNCHANGED <<paused, loop, entry, events, hist>> /\ run' \in Run => EndTypes'
  BY <1>a DEF EndTypes
<1>e. ASSUME ToReview PROVE TypeOK'
  <2>1. EndTypes' /\ UNCHANGED <<github, disk>> /\ board' \in States
    BY <1>b, <1>e, ToReviewEnds
  <2>2. PlaceTypes'
    BY <2>1, <1>a DEF PlaceTypes, github, disk
  <2> QED BY <2>1, <2>2, TypeParts
<1>f. Steps = {"idle", "gate", "look", "push", "open", "merge", "repair", "validate", "landed"}
  BY DEF Steps
<1>1. CASE GateBlocks
  <2>1. CASE ToReview
    BY <2>1, <1>e
  <2>2. CASE EndBlocked(FALSE)
    <3>1. EndTypes'
      BY <2>2, BlockedEnds
    <3>2. UNCHANGED <<board, github, disk>>
      BY <2>2 DEF EndBlocked
    <3> QED BY <3>1, <3>2, <1>c, TypeParts
  <2> QED BY <1>1, <2>1, <2>2 DEF GateBlocks
<1>2. CASE GatePasses
  <2>1. run' \in Run
    BY <1>2, <1>f, GoToType DEF GatePasses
  <2> QED BY <1>2, <2>1, <1>c, <1>d, TypeParts DEF GatePasses, linear
<1>3. CASE Look
  <2>1. run' \in Run
    <3>1. 0 \in 0 .. MaxBase /\ base \in 0 .. MaxBase /\ pr \in PullRequests
      BY <1>a, Numbers DEF PlaceTypes
    <3>2. \E n \in 0 .. MaxBase : run' = [run EXCEPT !.at = "push", !.pr = pr, !.base = n]
      BY <1>3, <3>1 DEF Look, Found
    <3> QED BY <3>1, <3>2, <1>a, <1>f DEF Run
  <2>2. events' \in 0 .. Events
    BY <1>3, <1>a, FaultType DEF Look, EndTypes
  <2>3. local' \in Branch /\ dirty' \subseteq Works
    BY <1>3, <1>a DEF Look, PlaceTypes, Branch
  <2>4. UNCHANGED <<linear, github, entry, hist>>
    BY <1>3 DEF Look
  <2>5. EndTypes'
    BY <2>1, <2>2, <2>4, <1>a DEF EndTypes, linear
  <2>6. PlaceTypes'
    BY <2>3, <2>4, <1>a DEF PlaceTypes, linear, github
  <2> QED BY <2>5, <2>6, TypeParts
<1>4. CASE NothingToPublish
  <2>1. NothingReviewable \in Reasons
    BY MergeRunAssumption DEF NothingReviewable
  <2>2. /\ paused' \in BOOLEAN /\ loop' \in Loops /\ entry' \in Entries /\ run' \in Run
        /\ hist' \in Histories
    BY <1>4, <1>b, <2>1, FailureEnds DEF NothingToPublish
  <2>3. UNCHANGED <<board, github, disk, events>>
    BY <1>4 DEF NothingToPublish
  <2>4. EndTypes'
    BY <2>2, <2>3, <1>a DEF EndTypes
  <2> QED BY <2>3, <2>4, <1>c, TypeParts
<1>5. CASE Push
  <2>1. Pushed \in Branch /\ Rebased \in Branch
    BY <1>a, RebasedIs DEF Pushed, Rebased, PushFits, PlaceTypes
  <2>2. PlaceTypes'
    BY <1>5, <1>a, <2>1 DEF Push, PlaceTypes
  <2>3. CASE GoTo("open") /\ UNCHANGED <<paused, loop, entry, events, hist>>
    BY <2>2, <2>3, <1>d, <1>f, GoToType, TypeParts
  <2>4. CASE \E reason \in Reasons : Failed(reason)
    BY <2>2, <2>4, <1>b, FailedEnds, TypeParts
  <2> QED BY <1>5, <2>3, <2>4 DEF Push
<1>6. CASE Open
  <2>1. UNCHANGED <<board, base, landed, remote, codex, disk>> /\ pr' \in {pr, "OPEN"}
    BY <1>6 DEF Open
  <2>2. PlaceTypes'
    BY <2>1, <1>a DEF PlaceTypes, disk, PullRequests
  <2>3. AfterPublish \in Steps
    BY <1>f DEF AfterPublish
  <2>4. [hist EXCEPT !.opened = Raise(@, 2)] \in Histories
    BY <1>a DEF EndTypes, Histories, Raise
  <2>5. CASE GoTo(AfterPublish) /\ UNCHANGED <<paused, loop, entry, events, hist>>
    BY <2>2, <2>3, <2>5, <1>d, GoToType, TypeParts
  <2>6. CASE run' = [run EXCEPT !.at = AfterPublish, !.pr = Found]
             /\ UNCHANGED <<paused, loop, entry, events, hist>>
    <3>1. run' \in Run
      BY <2>3, <2>6, <1>a DEF Run, Found, PlaceTypes
    <3> QED BY <2>2, <2>6, <3>1, <1>d, TypeParts
  <2>7. CASE /\ run' = [run EXCEPT !.at = AfterPublish, !.pr = "OPEN"]
             /\ hist' = [hist EXCEPT !.opened = Raise(@, 2)]
             /\ UNCHANGED <<paused, loop, entry, events>>
    <3>1. run' \in Run
      BY <2>3, <2>7, <1>a DEF Run, PullRequests
    <3> QED BY <2>2, <2>4, <2>7, <3>1, <1>a, TypeParts DEF EndTypes
  <2>8. CASE /\ Fault /\ run' = Idle /\ Retry(run.attempt)
             /\ hist' = [hist EXCEPT !.opened = Raise(@, 2), !.streak = 0]
             /\ UNCHANGED <<paused, loop>>
    <3>1. hist' \in Histories
      BY <2>4, <2>8, <1>a, Numbers DEF EndTypes, Histories, Raise
    <3>2. entry' \in Entries /\ events' \in 0 .. Events
      BY <2>8, RetryType, FaultType
    <3> QED BY <2>2, <2>8, <3>1, <3>2, <1>a, IdleType, TypeParts DEF EndTypes
  <2> QED BY <1>6, <2>5, <2>6, <2>7, <2>8 DEF Open
<1>7. CASE AlreadyMerged
  <2>1. run' \in Run
    BY <1>7, <1>f, GoToType DEF AlreadyMerged
  <2> QED BY <1>7, <2>1, <1>c, <1>d, TypeParts DEF AlreadyMerged, linear
<1>8. CASE MergeWorks
  <2>1. base' \in 0 .. MaxBase
    BY <1>8, <1>a, Numbers DEF MergeWorks, MergeOnGitHub, PlaceTypes
  <2>2. landed' \subseteq Works /\ pr' \in PullRequests
    <3>1. remote \in Branch => remote.work \subseteq Works
      BY DEF Branch
    <3>2. remote \in Branch /\ pr' = "MERGED" /\ landed' = landed \cup remote.work
      BY <1>8, <1>a DEF MergeWorks, MergeOnGitHub, PlaceTypes, HasBranch
    <3> QED BY <1>a, <3>1, <3>2 DEF PlaceTypes, PullRequests
  <2>3. PlaceTypes'
    BY <1>8, <1>a, <2>1, <2>2 DEF MergeWorks, PlaceTypes, disk
  <2>4. CASE run' = [run EXCEPT !.at = "landed", !.merged = TRUE]
             /\ UNCHANGED <<paused, loop, entry, events, hist>>
    <3>1. run' \in Run
      BY <2>4, <1>a, <1>f DEF Run
    <3> QED BY <2>3, <2>4, <3>1, <1>d, TypeParts
  <2>5. CASE \E reason \in Reasons : Failed(reason)
    BY <2>3, <2>5, <1>b, FailedEnds, TypeParts
  <2> QED BY <1>8, <2>4, <2>5 DEF MergeWorks
<1>9. CASE Refused
  <2>1. PICK kind \in Refusals : MergeRefused(kind)
    BY <1>9 DEF Refused
  <2>2. CASE EndBlocked(TRUE)
    <3>1. EndTypes'
      BY <2>2, BlockedEnds
    <3>2. UNCHANGED <<board, github, disk>>
      BY <2>2 DEF EndBlocked
    <3> QED BY <3>1, <3>2, <1>c, TypeParts
  <2>3. CASE StartRepair
    <3>1. run' \in Run
      <4>1. 1 \in 0 .. MaxTurns /\ local \in Branch /\ run.base \in 0 .. MaxBase
        BY <1>a, Numbers DEF Run, PlaceTypes
      <4> QED BY <2>3, <1>a, <1>f, <4>1 DEF StartRepair, Run
    <3> QED BY <2>3, <3>1, <1>c, <1>d, TypeParts DEF StartRepair, linear
  <2> QED BY <2>1, <2>2, <2>3, <1>e DEF MergeRefused
<1>10. CASE RepairTurn
  <2>1. local' \in Branch /\ dirty' \subseteq Works
    <3>1. [local EXCEPT !.base = base] \in Branch /\ [base |-> base, work |-> {}] \in Branch
      BY <1>a DEF PlaceTypes, Branch
    <3> QED BY <1>10, <1>a, <3>1, MergeRunAssumption DEF RepairTurn, Edits, PlaceTypes, disk
  <2>2. UNCHANGED <<linear, github, entry, events, hist>>
    BY <1>10 DEF RepairTurn
  <2>3. run' \in Run
    <3>1. CASE GoTo("look")
      BY <3>1, <1>f, GoToType
    <3>2. CASE TurnsLeft /\ run' = [run EXCEPT !.turn = @ + 1]
      BY <3>2, <1>a, Numbers DEF TurnsLeft, Run
    <3> QED BY <1>10, <3>1, <3>2 DEF RepairTurn
  <2>4. PlaceTypes'
    BY <2>1, <2>2, <1>a DEF PlaceTypes, linear, github
  <2> QED BY <2>2, <2>3, <2>4, <1>d, TypeParts DEF linear
<1>11. CASE RepairFails
  BY <1>11, <1>e DEF RepairFails
<1>12. CASE Validate
  <2>1. CASE Valid /\ GoTo("gate") /\ UNCHANGED <<linear, github, disk, entry, events, hist>>
    <3>1. run' \in Run
      BY <2>1, <1>f, GoToType
    <3> QED BY <2>1, <3>1, <1>c, <1>d, TypeParts DEF linear
  <2> QED BY <1>12, <2>1, <1>e DEF Validate
<1>13. CASE PostMergeMove
  <2>1. PostMerge \in States
    BY MergeRunAssumption DEF States
  <2>2. board' \in States /\ UNCHANGED <<paused, github, disk>>
    BY <1>13, <1>a, <2>1 DEF PostMergeMove, PlaceTypes
  <2>3. PlaceTypes'
    BY <2>2, <1>a DEF PlaceTypes, github, disk
  <2>4. CASE EndSucceeded(PostMerge)
    BY <2>1, <2>2, <2>3, <2>4, SuccessEnds, TypeParts
  <2>5. CASE /\ events > 0 /\ events' = events - 1 /\ loop' = NoLoop
             /\ entry' = [kind |-> "completed", attempt |-> 0, state |-> "Merge"]
             /\ run' = Idle
             /\ hist' = [hist EXCEPT !.streak = 0, !.retries = 0]
    <3>1. hist' \in Histories /\ entry' \in Entries
      <4>1. 0 \in 0 .. MaxRetries /\ 0 \in 0 .. MaxRetries + 1 /\ 0 \in Counts /\ hist \in Histories
        BY <1>a, Numbers DEF EndTypes
      <4>2. hist' \in Histories
        BY <2>5, <4>1 DEF Histories
      <4>3. entry' \in Entries
        BY <2>5, <4>1 DEF Entries, States
      <4> QED BY <4>2, <4>3
    <3>2. events' \in 0 .. Events
      BY <2>5, FaultType DEF Fault
    <3> QED BY <2>2, <2>3, <2>5, <3>1, <3>2, <1>a, IdleType, TypeParts DEF EndTypes
  <2> QED BY <1>13, <2>4, <2>5 DEF PostMergeMove
<1>14. CASE CallFails
  <2>1. UNCHANGED <<board, github, disk>>
    BY <1>14 DEF CallFails
  <2>2. EndTypes'
    BY <1>14, <1>b, FailedEnds DEF CallFails
  <2> QED BY <2>1, <2>2, <1>c, TypeParts
<1> QED BY <1>1, <1>2, <1>3, <1>4, <1>5, <1>6, <1>7, <1>8, <1>9, <1>10, <1>11, <1>12, <1>13, <1>14
    DEF RunnerStep

(* So does every other step.                                               *)
LEMMA NextType == TypeOK /\ Streaks /\ HasBranch /\ [Next]_vars => TypeOK'
<1> SUFFICES ASSUME TypeOK, Streaks, HasBranch, [Next]_vars PROVE TypeOK'
  OBVIOUS
<1>a. EndTypes /\ PlaceTypes
  BY TypeParts
<1>1. CASE RunnerStep
  BY <1>1, RunnerType
<1>2. CASE Dispatch
  <2>1. loop' \in Loops
    BY <1>2, <1>a, IdleType DEF Dispatch, Unpaused, EndTypes
  <2>2. run' \in Run
    <3>1. entry.attempt \in 0 .. MaxRetries /\ 0 \in 0 .. MaxRetries
      BY <1>a, Numbers DEF EndTypes, Entries
    <3>2. \E n \in 0 .. MaxRetries : run' = [Idle EXCEPT !.at = "gate", !.attempt = n]
      BY <1>2, <3>1 DEF Dispatch
    <3> QED BY <3>2, IdleType DEF Run, Steps
  <2>3. hist' \in Histories
    <3>1. /\ hist \in Histories /\ 0 \in Counts /\ 0 \in 0 .. MaxRetries + 1
          /\ hist.streak \in Counts /\ hist.retries \in 0 .. MaxRetries + 1
      BY <1>a, Numbers DEF EndTypes, Histories
    <3> QED BY <1>2, <3>1 DEF Dispatch, Histories
  <2>4. entry' \in Entries /\ UNCHANGED <<board, paused, github, disk, events>>
    BY <1>2, IdleType DEF Dispatch
  <2>5. EndTypes'
    BY <2>1, <2>2, <2>3, <2>4, <1>a DEF EndTypes
  <2>6. PlaceTypes'
    BY <2>4, <1>a DEF PlaceTypes, github, disk
  <2> QED BY <2>5, <2>6, TypeParts
<1>3. CASE Release
  <2>1. EndTypes'
    BY <1>3, <1>a, IdleType DEF Release, EndTypes, linear
  <2>2. PlaceTypes'
    BY <1>3, <1>a DEF Release, PlaceTypes, linear, github, disk
  <2> QED BY <2>1, <2>2, TypeParts
<1>4. CASE World
  <2>1. Fault
    BY <1>4 DEF World, HumanMoves, HumanUnpauses, HumanPushes, HumanMerges, HumanCloses, BaseMoves,
                CodexReviews
  <2>2. events' \in 0 .. Events
    BY <2>1, FaultType
  <2>3. UNCHANGED <<loop, entry, run, hist>> /\ paused' \in {paused, FALSE}
    BY <1>4 DEF World, HumanMoves, HumanUnpauses, HumanPushes, HumanMerges, HumanCloses, BaseMoves,
                CodexReviews, linear
  <2>4. EndTypes'
    BY <2>2, <2>3, <1>a DEF EndTypes
  <2>5. UNCHANGED <<local, dirty>>
    BY <1>4 DEF World, HumanMoves, HumanUnpauses, HumanPushes, HumanMerges, HumanCloses, BaseMoves,
                CodexReviews, disk
  <2>6. CASE HumanMoves \/ HumanUnpauses
    BY <2>4, <2>5, <2>6, <1>a, TypeParts DEF HumanMoves, HumanUnpauses, PlaceTypes, States, github
  <2>7. CASE HumanPushes
    <3>1. remote' \in Branch
      BY <2>7, <1>a DEF HumanPushes, PlaceTypes, Branch
    <3> QED BY <2>4, <2>5, <2>7, <3>1, <1>a, TypeParts DEF HumanPushes, PlaceTypes, linear
  <2>8. CASE HumanMerges
    <3>1. remote \in Branch /\ landed' = landed \cup remote.work /\ pr' = "MERGED"
      BY <2>8, <1>a DEF HumanMerges, MergeOnGitHub, HasBranch, PlaceTypes
    <3>2. landed' \subseteq Works
      BY <3>1, <1>a DEF PlaceTypes, Branch
    <3>3. base' \in 0 .. MaxBase
      BY <2>8, <1>a, Numbers DEF HumanMerges, MergeOnGitHub, PlaceTypes
    <3> QED BY <2>4, <2>5, <2>8, <3>1, <3>2, <3>3, <1>a, TypeParts
            DEF HumanMerges, PlaceTypes, PullRequests, linear
  <2>9. CASE HumanCloses
    BY <2>4, <2>5, <2>9, <1>a, TypeParts DEF HumanCloses, PlaceTypes, PullRequests, linear
  <2>10. CASE BaseMoves
    BY <2>4, <2>5, <2>10, <1>a, TypeParts, Numbers DEF BaseMoves, PlaceTypes, linear
  <2>11. CASE CodexReviews
    <3>1. codex' \in [threads : BOOLEAN, seen : BOOLEAN, signal : {"none", "pending", "approved"}]
      BY <2>11, <1>a DEF CodexReviews, PlaceTypes
    <3> QED BY <2>4, <2>5, <2>11, <3>1, <1>a, TypeParts DEF CodexReviews, PlaceTypes, linear
  <2> QED BY <1>4, <2>6, <2>7, <2>8, <2>9, <2>10, <2>11 DEF World
<1>5. CASE UNCHANGED vars
  BY <1>5 DEF vars, TypeOK
<1> QED BY <1>1, <1>2, <1>3, <1>4, <1>5 DEF Next, OrchestratorStep

-----------------------------------------------------------------------------
(* The branch.                                                             *)

Grows == remote # NoBranch => remote' # NoBranch /\ Contains(remote', remote)

LEMMA ContainsItself ==
  ASSUME NEW b \in Branch
  PROVE  Contains(b, b)
BY Numbers DEF Contains, Branch

LEMMA ContainsTransitive ==
  ASSUME NEW a \in Branch, NEW b \in Branch, NEW c \in Branch, Contains(c, b), Contains(b, a)
  PROVE  Contains(c, a)
BY Numbers DEF Contains, Branch

LEMMA ContainsBoth ==
  ASSUME NEW a \in Branch, NEW b \in Branch, Contains(a, b), Contains(b, a)
  PROVE  a = b
<1>1. a.base = b.base /\ a.work = b.work
  BY Numbers DEF Contains, Branch
<1> QED BY <1>1 DEF Branch

(* A step writes the branch on GitHub only to push to it.                  *)
LEMMA NextGrows == TypeOK /\ [Next]_vars => Grows
<1> SUFFICES ASSUME TypeOK, [Next]_vars, remote # NoBranch
             PROVE  remote' # NoBranch /\ Contains(remote', remote)
  BY DEF Grows
<1>a. remote \in Branch /\ local \in Branch /\ NoBranch \notin Branch
  BY MergeRunAssumption DEF TypeOK
<1>1. CASE Push
  <2>1. remote' = Rebased
    BY <1>1 DEF Push, Pushed
  <2>2. Rebased \in Branch /\ Contains(Rebased, remote)
    BY <1>a, RebasedIs DEF Rebased, PushFits
  <2> QED BY <2>1, <2>2, <1>a
<1>2. CASE HumanPushes
  <2>1. PICK w \in Works : remote' = [remote EXCEPT !.work = @ \cup {w}]
    BY <1>2 DEF HumanPushes
  <2> QED BY <2>1, <1>a, Numbers DEF Branch, Contains
<1>3. CASE UNCHANGED remote
  BY <1>3, <1>a, ContainsItself
<1>4. UNCHANGED remote \/ Push \/ HumanPushes
  <2>1. RunnerStep => Push \/ UNCHANGED remote
    BY DEF RunnerStep, GateBlocks, GatePasses, Look, NothingToPublish, Open, AlreadyMerged,
           MergeWorks, Refused, RepairTurn, RepairFails, Validate, PostMergeMove, CallFails,
           ToReview, EndBlocked, MergeRefused, StartRepair, github
  <2>2. Dispatch \/ Release => UNCHANGED remote
    BY DEF Dispatch, Release, github
  <2>3. World => HumanPushes \/ UNCHANGED remote
    BY DEF World, HumanMoves, HumanUnpauses, HumanMerges, HumanCloses, BaseMoves, CodexReviews, github
  <2> QED BY <2>1, <2>2, <2>3 DEF Next, OrchestratorStep, vars
<1> QED BY <1>1, <1>2, <1>3, <1>4

-----------------------------------------------------------------------------
(* From the publication to the merge.                                      *)

(* What is published is what the run merges and validates.                 *)
Published ==
  At("open") \/ At("validate") \/ At("merge") \/ (At("gate") /\ run.repaired) =>
    remote # NoBranch /\ Contains(remote, local)

(* A repair starts from a published branch and adds to it; between its     *)
(* validation and the merge nothing is taken away again.                   *)
Repaired ==
  run.repaired =>
    /\ remote # NoBranch /\ Contains(remote, run.before)
    /\ At("gate") \/ At("merge") => remote # run.before /\ run.expected <= remote.base

Merged == run.merged => At("landed") /\ local.work \subseteq landed

(* Colin opened the one pull request that there is.                        *)
Once == hist.opened <= 1 /\ (hist.opened = 1 => pr # "none")

RunInv == Streaks /\ HasBranch /\ Published /\ Repaired /\ Merged /\ Once
MergeInv == TypeOK /\ RunInv

LEMMA InitRun == Init => RunInv
<1> SUFFICES ASSUME Init PROVE RunInv
  OBVIOUS
<1>1. Streaks
  BY Numbers DEF Init, Streaks, NoLoop
<1>2. Empty \in Branch
  BY Numbers DEF Empty, Branch
<1>3. HasBranch
  BY <1>2, MergeRunAssumption DEF Init, HasBranch
<1>4. Published /\ Repaired /\ Merged /\ Once
  BY DEF Init, Published, Repaired, Merged, Once, At, Idle
<1> QED BY <1>1, <1>3, <1>4 DEF RunInv

(* The end of a run takes everything back that was promised of it.         *)
LEMMA EndsKeeps ==
  ASSUME MergeInv, Ends, Grows, pr # "none" => pr' # "none", pr' # "none" => pr # "none"
  PROVE  RunInv'
<1>1. ~run'.repaired /\ ~run'.merged /\ run'.at = "idle"
  BY DEF Ends, Idle
<1>2. Streaks' /\ HasBranch'
  BY DEF Ends, MergeInv, RunInv, HasBranch, Grows
<1>3. Published' /\ Repaired' /\ Merged' /\ Once'
  BY <1>1 DEF Published, Repaired, Merged, Once, At, MergeInv, RunInv, Ends
<1> QED BY <1>2, <1>3 DEF RunInv

(* Steps of people and of the orchestrator beside a run.                   *)
LEMMA AsideKeeps ==
  ASSUME MergeInv, TypeOK', UNCHANGED <<run, local, hist, loop>>, Grows,
         pr # "none" => pr' # "none", pr' # "none" => pr # "none", landed \subseteq landed'
  PROVE  RunInv'
<1> USE DEF MergeInv, RunInv
<1>1. Streaks' /\ Merged' /\ Once' /\ HasBranch'
  BY DEF Streaks, Merged, Once, At, HasBranch, Grows
<1>2. local \in Branch /\ run.before \in Branch /\ run.expected \in Nat
  BY Numbers DEF TypeOK, Run
<1>3. remote # NoBranch => remote \in Branch /\ remote' \in Branch
  BY DEF TypeOK, Grows
<1>4. Published'
  BY <1>2, <1>3, ContainsTransitive DEF Published, Grows, At
<1>5. Repaired'
  <2> SUFFICES ASSUME run.repaired
               PROVE  /\ remote' # NoBranch /\ Contains(remote', run.before)
                      /\ At("gate") \/ At("merge") =>
                           remote' # run.before /\ run.expected <= remote'.base
    BY DEF Repaired, At
  <2>1. remote \in Branch /\ remote' \in Branch /\ Contains(remote, run.before)
        /\ Contains(remote', remote) /\ remote' # NoBranch
    BY <1>3 DEF Repaired, Grows
  <2>2. Contains(remote', run.before)
    BY <2>1, <1>2, ContainsTransitive
  <2>3. remote # run.before => remote' # run.before
    BY <2>1, <1>2, ContainsBoth
  <2>4. run.expected <= remote.base => run.expected <= remote'.base
    BY <2>1, <1>2, Numbers DEF Contains, Branch
  <2> QED BY <2>1, <2>2, <2>3, <2>4 DEF Repaired
<1> QED BY <1>1, <1>4, <1>5

(* The next step of a run that does not end.                               *)
LEMMA StreakGoesOn ==
  ASSUME Streaks, ~At("idle"), hist \in Histories, run'.at # "idle",
         UNCHANGED loop, hist'.streak = hist.streak
  PROVE  Streaks'
BY Numbers DEF Streaks, At, Histories, Counts

LEMMA DispatchKeeps ==
  ASSUME MergeInv, Dispatch
  PROVE  RunInv'
<1> USE DEF MergeInv, RunInv
<1>1. run'.at = "gate" /\ ~run'.repaired /\ ~run'.merged
  BY DEF Dispatch, Idle
<1>2. hist'.opened = hist.opened /\ UNCHANGED <<pr, remote>>
  BY DEF Dispatch, github, TypeOK
<1>3. Streaks'
  <2>1. hist \in Histories /\ loop \in Loops
    BY TypeParts DEF EndTypes
  <2>2. loop' = Unpaused /\ ~paused
        /\ hist' = [hist EXCEPT !.streak = IF loop' = loop THEN @ ELSE 0,
                      !.retries = IF entry.kind = "retry" THEN @ ELSE 0]
    BY DEF Dispatch
  <2>3. CASE loop' = loop
    <3>1. hist'.streak = hist.streak
      BY <2>1, <2>2, <2>3 DEF Histories
    <3>2. ~loop.at
      BY <2>1, <2>2, <2>3 DEF Unpaused, NoLoop, Loops
    <3> QED BY <2>1, <2>3, <3>1, <3>2, Numbers DEF Streaks, Histories, Counts
  <2>4. CASE loop' # loop
    <3>1. hist'.streak = 0 /\ loop' \in Loops
      BY <2>1, <2>2, <2>4, IdleType DEF Histories, Unpaused
    <3> QED BY <3>1, NoStreak
  <2> QED BY <2>3, <2>4
<1> QED BY <1>1, <1>2, <1>3 DEF HasBranch, Published, Repaired, Merged, Once, At

LEMMA PushKeeps ==
  ASSUME MergeInv, TypeOK', Push, Grows, GoTo("open"),
         UNCHANGED <<paused, loop, entry, events, hist>>
  PROVE  RunInv'
<1> USE DEF MergeInv, RunInv
<1>1. /\ run' = [run EXCEPT !.at = "open"] /\ UNCHANGED <<pr, landed>> /\ At("push")
      /\ remote' = Rebased /\ local' = Rebased
  BY DEF Push, Pushed, GoTo
<1>2. /\ run'.at = "open" /\ run'.repaired = run.repaired /\ run'.before = run.before
      /\ run'.merged = run.merged /\ run.before \in Branch
  BY <1>1 DEF TypeOK, Run
<1>3. local \in Branch /\ remote \in Branch \cup {NoBranch}
  BY DEF TypeOK
<1>4. Rebased \in Branch
  BY <1>3, RebasedIs DEF Rebased, PushFits
<1>5. remote' # NoBranch /\ Contains(remote', local')
  BY <1>1, <1>3, <1>4, ContainsItself, MergeRunAssumption
<1>6. Streaks'
  BY <1>1, <1>2, StreakGoesOn, TypeParts DEF EndTypes, At
<1>7. run.repaired => Contains(remote', run.before)
  <2> SUFFICES ASSUME run.repaired PROVE Contains(remote', run.before)
    OBVIOUS
  <2>1. remote \in Branch /\ Contains(remote, run.before) /\ Contains(remote', remote)
    BY <1>3 DEF Repaired, Grows
  <2>2. remote' \in Branch
    BY <1>1, <1>4
  <2> QED BY <1>2, <2>1, <2>2, ContainsTransitive
<1>8. Published' /\ Repaired'
  BY <1>2, <1>5, <1>7 DEF Published, Repaired, At
<1>9. Merged' /\ Once' /\ HasBranch'
  BY <1>1, <1>2, <1>5 DEF Merged, Once, HasBranch, At
<1> QED BY <1>6, <1>8, <1>9

(* A pull request that is there already.                                   *)
LEMMA OpenGoesOn ==
  ASSUME MergeInv, At("open"), run'.at = AfterPublish, run'.repaired = run.repaired,
         run'.before = run.before, run'.merged = run.merged, run'.expected = run.expected,
         hist' \in Histories, hist'.streak = hist.streak, UNCHANGED <<loop, remote, local, landed>>,
         Once'
  PROVE  RunInv'
<1> USE DEF MergeInv, RunInv
<1>1. remote # NoBranch /\ Contains(remote, local)
  BY DEF Published
<1>2. Streaks'
  <2>1. ~At("idle") /\ run'.at # "idle" /\ hist \in Histories
    BY TypeParts DEF AfterPublish, At, EndTypes
  <2> QED BY <2>1, StreakGoesOn
<1>3. HasBranch' /\ Published' /\ Merged'
  BY <1>1 DEF HasBranch, Published, Merged, At, AfterPublish
<1>4. Repaired'
  BY DEF Repaired, At, AfterPublish
<1> QED BY <1>2, <1>3, <1>4

LEMMA OpenKeeps ==
  ASSUME MergeInv, TypeOK', Open
  PROVE  RunInv'
<1> USE DEF MergeInv, RunInv
<1>1. At("open") /\ UNCHANGED <<base, landed, remote, local>>
  BY DEF Open, disk
<1>2. run \in Run /\ hist \in Histories /\ hist' \in Histories
  BY TypeParts DEF EndTypes
<1>3. CASE GoTo(AfterPublish) /\ UNCHANGED <<paused, loop, pr, entry, events, hist>>
  <2>1. /\ run'.at = AfterPublish /\ run'.repaired = run.repaired /\ run'.before = run.before
        /\ run'.merged = run.merged /\ run'.expected = run.expected
    BY <1>2, <1>3 DEF GoTo, Run
  <2>2. Once'
    BY <1>3 DEF Once
  <2> QED BY <1>1, <1>2, <1>3, <2>1, <2>2, OpenGoesOn
<1>4. CASE run' = [run EXCEPT !.at = AfterPublish, !.pr = Found]
           /\ UNCHANGED <<paused, loop, pr, entry, events, hist>>
  <2>1. /\ run'.at = AfterPublish /\ run'.repaired = run.repaired /\ run'.before = run.before
        /\ run'.merged = run.merged /\ run'.expected = run.expected
    BY <1>2, <1>4 DEF Run
  <2>2. Once'
    BY <1>4 DEF Once
  <2> QED BY <1>1, <1>2, <1>4, <2>1, <2>2, OpenGoesOn
<1>5. CASE /\ Found = "none" /\ pr' = "OPEN"
           /\ run' = [run EXCEPT !.at = AfterPublish, !.pr = "OPEN"]
           /\ hist' = [hist EXCEPT !.opened = Raise(@, 2)]
           /\ UNCHANGED <<paused, loop, entry, events>>
  <2>1. /\ run'.at = AfterPublish /\ run'.repaired = run.repaired /\ run'.before = run.before
        /\ run'.merged = run.merged /\ run'.expected = run.expected
    BY <1>2, <1>5 DEF Run
  <2>2. hist.opened = 0
    BY <1>2, <1>5 DEF Found, Once, Histories
  <2>3. hist'.opened = 1 /\ hist'.streak = hist.streak
    BY <1>2, <1>5, <2>2 DEF Histories, Raise
  <2>4. Once'
    BY <1>5, <2>3 DEF Once
  <2> QED BY <1>1, <1>2, <1>5, <2>1, <2>3, <2>4, OpenGoesOn
<1>6. CASE /\ Found = "none" /\ pr' = "OPEN" /\ run' = Idle
           /\ hist' = [hist EXCEPT !.opened = Raise(@, 2), !.streak = 0]
           /\ UNCHANGED <<paused, loop>>
  <2>1. hist.opened = 0
    BY <1>2, <1>6 DEF Found, Once, Histories
  <2>2. hist'.opened = 1 /\ hist'.streak = 0
    BY <1>2, <1>6, <2>1 DEF Histories, Raise
  <2>3. Streaks'
    BY <2>2, NoStreak, TypeParts DEF EndTypes
  <2>4. remote' # NoBranch
    BY <1>1 DEF Published
  <2>5. ~run'.repaired /\ ~run'.merged /\ run'.at = "idle"
    BY <1>6 DEF Idle
  <2>6. Published' /\ Repaired' /\ Merged'
    BY <2>5 DEF Published, Repaired, Merged, At
  <2> QED BY <1>6, <2>2, <2>3, <2>4, <2>6 DEF HasBranch, Once
<1> QED BY <1>3, <1>4, <1>5, <1>6 DEF Open

LEMMA StartRepairKeeps ==
  ASSUME MergeInv, TypeOK', At("merge"), StartRepair
  PROVE  RunInv'
<1> USE DEF MergeInv, RunInv
<1>1. run' = [run EXCEPT !.at = "repair", !.turn = 1, !.repaired = TRUE,
                         !.before = local, !.expected = run.base]
      /\ UNCHANGED <<loop, hist, remote, local, landed, pr>>
  BY DEF StartRepair, linear, github, disk
<1>2. run'.at = "repair" /\ run'.repaired /\ run'.before = local /\ run'.merged = run.merged
  BY <1>1 DEF TypeOK, Run
<1>3. Streaks'
  BY <1>1, <1>2, StreakGoesOn, TypeParts DEF EndTypes, At
<1>4. remote # NoBranch /\ Contains(remote, local) /\ ~run.merged
  BY DEF Published, Merged, At
<1> QED BY <1>1, <1>2, <1>3, <1>4 DEF HasBranch, Published, Repaired, Merged, Once, At

(* A place where nothing has to be published yet.                          *)
LEMMA PrivateKeeps ==
  ASSUME MergeInv, ~At("idle"), ~At("landed"), run'.at \in {"look", "push", "repair"},
         run'.repaired = run.repaired, run'.before = run.before, run'.merged = run.merged,
         UNCHANGED <<loop, hist, remote, pr>>
  PROVE  RunInv'
<1> USE DEF MergeInv, RunInv
<1>1. Streaks'
  BY StreakGoesOn, TypeParts DEF EndTypes
<1> QED BY <1>1 DEF HasBranch, Published, Repaired, Merged, Once, At

(* On to the merge or to the gate, with nothing changed in between.        *)
LEMMA GatePassesKeeps ==
  ASSUME MergeInv, GatePasses
  PROVE  RunInv'
<1> USE DEF MergeInv, RunInv
<1>1. /\ At("gate") /\ UNCHANGED <<loop, hist, remote, local, landed, pr>>
      /\ run' = [run EXCEPT !.at = IF run.repaired THEN "merge" ELSE "look"]
  BY DEF GatePasses, GoTo, linear, github, disk
<1>2. /\ run'.at = (IF run.repaired THEN "merge" ELSE "look") /\ run'.repaired = run.repaired
      /\ run'.before = run.before /\ run'.merged = run.merged /\ run'.expected = run.expected
  BY <1>1 DEF TypeOK, Run
<1>3. Streaks'
  BY <1>1, <1>2, StreakGoesOn, TypeParts DEF EndTypes, At
<1> QED BY <1>1, <1>2, <1>3 DEF HasBranch, Published, Repaired, Merged, Once, At

LEMMA ValidKeeps ==
  ASSUME MergeInv, At("validate"), Valid, GoTo("gate"),
         UNCHANGED <<linear, github, disk, entry, events, hist>>
  PROVE  RunInv'
<1> USE DEF MergeInv, RunInv
<1>1. UNCHANGED <<loop, hist, remote, local, landed, pr>> /\ run' = [run EXCEPT !.at = "gate"]
  BY DEF GoTo, linear, github, disk
<1>2. /\ run'.at = "gate" /\ run'.repaired = run.repaired
      /\ run'.before = run.before /\ run'.merged = run.merged /\ run'.expected = run.expected
  BY <1>1 DEF TypeOK, Run
<1>3. Streaks'
  BY <1>1, <1>2, StreakGoesOn, TypeParts DEF EndTypes, At
<1> QED BY <1>1, <1>2, <1>3 DEF HasBranch, Published, Repaired, Merged, Once, At, Valid

LEMMA MergeWorksKeeps ==
  ASSUME MergeInv, MergeWorks, run' = [run EXCEPT !.at = "landed", !.merged = TRUE],
         UNCHANGED <<paused, loop, entry, events, hist>>
  PROVE  RunInv'
<1> USE DEF MergeInv, RunInv
<1>1. /\ At("merge") /\ UNCHANGED <<remote, local>> /\ pr = "OPEN" /\ pr' = "MERGED"
      /\ landed' = landed \cup remote.work
  BY DEF MergeWorks, MergeOnGitHub, disk
<1>2. run'.at = "landed" /\ run'.repaired = run.repaired /\ run'.before = run.before
  BY DEF TypeOK, Run
<1>3. Streaks'
  BY <1>1, <1>2, StreakGoesOn, TypeParts DEF EndTypes, At
<1>4. local.work \subseteq landed'
  BY <1>1 DEF Published, Contains
<1> QED BY <1>1, <1>2, <1>3, <1>4 DEF HasBranch, Published, Repaired, Merged, Once, At

LEMMA RunnerKeeps ==
  ASSUME MergeInv, TypeOK', Grows, RunnerStep
  PROVE  RunInv'
<1>a. TypeOK /\ Streaks /\ run \in Run /\ hist \in Histories
  BY TypeParts DEF MergeInv, RunInv, EndTypes
<1>b. ~At("idle")
  BY DEF RunnerStep, At, GateBlocks, GatePasses, Look, NothingToPublish, Push, Open, AlreadyMerged,
         MergeWorks, Refused, RepairTurn, RepairFails, Validate, PostMergeMove, CallFails
<1>c. ASSUME ToReview PROVE RunInv'
  <2>1. Ends /\ UNCHANGED <<github, disk>>
    BY <1>a, <1>b, <1>c, ToReviewEnds
  <2> QED BY <2>1, EndsKeeps DEF github
<1>d. ASSUME NEW b \in BOOLEAN, EndBlocked(b) PROVE RunInv'
  <2>1. Ends /\ UNCHANGED <<github, disk>>
    BY <1>a, <1>d, BlockedEnds DEF EndBlocked
  <2> QED BY <2>1, EndsKeeps DEF github
<1>e. ASSUME NEW reason \in Reasons, Failed(reason) PROVE Ends
  BY <1>a, <1>b, <1>e, FailedEnds
<1>1. CASE GateBlocks
  BY <1>1, <1>c, <1>d DEF GateBlocks
<1>2. CASE GatePasses
  BY <1>2, GatePassesKeeps
<1>3. CASE Look
  <2>1. \E n : run' = [run EXCEPT !.at = "push", !.pr = Found, !.base = n]
    BY <1>3 DEF Look
  <2>2. /\ run'.at = "push" /\ run'.repaired = run.repaired /\ run'.before = run.before
        /\ run'.merged = run.merged
    BY <1>a, <2>1 DEF Run
  <2> QED BY <1>3, <1>b, <2>2, PrivateKeeps DEF Look, At, linear, github
<1>4. CASE NothingToPublish
  <2>1. NothingReviewable \in Reasons
    BY MergeRunAssumption DEF NothingReviewable
  <2>2. Ends /\ UNCHANGED <<github, disk>>
    BY <1>4, <1>a, <1>b, <2>1, FailureEnds DEF NothingToPublish
  <2> QED BY <2>2, EndsKeeps DEF github
<1>5. CASE Push
  <2>1. CASE GoTo("open") /\ UNCHANGED <<paused, loop, entry, events, hist>>
    BY <1>5, <2>1, PushKeeps
  <2>2. CASE \E reason \in Reasons : Failed(reason)
    <3>1. Ends /\ UNCHANGED pr
      BY <1>5, <2>2, <1>e DEF Push
    <3> QED BY <3>1, EndsKeeps
  <2> QED BY <1>5, <2>1, <2>2 DEF Push
<1>6. CASE Open
  BY <1>6, OpenKeeps
<1>7. CASE AlreadyMerged
  <2>1. /\ At("merge") /\ UNCHANGED <<loop, hist, remote, local, landed, pr>>
        /\ run' = [run EXCEPT !.at = "landed"]
    BY <1>7 DEF AlreadyMerged, GoTo, linear, github, disk
  <2>2. /\ run'.at = "landed" /\ run'.repaired = run.repaired /\ run'.before = run.before
        /\ run'.merged = run.merged
    BY <1>a, <2>1 DEF Run
  <2>3. Streaks'
    BY <1>a, <2>1, <2>2, StreakGoesOn DEF At
  <2> QED BY <2>1, <2>2, <2>3 DEF MergeInv, RunInv, HasBranch, Published, Repaired, Merged, Once, At
<1>8. CASE MergeWorks
  <2>1. CASE run' = [run EXCEPT !.at = "landed", !.merged = TRUE]
             /\ UNCHANGED <<paused, loop, entry, events, hist>>
    BY <1>8, <2>1, MergeWorksKeeps
  <2>2. CASE \E reason \in Reasons : Failed(reason)
    <3>1. Ends /\ pr = "OPEN" /\ pr' = "MERGED"
      BY <1>8, <2>2, <1>e DEF MergeWorks, MergeOnGitHub
    <3> QED BY <3>1, EndsKeeps
  <2> QED BY <1>8, <2>1, <2>2 DEF MergeWorks
<1>9. CASE Refused
  <2>1. PICK kind \in Refusals : MergeRefused(kind)
    BY <1>9 DEF Refused
  <2>2. CASE StartRepair
    BY <1>9, <2>2, StartRepairKeeps DEF Refused
  <2> QED BY <2>1, <2>2, <1>c, <1>d DEF MergeRefused
<1>10. CASE RepairTurn
  <2>1. /\ run'.at \in {"look", "repair"} /\ run'.repaired = run.repaired
        /\ run'.before = run.before /\ run'.merged = run.merged
    <3>1. CASE GoTo("look")
      BY <1>a, <3>1 DEF GoTo, Run
    <3>2. CASE run' = [run EXCEPT !.turn = @ + 1]
      BY <1>10, <1>a, <3>2 DEF RepairTurn, Run, At
    <3> QED BY <1>10, <3>1, <3>2 DEF RepairTurn
  <2>2. UNCHANGED <<loop, hist, remote, pr>>
    BY <1>10 DEF RepairTurn, linear, github
  <2> QED BY <1>10, <1>b, <2>1, <2>2, PrivateKeeps DEF RepairTurn, At
<1>11. CASE RepairFails
  BY <1>11, <1>c DEF RepairFails
<1>12. CASE Validate
  BY <1>12, <1>c, ValidKeeps DEF Validate
<1>13. CASE PostMergeMove
  <2>1. PostMerge \in States /\ UNCHANGED <<paused, pr>>
    BY <1>13, MergeRunAssumption DEF States, PostMergeMove, github
  <2>2. CASE EndSucceeded(PostMerge)
    BY <1>a, <2>1, <2>2, SuccessEnds, EndsKeeps
  <2>3. CASE /\ loop' = NoLoop /\ run' = Idle
             /\ hist' = [hist EXCEPT !.streak = 0, !.retries = 0]
    <3>1. hist'.streak = 0 /\ hist'.opened = hist.opened
      BY <1>a, <2>3 DEF Histories
    <3>2. Ends
      BY <2>3, <3>1, NoStreak, IdleType DEF Ends
    <3> QED BY <2>1, <3>2, EndsKeeps
  <2> QED BY <1>13, <2>2, <2>3 DEF PostMergeMove
<1>14. CASE CallFails
  <2>1. Ends /\ UNCHANGED pr
    BY <1>14, <1>e DEF CallFails, github
  <2> QED BY <2>1, EndsKeeps
<1> QED BY <1>1, <1>2, <1>3, <1>4, <1>5, <1>6, <1>7, <1>8, <1>9, <1>10, <1>11, <1>12, <1>13, <1>14
    DEF RunnerStep

LEMMA NextKeeps == MergeInv /\ [Next]_vars => MergeInv'
<1> SUFFICES ASSUME MergeInv, [Next]_vars PROVE MergeInv'
  OBVIOUS
<1>1. TypeOK' /\ Grows
  BY NextType, NextGrows DEF MergeInv, RunInv
<1>2. RunInv'
  <2>1. CASE RunnerStep
    BY <1>1, <2>1, RunnerKeeps
  <2>2. CASE Dispatch
    BY <2>2, DispatchKeeps
  <2>3. CASE Release
    <3>1. UNCHANGED <<run, local, hist, loop, pr, landed>>
      BY <2>3 DEF Release, linear, github, disk
    <3> QED BY <1>1, <3>1, AsideKeeps
  <2>4. CASE World
    <3>1. UNCHANGED <<run, local, hist, loop>>
      BY <2>4 DEF World, HumanMoves, HumanUnpauses, HumanPushes, HumanMerges, HumanCloses, BaseMoves,
                  CodexReviews, linear, disk
    <3>2. (pr # "none" => pr' # "none") /\ (pr' # "none" => pr # "none") /\ landed \subseteq landed'
      BY <2>4 DEF World, HumanMoves, HumanUnpauses, HumanPushes, HumanMerges, HumanCloses, BaseMoves,
                  CodexReviews, github, MergeOnGitHub
    <3> QED BY <1>1, <3>1, <3>2, AsideKeeps
  <2>5. CASE UNCHANGED vars
    BY <1>1, <2>5, AsideKeeps DEF vars
  <2> QED BY <2>1, <2>2, <2>3, <2>4, <2>5 DEF Next, OrchestratorStep
<1> QED BY <1>1, <1>2 DEF MergeInv

LEMMA MergeInvHolds == Spec => []MergeInv
<1>1. Init => MergeInv
  BY InitType, InitRun DEF MergeInv
<1> QED BY <1>1, NextKeeps, PTL DEF Spec

-----------------------------------------------------------------------------
(* The theorems.                                                           *)

(* Every variable keeps its type, whatever fails and whatever people do.   *)
THEOREM TypeInvariant == Spec => []TypeOK
<1>1. MergeInv => TypeOK
  BY DEF MergeInv
<1> QED BY <1>1, MergeInvHolds, PTL

(* No step of a run, of a repair by Codex or of a person takes a commit    *)
(* away from the issue branch on GitHub.                                   *)
THEOREM BranchOnlyGrowsHolds == Spec => BranchOnlyGrows
<1>1. TypeOK /\ [Next]_vars => [Grows]_vars
  BY NextGrows
<1> QED BY <1>1, TypeInvariant, PTL DEF Spec, BranchOnlyGrows, Grows

(* A merge that follows a repair is of a branch that the repair changed    *)
(* and that contains the base branch of the refused attempt: what Codex    *)
(* does to the workspace, and what people push, cannot get past the        *)
(* validation.                                                             *)
THEOREM RepairIsRealHolds == Spec => []RepairIsReal
<1>1. MergeInv => RepairIsReal
  BY DEF MergeInv, RunInv, Repaired, RepairIsReal
<1> QED BY <1>1, MergeInvHolds, PTL

(* However many publications fail after the pull request was created, the  *)
(* next one finds it: the issue gets one.                                  *)
THEOREM OnePullRequestHolds == Spec => []OnePullRequest
<1>1. MergeInv => OnePullRequest
  BY DEF MergeInv, RunInv, Once, OnePullRequest
<1> QED BY <1>1, MergeInvHolds, PTL

(* The work that was in the workspace when the run merged is on the base   *)
(* branch, although people pushed to the branch before the merge.          *)
THEOREM MergedWorkLandedHolds == Spec => []MergedWorkLanded
<1>1. MergeInv => MergedWorkLanded
  BY DEF MergeInv, RunInv, Merged, MergedWorkLanded
<1> QED BY <1>1, MergeInvHolds, PTL

(* Identical failures in a row that were recorded stop at the threshold,   *)
(* for any threshold and any mix of faults.                                *)
THEOREM LoopStopsHolds == Spec => []LoopStops
<1>1. MergeInv => LoopStops
  BY DEF MergeInv, RunInv, Streaks, LoopStops
<1> QED BY <1>1, MergeInvHolds, PTL
=============================================================================
