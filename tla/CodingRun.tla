----------------------------- MODULE CodingRun -----------------------------
(***************************************************************************)
(* One issue and the coding runs it gets (automation/runner.go): the       *)
(* opening move, the ExecPlan that is decided on and written before the    *)
(* first turn, the loop of Codex turns, the answers to the review threads  *)
(* of a returned issue, and the handoff.                                   *)
(*                                                                         *)
(* Scheduler has the runs of many issues, reduces each to its status and   *)
(* decides what a status leads to; this module has the inside of a run,    *)
(* and after a run, whatever its status, the issue may get another one     *)
(* while it is active.  Every call to Linear, GitHub, git and Codex may    *)
(* fail, a move may be applied and still report an error, the run may be   *)
(* cancelled between any two calls, and meanwhile people move the issue,   *)
(* add a second plan, and open and resolve threads.                        *)
(***************************************************************************)
EXTENDS Integers, Sequences, FiniteSets

CONSTANTS
  Threads,        \* review threads of the issue's pull request
  ActiveOrder,    \* tracker.active_states, a sequence
  ReviewState,    \* the first of repo.publish_states
  OtherStates,    \* every other state of the board
  HumanTargets,   \* bound: states humans move the issue into
  MaxTurns,       \* agent.max_turns
  Tasks,          \* bound: tasks in the Progress section of a plan
  CreateExecPlan, \* agent.create_exec_plan
  NoPlan, Unreadable, NoThread

RefineState == "Refine"
ActiveStates == {ActiveOrder[k] : k \in DOMAIN ActiveOrder}
States == ActiveStates \cup {ReviewState, RefineState} \cup OtherStates

(* The body of a plan, as ParseProgress sees it: the number of unchecked   *)
(* tasks, or no Progress section with a task in it.                        *)
Bodies == 0 .. Tasks \cup {Unreadable}

ASSUME CodingRunAssumption ==
  /\ ActiveOrder \in Seq(ActiveStates) /\ Len(ActiveOrder) > 0
  /\ {ReviewState, RefineState} \cap ActiveStates = {}
  /\ ReviewState # RefineState
  /\ HumanTargets \subseteq States
  /\ MaxTurns \in Nat \ {0} /\ Tasks \in Nat
  /\ CreateExecPlan \in BOOLEAN
  /\ NoPlan \notin Bodies /\ NoThread \notin Threads

VARIABLES
  board,       \* Linear: the state of the issue
  plan,        \* Linear: the stored ExecPlan
  duplicated,  \* Linear: the issue has more than one ExecPlan attachment
  decision,    \* metadata: ExecPlanDecision, "" before it is made
  target,      \* metadata: PendingReviewThreadID
  open,        \* GitHub: the unresolved review threads
  pr,          \* GitHub: the issue's branch has a pull request
  diff,        \* workspace: ReviewableArtifact
  issue,       \* the runner's copy of the issue
  run,         \* the run: where it is and its local variables
  late         \* history: threads opened since the run last verified them

linear == <<board, plan, duplicated, decision, target>>
world == <<open, pr, diff, late>>
vars == <<board, plan, duplicated, decision, target, open, pr, diff,
          issue, run, late>>

Issue == [state : States, duplicated : BOOLEAN, threads : SUBSET Threads,
          target : Threads \cup {NoThread}]

Steps == {"idle", "begin", "decide", "write", "copy", "turn", "sync", "refresh",
          "judge", "finalize", "reply", "verify", "record", "handoff"}

(* What Codex left as the last message of a turn: nothing, an explicit     *)
(* outcome line, or other text.                                            *)
Messages == {"", "text", "ready", "spec"}

Run == [at : Steps, turn : 0 .. MaxTurns, tracked : BOOLEAN, file : Bodies,
        progress : 0 .. Tasks, said : Messages, rewritten : BOOLEAN,
        noDiff : 0 .. 2, forced : BOOLEAN, maxed : BOOLEAN,
        batch : SUBSET Threads, failed : BOOLEAN, handoff : States]

NoIssue == [state |-> RefineState, duplicated |-> FALSE, threads |-> {}, target |-> NoThread]
Idle == [at |-> "idle", turn |-> 0, tracked |-> FALSE, file |-> 0, progress |-> 0,
         said |-> "", rewritten |-> FALSE, noDiff |-> 0, forced |-> FALSE,
         maxed |-> FALSE, batch |-> {}, failed |-> FALSE, handoff |-> RefineState]

TypeOK ==
  /\ board \in States
  /\ plan \in Bodies \cup {NoPlan}
  /\ duplicated \in BOOLEAN
  /\ decision \in {"", "one_shot", "exec_plan"}
  /\ target \in Threads \cup {NoThread}
  /\ open \subseteq Threads /\ late \subseteq Threads
  /\ pr \in BOOLEAN /\ diff \in BOOLEAN
  /\ issue \in Issue
  /\ run \in Run

(* A new issue: no plan, no pull request, a clean workspace.               *)
Init ==
  /\ board = ActiveOrder[1]
  /\ plan = NoPlan /\ duplicated = FALSE /\ decision = ""
  /\ target = NoThread
  /\ open = {} /\ late = {}
  /\ pr = FALSE /\ diff = FALSE
  /\ issue = NoIssue /\ run = Idle

IsActive(s) == s \in ActiveStates
At(step) == run.at = step
GoTo(step) == run' = [run EXCEPT !.at = step]

(* The run returns.  Its working copy of the plan is deleted with it.      *)
Leave == run' = Idle /\ issue' = NoIssue

(* UpdateIssueState, from a run that has nothing left to do but return:    *)
(* the move works, fails, or is applied although the call reports an error.*)
MoveAndLeave(s) == board' \in {board, s} /\ Leave

(* handleDuplicateExecPlans and handleInvalidExecPlan: back to a human,    *)
(* wherever the issue is by now.                                           *)
ToRefine ==
  /\ MoveAndLeave(RefineState)
  /\ UNCHANGED <<plan, duplicated, decision, target, world>>

-----------------------------------------------------------------------------
(* Before the first turn.                                                  *)

(* The issue is dispatched as the loop saw it.  prepareReviewIssue gave it *)
(* the one thread a reaction asked for, or the open threads of an issue    *)
(* that came back from review.                                             *)
Dispatch ==
  /\ At("idle") /\ IsActive(board)
  /\ target # NoThread => target \in open
  /\ \E threads \in IF target = NoThread THEN {open, {}} ELSE {{target}} :
       issue' = [state |-> board, duplicated |-> duplicated,
                 threads |-> threads, target |-> target]
  /\ GoTo("begin")
  /\ UNCHANGED <<linear, world>>

NextActive(s) ==
  LET later == {k \in DOMAIN ActiveOrder \ {1} : ActiveOrder[k - 1] = s}
  IN IF later = {} THEN s ELSE ActiveOrder[CHOOSE k \in later : TRUE]

(* moveActiveIssueToWorkingState.  The board is written, not looked at.    *)
OpeningMove ==
  /\ At("begin")
  /\ LET next == NextActive(issue.state) IN
       /\ board' = IF next = issue.state THEN board ELSE next
       /\ issue' = [issue EXCEPT !.state = next]
  /\ GoTo("decide")
  /\ UNCHANGED <<plan, duplicated, decision, target, world>>

DuplicatePlans ==
  /\ At("decide") /\ issue.duplicated
  /\ ToRefine

(* ensureExecPlanDecision.  A stored plan is the decision.                 *)
Decide ==
  /\ At("decide") /\ ~issue.duplicated
  /\ decision' \in IF ~CreateExecPlan \/ decision # "" THEN {decision}
                   ELSE IF plan # NoPlan THEN {"exec_plan"}
                   ELSE {"one_shot", "exec_plan"}
  /\ GoTo("write")
  /\ UNCHANGED <<board, plan, duplicated, target, world, issue>>

WantsPlan == CreateExecPlan /\ decision = "exec_plan"

(* ensureExecPlan.  Codex answers with some document, which is stored      *)
(* unless a second attachment has appeared.                                *)
WritePlan ==
  /\ At("write")
  /\ \/ /\ ~WantsPlan \/ plan # NoPlan
        /\ GoTo("copy") /\ UNCHANGED <<linear, world, issue>>
     \/ /\ WantsPlan /\ plan = NoPlan
        /\ \/ duplicated /\ ToRefine
           \/ /\ ~duplicated
              /\ plan' \in Bodies
              /\ GoTo("copy")
              /\ UNCHANGED <<board, duplicated, decision, target, world, issue>>

(* execPlanTrackingEnabled *)
Tracked == WantsPlan /\ plan # NoPlan

(* prepareExecPlanWorkingCopy, and the first turn.                         *)
CopyPlan ==
  /\ At("copy")
  /\ \/ /\ ~Tracked
        /\ run' = [run EXCEPT !.at = "turn", !.turn = 1]
        /\ UNCHANGED <<linear, world, issue>>
     \/ /\ Tracked /\ plan # Unreadable
        /\ run' = [run EXCEPT !.at = "turn", !.turn = 1, !.tracked = TRUE,
                              !.file = plan, !.progress = plan]
        /\ UNCHANGED <<linear, world, issue>>
     \/ Tracked /\ ToRefine

-----------------------------------------------------------------------------
(* The turns.                                                              *)

(* RunTurn: Codex edits the workspace and the working copy, as it likes    *)
(* (in the turns of Decide and WritePlan too, which come before this one). *)
Turn ==
  /\ At("turn")
  /\ diff' \in BOOLEAN
  /\ \E file \in IF run.tracked THEN Bodies ELSE {run.file}, said \in Messages :
       run' = [run EXCEPT !.at = "sync", !.file = file, !.said = said]
  /\ UNCHANGED <<linear, open, pr, late, issue>>

(* A turn that fails or times out ends the run before the plan is synced.  *)
TurnFails ==
  /\ At("turn")
  /\ diff' \in BOOLEAN
  /\ Leave
  /\ UNCHANGED <<linear, open, pr, late>>

(* syncIssueExecPlanFromWorkingCopy.  Any trouble with the plan, a failed  *)
(* write included, hands the issue to a human.                             *)
SyncPlan ==
  /\ At("sync")
  /\ \/ /\ ~run.tracked
        /\ GoTo("refresh") /\ UNCHANGED <<linear, world, issue>>
     \/ /\ run.tracked /\ run.file # Unreadable
        /\ run.file # plan => ~duplicated
        /\ plan' = run.file
        /\ run' = [run EXCEPT !.at = "refresh", !.progress = run.file]
        /\ UNCHANGED <<board, duplicated, decision, target, world, issue>>
     \/ run.tracked /\ ToRefine

(* Where the run goes when there are no more turns.                        *)
AfterTurns == IF issue.threads = {} THEN "record" ELSE "finalize"

(* FetchIssueStatesByIDs returns the state only, or no row at all; the     *)
(* rest of the copy is the copy's (mergeIssueContext).                     *)
Refresh ==
  /\ At("refresh")
  /\ \E seen \in {board, issue.state} :
       /\ issue' = [issue EXCEPT !.state = seen]
       /\ GoTo(IF IsActive(seen) THEN "judge" ELSE AfterTurns)
  /\ UNCHANGED <<linear, world>>

(* Mutant: a turn that ends with work to do always gets a successor.       *)
AlwaysAnotherTurn(r) ==
  [r EXCEPT !.at = "turn", !.turn = IF @ < MaxTurns THEN @ + 1 ELSE @]

AnotherTurn(r) ==
  IF r.turn < MaxTurns
  THEN [r EXCEPT !.at = "turn", !.turn = @ + 1]
  ELSE [r EXCEPT !.at = AfterTurns, !.maxed = TRUE]

(* Mutant: a diff is enough, whatever the plan says.                       *)
PlanIgnored == TRUE

PlanDone == ~run.tracked \/ run.progress = 0

(* What the turn's last message and the workspace make of the run.         *)
Judge ==
  /\ At("judge")
  /\ \/ run.said = "" /\ run' = AnotherTurn(run)
     \/ run.said = "spec" /\ GoTo(AfterTurns)
     \/ /\ run.said \in {"text", "ready"} /\ diff
        /\ run' = IF PlanDone THEN [run EXCEPT !.at = AfterTurns, !.noDiff = 0]
                  ELSE AnotherTurn([run EXCEPT !.noDiff = 0])
     \/ /\ run.said = "text" /\ ~diff
        /\ run' = AnotherTurn([run EXCEPT !.noDiff = 0])
     \/ /\ run.said = "ready" /\ ~diff
        /\ run' = IF run.noDiff + 1 >= 2
                  THEN [run EXCEPT !.at = AfterTurns, !.noDiff = 2, !.forced = TRUE]
                  ELSE AnotherTurn([run EXCEPT !.noDiff = @ + 1])
  /\ UNCHANGED <<linear, world, issue>>

-----------------------------------------------------------------------------
(* finalizeReviewThreads, for a run that was given review threads.         *)

(* The pending reaction is dropped from the copy; its write to Linear is   *)
(* best effort.  The summary is replaced by "Ready for review", and Codex's*)
(* outcome line is no longer its first.                                    *)
ReviewReady ==
  /\ target' \in IF issue.target = NoThread THEN {target} ELSE {target, NoThread}
  /\ issue' = [issue EXCEPT !.target = NoThread]
  /\ run' = [run EXCEPT !.at = "record", !.rewritten = TRUE]
  /\ late' = {}
  /\ UNCHANGED <<board, plan, duplicated, decision, open, pr, diff>>

(* A run that was given one thread by a reaction answers that thread only. *)
ToAnswer == IF issue.target = NoThread THEN open ELSE open \cap {issue.target}

Finalize ==
  /\ At("finalize")
  /\ IF ToAnswer = {} THEN ReviewReady
     ELSE /\ run' = [run EXCEPT !.at = "reply", !.batch = ToAnswer]
          /\ UNCHANGED <<linear, world, issue>>

(* ReplyAndResolveReviewThread.                                            *)
Reply ==
  /\ At("reply")
  /\ \E t \in run.batch :
       /\ open' = open \ {t}
       /\ run' = [run EXCEPT !.batch = @ \ {t},
                             !.at = IF run.batch = {t} THEN "verify" ELSE @]
  /\ UNCHANGED <<linear, pr, diff, late, issue>>

(* A reply that fails is counted; one that was the run's only thread ends  *)
(* the run as blocked, which is Fails.                                     *)
ReplyFails ==
  /\ At("reply") /\ issue.target = NoThread
  /\ \E t \in run.batch :
       run' = [run EXCEPT !.batch = @ \ {t}, !.failed = TRUE,
                          !.at = IF run.batch = {t} THEN "verify" ELSE @]
  /\ UNCHANGED <<linear, world, issue>>

(* Mutant: threads that replies did not fail on count as resolved.         *)
NoReplyFailed == ~run.failed

AllAnswered == ~run.failed /\ ToAnswer = {}

(* The threads are read again; what is still unresolved blocks the handoff.*)
Verify ==
  /\ At("verify")
  /\ IF AllAnswered THEN ReviewReady
     ELSE Leave /\ UNCHANGED <<linear, world>>

-----------------------------------------------------------------------------
(* The end of the run.                                                     *)

(* Mutant: a run that used up its turns is handed over like any other.     *)
TurnsForgotten ==
  IF run.forced \/ (run.said = "spec" /\ ~run.rewritten)
  THEN RefineState ELSE ReviewState

(* parseCodingSummaryOutcome and codingHandoffState: only the first line of*)
(* the summary can ask for Refine.                                         *)
Verdict ==
  IF run.forced \/ run.maxed \/ (run.said = "spec" /\ ~run.rewritten)
  THEN RefineState ELSE ReviewState

(* persistIssueMetadata writes the whole record from the run's copy.       *)
Record ==
  /\ At("record")
  /\ target' = issue.target
  /\ run' = [run EXCEPT !.at = "handoff", !.handoff = Verdict]
  /\ UNCHANGED <<board, plan, duplicated, decision, world, issue>>

(* moveSuccessfulCodingRunToHandoffState looks at the copy, not the board. *)
Handoff ==
  /\ At("handoff")
  /\ IF IsActive(issue.state) THEN MoveAndLeave(run.handoff)
     ELSE Leave /\ UNCHANGED board
  /\ UNCHANGED <<plan, duplicated, decision, target, world>>

(* Any call fails or times out, the run is cancelled because the issue left*)
(* the active states or stalled, or the process dies.                      *)
Fails ==
  /\ ~At("idle") /\ ~At("turn")
  /\ Leave
  /\ UNCHANGED <<linear, world>>

(* The publish run of an issue in review: the pull request is there or is  *)
(* opened, unless there is nothing to review; then the issue goes back to  *)
(* the last active state (handlePublishWithoutReviewableChanges).          *)
Publish ==
  /\ At("idle") /\ board = ReviewState
  /\ IF pr \/ diff THEN pr' = TRUE /\ UNCHANGED board
     ELSE board' = ActiveOrder[Len(ActiveOrder)] /\ UNCHANGED pr
  /\ UNCHANGED <<plan, duplicated, decision, target, open, diff, late, issue, run>>

RunStep ==
  \/ OpeningMove \/ DuplicatePlans \/ Decide \/ WritePlan \/ CopyPlan
  \/ Turn \/ TurnFails \/ SyncPlan \/ Refresh \/ Judge
  \/ Finalize \/ Reply \/ ReplyFails \/ Verify
  \/ Record \/ Handoff \/ Fails

-----------------------------------------------------------------------------
(* The people around the run, and the loop between runs.                   *)

HumanMove ==
  /\ board' \in HumanTargets \ {board}
  /\ UNCHANGED <<plan, duplicated, decision, target, world, issue, run>>

HumanPlans ==
  /\ plan # NoPlan
  /\ duplicated' = ~duplicated
  /\ UNCHANGED <<board, plan, decision, target, world, issue, run>>

(* A reviewer opens a thread, or opens a resolved one again.               *)
ThreadOpened ==
  /\ pr
  /\ \E t \in Threads \ open :
       open' = open \cup {t} /\ late' = late \cup {t}
  /\ UNCHANGED <<linear, pr, diff, issue, run>>

ThreadClosed ==
  /\ \E t \in open : open' = open \ {t}
  /\ UNCHANGED <<linear, pr, diff, late, issue, run>>

(* A reaction is accepted for one thread and the issue goes back to work   *)
(* (ReviewFollowUp has the whole story); or, back at work, the thread is   *)
(* found resolved and the issue goes back to review.                       *)
FollowUp ==
  /\ At("idle")
  /\ \/ /\ board = ReviewState
        /\ target' \in open /\ board' = ActiveOrder[1]
     \/ /\ IsActive(board) /\ target # NoThread /\ target \notin open
        /\ target' = NoThread /\ board' = ReviewState
  /\ UNCHANGED <<plan, duplicated, decision, world, issue, run>>

Next ==
  \/ Dispatch \/ RunStep \/ Publish
  \/ HumanMove \/ HumanPlans \/ ThreadOpened \/ ThreadClosed \/ FollowUp

(* Every call of a run returns or times out (turn_timeout, the timeouts of *)
(* the git and HTTP clients), so a run takes its next step in the end.     *)
Spec == Init /\ [][Next]_vars /\ WF_vars(RunStep)

-----------------------------------------------------------------------------
(* Properties.                                                             *)

ToReview == At("handoff") /\ run'.at = "idle" /\ board # ReviewState /\ board' = ReviewState

(* The one way around both gates: Codex asked for a spec in a run that     *)
(* answers review threads, and the answer hides the request.               *)
SpecHidden == run.rewritten /\ run.said = "spec"

(* A run with an ExecPlan moves its issue to Review only when every task   *)
(* of the plan is checked off, in the plan that Linear has, through turns, *)
(* plan syncs, failed writes and second plans (the handoff of Run); except *)
(* when a request for a spec was hidden.                                   *)
PlanGate == [][ToReview /\ run.tracked => plan = 0 \/ SpecHidden]_vars

(* The same without the exception, as the README states it: "ExecPlan-     *)
(* backed issues only reach Review after every task in the plan's Progress *)
(* section is checked off."                                                *)
ReviewMeansPlanDone == [][ToReview /\ run.tracked => plan = 0]_vars

(* Codex's word is not enough for Review: there is a diff or a branch ahead*)
(* of its base, however often Codex says it is ready and whether or not the*)
(* turns are used up.                                                      *)
ReviewHasDiff == [][ToReview => diff \/ SpecHidden]_vars

(* An issue that came back for review threads returns to Review only when  *)
(* none of the threads of this run is open, except those that people opened*)
(* again after the run read the threads for the last time; replies that    *)
(* fail and threads that appear during the answers included.               *)
AnsweredBeforeReview == [][ToReview => issue.threads \cap open \subseteq late]_vars

(* A run for the thread of a reaction resolves no other thread.            *)
OnlyTargetResolved ==
  [][At("reply") /\ run'.batch # run.batch /\ issue.target # NoThread
       => open \ open' \subseteq {issue.target}]_vars

(* A run resolves the threads it was given and no others, as OPERATIONS.md *)
(* states it: Colin "replies to and resolves the unresolved GitHub review  *)
(* threads it addressed".  The code reads the threads again after the last *)
(* turn and answers all it finds.                                          *)
AddressedThreadsOnly ==
  [][At("reply") /\ run'.batch # run.batch => open \ open' \subseteq issue.threads]_vars

(* Every run ends: there is no turn, plan or review that keeps it going    *)
(* beyond max_turns.                                                       *)
RunEnds == []<>At("idle")

=============================================================================
