------------------------------ MODULE MergeRun ------------------------------
(***************************************************************************)
(* One issue in Merge and the merge runs it gets (automation/runner.go,    *)
(* repoops/manager.go, orchestrator/loop_guard.go): the review gate, the   *)
(* publication that every merge starts with, the merge on GitHub, the      *)
(* repair of the branch by Codex when GitHub refuses, the validation of    *)
(* that repair, and what the orchestrator makes of the way a run ends:     *)
(* silent retries, retries with a failure count, a pause.                  *)
(*                                                                         *)
(* A branch is what it contains: how many commits of the base branch, and  *)
(* which changes.  Containment is git's ancestry.  People push, merge,     *)
(* close and review on GitHub meanwhile, the base branch moves, and every  *)
(* call may fail, or work although it reports an error.                    *)
(***************************************************************************)
EXTENDS Integers, FiniteSets

CONSTANTS
  Works,           \* changes a branch may contain
  Mine,            \* those that Codex makes, the others are pushed by people
  MaxBase,         \* bound: commits of the base branch
  MaxTurns,        \* agent.max_turns
  MaxRetries,      \* maxAutomaticMergeRetries
  Threshold,       \* loopFailureThreshold
  Reasons,         \* errors that differ, for the failure fingerprint
  ReviewsEnabled,  \* codex_pr_reviews_enabled of the target
  PostMerge,       \* the state Linear's merge automation names, or "Merge"
  Events,          \* bound: faults and steps of people, together
  NoBranch, NoReason

Branch == [base : 0 .. MaxBase, work : SUBSET Works]
Empty == [base |-> 0, work |-> {}]

ASSUME MergeRunAssumption ==
  /\ Mine \subseteq Works
  /\ MaxBase \in Nat /\ MaxTurns \in Nat \ {0} /\ MaxRetries \in Nat
  /\ Threshold \in Nat \ {0} /\ Events \in Nat
  /\ ReviewsEnabled \in BOOLEAN
  /\ PostMerge \in {"Merge", "Merged"}
  /\ NoBranch \notin Branch /\ NoReason \notin Reasons /\ Reasons # {}

VARIABLES
  board,    \* Linear: the state of the issue
  paused,   \* Linear: the paused label
  loop,     \* metadata: LoopFailureFingerprint and LoopFailureCount
  base,     \* GitHub: the length of the base branch
  landed,   \* GitHub: the changes merged into it
  remote,   \* GitHub: the issue branch
  pr,       \* GitHub: the pull request of the issue branch
  codex,    \* GitHub: what Codex has said about the pull request
  local,    \* workspace: HEAD
  dirty,    \* workspace: uncommitted changes
  entry,    \* orchestrator: claimed for a retry, completed in a state, or neither
  run,      \* the run: where it is and its local variables
  events,   \* faults and steps of people left
  hist      \* history: pull requests opened, silent retries, identical failures

linear == <<board, paused, loop>>
github == <<base, landed, remote, pr, codex>>
disk == <<local, dirty>>
vars == <<board, paused, loop, base, landed, remote, pr, codex, local, dirty,
          entry, run, events, hist>>

Steps == {"idle", "gate", "look", "push", "open", "merge", "repair", "validate",
          "landed"}
PullRequests == {"none", "OPEN", "CLOSED", "MERGED"}

Run == [at : Steps, attempt : 0 .. MaxRetries, turn : 0 .. MaxTurns,
        repaired : BOOLEAN, pr : PullRequests, base : 0 .. MaxBase,
        before : Branch, expected : 0 .. MaxBase, merged : BOOLEAN]
Idle == [at |-> "idle", attempt |-> 0, turn |-> 0, repaired |-> FALSE,
         pr |-> "none", base |-> 0, before |-> Empty, expected |-> 0, merged |-> FALSE]

Free == [kind |-> "none", attempt |-> 0, state |-> "Merge"]
NoLoop == [reason |-> NoReason, count |-> 0, at |-> FALSE]
States == {"Todo", "Review", "Merge", "Merged"}

(* A count above Threshold is to the guard as one at it.                   *)
Counts == 0 .. Threshold + 1
Raise(n, top) == IF n < top THEN n + 1 ELSE top

TypeOK ==
  /\ board \in States /\ paused \in BOOLEAN
  /\ loop \in [reason : Reasons \cup {NoReason}, count : Counts, at : BOOLEAN]
  /\ base \in 0 .. MaxBase /\ landed \subseteq Works
  /\ remote \in Branch \cup {NoBranch} /\ pr \in PullRequests
  /\ codex \in [threads : BOOLEAN, seen : BOOLEAN, signal : {"none", "pending", "approved"}]
  /\ local \in Branch /\ dirty \subseteq Works
  /\ entry \in [kind : {"none", "retry", "completed"}, attempt : 0 .. MaxRetries,
                state : States]
  /\ run \in Run
  /\ events \in 0 .. Events
  /\ hist \in [opened : 0 .. 2, retries : 0 .. MaxRetries + 1, streak : Counts]

(* A workspace with committed or uncommitted work, published or not.       *)
Init ==
  /\ board = "Merge" /\ paused = FALSE /\ loop = NoLoop
  /\ base = 0 /\ landed = {}
  /\ dirty \in {{}, Mine}
  /\ local = Empty
  /\ \/ remote = NoBranch /\ pr = "none"
     \/ remote = Empty /\ pr = "OPEN"
  /\ \E s \in {"none", "approved"} :
       codex = [threads |-> FALSE, seen |-> FALSE, signal |-> s]
  /\ entry = Free /\ run = Idle /\ events = Events
  /\ hist = [opened |-> 0, retries |-> 0, streak |-> 0]

Contains(b, a) == a.base <= b.base /\ a.work \subseteq b.work

At(step) == run.at = step
GoTo(step) == run' = [run EXCEPT !.at = step]
Fault == events > 0 /\ events' = events - 1

-----------------------------------------------------------------------------
(* The ways a run ends, with handleWorkerExit.                             *)

(* persistLoopMetadata: best effort.                                       *)
StoreLoop(new) ==
  \/ loop' = new /\ UNCHANGED events
  \/ loop' = loop /\ new # loop /\ Fault

(* nextAttempt.  Attempts beyond the limit of merges are not told apart.   *)
NextAttempt(attempt) == Raise(attempt, MaxRetries)

Retry(attempt) ==
  entry' = [kind |-> "retry", attempt |-> NextAttempt(attempt), state |-> "Merge"]

(* A blocked run: the loop guard is cleared and the retry is silent.       *)
EndBlocked(failedMerge) ==
  /\ StoreLoop(NoLoop)
  /\ Retry(run.attempt)
  /\ run' = Idle
  /\ hist' = [hist EXCEPT !.streak = 0,
                !.retries = IF failedMerge THEN Raise(@, MaxRetries + 1) ELSE @]
  /\ UNCHANGED <<board, paused, github, disk>>

(* A run that succeeded, with the issue now in the given state.            *)
EndSucceeded(state) ==
  /\ StoreLoop(NoLoop)
  /\ entry' = [kind |-> "completed", attempt |-> 0, state |-> state]
  /\ run' = Idle
  /\ hist' = [hist EXCEPT !.streak = 0, !.retries = 0]

(* recordLoopFailure: the count that decides is that of the copy, stored   *)
(* or not.                                                                 *)
Counted(reason) ==
  [reason |-> reason, at |-> FALSE,
   count |-> IF loop.reason = reason THEN Raise(loop.count, Threshold + 1) ELSE 1]
Identical(reason) ==
  IF loop.reason = reason THEN Raise(hist.streak, Threshold + 1) ELSE 1

(* Mutant: one failure too many before the pause.                          *)
PausesLate(count) == count > Threshold
Pauses(count) == count >= Threshold

(* The run failed: pauseIssueForLoop at the threshold, or a retry.         *)
EndFailed(reason) ==
  LET new == Counted(reason) IN
  /\ run' = Idle
  /\ hist' = [hist EXCEPT !.streak = Identical(reason)]
  /\ IF Pauses(new.count)
     THEN paused' = TRUE /\ loop' = [new EXCEPT !.at = TRUE] /\ entry' = Free
     ELSE loop' = new /\ Retry(run.attempt) /\ UNCHANGED paused

(* The same with failing writes: the count, the label or the time of the   *)
(* pause is lost, or the label is set by a call that reports an error.     *)
EndFailedUnrecorded(reason) ==
  LET new == Counted(reason) IN
  /\ run' = Idle
  /\ hist' = [hist EXCEPT !.streak = 0]
  /\ loop' \in {loop, new}
  /\ \/ Pauses(new.count) /\ paused' = TRUE /\ entry' = Free
     \/ paused' \in {paused, paused \/ Pauses(new.count)} /\ Retry(run.attempt)

Failed(reason) == Fault /\ (EndFailed(reason) \/ EndFailedUnrecorded(reason))

(* A call of this step fails and changes nothing.                          *)
CallFails ==
  /\ run.at \notin {"idle", "validate", "landed"}
  /\ \E reason \in Reasons : Failed(reason)
  /\ UNCHANGED <<board, github, disk>>

(* moveIssueToState with Review, from handleMergeFailure,                  *)
(* handleMergeRecoveryFailure and handleInvalidMergeRecovery: the move     *)
(* works, or fails with or without being applied.                          *)
ToReview ==
  \/ board' = "Review" /\ EndSucceeded("Review") /\ UNCHANGED <<paused, github, disk>>
  \/ \E reason \in Reasons :
       board' \in {board, "Review"} /\ Failed(reason) /\ UNCHANGED <<github, disk>>

-----------------------------------------------------------------------------
(* The orchestrator's side.                                                *)

(* clearPausedLoopMetadataIfUnpaused, on a tick after the label is gone.   *)
Unpaused == IF loop.at /\ ~paused THEN NoLoop ELSE loop

(* Dispatch of a candidate or of a due retry.                              *)
Dispatch ==
  /\ At("idle") /\ board = "Merge" /\ ~paused
  /\ entry.kind # "completed" \/ entry.state # "Merge"
  /\ loop' = Unpaused
  /\ run' = [Idle EXCEPT !.at = "gate",
                         !.attempt = IF entry.kind = "retry" THEN entry.attempt ELSE 0]
  /\ entry' = Free
  /\ hist' = [hist EXCEPT !.streak = IF loop' = loop THEN @ ELSE 0,
                !.retries = IF entry.kind = "retry" THEN @ ELSE 0]
  /\ UNCHANGED <<board, paused, github, disk, events>>

(* A tick, or a retry, that finds the issue elsewhere or paused.           *)
Release ==
  /\ At("idle") /\ entry # Free
  /\ \/ entry.kind = "retry" /\ (board # "Merge" \/ paused)
     \/ entry.kind = "completed" /\ board # entry.state
  /\ entry' = Free
  /\ UNCHANGED <<linear, github, disk, run, events, hist>>

-----------------------------------------------------------------------------
(* The review gate: ReviewContext and mergeReviewBlockDisposition.         *)

Blocked ==
  /\ pr # "MERGED" /\ ReviewsEnabled
  /\ \/ codex.threads
     \/ ~codex.seen /\ codex.signal # "approved"

(* blockMergeForCodexReview.  Without a pull request the gate waits for    *)
(* Codex to pick up one that nobody opens.                                 *)
GateBlocks ==
  /\ At("gate") /\ Blocked
  /\ IF pr # "none" /\ codex.threads THEN ToReview ELSE EndBlocked(FALSE)

GatePasses ==
  /\ At("gate") /\ ~Blocked
  /\ GoTo(IF run.repaired THEN "merge" ELSE "look")
  /\ UNCHANGED <<linear, github, disk, entry, events, hist>>

-----------------------------------------------------------------------------
(* Publish, before the merge and again after a repair.                     *)

(* resolvePullRequest: by the number in the metadata or in Linear's        *)
(* attachments, or by the branch, whatever the state of the pull request.  *)
(* Mutant: only an open pull request counts.                               *)
FoundOpen == IF pr = "OPEN" THEN pr ELSE "none"
Found == pr

(* captureBaseSHA reads the base branch, or falls back on an old ref of    *)
(* the workspace; a dirty workspace is committed.                          *)
Look ==
  /\ At("look")
  /\ local' = [local EXCEPT !.work = @ \cup dirty] /\ dirty' = {}
  /\ \/ run' = [run EXCEPT !.at = "push", !.pr = Found, !.base = base] /\ UNCHANGED events
     \/ run' = [run EXCEPT !.at = "push", !.pr = Found, !.base = 0] /\ base # 0 /\ Fault
  /\ UNCHANGED <<linear, github, entry, hist>>

(* ReviewableArtifact, asked when there is no pull request.                *)
NothingReviewable == CHOOSE reason \in Reasons : TRUE  \* ErrNoReviewableChanges
NothingToPublish ==
  /\ At("push") /\ run.pr = "none" /\ local.work = {}
  /\ EndFailed(NothingReviewable)
  /\ UNCHANGED <<board, github, disk, events>>

Publishable == run.pr # "none" \/ local.work # {}

(* pushBranch: a rejected push is rebased onto the remote branch.  The     *)
(* rebase copies the changes and drops merges: of the base branch, what    *)
(* the remote branch contains is left.                                     *)
PushFits == remote = NoBranch \/ Contains(local, remote)
Rebased ==
  IF PushFits THEN local ELSE [base |-> remote.base, work |-> local.work \cup remote.work]

(* Mutants: it is forced; or a branch that is there is not pushed again.   *)
Forced == local
PushedOnce == IF remote = NoBranch THEN local ELSE remote
Pushed == Rebased

Push ==
  /\ At("push") /\ Publishable
  /\ remote' = Pushed /\ local' = Rebased
  /\ \/ GoTo("open") /\ UNCHANGED <<paused, loop, entry, events, hist>>
     \/ \E reason \in Reasons : Failed(reason)
  /\ UNCHANGED <<board, base, landed, pr, codex, dirty>>

(* The pull request is looked for again, and created.                      *)
AfterPublish == IF run.repaired THEN "validate" ELSE "merge"

Open ==
  /\ At("open")
  /\ \/ /\ run.pr # "none"
        /\ GoTo(AfterPublish)
        /\ UNCHANGED <<paused, loop, pr, entry, events, hist>>
     \/ /\ run.pr = "none" /\ Found # "none"
        /\ run' = [run EXCEPT !.at = AfterPublish, !.pr = Found]
        /\ UNCHANGED <<paused, loop, pr, entry, events, hist>>
     \/ /\ run.pr = "none" /\ Found = "none"
        /\ pr' = "OPEN"
        /\ run' = [run EXCEPT !.at = AfterPublish, !.pr = "OPEN"]
        /\ hist' = [hist EXCEPT !.opened = Raise(@, 2)]
        /\ UNCHANGED <<paused, loop, entry, events>>
     \/ /\ run.pr = "none" /\ Found = "none"
        /\ pr' = "OPEN" /\ Fault /\ run' = Idle /\ Retry(run.attempt)
        /\ hist' = [hist EXCEPT !.opened = Raise(@, 2), !.streak = 0]
        /\ UNCHANGED <<paused, loop>>
  /\ UNCHANGED <<board, base, landed, remote, codex, disk>>

-----------------------------------------------------------------------------
(* MergePullRequest.                                                       *)

AlreadyMerged ==
  /\ At("merge") /\ run.pr = "MERGED"
  /\ GoTo("landed")
  /\ UNCHANGED <<linear, github, disk, entry, events, hist>>

(* The merge on GitHub: it takes whatever the branch is at that moment.    *)
(* The base branch gets one commit more, unless the bound is reached.      *)
MergeOnGitHub ==
  /\ pr = "OPEN" /\ pr' = "MERGED"
  /\ landed' = landed \cup remote.work
  /\ base' = IF base < MaxBase THEN base + 1 ELSE base

MergeWorks ==
  /\ At("merge") /\ run.pr # "MERGED" /\ MergeOnGitHub
  /\ \/ run' = [run EXCEPT !.at = "landed", !.merged = TRUE]
        /\ UNCHANGED <<paused, loop, entry, events, hist>>
     \/ \E reason \in Reasons : Failed(reason)
  /\ UNCHANGED <<board, remote, codex, disk>>

(* classifyMergeFailure of what GitHub may answer: not mergeable yet       *)
(* (transient), a base that moved since the publication, a conflict, or    *)
(* "base branch was modified", which MergePullRequest does not classify.   *)
Refusals ==
  {"transient", "manual"}
    \cup (IF pr = "OPEN" THEN {"modified"} ELSE {})
    \cup (IF base # run.base /\ run.base # 0 THEN {"advanced"} ELSE {})

(* isAutomaticMergeRetryFailure, and the limit it shares with every other  *)
(* reason for another attempt.                                             *)
Automatic(kind) ==
  IF run.repaired THEN kind \in {"transient", "advanced"} ELSE kind = "transient"
MayRetry == run.attempt < MaxRetries

StartRepair ==
  /\ run' = [run EXCEPT !.at = "repair", !.turn = 1, !.repaired = TRUE,
                        !.before = local, !.expected = run.base]
  /\ UNCHANGED <<linear, github, disk, entry, events, hist>>

(* Mutant: at the limit the run waits once more, and again.                *)
WaitsAtLimit(kind) ==
  \/ Automatic(kind) /\ EndBlocked(MayRetry)
  \/ ~Automatic(kind) /\ ~run.repaired /\ StartRepair
  \/ ~Automatic(kind) /\ run.repaired /\ ToReview

MergeRefused(kind) ==
  \/ Automatic(kind) /\ MayRetry /\ EndBlocked(TRUE)
  \/ Automatic(kind) /\ ~MayRetry /\ ToReview
  \/ ~Automatic(kind) /\ ~run.repaired /\ StartRepair
  \/ ~Automatic(kind) /\ run.repaired /\ ToReview

Refused == At("merge") /\ run.pr # "MERGED" /\ \E kind \in Refusals : MergeRefused(kind)

-----------------------------------------------------------------------------
(* handleRecoverableMergeFailure.                                          *)

(* What Codex makes of the branch in a turn: nothing, a merge of the base  *)
(* branch as it is now, committed or not, or a branch started afresh.      *)
Edits ==
  \/ UNCHANGED disk
  \/ local' = [local EXCEPT !.base = base] /\ UNCHANGED dirty
  \/ local' = [local EXCEPT !.base = base] /\ dirty' = Mine
  \/ local' = [base |-> base, work |-> {}] /\ UNCHANGED dirty

TurnsLeft == run.turn < MaxTurns

RepairTurn ==
  /\ At("repair")
  /\ Edits
  /\ \/ GoTo("look") /\ UNCHANGED <<linear, github, entry, events, hist>>
     \/ /\ TurnsLeft
        /\ run' = [run EXCEPT !.turn = @ + 1]
        /\ UNCHANGED <<linear, github, entry, events, hist>>

(* The turns are used up, a turn timed out or failed, or Codex asked for   *)
(* input: back to Review.                                                  *)
RepairFails == At("repair") /\ ToReview

(* ValidateMergeRecovery.  One that cannot be made is one that failed: both *)
(* send the issue to Review.                                               *)
(* Mutant: what Codex reports is believed.                                 *)
Believed == TRUE
Valid ==
  /\ local # run.before
  /\ remote = local
  /\ run.expected <= local.base

Validate ==
  /\ At("validate")
  /\ \/ Valid /\ GoTo("gate") /\ UNCHANGED <<linear, github, disk, entry, events, hist>>
     \/ ToReview

(* buildMergedResult and applyPostMergeState: the move to the configured   *)
(* state is best effort, the labels and metadata are too.                  *)
PostMergeMove ==
  /\ At("landed")
  /\ \/ board' = PostMerge /\ EndSucceeded(PostMerge)
     \/ board' \in {board, PostMerge} /\ PostMerge # "Merge"
        /\ events > 0 /\ events' = events - 1
        /\ loop' = NoLoop
        /\ entry' = [kind |-> "completed", attempt |-> 0, state |-> "Merge"]
        /\ run' = Idle
        /\ hist' = [hist EXCEPT !.streak = 0, !.retries = 0]
  /\ UNCHANGED <<paused, github, disk>>

-----------------------------------------------------------------------------
(* People, Codex reviews and the base branch.                              *)

HumanMoves ==
  /\ \/ board = "Merge" /\ board' \in {"Todo", "Review"}
     \/ board \in {"Todo", "Review"} /\ board' = "Merge"
  /\ Fault /\ UNCHANGED <<paused, loop, github, disk, entry, run, hist>>

HumanUnpauses ==
  /\ paused /\ paused' = FALSE
  /\ Fault /\ UNCHANGED <<board, loop, github, disk, entry, run, hist>>

HumanPushes ==
  /\ remote # NoBranch
  /\ \E w \in Works : remote' = [remote EXCEPT !.work = @ \cup {w}] /\ remote' # remote
  /\ Fault /\ UNCHANGED <<linear, base, landed, pr, codex, disk, entry, run, hist>>

HumanMerges ==
  /\ MergeOnGitHub
  /\ Fault /\ UNCHANGED <<linear, remote, codex, disk, entry, run, hist>>

HumanCloses ==
  /\ pr = "OPEN" /\ pr' = "CLOSED"
  /\ Fault /\ UNCHANGED <<linear, base, landed, remote, codex, disk, entry, run, hist>>

BaseMoves ==
  /\ base < MaxBase /\ base' = base + 1
  /\ Fault /\ UNCHANGED <<linear, landed, remote, pr, codex, disk, entry, run, hist>>

CodexReviews ==
  /\ ReviewsEnabled /\ pr = "OPEN"
  /\ \/ codex' = [codex EXCEPT !.signal = IF @ = "pending" THEN "approved" ELSE "pending"]
     \/ codex' = [codex EXCEPT !.threads = ~@, !.seen = TRUE]
  /\ Fault /\ UNCHANGED <<linear, base, landed, remote, pr, disk, entry, run, hist>>

RunnerStep ==
  \/ GateBlocks \/ GatePasses \/ Look \/ NothingToPublish \/ Push \/ Open
  \/ AlreadyMerged \/ MergeWorks \/ Refused \/ RepairTurn \/ RepairFails
  \/ Validate \/ PostMergeMove \/ CallFails

OrchestratorStep == Dispatch \/ Release

World ==
  \/ HumanMoves \/ HumanUnpauses \/ HumanPushes \/ HumanMerges \/ HumanCloses
  \/ BaseMoves \/ CodexReviews

Next == RunnerStep \/ OrchestratorStep \/ World

(* The runner goes on until its run ends, and the loop until it has        *)
(* dispatched; nobody has to move, review or push anything.                *)
Fairness == WF_vars(RunnerStep) /\ WF_vars(OrchestratorStep)
Spec == Init /\ [][Next]_vars /\ Fairness
-----------------------------------------------------------------------------
(* Properties.                                                             *)

(* A push never takes a commit away from the issue branch on GitHub,       *)
(* whoever pushed it and however Codex left the workspace: a rejected push *)
(* is rebased, never forced (pushBranch).                                  *)
BranchOnlyGrows ==
  [][remote # NoBranch => remote' # NoBranch /\ Contains(remote', remote)]_vars

(* After a refused merge, the next attempt of the same run is made on a    *)
(* branch that changed and that contains the base branch as the refused    *)
(* attempt saw it (ValidateMergeRecovery): a repair that Codex only claims *)
(* never reaches GitHub.                                                   *)
RepairIsReal ==
  At("merge") /\ run.repaired =>
    remote # run.before /\ run.expected <= remote.base

(* However often publications fail half way, the issue gets one pull       *)
(* request from Colin: each looks for the one before it                    *)
(* (resolvePullRequest).                                                   *)
OnePullRequest == hist.opened <= 1

(* A run that merged the pull request merged the work it had published:    *)
(* HEAD of the workspace is on the base branch before the issue moves on.  *)
MergedWorkLanded == At("landed") /\ run.merged => local.work \subseteq landed

(* Three identical failures in a row pause the issue when they could be    *)
(* written down; no fourth follows (loop_guard.go).                        *)
LoopStops == hist.streak <= Threshold

(* An issue in Merge does not stay there with nothing but retries: it      *)
(* leaves, is merged or paused, or waits for Codex to review.              *)
Settled ==
  \/ board # "Merge" \/ paused \/ entry.kind = "completed" \/ Blocked
MergeSettles == []<>Settled

(* OPERATIONS.md says that a refused merge is returned to Review when "the *)
(* bounded retry limit is exhausted".  The limit is of merges that were    *)
(* refused and retried: the first refusal of a mergeable state that        *)
(* GitHub has not settled yet is never the last.                           *)
LimitIsOfRetries ==
  [][At("merge") /\ ~run.repaired /\ board = "Merge" /\ board' = "Review" /\ run' = Idle
       => hist.retries > 0]_vars

(* OPERATIONS.md says that Colin, when an issue is moved to Merge, "ensures *)
(* the branch and PR exist".                                               *)
PullRequestEnsured ==
  board = "Merge" /\ pr = "none" /\ dirty # {} ~>
    pr # "none" \/ board # "Merge" \/ paused
=============================================================================
