--------------------------- MODULE ReviewFollowUp ---------------------------
(***************************************************************************)
(* How feedback on a pull request brings an issue back from Review: the    *)
(* follow-up sync of a tick (orchestrator/github_reaction.go), the check   *)
(* repair that shares the tick (github_checks.go), the preparation of the  *)
(* next run (review_sync.go), and the end of that run, which answers the   *)
(* review threads (automation/runner.go).                                  *)
(*                                                                         *)
(* One issue with an open pull request.  What Colin remembers between      *)
(* ticks is the metadata record it keeps in Linear, written as a whole;    *)
(* every write and every move may fail.  People comment, react, resolve    *)
(* and move the issue at any time.                                         *)
(***************************************************************************)
EXTENDS Integers, Sequences, FiniteSets

CONSTANTS
  HumanThreads,    \* review threads opened by a human reviewer
  CodexThreads,    \* threads of a Codex comment that invites a reaction
  ThreadOrder,     \* the order in which GitHub lists the threads
  MaxReaction,     \* bound: +1 reactions given, numbered in order
  None

Threads == HumanThreads \cup CodexThreads
Reactions == 1 .. MaxReaction

(* A queued follow-up.  Without a reaction it stands for human feedback,   *)
(* with one for the approval of a Codex comment.                           *)
Items == [thread : Threads, reaction : 0 .. MaxReaction]
Marks == [CodexThreads -> 0 .. MaxReaction]
Metadata == [pending : Items \cup {None}, queue : Seq(Items), marks : Marks]

NoMarks == [t \in CodexThreads |-> 0]
NoMetadata == [pending |-> None, queue |-> <<>>, marks |-> NoMarks]

ActiveStates == {"Todo", "Working"}

ASSUME FollowUpAssumption ==
  /\ HumanThreads \cap CodexThreads = {}
  /\ IsFiniteSet(Threads)
  /\ ThreadOrder \in Seq(Threads)
  /\ MaxReaction \in Nat
  /\ None \notin Items

VARIABLES
  board,       \* Linear: the state of the issue
  paused,      \* Linear: the issue has the label that pauses its automation
  authorized,  \* history: a human moved it to Todo since Colin last put it in Review
  repaired,    \* history: so did a failing check
  steady,      \* calls, runs and the process have stopped failing, for good
  lost,        \* history: approvals that a refused start took out of the record
  last,        \* GitHub: whose comment is the last of each open thread
  liked,       \* GitHub: the collaborators' +1 reactions on each Codex comment
  given,       \* reactions given so far
  stored,      \* Linear: the metadata record
  loop,        \* the event loop: where it is, and the issue it holds
  run          \* the coding run of the issue, else None

github == <<last, liked, given>>
hist == <<steady, authorized, repaired, lost>>
vars == <<board, paused, hist, last, liked, given, stored, loop, run>>

(* The loop holds a copy of the issue's metadata while it works on it, and *)
(* of the record to put back when a follow-up it took is refused.          *)
Idle == [at |-> "idle", state |-> "Review", meta |-> NoMetadata, previous |-> None]
Loops ==
  [at : {"idle", "tracked", "persist", "start", "rollback", "checks",
         "prepare", "cleanup", "repair"},
   state : {"Review"} \cup ActiveStates,
   meta : Metadata, previous : Metadata \cup {None}]
Runs ==
  [at : {"begin", "coding", "finalize", "record", "handoff", "ended", "failed"},
   state : {"Review", "Elsewhere"} \cup ActiveStates,
   meta : Metadata, entry : Metadata, answering : BOOLEAN]

Init ==
  /\ board = "Review" /\ paused = FALSE
  /\ steady = FALSE /\ authorized = FALSE /\ repaired = FALSE /\ lost = {}
  /\ last = [t \in Threads |-> "absent"]
  /\ liked = [t \in CodexThreads |-> {}]
  /\ given = 0
  /\ stored = NoMetadata
  /\ loop = Idle
  /\ run = None

Open == {t \in Threads : last[t] \notin {"absent", "resolved"}}

(* isHumanReviewFeedbackThread: the last comment decides.                  *)
HumanFeedback == {t \in Open : last[t] = "human"}

Latest(t) == IF liked[t] = {} THEN 0
             ELSE CHOOSE r \in liked[t] : \A q \in liked[t] : q <= r

(* The numbers of a finite set, the smallest first.                        *)
InOrder(numbers) ==
  CHOOSE f \in [1 .. Cardinality(numbers) -> numbers] : \A k, n \in DOMAIN f : k < n => f[k] < f[n]

IsReaction(item) == item.reaction # 0
HasReaction(m) == m.pending # None /\ IsReaction(m.pending)

-----------------------------------------------------------------------------
(* The scan, as functions of the metadata record.                          *)

Due(m) == IF m.pending = None THEN m.queue ELSE <<m.pending>> \o m.queue

(* queuedOrPendingReviewComment for the invited comment of a Codex thread; *)
(* queuedOrPendingReviewThread.                                            *)
CommentDue(m, t) == \E k \in DOMAIN Due(m) : Due(m)[k].thread = t /\ IsReaction(Due(m)[k])
ThreadDue(m, t) == \E k \in DOMAIN Due(m) : Due(m)[k].thread = t

(* clearStalePendingReviewFollowUp and pruneQueuedReviewFollowUps.         *)
StillOpen(queue) ==
  LET places == InOrder({k \in DOMAIN queue : queue[k].thread \in Open})
  IN [k \in DOMAIN places |-> queue[places[k]]]
Pruned(m) ==
  [m EXCEPT !.pending = IF @ = None \/ @.thread \notin Open THEN None ELSE @,
            !.queue = StillOpen(@)]

(* The latest approvals of these threads, in the order they were given.    *)
Approvals(threads) ==
  LET order == InOrder({Latest(t) : t \in threads})
  IN [k \in DOMAIN order |->
        [thread |-> CHOOSE t \in threads : Latest(t) = order[k], reaction |-> order[k]]]

(* Mutant: a newer reaction on a comment that waits already queues it      *)
(* again.                                                                  *)
RequeuedApprovals(m) ==
  LET fresh == {t \in CodexThreads \cap Open : Latest(t) > m.marks[t]}
  IN [m EXCEPT !.marks = [t \in CodexThreads |-> IF t \in fresh THEN Latest(t) ELSE @[t]],
               !.queue = @ \o Approvals(fresh)]

(* Mutant: an approval whose thread waits for another reason is dropped.   *)
ShadowedApprovals(m) ==
  LET fresh == {t \in CodexThreads \cap Open : Latest(t) > m.marks[t]}
  IN [m EXCEPT !.marks = [t \in CodexThreads |-> IF t \in fresh THEN Latest(t) ELSE @[t]],
               !.queue = @ \o Approvals({t \in fresh : ~ThreadDue(m, t)})]

(* Approvals newer than the watermark of their comment, in the order they  *)
(* were given.  The watermark rises even when the comment is due already.  *)
WithApprovals(m) ==
  LET fresh == {t \in CodexThreads \cap Open : Latest(t) > m.marks[t]}
  IN [m EXCEPT !.marks = [t \in CodexThreads |-> IF t \in fresh THEN Latest(t) ELSE @[t]],
               !.queue = @ \o Approvals({t \in fresh : ~CommentDue(m, t)})]

(* Human feedback on these threads, in the order in which GitHub lists     *)
(* them, one for each though a page may repeat a thread.                   *)
Feedback(threads) ==
  LET places == InOrder({k \in DOMAIN ThreadOrder : ThreadOrder[k] \in threads
                                /\ \A n \in 1 .. k - 1 : ThreadOrder[n] # ThreadOrder[k]})
  IN [k \in DOMAIN places |-> [thread |-> ThreadOrder[places[k]], reaction |-> 0]]

(* Mutant: a thread that Codex opened is never human feedback.             *)
FeedbackByOpener(m) ==
  [m EXCEPT !.queue = @ \o Feedback({t \in HumanFeedback \cap HumanThreads : ~ThreadDue(m, t)})]

(* Human feedback on threads that are not due yet.                         *)
WithFeedback(m) ==
  [m EXCEPT !.queue = @ \o Feedback({t \in HumanFeedback : ~ThreadDue(m, t)})]

Scanned(m) == WithFeedback(WithApprovals(Pruned(m)))

NextTaken(m) == [m EXCEPT !.pending = Head(m.queue), !.queue = Tail(m.queue)]

(* The record that activatePendingReviewFollowUp puts back.  It is a copy  *)
(* of the struct the scan started from, and shares the map of watermarks   *)
(* with the record the scan wrote to, unless there was no map yet.         *)
PutBack(before, scanned) ==
  IF before.marks = NoMarks THEN before ELSE [before EXCEPT !.marks = scanned.marks]

-----------------------------------------------------------------------------
(* The tick: syncGitHubReviewFollowUp, then syncGitHubPullRequestCheck.    *)

At(place) == loop.at = place

Goto(place, m) == loop' = [loop EXCEPT !.at = place, !.meta = m]

(* A write of the whole record; persistReviewFollowUpMetadata goes on with *)
(* its own copy when the write fails.                                      *)
Persist(m) == stored' = m \/ UNCHANGED stored

(* A comment, Codex output or a check state may be recorded on the way,    *)
(* which writes the whole record that is at hand.                          *)
Rewrite(m) == stored' = m \/ UNCHANGED stored

(* refreshIssueStateCounts lists the issue in Review; no run holds it, and *)
(* it is not paused.                                                       *)
Track ==
  /\ At("idle") /\ run = None /\ board = "Review" /\ ~paused
  /\ loop' = [Idle EXCEPT !.at = "tracked", !.meta = stored]
  /\ UNCHANGED <<board, hist, paused, github, stored, run>>

(* ReviewFollowUpScan failed.                                              *)
ScanFails ==
  /\ ~steady /\ At("tracked")
  /\ Goto("checks", loop.meta)
  /\ UNCHANGED <<board, hist, paused, github, stored, run>>

(* A pending follow-up stays first; else the head of the queue is taken.   *)
Scan ==
  /\ At("tracked")
  /\ LET m == Scanned(loop.meta)
         taken == m.pending = None /\ m.queue # <<>>
     IN loop' = [loop EXCEPT
                   !.at = IF taken \/ m # loop.meta THEN "persist"
                          ELSE IF m.pending # None THEN "start" ELSE "checks",
                   !.meta = IF taken THEN NextTaken(m) ELSE m,
                   !.previous = IF taken THEN PutBack(loop.meta, m) ELSE None]
  /\ UNCHANGED <<board, hist, paused, github, stored, run>>

PersistScan ==
  /\ At("persist")
  /\ Persist(loop.meta)
  /\ Goto(IF loop.meta.pending = None THEN "checks" ELSE "start", loop.meta)
  /\ UNCHANGED <<board, hist, paused, github, run>>

(* startPendingReviewFollowUp: an approval waits for a human to move the   *)
(* issue; human feedback moves it, whatever the board says by now.         *)
StartWaits ==
  /\ At("start") /\ HasReaction(loop.meta)
  /\ Goto("checks", loop.meta)
  /\ UNCHANGED <<board, hist, paused, github, stored, run>>

(* Mutant: an approval starts work as human feedback does.                 *)
StartEagerly ==
  /\ At("start")
  /\ board' = "Todo"
  /\ loop' = [loop EXCEPT !.at = "prepare", !.state = "Todo", !.previous = None]
  /\ Rewrite(loop.meta)
  /\ UNCHANGED <<hist, paused, github, run>>

StartMoves ==
  /\ At("start") /\ ~HasReaction(loop.meta)
  /\ board' = "Todo"
  /\ loop' = [loop EXCEPT !.at = "prepare", !.state = "Todo", !.previous = None]
  /\ Rewrite(loop.meta)
  /\ UNCHANGED <<hist, paused, github, run>>

StartRefused ==
  /\ ~steady /\ At("start") /\ ~HasReaction(loop.meta)
  /\ Goto(IF loop.previous = None THEN "checks" ELSE "rollback", loop.meta)
  /\ UNCHANGED <<board, hist, paused, github, stored, run>>

(* activatePendingReviewFollowUp puts the previous record back, without    *)
(* the approvals that the same scan found.                                 *)
TakenOut(m, before) ==
  {<<t, m.marks[t]>> : t \in {t \in CodexThreads : CommentDue(m, t) /\ ~CommentDue(before, t)}}
Rollback ==
  /\ At("rollback")
  /\ Persist(loop.previous)
  /\ loop' = [loop EXCEPT !.at = "checks", !.meta = loop.previous, !.previous = None]
  /\ lost' = lost \cup TakenOut(loop.meta, loop.previous)
  /\ UNCHANGED <<board, paused, steady, authorized, repaired, github, run>>

(* The checks need no repair, cannot be read, or the repair's move fails.  *)
ChecksDone ==
  /\ At("checks")
  /\ Rewrite(loop.meta)
  /\ loop' = Idle
  /\ UNCHANGED <<board, hist, paused, github, run>>

(* startPullRequestCheckRepair records the failure with the rest of the    *)
(* metadata and moves the issue.                                           *)
CheckRepair ==
  /\ At("checks")
  /\ Persist(loop.meta)
  /\ board' = "Todo" /\ repaired' = TRUE
  /\ loop' = [loop EXCEPT !.at = "repair", !.state = "Todo", !.previous = None]
  /\ UNCHANGED <<paused, steady, authorized, lost, github, run>>

-----------------------------------------------------------------------------
(* Dispatch.  A moved issue is dispatched in the same tick with what the   *)
(* loop holds, unless there is no slot; later polls and retries fetch it.  *)

Dispatch(answering) ==
  /\ run' = [at |-> "begin", state |-> loop.state, meta |-> loop.meta,
             entry |-> loop.meta, answering |-> answering]
  /\ loop' = Idle
  /\ UNCHANGED <<board, hist, paused, github, stored>>

PollDispatch ==
  /\ At("idle") /\ run = None /\ board \in ActiveStates /\ ~paused
  /\ loop' = [Idle EXCEPT !.at = "prepare", !.state = board, !.meta = stored]
  /\ UNCHANGED <<board, hist, paused, github, stored, run>>

(* A check repair is dispatched without looking at the review threads.     *)
DispatchRepair == At("repair") /\ Dispatch(FALSE)

(* No free slot, or GitHub cannot be read: left to a later poll.           *)
NotReady ==
  /\ ~steady
  /\ At("prepare") \/ At("repair")
  /\ Rewrite(loop.meta)
  /\ loop' = Idle
  /\ UNCHANGED <<board, hist, paused, github, run>>

(* prepareReviewIssue, nothing pending: every open thread is answered when *)
(* the issue comes from review, none when it is already being worked on.   *)
PrepareUntargeted ==
  /\ At("prepare") /\ loop.meta.pending = None
  /\ Dispatch(loop.state = "Todo" /\ Open # {})

PrepareTargeted ==
  /\ At("prepare") /\ loop.meta.pending # None
  /\ loop.meta.pending.thread \in Open
  /\ Dispatch(TRUE)

(* The thread is no longer open: back to review, whatever the board says.  *)
PrepareGone ==
  /\ At("prepare") /\ loop.meta.pending # None
  /\ loop.meta.pending.thread \notin Open
  /\ board' = "Review" /\ authorized' = FALSE /\ repaired' = FALSE
  /\ Goto("cleanup", [loop.meta EXCEPT !.pending = None])
  /\ UNCHANGED <<paused, steady, lost, github, stored, run>>

ClearPending ==
  /\ At("cleanup")
  /\ Persist(loop.meta)
  /\ loop' = Idle
  /\ UNCHANGED <<board, hist, paused, github, run>>

-----------------------------------------------------------------------------
(* The coding run.  The worker and the running entry of the loop each hold *)
(* a copy of the metadata, from the dispatch to the exit.                  *)

RunAt(place) == run # None /\ run.at = place
Ended == [run EXCEPT !.at = "ended"]

RunFails ==
  /\ ~steady
  /\ run # None /\ run.at \notin {"ended", "failed"}
  /\ run' = [run EXCEPT !.at = "failed"]
  /\ UNCHANGED <<board, hist, paused, github, stored, loop>>

(* handleCommentEvent posts the progress of a run, also of one that ended  *)
(* since, and writes the copy of the running entry.                        *)
LoopComments ==
  /\ run # None
  /\ stored' = run.entry
  /\ UNCHANGED <<board, hist, paused, github, loop, run>>

(* handleWorkerExit goes on with the copy of the worker, and pauses the    *)
(* issue when the run failed as the ones before it did, unless the label   *)
(* cannot be set (pauseIssueForLoop; MergeRun has the counting).           *)
HandleExit ==
  /\ RunAt("ended") \/ RunAt("failed")
  /\ Rewrite(run.meta)
  /\ run' = None
  /\ paused' \in {paused, paused \/ RunAt("failed")}
  /\ UNCHANGED <<board, hist, github, loop>>

(* moveActiveIssueToWorkingState.                                          *)
RunBegins ==
  /\ RunAt("begin")
  /\ board' = IF run.state = "Todo" THEN "Working" ELSE board
  /\ run' = [run EXCEPT !.at = "coding", !.state = "Working"]
  /\ UNCHANGED <<hist, paused, github, stored, loop>>

(* The last turn is over; the state of the issue was fetched after it, or  *)
(* is kept when the fetch did not return the issue.                        *)
RunStopsCoding ==
  /\ RunAt("coding")
  /\ \E seen \in {board, run.state} :
       run' = [run EXCEPT !.at = IF run.answering THEN "finalize" ELSE "record",
                          !.state = seen]
  /\ UNCHANGED <<board, hist, paused, github, stored, loop>>

Cleared(m) == [m EXCEPT !.pending = None]

(* finalizeReviewThreads: nothing is open, or the target is not: the       *)
(* follow-up is done.                                                      *)
RunFindsGone ==
  /\ RunAt("finalize")
  /\ Open = {} \/ (run.meta.pending # None /\ run.meta.pending.thread \notin Open)
  /\ IF run.meta.pending = None THEN UNCHANGED stored ELSE Persist(Cleared(run.meta))
  /\ run' = [run EXCEPT !.at = "record", !.meta = Cleared(@)]
  /\ UNCHANGED <<board, hist, paused, github, loop>>

(* Every target is replied to and resolved, and seen resolved.             *)
RunAnswers ==
  /\ RunAt("finalize") /\ Open # {}
  /\ run.meta.pending # None => run.meta.pending.thread \in Open
  /\ LET targets == IF run.meta.pending = None THEN Open ELSE {run.meta.pending.thread}
     IN last' = [t \in Threads |-> IF t \in targets THEN "resolved" ELSE last[t]]
  /\ IF run.meta.pending = None THEN UNCHANGED stored ELSE Persist(Cleared(run.meta))
  /\ run' = [run EXCEPT !.at = "record", !.meta = Cleared(@)]
  /\ UNCHANGED <<board, hist, paused, liked, given, loop>>

(* A reply or a resolve fails, or a thread is still open afterwards: the   *)
(* run is blocked.  Some targets may have been replied to, some resolved.  *)
RunBlocked ==
  /\ ~steady /\ RunAt("finalize")
  /\ LET targets == IF run.meta.pending = None THEN Open
                    ELSE Open \cap {run.meta.pending.thread}
     IN \E replied \in SUBSET targets : \E resolved \in SUBSET replied :
          last' = [t \in Threads |-> IF t \in resolved THEN "resolved"
                                     ELSE IF t \in replied THEN "colin" ELSE last[t]]
  /\ run' = Ended
  /\ UNCHANGED <<board, hist, paused, liked, given, stored, loop>>

(* The run writes the whole record it was dispatched with, as it left it.  *)
RunRecords ==
  /\ RunAt("record")
  /\ stored' = run.meta
  /\ run' = [run EXCEPT !.at = "handoff"]
  /\ UNCHANGED <<board, hist, paused, github, loop>>

(* moveSuccessfulCodingRunToHandoffState: an issue last seen active goes   *)
(* to Review, or to Refine.                                                *)
RunHandsOff ==
  /\ RunAt("handoff")
  /\ IF run.state \in ActiveStates
     THEN /\ board' \in {"Review", "Elsewhere"}
          /\ authorized' = FALSE /\ repaired' = FALSE
     ELSE UNCHANGED <<board, authorized, repaired>>
  /\ run' = Ended
  /\ UNCHANGED <<paused, steady, lost, github, stored, loop>>

-----------------------------------------------------------------------------
(* Reviewers, and the process.                                             *)

ThreadOpens(t) ==
  /\ last[t] = "absent"
  /\ last' = [last EXCEPT ![t] = IF t \in HumanThreads THEN "human" ELSE "codex"]
  /\ UNCHANGED <<board, hist, paused, liked, given, stored, loop, run>>

HumanReplies(t) ==
  /\ t \in Open /\ last[t] # "human"
  /\ last' = [last EXCEPT ![t] = "human"]
  /\ UNCHANGED <<board, hist, paused, liked, given, stored, loop, run>>

HumanResolves(t) ==
  /\ t \in Open
  /\ last' = [last EXCEPT ![t] = "resolved"]
  /\ UNCHANGED <<board, hist, paused, liked, given, stored, loop, run>>

HumanReacts(t) ==
  /\ t \in CodexThreads \cap Open /\ given < MaxReaction
  /\ given' = given + 1
  /\ liked' = [liked EXCEPT ![t] = @ \cup {given'}]
  /\ UNCHANGED <<board, hist, paused, last, stored, loop, run>>

HumanTakesBack(t) ==
  /\ t \in CodexThreads
  /\ \E r \in liked[t] : liked' = [liked EXCEPT ![t] = @ \ {r}]
  /\ UNCHANGED <<board, hist, paused, last, given, stored, loop, run>>

HumanMoves ==
  /\ \E s \in {"Review", "Todo", "Elsewhere"} \ {board} :
       board' = s /\ authorized' = (authorized \/ s = "Todo")
  /\ UNCHANGED <<paused, steady, repaired, lost, github, stored, loop, run>>

(* A person takes the label off to let the automation go on, or sets it.   *)
HumanPauses ==
  /\ paused' = ~paused
  /\ UNCHANGED <<board, hist, github, stored, loop, run>>

Restart ==
  /\ ~steady
  /\ loop # Idle \/ run # None
  /\ loop' = Idle /\ run' = None
  /\ UNCHANGED <<board, hist, paused, github, stored>>

-----------------------------------------------------------------------------

Sync ==
  \/ Track \/ ScanFails \/ Scan \/ PersistScan \/ StartWaits \/ StartMoves
  \/ StartRefused \/ Rollback \/ ChecksDone \/ CheckRepair

Dispatching ==
  \/ PollDispatch \/ DispatchRepair \/ NotReady \/ PrepareUntargeted
  \/ PrepareTargeted \/ PrepareGone \/ ClearPending

Running ==
  \/ RunFails \/ LoopComments \/ HandleExit \/ RunBegins \/ RunStopsCoding \/ RunFindsGone \/ RunAnswers
  \/ RunBlocked \/ RunRecords \/ RunHandsOff

Reviewers ==
  \/ HumanMoves \/ HumanPauses
  \/ \E t \in Threads : \/ ThreadOpens(t) \/ HumanReplies(t) \/ HumanResolves(t)
                         \/ HumanReacts(t) \/ HumanTakesBack(t)

Next == Sync \/ Dispatching \/ Running \/ Reviewers \/ Restart

Spec == Init /\ [][Next]_vars

(* The loop goes on with its ticks, a run with its steps, and the exit of  *)
(* a run is handled.  Nothing is assumed of what GitHub and Linear answer, *)
(* of reviewers and checks, and nothing keeps the process from dying.      *)
RunStep ==
  \/ RunBegins \/ RunStopsCoding \/ RunFindsGone \/ RunAnswers \/ RunBlocked
  \/ RunRecords \/ RunHandsOff \/ RunFails \/ HandleExit
Fairness == WF_vars(Sync \/ Dispatching) /\ WF_vars(RunStep)

(* From some moment on nothing fails but the writes of the record.          *)
Settle == steady' = TRUE /\ UNCHANGED <<board, paused, authorized, repaired, lost, github, stored, loop, run>>
FairSpec == Init /\ [][Next \/ Settle]_vars /\ Fairness

-----------------------------------------------------------------------------
(* Properties.                                                             *)

TypeOK ==
  /\ board \in {"Review", "Elsewhere"} \cup ActiveStates
  /\ {paused, steady, authorized, repaired} \subseteq BOOLEAN
  /\ lost \subseteq CodexThreads \X (0 .. MaxReaction)
  /\ last \in [Threads -> {"absent", "codex", "human", "colin", "resolved"}]
  /\ liked \in [CodexThreads -> SUBSET Reactions]
  /\ given \in 0 .. MaxReaction
  /\ stored \in Metadata
  /\ loop \in Loops
  /\ run \in Runs \cup {None}

(* No comment is waiting twice, in the queue or as the pending follow-up:  *)
(* a second reaction or a second scan never makes a second coding round    *)
(* of one request.                                                         *)
NothingDueTwice ==
  \A m, k \in DOMAIN Due(stored) :
    /\ Due(stored)[m].thread = Due(stored)[k].thread
    /\ IsReaction(Due(stored)[m]) = IsReaction(Due(stored)[k])
    => m = k

(* An approval whose watermark is stored is never looked at again, so it   *)
(* must be in the record for as long as its thread is open, through any    *)
(* failed writes, stale copies and restarts.  Only a follow-up whose start *)
(* is refused takes out the approvals that its own scan found, and then    *)
(* only these (activatePendingReviewFollowUp).                             *)
ApprovalKept ==
  \A t \in CodexThreads \cap Open :
    stored.marks[t] # 0 => CommentDue(stored, t) \/ <<t, stored.marks[t]>> \in lost

(* OPERATIONS.md:267: "that reaction only records the target thread": the  *)
(* same without the exception.                                             *)
ApprovalRecorded ==
  \A t \in CodexThreads \cap Open : stored.marks[t] # 0 => CommentDue(stored, t)

(* An approved suggestion is worked on only after the issue was moved out  *)
(* of Review since Colin last put it there, by a human or for a failing    *)
(* check, whatever copy of the record the loop or the run goes by.         *)
StartsApproved == run = None /\ run' # None /\ run'.answering /\ HasReaction(run'.meta)
ApprovalReleased == [][StartsApproved => authorized \/ repaired]_vars

(* OPERATIONS.md:267, README.md:42: "a Linear-side state transition is     *)
(* still required before Colin resumes automation".                        *)
ApprovalNeedsHuman == [][StartsApproved => authorized]_vars

(* README.md:42: human feedback that stays unanswered brings the issue     *)
(* back and is answered, whatever writes fail, once calls, runs and the    *)
(* process stop failing: no remains of an earlier failure are in the way.  *)
(* It waits while the issue is paused, has left the review cycle or is     *)
(* moved again and again, and behind an approval that waits for a human.   *)
FeedbackAnswered ==
  \A t \in Threads :
    \/ []<><<HumanMoves>>_vars
    \/ []<>(\/ t \notin HumanFeedback \/ ~steady \/ paused \/ board = "Elsewhere"
            \/ HasReaction(stored) \/ HasReaction(loop.meta))

=============================================================================
