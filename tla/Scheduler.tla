----------------------------- MODULE Scheduler -----------------------------
(***************************************************************************)
(* The scheduling core of the orchestrator (src/internal/orchestrator):    *)
(* one event loop that owns the maps running, claimed, retrying and        *)
(* completed, one goroutine per dispatched worker, one timer per queued    *)
(* retry, and a FIFO channel eventCh from the goroutines to the loop.      *)
(*                                                                         *)
(* The Linear board is the environment: humans move issues and put them on *)
(* hold at any time, and a worker moves its own issue while it runs.  What *)
(* a worker does in between (Codex turns, git, GitHub) is reduced to its   *)
(* possible outcomes.                                                      *)
(***************************************************************************)
EXTENDS Integers, Sequences, FiniteSets

CONSTANTS
  Issues,          \* the issues of the watched projects
  Rank,            \* sortIssues: dispatch order, smaller first
  BlockedBy,       \* the issues that block each issue
  ActiveOrder,     \* tracker.active_states, a sequence
  PublishStates,   \* repo.publish_states
  MergeStates,     \* repo.merge_states
  TerminalStates,  \* tracker.terminal_states
  ParkedStates,    \* every other state of the team's board
  RefineState,     \* the parked state used for human refinement
  TodoState,       \* the state whose blockers are checked
  PostMergeState,  \* where the team's merge automation moves an issue
  StateLimit,      \* agent.max_concurrent_agents_by_state
  Limits,          \* values a reload may give agent.max_concurrent_agents
  HumanTargets,    \* bound: states humans move issues into
  HoldIssues,      \* bound: issues humans put on hold and release
  ChanCap,         \* capacity of eventCh (256 in the code)
  MaxRestarts,     \* bound: process restarts explored
  NoState,         \* "no such map entry" for states
  NoEntry          \* "no such map entry" for running

ActiveStates == {ActiveOrder[k] : k \in DOMAIN ActiveOrder}
Dispatchable == ActiveStates \cup PublishStates \cup MergeStates
States == Dispatchable \cup TerminalStates \cup ParkedStates

StopReasons == {"", "terminal", "released", "stalled", "shutdown"}
Entries == [origin : States, state : States, stop : StopReasons]
Statuses == {"succeeded", "blocked", "failed"}

Events ==
  [kind : {"codex"}, issue : Issues, state : States]
    \cup [kind : {"exit"}, issue : Issues, status : Statuses, state : States]
    \cup [kind : {"retry"}, issue : Issues]
    \cup [kind : {"config"}, limit : Nat]
    \cup [kind : {"drain"}]

(* ActiveOrder names at least one state: Colin refuses to start without    *)
(* active states.  The names of "nothing" are not names of something.      *)
ASSUME SchedulerAssumption ==
  /\ ActiveOrder \in Seq(ActiveStates) /\ Len(ActiveOrder) > 0
  /\ RefineState \in ParkedStates
  /\ PostMergeState \in States
  /\ HumanTargets \subseteq States /\ HoldIssues \subseteq Issues
  /\ Rank \in [Issues -> Nat]
  /\ BlockedBy \in [Issues -> SUBSET Issues]
  /\ DOMAIN StateLimit \subseteq States /\ StateLimit \in [DOMAIN StateLimit -> Nat]
  /\ Limits \subseteq Nat /\ Limits # {}
  /\ ChanCap \in Nat \ {0}
  /\ MaxRestarts \in Nat
  /\ NoState \notin States
  /\ NoEntry \notin Entries

VARIABLES
  board,              \* Linear: the state of each issue
  held,               \* Linear: paused label, undelegated, or reaction follow-up pending
  entry,              \* o.running: the entry of a running issue, else NoEntry
  claimed,            \* o.claimed
  retrying,           \* the keys of o.retrying
  completed,          \* o.completed: state at the last handoff, else NoState
  draining,           \* o.draining
  shutdownRequested,  \* o.shutdownRequested, written by other goroutines
  limit,              \* o.runtime.Config.Agent.MaxConcurrentAgents
  phase,              \* where the loop is: between events, or inside a tick
  pending,            \* issues this tick has still to visit, in the state the
                      \* poll saw (else NoState)
  eventCh,            \* o.eventCh
  worker,             \* state a live worker goroutine was dispatched in, else NoState
  starting,           \* live workers that have not made their opening move
  timers,             \* retry timers that have not delivered their event
  restarts            \* process restarts so far

tracker == <<board, held>>
maps == <<entry, claimed, retrying, completed>>
intake == <<draining, shutdownRequested, limit>>
tick == <<phase, pending>>
goroutines == <<worker, starting, timers>>
vars == <<board, held, entry, claimed, retrying, completed, draining,
          shutdownRequested, limit, phase, pending, eventCh, worker, starting,
          timers, restarts>>

TypeOK ==
  /\ board \in [Issues -> States]
  /\ held \in [Issues -> BOOLEAN]
  /\ entry \in [Issues -> Entries \cup {NoEntry}]
  /\ claimed \subseteq Issues
  /\ retrying \subseteq Issues
  /\ completed \in [Issues -> States \cup {NoState}]
  /\ draining \in BOOLEAN
  /\ shutdownRequested \in BOOLEAN
  /\ limit \in Nat
  /\ phase \in {"select", "poll", "visit", "sync", "followup", "stopped"}
  /\ pending \in [Issues -> States \cup {NoState}]
  /\ eventCh \in Seq(Events)
  /\ worker \in [Issues -> States \cup {NoState}]
  /\ starting \subseteq Issues
  /\ timers \subseteq Issues
  /\ restarts \in Nat

(* A fresh process: empty maps, nobody asked for a shutdown.  The board    *)
(* is whatever it is.                                                      *)
Nowhere == [i \in Issues |-> NoState]

FreshProcess ==
  /\ entry = [i \in Issues |-> NoEntry]
  /\ claimed = {} /\ retrying = {}
  /\ completed = Nowhere /\ pending = Nowhere
  /\ draining = FALSE /\ shutdownRequested = FALSE
  /\ phase = "select"
  /\ eventCh = <<>>
  /\ worker = Nowhere
  /\ starting = {} /\ timers = {}

Init ==
  /\ board \in [Issues -> HumanTargets]
  /\ held = [i \in Issues |-> FALSE]
  /\ limit \in Limits
  /\ restarts = 0
  /\ FreshProcess

-----------------------------------------------------------------------------
(* What the loop reads: eligibility and slots.                             *)

Running == {i \in Issues : entry[i] # NoEntry}

(* Mutant: the flag other goroutines write is not read.                    *)
acceptingUntilDrained == ~draining

acceptingNewWork == ~shutdownRequested /\ ~draining

hasGlobalSlots == Cardinality(Running) < limit

hasStateSlots(s) ==
  IF s \in DOMAIN StateLimit
  THEN Cardinality({i \in Running : entry[i].state = s}) < StateLimit[s]
  ELSE hasGlobalSlots

BlockersClosed(i, s) ==
  s = TodoState => \A b \in BlockedBy[i] : board[b] \in TerminalStates

Unclaimed(i) == i \notin Running /\ i \notin claimed

(* The conditions of shouldDispatch on the state s and the hold of an      *)
(* issue, which it tests before it looks at the completed entry.           *)
MayRun(s, onHold) ==
  acceptingNewWork /\ s \in Dispatchable \ TerminalStates /\ ~onHold

(* recorded is what completed holds for i when the check is made.          *)
Eligible(i, s, onHold, recorded) ==
  /\ MayRun(s, onHold)
  /\ recorded # s
  /\ hasStateSlots(s)
  /\ BlockersClosed(i, s)

(* shouldDispatch for an issue that is neither running nor claimed.        *)
shouldDispatch(i, s, onHold) == Eligible(i, s, onHold, completed[i])

(* A completed entry that names another state is dropped on the way, even  *)
(* when a later condition then refuses the issue.                          *)
CompletedAfterCheck(i, s, onHold) ==
  IF MayRun(s, onHold) /\ completed[i] # s
  THEN [completed EXCEPT ![i] = NoState]
  ELSE completed

IsCoding(s) == s \notin PublishStates \cup MergeStates

RunType(s) ==
  IF s \in PublishStates THEN "publish"
  ELSE IF s \in MergeStates THEN "merge" ELSE "coding"

-----------------------------------------------------------------------------
(* Building blocks of the handlers.                                        *)

(* dispatch: record the entry, claim the issue, start the goroutine.  The  *)
(* check before it left no completed entry behind.                         *)
Launch(i, s) ==
  /\ entry' = [entry EXCEPT ![i] = [origin |-> s, state |-> s, stop |-> ""]]
  /\ claimed' = claimed \cup {i}
  /\ retrying' = retrying \ {i}
  /\ completed' = [completed EXCEPT ![i] = NoState]
  /\ worker' = [worker EXCEPT ![i] = s]
  /\ starting' = starting \cup {i}

(* Mutant: the retry is queued without its timer.                          *)
scheduleUnarmed(i) ==
  /\ retrying' = retrying \cup {i}
  /\ claimed' = claimed \cup {i}
  /\ UNCHANGED timers

(* scheduleRetry: queue the retry, keep the claim, arm the timer.          *)
scheduleRetry(i) ==
  /\ retrying' = retrying \cup {i}
  /\ claimed' = claimed \cup {i}
  /\ timers' = timers \cup {i}

(* Mutant: an exit that does not retry leaves the claim behind.            *)
UnclaimForgotten(i) == UNCHANGED <<claimed, retrying, timers>>

Unclaim(i) ==
  /\ claimed' = claimed \ {i}
  /\ UNCHANGED <<retrying, timers>>

(* requestStop: only the first reason is kept; the context is cancelled.   *)
Stopped(e, reason) == IF e.stop = "" THEN [e EXCEPT !.stop = reason] ELSE e

(* Mutant: the entry of a terminal issue is deleted when it is stopped,    *)
(* before its worker has gone.                                             *)
ReconciledAway(e, s) ==
  LET seen == [e EXCEPT !.state = s]
  IN IF s \in TerminalStates THEN NoEntry
     ELSE IF s \in Dispatchable /\ RunType(e.origin) = RunType(s) THEN seen
     ELSE Stopped(seen, "released")

(* Mutant: an entry whose state asks for another automation runs on.       *)
ReconciledLeniently(e, s) ==
  LET seen == [e EXCEPT !.state = s]
  IN IF s \in TerminalStates THEN Stopped(seen, "terminal")
     ELSE IF s \notin Dispatchable THEN Stopped(seen, "released") ELSE seen

(* reconcileRunning for one entry, given the state just fetched.           *)
Reconciled(e, s) ==
  LET seen == [e EXCEPT !.state = s]
  IN CASE s \in TerminalStates -> Stopped(seen, "terminal")
       [] s \notin Dispatchable \cup TerminalStates -> Stopped(seen, "released")
       [] s \in Dispatchable \ TerminalStates ->
            IF RunType(e.origin) # RunType(s) THEN Stopped(seen, "released") ELSE seen

-----------------------------------------------------------------------------
(* The tick: handleTick, split where it waits for Linear or GitHub.        *)

(* reconcileRunning.  reconcileStalled stops entries without recent Codex  *)
(* activity; then the entries whose state Linear returned (none without    *)
(* request budget or when the fetch fails) take the board's state and are  *)
(* stopped when that state no longer fits their run.                       *)
TickReconcile ==
  /\ phase = "select"
  /\ \E stalled \in SUBSET {i \in Running : entry[i].stop = ""}, fetched \in SUBSET Running :
       LET Checked(i) == IF i \in stalled THEN Stopped(entry[i], "stalled") ELSE entry[i]
       IN entry' = [i \in Issues |-> IF i \in fetched THEN Reconciled(Checked(i), board[i])
                                     ELSE Checked(i)]
  /\ phase' = IF draining THEN "select" ELSE "poll"
  /\ UNCHANGED <<tracker, claimed, retrying, completed, intake, pending, eventCh,
                 goroutines, restarts>>

(* FetchCandidateIssueSnapshots: the issues whose state is dispatchable.   *)
TickPoll ==
  /\ phase = "poll"
  /\ phase' = "visit"
  /\ pending' = [i \in Issues |-> IF board[i] \in Dispatchable THEN board[i] ELSE NoState]
  /\ UNCHANGED <<tracker, maps, intake, eventCh, goroutines, restarts>>

(* No request budget for the fetch: the tick goes on without candidates.   *)
TickThrottled ==
  /\ phase = "poll"
  /\ phase' = "visit"
  /\ UNCHANGED <<tracker, maps, intake, pending, eventCh, goroutines, restarts>>

(* The candidate fetch failed: the tick is over.                           *)
TickPollFailed ==
  /\ phase = "poll"
  /\ phase' = "select"
  /\ UNCHANGED <<tracker, maps, intake, pending, eventCh, goroutines, restarts>>

NextToVisit(i) ==
  /\ phase = "visit" /\ pending[i] # NoState
  /\ \A j \in Issues : pending[j] # NoState => Rank[i] <= Rank[j]

Visited(i) == pending' = [pending EXCEPT ![i] = NoState]

(* The first look is at the poll's snapshot.  A label or delegation it saw *)
(* may have changed since: seenHold is any value.                          *)
FirstLook(i) == Unclaimed(i) /\ shouldDispatch(i, pending[i], FALSE)

(* Second look, at the state the detail fetch returned; then dispatch.     *)
VisitLaunch(i) ==
  /\ NextToVisit(i) /\ FirstLook(i) /\ hasGlobalSlots
  /\ Eligible(i, board[i], held[i], NoState)
  /\ Launch(i, board[i])
  /\ Visited(i)
  /\ UNCHANGED <<tracker, intake, phase, eventCh, timers, restarts>>

(* No global slot is left: break ends the candidate loop.                  *)
VisitFull(i) ==
  /\ NextToVisit(i) /\ FirstLook(i) /\ ~hasGlobalSlots
  /\ completed' = [completed EXCEPT ![i] = NoState]
  /\ pending' = Nowhere
  /\ UNCHANGED <<tracker, entry, claimed, retrying, intake, phase, eventCh,
                 goroutines, restarts>>

(* The first look refuses the candidate.                                   *)
VisitSkip(i) ==
  /\ NextToVisit(i)
  /\ \/ ~Unclaimed(i) /\ UNCHANGED completed
     \/ /\ Unclaimed(i)
        /\ \E seenHold \in BOOLEAN :
             /\ ~shouldDispatch(i, pending[i], seenHold)
             /\ completed' = CompletedAfterCheck(i, pending[i], seenHold)
  /\ Visited(i)
  /\ UNCHANGED <<tracker, entry, claimed, retrying, intake, phase, eventCh,
                 goroutines, restarts>>

(* The candidate passed the first look, and then the detail fetch fails,   *)
(* or prepareReviewIssue is not ready, or the second look refuses it.      *)
(* prepareReviewIssue may put the issue back into review: the targeted     *)
(* review thread is gone.                                                  *)
VisitGivenUp(i) ==
  /\ NextToVisit(i) /\ FirstLook(i) /\ hasGlobalSlots
  /\ completed' = [completed EXCEPT ![i] = NoState]
  /\ \/ UNCHANGED board
     \/ \E s \in PublishStates : board' = [board EXCEPT ![i] = s]
  /\ Visited(i)
  /\ UNCHANGED <<held, entry, claimed, retrying, intake, phase, eventCh,
                 goroutines, restarts>>

(* refreshIssueStateCounts fetches the tracked issues; those in review are *)
(* then looked up on GitHub, which takes its time.                         *)
TickTrack ==
  /\ phase = "visit" /\ pending = Nowhere
  /\ phase' = "sync"
  /\ pending' = [i \in Issues |-> IF board[i] \in PublishStates /\ ~held[i]
                                  THEN board[i] ELSE NoState]
  /\ UNCHANGED <<tracker, maps, intake, eventCh, goroutines, restarts>>

(* targetedReviewFollowUpState *)
FollowUpState == IF TodoState \in ActiveStates THEN TodoState ELSE ActiveOrder[1]

(* syncGitHubReviewFollowUps and syncGitHubPullRequestChecks: some of the  *)
(* unclaimed issues that were in review go back to active work, wherever   *)
(* the board has them by now, and their completed entry is dropped.  They  *)
(* are dispatched by the same tick.                                        *)
TickSync ==
  /\ phase = "sync"
  /\ \E back \in SUBSET {i \in Issues : /\ pending[i] # NoState /\ Unclaimed(i)
                                        /\ i \notin retrying} :
       /\ board' = [i \in Issues |-> IF i \in back THEN FollowUpState ELSE board[i]]
       /\ completed' = [i \in Issues |-> IF i \in back THEN NoState ELSE completed[i]]
       /\ pending' = [i \in Issues |-> IF i \in back THEN FollowUpState ELSE NoState]
  /\ phase' = "followup"
  /\ UNCHANGED <<held, entry, claimed, retrying, intake, eventCh, goroutines,
                 restarts>>

(* The follow-up is dispatched from the issue in memory, without another   *)
(* look at the board.                                                      *)
FollowUpLaunch(i) ==
  /\ phase = "followup" /\ pending[i] # NoState
  /\ hasGlobalSlots /\ Unclaimed(i) /\ shouldDispatch(i, pending[i], FALSE)
  /\ Launch(i, pending[i])
  /\ Visited(i)
  /\ UNCHANGED <<tracker, intake, phase, eventCh, timers, restarts>>

(* Not ready (and perhaps put back into review), or not eligible.          *)
FollowUpSkip(i) ==
  /\ phase = "followup" /\ pending[i] # NoState
  /\ hasGlobalSlots
  /\ \/ UNCHANGED board
     \/ \E s \in PublishStates : board' = [board EXCEPT ![i] = s]
  /\ Visited(i)
  /\ UNCHANGED <<held, maps, intake, phase, eventCh, goroutines, restarts>>

(* break: the remaining follow-ups wait for a later tick.                  *)
FollowUpsFull ==
  /\ phase = "followup" /\ pending # Nowhere /\ ~hasGlobalSlots
  /\ pending' = Nowhere
  /\ UNCHANGED <<tracker, maps, intake, phase, eventCh, goroutines, restarts>>

TickDone ==
  /\ phase = "followup" /\ pending = Nowhere
  /\ phase' = "select"
  /\ UNCHANGED <<tracker, maps, intake, pending, eventCh, goroutines, restarts>>

-----------------------------------------------------------------------------
(* Events of the channel, handled between ticks.                           *)

Receive(kind) ==
  /\ phase = "select"
  /\ eventCh # <<>> /\ Head(eventCh).kind = kind
  /\ eventCh' = Tail(eventCh)

(* handleCodexEvent: the entry's state follows the event.                  *)
HandleCodex ==
  /\ Receive("codex")
  /\ LET e == Head(eventCh)
     IN entry' = IF e.issue \in Running
                 THEN [entry EXCEPT ![e.issue].state = e.state] ELSE entry
  /\ UNCHANGED <<tracker, claimed, retrying, completed, intake, tick, goroutines,
                 restarts>>

(* handleWorkerExit deletes the entry first; what happens to the claim     *)
(* depends on the reason the worker was stopped for, then on its result.   *)
ExitOf(i) ==
  /\ Receive("exit") /\ Head(eventCh).issue = i
  /\ i \in Running
  /\ entry' = [entry EXCEPT ![i] = NoEntry]
  /\ UNCHANGED <<board, intake, tick, worker, starting, restarts>>

ExitStopped(i) ==
  /\ ExitOf(i)
  /\ entry[i].stop \in {"terminal", "released", "shutdown"}
  /\ Unclaim(i)
  /\ UNCHANGED <<held, completed>>

ExitStalled(i) ==
  /\ ExitOf(i)
  /\ entry[i].stop = "stalled"
  /\ scheduleRetry(i)
  /\ UNCHANGED <<held, completed>>

ExitBlocked(i) ==
  /\ ExitOf(i)
  /\ entry[i].stop = "" /\ Head(eventCh).status = "blocked"
  /\ scheduleRetry(i)
  /\ UNCHANGED <<held, completed>>

(* Three ways out of a success: handed off (completed), returned to active *)
(* work by a publish or merge run (claim dropped), or looked at again soon.*)
ExitSucceeded(i) ==
  LET s == Head(eventCh).state
      coding == IsCoding(entry[i].origin)
      handedOff == IF coding THEN s \notin Dispatchable ELSE s \notin ActiveStates
  IN /\ ExitOf(i)
     /\ entry[i].stop = "" /\ Head(eventCh).status = "succeeded"
     /\ IF coding /\ ~handedOff THEN scheduleRetry(i) ELSE Unclaim(i)
     /\ completed' = IF handedOff THEN [completed EXCEPT ![i] = s] ELSE completed
     /\ UNCHANGED held

(* A failure is retried, or, after repeated identical failures, the issue  *)
(* is labelled paused and released (the count is LoopGuard's subject).     *)
ExitFailed(i) ==
  /\ ExitOf(i)
  /\ entry[i].stop = "" /\ Head(eventCh).status = "failed"
  /\ \/ scheduleRetry(i) /\ UNCHANGED held
     \/ Unclaim(i) /\ held' = [held EXCEPT ![i] = TRUE]
  /\ UNCHANGED completed

(* An event whose entry or retry is gone: a retry timer fired before the   *)
(* drain could stop it.  (WorkerBehindEntry: never a worker's exit.)       *)
IgnoreLate ==
  /\ \E kind \in {"exit", "retry"} :
       /\ Receive(kind)
       /\ Head(eventCh).issue \notin IF kind = "exit" THEN Running ELSE retrying
  /\ UNCHANGED <<tracker, maps, intake, tick, goroutines, restarts>>

(* handleRetry.  The entry is gone at once; the claim is kept only by a    *)
(* retry that is scheduled again.                                          *)
RetryOf(i) ==
  /\ Receive("retry") /\ Head(eventCh).issue = i
  /\ i \in retrying
  /\ UNCHANGED <<held, intake, tick, restarts>>

RetryDropped(i) ==
  /\ RetryOf(i)
  /\ ~acceptingNewWork
  /\ retrying' = retrying \ {i} /\ claimed' = claimed \ {i}
  /\ UNCHANGED <<board, entry, completed, goroutines>>

(* Over the request budget, a fetch failed, or no slot is free.            *)
RetryDeferred(i) ==
  /\ RetryOf(i)
  /\ acceptingNewWork
  /\ scheduleRetry(i)
  /\ UNCHANGED <<board, entry, completed, worker, starting>>

(* The poll may have seen the issue in another state than the detail fetch *)
(* that follows it.                                                        *)
RetrySlots == hasGlobalSlots /\ \E seen \in Dispatchable : hasStateSlots(seen)

(* The issue is no candidate any more, is not ready (and may be put back   *)
(* into review), or is refused by shouldDispatch.                          *)
RetryReleased(i) ==
  /\ RetryOf(i)
  /\ acceptingNewWork
  /\ retrying' = retrying \ {i} /\ claimed' = claimed \ {i}
  /\ \/ /\ board[i] \notin Dispatchable
        /\ UNCHANGED <<board, completed>>
     \/ /\ RetrySlots
        /\ \/ UNCHANGED board
           \/ \E s \in PublishStates : board' = [board EXCEPT ![i] = s]
        /\ UNCHANGED completed
     \/ /\ RetrySlots /\ ~shouldDispatch(i, board[i], held[i])
        /\ completed' = CompletedAfterCheck(i, board[i], held[i])
        /\ UNCHANGED board
  /\ UNCHANGED <<entry, goroutines>>

RetryLaunch(i) ==
  /\ RetryOf(i)
  /\ hasGlobalSlots /\ shouldDispatch(i, board[i], held[i])
  /\ Launch(i, board[i])
  /\ UNCHANGED <<board, timers>>

(* enterShutdownDrain.  Stop() does not reach a timer that already fired:  *)
(* those in late still deliver their event.                                *)
HandleDrain ==
  /\ Receive("drain")
  /\ IF draining
     THEN UNCHANGED <<claimed, retrying, draining, shutdownRequested, timers>>
     ELSE /\ draining' = TRUE /\ shutdownRequested' = TRUE
          /\ claimed' = claimed \ retrying
          /\ retrying' = {}
          /\ \E late \in SUBSET timers : timers' = late
  /\ UNCHANGED <<tracker, entry, completed, limit, tick, worker, starting, restarts>>

HandleConfig ==
  /\ Receive("config")
  /\ limit' = Head(eventCh).limit
  /\ UNCHANGED <<tracker, maps, draining, shutdownRequested, tick, goroutines,
                 restarts>>

(* ctx.Done: every running entry is told to stop and the loop returns.     *)
Shutdown ==
  /\ phase = "select"
  /\ phase' = "stopped"
  /\ entry' = [i \in Issues |-> IF i \in Running THEN Stopped(entry[i], "shutdown")
                                ELSE NoEntry]
  /\ UNCHANGED <<tracker, claimed, retrying, completed, intake, pending, eventCh,
                 goroutines, restarts>>

-----------------------------------------------------------------------------
(* The goroutines.  A send on eventCh waits until the channel has room.    *)

HasRoom == Len(eventCh) < ChanCap

Send(e) == HasRoom /\ eventCh' = Append(eventCh, e)

TimerFires(i) ==
  /\ i \in timers
  /\ Send([kind |-> "retry", issue |-> i])
  /\ timers' = timers \ {i}
  /\ UNCHANGED <<tracker, maps, intake, tick, worker, starting, restarts>>

(* moveActiveIssueToWorkingState: before it works, a coding run moves its  *)
(* issue to the next active state, whatever the board says by then.        *)
NextActive(s) ==
  {ActiveOrder[k + 1] : k \in {j \in 1 .. Len(ActiveOrder) - 1 : ActiveOrder[j] = s}}

WorkerStarts(i) ==
  /\ i \in starting
  /\ starting' = starting \ {i}
  /\ IF NextActive(worker[i]) = {} THEN UNCHANGED board
     ELSE \E s \in NextActive(worker[i]) : board' = [board EXCEPT ![i] = s]
  /\ UNCHANGED <<held, maps, intake, tick, eventCh, worker, timers, restarts>>

(* A Codex or runner event.  It carries the state the run was dispatched   *)
(* in; a coding run also reports its opening move and, after each turn,    *)
(* the state it fetched.  Bound: one undelivered event per issue.          *)
WorkerReports(i) ==
  /\ worker[i] # NoState
  /\ \A k \in 1 .. Len(eventCh) : ~(eventCh[k].kind = "codex" /\ eventCh[k].issue = i)
  /\ \E s \in {worker[i]} \cup IF RunType(worker[i]) = "coding" /\ i \notin starting
                             THEN {board[i]} \cup NextActive(worker[i]) ELSE {} :
       Send([kind |-> "codex", issue |-> i, state |-> s])
  /\ UNCHANGED <<tracker, maps, intake, tick, goroutines, restarts>>

(* What Runner.Run may return for an issue dispatched in state s, and the  *)
(* state it left the board in when it moved the issue (else NoState).      *)
Stays(status, s) == [status |-> status, state |-> s, move |-> NoState]
Moves(s) == [status |-> "succeeded", state |-> s, move |-> s]

CodingResults(now) ==
  {Moves(s) : s \in PublishStates \cup {RefineState}}
    \cup {Stays(st, now) : st \in {"blocked", "failed"}}
    \cup IF now \notin ActiveStates \/ PublishStates = {}
         THEN {Stays("succeeded", now)} ELSE {}

PublishResults(s) ==
  {Stays("succeeded", s), Stays("failed", s), Moves(ActiveOrder[Len(ActiveOrder)])}

MergeResults(s) ==
  {Stays(st, s) : st \in Statuses}
    \cup {Moves(t) : t \in PublishStates \cup {PostMergeState}}

Results(i) ==
  CASE RunType(worker[i]) = "coding" -> CodingResults(board[i])
    [] RunType(worker[i]) = "publish" -> PublishResults(worker[i])
    [] RunType(worker[i]) = "merge" -> MergeResults(worker[i])

(* The run ends: its last move of the issue is on the board, its result in *)
(* the channel, and the goroutine is gone.  A cancelled run may still end  *)
(* this way, since the request that moves the issue can be under way.      *)
WorkerFinishes(i) ==
  /\ worker[i] # NoState
  /\ \E r \in Results(i) :
       /\ r.move # NoState => i \notin starting
       /\ board' = IF r.move = NoState THEN board ELSE [board EXCEPT ![i] = r.move]
       /\ Send([kind |-> "exit", issue |-> i, status |-> r.status, state |-> r.state])
  /\ worker' = [worker EXCEPT ![i] = NoState]
  /\ starting' = starting \ {i}
  /\ UNCHANGED <<held, maps, intake, tick, timers, restarts>>

-----------------------------------------------------------------------------
(* The environment.                                                        *)

HumanMoves(i) ==
  /\ \E s \in HumanTargets \ {board[i]} : board' = [board EXCEPT ![i] = s]
  /\ UNCHANGED <<held, maps, intake, tick, eventCh, goroutines, restarts>>

HumanHolds(i) ==
  /\ i \in HoldIssues
  /\ held' = [held EXCEPT ![i] = ~held[i]]
  /\ UNCHANGED <<board, maps, intake, tick, eventCh, goroutines, restarts>>

(* RequestShutdownDrain: the flag is set even when the event does not fit. *)
RequestDrain ==
  /\ phase # "stopped"
  /\ shutdownRequested' = TRUE
  /\ eventCh' = IF HasRoom THEN Append(eventCh, [kind |-> "drain"]) ELSE eventCh
  /\ UNCHANGED <<tracker, maps, draining, limit, tick, goroutines, restarts>>

(* UpdateRuntime: the workflow file watcher sends the reloaded settings.   *)
UpdateRuntime ==
  /\ \E n \in Limits \ {limit} : Send([kind |-> "config", limit |-> n])
  /\ UNCHANGED <<tracker, maps, intake, tick, goroutines, restarts>>

(* The process dies, with everything but the board, and is started again.  *)
Restart ==
  /\ restarts < MaxRestarts
  /\ restarts' = restarts + 1
  /\ entry' = [i \in Issues |-> NoEntry]
  /\ claimed' = {} /\ retrying' = {}
  /\ completed' = Nowhere /\ pending' = Nowhere
  /\ draining' = FALSE /\ shutdownRequested' = FALSE
  /\ limit' \in Limits
  /\ phase' = "select"
  /\ eventCh' = <<>>
  /\ worker' = Nowhere
  /\ starting' = {} /\ timers' = {}
  /\ UNCHANGED tracker

-----------------------------------------------------------------------------

InsideTick ==
  \/ TickPoll \/ TickThrottled \/ TickPollFailed \/ TickTrack \/ TickSync
  \/ FollowUpsFull \/ TickDone
  \/ \E i \in Issues : \/ VisitLaunch(i) \/ VisitFull(i) \/ VisitSkip(i) \/ VisitGivenUp(i)
                        \/ FollowUpLaunch(i) \/ FollowUpSkip(i)

HandleExit(i) ==
  ExitStopped(i) \/ ExitStalled(i) \/ ExitBlocked(i) \/ ExitSucceeded(i) \/ ExitFailed(i)

HandleRetry(i) ==
  RetryDropped(i) \/ RetryDeferred(i) \/ RetryReleased(i) \/ RetryLaunch(i)

HandleEvent ==
  \/ HandleCodex \/ IgnoreLate \/ HandleDrain \/ HandleConfig
  \/ \E i \in Issues : HandleExit(i) \/ HandleRetry(i)

Goroutine(i) ==
  TimerFires(i) \/ WorkerStarts(i) \/ WorkerReports(i) \/ WorkerFinishes(i)

Environment ==
  \/ RequestDrain \/ UpdateRuntime \/ Shutdown \/ Restart
  \/ \E i \in Issues : HumanMoves(i) \/ HumanHolds(i)

Next ==
  \/ TickReconcile \/ InsideTick \/ HandleEvent
  \/ \E i \in Issues : Goroutine(i)
  \/ Environment

Spec == Init /\ [][Next]_vars

(* The loop takes a ready tick and a ready event alike: Go's select picks  *)
(* among the ready cases at random, so neither waits forever.  Linear      *)
(* answers again and again.  A run ends (turns time out, stalled runs are  *)
(* cancelled) and a send on the channel gets its turn.  Nothing is assumed *)
(* of humans, shutdowns, reloads and restarts.                             *)
Fairness ==
  /\ WF_vars(InsideTick)
  /\ SF_vars(TickReconcile)
  /\ SF_vars(TickPoll)
  /\ SF_vars(HandleEvent)
  /\ \A i \in Issues :
       /\ SF_vars(VisitLaunch(i))
       /\ SF_vars(RetryLaunch(i))
       /\ SF_vars(TimerFires(i) \/ WorkerFinishes(i))

FairSpec == Spec /\ Fairness

-----------------------------------------------------------------------------
(* Properties.                                                             *)

(* SPEC.md 7.1: a claimed issue is either running or queued for a retry,   *)
(* never both; a claim with neither behind it would keep the issue from    *)
(* ever being dispatched again.                                            *)
ClaimsExact ==
  /\ claimed = Running \cup retrying
  /\ Running \cap retrying = {}

(* An event of that kind about that issue is in the channel.               *)
Has(ch, kind, i) == \E k \in 1 .. Len(ch) : ch[k].kind = kind /\ ch[k].issue = i

(* No two exits, and no two retries, are in the channel for one issue.     *)
Single(ch) ==
  \A k, m \in 1 .. Len(ch) :
    /\ ch[k].kind = ch[m].kind
    /\ ch[k].kind \in {"exit", "retry"}
    /\ ch[k].issue = ch[m].issue
    => k = m

HasEvent(kind, i) == Has(eventCh, kind, i)

(* A running entry has exactly one thing behind it that will end it: its   *)
(* live worker or that worker's exit event.  Without an entry there is     *)
(* neither, so no worker runs unseen and no exit event hits a later run.   *)
WorkerBehindEntry ==
  /\ Single(eventCh)
  /\ \A i \in Issues :
       /\ i \in Running <=> (worker[i] # NoState \/ HasEvent("exit", i))
       /\ ~(worker[i] # NoState /\ HasEvent("exit", i))

(* A queued retry has exactly one timer or undelivered event behind it, so *)
(* it is neither forgotten nor fired early by the timer of an older retry, *)
(* and a running issue has neither.  A timer outlives its retry only after *)
(* the drain dropped the retry.                                            *)
TimerBehindRetry ==
  \A i \in Issues :
    /\ i \in retrying => (i \in timers \/ HasEvent("retry", i))
    /\ ~(i \in timers /\ HasEvent("retry", i))
    /\ i \in timers \/ HasEvent("retry", i) => i \notin Running /\ (i \in retrying \/ draining)

(* A completed entry is dropped before its issue is claimed again.  If it  *)
(* survived a run, it would stop the next handoff in the same state: the   *)
(* issue would come back to review and never be published again.           *)
CompletedIsIdle == \A i \in claimed : completed[i] = NoState

(* Only handoffs are remembered as completed, so active work is never      *)
(* refused because of an earlier run.                                      *)
CompletedIsHandoff == \A i \in Issues : completed[i] \notin ActiveStates

(* Once a shutdown is requested, even when the request did not fit in the  *)
(* channel, every claim is given up unless the loop stops or the process   *)
(* restarts first.                                                         *)
DrainQuiesces == shutdownRequested ~> (claimed = {} \/ phase = "stopped" \/ ~shutdownRequested)

Workable(i) ==
  /\ board[i] \in ActiveStates /\ ~held[i] /\ BlockersClosed(i, board[i])
  /\ limit > 0 /\ ~shutdownRequested /\ phase # "stopped"

(* An issue that stays in active work gets a worker, again and again: no   *)
(* sequence of exits, retries, deferrals and restarts loses it.            *)
ActiveWorkIsPickedUp == \A i \in Issues : []<>(~Workable(i) \/ i \in Running)

(* README.md:49, serialized Merge work: of the workers dispatched in a     *)
(* state with a limit of its own, no more than that limit are running and  *)
(* not told to stop, although the slots are counted by the state an entry  *)
(* holds, which events and reconciliation overwrite.                       *)
MergeSerialized ==
  \A s \in DOMAIN StateLimit \cap MergeStates :
    Cardinality({i \in Running : entry[i].origin = s /\ entry[i].stop = ""}) <= StateLimit[s]

(* OPERATIONS.md:295: when Colin hands an issue to Refine it posts a       *)
(* comment; handleWorkerExit posts it unless the worker had been stopped.  *)
RefineHandoffReported ==
  [][\A i \in Issues :
       ExitStopped(i) => ~(/\ Head(eventCh).status = "succeeded"
                          /\ Head(eventCh).state = RefineState)]_vars

(* SPEC.md:262: completed is bookkeeping only, not dispatch gating.        *)
CompletedDoesNotGate ==
  [][\A i \in Issues :
       /\ VisitSkip(i) /\ Unclaimed(i)
       /\ Eligible(i, pending[i], FALSE, NoState)
       => completed[i] # pending[i]]_vars

=============================================================================
