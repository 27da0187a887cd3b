------------------------- MODULE Scheduler_proofs --------------------------
(* Theorems of the scheduler, for any issues, states, limits and channel.  *)
EXTENDS SchedulerClaims, FiniteSetTheorems, TLAPS

-----------------------------------------------------------------------------
(* The channel.                                                            *)

(* A send adds its own event to those under way and no other.              *)
LEMMA AppendHas ==
  ASSUME NEW ch \in Seq(Events), NEW e \in Events, NEW kind, NEW i
  PROVE  Has(Append(ch, e), kind, i) <=> Has(ch, kind, i) \/ (e.kind = kind /\ e.issue = i)
<1> DEFINE new == Append(ch, e)
<1>1. /\ Len(new) = Len(ch) + 1
      /\ \A k \in 1 .. Len(ch) : new[k] = ch[k]
      /\ new[Len(ch) + 1] = e
      /\ Len(ch) \in Nat
  OBVIOUS
<1> HIDE DEF new
<1>2. Has(new, kind, i) <=> Has(ch, kind, i) \/ (e.kind = kind /\ e.issue = i)
  <2>1. 1 .. Len(new) = (1 .. Len(ch)) \cup {Len(ch) + 1}
    BY <1>1
  <2> QED BY <1>1, <2>1 DEF Has
<1> QED BY <1>2 DEF new

(* A send of an exit or retry event that is not under way yet keeps such   *)
(* events single.                                                          *)
LEMMA AppendSingle ==
  ASSUME NEW ch \in Seq(Events), NEW e \in Events, Single(ch),
         e.kind \in {"exit", "retry"} => ~Has(ch, e.kind, e.issue)
  PROVE  Single(Append(ch, e))
<1> DEFINE new == Append(ch, e)
<1>1. /\ Len(new) = Len(ch) + 1
      /\ \A k \in 1 .. Len(ch) : new[k] = ch[k]
      /\ new[Len(ch) + 1] = e
      /\ Len(ch) \in Nat
  OBVIOUS
<1> HIDE DEF new
<1>2. ASSUME NEW k \in 1 .. Len(new), NEW m \in 1 .. Len(new),
             new[k].kind = new[m].kind, new[k].kind \in {"exit", "retry"},
             new[k].issue = new[m].issue
      PROVE  k = m
  <2>1. CASE k \in 1 .. Len(ch) /\ m \in 1 .. Len(ch)
    BY <1>1, <1>2, <2>1 DEF Single
  <2>2. CASE k \in 1 .. Len(ch) /\ m = Len(ch) + 1
    BY <1>1, <1>2, <2>2 DEF Has
  <2>3. CASE k = Len(ch) + 1 /\ m \in 1 .. Len(ch)
    BY <1>1, <1>2, <2>3 DEF Has
  <2>4. CASE k = Len(ch) + 1 /\ m = Len(ch) + 1
    BY <2>4
  <2> QED BY <1>1, <2>1, <2>2, <2>3, <2>4
<1>3. Single(new)
  BY <1>2 DEF Single
<1> QED BY <1>3 DEF new

(* Receiving the oldest event takes that event away and no other.          *)
LEMMA TailHas ==
  ASSUME NEW ch \in Seq(Events), ch # <<>>, Single(ch),
         NEW kind \in {"exit", "retry"}, NEW i
  PROVE  /\ Single(Tail(ch))
         /\ Has(ch, Head(ch).kind, Head(ch).issue)
         /\ Has(Tail(ch), kind, i)
              <=> Has(ch, kind, i) /\ ~(Head(ch).kind = kind /\ Head(ch).issue = i)
<1> DEFINE old == Tail(ch)
<1>1. /\ Len(ch) \in Nat /\ Len(ch) > 0
      /\ Len(old) = Len(ch) - 1
      /\ \A k \in 1 .. Len(old) : old[k] = ch[k + 1]
      /\ Head(ch) = ch[1]
  OBVIOUS
<1> HIDE DEF old
<1>2. Single(old)
  <2> SUFFICES ASSUME NEW k \in 1 .. Len(old), NEW m \in 1 .. Len(old),
                      old[k].kind = old[m].kind, old[k].kind \in {"exit", "retry"},
                      old[k].issue = old[m].issue
               PROVE  k = m
    BY DEF Single
  <2>1. k + 1 \in 1 .. Len(ch) /\ m + 1 \in 1 .. Len(ch)
    BY <1>1
  <2>2. k + 1 = m + 1
    BY <1>1, <2>1 DEF Single
  <2> QED BY <1>1, <2>2
<1>3. Has(ch, Head(ch).kind, Head(ch).issue)
  BY <1>1 DEF Has
<1>4. Has(old, kind, i) => Has(ch, kind, i) /\ ~(Head(ch).kind = kind /\ Head(ch).issue = i)
  <2> SUFFICES ASSUME NEW k \in 1 .. Len(old), old[k].kind = kind, old[k].issue = i
               PROVE  Has(ch, kind, i) /\ ~(Head(ch).kind = kind /\ Head(ch).issue = i)
    BY DEF Has
  <2>1. k + 1 \in 1 .. Len(ch) /\ k + 1 # 1 /\ 1 \in 1 .. Len(ch)
    BY <1>1
  <2>2. ch[k + 1].kind = kind /\ ch[k + 1].issue = i
    BY <1>1
  <2> QED BY <1>1, <2>1, <2>2 DEF Has, Single
<1>5. Has(ch, kind, i) /\ ~(Head(ch).kind = kind /\ Head(ch).issue = i) => Has(old, kind, i)
  <2> SUFFICES ASSUME NEW k \in 1 .. Len(ch), ch[k].kind = kind, ch[k].issue = i, k # 1
               PROVE  Has(old, kind, i)
    BY <1>1 DEF Has
  <2>1. k - 1 \in 1 .. Len(old) /\ old[k - 1] = ch[k]
    BY <1>1
  <2> QED BY <2>1 DEF Has
<1> QED BY <1>2, <1>3, <1>4, <1>5 DEF old

-----------------------------------------------------------------------------
(* Types.                                                                  *)

(* The configured active states are states, and there is a first one.      *)
LEMMA ActiveStatesType == ActiveStates \subseteq States /\ ActiveOrder[1] \in ActiveStates
BY SchedulerAssumption DEF ActiveStates, States, Dispatchable

(* The opening move of a coding run leads to an active state.              *)
LEMMA NextActiveType == \A s : NextActive(s) \subseteq ActiveStates
BY SchedulerAssumption DEF NextActive, ActiveStates

(* A process that was just started has well-typed maps and channel.        *)
LEMMA FreshType ==
  ASSUME FreshProcess, limit \in Nat, restarts \in Nat,
         board \in [Issues -> States], held \in [Issues -> BOOLEAN]
  PROVE  TypeOK
<1>1. eventCh \in Seq(Events)
  BY DEF FreshProcess
<1>2. "select" \in {"select", "poll", "visit", "sync", "followup", "stopped"}
  OBVIOUS
<1> QED BY <1>1, <1>2 DEF FreshProcess, TypeOK, Nowhere

(* The type invariant holds when the first process starts.                 *)
LEMMA InitType == Init => TypeOK
<1> SUFFICES ASSUME Init PROVE TypeOK
  OBVIOUS
<1>1. board \in [Issues -> States] /\ held \in [Issues -> BOOLEAN] /\ limit \in Nat
  BY SchedulerAssumption DEF Init
<1> QED BY <1>1, FreshType DEF Init

(* What the entries look like after a reconciliation.                      *)
LEMMA ReconciledType ==
  ASSUME NEW e \in Entries, NEW s \in States, NEW r \in StopReasons
  PROVE  Stopped(e, r) \in Entries /\ Reconciled(e, s) \in Entries
<1>1. \A d \in Entries, q \in StopReasons : Stopped(d, q) \in Entries
  BY DEF Stopped, Entries
<1>2. [e EXCEPT !.state = s] \in Entries
  BY DEF Entries
<1>3. "terminal" \in StopReasons /\ "released" \in StopReasons
  BY DEF StopReasons
<1> QED BY <1>1, <1>2, <1>3 DEF Reconciled, States

(* A run reports a status and a state, and moves its issue to a state.     *)
LEMMA ResultsType ==
  ASSUME TypeOK, NEW i \in Issues, worker[i] # NoState, NEW r \in Results(i)
  PROVE  r.status \in Statuses /\ r.state \in States /\ r.move \in States \cup {NoState}
<1>1. /\ worker[i] \in States /\ board[i] \in States
      /\ PublishStates \subseteq States /\ RefineState \in States /\ PostMergeState \in States
  BY SchedulerAssumption DEF TypeOK, States, Dispatchable
<1>2. ActiveOrder[Len(ActiveOrder)] \in States
  BY SchedulerAssumption DEF States, Dispatchable, ActiveStates
<1>3. \A s \in States : /\ Moves(s).status \in Statuses
                         /\ Moves(s).state \in States /\ Moves(s).move \in States
  BY DEF Moves, Statuses
<1>4. \A s \in States, st \in Statuses :
        /\ Stays(st, s).status \in Statuses
        /\ Stays(st, s).state \in States /\ Stays(st, s).move = NoState
  BY DEF Stays
<1>5. "succeeded" \in Statuses /\ "blocked" \in Statuses /\ "failed" \in Statuses
  BY DEF Statuses
<1>6. CASE RunType(worker[i]) = "coding"
  <2>1. r \in CodingResults(board[i])
    BY <1>6 DEF Results
  <2> QED BY <1>1, <1>3, <1>4, <1>5, <2>1 DEF CodingResults
<1>7. CASE RunType(worker[i]) = "publish"
  <2>1. r \in PublishResults(worker[i])
    BY <1>7 DEF Results
  <2> QED BY <1>1, <1>2, <1>3, <1>4, <1>5, <2>1 DEF PublishResults
<1>8. CASE RunType(worker[i]) = "merge"
  <2>1. r \in MergeResults(worker[i])
    BY <1>8 DEF Results
  <2> QED BY <1>1, <1>3, <1>4, <1>5, <2>1 DEF MergeResults
<1> QED BY <1>6, <1>7, <1>8 DEF RunType

(* dispatch leaves the maps and the goroutine sets well typed.             *)
LEMMA LaunchType ==
  ASSUME TypeOK, NEW i \in Issues, NEW s \in States, Launch(i, s)
  PROVE  /\ entry' \in [Issues -> Entries \cup {NoEntry}]
         /\ claimed' \subseteq Issues /\ retrying' \subseteq Issues
         /\ completed' \in [Issues -> States \cup {NoState}]
         /\ worker' \in [Issues -> States \cup {NoState}]
         /\ starting' \subseteq Issues
<1>1. [origin |-> s, state |-> s, stop |-> ""] \in Entries
  BY DEF Entries, StopReasons
<1> QED BY <1>1 DEF TypeOK, Launch

(* Every step of the loop, its goroutines and the board keeps the types.   *)
LEMMA TypeStep == TypeOK /\ [Next]_vars => TypeOK'
<1> SUFFICES ASSUME TypeOK, [Next]_vars PROVE TypeOK'
  OBVIOUS
<1> USE DEF tracker, maps, intake, tick, goroutines
<1>1. CASE TickReconcile
  <2>1. entry' \in [Issues -> Entries \cup {NoEntry}]
    <3>1. PICK stalled \in SUBSET {i \in Running : entry[i].stop = ""}, fetched \in SUBSET Running :
            entry' = [i \in Issues |->
                        LET e == IF i \in stalled THEN Stopped(entry[i], "stalled") ELSE entry[i]
                        IN IF i \in fetched THEN Reconciled(e, board[i]) ELSE e]
      BY <1>1 DEF TickReconcile
    <3>2. \A i \in Running : entry[i] \in Entries /\ board[i] \in States
      BY DEF TypeOK, Running
    <3>3. stalled \subseteq Running /\ fetched \subseteq Running
      BY <3>1
    <3>4. "stalled" \in StopReasons
      BY DEF StopReasons
    <3>5. \A i \in Issues : entry[i] \in Entries \cup {NoEntry}
      BY DEF TypeOK
    <3> QED BY <3>1, <3>2, <3>3, <3>4, <3>5, ReconciledType
  <2> QED BY <1>1, <2>1 DEF TypeOK, TickReconcile
<1>2. CASE TickPoll \/ TickThrottled \/ TickPollFailed
  BY <1>2 DEF TypeOK, TickPoll, TickThrottled, TickPollFailed
<1>3. ASSUME NEW i \in Issues, VisitLaunch(i) \/ VisitFull(i) \/ VisitSkip(i) \/ VisitGivenUp(i)
      PROVE  TypeOK'
  <2>1. CASE VisitLaunch(i)
    BY <2>1, LaunchType DEF TypeOK, VisitLaunch, Visited
  <2>2. CASE VisitFull(i)
    BY <2>2 DEF TypeOK, VisitFull, Nowhere
  <2>3. CASE VisitSkip(i)
    BY <2>3 DEF TypeOK, VisitSkip, Visited, CompletedAfterCheck
  <2>4. CASE VisitGivenUp(i)
    <3>1. PublishStates \subseteq States
      BY DEF States, Dispatchable
    <3> QED BY <2>4, <3>1 DEF TypeOK, VisitGivenUp, Visited
  <2> QED BY <1>3, <2>1, <2>2, <2>3, <2>4
<1>4. CASE TickTrack \/ TickSync
  <2>1. FollowUpState \in States
    BY ActiveStatesType DEF FollowUpState
  <2> QED BY <1>4, <2>1 DEF TypeOK, TickTrack, TickSync
<1>5. ASSUME NEW i \in Issues, FollowUpLaunch(i) \/ FollowUpSkip(i)
      PROVE  TypeOK'
  <2>1. CASE FollowUpLaunch(i)
    <3>1. pending[i] \in States
      BY <2>1 DEF TypeOK, FollowUpLaunch
    <3> QED BY <2>1, <3>1, LaunchType DEF TypeOK, FollowUpLaunch, Visited
  <2>2. CASE FollowUpSkip(i)
    <3>1. PublishStates \subseteq States
      BY DEF States, Dispatchable
    <3> QED BY <2>2, <3>1 DEF TypeOK, FollowUpSkip, Visited
  <2> QED BY <1>5, <2>1, <2>2
<1>6. CASE FollowUpsFull \/ TickDone
  BY <1>6 DEF TypeOK, FollowUpsFull, TickDone, Nowhere
<1>7. CASE HandleCodex
  <2>1. Head(eventCh) \in Events /\ Tail(eventCh) \in Seq(Events) /\ Head(eventCh).kind = "codex"
    BY <1>7 DEF HandleCodex, Receive, TypeOK
  <2>2. Head(eventCh).issue \in Issues /\ Head(eventCh).state \in States
    BY <2>1 DEF Events
  <2>3. entry' \in [Issues -> Entries \cup {NoEntry}]
    <3>1. \A e \in Entries, s \in States : [e EXCEPT !.state = s] \in Entries
      BY DEF Entries
    <3>2. CASE Head(eventCh).issue \in Running
      <4> DEFINE i == Head(eventCh).issue
      <4>1. entry[i] \in Entries
        BY <2>2, <3>2 DEF TypeOK, Running
      <4>2. entry' = [entry EXCEPT ![i] = [entry[i] EXCEPT !.state = Head(eventCh).state]]
        BY <1>7, <3>2 DEF HandleCodex
      <4> QED BY <2>2, <3>1, <4>1, <4>2 DEF TypeOK
    <3>3. CASE Head(eventCh).issue \notin Running
      BY <1>7, <3>3 DEF HandleCodex, TypeOK
    <3> QED BY <3>2, <3>3
  <2> QED BY <1>7, <2>1, <2>3 DEF TypeOK, HandleCodex, Receive
<1>8. CASE HandleConfig
  <2>1. Head(eventCh) \in Events /\ Tail(eventCh) \in Seq(Events) /\ Head(eventCh).kind = "config"
    BY <1>8 DEF HandleConfig, Receive, TypeOK
  <2>2. Head(eventCh).limit \in Nat
    BY <2>1 DEF Events
  <2> QED BY <1>8, <2>1, <2>2 DEF TypeOK, HandleConfig, Receive
<1>9. CASE HandleDrain
  <2>1. Tail(eventCh) \in Seq(Events)
    BY <1>9 DEF HandleDrain, Receive, TypeOK
  <2> QED BY <1>9, <2>1 DEF TypeOK, HandleDrain, Receive
<1>10. CASE IgnoreLate
  <2>1. Tail(eventCh) \in Seq(Events) /\ eventCh' = Tail(eventCh)
    BY <1>10 DEF IgnoreLate, Receive, TypeOK
  <2> QED BY <1>10, <2>1 DEF TypeOK, IgnoreLate
<1>11. ASSUME NEW i \in Issues, HandleExit(i)
       PROVE  TypeOK'
  <2>1. ExitOf(i)
    BY <1>11 DEF HandleExit, ExitStopped, ExitStalled, ExitBlocked, ExitSucceeded, ExitFailed
  <2>2. Head(eventCh) \in Events /\ Tail(eventCh) \in Seq(Events) /\ Head(eventCh).kind = "exit"
    BY <2>1 DEF ExitOf, Receive, TypeOK
  <2>3. Head(eventCh).state \in States
    BY <2>2 DEF Events
  <2>4. /\ entry' \in [Issues -> Entries \cup {NoEntry}]
        /\ eventCh' \in Seq(Events)
        /\ UNCHANGED <<board, intake, tick, worker, starting, restarts>>
    BY <2>1, <2>2 DEF TypeOK, ExitOf, Receive
  <2>5. claimed' \subseteq Issues /\ retrying' \subseteq Issues /\ timers' \subseteq Issues
    BY <1>11 DEF TypeOK, HandleExit, ExitStopped, ExitStalled, ExitBlocked, ExitSucceeded,
                 ExitFailed, scheduleRetry, Unclaim
  <2>6. /\ held' \in [Issues -> BOOLEAN]
        /\ completed' \in [Issues -> States \cup {NoState}]
    BY <1>11, <2>3 DEF TypeOK, HandleExit, ExitStopped, ExitStalled, ExitBlocked, ExitSucceeded,
                       ExitFailed
  <2> QED BY <2>4, <2>5, <2>6 DEF TypeOK
<1>12. ASSUME NEW i \in Issues, HandleRetry(i)
       PROVE  TypeOK'
  <2>1. RetryOf(i)
    BY <1>12 DEF HandleRetry, RetryDropped, RetryDeferred, RetryReleased, RetryLaunch
  <2>2. /\ eventCh' \in Seq(Events)
        /\ UNCHANGED <<held, intake, tick, restarts>>
    BY <2>1 DEF TypeOK, RetryOf, Receive
  <2>3. CASE RetryDropped(i)
    BY <2>2, <2>3 DEF TypeOK, RetryDropped
  <2>4. CASE RetryDeferred(i)
    BY <2>2, <2>4 DEF TypeOK, RetryDeferred, scheduleRetry
  <2>5. CASE RetryReleased(i)
    <3>1. board' \in [Issues -> States]
      <4>1. PublishStates \subseteq States
        BY DEF States, Dispatchable
      <4> QED BY <2>5, <4>1 DEF TypeOK, RetryReleased
    <3>2. completed' \in [Issues -> States \cup {NoState}]
      BY <2>5 DEF TypeOK, RetryReleased, CompletedAfterCheck
    <3> QED BY <2>2, <2>5, <3>1, <3>2 DEF TypeOK, RetryReleased
  <2>6. CASE RetryLaunch(i)
    BY <2>2, <2>6, LaunchType DEF TypeOK, RetryLaunch
  <2> QED BY <1>12, <2>3, <2>4, <2>5, <2>6 DEF HandleRetry
<1>13. ASSUME NEW i \in Issues, Goroutine(i)
       PROVE  TypeOK'
  <2>1. CASE TimerFires(i)
    <3>1. [kind |-> "retry", issue |-> i] \in Events
      BY DEF Events
    <3> QED BY <2>1, <3>1 DEF TypeOK, TimerFires, Send
  <2>2. CASE WorkerStarts(i)
    <3>1. board' \in [Issues -> States]
      BY <2>2, NextActiveType, ActiveStatesType DEF TypeOK, WorkerStarts
    <3> QED BY <2>2, <3>1 DEF TypeOK, WorkerStarts
  <2>3. CASE WorkerReports(i)
    <3>1. PICK s \in States : Send([kind |-> "codex", issue |-> i, state |-> s])
      BY <2>3, NextActiveType, ActiveStatesType DEF TypeOK, WorkerReports
    <3>2. [kind |-> "codex", issue |-> i, state |-> s] \in Events
      BY DEF Events
    <3>3. eventCh' \in Seq(Events)
      BY <3>1, <3>2 DEF TypeOK, Send
    <3> QED BY <2>3, <3>3 DEF TypeOK, WorkerReports
  <2>4. CASE WorkerFinishes(i)
    <3>1. \A r \in Results(i) : r.status \in Statuses /\ r.state \in States
                               /\ r.move \in States \cup {NoState}
      BY <2>4, ResultsType DEF TypeOK, WorkerFinishes
    <3>2. PICK r \in Results(i) :
            /\ board' = IF r.move = NoState THEN board ELSE [board EXCEPT ![i] = r.move]
            /\ Send([kind |-> "exit", issue |-> i, status |-> r.status, state |-> r.state])
      BY <2>4 DEF WorkerFinishes
    <3>3. [kind |-> "exit", issue |-> i, status |-> r.status, state |-> r.state] \in Events
      BY <3>1 DEF Events
    <3>4. eventCh' \in Seq(Events)
      BY <3>2, <3>3 DEF TypeOK, Send
    <3>5. board' \in [Issues -> States]
      BY <3>1, <3>2 DEF TypeOK
    <3> QED BY <2>4, <3>4, <3>5 DEF TypeOK, WorkerFinishes
  <2> QED BY <1>13, <2>1, <2>2, <2>3, <2>4 DEF Goroutine
<1>14. CASE RequestDrain
  <2>1. [kind |-> "drain"] \in Events
    BY DEF Events
  <2> QED BY <1>14, <2>1 DEF TypeOK, RequestDrain
<1>15. CASE UpdateRuntime
  <2>1. PICK n \in Nat : Send([kind |-> "config", limit |-> n])
    BY <1>15, SchedulerAssumption DEF UpdateRuntime
  <2>2. [kind |-> "config", limit |-> n] \in Events
    BY DEF Events
  <2>3. eventCh' \in Seq(Events)
    BY <2>1, <2>2 DEF TypeOK, Send
  <2> QED BY <1>15, <2>3 DEF TypeOK, UpdateRuntime
<1>16. CASE Shutdown
  <2>1. "shutdown" \in StopReasons
    BY DEF StopReasons
  <2>2. \A i \in Running : entry[i] \in Entries
    BY DEF TypeOK, Running
  <2>3. \A i \in Running : Stopped(entry[i], "shutdown") \in Entries
    BY <2>1, <2>2, SchedulerAssumption, ReconciledType DEF TypeOK
  <2> QED BY <1>16, <2>3 DEF TypeOK, Shutdown
<1>17. CASE Restart
  <2>1. limit' \in Nat /\ <<>> \in Seq(Events)
    BY <1>17, SchedulerAssumption DEF Restart
  <2>2. /\ entry' \in [Issues -> Entries \cup {NoEntry}]
        /\ completed' \in [Issues -> States \cup {NoState}]
        /\ pending' \in [Issues -> States \cup {NoState}]
        /\ worker' \in [Issues -> States \cup {NoState}]
    BY <1>17 DEF Restart, Nowhere
  <2>3. /\ restarts' \in Nat /\ eventCh' \in Seq(Events) /\ limit' \in Nat
        /\ board' \in [Issues -> States] /\ held' \in [Issues -> BOOLEAN]
        /\ phase' = "select" /\ draining' = FALSE /\ shutdownRequested' = FALSE
        /\ claimed' = {} /\ retrying' = {} /\ starting' = {} /\ timers' = {}
    BY <1>17, <2>1 DEF TypeOK, Restart
  <2> QED BY <2>2, <2>3 DEF TypeOK
<1>18. ASSUME NEW i \in Issues, HumanMoves(i) \/ HumanHolds(i)
       PROVE  TypeOK'
  BY <1>18, SchedulerAssumption, ZenonT(60) DEF TypeOK, HumanMoves, HumanHolds
<1>19. CASE UNCHANGED vars
  BY <1>19 DEF TypeOK, vars
<1> QED
  BY <1>1, <1>2, <1>3, <1>4, <1>5, <1>6, <1>7, <1>8, <1>9, <1>10, <1>11, <1>12, <1>13, <1>14,
     <1>15, <1>16, <1>17, <1>18, <1>19
  DEF Next, InsideTick, HandleEvent, Environment

(* The types hold in every reachable state.                                *)
THEOREM TypeInvariant == Spec => []TypeOK
<1>1. Init => TypeOK
  BY InitType
<1>2. TypeOK /\ [Next]_vars => TypeOK'
  BY TypeStep
<1> QED BY <1>1, <1>2, PTL DEF Spec

-----------------------------------------------------------------------------
(* Claims.  The three facts need each other: a launch finds no old worker  *)
(* because an unclaimed issue is not running, and an exit finds no old     *)
(* timer because a running issue is not retrying.                          *)

ClaimInv == ClaimsExact /\ WorkerBehindEntry /\ TimerBehindRetry

(* A step that leaves the maps, the goroutines and the channel alone (but  *)
(* for what the entries say and events that end nothing).                  *)
LEMMA QuietStep ==
  ASSUME ClaimInv, Running' = Running,
         UNCHANGED <<claimed, retrying, worker, timers>>, draining => draining',
         Single(eventCh'),
         \A i \in Issues : /\ HasEvent("exit", i)' <=> HasEvent("exit", i)
                           /\ HasEvent("retry", i)' <=> HasEvent("retry", i)
  PROVE  ClaimInv'
BY DEF ClaimInv, ClaimsExact, WorkerBehindEntry, TimerBehindRetry

(* What is in the channel is unchanged when the channel is.                *)
LEMMA SameChannel ==
  ASSUME UNCHANGED eventCh, ClaimInv
  PROVE  /\ Single(eventCh')
         /\ \A i \in Issues : /\ HasEvent("exit", i)' <=> HasEvent("exit", i)
                              /\ HasEvent("retry", i)' <=> HasEvent("retry", i)
BY DEF HasEvent, Has, Single, ClaimInv, WorkerBehindEntry

(* A send, stated for the channel variable.                                *)
LEMMA SendHas ==
  ASSUME TypeOK, ClaimInv, NEW e \in Events, eventCh' = Append(eventCh, e),
         e.kind \in {"exit", "retry"} => ~HasEvent(e.kind, e.issue)
  PROVE  /\ Single(eventCh')
         /\ \A i \in Issues, kind \in {"exit", "retry"} :
              HasEvent(kind, i)' <=> HasEvent(kind, i) \/ (e.kind = kind /\ e.issue = i)
<1>1. eventCh \in Seq(Events) /\ Single(eventCh)
  BY DEF TypeOK, ClaimInv, WorkerBehindEntry
<1>2. Single(eventCh')
  BY <1>1, AppendSingle DEF HasEvent
<1>3. ASSUME NEW i \in Issues, NEW kind \in {"exit", "retry"}
      PROVE  HasEvent(kind, i)' <=> HasEvent(kind, i) \/ (e.kind = kind /\ e.issue = i)
  BY <1>1, AppendHas DEF HasEvent
<1> QED BY <1>2, <1>3

(* A receive, stated for the channel variable.                             *)
LEMMA ReceiveHas ==
  ASSUME TypeOK, ClaimInv, NEW kind, Receive(kind)
  PROVE  /\ Single(eventCh')
         /\ HasEvent(kind, Head(eventCh).issue)
         /\ \A i \in Issues, k \in {"exit", "retry"} :
              HasEvent(k, i)' <=> HasEvent(k, i) /\ ~(kind = k /\ Head(eventCh).issue = i)
<1>1. eventCh \in Seq(Events) /\ Single(eventCh) /\ eventCh # <<>> /\ Head(eventCh).kind = kind
      /\ eventCh' = Tail(eventCh)
  BY DEF TypeOK, ClaimInv, WorkerBehindEntry, Receive
<1>2. Single(eventCh') /\ HasEvent(kind, Head(eventCh).issue)
  BY <1>1, TailHas DEF HasEvent
<1>3. ASSUME NEW i \in Issues, NEW k \in {"exit", "retry"}
      PROVE  HasEvent(k, i)' <=> HasEvent(k, i) /\ ~(kind = k /\ Head(eventCh).issue = i)
  BY <1>1, TailHas DEF HasEvent
<1> QED BY <1>2, <1>3

(* A dispatch of an issue nothing is behind.                               *)
LEMMA LaunchStep ==
  ASSUME TypeOK, ClaimInv, NEW i \in Issues, NEW s \in States, Launch(i, s),
         i \notin Running, worker[i] = NoState, i \notin timers,
         UNCHANGED <<timers, draining>>, Single(eventCh'),
         \A j \in Issues : /\ HasEvent("exit", j)' <=> HasEvent("exit", j)
                           /\ j # i => (HasEvent("retry", j)' <=> HasEvent("retry", j)),
         ~HasEvent("retry", i)'
  PROVE  ClaimInv'
<1>1. [origin |-> s, state |-> s, stop |-> ""] # NoEntry
  <2>1. [origin |-> s, state |-> s, stop |-> ""] \in Entries
    BY DEF Entries, StopReasons
  <2> QED BY <2>1, SchedulerAssumption
<1>2. Running' = Running \cup {i}
  BY <1>1 DEF Running, Launch, TypeOK
<1>3. /\ claimed' = claimed \cup {i} /\ retrying' = retrying \ {i}
      /\ worker'[i] # NoState /\ \A j \in Issues : j # i => worker'[j] = worker[j]
  BY SchedulerAssumption DEF Launch, TypeOK
<1>4. ClaimsExact'
  BY <1>2, <1>3 DEF ClaimInv, ClaimsExact
<1>5. WorkerBehindEntry'
  BY <1>2, <1>3 DEF ClaimInv, WorkerBehindEntry
<1>6. TimerBehindRetry'
  BY <1>2, <1>3 DEF ClaimInv, TimerBehindRetry
<1> QED BY <1>4, <1>5, <1>6 DEF ClaimInv

(* An unclaimed issue has nothing behind it while no drain was begun.      *)
LEMMA UnclaimedHasNothing ==
  ASSUME ClaimInv, NEW i \in Issues, Unclaimed(i), acceptingNewWork
  PROVE  /\ i \notin Running /\ worker[i] = NoState /\ i \notin timers
         /\ ~HasEvent("retry", i) /\ ~HasEvent("exit", i)
BY DEF ClaimInv, ClaimsExact, WorkerBehindEntry, TimerBehindRetry, Unclaimed, acceptingNewWork

(* With empty maps and no goroutine there is nothing to account for.       *)
LEMMA InitClaims == Init => ClaimInv
BY DEF Init, FreshProcess, Nowhere, ClaimInv, ClaimsExact, WorkerBehindEntry, TimerBehindRetry,
       Running, HasEvent, Has, Single

(* A tick keeps the claims exact: it changes them only by a dispatch.      *)
LEMMA TickClaims ==
  ASSUME TypeOK, ClaimInv, TickReconcile \/ InsideTick
  PROVE  ClaimInv'
<1> USE DEF tracker, maps, intake, tick, goroutines
<1>1. CASE TickReconcile
  <2>1. Running' = Running
    <3>1. \A e \in Entries, s \in States, r \in StopReasons :
            Stopped(e, r) # NoEntry /\ Reconciled(e, s) # NoEntry
      BY ReconciledType, SchedulerAssumption
    <3>2. PICK stalled \in SUBSET {i \in Running : entry[i].stop = ""}, fetched \in SUBSET Running :
            entry' = [i \in Issues |->
                        LET e == IF i \in stalled THEN Stopped(entry[i], "stalled") ELSE entry[i]
                        IN IF i \in fetched THEN Reconciled(e, board[i]) ELSE e]
      BY <1>1 DEF TickReconcile
    <3>3. \A i \in Running : entry[i] \in Entries /\ board[i] \in States
      BY DEF TypeOK, Running
    <3>4. "stalled" \in StopReasons
      BY DEF StopReasons
    <3>5. \A i \in Running : Stopped(entry[i], "stalled") \in Entries
      BY <3>3, <3>4, ReconciledType
    <3>6. \A i \in Issues : i \in Running => entry'[i] # NoEntry
      BY <3>1, <3>2, <3>3, <3>4, <3>5, SchedulerAssumption
    <3>7. \A i \in Issues : i \notin Running => entry'[i] = NoEntry
      BY <3>2 DEF Running
    <3> QED BY <3>6, <3>7 DEF Running
  <2> QED BY <1>1, <2>1, SameChannel, QuietStep DEF TickReconcile
<1>2. CASE TickPoll \/ TickThrottled \/ TickPollFailed \/ TickTrack \/ TickSync \/ FollowUpsFull \/ TickDone
  <2>1. UNCHANGED <<entry, claimed, retrying, draining, worker, timers, eventCh>>
    BY <1>2 DEF TickPoll, TickThrottled, TickPollFailed, TickTrack, TickSync, FollowUpsFull, TickDone
  <2> QED BY <2>1, SameChannel, QuietStep DEF Running
<1>3. ASSUME NEW i \in Issues, VisitFull(i) \/ VisitSkip(i) \/ VisitGivenUp(i) \/ FollowUpSkip(i)
      PROVE  ClaimInv'
  <2>1. UNCHANGED <<entry, claimed, retrying, draining, worker, timers, eventCh>>
    BY <1>3 DEF VisitFull, VisitSkip, VisitGivenUp, FollowUpSkip
  <2> QED BY <2>1, SameChannel, QuietStep DEF Running
<1>4. ASSUME NEW i \in Issues, VisitLaunch(i) \/ FollowUpLaunch(i)
      PROVE  ClaimInv'
  <2>1. PICK s \in States : Launch(i, s)
    BY <1>4 DEF VisitLaunch, FollowUpLaunch, TypeOK
  <2>2. /\ Unclaimed(i) /\ acceptingNewWork
        /\ UNCHANGED <<timers, draining, eventCh>>
    BY <1>4 DEF VisitLaunch, FollowUpLaunch, FirstLook, shouldDispatch, Eligible, MayRun
  <2> QED BY <2>1, <2>2, UnclaimedHasNothing, SameChannel, LaunchStep
<1> QED BY <1>1, <1>2, <1>3, <1>4 DEF InsideTick

(* handleWorkerExit trades the entry and its exit event for a retry or none.*)
LEMMA ExitClaims ==
  ASSUME TypeOK, ClaimInv, NEW i \in Issues, HandleExit(i)
  PROVE  ClaimInv'
<1>1. ExitOf(i)
  BY DEF HandleExit, ExitStopped, ExitStalled, ExitBlocked, ExitSucceeded, ExitFailed
<1>2. /\ Receive("exit") /\ Head(eventCh).issue = i /\ i \in Running
      /\ UNCHANGED <<draining, worker>>
  BY <1>1 DEF ExitOf, intake
<1>3. Running' = Running \ {i}
  BY <1>1 DEF ExitOf, Running, TypeOK
<1>4. /\ Single(eventCh') /\ HasEvent("exit", i) /\ ~HasEvent("exit", i)'
      /\ \A j \in Issues : /\ j # i => (HasEvent("exit", j)' <=> HasEvent("exit", j))
                           /\ HasEvent("retry", j)' <=> HasEvent("retry", j)
  BY <1>2, ReceiveHas
<1>5. Unclaim(i) \/ scheduleRetry(i)
  BY DEF HandleExit, ExitStopped, ExitStalled, ExitBlocked, ExitSucceeded, ExitFailed
<1>6. i \notin retrying /\ i \notin timers /\ ~HasEvent("retry", i) /\ worker[i] = NoState
  BY <1>2, <1>4 DEF ClaimInv, ClaimsExact, TimerBehindRetry, WorkerBehindEntry
<1>7. ClaimsExact'
  BY <1>2, <1>3, <1>5, <1>6 DEF ClaimInv, ClaimsExact, Unclaim, scheduleRetry
<1>8. WorkerBehindEntry'
  BY <1>2, <1>3, <1>4, <1>6 DEF ClaimInv, WorkerBehindEntry
<1>9. TimerBehindRetry'
  BY <1>2, <1>3, <1>4, <1>5, <1>6 DEF ClaimInv, TimerBehindRetry, Unclaim, scheduleRetry
<1> QED BY <1>7, <1>8, <1>9 DEF ClaimInv

(* handleRetry trades the retry and its event for a run, a retry or none.  *)
LEMMA RetryClaims ==
  ASSUME TypeOK, ClaimInv, NEW i \in Issues, HandleRetry(i)
  PROVE  ClaimInv'
<1>1. RetryOf(i)
  BY DEF HandleRetry, RetryDropped, RetryDeferred, RetryReleased, RetryLaunch
<1>2. /\ Receive("retry") /\ Head(eventCh).issue = i /\ i \in retrying
      /\ UNCHANGED draining
  BY <1>1 DEF RetryOf, intake
<1>3. /\ Single(eventCh') /\ HasEvent("retry", i) /\ ~HasEvent("retry", i)'
      /\ \A j \in Issues : /\ HasEvent("exit", j)' <=> HasEvent("exit", j)
                           /\ j # i => (HasEvent("retry", j)' <=> HasEvent("retry", j))
  BY <1>2, ReceiveHas
<1>4. i \notin Running /\ i \notin timers /\ worker[i] = NoState
  BY <1>2, <1>3 DEF ClaimInv, ClaimsExact, TimerBehindRetry, WorkerBehindEntry
<1>5. CASE RetryDropped(i) \/ RetryReleased(i)
  <2>1. /\ retrying' = retrying \ {i} /\ claimed' = claimed \ {i}
        /\ UNCHANGED <<entry, worker, timers>>
    BY <1>5 DEF RetryDropped, RetryReleased, goroutines
  <2>2. Running' = Running
    BY <2>1 DEF Running
  <2>3. ClaimsExact'
    BY <1>4, <2>1, <2>2 DEF ClaimInv, ClaimsExact
  <2>4. WorkerBehindEntry'
    BY <1>3, <2>1, <2>2 DEF ClaimInv, WorkerBehindEntry
  <2>5. TimerBehindRetry'
    BY <1>2, <1>3, <1>4, <2>1, <2>2 DEF ClaimInv, TimerBehindRetry
  <2> QED BY <2>3, <2>4, <2>5 DEF ClaimInv
<1>6. CASE RetryDeferred(i)
  <2>1. scheduleRetry(i) /\ UNCHANGED <<entry, worker>>
    BY <1>6 DEF RetryDeferred
  <2>2. Running' = Running
    BY <2>1 DEF Running
  <2>3. ClaimsExact'
    BY <1>4, <2>1, <2>2 DEF ClaimInv, ClaimsExact, scheduleRetry
  <2>4. WorkerBehindEntry'
    BY <1>3, <2>1, <2>2 DEF ClaimInv, WorkerBehindEntry
  <2>5. TimerBehindRetry'
    BY <1>2, <1>3, <1>4, <2>1, <2>2 DEF ClaimInv, TimerBehindRetry, scheduleRetry
  <2> QED BY <2>3, <2>4, <2>5 DEF ClaimInv
<1>7. CASE RetryLaunch(i)
  <2>1. Launch(i, board[i]) /\ board[i] \in States /\ UNCHANGED timers
    BY <1>7 DEF RetryLaunch, TypeOK
  <2> QED BY <1>2, <1>3, <1>4, <2>1, LaunchStep
<1> QED BY <1>5, <1>6, <1>7 DEF HandleRetry

(* Every event the loop handles keeps the claims exact.                    *)
LEMMA EventClaims ==
  ASSUME TypeOK, ClaimInv, HandleEvent
  PROVE  ClaimInv'
<1> USE DEF tracker, maps, intake, tick, goroutines
<1>1. CASE HandleCodex
  <2>1. Receive("codex") /\ UNCHANGED <<claimed, retrying, draining, worker, timers>>
    BY <1>1 DEF HandleCodex
  <2>2. Running' = Running
    <3>1. Head(eventCh) \in Events /\ Head(eventCh).kind = "codex"
      BY <2>1 DEF Receive, TypeOK
    <3>2. Head(eventCh).issue \in Issues /\ Head(eventCh).state \in States
      BY <3>1 DEF Events
    <3>3. \A e \in Entries, s \in States : [e EXCEPT !.state = s] \in Entries
      BY DEF Entries
    <3>4. CASE Head(eventCh).issue \in Running
      <4> DEFINE i == Head(eventCh).issue
      <4>1. entry[i] \in Entries
        BY <3>2, <3>4 DEF TypeOK, Running
      <4>2. entry' = [entry EXCEPT ![i] = [entry[i] EXCEPT !.state = Head(eventCh).state]]
        BY <1>1, <3>4 DEF HandleCodex
      <4>3. [entry[i] EXCEPT !.state = Head(eventCh).state] # NoEntry
        BY <3>2, <3>3, <4>1, SchedulerAssumption
      <4> HIDE DEF i
      <4> QED BY <3>2, <3>4, <4>2, <4>3 DEF TypeOK, Running, i
    <3>5. CASE Head(eventCh).issue \notin Running
      BY <1>1, <3>5 DEF HandleCodex, Running
    <3> QED BY <3>4, <3>5
  <2> QED BY <2>1, <2>2, ReceiveHas, QuietStep
<1>2. CASE HandleConfig
  <2>1. Receive("config") /\ UNCHANGED <<entry, claimed, retrying, draining, worker, timers>>
    BY <1>2 DEF HandleConfig
  <2> QED BY <2>1, ReceiveHas, QuietStep DEF Running
<1>3. CASE IgnoreLate
  <2>1. PICK kind \in {"exit", "retry"} :
          /\ Receive(kind)
          /\ Head(eventCh).issue \notin IF kind = "exit" THEN Running ELSE retrying
    BY <1>3 DEF IgnoreLate
  <2>2. UNCHANGED <<entry, claimed, retrying, draining, worker, timers>>
    BY <1>3 DEF IgnoreLate
  <2>3. Running' = Running
    BY <2>2 DEF Running
  <2>4. Head(eventCh).issue \in Issues
    <3>1. Head(eventCh) \in Events /\ Head(eventCh).kind \in {"exit", "retry"}
      BY <2>1 DEF Receive, TypeOK
    <3> QED BY <3>1 DEF Events
  <2>5. kind = "retry"
    BY <2>1, <2>4, ReceiveHas DEF ClaimInv, WorkerBehindEntry
  <2>6. /\ Single(eventCh')
        /\ \A j \in Issues : /\ HasEvent("exit", j)' <=> HasEvent("exit", j)
                             /\ HasEvent("retry", j)' <=>
                                  HasEvent("retry", j) /\ Head(eventCh).issue # j
    BY <2>1, <2>5, ReceiveHas
  <2>7. ClaimsExact' /\ WorkerBehindEntry'
    BY <2>2, <2>3, <2>6 DEF ClaimInv, ClaimsExact, WorkerBehindEntry
  <2>8. TimerBehindRetry'
    BY <2>1, <2>2, <2>3, <2>5, <2>6 DEF ClaimInv, TimerBehindRetry
  <2> QED BY <2>7, <2>8 DEF ClaimInv
<1>4. CASE HandleDrain
  <2>1. Receive("drain") /\ UNCHANGED <<entry, worker>>
    BY <1>4 DEF HandleDrain
  <2>2. /\ Single(eventCh')
        /\ \A j \in Issues : /\ HasEvent("exit", j)' <=> HasEvent("exit", j)
                             /\ HasEvent("retry", j)' <=> HasEvent("retry", j)
    BY <2>1, ReceiveHas
  <2>3. Running' = Running
    BY <2>1 DEF Running
  <2>4. CASE draining
    BY <1>4, <2>1, <2>2, <2>3, <2>4, QuietStep DEF HandleDrain
  <2>5. CASE ~draining
    <3>1. /\ draining' = TRUE /\ claimed' = claimed \ retrying /\ retrying' = {}
          /\ timers' \subseteq timers
      BY <1>4, <2>5 DEF HandleDrain
    <3>2. ClaimsExact'
      BY <2>3, <3>1 DEF ClaimInv, ClaimsExact
    <3>3. WorkerBehindEntry'
      BY <2>1, <2>2, <2>3 DEF ClaimInv, WorkerBehindEntry
    <3>4. TimerBehindRetry'
      BY <2>2, <2>3, <3>1 DEF ClaimInv, TimerBehindRetry
    <3> QED BY <3>2, <3>3, <3>4 DEF ClaimInv
  <2> QED BY <2>4, <2>5
<1>5. ASSUME NEW i \in Issues, HandleExit(i) \/ HandleRetry(i)
      PROVE  ClaimInv'
  BY <1>5, ExitClaims, RetryClaims
<1> QED BY <1>1, <1>2, <1>3, <1>4, <1>5 DEF HandleEvent

(* A goroutine that sends its event is replaced by the event it sent.      *)
LEMMA GoroutineClaims ==
  ASSUME TypeOK, ClaimInv, NEW i \in Issues, Goroutine(i)
  PROVE  ClaimInv'
<1> USE DEF tracker, maps, intake, tick, goroutines
<1>1. CASE TimerFires(i)
  <2>1. /\ i \in timers /\ timers' = timers \ {i}
        /\ eventCh' = Append(eventCh, [kind |-> "retry", issue |-> i])
        /\ UNCHANGED <<entry, claimed, retrying, draining, worker>>
    BY <1>1 DEF TimerFires, Send
  <2>2. [kind |-> "retry", issue |-> i] \in Events
    BY DEF Events
  <2>3. ~HasEvent("retry", i)
    BY <2>1 DEF ClaimInv, TimerBehindRetry
  <2>4. /\ Single(eventCh')
        /\ \A j \in Issues : /\ HasEvent("exit", j)' <=> HasEvent("exit", j)
                             /\ HasEvent("retry", j)' <=> HasEvent("retry", j) \/ i = j
    BY <2>1, <2>2, <2>3, SendHas
  <2>5. Running' = Running
    BY <2>1 DEF Running
  <2>6. ClaimsExact' /\ WorkerBehindEntry'
    BY <2>1, <2>4, <2>5 DEF ClaimInv, ClaimsExact, WorkerBehindEntry
  <2>7. TimerBehindRetry'
    BY <2>1, <2>4, <2>5 DEF ClaimInv, TimerBehindRetry
  <2> QED BY <2>6, <2>7 DEF ClaimInv
<1>2. CASE WorkerStarts(i)
  <2>1. UNCHANGED <<entry, claimed, retrying, draining, worker, timers, eventCh>>
    BY <1>2 DEF WorkerStarts
  <2> QED BY <2>1, SameChannel, QuietStep DEF Running
<1>3. CASE WorkerReports(i)
  <2>1. PICK s \in States : Send([kind |-> "codex", issue |-> i, state |-> s])
    BY <1>3, NextActiveType, ActiveStatesType DEF TypeOK, WorkerReports
  <2>2. [kind |-> "codex", issue |-> i, state |-> s] \in Events
    BY DEF Events
  <2>3. /\ Single(eventCh')
        /\ \A j \in Issues : /\ HasEvent("exit", j)' <=> HasEvent("exit", j)
                             /\ HasEvent("retry", j)' <=> HasEvent("retry", j)
    BY <2>1, <2>2, SendHas DEF Send
  <2>4. UNCHANGED <<entry, claimed, retrying, draining, worker, timers>>
    BY <1>3 DEF WorkerReports
  <2> QED BY <2>3, <2>4, QuietStep DEF Running
<1>4. CASE WorkerFinishes(i)
  <2>1. PICK r \in Results(i) :
          Send([kind |-> "exit", issue |-> i, status |-> r.status, state |-> r.state])
    BY <1>4 DEF WorkerFinishes
  <2>2. /\ worker[i] # NoState /\ worker' = [worker EXCEPT ![i] = NoState]
        /\ UNCHANGED <<entry, claimed, retrying, draining, timers>>
    BY <1>4 DEF WorkerFinishes
  <2>3. [kind |-> "exit", issue |-> i, status |-> r.status, state |-> r.state] \in Events
    BY <2>2, ResultsType DEF Events
  <2>4. ~HasEvent("exit", i) /\ i \in Running
    BY <2>2 DEF ClaimInv, WorkerBehindEntry
  <2>5. /\ Single(eventCh')
        /\ \A j \in Issues : /\ HasEvent("exit", j)' <=> HasEvent("exit", j) \/ i = j
                             /\ HasEvent("retry", j)' <=> HasEvent("retry", j)
    BY <2>1, <2>3, <2>4, SendHas DEF Send
  <2>6. Running' = Running
    BY <2>2 DEF Running
  <2>7. ClaimsExact'
    BY <2>2, <2>6 DEF ClaimInv, ClaimsExact
  <2>8. WorkerBehindEntry'
    BY <2>2, <2>4, <2>5, <2>6 DEF ClaimInv, WorkerBehindEntry, TypeOK
  <2>9. TimerBehindRetry'
    BY <2>2, <2>5, <2>6 DEF ClaimInv, TimerBehindRetry
  <2> QED BY <2>7, <2>8, <2>9 DEF ClaimInv
<1> QED BY <1>1, <1>2, <1>3, <1>4 DEF Goroutine

(* Shutdown, restart, reload and the board keep the claims exact.          *)
LEMMA EnvironmentClaims ==
  ASSUME TypeOK, ClaimInv, Environment
  PROVE  ClaimInv'
<1> USE DEF tracker, maps, intake, tick, goroutines
<1>1. CASE RequestDrain
  <2>1. UNCHANGED <<entry, claimed, retrying, draining, worker, timers>>
    BY <1>1 DEF RequestDrain
  <2>2. /\ Single(eventCh')
        /\ \A j \in Issues : /\ HasEvent("exit", j)' <=> HasEvent("exit", j)
                             /\ HasEvent("retry", j)' <=> HasEvent("retry", j)
    <3>1. CASE HasRoom
      <4>1. [kind |-> "drain"] \in Events
        BY DEF Events
      <4> QED BY <1>1, <3>1, <4>1, SendHas DEF RequestDrain
    <3>2. CASE ~HasRoom
      BY <1>1, <3>2, SameChannel DEF RequestDrain
    <3> QED BY <3>1, <3>2
  <2> QED BY <2>1, <2>2, QuietStep DEF Running
<1>2. CASE UpdateRuntime
  <2>1. PICK n \in Nat : Send([kind |-> "config", limit |-> n])
    BY <1>2, SchedulerAssumption DEF UpdateRuntime
  <2>2. [kind |-> "config", limit |-> n] \in Events
    BY DEF Events
  <2>3. /\ Single(eventCh')
        /\ \A j \in Issues : /\ HasEvent("exit", j)' <=> HasEvent("exit", j)
                             /\ HasEvent("retry", j)' <=> HasEvent("retry", j)
    BY <2>1, <2>2, SendHas DEF Send
  <2>4. UNCHANGED <<entry, claimed, retrying, draining, worker, timers>>
    BY <1>2 DEF UpdateRuntime
  <2> QED BY <2>3, <2>4, QuietStep DEF Running
<1>3. CASE Shutdown
  <2>1. UNCHANGED <<claimed, retrying, draining, worker, timers, eventCh>>
    BY <1>3 DEF Shutdown
  <2>2. "shutdown" \in StopReasons
    BY DEF StopReasons
  <2>3. \A i \in Running : entry[i] \in Entries /\ board[i] \in States
    BY DEF TypeOK, Running
  <2>4. \A i \in Running : Stopped(entry[i], "shutdown") \in Entries
    BY <2>2, <2>3, ReconciledType
  <2>5. Running' = Running
    BY <1>3, <2>4, SchedulerAssumption DEF Shutdown, Running
  <2> QED BY <2>1, <2>5, SameChannel, QuietStep
<1>4. CASE Restart
  <2>1. /\ entry' = [i \in Issues |-> NoEntry] /\ claimed' = {} /\ retrying' = {}
        /\ eventCh' = <<>> /\ worker' = [i \in Issues |-> NoState] /\ timers' = {}
    BY <1>4 DEF Restart, Nowhere
  <2>2. Running' = {}
    BY <2>1 DEF Running
  <2> QED BY <2>1, <2>2 DEF ClaimInv, ClaimsExact, WorkerBehindEntry, TimerBehindRetry,
                            HasEvent, Has, Single
<1>5. ASSUME NEW i \in Issues, HumanMoves(i) \/ HumanHolds(i)
      PROVE  ClaimInv'
  <2>1. UNCHANGED <<entry, claimed, retrying, draining, worker, timers, eventCh>>
    BY <1>5 DEF HumanMoves, HumanHolds
  <2> QED BY <2>1, SameChannel, QuietStep DEF Running
<1> QED BY <1>1, <1>2, <1>3, <1>4, <1>5 DEF Environment

(* The claim invariant is inductive relative to the types.                 *)
LEMMA ClaimStep == TypeOK /\ ClaimInv /\ [Next]_vars => ClaimInv'
<1> SUFFICES ASSUME TypeOK, ClaimInv, [Next]_vars PROVE ClaimInv'
  OBVIOUS
<1>1. CASE UNCHANGED vars
  <2>1. UNCHANGED <<entry, claimed, retrying, draining, worker, timers, eventCh>>
    BY <1>1 DEF vars
  <2> QED BY <2>1, SameChannel, QuietStep DEF Running
<1>2. CASE Next
  BY <1>2, TickClaims, EventClaims, GoroutineClaims, EnvironmentClaims DEF Next
<1> QED BY <1>1, <1>2

(* Every reachable state accounts for its claims, workers and timers.      *)
THEOREM ClaimInvariant == Spec => []ClaimInv
<1>1. Init => ClaimInv
  BY InitClaims
<1>2. TypeOK /\ ClaimInv /\ [Next]_vars => ClaimInv'
  BY ClaimStep
<1> QED BY <1>1, <1>2, TypeInvariant, PTL DEF Spec

(* A claimed issue is running or queued for a retry, never both.           *)
THEOREM ClaimsAreExact == Spec => []ClaimsExact
<1>1. ClaimInv => ClaimsExact
  BY DEF ClaimInv
<1> QED BY <1>1, ClaimInvariant, PTL

(* Every running entry has one live worker or its one exit event.          *)
THEOREM WorkersAreBehindEntries == Spec => []WorkerBehindEntry
<1>1. ClaimInv => WorkerBehindEntry
  BY DEF ClaimInv
<1> QED BY <1>1, ClaimInvariant, PTL

(* Every queued retry has one timer or its one event.                      *)
THEOREM TimersAreBehindRetries == Spec => []TimerBehindRetry
<1>1. ClaimInv => TimerBehindRetry
  BY DEF ClaimInv
<1> QED BY <1>1, ClaimInvariant, PTL

-----------------------------------------------------------------------------
(* Completed entries.                                                      *)

(* Every step that gives an issue a completed entry gives up its claim.    *)
LEMMA CompletedStep ==
  ASSUME TypeOK, ClaimInv, CompletedIsIdle, [Next]_vars
  PROVE  CompletedIsIdle'
<1> USE DEF tracker, maps, intake, tick, goroutines
<1>1. ASSUME claimed' \subseteq claimed,
             \A i \in Issues : completed'[i] \in {completed[i], NoState}
      PROVE  CompletedIsIdle'
  BY <1>1 DEF CompletedIsIdle, TypeOK
<1>2. ASSUME UNCHANGED <<claimed, completed>>
      PROVE  CompletedIsIdle'
  BY <1>2 DEF CompletedIsIdle
<1>3. ASSUME NEW i \in Issues, NEW s, Launch(i, s)
      PROVE  CompletedIsIdle'
  BY <1>3 DEF CompletedIsIdle, Launch, TypeOK
<1>4. CASE InsideTick
  <2>1. CASE TickPoll \/ TickThrottled \/ TickPollFailed \/ TickTrack \/ FollowUpsFull \/ TickDone
    BY <1>2, <2>1 DEF TickPoll, TickThrottled, TickPollFailed, TickTrack, FollowUpsFull, TickDone
  <2>2. CASE TickSync
    BY <1>1, <2>2 DEF TickSync, TypeOK
  <2>3. ASSUME NEW i \in Issues, VisitLaunch(i) \/ FollowUpLaunch(i)
        PROVE  CompletedIsIdle'
    BY <1>3, <2>3 DEF VisitLaunch, FollowUpLaunch
  <2>4. ASSUME NEW i \in Issues, VisitFull(i) \/ VisitSkip(i) \/ VisitGivenUp(i) \/ FollowUpSkip(i)
        PROVE  CompletedIsIdle'
    BY <1>1, <2>4 DEF VisitFull, VisitSkip, VisitGivenUp, FollowUpSkip, CompletedAfterCheck, TypeOK
  <2> QED BY <1>4, <2>1, <2>2, <2>3, <2>4 DEF InsideTick
<1>5. CASE HandleEvent
  <2>1. CASE HandleCodex \/ IgnoreLate \/ HandleConfig
    BY <1>2, <2>1 DEF HandleCodex, IgnoreLate, HandleConfig
  <2>2. CASE HandleDrain
    BY <1>1, <2>2 DEF HandleDrain
  <2>3. ASSUME NEW i \in Issues, HandleExit(i)
        PROVE  CompletedIsIdle'
    <3>1. i \in claimed /\ completed[i] = NoState
      BY <2>3 DEF HandleExit, ExitStopped, ExitStalled, ExitBlocked, ExitSucceeded, ExitFailed,
                  ExitOf, ClaimInv, ClaimsExact, CompletedIsIdle
    <3>2. CASE UNCHANGED completed
      <4>1. claimed' \subseteq claimed
        BY <2>3, <3>1 DEF HandleExit, ExitStopped, ExitStalled, ExitBlocked, ExitSucceeded,
                          ExitFailed, scheduleRetry, Unclaim
      <4> QED BY <1>1, <3>2, <4>1
    <3>3. CASE ~UNCHANGED completed
      <4>1. ExitSucceeded(i)
        BY <2>3, <3>3 DEF HandleExit, ExitStopped, ExitStalled, ExitBlocked, ExitFailed
      <4>2. claimed' = claimed \ {i} /\ \A j \in Issues : j # i => completed'[j] = completed[j]
        BY <3>3, <4>1 DEF ExitSucceeded, Unclaim, TypeOK
      <4> QED BY <4>2 DEF CompletedIsIdle, TypeOK
    <3> QED BY <3>2, <3>3
  <2>4. ASSUME NEW i \in Issues, HandleRetry(i)
        PROVE  CompletedIsIdle'
    <3>1. CASE RetryLaunch(i)
      BY <1>3, <3>1 DEF RetryLaunch
    <3>2. CASE RetryDropped(i) \/ RetryReleased(i)
      BY <1>1, <3>2 DEF RetryDropped, RetryReleased, CompletedAfterCheck, TypeOK
    <3>3. CASE RetryDeferred(i)
      <4>1. i \in claimed
        BY <3>3 DEF RetryDeferred, RetryOf, ClaimInv, ClaimsExact
      <4> QED BY <1>1, <3>3, <4>1 DEF RetryDeferred, scheduleRetry
    <3> QED BY <2>4, <3>1, <3>2, <3>3 DEF HandleRetry
  <2> QED BY <1>5, <2>1, <2>2, <2>3, <2>4 DEF HandleEvent
<1>6. CASE TickReconcile \/ Shutdown \/ RequestDrain \/ UpdateRuntime \/ UNCHANGED vars
  BY <1>2, <1>6 DEF TickReconcile, Shutdown, RequestDrain, UpdateRuntime, vars
<1>7. CASE Restart
  BY <1>7 DEF Restart, CompletedIsIdle, Nowhere
<1>8. ASSUME NEW i \in Issues, Goroutine(i) \/ HumanMoves(i) \/ HumanHolds(i)
      PROVE  CompletedIsIdle'
  BY <1>2, <1>8 DEF Goroutine, TimerFires, WorkerStarts, WorkerReports, WorkerFinishes,
                    HumanMoves, HumanHolds
<1> QED BY <1>4, <1>5, <1>6, <1>7, <1>8 DEF Next, Environment

(* No claimed issue has a completed entry, so none survives a run.         *)
THEOREM CompletedEntriesAreIdle == Spec => []CompletedIsIdle
<1>1. Init => CompletedIsIdle
  BY DEF Init, FreshProcess, CompletedIsIdle
<1>2. TypeOK /\ ClaimInv /\ CompletedIsIdle /\ [Next]_vars => CompletedIsIdle'
  BY CompletedStep
<1> QED BY <1>1, <1>2, TypeInvariant, ClaimInvariant, PTL DEF Spec

(* Only handoffs are remembered as completed: whatever a run reports, an   *)
(* active state never gates the dispatch of its issue.                     *)
THEOREM CompletedEntriesAreHandoffs == Spec => []CompletedIsHandoff
<1>1. NoState \notin ActiveStates
  BY ActiveStatesType, SchedulerAssumption
<1>2. Init => CompletedIsHandoff
  BY <1>1 DEF Init, FreshProcess, Nowhere, CompletedIsHandoff
<1>3. TypeOK /\ CompletedIsHandoff /\ [Next]_vars => CompletedIsHandoff'
  <2> SUFFICES ASSUME TypeOK, CompletedIsHandoff, [Next]_vars
               PROVE  CompletedIsHandoff'
    OBVIOUS
  <2> USE DEF tracker, maps, intake, tick, goroutines
  <2>1. CASE UNCHANGED completed
    BY <2>1 DEF CompletedIsHandoff
  <2>2. ASSUME NEW i \in Issues, NEW s, s \notin ActiveStates,
               completed' = [completed EXCEPT ![i] = s]
        PROVE  CompletedIsHandoff'
    BY <2>2 DEF CompletedIsHandoff, TypeOK
  <2>3. ASSUME NEW i \in Issues, NEW s, Launch(i, s)
        PROVE  CompletedIsHandoff'
    BY <1>1, <2>2, <2>3 DEF Launch
  <2>4. CASE InsideTick
    <3>1. CASE TickSync
      BY <1>1, <3>1 DEF TickSync, CompletedIsHandoff, TypeOK
    <3>2. ASSUME NEW i \in Issues, VisitLaunch(i) \/ FollowUpLaunch(i)
          PROVE  CompletedIsHandoff'
      BY <2>3, <3>2 DEF VisitLaunch, FollowUpLaunch
    <3>3. ASSUME NEW i \in Issues, VisitFull(i) \/ VisitSkip(i) \/ VisitGivenUp(i)
          PROVE  CompletedIsHandoff'
      BY <1>1, <2>1, <2>2, <3>3 DEF VisitFull, VisitSkip, VisitGivenUp, CompletedAfterCheck
    <3>4. CASE UNCHANGED completed
      BY <2>1, <3>4
    <3> QED BY <2>4, <3>1, <3>2, <3>3, <3>4
            DEF InsideTick, TickPoll, TickThrottled, TickPollFailed, TickTrack, FollowUpSkip,
                FollowUpsFull, TickDone
  <2>5. ASSUME NEW i \in Issues, HandleExit(i)
        PROVE  CompletedIsHandoff'
    <3>1. CASE ExitSucceeded(i)
      <4>1. ActiveStates \subseteq Dispatchable
        BY DEF Dispatchable
      <4> QED BY <2>1, <2>2, <3>1, <4>1 DEF ExitSucceeded
    <3>2. CASE ~ExitSucceeded(i)
      BY <2>1, <2>5, <3>2 DEF HandleExit, ExitStopped, ExitStalled, ExitBlocked, ExitFailed
    <3> QED BY <3>1, <3>2
  <2>6. ASSUME NEW i \in Issues, HandleRetry(i)
        PROVE  CompletedIsHandoff'
    <3>1. CASE RetryLaunch(i)
      BY <2>3, <3>1 DEF RetryLaunch
    <3>2. CASE RetryReleased(i)
      BY <1>1, <2>1, <2>2, <3>2 DEF RetryReleased, CompletedAfterCheck
    <3> QED BY <2>1, <2>6, <3>1, <3>2 DEF HandleRetry, RetryDropped, RetryDeferred
  <2>7. CASE Restart
    BY <1>1, <2>7 DEF Restart, Nowhere, CompletedIsHandoff
  <2>8. CASE UNCHANGED vars
    BY <2>1, <2>8 DEF vars
  <2>9. CASE TickReconcile \/ HandleCodex \/ IgnoreLate \/ HandleDrain \/ HandleConfig
    BY <2>1, <2>9 DEF TickReconcile, HandleCodex, IgnoreLate, HandleDrain, HandleConfig
  <2>10. ASSUME NEW i \in Issues, Goroutine(i) \/ HumanMoves(i) \/ HumanHolds(i)
         PROVE  CompletedIsHandoff'
    BY <2>1, <2>10 DEF Goroutine, TimerFires, WorkerStarts, WorkerReports, WorkerFinishes,
                       HumanMoves, HumanHolds
  <2>11. CASE RequestDrain \/ UpdateRuntime \/ Shutdown
    BY <2>1, <2>11 DEF RequestDrain, UpdateRuntime, Shutdown
  <2> QED BY <2>4, <2>5, <2>6, <2>7, <2>8, <2>9, <2>10, <2>11 DEF Next, HandleEvent, Environment
<1> QED BY <1>2, <1>3, TypeInvariant, PTL DEF Spec

-----------------------------------------------------------------------------
(* The refinement of IssueClaims.                                          *)

(* A drain is under way only after it was requested.                       *)
DrainRequested ==
  (draining \/ \E k \in 1 .. Len(eventCh) : eventCh[k].kind = "drain") => shutdownRequested

(* A drain event in the channel always follows the flag that announces it. *)
LEMMA DrainStep ==
  ASSUME TypeOK, DrainRequested, [Next]_vars
  PROVE  DrainRequested'
<1> USE DEF tracker, maps, intake, tick, goroutines
<1> DEFINE Carries(ch) == \E k \in 1 .. Len(ch) : ch[k].kind = "drain"
<1>1. ASSUME UNCHANGED <<draining, shutdownRequested>>, Carries(eventCh') => Carries(eventCh)
      PROVE  DrainRequested'
  BY <1>1 DEF DrainRequested
<1>2. ASSUME NEW kind, Receive(kind)
      PROVE  Carries(eventCh') => Carries(eventCh)
  <2>1. eventCh' = Tail(eventCh) /\ eventCh # <<>> /\ eventCh \in Seq(Events)
    BY <1>2 DEF Receive, TypeOK
  <2>2. \A k \in 1 .. Len(eventCh') : k + 1 \in 1 .. Len(eventCh) /\ eventCh'[k] = eventCh[k + 1]
    BY <2>1
  <2> QED BY <2>2
<1>3. ASSUME NEW e \in Events, Send(e), e.kind # "drain"
      PROVE  Carries(eventCh') => Carries(eventCh)
  <2>1. eventCh' = Append(eventCh, e) /\ eventCh \in Seq(Events)
    BY <1>3 DEF Send, TypeOK
  <2>2. \A k \in 1 .. Len(eventCh') :
          (k \in 1 .. Len(eventCh) /\ eventCh'[k] = eventCh[k]) \/ eventCh'[k] = e
    BY <2>1
  <2> QED BY <1>3, <2>2
<1>4. CASE TickReconcile \/ InsideTick
  BY <1>1, <1>4 DEF TickReconcile, InsideTick, TickPoll, TickThrottled, TickPollFailed, TickTrack, TickSync,
       FollowUpsFull, TickDone, VisitLaunch, VisitFull, VisitSkip, VisitGivenUp, FollowUpLaunch,
       FollowUpSkip
<1>5. CASE HandleEvent
  <2>1. CASE HandleDrain
    <3>1. draining' /\ shutdownRequested'
      BY <2>1 DEF HandleDrain, DrainRequested
    <3> QED BY <3>1 DEF DrainRequested
  <2>2. CASE HandleCodex \/ IgnoreLate \/ HandleConfig
    BY <1>1, <1>2, <2>2 DEF HandleCodex, IgnoreLate, HandleConfig
  <2>3. ASSUME NEW i \in Issues, HandleExit(i) \/ HandleRetry(i)
        PROVE  DrainRequested'
    <3>1. ExitOf(i) \/ RetryOf(i)
      BY <2>3 DEF HandleExit, ExitStopped, ExitStalled, ExitBlocked, ExitSucceeded, ExitFailed,
                  HandleRetry, RetryDropped, RetryDeferred, RetryReleased, RetryLaunch
    <3> QED BY <1>1, <1>2, <3>1 DEF ExitOf, RetryOf
  <2> QED BY <1>5, <2>1, <2>2, <2>3 DEF HandleEvent
<1>6. ASSUME NEW i \in Issues, Goroutine(i)
      PROVE  DrainRequested'
  <2>1. CASE TimerFires(i)
    <3>1. [kind |-> "retry", issue |-> i] \in Events
      BY DEF Events
    <3> QED BY <1>1, <1>3, <2>1, <3>1 DEF TimerFires
  <2>2. CASE WorkerStarts(i)
    BY <1>1, <2>2 DEF WorkerStarts
  <2>3. CASE WorkerReports(i)
    <3>1. PICK s \in States : Send([kind |-> "codex", issue |-> i, state |-> s])
      BY <2>3, NextActiveType, ActiveStatesType DEF TypeOK, WorkerReports
    <3>2. [kind |-> "codex", issue |-> i, state |-> s] \in Events
      BY DEF Events
    <3> QED BY <1>1, <1>3, <2>3, <3>1, <3>2 DEF WorkerReports
  <2>4. CASE WorkerFinishes(i)
    <3>1. PICK r \in Results(i) :
            Send([kind |-> "exit", issue |-> i, status |-> r.status, state |-> r.state])
      BY <2>4 DEF WorkerFinishes
    <3>2. [kind |-> "exit", issue |-> i, status |-> r.status, state |-> r.state] \in Events
      BY <2>4, ResultsType DEF Events, WorkerFinishes
    <3> QED BY <1>1, <1>3, <2>4, <3>1, <3>2 DEF WorkerFinishes
  <2> QED BY <1>6, <2>1, <2>2, <2>3, <2>4 DEF Goroutine
<1>7. CASE UpdateRuntime
  <2>1. PICK n \in Nat : Send([kind |-> "config", limit |-> n])
    BY <1>7, SchedulerAssumption DEF UpdateRuntime
  <2>2. [kind |-> "config", limit |-> n] \in Events
    BY DEF Events
  <2> QED BY <1>1, <1>3, <1>7, <2>1, <2>2 DEF UpdateRuntime
<1>8. CASE RequestDrain
  BY <1>8 DEF RequestDrain, DrainRequested
<1>9. CASE Restart
  BY <1>9 DEF Restart, DrainRequested
<1>10. CASE Shutdown \/ UNCHANGED vars
  BY <1>1, <1>10 DEF Shutdown, vars
<1>11. ASSUME NEW i \in Issues, HumanMoves(i) \/ HumanHolds(i)
       PROVE  DrainRequested'
  BY <1>1, <1>11 DEF HumanMoves, HumanHolds
<1> QED BY <1>4, <1>5, <1>6, <1>7, <1>8, <1>9, <1>10, <1>11 DEF Next, Environment

(* Whenever the loop drains, the shutdown flag is set.                     *)
LEMMA DrainInvariant == Spec => []DrainRequested
<1>1. Init => DrainRequested
  BY DEF Init, FreshProcess, DrainRequested
<1>2. TypeOK /\ DrainRequested /\ [Next]_vars => DrainRequested'
  BY DrainStep
<1> QED BY <1>1, <1>2, TypeInvariant, PTL DEF Spec

(* The abstract status, read off the maps.                                 *)
LEMMA StatusOf ==
  ASSUME ClaimsExact
  PROVE  /\ claimStatus = [i \in Issues |-> IF i \in Running THEN "running"
                                            ELSE IF i \in retrying THEN "retry_queued"
                                            ELSE "unclaimed"]
         /\ Claims!InStatus("running") = Running
<1>1. claimStatus = [i \in Issues |-> IF i \in Running THEN "running"
                                      ELSE IF i \in retrying THEN "retry_queued"
                                      ELSE "unclaimed"]
  BY DEF ClaimsExact, claimStatus
<1>2. Running \subseteq Issues
  BY DEF Running
<1> QED BY <1>1, <1>2 DEF Claims!InStatus

(* A step that changes no claim and no intake setting is a stutter.        *)
LEMMA ClaimsStutter ==
  ASSUME UNCHANGED <<claimed, worker, shutdownRequested, limit>>, Running' = Running
  PROVE  UNCHANGED Claims!vars
BY DEF Claims!vars, claimStatus, aliveWorkers

(* The abstract module counts as the scheduler does.                       *)
LEMMA SameCardinality == \A S : Claims!Cardinality(S) = Cardinality(S)
BY DEF Claims!Cardinality, Cardinality

(* A dispatch is Start.                                                    *)
LEMMA ClaimsStart ==
  ASSUME TypeOK, ClaimInv, ClaimInv', NEW i \in Issues, NEW s \in States, Launch(i, s),
         i \notin Running, worker[i] = NoState, acceptingNewWork, hasGlobalSlots,
         UNCHANGED <<shutdownRequested, limit>>
  PROVE  Claims!Start(i)
<1>1. ClaimsExact /\ ClaimsExact'
  BY DEF ClaimInv
<1>2. Running' = Running \cup {i}
  <2>1. [origin |-> s, state |-> s, stop |-> ""] \in Entries
    BY DEF Entries, StopReasons
  <2>2. [origin |-> s, state |-> s, stop |-> ""] # NoEntry
    BY <2>1, SchedulerAssumption
  <2> QED BY <2>2 DEF Running, Launch, TypeOK
<1>3. claimed' = claimed \cup {i} /\ aliveWorkers' = aliveWorkers \cup {i}
  <2>1. s # NoState
    BY SchedulerAssumption
  <2> QED BY <2>1 DEF Launch, TypeOK, aliveWorkers
<1>4. claimStatus' = [claimStatus EXCEPT ![i] = "running"]
  BY <1>2, <1>3 DEF claimStatus
<1>5. claimStatus[i] # "running" /\ i \notin aliveWorkers
  BY DEF claimStatus, aliveWorkers
<1>6. Claims!Cardinality(Claims!InStatus("running")) < limit
  BY <1>1, StatusOf, SameCardinality DEF hasGlobalSlots
<1>7. ~shutdownRequested /\ UNCHANGED <<~shutdownRequested, limit>>
  BY DEF acceptingNewWork
<1> QED BY <1>3, <1>4, <1>5, <1>6, <1>7 DEF Claims!Start

(* An exit event is Conclude.                                              *)
LEMMA ClaimsConclude ==
  ASSUME TypeOK, ClaimInv, NEW i \in Issues, HandleExit(i)
  PROVE  Claims!Conclude(i)
<1>1. ExitOf(i)
  BY DEF HandleExit, ExitStopped, ExitStalled, ExitBlocked, ExitSucceeded, ExitFailed
<1>2. /\ Receive("exit") /\ Head(eventCh).issue = i /\ i \in Running
      /\ UNCHANGED <<shutdownRequested, limit, worker>>
  BY <1>1 DEF ExitOf, intake
<1>3. Running' = Running \ {i}
  BY <1>1 DEF ExitOf, Running, TypeOK
<1>4. HasEvent("exit", i) /\ worker[i] = NoState
  BY <1>2, ReceiveHas DEF ClaimInv, WorkerBehindEntry
<1>5. i \in claimed
  BY <1>2 DEF ClaimInv, ClaimsExact
<1>6. claimed' = claimed \ {i} \/ claimed' = claimed
  BY <1>5 DEF HandleExit, ExitStopped, ExitStalled, ExitBlocked, ExitSucceeded, ExitFailed,
              Unclaim, scheduleRetry
<1>7. \/ claimStatus' = [claimStatus EXCEPT ![i] = "unclaimed"]
      \/ claimStatus' = [claimStatus EXCEPT ![i] = "retry_queued"]
  BY <1>3, <1>5, <1>6 DEF claimStatus
<1>8. claimStatus[i] = "running" /\ i \notin aliveWorkers /\ UNCHANGED aliveWorkers
  BY <1>2, <1>4, <1>5 DEF claimStatus, aliveWorkers
<1> QED BY <1>2, <1>7, <1>8 DEF Claims!Conclude

(* A retry event is Start, Release or, when deferred, a stutter.           *)
LEMMA ClaimsRetry ==
  ASSUME TypeOK, ClaimInv, ClaimInv', NEW i \in Issues, HandleRetry(i)
  PROVE  Claims!Start(i) \/ Claims!Release(i) \/ UNCHANGED Claims!vars
<1>1. RetryOf(i)
  BY DEF HandleRetry, RetryDropped, RetryDeferred, RetryReleased, RetryLaunch
<1>2. /\ Receive("retry") /\ Head(eventCh).issue = i /\ i \in retrying
      /\ UNCHANGED <<shutdownRequested, limit>>
  BY <1>1 DEF RetryOf, intake
<1>3. i \in claimed /\ i \notin Running /\ worker[i] = NoState
  BY <1>2 DEF ClaimInv, ClaimsExact, WorkerBehindEntry
<1>4. CASE RetryDropped(i) \/ RetryReleased(i)
  <2>1. claimed' = claimed \ {i} /\ UNCHANGED <<entry, worker>>
    BY <1>4 DEF RetryDropped, RetryReleased, goroutines
  <2>2. Running' = Running
    BY <2>1 DEF Running
  <2>3. claimStatus[i] = "retry_queued" /\ claimStatus' = [claimStatus EXCEPT ![i] = "unclaimed"]
    BY <1>3, <2>1, <2>2 DEF claimStatus
  <2> QED BY <1>2, <2>1, <2>3 DEF Claims!Release, aliveWorkers
<1>5. CASE RetryDeferred(i)
  <2>1. claimed' = claimed /\ UNCHANGED <<entry, worker>>
    BY <1>3, <1>5 DEF RetryDeferred, scheduleRetry
  <2> QED BY <1>2, <2>1, ClaimsStutter DEF Running
<1>6. CASE RetryLaunch(i)
  <2>1. /\ Launch(i, board[i]) /\ board[i] \in States
        /\ hasGlobalSlots /\ acceptingNewWork
    BY <1>6 DEF RetryLaunch, shouldDispatch, Eligible, MayRun, TypeOK
  <2> QED BY <1>2, <1>3, <2>1, ClaimsStart
<1> QED BY <1>4, <1>5, <1>6 DEF HandleRetry

(* The first process starts where the claim protocol starts.               *)
LEMMA ClaimsInit == Init => Claims!Init
<1> SUFFICES ASSUME Init PROVE Claims!Init
  OBVIOUS
<1>1. claimStatus = [i \in Issues |-> "unclaimed"] /\ aliveWorkers = {}
  BY DEF Init, FreshProcess, Nowhere, claimStatus, aliveWorkers
<1>2. limit \in Nat /\ ~shutdownRequested
  BY SchedulerAssumption DEF Init, FreshProcess
<1> QED BY <1>1, <1>2 DEF Claims!Init, Claims!AllUnclaimed

(* Every step of the scheduler is a step of the claim protocol or a stutter.*)
LEMMA ClaimsStep ==
  ASSUME TypeOK, TypeOK', ClaimInv, ClaimInv', DrainRequested, [Next]_vars
  PROVE  [Claims!Next]_(Claims!vars)
<1> USE DEF tracker, maps, intake, tick, goroutines
<1>1. CASE TickReconcile \/ Shutdown
  <2>1. UNCHANGED <<claimed, retrying, worker, shutdownRequested, limit>>
    BY <1>1 DEF TickReconcile, Shutdown
  <2>2. Running = claimed \ retrying /\ Running' = claimed' \ retrying'
    BY DEF ClaimInv, ClaimsExact
  <2> QED BY <2>1, <2>2, ClaimsStutter
<1>2. CASE InsideTick
  <2>1. ASSUME NEW i \in Issues, VisitLaunch(i) \/ FollowUpLaunch(i)
        PROVE  Claims!Start(i)
    <3>1. PICK s \in States : Launch(i, s)
      BY <2>1 DEF VisitLaunch, FollowUpLaunch, TypeOK
    <3>2. /\ Unclaimed(i) /\ acceptingNewWork /\ hasGlobalSlots
          /\ UNCHANGED <<shutdownRequested, limit>>
      BY <2>1 DEF VisitLaunch, FollowUpLaunch, FirstLook, shouldDispatch, Eligible, MayRun
    <3> QED BY <3>1, <3>2, UnclaimedHasNothing, ClaimsStart
  <2>2. CASE ~\E i \in Issues : VisitLaunch(i) \/ FollowUpLaunch(i)
    <3>1. UNCHANGED <<entry, claimed, worker, shutdownRequested, limit>>
      BY <1>2, <2>2 DEF InsideTick, TickPoll, TickThrottled, TickPollFailed, TickTrack, TickSync, FollowUpsFull,
           TickDone, VisitFull, VisitSkip, VisitGivenUp, FollowUpSkip
    <3> QED BY <3>1, ClaimsStutter DEF Running
  <2> QED BY <2>1, <2>2 DEF Claims!Next
<1>3. CASE HandleEvent
  <2>1. CASE HandleCodex \/ IgnoreLate
    <3>1. UNCHANGED <<claimed, retrying, worker, shutdownRequested, limit>>
      BY <2>1 DEF HandleCodex, IgnoreLate
    <3>2. Running = claimed \ retrying /\ Running' = claimed' \ retrying'
      BY DEF ClaimInv, ClaimsExact
    <3> QED BY <3>1, <3>2, ClaimsStutter
  <2>2. CASE HandleConfig
    <3>1. UNCHANGED <<entry, claimed, worker, shutdownRequested>> /\ limit' \in Nat
      BY <2>2 DEF HandleConfig, TypeOK
    <3> QED BY <3>1 DEF Claims!Next, Claims!Reload, claimStatus, aliveWorkers, Running
  <2>3. CASE HandleDrain
    <3>1. UNCHANGED <<entry, worker, limit>>
      BY <2>3 DEF HandleDrain
    <3>2. CASE draining
      BY <2>3, <3>1, <3>2, ClaimsStutter DEF HandleDrain, Running
    <3>3. CASE ~draining
      <4>1. shutdownRequested
        <5>1. eventCh \in Seq(Events) /\ eventCh # <<>> /\ Head(eventCh).kind = "drain"
          BY <2>3 DEF HandleDrain, Receive, TypeOK
        <5>2. 1 \in 1 .. Len(eventCh) /\ eventCh[1] = Head(eventCh)
          BY <5>1
        <5> QED BY <5>1, <5>2 DEF DrainRequested
      <4>2. claimed' = claimed \ retrying /\ shutdownRequested'
        BY <2>3, <3>3 DEF HandleDrain
      <4>3. Running' = Running
        BY <3>1 DEF Running
      <4>4. claimStatus' = [i \in Issues |-> IF claimStatus[i] = "retry_queued" THEN "unclaimed"
                                             ELSE claimStatus[i]]
        BY <4>2, <4>3 DEF claimStatus, ClaimInv, ClaimsExact
      <4>5. UNCHANGED aliveWorkers
        BY <3>1 DEF aliveWorkers
      <4> QED BY <3>1, <4>1, <4>2, <4>4, <4>5 DEF Claims!Next, Claims!Drain
    <3> QED BY <3>2, <3>3
  <2>4. ASSUME NEW i \in Issues, HandleExit(i) \/ HandleRetry(i)
        PROVE  [Claims!Next]_(Claims!vars)
    BY <2>4, ClaimsConclude, ClaimsRetry DEF Claims!Next
  <2> QED BY <1>3, <2>1, <2>2, <2>3, <2>4 DEF HandleEvent
<1>4. ASSUME NEW i \in Issues, Goroutine(i)
      PROVE  [Claims!Next]_(Claims!vars)
  <2>1. CASE WorkerFinishes(i)
    <3>1. /\ worker[i] # NoState /\ worker' = [worker EXCEPT ![i] = NoState]
          /\ UNCHANGED <<entry, claimed, shutdownRequested, limit>>
      BY <2>1 DEF WorkerFinishes
    <3>2. i \in Running /\ i \in claimed
      BY <3>1 DEF ClaimInv, ClaimsExact, WorkerBehindEntry
    <3>3. claimStatus[i] = "running" /\ UNCHANGED claimStatus
      BY <3>1, <3>2 DEF claimStatus, Running
    <3>4. i \in aliveWorkers /\ aliveWorkers' = aliveWorkers \ {i}
      BY <3>1 DEF aliveWorkers, TypeOK
    <3> QED BY <3>1, <3>3, <3>4 DEF Claims!Next, Claims!End
  <2>2. CASE TimerFires(i) \/ WorkerStarts(i) \/ WorkerReports(i)
    <3>1. UNCHANGED <<entry, claimed, worker, shutdownRequested, limit>>
      BY <2>2 DEF TimerFires, WorkerStarts, WorkerReports
    <3> QED BY <3>1, ClaimsStutter DEF Running
  <2> QED BY <1>4, <2>1, <2>2 DEF Goroutine
<1>5. CASE RequestDrain
  <2>1. UNCHANGED <<entry, claimed, worker, limit>> /\ shutdownRequested'
    BY <1>5 DEF RequestDrain
  <2> QED BY <2>1 DEF Claims!Next, Claims!RequestShutdown, claimStatus, aliveWorkers, Running
<1>6. CASE Restart
  <2>1. /\ claimed' = {} /\ ~shutdownRequested' /\ worker' = [i \in Issues |-> NoState]
        /\ limit' \in Nat
    BY <1>6, SchedulerAssumption DEF Restart, Nowhere
  <2>2. claimStatus' = [i \in Issues |-> "unclaimed"] /\ aliveWorkers' = {}
    BY <2>1 DEF claimStatus, aliveWorkers
  <2> QED BY <2>1, <2>2 DEF Claims!Next, Claims!Reset, Claims!AllUnclaimed
<1>7. CASE UpdateRuntime \/ UNCHANGED vars
  <2>1. UNCHANGED <<entry, claimed, worker, shutdownRequested, limit>>
    BY <1>7 DEF UpdateRuntime, vars
  <2> QED BY <2>1, ClaimsStutter DEF Running
<1>8. ASSUME NEW i \in Issues, HumanMoves(i) \/ HumanHolds(i)
      PROVE  UNCHANGED Claims!vars
  <2>1. UNCHANGED <<entry, claimed, worker, shutdownRequested, limit>>
    BY <1>8 DEF HumanMoves, HumanHolds
  <2> QED BY <2>1, ClaimsStutter DEF Running
<1> QED BY <1>1, <1>2, <1>3, <1>4, <1>5, <1>6, <1>7, <1>8 DEF Next, Environment

(* The scheduler implements the claim protocol.                            *)
THEOREM SchedulerImplementsClaims == Spec => ImplementsClaims
<1>1. Init => Claims!Init
  BY ClaimsInit
<1>2. /\ TypeOK /\ TypeOK' /\ ClaimInv /\ ClaimInv' /\ DrainRequested /\ [Next]_vars
      => [Claims!Next]_(Claims!vars)
  BY ClaimsStep
<1> QED BY <1>1, <1>2, TypeInvariant, ClaimInvariant, DrainInvariant, PTL
        DEF Spec, ImplementsClaims, Claims!Spec

-----------------------------------------------------------------------------
(***************************************************************************)
(* Merges are serialized, in a workflow with one merge state.  The slots   *)
(* of a state are counted by the state that an entry holds.  Codex events  *)
(* and reconciliation overwrite that state, so the count is right only     *)
(* because no event of an older run of the issue is left when a new one is *)
(* recorded, a merge run speaks of no other state, and an entry that is    *)
(* moved elsewhere is told to stop.                                        *)
(***************************************************************************)

(* The states that the events under way will write into the entry of i.    *)
Told(ch, i) ==
  {ch[k].state : k \in {n \in 1 .. Len(ch) : ch[n].kind = "codex" /\ ch[n].issue = i}}

(* The exit of a run is the last that is heard of it.                      *)
LastWord(ch) ==
  \A k, n \in 1 .. Len(ch) :
    ch[k].kind = "exit" /\ ch[n].kind = "codex" /\ ch[k].issue = ch[n].issue => n < k

Merging(m) == {i \in Running : entry[i].origin = m /\ entry[i].stop = ""}

SlotInv(m) ==
  /\ LastWord(eventCh)
  /\ \A i \in Issues : i \notin Running => Told(eventCh, i) = {}
  /\ \A i \in Issues : i \in Running =>
       /\ worker[i] # NoState => entry[i].origin = worker[i]
       /\ entry[i].origin = m =>
            Told(eventCh, i) \subseteq {m} /\ (entry[i].stop = "" => entry[i].state = m)

-----------------------------------------------------------------------------
(* The channel.                                                            *)

(* A send adds what it says, behind everything else.                       *)
LEMMA AppendTold ==
  ASSUME NEW ch \in Seq(Events), NEW e \in Events, LastWord(ch),
         e.kind = "codex" => ~Has(ch, "exit", e.issue)
  PROVE  /\ LastWord(Append(ch, e))
         /\ \A i : Told(Append(ch, e), i) \subseteq
                     Told(ch, i) \cup (IF e.kind = "codex" /\ e.issue = i THEN {e.state} ELSE {})
<1> DEFINE new == Append(ch, e)
<1>1. /\ Len(new) = Len(ch) + 1
      /\ \A k \in 1 .. Len(ch) : new[k] = ch[k]
      /\ new[Len(ch) + 1] = e
      /\ Len(ch) \in Nat
  OBVIOUS
<1> HIDE DEF new
<1>2. 1 .. Len(new) = (1 .. Len(ch)) \cup {Len(ch) + 1}
  BY <1>1
<1>3. LastWord(new)
  <2> SUFFICES ASSUME NEW k \in 1 .. Len(new), NEW n \in 1 .. Len(new),
                      new[k].kind = "exit", new[n].kind = "codex", new[k].issue = new[n].issue
               PROVE  n < k
    BY DEF LastWord
  <2>1. CASE k \in 1 .. Len(ch) /\ n \in 1 .. Len(ch)
    BY <1>1, <2>1 DEF LastWord
  <2>2. CASE k = Len(ch) + 1 /\ n \in 1 .. Len(ch)
    BY <1>1, <2>2
  <2>3. CASE k \in 1 .. Len(ch) /\ n = Len(ch) + 1
    BY <1>1, <2>3 DEF Has
  <2>4. CASE k = Len(ch) + 1 /\ n = Len(ch) + 1
    BY <2>4
  <2> QED BY <1>2, <2>1, <2>2, <2>3, <2>4
<1>4. ASSUME NEW i
      PROVE  Told(new, i) \subseteq
               Told(ch, i) \cup (IF e.kind = "codex" /\ e.issue = i THEN {e.state} ELSE {})
  <2> SUFFICES ASSUME NEW k \in 1 .. Len(new), new[k].kind = "codex", new[k].issue = i
               PROVE  \/ new[k].state \in Told(ch, i)
                      \/ e.kind = "codex" /\ e.issue = i /\ new[k].state = e.state
    BY DEF Told
  <2>1. CASE k \in 1 .. Len(ch)
    BY <1>1, <2>1 DEF Told
  <2>2. CASE k = Len(ch) + 1
    BY <1>1, <2>2
  <2> QED BY <1>2, <2>1, <2>2
<1> QED BY <1>3, <1>4 DEF new

(* Receiving takes the oldest event away; after an exit nothing is left.   *)
LEMMA TailTold ==
  ASSUME NEW ch \in Seq(Events), ch # <<>>, LastWord(ch)
  PROVE  /\ LastWord(Tail(ch))
         /\ \A i : Told(Tail(ch), i) \subseteq Told(ch, i)
         /\ Head(ch).kind = "exit" => Told(Tail(ch), Head(ch).issue) = {}
         /\ Head(ch).kind = "codex" => Head(ch).state \in Told(ch, Head(ch).issue)
<1> DEFINE old == Tail(ch)
<1>1. /\ Len(ch) \in Nat /\ Len(ch) > 0
      /\ Len(old) = Len(ch) - 1
      /\ \A k \in 1 .. Len(old) : old[k] = ch[k + 1]
      /\ Head(ch) = ch[1]
  OBVIOUS
<1> HIDE DEF old
<1>2. \A k \in 1 .. Len(old) : k + 1 \in 1 .. Len(ch) /\ k \in Nat
  BY <1>1
<1>3. LastWord(old)
  <2> SUFFICES ASSUME NEW k \in 1 .. Len(old), NEW n \in 1 .. Len(old),
                      old[k].kind = "exit", old[n].kind = "codex", old[k].issue = old[n].issue
               PROVE  n < k
    BY DEF LastWord
  <2>1. n + 1 < k + 1
    BY <1>1, <1>2 DEF LastWord
  <2> QED BY <1>2, <2>1
<1>4. \A i : Told(old, i) \subseteq Told(ch, i)
  BY <1>1, <1>2 DEF Told
<1>5. ASSUME Head(ch).kind = "exit" PROVE Told(old, Head(ch).issue) = {}
  <2> SUFFICES ASSUME NEW k \in 1 .. Len(old), old[k].kind = "codex", old[k].issue = Head(ch).issue
               PROVE  FALSE
    BY DEF Told
  <2>1. k + 1 < 1
    BY <1>1, <1>2, <1>5 DEF LastWord
  <2> QED BY <1>2, <2>1
<1>6. Head(ch).kind = "codex" => Head(ch).state \in Told(ch, Head(ch).issue)
  BY <1>1 DEF Told
<1> QED BY <1>3, <1>4, <1>5, <1>6 DEF old

-----------------------------------------------------------------------------
(* Steps that start no run.                                                *)

LEMMA SlotsKeep ==
  ASSUME NEW m, SlotInv(m), LastWord(eventCh'),
         \A i \in Issues : Told(eventCh', i) \subseteq Told(eventCh, i),
         \A i \in Issues : i \in Running /\ i \notin Running' => Told(eventCh', i) = {},
         \A i \in Issues : i \in Running' =>
           /\ i \in Running /\ entry'[i].origin = entry[i].origin
           /\ worker'[i] \in {worker[i], NoState}
           /\ entry'[i].stop = "" =>
                entry[i].stop = "" /\ (entry[i].origin = m => entry'[i].state = m)
  PROVE  SlotInv(m)' /\ Merging(m)' \subseteq Merging(m)
<1>1. Running \subseteq Issues /\ Running' \subseteq Issues
  BY DEF Running
<1>2. Merging(m)' \subseteq Merging(m)
  BY <1>1 DEF Merging
<1>3. SlotInv(m)'
  BY DEF SlotInv
<1> QED BY <1>2, <1>3

(* The entries and the workers stay, events are received or none.          *)
LEMMA QuietSlots ==
  ASSUME NEW m, TypeOK, SlotInv(m), UNCHANGED <<entry, worker>>,
         UNCHANGED eventCh \/ (eventCh # <<>> /\ eventCh' = Tail(eventCh))
  PROVE  SlotInv(m)' /\ Merging(m)' \subseteq Merging(m)
<1>1. LastWord(eventCh') /\ \A i \in Issues : Told(eventCh', i) \subseteq Told(eventCh, i)
  <2>1. eventCh \in Seq(Events) /\ LastWord(eventCh)
    BY DEF TypeOK, SlotInv
  <2>2. CASE eventCh' = eventCh
    BY <2>1, <2>2
  <2>3. CASE eventCh # <<>> /\ eventCh' = Tail(eventCh)
    BY <2>1, <2>3, TailTold
  <2> QED BY <2>2, <2>3
<1>2. Running' = Running
  BY DEF Running
<1> QED BY <1>1, <1>2, SlotsKeep DEF SlotInv

(* An event that says nothing about the state of an entry is sent.         *)
LEMMA SendSlots ==
  ASSUME NEW m, TypeOK, SlotInv(m), UNCHANGED entry,
         \A i \in Issues : worker'[i] \in {worker[i], NoState},
         NEW e \in Events, e.kind # "codex", eventCh' = Append(eventCh, e)
  PROVE  SlotInv(m)' /\ Merging(m)' \subseteq Merging(m)
<1>1. LastWord(eventCh') /\ \A i \in Issues : Told(eventCh', i) \subseteq Told(eventCh, i)
  BY AppendTold DEF TypeOK, SlotInv
<1>2. Running' = Running
  BY DEF Running
<1> QED BY <1>1, <1>2, SlotsKeep DEF SlotInv

-----------------------------------------------------------------------------
(* Steps that start a run.                                                 *)

(* A run is started only when fewer entries than the limit are in the      *)
(* state: those that merge are among them.                                 *)
LEMMA LaunchSlots ==
  ASSUME NEW m, IsFiniteSet(Issues), TypeOK, SlotInv(m), NEW i \in Issues, NEW s \in States,
         i \notin Running, Launch(i, s), hasStateSlots(s),
         UNCHANGED eventCh \/ (eventCh # <<>> /\ eventCh' = Tail(eventCh)),
         m \in DOMAIN StateLimit => Cardinality(Merging(m)) <= StateLimit[m]
  PROVE  SlotInv(m)' /\ (m \in DOMAIN StateLimit => Cardinality(Merging(m)') <= StateLimit[m])
<1>1. LastWord(eventCh') /\ \A j \in Issues : Told(eventCh', j) \subseteq Told(eventCh, j)
  <2>1. eventCh \in Seq(Events) /\ LastWord(eventCh)
    BY DEF TypeOK, SlotInv
  <2>2. CASE eventCh' = eventCh
    BY <2>1, <2>2
  <2>3. CASE eventCh # <<>> /\ eventCh' = Tail(eventCh)
    BY <2>1, <2>3, TailTold
  <2> QED BY <2>2, <2>3
<1>2. /\ entry' = [entry EXCEPT ![i] = [origin |-> s, state |-> s, stop |-> ""]]
      /\ worker' = [worker EXCEPT ![i] = s]
      /\ entry \in [Issues -> Entries \cup {NoEntry}] /\ worker \in [Issues -> States \cup {NoState}]
  BY DEF Launch, TypeOK
<1>3. /\ entry'[i].origin = s /\ entry'[i].state = s /\ worker'[i] = s
      /\ \A j \in Issues : j # i => entry'[j] = entry[j] /\ worker'[j] = worker[j]
  BY <1>2
<1>4. \A j \in Issues : j # i => (j \in Running' <=> j \in Running)
  BY <1>3 DEF Running
<1>5. Told(eventCh', i) = {}
  BY <1>1 DEF SlotInv
<1>6. SlotInv(m)'
  BY <1>1, <1>3, <1>4, <1>5 DEF SlotInv
<1>7. Merging(m)' \subseteq Merging(m) \cup (IF s = m THEN {i} ELSE {})
  BY <1>3, <1>4 DEF Merging, Running
<1>8. ASSUME m \in DOMAIN StateLimit PROVE Cardinality(Merging(m)') <= StateLimit[m]
  <2> DEFINE inState == {j \in Running : entry[j].state = m}
  <2>1. Running \subseteq Issues
    BY DEF Running
  <2>2. Merging(m) \subseteq inState /\ inState \subseteq Issues /\ Merging(m) \subseteq Issues
    BY <2>1 DEF Merging, SlotInv
  <2>3. IsFiniteSet(inState) /\ IsFiniteSet(Merging(m))
    BY <2>2, FS_Subset
  <2>4. /\ Cardinality(Merging(m)) <= Cardinality(inState)
        /\ Cardinality(Merging(m)) \in Nat /\ Cardinality(inState) \in Nat
    BY <2>2, <2>3, FS_Subset, FS_CardinalityType
  <2>5. StateLimit[m] \in Nat
    BY <1>8, SchedulerAssumption
  <2>6. CASE s # m
    <3>1. Merging(m)' \subseteq Merging(m)
      BY <1>7, <2>6
    <3>2. Cardinality(Merging(m)') <= Cardinality(Merging(m)) /\ Cardinality(Merging(m)') \in Nat
      BY <3>1, <2>3, FS_Subset, FS_CardinalityType
    <3> QED BY <3>2, <2>4, <2>5, <1>8
  <2>7. CASE s = m
    <3>1. Cardinality(inState) < StateLimit[m]
      BY <2>7, <1>8 DEF hasStateSlots
    <3>2. i \notin Merging(m)
      BY DEF Merging
    <3>3. IsFiniteSet(Merging(m) \cup {i}) /\ Cardinality(Merging(m) \cup {i}) = Cardinality(Merging(m)) + 1
      BY <2>3, <3>2, FS_AddElement
    <3>4. Merging(m)' \subseteq Merging(m) \cup {i}
      BY <1>7, <2>7
    <3>5. /\ Cardinality(Merging(m)') <= Cardinality(Merging(m)) + 1
          /\ Cardinality(Merging(m)') \in Nat
      BY <3>3, <3>4, FS_Subset, FS_CardinalityType
    <3> QED BY <2>4, <2>5, <3>1, <3>5
  <2> QED BY <2>6, <2>7
<1> QED BY <1>6, <1>8

-----------------------------------------------------------------------------
(* Every step.                                                             *)

Serial(m) == m \in DOMAIN StateLimit => Cardinality(Merging(m)) <= StateLimit[m]

LEMMA FewerMerges ==
  ASSUME NEW m, IsFiniteSet(Issues), Serial(m), Merging(m)' \subseteq Merging(m)
  PROVE  Serial(m)'
<1> SUFFICES ASSUME m \in DOMAIN StateLimit
             PROVE  Cardinality(Merging(m)') <= StateLimit[m]
  BY DEF Serial
<1>1. Merging(m) \subseteq Issues
  BY DEF Merging, Running
<1>2. IsFiniteSet(Merging(m)) /\ IsFiniteSet(Merging(m)')
  BY <1>1, FS_Subset
<1>3. /\ Cardinality(Merging(m)') <= Cardinality(Merging(m))
      /\ Cardinality(Merging(m)') \in Nat /\ Cardinality(Merging(m)) \in Nat
  BY <1>2, FS_Subset, FS_CardinalityType
<1>4. StateLimit[m] \in Nat
  BY SchedulerAssumption
<1> QED BY <1>3, <1>4 DEF Serial

(* Reconciliation may change what entries say, never what they started as; *)
(* a merge entry that it leaves running is still in the merge state.       *)
LEMMA ReconcileSlots ==
  ASSUME NEW m, MergeStates = {m}, m \notin PublishStates, TypeOK, SlotInv(m), TickReconcile
  PROVE  SlotInv(m)' /\ Merging(m)' \subseteq Merging(m)
<1>1. PICK stalled \in SUBSET {i \in Running : entry[i].stop = ""}, fetched \in SUBSET Running :
        entry' = [i \in Issues |->
                    LET e == IF i \in stalled THEN Stopped(entry[i], "stalled") ELSE entry[i]
                    IN IF i \in fetched THEN Reconciled(e, board[i]) ELSE e]
  BY DEF TickReconcile
<1>2. UNCHANGED <<worker, eventCh>>
  BY DEF TickReconcile, goroutines
<1>3. \A e \in Entries, r \in StopReasons :
        /\ Stopped(e, r) \in Entries /\ Stopped(e, r).origin = e.origin
        /\ r # "" => Stopped(e, r).stop # ""
        /\ Stopped(e, r).stop = "" => e.stop = ""
        /\ Stopped(e, r).state = e.state
  BY DEF Stopped, Entries
<1>4. \A r \in {"terminal", "released", "stalled"} : r \in StopReasons /\ r # ""
  BY DEF StopReasons
<1>5. ASSUME NEW e \in Entries, NEW s \in States
      PROVE  /\ Reconciled(e, s).origin = e.origin
             /\ Reconciled(e, s).stop = "" => e.stop = ""
             /\ Reconciled(e, s).stop = "" /\ e.origin = m => Reconciled(e, s).state = m
  <2> DEFINE seen == [e EXCEPT !.state = s]
  <2>1. seen \in Entries /\ seen.origin = e.origin /\ seen.stop = e.stop /\ seen.state = s
    BY DEF Entries
  <2>a. ASSUME NEW r \in {"terminal", "released"}
        PROVE  Stopped(seen, r).origin = seen.origin /\ Stopped(seen, r).stop # ""
    <3> HIDE DEF seen
    <3>1. r \in StopReasons /\ r # ""
      BY <1>4
    <3> QED BY <1>3, <2>1, <3>1
  <2>2. CASE s \in TerminalStates
    <3>1. Reconciled(e, s) = Stopped(seen, "terminal")
      BY <2>2 DEF Reconciled
    <3> HIDE DEF seen
    <3>2. Reconciled(e, s).origin = seen.origin /\ Reconciled(e, s).stop # ""
      BY <2>1, <2>a, <3>1
    <3> QED BY <2>1, <3>2
  <2>3. CASE s \notin Dispatchable \cup TerminalStates
    <3>1. Reconciled(e, s) = Stopped(seen, "released")
      BY <2>3 DEF Reconciled
    <3> HIDE DEF seen
    <3>2. Reconciled(e, s).origin = seen.origin /\ Reconciled(e, s).stop # ""
      BY <2>1, <2>a, <3>1
    <3> QED BY <2>1, <3>2
  <2>4. CASE s \in Dispatchable \ TerminalStates
    <3>1. Reconciled(e, s) = IF RunType(e.origin) # RunType(s) THEN Stopped(seen, "released") ELSE seen
      BY <2>4 DEF Reconciled
    <3>2. RunType(m) = "merge" /\ (RunType(s) = "merge" => s = m)
      BY DEF RunType
    <3>3. CASE RunType(e.origin) # RunType(s)
      <4>1. Reconciled(e, s) = Stopped(seen, "released")
        BY <3>1, <3>3
      <4> HIDE DEF seen
      <4>2. Reconciled(e, s).origin = seen.origin /\ Reconciled(e, s).stop # ""
        BY <2>1, <2>a, <4>1
      <4> QED BY <2>1, <4>2
    <3>4. CASE RunType(e.origin) = RunType(s)
      BY <2>1, <3>1, <3>2, <3>4
    <3> QED BY <3>3, <3>4
  <2> QED BY <2>2, <2>3, <2>4
<1>6. ASSUME NEW i \in Issues
      PROVE  /\ i \in Running' <=> i \in Running
             /\ i \in Running =>
                  /\ entry'[i].origin = entry[i].origin
                  /\ entry'[i].stop = "" =>
                       entry[i].stop = "" /\ (entry[i].origin = m => entry'[i].state = m)
  <2>1. CASE i \notin Running
    <3>1. i \notin stalled /\ i \notin fetched
      BY <2>1
    <3> QED BY <1>1, <2>1, <3>1 DEF Running
  <2>2. CASE i \in Running
    <3> DEFINE e == IF i \in stalled THEN Stopped(entry[i], "stalled") ELSE entry[i]
    <3>1. entry[i] \in Entries /\ board[i] \in States
      BY <2>2 DEF TypeOK, Running
    <3>2. /\ e \in Entries /\ e.origin = entry[i].origin /\ e.state = entry[i].state
          /\ e.stop = "" => entry[i].stop = ""
      BY <1>3, <1>4, <3>1
    <3>3. entry'[i] = IF i \in fetched THEN Reconciled(e, board[i]) ELSE e
      BY <1>1
    <3>4. Reconciled(e, board[i]) \in Entries
      BY <3>1, <3>2, ReconciledType DEF StopReasons
    <3>5. i \in Running'
      BY <3>2, <3>3, <3>4, SchedulerAssumption DEF Running
    <3>6. CASE i \in fetched
      <4>1. entry'[i] = Reconciled(e, board[i])
        BY <3>3, <3>6
      <4> HIDE DEF e
      <4> QED BY <1>5, <2>2, <3>1, <3>2, <3>5, <4>1
    <3>7. CASE i \notin fetched
      <4>1. entry'[i] = e
        BY <3>3, <3>7
      <4> HIDE DEF e
      <4> QED BY <2>2, <3>2, <3>5, <4>1 DEF SlotInv
    <3> QED BY <3>6, <3>7
  <2> QED BY <2>1, <2>2
<1>7. LastWord(eventCh') /\ \A i \in Issues : Told(eventCh', i) \subseteq Told(eventCh, i)
  BY <1>2 DEF SlotInv
<1> QED BY <1>2, <1>6, <1>7, SlotsKeep

(* A Codex event is of the run whose entry it finds.                       *)
LEMMA CodexSlots ==
  ASSUME NEW m, TypeOK, SlotInv(m), HandleCodex
  PROVE  SlotInv(m)' /\ Merging(m)' \subseteq Merging(m)
<1> DEFINE e == Head(eventCh)
<1>1. /\ eventCh # <<>> /\ e.kind = "codex" /\ eventCh' = Tail(eventCh) /\ UNCHANGED worker
      /\ entry' = IF e.issue \in Running THEN [entry EXCEPT ![e.issue].state = e.state] ELSE entry
  BY DEF HandleCodex, Receive, goroutines
<1>2. /\ LastWord(eventCh')
      /\ \A i \in Issues : Told(eventCh', i) \subseteq Told(eventCh, i)
      /\ e.state \in Told(eventCh, e.issue)
  BY <1>1, TailTold DEF TypeOK, SlotInv
<1>a. e \in Events
  BY <1>1 DEF TypeOK
<1>b. e.state \in States
  BY <1>1, <1>a DEF Events
<1> HIDE DEF e
<1>3. ASSUME NEW i \in Issues
      PROVE  /\ i \in Running' <=> i \in Running
             /\ i \in Running =>
                  /\ entry'[i].origin = entry[i].origin /\ entry'[i].stop = entry[i].stop
                  /\ entry[i].stop = "" /\ entry[i].origin = m => entry'[i].state = m
  <2>1. CASE e.issue \in Running /\ i = e.issue
    <3>1. entry[i] \in Entries
      BY <2>1 DEF TypeOK, Running
    <3>2. entry'[i] = [entry[i] EXCEPT !.state = e.state]
      BY <1>1, <2>1 DEF TypeOK
    <3>3. /\ entry'[i] \in Entries /\ entry'[i].origin = entry[i].origin
          /\ entry'[i].stop = entry[i].stop /\ entry'[i].state = e.state
      BY <1>b, <3>1, <3>2 DEF Entries
    <3>4. entry[i].origin = m => e.state = m
      BY <1>2, <2>1 DEF SlotInv
    <3> QED BY <2>1, <3>3, <3>4, SchedulerAssumption DEF Running
  <2>2. CASE ~(e.issue \in Running /\ i = e.issue)
    <3>1. entry'[i] = entry[i]
      BY <1>1, <2>2 DEF TypeOK
    <3> QED BY <3>1 DEF Running, SlotInv
  <2> QED BY <2>1, <2>2
<1> QED BY <1>1, <1>2, <1>3, SlotsKeep

(* With its exit, all that was said of a run has been heard.               *)
LEMMA ExitSlots ==
  ASSUME NEW m, TypeOK, SlotInv(m), NEW i \in Issues, ExitOf(i)
  PROVE  SlotInv(m)' /\ Merging(m)' \subseteq Merging(m)
<1>1. /\ eventCh # <<>> /\ eventCh' = Tail(eventCh) /\ UNCHANGED worker
      /\ Head(eventCh).kind = "exit" /\ Head(eventCh).issue = i
      /\ entry' = [entry EXCEPT ![i] = NoEntry]
  BY DEF ExitOf, Receive
<1>2. eventCh \in Seq(Events) /\ LastWord(eventCh)
  BY DEF TypeOK, SlotInv
<1>3. /\ LastWord(eventCh')
      /\ \A j \in Issues : Told(eventCh', j) \subseteq Told(eventCh, j)
      /\ Told(eventCh', i) = {}
  BY <1>1, <1>2, TailTold
<1>4. entry'[i] = NoEntry /\ \A j \in Issues : j # i => entry'[j] = entry[j]
  BY <1>1 DEF TypeOK
<1>5. \A j \in Issues : j \in Running' <=> j \in Running /\ j # i
  BY <1>4 DEF Running
<1>6. ASSUME NEW j \in Issues, j \in Running'
      PROVE  /\ j \in Running /\ entry'[j].origin = entry[j].origin /\ worker'[j] = worker[j]
             /\ entry'[j].stop = "" =>
                  entry[j].stop = "" /\ (entry[j].origin = m => entry'[j].state = m)
  <2>1. j \in Running /\ entry'[j] = entry[j]
    BY <1>4, <1>5, <1>6
  <2> QED BY <1>1, <2>1 DEF SlotInv
<1>7. \A j \in Issues : j \in Running /\ j \notin Running' => Told(eventCh', j) = {}
  BY <1>3, <1>5
<1> QED BY <1>3, <1>6, <1>7, SlotsKeep

(* A merge worker reports the one state it was dispatched in.              *)
LEMMA ReportSlots ==
  ASSUME NEW m, MergeStates = {m}, m \notin PublishStates, TypeOK, ClaimInv, SlotInv(m),
         NEW i \in Issues, WorkerReports(i)
  PROVE  SlotInv(m)' /\ Merging(m)' \subseteq Merging(m)
<1>1. worker[i] # NoState /\ UNCHANGED <<entry, worker>>
  BY DEF WorkerReports, maps, goroutines
<1>2. PICK s \in {worker[i]} \cup (IF RunType(worker[i]) = "coding" /\ i \notin starting
                                  THEN {board[i]} \cup NextActive(worker[i]) ELSE {}) :
        Send([kind |-> "codex", issue |-> i, state |-> s])
  BY DEF WorkerReports
<1> DEFINE e == [kind |-> "codex", issue |-> i, state |-> s]
<1>3. s \in States
  BY <1>1, <1>2, NextActiveType, ActiveStatesType DEF TypeOK
<1>4. /\ e \in Events /\ e.kind = "codex" /\ e.issue = i /\ e.state = s
      /\ eventCh' = Append(eventCh, e)
  BY <1>2, <1>3 DEF Events, Send
<1>5. i \in Running /\ ~Has(eventCh, "exit", i)
  BY <1>1 DEF ClaimInv, WorkerBehindEntry, HasEvent
<1>6. eventCh \in Seq(Events) /\ LastWord(eventCh)
  BY DEF TypeOK, SlotInv
<1>7. /\ LastWord(eventCh')
      /\ \A j \in Issues : Told(eventCh', j) \subseteq Told(eventCh, j) \cup (IF j = i THEN {s} ELSE {})
  <2> HIDE DEF e
  <2>1. /\ LastWord(Append(eventCh, e))
        /\ \A j : Told(Append(eventCh, e), j) \subseteq
                    Told(eventCh, j) \cup (IF e.kind = "codex" /\ e.issue = j THEN {e.state} ELSE {})
    BY <1>4, <1>5, <1>6, AppendTold
  <2> QED BY <1>4, <2>1
<1>8. entry[i].origin = m => s = m
  <2>1. RunType(m) = "merge"
    BY DEF RunType
  <2> QED BY <1>1, <1>2, <1>5, <2>1 DEF SlotInv
<1>9. Running' = Running /\ Merging(m)' = Merging(m)
  BY <1>1 DEF Running, Merging
<1>10. ASSUME NEW j \in Issues, j # i PROVE Told(eventCh', j) \subseteq Told(eventCh, j)
  BY <1>7, <1>10
<1>11. Told(eventCh', i) \subseteq Told(eventCh, i) \cup {s}
  BY <1>7
<1>12. SlotInv(m)'
  BY <1>1, <1>5, <1>7, <1>8, <1>9, <1>10, <1>11 DEF SlotInv
<1> QED BY <1>9, <1>12

(* A worker's exit, a timer and a reload say nothing of states.            *)
LEMMA GoroutineSlots ==
  ASSUME NEW m, MergeStates = {m}, m \notin PublishStates, TypeOK, ClaimInv, SlotInv(m),
         NEW i \in Issues, Goroutine(i)
  PROVE  SlotInv(m)' /\ Merging(m)' \subseteq Merging(m)
<1>1. CASE TimerFires(i)
  <2> DEFINE e == [kind |-> "retry", issue |-> i]
  <2>1. e \in Events /\ e.kind # "codex" /\ eventCh' = Append(eventCh, e)
    BY <1>1 DEF TimerFires, Send, Events
  <2>2. UNCHANGED <<entry, worker>>
    BY <1>1 DEF TimerFires, maps
  <2> HIDE DEF e
  <2> QED BY <2>1, <2>2, SendSlots
<1>2. CASE WorkerStarts(i)
  BY <1>2, QuietSlots DEF WorkerStarts, maps
<1>3. CASE WorkerReports(i)
  BY <1>3, ReportSlots
<1>4. CASE WorkerFinishes(i)
  <2>1. PICK r \in Results(i) :
          Send([kind |-> "exit", issue |-> i, status |-> r.status, state |-> r.state])
    BY <1>4 DEF WorkerFinishes
  <2> DEFINE e == [kind |-> "exit", issue |-> i, status |-> r.status, state |-> r.state]
  <2>2. worker[i] \in States
    BY <1>4 DEF WorkerFinishes, TypeOK
  <2>3. r.status \in Statuses /\ r.state \in States
    <3>1. worker[i] # NoState
      BY <1>4 DEF WorkerFinishes
    <3> QED BY <3>1, ResultsType
  <2>4. e \in Events /\ e.kind # "codex" /\ eventCh' = Append(eventCh, e)
    BY <2>1, <2>3 DEF Events, Send
  <2>5. UNCHANGED entry /\ \A j \in Issues : worker'[j] \in {worker[j], NoState}
    BY <1>4 DEF WorkerFinishes, maps, TypeOK
  <2> HIDE DEF e
  <2> QED BY <2>4, <2>5, SendSlots
<1> QED BY <1>1, <1>2, <1>3, <1>4 DEF Goroutine

LEMMA EnvironmentSlots ==
  ASSUME NEW m, TypeOK, SlotInv(m), Environment, ~Restart
  PROVE  SlotInv(m)' /\ Merging(m)' \subseteq Merging(m)
<1>1. CASE RequestDrain
  <2>1. UNCHANGED <<entry, worker>>
    BY <1>1 DEF RequestDrain, maps, goroutines
  <2>2. CASE eventCh' = eventCh
    BY <2>1, <2>2, QuietSlots
  <2>3. CASE eventCh' = Append(eventCh, [kind |-> "drain"])
    <3>1. [kind |-> "drain"] \in Events /\ [kind |-> "drain"].kind # "codex"
      BY DEF Events
    <3> QED BY <2>1, <2>3, <3>1, SendSlots
  <2> QED BY <1>1, <2>2, <2>3 DEF RequestDrain
<1>2. CASE UpdateRuntime
  <2>1. PICK n \in Limits \ {limit} : Send([kind |-> "config", limit |-> n])
    BY <1>2 DEF UpdateRuntime
  <2> DEFINE e == [kind |-> "config", limit |-> n]
  <2>2. e \in Events /\ e.kind # "codex" /\ eventCh' = Append(eventCh, e)
    BY <2>1, SchedulerAssumption DEF Events, Send
  <2>3. UNCHANGED <<entry, worker>>
    BY <1>2 DEF UpdateRuntime, maps, goroutines
  <2> HIDE DEF e
  <2> QED BY <2>2, <2>3, SendSlots
<1>3. CASE Shutdown
  <2>1. /\ UNCHANGED <<worker, eventCh>>
        /\ entry' = [i \in Issues |-> IF i \in Running THEN Stopped(entry[i], "shutdown") ELSE NoEntry]
    BY <1>3 DEF Shutdown, goroutines
  <2>2. \A e \in Entries :
          /\ Stopped(e, "shutdown") \in Entries /\ Stopped(e, "shutdown").origin = e.origin
          /\ Stopped(e, "shutdown").stop # ""
    BY DEF Stopped, Entries, StopReasons
  <2>3. ASSUME NEW i \in Issues
        PROVE  /\ i \in Running' <=> i \in Running
               /\ i \in Running => entry'[i].origin = entry[i].origin /\ entry'[i].stop # ""
    <3>1. CASE i \in Running
      <4>1. entry[i] \in Entries /\ entry'[i] = Stopped(entry[i], "shutdown")
        BY <2>1, <3>1 DEF TypeOK, Running
      <4> QED BY <2>2, <3>1, <4>1, SchedulerAssumption DEF Running
    <3>2. CASE i \notin Running
      BY <2>1, <3>2 DEF Running
    <3> QED BY <3>1, <3>2
  <2>4. LastWord(eventCh') /\ \A i \in Issues : Told(eventCh', i) \subseteq Told(eventCh, i)
    BY <2>1 DEF SlotInv
  <2> QED BY <2>1, <2>3, <2>4, SlotsKeep
<1>4. CASE \E i \in Issues : HumanMoves(i) \/ HumanHolds(i)
  <2>1. UNCHANGED <<entry, worker, eventCh>>
    BY <1>4 DEF HumanMoves, HumanHolds, maps, goroutines
  <2> QED BY <2>1, QuietSlots
<1> QED BY <1>1, <1>2, <1>3, <1>4 DEF Environment

(* The loop dispatches in three places; everywhere else it only reads.     *)
LEMMA LoopSlots ==
  ASSUME NEW m, MergeStates = {m}, m \notin PublishStates, IsFiniteSet(Issues),
         TypeOK, ClaimInv, SlotInv(m), Serial(m), TickReconcile \/ InsideTick \/ HandleEvent
  PROVE  SlotInv(m)' /\ Serial(m)'
<1>a. ASSUME SlotInv(m)' /\ Merging(m)' \subseteq Merging(m)
      PROVE  SlotInv(m)' /\ Serial(m)'
  BY <1>a, FewerMerges
<1>b. ASSUME UNCHANGED <<entry, worker>>,
             UNCHANGED eventCh \/ (eventCh # <<>> /\ eventCh' = Tail(eventCh))
      PROVE  SlotInv(m)' /\ Serial(m)'
  BY <1>b, <1>a, QuietSlots
<1>c. ASSUME NEW i \in Issues, NEW s \in States, i \notin Running, Launch(i, s), hasStateSlots(s),
             UNCHANGED eventCh \/ (eventCh # <<>> /\ eventCh' = Tail(eventCh))
      PROVE  SlotInv(m)' /\ Serial(m)'
  BY <1>c, LaunchSlots DEF Serial
<1>1. CASE TickReconcile
  BY <1>1, <1>a, ReconcileSlots
<1>2. CASE InsideTick
  <2>1. CASE TickPoll \/ TickThrottled \/ TickPollFailed \/ TickTrack \/ TickSync \/ FollowUpsFull \/ TickDone
    BY <2>1, <1>b DEF TickPoll, TickThrottled, TickPollFailed, TickTrack, TickSync, FollowUpsFull,
                      TickDone, maps, goroutines
  <2>2. ASSUME NEW i \in Issues, VisitFull(i) \/ VisitSkip(i) \/ VisitGivenUp(i) \/ FollowUpSkip(i)
        PROVE  SlotInv(m)' /\ Serial(m)'
    BY <2>2, <1>b DEF VisitFull, VisitSkip, VisitGivenUp, FollowUpSkip, maps, goroutines
  <2>3. ASSUME NEW i \in Issues, VisitLaunch(i)
        PROVE  SlotInv(m)' /\ Serial(m)'
    <3>1. Launch(i, board[i]) /\ i \notin Running /\ hasStateSlots(board[i]) /\ UNCHANGED eventCh
      BY <2>3 DEF VisitLaunch, FirstLook, Unclaimed, Eligible
    <3>2. board[i] \in States
      BY DEF TypeOK
    <3> QED BY <3>1, <3>2, <1>c
  <2>4. ASSUME NEW i \in Issues, FollowUpLaunch(i)
        PROVE  SlotInv(m)' /\ Serial(m)'
    <3>1. Launch(i, pending[i]) /\ i \notin Running /\ hasStateSlots(pending[i]) /\ UNCHANGED eventCh
      BY <2>4 DEF FollowUpLaunch, Unclaimed, shouldDispatch, Eligible
    <3>2. pending[i] \in States
      BY <2>4 DEF TypeOK, FollowUpLaunch
    <3> QED BY <3>1, <3>2, <1>c
  <2> QED BY <1>2, <2>1, <2>2, <2>3, <2>4 DEF InsideTick
<1>3. CASE HandleEvent
  <2>1. CASE HandleCodex
    BY <2>1, <1>a, CodexSlots
  <2>2. CASE IgnoreLate \/ HandleDrain \/ HandleConfig
    BY <2>2, <1>b DEF IgnoreLate, HandleDrain, HandleConfig, Receive, maps, goroutines
  <2>3. ASSUME NEW i \in Issues, HandleExit(i)
        PROVE  SlotInv(m)' /\ Serial(m)'
    <3>1. ExitOf(i)
      BY <2>3 DEF HandleExit, ExitStopped, ExitStalled, ExitBlocked, ExitSucceeded, ExitFailed
    <3> QED BY <3>1, <1>a, ExitSlots
  <2>4. ASSUME NEW i \in Issues, RetryDropped(i) \/ RetryDeferred(i) \/ RetryReleased(i)
        PROVE  SlotInv(m)' /\ Serial(m)'
    BY <2>4, <1>b DEF RetryDropped, RetryDeferred, RetryReleased, RetryOf, Receive, goroutines
  <2>5. ASSUME NEW i \in Issues, RetryLaunch(i)
        PROVE  SlotInv(m)' /\ Serial(m)'
    <3>1. /\ Launch(i, board[i]) /\ i \in retrying /\ hasStateSlots(board[i])
          /\ eventCh # <<>> /\ eventCh' = Tail(eventCh)
      BY <2>5 DEF RetryLaunch, RetryOf, Receive, shouldDispatch, Eligible
    <3>2. i \notin Running
      BY <3>1 DEF ClaimInv, ClaimsExact
    <3>3. board[i] \in States
      BY DEF TypeOK
    <3> QED BY <3>1, <3>2, <3>3, <1>c
  <2> QED BY <1>3, <2>1, <2>2, <2>3, <2>4, <2>5 DEF HandleEvent, HandleRetry
<1> QED BY <1>1, <1>2, <1>3

LEMMA FreshSlots ==
  ASSUME NEW m, entry = [i \in Issues |-> NoEntry], eventCh = <<>>
  PROVE  SlotInv(m) /\ Serial(m)
<1>1. Running = {} /\ Merging(m) = {}
  BY DEF Running, Merging
<1>2. LastWord(eventCh) /\ \A i : Told(eventCh, i) = {}
  BY DEF LastWord, Told
<1>3. Cardinality({}) = 0
  BY FS_EmptySet
<1>4. m \in DOMAIN StateLimit => StateLimit[m] \in Nat
  BY SchedulerAssumption
<1> QED BY <1>1, <1>2, <1>3, <1>4 DEF SlotInv, Serial

LEMMA RestartSlots ==
  ASSUME NEW m, Restart
  PROVE  SlotInv(m)' /\ Serial(m)'
<1>1. entry' = [i \in Issues |-> NoEntry] /\ eventCh' = <<>>
  BY DEF Restart
<1>2. Running' = {} /\ Merging(m)' = {}
  BY <1>1 DEF Running, Merging
<1>3. LastWord(eventCh') /\ \A i : Told(eventCh', i) = {}
  BY <1>1 DEF LastWord, Told
<1>4. Cardinality({}) = 0
  BY FS_EmptySet
<1>5. m \in DOMAIN StateLimit => StateLimit[m] \in Nat
  BY SchedulerAssumption
<1> QED BY <1>2, <1>3, <1>4, <1>5 DEF SlotInv, Serial

(* The one merge state has no more merge runs than its limit, none of them *)
(* told to stop, at any time and after any number of restarts.             *)
THEOREM MergesAreSerialized ==
  ASSUME NEW m, MergeStates = {m}, m \notin PublishStates, IsFiniteSet(Issues)
  PROVE  Spec => []MergeSerialized
<1>1. Init => SlotInv(m) /\ Serial(m)
  BY FreshSlots DEF Init, FreshProcess
<1>2. TypeOK /\ ClaimInv /\ SlotInv(m) /\ Serial(m) /\ [Next]_vars => SlotInv(m)' /\ Serial(m)'
  <2> SUFFICES ASSUME TypeOK, ClaimInv, SlotInv(m), Serial(m), [Next]_vars
               PROVE  SlotInv(m)' /\ Serial(m)'
    OBVIOUS
  <2>1. CASE TickReconcile \/ InsideTick \/ HandleEvent
    BY <2>1, LoopSlots
  <2>2. CASE \E i \in Issues : Goroutine(i)
    BY <2>2, GoroutineSlots, FewerMerges
  <2>3. CASE Environment
    BY <2>3, EnvironmentSlots, RestartSlots, FewerMerges
  <2>4. CASE UNCHANGED vars
    BY <2>4, QuietSlots, FewerMerges DEF vars
  <2> QED BY <2>1, <2>2, <2>3, <2>4 DEF Next
<1>3. SlotInv(m) /\ Serial(m) => MergeSerialized
  BY DEF Serial, Merging, MergeSerialized
<1> QED BY <1>1, <1>2, <1>3, TypeInvariant, ClaimInvariant, PTL DEF Spec
=============================================================================
