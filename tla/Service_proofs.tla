--------------------------- MODULE Service_proofs ---------------------------
(***************************************************************************)
(* What holds of the wake-ups of Service for any number of deliveries and  *)
(* workers, any capacity of the channel and any number of edits:           *)
(* PendingIsBacked, and that no delivery that was told it is queued or     *)
(* coalesced is left without a wake-up on its way.                         *)
(*                                                                         *)
(* The argument: the flag refreshPending is raised only by a handler that  *)
(* goes on to send, and is lowered by whoever makes that untrue; a wake-up *)
(* leaves the channel only for a tick, which comes to where it fetches all *)
(* that was made so far, or has to do without; and a handler that finds    *)
(* the channel full leaves those that it takes down with it in             *)
(* hist.dropped.                                                           *)
(***************************************************************************)
EXTENDS Service, TLAPS, SequenceTheorems, FiniteSetTheorems

(* What no tick came for yet.                                              *)
Unseen(d) == d \notin hist.seen \cup hist.lost
OnTheWay == loop = "tick" \/ Wakes # {}

(* Of the deliveries told "queued", the wake-up itself is in the channel.  *)
QueuedIsBacked ==
  Up => \A d \in Deliveries : handler[d] = "queued" /\ Unseen(d) => OnTheWay

(* Those told "coalesced" may still depend on a handler about to send.     *)
CoalescedIsBacked ==
  Up => \A d \in Deliveries :
          handler[d] = "coalesced" /\ Unseen(d) /\ d \notin hist.dropped =>
            OnTheWay \/ Sending # {}

WakeInv == TypeOK /\ PendingIsBacked /\ QueuedIsBacked /\ CoalescedIsBacked

(* The safety behind WakeUpSeen: while no tick came for a delivery that    *)
(* counts as woken, one that will is about to fetch or is being asked for. *)
NoWakeUpLost ==
  Up => \A d \in Deliveries :
          Woken(d) => d \in hist.seen \cup hist.lost \/ OnTheWay \/ Sending # {}

-----------------------------------------------------------------------------
(* Sequences of events.                                                    *)

(* An item sent to the channel comes behind the others.                    *)
LEMMA PutKeeps ==
  ASSUME NEW item \in QueueItems, queue \in Seq(QueueItems), queue' = Append(queue, item)
  PROVE  /\ queue' \in Seq(QueueItems) /\ Len(queue') = Len(queue) + 1
         /\ Wakes # {} => Wakes' # {}
         /\ item.kind = "refresh" => Wakes' # {}
<1>1. queue' \in Seq(QueueItems) /\ Len(queue') = Len(queue) + 1
  OBVIOUS
<1>2. \A k \in 1 .. Len(queue) : queue'[k] = queue[k]
  OBVIOUS
<1>3. queue'[Len(queue) + 1] = item
  OBVIOUS
<1>4. Len(queue) \in Nat
  OBVIOUS
<1>5. Wakes # {} => Wakes' # {}
  <2>1. SUFFICES ASSUME NEW k \in Wakes
                 PROVE  k \in Wakes'
    OBVIOUS
  <2> QED BY <1>1, <1>2, <1>4 DEF Wakes
<1>6. item.kind = "refresh" => Len(queue) + 1 \in Wakes'
  BY <1>1, <1>3, <1>4 DEF Wakes
<1> QED BY <1>1, <1>5, <1>6

(* What is behind an event that is no wake-up stays in the channel.        *)
LEMMA TakeKeeps ==
  ASSUME queue \in Seq(QueueItems), queue # <<>>, queue' = Tail(queue)
  PROVE  /\ queue' \in Seq(QueueItems) /\ Len(queue') = Len(queue) - 1
         /\ Head(queue).kind # "refresh" /\ Wakes # {} => Wakes' # {}
<1>1. queue' \in Seq(QueueItems) /\ Len(queue') = Len(queue) - 1 /\ Len(queue) \in Nat
  OBVIOUS
<1>2. \A k \in 1 .. Len(queue) - 1 : queue'[k] = queue[k + 1]
  OBVIOUS
<1>3. Head(queue) = queue[1]
  OBVIOUS
<1>4. ASSUME Head(queue).kind # "refresh", NEW k \in Wakes
      PROVE  k - 1 \in Wakes'
  <2>1. k \in 1 .. Len(queue) /\ queue[k].kind = "refresh"
    BY <1>4 DEF Wakes
  <2>2. k # 1
    BY <2>1, <1>3, <1>4
  <2>3. k - 1 \in 1 .. Len(queue') /\ (k - 1) + 1 = k
    BY <2>1, <2>2, <1>1
  <2>4. queue'[k - 1] = queue[k]
    BY <2>3, <1>1, <1>2
  <2> QED BY <2>1, <2>3, <2>4 DEF Wakes
<1> QED BY <1>1, <1>4

-----------------------------------------------------------------------------
(* Types.                                                                  *)

(* Every state that Service reaches has its type, for every value of the   *)
(* constants.                                                              *)
LEMMA InitType == Init => TypeOK
<1> SUFFICES ASSUME Init PROVE TypeOK
  OBVIOUS
<1> USE ServiceAssumption
<1>1. queue \in Seq(QueueItems) /\ Len(queue) <= Capacity
  BY DEF Init
<1>2. 0 \in Versions /\ Loaded \in Runtimes
  BY DEF Versions, Loaded, Runtimes
<1>3. handler \in [Deliveries -> {"none", "request", "send"} \cup Answers]
  BY DEF Init
<1> QED BY <1>1, <1>2, <1>3 DEF Init, TypeOK

LEMMA NextType == TypeOK /\ [Next]_vars => TypeOK'
<1> SUFFICES ASSUME TypeOK, [Next]_vars PROVE TypeOK'
  OBVIOUS
<1> USE ServiceAssumption
<1>a. Loaded \in Runtimes
  BY DEF Loaded, Runtimes, Versions
<1>b. Made \subseteq Deliveries /\ Coalesced \subseteq Deliveries
  BY DEF Made, Coalesced
<1>c. file.version \in Versions /\ watch.loaded \in Runtimes /\ queue \in Seq(QueueItems)
      /\ Capacity \in Nat /\ Len(queue) \in Nat
  BY DEF TypeOK
<1>d. /\ Sees \in [seen : SUBSET Deliveries, lost : SUBSET Deliveries, dropped : SUBSET Deliveries,
                    missed : BOOLEAN, insisted : BOOLEAN]
      /\ Misses \in [seen : SUBSET Deliveries, lost : SUBSET Deliveries, dropped : SUBSET Deliveries,
                      missed : BOOLEAN, insisted : BOOLEAN]
  BY <1>b DEF Sees, Misses, TypeOK
<1>1. CASE Launch
  BY <1>1 DEF TypeOK, Launch, Tick, hooks
<1>2. CASE EndTick \/ Fetch
  BY <1>2, <1>d DEF TypeOK, EndTick, Fetch, Publish, Running, hooks, reload
<1>3. CASE Poll
  BY <1>3 DEF TypeOK, Poll, Tick, hooks, reload
<1>4. CASE TakeEvent
  <2> DEFINE item == Head(queue)
  <2>1. item \in QueueItems /\ queue' = Tail(queue) /\ queue # <<>>
    BY <1>4, <1>c DEF TakeEvent
  <2>2. queue' \in Seq(QueueItems) /\ Len(queue') <= Capacity
    BY <2>1, <1>c, TakeKeeps DEF TypeOK
  <2>3. UNCHANGED <<ready, stop, announce, handler, file, watch, screen>> /\ loop = "select"
    BY <1>4 DEF TakeEvent, hooks
  <2>4. item.kind = "config" => item.runtime \in Runtimes
    BY <2>1 DEF QueueItems
  <2> HIDE DEF item
  <2>5. /\ loop' \in {"tick", "select"} /\ pending' \in BOOLEAN
        /\ draining' \in BOOLEAN /\ wanted' \in BOOLEAN
        /\ work' \in [Workers -> {"none", "busy", "done", "sent"}] /\ view' \subseteq Workers
        /\ config' \in Runtimes
        /\ hist' \in [seen : SUBSET Deliveries, lost : SUBSET Deliveries, dropped : SUBSET Deliveries,
                      missed : BOOLEAN, insisted : BOOLEAN]
    <3>1. CASE item.kind = "refresh"
      BY <1>4, <2>3, <3>1 DEF item, TakeEvent, Taken, Tick, TypeOK
    <3>2. CASE item.kind = "config"
      BY <1>4, <2>3, <2>4, <3>2 DEF item, TakeEvent, Publish, Running, TypeOK
    <3>3. CASE item.kind = "drain"
      BY <1>4, <2>3, <3>3 DEF item, TakeEvent, Publish, Running, TypeOK
    <3>4. CASE item.kind = "codex"
      BY <1>4, <2>3, <3>4 DEF item, TakeEvent, Publish, Running, TypeOK
    <3>5. CASE item.kind = "exit"
      BY <1>4, <2>3, <3>5 DEF item, TakeEvent, Running, TypeOK
    <3> QED BY <2>1, <3>1, <3>2, <3>3, <3>4, <3>5 DEF QueueItems
  <2> QED BY <2>2, <2>3, <2>5 DEF TypeOK
<1>5. CASE End
  BY <1>5 DEF TypeOK, End, hooks, reload
<1>6. ASSUME NEW w \in Workers, Dispatch(w) \/ Emit(w) \/ Finish(w) \/ SendExit(w)
      PROVE  TypeOK'
  <2>1. CASE Dispatch(w)
    BY <2>1 DEF TypeOK, Dispatch, control, hooks, reload
  <2>2. CASE Emit(w)
    <3>1. [kind |-> "codex"] \in QueueItems
      BY DEF QueueItems
    <3>2. queue' \in Seq(QueueItems) /\ Len(queue') <= Capacity
      BY <2>2, <3>1, <1>c, PutKeeps DEF Emit, Put, Room
    <3> QED BY <2>2, <3>2 DEF TypeOK, Emit, control, hooks, reload
  <2>3. CASE Finish(w)
    BY <2>3 DEF TypeOK, Finish, control, hooks, reload
  <2>4. CASE SendExit(w)
    <3>1. [kind |-> "exit", worker |-> w] \in QueueItems
      BY DEF QueueItems
    <3>2. queue' \in Seq(QueueItems) /\ Len(queue') <= Capacity
      BY <2>4, <3>1, <1>c, PutKeeps DEF SendExit, Put, Room
    <3> QED BY <2>4, <3>2 DEF TypeOK, SendExit, control, hooks, reload
  <2> QED BY <1>6, <2>1, <2>2, <2>3, <2>4
<1>7. ASSUME NEW d \in Deliveries, Arrive(d) \/ Handler(d)
      PROVE  TypeOK'
  <2>1. CASE Arrive(d)
    <3>1. handler' \in [Deliveries -> {"none", "request", "send"} \cup Answers]
      BY <2>1 DEF Arrive, Goes, Answers, TypeOK
    <3> QED BY <2>1, <3>1 DEF TypeOK, Arrive, control, reload
  <2>2. CASE Request(d)
    <3>1. handler' \in [Deliveries -> {"none", "request", "send"} \cup Answers]
      BY <2>2 DEF Request, Goes, Answers, TypeOK
    <3>2. pending' \in BOOLEAN
      BY <2>2 DEF Request
    <3> QED BY <2>2, <3>1, <3>2 DEF TypeOK, Request, reload
  <2>3. CASE SendWakeUp(d)
    <3>1. handler' \in [Deliveries -> {"none", "request", "send"} \cup Answers]
      BY <2>3 DEF SendWakeUp, Goes, WhenFull, Answers, TypeOK
    <3>2. [kind |-> "refresh"] \in QueueItems
      BY DEF QueueItems
    <3>3. queue' \in Seq(QueueItems) /\ Len(queue') <= Capacity
      BY <2>3, <3>2, <1>c, PutKeeps DEF SendWakeUp, Put, Room, TypeOK
    <3>4. pending' \in BOOLEAN
      BY <2>3 DEF SendWakeUp, GivesUp, TypeOK
    <3>5. hist' \in [seen : SUBSET Deliveries, lost : SUBSET Deliveries, dropped : SUBSET Deliveries,
                     missed : BOOLEAN, insisted : BOOLEAN]
      BY <2>3, <1>b, SMTT(30) DEF SendWakeUp, TypeOK
    <3> QED BY <2>3, <3>1, <3>3, <3>4, <3>5 DEF TypeOK, SendWakeUp, reload
  <2> QED BY <1>7, <2>1, <2>2, <2>3 DEF Handler
<1>8. CASE Edit
  <2>0. Cardinality(DOMAIN announce) \in Nat
    BY <1>c, FS_Subset, FS_CardinalityType DEF TypeOK
  <2>1. file' \in [version : Versions, good : BOOLEAN]
    BY <1>8, <1>c, <2>0 DEF Edit, Versions, TypeOK
  <2> QED BY <1>8, <2>1 DEF TypeOK, Edit, control, hooks
<1>9. CASE Watch
  <2>1. CASE FirstLook
    <3>1. \A b \in BOOLEAN : [hist EXCEPT !.missed = b]
            \in [seen : SUBSET Deliveries, lost : SUBSET Deliveries, dropped : SUBSET Deliveries,
                 missed : BOOLEAN, insisted : BOOLEAN]
      BY DEF TypeOK
    <3>3. hist' = [hist EXCEPT !.missed = (file.version > 0)]
      BY <2>1, Zenon DEF FirstLook
    <3>4. (file.version > 0) \in BOOLEAN
      OBVIOUS
    <3>2. hist' \in [seen : SUBSET Deliveries, lost : SUBSET Deliveries, dropped : SUBSET Deliveries,
                     missed : BOOLEAN, insisted : BOOLEAN]
      BY <3>1, <3>3, <3>4, Zenon
    <3> QED BY <2>1, <1>c, <3>2 DEF TypeOK, FirstLook, control, hooks
  <2>2. CASE Look
    BY <2>2, <1>c DEF TypeOK, Look, control, hooks
  <2>3. CASE ReadPrompt
    BY <2>3, <1>c DEF TypeOK, ReadPrompt, control, hooks, Runtimes
  <2>4. CASE ReadConfig
    <3>1. watch' \in [at : {"off", "begin", "wait", "read", "config", "send"},
                      known : Versions, loaded : Runtimes]
      <4>1. [watch.loaded EXCEPT !.config = file.version] \in Runtimes
        BY <1>c DEF Runtimes
      <4>2. \/ watch' = [watch EXCEPT !.at = "send",
                           !.loaded = [watch.loaded EXCEPT !.config = file.version]]
            \/ watch' = [watch EXCEPT !.at = "wait", !.loaded = Loaded]
        BY <2>4, <1>c DEF ReadConfig, Learns, TypeOK
      <4> QED BY <4>1, <4>2, <1>a, ZenonT(60) DEF TypeOK
    <3>2. hist' \in [seen : SUBSET Deliveries, lost : SUBSET Deliveries, dropped : SUBSET Deliveries,
                     missed : BOOLEAN, insisted : BOOLEAN]
      <4>1. CASE UNCHANGED hist
        BY <4>1 DEF TypeOK
      <4>2. ASSUME NEW b \in BOOLEAN, hist' = [hist EXCEPT !.missed = b]
            PROVE  hist' \in [seen : SUBSET Deliveries, lost : SUBSET Deliveries, dropped : SUBSET Deliveries,
                           missed : BOOLEAN, insisted : BOOLEAN]
        BY <4>2 DEF TypeOK
      <4> QED BY <2>4, <4>1, <4>2 DEF ReadConfig
    <3> QED BY <2>4, <3>1, <3>2 DEF TypeOK, ReadConfig, control, hooks
  <2> QED BY <1>9, <2>1, <2>2, <2>3, <2>4 DEF Watch
<1>10. CASE UpdateRuntime
  <2>1. [kind |-> "config", runtime |-> watch.loaded] \in QueueItems
    BY <1>c DEF QueueItems
  <2>2. queue' \in Seq(QueueItems) /\ Len(queue') <= Capacity
    BY <1>10, <2>1, <1>c, PutKeeps DEF UpdateRuntime, Put, Room
  <2> QED BY <1>10, <2>2, <1>a DEF TypeOK, UpdateRuntime, control, hooks
<1>11. CASE Refresh
  <2>1. stop' \in BOOLEAN /\ screen' \in [running : SUBSET Workers, asked : BOOLEAN, forced : BOOLEAN]
    BY <1>11 DEF Refresh, TypeOK
  <2> QED BY <1>11, <2>1 DEF TypeOK, Refresh, hooks, reload
<1>12. CASE PressQ
  <2>1. [kind |-> "drain"] \in QueueItems
    BY DEF QueueItems
  <2>2. queue' \in Seq(QueueItems) /\ Len(queue') <= Capacity
    BY <1>12, <2>1, <1>c, PutKeeps DEF PressQ, Put, Room, TypeOK
  <2>3. stop' \in BOOLEAN /\ wanted' \in BOOLEAN
        /\ screen' \in [running : SUBSET Workers, asked : BOOLEAN, forced : BOOLEAN]
    <3>1. CASE screen.running = {}
      <4>1. screen' = [screen EXCEPT !.asked = TRUE, !.forced = TRUE]
            /\ stop' = TRUE /\ wanted' = wanted
        BY <1>12, <3>1, Zenon DEF PressQ
      <4> QED BY <4>1 DEF TypeOK
    <3>2. CASE screen.running # {}
      BY <1>12, <3>2 DEF PressQ, TypeOK
    <3> QED BY <3>1, <3>2
  <2> QED BY <1>12, <2>2, <2>3 DEF TypeOK, PressQ, hooks, reload
<1>13. CASE Insist
  BY <1>13 DEF TypeOK, Insist, hooks, reload
<1>14. CASE UNCHANGED vars
  BY <1>14 DEF TypeOK, vars, control, hooks, reload, Wakes
<1> QED
  BY <1>1, <1>2, <1>3, <1>4, <1>5, <1>6, <1>7, <1>8, <1>9, <1>10, <1>11, <1>12, <1>13, <1>14 DEF Next

(* Every state that Service reaches has its type: the channel never holds  *)
(* more than its capacity, nor anything that the loop does not know.       *)
THEOREM TypeInvariant == Spec => []TypeOK
<1> QED BY InitType, NextType, PTL DEF Spec

-----------------------------------------------------------------------------
(* The wake-ups.                                                           *)

LEMMA InitWake == Init => PendingIsBacked /\ QueuedIsBacked /\ CoalescedIsBacked
  BY DEF Init, PendingIsBacked, QueuedIsBacked, CoalescedIsBacked

(* What the steps below need to have kept.                                 *)
Quiet == UNCHANGED <<pending, handler>> /\ (Wakes # {} => Wakes' # {})
         /\ hist'.seen = hist.seen /\ hist'.lost = hist.lost /\ hist'.dropped = hist.dropped
         /\ (Up' => Up) /\ (loop = "tick" => loop' = "tick")

(* A step that leaves the handlers, the flag and the wake-ups in the       *)
(* channel alone leaves every backing as it is.                            *)
LEMMA QuietKeeps ==
  ASSUME PendingIsBacked, QueuedIsBacked, CoalescedIsBacked, Quiet
  PROVE  PendingIsBacked' /\ QueuedIsBacked' /\ CoalescedIsBacked'
<1>1. Sending' = Sending
  BY DEF Quiet, Sending
<1>2. PendingIsBacked'
  BY <1>1 DEF Quiet, PendingIsBacked
<1>3. QueuedIsBacked'
  BY DEF Quiet, QueuedIsBacked, Unseen, OnTheWay
<1>4. CoalescedIsBacked'
  BY <1>1 DEF Quiet, CoalescedIsBacked, Unseen, OnTheWay
<1> QED BY <1>2, <1>3, <1>4

(* A tick that gets to where it fetches leaves nobody waiting for one.     *)
LEMMA FetchComesForAll ==
  ASSUME TypeOK, hist' = Sees \/ hist' = Misses, UNCHANGED handler
  PROVE  QueuedIsBacked' /\ CoalescedIsBacked'
<1>1. \A d \in Deliveries : handler'[d] \in {"queued", "coalesced"} => d \in hist'.seen \cup hist'.lost
  <2>1. \A d \in Deliveries : handler'[d] \in {"queued", "coalesced"} => d \in Made
    BY DEF Made
  <2>2. hist'.seen = Made \/ hist'.lost = hist.lost \cup Made
    BY DEF Sees, Misses, TypeOK
  <2> QED BY <2>1, <2>2
<1> QED BY <1>1 DEF QueuedIsBacked, CoalescedIsBacked, Unseen

(* While a tick is about to, all wait for it.                              *)
LEMMA TickComesForAll ==
  ASSUME Tick
  PROVE  QueuedIsBacked' /\ CoalescedIsBacked'
BY DEF Tick, QueuedIsBacked, CoalescedIsBacked, OnTheWay

LEMMA NextWake == WakeInv /\ TypeOK' /\ [Next]_vars => PendingIsBacked' /\ QueuedIsBacked' /\ CoalescedIsBacked'
<1> SUFFICES ASSUME WakeInv, TypeOK', [Next]_vars
             PROVE  PendingIsBacked' /\ QueuedIsBacked' /\ CoalescedIsBacked'
  OBVIOUS
<1>a. queue \in Seq(QueueItems)
  BY DEF WakeInv, TypeOK
<1>b. UNCHANGED queue => Wakes' = Wakes
  BY DEF Wakes
<1>1. CASE Launch \/ Poll
  <2>1. QueuedIsBacked' /\ CoalescedIsBacked'
    BY <1>1, TickComesForAll DEF Launch, Poll
  <2>2. PendingIsBacked'
    BY <1>1, <1>b DEF Launch, Poll, hooks, WakeInv, PendingIsBacked, Sending, Up
  <2> QED BY <2>1, <2>2
<1>2. CASE EndTick \/ Fetch
  <2>1. UNCHANGED <<pending, handler, queue>> /\ Up
    BY <1>2 DEF EndTick, Fetch, hooks, Up
  <2>2. PendingIsBacked'
    BY <2>1, <1>b DEF WakeInv, PendingIsBacked, Sending
  <2>3. CASE hist' = Sees \/ hist' = Misses
    BY <2>1, <2>2, <2>3, FetchComesForAll DEF WakeInv
  <2>4. CASE UNCHANGED hist /\ loop # "tick"
    <3>1. Quiet
      BY <2>1, <2>4, <1>b DEF Quiet
    <3> QED BY <3>1, QuietKeeps DEF WakeInv
  <2> QED BY <1>2, <2>3, <2>4 DEF EndTick, Fetch
<1>4. CASE TakeEvent
  <2>1. CASE Head(queue).kind = "refresh"
    <3>1. Taken /\ Tick
      BY <1>4, <2>1 DEF TakeEvent
    <3>2. QueuedIsBacked' /\ CoalescedIsBacked'
      BY <3>1, TickComesForAll
    <3> QED BY <3>1, <3>2 DEF Taken, PendingIsBacked
  <2>2. CASE Head(queue).kind # "refresh"
    <3>1. Wakes # {} => Wakes' # {}
      BY <1>4, <1>a, <2>2, TakeKeeps DEF TakeEvent
    <3>2. UNCHANGED <<pending, handler, hist, loop>>
      BY <1>4, <2>2 DEF TakeEvent, hooks
    <3> QED BY <3>1, <3>2, QuietKeeps DEF Quiet, Up, WakeInv
  <2> QED BY <2>1, <2>2
<1>5. CASE End
  BY <1>5 DEF End, PendingIsBacked, QueuedIsBacked, CoalescedIsBacked, Up
<1>6. ASSUME NEW w \in Workers, Dispatch(w) \/ Emit(w) \/ Finish(w) \/ SendExit(w)
      PROVE  Quiet
  <2>1. UNCHANGED <<pending, handler, hist, loop>>
    BY <1>6 DEF Dispatch, Emit, Finish, SendExit, control, hooks
  <2>2. Wakes # {} => Wakes' # {}
    <3>1. CASE UNCHANGED queue
      BY <3>1, <1>b
    <3>2. CASE Emit(w)
      BY <3>2, <1>a, PutKeeps DEF Emit, Put, QueueItems
    <3>3. CASE SendExit(w)
      BY <3>3, <1>a, PutKeeps DEF SendExit, Put, QueueItems
    <3> QED BY <1>6, <3>1, <3>2, <3>3 DEF Dispatch, Finish
  <2> QED BY <2>1, <2>2 DEF Quiet, Up
<1>7. ASSUME NEW d \in Deliveries, Arrive(d) \/ Request(d) \/ SendWakeUp(d)
      PROVE  PendingIsBacked' /\ QueuedIsBacked' /\ CoalescedIsBacked'
  <2>a. handler \in [Deliveries -> {"none", "request", "send"} \cup Answers]
    BY DEF WakeInv, TypeOK
  <2>b. \A e \in Deliveries \ {d} : handler'[e] = handler[e]
    BY <1>7, <2>a DEF Arrive, Request, SendWakeUp, Goes
  <2>c. Up /\ UNCHANGED loop
    BY <1>7 DEF Arrive, Request, SendWakeUp, Handles, control
  <2>1. CASE Arrive(d)
    <3>1. handler[d] = "none" /\ handler'[d] \in {"request", "polled"}
      BY <2>1, <2>a DEF Arrive, Handles, Goes
    <3>2. UNCHANGED <<pending, queue, hist>>
      BY <2>1 DEF Arrive, control
    <3>3. Sending' = Sending
      BY <3>1, <2>b DEF Sending
    <3> QED BY <3>1, <3>2, <3>3, <2>b, <2>c, <1>b
            DEF WakeInv, PendingIsBacked, QueuedIsBacked, CoalescedIsBacked, Unseen, OnTheWay
  <2>2. CASE Request(d)
    <3>1. UNCHANGED <<queue, hist>> /\ pending' = (pending \/ ready) /\ handler[d] = "request"
      BY <2>2 DEF Request, Handles
    <3>2. Sending \subseteq Sending'
      BY <3>1, <2>b DEF Sending
    <3>3. CASE ~ready
      <4>1. handler'[d] = "polled"
        BY <2>2, <3>3, <2>a DEF Request, Goes
      <4> QED BY <4>1, <3>1, <3>2, <3>3, <2>b, <2>c, <1>b
              DEF WakeInv, PendingIsBacked, QueuedIsBacked, CoalescedIsBacked, Unseen, OnTheWay
    <3>4. CASE ready /\ pending
      <4>1. handler'[d] = "coalesced"
        BY <2>2, <3>4, <2>a DEF Request, Goes
      <4>2. Wakes # {} \/ Sending # {}
        BY <3>4, <2>c DEF WakeInv, PendingIsBacked
      <4>3. Wakes' # {} \/ Sending' # {}
        BY <4>2, <3>1, <3>2, <1>b
      <4>4. QueuedIsBacked'
        BY <4>1, <3>1, <2>b, <2>c, <1>b DEF WakeInv, QueuedIsBacked, Unseen, OnTheWay
      <4> QED BY <4>3, <4>4 DEF PendingIsBacked, CoalescedIsBacked, OnTheWay
    <3>5. CASE ready /\ ~pending
      <4>1. handler'[d] = "send"
        BY <2>2, <3>5, <2>a DEF Request, Goes
      <4>2. Sending' # {}
        BY <4>1 DEF Sending
      <4>3. QueuedIsBacked'
        BY <4>1, <3>1, <2>b, <2>c, <1>b DEF WakeInv, QueuedIsBacked, Unseen, OnTheWay
      <4> QED BY <4>2, <4>3 DEF PendingIsBacked, CoalescedIsBacked, OnTheWay
    <3> QED BY <3>3, <3>4, <3>5
  <2>3. CASE SendWakeUp(d) /\ Room
    <3>1. CASE handler'[d] = "queued"
      <4>1. queue' = Append(queue, [kind |-> "refresh"]) /\ UNCHANGED <<pending, hist>>
        BY <2>3, <3>1, <2>a DEF SendWakeUp, Put, Goes, WhenFull
      <4>2. Wakes' # {}
        BY <4>1, <1>a, PutKeeps DEF QueueItems
      <4> QED BY <4>2 DEF PendingIsBacked, QueuedIsBacked, CoalescedIsBacked, OnTheWay
    <3> QED BY <2>3, <3>1, <2>a DEF SendWakeUp, Goes
  <2>4. CASE SendWakeUp(d) /\ ~Room
    <3>1. /\ pending' = FALSE /\ handler'[d] = "polled" /\ UNCHANGED queue
          /\ hist' = [hist EXCEPT !.dropped = @ \cup Coalesced]
      BY <2>4, <2>a DEF SendWakeUp, GivesUp, Goes, WhenFull
    <3>2. hist'.seen = hist.seen /\ hist'.lost = hist.lost /\ hist'.dropped = hist.dropped \cup Coalesced
      BY <3>1 DEF WakeInv, TypeOK
    <3>3. PendingIsBacked'
      BY <3>1 DEF PendingIsBacked
    <3>4. QueuedIsBacked'
      BY <3>1, <3>2, <2>b, <2>c, <1>b DEF WakeInv, QueuedIsBacked, Unseen, OnTheWay
    <3>5. CoalescedIsBacked'
      BY <3>1, <3>2, <2>b DEF CoalescedIsBacked, Coalesced, Unseen
    <3> QED BY <3>3, <3>4, <3>5
  <2> QED BY <1>7, <2>1, <2>2, <2>3, <2>4
<1>8. CASE Edit \/ Watch
  <2>1. UNCHANGED <<pending, handler, queue, loop>>
    BY <1>8 DEF Edit, Watch, FirstLook, Look, ReadPrompt, ReadConfig, control, hooks
  <2>2. hist'.seen = hist.seen /\ hist'.lost = hist.lost /\ hist'.dropped = hist.dropped
    BY <1>8 DEF Edit, Watch, FirstLook, Look, ReadPrompt, ReadConfig, WakeInv, TypeOK
  <2> QED BY <2>1, <2>2, <1>b, QuietKeeps DEF Quiet, Up, WakeInv
<1>9. CASE UpdateRuntime
  <2>1. UNCHANGED <<pending, handler, hist, loop>>
    BY <1>9 DEF UpdateRuntime, control, hooks
  <2>2. [kind |-> "config", runtime |-> watch.loaded] \in QueueItems
    BY DEF QueueItems, WakeInv, TypeOK
  <2>3. Wakes # {} => Wakes' # {}
    BY <1>9, <2>2, <1>a, PutKeeps DEF UpdateRuntime, Put
  <2> QED BY <2>1, <2>3, QuietKeeps DEF Quiet, Up, WakeInv
<1>10. CASE Refresh \/ PressQ \/ Insist
  <2>1. UNCHANGED <<pending, handler, loop>> /\ hist'.seen = hist.seen /\ hist'.lost = hist.lost /\ hist'.dropped = hist.dropped
    BY <1>10 DEF Refresh, PressQ, Insist, hooks, WakeInv, TypeOK
  <2>2. UNCHANGED queue \/ queue' = Append(queue, [kind |-> "drain"])
    BY <1>10 DEF Refresh, PressQ, Insist, Put
  <2>3. Wakes # {} => Wakes' # {}
    BY <2>2, <1>a, <1>b, PutKeeps DEF QueueItems
  <2> QED BY <2>1, <2>3, QuietKeeps DEF Quiet, Up, WakeInv
<1>11. CASE UNCHANGED vars
  <2>1. Quiet
    BY <1>11, <1>b DEF Quiet, vars, control, hooks, Up
  <2> QED BY <2>1, QuietKeeps DEF WakeInv
<1> QED
  BY <1>1, <1>2, <1>4, <1>5, <1>6, <1>7, <1>8, <1>9, <1>10, <1>11, QuietKeeps
     DEF Next, Handler, WakeInv

(* The invariant behind the two theorems below.                            *)
LEMMA WakeInvariant == Spec => []WakeInv
<1>1. Init => WakeInv
  BY InitType, InitWake DEF WakeInv
<1>2. WakeInv /\ [Next]_vars => WakeInv'
  BY NextType, NextWake DEF WakeInv
<1> QED BY <1>1, <1>2, PTL DEF Spec

(* PendingIsBacked: for any number of handlers that race for the flag, the *)
(* loop that lowers it and the channel that is full, the flag never stays  *)
(* up with no wake-up behind it (RequestRefresh, handleEvent).             *)
THEOREM PendingIsBackedHolds == Spec => []PendingIsBacked
<1>1. WakeInv => PendingIsBacked
  BY DEF WakeInv
<1> QED BY <1>1, WakeInvariant, PTL

(* NoWakeUpLost: what TLC's WakeUpSeen needs of every state, for any       *)
(* number of deliveries: for a change that its handler answered as queued, *)
(* or as coalesced with a wake-up that found room, a tick has come to its  *)
(* fetch since, or is about to, or a wake-up is still on its way to one.   *)
THEOREM NoWakeUpLostHolds == Spec => []NoWakeUpLost
<1>1. WakeInv => NoWakeUpLost
  BY DEF WakeInv, NoWakeUpLost, QueuedIsBacked, CoalescedIsBacked, Woken, Unseen, OnTheWay
<1> QED BY <1>1, WakeInvariant, PTL
=============================================================================
