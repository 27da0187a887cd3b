------------------------------ MODULE Service ------------------------------
(***************************************************************************)
(* One colin process (service/service.go): the orchestrator's loop and its *)
(* channel of events, the webhook handlers that wake it, the watcher of    *)
(* WORKFLOW.md that hands it new configurations, and the runtime screen    *)
(* (tui/runtime.go) that drains and stops it.                              *)
(*                                                                         *)
(* They are goroutines that share a few atomic flags and one channel.  The *)
(* handlers never wait for the channel, the watcher and the workers do.    *)
(* What a tick does with the issues is Scheduler's subject; here it sees   *)
(* the changes made before it fetches, if it does, and may start workers.  *)
(***************************************************************************)
EXTENDS Integers, Sequences, FiniteSets

CONSTANTS
  Deliveries,  \* webhook deliveries, each of a change made just before
  Sent,        \* which of them come and what they say: functions to Events
  Workers,     \* the issues that may be dispatched
  Capacity,    \* of the channel of events
  MaxNews      \* bound: deliveries and edits of WORKFLOW.md together

(* What the handlers tell apart in a delivery.  project: none when the     *)
(* payload names none; an issue is always named.  field: what an update    *)
(* changes.  (Acknowledgements of delegations are Metadata's subject.)     *)
Events == [kind : {"issue", "issuelabel", "agentsessionevent", "pull_request"},
           action : {"create", "update", "remove", "created", "prompted", "closed"},
           project : {"none", "watched", "other"},
           field : {"stateid", "sortorder"}]

ASSUME ServiceAssumption ==
  /\ IsFiniteSet(Deliveries)
  /\ \A s \in Sent : DOMAIN s \subseteq Deliveries /\ \A d \in DOMAIN s : s[d] \in Events
  /\ Capacity \in Nat \ {0} /\ MaxNews \in Nat

Versions == 0 .. MaxNews

VARIABLES
  loop,      \* where Orchestrator.Run is
  queue,     \* eventCh
  pending,   \* refreshPending
  ready,     \* refreshReady
  draining,  \* of the loop
  wanted,    \* shutdownRequested
  stop,      \* the context of the process is cancelled
  work,      \* worker -> where its goroutine is
  view,      \* the running workers in the cached snapshot
  announce,  \* delivery -> what it says
  handler,   \* delivery -> where its handler is, and its answer
  file,      \* WORKFLOW.md: its version, and whether it can be loaded
  config,    \* what the loop works with: versions of its prompt and its config
  watch,     \* the watcher: where it is, the version it knows, and what it loaded
  screen,    \* the runtime screen
  hist       \* history: changes seen by a tick, those that a tick came for
             \* that did not fetch, deliveries that were coalesced with a
             \* wake-up that was dropped, whether WORKFLOW.md is not
             \* loaded though it could be, and whether the user insisted on stopping

control == <<loop, pending, ready, draining, wanted, stop>>
reload == <<file, config, watch>>
hooks == <<announce, handler>>
vars == <<control, queue, work, view, hooks, reload, screen, hist>>

(* polled: ignored, suppressed or refused, so that only the poll sees it.  *)
Answers == {"queued", "coalesced", "polled"}
Runtimes == [prompt : Versions, config : Versions]
QueueItems == [kind : {"refresh", "drain", "codex"}] \cup [kind : {"exit"}, worker : Workers]
              \cup [kind : {"config"}, runtime : Runtimes]
Running == {w \in Workers : work[w] # "none"}

TypeOK ==
  /\ loop \in {"off", "tick", "dispatch", "select", "ended"}
  /\ queue \in Seq(QueueItems) /\ Len(queue) <= Capacity
  /\ {pending, ready, draining, wanted, stop} \subseteq BOOLEAN
  /\ work \in [Workers -> {"none", "busy", "done", "sent"}] /\ view \subseteq Workers
  /\ announce \in Sent
  /\ handler \in [Deliveries -> {"none", "request", "send"} \cup Answers]
  /\ file \in [version : Versions, good : BOOLEAN]
  /\ config \in Runtimes
  /\ watch \in [at : {"off", "begin", "wait", "read", "config", "send"}, known : Versions, loaded : Runtimes]
  /\ screen \in [running : SUBSET Workers, asked : BOOLEAN, forced : BOOLEAN]
  /\ hist \in [seen : SUBSET Deliveries, lost : SUBSET Deliveries, dropped : SUBSET Deliveries,
               missed : BOOLEAN, insisted : BOOLEAN]

(* After New: the workflow is loaded and nothing runs yet.                 *)
Loaded == [prompt |-> 0, config |-> 0]
Init ==
  /\ loop = "off" /\ queue = <<>>
  /\ pending = FALSE /\ ready = FALSE /\ draining = FALSE /\ wanted = FALSE /\ stop = FALSE
  /\ work = [w \in Workers |-> "none"] /\ view = {}
  /\ announce \in Sent /\ handler = [d \in Deliveries |-> "none"]
  /\ file = [version |-> 0, good |-> TRUE]
  /\ config = Loaded
  /\ watch = [at |-> "off", known |-> 0, loaded |-> Loaded]
  /\ screen = [running |-> {}, asked |-> FALSE, forced |-> FALSE]
  /\ hist = [seen |-> {}, lost |-> {}, dropped |-> {}, missed |-> FALSE, insisted |-> FALSE]

Room == Len(queue) < Capacity
Put(item) == queue' = Append(queue, item)

-----------------------------------------------------------------------------
(* The loop.                                                               *)

(* What was changed before a tick fetches, it sees.  It may do without the *)
(* issues: the budget of requests defers the fetch, or it returns, while   *)
(* Colin drains, when the configuration is refused or the fetch fails.     *)
Made == {d \in Deliveries : handler[d] \notin {"none", "polled"}}
Sees == [hist EXCEPT !.seen = Made]
Misses == [hist EXCEPT !.lost = @ \cup Made]
Tick == loop' = "tick"

Fetch ==
  /\ loop = "tick" /\ ~draining
  /\ loop' = "dispatch"
  /\ hist' = Misses \/ (~stop /\ hist' = Sees)
  /\ UNCHANGED <<pending, ready, draining, wanted, stop, queue, work, view, hooks, reload, screen>>

(* The servers are up and old workspaces are removed before the watcher    *)
(* and the loop start; the first tick comes before any wake-up is taken    *)
(* (refreshReady).                                                         *)
Launch ==
  /\ loop = "off"
  /\ Tick /\ watch' = [watch EXCEPT !.at = "begin"]
  /\ UNCHANGED <<pending, ready, draining, wanted, stop, queue, work, view, hooks, file, config, screen, hist>>

(* acceptingNewWork asks for the flag too: the event of a drain may wait   *)
(* in the channel, or have found no room there.                            *)
Accepts == ~wanted /\ ~draining

(* With a cancelled context nothing is fetched, and nothing is dispatched. *)
Dispatch(w) ==
  /\ loop = "dispatch" /\ ~stop /\ Accepts /\ work[w] = "none"
  /\ work' = [work EXCEPT ![w] = "busy"]
  /\ UNCHANGED <<control, queue, view, hooks, reload, screen, hist>>

Publish == view' = Running

(* The end of handleTick, early or not.                                    *)
EndTick ==
  /\ loop \in {"tick", "dispatch"}
  /\ loop' = "select" /\ ready' = TRUE /\ Publish
  /\ hist' = IF loop = "tick" THEN Misses ELSE hist
  /\ UNCHANGED <<pending, draining, wanted, stop, queue, work, hooks, reload, screen>>

Poll ==
  /\ loop = "select"
  /\ Tick
  /\ UNCHANGED <<pending, ready, draining, wanted, stop, queue, work, view, hooks, reload, screen, hist>>

(* A wake-up counts as taken before the tick fetches: what changes after   *)
(* that needs another one.                                                 *)
(* Mutant: it stays pending.                                               *)
NotTaken == UNCHANGED pending
Taken == pending' = FALSE

(* One event; all but a wake-up are done with in one step.                 *)
TakeEvent ==
  /\ loop = "select" /\ queue # <<>>
  /\ queue' = Tail(queue)
  /\ LET item == Head(queue) IN
     \/ /\ item.kind = "refresh"
        /\ Taken /\ Tick
        /\ UNCHANGED <<draining, wanted, work, view, config, hist>>
     \/ /\ item.kind = "config"
        /\ config' = item.runtime /\ Publish
        /\ UNCHANGED <<loop, pending, draining, wanted, work, hist>>
     \/ /\ item.kind = "drain"
        /\ draining' = TRUE /\ wanted' = TRUE /\ Publish
        /\ UNCHANGED <<loop, pending, work, config, hist>>
     \/ /\ item.kind = "codex"
        /\ Publish
        /\ UNCHANGED <<loop, pending, draining, wanted, work, config, hist>>
     \/ /\ item.kind = "exit"
        /\ work' = [work EXCEPT ![item.worker] = "none"]
        /\ view' = Running \ {item.worker}
        /\ UNCHANGED <<loop, pending, draining, wanted, config, hist>>
  /\ UNCHANGED <<ready, stop, hooks, file, watch, screen>>

(* Workers are cancelled, and the process exits without waiting for them.  *)
End ==
  /\ loop = "select" /\ stop
  /\ loop' = "ended" /\ ready' = FALSE
  /\ UNCHANGED <<pending, draining, wanted, stop, queue, work, view, hooks, reload, screen, hist>>
Up == loop # "ended"

(* A worker waits for room in the channel.                                 *)
Emit(w) ==
  /\ Up /\ work[w] = "busy" /\ Room
  /\ Put([kind |-> "codex"])
  /\ UNCHANGED <<control, work, view, hooks, reload, screen, hist>>

Finish(w) ==
  /\ Up /\ work[w] = "busy"
  /\ work' = [work EXCEPT ![w] = "done"]
  /\ UNCHANGED <<control, queue, view, hooks, reload, screen, hist>>

SendExit(w) ==
  /\ Up /\ work[w] = "done" /\ Room
  /\ Put([kind |-> "exit", worker |-> w])
  /\ work' = [work EXCEPT ![w] = "sent"]
  /\ UNCHANGED <<control, view, hooks, reload, screen, hist>>

-----------------------------------------------------------------------------
(* The webhook handlers.                                                   *)

(* shouldTriggerLinearWebhook and shouldTriggerGitHubWebhook.              *)
Triggers(e) ==
  CASE e.kind = "issue"             -> e.action \in {"create", "update"}
    [] e.kind = "issuelabel"        -> e.action \in {"create", "update", "remove"}
    [] e.kind = "agentsessionevent" -> e.action \in {"created", "prompted"}
    [] e.kind = "pull_request"      -> e.action = "closed"

(* shouldQueueImmediateLinearRefresh and ...GitHubRefresh: an issue must   *)
(* be known to be in a watched project, a label or a session must not be   *)
(* known to be in another one.                                             *)
Queues(e, project) ==
  CASE e.kind \in {"issuelabel", "agentsessionevent"} -> project # "other"
    [] e.kind = "pull_request" -> project = "watched"
    [] e.kind = "issue" -> /\ project = "watched"
                           /\ e.action = "update" => e.field = "stateid"

Goes(d, step) == handler' = [handler EXCEPT ![d] = step]
Handles(d, step) == Up /\ handler[d] = step

(* Something changes, and the delivery that says so arrives.  An issue of  *)
(* an unnamed project is fetched for it (hydrateLinearWebhookEvent), which *)
(* may fail, and may turn out to be of any project; the projects are those *)
(* of the runtime of the handlers.                                         *)
Arrive(d) ==
  /\ d \in DOMAIN announce /\ Handles(d, "none")
  /\ LET e == announce[d] IN
     \E project \in IF e.project = "none" THEN {"none", "watched", "other"} ELSE {e.project} :
       Goes(d, IF Triggers(e) /\ Queues(e, project) THEN "request" ELSE "polled")
  /\ UNCHANGED <<control, queue, work, view, announce, reload, screen, hist>>

(* RequestRefresh: who finds no wake-up pending claims it, then sends it.  *)
Request(d) ==
  /\ Handles(d, "request")
  /\ Goes(d, IF ~ready THEN "polled" ELSE IF pending THEN "coalesced" ELSE "send")
  /\ pending' = (pending \/ ready)
  /\ UNCHANGED <<loop, ready, draining, wanted, stop, queue, work, view, announce, reload, screen, hist>>

(* The channel may be full: then the claim is given up, and those that     *)
(* were told they were coalesced with it are woken by the poll only.       *)
GivesUp == pending' = FALSE
(* Mutant: the caller is told that it is queued all the same.              *)
ToldQueued == "queued"
WhenFull == "polled"

Coalesced == {e \in Deliveries : handler[e] = "coalesced"} \ (hist.seen \cup hist.lost)

SendWakeUp(d) ==
  /\ Handles(d, "send")
  /\ \/ /\ Room /\ Put([kind |-> "refresh"]) /\ Goes(d, "queued")
        /\ UNCHANGED <<pending, hist>>
     \/ /\ ~Room /\ GivesUp /\ Goes(d, WhenFull)
        /\ hist' = [hist EXCEPT !.dropped = @ \cup Coalesced] /\ UNCHANGED queue
  /\ UNCHANGED <<loop, ready, draining, wanted, stop, work, view, announce, reload, screen>>

Handler(d) == Request(d) \/ SendWakeUp(d)

-----------------------------------------------------------------------------
(* The watcher of WORKFLOW.md.                                             *)

Edit ==
  /\ Up /\ file.version + Cardinality(DOMAIN announce) < MaxNews
  /\ \E good \in BOOLEAN : file' = [version |-> file.version + 1, good |-> good]
  /\ hist' = [hist EXCEPT !.missed = FALSE]
  /\ UNCHANGED <<control, queue, work, view, hooks, config, watch, screen>>

(* Its first look is at whatever file is there by then.                    *)
FirstLook ==
  /\ Up /\ watch.at = "begin"
  /\ watch' = [watch EXCEPT !.at = "wait", !.known = file.version]
  /\ hist' = [hist EXCEPT !.missed = file.version > 0]
  /\ UNCHANGED <<control, queue, work, view, hooks, file, config, screen>>

(* A change counts as known before it is loaded.                           *)
Look ==
  /\ Up /\ watch.at = "wait" /\ file.version # watch.known
  /\ watch' = [watch EXCEPT !.at = "read", !.known = file.version]
  /\ UNCHANGED <<control, queue, work, view, hooks, file, config, screen, hist>>

(* loadRuntime reads the file for the prompt and then for the config.      *)
ReadPrompt ==
  /\ Up /\ watch.at = "read"
  /\ watch' = IF file.good THEN [watch EXCEPT !.at = "config", !.loaded.prompt = file.version]
              ELSE [watch EXCEPT !.at = "wait"]
  /\ UNCHANGED <<control, queue, work, view, hooks, file, config, screen, hist>>

(* The new config is tried against Linear, and a failure there is final:   *)
(* the file counts as known.                                               *)
(* Mutant: what is there when it has been loaded counts as known.          *)
LearnsAgain(w) == [w EXCEPT !.known = file.version]
Learns(w) == w

ReadConfig ==
  /\ Up /\ watch.at = "config"
  /\ \/ /\ file.good
        /\ watch' = Learns([watch EXCEPT !.at = "send", !.loaded.config = file.version])
        /\ UNCHANGED hist
     \/ /\ watch' = [watch EXCEPT !.at = "wait", !.loaded = Loaded]
        /\ hist' = [hist EXCEPT !.missed = (file.good /\ file.version = watch.known)]
  /\ UNCHANGED <<control, queue, work, view, hooks, file, config, screen>>

(* The handlers have the new runtime (setRuntime) before the loop, which is *)
(* sent it and waits for room.                                             *)
(* Mutant: without room it is not sent.                                    *)
TriesUpdate ==
  /\ Up /\ watch.at = "send"
  /\ IF Room THEN Put([kind |-> "config", runtime |-> watch.loaded]) ELSE UNCHANGED queue
  /\ watch' = [watch EXCEPT !.at = "wait", !.loaded = Loaded]
  /\ UNCHANGED <<control, work, view, hooks, file, config, screen, hist>>

UpdateRuntime ==
  /\ Up /\ watch.at = "send" /\ Room
  /\ Put([kind |-> "config", runtime |-> watch.loaded])
  /\ watch' = [watch EXCEPT !.at = "wait", !.loaded = Loaded]
  /\ UNCHANGED <<control, work, view, hooks, file, config, screen, hist>>

Watch == FirstLook \/ Look \/ ReadPrompt \/ ReadConfig

-----------------------------------------------------------------------------
(* The runtime screen.                                                     *)

(* Once a drain was asked for, a screen without workers ends the process.  *)
(* Mutant: only the key ends it.                                           *)
NeverIdle(running) == FALSE
Idle(running) == running = {}

(* refreshMsg: what the cached snapshot said.                              *)
Refresh ==
  /\ Up
  /\ LET ends == screen.asked /\ ~screen.forced /\ Idle(view) IN
     /\ screen' = [screen EXCEPT !.running = view, !.forced = @ \/ ends]
     /\ stop' = (stop \/ ends)
  /\ UNCHANGED <<loop, pending, ready, draining, wanted, queue, work, view, hooks, reload, hist>>

(* The first q ends the process if the screen shows no worker, and drains  *)
(* it otherwise (RequestShutdownDrain).                                    *)
PressQ ==
  /\ Up /\ ~screen.asked
  /\ IF screen.running = {}
     THEN /\ screen' = [screen EXCEPT !.asked = TRUE, !.forced = TRUE]
          /\ stop' = TRUE /\ UNCHANGED <<wanted, queue>>
     ELSE /\ screen' = [screen EXCEPT !.asked = TRUE]
          /\ wanted' = TRUE /\ UNCHANGED stop
          /\ IF Room THEN Put([kind |-> "drain"]) ELSE UNCHANGED queue
  /\ UNCHANGED <<loop, pending, ready, draining, work, view, hooks, reload, hist>>

(* esc, ctrl+c, another q or a signal.                                     *)
Insist ==
  /\ Up /\ ~stop
  /\ screen' = [screen EXCEPT !.forced = TRUE] /\ stop' = TRUE
  /\ hist' = [hist EXCEPT !.insisted = TRUE]
  /\ UNCHANGED <<loop, pending, ready, draining, wanted, queue, work, view, hooks, reload>>

-----------------------------------------------------------------------------
Next ==
  \/ Launch \/ Fetch \/ EndTick \/ Poll \/ TakeEvent \/ End
  \/ \E w \in Workers : Dispatch(w) \/ Emit(w) \/ Finish(w) \/ SendExit(w)
  \/ \E d \in Deliveries : Arrive(d) \/ Handler(d)
  \/ Edit \/ Watch \/ UpdateRuntime
  \/ Refresh \/ PressQ \/ Insist

(* Go's select takes one of the ready channels at random, so an event or   *)
(* the end is not passed over forever, and senders wait in line.  The poll *)
(* is not assumed: its timer is set back by every event that matters here. *)
(* Turns end by their timeouts.                                            *)
Fairness ==
  /\ WF_vars(Launch \/ Fetch \/ EndTick) /\ SF_vars(TakeEvent \/ End)
  /\ \A w \in Workers : WF_vars(Finish(w)) /\ WF_vars(SendExit(w))
  /\ \A d \in Deliveries : WF_vars(Handler(d))
  /\ WF_vars(Watch) /\ SF_vars(UpdateRuntime)
  /\ WF_vars(Refresh)

Spec == Init /\ [][Next]_vars /\ Fairness

-----------------------------------------------------------------------------
(* Properties.                                                             *)

(* While a wake-up is pending every other one is coalesced with it, so one *)
(* must really be on its way: in the channel, or about to be sent by the   *)
(* handler that claimed it.  A flag left over would end all wake-ups.      *)
Wakes == {k \in 1 .. Len(queue) : queue[k].kind = "refresh"}
Sending == {d \in Deliveries : handler[d] = "send"}
PendingIsBacked == Up /\ pending => Wakes # {} \/ Sending # {}

(* A delivery that was answered as queued, or as coalesced with a wake-up  *)
(* that found room, is followed without the poll by a tick that fetches    *)
(* after the change was made, or that comes to where it would have fetched *)
(* and has to do without: a tick that was past that point does not count.  *)
Woken(d) == handler[d] \in {"queued", "coalesced"} /\ d \notin hist.dropped
WakeUpSeen ==
  \A d \in Deliveries :
    Woken(d) ~> (d \in hist.seen \cup hist.lost \/ d \in hist.dropped \/ stop)

(* A drain ends by itself when the workers have ended.                     *)
DrainEnds == screen.asked ~> loop = "ended"

(* A good WORKFLOW.md that stays is eventually what the loop works with,   *)
(* prompt and config of the same version, unless its load failed or it was *)
(* there when the watcher first looked.                                    *)
Applied(v) == config = [prompt |-> v, config |-> v]
ReloadComes ==
  \A v \in Versions \ {0} :
    (file = [version |-> v, good |-> TRUE] /\ watch.at # "off") ~>
      (Applied(v) \/ file.version # v \/ hist.missed \/ stop)

(* README.md:228: once shutdown begins, Colin waits for active workers to  *)
(* go idle unless the user insists.                                        *)
DrainWaits == loop = "ended" /\ ~hist.insisted => \A w \in Workers : work[w] # "busy"

(* SPEC.md:1645: changes of WORKFLOW.md are detected and re-applied        *)
(* without restart.                                                        *)
EveryEditApplied ==
  \A v \in Versions \ {0} :
    (file = [version |-> v, good |-> TRUE]) ~> (Applied(v) \/ file.version # v \/ stop)
=============================================================================
