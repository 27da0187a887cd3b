------------------------------ MODULE Metadata ------------------------------
(***************************************************************************)
(* What Colin remembers about one issue: the metadata attachment in Linear *)
(* (tracker/linear/client.go), the goroutines that write it, and the two   *)
(* things that are said once because it says so: the summary in Slack      *)
(* (orchestrator/slack.go, notify/slack/notifier.go) and the               *)
(* acknowledgement of a delegation (service/service.go).                   *)
(*                                                                         *)
(* Every writer reads the whole value, works on its copy for a while, and  *)
(* writes the whole value back: the loop from the copy of the tick or of   *)
(* the running entry, the worker from the copy it was dispatched with, a   *)
(* webhook handler from the issue it fetched for the delivery.             *)
(***************************************************************************)
EXTENDS Integers, Sequences, FiniteSets, FiniteSetsExt

CONSTANTS
  Bases,        \* base URLs of the UI: an attachment's URL starts with one
  Active,       \* states that Colin works on
  Passive,      \* states it leaves alone
  Terminal,     \* states it closes with
  MaxMessages,  \* bound: summaries posted to Slack
  Deliveries,   \* webhook deliveries that say that the issue was delegated
  Announced,    \* what they may say: functions on Deliveries to Events
  Sessions,     \* agent sessions
  Faults,       \* bound: failed calls, restarts and steps of people
  NoState, NoSession, NoBase

States == Active \cup Passive \cup Terminal

(* source: the delivery names the comment that began the session.          *)
Events == [session : Sessions \cup {NoSession}, source : BOOLEAN]

ASSUME MetadataAssumption ==
  /\ {NoState, "none", "deleted"} \cap States = {}
  /\ NoSession \notin Sessions /\ NoBase \notin Bases
  /\ Announced \subseteq [Deliveries -> Events]
  /\ MaxMessages \in Nat /\ Faults \in Nat /\ Bases # {}

(* The value: the Slack message and the state it shows (its fingerprint),  *)
(* the delegation that was acknowledged, and whether it was ever written.  *)
Values == [message : 0 .. MaxMessages, print : States \cup {NoState},
           state : States \cup {NoState}, session : Sessions \cup {NoSession},
           rest : BOOLEAN]
Blank == [message |-> 0, print |-> NoState, state |-> NoState,
          session |-> NoSession, rest |-> FALSE]

VARIABLES
  board,        \* Linear: the state of the issue
  attachments,  \* Linear: the metadata attachments, the last updated last
  base,         \* the base URL of the UI now
  slack,        \* Slack: message -> the state it shows, or none, or deleted
  loop,         \* the loop's sync or write: where it is, the state it saw, its copy
  entry,        \* the running entry's copy, while a worker runs
  worker,       \* the worker: the same
  announce,     \* delivery -> what it says
  handler,      \* delivery -> the same of its handler
  reserved,     \* recentDelegationAcks: the states it has the issue in
  faults,
  hist          \* history: state -> replies since its reservation was last free

linear == <<board, attachments, base>>
acks == <<announce, handler, reserved, hist>>
metaVars == <<linear, slack, loop, entry, worker, acks, faults>>

AtRest == [at |-> "idle", seen |-> NoState, copy |-> Blank, target |-> NoBase, sync |-> FALSE]
NoEntry == [running |-> FALSE, copy |-> Blank]
Writer == [at : {"idle", "work", "sync", "said", "find", "put", "done"}, seen : States \cup {NoState},
           copy : Values, target : Bases \cup {NoBase}, sync : BOOLEAN]

MetaTypeOK ==
  /\ board \in States /\ base \in Bases
  /\ attachments \in Seq([base : Bases, value : Values])
  /\ \A i, j \in DOMAIN attachments : attachments[i].base = attachments[j].base => i = j
  /\ slack \in [1 .. MaxMessages -> States \cup {"none", "deleted"}]
  /\ loop \in Writer /\ worker \in Writer
  /\ entry \in [running : BOOLEAN, copy : Values]
  /\ announce \in Announced /\ handler \in [Deliveries -> Writer]
  /\ reserved \subseteq States
  /\ faults \in 0 .. Faults
  /\ hist \in [States -> Nat]

MetaInit ==
  /\ board \in Active /\ attachments = <<>> /\ base \in Bases
  /\ slack = [m \in 1 .. MaxMessages |-> "none"]
  /\ loop = AtRest /\ entry = NoEntry /\ worker = AtRest
  /\ announce \in Announced /\ handler = [d \in Deliveries |-> AtRest]
  /\ reserved = {} /\ faults = Faults /\ hist = [s \in States |-> 0]

Trouble == faults > 0 /\ faults' = faults - 1
Calm == UNCHANGED faults

-----------------------------------------------------------------------------
(* Reading.                                                                *)

(* selectCanonicalMetadataAttachment: the last updated.                    *)
(* Mutant: the first that Linear lists.                                    *)
FirstFound == attachments[1]
Canonical == attachments[Len(attachments)]

(* Blank Slack fields of a value are taken from another.                   *)
Fill(value, other) ==
  [value EXCEPT !.message = IF @ = 0 THEN other.message ELSE @,
                !.print = IF @ = NoState THEN other.print ELSE @]

(* mergeSlackMetadataFields: a field, of the last attachment that has it.  *)
Having(field) == {i \in DOMAIN attachments : attachments[i].value[field] # Blank[field]}
Latest(field) ==
  IF Having(field) = {} THEN Blank[field] ELSE attachments[Max(Having(field))].value[field]

(* normalizeIssue: the canonical value, its blank Slack fields merged.     *)
Read ==
  IF attachments = <<>> THEN Blank
  ELSE [Canonical.value EXCEPT !.message = Latest("message"), !.print = Latest("print")]

(* mergeRunningIssueContext, and mergeIssueContext without metadata.       *)
Merge(previous, current) == IF current = Blank THEN previous ELSE Fill(current, previous)

(* mergeKnownSlackIssueContext: what the entry knows, and Linear may have  *)
(* lost again.                                                             *)
(* Mutant: only what Linear says.                                          *)
OnlyRead(value) == value
Known(value) == IF entry.running THEN Merge(entry.copy, value) ELSE value

-----------------------------------------------------------------------------
(* UpsertIssueMetadata, of any writer: find the attachments, then update   *)
(* the canonical one or create the first.                                  *)

Target == IF attachments = <<>> THEN NoBase ELSE Canonical.base
Exists(b) == \E i \in DOMAIN attachments : attachments[i].base = b
Place(b) == CHOOSE i \in DOMAIN attachments : attachments[i].base = b
Without(b) ==
  IF Exists(b) THEN [i \in 1 .. Len(attachments) - 1 |->
                       attachments[IF i < Place(b) THEN i ELSE i + 1]]
  ELSE attachments
WithValue(b, value) == Append(Without(b), [base |-> b, value |-> value])

(* A create that Linear refuses, since another writer's came first, is     *)
(* turned into an update (isDuplicateMetadataAttachmentCreateError).       *)
Recovers(w) == IF w.target = NoBase /\ Exists(base) THEN {Canonical.base} ELSE {}

Destination(w) ==
  IF w.target # NoBase THEN {w.target}
  ELSE IF Exists(base) THEN Recovers(w) ELSE {base}

(* Linear has the value and says so, or does not say so; or it does not.   *)
Puts(w) ==
  \/ Calm /\ \E b \in Destination(w) : attachments' = WithValue(b, w.copy)
  \/ Calm /\ Destination(w) = {} /\ UNCHANGED attachments
  \/ Trouble /\ (UNCHANGED attachments \/ \E b \in Destination(w) : attachments' = WithValue(b, w.copy))

-----------------------------------------------------------------------------
(* The loop.                                                               *)

(* shouldSyncSlackIssue, on a tick.                                        *)
SyncsOnTick(value) ==
  \/ board \in Active
  \/ board \in Terminal /\ value.print # board

Tick ==
  /\ loop.at = "idle" /\ SyncsOnTick(Known(Read))
  /\ loop' = [AtRest EXCEPT !.at = "sync", !.seen = board, !.copy = Known(Read)]
  /\ UNCHANGED <<linear, slack, entry, worker, acks, faults>>

(* rememberSlackIssueContext.                                              *)
Remember(value) == entry' = IF entry.running THEN [entry EXCEPT !.copy = Merge(@, value)] ELSE entry
Rest(value) == loop' = AtRest /\ Remember(value)

(* SyncIssue: nothing if the fingerprint is the same, an update if there   *)
(* is a message, a new message if there is none or it was deleted.         *)
Updatable(value) == value.message # 0 /\ slack[value.message] # "deleted"
Fresh == {m \in 1 .. MaxMessages : slack[m] = "none" /\ \A k \in 1 .. m - 1 : slack[k] # "none"}
Shows(m) == slack' = [slack EXCEPT ![m] = loop.seen]
Persist(m) ==
  loop' = [loop EXCEPT !.at = "find", !.copy.message = m, !.copy.print = loop.seen,
                         !.copy.rest = TRUE]

SyncSame ==
  /\ loop.at = "sync" /\ loop.copy.print = loop.seen /\ Rest(loop.copy)
  /\ UNCHANGED <<linear, slack, worker, acks, faults>>

SyncUpdates ==
  /\ loop.at = "sync" /\ loop.copy.print # loop.seen /\ Updatable(loop.copy)
  /\ Shows(loop.copy.message) /\ Persist(loop.copy.message)
  /\ UNCHANGED <<linear, entry, worker, acks, faults>>

SyncPosts ==
  /\ loop.at = "sync" /\ loop.copy.print # loop.seen /\ ~Updatable(loop.copy)
  /\ \E m \in Fresh : Shows(m) /\ Persist(m)
  /\ UNCHANGED <<linear, entry, worker, acks, faults>>

(* Slack does not answer; it may have done what it was asked.              *)
SyncFails ==
  /\ loop.at = "sync" /\ loop.copy.print # loop.seen /\ Trouble /\ Rest(loop.copy)
  /\ \/ UNCHANGED slack
     \/ Updatable(loop.copy) /\ Shows(loop.copy.message)
     \/ ~Updatable(loop.copy) /\ \E m \in Fresh : Shows(m)
  /\ UNCHANGED <<linear, worker, acks>>

(* persistSlackNotificationState, and the other writes of the loop         *)
(* (persistIssueMetadata, persistLoopMetadata).  The copy is kept even     *)
(* when the write fails.                                                   *)
LoopFinds ==
  /\ loop.at = "find"
  /\ \/ loop' = [loop EXCEPT !.at = "put", !.target = Target] /\ UNCHANGED <<entry, faults>>
     \/ Trouble /\ Rest(loop.copy)
  /\ UNCHANGED <<linear, slack, worker, acks>>

LoopPuts ==
  /\ loop.at = "put" /\ Puts(loop)
  /\ \/ /\ loop.sync /\ UNCHANGED entry
        /\ loop' = [AtRest EXCEPT !.at = "sync", !.seen = loop.seen, !.copy = loop.copy]
     \/ ~loop.sync /\ Rest(loop.copy)
  /\ UNCHANGED <<board, base, slack, worker, acks>>

(* handleCommentEvent: comments and their ids, from the entry's copy.      *)
Comment ==
  /\ loop.at = "idle" /\ entry.running
  /\ loop' = [AtRest EXCEPT !.at = "find", !.copy = [entry.copy EXCEPT !.rest = TRUE]]
  /\ UNCHANGED <<linear, slack, entry, worker, acks, faults>>

(* A worker is dispatched with the issue as this tick read it.             *)
Dispatch ==
  /\ loop.at = "idle" /\ worker.at = "idle" /\ ~entry.running /\ board \in Active
  /\ worker' = [AtRest EXCEPT !.at = "work", !.seen = board, !.copy = Read]
  /\ entry' = [running |-> TRUE, copy |-> Read]
  /\ UNCHANGED <<linear, slack, loop, acks, faults>>

(* handleWorkerExit: the result has the worker's copy.  Output that was    *)
(* seen, or a failure, is written down with it; then, unless it was        *)
(* stopped or failed, the summary is synced, in whatever state.            *)
Exit ==
  /\ loop.at = "idle" /\ worker.at = "done"
  /\ worker' = AtRest /\ entry' = NoEntry
  /\ LET result == [AtRest EXCEPT !.seen = worker.seen, !.copy = Merge(entry.copy, worker.copy)] IN
     \E writes, syncs \in BOOLEAN :
       loop' = CASE writes -> [result EXCEPT !.at = "find", !.sync = syncs, !.copy.rest = TRUE]
                 [] ~writes /\ syncs -> [result EXCEPT !.at = "sync"]
                 [] OTHER -> AtRest
  /\ UNCHANGED <<linear, slack, acks, faults>>

-----------------------------------------------------------------------------
(* The worker: it writes its branch, its decision, its outcome, and reads  *)
(* the issue again after every turn.                                       *)

WorkerWrites ==
  /\ worker.at = "work" /\ worker' = [worker EXCEPT !.at = "find", !.copy.rest = TRUE]
  /\ UNCHANGED <<linear, slack, loop, entry, acks, faults>>

WorkerFinds ==
  /\ worker.at = "find"
  /\ \/ worker' = [worker EXCEPT !.at = "put", !.target = Target] /\ Calm
     \/ worker' = [worker EXCEPT !.at = "work"] /\ Trouble
  /\ UNCHANGED <<linear, slack, loop, entry, acks>>

WorkerPuts ==
  /\ worker.at = "put" /\ Puts(worker)
  /\ worker' = [worker EXCEPT !.at = "work", !.target = NoBase]
  /\ UNCHANGED <<board, base, slack, loop, entry, acks>>

WorkerRefreshes ==
  /\ worker.at = "work" /\ worker' = [worker EXCEPT !.seen = board, !.copy = Merge(@, Read)]
  /\ UNCHANGED <<linear, slack, loop, entry, acks, faults>>

(* It ends, maybe with a handoff.                                          *)
WorkerEnds ==
  /\ worker.at = "work"
  /\ \E s \in {worker.seen} \cup Passive \cup Terminal :
       /\ worker' = [worker EXCEPT !.at = "done", !.seen = s]
       /\ board' = IF s = worker.seen THEN board ELSE s
  /\ UNCHANGED <<attachments, base, slack, loop, entry, acks, faults>>

-----------------------------------------------------------------------------
(* Acknowledgements of delegations, in the handlers of Linear's webhook.   *)

Goes(d, record) == handler' = [handler EXCEPT ![d] = record]

(* The issue is fetched for the delivery.                                  *)
Fetched(d) ==
  /\ handler[d].at = "idle" /\ Goes(d, [AtRest EXCEPT !.at = "work", !.seen = board, !.copy = Read])
  /\ UNCHANGED <<linear, slack, loop, entry, worker, announce, reserved, hist, faults>>

(* shouldPostDelegationAcknowledgement; the kind of the acknowledgement    *)
(* follows from the state.                                                 *)
ShouldPost(d) ==
  LET value == handler[d].copy  session == announce[d].session IN
  \/ value.state # handler[d].seen
  \/ session # NoSession /\ value.session # session

(* One who answers a comment looks whether there is a reservation and      *)
(* makes one in the same step; the others only look.                       *)
(* Mutant: nobody makes one.                                               *)
OnlyLooks(d) == UNCHANGED reserved
Reserves(d) == reserved' = IF announce[d].source THEN reserved \cup {handler[d].seen} ELSE reserved

(* The activity that acknowledgeLinearAgentSession posts for an agent      *)
(* session, beside this, writes no metadata and makes no reservation; it   *)
(* is left out.                                                            *)
Decide(d) ==
  LET state == handler[d].seen
      posts == ShouldPost(d) /\ state \notin reserved IN
  /\ handler[d].at = "work"
  /\ \/ posts /\ Reserves(d)
        /\ Goes(d, [handler[d] EXCEPT !.at = "said", !.copy.state = state,
                                      !.copy.session = announce[d].session, !.copy.rest = TRUE])
     \/ ~posts /\ Goes(d, [AtRest EXCEPT !.at = "done"]) /\ UNCHANGED reserved
  /\ UNCHANGED <<linear, slack, loop, entry, worker, announce, hist, faults>>

Holder(d, state) == announce[d].source /\ handler[d].seen = state
Freed(d, state) == reserved \ (IF Holder(d, state) THEN {state} ELSE {})
Post(d) ==
  LET state == handler[d].seen IN
  /\ handler[d].at = "said"
  /\ Goes(d, [handler[d] EXCEPT !.at = "find"])
  /\ hist' = IF Holder(d, state) THEN [hist EXCEPT ![state] = @ + 1] ELSE hist
  /\ UNCHANGED <<linear, slack, loop, entry, worker, announce, reserved, faults>>

(* The comment was not made, or the answer was lost: the reservation is    *)
(* given back (releaseDelegationAcknowledgement).                          *)
PostFails(d) ==
  LET state == handler[d].seen IN
  /\ handler[d].at = "said" /\ Trouble
  /\ Goes(d, [AtRest EXCEPT !.at = "done"])
  /\ reserved' = Freed(d, state)
  /\ hist' = IF Holder(d, state) THEN [hist EXCEPT ![state] = 0] ELSE hist
  /\ UNCHANGED <<linear, slack, loop, entry, worker, announce>>

HandlerFinds(d) ==
  /\ handler[d].at = "find"
  /\ \/ Goes(d, [handler[d] EXCEPT !.at = "put", !.target = Target]) /\ Calm
     \/ Goes(d, [AtRest EXCEPT !.at = "done"]) /\ Trouble
  /\ UNCHANGED <<linear, slack, loop, entry, worker, announce, reserved, hist>>

HandlerPuts(d) ==
  /\ handler[d].at = "put" /\ Puts(handler[d])
  /\ Goes(d, [AtRest EXCEPT !.at = "done"])
  /\ UNCHANGED <<board, base, slack, loop, entry, worker, announce, reserved, hist>>

(* A reservation lasts as long as the time that its holder has for its     *)
(* calls, so it does not expire while one posts.                           *)
Expire(state) ==
  /\ state \in reserved
  /\ \A d \in Deliveries : Holder(d, state) => handler[d].at \notin {"said", "find", "put"}
  /\ reserved' = reserved \ {state} /\ hist' = [hist EXCEPT ![state] = 0]
  /\ UNCHANGED <<linear, slack, loop, entry, worker, announce, handler, faults>>

-----------------------------------------------------------------------------
(* People and restarts.                                                    *)

Move ==
  /\ Trouble /\ board' \in States \ {board}
  /\ UNCHANGED <<attachments, base, slack, loop, entry, worker, acks>>

Delete ==
  /\ Trouble
  /\ \E m \in 1 .. MaxMessages : slack[m] \in States /\ slack' = [slack EXCEPT ![m] = "deleted"]
  /\ UNCHANGED <<linear, loop, entry, worker, acks>>

(* The URL follows Tailscale's funnel, which may come up meanwhile         *)
(* (resolvedUIBaseURL).                                                    *)
Rebase ==
  /\ Trouble /\ base' \in Bases \ {base}
  /\ UNCHANGED <<board, attachments, slack, loop, entry, worker, acks>>

Restart ==
  /\ Trouble
  /\ loop' = AtRest /\ entry' = NoEntry /\ worker' = AtRest
  /\ handler' = [d \in Deliveries |-> IF handler[d].at = "idle" THEN AtRest ELSE [AtRest EXCEPT !.at = "done"]]
  /\ reserved' = {} /\ hist' = [s \in States |-> 0]
  /\ UNCHANGED <<linear, slack, announce>>

LoopStep ==
  \/ Tick \/ SyncSame \/ SyncUpdates \/ SyncPosts \/ LoopFinds \/ LoopPuts
  \/ Comment \/ Dispatch \/ Exit
WorkerStep == WorkerWrites \/ WorkerFinds \/ WorkerPuts \/ WorkerRefreshes \/ WorkerEnds
HandlerStep(d) == Fetched(d) \/ Decide(d) \/ Post(d) \/ HandlerFinds(d) \/ HandlerPuts(d)

MetaNext ==
  \/ LoopStep \/ SyncFails \/ WorkerStep
  \/ \E d \in Deliveries : HandlerStep(d) \/ PostFails(d)
  \/ \E s \in States : Expire(s)
  \/ Move \/ Delete \/ Rebase \/ Restart

MetaSpec == MetaInit /\ [][MetaNext]_metaVars

-----------------------------------------------------------------------------
(* Properties.                                                             *)

Writers == {loop, worker} \cup {handler[d] : d \in Deliveries}

(* However first writes of several goroutines meet, each of them is in     *)
(* Linear when it is over, unless a call failed: a create that lost the    *)
(* race becomes an update of what won it.  And what was written is what is *)
(* read next, whatever other attachments the issue has                     *)
(* (UpsertIssueMetadata, selectCanonicalMetadataAttachment).               *)
Landed(before, after) ==
  before.at = "put" /\ after # before => Fill(before.copy, Read') = Read'
WriteLands ==
  [][faults' = faults =>
       /\ Landed(loop, loop') /\ Landed(worker, worker')
       /\ \A d \in Deliveries : Landed(handler[d], handler'[d])]_metaVars

(* While a worker runs whose entry knows a message, another is posted only *)
(* when a person has deleted the one that the sync works with, though the  *)
(* worker may have erased that one's id in Linear with its old copy        *)
(* (mergeKnownSlackIssueContext).                                          *)
Posts == \E m \in 1 .. MaxMessages : slack[m] = "none" /\ slack'[m] # "none"
OneMessageWhileRunning ==
  [][Posts /\ entry.running /\ entry.copy.message # 0 =>
       loop.copy.message # 0 /\ slack[loop.copy.message] = "deleted"]_metaVars

(* Deliveries that answer a comment about the same delegation are answered *)
(* once while the first answer is remembered, however they overlap         *)
(* (reserveDelegationAcknowledgement).                                     *)
AnsweredOnce == \A s \in States : hist[s] <= 1

(* README.md:53: "Each tracked issue gets one Slack message that updates in *)
(* place".                                                                 *)
OneMessage == Cardinality({m \in 1 .. MaxMessages : slack[m] \in States}) <= 1
=============================================================================
