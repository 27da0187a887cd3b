----------------------------- MODULE CodexTurn -----------------------------
(***************************************************************************)
(* The Codex app-server of one issue's runs (agent/codex): the process     *)
(* that a run starts, its thread, the turns and their notifications, what  *)
(* a turn leaves behind for the runner (its result, its outcome line, its  *)
(* last text), and what the loop adds up from the events of the client     *)
(* (orchestrator.go, handleCodexEvent and applyUsage).                     *)
(*                                                                         *)
(* The app-server is external: it may say anything that the client has a   *)
(* case for, be silent, refuse a request, or die.                          *)
(***************************************************************************)
EXTENDS Integers, Sequences, FiniteSets

CONSTANTS
  Outcomes,        \* the outcome lines of a final response
  MaxRuns,         \* bound: runs of the issue
  MaxTurns,        \* agent.max_turns
  MaxNotes,        \* bound: notifications of one turn
  MaxUse,          \* bound: tokens used in all threads
  Capacity,        \* of the event channel
  StallDetection   \* codex.stall_timeout_ms is positive

ASSUME CodexTurnAssumption ==
  /\ {MaxRuns, MaxTurns, MaxNotes, Capacity} \subseteq Nat \ {0}
  /\ MaxUse \in Nat /\ StallDetection \in BOOLEAN
  /\ "none" \notin Outcomes /\ "plain" \notin Outcomes

Threads == 1 .. MaxRuns
Turns == 1 .. MaxTurns
Uses == 0 .. MaxUse
Totals == 0 .. MaxUse * MaxRuns
NoUse == -1

(* What is left of a notification: its method, the text that is found in   *)
(* it and the token counts it holds.  An error is retried by the server,   *)
(* has no message, has one, or has one about user input.  A turn completes *)
(* well, or with an error or the status "failed".                          *)
Texts == Outcomes \cup {"plain", "none"}
Endings == {"completed", "broke", "failed", "cancelled", "error", "input"}
Kinds == Endings \cup {"item", "message", "usage", "retrying", "bare"}
Shapes == {"total_token_usage", "tokenUsage.total", "last_token_usage", "none"}
Notes == [kind : Kinds, text : Texts, shape : Shapes, total : Uses, last : Uses]
Note(kind) == [kind |-> kind, text |-> "none", shape |-> "none", total |-> 0, last |-> 0]

Results == {"none", "ok", "failed", "timeout", "cancelled", "input", "exit", "startup"}
Phases == {"off", "launch", "initialize", "thread", "ready", "turn", "over", "stopped"}
Items == [kind : {"session", "note", "failed", "exit"}, usage : Uses \cup {NoUse}]
Said == [text : Texts, turn : 0 .. MaxTurns]
Silence == [text |-> "none", turn |-> 0]

VARIABLES
  server,   \* the process: up, its turn going, how that one ended, notes to come
  used,     \* thread -> tokens used
  stream,   \* notifications that the client has not read
  client,   \* phase, thread, turn; result, outcome line and last item of the turn
  stored,   \* the thread id in the issue's metadata, or 0
  events,   \* the event channel
  entry,    \* the running entry: its session's counters, whether it is stopped
  totals,   \* the loop's token total
  hist      \* history: runs so far, sum of the last reports of ended sessions

vars == <<server, used, stream, client, stored, events, entry, totals, hist>>

Off == [phase |-> "off", thread |-> 0, turn |-> 0, result |-> "none",
        summary |-> Silence, output |-> Silence]
NoServer == [up |-> FALSE, busy |-> FALSE, end |-> "none", notes |-> 0]
NoEntry == [running |-> FALSE, stopping |-> FALSE, reported |-> 0, turns |-> 0]

TypeOK ==
  /\ server \in [up : BOOLEAN, busy : BOOLEAN, end : Endings \cup {"none"}, notes : 0 .. MaxNotes]
  /\ used \in [Threads -> Uses] /\ stream \in Seq(Notes)
  /\ client \in [phase : Phases, thread : Threads \cup {0}, turn : 0 .. MaxTurns, result : Results,
                 summary : Said, output : Said]
  /\ stored \in Threads \cup {0}
  /\ events \in Seq(Items) /\ Len(events) <= Capacity
  /\ entry \in [running : BOOLEAN, stopping : BOOLEAN, reported : Uses, turns : 0 .. MaxTurns]
  /\ totals \in Totals /\ hist \in [runs : 0 .. MaxRuns, ended : Totals]
  /\ client.phase = "turn" => client.turn \in Turns

Init ==
  /\ server = NoServer /\ used = [t \in Threads |-> 0] /\ stream = <<>>
  /\ client = Off /\ stored = 0
  /\ events = <<>> /\ entry = NoEntry /\ totals = 0 /\ hist = [runs |-> 0, ended |-> 0]

Room == Len(events) < Capacity
Send(kind, usage) == Room /\ events' = Append(events, [kind |-> kind, usage |-> usage])

-----------------------------------------------------------------------------
(* Starting.                                                               *)

Dispatch ==
  /\ ~entry.running /\ client.phase = "off" /\ hist.runs < MaxRuns
  /\ entry' = [NoEntry EXCEPT !.running = TRUE]
  /\ client' = [Off EXCEPT !.phase = "launch"]
  /\ hist' = [hist EXCEPT !.runs = @ + 1]
  /\ UNCHANGED <<server, used, stream, stored, events, totals>>

(* newShellTransport.                                                      *)
Launch ==
  /\ client.phase = "launch"
  /\ server' = [NoServer EXCEPT !.up = TRUE]
  /\ client' = [client EXCEPT !.phase = "initialize"]
  /\ UNCHANGED <<used, stream, stored, events, entry, totals, hist>>

(* sdk.New has its answer.                                                 *)
Initialized ==
  /\ client.phase = "initialize" /\ server.up /\ client' = [client EXCEPT !.phase = "thread"]
  /\ UNCHANGED <<server, used, stream, stored, events, entry, totals, hist>>

(* startThread resumes the stored thread, or starts another when there is  *)
(* none or it cannot be resumed.  The thread's id is then stored, if Linear *)
(* takes it.                                                               *)
Unused == {t \in Threads : used[t] = 0 /\ t # stored}
StartThread ==
  /\ client.phase = "thread" /\ server.up
  /\ \E t \in {stored} \cup Unused :
       /\ t # 0
       /\ client' = [client EXCEPT !.phase = "ready", !.thread = t]
       /\ stored' \in {t, stored}
  /\ UNCHANGED <<server, used, stream, events, entry, totals, hist>>

(* The command is not found, a request is refused, the process dies or is  *)
(* killed with the run's context; nothing else ends the wait.              *)
Starting == client.phase \in {"launch", "initialize", "thread"}
StartFails ==
  /\ Starting /\ Send("failed", NoUse)
  /\ client' = [client EXCEPT !.phase = "over", !.result = "startup"]
  /\ server' = NoServer
  /\ UNCHANGED <<used, stream, stored, entry, totals, hist>>
StartCancelled == entry.stopping /\ StartFails
StartRefused == ~entry.stopping /\ StartFails

-----------------------------------------------------------------------------
(* A turn.                                                                 *)

(* Mutant: what the turn before it said is kept.                           *)
NotReset(c) == c
Reset(c) == [c EXCEPT !.summary = Silence, !.output = Silence]

RunTurn ==
  /\ client.phase = "ready" /\ client.turn < MaxTurns
  /\ \/ /\ server.up /\ ~entry.stopping
        /\ client' = [Reset(client) EXCEPT !.phase = "turn", !.turn = @ + 1, !.result = "none"]
        /\ server' = [server EXCEPT !.busy = TRUE, !.end = "none", !.notes = 0]
        /\ Send("session", NoUse) /\ UNCHANGED stream
     \/ /\ \E why \in {"failed", "exit", "cancelled"} :
             /\ why = "exit" => ~server.up
             /\ why = "cancelled" => entry.stopping
             /\ client' = [Reset(client) EXCEPT !.phase = "over", !.turn = @ + 1, !.result = why]
        /\ UNCHANGED <<server, stream, events>>
  /\ UNCHANGED <<used, stored, entry, totals, hist>>

(* The server's notifications, while the client listens.  It counts tokens *)
(* for the thread, and reports the total of the thread in one of two       *)
(* shapes, or only those of the last response.                             *)
Says(note) ==
  /\ server.up /\ server.busy /\ server.notes < MaxNotes /\ client.phase = "turn"
  /\ stream' = Append(stream, note)
  /\ server' = [server EXCEPT !.notes = @ + 1,
                  !.busy = note.kind \notin Endings,
                  !.end = IF note.kind \in Endings THEN note.kind ELSE @]
  /\ UNCHANGED <<client, stored, events, entry, totals, hist>>

SaysText ==
  \E kind \in {"item", "message"}, text \in Texts :
    Says([Note(kind) EXCEPT !.text = text]) /\ UNCHANGED used

Spent == LET sum[t \in 0 .. MaxRuns] == IF t = 0 THEN 0 ELSE used[t] + sum[t - 1] IN sum[MaxRuns]
SaysUsage ==
  \E n \in Uses, shape \in Shapes \ {"none"} :
    LET total == used[client.thread] + n IN
    /\ client.thread # 0 /\ Spent + n <= MaxUse
    /\ Says([Note("usage") EXCEPT !.shape = shape, !.last = n,
                !.total = IF shape = "last_token_usage" THEN 0 ELSE total])
    /\ used' = [used EXCEPT ![client.thread] = total]

SaysError == \E kind \in {"retrying", "bare"} : Says(Note(kind)) /\ UNCHANGED used
EndsTurn == \E kind \in Endings : Says(Note(kind)) /\ UNCHANGED used

Dies ==
  /\ server.up /\ server' = [server EXCEPT !.up = FALSE]
  /\ UNCHANGED <<used, stream, client, stored, events, entry, totals, hist>>

(* extractUsage: the total of the thread, wherever it is, and never only   *)
(* the tokens of the last response.                                        *)
(* Mutant: whatever counts are found first.                                *)
AnyUsage(note) == IF note.kind = "usage" THEN note.last ELSE NoUse
Usage(note) ==
  IF note.shape \in {"total_token_usage", "tokenUsage.total"} THEN note.total ELSE NoUse

(* The switch of runTurn with notificationRuntimeError: what ends a turn,  *)
(* and how.                                                                *)
Verdict(note) ==
  CASE note.kind = "completed"                      -> "ok"
    [] note.kind \in {"broke", "failed", "error"}   -> "failed"
    [] note.kind \in {"cancelled", "input"}         -> note.kind
    [] OTHER                                        -> "none"

(* shouldCaptureSummary and completedItemText.                             *)
Hears(c, note) ==
  LET said == [text |-> note.text, turn |-> c.turn] IN
  [c EXCEPT !.summary = IF note.text \in Outcomes THEN said ELSE @,
            !.output = IF note.kind = "item" /\ note.text # "none" THEN said ELSE @]

Read ==
  /\ client.phase = "turn" /\ stream # <<>>
  /\ LET note == Head(stream)  heard == Hears(client, note) IN
     /\ Send("note", Usage(note))
     /\ IF Verdict(note) = "none" THEN client' = heard /\ stream' = Tail(stream)
        ELSE client' = [heard EXCEPT !.phase = "over", !.result = Verdict(note)] /\ stream' = <<>>
  /\ UNCHANGED <<server, used, stored, entry, totals, hist>>

(* stream.Next fails: the process is gone, the turn has had its time, or   *)
(* the run is cancelled.                                                   *)
TurnEndsWith(why) ==
  /\ client.phase = "turn"
  /\ client' = [client EXCEPT !.phase = "over", !.result = why] /\ stream' = <<>>
  /\ UNCHANGED <<server, used, stored, events, entry, totals, hist>>
PortExit == stream = <<>> /\ ~server.up /\ TurnEndsWith("exit")
(* Mutant: the turn may take as long as it likes.                          *)
NoTimeout == client.phase = "turn" /\ entry.stopping /\ TurnEndsWith("timeout")
Timeout == TurnEndsWith("timeout")
TurnCancelled == entry.stopping /\ TurnEndsWith("cancelled")

-----------------------------------------------------------------------------
(* The runner between turns, and the end of the run: Stop closes the       *)
(* client, which kills the process.                                        *)

Continue ==
  /\ client.phase = "over" /\ client.result = "ok" /\ client.turn < MaxTurns
  /\ client' = [client EXCEPT !.phase = "ready"]
  /\ UNCHANGED <<server, used, stream, stored, events, entry, totals, hist>>

Stop ==
  /\ client.phase = "over" \/ client.phase = "ready"
  /\ Send("exit", NoUse)
  /\ client' = [client EXCEPT !.phase = "stopped"]
  /\ server' = NoServer
  /\ UNCHANGED <<used, stream, stored, entry, totals, hist>>

-----------------------------------------------------------------------------
(* The loop.                                                               *)

(* applyUsage: the difference to the last report is added.                 *)
(* Mutant: the report is added.                                            *)
Whole(usage) == usage
Delta(usage) == IF usage > entry.reported THEN usage - entry.reported ELSE 0

TakeEvent ==
  /\ events # <<>> /\ Head(events).kind # "exit"
  /\ LET event == Head(events) IN
     /\ events' = Tail(events)
     /\ entry' = [entry EXCEPT !.turns = IF event.kind = "session" THEN @ + 1 ELSE @,
                               !.reported = IF event.usage = NoUse THEN @ ELSE event.usage]
     /\ totals' = IF event.usage = NoUse THEN totals ELSE totals + Delta(event.usage)
  /\ UNCHANGED <<server, used, stream, client, stored, hist>>

TakeExit ==
  /\ events # <<>> /\ Head(events).kind = "exit"
  /\ events' = Tail(events) /\ entry' = NoEntry
  /\ hist' = [hist EXCEPT !.ended = @ + entry.reported]
  /\ client' = Off
  /\ UNCHANGED <<server, used, stream, stored, totals>>

(* requestStop: the issue left its state, or nothing was heard for too     *)
(* long, as it must be when a start is not answered.                       *)
RequestStop ==
  /\ entry.running /\ ~entry.stopping /\ client.phase # "stopped"
  /\ entry' = [entry EXCEPT !.stopping = TRUE]
  /\ UNCHANGED <<server, used, stream, client, stored, events, totals, hist>>
StopStalled == StallDetection /\ Starting /\ RequestStop

ClientStep == RunTurn \/ Read \/ PortExit \/ Continue \/ Stop
Next ==
  \/ Dispatch \/ Launch \/ Initialized \/ StartThread \/ StartRefused \/ StartCancelled
  \/ ClientStep \/ Timeout \/ TurnCancelled
  \/ SaysText \/ SaysUsage \/ SaysError \/ EndsTurn \/ Dies
  \/ TakeEvent \/ TakeExit \/ RequestStop

(* The goroutines of Colin go on; the turn's timer and, where it is        *)
(* configured, stall detection fire.  Nothing makes the server answer.     *)
Fairness ==
  /\ WF_vars(Launch) /\ WF_vars(StartCancelled) /\ WF_vars(StopStalled)
  /\ WF_vars(RunTurn) /\ WF_vars(Read) /\ WF_vars(Timeout) /\ WF_vars(Stop)
  /\ WF_vars(TakeEvent \/ TakeExit)

Spec == Init /\ [][Next]_vars /\ Fairness

-----------------------------------------------------------------------------
(* Properties.                                                             *)

(* The token total is the sum of what every session reported last: a total *)
(* that is reported twice, in whichever shape, is counted once, and the    *)
(* counts of a single response are not taken for totals (extractUsage,     *)
(* applyUsage).                                                            *)
TotalsAreReports == totals = hist.ended + entry.reported

(* What the runner reads after a turn, its outcome line or its last text,  *)
(* was said in that turn, however the turn ended (resetTurnState,          *)
(* finishTurn).                                                            *)
LatestTurnSummary == IF client.summary.text # "none" THEN client.summary ELSE client.output
OutputOfThisTurn ==
  client.phase = "over" /\ LatestTurnSummary.text # "none" => LatestTurnSummary.turn = client.turn

(* Every run ends, whatever the server does: turns have a timeout, and a   *)
(* start that is not answered is stopped as stalled.                       *)
RunEnds == entry.running ~> ~entry.running

(* SPEC.md:1159: "`codex.read_timeout_ms`: request/response timeout during *)
(* startup and sync requests".                                             *)
StartAnswersOrTimesOut == Starting ~> ~Starting
=============================================================================
