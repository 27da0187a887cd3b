-------------------------- MODULE CodexTurn_proofs -------------------------
(***************************************************************************)
(* What holds of the Codex turns of an issue and of the tokens that the    *)
(* loop counts, for any numbers of runs, turns, notifications and tokens   *)
(* and any capacity of the event channel.                                  *)
(*                                                                         *)
(* The reports on their way, those in the event channel before those the   *)
(* client has not read, never fall: they are between what the loop was     *)
(* told last and what the thread has used.  So the difference that         *)
(* applyUsage adds is the whole difference, whichever reports repeat.      *)
(***************************************************************************)
EXTENDS CodexTurn, TLAPS

Heard == [kind : Kinds, text : Texts, shape : Shapes, total : Nat, last : Nat]
Sent == [kind : {"session", "note", "failed", "exit"}, usage : Nat \cup {NoUse}]
Clients == [phase : Phases, thread : Threads \cup {0}, turn : Nat, result : Results,
            summary : [text : Texts, turn : Nat], output : [text : Texts, turn : Nat]]

(* The types that the counts rest on, without the bounds.                  *)
Shape ==
  /\ used \in [Threads -> Nat] /\ stream \in Seq(Heard) /\ client \in Clients
  /\ stored \in Threads \cup {0} /\ events \in Seq(Sent)
  /\ entry \in [running : BOOLEAN, stopping : BOOLEAN, reported : Nat, turns : Nat]
  /\ totals \in Nat /\ hist \in [runs : Nat, ended : Nat]

Early == {"off", "launch", "initialize", "thread"}

(* Where a turn stands.                                                    *)
Stands ==
  /\ client.phase # "turn" => stream = <<>>
  /\ client.phase \in Early => client.thread = 0
  /\ \A k \in 1 .. Len(events) :
       events[k].kind = "exit" => k = Len(events) /\ client.phase = "stopped"

(* The reports on their way, in the order in which the loop will see them. *)
Length == Len(events) + Len(stream)
Pipe(k) == IF k <= Len(events) THEN events[k].usage ELSE Usage(stream[k - Len(events)])

Rising ==
  /\ \A k, n \in 1 .. Length : k < n /\ Pipe(k) # NoUse /\ Pipe(n) # NoUse => Pipe(k) <= Pipe(n)
  /\ \A k \in 1 .. Length : Pipe(k) # NoUse => entry.reported <= Pipe(k)

Covered ==
  /\ client.thread = 0 =>
       entry.reported = 0 /\ \A k \in 1 .. Length : Pipe(k) = NoUse
  /\ client.thread # 0 =>
       /\ entry.reported <= used[client.thread]
       /\ \A k \in 1 .. Length : Pipe(k) # NoUse => Pipe(k) <= used[client.thread]

(* What was kept of a turn was said in it.                                 *)
Kept ==
  /\ client.summary.text # "none" => client.summary.turn = client.turn
  /\ client.output.text # "none" => client.output.turn = client.turn

UsageInv == Shape /\ Stands /\ Rising /\ Covered /\ TotalsAreReports

-----------------------------------------------------------------------------
(* Sequences.                                                              *)

LEMMA AppendAt ==
  ASSUME NEW T, NEW s \in Seq(T), NEW x \in T
  PROVE  /\ Append(s, x) \in Seq(T) /\ Len(Append(s, x)) = Len(s) + 1 /\ Len(s) \in Nat
         /\ \A k \in 1 .. Len(s) : Append(s, x)[k] = s[k]
         /\ Append(s, x)[Len(s) + 1] = x
OBVIOUS

LEMMA TailAt ==
  ASSUME NEW T, NEW s \in Seq(T), s # <<>>
  PROVE  /\ Tail(s) \in Seq(T) /\ Len(Tail(s)) = Len(s) - 1 /\ Len(s) \in Nat /\ Len(s) > 0
         /\ \A k \in 1 .. Len(s) - 1 : Tail(s)[k] = s[k + 1]
         /\ Head(s) = s[1] /\ Head(s) \in T
OBVIOUS

LEMMA Lengths ==
  ASSUME Shape
  PROVE  Len(events) \in Nat /\ Len(stream) \in Nat
BY DEF Shape

LEMMA Numbers ==
  /\ MaxRuns \in Nat \ {0} /\ MaxTurns \in Nat \ {0} /\ MaxUse \in Nat
  /\ NoUse \in Int /\ NoUse < 0
BY CodexTurnAssumption DEF NoUse

LEMMA UsageType ==
  ASSUME NEW note \in Heard
  PROVE  Usage(note) \in Nat \cup {NoUse}
BY DEF Usage, Heard

LEMMA PipeType ==
  ASSUME Shape, NEW k \in 1 .. Length
  PROVE  Pipe(k) \in Nat \cup {NoUse}
<1>1. Len(events) \in Nat /\ Len(stream) \in Nat
  BY Lengths
<1>2. CASE k <= Len(events)
  <2>1. events[k] \in Sent
    BY <1>1, <1>2 DEF Shape, Length
  <2> QED BY <1>2, <2>1 DEF Pipe, Sent
<1>3. CASE ~(k <= Len(events))
  <2>1. k - Len(events) \in 1 .. Len(stream)
    BY <1>1, <1>3 DEF Length
  <2>2. stream[k - Len(events)] \in Heard
    BY <2>1 DEF Shape
  <2> QED BY <1>3, <2>2, UsageType DEF Pipe
<1> QED BY <1>2, <1>3

-----------------------------------------------------------------------------
(* What a step does to the reports on their way.                           *)

(* One more, which is no report or is one of at least what was reported:   *)
(* the thread has used no less than before.                                *)
LEMMA OneMore ==
  ASSUME Shape, Rising, Covered, NEW u \in Nat \cup {NoUse}, NEW last, last = Length + 1,
         Length' = last, \A k \in 1 .. Length : Pipe(k)' = Pipe(k), Pipe(last)' = u,
         entry'.reported = entry.reported,
         client'.thread = client.thread,
         client.thread = 0 => u = NoUse,
         client.thread # 0 =>
           /\ used[client.thread] \in Nat /\ used'[client.thread] \in Nat
           /\ used[client.thread] <= used'[client.thread]
           /\ u # NoUse => used[client.thread] <= u /\ u <= used'[client.thread]
  PROVE  Rising' /\ Covered'
<1>1. Length \in Nat /\ entry.reported \in Nat
  BY Lengths DEF Length, Shape
<1>2. 1 .. Length' = (1 .. Length) \cup {last}
  BY <1>1
<1>3. \A k \in 1 .. Length : Pipe(k) \in Nat \cup {NoUse}
  BY PipeType
<1>4. u # NoUse => entry.reported <= u /\ \A k \in 1 .. Length : Pipe(k) # NoUse => Pipe(k) <= u
  BY <1>1, <1>3, Numbers DEF Covered
<1>5. \A k \in 1 .. Length : k < last
  BY <1>1
<1>6. Rising'
  <2>1. ASSUME NEW k \in 1 .. Length', NEW n \in 1 .. Length',
               k < n, Pipe(k)' # NoUse, Pipe(n)' # NoUse
        PROVE  Pipe(k)' <= Pipe(n)'
    <3>1. k \in 1 .. Length
      BY <1>1, <1>2, <2>1
    <3>2. CASE n \in 1 .. Length
      BY <2>1, <3>1, <3>2 DEF Rising
    <3>3. CASE n = last
      BY <1>4, <2>1, <3>1, <3>3
    <3> QED BY <1>2, <3>2, <3>3
  <2>2. ASSUME NEW k \in 1 .. Length', Pipe(k)' # NoUse
        PROVE  entry'.reported <= Pipe(k)'
    BY <1>2, <1>4, <2>2 DEF Rising
  <2> QED BY <2>1, <2>2 DEF Rising
<1>7. Covered'
  <2>1. CASE client.thread = 0
    BY <1>2, <2>1 DEF Covered
  <2>2. CASE client.thread # 0
    <3>1. entry'.reported <= used'[client.thread]
      BY <1>1, <2>2 DEF Covered
    <3>2. ASSUME NEW k \in 1 .. Length', Pipe(k)' # NoUse
          PROVE  Pipe(k)' <= used'[client.thread]
      <4>1. CASE k \in 1 .. Length
        BY <1>3, <2>2, <3>2, <4>1, Numbers DEF Covered
      <4>2. CASE k = last
        BY <2>2, <3>2, <4>2
      <4> QED BY <1>2, <4>1, <4>2
    <3> QED BY <2>2, <3>1, <3>2 DEF Covered
  <2> QED BY <2>1, <2>2
<1> QED BY <1>6, <1>7

(* Fewer: the last ones are dropped.                                       *)
LEMMA Fewer ==
  ASSUME Shape, Rising, Covered,
         Length' \in Nat, Length' <= Length, \A k \in 1 .. Length' : Pipe(k)' = Pipe(k),
         UNCHANGED used, entry'.reported = entry.reported,
         client'.thread = client.thread
  PROVE  Rising' /\ Covered'
<1>1. Length \in Nat
  BY Lengths DEF Length, Shape
<1>2. \A k \in 1 .. Length' : k \in 1 .. Length
  BY <1>1
<1> QED BY <1>2 DEF Rising, Covered

(* The loop takes the first.                                               *)
LEMMA OneTaken ==
  ASSUME Shape, Rising, Covered, Length > 0,
         Length' = Length - 1, \A k \in 1 .. Length - 1 : Pipe(k)' = Pipe(k + 1),
         UNCHANGED <<used, client>>,
         entry'.reported = IF Pipe(1) = NoUse THEN entry.reported ELSE Pipe(1)
  PROVE  Rising' /\ Covered'
<1>1. Length \in Nat /\ 1 \in 1 .. Length
  BY Lengths DEF Length, Shape
<1>2. \A k \in 1 .. Length' : k + 1 \in 1 .. Length /\ 1 < k + 1 /\ k \in Nat
  BY <1>1
<1>3. \A k \in 1 .. Length' : Pipe(k)' = Pipe(k + 1)
  OBVIOUS
<1>4. Rising'
  <2>1. ASSUME NEW k \in 1 .. Length', NEW n \in 1 .. Length',
               k < n, Pipe(k)' # NoUse, Pipe(n)' # NoUse
        PROVE  Pipe(k)' <= Pipe(n)'
    <3>1. k + 1 < n + 1
      BY <1>2, <2>1
    <3> QED BY <1>2, <1>3, <2>1, <3>1 DEF Rising
  <2>2. ASSUME NEW k \in 1 .. Length', Pipe(k)' # NoUse
        PROVE  entry'.reported <= Pipe(k)'
    BY <1>1, <1>2, <1>3, <2>2 DEF Rising
  <2> QED BY <2>1, <2>2 DEF Rising
<1>5. Covered'
  BY <1>1, <1>2, <1>3 DEF Covered
<1> QED BY <1>4, <1>5

LEMMA PipeStays ==
  ASSUME UNCHANGED <<events, stream>>
  PROVE  Length' = Length /\ \A k \in 1 .. Length : Pipe(k)' = Pipe(k)
BY DEF Length, Pipe

(* An event without a report, while no notification waits.                 *)
LEMMA PipeSends ==
  ASSUME Shape, NEW x \in Sent, x.usage = NoUse, NEW last, last = Length + 1,
         stream = <<>>, stream' = <<>>, events' = Append(events, x)
  PROVE  /\ Length' = last /\ Pipe(last)' = NoUse
         /\ \A k \in 1 .. Length : Pipe(k)' = Pipe(k)
<1>1. /\ Len(events') = Len(events) + 1 /\ Len(events) \in Nat
      /\ \A k \in 1 .. Len(events) : events'[k] = events[k]
      /\ events'[Len(events) + 1] = x
  BY AppendAt DEF Shape
<1>2. Len(stream) = 0 /\ Len(stream') = 0
  OBVIOUS
<1> QED BY <1>1, <1>2 DEF Length, Pipe

(* Another notification.                                                   *)
LEMMA PipeHears ==
  ASSUME Shape, NEW x \in Heard, NEW last, last = Length + 1,
         UNCHANGED events, stream' = Append(stream, x)
  PROVE  /\ Length' = last /\ Pipe(last)' = Usage(x)
         /\ \A k \in 1 .. Length : Pipe(k)' = Pipe(k)
<1>1. /\ Len(stream') = Len(stream) + 1 /\ Len(stream) \in Nat
      /\ \A k \in 1 .. Len(stream) : stream'[k] = stream[k]
      /\ stream'[Len(stream) + 1] = x
  BY AppendAt DEF Shape
<1>2. Len(events) \in Nat
  BY Lengths
<1>3. Length' = last
  BY <1>1, <1>2 DEF Length
<1>4. Pipe(last)' = Usage(x)
  <2>1. ~(last <= Len(events)) /\ last - Len(events) = Len(stream) + 1
    BY <1>1, <1>2 DEF Length
  <2>2. stream'[last - Len(events)] = x /\ Len(events') = Len(events)
    BY <1>1, <2>1
  <2>3. ~(last <= Len(events')) /\ last - Len(events') = last - Len(events)
    BY <2>1, <2>2
  <2>4. Pipe(last)' = Usage(stream'[last - Len(events')])
    BY <2>3 DEF Pipe
  <2> QED BY <2>2, <2>3, <2>4
<1>5. ASSUME NEW k \in 1 .. Length PROVE Pipe(k)' = Pipe(k)
  <2>1. CASE k <= Len(events)
    BY <2>1 DEF Pipe
  <2>2. CASE ~(k <= Len(events))
    <3>1. k - Len(events) \in 1 .. Len(stream)
      BY <1>1, <1>2, <2>2 DEF Length
    <3> QED BY <1>1, <2>2, <3>1 DEF Pipe, Usage
  <2> QED BY <2>1, <2>2
<1> QED BY <1>3, <1>4, <1>5

(* A notification becomes an event: it keeps its place.  Those behind it   *)
(* are kept, or dropped when it ended the turn.                            *)
LEMMA PipeReads ==
  ASSUME Shape, stream # <<>>, NEW x \in Sent, x.usage = Usage(Head(stream)),
         events' = Append(events, x), stream' = Tail(stream) \/ stream' = <<>>
  PROVE  /\ Length' \in Nat /\ Length' <= Length
         /\ \A k \in 1 .. Length' : Pipe(k)' = Pipe(k)
<1>1. /\ Len(events') = Len(events) + 1 /\ Len(events) \in Nat
      /\ \A k \in 1 .. Len(events) : events'[k] = events[k]
      /\ events'[Len(events) + 1] = x
  BY AppendAt DEF Shape
<1>2. /\ Len(Tail(stream)) = Len(stream) - 1 /\ Len(stream) \in Nat /\ Len(stream) > 0
      /\ \A k \in 1 .. Len(stream) - 1 : Tail(stream)[k] = stream[k + 1]
      /\ Head(stream) = stream[1]
  BY TailAt DEF Shape
<1>3. /\ Len(stream') \in Nat /\ Len(stream') <= Len(stream) - 1
      /\ \A k \in 1 .. Len(stream') : stream'[k] = stream[k + 1]
  <2>1. CASE stream' = Tail(stream)
    BY <1>2, <2>1
  <2>2. CASE stream' = <<>>
    <3>1. Len(stream') = 0
      BY <2>2
    <3> QED BY <1>2, <3>1
  <2> QED BY <2>1, <2>2
<1>4. Length' \in Nat /\ Length' <= Length
  BY <1>1, <1>2, <1>3 DEF Length
<1>5. ASSUME NEW k \in 1 .. Length' PROVE Pipe(k)' = Pipe(k)
  <2>1. CASE k <= Len(events)
    <3>1. k <= Len(events') /\ k \in 1 .. Len(events)
      BY <1>1, <2>1
    <3> QED BY <1>1, <2>1, <3>1 DEF Pipe
  <2>2. CASE k = Len(events) + 1
    <3>1. k <= Len(events') /\ ~(k <= Len(events)) /\ k - Len(events) = 1
      BY <1>1, <2>2
    <3>2. Pipe(k)' = x.usage
      BY <1>1, <2>2, <3>1 DEF Pipe
    <3>3. Pipe(k) = Usage(Head(stream))
      BY <1>2, <3>1 DEF Pipe
    <3> QED BY <3>2, <3>3
  <2>3. CASE ~(k <= Len(events) + 1)
    <3>1. /\ k - Len(events') \in 1 .. Len(stream')
          /\ ~(k <= Len(events')) /\ ~(k <= Len(events))
          /\ (k - Len(events')) + 1 = k - Len(events)
      BY <1>1, <1>3, <2>3 DEF Length
    <3>2. stream'[k - Len(events')] = stream[k - Len(events)]
      BY <1>3, <3>1
    <3> QED BY <3>1, <3>2 DEF Pipe, Usage
  <2> QED BY <1>1, <2>1, <2>2, <2>3
<1> QED BY <1>4, <1>5

(* The notifications that were not read are dropped.                       *)
LEMMA PipeDrops ==
  ASSUME Shape, UNCHANGED events, stream' = <<>>
  PROVE  /\ Length' \in Nat /\ Length' <= Length
         /\ \A k \in 1 .. Length' : Pipe(k)' = Pipe(k)
<1>1. Len(events) \in Nat /\ Len(stream) \in Nat /\ Len(stream') = 0
  BY Lengths
<1> QED BY <1>1 DEF Length, Pipe

LEMMA PipeTakes ==
  ASSUME Shape, events # <<>>, events' = Tail(events), UNCHANGED stream
  PROVE  /\ Length \in Nat /\ Length > 0 /\ Length' = Length - 1
         /\ Pipe(1) = Head(events).usage
         /\ \A k \in 1 .. Length - 1 : Pipe(k)' = Pipe(k + 1)
<1>1. /\ Len(events') = Len(events) - 1 /\ Len(events) \in Nat /\ Len(events) > 0
      /\ \A k \in 1 .. Len(events) - 1 : events'[k] = events[k + 1]
      /\ Head(events) = events[1]
  BY TailAt DEF Shape
<1>2. Len(stream) \in Nat
  BY Lengths
<1>3. ASSUME NEW k \in 1 .. Length - 1 PROVE Pipe(k)' = Pipe(k + 1)
  <2>1. CASE k <= Len(events) - 1
    BY <1>1, <1>2, <2>1 DEF Pipe, Length
  <2>2. CASE ~(k <= Len(events) - 1)
    <3>1. k \in Nat /\ ~(k + 1 <= Len(events)) /\ ~(k <= Len(events'))
          /\ k - Len(events') = (k + 1) - Len(events)
      BY <1>1, <1>2, <2>2 DEF Length
    <3> QED BY <3>1 DEF Pipe, Usage
  <2> QED BY <2>1, <2>2
<1> QED BY <1>1, <1>2, <1>3 DEF Length, Pipe

-----------------------------------------------------------------------------
(* Types.                                                                  *)

LEMMA Silent ==
  /\ Off \in Clients /\ Silence \in [text : Texts, turn : Nat]
  /\ NoEntry \in [running : BOOLEAN, stopping : BOOLEAN, reported : Nat, turns : Nat]
  /\ \A kind \in Kinds : Note(kind) \in Heard /\ Note(kind).shape = "none"
BY DEF Off, Clients, Phases, Results, Silence, Texts, NoEntry, Note, Heard, Shapes

(* The client forgets, goes to another phase, or ends with a result.       *)
LEMMA ClientType ==
  ASSUME NEW c \in Clients
  PROVE  /\ Reset(c) \in Clients
         /\ \A p \in Phases, r \in Results : [c EXCEPT !.phase = p, !.result = r] \in Clients
         /\ \A p \in Phases : [c EXCEPT !.phase = p] \in Clients
         /\ \A p \in Phases, t \in Threads : [c EXCEPT !.phase = p, !.thread = t] \in Clients
         /\ \A p \in Phases, r \in Results :
              [Reset(c) EXCEPT !.phase = p, !.turn = @ + 1, !.result = r] \in Clients
         /\ \A note \in Heard : Hears(c, note) \in Clients
<1>1. Reset(c) \in Clients
  BY Silent DEF Reset, Clients
<1>2. \A p \in Phases, r \in Results :
        [Reset(c) EXCEPT !.phase = p, !.turn = @ + 1, !.result = r] \in Clients
  <2>1. ASSUME NEW d \in Clients, NEW p \in Phases, NEW r \in Results
        PROVE  [d EXCEPT !.phase = p, !.turn = @ + 1, !.result = r] \in Clients
    <3>1. d.turn + 1 \in Nat
      BY DEF Clients
    <3> QED BY <3>1 DEF Clients
  <2> QED BY <1>1, <2>1
<1>3. ASSUME NEW note \in Heard PROVE Hears(c, note) \in Clients
  <2>1. [text |-> note.text, turn |-> c.turn] \in [text : Texts, turn : Nat]
    BY DEF Heard, Clients
  <2> QED BY <2>1 DEF Hears, Clients
<1>4. \A p \in Phases, r \in Results : [c EXCEPT !.phase = p, !.result = r] \in Clients
  BY DEF Clients
<1>5. \A p \in Phases : [c EXCEPT !.phase = p] \in Clients
  BY DEF Clients
<1>6. \A p \in Phases, t \in Threads : [c EXCEPT !.phase = p, !.thread = t] \in Clients
  BY DEF Clients
<1> QED BY <1>1, <1>2, <1>3, <1>4, <1>5, <1>6

(* What is sent is an event; what is said is a notification.               *)
LEMMA SendType ==
  ASSUME Shape, NEW kind \in {"session", "note", "failed", "exit"}, NEW u \in Nat \cup {NoUse},
         Send(kind, u)
  PROVE  /\ events' \in Seq(Sent) /\ [kind |-> kind, usage |-> u] \in Sent
         /\ events' = Append(events, [kind |-> kind, usage |-> u])
<1>1. [kind |-> kind, usage |-> u] \in Sent
  BY DEF Sent
<1> QED BY <1>1, AppendAt DEF Send, Shape

LEMMA StartShape ==
  ASSUME Shape, Dispatch \/ Launch \/ Initialized \/ StartThread \/ StartFails
  PROVE  Shape'
<1> USE DEF Shape
<1>p. {"launch", "initialize", "thread", "ready", "over"} \subseteq Phases /\ "startup" \in Results
  BY DEF Phases, Results
<1>1. CASE Dispatch
  <2>1. entry' = [NoEntry EXCEPT !.running = TRUE] /\ client' = [Off EXCEPT !.phase = "launch"]
        /\ hist' = [hist EXCEPT !.runs = @ + 1] /\ UNCHANGED <<used, stream, stored, events, totals>>
    BY <1>1 DEF Dispatch
  <2>2. client' \in Clients
    BY <1>p, <2>1, Silent, ClientType
  <2>3. entry' \in [running : BOOLEAN, stopping : BOOLEAN, reported : Nat, turns : Nat]
    BY <2>1 DEF NoEntry
  <2>4. hist' \in [runs : Nat, ended : Nat]
    <3>1. hist' = [hist EXCEPT !.runs = @ + 1]
      BY <2>1
    <3>2. hist \in [runs : Nat, ended : Nat]
      OBVIOUS
    <3> HIDE DEF Shape
    <3> QED BY <3>1, <3>2
  <2> QED BY <2>1, <2>2, <2>3, <2>4
<1>2. CASE Launch \/ Initialized
  <2>1. \E p \in {"initialize", "thread"} : client' = [client EXCEPT !.phase = p]
    BY <1>2 DEF Launch, Initialized
  <2>2. client' \in Clients
    <3>1. PICK p \in {"initialize", "thread"} : client' = [client EXCEPT !.phase = p]
      BY <2>1
    <3>2. p \in Phases
      BY <1>p
    <3> QED BY <3>1, <3>2, ClientType
  <2> QED BY <1>2, <2>2 DEF Launch, Initialized
<1>3. CASE StartThread
  <2>1. PICK t \in {stored} \cup Unused :
          /\ t # 0 /\ client' = [client EXCEPT !.phase = "ready", !.thread = t]
          /\ stored' \in {t, stored}
    BY <1>3 DEF StartThread
  <2>2. t \in Threads
    BY <2>1 DEF Unused
  <2>3. client' \in Clients
    BY <1>p, <2>1, <2>2, ClientType
  <2> QED BY <1>3, <2>1, <2>2, <2>3 DEF StartThread
<1>4. CASE StartFails
  <2>1. client' \in Clients
    BY <1>4, <1>p, ClientType DEF StartFails
  <2>2. events' \in Seq(Sent)
    BY <1>4, SendType DEF StartFails
  <2> QED BY <1>4, <2>1, <2>2 DEF StartFails
<1> QED BY <1>1, <1>2, <1>3, <1>4

LEMMA SaysShape ==
  ASSUME Shape, NEW note \in Heard, Says(note), used' \in [Threads -> Nat]
  PROVE  Shape'
BY AppendAt DEF Shape, Says

(* What the server says about tokens, and what it leaves of the counts.    *)
LEMMA UsageSaid ==
  ASSUME Shape, SaysUsage
  PROVE  \E note \in Heard :
           /\ Says(note) /\ client.thread \in Threads /\ used' \in [Threads -> Nat]
           /\ used[client.thread] <= used'[client.thread]
           /\ Usage(note) # NoUse => Usage(note) = used'[client.thread]
<1>1. PICK n \in Uses, shape \in Shapes \ {"none"} :
        LET total == used[client.thread] + n IN
        /\ client.thread # 0
        /\ Says([Note("usage") EXCEPT !.shape = shape, !.last = n,
                    !.total = IF shape = "last_token_usage" THEN 0 ELSE total])
        /\ used' = [used EXCEPT ![client.thread] = total]
  BY DEF SaysUsage
<1> DEFINE total == used[client.thread] + n
           note == [Note("usage") EXCEPT !.shape = shape, !.last = n,
                      !.total = IF shape = "last_token_usage" THEN 0 ELSE total]
<1>2. n \in Nat
  BY Numbers DEF Uses
<1>3. client.thread \in Threads /\ used[client.thread] \in Nat
  BY <1>1 DEF Shape, Clients
<1>4. total \in Nat /\ used[client.thread] <= total
  BY <1>2, <1>3
<1>5. used' = [used EXCEPT ![client.thread] = total] /\ Says(note)
  BY <1>1
<1> HIDE DEF total
<1>6. used' \in [Threads -> Nat] /\ used'[client.thread] = total
  BY <1>3, <1>4, <1>5 DEF Shape
<1>7. Note("usage") \in Heard
  BY Silent DEF Kinds
<1>8. note \in Heard /\ note.shape = shape
      /\ note.total = (IF shape = "last_token_usage" THEN 0 ELSE total)
  BY <1>2, <1>4, <1>7 DEF Heard
<1> HIDE DEF note
<1>9. Usage(note) # NoUse => Usage(note) = total
  BY <1>8 DEF Usage
<1> QED BY <1>3, <1>4, <1>5, <1>6, <1>8, <1>9

-----------------------------------------------------------------------------
(* The steps.                                                              *)

LEMMA StandsSends ==
  ASSUME Shape, Stands, client.phase # "stopped", NEW x \in Sent, events' = Append(events, x),
         client'.phase # "turn" => stream' = <<>>, client'.phase \in Early => client'.thread = 0,
         x.kind = "exit" => client'.phase = "stopped"
  PROVE  Stands'
<1>1. /\ Len(events') = Len(events) + 1 /\ Len(events) \in Nat
      /\ \A k \in 1 .. Len(events) : events'[k] = events[k]
      /\ events'[Len(events) + 1] = x
  BY AppendAt DEF Shape
<1>2. ASSUME NEW k \in 1 .. Len(events'), events'[k].kind = "exit"
      PROVE  k = Len(events') /\ client'.phase = "stopped"
  <2>1. CASE k \in 1 .. Len(events)
    BY <1>1, <1>2, <2>1 DEF Stands
  <2>2. CASE k = Len(events) + 1
    BY <1>1, <1>2, <2>2
  <2> QED BY <1>1, <2>1, <2>2
<1> QED BY <1>2 DEF Stands

LEMMA StandsSame ==
  ASSUME Stands, UNCHANGED events, client.phase = "stopped" => client'.phase = "stopped",
         client'.phase # "turn" => stream' = <<>>, client'.phase \in Early => client'.thread = 0
  PROVE  Stands'
BY DEF Stands

(* The counts of the loop are not touched by the client.                   *)
LEMMA CountsSame ==
  ASSUME TotalsAreReports, UNCHANGED totals,
         hist'.ended = hist.ended, entry'.reported = entry.reported
  PROVE  TotalsAreReports'
BY DEF TotalsAreReports

LEMMA StartKeeps ==
  ASSUME UsageInv, Dispatch \/ Launch \/ Initialized \/ StartThread \/ StartFails
  PROVE  UsageInv'
<1> USE DEF UsageInv
<1>s. Shape' /\ client \in Clients /\ hist \in [runs : Nat, ended : Nat]
  BY StartShape DEF Shape
<1>1. CASE Dispatch
  <2>1. /\ entry' = [NoEntry EXCEPT !.running = TRUE] /\ client' = [Off EXCEPT !.phase = "launch"]
        /\ hist' = [hist EXCEPT !.runs = @ + 1] /\ UNCHANGED <<used, stream, events, totals>>
        /\ client.phase = "off"
    BY <1>1 DEF Dispatch
  <2>2. client.thread = 0 /\ entry.reported = 0 /\ stream = <<>>
    BY <2>1 DEF Stands, Early, Covered
  <2>3. client'.phase = "launch" /\ client'.thread = 0 /\ entry'.reported = 0 /\ hist'.ended = hist.ended
    BY <1>s, <2>1 DEF Off, NoEntry
  <2>4. Stands' /\ TotalsAreReports'
    BY <2>1, <2>2, <2>3, StandsSame, CountsSame
  <2>5. Length' = Length /\ Length \in Nat /\ \A k \in 1 .. Length : Pipe(k)' = Pipe(k)
    BY <2>1, PipeStays, Lengths DEF Length
  <2>6. Length' <= Length /\ Length' \in Nat /\ \A k \in 1 .. Length' : Pipe(k)' = Pipe(k)
    BY <2>5
  <2> QED BY <1>s, <2>1, <2>2, <2>3, <2>4, <2>6, Fewer
<1>2. CASE Launch \/ Initialized
  <2>1. /\ \E p \in {"initialize", "thread"} : client' = [client EXCEPT !.phase = p]
        /\ UNCHANGED <<used, stream, events, entry, totals, hist>>
        /\ client.phase \in {"launch", "initialize"}
    BY <1>2 DEF Launch, Initialized
  <2>2. client'.phase \in {"initialize", "thread"} /\ client'.thread = client.thread
    BY <1>s, <2>1 DEF Clients
  <2>3. client.thread = 0 /\ stream = <<>>
    BY <2>1 DEF Stands, Early
  <2>4. Stands' /\ TotalsAreReports'
    BY <2>1, <2>2, <2>3, StandsSame, CountsSame
  <2>5. Length' = Length /\ Length \in Nat /\ \A k \in 1 .. Length : Pipe(k)' = Pipe(k)
    BY <2>1, PipeStays, Lengths DEF Length
  <2>6. Length' <= Length /\ Length' \in Nat /\ \A k \in 1 .. Length' : Pipe(k)' = Pipe(k)
    BY <2>5
  <2> QED BY <1>s, <2>1, <2>2, <2>4, <2>6, Fewer
<1>3. CASE StartThread
  <2>1. PICK t \in {stored} \cup Unused : t # 0 /\ client' = [client EXCEPT !.phase = "ready", !.thread = t]
    BY <1>3 DEF StartThread
  <2>2. /\ client.phase = "thread" /\ UNCHANGED <<used, stream, events, entry, totals, hist>>
    BY <1>3 DEF StartThread
  <2>3. t \in Threads /\ used[t] \in Nat
    BY <2>1 DEF Unused, Shape
  <2>4. client'.phase = "ready" /\ client'.thread = t
    BY <1>s, <2>1 DEF Clients
  <2>5. client.thread = 0 /\ stream = <<>>
    BY <2>2 DEF Stands, Early
  <2>6. Stands' /\ TotalsAreReports'
    BY <2>2, <2>4, <2>5, StandsSame, CountsSame DEF Early
  <2>7. Length' = Length /\ \A k \in 1 .. Length : Pipe(k)' = Pipe(k)
    BY <2>2, PipeStays
  <2>8. Rising'
    BY <2>2, <2>7 DEF Rising
  <2>9. Covered'
    BY <2>1, <2>2, <2>3, <2>4, <2>5, <2>7 DEF Covered
  <2> QED BY <1>s, <2>6, <2>8, <2>9
<1>4. CASE StartFails
  <2>1. /\ client' = [client EXCEPT !.phase = "over", !.result = "startup"]
        /\ UNCHANGED <<used, stream, entry, totals, hist>> /\ Send("failed", NoUse)
        /\ client.phase \in {"launch", "initialize", "thread"}
    BY <1>4 DEF StartFails, Starting
  <2> DEFINE x == [kind |-> "failed", usage |-> NoUse]
  <2>2. x \in Sent /\ x.kind = "failed" /\ x.usage = NoUse /\ events' = Append(events, x)
    BY <2>1, SendType
  <2> HIDE DEF x
  <2>3. client'.phase = "over" /\ client'.thread = client.thread /\ client.thread = 0 /\ stream = <<>>
    BY <1>s, <2>1 DEF Clients, Stands, Early
  <2>4. Stands' /\ TotalsAreReports'
    BY <2>1, <2>2, <2>3, StandsSends, CountsSame DEF Early
  <2>5. PICK last : last = Length + 1
    OBVIOUS
  <2>6. Length' = last /\ Pipe(last)' = NoUse /\ \A k \in 1 .. Length : Pipe(k)' = Pipe(k)
    BY <2>1, <2>2, <2>3, <2>5, PipeSends
  <2>7. Rising' /\ Covered'
    BY <2>1, <2>3, <2>5, <2>6, OneMore
  <2> QED BY <1>s, <2>4, <2>7
<1> QED BY <1>1, <1>2, <1>3, <1>4

(* A turn is started or not.                                               *)
LEMMA RunTurnKeeps ==
  ASSUME UsageInv, RunTurn
  PROVE  UsageInv'
<1> USE DEF UsageInv
<1>s. client \in Clients /\ UNCHANGED <<used, stored, entry, totals, hist>> /\ client.phase = "ready"
  BY DEF Shape, RunTurn
<1>p. {"turn", "over"} \subseteq Phases /\ {"none", "failed", "exit", "cancelled"} \subseteq Results
  BY DEF Phases, Results
<1>r. stream = <<>> /\ Reset(client) \in Clients /\ Reset(client).thread = client.thread
  BY <1>s, ClientType DEF Stands, Reset, Clients
<1>c. TotalsAreReports'
  BY <1>s, CountsSame
<1>1. ASSUME client' = [Reset(client) EXCEPT !.phase = "turn", !.turn = @ + 1, !.result = "none"],
             Send("session", NoUse), UNCHANGED stream
      PROVE  UsageInv'
  <2> DEFINE x == [kind |-> "session", usage |-> NoUse]
  <2>1. x \in Sent /\ x.kind = "session" /\ x.usage = NoUse /\ events' = Append(events, x)
        /\ events' \in Seq(Sent)
    BY <1>1, SendType
  <2> HIDE DEF x
  <2>2. client' \in Clients
    BY <1>1, <1>p, <1>s, ClientType
  <2>3. client'.phase = "turn" /\ client'.thread = client.thread
    BY <1>1, <1>r DEF Clients
  <2>4. Shape'
    BY <1>1, <1>s, <2>1, <2>2 DEF Shape
  <2>5. Stands'
    BY <1>s, <2>1, <2>3, StandsSends DEF Early
  <2>6. PICK last : last = Length + 1
    OBVIOUS
  <2>7. Length' = last /\ Pipe(last)' = NoUse /\ \A k \in 1 .. Length : Pipe(k)' = Pipe(k)
    BY <1>1, <1>r, <2>1, <2>6, PipeSends
  <2>8. client.thread # 0 => used[client.thread] \in Nat /\ used'[client.thread] = used[client.thread]
    BY <1>s DEF Shape, Clients
  <2>9. Rising' /\ Covered'
    <3>1. entry'.reported = entry.reported
      BY <1>s
    <3>2. client.thread # 0 => used'[client.thread] \in Nat /\ used[client.thread] <= used'[client.thread]
      BY <2>8
    <3>3. NoUse \in Nat \cup {NoUse}
      OBVIOUS
    <3> QED BY <2>3, <2>6, <2>7, <2>8, <3>1, <3>2, <3>3, OneMore
  <2> QED BY <1>c, <2>4, <2>5, <2>9
<1>2. ASSUME NEW why \in {"failed", "exit", "cancelled"},
             client' = [Reset(client) EXCEPT !.phase = "over", !.turn = @ + 1, !.result = why],
             UNCHANGED <<stream, events>>
      PROVE  UsageInv'
  <2>1. client' \in Clients
    BY <1>2, <1>p, <1>s, ClientType
  <2>2. client'.phase = "over" /\ client'.thread = client.thread
    BY <1>2, <1>r DEF Clients
  <2>3. Shape' /\ Stands'
    BY <1>2, <1>r, <1>s, <2>1, <2>2, StandsSame DEF Shape, Early
  <2>4. Length' = Length /\ Length \in Nat /\ \A k \in 1 .. Length : Pipe(k)' = Pipe(k)
    BY <1>2, PipeStays, Lengths DEF Length
  <2>5. Length' <= Length /\ Length' \in Nat /\ \A k \in 1 .. Length' : Pipe(k)' = Pipe(k)
    BY <2>4
  <2> QED BY <1>c, <1>s, <2>2, <2>3, <2>5, Fewer
<1> QED BY <1>1, <1>2 DEF RunTurn

(* The server speaks.                                                      *)
LEMMA SaysKeeps ==
  ASSUME UsageInv, NEW note \in Heard, Says(note), used' \in [Threads -> Nat],
         client.thread = 0 => Usage(note) = NoUse,
         client.thread # 0 =>
           /\ used[client.thread] <= used'[client.thread]
           /\ Usage(note) # NoUse => Usage(note) = used'[client.thread]
  PROVE  UsageInv'
<1> USE DEF UsageInv
<1>1. /\ stream' = Append(stream, note) /\ client.phase = "turn"
      /\ UNCHANGED <<client, stored, events, entry, totals, hist>>
  BY DEF Says
<1>2. Shape' /\ Stands' /\ TotalsAreReports'
  BY <1>1, SaysShape, StandsSame, CountsSame DEF Early
<1>3. PICK last : last = Length + 1
  OBVIOUS
<1>4. Length' = last /\ Pipe(last)' = Usage(note) /\ \A k \in 1 .. Length : Pipe(k)' = Pipe(k)
  BY <1>1, <1>3, PipeHears
<1>5. client.thread # 0 => used[client.thread] \in Nat /\ used'[client.thread] \in Nat
  BY DEF Shape, Clients
<1>6. Usage(note) \in Nat \cup {NoUse}
  BY UsageType
<1>7. client.thread # 0 /\ Usage(note) # NoUse =>
        used[client.thread] <= Usage(note) /\ Usage(note) <= used'[client.thread]
  BY <1>5
<1>8. Rising' /\ Covered'
  BY <1>1, <1>3, <1>4, <1>5, <1>6, <1>7, OneMore
<1> QED BY <1>2, <1>8

LEMMA ServerKeeps ==
  ASSUME UsageInv, SaysText \/ SaysUsage \/ SaysError \/ EndsTurn
  PROVE  UsageInv'
<1> USE DEF UsageInv
<1>1. ASSUME NEW note \in Heard, note.shape = "none", Says(note), UNCHANGED used
      PROVE  UsageInv'
  <2>1. Usage(note) = NoUse
    BY <1>1 DEF Usage
  <2>2. client.thread # 0 => used[client.thread] \in Nat
    BY DEF Shape, Clients
  <2> QED BY <1>1, <2>1, <2>2, SaysKeeps DEF Shape
<1>2. CASE SaysText
  <2>1. PICK kind \in {"item", "message"}, text \in Texts :
          Says([Note(kind) EXCEPT !.text = text]) /\ UNCHANGED used
    BY <1>2 DEF SaysText
  <2>2. Note(kind) \in Heard /\ Note(kind).shape = "none"
    BY Silent DEF Kinds
  <2>3. [Note(kind) EXCEPT !.text = text] \in Heard /\ [Note(kind) EXCEPT !.text = text].shape = "none"
    BY <2>2 DEF Heard
  <2> QED BY <1>1, <2>1, <2>3
<1>3. CASE SaysUsage
  <2>1. PICK note \in Heard :
           /\ Says(note) /\ client.thread \in Threads /\ used' \in [Threads -> Nat]
           /\ used[client.thread] <= used'[client.thread]
           /\ Usage(note) # NoUse => Usage(note) = used'[client.thread]
    BY <1>3, UsageSaid
  <2>2. client.thread # 0
    BY <2>1 DEF Threads
  <2> QED BY <2>1, <2>2, SaysKeeps
<1>4. CASE SaysError \/ EndsTurn
  <2>1. PICK kind \in Kinds : Says(Note(kind)) /\ UNCHANGED used
    BY <1>4 DEF SaysError, EndsTurn, Kinds
  <2> QED BY <1>1, <2>1, Silent
<1> QED BY <1>2, <1>3, <1>4

(* The client reads a notification.                                        *)
LEMMA ReadKeeps ==
  ASSUME UsageInv, Read
  PROVE  UsageInv'
<1> USE DEF UsageInv
<1> DEFINE note == Head(stream)
           heard == Hears(client, note)
           x == [kind |-> "note", usage |-> Usage(note)]
<1>1. /\ client.phase = "turn" /\ stream # <<>> /\ Send("note", Usage(note))
      /\ UNCHANGED <<used, stored, entry, totals, hist>>
  BY DEF Read
<1>2. note \in Heard /\ Tail(stream) \in Seq(Heard)
  BY <1>1, TailAt DEF Shape
<1>3. Usage(note) \in Nat \cup {NoUse}
  BY <1>2, UsageType
<1>4. heard \in Clients /\ heard.phase = "turn" /\ heard.thread = client.thread
  <2>1. client \in Clients
    BY DEF Shape
  <2>2. heard \in Clients
    BY <1>2, <2>1, ClientType
  <2>3. heard.phase = client.phase /\ heard.thread = client.thread
    BY <2>1 DEF Hears, Clients
  <2> QED BY <1>1, <2>2, <2>3
<1>5. x \in Sent /\ x.kind = "note" /\ x.usage = Usage(note) /\ events' = Append(events, x)
      /\ events' \in Seq(Sent)
  BY <1>1, <1>3, SendType
<1>6. Verdict(note) \in Results
  <2> DEFINE kind == note.kind
  <2>1. kind \in Kinds
    BY <1>2 DEF Heard
  <2>2. Verdict(note) = (CASE kind = "completed" -> "ok" [] kind \in {"broke", "failed", "error"} -> "failed"
                           [] kind \in {"cancelled", "input"} -> kind [] OTHER -> "none")
    BY DEF Verdict
  <2> HIDE DEF kind
  <2> QED BY <2>1, <2>2 DEF Results, Kinds, Endings
<1>7. \/ client' = heard /\ stream' = Tail(stream)
      \/ client' = [heard EXCEPT !.phase = "over", !.result = Verdict(note)] /\ stream' = <<>>
  BY DEF Read
<1> HIDE DEF heard, x
<1>8. /\ client' \in Clients /\ client'.thread = client.thread
      /\ client'.phase \in {"turn", "over"} /\ (client'.phase # "turn" => stream' = <<>>)
      /\ stream' \in Seq(Heard)
  <2>1. CASE client' = heard /\ stream' = Tail(stream)
    BY <1>2, <1>4, <2>1
  <2>2. CASE client' = [heard EXCEPT !.phase = "over", !.result = Verdict(note)] /\ stream' = <<>>
    <3>1. "over" \in Phases /\ client' \in Clients
      BY <1>4, <1>6, <2>2, ClientType DEF Phases
    <3>2. client'.phase = "over" /\ client'.thread = heard.thread
      BY <1>4, <2>2 DEF Clients
    <3>3. stream' \in Seq(Heard)
      BY <2>2
    <3> QED BY <1>4, <2>2, <3>1, <3>2, <3>3
  <2> QED BY <1>7, <2>1, <2>2
<1>9. Shape'
  BY <1>1, <1>5, <1>8 DEF Shape
<1>10. Stands' /\ TotalsAreReports'
  BY <1>1, <1>5, <1>8, StandsSends, CountsSame DEF Early
<1>11. Length' \in Nat /\ Length' <= Length /\ \A k \in 1 .. Length' : Pipe(k)' = Pipe(k)
  BY <1>1, <1>5, <1>7, PipeReads
<1>12. Rising' /\ Covered'
  BY <1>1, <1>8, <1>11, Fewer
<1> QED BY <1>9, <1>10, <1>12

(* A turn that is over, with what was not read of it, a next one, a dead   *)
(* process, and a run that is told to stop.                                *)
LEMMA QuietKeeps ==
  ASSUME UsageInv,
         \/ \E why \in Results : TurnEndsWith(why)
         \/ Continue \/ Dies \/ RequestStop
  PROVE  UsageInv'
<1> USE DEF UsageInv
<1>p. {"over", "ready"} \subseteq Phases /\ client \in Clients
  BY DEF Phases, Shape
<1>1. /\ UNCHANGED <<used, stored, events, totals, hist>>
      /\ client' \in Clients /\ client'.thread = client.thread
      /\ client'.phase = client.phase \/ (client.phase \in {"turn", "over"} /\ client'.phase \in {"over", "ready"})
      /\ stream' = <<>> \/ (stream' = stream /\ (client.phase = "turn" => client'.phase = "turn"))
      /\ entry'.reported = entry.reported
      /\ entry' \in [running : BOOLEAN, stopping : BOOLEAN, reported : Nat, turns : Nat]
  <2>1. CASE \E why \in Results : TurnEndsWith(why)
    <3>1. PICK why \in Results :
            /\ client.phase = "turn" /\ client' = [client EXCEPT !.phase = "over", !.result = why]
            /\ stream' = <<>> /\ UNCHANGED <<used, stored, events, entry, totals, hist>>
      BY <2>1 DEF TurnEndsWith
    <3>2. client' \in Clients
      BY <1>p, <3>1, ClientType
    <3>3. client'.phase = "over" /\ client'.thread = client.thread
      BY <1>p, <3>1 DEF Clients
    <3> QED BY <3>1, <3>2, <3>3 DEF Shape
  <2>2. CASE Continue
    <3>1. /\ client.phase = "over" /\ client' = [client EXCEPT !.phase = "ready"]
          /\ UNCHANGED <<used, stream, stored, events, entry, totals, hist>>
      BY <2>2 DEF Continue
    <3>2. client' \in Clients
      BY <1>p, <3>1, ClientType
    <3>3. client'.phase = "ready" /\ client'.thread = client.thread
      BY <1>p, <3>1 DEF Clients
    <3> QED BY <3>1, <3>2, <3>3 DEF Shape
  <2>3. CASE Dies
    BY <1>p, <2>3 DEF Dies, Shape
  <2>4. CASE RequestStop
    <3>1. /\ entry' = [entry EXCEPT !.stopping = TRUE]
          /\ UNCHANGED <<used, stream, client, stored, events, totals, hist>>
      BY <2>4 DEF RequestStop
    <3> QED BY <1>p, <3>1 DEF Shape
  <2> QED BY <2>1, <2>2, <2>3, <2>4
<1>2. Shape'
  <2>1. <<>> \in Seq(Heard) /\ stream \in Seq(Heard)
    BY DEF Shape
  <2>2. stream' \in Seq(Heard)
    BY <1>1, <2>1
  <2> QED BY <1>1, <2>2 DEF Shape
<1>3. Stands' /\ TotalsAreReports'
  <2>1. client'.phase # "turn" => stream' = <<>>
    BY <1>1 DEF Stands
  <2>2. client'.phase \in Early => client'.thread = 0
    BY <1>1 DEF Stands, Early
  <2>3. client.phase = "stopped" => client'.phase = "stopped"
    BY <1>1
  <2> QED BY <1>1, <2>1, <2>2, <2>3, StandsSame, CountsSame
<1>4. Length' \in Nat /\ Length' <= Length /\ \A k \in 1 .. Length' : Pipe(k)' = Pipe(k)
  <2>1. CASE stream' = <<>>
    BY <1>1, <2>1, PipeDrops
  <2>2. CASE stream' = stream
    <3>1. Length' = Length /\ Length \in Nat /\ \A k \in 1 .. Length : Pipe(k)' = Pipe(k)
      BY <1>1, <2>2, PipeStays, Lengths DEF Length
    <3> QED BY <3>1
  <2> QED BY <1>1, <2>1, <2>2
<1>5. Rising' /\ Covered'
  BY <1>1, <1>4, Fewer
<1> QED BY <1>2, <1>3, <1>5

(* The run ends.                                                           *)
LEMMA StopKeeps ==
  ASSUME UsageInv, Stop
  PROVE  UsageInv'
<1> USE DEF UsageInv
<1> DEFINE x == [kind |-> "exit", usage |-> NoUse]
<1>1. /\ client.phase \in {"over", "ready"} /\ Send("exit", NoUse)
      /\ client' = [client EXCEPT !.phase = "stopped"]
      /\ UNCHANGED <<used, stream, stored, entry, totals, hist>>
  BY DEF Stop
<1>2. x \in Sent /\ x.kind = "exit" /\ x.usage = NoUse /\ events' = Append(events, x)
      /\ events' \in Seq(Sent)
  BY <1>1, SendType
<1> HIDE DEF x
<1>3. client \in Clients /\ "stopped" \in Phases
  BY DEF Shape, Phases
<1>4. client' \in Clients
  BY <1>1, <1>3, ClientType
<1>5. client'.phase = "stopped" /\ client'.thread = client.thread
  BY <1>1, <1>3 DEF Clients
<1>6. stream = <<>>
  BY <1>1 DEF Stands
<1>7. Shape'
  BY <1>1, <1>2, <1>4 DEF Shape
<1>8. Stands' /\ TotalsAreReports'
  BY <1>1, <1>2, <1>5, <1>6, StandsSends, CountsSame DEF Early
<1>9. PICK last : last = Length + 1
  OBVIOUS
<1>10. Length' = last /\ Pipe(last)' = NoUse /\ \A k \in 1 .. Length : Pipe(k)' = Pipe(k)
  BY <1>1, <1>2, <1>6, <1>9, PipeSends
<1>11. client.thread # 0 =>
         /\ used[client.thread] \in Nat /\ used'[client.thread] \in Nat
         /\ used[client.thread] <= used'[client.thread]
  BY <1>1, <1>3 DEF Shape, Clients
<1>12. NoUse \in Nat \cup {NoUse} /\ entry'.reported = entry.reported
  BY <1>1
<1>13. Rising' /\ Covered'
  BY <1>5, <1>9, <1>10, <1>11, <1>12, OneMore
<1> QED BY <1>7, <1>8, <1>13

(* The loop takes an event.                                                *)
LEMMA TakeKeeps ==
  ASSUME UsageInv, TakeEvent
  PROVE  UsageInv'
<1> USE DEF UsageInv
<1> DEFINE u == Head(events).usage
<1>1. /\ events # <<>> /\ events' = Tail(events)
      /\ entry' = [entry EXCEPT !.turns = IF Head(events).kind = "session" THEN @ + 1 ELSE @,
                                !.reported = IF u = NoUse THEN @ ELSE u]
      /\ totals' = IF u = NoUse THEN totals ELSE totals + Delta(u)
      /\ UNCHANGED <<used, stream, client, stored, hist>>
  BY DEF TakeEvent
<1>2. /\ Length \in Nat /\ Length > 0 /\ Length' = Length - 1 /\ Pipe(1) = u
      /\ \A k \in 1 .. Length - 1 : Pipe(k)' = Pipe(k + 1)
  BY <1>1, PipeTakes
<1>3. 1 \in 1 .. Length
  BY <1>2
<1>4. u \in Nat \cup {NoUse}
  BY <1>2, <1>3, PipeType
<1>5. u # NoUse => entry.reported <= u
  BY <1>2, <1>3 DEF Rising
<1>t. /\ Tail(events) \in Seq(Sent) /\ Len(Tail(events)) = Len(events) - 1 /\ Len(events) \in Nat
      /\ \A k \in 1 .. Len(events) - 1 : Tail(events)[k] = events[k + 1]
  BY <1>1, TailAt DEF Shape
<1> HIDE DEF u
<1>6. entry'.reported = (IF u = NoUse THEN entry.reported ELSE u)
      /\ entry' \in [running : BOOLEAN, stopping : BOOLEAN, reported : Nat, turns : Nat]
  <2>1. PICK turns \in Nat : entry' = [entry EXCEPT !.turns = turns,
                                                 !.reported = IF u = NoUse THEN @ ELSE u]
    <3>1. entry.turns \in Nat /\ entry.turns + 1 \in Nat
      BY DEF Shape
    <3>2. CASE Head(events).kind = "session"
      BY <1>1, <3>1, <3>2
    <3>3. CASE Head(events).kind # "session"
      BY <1>1, <3>1, <3>3
    <3> QED BY <3>2, <3>3
  <2> QED BY <1>4, <2>1 DEF Shape
<1>7. totals' \in Nat /\ TotalsAreReports'
  <2>1. entry.reported \in Nat /\ totals \in Nat /\ hist.ended \in Nat
        /\ totals = hist.ended + entry.reported
    BY DEF Shape, TotalsAreReports
  <2>2. CASE u = NoUse
    BY <1>1, <1>6, <2>1, <2>2 DEF TotalsAreReports
  <2>3. CASE u # NoUse
    <3>1. u \in Nat /\ entry.reported <= u
      BY <1>4, <1>5, <2>3
    <3>2. Delta(u) = u - entry.reported
      BY <2>1, <3>1 DEF Delta
    <3>3. totals' = hist.ended + u /\ entry'.reported = u
      BY <1>1, <1>6, <2>1, <2>3, <3>1, <3>2
    <3>4. totals' \in Nat
      BY <2>1, <3>1, <3>3
    <3> QED BY <1>1, <3>3, <3>4 DEF TotalsAreReports
  <2> QED BY <2>2, <2>3
<1>8. Shape'
  BY <1>1, <1>6, <1>7, <1>t DEF Shape
<1>9. Stands'
  <2>1. ASSUME NEW k \in 1 .. Len(events'), events'[k].kind = "exit"
        PROVE  k = Len(events') /\ client'.phase = "stopped"
    <3>1. k + 1 \in 1 .. Len(events) /\ events'[k] = events[k + 1]
      BY <1>1, <1>t
    <3>2. k + 1 = Len(events) /\ client.phase = "stopped"
      BY <2>1, <3>1 DEF Stands
    <3> QED BY <1>1, <1>t, <3>2
  <2> QED BY <1>1, <2>1 DEF Stands
<1>10. Rising' /\ Covered'
  BY <1>1, <1>2, <1>6, OneTaken
<1> QED BY <1>7, <1>8, <1>9, <1>10

(* The exit is the last event of a run: nothing of the run is on its way   *)
(* when the loop forgets the entry.                                        *)
LEMMA ExitKeeps ==
  ASSUME UsageInv, TakeExit
  PROVE  UsageInv'
<1> USE DEF UsageInv
<1>1. /\ events # <<>> /\ Head(events).kind = "exit" /\ events' = Tail(events) /\ entry' = NoEntry
      /\ hist' = [hist EXCEPT !.ended = @ + entry.reported] /\ client' = Off
      /\ UNCHANGED <<used, stream, stored, totals>>
  BY DEF TakeExit
<1>2. /\ Tail(events) \in Seq(Sent) /\ Len(Tail(events)) = Len(events) - 1 /\ Len(events) \in Nat
      /\ Len(events) > 0 /\ Head(events) = events[1]
  BY <1>1, TailAt DEF Shape
<1>3. 1 = Len(events) /\ client.phase = "stopped"
  BY <1>1, <1>2 DEF Stands
<1>4. stream = <<>> /\ Len(stream) = 0
  BY <1>3 DEF Stands
<1>5. Len(events') = 0 /\ Length' = 0
  BY <1>1, <1>2, <1>3, <1>4 DEF Length
<1>6. client'.thread = 0 /\ entry'.reported = 0 /\ client'.phase = "off"
  BY <1>1 DEF Off, NoEntry
<1>7. hist' \in [runs : Nat, ended : Nat] /\ hist'.ended = hist.ended + entry.reported
  <2>1. hist \in [runs : Nat, ended : Nat] /\ hist.ended + entry.reported \in Nat
    BY DEF Shape
  <2> QED BY <1>1, <2>1
<1>8. Shape'
  BY <1>1, <1>2, <1>7, Silent DEF Shape
<1>9. TotalsAreReports'
  BY <1>1, <1>6, <1>7 DEF TotalsAreReports, Shape
<1>10. Stands' /\ Rising' /\ Covered'
  BY <1>1, <1>4, <1>5, <1>6 DEF Stands, Rising, Covered, Early
<1> QED BY <1>8, <1>9, <1>10

LEMMA StartsWell ==
  ASSUME Init
  PROVE  UsageInv
<1>1. Length = 0 /\ Len(events) = 0 /\ client.thread = 0 /\ entry.reported = 0
  BY DEF Init, Length, Off, NoEntry
<1>2. Shape
  BY Silent DEF Init, Shape
<1>3. TotalsAreReports
  BY DEF Init, TotalsAreReports, NoEntry
<1> QED BY <1>1, <1>2, <1>3 DEF UsageInv, Init, Stands, Rising, Covered

LEMMA StepKeeps ==
  ASSUME UsageInv, [Next]_vars
  PROVE  UsageInv'
<1>1. CASE Dispatch \/ Launch \/ Initialized \/ StartThread \/ StartRefused \/ StartCancelled
  BY <1>1, StartKeeps DEF StartRefused, StartCancelled
<1>2. CASE PortExit \/ Timeout \/ TurnCancelled \/ Continue \/ Dies \/ RequestStop
  BY <1>2, QuietKeeps DEF PortExit, Timeout, TurnCancelled, Results
<1>3. CASE UNCHANGED vars
  BY <1>3 DEF vars, UsageInv, Shape, Stands, Rising, Covered, TotalsAreReports, Length, Pipe, Usage
<1> QED
  BY <1>1, <1>2, <1>3, RunTurnKeeps, ReadKeeps, StopKeeps, ServerKeeps, TakeKeeps, ExitKeeps
  DEF Next, ClientStep

(* The token total of the loop is the sum of what every session reported   *)
(* last, whatever the server repeats and in whichever shape (extractUsage, *)
(* applyUsage).                                                            *)
THEOREM TotalsAreReportsHolds == Spec => []TotalsAreReports
<1>1. Init => UsageInv
  BY StartsWell
<1>2. UsageInv /\ [Next]_vars => UsageInv'
  BY StepKeeps
<1>3. UsageInv => TotalsAreReports
  BY DEF UsageInv
<1> QED BY <1>1, <1>2, <1>3, PTL DEF Spec

-----------------------------------------------------------------------------
(* What a turn leaves behind.                                              *)

(* A client that keeps its turn and what was said, or forgets what was.    *)
LEMMA KeptSame ==
  ASSUME Kept,
         \/ client'.turn = client.turn
            /\ client'.summary = client.summary /\ client'.output = client.output
         \/ client'.summary = Silence /\ client'.output = Silence
  PROVE  Kept'
BY DEF Kept, Silence

LEMMA KeptStep ==
  ASSUME Shape, Kept, [Next]_vars
  PROVE  Kept'
<1>s. client \in Clients
  BY DEF Shape
<1>1. CASE Dispatch \/ TakeExit
  BY <1>1, KeptSame DEF Dispatch, TakeExit, Off
<1>2. CASE Launch \/ Initialized \/ StartThread \/ StartRefused \/ StartCancelled
  BY <1>s, <1>2, KeptSame DEF Launch, Initialized, StartThread, StartRefused, StartCancelled,
                             StartFails, Clients
<1>3. CASE RunTurn
  <2>1. PICK c \in {Reset(client)} : \E p \in Phases, r \in Results :
          client' = [c EXCEPT !.phase = p, !.turn = @ + 1, !.result = r]
    BY <1>3 DEF RunTurn, Phases, Results
  <2>2. c \in Clients /\ c.summary = Silence /\ c.output = Silence
    BY <1>s, <2>1, ClientType DEF Reset, Clients
  <2>3. client'.summary = Silence /\ client'.output = Silence
    BY <2>1, <2>2 DEF Clients
  <2> QED BY <2>3, KeptSame
<1>4. CASE Read
  <2> DEFINE note == Head(stream)
             heard == Hears(client, note)
  <2>1. note \in Heard
    BY <1>4, TailAt DEF Read, Shape
  <2>2. heard \in Clients /\ heard.turn = client.turn
    <3>1. heard \in Clients
      BY <1>s, <2>1, ClientType
    <3>2. heard.turn = client.turn
      BY <1>s DEF Hears, Clients
    <3> QED BY <3>1, <3>2
  <2>3. /\ heard.summary.text # "none" => heard.summary.turn = heard.turn
        /\ heard.output.text # "none" => heard.output.turn = heard.turn
    BY <1>s, <2>2 DEF Hears, Clients, Kept
  <2>4. client' = heard \/ \E r : client' = [heard EXCEPT !.phase = "over", !.result = r]
    BY <1>4 DEF Read
  <2> HIDE DEF heard
  <2>5. client'.turn = heard.turn /\ client'.summary = heard.summary /\ client'.output = heard.output
    BY <2>2, <2>4 DEF Clients
  <2> QED BY <2>3, <2>5 DEF Kept
<1>5. CASE PortExit \/ Timeout \/ TurnCancelled \/ Continue \/ Stop
  BY <1>s, <1>5, KeptSame DEF PortExit, Timeout, TurnCancelled, TurnEndsWith, Continue, Stop, Clients
<1>6. CASE SaysText \/ SaysUsage \/ SaysError \/ EndsTurn \/ Dies \/ TakeEvent \/ RequestStop \/ UNCHANGED vars
  <2>1. UNCHANGED client
    BY <1>6 DEF SaysText, SaysUsage, SaysError, EndsTurn, Says, Dies, TakeEvent, RequestStop, vars
  <2> QED BY <2>1, KeptSame
<1> QED BY <1>1, <1>2, <1>3, <1>4, <1>5, <1>6 DEF Next, ClientStep

(* What the runner reads after a turn, its outcome line or its last text,  *)
(* was said in that turn, however it ended (resetTurnState, finishTurn).   *)
THEOREM OutputOfThisTurnHolds == Spec => []OutputOfThisTurn
<1>1. Init => UsageInv /\ Kept
  BY StartsWell DEF Init, Kept, Off, Silence
<1>2. UsageInv /\ Kept /\ [Next]_vars => UsageInv' /\ Kept'
  BY StepKeeps, KeptStep DEF UsageInv
<1>3. Kept => OutputOfThisTurn
  BY DEF Kept, OutputOfThisTurn, LatestTurnSummary
<1> QED BY <1>1, <1>2, <1>3, PTL DEF Spec
=============================================================================
