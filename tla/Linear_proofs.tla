--------------------------- MODULE Linear_proofs ---------------------------
(***************************************************************************)
(* What Colin asks of Linear, what it keeps there, and how it is set up to *)
(* do so.  Three modules that share no state, so each theorem is about the *)
(* specification of one of them:                                           *)
(*   Spec, of LinearCalls: for any number of callers, clients, processes   *)
(*   and tokens, any faults and any restarts, no mutation of a call runs   *)
(*   twice, a webhook that was set up stands, and a client is locked out   *)
(*   only for a cause;                                                     *)
(*   MetaSpec, of Metadata: for any states, messages, deliveries, sessions *)
(*   and faults, a write lands, a summary is posted once while a worker    *)
(*   runs, and a delegation is acknowledged once;                          *)
(*   SetupSpec, of SetupWizard: for any projects, checks and listings,     *)
(*   what will be written was accepted, the list is of the session's key,  *)
(*   and no file is replaced unasked.                                      *)
(***************************************************************************)
EXTENDS LinearCalls, Metadata, SetupWizard, FiniteSetTheorems, WellFoundedInduction, TLAPS

-----------------------------------------------------------------------------
-----------------------------------------------------------------------------
(* The calls to Linear (LinearCalls).                                      *)

Fields == {"pc", "op", "client", "at", "answer", "retried", "token", "why", "got", "seen",
           "read", "ran", "again"}
Steps == {"idle", "auth", "refresh", "exchange", "granted", "writing", "send", "answered"}

(* The shape of a call.                                                    *)
IsCall(r) ==
  /\ DOMAIN r = Fields
  /\ r.pc \in Steps /\ r.at \in Requests \cup {"none"} /\ r.ran \subseteq Mutations
Shape == DOMAIN call = Callers /\ \A k \in Callers : IsCall(call[k])

(* Only the call of k moves.                                               *)
Alone(k) == /\ DOMAIN call' = Callers
            /\ \A j \in Callers \ {k} : call'[j] = call[j]

-----------------------------------------------------------------------------
(* What the requests do to a call.                                         *)

LEMMA IdleShape == IsCall(Idle)
BY DEF IsCall, Idle, Fields, Steps

LEMMA FirstIsRequest ==
  ASSUME NEW op \in Operations \ {"visit", "callback"}, NEW c
  PROVE  First(op, c) \in Requests \cup {"none"}
BY DEF First, Operations, Requests

LEMMA FollowsIsRequest ==
  ASSUME NEW r
  PROVE  Follows(r) \in Requests \cup {"none"}
<1>1. AfterLabel(r) \in Requests \cup {"none"}
  BY DEF AfterLabel, Requests
<1>2. AfterStates(r) \in Requests \cup {"none"} /\ AfterTeam(r) \in Requests \cup {"none"}
      /\ AfterHooks(r) \in Requests \cup {"none"}
  BY DEF AfterStates, AfterTeam, AfterHooks, AfterAll, Requests
<1> QED BY <1>1, <1>2 DEF Follows

(* Of the mutations only addLabel comes after another one of its call.     *)
Before(q) == IF q = "addLabel" THEN {"createLabel"} ELSE {}

LEMMA FollowsInOrder ==
  ASSUME NEW r, r.at \in Requests \cup {"none"}, Follows(r) # "none"
  PROVE  (Before(r.at) \cup {r.at}) \cap Mutations \subseteq Before(Follows(r))
<1>1. CASE r.at = "findLabel"
  BY <1>1 DEF Before, Mutations
<1>2. CASE r.at = "createLabel"
  <2>1. Follows(r) = AfterLabel(r)
    BY <1>2 DEF Follows
  <2>2. AfterLabel(r) \in {"addLabel", "none"}
    BY <1>2 DEF AfterLabel
  <2> QED BY <1>2, <2>1, <2>2 DEF Before
<1>3. CASE r.at \in {"states", "team", "webhooks", "deleteWebhook"}
  BY <1>3 DEF Before, Mutations
<1>4. CASE r.at \notin {"findLabel", "createLabel", "states", "team", "webhooks", "deleteWebhook"}
  BY <1>4 DEF Follows
<1> QED BY <1>1, <1>2, <1>3, <1>4

(* A request is served: Linear runs it, or answers 401 and runs nothing.   *)
Ran(k) ==
  \/ call'[k].ran = call[k].ran /\ (call'[k].again => call[k].again)
  \/ /\ call[k].at \in Mutations /\ call'[k].answer # "401"
     /\ call'[k].ran = call[k].ran \cup {call[k].at}
     /\ call'[k].again => call[k].again \/ call[k].at \in call[k].ran

LEMMA ServeEffect ==
  ASSUME Shape, NEW k \in Callers, Serve(k)
  PROVE  /\ Alone(k) /\ Ran(k) /\ DOMAIN call'[k] = Fields
         /\ call'[k].pc = "answered"
         /\ call'[k].at = call[k].at /\ call'[k].client = call[k].client
         /\ call'[k].why = call[k].why /\ call'[k].op = call[k].op
<1> DEFINE r == call[k]
           Answer(a) == call' = [call EXCEPT ![k].pc = "answered", ![k].answer = a,
                              ![k].ran = IF r.at \in Mutations THEN @ \cup {r.at} ELSE @,
                              ![k].again = @ \/ r.at \in r.ran]
           Effect == /\ Alone(k) /\ Ran(k) /\ DOMAIN call'[k] = Fields
                     /\ call'[k].pc = "answered"
                     /\ call'[k].at = call[k].at /\ call'[k].client = call[k].client
                     /\ call'[k].why = call[k].why /\ call'[k].op = call[k].op
<1>1. ASSUME NEW a, a # "401", Answer(a)
      PROVE  Effect
  <2>1. Alone(k) /\ DOMAIN call'[k] = Fields /\ call'[k].pc = "answered"
        /\ call'[k].at = call[k].at /\ call'[k].client = call[k].client
        /\ call'[k].why = call[k].why /\ call'[k].op = call[k].op /\ call'[k].answer = a
        /\ call'[k].ran = (IF r.at \in Mutations THEN r.ran \cup {r.at} ELSE r.ran)
    BY <1>1 DEF Shape, IsCall, Fields, Alone
  <2>2. call'[k].again = (r.again \/ r.at \in r.ran)
    BY <1>1 DEF Shape, IsCall, Fields
  <2>3. r.ran \subseteq Mutations
    BY DEF Shape, IsCall
  <2>4. call'[k].again => r.again \/ r.at \in r.ran
    BY <2>2, Zenon
  <2>5. CASE r.at \in Mutations
    BY <1>1, <2>1, <2>4, <2>5 DEF Ran
  <2>6. CASE r.at \notin Mutations
    BY <2>1, <2>3, <2>4, <2>6 DEF Ran
  <2> QED BY <2>1, <2>5, <2>6
<1>2. CASE age[r.token] = "expired"
  BY <1>2 DEF Serve, Shape, IsCall, Fields, Alone, Ran
<1>3. CASE Run(k)
  <2>1. CASE r.at = "findLabel"
    <3>1. Answer("yes") \/ Answer("no")
      BY <1>3, <2>1 DEF Run
    <3> QED BY <3>1, <1>1
  <2>2. CASE r.at = "createLabel"
    <3>1. Answer("yes") \/ Answer("no")
      BY <1>3, <2>2 DEF Run
    <3> QED BY <3>1, <1>1
  <2>3. CASE r.at \in {"addLabel", "removeLabel"}
    <3>1. Answer("yes")
      BY <1>3, <2>3 DEF Run
    <3> QED BY <3>1, <1>1
  <2>4. CASE r.at = "webhooks"
    <3>1. PICK x : call' = [call EXCEPT ![k].pc = "answered", ![k].seen = DOMAIN hooks,
                              ![k].answer = x]
      BY <1>3, <2>4 DEF Run
    <3> QED BY <3>1 DEF Shape, IsCall, Fields, Alone, Ran
  <2>5. CASE r.at = "deleteWebhook"
    <3>1. PICK x, y : call' = [call EXCEPT ![k].pc = "answered", ![k].seen = y,
                                 ![k].answer = x]
      BY <1>3, <2>5 DEF Run
    <3> QED BY <3>1 DEF Shape, IsCall, Fields, Alone, Ran
  <2>6. CASE r.at = "createWebhook"
    <3>1. Answer("yes")
      BY <1>3, <2>6 DEF Run
    <3> QED BY <3>1, <1>1
  <2>7. CASE r.at \notin {"findLabel", "createLabel", "addLabel", "removeLabel", "webhooks",
                          "deleteWebhook", "createWebhook"}
    <3>1. Answer("yes") \/ Answer("no")
      BY <1>3, <2>7 DEF Run
    <3> QED BY <3>1, <1>1
  <2> QED BY <2>1, <2>2, <2>3, <2>4, <2>5, <2>6, <2>7
<1> QED BY <1>2, <1>3 DEF Serve

-----------------------------------------------------------------------------
(* Mutations run once.                                                     *)

(* Where a call stands tells which of its mutations have run: only the one *)
(* before its request, and its request once that has been answered.        *)
Once(r) ==
  /\ ~r.again
  /\ r.ran \subseteq Before(r.at) \cup
       (IF r.pc = "answered" /\ r.answer # "401" THEN {r.at} ELSE {})
OnceInv == Shape /\ \A k \in Callers : Once(call[k])

LEMMA IdleOnce == IsCall(Idle) /\ Once(Idle)
BY IdleShape DEF Once, Idle

LEMMA AsksOnce ==
  ASSUME NEW r, NEW at \in Requests \cup {"none"}, IsCall(r), ~r.again, r.ran \subseteq Before(at)
  PROVE  IsCall(Asks(r, at)) /\ Once(Asks(r, at))
BY DEF Asks, IsCall, Once, Fields, Steps

(* A step of k that changes none of the fields of its request.             *)
SameRequest(k) ==
  /\ DOMAIN call'[k] = Fields
  /\ call'[k].pc \in Steps \ {"answered"} /\ call'[k].at = call[k].at
  /\ call'[k].op = call[k].op /\ call'[k].seen = call[k].seen
  /\ call'[k].ran = call[k].ran /\ (call'[k].again => call[k].again)

(* What a step of k comes to for its requests.                             *)
Moves(k) ==
  /\ Alone(k)
  /\ \/ call'[k] = Idle
     \/ SameRequest(k) /\ ~(call[k].pc = "answered" /\ call[k].answer # "401")
     \/ \E c \in Clients, op \in (Ops[k] \cap Operations) \ {"visit", "callback"} :
          /\ First(op, c) \in Requests
          /\ call'[k] = Asks([Idle EXCEPT !.op = op, !.client = c], First(op, c))
     \/ /\ call[k].pc = "answered" /\ call[k].answer # "401" /\ Follows(call[k]) # "none"
        /\ call'[k] = Asks(call[k], Follows(call[k]))
     \/ call[k].pc # "answered" /\ Serve(k)
     \/ /\ IsCall(call'[k]) /\ Once(call'[k])
        /\ call'[k].at = "none" /\ call'[k].op # "hook"

LEMMA MovesOnce ==
  ASSUME OnceInv, NEW k \in Callers, Moves(k)
  PROVE  OnceInv'
<1>a. IsCall(call[k]) /\ Once(call[k])
  BY DEF OnceInv, Shape
<1>1. SUFFICES IsCall(call'[k]) /\ Once(call'[k])
  BY DEF OnceInv, Shape, Moves, Alone
<1>2. CASE call'[k] = Idle
  BY <1>2, IdleOnce
<1>3. CASE SameRequest(k) /\ ~(call[k].pc = "answered" /\ call[k].answer # "401")
  BY <1>3, <1>a DEF SameRequest, IsCall, Once
<1>4. ASSUME NEW c \in Clients, NEW op \in Operations, First(op, c) \in Requests,
             call'[k] = Asks([Idle EXCEPT !.op = op, !.client = c], First(op, c))
      PROVE  IsCall(call'[k]) /\ Once(call'[k])
  <2> DEFINE r == [Idle EXCEPT !.op = op, !.client = c]
  <2>1. IsCall(r) /\ ~r.again /\ r.ran = {}
    BY DEF IsCall, Idle, Fields, Steps
  <2> HIDE DEF r
  <2>2. IsCall(Asks(r, First(op, c))) /\ Once(Asks(r, First(op, c)))
    BY <1>4, <2>1, AsksOnce
  <2> QED BY <1>4, <2>2 DEF r
<1>5. CASE /\ call[k].pc = "answered" /\ call[k].answer # "401" /\ Follows(call[k]) # "none"
           /\ call'[k] = Asks(call[k], Follows(call[k]))
  <2> DEFINE r == call[k]
  <2>1. r.ran \subseteq Before(Follows(r))
    BY <1>a, <1>5, FollowsInOrder DEF IsCall, Once
  <2>2. Follows(r) \in Requests \cup {"none"} /\ ~r.again
    BY <1>a, FollowsIsRequest DEF Once
  <2> QED BY <1>a, <1>5, <2>1, <2>2, AsksOnce
<1>6. CASE call[k].pc # "answered" /\ Serve(k)
  <2>1. /\ Ran(k) /\ DOMAIN call'[k] = Fields /\ call'[k].pc = "answered"
        /\ call'[k].at = call[k].at
    BY <1>6, ServeEffect DEF OnceInv
  <2>2. ~call[k].again /\ call[k].ran \subseteq Before(call[k].at)
    BY <1>6, <1>a DEF Once
  <2>3. call[k].at \notin Before(call[k].at)
    BY DEF Before
  <2> QED BY <1>a, <2>1, <2>2, <2>3 DEF Ran, IsCall, Once, Steps
<1> QED BY <1>2, <1>3, <1>4, <1>5, <1>6 DEF Moves

(* A new call that has asked nothing of the API yet.                       *)
LEMMA PageCalls ==
  ASSUME NEW r, DOMAIN r = Fields, r.pc \in Steps, r.at = "none", r.ran = {}, ~r.again
  PROVE  IsCall(r) /\ Once(r)
BY DEF IsCall, Once, Before

LEMMA EveryStepMoves ==
  ASSUME Shape, NEW k \in Callers,
         \/ Step(k) \/ Grant(k) \/ LoseGrant(k) \/ WriteFails(k) \/ Lose(k) \/ Visit(k)
         \/ \E c \in Clients, op \in Operations : Begin(k, c, op)
         \/ \E s \in 1..used.visits : Callback(k, s)
  PROVE  Moves(k)
<1>a. DOMAIN call = Callers /\ DOMAIN call[k] = Fields
  BY DEF Shape, IsCall
<1>b. \A r : call' = [call EXCEPT ![k] = r] => Alone(k) /\ call'[k] = r
  BY <1>a DEF Alone
<1>1. CASE Authorization(k)
  <2>1. call[k].pc = "auth"
    BY <1>1 DEF Authorization
  <2>2. \/ call' = [call EXCEPT ![k].pc = "exchange", ![k].why = "due"]
        \/ call' = [call EXCEPT ![k].pc = "send", ![k].token = mem[call[k].client]]
    BY <1>1 DEF Authorization
  <2> QED BY <2>1, <2>2, <1>a, ZenonT(60) DEF Moves, Alone, SameRequest, Fields, Steps
<1>2. CASE Refresh(k)
  BY <1>2, <1>a, ZenonT(60) DEF Refresh, Moves, Alone, SameRequest, Fields, Steps
<1>3. CASE ReadFile(k)
  BY <1>3, <1>a DEF ReadFile, Moves, Alone, SameRequest, Fields, Steps
<1>4. CASE WriteFile(k)
  <2>1. call[k].pc = "writing" /\ call' = [call EXCEPT ![k] = Resumes(k)]
    BY <1>4 DEF WriteFile
  <2>2. Alone(k) /\ call'[k] = Resumes(k)
    BY <2>1, <1>b
  <2>3. CASE call[k].why = "due"
    BY <2>1, <2>2, <2>3, <1>a DEF Resumes, Moves, SameRequest, Fields, Steps
  <2>4. CASE call[k].why = "401"
    BY <2>1, <2>2, <2>4, <1>a DEF Resumes, Moves, SameRequest, Fields, Steps
  <2>5. CASE call[k].why \notin {"due", "401"}
    BY <2>2, <2>5 DEF Resumes, Moves
  <2> QED BY <2>3, <2>4, <2>5
<1>5. CASE Serve(k)
  BY <1>5, ServeEffect DEF Moves, Serve
<1>6. CASE Receive(k)
  <2> DEFINE r == call[k]
  <2>1. CASE r.answer = "401" /\ r.retried
    BY <1>6, <2>1, <1>b DEF Receive, Moves
  <2>2. CASE r.answer = "401" /\ ~r.retried
    <3>1. call' = [call EXCEPT ![k] = [r EXCEPT !.pc = "refresh"]]
      BY <1>6, <2>2 DEF Receive
    <3> QED BY <3>1, <2>2, <1>a DEF Moves, Alone, SameRequest, Fields, Steps
  <2>3. CASE r.answer # "401"
    BY <1>6, <2>3, <1>b DEF Receive, Moves
  <2> QED BY <2>1, <2>2, <2>3
<1>7. CASE Grant(k)
  <2>1. call[k].pc = "exchange"
    BY <1>7 DEF Grant
  <2>2. \/ call' = [call EXCEPT ![k].pc = "granted", ![k].got = issued + 1]
        \/ call' = [call EXCEPT ![k] = Idle]
    BY <1>7 DEF Grant
  <2>3. CASE call' = [call EXCEPT ![k].pc = "granted", ![k].got = issued + 1]
    BY <2>1, <2>3, <1>a DEF Moves, Alone, SameRequest, Fields, Steps
  <2>4. CASE call' = [call EXCEPT ![k] = Idle]
    BY <2>4, <1>b DEF Moves
  <2> QED BY <2>2, <2>3, <2>4
<1>8. CASE LoseGrant(k)
  BY <1>8, <1>b DEF LoseGrant, Moves
<1>9. CASE WriteFails(k)
  BY <1>9, <1>b DEF WriteFails, Moves
<1>10. CASE Lose(k)
  BY <1>10, <1>b DEF Lose, WhenLost, Again, Moves
<1>11. CASE Visit(k)
  <2>1. PICK n : call' = [call EXCEPT ![k] = [Idle EXCEPT !.pc = "granted", !.op = "visit",
                                                !.why = "visit", !.got = n]]
    BY <1>11 DEF Visit
  <2>2. IsCall(call'[k]) /\ Once(call'[k])
    BY <2>1, <1>b, PageCalls DEF Idle, Fields, Steps
  <2>3. call'[k] = [Idle EXCEPT !.pc = "granted", !.op = "visit", !.why = "visit", !.got = n]
    BY <2>1, <1>b
  <2>4. call'[k].at = "none" /\ call'[k].op # "hook"
    BY <2>3 DEF Idle
  <2> QED BY <2>1, <2>2, <2>4, <1>b DEF Moves
<1>12. ASSUME NEW c \in Clients, NEW op \in Operations, Begin(k, c, op)
       PROVE  Moves(k)
  <2>1. call' = [call EXCEPT ![k] = Asks([Idle EXCEPT !.op = op, !.client = c], First(op, c))]
    BY <1>12 DEF Begin
  <2>2. First(op, c) \in Requests /\ op \in (Ops[k] \cap Operations) \ {"visit", "callback"}
    BY <1>12, FirstIsRequest DEF Begin
  <2>3. Alone(k) /\ call'[k] = Asks([Idle EXCEPT !.op = op, !.client = c], First(op, c))
    BY <2>1, <1>b
  <2> QED BY <2>2, <2>3 DEF Moves
<1>13. ASSUME NEW s \in 1..used.visits, Callback(k, s)
       PROVE  Moves(k)
  <2>1. call' = [call EXCEPT ![k] = [Idle EXCEPT !.pc = "exchange", !.op = "callback", !.why = "code"]]
    BY <1>13 DEF Callback
  <2>2. IsCall(call'[k]) /\ Once(call'[k])
    BY <2>1, <1>b, PageCalls DEF Idle, Fields, Steps
  <2>3. call'[k] = [Idle EXCEPT !.pc = "exchange", !.op = "callback", !.why = "code"]
    BY <2>1, <1>b
  <2>4. call'[k].at = "none" /\ call'[k].op # "hook"
    BY <2>3 DEF Idle
  <2> QED BY <2>1, <2>2, <2>4, <1>b DEF Moves
<1> QED BY <1>1, <1>2, <1>3, <1>4, <1>5, <1>6, <1>7, <1>8, <1>9, <1>10, <1>11, <1>12, <1>13 DEF Step

(* A crash ends the calls of one process.                                  *)
LEMMA CrashOnce ==
  ASSUME OnceInv, NEW p \in Processes, Crash(p)
  PROVE  OnceInv'
<1>1. \A k \in Callers : call'[k] \in {Idle, call[k]}
  BY DEF Crash
<1>2. DOMAIN call' = Callers
  BY DEF Crash
<1> QED BY <1>1, <1>2, IdleOnce DEF OnceInv, Shape

LEMMA OnceInvariant == Spec => []OnceInv
<1>1. Init => OnceInv
  BY IdleOnce DEF Init, OnceInv, Shape
<1>2. OnceInv /\ [Next]_vars => OnceInv'
  <2> SUFFICES ASSUME OnceInv, [Next]_vars PROVE OnceInv'
    OBVIOUS
  <2>1. ASSUME UNCHANGED call PROVE OnceInv'
    BY <2>1 DEF OnceInv, Shape
  <2>2. ASSUME NEW k \in Callers, Moves(k) PROVE OnceInv'
    BY <2>2, MovesOnce
  <2>3. ASSUME NEW c \in Clients, Load(c) PROVE OnceInv'
    BY <2>1, <2>3 DEF Load
  <2>4. ASSUME NEW t \in Tokens, Age(t) PROVE OnceInv'
    BY <2>1, <2>4 DEF Age
  <2>5. CASE UNCHANGED vars
    BY <2>1, <2>5 DEF vars
  <2>6. ASSUME NEW k \in Callers,
               \/ Step(k) \/ Grant(k) \/ LoseGrant(k) \/ WriteFails(k) \/ Lose(k) \/ Visit(k)
               \/ \E c \in Clients, op \in Operations : Begin(k, c, op)
               \/ \E s \in 1..used.visits : Callback(k, s)
        PROVE  OnceInv'
    BY <2>2, <2>6, EveryStepMoves DEF OnceInv
  <2> QED BY <2>3, <2>4, <2>5, <2>6, CrashOnce DEF Next
<1> QED BY <1>1, <1>2, PTL DEF Spec

(* ExecutedOnce: whatever is lost, refreshed, retried or restarted, and    *)
(* with any number of callers and clients, Linear runs no mutation of a    *)
(* call twice (doQueryPayload).                                            *)
THEOREM ExecutedOnceHolds == Spec => []ExecutedOnce
<1>1. OnceInv => ExecutedOnce
  BY DEF OnceInv, Once, ExecutedOnce
<1> QED BY <1>1, OnceInvariant, PTL

-----------------------------------------------------------------------------
(* The webhook setup.                                                      *)

HookRequests == {"team", "webhooks", "deleteWebhook", "createWebhook"}
Answered(r) == r.pc = "answered" /\ r.answer # "401"
OneGoodHook == Cardinality(DOMAIN hooks) = 1 /\ \A h \in DOMAIN hooks : hooks[h] = "good"

(* What a call knows of the team's webhooks, by its request.               *)
Sees(k) ==
  LET r == call[k] IN
  /\ r.at = "webhooks" /\ Answered(r) =>
       /\ r.answer \in {"good", "yes"} /\ r.seen = DOMAIN hooks
       /\ r.answer = "good" => OneGoodHook
  /\ r.at = "deleteWebhook" =>
       /\ r.seen = DOMAIN hooks
       /\ IF Answered(r) THEN r.answer = "yes" ELSE r.seen # {}
  /\ r.at = "createWebhook" => IF Answered(r) THEN OneGoodHook ELSE DOMAIN hooks = {}
SetsHooks(k) ==
  /\ call[k].op = "hook" => "hook" \in Ops[k]
  /\ call[k].at \in HookRequests => call[k].op = "hook"
  /\ Sees(k)
HookInv == Shape /\ \A k \in Callers : SetsHooks(k)

LEMMA HooksStay ==
  ASSUME NEW k \in Callers,
         \/ Step(k) \/ Grant(k) \/ LoseGrant(k) \/ WriteFails(k) \/ Lose(k) \/ Visit(k)
         \/ \E c \in Clients, op \in Operations : Begin(k, c, op)
         \/ \E s \in 1..used.visits : Callback(k, s)
  PROVE  Serve(k) \/ UNCHANGED hooks
BY DEF Step, Authorization, Refresh, ReadFile, WriteFile, Receive, Grant, LoseGrant, WriteFails,
       Lose, Visit, Begin, Callback

(* What Linear makes of a request of k, and what its call then knows.      *)
LEMMA ServeHooks ==
  ASSUME HookInv, NEW k \in Callers, Serve(k)
  PROVE  SetsHooks(k)' /\ (call[k].at \notin HookRequests => UNCHANGED hooks)
<1> DEFINE r == call[k]
           s == call'[k]
<1>a. DOMAIN call = Callers /\ DOMAIN r = Fields /\ SetsHooks(k) /\ r.pc = "send"
  BY DEF HookInv, Shape, IsCall, Serve
<1>b. ASSUME s.op = r.op, s.at = r.at, Sees(k)', r.at \notin HookRequests => UNCHANGED hooks
      PROVE  SetsHooks(k)' /\ (call[k].at \notin HookRequests => UNCHANGED hooks)
  BY <1>a, <1>b DEF SetsHooks
<1>1. CASE age[r.token] = "expired"
  <2>1. call' = [call EXCEPT ![k].pc = "answered", ![k].answer = "401"] /\ UNCHANGED hooks
    BY <1>1 DEF Serve
  <2>2. s.op = r.op /\ s.at = r.at /\ s.seen = r.seen /\ s.answer = "401"
    BY <2>1, <1>a DEF Fields
  <2>3. ~Answered(s) /\ ~Answered(r)
    BY <2>2, <1>a DEF Answered
  <2>4. Sees(k)'
    BY <2>1, <2>2, <2>3, <1>a DEF SetsHooks, Sees, OneGoodHook
  <2> QED BY <2>1, <2>2, <2>4, <1>b
<1>2. CASE Run(k) /\ r.at \notin {"webhooks", "deleteWebhook", "createWebhook"}
  <2>1. UNCHANGED hooks
    BY <1>2 DEF Run
  <2>2. s.op = r.op /\ s.at = r.at
    BY ServeEffect DEF HookInv
  <2> QED BY <2>1, <2>2, <1>2, <1>b DEF Sees
<1>3. CASE Run(k) /\ r.at = "webhooks"
  <2> DEFINE good == AsItShouldBe([r EXCEPT !.seen = DOMAIN hooks])
  <2>1. /\ call' = [call EXCEPT ![k].pc = "answered", ![k].seen = DOMAIN hooks,
                      ![k].answer = IF good THEN "good" ELSE "yes"]
        /\ UNCHANGED hooks
    BY <1>3 DEF Run
  <2>2. /\ s.op = r.op /\ s.at = "webhooks" /\ s.seen = DOMAIN hooks
        /\ s.answer = IF good THEN "good" ELSE "yes"
    BY <2>1, <1>3, <1>a DEF Fields
  <2>3. good => OneGoodHook
    BY <1>a DEF AsItShouldBe, OneGoodHook, Fields
  <2>4. s.answer \in {"good", "yes"} /\ (s.answer = "good" => OneGoodHook)
    BY <2>2, <2>3
  <2>5. Sees(k)'
    BY <2>1, <2>2, <2>4 DEF Sees, OneGoodHook
  <2> QED BY <2>1, <2>2, <2>5, <1>3, <1>b
<1>4. CASE Run(k) /\ r.at = "deleteWebhook"
  <2>1. PICK h : h \in DOMAIN hooks /\ h = CHOOSE x \in r.seen : TRUE
    BY <1>4, <1>a DEF SetsHooks, Sees, Answered
  <2>2. /\ hooks' = [x \in DOMAIN hooks \ {h} |-> hooks[x]]
        /\ call' = [call EXCEPT ![k].pc = "answered", ![k].seen = @ \ {h}, ![k].answer = "yes"]
    BY <2>1, <1>4 DEF Run
  <2>3. s.op = r.op /\ s.at = "deleteWebhook" /\ s.pc = "answered" /\ s.answer = "yes"
        /\ s.seen = r.seen \ {h}
    BY <2>2, <1>4, <1>a DEF Fields
  <2>4. DOMAIN hooks' = DOMAIN hooks \ {h} /\ r.seen = DOMAIN hooks
    BY <2>2, <1>4, <1>a DEF SetsHooks, Sees
  <2>5. Sees(k)'
    BY <2>3, <2>4 DEF Sees, Answered
  <2> QED BY <2>3, <2>5, <1>4, <1>b DEF HookRequests
<1>5. CASE Run(k) /\ r.at = "createWebhook"
  <2> DEFINE new == Max(DOMAIN hooks \cup {0}) + 1
  <2>1. hooks' = [h \in DOMAIN hooks \cup {new} |-> IF h = new THEN "good" ELSE hooks[h]]
    BY <1>5 DEF Run
  <2>2. DOMAIN hooks = {}
    BY <1>5, <1>a DEF SetsHooks, Sees, Answered
  <2> HIDE DEF new
  <2>3. hooks' = [h \in {new} |-> "good"]
    BY <2>1, <2>2
  <2>4. OneGoodHook'
    BY <2>3, FS_Singleton DEF OneGoodHook
  <2>5. /\ s.op = r.op /\ s.at = r.at /\ s.pc = "answered" /\ s.answer = "yes"
    BY <1>5, <1>a DEF Run, Fields
  <2>6. Sees(k)'
    BY <2>4, <2>5, <1>5 DEF Sees, Answered
  <2> QED BY <2>5, <2>6, <1>5, <1>b DEF HookRequests
<1> QED BY <1>1, <1>2, <1>3, <1>4, <1>5 DEF Serve

LEMMA FollowsHooks ==
  ASSUME NEW r, Follows(r) \in HookRequests
  PROVE  /\ r.at \in HookRequests
         /\ Follows(r) \in {"deleteWebhook", "createWebhook"} =>
              /\ r.at \in {"webhooks", "deleteWebhook"} /\ r.answer \notin {"good", "no"}
              /\ Follows(r) = IF r.seen = {} THEN "createWebhook" ELSE "deleteWebhook"
<1>1. AfterLabel(r) \notin HookRequests /\ AfterStates(r) \notin HookRequests
  BY DEF AfterLabel, AfterStates, HookRequests
<1>2. AfterTeam(r) \in {"webhooks", "none"}
  BY DEF AfterTeam
<1>3. CASE r.at \in {"webhooks", "deleteWebhook"} /\ r.answer # "no"
  <2>1. Follows(r) = AfterAll(r)
    BY <1>3 DEF Follows, AfterHooks
  <2> QED BY <2>1, <1>3 DEF AfterAll, HookRequests
<1>4. CASE r.at = "team"
  <2>1. Follows(r) = AfterTeam(r)
    BY <1>4 DEF Follows
  <2> QED BY <2>1, <1>2, <1>4 DEF HookRequests
<1>5. CASE ~(r.at \in {"webhooks", "deleteWebhook"} /\ r.answer # "no") /\ r.at # "team"
  <2>1. Follows(r) \in {AfterLabel(r), AfterStates(r), "none"}
    BY <1>5 DEF Follows
  <2> QED BY <2>1, <1>1 DEF HookRequests
<1> QED BY <1>3, <1>4, <1>5

LEMMA MovesHooks ==
  ASSUME HookInv, NEW k \in Callers, Moves(k), Serve(k) \/ UNCHANGED hooks
  PROVE  SetsHooks(k)'
<1> DEFINE r == call[k]
           s == call'[k]
<1>a. SetsHooks(k) /\ IsCall(r)
  BY DEF HookInv, Shape
<1>1. CASE Serve(k)
  BY <1>1, ServeHooks
<1>2. CASE s = Idle
  BY <1>2 DEF SetsHooks, Sees, Idle, HookRequests
<1>3. CASE SameRequest(k) /\ ~(r.pc = "answered" /\ r.answer # "401") /\ UNCHANGED hooks
  <2>1. ~Answered(r) /\ ~Answered(s)
    BY <1>3 DEF Answered, SameRequest
  <2> QED BY <2>1, <1>3, <1>a DEF SameRequest, SetsHooks, Sees, OneGoodHook
<1>4. ASSUME UNCHANGED hooks, NEW c \in Clients, NEW op \in (Ops[k] \cap Operations) \ {"visit", "callback"},
             First(op, c) \in Requests,
             s = Asks([Idle EXCEPT !.op = op, !.client = c], First(op, c))
      PROVE  SetsHooks(k)'
  <2>1. s.op = op /\ s.at = First(op, c) /\ s.pc = "auth"
    BY <1>4 DEF Asks, Idle
  <2>2. /\ First(op, c) \notin {"webhooks", "deleteWebhook", "createWebhook"}
        /\ First(op, c) = "team" => op = "hook"
    BY <1>4 DEF First, Operations
  <2> QED BY <1>4, <2>1, <2>2 DEF SetsHooks, Sees, HookRequests
<1>5. CASE /\ r.pc = "answered" /\ r.answer # "401" /\ Follows(r) # "none"
           /\ s = Asks(r, Follows(r)) /\ UNCHANGED hooks
  <2>1. s.op = r.op /\ s.seen = r.seen /\ s.at = Follows(r) /\ s.pc = "auth"
    BY <1>5, <1>a DEF Asks, IsCall, Fields
  <2>2. ~Answered(s) /\ Answered(r)
    BY <2>1, <1>5 DEF Answered
  <2>3. CASE Follows(r) \in HookRequests
    <3>1. r.at \in HookRequests /\ r.op = "hook"
      BY <2>3, <1>a, FollowsHooks DEF SetsHooks
    <3>2. CASE Follows(r) \in {"deleteWebhook", "createWebhook"}
      <4>1. /\ r.at \in {"webhooks", "deleteWebhook"}
            /\ Follows(r) = IF r.seen = {} THEN "createWebhook" ELSE "deleteWebhook"
        BY <2>3, <3>2, FollowsHooks
      <4>2. r.seen = DOMAIN hooks
        BY <4>1, <2>2, <1>a DEF SetsHooks, Sees
      <4> QED BY <4>1, <4>2, <3>1, <2>1, <2>2, <1>5, <1>a DEF SetsHooks, Sees
    <3>3. CASE Follows(r) \notin {"deleteWebhook", "createWebhook"}
      BY <3>1, <3>3, <2>1, <2>2, <1>a DEF SetsHooks, Sees
    <3> QED BY <3>2, <3>3
  <2>4. CASE Follows(r) \notin HookRequests
    BY <2>1, <2>4, <1>a DEF SetsHooks, Sees, HookRequests
  <2> QED BY <2>3, <2>4
<1>6. CASE s.at = "none" /\ s.op # "hook"
  BY <1>6 DEF SetsHooks, Sees, HookRequests
<1> QED BY <1>1, <1>2, <1>3, <1>4, <1>5, <1>6 DEF Moves

OneSetsUp == \A j, k \in Callers : "hook" \in Ops[j] \cap Ops[k] => j = k

(* The other calls: they are not about webhooks, or those stay.            *)
LEMMA OthersHooks ==
  ASSUME OneSetsUp, HookInv, NEW k \in Callers, Alone(k), Serve(k) \/ UNCHANGED hooks,
         NEW j \in Callers \ {k}
  PROVE  SetsHooks(j)'
<1>1. call'[j] = call[j] /\ SetsHooks(j) /\ SetsHooks(k)
  BY DEF Alone, HookInv
<1>2. CASE UNCHANGED hooks
  BY <1>1, <1>2 DEF SetsHooks, Sees, OneGoodHook
<1>3. CASE ~UNCHANGED hooks
  <2>1. call[k].at \in HookRequests
    BY <1>3, ServeHooks
  <2>2. call[j].at \notin HookRequests
    BY <1>1, <2>1 DEF SetsHooks, OneSetsUp
  <2> QED BY <1>1, <2>2 DEF SetsHooks, Sees, HookRequests
<1> QED BY <1>2, <1>3

LEMMA HooksKept ==
  ASSUME OneSetsUp, OnceInv, HookInv, [Next]_vars
  PROVE  HookInv'
<1>1. ASSUME NEW k \in Callers, Moves(k), Serve(k) \/ UNCHANGED hooks
      PROVE  HookInv'
  <2>1. Alone(k) /\ Shape'
    BY <1>1, MovesOnce DEF Moves, OnceInv
  <2>2. \A j \in Callers : SetsHooks(j)'
    BY <1>1, <2>1, MovesHooks, OthersHooks
  <2> QED BY <2>1, <2>2 DEF HookInv
<1>2. ASSUME NEW p \in Processes, Crash(p)
      PROVE  HookInv'
  <2>1. DOMAIN call' = Callers /\ UNCHANGED hooks /\ \A k \in Callers : call'[k] \in {Idle, call[k]}
    BY <1>2 DEF Crash
  <2>2. ASSUME NEW k \in Callers PROVE SetsHooks(k)' /\ IsCall(call'[k])
    <3>1. CASE call'[k] = Idle
      BY <3>1, IdleShape DEF SetsHooks, Sees, Idle, HookRequests
    <3>2. CASE call'[k] = call[k]
      BY <3>2, <2>1 DEF HookInv, Shape, SetsHooks, Sees, OneGoodHook
    <3> QED BY <2>1, <3>1, <3>2
  <2> QED BY <2>1, <2>2 DEF HookInv, Shape
<1>3. ASSUME UNCHANGED <<call, hooks>>
      PROVE  HookInv'
  BY <1>3 DEF HookInv, Shape, SetsHooks, Sees, OneGoodHook
<1>4. ASSUME NEW c \in Clients, Load(c)
      PROVE  HookInv'
  BY <1>4, <1>3 DEF Load
<1>5. ASSUME NEW t \in Tokens, Age(t)
      PROVE  HookInv'
  BY <1>5, <1>3 DEF Age
<1>6. CASE UNCHANGED vars
  BY <1>6, <1>3 DEF vars
<1>7. ASSUME NEW k \in Callers,
             \/ Step(k) \/ Grant(k) \/ LoseGrant(k) \/ WriteFails(k) \/ Lose(k) \/ Visit(k)
             \/ \E c \in Clients, op \in Operations : Begin(k, c, op)
             \/ \E s \in 1..used.visits : Callback(k, s)
      PROVE  HookInv'
  BY <1>7, <1>1, HooksStay, EveryStepMoves DEF HookInv
<1> QED BY <1>2, <1>4, <1>5, <1>6, <1>7 DEF Next

(* A setup that ends well leaves one managed webhook, a good one, however  *)
(* many were there before, whatever was lost on the way and however often  *)
(* it was begun anew, if one caller at a time sets webhooks up.            *)
THEOREM OneWebhookHolds ==
  ASSUME OneSetsUp
  PROVE  Spec => OneWebhook
<1> DEFINE A == \A k \in Callers : Receive(k) /\ SetsUp(k) =>
                  /\ Cardinality(DOMAIN hooks') = 1
                  /\ \A h \in DOMAIN hooks' : hooks'[h] = "good"
<1>1. Init => HookInv
  BY IdleShape DEF Init, HookInv, Shape, SetsHooks, Sees, Idle, HookRequests
<1>2. OnceInv /\ HookInv /\ [Next]_vars => HookInv'
  BY HooksKept
<1>3. HookInv => A
  <2> SUFFICES ASSUME HookInv, NEW k \in Callers, Receive(k), SetsUp(k)
               PROVE  OneGoodHook'
    BY DEF OneGoodHook
  <2>1. Answered(call[k]) /\ Sees(k) /\ UNCHANGED hooks
    BY DEF Receive, SetsUp, Answered, HookInv, SetsHooks
  <2>2. OneGoodHook
    BY <2>1 DEF SetsUp, Sees
  <2> QED BY <2>1, <2>2 DEF OneGoodHook
<1>4. OneWebhook <=> [][A]_vars
  BY DEF OneWebhook
<1> HIDE DEF A
<1>5. Spec => []OnceInv /\ [][Next]_vars /\ Init
  BY OnceInvariant, PTL DEF Spec
<1> QED BY <1>1, <1>2, <1>3, <1>4, <1>5, PTL

-----------------------------------------------------------------------------
(* Tokens.                                                                 *)

ForCall == {"due", "401"}

(* A call that holds mu of its client, one that brings the file a token,   *)
(* and one that is at work with a client.                                  *)
Holds(r) == r.pc \in {"exchange", "granted", "writing"} /\ r.why \in ForCall
Brings(r) == r.pc \in {"granted", "writing"} /\ r.why \in ForCall \cup {"code"}
OfClient(r) == Holds(r) \/ r.pc \in {"auth", "refresh", "send", "answered"}

Domains ==
  /\ DOMAIN mutex = Clients /\ DOMAIN mem = Clients /\ DOMAIN fileMu = Processes
  /\ DOMAIN file = {"token", "pending"}

(* Who holds what.                                                         *)
Owned(k) ==
  /\ OfClient(call[k]) => call[k].client \in Clients /\ Home[call[k].client] = Home[k]
  /\ Holds(call[k]) => mutex[call[k].client] = k
  /\ call[k].pc = "exchange" => call[k].why \in ForCall \cup {"code"}
  /\ call[k].pc \in {"granted", "writing"} => call[k].why \in ForCall \cup {"code", "visit"}
  /\ call[k].pc = "writing" => fileMu[Home[k]] = k
Owns == \A k \in Callers : Owned(k)

(* No token is ahead of the last one that Linear issued.                   *)
Issued ==
  /\ issued \in Nat /\ live \subseteq 1..issued /\ file.token \in 1..issued
  /\ \A c \in Clients : mem[c] \in 0..issued
  /\ \A k \in Callers : call[k].pc = "writing" =>
       DOMAIN call[k].read = {"token", "pending"} /\ call[k].read.token \in 1..issued

(* A token on its way to the file can be exchanged, and nobody else has it.*)
New(k) ==
  Brings(call[k]) =>
    /\ call[k].got \in live /\ call[k].got # file.token
    /\ \A c \in Clients : mem[c] = call[k].got =>
         call[k].pc = "writing" /\ call[k].why \in ForCall /\ c = call[k].client
    /\ \A j \in Callers \ {k} : Brings(call[j]) => call[j].got # call[k].got
    /\ \A j \in Callers : call[j].pc = "writing" => call[j].read.token # call[k].got
GotIsNew == \A k \in Callers : New(k)

(* Between an update's read and its write nothing else changed the file.   *)
ReadIsFile == \A k \in Callers : call[k].pc = "writing" /\ ~mishap => call[k].read = file

TokenInv ==
  Shape /\ Domains /\ Owns /\ Issued /\ GotIsNew /\ ReadIsFile /\ FileKeepsUp

LEMMA InitTokens == Init => TokenInv
<1> SUFFICES ASSUME Init PROVE TokenInv
  OBVIOUS
<1>1. \A k \in Callers : call[k] = Idle
  BY DEF Init
<1>2. Idle.pc = "idle"
  BY DEF Idle
<1>3. Shape
  BY IdleShape DEF Init, Shape
<1>4. file.token = 1 /\ DOMAIN file = {"token", "pending"}
  BY DEF Init
<1>5. Domains
  BY <1>4 DEF Init, Domains
<1>6. Owns /\ GotIsNew /\ ReadIsFile
  BY <1>1, <1>2 DEF Owns, Owned, GotIsNew, New, ReadIsFile, OfClient, Holds, Brings
<1>7. Issued
  BY <1>1, <1>2, <1>4 DEF Init, Issued
<1>8. FileKeepsUp
  BY <1>4 DEF Init, FileKeepsUp
<1> QED BY <1>3, <1>5, <1>6, <1>7, <1>8 DEF TokenInv

-----------------------------------------------------------------------------
(* Steps that no token is in.                                              *)

Same == UNCHANGED <<live, issued, file, mem, mutex, fileMu, mishap>>

(* A step of k outside an exchange and an update of the file.              *)
Quiet(k) ==
  /\ Same /\ Alone(k)
  /\ ~Holds(call[k]) /\ ~Brings(call[k]) /\ call[k].pc # "writing"
  /\ ~Holds(call'[k]) /\ ~Brings(call'[k]) /\ call'[k].pc # "writing"
  /\ call'[k].pc = "exchange" => call'[k].why = "code"
  /\ call'[k].pc = "granted" => call'[k].why = "visit"
  /\ OfClient(call'[k]) => call'[k].client \in Clients /\ Home[call'[k].client] = Home[k]

LEMMA QuietTokens ==
  ASSUME TokenInv, NEW k \in Callers, Quiet(k)
  PROVE  Domains' /\ Owns' /\ Issued' /\ GotIsNew' /\ ReadIsFile' /\ FileKeepsUp'
<1> USE DEF TokenInv
<1>1. Domains'
  BY DEF Domains, Quiet, Same
<1>2. \A j \in Callers \ {k} : call'[j] = call[j]
  BY DEF Quiet, Alone
<1>3. Owns'
  <2> SUFFICES ASSUME NEW j \in Callers PROVE Owned(j)'
    BY DEF Owns
  <2>1. CASE j = k
    BY <2>1 DEF Owned, Quiet
  <2>2. CASE j # k
    BY <2>2, <1>2 DEF Owns, Owned, Quiet, Same, OfClient, Holds
  <2> QED BY <2>1, <2>2
<1>4. Issued'
  BY <1>2 DEF Issued, Quiet, Same
<1>5. GotIsNew'
  <2> SUFFICES ASSUME NEW j \in Callers, Brings(call'[j]) PROVE New(j)'
    BY DEF GotIsNew, New
  <2>1. j # k /\ call'[j] = call[j] /\ Brings(call[j])
    BY <1>2 DEF Quiet
  <2>2. New(j)
    BY DEF GotIsNew
  <2>3. \A i \in Callers \ {j} : Brings(call'[i]) => call'[i].got # call'[j].got
    BY <1>2, <2>1, <2>2 DEF New, Quiet
  <2>4. \A i \in Callers : call'[i].pc = "writing" => call'[i].read.token # call'[j].got
    BY <1>2, <2>1, <2>2 DEF New, Quiet
  <2> QED BY <2>1, <2>2, <2>3, <2>4 DEF New, Quiet, Same
<1>6. ReadIsFile'
  BY <1>2 DEF ReadIsFile, Quiet, Same
<1>7. FileKeepsUp'
  <2>1. \A j \in Callers : call[j].pc \in {"granted", "writing"} /\ call[j].why \in ForCall
          => call'[j] = call[j]
    BY <1>2 DEF Quiet, Holds
  <2> QED BY <2>1 DEF FileKeepsUp, Quiet, Same, ForCall
<1> QED BY <1>1, <1>3, <1>4, <1>5, <1>6, <1>7

(* Load, Age and a stutter move no call; a client may get the file's token.*)
LEMMA ReloadTokens ==
  ASSUME TokenInv, UNCHANGED <<live, issued, file, mutex, fileMu, call, mishap>>,
         DOMAIN mem' = Clients,
         \A c \in Clients : \/ mem'[c] = mem[c]
                            \/ mem'[c] = file.token
  PROVE  Domains' /\ Owns' /\ Issued' /\ GotIsNew' /\ ReadIsFile' /\ FileKeepsUp'
<1> USE DEF TokenInv
<1>1. Domains' /\ Owns' /\ ReadIsFile' /\ FileKeepsUp'
  BY DEF Domains, Owns, Owned, ReadIsFile, FileKeepsUp
<1>2. Issued'
  BY DEF Issued
<1>3. GotIsNew'
  BY DEF GotIsNew, New
<1> QED BY <1>1, <1>2, <1>3

-----------------------------------------------------------------------------
(* The exchange of a token.                                                *)

(* The mutex is taken.                                                     *)
Enters(k) ==
  /\ UNCHANGED <<live, issued, file, mem, fileMu, mishap>> /\ Alone(k)
  /\ mutex[call[k].client] = NoOne /\ Takes(k, call[k].client)
  /\ call[k].pc \in {"auth", "refresh"}
  /\ call'[k].pc = "exchange" /\ call'[k].why \in ForCall /\ call'[k].client = call[k].client

LEMMA TakesTokens ==
  ASSUME TokenInv, NEW k \in Callers, Enters(k)
  PROVE  Domains' /\ Owns' /\ Issued' /\ GotIsNew' /\ ReadIsFile' /\ FileKeepsUp'
<1> USE DEF TokenInv
<1>1. Domains'
  BY DEF Domains, Enters, Takes
<1>2. \A j \in Callers \ {k} : call'[j] = call[j]
  BY DEF Enters, Alone
<1>3. call[k].client \in Clients /\ Home[call[k].client] = Home[k]
  BY DEF Enters, Owns, Owned, OfClient
<1>4. Owns'
  <2> SUFFICES ASSUME NEW j \in Callers PROVE Owned(j)'
    BY DEF Owns
  <2>1. CASE j = k
    BY <2>1, <1>3 DEF Owned, Enters, Takes, Domains, Holds, OfClient, ForCall
  <2>2. CASE j # k
    <3>1. Holds(call[j]) => call[j].client # call[k].client
      BY CallsAssumption DEF Owns, Owned, Enters
    <3> QED BY <3>1, <2>2, <1>2 DEF Owns, Owned, Enters, Takes, OfClient, Holds, Domains
  <2> QED BY <2>1, <2>2
<1>5. Issued'
  BY <1>2 DEF Issued, Enters
<1>6. GotIsNew'
  <2> SUFFICES ASSUME NEW j \in Callers, Brings(call'[j]) PROVE New(j)'
    BY DEF GotIsNew, New
  <2>1. j # k /\ call'[j] = call[j] /\ Brings(call[j])
    BY <1>2 DEF Enters, Brings
  <2>2. New(j)
    BY DEF GotIsNew
  <2>3. \A i \in Callers \ {j} : Brings(call'[i]) => call'[i].got # call'[j].got
    BY <1>2, <2>1, <2>2 DEF New, Enters, Brings
  <2>4. \A i \in Callers : call'[i].pc = "writing" => call'[i].read.token # call'[j].got
    BY <1>2, <2>1, <2>2 DEF New, Enters
  <2> QED BY <2>1, <2>2, <2>3, <2>4 DEF New, Enters
<1>7. ReadIsFile'
  BY <1>2 DEF ReadIsFile, Enters
<1>8. FileKeepsUp'
  <2>1. \A j \in Callers : call[j].pc \in {"granted", "writing"} => call'[j] = call[j]
    BY <1>2 DEF Enters
  <2> QED BY <2>1 DEF FileKeepsUp, Enters
<1> QED BY <1>1, <1>4, <1>5, <1>6, <1>7, <1>8

(* Linear takes the old token, or the code, and gives a new one: no caller *)
(* and no client has that, and nobody was bringing the one it replaces.    *)
LEMMA GrantTokens ==
  ASSUME TokenInv, NEW k \in Callers, Grant(k), call'[k].pc = "granted"
  PROVE  Domains' /\ Owns' /\ Issued' /\ GotIsNew' /\ ReadIsFile' /\ FileKeepsUp'
<1> USE DEF TokenInv
<1> DEFINE n == issued + 1
           t == IF call[k].why = "code" THEN 0 ELSE mem[call[k].client]
<1>a. DOMAIN call = Callers /\ DOMAIN call[k] = Fields /\ call[k].pc = "exchange"
  BY DEF Grant, Shape, IsCall
<1>b. call' # [call EXCEPT ![k] = Idle]
  BY <1>a DEF Idle
<1>1. /\ UNCHANGED <<file, mem, fileMu, mishap, mutex>>
      /\ live' = (live \ {t}) \cup {n} /\ issued' = n
      /\ call' = [call EXCEPT ![k].pc = "granted", ![k].got = n]
  BY <1>b DEF Grant
<1>2. /\ \A j \in Callers \ {k} : call'[j] = call[j]
      /\ call'[k].pc = "granted" /\ call'[k].got = n /\ call'[k].why = call[k].why
      /\ call'[k].client = call[k].client
  BY <1>1, <1>a DEF Fields
<1>3. issued \in Nat /\ n \in Nat /\ n > issued /\ 1..issued \subseteq 1..n /\ 0..issued \subseteq 0..n
      /\ n \in 1..n /\ n \notin 0..issued /\ n \notin 1..issued
  BY DEF Issued
<1> HIDE DEF n
<1>4. Domains'
  BY <1>1 DEF Domains
<1>5. Owns'
  <2> SUFFICES ASSUME NEW j \in Callers PROVE Owned(j)'
    BY DEF Owns
  <2>1. Owned(j)
    BY DEF Owns
  <2> QED BY <2>1, <1>a, <1>1, <1>2 DEF Owned, OfClient, Holds
<1>6. Issued'
  BY <1>1, <1>2, <1>3 DEF Issued
<1>7. ASSUME NEW j \in Callers \ {k}, Brings(call[j])
      PROVE  call[j].got # t /\ call[j].got \in live /\ call[j].got # n
  <2>1. New(j) /\ Owned(j) /\ Owned(k)
    BY DEF GotIsNew, Owns
  <2>2. call[j].got \in live /\ call[j].got \in 1..issued
    BY <1>7, <2>1 DEF New, Issued
  <2>3. call[j].got # n
    BY <2>2, <1>3
  <2>4. CASE call[k].why = "code"
    BY <2>2, <2>3, <2>4, <1>3
  <2>5. CASE call[k].why # "code"
    <3>1. Holds(call[k]) /\ call[k].client \in Clients /\ mutex[call[k].client] = k
      BY <1>a, <2>1, <2>5 DEF Owned, Holds, OfClient
    <3>2. SUFFICES ASSUME mem[call[k].client] = call[j].got PROVE FALSE
      BY <2>2, <2>3, <2>5
    <3>3. call[j].pc = "writing" /\ call[j].why \in ForCall /\ call[j].client = call[k].client
      BY <1>7, <2>1, <3>1, <3>2 DEF New
    <3>4. mutex[call[j].client] = j
      BY <2>1, <3>3 DEF Owned, Holds
    <3> QED BY <3>1, <3>3, <3>4
  <2> QED BY <2>4, <2>5
<1>8. GotIsNew'
  <2> SUFFICES ASSUME NEW j \in Callers, Brings(call'[j]) PROVE New(j)'
    BY DEF GotIsNew, New
  <2>1. CASE j = k
    <3>1. call'[k].got \in live' /\ call'[k].got # file'.token
      BY <1>1, <1>2, <1>3 DEF Issued
    <3>2. \A c \in Clients : mem'[c] # call'[k].got
      BY <1>1, <1>2, <1>3 DEF Issued
    <3>3. \A i \in Callers \ {k} : Brings(call'[i]) => call'[i].got # call'[k].got
      BY <1>2, <1>7
    <3>4. \A i \in Callers : call'[i].pc = "writing" => call'[i].read.token # call'[k].got
      BY <1>2, <1>3 DEF Issued
    <3> QED BY <2>1, <3>1, <3>2, <3>3, <3>4 DEF New
  <2>2. CASE j # k
    <3>1. call'[j] = call[j] /\ Brings(call[j]) /\ New(j)
      BY <2>2, <1>2 DEF GotIsNew
    <3>2. call[j].got \in live' /\ call[j].got # call'[k].got
      BY <1>1, <1>2, <1>7, <2>2, <3>1
    <3>3. \A i \in Callers \ {j} : Brings(call'[i]) => call'[i].got # call'[j].got
      BY <1>2, <3>1, <3>2 DEF New
    <3>4. \A i \in Callers : call'[i].pc = "writing" => call'[i].read.token # call'[j].got
      BY <1>2, <3>1 DEF New
    <3> QED BY <1>1, <3>1, <3>2, <3>3, <3>4 DEF New
  <2> QED BY <2>1, <2>2
<1>9. ReadIsFile'
  BY <1>1, <1>2 DEF ReadIsFile
<1>10. FileKeepsUp'
  <2>1. \A j \in Callers : call[j].pc \in {"granted", "writing"} => call'[j] = call[j]
    BY <1>a, <1>2
  <2>2. CASE call[k].why = "code"
    <3>1. file.token # t /\ (file.token \in live => file.token \in live')
      BY <1>1, <1>3, <2>2 DEF Issued
    <3> QED BY <2>1, <3>1, <1>1 DEF FileKeepsUp
  <2>3. CASE call[k].why # "code"
    <3>1. call'[k].pc = "granted" /\ call'[k].why \in ForCall
      BY <1>a, <1>2, <2>3 DEF Owns, Owned
    <3> QED BY <3>1 DEF FileKeepsUp, ForCall
  <2> QED BY <2>2, <2>3
<1> QED BY <1>4, <1>5, <1>6, <1>8, <1>9, <1>10

-----------------------------------------------------------------------------
(* The end of a call, and the file.                                        *)

(* k ends its call and lets go of what it holds; what it brought is lost.  *)
Drops(k) ==
  /\ UNCHANGED <<live, issued, file, mem>> /\ Alone(k) /\ FreeMutex(k)
  /\ call'[k] = Idle
  /\ \/ UNCHANGED fileMu
     \/ call[k].pc = "writing" /\ fileMu' = [fileMu EXCEPT ![Home[k]] = NoOne]
  /\ mishap => mishap'
  /\ call[k].pc \in {"granted", "writing"} /\ call[k].why \in ForCall => mishap'

LEMMA OneWriterEach ==
  ASSUME TokenInv, NEW k \in Callers, NEW j \in Callers \ {k},
         call[k].pc = "writing", call[j].pc = "writing"
  PROVE  Home[j] # Home[k]
BY DEF TokenInv, Owns, Owned

LEMMA DropsTokens ==
  ASSUME TokenInv, NEW k \in Callers, Drops(k)
  PROVE  Domains' /\ Owns' /\ Issued' /\ GotIsNew' /\ ReadIsFile' /\ FileKeepsUp'
<1> USE DEF TokenInv
<1>1. /\ \A j \in Callers \ {k} : call'[j] = call[j]
      /\ call'[k].pc = "idle"
  BY DEF Drops, Alone, Idle
<1>2. Domains'
  BY DEF Domains, Drops, FreeMutex
<1>3. \A j \in Callers \ {k} : call[j].pc = "writing" => fileMu'[Home[j]] = fileMu[Home[j]]
  BY OneWriterEach DEF Drops, Domains, Processes
<1>4. Owns'
  <2> SUFFICES ASSUME NEW j \in Callers PROVE Owned(j)'
    BY DEF Owns
  <2>1. CASE j = k
    BY <2>1, <1>1 DEF Owned, OfClient, Holds
  <2>2. CASE j # k
    <3>1. Owned(j)
      BY DEF Owns
    <3>2. Holds(call[j]) => mutex'[call[j].client] = j
      BY <2>2, <3>1 DEF Owned, OfClient, Drops, FreeMutex
    <3> QED BY <2>2, <3>1, <3>2, <1>1, <1>3 DEF Owned, OfClient, Holds
  <2> QED BY <2>1, <2>2
<1>5. Issued'
  BY <1>1 DEF Issued, Drops
<1>6. GotIsNew'
  <2> SUFFICES ASSUME NEW j \in Callers, Brings(call'[j]) PROVE New(j)'
    BY DEF GotIsNew, New
  <2>1. j # k /\ call'[j] = call[j] /\ Brings(call[j]) /\ New(j)
    BY <1>1 DEF Brings, GotIsNew
  <2>2. \A i \in Callers \ {j} : Brings(call'[i]) => call'[i].got # call'[j].got
    BY <1>1, <2>1 DEF New, Brings
  <2>3. \A i \in Callers : call'[i].pc = "writing" => call'[i].read.token # call'[j].got
    BY <1>1, <2>1 DEF New
  <2> QED BY <2>1, <2>2, <2>3 DEF New, Drops
<1>7. ReadIsFile'
  BY <1>1 DEF ReadIsFile, Drops
<1>8. FileKeepsUp'
  BY <1>1 DEF FileKeepsUp, Drops, ForCall
<1> QED BY <1>2, <1>4, <1>5, <1>6, <1>7, <1>8

(* The file is read for an update; a client whose token it is has it now.  *)
LEMMA ReadTokens ==
  ASSUME TokenInv, NEW k \in Callers, ReadFile(k)
  PROVE  Domains' /\ Owns' /\ Issued' /\ GotIsNew' /\ ReadIsFile' /\ FileKeepsUp'
<1> USE DEF TokenInv
<1>a. DOMAIN call = Callers /\ DOMAIN call[k] = Fields /\ Home[k] \in Processes
  BY DEF Shape, IsCall, Processes
<1>1. /\ \A j \in Callers \ {k} : call'[j] = call[j]
      /\ call[k].pc = "granted" /\ call'[k].pc = "writing" /\ call'[k].got = call[k].got
      /\ call'[k].why = call[k].why /\ call'[k].client = call[k].client /\ call'[k].read = file
  BY <1>a DEF ReadFile, Fields
<1>2. /\ UNCHANGED <<live, issued, file, mutex, mishap>>
      /\ fileMu[Home[k]] = NoOne /\ fileMu' = [fileMu EXCEPT ![Home[k]] = k]
  BY DEF ReadFile
<1>3. \/ mem' = mem
      \/ /\ call[k].why \in ForCall /\ call[k].client \in Clients
         /\ mem' = [mem EXCEPT ![call[k].client] = call[k].got]
  BY <1>1 DEF ReadFile, Renewed, ForCall, Owns, Owned, OfClient, Holds
<1>4. Domains'
  BY <1>2, <1>3 DEF Domains
<1>5. Owns'
  <2> SUFFICES ASSUME NEW j \in Callers PROVE Owned(j)'
    BY DEF Owns
  <2>1. Owned(j)
    BY DEF Owns
  <2>2. CASE j = k
    BY <2>1, <2>2, <1>a, <1>1, <1>2 DEF Owned, OfClient, Holds, Domains
  <2>3. CASE j # k
    <3>1. call[j].pc = "writing" => Home[j] # Home[k]
      BY <2>1, <1>2, CallsAssumption DEF Owned
    <3> QED BY <2>1, <2>3, <3>1, <1>1, <1>2 DEF Owned, OfClient, Holds, Domains
  <2> QED BY <2>2, <2>3
<1>6. New(k) /\ (call[k].why \in ForCall => Brings(call[k]))
  BY <1>1 DEF GotIsNew, Brings
<1>7. Issued'
  <2>1. \A c \in Clients : mem'[c] \in 0..issued
    <3>1. CASE mem' = mem
      BY <3>1 DEF Issued
    <3>2. CASE /\ call[k].why \in ForCall
               /\ mem' = [mem EXCEPT ![call[k].client] = call[k].got]
      <4>1. call[k].got \in 0..issued
        <5>1. call[k].got \in 1..issued /\ issued \in Nat
          BY <1>6, <3>2 DEF New, Issued
        <5> QED BY <5>1
      <4> QED BY <3>2, <4>1 DEF Issued, Domains
    <3> QED BY <1>3, <3>1, <3>2
  <2> QED BY <2>1, <1>1, <1>2 DEF Issued, Domains
<1>8. GotIsNew'
  <2> SUFFICES ASSUME NEW j \in Callers, Brings(call'[j]) PROVE New(j)'
    BY DEF GotIsNew, New
  <2>1. New(j) /\ Brings(call[j]) /\ call'[j].got = call[j].got
    BY <1>1 DEF GotIsNew, Brings
  <2>2. \A i \in Callers \ {j} : Brings(call'[i]) => call'[i].got # call'[j].got
    BY <1>1, <2>1 DEF New, Brings
  <2>3. \A i \in Callers : call'[i].pc = "writing" => call'[i].read.token # call'[j].got
    BY <1>1, <2>1 DEF New
  <2>4. \A c \in Clients : mem'[c] = call'[j].got =>
          call'[j].pc = "writing" /\ call'[j].why \in ForCall /\ c = call'[j].client
    <3> SUFFICES ASSUME NEW c \in Clients, mem'[c] = call[j].got
                 PROVE  call'[j].pc = "writing" /\ call'[j].why \in ForCall /\ c = call'[j].client
      BY <2>1
    <3>1. CASE mem'[c] = mem[c]
      BY <3>1, <2>1, <1>1 DEF New
    <3>2. CASE mem'[c] # mem[c]
      <4>1. c = call[k].client /\ mem'[c] = call[k].got /\ call[k].why \in ForCall
        BY <3>2, <1>3 DEF Domains
      <4>2. j = k
        BY <4>1, <1>6, <2>1 DEF New
      <4> QED BY <4>1, <4>2, <1>1
    <3> QED BY <3>1, <3>2
  <2> QED BY <2>1, <2>2, <2>3, <2>4, <1>2 DEF New
<1>9. ReadIsFile'
  BY <1>1, <1>2 DEF ReadIsFile
<1>10. FileKeepsUp'
  <2>1. \A j \in Callers : call[j].pc \in {"granted", "writing"} =>
          call'[j].pc \in {"granted", "writing"} /\ call'[j].why = call[j].why
    BY <1>1
  <2> QED BY <2>1, <1>2 DEF FileKeepsUp
<1> QED BY <1>4, <1>5, <1>7, <1>8, <1>9, <1>10

(* The update is written.  Unless another process is in the middle of its  *)
(* own, it changes what it means to change and nothing else.               *)
LEMMA WriteTokens ==
  ASSUME TokenInv, NEW k \in Callers, WriteFile(k)
  PROVE  Domains' /\ Owns' /\ Issued' /\ GotIsNew' /\ ReadIsFile' /\ FileKeepsUp'
<1> USE DEF TokenInv
<1>a. DOMAIN call = Callers /\ DOMAIN call[k] = Fields /\ Home[k] \in Processes
  BY DEF Shape, IsCall, Processes
<1>1. /\ call[k].pc = "writing" /\ call' = [call EXCEPT ![k] = Resumes(k)]
      /\ UNCHANGED <<live, issued, mem>> /\ FreeMutex(k)
      /\ fileMu' = [fileMu EXCEPT ![Home[k]] = NoOne]
      /\ file' = Updated(k)
  BY DEF WriteFile, Unlocks, Stores, Stored
<1>2. \A j \in Callers \ {k} : call'[j] = call[j]
  BY <1>1, <1>a
<1>3. /\ call'[k].pc \in {"send", "auth", "idle"}
      /\ call'[k].pc # "idle" => Holds(call[k]) /\ call'[k].client = call[k].client
  BY <1>1, <1>a DEF Resumes, Idle, Fields, Holds, ForCall
<1>4. Owned(k) /\ DOMAIN call[k].read = {"token", "pending"} /\ call[k].read.token \in 1..issued
  BY <1>1 DEF Owns, Issued
<1>5. /\ DOMAIN file' = {"token", "pending"}
      /\ IF call[k].why \in ForCall \cup {"code"}
         THEN file'.token = call[k].got
         ELSE file'.token = call[k].read.token
  <2>1. CASE call[k].why = "visit"
    BY <2>1, <1>1, <1>4 DEF Updated, ForCall
  <2>2. CASE call[k].why = "code"
    BY <2>2, <1>1 DEF Updated
  <2>3. CASE call[k].why \in ForCall
    BY <2>3, <1>1, <1>4 DEF Updated, ForCall
  <2> QED BY <2>1, <2>2, <2>3, <1>1, <1>4 DEF Owned
<1>6. Domains'
  BY <1>1, <1>5 DEF Domains, FreeMutex
<1>7. \A j \in Callers \ {k} : call[j].pc = "writing" => Home[j] # Home[k]
  BY <1>1, OneWriterEach
<1>8. Owns'
  <2> SUFFICES ASSUME NEW j \in Callers PROVE Owned(j)'
    BY DEF Owns
  <2>1. CASE j = k
    BY <2>1, <1>3, <1>4 DEF Owned, OfClient, Holds
  <2>2. CASE j # k
    <3>1. Owned(j)
      BY DEF Owns
    <3>2. Holds(call[j]) => mutex'[call[j].client] = j
      BY <2>2, <3>1, <1>1 DEF Owned, OfClient, FreeMutex
    <3>3. call[j].pc = "writing" => fileMu'[Home[j]] = j
      BY <2>2, <3>1, <1>1, <1>7 DEF Owned, Domains
    <3> QED BY <2>2, <3>1, <3>2, <3>3, <1>2 DEF Owned, OfClient, Holds
  <2> QED BY <2>1, <2>2
<1>9. New(k)
  BY DEF GotIsNew
<1>10. file'.token \in 1..issued
  BY <1>1, <1>4, <1>5, <1>9 DEF New, Brings, Issued
<1>11. Issued'
  BY <1>1, <1>2, <1>3, <1>10 DEF Issued
<1>12. GotIsNew'
  <2> SUFFICES ASSUME NEW j \in Callers, Brings(call'[j]) PROVE New(j)'
    BY DEF GotIsNew, New
  <2>1. j # k /\ call'[j] = call[j] /\ Brings(call[j]) /\ New(j)
    BY <1>2, <1>3 DEF Brings, GotIsNew
  <2>2. call[j].got # file'.token
    BY <1>1, <1>5, <1>9, <2>1 DEF New, Brings
  <2>3. \A i \in Callers \ {j} : Brings(call'[i]) => call'[i].got # call'[j].got
    BY <1>2, <1>3, <2>1 DEF New, Brings
  <2>4. \A i \in Callers : call'[i].pc = "writing" => call'[i].read.token # call'[j].got
    BY <1>2, <1>3, <2>1 DEF New
  <2> QED BY <2>1, <2>2, <2>3, <2>4, <1>1 DEF New
<1>13. ~mishap' => ~mishap /\ \A j \in Callers \ {k} : call[j].pc # "writing"
  BY <1>7 DEF WriteFile, Overlap
<1>14. ReadIsFile'
  BY <1>2, <1>3, <1>13 DEF ReadIsFile
<1>15. FileKeepsUp'
  <2>1. CASE mishap'
    BY <2>1 DEF FileKeepsUp
  <2>2. CASE call[k].why \in ForCall \cup {"code"}
    BY <2>2, <1>1, <1>5, <1>9 DEF New, Brings, FileKeepsUp
  <2>3. CASE ~mishap' /\ call[k].why \notin ForCall \cup {"code"}
    <3>1. file'.token = file.token
      BY <2>3, <1>1, <1>5, <1>13 DEF ReadIsFile
    <3>2. \A j \in Callers : call[j].why \in ForCall => j # k
      BY <2>3
    <3> QED BY <3>1, <3>2, <2>3, <1>1, <1>2, <1>13 DEF FileKeepsUp, ForCall
  <2> QED BY <2>1, <2>2, <2>3
<1> QED BY <1>6, <1>8, <1>11, <1>12, <1>14, <1>15

(* A process dies: its calls, its locks and what its clients know are gone.*)
LEMMA CrashTokens ==
  ASSUME TokenInv, NEW p \in Processes, Crash(p)
  PROVE  Domains' /\ Owns' /\ Issued' /\ GotIsNew' /\ ReadIsFile' /\ FileKeepsUp'
<1> USE DEF TokenInv
<1> DEFINE Gone(k) == Home[k] = p
<1>1. /\ \A k \in Callers : call'[k] = IF Gone(k) THEN Idle ELSE call[k]
      /\ Idle.pc = "idle"
  BY DEF Crash, Idle
<1>2. /\ UNCHANGED <<live, issued, file>> /\ (mishap => mishap')
      /\ mutex' = [c \in Clients |-> IF Home[c] = p THEN NoOne ELSE mutex[c]]
      /\ fileMu' = [fileMu EXCEPT ![p] = NoOne]
  BY DEF Crash
<1>3. DOMAIN mem' = Clients /\ \A c \in Clients : mem'[c] \in {mem[c], file.token}
  BY DEF Crash
<1> HIDE DEF Gone
<1>4. Domains'
  BY <1>2, <1>3 DEF Domains
<1>5. Owns'
  <2> SUFFICES ASSUME NEW j \in Callers PROVE Owned(j)'
    BY DEF Owns
  <2>1. CASE Gone(j)
    BY <2>1, <1>1 DEF Owned, OfClient, Holds
  <2>2. CASE ~Gone(j)
    BY <2>2, <1>1, <1>2 DEF Gone, Owns, Owned, OfClient, Holds, Domains, Processes
  <2> QED BY <2>1, <2>2
<1>6. Issued'
  BY <1>1, <1>2, <1>3 DEF Issued
<1>7. GotIsNew'
  <2> SUFFICES ASSUME NEW j \in Callers, Brings(call'[j]) PROVE New(j)'
    BY DEF GotIsNew, New
  <2>1. call'[j] = call[j] /\ Brings(call[j]) /\ New(j)
    BY <1>1 DEF Brings, GotIsNew
  <2>2. \A i \in Callers \ {j} : Brings(call'[i]) => call'[i].got # call'[j].got
    BY <1>1, <2>1 DEF New, Brings
  <2>3. \A i \in Callers : call'[i].pc = "writing" => call'[i].read.token # call'[j].got
    BY <1>1, <2>1 DEF New
  <2> QED BY <2>1, <2>2, <2>3, <1>2, <1>3 DEF New
<1>8. ReadIsFile'
  BY <1>1, <1>2 DEF ReadIsFile
<1>9. FileKeepsUp'
  <2>1. ASSUME NEW k \in Callers, Gone(k), call[k].pc \in {"granted", "writing"},
               call[k].why \in {"due", "401"}
        PROVE  mishap'
    BY <2>1 DEF Crash, Gone
  <2> QED BY <2>1, <1>1, <1>2 DEF FileKeepsUp
<1> QED BY <1>4, <1>5, <1>6, <1>7, <1>8, <1>9

-----------------------------------------------------------------------------
(* Every step is one of those.                                             *)

LEMMA StepIsKnown ==
  ASSUME TokenInv, NEW k \in Callers,
         \/ Step(k) \/ Grant(k) \/ LoseGrant(k) \/ WriteFails(k) \/ Lose(k) \/ Visit(k)
         \/ \E c \in Clients, op \in Operations : Begin(k, c, op)
         \/ \E s \in 1..used.visits : Callback(k, s)
  PROVE  \/ Quiet(k) \/ Enters(k) \/ Drops(k) \/ ReadFile(k) \/ WriteFile(k)
         \/ Grant(k) /\ call'[k].pc = "granted"
<1>a. DOMAIN call = Callers /\ DOMAIN call[k] = Fields /\ Shape
  BY DEF TokenInv, Shape, IsCall
<1>b. \A r : call' = [call EXCEPT ![k] = r] => Alone(k) /\ call'[k] = r
  BY <1>a DEF Alone
<1>c. OfClient(call[k]) => call[k].client \in Clients /\ Home[call[k].client] = Home[k]
  BY DEF TokenInv, Owns, Owned
<1>d. Idle.pc = "idle"
  BY DEF Idle
<1>1. CASE Authorization(k)
  <2>1. CASE NeedsRefresh(mem[call[k].client])
    <3>1. call' = [call EXCEPT ![k].pc = "exchange", ![k].why = "due"] /\ Takes(k, call[k].client)
      BY <1>1, <2>1 DEF Authorization
    <3> QED BY <1>1, <3>1, <1>a DEF Authorization, Enters, Alone, Fields, ForCall
  <2>2. CASE ~NeedsRefresh(mem[call[k].client])
    <3>1. call' = [call EXCEPT ![k].pc = "send", ![k].token = mem[call[k].client]] /\ UNCHANGED mutex
      BY <1>1, <2>2 DEF Authorization
    <3> QED BY <1>1, <3>1, <1>a, <1>c
            DEF Authorization, Quiet, Same, Alone, Fields, Holds, Brings, OfClient
  <2> QED BY <2>1, <2>2
<1>2. CASE Refresh(k)
  <2>1. CASE mem[call[k].client] = 0
    <3>1. call' = [call EXCEPT ![k] = Idle] /\ UNCHANGED mutex
      BY <1>2, <2>1 DEF Refresh
    <3> QED BY <1>2, <3>1, <1>b, <1>d DEF Refresh, Quiet, Same, Holds, Brings, OfClient
  <2>2. CASE mem[call[k].client] # 0
    <3>1. call' = [call EXCEPT ![k].pc = "exchange", ![k].why = "401"] /\ Takes(k, call[k].client)
      BY <1>2, <2>2 DEF Refresh
    <3> QED BY <1>2, <3>1, <1>a DEF Refresh, Enters, Alone, Fields, ForCall
  <2> QED BY <2>1, <2>2
<1>3. CASE Serve(k)
  <2>1. /\ Alone(k) /\ call'[k].pc = "answered" /\ call[k].pc = "send"
        /\ call'[k].client = call[k].client
    BY <1>3, <1>a, ServeEffect DEF Serve
  <2>2. Same
    BY <1>3 DEF Serve, Same
  <2> QED BY <2>1, <2>2, <1>c DEF Quiet, Holds, Brings, OfClient
<1>4. CASE Receive(k)
  <2>1. call[k].pc = "answered" /\ Same
    BY <1>4 DEF Receive, Same
  <2>2. ASSUME call' = [call EXCEPT ![k] = Idle] PROVE Quiet(k)
    BY <2>1, <2>2, <1>b, <1>d DEF Quiet, Holds, Brings, OfClient
  <2>3. ASSUME call' = [call EXCEPT ![k] = [call[k] EXCEPT !.pc = "refresh"]] PROVE Quiet(k)
    BY <2>1, <2>3, <1>a, <1>c DEF Alone, Fields, Quiet, Holds, Brings, OfClient
  <2>4. ASSUME call' = [call EXCEPT ![k] = Asks(call[k], Follows(call[k]))] PROVE Quiet(k)
    BY <2>1, <2>4, <1>a, <1>c DEF Asks, Alone, Fields, Quiet, Holds, Brings, OfClient
  <2> QED BY <1>4, <2>2, <2>3, <2>4 DEF Receive
<1>5. CASE Grant(k) /\ call'[k].pc # "granted"
  <2>1. call' # [call EXCEPT ![k].pc = "granted", ![k].got = issued + 1]
    BY <1>5, <1>a DEF Fields
  <2>2. /\ call[k].pc = "exchange" /\ call' = [call EXCEPT ![k] = Idle] /\ Unlocks(k)
        /\ UNCHANGED <<live, issued, file, mem, fileMu, mishap>>
    BY <1>5, <2>1 DEF Grant
  <2> QED BY <2>2, <1>b DEF Drops, Unlocks
<1>6. CASE LoseGrant(k)
  BY <1>6, <1>b DEF LoseGrant, Drops, Unlocks, ForCall
<1>7. CASE WriteFails(k)
  BY <1>7, <1>b DEF WriteFails, Drops, Unlocks, ForCall
<1>8. CASE Lose(k)
  BY <1>8, <1>b, <1>d DEF Lose, WhenLost, Again, Quiet, Same, Holds, Brings, OfClient
<1>9. CASE Visit(k)
  <2>1. PICK n : call' = [call EXCEPT ![k] = [Idle EXCEPT !.pc = "granted", !.op = "visit",
                                                !.why = "visit", !.got = n]]
    BY <1>9 DEF Visit
  <2>2. Alone(k) /\ call'[k].pc = "granted" /\ call'[k].why = "visit"
    BY <2>1, <1>b DEF Idle
  <2> QED BY <1>9, <2>2 DEF Visit, Quiet, Same, Holds, Brings, OfClient, ForCall
<1>10. ASSUME NEW c \in Clients, NEW op \in Operations, Begin(k, c, op)
       PROVE  Quiet(k)
  <2>1. call' = [call EXCEPT ![k] = Asks([Idle EXCEPT !.op = op, !.client = c], First(op, c))]
    BY <1>10 DEF Begin
  <2>2. Alone(k) /\ call'[k].pc = "auth" /\ call'[k].client = c
    BY <2>1, <1>b DEF Asks, Idle
  <2> QED BY <1>10, <2>2 DEF Begin, Quiet, Same, Holds, Brings, OfClient
<1>11. ASSUME NEW s \in 1..used.visits, Callback(k, s)
       PROVE  Quiet(k)
  <2>1. call' = [call EXCEPT ![k] = [Idle EXCEPT !.pc = "exchange", !.op = "callback", !.why = "code"]]
    BY <1>11 DEF Callback
  <2>2. Alone(k) /\ call'[k].pc = "exchange" /\ call'[k].why = "code"
    BY <2>1, <1>b DEF Idle
  <2> QED BY <1>11, <2>2 DEF Callback, Quiet, Same, Holds, Brings, OfClient, ForCall
<1> QED BY <1>1, <1>2, <1>3, <1>4, <1>5, <1>6, <1>7, <1>8, <1>9, <1>10, <1>11 DEF Step

LEMMA TokenInvariant == Spec => []TokenInv
<1>1. TokenInv /\ Shape' /\ [Next]_vars => TokenInv'
  <2> SUFFICES ASSUME TokenInv, Shape', [Next]_vars
               PROVE  Domains' /\ Owns' /\ Issued' /\ GotIsNew' /\ ReadIsFile' /\ FileKeepsUp'
    BY DEF TokenInv
  <2> DEFINE Kept == Domains' /\ Owns' /\ Issued' /\ GotIsNew' /\ ReadIsFile' /\ FileKeepsUp'
  <2>1. ASSUME NEW k \in Callers,
               \/ Step(k) \/ Grant(k) \/ LoseGrant(k) \/ WriteFails(k) \/ Lose(k) \/ Visit(k)
               \/ \E c \in Clients, op \in Operations : Begin(k, c, op)
               \/ \E s \in 1..used.visits : Callback(k, s)
        PROVE  Kept
    <3>1. \/ Quiet(k) \/ Enters(k) \/ Drops(k) \/ ReadFile(k) \/ WriteFile(k)
          \/ Grant(k) /\ call'[k].pc = "granted"
      BY <2>1, StepIsKnown
    <3> QED BY <3>1, QuietTokens, TakesTokens, DropsTokens, ReadTokens, WriteTokens, GrantTokens
  <2>2. ASSUME NEW c \in Clients, Load(c) PROVE Kept
    <3>1. /\ UNCHANGED <<live, issued, file, mutex, fileMu, call, mishap>>
          /\ mem' = [mem EXCEPT ![c] = file.token] /\ DOMAIN mem = Clients
      BY <2>2 DEF Load, TokenInv, Domains
    <3>2. DOMAIN mem' = Clients /\ \A d \in Clients : mem'[d] = mem[d] \/ mem'[d] = file.token
      BY <3>1
    <3> QED BY <3>1, <3>2, ReloadTokens
  <2>3. ASSUME NEW t \in Tokens, Age(t) PROVE Kept
    BY <2>3, ReloadTokens DEF Age, TokenInv, Domains
  <2>4. ASSUME NEW p \in Processes, Crash(p) PROVE Kept
    BY <2>4, CrashTokens
  <2>5. CASE UNCHANGED vars
    BY <2>5, ReloadTokens DEF vars, TokenInv, Domains
  <2>6. CASE Next
    <3>1. ASSUME NEW k \in Callers,
                 Step(k) \/ Grant(k) \/ LoseGrant(k) \/ WriteFails(k) \/ Lose(k) \/ Visit(k)
          PROVE  Kept
      BY <2>1, <3>1
    <3>2. ASSUME NEW k \in Callers, NEW c \in Clients, NEW op \in Operations, Begin(k, c, op)
          PROVE  Kept
      BY <2>1, <3>2
    <3>3. ASSUME NEW k \in Callers, NEW s \in 1..used.visits, Callback(k, s)
          PROVE  Kept
      BY <2>1, <3>3
    <3>4. CASE \E k \in Callers : Step(k) \/ Grant(k) \/ LoseGrant(k) \/ WriteFails(k) \/ Lose(k)
                                   \/ Visit(k)
      BY <3>1, <3>4
    <3>5. CASE \E k \in Callers, c \in Clients, op \in Operations : Begin(k, c, op)
      BY <3>2, <3>5
    <3>6. CASE \E k \in Callers, s \in 1..used.visits : Callback(k, s)
      BY <3>3, <3>6
    <3>7. CASE \E c \in Clients : Load(c)
      BY <2>2, <3>7
    <3>8. CASE \E p \in Processes : Crash(p)
      BY <2>4, <3>8
    <3>9. CASE \E t \in Tokens : Age(t)
      BY <2>3, <3>9
    <3> QED BY <2>6, <3>4, <3>5, <3>6, <3>7, <3>8, <3>9 DEF Next
  <2> QED BY <2>5, <2>6
<1>2. OnceInv => Shape
  BY DEF OnceInv
<1> QED BY <1>1, <1>2, InitTokens, OnceInvariant, PTL DEF Spec

(* LockoutHasCause: for any number of callers and clients in any number of *)
(* processes, the file holds a token that Linear still takes or one is     *)
(* being brought, and no two calls of a client present the same token,     *)
(* unless an answer or a write was lost or two processes overlapped.  It   *)
(* is mu that makes the token a client presents its own, and authFileMu    *)
(* that makes an update write what it read (auth_provider.go, oauth.go).   *)
THEOREM LockoutHasCauseHolds == Spec => []LockoutHasCause
<1>1. TokenInv => NoTokenTwice
  <2> SUFFICES ASSUME TokenInv, NEW k \in Callers,
                      call[k].pc = "exchange", call[k].why # "code",
                      mem[call[k].client] \notin live, ~mishap,
                      mem[call[k].client] = file.token
               PROVE  \E j \in Callers : /\ call[j].client # call[k].client
                                         /\ call[j].pc \in {"granted", "writing"}
    BY DEF NoTokenTwice
  <2>1. Holds(call[k]) /\ mutex[call[k].client] = k
    BY DEF TokenInv, Owns, Owned, Holds
  <2>2. PICK j \in Callers : call[j].pc \in {"granted", "writing"} /\ call[j].why \in ForCall
    BY DEF TokenInv, FileKeepsUp, ForCall
  <2>3. mutex[call[j].client] = j /\ j # k
    BY <2>2 DEF TokenInv, Owns, Owned, Holds
  <2> QED BY <2>1, <2>2, <2>3
<1>2. TokenInv => LockoutHasCause
  BY <1>1 DEF TokenInv, LockoutHasCause
<1> QED BY <1>2, TokenInvariant, PTL

-----------------------------------------------------------------------------
-----------------------------------------------------------------------------
(* The least and the largest of some numbers.                              *)

LEMMA LeastIs ==
  ASSUME NEW T \in SUBSET Nat, T # {}
  PROVE  \E x \in T : \A y \in T : x <= y
<1> DEFINE R == {ss \in Nat \X Nat : ss[1] < ss[2]}
<1>1. IsWellFoundedOn(R, Nat)
  BY NatLessThanWellFounded DEF OpToRel
<1>2. PICK x \in T : \A y \in T : ~(<<y, x>> \in R)
  <2> HIDE DEF R
  <2> QED BY <1>1, WFMin
<1>3. \A y \in T : ~(y < x)
  BY <1>2
<1> QED BY <1>3

LEMMA LargestIs ==
  ASSUME NEW n \in Nat, NEW S \in SUBSET (1 .. n), S # {}
  PROVE  Max(S) \in S /\ \A y \in S : Max(S) >= y
<1> DEFINE T == {n - s : s \in S}
<1>1. T \in SUBSET Nat /\ T # {}
  <2>1. \A s \in S : s \in Int /\ n - s \in Nat
    OBVIOUS
  <2>2. PICK s \in S : TRUE
    OBVIOUS
  <2>3. n - s \in T
    OBVIOUS
  <2> QED BY <2>1, <2>3
<1>2. PICK x \in T : \A y \in T : x <= y
  BY <1>1, LeastIs
<1>3. PICK z \in S : x = n - z
  BY <1>2
<1>4. ASSUME NEW y \in S
      PROVE  z >= y
  <2>1. n - y \in T
    OBVIOUS
  <2>2. x <= n - y
    BY <2>1, <1>2
  <2> HIDE DEF T
  <2> QED BY <2>2, <1>3
<1> QED BY <1>3, <1>4 DEF Max

-----------------------------------------------------------------------------
-----------------------------------------------------------------------------
(* The metadata of an issue (Metadata).                                    *)

(* A value that names only a message that was posted, and its writer.      *)
Named(v) == v.message # 0 => slack[v.message] # "none"
Good(v) == v \in Values /\ Named(v)
GoodWriter(w) == w \in Writer /\ Named(w.copy)

Attached == [base : Bases, value : Values]
Board ==
  /\ board \in States /\ base \in Bases
  /\ attachments \in Seq(Attached)
  /\ \A i \in DOMAIN attachments : Named(attachments[i].value)
Messages == slack \in [1 .. MaxMessages -> States \cup {"none", "deleted"}]
Entry == entry \in [running : BOOLEAN, copy : Values] /\ Named(entry.copy)
Loop == GoodWriter(loop) /\ (loop.at = "sync" \/ loop.sync => loop.seen \in States)
Worker == GoodWriter(worker) /\ (worker.at # "idle" => worker.seen \in States)
Handles(r) == GoodWriter(r) /\ (r.at \in {"work", "said"} => r.seen \in States)
Handlers == handler \in [Deliveries -> Writer] /\ \A d \in Deliveries : Handles(handler[d])
MetaInv ==
  /\ faults \in Nat /\ announce \in [Deliveries -> Events]
  /\ Board /\ Messages /\ Entry /\ Loop /\ Worker /\ Handlers

-----------------------------------------------------------------------------
(* The values that are read and merged.                                    *)

LEMMA AttachedAre ==
  ASSUME Board, NEW i \in DOMAIN attachments
  PROVE  /\ attachments[i].base \in Bases
         /\ attachments[i].value \in Values /\ Named(attachments[i].value)
<1>1. attachments[i] \in Attached
  BY DEF Board
<1> QED BY <1>1 DEF Board, Attached

LEMMA BlankIs == Good(Blank)
BY MetadataAssumption DEF MetadataAssumption, Blank, Values, Good, Named

LEMMA FillGood ==
  ASSUME NEW v, NEW o, Good(v), Good(o)
  PROVE  Good(Fill(v, o))
BY DEF Good, Named, Fill, Values

LEMMA MergeGood ==
  ASSUME NEW v, NEW o, Good(v), Good(o)
  PROVE  Good(Merge(v, o))
BY FillGood DEF Merge

(* A field of the last attachment that has it, or the field is blank.      *)
LEMMA LatestIs ==
  ASSUME attachments \in Seq(Attached), NEW field
  PROVE  \/ Having(field) = {} /\ Latest(field) = Blank[field]
         \/ \E i \in DOMAIN attachments :
              /\ i \in Having(field) /\ Latest(field) = attachments[i].value[field]
              /\ \A j \in Having(field) : j <= i
<1>1. Having(field) \in SUBSET (1 .. Len(attachments)) /\ Len(attachments) \in Nat
  BY DEF Having
<1> DEFINE i == Max(Having(field))
<1>2. CASE Having(field) # {}
  <2>1. i \in Having(field) /\ \A j \in Having(field) : i >= j
    BY <1>1, <1>2, LargestIs
  <2>2. \A j \in Having(field) : j <= i
    BY <2>1, <1>1
  <2> QED BY <2>1, <2>2, <1>1, <1>2 DEF Latest
<1> QED BY <1>2 DEF Latest

LEMMA ReadGood ==
  ASSUME Board
  PROVE  Good(Read)
<1>1. CASE attachments = <<>>
  BY <1>1, BlankIs DEF Read
<1>2. CASE attachments # <<>>
  <2> DEFINE c == attachments[Len(attachments)].value
             m == Latest("message")
             p == Latest("print")
  <2>a. \A i \in DOMAIN attachments : attachments[i].value \in Values /\ Named(attachments[i].value)
    BY AttachedAre
  <2>1. c \in Values
    <3>1. Len(attachments) \in DOMAIN attachments
      BY <1>2 DEF Board
    <3> QED BY <3>1, <2>a
  <2>2. m \in 0 .. MaxMessages /\ (m # 0 => slack[m] # "none")
    <3>1. CASE m = Blank["message"]
      BY <3>1, MetadataAssumption DEF Blank, MetadataAssumption
    <3>2. ASSUME NEW i \in DOMAIN attachments, m = attachments[i].value["message"]
          PROVE  m \in 0 .. MaxMessages /\ (m # 0 => slack[m] # "none")
      BY <3>2, <2>a DEF Values, Named
    <3> QED BY <3>1, <3>2, LatestIs DEF Board
  <2>3. p \in States \cup {NoState}
    <3>1. CASE p = Blank["print"]
      BY <3>1 DEF Blank
    <3>2. ASSUME NEW i \in DOMAIN attachments, p = attachments[i].value["print"]
          PROVE  p \in States \cup {NoState}
      BY <3>2, <2>a DEF Values
    <3> QED BY <3>1, <3>2, LatestIs DEF Board
  <2>4. Read = [c EXCEPT !.message = m, !.print = p]
    BY <1>2 DEF Read, Canonical
  <2> HIDE DEF c, m, p
  <2> QED BY <2>1, <2>2, <2>3, <2>4 DEF Good, Named, Values
<1> QED BY <1>1, <1>2

LEMMA KnownGood ==
  ASSUME Board, Entry, NEW v, Good(v)
  PROVE  Good(Known(v))
<1>1. Good(entry.copy)
  BY DEF Entry, Good
<1> QED BY <1>1, MergeGood DEF Known

-----------------------------------------------------------------------------
(* What a write leaves in Linear.                                          *)

LEMMA WithoutIs ==
  ASSUME attachments \in Seq(Attached), NEW b
  PROVE  /\ Without(b) \in Seq(Attached)
         /\ \A i \in DOMAIN Without(b) :
              \E j \in DOMAIN attachments : Without(b)[i] = attachments[j]
<1>1. CASE ~Exists(b)
  BY <1>1 DEF Without
<1>2. CASE Exists(b)
  <2> DEFINE n == Len(attachments)
             p == Place(b)
             f == [i \in 1 .. n - 1 |-> attachments[IF i < p THEN i ELSE i + 1]]
  <2>1. n \in Nat /\ DOMAIN attachments = 1 .. n /\ \A j \in 1 .. n : attachments[j] \in Attached
    OBVIOUS
  <2>2. p \in 1 .. n
    BY <1>2, <2>1 DEF Exists, Place
  <2>3. n - 1 \in Nat
    BY <2>1, <2>2
  <2>4. \A i \in 1 .. n - 1 : i \in 1 .. n /\ i + 1 \in 1 .. n
    BY <2>1
  <2> HIDE DEF n, p
  <2>5. \A i \in 1 .. n - 1 : f[i] \in Attached /\ \E j \in 1 .. n : f[i] = attachments[j]
    BY <2>1, <2>4
  <2>6. f \in Seq(Attached) /\ DOMAIN f = 1 .. n - 1
    BY <2>3, <2>5
  <2>7. Without(b) = f
    BY <1>2 DEF Without, n, p
  <2> HIDE DEF f
  <2> QED BY <2>1, <2>5, <2>6, <2>7
<1> QED BY <1>1, <1>2

LEMMA WithValueIs ==
  ASSUME attachments \in Seq(Attached), NEW b \in Bases, NEW v \in Values
  PROVE  /\ WithValue(b, v) \in Seq(Attached)
         /\ Len(WithValue(b, v)) \in DOMAIN WithValue(b, v)
         /\ WithValue(b, v)[Len(WithValue(b, v))] = [base |-> b, value |-> v]
         /\ \A i \in DOMAIN WithValue(b, v) :
              \/ WithValue(b, v)[i].value = v
              \/ \E j \in DOMAIN attachments : WithValue(b, v)[i] = attachments[j]
<1> DEFINE s == Without(b)
           e == [base |-> b, value |-> v]
<1>1. s \in Seq(Attached) /\ \A i \in DOMAIN s : \E j \in DOMAIN attachments : s[i] = attachments[j]
  BY WithoutIs
<1>2. e \in Attached /\ e.value = v
  BY DEF Attached
<1>3. WithValue(b, v) = Append(s, e)
  BY DEF WithValue
<1> HIDE DEF s, e
<1>4. /\ Append(s, e) \in Seq(Attached) /\ Len(Append(s, e)) \in DOMAIN Append(s, e)
      /\ Append(s, e)[Len(Append(s, e))] = e
      /\ \A i \in DOMAIN Append(s, e) :
           (i \in DOMAIN s /\ Append(s, e)[i] = s[i]) \/ Append(s, e)[i] = e
  BY <1>1, <1>2
<1> QED BY <1>1, <1>2, <1>3, <1>4 DEF e

(* What was posted stays posted, whatever becomes of it.                   *)
Grows ==
  /\ Messages'
  /\ \A m \in 1 .. MaxMessages : slack[m] # "none" => slack'[m] # "none"

LEMMA NamedStays ==
  ASSUME Grows, NEW v, v \in Values, Named(v)
  PROVE  Named(v)'
BY DEF Grows, Named, Values

LEMMA DestinationIs ==
  ASSUME Board, NEW w \in Writer
  PROVE  Destination(w) # {} /\ Destination(w) \subseteq Bases
<1>1. Exists(base) => Canonical.base \in Bases
  <2>1. Exists(base) => Len(attachments) \in DOMAIN attachments
    BY DEF Exists, Board
  <2> QED BY <2>1, AttachedAre DEF Canonical
<1>2. w.target \in Bases \cup {NoBase} /\ base \in Bases
  BY DEF Board, Writer
<1> QED BY <1>1, <1>2 DEF Destination, Recovers

LEMMA BoardStays ==
  ASSUME Board, Grows, UNCHANGED attachments, board' \in States, base' \in Bases
  PROVE  Board'
<1>1. \A i \in DOMAIN attachments : attachments[i].value \in Values
  BY AttachedAre
<1> QED BY <1>1, NamedStays DEF Board

LEMMA PutsGood ==
  ASSUME Board, Grows, NEW w, GoodWriter(w), Puts(w), UNCHANGED <<board, base>>
  PROVE  Board'
<1>1. CASE UNCHANGED attachments
  BY <1>1, BoardStays DEF Board
<1>2. ASSUME NEW b \in Destination(w), attachments' = WithValue(b, w.copy)
      PROVE  Board'
  <2>1. b \in Bases /\ w.copy \in Values /\ Named(w.copy)
    BY DestinationIs DEF GoodWriter, Writer
  <2>2. attachments' \in Seq(Attached)
    BY <1>2, <2>1, WithValueIs DEF Board
  <2>3. ASSUME NEW i \in DOMAIN attachments'
        PROVE  attachments'[i].value \in Values /\ Named(attachments'[i].value)
    <3>1. \/ attachments'[i].value = w.copy
          \/ \E j \in DOMAIN attachments : attachments'[i] = attachments[j]
      BY <1>2, <2>1, <2>3, WithValueIs DEF Board
    <3>2. \A j \in DOMAIN attachments : attachments[j].value \in Values /\ Named(attachments[j].value)
      BY AttachedAre
    <3> QED BY <3>1, <3>2, <2>1
  <2>4. ASSUME NEW i \in DOMAIN attachments'
        PROVE  Named(attachments[i].value)'
    <3> DEFINE v == attachments'[i].value
    <3>1. v \in Values /\ (v.message # 0 => slack[v.message] # "none")
      BY <2>3, <2>4 DEF Named
    <3> QED BY <3>1 DEF Grows, Named, Values
  <2> QED BY <2>2, <2>4 DEF Board
<1> QED BY <1>1, <1>2 DEF Puts

(* What was written is what is read back.                                  *)
LEMMA ReadsBack ==
  ASSUME Board, NEW b \in Bases, NEW v \in Values, attachments' = WithValue(b, v)
  PROVE  Fill(v, Read') = Read'
<1> DEFINE n == Len(attachments')
<1>1. /\ attachments' \in Seq(Attached) /\ n \in DOMAIN attachments'
      /\ attachments'[n] = [base |-> b, value |-> v]
  BY WithValueIs DEF Board
<1>2. n \in Nat /\ DOMAIN attachments' = 1 .. n /\ attachments' # <<>> /\ attachments'[n].value = v
  BY <1>1
<1> HIDE DEF n
<1>3. ASSUME NEW field, v[field] # Blank[field]
      PROVE  Latest(field)' = v[field]
  <2>1. n \in Having(field)' /\ Having(field)' \in SUBSET (1 .. n)
    BY <1>2, <1>3 DEF Having
  <2>2. Max(Having(field)') \in Having(field)' /\ \A y \in Having(field)' : Max(Having(field)') >= y
    BY <1>2, <2>1, LargestIs
  <2>3. Max(Having(field)') = n
    BY <1>2, <2>1, <2>2
  <2> QED BY <1>2, <2>1, <2>3 DEF Latest
<1>4. Read' = [v EXCEPT !.message = Latest("message")', !.print = Latest("print")']
  BY <1>2 DEF Read, Canonical, n
<1>5. /\ v.message # 0 => Latest("message")' = v.message
      /\ v.print # NoState => Latest("print")' = v.print
  BY <1>3 DEF Blank
<1> QED BY <1>4, <1>5 DEF Fill, Values

-----------------------------------------------------------------------------
(* The types are kept.                                                     *)

(* What a step does not touch stays as it should be.                       *)
LEMMA PartsStay ==
  ASSUME MetaInv, Grows
  PROVE  /\ UNCHANGED loop => Loop'
         /\ UNCHANGED worker => Worker'
         /\ UNCHANGED entry => Entry'
         /\ UNCHANGED handler => Handlers'
         /\ UNCHANGED linear => Board'
<1>1. \A w \in Writer : w.copy \in Values
  BY DEF Writer
<1>2. \A w : GoodWriter(w) => GoodWriter(w)'
  BY <1>1, NamedStays DEF GoodWriter
<1>3. UNCHANGED entry => Entry'
  BY NamedStays DEF MetaInv, Entry
<1>4. UNCHANGED linear => Board'
  BY BoardStays DEF MetaInv, Board, linear
<1> QED BY <1>2, <1>3, <1>4 DEF MetaInv, Loop, Worker, Handlers, Handles

LEMMA SlackStays ==
  ASSUME Messages, UNCHANGED slack
  PROVE  Grows
BY DEF Grows, Messages

LEMMA AtRestGood == GoodWriter(AtRest) /\ AtRest.at = "idle" /\ ~AtRest.sync
BY BlankIs DEF AtRest, GoodWriter, Good, Writer

(* The loop comes to rest; the entry keeps what the loop's copy says.      *)
LEMMA RestGood ==
  ASSUME MetaInv, Grows, Rest(loop.copy)
  PROVE  Loop' /\ Entry'
<1>1. Loop'
  BY AtRestGood DEF Rest, Loop, AtRest, GoodWriter, Named, Blank
<1>2. Good(loop.copy) /\ Good(entry.copy)
  BY DEF MetaInv, Loop, Entry, GoodWriter, Writer, Good
<1>3. Good(Merge(entry.copy, loop.copy))
  BY <1>2, MergeGood
<1>4. Entry'
  <2>1. CASE entry.running
    <3>1. entry' = [entry EXCEPT !.copy = Merge(entry.copy, loop.copy)]
      BY <2>1 DEF Rest, Remember
    <3>2. /\ entry' \in [running : BOOLEAN, copy : Values]
          /\ entry'.copy = Merge(entry.copy, loop.copy)
      BY <3>1, <1>3 DEF MetaInv, Entry, Good
    <3> QED BY <3>2, <1>3, NamedStays DEF Entry, Good, Named
  <2>2. CASE ~entry.running
    BY <2>2, PartsStay DEF Rest, Remember
  <2> QED BY <2>1, <2>2
<1> QED BY <1>1, <1>4

(* A message is shown: one that is posted then.                            *)
LEMMA ShowsGrows ==
  ASSUME MetaInv, NEW m \in 1 .. MaxMessages, Shows(m), loop.at = "sync"
  PROVE  Grows /\ slack'[m] # "none"
BY MetadataAssumption DEF MetadataAssumption, MetaInv, Messages, Loop, Shows, Grows

LEMMA PersistGood ==
  ASSUME MetaInv, NEW m \in 1 .. MaxMessages, Persist(m), loop.at = "sync",
         Grows, slack'[m] # "none"
  PROVE  Loop'
<1>1. loop \in Writer /\ loop.copy \in Values /\ loop.seen \in States
  BY DEF MetaInv, Loop, GoodWriter, Writer
<1> DEFINE c == [loop.copy EXCEPT !.message = m, !.print = loop.seen, !.rest = TRUE]
<1>2. c \in Values /\ c.message = m
  <2>1. m \in 0 .. MaxMessages
    OBVIOUS
  <2> QED BY <1>1, <2>1 DEF Values
<1>3. loop' = [at |-> "find", seen |-> loop.seen, copy |-> c, target |-> loop.target,
               sync |-> loop.sync]
  BY <1>1 DEF Persist, Writer
<1> HIDE DEF c
<1>4. loop' \in Writer /\ loop'.copy = c /\ loop'.seen = loop.seen
  BY <1>1, <1>2, <1>3 DEF Writer
<1> QED BY <1>1, <1>2, <1>4 DEF Loop, GoodWriter, Named

LEMMA UpdatableIs ==
  ASSUME MetaInv, Updatable(loop.copy)
  PROVE  loop.copy.message \in 1 .. MaxMessages /\ slack[loop.copy.message] # "none"
BY DEF MetaInv, Loop, GoodWriter, Writer, Values, Named, Updatable

LEMMA SyncTypes ==
  ASSUME MetaInv, Tick \/ SyncSame \/ SyncUpdates \/ SyncPosts \/ SyncFails
  PROVE  MetaInv'
<1>a. Messages /\ faults \in Nat
  BY DEF MetaInv
<1>1. CASE Tick
  <2>1. Grows
    BY <1>1, <1>a, SlackStays DEF Tick
  <2>2. Good(Known(Read)) /\ board \in States
    BY ReadGood, KnownGood DEF MetaInv, Board
  <2>3. loop' = [at |-> "sync", seen |-> board, copy |-> Known(Read), target |-> NoBase,
                 sync |-> FALSE]
    BY <1>1 DEF Tick, AtRest
  <2> DEFINE c == Known(Read)
  <2> HIDE DEF c
  <2>4. GoodWriter(loop') /\ loop'.seen = board
    BY <2>2, <2>3 DEF Good, GoodWriter, Writer, c
  <2>5. Loop'
    BY <1>1, <2>2, <2>4 DEF Loop, GoodWriter, Named, Tick
  <2> QED BY <1>1, <1>a, <2>1, <2>5, PartsStay DEF Tick, MetaInv, Grows, acks
<1>2. CASE SyncSame
  <2>1. Grows
    BY <1>2, <1>a, SlackStays DEF SyncSame
  <2> QED BY <1>2, <1>a, <2>1, RestGood, PartsStay DEF SyncSame, MetaInv, Grows, acks
<1>3. CASE SyncUpdates
  <2>1. Grows /\ Loop'
    BY <1>3, UpdatableIs, ShowsGrows, PersistGood DEF SyncUpdates
  <2> QED BY <1>3, <1>a, <2>1, PartsStay DEF SyncUpdates, MetaInv, Grows, acks
<1>4. CASE SyncPosts
  <2>1. Grows /\ Loop'
    BY <1>4, ShowsGrows, PersistGood DEF SyncPosts, Fresh
  <2> QED BY <1>4, <1>a, <2>1, PartsStay DEF SyncPosts, MetaInv, Grows, acks
<1>5. CASE SyncFails
  <2>1. Grows
    BY <1>5, <1>a, SlackStays, UpdatableIs, ShowsGrows DEF SyncFails, Fresh
  <2>2. faults' \in Nat
    BY <1>5, <1>a DEF SyncFails, Trouble
  <2>3. Loop' /\ Entry'
    BY <1>5, <2>1, RestGood DEF SyncFails
  <2> QED BY <1>5, <2>1, <2>2, <2>3, PartsStay DEF SyncFails, MetaInv, Grows, acks
<1> QED BY <1>1, <1>2, <1>3, <1>4, <1>5

LEMMA PutsFaults ==
  ASSUME faults \in Nat, NEW w, Puts(w)
  PROVE  faults' \in Nat
BY DEF Puts, Calm, Trouble

LEMMA TargetIs ==
  ASSUME Board
  PROVE  Target \in Bases \cup {NoBase}
<1>1. attachments # <<>> => Len(attachments) \in DOMAIN attachments
  BY DEF Board
<1> QED BY <1>1, AttachedAre DEF Target, Canonical

LEMMA LoopTypes ==
  ASSUME MetaInv, LoopFinds \/ LoopPuts \/ Comment \/ Dispatch \/ Exit
  PROVE  MetaInv'
<1>a. Messages /\ faults \in Nat /\ Board /\ loop \in Writer /\ worker \in Writer
  BY DEF MetaInv, Loop, Worker, GoodWriter
<1>1. CASE LoopFinds
  <2>1. Grows
    BY <1>1, <1>a, SlackStays DEF LoopFinds
  <2>2. CASE loop' = [loop EXCEPT !.at = "put", !.target = Target] /\ UNCHANGED <<entry, faults>>
    <3>1. /\ loop' \in Writer /\ loop'.copy = loop.copy /\ loop'.at = "put"
          /\ loop'.sync = loop.sync /\ loop'.seen = loop.seen
      BY <2>2, <1>a, TargetIs DEF Writer
    <3>2. Loop'
      <4>1. loop.copy.message # 0 => slack'[loop.copy.message] # "none"
        BY <2>1, <1>a DEF MetaInv, Loop, GoodWriter, Writer, Values, Named, Grows
      <4> QED BY <3>1, <4>1 DEF MetaInv, Loop, GoodWriter, Named
    <3> QED BY <1>1, <1>a, <2>1, <2>2, <3>2, PartsStay DEF LoopFinds, MetaInv, Grows, acks
  <2>3. CASE Trouble /\ Rest(loop.copy)
    <3>1. faults' \in Nat
      BY <2>3, <1>a DEF Trouble
    <3> QED BY <1>1, <2>1, <2>3, <3>1, RestGood, PartsStay DEF LoopFinds, MetaInv, Grows, acks
  <2> QED BY <1>1, <2>2, <2>3 DEF LoopFinds
<1>2. CASE LoopPuts
  <2>1. Grows
    BY <1>2, <1>a, SlackStays DEF LoopPuts
  <2>2. Board' /\ faults' \in Nat
    BY <1>2, <1>a, <2>1, PutsGood, PutsFaults DEF LoopPuts, MetaInv, Loop
  <2>3. Loop' /\ Entry'
    <3>1. CASE ~loop.sync
      BY <3>1, <1>2, <2>1, RestGood DEF LoopPuts
    <3>2. CASE loop.sync
      <4>1. /\ UNCHANGED entry
            /\ loop' = [at |-> "sync", seen |-> loop.seen, copy |-> loop.copy,
                        target |-> NoBase, sync |-> FALSE]
        BY <3>2, <1>2 DEF LoopPuts, AtRest
      <4>2. loop.seen \in States /\ loop.copy \in Values
        BY <3>2, <1>a DEF MetaInv, Loop, Writer
      <4>3. loop.copy.message # 0 => slack'[loop.copy.message] # "none"
        BY <2>1, <4>2 DEF MetaInv, Loop, GoodWriter, Values, Named, Grows
      <4>4. loop' \in Writer
        BY <4>1, <4>2 DEF Writer
      <4>5. Loop'
        BY <4>1, <4>2, <4>3, <4>4 DEF Loop, GoodWriter, Named
      <4> QED BY <2>1, <4>1, <4>5, PartsStay
    <3> QED BY <3>1, <3>2
  <2> QED BY <1>2, <2>1, <2>2, <2>3, PartsStay DEF LoopPuts, MetaInv, Grows, acks
<1>3. CASE Comment
  <2>1. Grows
    BY <1>3, <1>a, SlackStays DEF Comment
  <2> DEFINE c == [entry.copy EXCEPT !.rest = TRUE]
  <2>2. c \in Values /\ Named(c)
    BY DEF MetaInv, Entry, Values, Named
  <2>3. loop' = [at |-> "find", seen |-> NoState, copy |-> c, target |-> NoBase, sync |-> FALSE]
    BY <1>3 DEF Comment, AtRest
  <2> HIDE DEF c
  <2>4. loop' \in Writer /\ loop'.copy = c /\ loop'.at = "find" /\ ~loop'.sync
    BY <2>2, <2>3 DEF Writer
  <2>5. c.message # 0 => slack'[c.message] # "none"
    BY <1>3, <2>2 DEF Named, Comment
  <2>6. Loop'
    BY <2>4, <2>5 DEF Loop, GoodWriter, Named
  <2> QED BY <1>3, <1>a, <2>1, <2>6, PartsStay DEF Comment, MetaInv, Grows, acks
<1>4. CASE Dispatch
  <2>1. Grows
    BY <1>4, <1>a, SlackStays DEF Dispatch
  <2>2. Good(Read) /\ board \in States
    BY <1>a, ReadGood DEF Board
  <2>3. /\ worker' = [at |-> "work", seen |-> board, copy |-> Read, target |-> NoBase, sync |-> FALSE]
        /\ entry' = [running |-> TRUE, copy |-> Read] /\ UNCHANGED slack
    BY <1>4 DEF Dispatch, AtRest
  <2> DEFINE c == Read
  <2> HIDE DEF c
  <2>4. c \in Values /\ (c.message # 0 => slack[c.message] # "none")
    BY <2>2 DEF Good, Named, c
  <2>5. worker' \in Writer /\ worker'.copy = c /\ worker'.seen = board /\ entry'.copy = c
        /\ entry' \in [running : BOOLEAN, copy : Values]
    BY <2>2, <2>3, <2>4 DEF Writer, c
  <2>6. Worker' /\ Entry'
    BY <2>2, <2>3, <2>4, <2>5 DEF Worker, Entry, GoodWriter, Named
  <2> QED BY <1>4, <1>a, <2>1, <2>6, PartsStay DEF Dispatch, MetaInv, Grows, acks
<1>5. CASE Exit
  <2>1. Grows
    BY <1>5, <1>a, SlackStays DEF Exit
  <2> DEFINE c == Merge(entry.copy, worker.copy)
  <2>2. Good(c)
    BY <1>a, MergeGood DEF MetaInv, Entry, Worker, GoodWriter, Writer, Good
  <2>3. worker.seen \in States
    BY <1>5 DEF Exit, MetaInv, Worker
  <2> HIDE DEF c
  <2>4. c \in Values /\ (c.message # 0 => slack[c.message] # "none") /\ UNCHANGED slack
    BY <1>5, <2>2 DEF Good, Named, Exit
  <2>5. [c EXCEPT !.rest = TRUE] \in Values /\ [c EXCEPT !.rest = TRUE].message = c.message
    BY <2>4 DEF Values
  <2>6. \/ loop' = AtRest
        \/ \E at \in {"find", "sync"}, sync \in BOOLEAN, x \in {c, [c EXCEPT !.rest = TRUE]} :
             loop' = [at |-> at, seen |-> worker.seen, copy |-> x, target |-> NoBase, sync |-> sync]
    <3>1. PICK writes \in BOOLEAN, syncs \in BOOLEAN :
            loop' = CASE writes -> [[AtRest EXCEPT !.seen = worker.seen, !.copy = c]
                                      EXCEPT !.at = "find", !.sync = syncs, !.copy.rest = TRUE]
                      [] ~writes /\ syncs -> [[AtRest EXCEPT !.seen = worker.seen, !.copy = c]
                                                EXCEPT !.at = "sync"]
                      [] OTHER -> AtRest
      BY <1>5 DEF Exit, c
    <3>2. CASE writes
      BY <3>1, <3>2 DEF AtRest
    <3>3. CASE ~writes /\ syncs
      BY <3>1, <3>3 DEF AtRest
    <3>4. CASE ~writes /\ ~syncs
      BY <3>1, <3>4
    <3> QED BY <3>2, <3>3, <3>4
  <2>7. Loop'
    <3>1. CASE loop' = AtRest
      BY <3>1, AtRestGood DEF Loop, AtRest, GoodWriter, Named, Blank
    <3>2. ASSUME NEW at \in {"find", "sync"}, NEW sync \in BOOLEAN, NEW x \in {c, [c EXCEPT !.rest = TRUE]},
                 loop' = [at |-> at, seen |-> worker.seen, copy |-> x, target |-> NoBase, sync |-> sync]
          PROVE  Loop'
      <4>1. x \in Values /\ x.message = c.message
        BY <2>4, <2>5
      <4>2. loop' \in Writer /\ loop'.copy = x /\ loop'.seen \in States
        BY <3>2, <4>1, <2>3 DEF Writer
      <4> QED BY <4>1, <4>2, <2>4 DEF Loop, GoodWriter, Named
    <3> QED BY <2>6, <3>1, <3>2
  <2>8. Worker' /\ Entry'
    BY <1>5, AtRestGood, BlankIs DEF Exit, Worker, Entry, NoEntry, AtRest, GoodWriter, Named, Blank, Good
  <2> QED BY <1>5, <1>a, <2>1, <2>7, <2>8, PartsStay DEF Exit, MetaInv, Grows, acks
<1> QED BY <1>1, <1>2, <1>3, <1>4, <1>5

(* A writer that works on with a good copy.                                *)
LEMMA GoesOn ==
  ASSUME UNCHANGED slack, NEW w, w \in Writer, Good(w.copy)
  PROVE  /\ w.copy.message # 0 => slack'[w.copy.message] # "none"
         /\ GoodWriter(w)
BY DEF Good, Named, GoodWriter

LEMMA WorkerTypes ==
  ASSUME MetaInv, WorkerStep
  PROVE  MetaInv'
<1>a. /\ Messages /\ faults \in Nat /\ Board /\ worker \in Writer /\ Good(worker.copy)
      /\ (worker.at # "idle" => worker.seen \in States)
  BY DEF MetaInv, Worker, GoodWriter, Writer, Good
<1>b. UNCHANGED slack /\ UNCHANGED <<loop, entry, acks>>
  BY DEF WorkerStep, WorkerWrites, WorkerFinds, WorkerPuts, WorkerRefreshes, WorkerEnds
<1>c. Grows
  BY <1>a, <1>b, SlackStays
<1>d. Loop' /\ Entry' /\ Handlers' /\ announce' \in [Deliveries -> Events]
  BY <1>b, <1>c, PartsStay DEF acks, MetaInv
<1>e. ASSUME worker' \in Writer, Good(worker'.copy), worker'.seen \in States
      PROVE  Worker'
  BY <1>b, <1>e, GoesOn DEF Worker, GoodWriter, Named
<1>1. CASE WorkerWrites
  <2> DEFINE c == [worker.copy EXCEPT !.rest = TRUE]
  <2>1. Good(c)
    BY <1>a DEF Good, Named, Values
  <2>2. worker' = [worker EXCEPT !.at = "find", !.copy = c]
    BY <1>1, <1>a DEF WorkerWrites, Writer
  <2> HIDE DEF c
  <2>3. worker' \in Writer /\ worker'.copy = c /\ worker'.seen = worker.seen
    BY <1>a, <2>1, <2>2 DEF Writer, Good
  <2> QED BY <1>1, <1>a, <1>c, <1>d, <1>e, <2>1, <2>3, PartsStay DEF WorkerWrites, MetaInv, Grows
<1>2. CASE WorkerFinds
  <2>1. worker' \in Writer /\ worker'.copy = worker.copy /\ worker'.seen = worker.seen
    BY <1>2, <1>a, TargetIs DEF WorkerFinds, Writer
  <2>2. faults' \in Nat
    BY <1>2, <1>a DEF WorkerFinds, Calm, Trouble
  <2> QED BY <1>2, <1>a, <1>c, <1>d, <1>e, <2>1, <2>2, PartsStay DEF WorkerFinds, MetaInv, Grows
<1>3. CASE WorkerPuts
  <2>1. worker' \in Writer /\ worker'.copy = worker.copy /\ worker'.seen = worker.seen
    BY <1>3, <1>a DEF WorkerPuts, Writer
  <2>2. Board' /\ faults' \in Nat
    BY <1>3, <1>a, <1>c, PutsGood, PutsFaults DEF WorkerPuts, MetaInv, Worker
  <2> QED BY <1>3, <1>a, <1>c, <1>d, <1>e, <2>1, <2>2 DEF WorkerPuts, MetaInv, Grows
<1>4. CASE WorkerRefreshes
  <2> DEFINE c == Merge(worker.copy, Read)
  <2>1. Good(c) /\ board \in States
    BY <1>a, ReadGood, MergeGood DEF Board
  <2>2. worker' = [worker EXCEPT !.seen = board, !.copy = c]
    BY <1>4 DEF WorkerRefreshes
  <2> HIDE DEF c
  <2>3. worker' \in Writer /\ worker'.copy = c /\ worker'.seen = board
    BY <1>a, <2>1, <2>2 DEF Writer, Good
  <2> QED BY <1>4, <1>a, <1>c, <1>d, <1>e, <2>1, <2>3, PartsStay DEF WorkerRefreshes, MetaInv, Grows
<1>5. CASE WorkerEnds
  <2>1. PICK s \in {worker.seen} \cup Passive \cup Terminal :
          /\ worker' = [worker EXCEPT !.at = "done", !.seen = s]
          /\ board' = IF s = worker.seen THEN board ELSE s
    BY <1>5 DEF WorkerEnds
  <2>2. s \in States /\ board' \in States /\ base' \in Bases
    BY <1>5, <1>a, <2>1 DEF States, Board, WorkerEnds
  <2>3. worker' \in Writer /\ worker'.copy = worker.copy /\ worker'.seen = s
    BY <1>a, <2>1, <2>2 DEF Writer
  <2>4. Board'
    BY <1>5, <1>a, <1>c, <2>2, BoardStays DEF WorkerEnds
  <2> QED BY <1>5, <1>a, <1>c, <1>d, <1>e, <2>2, <2>3, <2>4 DEF WorkerEnds, MetaInv, Grows
<1> QED BY <1>1, <1>2, <1>3, <1>4, <1>5 DEF WorkerStep

LEMMA HandlerTypes ==
  ASSUME MetaInv, NEW d \in Deliveries, HandlerStep(d) \/ PostFails(d)
  PROVE  MetaInv'
<1>a. /\ Messages /\ faults \in Nat /\ Board /\ handler[d] \in Writer /\ Good(handler[d].copy)
      /\ DOMAIN handler = Deliveries
      /\ (handler[d].at \in {"work", "said"} => handler[d].seen \in States)
  BY DEF MetaInv, Handlers, Handles, GoodWriter, Writer, Good
<1>b. UNCHANGED slack /\ UNCHANGED <<loop, worker, entry, board, base, announce>>
  BY DEF HandlerStep, Fetched, Decide, Post, PostFails, HandlerFinds, HandlerPuts, linear
<1>c. Grows
  BY <1>a, <1>b, SlackStays
<1>d. Loop' /\ Entry' /\ Worker' /\ announce' \in [Deliveries -> Events]
  BY <1>b, <1>c, PartsStay DEF MetaInv
<1>e. ASSUME NEW r, Goes(d, r), r \in Writer, Good(r.copy),
             r.at \in {"work", "said"} => r.seen \in States
      PROVE  Handlers'
  <2>1. \A x \in Deliveries : GoodWriter(handler[x])'
    <3> SUFFICES ASSUME NEW x \in Deliveries
                 PROVE  GoodWriter(handler[x])'
      OBVIOUS
    <3>1. CASE x = d
      BY <3>1, <1>a, <1>b, <1>e, GoesOn DEF Goes, GoodWriter, Named
    <3>2. CASE x # d
      <4>1. handler'[x] = handler[x]
        BY <3>2, <1>a, <1>e DEF Goes
      <4> QED BY <4>1, <1>b DEF MetaInv, Handlers, Handles, GoodWriter, Named
    <3> QED BY <3>1, <3>2
  <2>2. \A x \in Deliveries : handler'[x].at \in {"work", "said"} => handler'[x].seen \in States
    BY <1>a, <1>e DEF Goes, MetaInv, Handlers, Handles
  <2>3. handler' \in [Deliveries -> Writer]
    <3>1. handler \in [Deliveries -> Writer] /\ handler' = [handler EXCEPT ![d] = r]
      BY <1>e DEF Goes, MetaInv, Handlers
    <3> QED BY <1>e, <3>1
  <2> QED BY <2>1, <2>2, <2>3 DEF Handlers, Handles
<1>f. ASSUME NEW at \in {"done"}, Goes(d, [AtRest EXCEPT !.at = at])
      PROVE  Handlers'
  <2> DEFINE r == [AtRest EXCEPT !.at = at]
  <2>1. r \in Writer /\ r.copy = Blank /\ r.at = "done"
    BY AtRestGood, BlankIs DEF AtRest, Writer, Good
  <2> HIDE DEF r
  <2> QED BY <1>e, <1>f, <2>1, BlankIs DEF r
<1>1. CASE Fetched(d)
  <2> DEFINE c == Read
             r == [AtRest EXCEPT !.at = "work", !.seen = board, !.copy = c]
  <2>1. Good(c) /\ board \in States
    BY <1>a, ReadGood DEF Board
  <2>2. Goes(d, r)
    BY <1>1 DEF Fetched
  <2> HIDE DEF c
  <2>3. r \in Writer /\ r.copy = c /\ r.seen = board
    BY <2>1, AtRestGood DEF Writer, Good, GoodWriter
  <2> HIDE DEF r
  <2>4. Handlers'
    BY <1>e, <2>1, <2>2, <2>3
  <2> QED BY <1>1, <1>a, <1>c, <1>d, <2>4, PartsStay DEF Fetched, MetaInv, Grows
<1>2. CASE Decide(d)
  <2> DEFINE state == handler[d].seen
             c == [handler[d].copy EXCEPT !.state = state, !.session = announce[d].session, !.rest = TRUE]
             r == [handler[d] EXCEPT !.at = "said", !.copy = c]
  <2>1. handler[d].at = "work" /\ state \in States
    BY <1>2, <1>a DEF Decide
  <2>2. Goes(d, r) \/ Goes(d, [AtRest EXCEPT !.at = "done"])
    <3>1. r = [handler[d] EXCEPT !.at = "said", !.copy.state = state,
                                 !.copy.session = announce[d].session, !.copy.rest = TRUE]
      BY <1>a DEF Writer
    <3> QED BY <1>2, <3>1 DEF Decide
  <2>3. announce[d].session \in Sessions \cup {NoSession}
    BY DEF MetaInv, Events
  <2>4. Good(c)
    BY <1>a, <2>1, <2>3 DEF Good, Named, Values
  <2> HIDE DEF c
  <2>5. r \in Writer /\ r.copy = c /\ r.seen = state
    BY <1>a, <2>4 DEF Writer, Good
  <2> HIDE DEF r, state
  <2>6. Handlers'
    BY <1>e, <1>f, <2>1, <2>2, <2>4, <2>5
  <2> QED BY <1>2, <1>a, <1>c, <1>d, <2>6, PartsStay DEF Decide, MetaInv, Grows
<1>3. CASE Post(d)
  <2> DEFINE r == [handler[d] EXCEPT !.at = "find"]
  <2>1. r \in Writer /\ r.copy = handler[d].copy /\ r.at = "find" /\ Goes(d, r)
    BY <1>3, <1>a DEF Writer, Post
  <2> HIDE DEF r
  <2>2. Handlers'
    BY <1>a, <1>e, <2>1
  <2> QED BY <1>3, <1>a, <1>c, <1>d, <2>2, PartsStay DEF Post, MetaInv, Grows
<1>4. CASE PostFails(d)
  <2>1. Handlers'
    BY <1>4, <1>f DEF PostFails
  <2>2. faults' \in Nat
    BY <1>4, <1>a DEF PostFails, Trouble
  <2> QED BY <1>4, <1>a, <1>c, <1>d, <2>1, <2>2, PartsStay DEF PostFails, MetaInv, Grows
<1>5. CASE HandlerFinds(d)
  <2> DEFINE r == [handler[d] EXCEPT !.at = "put", !.target = Target]
  <2>1. r \in Writer /\ r.copy = handler[d].copy /\ r.at = "put"
    BY <1>a, TargetIs DEF Writer
  <2>2. Goes(d, r) \/ Goes(d, [AtRest EXCEPT !.at = "done"])
    BY <1>5 DEF HandlerFinds
  <2> HIDE DEF r
  <2>3. Handlers'
    BY <1>a, <1>e, <1>f, <2>1, <2>2
  <2>4. faults' \in Nat
    BY <1>5, <1>a DEF HandlerFinds, Calm, Trouble
  <2> QED BY <1>5, <1>a, <1>c, <1>d, <2>3, <2>4, PartsStay DEF HandlerFinds, MetaInv, Grows
<1>6. CASE HandlerPuts(d)
  <2>1. Handlers'
    BY <1>6, <1>f DEF HandlerPuts
  <2>2. Board' /\ faults' \in Nat
    BY <1>6, <1>a, <1>c, PutsGood, PutsFaults DEF HandlerPuts, GoodWriter, MetaInv, Handlers, Handles
  <2> QED BY <1>6, <1>c, <1>d, <2>1, <2>2 DEF MetaInv, Grows
<1> QED BY <1>1, <1>2, <1>3, <1>4, <1>5, <1>6 DEF HandlerStep

LEMMA WorldTypes ==
  ASSUME MetaInv, (\E s \in States : Expire(s)) \/ Move \/ Delete \/ Rebase \/ Restart
  PROVE  MetaInv'
<1>a. Messages /\ faults \in Nat
  BY DEF MetaInv
<1>1. ASSUME NEW s \in States, Expire(s)
      PROVE  MetaInv'
  BY <1>1, <1>a, SlackStays, PartsStay DEF Expire, MetaInv, Grows
<1>2. CASE Move
  <2>1. Grows
    BY <1>2, <1>a, SlackStays DEF Move
  <2>2. Board'
    BY <1>2, <2>1, BoardStays DEF Move, MetaInv, Board
  <2>3. faults' \in Nat
    BY <1>2, <1>a DEF Move, Trouble
  <2> QED BY <1>2, <2>1, <2>2, <2>3, PartsStay DEF Move, MetaInv, Grows, acks
<1>3. CASE Delete
  <2>1. Grows
    BY <1>3, <1>a, MetadataAssumption DEF Delete, MetadataAssumption, Grows, Messages
  <2>2. faults' \in Nat
    BY <1>3, <1>a DEF Delete, Trouble
  <2> QED BY <1>3, <2>1, <2>2, PartsStay DEF Delete, MetaInv, Grows, acks
<1>4. CASE Rebase
  <2>1. Grows
    BY <1>4, <1>a, SlackStays DEF Rebase
  <2>2. Board'
    BY <1>4, <2>1, BoardStays DEF Rebase, MetaInv, Board
  <2>3. faults' \in Nat
    BY <1>4, <1>a DEF Rebase, Trouble
  <2> QED BY <1>4, <2>1, <2>2, <2>3, PartsStay DEF Rebase, MetaInv, Grows, acks
<1>5. CASE Restart
  <2>1. Grows
    BY <1>5, <1>a, SlackStays DEF Restart
  <2>2. Loop' /\ Worker' /\ Entry'
    BY <1>5, AtRestGood, BlankIs
    DEF Restart, Loop, Worker, Entry, NoEntry, AtRest, GoodWriter, Named, Blank, Good
  <2>3. \A d \in Deliveries : handler'[d] = AtRest \/ handler'[d] = [AtRest EXCEPT !.at = "done"]
    BY <1>5 DEF Restart
  <2>4. Handlers'
    <3> DEFINE r == [AtRest EXCEPT !.at = "done"]
    <3>1. r \in Writer /\ r.copy = Blank /\ r.at = "done"
      BY AtRestGood, BlankIs DEF AtRest, Writer, Good
    <3>2. AtRest \in Writer /\ AtRest.copy = Blank /\ AtRest.at = "idle"
      BY AtRestGood DEF AtRest, GoodWriter
    <3>3. \A d \in Deliveries : handler'[d] \in Writer /\ handler'[d].copy = Blank
                               /\ handler'[d].at \in {"idle", "done"}
      <4> HIDE DEF r
      <4> QED BY <2>3, <3>1, <3>2 DEF r
    <3>4. handler' \in [Deliveries -> Writer]
      <4>1. handler' = [d \in Deliveries |-> handler'[d]]
        BY <1>5 DEF Restart
      <4> QED BY <3>3, <4>1
    <3> QED BY <3>3, <3>4 DEF Handlers, Handles, GoodWriter, Named, Blank
  <2>5. faults' \in Nat
    BY <1>5, <1>a DEF Restart, Trouble
  <2> QED BY <1>5, <2>1, <2>2, <2>4, <2>5, PartsStay DEF Restart, MetaInv, Grows
<1> QED BY <1>1, <1>2, <1>3, <1>4, <1>5

LEMMA MetaStarts ==
  ASSUME MetaInit
  PROVE  MetaInv
<1>1. Board
  BY DEF MetaInit, Board, States
<1>2. Messages
  BY DEF MetaInit, Messages
<1>3. GoodWriter(AtRest) /\ AtRest.at = "idle" /\ ~AtRest.sync
  BY AtRestGood
<1>4. Loop /\ Worker
  BY <1>3 DEF MetaInit, Loop, Worker
<1>5. Entry
  BY BlankIs DEF MetaInit, Entry, NoEntry, Good
<1>6. Handlers
  BY <1>3 DEF MetaInit, Handlers, Handles, GoodWriter
<1> QED BY <1>1, <1>2, <1>4, <1>5, <1>6, MetadataAssumption DEF MetaInit, MetaInv, MetadataAssumption

LEMMA MetaKeeps ==
  ASSUME MetaInv, [MetaNext]_metaVars
  PROVE  MetaInv'
<1>1. CASE MetaNext
  <2>1. LoopStep => Tick \/ SyncSame \/ SyncUpdates \/ SyncPosts
                    \/ LoopFinds \/ LoopPuts \/ Comment \/ Dispatch \/ Exit
    BY DEF LoopStep
  <2> QED BY <1>1, <2>1, SyncTypes, LoopTypes, WorkerTypes, HandlerTypes, WorldTypes DEF MetaNext
<1>2. CASE UNCHANGED metaVars
  <2>1. Grows /\ UNCHANGED <<linear, loop, worker, entry, handler, announce, faults>>
    BY <1>2, SlackStays DEF metaVars, acks, MetaInv
  <2> QED BY <2>1, PartsStay DEF MetaInv, Grows
<1> QED BY <1>1, <1>2

LEMMA MetaInvariant == MetaSpec => []MetaInv
BY MetaStarts, MetaKeeps, PTL DEF MetaSpec

-----------------------------------------------------------------------------
(* A write lands.                                                          *)

LEMMA PutLands ==
  ASSUME Board, faults \in Nat, faults' = faults, NEW w, GoodWriter(w), Puts(w)
  PROVE  Fill(w.copy, Read') = Read'
<1>1. w \in Writer /\ w.copy \in Values
  BY DEF GoodWriter, Writer
<1>2. ~Trouble
  BY DEF Trouble
<1>3. PICK b \in Destination(w) : attachments' = WithValue(b, w.copy)
  BY <1>1, <1>2, DestinationIs DEF Puts
<1>4. b \in Bases
  BY <1>1, DestinationIs
<1> QED BY <1>1, <1>3, <1>4, ReadsBack

(* Without trouble, one who is about to write moves only by its write.     *)
LEMMA LoopWrites ==
  ASSUME MetaNext, faults \in Nat, faults' = faults, loop.at = "put", loop' # loop
  PROVE  Puts(loop)
<1>1. ~Trouble
  BY DEF Trouble
<1>2. LoopStep
  BY <1>1 DEF MetaNext, SyncFails, WorkerStep, WorkerWrites, WorkerFinds, WorkerPuts,
     WorkerRefreshes, WorkerEnds, HandlerStep, Fetched, Decide, Post, PostFails, HandlerFinds,
     HandlerPuts, Expire, Move, Delete, Rebase, Restart
<1> QED BY <1>2 DEF LoopStep, Tick, SyncSame, SyncUpdates, SyncPosts, LoopFinds, LoopPuts,
                    Comment, Dispatch, Exit

LEMMA WorkerLands ==
  ASSUME MetaNext, faults \in Nat, faults' = faults, worker.at = "put", worker' # worker
  PROVE  Puts(worker)
<1>1. ~Trouble
  BY DEF Trouble
<1>2. WorkerStep
  BY <1>1 DEF MetaNext, SyncFails, LoopStep, Tick, SyncSame, SyncUpdates, SyncPosts, LoopFinds,
     LoopPuts, Comment, Dispatch, Exit, HandlerStep, Fetched, Decide, Post, PostFails,
     HandlerFinds, HandlerPuts, Expire, Move, Delete, Rebase, Restart
<1> QED BY <1>2 DEF WorkerStep, WorkerWrites, WorkerFinds, WorkerPuts, WorkerRefreshes, WorkerEnds

LEMMA HandlerLands ==
  ASSUME MetaNext, Handlers, faults \in Nat, faults' = faults, NEW d \in Deliveries,
         handler[d].at = "put", handler'[d] # handler[d]
  PROVE  Puts(handler[d])
<1>1. ~Trouble
  BY DEF Trouble
<1>2. PICK e \in Deliveries : HandlerStep(e)
  BY <1>1 DEF MetaNext, SyncFails, LoopStep, Tick, SyncSame, SyncUpdates, SyncPosts, LoopFinds,
     LoopPuts, Comment, Dispatch, Exit, WorkerStep, WorkerWrites, WorkerFinds, WorkerPuts,
     WorkerRefreshes, WorkerEnds, PostFails, Expire, Move, Delete, Rebase, Restart, acks
<1>3. PICK r : Goes(e, r)
  BY <1>2 DEF HandlerStep, Fetched, Decide, Post, HandlerFinds, HandlerPuts
<1>4. e = d
  BY <1>3 DEF Goes, Handlers
<1> QED BY <1>2, <1>4 DEF HandlerStep, Fetched, Decide, Post, HandlerFinds, HandlerPuts

(* WriteLands: unless a call fails, a value that was written is in Linear  *)
(* and is what is read next, whoever created the attachment meanwhile and  *)
(* however many others the issue has (UpsertIssueMetadata,                 *)
(* selectCanonicalMetadataAttachment).                                     *)
THEOREM WriteLandsHolds == MetaSpec => WriteLands
<1> DEFINE Lands == faults' = faults =>
             /\ Landed(loop, loop') /\ Landed(worker, worker')
             /\ \A d \in Deliveries : Landed(handler[d], handler'[d])
<1>1. ASSUME MetaInv, [MetaNext]_metaVars
      PROVE  [Lands]_metaVars
  <2> SUFFICES ASSUME MetaNext, faults' = faults
               PROVE  /\ Landed(loop, loop') /\ Landed(worker, worker')
                      /\ \A d \in Deliveries : Landed(handler[d], handler'[d])
    BY <1>1
  <2>a. Board /\ faults \in Nat /\ Handlers
    BY <1>1 DEF MetaInv
  <2>1. Landed(loop, loop')
    BY <1>1, <2>a, LoopWrites, PutLands DEF Landed, MetaInv, Loop
  <2>2. Landed(worker, worker')
    BY <1>1, <2>a, WorkerLands, PutLands DEF Landed, MetaInv, Worker
  <2>3. ASSUME NEW d \in Deliveries
        PROVE  Landed(handler[d], handler'[d])
    BY <2>a, HandlerLands, PutLands DEF Landed, Handlers, Handles
  <2> QED BY <2>1, <2>2, <2>3
<1>2. MetaSpec => []MetaInv
  BY MetaInvariant
<1> QED BY <1>1, <1>2, PTL DEF MetaSpec, WriteLands

-----------------------------------------------------------------------------
(* One message while a worker runs.                                        *)

(* The sync knows a message if the entry does, and what is left of the     *)
(* sync after a worker's end meets no entry.                               *)
SyncKnows ==
  /\ loop.sync => ~entry.running /\ loop.at # "idle"
  /\ loop.at = "sync" /\ entry.running /\ entry.copy.message # 0 => loop.copy.message # 0

LEMMA SyncKnowsKept ==
  ASSUME MetaInv, SyncKnows, [MetaNext]_metaVars
  PROVE  SyncKnows'
<1>a. loop \in Writer /\ loop.copy \in Values /\ Good(entry.copy)
  BY DEF MetaInv, Loop, Entry, GoodWriter, Writer, Good
<1>b. AtRest.at = "idle" /\ ~AtRest.sync
  BY DEF AtRest
<1>1. CASE UNCHANGED <<loop, entry>>
  BY <1>1 DEF SyncKnows
<1>2. CASE loop' = AtRest
  BY <1>2, <1>b DEF SyncKnows
<1>3. CASE Tick
  <2>1. loop'.copy = Known(Read) /\ ~loop'.sync /\ UNCHANGED entry
    BY <1>3 DEF Tick, AtRest
  <2>2. Good(Read)
    BY ReadGood DEF MetaInv
  <2>3. entry.running /\ entry.copy.message # 0 => Known(Read).message # 0
    BY <1>a, <2>2 DEF Known, Merge, Fill, Good, Values
  <2> QED BY <2>1, <2>3 DEF SyncKnows
<1>4. CASE SyncUpdates \/ SyncPosts
  <2>1. UNCHANGED entry /\ loop'.at = "find" /\ loop'.sync = loop.sync
    BY <1>4, <1>a DEF SyncUpdates, SyncPosts, Persist, Writer
  <2> QED BY <2>1 DEF SyncKnows
<1>5. CASE LoopFinds
  <2>1. CASE loop' = [loop EXCEPT !.at = "put", !.target = Target] /\ UNCHANGED entry
    BY <2>1, <1>a DEF Writer, SyncKnows
  <2> QED BY <1>2, <1>5, <2>1 DEF LoopFinds, Rest
<1>6. CASE LoopPuts
  <2>1. CASE loop.sync
    <3>1. UNCHANGED entry /\ ~loop'.sync
      BY <1>6, <2>1 DEF LoopPuts, AtRest
    <3> QED BY <2>1, <3>1 DEF SyncKnows
  <2> QED BY <1>2, <1>6, <2>1 DEF LoopPuts, Rest
<1>7. CASE Comment
  BY <1>7 DEF Comment, AtRest, SyncKnows
<1>8. CASE Dispatch
  BY <1>8 DEF Dispatch, SyncKnows
<1>9. CASE Exit
  <2>1. ~entry'.running
    BY <1>9 DEF Exit, NoEntry
  <2>2. loop'.sync => loop'.at # "idle"
    <3> DEFINE result == [AtRest EXCEPT !.seen = worker.seen, !.copy = Merge(entry.copy, worker.copy)]
    <3>1. PICK writes \in BOOLEAN, syncs \in BOOLEAN :
            loop' = CASE writes -> [result EXCEPT !.at = "find", !.sync = syncs, !.copy.rest = TRUE]
                      [] ~writes /\ syncs -> [result EXCEPT !.at = "sync"]
                      [] OTHER -> AtRest
      BY <1>9 DEF Exit
    <3>2. CASE writes
      BY <3>1, <3>2 DEF AtRest
    <3>3. CASE ~writes /\ syncs
      BY <3>1, <3>3 DEF AtRest
    <3>4. CASE ~writes /\ ~syncs
      BY <3>1, <3>4, <1>b
    <3> QED BY <3>2, <3>3, <3>4
  <2> QED BY <2>1, <2>2 DEF SyncKnows
<1>10. ASSUME MetaNext
       PROVE  \/ UNCHANGED <<loop, entry>> \/ loop' = AtRest
              \/ Tick \/ SyncUpdates \/ SyncPosts \/ LoopFinds \/ LoopPuts
              \/ Comment \/ Dispatch \/ Exit
  <2>1. CASE LoopStep
    BY <2>1 DEF LoopStep, SyncSame, Rest
  <2>2. CASE SyncFails \/ Restart
    BY <2>2 DEF SyncFails, Restart, Rest
  <2>3. CASE WorkerStep
    BY <2>3 DEF WorkerStep, WorkerWrites, WorkerFinds, WorkerPuts, WorkerRefreshes, WorkerEnds
  <2>4. CASE \E d \in Deliveries : HandlerStep(d) \/ PostFails(d)
    BY <2>4 DEF HandlerStep, Fetched, Decide, Post, PostFails, HandlerFinds, HandlerPuts
  <2>5. CASE (\E s \in States : Expire(s)) \/ Move \/ Delete \/ Rebase
    BY <2>5 DEF Expire, Move, Delete, Rebase
  <2> QED BY <1>10, <2>1, <2>2, <2>3, <2>4, <2>5 DEF MetaNext
<1>11. CASE UNCHANGED metaVars
  BY <1>1, <1>11 DEF metaVars
<1> QED BY <1>1, <1>2, <1>3, <1>4, <1>5, <1>6, <1>7, <1>8, <1>9, <1>10, <1>11

LEMMA PostsWhen ==
  ASSUME MetaInv, MetaNext, Posts
  PROVE  loop.at = "sync" /\ ~Updatable(loop.copy)
<1>1. SyncUpdates \/ SyncPosts \/ SyncFails \/ Delete \/ UNCHANGED slack
  <2>1. CASE LoopStep
    BY <2>1 DEF LoopStep, Tick, SyncSame, LoopFinds, LoopPuts, Comment, Dispatch, Exit
  <2>2. CASE WorkerStep
    BY <2>2 DEF WorkerStep, WorkerWrites, WorkerFinds, WorkerPuts, WorkerRefreshes, WorkerEnds
  <2>3. CASE \E d \in Deliveries : HandlerStep(d) \/ PostFails(d)
    BY <2>3 DEF HandlerStep, Fetched, Decide, Post, PostFails, HandlerFinds, HandlerPuts
  <2>4. CASE (\E s \in States : Expire(s)) \/ Move \/ Rebase \/ Restart
    BY <2>4 DEF Expire, Move, Rebase, Restart
  <2> QED BY <2>1, <2>2, <2>3, <2>4 DEF MetaNext
<1>2. PICK m \in 1 .. MaxMessages : slack[m] = "none" /\ slack'[m] # "none"
  BY DEF Posts
<1>3. slack \in [1 .. MaxMessages -> States \cup {"none", "deleted"}]
  BY DEF MetaInv, Messages
<1>4. ~Delete
  BY <1>2, <1>3, MetadataAssumption DEF Delete, MetadataAssumption
<1>5. ~(Updatable(loop.copy) /\ Shows(loop.copy.message))
  BY <1>2, <1>3, UpdatableIs DEF Shows
<1> QED BY <1>1, <1>2, <1>4, <1>5 DEF SyncUpdates, SyncPosts, SyncFails

(* OneMessageWhileRunning: while a worker runs whose entry knows a message *)
(* another is posted only when the one of the sync was deleted             *)
(* (mergeKnownSlackIssueContext).                                          *)
THEOREM OneMessageHolds == MetaSpec => OneMessageWhileRunning
<1> DEFINE A == Posts /\ entry.running /\ entry.copy.message # 0 =>
                  loop.copy.message # 0 /\ slack[loop.copy.message] = "deleted"
<1>1. MetaInit => SyncKnows
  BY DEF MetaInit, SyncKnows, NoEntry, AtRest
<1>2. ASSUME MetaInv, SyncKnows, [MetaNext]_metaVars
      PROVE  [A]_metaVars
  BY <1>2, PostsWhen DEF SyncKnows, Updatable
<1>3. MetaSpec => []MetaInv
  BY MetaInvariant
<1> QED BY <1>1, <1>2, <1>3, SyncKnowsKept, PTL DEF MetaSpec, OneMessageWhileRunning

-----------------------------------------------------------------------------
(* A delegation is acknowledged once.                                      *)

Says(d) == handler[d].at = "said" /\ announce[d].source
AcksInv ==
  /\ hist \in [States -> {0, 1}] /\ reserved \subseteq States
  /\ \A s \in States : hist[s] = 1 => s \in reserved
  /\ \A d \in Deliveries : Says(d) => handler[d].seen \in reserved /\ hist[handler[d].seen] = 0
  /\ \A d, e \in Deliveries : Says(d) /\ Says(e) /\ handler[d].seen = handler[e].seen => d = e

LEMMA AcksKept ==
  ASSUME MetaInv, AcksInv, [MetaNext]_metaVars
  PROVE  AcksInv'
<1>1. CASE UNCHANGED acks
  BY <1>1 DEF AcksInv, Says, acks
<1>2. ASSUME NEW d \in Deliveries, HandlerStep(d) \/ PostFails(d)
      PROVE  AcksInv'
  <2>a. /\ UNCHANGED announce /\ DOMAIN handler = Deliveries /\ handler[d] \in Writer
        /\ (handler[d].at \in {"work", "said"} => handler[d].seen \in States)
        /\ announce[d].source \in BOOLEAN
    BY <1>2 DEF MetaInv, Handlers, Handles, GoodWriter, Events, HandlerStep, Fetched, Decide, Post,
       PostFails, HandlerFinds, HandlerPuts
  <2>b. PICK r : Goes(d, r)
    BY <1>2 DEF HandlerStep, Fetched, Decide, Post, PostFails, HandlerFinds, HandlerPuts
  <2>c. handler'[d] = r /\ \A e \in Deliveries : e # d => handler'[e] = handler[e]
    BY <2>a, <2>b DEF Goes
  <2>d. \A e \in Deliveries : e # d => (Says(e)' <=> Says(e)) /\ handler'[e].seen = handler[e].seen
    BY <2>a, <2>c DEF Says
  <2>1. CASE ~Says(d)' /\ UNCHANGED <<reserved, hist>>
    BY <2>1, <2>a, <2>c, <2>d DEF AcksInv
  <2>2. CASE Fetched(d) \/ HandlerFinds(d) \/ HandlerPuts(d)
    <3>1. handler'[d].at # "said" /\ UNCHANGED <<reserved, hist>>
      BY <2>2, <2>a DEF Fetched, HandlerFinds, HandlerPuts, Goes, AtRest, Writer
    <3> QED BY <2>1, <3>1 DEF Says
  <2>3. CASE Decide(d)
    <3>1. CASE ~Says(d)' /\ UNCHANGED reserved
      BY <2>1, <2>3, <3>1 DEF Decide
    <3> DEFINE state == handler[d].seen
    <3>2. state \in States /\ UNCHANGED hist
      BY <2>3, <2>a DEF Decide
    <3>3. CASE state \notin reserved /\ Reserves(d) /\ handler'[d].at = "said" /\ handler'[d].seen = state
      <4>1. CASE announce[d].source
        <5>1. reserved' = reserved \cup {state}
          BY <3>3, <4>1 DEF Reserves
        <5>2. hist[state] = 0
          BY <3>2, <3>3 DEF AcksInv
        <5>3. Says(d)'
          BY <3>3, <4>1, <2>a DEF Says
        <5>4. \A e \in Deliveries : e # d /\ Says(e)' =>
                handler'[e].seen \in reserved /\ handler'[e].seen # state
                /\ hist[handler'[e].seen] = 0
          BY <2>d, <3>3 DEF AcksInv
        <5>5. \A e, f \in Deliveries : e # d /\ f # d /\ Says(e)' /\ Says(f)'
                                       /\ handler'[e].seen = handler'[f].seen => e = f
          BY <2>d DEF AcksInv
        <5> QED BY <3>2, <3>3, <5>1, <5>2, <5>3, <5>4, <5>5 DEF AcksInv
      <4>2. CASE ~announce[d].source
        BY <3>1, <3>3, <4>2, <2>a DEF Reserves, Says
      <4> QED BY <4>1, <4>2
    <3>4. \/ state \notin reserved /\ Reserves(d) /\ handler'[d].at = "said" /\ handler'[d].seen = state
          \/ handler'[d].at # "said" /\ UNCHANGED reserved
      <4>1. CASE /\ state \notin reserved /\ Reserves(d)
                 /\ Goes(d, [handler[d] EXCEPT !.at = "said", !.copy.state = state,
                                               !.copy.session = announce[d].session, !.copy.rest = TRUE])
        BY <4>1, <2>a DEF Goes, Writer
      <4>2. CASE Goes(d, [AtRest EXCEPT !.at = "done"]) /\ UNCHANGED reserved
        BY <4>2, <2>a DEF Goes, AtRest
      <4> QED BY <2>3, <4>1, <4>2 DEF Decide
    <3> QED BY <3>1, <3>3, <3>4 DEF Says
  <2>4. CASE Post(d) \/ PostFails(d)
    <3> DEFINE state == handler[d].seen
    <3>1. ~Says(d)' /\ state \in States
      BY <2>4, <2>a DEF Post, PostFails, Goes, AtRest, Writer, Says
    <3>2. CASE ~announce[d].source
      BY <2>1, <2>4, <3>1, <3>2 DEF Post, PostFails, Holder, Freed
    <3>3. CASE announce[d].source
      <4>1. Says(d) /\ state \in reserved /\ hist[state] = 0
        BY <2>4, <3>3 DEF Post, PostFails, Says, AcksInv
      <4>2. \A e \in Deliveries : Says(e)' =>
              e # d /\ handler'[e].seen \in reserved /\ handler'[e].seen # state
              /\ hist[handler'[e].seen] = 0
        BY <2>d, <3>1, <4>1 DEF AcksInv
      <4>3. \A e, f \in Deliveries : Says(e)' /\ Says(f)' /\ handler'[e].seen = handler'[f].seen => e = f
        BY <2>d, <3>1 DEF AcksInv
      <4>4. \/ hist' = [hist EXCEPT ![state] = @ + 1] /\ UNCHANGED reserved
            \/ hist' = [hist EXCEPT ![state] = 0] /\ reserved' = reserved \ {state}
        BY <2>4, <3>3 DEF Post, PostFails, Holder, Freed
      <4>5. /\ hist' \in [States -> {0, 1}] /\ reserved' \subseteq States
            /\ \A s \in States : hist'[s] = 1 => s \in reserved'
            /\ \A s \in States \ {state} : hist'[s] = hist[s] /\ (s \in reserved => s \in reserved')
        BY <3>1, <4>1, <4>4 DEF AcksInv
      <4>6. \A e \in Deliveries : Says(e)' => handler'[e].seen \in reserved' /\ hist'[handler'[e].seen] = 0
        BY <4>2, <4>5 DEF AcksInv
      <4> QED BY <4>3, <4>5, <4>6 DEF AcksInv
    <3> QED BY <3>2, <3>3, <2>a
  <2> QED BY <1>2, <2>2, <2>3, <2>4 DEF HandlerStep
<1>3. ASSUME NEW s \in States, Expire(s)
      PROVE  AcksInv'
  <2>1. \A d \in Deliveries : Says(d) => handler[d].seen # s
    BY <1>3 DEF Expire, Says, Holder
  <2> QED BY <1>3, <2>1 DEF Expire, AcksInv, Says
<1>4. CASE Restart
  <2>1. \A d \in Deliveries : handler'[d].at # "said"
    BY <1>4 DEF Restart, AtRest
  <2> QED BY <1>4, <2>1 DEF Restart, AcksInv, Says
<1>5. ASSUME MetaNext, ~Restart, ~\E s \in States : Expire(s),
             ~\E d \in Deliveries : HandlerStep(d) \/ PostFails(d)
      PROVE  UNCHANGED acks
  BY <1>5 DEF MetaNext, LoopStep, Tick, SyncSame, SyncUpdates, SyncPosts, SyncFails, LoopFinds,
     LoopPuts, Comment, Dispatch, Exit, WorkerStep, WorkerWrites, WorkerFinds, WorkerPuts,
     WorkerRefreshes, WorkerEnds, Move, Delete, Rebase
<1>6. CASE UNCHANGED metaVars
  BY <1>1, <1>6 DEF metaVars
<1> QED BY <1>1, <1>2, <1>3, <1>4, <1>5, <1>6

(* AnsweredOnce: any number of deliveries that answer a comment about the  *)
(* same delegation are answered once while its reservation lasts           *)
(* (reserveDelegationAcknowledgement).                                     *)
THEOREM AnsweredOnceHolds == MetaSpec => []AnsweredOnce
<1>1. MetaInit => AcksInv
  BY DEF MetaInit, AcksInv, Says, AtRest
<1>2. AcksInv => AnsweredOnce
  BY DEF AcksInv, AnsweredOnce
<1>3. MetaSpec => []MetaInv
  BY MetaInvariant
<1> QED BY <1>1, <1>2, <1>3, AcksKept, PTL DEF MetaSpec

-----------------------------------------------------------------------------
(* The types of the metadata's variables.                                  *)

Unique == \A i, j \in DOMAIN attachments : attachments[i].base = attachments[j].base => i = j

LEMMA WithoutUnique ==
  ASSUME attachments \in Seq(Attached), Unique, NEW b
  PROVE  /\ \A i \in DOMAIN Without(b) : Without(b)[i].base # b
         /\ \A i, j \in DOMAIN Without(b) : Without(b)[i].base = Without(b)[j].base => i = j
<1>1. CASE ~Exists(b)
  BY <1>1 DEF Without, Exists, Unique
<1>2. CASE Exists(b)
  <2> DEFINE n == Len(attachments)
             p == Place(b)
             at(i) == IF i < p THEN i ELSE i + 1
             f == [i \in 1 .. n - 1 |-> attachments[IF i < p THEN i ELSE i + 1]]
  <2>1. n \in Nat /\ DOMAIN attachments = 1 .. n
    OBVIOUS
  <2>2. p \in 1 .. n /\ attachments[p].base = b
    BY <1>2, <2>1 DEF Exists, Place
  <2> HIDE DEF n, p
  <2>3. \A i \in 1 .. n - 1 : at(i) \in 1 .. n /\ at(i) # p /\ f[i] = attachments[at(i)]
    BY <2>1, <2>2
  <2>4. \A i, j \in 1 .. n - 1 : at(i) = at(j) => i = j
    BY <2>1, <2>2
  <2>5. DOMAIN f = 1 .. n - 1 /\ Without(b) = f
    BY <1>2 DEF Without, n, p
  <2> HIDE DEF f, at
  <2>6. \A i \in 1 .. n - 1 : f[i].base # b
    BY <2>1, <2>2, <2>3 DEF Unique
  <2>7. \A i, j \in 1 .. n - 1 : f[i].base = f[j].base => i = j
    BY <2>1, <2>3, <2>4 DEF Unique
  <2> QED BY <2>5, <2>6, <2>7
<1> QED BY <1>1, <1>2

LEMMA WithValueUnique ==
  ASSUME attachments \in Seq(Attached), Unique, NEW b \in Bases, NEW v \in Values,
         attachments' = WithValue(b, v)
  PROVE  Unique'
<1> DEFINE s == Without(b)
           e == [base |-> b, value |-> v]
<1>1. /\ s \in Seq(Attached) /\ \A i \in DOMAIN s : s[i].base # b
      /\ \A i, j \in DOMAIN s : s[i].base = s[j].base => i = j
  BY WithoutIs, WithoutUnique
<1>2. e \in Attached /\ e.base = b /\ attachments' = Append(s, e)
  BY DEF Attached, WithValue
<1> HIDE DEF s, e
<1>3. Len(s) \in Nat /\ DOMAIN s = 1 .. Len(s) /\ DOMAIN Append(s, e) = 1 .. Len(s) + 1
  BY <1>1, <1>2
<1>4. \A i \in 1 .. Len(s) + 1 : Append(s, e)[i] = IF i = Len(s) + 1 THEN e ELSE s[i]
  BY <1>1, <1>2, <1>3
<1> QED BY <1>1, <1>2, <1>3, <1>4 DEF Unique

LEMMA MetaMoves ==
  ASSUME MetaInv, [MetaNext]_metaVars
  PROVE  /\ UNCHANGED announce
         /\ UNCHANGED faults \/ Trouble
         /\ \/ UNCHANGED attachments
            \/ \E b \in Bases, v \in Values : attachments' = WithValue(b, v)
<1>a. ASSUME NEW w, GoodWriter(w), Puts(w)
      PROVE  /\ UNCHANGED faults \/ Trouble
             /\ \/ UNCHANGED attachments
                \/ \E b \in Bases, v \in Values : attachments' = WithValue(b, v)
  <2>1. w \in Writer /\ w.copy \in Values /\ Destination(w) \subseteq Bases
    BY <1>a, DestinationIs DEF GoodWriter, Writer, MetaInv
  <2> QED BY <1>a, <2>1 DEF Puts, Calm
<1>b. /\ GoodWriter(loop) /\ GoodWriter(worker)
      /\ \A d \in Deliveries : GoodWriter(handler[d])
  BY DEF MetaInv, Loop, Worker, Handlers, Handles
<1>1. CASE LoopStep \/ SyncFails
  BY <1>1, <1>a, <1>b DEF LoopStep, Tick, SyncSame, SyncUpdates, SyncPosts, SyncFails, LoopFinds, LoopPuts,
     Comment, Dispatch, Exit, linear, acks
<1>2. CASE WorkerStep
  BY <1>2, <1>a, <1>b DEF WorkerStep, WorkerWrites, WorkerFinds, WorkerPuts, WorkerRefreshes, WorkerEnds,
     linear, acks, Calm
<1>3. ASSUME NEW d \in Deliveries, HandlerStep(d) \/ PostFails(d)
      PROVE  /\ UNCHANGED announce
             /\ UNCHANGED faults \/ Trouble
             /\ \/ UNCHANGED attachments
                \/ \E b \in Bases, v \in Values : attachments' = WithValue(b, v)
  BY <1>3, <1>a, <1>b DEF HandlerStep, Fetched, Decide, Post, PostFails, HandlerFinds, HandlerPuts, linear, Calm
<1>4. CASE (\E s \in States : Expire(s)) \/ Move \/ Delete \/ Rebase \/ Restart
  BY <1>4 DEF Expire, Move, Delete, Rebase, Restart, linear, acks
<1>5. CASE UNCHANGED metaVars
  BY <1>5 DEF metaVars, linear, acks
<1> QED BY <1>1, <1>2, <1>3, <1>4, <1>5 DEF MetaNext

(* MetaTypeOK: every copy and every attachment is a value, and however     *)
(* many goroutines create one, an issue has one attachment for a base URL  *)
(* (UpsertIssueMetadata).                                                  *)
THEOREM MetaTypes == MetaSpec => []MetaTypeOK
<1> DEFINE Inv == Unique /\ faults \in 0 .. Faults /\ announce \in Announced
<1>1. MetaInit => Inv /\ AcksInv
  BY MetadataAssumption DEF MetadataAssumption, MetaInit, Unique, AcksInv, Says, AtRest
<1>2. ASSUME MetaInv, Inv, [MetaNext]_metaVars
      PROVE  Inv'
  <2>1. Unique'
    <3>1. attachments \in Seq(Attached)
      BY <1>2 DEF MetaInv, Board
    <3>2. CASE UNCHANGED attachments
      BY <1>2, <3>2 DEF Unique
    <3> QED BY <1>2, <3>1, <3>2, MetaMoves, WithValueUnique
  <2>2. faults' \in 0 .. Faults
    BY <1>2, MetaMoves, MetadataAssumption DEF MetadataAssumption, Trouble
  <2> QED BY <1>2, <2>1, <2>2, MetaMoves
<1>3. MetaInv /\ AcksInv /\ Inv => MetaTypeOK
  <2>1. AcksInv => hist \in [States -> Nat] /\ reserved \subseteq States
    BY DEF AcksInv
  <2>2. MetaInv => handler \in [Deliveries -> Writer] /\ loop \in Writer /\ worker \in Writer
                   /\ entry \in [running : BOOLEAN, copy : Values]
    BY DEF MetaInv, Handlers, Loop, Worker, Entry, GoodWriter
  <2> QED BY <2>1, <2>2 DEF MetaInv, Board, Messages, Attached, Unique, MetaTypeOK
<1> QED BY <1>1, <1>2, <1>3, MetaInvariant, AcksKept, PTL DEF MetaSpec

-----------------------------------------------------------------------------
-----------------------------------------------------------------------------
(* The setup (SetupWizard).                                                *)

(* The steps of the setup and their numbers.                               *)

LEMMA NumberIs ==
  /\ \A s \in StepNames : Number(s) \in 1 .. 14 /\ WizardSteps[Number(s)] = s
  /\ \A i \in 1 .. 14 : WizardSteps[i] \in StepNames /\ Number(WizardSteps[i]) = i
<1>1. DOMAIN WizardSteps = 1 .. 14
  BY DEF WizardSteps
<1>2. \A i, j \in 1 .. 14 : WizardSteps[i] = WizardSteps[j] => i = j
  BY DEF WizardSteps
<1>3. \A s \in StepNames : Number(s) \in 1 .. 14 /\ WizardSteps[Number(s)] = s
  BY <1>1 DEF StepNames, Number
<1>4. \A i \in 1 .. 14 : WizardSteps[i] \in StepNames
  BY <1>1 DEF StepNames
<1> QED BY <1>2, <1>3, <1>4

LEMMA NumbersAre ==
  /\ Number("Intro") = 1 /\ Number("LinearAPIKey") = 2 /\ Number("GitHubToken") = 3
  /\ Number("ProjectSlug") = 4 /\ Number("Webhook") = 11 /\ Number("WebhookPort") = 12
  /\ Number("Review") = 13 /\ Number("Success") = 14
<1>1. /\ WizardSteps[1] = "Intro" /\ WizardSteps[2] = "LinearAPIKey" /\ WizardSteps[3] = "GitHubToken"
      /\ WizardSteps[4] = "ProjectSlug" /\ WizardSteps[11] = "Webhook" /\ WizardSteps[12] = "WebhookPort"
      /\ WizardSteps[13] = "Review" /\ WizardSteps[14] = "Success"
  BY DEF WizardSteps
<1> QED BY <1>1, NumberIs

LEMMA NamesAre ==
  /\ {"Intro", "LinearAPIKey", "GitHubToken", "ProjectSlug", "Webhook", "WebhookPort",
      "Review", "Success"} \subseteq StepNames
  /\ TextSteps \subseteq StepNames /\ "LinearAPIKey" \in TextSteps
  /\ "ProjectSlug" \in TextSteps \ Secrets /\ "WebhookPort" \in TextSteps \ Secrets
  /\ \A s, t \in StepNames : Number(s) = Number(t) => s = t
<1>1. {"Intro", "LinearAPIKey", "GitHubToken", "ProjectSlug", "Webhook", "WebhookPort",
       "Review", "Success"} \subseteq StepNames
  <2>1. {WizardSteps[i] : i \in {1, 2, 3, 4, 11, 12, 13, 14}} \subseteq StepNames
    BY NumberIs
  <2> QED BY <2>1 DEF WizardSteps
<1>2. \A s, t \in StepNames : Number(s) = Number(t) => s = t
  BY NumberIs
<1>3. TextSteps \subseteq StepNames /\ "LinearAPIKey" \in TextSteps
  BY <1>1 DEF TextSteps
<1>4. "ProjectSlug" \in TextSteps /\ "WebhookPort" \in TextSteps
  BY <1>1 DEF TextSteps
<1>5. "ProjectSlug" \notin Secrets /\ "WebhookPort" \notin Secrets
  BY DEF Secrets
<1> QED BY <1>1, <1>2, <1>3, <1>4, <1>5

LEMMA VisibleIs ==
  /\ Visible \subseteq 1 .. 14 /\ {1, 4, 13} \subseteq Visible
  /\ \A i \in 1 .. 14 : i \in Visible <=> WizardSteps[i] # "Success" /\ ~Hides(WizardSteps[i])
<1>1. DOMAIN WizardSteps = 1 .. 14 /\ WizardSteps[1] = "Intro" /\ WizardSteps[4] = "ProjectSlug"
      /\ WizardSteps[13] = "Review"
  BY DEF WizardSteps
<1> QED BY <1>1 DEF Visible, Hides

LEMMA NextIs ==
  ASSUME NEW s \in StepNames, Number(s) < 13
  PROVE  LET n == NextVisible(s) IN
         /\ n \in StepNames /\ n # "Success" /\ ~Hides(n) /\ Number(s) < Number(n)
         /\ Number(s) < 4 => Number(n) <= 4
         /\ \A t \in StepNames : Number(s) < Number(t) /\ Number(t) < Number(n) => Hides(t)
<1> DEFINE S == {i \in Visible : i > Number(s)}
           k == Min(S)
<1>1. S \in SUBSET Nat /\ 13 \in S /\ (Number(s) < 4 => 4 \in S)
  <2>1. Number(s) \in 1 .. 14
    BY NumberIs
  <2>2. Visible \in SUBSET Nat /\ 4 \in Visible /\ 13 \in Visible
    BY VisibleIs
  <2> QED BY <2>1, <2>2
<1>2. k \in S /\ \A y \in S : k <= y
  <2>1. \E x \in S : \A y \in S : x <= y
    BY <1>1, LeastIs
  <2> QED BY <2>1 DEF Min
<1>3. k \in 1 .. 14 /\ k \in Visible /\ k > Number(s) /\ NextVisible(s) = WizardSteps[k]
  <2>1. k \in Visible /\ k > Number(s)
    BY <1>2
  <2> QED BY <2>1, VisibleIs DEF NextVisible
<1>4. Number(s) < 4 => k <= 4
  BY <1>1, <1>2
<1>5. ASSUME NEW t \in StepNames, Number(s) < Number(t), Number(t) < k
      PROVE  Hides(t)
  <2>1. Number(t) \in 1 .. 14 /\ WizardSteps[Number(t)] = t
    BY NumberIs
  <2>2. Number(t) \notin Visible
    BY <1>2, <1>3, <1>5, <2>1
  <2>3. k < 14 \/ k = 14
    BY <1>3
  <2>4. t # "Success"
    BY <1>3, <1>5, NumbersAre
  <2> QED BY <2>1, <2>2, <2>4, VisibleIs
<1> HIDE DEF k
<1> QED BY <1>3, <1>4, <1>5, NumberIs, VisibleIs

LEMMA PreviousIs ==
  ASSUME NEW s \in StepNames, s # "Intro"
  PROVE  LET p == PreviousVisible(s) IN
         p \in StepNames /\ p # "Success" /\ ~Hides(p) /\ Number(p) < Number(s)
<1> DEFINE S == {i \in Visible : i < Number(s)}
           k == Max(S)
<1>1. 1 < Number(s) /\ Number(s) \in 1 .. 14
  BY NumberIs, NumbersAre, NamesAre
<1>2. S \in SUBSET (1 .. 14) /\ 1 \in S
  BY <1>1, VisibleIs
<1>3. k \in S
  BY <1>2, LargestIs
<1>4. k \in 1 .. 14 /\ k \in Visible /\ k < Number(s) /\ PreviousVisible(s) = WizardSteps[k]
  BY <1>2, <1>3 DEF PreviousVisible
<1> HIDE DEF k
<1> QED BY <1>4, NumberIs, VisibleIs

-----------------------------------------------------------------------------
(* The shape of the state.                                                 *)

Lists == [manual : BOOLEAN, attempted : BOOLEAN, loading : BOOLEAN,
          options : {{}, Projects}, of : Texts]
Written == [TextSteps \ Secrets -> Texts]
Subjects == [answers : Written, key : Texts, token : Texts]
Reports == [verdict : Verdicts \cup {"none"}, about : Subjects \cup {NoReport.about}]
Reviews == [running : BOOLEAN, attempted : BOOLEAN, dirty : BOOLEAN, report : Reports,
            overwrite : BOOLEAN, confirmed : BOOLEAN, said : BOOLEAN]
Saving == [stage : {"stat", "write", "written", "failed"}, answers : Written,
           overwrite : BOOLEAN, clear : BOOLEAN]
SetupShape ==
  /\ flow \in {"wizard", "prompts"} /\ step \in StepNames
  /\ text \in [TextSteps -> Texts] /\ webhook \in BOOLEAN
  /\ list \in Lists /\ review \in Reviews /\ save \in {NoSave} \cup Saving
  /\ (save # NoSave => step = "Review")
  /\ \A f \in fetches : f.key \in Texts
  /\ \A c \in checks : c.about \in Subjects

(* A step that has been left with what stands in it.                       *)
Leaves(opened, dirty) ==
  /\ flow = "wizard" /\ save = NoSave /\ Number(step) < 13
  /\ AdvanceStep(opened, dirty) /\ UNCHANGED webhook
  /\ \/ UNCHANGED text /\ (step \in TextSteps => Accepted(step, text[step]))
     \/ step = "ProjectSlug" /\ \E p \in Projects : text' = [text EXCEPT !["ProjectSlug"] = p]
  /\ opened = IF step = "LinearAPIKey" THEN Forgotten ELSE list

LEMMA LeavesWhen ==
  ASSUME SetupShape,
         Start \/ (\E s \in TextSteps : Advance(s)) \/ (\E p \in Projects : Select(p)) \/ LeaveWebhook
  PROVE  \E opened \in Lists, dirty \in BOOLEAN : Leaves(opened, dirty)
<1>a. list \in Lists /\ review.dirty \in BOOLEAN /\ step \in StepNames
  BY DEF SetupShape, Reviews
<1>b. Forgotten \in Lists
  <2>1. "blank" \in Texts /\ hasKey \in BOOLEAN
    BY DEF Texts, hasKey, Valid
  <2> QED BY <1>a, <2>1 DEF Forgotten, Lists
<1>c. \A s \in StepNames : s # "Review" /\ s # "Success" => Number(s) < 13
  <2> SUFFICES ASSUME NEW s \in StepNames, s # "Review", s # "Success"
               PROVE  Number(s) < 13
    OBVIOUS
  <2>1. Number(s) \in 1 .. 14 /\ Number(s) # 13 /\ Number(s) # 14
    BY NumberIs, NumbersAre, NamesAre
  <2> QED BY <2>1
<1>1. CASE Start
  <2>1. Leaves(list, review.dirty)
    BY <1>1, <1>a, <1>c DEF Start, Key, Leaves, TextSteps
  <2> QED BY <2>1, <1>a
<1>2. CASE LeaveWebhook
  <2>1. Leaves(list, review.dirty)
    BY <1>2, <1>a, <1>c DEF LeaveWebhook, Key, Leaves, TextSteps
  <2> QED BY <2>1, <1>a
<1>3. ASSUME NEW s \in TextSteps, Advance(s)
      PROVE  \E opened \in Lists, dirty \in BOOLEAN : Leaves(opened, dirty)
  <2>1. step = s /\ flow = "wizard" /\ save = NoSave /\ Number(step) < 13 /\ Accepted(step, text[step])
    BY <1>3, <1>a, <1>c DEF Advance, Advances, Key, TextSteps
  <2>2. CASE s = "LinearAPIKey"
    <3>1. Leaves(Forgotten, TRUE)
      BY <1>3, <2>1, <2>2 DEF Advance, Leaves
    <3> QED BY <1>b, <3>1
  <2>3. CASE s # "LinearAPIKey"
    <3>1. Leaves(list, review.dirty)
      BY <1>3, <2>1, <2>3 DEF Advance, Leaves
    <3> QED BY <1>a, <3>1
  <2> QED BY <2>2, <2>3
<1>4. ASSUME NEW p \in Projects, Select(p)
      PROVE  \E opened \in Lists, dirty \in BOOLEAN : Leaves(opened, dirty)
  <2>1. Leaves(list, TRUE)
    BY <1>4, <1>a, <1>c DEF Select, Listed, Key, Leaves
  <2> QED BY <2>1, <1>a
<1> QED BY <1>1, <1>2, <1>3, <1>4

LEMMA AboutIs ==
  ASSUME SetupShape
  PROVE  Answers \in Written /\ About \in Subjects /\ Fetch.key = text["LinearAPIKey"]
         /\ text["LinearAPIKey"] \in Texts
<1>1. "blank" \in Texts /\ TextSteps \ Secrets \subseteq TextSteps
  BY DEF Texts
<1>2. Answers \in Written
  BY <1>1 DEF Answers, Written, SetupShape
<1>3. text["LinearAPIKey"] \in Texts /\ text["GitHubToken"] \in Texts
  <2>1. "GitHubToken" \in TextSteps /\ "LinearAPIKey" \in TextSteps
    BY NamesAre DEF TextSteps
  <2> QED BY <2>1 DEF SetupShape
<1> QED BY <1>2, <1>3 DEF About, Subjects, Fetch

(* What leaving a step does to the list and to the review.                 *)
LEMMA LeavesTo ==
  ASSUME SetupShape, NEW opened \in Lists, NEW dirty \in BOOLEAN, Leaves(opened, dirty)
  PROVE  /\ step' = NextVisible(step) /\ UNCHANGED <<flow, save, webhook, workflow>>
         /\ step' \in StepNames /\ text' \in [TextSteps -> Texts] /\ review' \in Reviews
         /\ \A c \in checks' : c.about \in Subjects
         /\ \/ /\ list' = opened /\ UNCHANGED fetches
               /\ step' = "ProjectSlug" =>
                    ~(hasKey /\ ~opened.manual /\ ~opened.loading /\ opened.options = {} /\ ~opened.attempted)
            \/ /\ hasKey /\ step' = "ProjectSlug"
               /\ list' = [opened EXCEPT !.loading = TRUE] /\ fetches' = fetches \cup {Fetch}
<1>a. step \in StepNames /\ Number(step) < 13 /\ AdvanceStep(opened, dirty)
  BY DEF Leaves, SetupShape
<1>1. step' = NextVisible(step) /\ UNCHANGED <<flow, save, webhook, workflow>>
  BY DEF Leaves, AdvanceStep
<1>2. step' \in StepNames
  BY <1>1, <1>a, NextIs
<1>3. text' \in [TextSteps -> Texts]
  BY DEF Leaves, SetupShape, Texts
<1>b. review \in Reviews /\ \A c \in checks : c.about \in Subjects
  BY DEF SetupShape
<1>4. CASE step' = "ProjectSlug"
  <2>1. Arrive(opened) /\ review' = [review EXCEPT !.dirty = dirty] /\ UNCHANGED checks
    BY <1>4, <1>a DEF AdvanceStep
  <2>2. review' \in Reviews
    BY <1>b, <2>1 DEF Reviews
  <2>3. \/ /\ list' = opened /\ UNCHANGED fetches
           /\ ~(hasKey /\ ~opened.manual /\ ~opened.loading /\ opened.options = {} /\ ~opened.attempted)
        \/ /\ hasKey /\ list' = [opened EXCEPT !.loading = TRUE] /\ fetches' = fetches \cup {Fetch}
    BY <2>1 DEF Arrive, StartFetch
  <2> QED BY <1>1, <1>2, <1>3, <1>b, <1>4, <2>1, <2>2, <2>3
<1>5. CASE step' = "Review"
  <2>1. EnterReview(dirty) /\ list' = opened /\ UNCHANGED fetches
    BY <1>5, <1>a DEF AdvanceStep
  <2> DEFINE asks == [review EXCEPT !.overwrite = workflow # NoFile, !.confirmed = workflow = NoFile,
                                    !.said = FALSE, !.dirty = dirty]
  <2>2. asks \in Reviews /\ (workflow # NoFile) \in BOOLEAN /\ (workflow = NoFile) \in BOOLEAN
    BY <1>b DEF Reviews
  <2>3. \/ review' \in {asks, [review EXCEPT !.dirty = dirty]} /\ UNCHANGED checks
        \/ review' = [asks EXCEPT !.dirty = FALSE, !.running = TRUE, !.report = NoReport] /\ StartCheck
    BY <2>1 DEF EnterReview
  <2> HIDE DEF asks
  <2>4. NoReport \in Reports /\ [review EXCEPT !.dirty = dirty] \in Reviews
    BY <1>b DEF NoReport, Reports, Reviews
  <2>5. review' \in Reviews
    BY <2>2, <2>3, <2>4 DEF Reviews
  <2>6. \A c \in checks' : c.about \in Subjects
    <3>1. UNCHANGED checks \/ \E n : checks' = checks \cup {[nr |-> n, about |-> About]}
      BY <2>3 DEF StartCheck
    <3> QED BY <1>b, <3>1, AboutIs
  <2> QED BY <1>1, <1>2, <1>3, <1>5, <2>1, <2>5, <2>6
<1>6. CASE step' # "ProjectSlug" /\ step' # "Review"
  <2>1. list' = opened /\ review' = [review EXCEPT !.dirty = dirty] /\ UNCHANGED <<fetches, checks>>
    BY <1>6, <1>a DEF AdvanceStep
  <2>2. review' \in Reviews
    BY <1>b, <2>1 DEF Reviews
  <2> QED BY <1>1, <1>2, <1>3, <1>b, <1>6, <2>1, <2>2
<1> QED BY <1>4, <1>5, <1>6

Walks == Start \/ (\E s \in TextSteps : Advance(s)) \/ (\E p \in Projects : Select(p)) \/ LeaveWebhook
Turns == TypeManually \/ SelectAgain \/ FetchAgain

LEMMA WalksKeepShape ==
  ASSUME SetupShape, Walks
  PROVE  SetupShape'
<1>1. PICK opened \in Lists, dirty \in BOOLEAN : Leaves(opened, dirty)
  BY LeavesWhen DEF Walks
<1>2. save = NoSave /\ save' = NoSave
  BY <1>1, LeavesTo DEF Leaves
<1>3. list' \in Lists /\ \A f \in fetches' : f.key \in Texts
  <2>1. CASE list' = opened /\ UNCHANGED fetches
    BY <2>1 DEF SetupShape
  <2>2. CASE list' = [opened EXCEPT !.loading = TRUE] /\ fetches' = fetches \cup {Fetch}
    BY <2>2, AboutIs DEF SetupShape, Lists
  <2> QED BY <1>1, <2>1, <2>2, LeavesTo
<1> QED BY <1>1, <1>2, <1>3, LeavesTo DEF SetupShape

LEMMA OthersKeepShape ==
  ASSUME SetupShape, SetupNext, ~Walks
  PROVE  SetupShape'
<1>a. /\ list \in Lists /\ review \in Reviews /\ text \in [TextSteps -> Texts] /\ webhook \in BOOLEAN
      /\ \A c \in checks : c.about \in Subjects
      /\ \A f \in fetches : f.key \in Texts
  BY DEF SetupShape
<1>1. CASE Back
  <2>1. step # "Intro" /\ step \in StepNames /\ save = NoSave
    BY <1>1 DEF Back, Key, SetupShape
  <2> QED BY <1>1, <2>1, PreviousIs DEF Back, SetupShape
<1>2. CASE Turns
  <2>1. list' \in Lists
    BY <1>2, <1>a DEF Turns, TypeManually, SelectAgain, FetchAgain, Project, Lists
  <2>2. \A f \in fetches' : f.key \in Texts
    BY <1>2, <1>a, AboutIs DEF Turns, TypeManually, SelectAgain, FetchAgain, StartFetch
  <2> QED BY <1>2, <2>1, <2>2 DEF Turns, TypeManually, SelectAgain, FetchAgain, Project, SetupShape
<1>3. ASSUME NEW s \in TextSteps, NEW v \in Drafts(s), Type(s, v)
      PROVE  SetupShape'
  <2>1. v \in Texts
    BY DEF Drafts, Texts
  <2>2. text' \in [TextSteps -> Texts] /\ save = NoSave
    BY <1>3, <1>a, <2>1 DEF Type, Key
  <2>3. review' \in Reviews
    <3>1. PICK x : review' = [review EXCEPT !.dirty = @ \/ x]
      BY <1>3 DEF Type
    <3>2. (review.dirty \/ x) \in BOOLEAN
      OBVIOUS
    <3> QED BY <1>a, <3>1, <3>2 DEF Reviews
  <2> QED BY <1>3, <2>2, <2>3 DEF Type, SetupShape
<1>4. ASSUME NEW wants \in BOOLEAN, Toggle(wants)
      PROVE  SetupShape'
  <2>1. review' \in Reviews
    BY <1>4, <1>a DEF Toggle, Reviews
  <2> QED BY <1>4, <2>1 DEF Toggle, SetupShape
<1>5. CASE ConfirmOverwrite
  <2>1. review' \in Reviews
    BY <1>5, <1>a DEF ConfirmOverwrite, Reviews
  <2> QED BY <1>5, <2>1 DEF ConfirmOverwrite, SetupShape
<1>6. CASE CheckAgain
  <2>1. review' \in Reviews
    BY <1>6, <1>a DEF CheckAgain, Reviews
  <2>2. \A c \in checks' : c.about \in Subjects
    BY <1>6, <1>a, AboutIs DEF CheckAgain, StartCheck
  <2> QED BY <1>6, <2>1, <2>2 DEF CheckAgain, SetupShape
<1>b. ASSUME NEW overwrite \in BOOLEAN, NEW clear \in BOOLEAN
      PROVE  Saves(overwrite, clear) \in Saving
  BY AboutIs DEF Saves, Saving
<1>7. CASE Write
  <2>1. review.overwrite \in BOOLEAN
    BY <1>a DEF Reviews
  <2>2. save' \in Saving
    BY <1>7, <1>b, <2>1 DEF Write
  <2> QED BY <1>7, <2>2 DEF Write, Key, SetupShape
<1>8. CASE Abort
  BY <1>8 DEF Abort, SetupShape
<1>9. ASSUME NEW f \in fetches, NEW found \in {{}, Projects}, Listing(f, found)
      PROVE  SetupShape'
  <2>1. list' \in Lists
    BY <1>9, <1>a DEF Listing, Lists
  <2> QED BY <1>9, <2>1 DEF Listing, SetupShape
<1>10. ASSUME NEW c \in checks, NEW verdict \in Verdicts, Checked(c, verdict)
       PROVE  SetupShape'
  <2> DEFINE report == [verdict |-> verdict, about |-> c.about]
  <2>1. report \in Reports
    BY <1>a DEF Reports
  <2>2. review' = [review EXCEPT !.running = FALSE, !.attempted = TRUE, !.report = report]
    BY <1>10 DEF Checked, Report
  <2> HIDE DEF report
  <2>3. review' \in Reviews
    BY <1>a, <2>1, <2>2 DEF Reviews
  <2> QED BY <1>10, <2>3 DEF Checked, SetupShape
<1>11. CASE SaveLooks \/ SaveWrites \/ SaveFails
  <2>1. save # NoSave
    BY <1>11 DEF SaveLooks, SaveWrites, SaveFails, NoSave
  <2>2. save \in Saving
    BY <2>1 DEF SetupShape
  <2>3. save' \in Saving
    BY <1>11, <2>2 DEF SaveLooks, SaveWrites, SaveFails, Saving
  <2> QED BY <1>11, <2>1, <2>3 DEF SaveLooks, SaveWrites, SaveFails, SetupShape
<1>12. CASE Saved
  BY <1>12, NamesAre DEF Saved, SetupShape
<1>13. ASSUME NEW s \in TextSteps \ Secrets, NEW v \in Drafts(s) \cup {"blank"}, Prompt(s, v)
       PROVE  SetupShape'
  <2>1. Line(s, v) \in Texts
    BY DEF Line, Default, Drafts, Texts
  <2>2. step = s /\ s # "Review" /\ Number(s) < 13 /\ step \in StepNames
    <3>1. step = s /\ s \in StepNames /\ s # "Review" /\ s # "Success"
      BY <1>13 DEF Prompt, AsksFor, TextSteps
    <3>2. Number(s) \in 1 .. 14 /\ Number(s) # 13 /\ Number(s) # 14
      BY <3>1, NumberIs, NumbersAre, NamesAre
    <3> QED BY <3>1, <3>2
  <2>3. step' \in StepNames /\ save = NoSave
    BY <1>13, <2>2, NextIs DEF Prompt, SetupShape
  <2>4. text' \in [TextSteps -> Texts]
    BY <1>13, <1>a, <2>1 DEF Prompt
  <2> QED BY <1>13, <2>3, <2>4 DEF Prompt, SetupShape
<1>14. ASSUME NEW wants \in BOOLEAN, PromptWebhook(wants)
       PROVE  SetupShape'
  BY <1>14, NamesAre DEF PromptWebhook, AsksFor, SetupShape
<1>15. ASSUME NEW yes \in BOOLEAN, NEW overwrite \in BOOLEAN, PromptWrite(yes, overwrite)
       PROVE  SetupShape'
  <2>1. review' \in Reviews
    <3>1. (overwrite /\ workflow # NoFile) \in BOOLEAN
      OBVIOUS
    <3> QED BY <1>15, <1>a, <3>1 DEF PromptWrite, Reviews
  <2>2. (workflow = NoFile \/ overwrite) \in BOOLEAN /\ (workflow = NoFile) \in BOOLEAN
    OBVIOUS
  <2>3. save' = NoSave \/ save' \in Saving
    BY <1>15, <1>b, <2>2 DEF PromptWrite
  <2> QED BY <1>15, <2>1, <2>3 DEF PromptWrite, AsksFor, SetupShape
<1>16. CASE FileAppears \/ FileGoes
  BY <1>16 DEF FileAppears, FileGoes, SetupShape
<1> QED BY <1>1, <1>2, <1>3, <1>4, <1>5, <1>6, <1>7, <1>8, <1>9, <1>10, <1>11, <1>12, <1>13,
           <1>14, <1>15, <1>16 DEF SetupNext, Wizard, Commands, Prompts, Walks, Turns

LEMMA ShapeKept ==
  ASSUME SetupShape, [SetupNext]_setupVars
  PROVE  SetupShape'
<1>1. CASE UNCHANGED setupVars
  BY <1>1 DEF setupVars, SetupShape
<1> QED BY <1>1, WalksKeepShape, OthersKeepShape

LEMMA ShapeStarts ==
  ASSUME SetupInit
  PROVE  SetupShape
<1>1. step \in StepNames
  BY NamesAre DEF SetupInit
<1>2. text \in [TextSteps -> Texts]
  <2>1. Default \in [TextSteps -> Texts]
    BY DEF Default, Texts
  <2> QED BY <2>1 DEF SetupInit, Texts
<1>3. list \in Lists
  <2>1. "blank" \in Texts /\ (~hasKey) \in BOOLEAN
    BY DEF Texts
  <2> QED BY <2>1 DEF SetupInit, Lists
<1>4. review \in Reviews
  BY DEF SetupInit, Reviews, Reports, NoReport
<1> QED BY <1>1, <1>2, <1>3, <1>4 DEF SetupInit, SetupShape

-----------------------------------------------------------------------------
(* What has been passed has been accepted.                                 *)

Fine(s) == IF flow = "wizard" THEN Accepted(s, text[s]) ELSE TakesLine(s, text[s])
Passed(s) == Number(s) < Number(step) /\ (s = "WebhookPort" => webhook)
AnswersFine == \A s \in TextSteps \ Secrets : Passed(s) => Fine(s)

(* One who goes on to the next visible step passes that step, and nothing  *)
(* else that will be written.                                              *)
LEMMA OnePassed ==
  ASSUME SetupShape, Number(step) < 13, step' = NextVisible(step), UNCHANGED webhook,
         NEW s \in TextSteps \ Secrets, Passed(s)'
  PROVE  Passed(s) \/ s = step
<1>1. step \in StepNames /\ s \in StepNames /\ step' \in StepNames
  BY NamesAre, NextIs DEF SetupShape
<1>2. Number(s) \in 1 .. 14 /\ Number(step) \in 1 .. 14 /\ Number(step') \in 1 .. 14
  BY <1>1, NumberIs
<1>3. CASE Number(s) > Number(step)
  <2>1. Hides(s)
    BY <1>1, <1>2, <1>3, NextIs DEF Passed
  <2>2. s = "WebhookPort" /\ ~webhook
    BY <2>1 DEF Hides, Secrets
  <2> QED BY <2>2 DEF Passed
<1>4. CASE Number(s) = Number(step)
  BY <1>1, <1>4, NamesAre
<1>5. CASE Number(s) < Number(step)
  BY <1>5 DEF Passed
<1> QED BY <1>2, <1>3, <1>4, <1>5

LEMMA AnswersKept ==
  ASSUME SetupShape, AnswersFine, [SetupNext]_setupVars
  PROVE  AnswersFine'
<1>a. step \in StepNames /\ text \in [TextSteps -> Texts] /\ Number(step) \in 1 .. 14
  BY NumberIs DEF SetupShape
<1>b. \A s \in TextSteps \ Secrets : s \in StepNames /\ Number(s) \in 1 .. 14 /\ (s = step => ~Passed(s))
  BY NamesAre, NumberIs DEF Passed
<1>1. CASE Walks
  <2>1. PICK opened \in Lists, dirty \in BOOLEAN : Leaves(opened, dirty)
    BY <1>1, LeavesWhen DEF Walks
  <2>2. step' = NextVisible(step) /\ UNCHANGED <<flow, webhook>> /\ flow = "wizard" /\ Number(step) < 13
    BY <2>1, LeavesTo DEF Leaves
  <2>3. ASSUME NEW s \in TextSteps \ Secrets, Passed(s)'
        PROVE  Accepted(s, text'[s])
    <3>1. Passed(s) \/ s = step
      BY <2>2, <2>3, OnePassed
    <3>2. CASE Passed(s)
      <4>1. Accepted(s, text[s]) /\ s # step
        BY <2>2, <3>2, <1>b DEF AnswersFine, Fine
      <4>2. text'[s] = text[s]
        BY <2>1, <4>1, <1>a DEF Leaves
      <4> QED BY <4>1, <4>2
    <3>3. CASE s = step
      <4>1. CASE UNCHANGED text /\ Accepted(step, text[step])
        BY <3>3, <4>1
      <4>2. ASSUME NEW p \in Projects, step = "ProjectSlug", text' = [text EXCEPT !["ProjectSlug"] = p]
            PROVE  Accepted(s, text'[s])
        <5>1. text'[s] = p /\ s = "ProjectSlug" /\ p # "blank"
          BY <3>3, <4>2, <1>a, NamesAre, SetupAssumption DEF SetupAssumption
        <5> QED BY <5>1 DEF Accepted, Secrets
      <4> QED BY <2>1, <3>3, <4>1, <4>2 DEF Leaves
    <3> QED BY <3>1, <3>2, <3>3
  <2> QED BY <2>2, <2>3 DEF AnswersFine, Fine
<1>2. CASE Back
  <2>1. step # "Intro"
    BY <1>2 DEF Back, Key
  <2>2. step' \in StepNames /\ Number(step') < Number(step)
    BY <1>2, <1>a, <2>1, PreviousIs DEF Back
  <2>3. Number(step') \in 1 .. 14
    BY <2>2, NumberIs
  <2>4. \A s \in TextSteps \ Secrets : Passed(s)' => Passed(s)
    BY <1>2, <1>a, <1>b, <2>2, <2>3 DEF Back, Passed
  <2> QED BY <1>2, <2>4 DEF Back, AnswersFine, Fine
<1>3. ASSUME NEW t \in TextSteps, NEW v \in Drafts(t), Type(t, v)
      PROVE  AnswersFine'
  <2>1. step = t /\ text' = [text EXCEPT ![t] = v] /\ UNCHANGED <<flow, step, webhook>>
    BY <1>3 DEF Type, Key
  <2>2. \A s \in TextSteps \ Secrets : Passed(s)' => Passed(s) /\ text'[s] = text[s]
    BY <1>a, <1>b, <2>1 DEF Passed
  <2> QED BY <2>1, <2>2 DEF AnswersFine, Fine
<1>4. ASSUME NEW wants \in BOOLEAN, Toggle(wants)
      PROVE  AnswersFine'
  <2>1. step = "Webhook" /\ UNCHANGED <<flow, step, text>>
    BY <1>4 DEF Toggle, Key
  <2>2. \A s \in TextSteps \ Secrets : Passed(s)' => Passed(s)
    BY <2>1, NumbersAre DEF Passed
  <2> QED BY <2>1, <2>2 DEF AnswersFine, Fine
<1>5. CASE Saved
  <2>1. step = "Review" /\ step' \in {"Review", "Success"} /\ UNCHANGED <<flow, text, webhook>>
    BY <1>5 DEF Saved, Ends, NoSave, SetupShape
  <2>2. ASSUME NEW s \in TextSteps \ Secrets, Passed(s)'
        PROVE  Passed(s)
    <3>1. Number(s) < 14 /\ s # "Review"
      BY <2>1, <2>2, <1>b, NumbersAre DEF Passed, TextSteps
    <3>2. Number(s) # 13
      BY <3>1, <1>b, NumbersAre, NamesAre
    <3> QED BY <2>1, <2>2, <3>1, <3>2, <1>b, NumbersAre DEF Passed
  <2> QED BY <2>1, <2>2 DEF AnswersFine, Fine
<1>6. ASSUME NEW t \in TextSteps \ Secrets, NEW v \in Drafts(t) \cup {"blank"}, Prompt(t, v)
      PROVE  AnswersFine'
  <2>1. /\ step = t /\ text' = [text EXCEPT ![t] = Line(t, v)] /\ UNCHANGED <<flow, webhook>>
        /\ flow = "prompts" /\ TakesLine(t, text'[t]) /\ step' = NextVisible(step)
    BY <1>6 DEF Prompt, AsksFor
  <2>2. Number(step) < 13
    <3>1. step # "Review" /\ step # "Success"
      BY <2>1 DEF TextSteps
    <3>2. Number(step) # 13 /\ Number(step) # 14
      BY <1>a, <3>1, NumbersAre, NamesAre
    <3> QED BY <1>a, <3>2
  <2>3. ASSUME NEW s \in TextSteps \ Secrets, Passed(s)'
        PROVE  TakesLine(s, text'[s])
    <3>1. Passed(s) \/ s = step
      BY <2>1, <2>2, <2>3, OnePassed
    <3>2. CASE s # step
      <4>1. text'[s] = text[s]
        BY <1>a, <2>1, <3>2
      <4>2. TakesLine(s, text[s])
        BY <2>1, <3>1, <3>2 DEF AnswersFine, Fine
      <4> QED BY <4>1, <4>2
    <3> QED BY <2>1, <3>2
  <2> QED BY <2>1, <2>3 DEF AnswersFine, Fine
<1>7. ASSUME NEW wants \in BOOLEAN, PromptWebhook(wants)
      PROVE  AnswersFine'
  <2>1. /\ step = "Webhook" /\ webhook' = wants /\ UNCHANGED <<flow, text>>
        /\ step' = IF wants THEN "WebhookPort" ELSE "Review"
    BY <1>7 DEF PromptWebhook, AsksFor
  <2>2. ASSUME NEW s \in TextSteps \ Secrets, Passed(s)'
        PROVE  Passed(s)
    <3>1. s # "Webhook" /\ s # "Review" /\ s \in StepNames
      BY <1>b DEF TextSteps
    <3>2. Number(s) # 11 /\ Number(s) # 13
      BY <3>1, NumbersAre, NamesAre
    <3>3. s # "WebhookPort"
      BY <2>1, <2>2, NumbersAre DEF Passed
    <3>4. Number(s) # 12
      BY <3>1, <3>3, NumbersAre, NamesAre
    <3>5. Number(s) < 13
      BY <2>1, <2>2, <1>b, NumbersAre DEF Passed
    <3>6. Number(s) < 11
      BY <3>2, <3>4, <3>5, <1>b
    <3> QED BY <2>1, <3>3, <3>6, NumbersAre DEF Passed
  <2> QED BY <2>1, <2>2 DEF AnswersFine, Fine
<1>8. CASE UNCHANGED <<flow, step, text, webhook>>
  BY <1>8 DEF AnswersFine, Fine, Passed
<1>9. CASE UNCHANGED setupVars
  BY <1>8, <1>9 DEF setupVars
<1>10. ASSUME SetupNext, ~UNCHANGED <<flow, step, text, webhook>>
       PROVE  \/ Walks \/ Back \/ Saved
              \/ \E t \in TextSteps : \E v \in Drafts(t) : Type(t, v)
              \/ \E wants \in BOOLEAN : Toggle(wants) \/ PromptWebhook(wants)
              \/ \E t \in TextSteps \ Secrets : \E v \in Drafts(t) \cup {"blank"} : Prompt(t, v)
  <2>1. ~(\/ TypeManually \/ SelectAgain \/ FetchAgain \/ ConfirmOverwrite \/ CheckAgain \/ Write \/ Abort)
    BY <1>10 DEF TypeManually, SelectAgain, FetchAgain, Project, ConfirmOverwrite, CheckAgain, Write, Abort
  <2>2. ~(\/ SaveLooks \/ SaveWrites \/ SaveFails \/ FileAppears \/ FileGoes
          \/ \E f \in fetches, found \in {{}, Projects} : Listing(f, found)
          \/ \E c \in checks, verdict \in Verdicts : Checked(c, verdict)
          \/ \E yes, overwrite \in BOOLEAN : PromptWrite(yes, overwrite))
    BY <1>10 DEF SaveLooks, SaveWrites, SaveFails, FileAppears, FileGoes, Listing, Checked, PromptWrite
  <2> QED BY <1>10, <2>1, <2>2 DEF SetupNext, Wizard, Commands, Prompts, Walks
<1> QED BY <1>1, <1>2, <1>3, <1>4, <1>5, <1>6, <1>7, <1>8, <1>9, <1>10

LEMMA AnswersStart ==
  ASSUME SetupInit
  PROVE  AnswersFine
<1>1. step \in {"Intro", "ProjectSlug"}
  BY DEF SetupInit
<1>2. ASSUME NEW s \in TextSteps \ Secrets
      PROVE  ~(Number(s) < Number(step))
  <2>1. /\ s \in StepNames /\ s # "Intro" /\ s # "LinearAPIKey" /\ s # "GitHubToken"
        /\ Number(s) \in 1 .. 14
    BY NumberIs, NamesAre DEF TextSteps, Secrets
  <2>2. "LinearAPIKey" \in StepNames /\ "GitHubToken" \in StepNames /\ "Intro" \in StepNames
    BY NamesAre
  <2>3. Number(s) # 1 /\ Number(s) # 2 /\ Number(s) # 3
    BY <2>1, <2>2, NumbersAre, NamesAre
  <2> QED BY <1>1, <2>1, <2>3, NumbersAre
<1> QED BY <1>2 DEF AnswersFine, Passed

(* ReviewIsValid: no way to the review goes around a step that will be     *)
(* written and has not been accepted (advanceStep and the prompts of Run). *)
THEOREM ReviewIsValidHolds == SetupSpec => []ReviewIsValid
<1>1. AnswersFine => ReviewIsValid
  <2> SUFFICES ASSUME AnswersFine, step = "Review", NEW s \in DOMAIN Answers, s = "WebhookPort" => webhook
               PROVE  Fine(s)
    BY DEF ReviewIsValid, Fine
  <2>1. s \in TextSteps \ Secrets
    BY DEF Answers
  <2>2. s \in StepNames /\ s # "Review" /\ s # "Success" /\ Number(s) \in 1 .. 14
    BY <2>1, NumberIs, NamesAre DEF TextSteps
  <2>3. Number(s) # 13 /\ Number(s) # 14
    BY <2>2, NumbersAre, NamesAre
  <2>4. Passed(s)
    BY <2>2, <2>3, NumbersAre DEF Passed
  <2> QED BY <2>1, <2>4 DEF AnswersFine
<1> QED BY <1>1, ShapeStarts, ShapeKept, AnswersStart, AnswersKept, PTL DEF SetupSpec

-----------------------------------------------------------------------------
(* The list belongs to the key.                                            *)

Open == ~list.manual \/ list.attempted \/ list.loading \/ list.options # {} \/ fetches # {}
ListOfKey ==
  /\ Open => hasKey /\ step # "LinearAPIKey"
  /\ \A f \in fetches : f.key = text["LinearAPIKey"]
  /\ list.options # {} => list.of = text["LinearAPIKey"]
  /\ list.attempted /\ list.options = {} /\ ~list.loading => list.manual
  /\ Number(step) >= 4 /\ ~list.manual /\ ~list.loading => list.options # {}
ListInv == flow = "wizard" => ListOfKey

LEMMA WalksKeepList ==
  ASSUME SetupShape, ListOfKey, Walks
  PROVE  ListOfKey'
<1>1. PICK opened \in Lists, dirty \in BOOLEAN : Leaves(opened, dirty)
  BY LeavesWhen DEF Walks
<1>2. /\ step \in StepNames /\ step' \in StepNames /\ Number(step) \in 1 .. 14 /\ Number(step') \in 1 .. 14
      /\ Number(step) < 13 /\ text \in [TextSteps -> Texts] /\ step' = NextVisible(step)
  BY <1>1, LeavesTo, NumberIs DEF SetupShape, Leaves
<1>3. (hasKey => step' # "LinearAPIKey") /\ (Number(step) < 4 => Number(step') <= 4)
  BY <1>2, NextIs DEF Hides
<1>4. text'["LinearAPIKey"] = text["LinearAPIKey"]
  BY <1>1, <1>2, NamesAre DEF Leaves
<1>5. hasKey' = hasKey
  BY <1>4 DEF hasKey
<1>6. Number(step') = 4 => step' = "ProjectSlug"
  BY <1>2, NumbersAre, NamesAre
<1>7. CASE list' = [opened EXCEPT !.loading = TRUE] /\ fetches' = fetches \cup {Fetch} /\ hasKey
  <2>1. /\ list'.loading = TRUE /\ list'.manual = opened.manual /\ list'.options = opened.options
        /\ list'.of = opened.of /\ list'.attempted = opened.attempted
    BY <1>7 DEF Lists
  <2>2. \A f \in fetches' : f.key = text'["LinearAPIKey"]
    BY <1>4, <1>7, AboutIs DEF ListOfKey
  <2>3. opened.options # {} => opened.of = text'["LinearAPIKey"]
    BY <1>1, <1>4 DEF Leaves, Forgotten, ListOfKey
  <2> QED BY <1>3, <1>5, <1>7, <2>1, <2>2, <2>3 DEF ListOfKey
<1>8. CASE /\ list' = opened /\ UNCHANGED fetches
           /\ step' = "ProjectSlug" =>
                ~(hasKey /\ ~opened.manual /\ ~opened.loading /\ opened.options = {} /\ ~opened.attempted)
  <2>1. CASE step = "LinearAPIKey"
    <3>1. ~Open
      BY <2>1 DEF ListOfKey
    <3>2. opened = [manual |-> ~hasKey, attempted |-> FALSE, loading |-> list.loading,
                    options |-> {}, of |-> "blank"]
      BY <1>1, <2>1 DEF Leaves, Forgotten
    <3>3. /\ (~opened.manual => hasKey) /\ ~opened.attempted /\ ~opened.loading
          /\ opened.options = {} /\ fetches = {}
      BY <3>1, <3>2 DEF Open
    <3>4. Number(step) = 2
      BY <2>1, NumbersAre
    <3>5. ASSUME Number(step') >= 4, ~opened.manual
          PROVE  FALSE
      <4>1. Number(step') = 4
        BY <1>2, <1>3, <3>4, <3>5
      <4> QED BY <1>6, <1>8, <3>3, <3>5, <4>1
    <3> QED BY <1>3, <1>5, <1>8, <3>3, <3>5 DEF ListOfKey, Open
  <2>2. CASE step # "LinearAPIKey"
    <3>1. list' = list
      BY <1>1, <1>8, <2>2 DEF Leaves
    <3>2. ASSUME Number(step') >= 4, ~list.manual, ~list.loading
          PROVE  list.options # {}
      <4>1. CASE Number(step) >= 4
        BY <3>2, <4>1 DEF ListOfKey
      <4>2. CASE Number(step) < 4
        <5>1. step' = "ProjectSlug"
          BY <1>2, <1>3, <1>6, <3>2, <4>2
        <5>2. hasKey
          BY <3>2 DEF ListOfKey, Open
        <5> QED BY <1>8, <3>1, <3>2, <5>1, <5>2 DEF ListOfKey
      <4> QED BY <1>2, <4>1, <4>2
    <3> QED BY <1>3, <1>4, <1>5, <1>8, <3>1, <3>2 DEF ListOfKey, Open
  <2> QED BY <2>1, <2>2
<1> QED BY <1>1, <1>7, <1>8, LeavesTo

LEMMA ListKept ==
  ASSUME SetupShape, ListInv, [SetupNext]_setupVars
  PROVE  ListInv'
<1>a. /\ step \in StepNames /\ list \in Lists /\ text \in [TextSteps -> Texts]
      /\ Number(step) \in 1 .. 14
  BY NumberIs DEF SetupShape
<1>b. UNCHANGED flow
  <2>1. Walks => UNCHANGED flow
    BY LeavesWhen, LeavesTo DEF Walks
  <2> QED BY <2>1 DEF SetupNext, Wizard, Walks, Commands, Prompts, Back, TypeManually, SelectAgain, FetchAgain,
             Project, Type, Toggle, ConfirmOverwrite, CheckAgain, Write, Abort, Listing, Checked, SaveLooks,
             SaveWrites, SaveFails, Saved, Prompt, PromptWebhook, PromptWrite, FileAppears, FileGoes, setupVars
<1> SUFFICES ASSUME flow = "wizard", ListOfKey
             PROVE  ListOfKey'
  BY <1>b DEF ListInv
<1>1. CASE Walks
  BY <1>1, WalksKeepList
<1>2. CASE Back
  <2>1. step # "Intro" /\ UNCHANGED <<text, list, fetches>>
    BY <1>2 DEF Back, Key
  <2>2. step' \in StepNames /\ Number(step') < Number(step) /\ ~Hides(step')
    BY <1>2, <1>a, <2>1, PreviousIs DEF Back
  <2>3. Number(step') \in 1 .. 14 /\ (hasKey => step' # "LinearAPIKey")
    BY <2>2, NumberIs DEF Hides
  <2> QED BY <1>a, <2>1, <2>2, <2>3 DEF ListOfKey, Open, hasKey
<1>3. CASE TypeManually \/ SelectAgain
  <2>1. step = "ProjectSlug" /\ UNCHANGED <<step, text, fetches>>
    BY <1>3 DEF TypeManually, SelectAgain, Key, Project
  <2>2. /\ list'.loading = list.loading /\ list'.attempted = list.attempted
        /\ list'.options = list.options /\ list'.of = list.of
        /\ list'.manual \/ list.options # {}
    BY <1>3, <1>a DEF TypeManually, SelectAgain, Project, Lists
  <2> QED BY <2>1, <2>2 DEF ListOfKey, Open, hasKey
<1>4. CASE FetchAgain
  <2>1. step = "ProjectSlug" /\ hasKey /\ fetches' = fetches \cup {Fetch} /\ UNCHANGED <<step, text>>
    BY <1>4 DEF FetchAgain, Key, Project, StartFetch
  <2>2. /\ list'.loading = TRUE /\ list'.attempted = list.attempted
        /\ list'.options = list.options /\ list'.of = list.of
    BY <1>4, <1>a DEF FetchAgain, Project, Lists
  <2> QED BY <2>1, <2>2, AboutIs DEF ListOfKey, Open, hasKey
<1>5. ASSUME NEW t \in TextSteps, NEW v \in Drafts(t), Type(t, v)
      PROVE  ListOfKey'
  <2>1. step = t /\ text' = [text EXCEPT ![t] = v] /\ UNCHANGED <<step, list, fetches>>
    BY <1>5 DEF Type, Key
  <2>2. CASE t = "LinearAPIKey"
    <3>1. ~Open
      BY <2>1, <2>2 DEF ListOfKey
    <3> QED BY <2>1, <3>1 DEF ListOfKey, Open
  <2>3. CASE t # "LinearAPIKey"
    <3>1. text'["LinearAPIKey"] = text["LinearAPIKey"]
      BY <1>a, <2>1, <2>3, NamesAre
    <3> QED BY <2>1, <3>1 DEF ListOfKey, Open, hasKey
  <2> QED BY <2>2, <2>3
<1>6. ASSUME NEW f \in fetches, NEW found \in {{}, Projects}, Listing(f, found)
      PROVE  ListOfKey'
  <2>1. /\ hasKey /\ step # "LinearAPIKey" /\ f.key = text["LinearAPIKey"]
        /\ UNCHANGED <<step, text>> /\ fetches' \subseteq fetches
    BY <1>6 DEF Listing, ListOfKey, Open
  <2>2. /\ list'.attempted
        /\ \/ list'.manual /\ list'.options = list.options /\ list'.of = list.of
           \/ list'.options = found /\ found # {} /\ list'.of = f.key
    BY <1>6, <1>a DEF Listing, Lists
  <2> QED BY <2>1, <2>2 DEF ListOfKey, Open, hasKey
<1>7. CASE Saved
  <2>1. step = "Review" /\ step' \in {"Review", "Success"} /\ UNCHANGED <<text, list, fetches>>
    BY <1>7 DEF Saved, Ends, NoSave, SetupShape
  <2> QED BY <2>1, NumbersAre DEF ListOfKey, Open, hasKey
<1>8. CASE UNCHANGED <<step, text, list, fetches>>
  BY <1>8 DEF ListOfKey, Open, hasKey
<1>9. ASSUME SetupNext, ~UNCHANGED <<step, text, list, fetches>>
      PROVE  \/ Walks \/ Back \/ TypeManually \/ SelectAgain \/ FetchAgain \/ Saved
             \/ \E t \in TextSteps : \E v \in Drafts(t) : Type(t, v)
             \/ \E f \in fetches, found \in {{}, Projects} : Listing(f, found)
  <2>1. ~(\/ ConfirmOverwrite \/ CheckAgain \/ Write \/ Abort \/ \E wants \in BOOLEAN : Toggle(wants))
    BY <1>9 DEF ConfirmOverwrite, CheckAgain, Write, Abort, Toggle
  <2>2. ~(\/ SaveLooks \/ SaveWrites \/ SaveFails \/ FileAppears \/ FileGoes
          \/ \E c \in checks, verdict \in Verdicts : Checked(c, verdict))
    BY <1>9 DEF SaveLooks, SaveWrites, SaveFails, FileAppears, FileGoes, Checked
  <2>3. ~Prompts
    BY DEF Prompts, Prompt, PromptWebhook, PromptWrite, AsksFor
  <2> QED BY <1>9, <2>1, <2>2, <2>3 DEF SetupNext, Wizard, Commands, Walks
<1> QED BY <1>1, <1>2, <1>3, <1>4, <1>5, <1>6, <1>7, <1>8, <1>9 DEF setupVars

(* OptionsOfThisKey: the projects that are offered were listed with the    *)
(* API key of the session, whenever their listing came (tui.go).           *)
THEOREM OptionsOfThisKeyHolds == SetupSpec => []OptionsOfThisKey
<1>1. SetupInit => ListInv
  <2> SUFFICES ASSUME SetupInit, flow = "wizard"
               PROVE  ListOfKey
    BY DEF ListInv
  <2>1. step = "Intro" /\ Number(step) = 1
    BY NumbersAre DEF SetupInit
  <2>2. /\ ~list.manual => hasKey
        /\ ~list.attempted /\ ~list.loading /\ list.options = {} /\ fetches = {}
    BY DEF SetupInit
  <2> QED BY <2>1, <2>2 DEF ListOfKey, Open
<1>2. SetupShape /\ ListInv => OptionsOfThisKey
  <2>1. Number("ProjectSlug") = 4
    BY NumbersAre
  <2> QED BY <2>1 DEF ListInv, ListOfKey, OptionsOfThisKey
<1> QED BY <1>1, <1>2, ShapeStarts, ShapeKept, ListKept, PTL DEF SetupSpec

-----------------------------------------------------------------------------
(* Nothing of the operator's is replaced unasked.                          *)

(* Leave to overwrite is the operator's word, or a look that found no file. *)
SaveInv ==
  /\ flow = "wizard" /\ review.overwrite /\ review.confirmed => review.said
  /\ save.stage = "stat" /\ save.overwrite => review.said \/ save.clear
  /\ save.stage = "write" => review.said \/ save.clear

SameQuestion ==
  /\ review'.overwrite = review.overwrite /\ review'.confirmed = review.confirmed
  /\ review'.said = review.said

(* A visit of the review asks anew, or leaves the question as it was.      *)
LEMMA WalksAsk ==
  ASSUME SetupShape, Walks
  PROVE  /\ save = NoSave /\ save' = NoSave /\ UNCHANGED flow
         /\ SameQuestion \/ ~(review'.overwrite /\ review'.confirmed)
<1>1. PICK opened \in Lists, dirty \in BOOLEAN : Leaves(opened, dirty)
  BY LeavesWhen DEF Walks
<1>2. save = NoSave /\ save' = NoSave /\ UNCHANGED flow
  BY <1>1, LeavesTo DEF Leaves
<1>3. review \in Reviews /\ AdvanceStep(opened, dirty)
  BY <1>1 DEF Leaves, SetupShape
<1>4. CASE review' = [review EXCEPT !.dirty = dirty]
  BY <1>2, <1>3, <1>4 DEF Reviews, SameQuestion
<1>5. CASE EnterReview(dirty)
  <2> DEFINE asks == [review EXCEPT !.overwrite = workflow # NoFile, !.confirmed = workflow = NoFile,
                                    !.said = FALSE, !.dirty = dirty]
  <2>1. ~(asks.overwrite /\ asks.confirmed)
        /\ DOMAIN asks = {"running", "attempted", "dirty", "report", "overwrite", "confirmed", "said"}
    BY <1>3 DEF Reviews
  <2>2. review' \in {asks, [review EXCEPT !.dirty = dirty],
                     [asks EXCEPT !.dirty = FALSE, !.running = TRUE, !.report = NoReport]}
    BY <1>5 DEF EnterReview
  <2> HIDE DEF asks
  <2>3. [asks EXCEPT !.dirty = FALSE, !.running = TRUE, !.report = NoReport].overwrite = asks.overwrite
        /\ [asks EXCEPT !.dirty = FALSE, !.running = TRUE, !.report = NoReport].confirmed = asks.confirmed
    BY <2>1
  <2> QED BY <1>2, <1>4, <2>1, <2>2, <2>3
<1>6. review' = [review EXCEPT !.dirty = dirty] \/ EnterReview(dirty)
  BY <1>3 DEF AdvanceStep
<1> QED BY <1>2, <1>4, <1>5, <1>6

LEMMA SaveKept ==
  ASSUME SetupShape, SaveInv, [SetupNext]_setupVars
  PROVE  SaveInv'
<1>a. review \in Reviews /\ save \in {NoSave} \cup Saving /\ NoSave.stage = "none"
  BY DEF SetupShape, NoSave
<1>1. CASE Walks
  BY <1>1, <1>a, WalksAsk DEF SaveInv, SameQuestion
<1>2. CASE SameQuestion /\ UNCHANGED <<flow, save>>
  BY <1>2 DEF SaveInv, SameQuestion
<1>3. CASE Write
  <2>1. UNCHANGED <<flow, review>> /\ flow = "wizard" /\ (review.overwrite => review.confirmed)
        /\ save' = [stage |-> "stat", answers |-> Answers, overwrite |-> review.overwrite, clear |-> FALSE]
    BY <1>3 DEF Write, Key, Confirms, Saves
  <2> QED BY <2>1 DEF SaveInv
<1>4. ASSUME NEW yes \in BOOLEAN, NEW overwrite \in BOOLEAN, PromptWrite(yes, overwrite)
      PROVE  SaveInv'
  <2>1. review'.said = (overwrite /\ workflow # NoFile) /\ flow' = "prompts" /\ save = NoSave
    BY <1>4, <1>a DEF PromptWrite, AsksFor, Reviews
  <2>2. CASE save' = [stage |-> "stat", answers |-> Answers, overwrite |-> workflow = NoFile \/ overwrite,
                      clear |-> workflow = NoFile]
    BY <2>1, <2>2 DEF SaveInv
  <2>3. CASE save' = NoSave
    BY <1>a, <2>1, <2>3 DEF SaveInv
  <2> QED BY <1>4, <2>1, <2>2, <2>3 DEF PromptWrite, Saves
<1>5. CASE SaveLooks
  <2>1. save.stage = "stat" /\ save \in Saving /\ UNCHANGED <<flow, review>>
    BY <1>5, <1>a DEF SaveLooks
  <2>2. /\ save'.stage = IF Refuses THEN "failed" ELSE "write"
        /\ save'.clear = IF save.overwrite THEN save.clear ELSE workflow = NoFile
    BY <1>5, <2>1 DEF SaveLooks, Saving
  <2> QED BY <2>1, <2>2 DEF SaveInv, Refuses
<1>6. CASE SaveWrites \/ SaveFails
  <2>1. save \in Saving /\ UNCHANGED <<flow, review>>
    BY <1>6, <1>a DEF SaveWrites, SaveFails
  <2>2. save'.stage \in {"written", "failed"}
    BY <1>6, <2>1 DEF SaveWrites, SaveFails, Saving
  <2> QED BY <2>1, <2>2 DEF SaveInv
<1>7. CASE Saved
  BY <1>7, <1>a DEF Saved, SaveInv
<1>8. CASE ConfirmOverwrite
  <2>1. save = NoSave /\ save' = NoSave /\ (review'.confirmed => review'.said)
    BY <1>8, <1>a DEF ConfirmOverwrite, Key, Reviews
  <2> QED BY <1>a, <2>1 DEF SaveInv
<1>9. ASSUME SetupNext, ~Walks
      PROVE  \/ SameQuestion /\ UNCHANGED <<flow, save>>
             \/ Write \/ SaveLooks \/ SaveWrites \/ SaveFails \/ Saved \/ ConfirmOverwrite
             \/ \E yes, overwrite \in BOOLEAN : PromptWrite(yes, overwrite)
  <2>1. CASE UNCHANGED <<flow, save, review>>
    BY <2>1 DEF SameQuestion
  <2>2. CASE CheckAgain \/ \E wants \in BOOLEAN : Toggle(wants)
    BY <2>2, <1>a DEF CheckAgain, Toggle, SameQuestion, Reviews
  <2>3. ASSUME NEW s \in TextSteps, NEW v \in Drafts(s), Type(s, v)
        PROVE  SameQuestion /\ UNCHANGED <<flow, save>>
    BY <2>3, <1>a DEF Type, SameQuestion, Reviews
  <2>4. ASSUME NEW c \in checks, NEW verdict \in Verdicts, Checked(c, verdict)
        PROVE  SameQuestion /\ UNCHANGED <<flow, save>>
    BY <2>4, <1>a DEF Checked, Report, SameQuestion, Reviews
  <2>5. Back \/ Turns \/ Abort \/ FileAppears \/ FileGoes
        \/ (\E f \in fetches, found \in {{}, Projects} : Listing(f, found))
        \/ (\E s \in TextSteps \ Secrets : \E v \in Drafts(s) \cup {"blank"} : Prompt(s, v))
        \/ (\E wants \in BOOLEAN : PromptWebhook(wants)) => UNCHANGED <<flow, save, review>>
    BY DEF Back, Turns, TypeManually, SelectAgain, FetchAgain, Project, Abort, FileAppears, FileGoes,
           Listing, Prompt, PromptWebhook
  <2> QED BY <1>9, <2>1, <2>2, <2>3, <2>4, <2>5 DEF SetupNext, Wizard, Commands, Prompts, Walks, Turns
<1>10. CASE UNCHANGED setupVars
  BY <1>10 DEF setupVars, SaveInv
<1> QED BY <1>1, <1>2, <1>3, <1>4, <1>5, <1>6, <1>7, <1>8, <1>9, <1>10

(* NeverClobbers: a file of somebody else's is replaced only when the      *)
(* operator said so on the review or at the question, or when the last     *)
(* look found none, whatever comes and goes in between (WriteWorkflow).    *)
THEOREM NeverClobbersHolds == SetupSpec => NeverClobbers
<1> DEFINE A == workflow = Theirs /\ workflow' \notin {NoFile, Theirs} => review.said \/ save.clear
<1>1. SetupInit => SaveInv
  BY DEF SetupInit, SaveInv, NoSave
<1>2. ASSUME SetupShape, SaveInv, [SetupNext]_setupVars
      PROVE  [A]_setupVars
  <2> SUFFICES ASSUME SetupNext, workflow = Theirs, workflow' \notin {NoFile, Theirs}
               PROVE  review.said \/ save.clear
    BY <1>2
  <2>1. SaveWrites
    <3>1. ~Walks
      BY <1>2, LeavesWhen, LeavesTo DEF Walks
    <3>2. ~FileAppears /\ ~FileGoes
      BY DEF FileAppears, FileGoes
    <3> QED BY <3>1, <3>2 DEF SetupNext, Wizard, Walks, Commands, Prompts, Back, TypeManually, SelectAgain,
               FetchAgain, Project, Type, Toggle, ConfirmOverwrite, CheckAgain, Write, Abort, Listing,
               Checked, SaveLooks, SaveFails, Saved, Prompt, PromptWebhook, PromptWrite
  <2> QED BY <1>2, <2>1 DEF SaveWrites, SaveInv
<1> QED BY <1>1, <1>2, ShapeStarts, ShapeKept, SaveKept, PTL DEF SetupSpec, NeverClobbers

-----------------------------------------------------------------------------
(* The types of the setup's variables.                                     *)

Within ==
  /\ IsFiniteSet(fetches) /\ IsFiniteSet(checks)
  /\ spent \in [checks : 0 .. MaxChecks, fetches : 0 .. MaxFetches]
  /\ Cardinality(fetches) <= spent.fetches /\ Cardinality(checks) <= spent.checks

LEMMA SpentMoves ==
  ASSUME SetupShape, [SetupNext]_setupVars
  PROVE  \/ StartFetch /\ UNCHANGED checks
         \/ StartCheck /\ UNCHANGED fetches
         \/ fetches' \subseteq fetches /\ checks' \subseteq checks /\ UNCHANGED spent
<1>1. CASE Walks
  <2>1. PICK opened \in Lists, dirty \in BOOLEAN : AdvanceStep(opened, dirty)
    BY <1>1, LeavesWhen DEF Walks, Leaves
  <2>2. CASE step' = "ProjectSlug"
    BY <2>1, <2>2 DEF AdvanceStep, Arrive
  <2>3. CASE step' = "Review"
    BY <2>1, <2>3 DEF AdvanceStep, EnterReview
  <2>4. CASE step' # "ProjectSlug" /\ step' # "Review"
    BY <2>1, <2>4 DEF AdvanceStep
  <2> QED BY <2>2, <2>3, <2>4
<1>2. CASE SetupNext /\ ~Walks
  BY <1>2 DEF SetupNext, Wizard, Walks, Commands, Prompts, Back, TypeManually, SelectAgain, FetchAgain,
     Project, Type, Toggle, ConfirmOverwrite, CheckAgain, Write, Abort, Listing, Checked, SaveLooks,
     SaveWrites, SaveFails, Saved, Prompt, PromptWebhook, PromptWrite, FileAppears, FileGoes
<1> QED BY <1>1, <1>2 DEF setupVars

LEMMA WithinKept ==
  ASSUME SetupShape, Within, [SetupNext]_setupVars
  PROVE  Within'
<1>1. MaxChecks \in Nat /\ MaxFetches \in Nat
  BY SetupAssumption DEF SetupAssumption
<1>2. ASSUME NEW S, IsFiniteSet(S), NEW x
      PROVE  IsFiniteSet(S \cup {x}) /\ Cardinality(S \cup {x}) <= Cardinality(S) + 1
             /\ Cardinality(S) \in Nat
  BY <1>2, FS_AddElement, FS_CardinalityType
<1>3. CASE StartFetch /\ UNCHANGED checks
  <2>1. PICK x : fetches' = fetches \cup {x}
    BY <1>3 DEF StartFetch
  <2>2. /\ spent'.fetches = spent.fetches + 1 /\ spent'.checks = spent.checks
        /\ spent' \in [checks : 0 .. MaxChecks, fetches : 0 .. MaxFetches]
        /\ spent.fetches \in Nat
    BY <1>1, <1>3 DEF StartFetch, Within
  <2>3. IsFiniteSet(fetches') /\ Cardinality(fetches') <= Cardinality(fetches) + 1
        /\ Cardinality(fetches) \in Nat /\ Cardinality(fetches') \in Nat
    BY <1>2, <2>1, FS_CardinalityType DEF Within
  <2> QED BY <1>3, <2>2, <2>3 DEF Within
<1>4. CASE StartCheck /\ UNCHANGED fetches
  <2>1. PICK x : checks' = checks \cup {x}
    BY <1>4 DEF StartCheck
  <2>2. /\ spent'.checks = spent.checks + 1 /\ spent'.fetches = spent.fetches
        /\ spent' \in [checks : 0 .. MaxChecks, fetches : 0 .. MaxFetches]
        /\ spent.checks \in Nat
    BY <1>1, <1>4 DEF StartCheck, Within
  <2>3. IsFiniteSet(checks') /\ Cardinality(checks') <= Cardinality(checks) + 1
        /\ Cardinality(checks) \in Nat /\ Cardinality(checks') \in Nat
    BY <1>2, <2>1, FS_CardinalityType DEF Within
  <2> QED BY <1>4, <2>2, <2>3 DEF Within
<1>5. CASE fetches' \subseteq fetches /\ checks' \subseteq checks /\ UNCHANGED spent
  <2>1. /\ IsFiniteSet(fetches') /\ Cardinality(fetches') <= Cardinality(fetches)
        /\ IsFiniteSet(checks') /\ Cardinality(checks') <= Cardinality(checks)
    BY <1>5, FS_Subset DEF Within
  <2>2. /\ Cardinality(fetches') \in Nat /\ Cardinality(fetches) \in Nat
        /\ Cardinality(checks') \in Nat /\ Cardinality(checks) \in Nat
    BY <2>1, FS_CardinalityType DEF Within
  <2>3. spent.fetches \in Nat /\ spent.checks \in Nat
    BY <1>1 DEF Within
  <2> QED BY <1>5, <2>1, <2>2, <2>3 DEF Within
<1> QED BY <1>3, <1>4, <1>5, SpentMoves

(* What is saved can be read back.                                         *)
Loads ==
  /\ save # NoSave => Parses(save.answers)
  /\ workflow \in {NoFile, Theirs} \/ Parses(workflow)

LEMMA ReviewParses ==
  ASSUME SetupShape, AnswersFine, step = "Review"
  PROVE  Parses(Answers)
<1>1. "ServerPort" \in TextSteps \ Secrets /\ "WebhookPort" \in TextSteps \ Secrets
  <2>1. WizardSteps[10] = "ServerPort"
    BY DEF WizardSteps
  <2>2. "ServerPort" \in StepNames
    BY <2>1, NumberIs
  <2> QED BY <2>2, NamesAre DEF TextSteps, Secrets
<1>2. ASSUME NEW s \in TextSteps \ Secrets, s = "WebhookPort" => webhook
      PROVE  Fine(s)
  <2>1. s \in StepNames /\ s # "Review" /\ s # "Success" /\ Number(s) \in 1 .. 14
    BY NumberIs, NamesAre DEF TextSteps
  <2>2. Number(s) # 13 /\ Number(s) # 14
    BY <2>1, NumbersAre, NamesAre
  <2>3. Passed(s)
    BY <1>2, <2>1, <2>2, NumbersAre DEF Passed
  <2> QED BY <2>3 DEF AnswersFine
<1>3. \A s \in {"ServerPort", "WebhookPort"} : Fine(s) => Valid(text[s])
  BY DEF Fine, TakesLine, Accepted, Secrets
<1>4. /\ Answers["ServerPort"] = text["ServerPort"]
      /\ Answers["WebhookPort"] = IF webhook THEN text["WebhookPort"] ELSE "blank"
  BY <1>1 DEF Answers, SetupShape
<1> QED BY <1>1, <1>2, <1>3, <1>4 DEF Parses

LEMMA LoadsKept ==
  ASSUME SetupShape, AnswersFine, Loads, [SetupNext]_setupVars
  PROVE  Loads'
<1>1. CASE UNCHANGED <<save, workflow>>
  BY <1>1 DEF Loads
<1>2. CASE save' = NoSave /\ UNCHANGED workflow
  BY <1>2 DEF Loads
<1>3. ASSUME NEW overwrite, NEW clear, save' = Saves(overwrite, clear), step = "Review", UNCHANGED workflow
      PROVE  Loads'
  <2>1. save'.answers = Answers
    BY <1>3 DEF Saves
  <2> QED BY <1>3, <2>1, ReviewParses DEF Loads
<1>4. CASE SaveLooks \/ SaveWrites \/ SaveFails
  <2>1. save # NoSave /\ save \in Saving
    BY <1>4 DEF SaveLooks, SaveWrites, SaveFails, NoSave, SetupShape
  <2>2. save'.answers = save.answers /\ workflow' \in {workflow, save.answers}
    BY <1>4, <2>1 DEF SaveLooks, SaveWrites, SaveFails, Saving
  <2> QED BY <2>1, <2>2 DEF Loads
<1>5. CASE FileAppears \/ FileGoes
  BY <1>5 DEF FileAppears, FileGoes, Loads
<1>6. ASSUME SetupNext, ~UNCHANGED <<save, workflow>>
      PROVE  \/ Saved \/ SaveLooks \/ SaveWrites \/ SaveFails \/ FileAppears \/ FileGoes \/ Write
             \/ \E yes, overwrite \in BOOLEAN : PromptWrite(yes, overwrite)
  <2>1. ~Walks
    BY <1>6, LeavesWhen, LeavesTo DEF Walks
  <2> QED BY <1>6, <2>1 DEF SetupNext, Wizard, Walks, Commands, Prompts, Back, TypeManually, SelectAgain,
      FetchAgain, Project, Type, Toggle, ConfirmOverwrite, CheckAgain, Abort, Listing, Checked, Prompt,
      PromptWebhook
<1>7. CASE Saved
  BY <1>2, <1>7 DEF Saved
<1>8. CASE Write
  BY <1>3, <1>8 DEF Write, Key
<1>9. ASSUME NEW yes \in BOOLEAN, NEW overwrite \in BOOLEAN, PromptWrite(yes, overwrite)
      PROVE  Loads'
  BY <1>1, <1>3, <1>9 DEF PromptWrite, AsksFor
<1> QED BY <1>1, <1>4, <1>5, <1>6, <1>7, <1>8, <1>9 DEF setupVars

(* SetupTypeOK: what the setup keeps is of its type, and the file that it  *)
(* leaves is theirs or one that can be loaded: a text that the loader      *)
(* would refuse is never written (WriteWorkflow).                          *)
THEOREM SetupTypes == SetupSpec => []SetupTypeOK
<1>1. SetupInit => Within /\ Loads
  <2>1. IsFiniteSet({}) /\ Cardinality({}) = 0
    BY FS_EmptySet
  <2> QED BY <2>1, SetupAssumption DEF SetupAssumption, SetupInit, Within, Loads
<1>2. SetupShape /\ Within /\ Loads /\ (outcome \in {"open", "done", "aborted"}) => SetupTypeOK
  <2> SUFFICES ASSUME SetupShape, Within, Loads, outcome \in {"open", "done", "aborted"}
               PROVE  SetupTypeOK
    OBVIOUS
  <2>1. Cardinality(fetches) <= MaxFetches /\ Cardinality(checks) <= MaxChecks
    <3>1. Cardinality(fetches) \in Nat /\ Cardinality(checks) \in Nat
      BY FS_CardinalityType DEF Within
    <3>2. MaxChecks \in Nat /\ MaxFetches \in Nat
      BY SetupAssumption DEF SetupAssumption
    <3> QED BY <3>1, <3>2 DEF Within
  <2>2. save.stage \in {"none", "stat", "write", "written", "failed"}
    BY DEF SetupShape, Saving, NoSave
  <2>3. list.manual \in BOOLEAN /\ list.loading \in BOOLEAN /\ list.options \in {{}, Projects}
    BY DEF SetupShape, Lists
  <2> QED BY <2>1, <2>2, <2>3 DEF SetupShape, Loads, SetupTypeOK
<1>3. SetupInit => outcome \in {"open", "done", "aborted"}
  BY DEF SetupInit
<1>4. ASSUME SetupShape, outcome \in {"open", "done", "aborted"}, [SetupNext]_setupVars
      PROVE  outcome' \in {"open", "done", "aborted"}
  <2>1. Walks => UNCHANGED outcome
    BY <1>4, LeavesWhen DEF Walks, Leaves, AdvanceStep
  <2> QED BY <1>4, <2>1 DEF SetupNext, Wizard, Walks, Commands, Prompts, Back, TypeManually, SelectAgain,
      FetchAgain, Project, Type, Toggle, ConfirmOverwrite, CheckAgain, Write, Abort, Listing, Checked, SaveLooks,
      SaveWrites, SaveFails, Saved, Prompt, PromptWebhook, PromptWrite, FileAppears, FileGoes, setupVars
<1> DEFINE Inv == SetupShape /\ AnswersFine /\ Within /\ Loads /\ outcome \in {"open", "done", "aborted"}
<1>5. SetupInit => Inv
  BY <1>1, <1>3, ShapeStarts, AnswersStart
<1>6. Inv /\ [SetupNext]_setupVars => Inv'
  BY <1>4, ShapeKept, AnswersKept, WithinKept, LoadsKept
<1>7. Inv => SetupTypeOK
  BY <1>2
<1> HIDE DEF Inv
<1> QED BY <1>5, <1>6, <1>7, PTL DEF SetupSpec
=============================================================================
