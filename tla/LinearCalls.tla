---------------------------- MODULE LinearCalls ----------------------------
(***************************************************************************)
(* The calls of Colin's processes to Linear: the requests of the Linear    *)
(* client (tracker/linear), the OAuth tokens that they present and         *)
(* refresh, and the file .colin/auth.json that the processes share.        *)
(*                                                                         *)
(* A client is made when a workflow is loaded, with the token that the     *)
(* file held then; the runs that began with an older client keep it.  The  *)
(* setup commands are processes of their own beside the daemon.  External: *)
(* Linear, whose refresh tokens can be exchanged once.                     *)
(***************************************************************************)
EXTENDS Naturals, FiniteSets, FiniteSetsExt

CONSTANTS
  Callers,      \* goroutines that call Linear
  Clients,      \* the clients
  Home,         \* caller or client -> its process
  Keyed,        \* the clients made from a workflow with an API key
  Ops,          \* caller -> the operations that it calls
  NoOne,
  Undated,      \* the tokens that come without an expiry time
  FirstHooks,   \* the managed webhooks that the team begins with
  MaxTokens,    \* bound of the state: tokens
  MaxCalls,     \* bound: calls
  MaxAges,      \* bound: steps of time that a token ages by
  MaxFaults     \* bound: lost answers, failed writes, crashes

Operations == {"label", "unlabel", "move", "actor", "hook", "visit", "callback"}
Processes == {Home[k] : k \in Callers}

ASSUME CallsAssumption ==
  /\ NoOne \notin Callers
  /\ Keyed \subseteq Clients
  /\ Ops \in [Callers -> SUBSET Operations]
  /\ {MaxTokens, MaxCalls, MaxAges, MaxFaults} \subseteq Nat

VARIABLES
  live,       \* Linear: the refresh tokens that can be exchanged
  issued,     \* Linear: how many tokens it has issued; the first is token 1
  age,        \* token -> "fresh", "due" (expires within a minute), "expired"
  file,       \* the auth file: its token, its pending OAuth session
  mem,        \* client -> its token; 0 stands for an API key
  mutex,      \* client -> the caller that holds mu of its provider
  fileMu,     \* process -> the caller that holds authFileMu
  call,       \* caller -> its call
  labels,     \* Linear: whether the label exists, and whether the issue has it
  hooks,      \* Linear: the managed webhooks of the team, id -> "good" or "odd"
  cached,     \* clients that cache the label (labelIDs)
  known,      \* clients that cache their actor (actorIdentity)
  mishap,     \* a token was lost on the way to the file
  used        \* bounds: calls, ages, faults; the OAuth sessions begun

vars == <<live, issued, age, file, mem, mutex, fileMu, call, labels, hooks, cached, known,
          mishap, used>>

Tokens == 0..MaxTokens
Requests == {"findLabel", "createLabel", "addLabel", "removeLabel", "states", "updateState",
             "viewer", "team", "webhooks", "deleteWebhook", "createWebhook"}
Mutations == {"createLabel", "addLabel", "removeLabel", "updateState", "createWebhook"}

(* A call: where it stands; its request and what that was answered; the    *)
(* token it presents, why it exchanges one and the one it got; the         *)
(* webhooks still to be deleted; what it read of the file; and the         *)
(* mutations that ran for it, and whether one ran again.                   *)
Idle ==
  [pc |-> "idle", op |-> "none", client |-> NoOne, at |-> "none", answer |-> "none",
   retried |-> FALSE, token |-> 0, why |-> "none", got |-> 0, seen |-> {},
   read |-> [token |-> 0, pending |-> 0], ran |-> {}, again |-> FALSE]

Init ==
  /\ live = {1} /\ issued = 1
  /\ age = [t \in Tokens |-> "fresh"]
  /\ file \in [token : {1}, pending : {0, 1}]
  /\ mem = [c \in Clients |-> IF c \in Keyed THEN 0 ELSE 1]
  /\ mutex = [c \in Clients |-> NoOne]
  /\ fileMu = [p \in Processes |-> NoOne]
  /\ call = [k \in Callers |-> Idle]
  /\ labels \in [exists : {FALSE}, on : {FALSE}] \cup [exists : {TRUE}, on : BOOLEAN]
  /\ hooks = FirstHooks
  /\ cached = {} /\ known = {}
  /\ mishap = FALSE
  /\ used = [calls |-> 0, ages |-> 0, faults |-> 0, visits |-> file.pending]

(* External.  An answer does not come, a write fails, a process dies.      *)
Fault == used.faults < MaxFaults /\ used' = [used EXCEPT !.faults = @ + 1]

----------------------------------------------------------------------------
(* The calls.                                                              *)

(* The first request of an operation; "none" is answered from the cache.   *)
First(op, c) ==
  CASE op = "label" -> IF c \in cached THEN "addLabel" ELSE "findLabel"
    [] op = "unlabel" -> "findLabel"
    [] op = "move" -> "states"
    [] op = "actor" -> IF c \in known THEN "none" ELSE "viewer"
    [] op = "hook" -> "team"

(* doQuery: a request begins with the authorization of its client.         *)
Asks(r, at) == [r EXCEPT !.pc = "auth", !.at = at, !.answer = "none", !.retried = FALSE]

(* A call begins; or it goes on to the next request of its operation.      *)
Begin(k, c, op) ==
  /\ call[k].pc = "idle"
  /\ used.calls < MaxCalls
  /\ op \in Ops[k] \ {"visit", "callback"}
  /\ Home[c] = Home[k]
  /\ First(op, c) # "none"
  /\ used' = [used EXCEPT !.calls = @ + 1]
  /\ call' = [call EXCEPT ![k] = Asks([Idle EXCEPT !.op = op, !.client = c], First(op, c))]
  /\ UNCHANGED <<live, issued, age, file, mem, mutex, fileMu, labels, hooks, cached, known,
                 mishap>>

(* EnsureProjectIssueWebhook: one managed webhook that is as it should be  *)
(* stays; any others are deleted, one after another, and one is created.   *)
AsItShouldBe(r) == Cardinality(r.seen) = 1 /\ \A h \in r.seen : hooks[h] = "good"
AfterAll(r) ==
  IF r.answer = "good" THEN "none" ELSE IF r.seen = {} THEN "createWebhook" ELSE "deleteWebhook"


(* Mutant: the new webhook is created once one of the others is deleted.   *)
AfterOne(r) ==
  IF r.answer = "good" THEN "none"
  ELSE IF r.seen = {} \/ r.at = "deleteWebhook" THEN "createWebhook" ELSE "deleteWebhook"

AfterHooks(r) == AfterAll(r)

(* AddIssueLabel and RemoveIssueLabel look the label up; a missing one is  *)
(* created to be added, and is not removed.                                *)
AfterLabel(r) ==
  CASE r.op = "label" /\ r.at = "findLabel" -> IF r.answer = "yes" THEN "addLabel" ELSE "createLabel"
    [] r.op = "label" /\ r.at = "createLabel" /\ r.answer = "yes" -> "addLabel"
    [] r.op = "unlabel" /\ r.at = "findLabel" /\ r.answer = "yes" -> "removeLabel"
    [] OTHER -> "none"

(* UpdateIssueState looks up the state of that name.                       *)
AfterStates(r) == IF r.answer = "yes" THEN "updateState" ELSE "none"

(* The project has to have one team.                                       *)
AfterTeam(r) == IF r.answer = "yes" THEN "webhooks" ELSE "none"

(* The request that follows an answer; "none" ends the call.               *)
Follows(r) ==
  CASE r.at \in {"findLabel", "createLabel"} -> AfterLabel(r)
    [] r.at = "states" -> AfterStates(r)
    [] r.at = "team" -> AfterTeam(r)
    [] r.at \in {"webhooks", "deleteWebhook"} /\ r.answer # "no" -> AfterHooks(r)
    [] OTHER -> "none"

(* ensureIssueLabelID and ActorIdentity keep what they found.              *)
Caches(r) == r.op = "label" /\ Follows(r) = "addLabel"
Knows(r) == r.at = "viewer" /\ r.answer = "yes"

----------------------------------------------------------------------------
(* The tokens.                                                             *)

(* needsRefresh                                                            *)
NeedsRefresh(t) == t \notin Undated \cup {0} /\ age[t] # "fresh"

(* Authorization and Refresh take mu, and hold it while a token is         *)
(* exchanged.  An API key cannot be refreshed: the 401 stands.             *)
Takes(k, c) == mutex' = [mutex EXCEPT ![c] = k]

Authorization(k) ==
  LET c == call[k].client
  IN  /\ call[k].pc = "auth" /\ mutex[c] = NoOne
      /\ IF NeedsRefresh(mem[c])
         THEN Takes(k, c) /\ call' = [call EXCEPT ![k].pc = "exchange", ![k].why = "due"]
         ELSE /\ call' = [call EXCEPT ![k].pc = "send", ![k].token = mem[c]]
              /\ UNCHANGED mutex
      /\ UNCHANGED <<live, issued, age, file, mem, fileMu, labels, hooks, cached, known, mishap,
                     used>>

Refresh(k) ==
  LET c == call[k].client
  IN  /\ call[k].pc = "refresh" /\ mutex[c] = NoOne
      /\ IF mem[c] = 0
         THEN call' = [call EXCEPT ![k] = Idle] /\ UNCHANGED mutex
         ELSE Takes(k, c) /\ call' = [call EXCEPT ![k].pc = "exchange", ![k].why = "401"]
      /\ UNCHANGED <<live, issued, age, file, mem, fileMu, labels, hooks, cached, known, mishap,
                     used>>

(* The end of what a caller held; a failed exchange ends the call.         *)
FreeMutex(k) == mutex' = [c \in Clients |-> IF mutex[c] = k THEN NoOne ELSE mutex[c]]

(* Mutant: an error path without the deferred unlock.                      *)
KeepsMutex(k) == UNCHANGED mutex

Unlocks(k) == FreeMutex(k)

(* External: Linear's token endpoint takes a refresh token once, and gives *)
(* a new pair; a code of the authorize page begins another line of tokens. *)
Grant(k) ==
  LET t == IF call[k].why = "code" THEN 0 ELSE mem[call[k].client]
      n == issued + 1
  IN  /\ call[k].pc = "exchange"
      /\ \/ /\ call[k].why = "code" \/ t \in live
            /\ live' = (live \ {t}) \cup {n}
            /\ issued' = n
            /\ call' = [call EXCEPT ![k].pc = "granted", ![k].got = n]
            /\ UNCHANGED mutex
         \/ /\ call[k].why # "code" /\ t \notin live
            /\ call' = [call EXCEPT ![k] = Idle]
            /\ Unlocks(k)
            /\ UNCHANGED <<live, issued>>
      /\ UNCHANGED <<age, file, mem, fileMu, labels, hooks, cached, known, mishap, used>>

(* exchangeOAuthToken or, after a code, the viewer query fails.            *)
LoseGrant(k) ==
  /\ call[k].pc \in {"exchange", "granted"}
  /\ Fault
  /\ call' = [call EXCEPT ![k] = Idle]
  /\ Unlocks(k)
  /\ mishap' = (mishap \/ (call[k].pc = "granted" /\ call[k].why # "code"))
  /\ UNCHANGED <<live, issued, age, file, mem, fileMu, labels, hooks, cached, known>>

(* What an update of the file makes of what it read.                       *)
Updated(k) ==
  CASE call[k].why = "visit" -> [call[k].read EXCEPT !.pending = call[k].got]
    [] call[k].why = "code" -> [token |-> call[k].got, pending |-> 0]
    [] OTHER -> [call[k].read EXCEPT !.token = call[k].got]

(* RefreshStoredAuth: the client keeps the new token.                      *)
Renewed(k) == [mem EXCEPT ![call[k].client] = call[k].got]

(* UpdateAuthFile, under authFileMu, reads the file and then replaces it.  *)
ReadFile(k) ==
  /\ call[k].pc = "granted"
  /\ fileMu[Home[k]] = NoOne
  /\ fileMu' = [fileMu EXCEPT ![Home[k]] = k]
  /\ mem' = IF call[k].why \in {"due", "401"} THEN Renewed(k) ELSE mem
  /\ call' = [call EXCEPT ![k].pc = "writing", ![k].read = file]
  /\ UNCHANGED <<live, issued, age, file, mutex, labels, hooks, cached, known, mishap, used>>

(* Authorization goes on with the token; after a 401 the request is sent   *)
(* once more, from the start.  The setup pages are done.                   *)
Resumes(k) ==
  CASE call[k].why = "due" -> [call[k] EXCEPT !.pc = "send", !.token = mem[call[k].client]]
    [] call[k].why = "401" -> [call[k] EXCEPT !.pc = "auth", !.retried = TRUE]
    [] OTHER -> Idle

(* The mutex is one process's: another may be in the middle of its update. *)
Overlap(k) == \E j \in Callers : Home[j] # Home[k] /\ call[j].pc = "writing"

Stored(k) == file' = Updated(k)

(* Mutant: only Refresh stores the token, Authorization keeps it in memory.*)
StoredOn401(k) == file' = IF call[k].why = "due" THEN file ELSE Updated(k)

Stores(k) == Stored(k)

WriteFile(k) ==
  /\ call[k].pc = "writing"
  /\ Stores(k)
  /\ fileMu' = [fileMu EXCEPT ![Home[k]] = NoOne]
  /\ Unlocks(k)
  /\ call' = [call EXCEPT ![k] = Resumes(k)]
  /\ known' = IF call[k].why = "401" THEN known \ {call[k].client} ELSE known
  /\ mishap' = (mishap \/ Overlap(k))
  /\ UNCHANGED <<live, issued, age, mem, labels, hooks, cached, used>>

(* The write fails: the client has the new token and the file the old one. *)
WriteFails(k) ==
  /\ call[k].pc = "writing"
  /\ Fault
  /\ fileMu' = [fileMu EXCEPT ![Home[k]] = NoOne]
  /\ Unlocks(k)
  /\ call' = [call EXCEPT ![k] = Idle]
  /\ mishap' = (mishap \/ call[k].why \in {"due", "401"})
  /\ UNCHANGED <<live, issued, age, file, mem, labels, hooks, cached, known>>

----------------------------------------------------------------------------
(* The requests.                                                           *)

(* External: what Linear does with a request, and answers.                 *)
Run(k) ==
  LET r == call[k]
      Answer(a) == call' = [call EXCEPT ![k].pc = "answered", ![k].answer = a,
                              ![k].ran = IF r.at \in Mutations THEN @ \cup {r.at} ELSE @,
                              ![k].again = @ \/ r.at \in r.ran]
      One == CHOOSE h \in r.seen : TRUE
      Fresh == Max(DOMAIN hooks \cup {0}) + 1
  IN  CASE r.at = "findLabel" ->
             Answer(IF labels.exists THEN "yes" ELSE "no") /\ UNCHANGED <<labels, hooks>>
        [] r.at = "createLabel" ->
             /\ Answer(IF labels.exists THEN "no" ELSE "yes")
             /\ labels' = [labels EXCEPT !.exists = TRUE] /\ UNCHANGED hooks
        [] r.at \in {"addLabel", "removeLabel"} ->
             /\ Answer("yes")
             /\ labels' = [labels EXCEPT !.on = r.at = "addLabel"] /\ UNCHANGED hooks
        [] r.at = "webhooks" ->
             /\ call' = [call EXCEPT ![k].pc = "answered", ![k].seen = DOMAIN hooks,
                           ![k].answer = IF AsItShouldBe([r EXCEPT !.seen = DOMAIN hooks])
                                         THEN "good" ELSE "yes"]
             /\ UNCHANGED <<labels, hooks>>
        [] r.at = "deleteWebhook" ->
             /\ hooks' = [h \in DOMAIN hooks \ {One} |-> hooks[h]]
             /\ call' = [call EXCEPT ![k].pc = "answered", ![k].seen = @ \ {One},
                           ![k].answer = IF One \in DOMAIN hooks THEN "yes" ELSE "no"]
             /\ UNCHANGED labels
        [] r.at = "createWebhook" ->
             /\ Answer("yes") /\ UNCHANGED labels
             /\ hooks' = [h \in DOMAIN hooks \cup {Fresh} |-> IF h = Fresh THEN "good" ELSE hooks[h]]
        [] OTHER ->
             /\ \E a \in {"yes", "no"} : Answer(a)
             /\ UNCHANGED <<labels, hooks>>

(* External: Linear answers 401 to a token that has expired.               *)
Serve(k) ==
  /\ call[k].pc = "send"
  /\ IF age[call[k].token] = "expired"
     THEN /\ call' = [call EXCEPT ![k].pc = "answered", ![k].answer = "401"]
          /\ UNCHANGED <<labels, hooks>>
     ELSE Run(k)
  /\ UNCHANGED <<live, issued, age, file, mem, mutex, fileMu, cached, known, mishap, used>>

(* doQueryPayload retries after a 401, once, and after nothing else: the   *)
(* request or its answer is lost, or the 30 seconds of the client pass.    *)
Again(k) == Idle

(* Mutant: a request that got no answer is sent once more.                 *)
AgainWhenLost(k) ==
  IF call[k].retried THEN Idle ELSE [call[k] EXCEPT !.pc = "auth", !.retried = TRUE]

WhenLost(k) == Again(k)

Lose(k) ==
  /\ call[k].pc \in {"send", "answered"}
  /\ Fault
  /\ call' = [call EXCEPT ![k] = WhenLost(k)]
  /\ UNCHANGED <<live, issued, age, file, mem, mutex, fileMu, labels, hooks, cached, known, mishap>>

(* The client takes the answer of a request.                               *)
Receive(k) ==
  LET r == call[k]
  IN  /\ r.pc = "answered"
      /\ \/ /\ r.answer = "401"
            /\ call' = [call EXCEPT ![k] = IF r.retried THEN Idle ELSE [r EXCEPT !.pc = "refresh"]]
            /\ UNCHANGED <<cached, known>>
         \/ /\ r.answer # "401"
            /\ call' = [call EXCEPT ![k] = IF Follows(r) = "none" THEN Idle ELSE Asks(r, Follows(r))]
            /\ cached' = IF Caches(r) THEN cached \cup {r.client} ELSE cached
            /\ known' = IF Knows(r) THEN known \cup {r.client} ELSE known
      /\ UNCHANGED <<live, issued, age, file, mem, mutex, fileMu, labels, hooks, mishap, used>>

----------------------------------------------------------------------------
(* The pages that connect the Linear app (linear_oauth_http.go).           *)

(* The setup page begins an OAuth session and puts it in the file.         *)
Visit(k) ==
  /\ call[k].pc = "idle" /\ "visit" \in Ops[k]
  /\ used.calls < MaxCalls
  /\ used' = [used EXCEPT !.calls = @ + 1, !.visits = @ + 1]
  /\ call' = [call EXCEPT ![k] = [Idle EXCEPT !.pc = "granted", !.op = "visit", !.why = "visit",
                                              !.got = used.visits + 1]]
  /\ UNCHANGED <<live, issued, age, file, mem, mutex, fileMu, labels, hooks, cached, known, mishap>>

(* A callback: only that of the session in the file exchanges its code.    *)
Callback(k, state) ==
  /\ call[k].pc = "idle" /\ "callback" \in Ops[k]
  /\ used.calls < MaxCalls
  /\ file.pending # 0 /\ state = file.pending
  /\ used' = [used EXCEPT !.calls = @ + 1]
  /\ call' = [call EXCEPT ![k] = [Idle EXCEPT !.pc = "exchange", !.op = "callback", !.why = "code"]]
  /\ UNCHANGED <<live, issued, age, file, mem, mutex, fileMu, labels, hooks, cached, known, mishap>>

----------------------------------------------------------------------------
(* The clients and their processes.                                        *)

(* loadRuntime makes a client from the file, whatever calls are under way. *)
Load(c) ==
  /\ \A k \in Callers : call[k].client # c
  /\ c \notin Keyed /\ file.token # mem[c]
  /\ mem' = [mem EXCEPT ![c] = file.token]
  /\ cached' = cached \ {c} /\ known' = known \ {c}
  /\ UNCHANGED <<live, issued, age, file, mutex, fileMu, call, labels, hooks, mishap, used>>

(* A process dies and starts again; the file is always a whole one.        *)
Crash(p) ==
  LET gone == {k \in Callers : Home[k] = p}
      made == {c \in Clients : Home[c] = p}
  IN  /\ Fault
      /\ call' = [k \in Callers |-> IF k \in gone THEN Idle ELSE call[k]]
      /\ mutex' = [c \in Clients |-> IF c \in made THEN NoOne ELSE mutex[c]]
      /\ fileMu' = [fileMu EXCEPT ![p] = NoOne]
      /\ mem' = [c \in Clients |-> IF c \in made \ Keyed THEN file.token ELSE mem[c]]
      /\ cached' = cached \ made /\ known' = known \ made
      /\ mishap' = (mishap \/ \E k \in gone : call[k].pc \in {"granted", "writing"}
                                             /\ call[k].why \in {"due", "401"})
      /\ UNCHANGED <<live, issued, age, file, labels, hooks>>

(* External: time passes for a token that is in use; a key is revoked.     *)
Age(t) ==
  /\ \/ \E c \in Clients : mem[c] = t
     \/ \E k \in Callers : call[k].pc = "send" /\ call[k].token = t
  /\ used.ages < MaxAges
  /\ age[t] # "expired"
  /\ used' = [used EXCEPT !.ages = @ + 1]
  /\ age' = [age EXCEPT ![t] = IF @ = "fresh" /\ t # 0 THEN "due" ELSE "expired"]
  /\ UNCHANGED <<live, issued, file, mem, mutex, fileMu, call, labels, hooks, cached, known, mishap>>

----------------------------------------------------------------------------
(* What a caller does by itself, or gets done within a timeout.            *)
Step(k) ==
  \/ Authorization(k) \/ Refresh(k) \/ ReadFile(k) \/ WriteFile(k)
  \/ Serve(k) \/ Receive(k)

Next ==
  \/ \E k \in Callers : Step(k) \/ Grant(k) \/ LoseGrant(k) \/ WriteFails(k) \/ Lose(k) \/ Visit(k)
  \/ \E k \in Callers, c \in Clients, op \in Operations : Begin(k, c, op)
  \/ \E k \in Callers, s \in 1..used.visits : Callback(k, s)
  \/ \E c \in Clients : Load(c)
  \/ \E p \in Processes : Crash(p)
  \/ \E t \in Tokens : Age(t)

(* Callers run, a request is answered within 30 seconds or given up, and   *)
(* mu is handed on.  Nothing is assumed of the token endpoint, which the   *)
(* code asks without a timeout: an exchange may wait forever.              *)
Spec == Init /\ [][Next]_vars /\ \A k \in Callers : WF_vars(Step(k))

----------------------------------------------------------------------------
(* Properties.                                                             *)

TypeOK ==
  /\ live \subseteq 1..MaxTokens /\ issued \in 1..MaxTokens
  /\ age \in [Tokens -> {"fresh", "due", "expired"}]
  /\ file \in [token : Tokens, pending : 0..(MaxCalls + 1)]
  /\ mem \in [Clients -> Tokens]
  /\ mutex \in [Clients -> Callers \cup {NoOne}] /\ fileMu \in [Processes -> Callers \cup {NoOne}]
  /\ \A k \in Callers : call[k].pc \in {"idle", "auth", "refresh", "exchange", "granted", "writing",
                                        "send", "answered"}
  /\ labels \in [exists : BOOLEAN, on : BOOLEAN]
  /\ cached \cup known \subseteq Clients /\ mishap \in BOOLEAN

(* Whatever the callers, reloads and restarts, the file holds a refresh    *)
(* token that Linear still takes, or a caller is bringing it the next one, *)
(* so that a reload gets a locked-out client in again.  Only a lost answer *)
(* or write, a crash in between, or two processes that update the file at  *)
(* the same time undo that (auth_provider.go, oauth.go).                   *)
FileKeepsUp ==
  \/ file.token \in live
  \/ \E k \in Callers : call[k].pc \in {"granted", "writing"} /\ call[k].why \in {"due", "401"}
  \/ mishap

(* Two calls of one client that find the token expired do not both present *)
(* it: a client that presents a token Linear no longer takes has been      *)
(* overtaken by another client, or its own last answer was lost.           *)
NoTokenTwice ==
  \A k \in Callers :
    call[k].pc = "exchange" /\ call[k].why # "code" /\ mem[call[k].client] \notin live =>
      \/ mishap
      \/ mem[call[k].client] # file.token
      \/ \E j \in Callers : call[j].client # call[k].client /\ call[j].pc \in {"granted", "writing"}

(* A client is locked out of Linear only for a cause: see above.           *)
LockoutHasCause == FileKeepsUp /\ NoTokenTwice

(* A mutation of a call runs at most once at Linear, whatever is lost or   *)
(* refreshed on the way (client.go, doQueryPayload).                       *)
ExecutedOnce == \A k \in Callers : ~call[k].again

(* A webhook setup that gets to its end leaves the team exactly one        *)
(* managed webhook, a good one, however the earlier ones were cut short    *)
(* (webhooks.go, EnsureProjectIssueWebhook).                               *)
SetsUp(k) ==
  /\ call[k].op = "hook" /\ call[k].pc = "answered" /\ call'[k] = Idle
  /\ \/ call[k].at = "createWebhook" /\ call[k].answer = "yes"
     \/ call[k].at = "webhooks" /\ call[k].answer = "good"
OneWebhook ==
  [][\A k \in Callers : Receive(k) /\ SetsUp(k) =>
       /\ Cardinality(DOMAIN hooks') = 1
       /\ \A h \in DOMAIN hooks' : hooks'[h] = "good"]_vars

(* Every call ends, also when many wait for one refresh, unless the token  *)
(* endpoint leaves one of them without an answer: a call that failed, or   *)
(* was answered, or died keeps nobody out (client.go, mu of the provider). *)
Busy == \E k \in Callers : call[k].pc # "idle"
EndpointAnswers == \A k \in Callers : []<>(call[k].pc # "exchange")
CallsEnd == EndpointAnswers => (Busy ~> ~Busy)

(* SPEC.md, 11.2: "Network timeout: `30000 ms`".  So every call to Linear  *)
(* ends, whatever Linear does.                                             *)
CallsTimeOut == Busy ~> ~Busy
============================================================================
