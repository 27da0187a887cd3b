# Colin: TLA+ models, checks and proofs

Colin watches the issues of Linear projects and works on them: it dispatches a
Codex agent for an issue in an active state, publishes the result as a pull
request in `Review`, brings the issue back when a reviewer leaves feedback, and
merges it from `Merge`. This directory models the parts of that program whose
correctness depends on the order of events, checks them with TLC on small
instances, and proves the invariants of several of them with TLAPS for every
instance.

Paths below are relative to the repository (`src/`), and `orchestrator/` stands
for `internal/orchestrator/`.

## 1. The system

| Component | State | Operations | Module |
|---|---|---|---|
| Scheduling core (`orchestrator/orchestrator.go`, `dispatch.go`, `retry.go`, `types.go`) | maps `running`, `claimed`, `retrying`, `completed`; flags `draining`, `shutdownRequested`; the runtime settings; the channel `eventCh` | tick, dispatch, retry, worker exit, Codex event, drain, reload, shutdown | `Scheduler` |
| Refresh queue (`RequestRefresh`), watcher and webhook handlers (`internal/service`, `internal/app`), runtime screen (`internal/tui`) | `refreshReady`, `refreshPending`, `shutdownRequested`, the event channel, the known version of `WORKFLOW.md` | wake up, coalesce, reload, drain, stop | `Service` |
| Review follow-up (`github_reaction.go`, `github_checks.go`, `review_sync.go`) | the metadata record of an issue: pending follow-up, queue, reaction watermarks, check state | scan a pull request, queue, start, roll back, prepare, repair checks | `ReviewFollowUp` |
| Runner (`internal/automation/runner.go`), coding and publish runs; exec plans (`internal/execplan`) | a copy of the issue and its metadata for one run; the plan in Linear and its working copy | plan, turns, handoff, answers to review threads | `CodingRun` |
| Runner, merge runs; repository operations (`internal/repoops`); loop guard (`loop_guard.go`); GitHub client | git branch, pull request, attempt counter, failure fingerprint and count | review gate, publish, merge, repair, validate, pause | `MergeRun` |
| Codex app-server client (`internal/agent/codex`) and the usage totals of the core | process, thread, turn, what a turn leaves; the counters of the session | start, run a turn, time out, stop, add up usage | `CodexTurn` |
| Workspace manager (`internal/workspace`) | one directory per issue, one shared repository, a mutex | ensure, run hooks, clean up, remove | `Workspace` |
| Metadata store (`internal/tracker/linear/client.go`), Slack summaries (`orchestrator/slack.go`, `internal/notify/slack`), delegation acknowledgements (`internal/service/service.go`) | metadata attachments of an issue, the copies its writers hold, `recentDelegationAcks` | read, upsert, post or update a message, acknowledge | `Metadata` |
| Linear client, OAuth, webhook setup (`internal/tracker/linear`) and the connect pages (`internal/service/linear_oauth_*.go`) | tokens in memory and in `.colin/auth.json`, `mu`, `authFileMu`, caches | authorize, refresh, retry after a 401, move, label, set up webhooks | `LinearCalls` |
| Bootstrap (`internal/bootstrap`) | the answers, the lists and reports asked for, the file | type, advance, go back, check, write; line prompts | `SetupWizard` |

`PROJECT.json` lists every component with its sources and what is left out;
section 7 says what has no model.

How they interact: the orchestrator is **one goroutine** that owns its maps
without a lock. It alternates between ticks (a timer) and events of one FIFO
channel of 256. Worker goroutines, retry timers, the workflow watcher and the
HTTP server reach it only through that channel, except for the atomic flags
`shutdownRequested`, `refreshReady` and `refreshPending`. A worker runs
`Runner.Run` for one issue: it prepares the workspace, drives Codex through the
app-server client, and publishes or merges through the repository operations.
Four things are shared with everybody: the Linear board, which humans, workers
and the loop all write without compare-and-set; the metadata record, which the
loop, the runner and the webhook handlers write as a whole from copies of their
own; the shared git repository behind the worktrees; and the auth file, which
several processes replace.

What is hard: the loop waits on Linear and GitHub in the middle of a tick, so
what it read is stale when it is used; an exit, a Codex event or a timer may
arrive after the thing it is about was dropped; a stopped worker lives on until
it notices; every remote write may fail alone, or work and report an error; a
restart forgets the maps and keeps the board; the channel may be full when a
shutdown is requested; a refresh token can be used once and its successor may
get lost; answers of the wizard's commands arrive after the answers they were
about. The `hazards` of `PROJECT.json` name each at its line with the properties
that would catch it.

## 2. Modules

| Module | Models |
|---|---|
| `Scheduler` | the scheduling core with its goroutines, timers and the board |
| `IssueClaims` | abstract specification: what the core promises about claims (SPEC.md 7.1) |
| `SchedulerClaims` | the refinement mapping from `Scheduler` to `IssueClaims` |
| `ReviewFollowUp` | the life of review feedback on one issue, from the scan to the answer |
| `CodingRun` | the inside of a coding run: plan, turns, answers to threads, verdict, handoff |
| `MergeRun` | the merge runs of one issue, with publication, repair, retries and the loop guard |
| `Workspace` | worktrees made, taken up, cleaned up and removed by several callers |
| `Service` | one process: loop, channel, webhook handlers, watcher, runtime screen |
| `Metadata` | the metadata attachment of one issue and the things said once because of it |
| `CodexTurn` | the app-server client of one issue's runs, and the loop's token totals |
| `LinearCalls` | the calls of several processes to Linear, their tokens and the auth file |
| `SetupWizard` | `colin config`: the wizard and the line prompts |
| `MC...` | instances for TLC; `CodexTurn` and `SetupWizard` need none |
| `..._proofs` | the theorems (section 6), a module of them per component; `Linear_proofs` has those of `LinearCalls`, `Metadata` and `SetupWizard` |

The models look at the same program at different depths and share no variables.
`Scheduler` has many issues and takes a run as one of its possible results;
`CodingRun` and `MergeRun` have one issue and show which results a run has;
`ReviewFollowUp` has what brings an issue back from `Review`, which `CodingRun`
keeps as one action; `Service` has what wakes and ends the loop whose ticks
`Scheduler` models; `Workspace`, `CodexTurn`, `Metadata` and `LinearCalls` open
what the runs use as single calls.

### Scheduler

`entry` is the map `running` (the state the run was dispatched in, the state
the entry holds now, the reason it was stopped for), `claimed`, `retrying` and
`completed` are the maps of the same name, `worker` and `timers` the goroutines
that will still send on `eventCh`, `starting` the workers that have not made
their opening move. `phase` cuts `handleTick` where it waits for Linear or
GitHub: `TickReconcile` (reconcileRunning), `TickPoll`, one `Visit...` action per
candidate, `TickTrack`, `TickSync`, one `FollowUp...` action per issue that was
brought back, `TickDone`. Everything between two such points is one step, which
is sound because only the loop touches its maps. Each event has its handler:
`HandleCodex`, five `Exit...` actions for the branches of `handleWorkerExit`, four
`Retry...` actions for `handleRetry`, `HandleDrain`, `HandleConfig`. `Environment`
holds what others do: humans move and hold issues at any time, a drain is
requested, settings are reloaded, the process is stopped or restarted.

A worker is reduced to what the scheduler can see of `Runner.Run`: its opening
move, the events that carry a state, and its result. `Results` lists, per kind of
run, the outcomes the code can return. A cancelled run may still deliver any of
them, because cancellation reaches it only at its next context check.

Abstractions: priorities and dates are a fixed `Rank`; delays are left out (a
timer may fire any time); `held` joins the three reasons an issue is not to be
dispatched; the request budget may refuse anything at any time; token totals and
refresh requests are the subject of `CodexTurn` and `Service`; the stop reasons
`non_dispatchable` and `state_mismatch`, which are treated alike, are `released`.

### IssueClaims

An issue is unclaimed, running or queued for a retry. A run starts only while
new work is accepted and a slot is free; its worker ends once; only then is the
run concluded. After a shutdown request no run starts until the process is new.
`SchedulerClaims` reads that off the maps and TLC and TLAPS show that every step
of the scheduler is a step of it.

### ReviewFollowUp

One issue with a pull request. `stored` is the metadata record in Linear, `loop`
is where the event loop stands and the copy of the record it holds, `run` is a
coding run with the worker's copy (`meta`) and the running entry's copy
(`entry`). `last` says who wrote the last comment of each open thread, which is
what `isHumanReviewFeedbackThread` decides by; `liked` are the collaborators' +1
reactions, numbered in the order GitHub gave them. A scan prunes, raises the
watermarks, queues and takes the next follow-up; `PersistScan`, `StartMoves` and
`Rollback` are separate steps because each is a remote call that may fail; the
checks of the pull request follow in the same tick; `Prepare...` are the branches
of `prepareReviewIssue`; `Run...` follow the end of a coding run up to the handoff.
`authorized` and `repaired` are history variables: a human, or a failing check,
moved the issue to Todo since Colin last put it in Review. `lost` records what a
rollback took out. `paused` is the label of the loop guard: a failed run may set it
(the counting is in `MergeRun`), a person sets and removes it, and Colin leaves a
paused issue alone.

`PutBack` models an aliasing of the code: the record to restore is a struct copy
that shares its watermark map with the record the scan wrote to, unless there
was no map yet. Threads that Colin may not reply to or resolve, which the scan
skips, and the delays between review-sync polls are left out. A missing
watermark is 0. Every remote failure the code handles has an action, and every run
of this module has them all; `steady` is set, in `FairSpec` alone, when they stop.

### CodingRun

One issue. `run` is the coding run: where it is (`at`), the local variables of
`Runner.Run` (the turn, `noDiffReadyCount`, `maxTurnsReached`, `forcedSummary`), the
working copy of the ExecPlan (`file`) and the progress parsed from it, the last
message of Codex (`said`) and the threads still to answer (`batch`). `issue` is
the runner's copy of the issue, `board`, `plan`, `duplicated`, `decision` and
`target` what Linear stores, `open` the unresolved threads on GitHub, `diff` what
`ReviewableArtifact` would say. `late` is a history variable: the threads opened
since the run last verified them.

The actions follow the code from top to bottom: `Dispatch` with the threads that
`prepareReviewIssue` found, `OpeningMove`, `DuplicatePlans`, `Decide`, `WritePlan`,
`CopyPlan`, then `Turn`, `SyncPlan`, `Refresh` and `Judge` once per turn, `Finalize`,
`Reply` or `ReplyFails` per thread and `Verify` (finalizeReviewThreads), `Record`,
`Handoff`. Each is at most one remote call, and `Fails` may take its place:
the call fails, the run is cancelled, or the process dies. A move that reports
an error may have been applied. Codex may leave any diff, any plan and any
message. `Publish` is the publish run, `HumanMove`, `HumanPlans`, `ThreadOpened`
and `ThreadClosed` the people, `FollowUp` the way back from `Review`.

Abstractions: a plan is the number of its open tasks, or unreadable; a message is
one of nothing, an outcome line, or text; the decision of the plan and its
writing are a turn each, whose edits of the workspace the first coding turn
subsumes; people do not edit the stored plan; metadata other than the plan
decision and the pending thread is left out.

### MergeRun

One issue in `Merge`. A branch is what it contains: how many commits of the base
branch and which changes; containment is git's ancestry. `local` and `dirty` are
the workspace, `remote`, `base`, `landed`, `pr` and `codex` GitHub, `board`,
`paused` and `loop` Linear (the loop guard's fingerprint and count are in the
metadata), `run` the merge run with the local variables of `Runner.Run` and
`handleRecoverableMergeFailure`, `entry` what the orchestrator keeps of the issue
between runs. `GateBlocks` and `GatePasses` are the review gate, `Look`, `Push` and
`Open` the publication, `MergeWorks`, `AlreadyMerged` and `Refused` the merge with
`classifyMergeFailure`, `RepairTurn` and `Validate` the repair, after which the
run passes through gate and publication again, `PostMergeMove` the end. The ways a
run ends (`EndBlocked`, `EndSucceeded`, `EndFailed`) include what
`handleWorkerExit` and the loop guard make of them, because the next run starts
from that. A rejected push is rebased onto the remote branch (`Rebased`), which
copies the changes and keeps of the base what the remote branch contains. A repair
whose validation fails or cannot be made goes to `Review`. Any other call may fail,
or work and report an error (`Fault`); people push, merge, close, move and unpause,
Codex reviews, the base moves: all of these draw on the bound `Events`.

### Workspace

`call` is where each caller stands in `Ensure`: the workers (one per issue), and
the loop, whose label sync calls `Ensure` too and which alone calls `Remove`.
`lock` is `gitSetup`, one per `Manager`, because a reload makes a new one while
workers keep theirs. `repo` is the shared checkout, `local` its branches, `dir`,
`head`, `dirty` and `setup` the directories. Git is external: a branch is checked
out in one worktree at most, and `worktree add` refuses accordingly. A stop
cancels the context of a worker, which makes its next command fail but also its
clean-up. A start finds the workspaces of issues that became terminal before it.
The loop may come to the directory that a worker is making, and the worker to that
of the loop. `hist` records the issues that were terminal, the directories that an
interrupted call left (`cut`), and those that the loop took away while a worker
prepared them (`undone`).

### Service

A tick is three steps: `Tick` takes what woke it, `Fetch` lists the issues or goes
without (the request budget), and `EndTick` ends it, also early (a drain, a
refused configuration, a fetch that failed). `queue` is `eventCh`, `pending`,
`ready` and `wanted` the atomic flags, `handler` where each webhook delivery's
handler is and what it answered, `watch` the watcher of `WORKFLOW.md`, `config`
what the loop works with, `screen` the runtime screen with what its last refresh
showed. `Request` and `SendWakeUp` are the two halves of `RequestRefresh`, between
which other handlers run. `Arrive` decides as `shouldTrigger...` and
`shouldQueueImmediate...` do. `ReadPrompt` and `ReadConfig` are the two reads of
the file in `loadRuntime`, between which it may change. `Idle` is what the screen
takes for an idle orchestrator: the cached snapshot.

### Metadata

The attachments of one issue in the order of their last update, with the base
URL each was made under. `loop`, `worker` and `handler` each carry a copy of the
whole value through read, work, find and put. `Slack` messages are numbered; the
fingerprint of the last one is the state it shows. `reserved` are the states in
`recentDelegationAcks`, and `Expire` forgets one. `Rebase` changes the base URL
(Tailscale on or off), after which an update goes to the old attachment and a
read fills blank Slack fields from older ones. The thought that is posted for an
agent session beside the acknowledgement writes no metadata and makes no
reservation; it is left out. The specification is `MetaSpec`
(`SetupSpec` in `SetupWizard`), so that one module of proofs can extend both of
them and `LinearCalls`.

`OneMessageWhileRunning` speaks of the message that the sync works with, not of
every message: a person deletes message 1, the loop posts and records message
2, the worker's old copy brings the id of 1 back to Linear, and in
`mergeKnownSlackIssueContext` the value of Linear wins over the entry's. The
sync then finds 1 deleted and posts a third, though 2 stands.

### CodexTurn

`server` and `stream` are the app-server and what it said that was not read yet;
`client` is the client's phase, thread, turn and what the turn leaves: result,
outcome line, last completed text. `events` is the channel to the loop, `entry`
the running entry's counters, `totals` the loop's. The server may say anything the
client has a case for, repeat its totals, be silent, or die.

### LinearCalls

`mem` is the token each client holds, `file` the auth file, `live` the refresh
tokens that Linear still takes (each can be exchanged once), `age` what
`needsRefresh` and a 401 look at. `call` is where each goroutine stands:
authorization, exchange, update of the file under `authFileMu`, request, answer.
A client belongs to a process, and `Load` gives it the token of the file at any
time that it is idle. `Follows` is the request that comes next in each operation
(labels, moves, webhook setup, actor), `Run` what Linear does with it. The token
endpoint may answer, lose its answer, or never answer. `mishap`
is a history variable: a token was lost on the way to the file.

### SetupWizard

`step`, `text`, `webhook`, `list`, `review` are the fields of `tuiModel` (or the
prompts' position), `fetches`, `checks` and `save` the commands under way, each
with the copy of the answers it was started with, `workflow` what is at the
workflow's path. Values are blank, odd (of the wrong form) or good. The prompts
of a script share the state, so that both ways of writing the file meet one
property. Other programs put a file at the path and take it away at any time, and
each look for it may fail. Two history fields say why a save may overwrite:
`review.said`, the operator toggled the confirmation or answered the question (the
code's `overwriteConfirmed` is also true when no file was there), and `save.clear`,
the last look found no file.

## 3. Runs

All runs finish within five minutes with two workers. Deadlock is checked in the
runs of `ReviewFollowUp`, `CodingRun` and `Workspace`; elsewhere the system may
stop: the loop ends after a shutdown, an issue is merged, an operator does
nothing, the bounded calls are over.

| Run | Instance | Shows |
|---|---|---|
| `sched_slots` | two issues, the second blocked by the first, two slots, one merge slot, channel of one, one restart | `ClaimsExact`, `TimerBehindRetry`, `MergeSerialized`, `ImplementsClaims` |
| `sched_live` | one issue, two active states, holds, limit 0 or 1 reloaded, fair | `WorkerBehindEntry`, `ActiveWorkIsPickedUp` |
| `follow_up` | two Codex threads, two reactions, every failure, pauses, restarts | `NothingDueTwice`, `ApprovalKept`, `ApprovalReleased` |
| `follow_up_live` | a human and a Codex thread, one reaction, every failure, pauses, fair | `FeedbackAnswered` |
| `coding_run` | two threads, two active states, three turns, one task | `PlanGate`, `ReviewHasDiff`, `AnsweredBeforeReview`, `RunEnds` |
| `merge_run` | a change of Codex and one of people, two base commits, two turns, two retries, three failures to the pause, four faults or steps of people | `RepairIsReal`, `OnePullRequest`, `MergedWorkLanded`, `LoopStops`, `BranchOnlyGrows`, `MergeSettles` |
| `workspace` | two issues that share a branch in a managed cache, or have their own in a `checkout_path`; two managers, one fault, free edits | `ServedOnBranch`, `WorkKept`, `SetUpBeforeUse`, `WorkspaceComes` |
| `service` | two deliveries, or one and an edit, or two edits; one worker, channel of one | `PendingIsBacked`, `WakeUpSeen`, `DrainEnds`, `ReloadComes` |
| `metadata` | two deliveries of one session, two base URLs, two messages, one fault | `AnsweredOnce`, `WriteLands`, `OneMessageWhileRunning` |
| `codex_turn` | two runs of two turns, two notifications a turn, two tokens, channel of two | `TotalsAreReports`, `OutputOfThisTurn`, `RunEnds` |
| `setup_wizard` | three text steps typed into, one project, two checks, one listing | `OptionsOfThisKey`, `NeverClobbers` |
| `linear_calls` | worker, loop and setup command, three clients, two calls, two steps of ageing, one fault | `LockoutHasCause`, `ExecutedOnce`, `OneWebhook`, `CallsEnd` |

Bounds, and why they are enough.

- *Two issues*: the maps are keyed by issue, and issues meet only in the slots,
  in the order of a tick, in the channel and as blockers; in `Workspace` they
  meet in the mutex, the cache and the branches. Two are enough to contend.
- *Channels of one or two events* (256 in the code): a full channel is then
  reached within a step, which is when senders wait, wake-ups are given up and
  the drain event is dropped. *One undelivered Codex event per issue* in
  `Scheduler`: a second one would carry another of the same states.
- *`HumanTargets`, `HoldIssues`, `Limits`, `MaxRestarts`* switch on moves, holds,
  reloads and restarts in the run that is about them; workers reach the other
  states.
- *Two threads and two reactions*: a queue that is longer than one, a reaction
  that is newer than a watermark, and one thread wanted for two reasons; in the
  coding run one thread that is answered and one that fails or appears late.
- *Three turns*: two claims without a diff end a run early, so the third turn is
  the first that the limit alone can end. *One task*: a plan is finished,
  unfinished, finished and reopened, or unreadable.
- *Faults and events* (one to four): a fault of one call and, where more are
  allowed, another one while its consequences last. In `workspace` one is a failure,
  a stop, a crash, a reload, or a step of people or Codex; uncommitted edits and
  the refusals of git (a directory that is not empty, a branch in use) cost none,
  so that a dirty workspace on another branch, or two callers in one directory, need
  one or none. In `merge_run` four cover a
  lost answer, a push, a move of the base and a closed pull request in one
  behaviour, and three identical failures that pause the issue.
- *Two base commits and two retries*: the base moves once before and once after
  a repair, and the retry counter is used up by another reason.
- *Two deliveries*: one that claims the wake-up and one that is coalesced with
  it. *Two edits*: the first starts the two reads of the file and the second falls
  between them, or before the first look, or while the channel is full. Deliveries
  and edits share the bound `MaxNews`; they meet in the channel alone.
- *Two messages*: the one that is kept and the one that must not be posted. *Two
  base URLs*: the attachment of either may be the canonical one.
- *Two runs of two turns*: what a turn or a session leaves for the next.
  *Two notifications*: a text and a report, or a report and its repetition.
- *Three typed steps*: the key that hides its step and forgets the projects, the
  slug that a late list replaces, the port that only a webhook needs; the other
  text steps behave as the slug does without a list.
- *Two calls* by three callers, *two steps of ageing* and *one fault*: two calls
  that find one token expired, one of them losing its answer, while a third
  process updates the file. `MaxTokens` is never reached.

The theorems of section 6 hold without any of these bounds.

Exceptions that the code makes are written into the properties, and where a
document promises more, section 5 has the property without the exception:

- `ApprovalKept` excepts what a rollback takes out (`lost`), and `ApprovalReleased` lets
  a failing check release an approval (`repaired`).
- `FeedbackAnswered` is about a process whose calls and runs stop failing (`steady`;
  writes of the record may go on failing) and an issue that is not paused. A thread
  to which Colin replied without resolving it no longer counts as human feedback.
  Feedback behind an approval waits with it.
- `PlanGate` and `ReviewHasDiff` except a request for a spec that the answers to
  threads hide (`SpecHidden`).
- `ServedOnBranch`, `WorkKept` and `SetUpBeforeUse` except the clean-up of a failed
  `Ensure` of the loop (`undone`, `TakingBack`); `WorkspaceComes` excepts what is
  `InTheWay`, and a loop that meets the worker in the directory again and again.
- `WakeUpSeen` excepts a delivery that was coalesced with a wake-up that found no
  room (`hist.dropped`), and a tick that comes in time but goes without a fetch
  (`hist.lost`): the change then waits for the poll. `ReloadComes` excepts an edit that
  was not loaded (`hist.missed`).
- `LockoutHasCause` excepts tokens that were lost on their way to the file
  (`mishap`), `CallsEnd` a token endpoint that leaves a call unanswered.
- `NeverClobbers` allows a save whose last look found no file (`save.clear`): between
  look and write a file may still appear.

`codex_turn` runs with stall detection, its default.

Every property of a run has a mutant in `PROJECT.json`: a plausible bug in one
definition that makes TLC refute it. The mutated forms stand in the modules
before the definitions they replace, marked "Mutant".

The modules state further properties that hold when they are added to the named
configuration: the `TypeOK` of each module (`MetaTypeOK`, `SetupTypeOK`);
`CompletedIsIdle`, `CompletedIsHandoff` (`SchedSlots.cfg`) and `DrainQuiesces`
(`SchedLive.cfg`); `OnlyTargetResolved` (`CodingRun.cfg`); `ReviewIsValid` and
`WaitsEnd` (`SetupWizard.cfg`).

## 4. Fairness

- *Scheduler.* Go's `select` picks a ready case at random, so a tick and an event
  that are ready again and again are both taken (strong fairness of
  `TickReconcile` and `HandleEvent`; inside a tick the loop only goes on, so weak
  fairness is enough). Linear answers again and again. A run ends: turns have a
  timeout and stalled runs are cancelled. A goroutine that waits to send gets
  its turn (Go channels queue their senders).
- *Service.* The same `select`; a handler, the watcher and the screen go on. The
  poll is not assumed, so that `WakeUpSeen` does not lean on it.
- *ReviewFollowUp.* The loop's ticks and the steps of a run go on (weak fairness),
  whatever their calls answer. No step that succeeds is assumed; that failures
  stop some day is the premise of `FeedbackAnswered` and not an assumption.
- *CodingRun, MergeRun.* Every call returns or times out (`codex.turn_timeout`, the
  timeouts of the git and HTTP clients), so a run goes on: weak fairness of the
  run's steps, none of the success of a call. In `MergeRun` also of the loop's
  dispatch.
- *Workspace.* Commands end by themselves or by their time limits. Strong fairness
  of each worker and of the loop, one process at a time: who waits for a mutex
  that is free again and again gets it.
- *CodexTurn.* Colin's goroutines go on and its timers fire; nothing makes the
  server answer.
- *SetupWizard.* Requests to Linear end within 20 seconds; nothing is assumed of
  the operator.
- *LinearCalls.* A request ends within 30 seconds (`client.go:639`) and a mutex is
  handed on. Nothing is assumed of the token endpoint: that it answers is the
  premise of `CallsEnd`, and `CallsTimeOut`, without it, fails (section 5).

Nothing is assumed of humans, reviewers, checks, shutdowns, reloads and restarts.

## 5. Where the code and its documents differ

Each of the following is a property that TLC refutes; `tlc -config <cfg>
<module>.tla` prints the behaviour. The configurations are not among the runs of
`PROJECT.json`, which all pass. `FollowUpApproval`, `FollowUpAuthorized`,
`WorkspaceReset` and `LinearStuck` have the settings of the passing runs of their
modules, or fewer: they show the exceptions that the properties there name.

| Configuration, module | Property | What happens |
|---|---|---|
| `SchedRefine.cfg`, `MCScheduler` | `RefineHandoffReported` | A coding run that moves its own issue to `Refine` may lose its comment: a tick between the move and the exit event stops the entry, and `handleWorkerExit` returns without posting (`retry.go:127`). OPERATIONS.md:295 promises the comment. |
| `SchedCompleted.cfg`, `MCScheduler` | `CompletedDoesNotGate` | `completed` gates dispatch (`dispatch.go:39`); SPEC.md:262 calls it bookkeeping only. What saves it is proved: it never names an active state and is gone whenever the issue is claimed. |
| `FollowUpApproval.cfg`, `MCReviewFollowUp` | `ApprovalRecorded` | When the start of a human follow-up is refused, the record that is put back has the old queue but the new watermark of an approval found by the same scan, so the approval is lost (`github_reaction.go:94`, `:217`). OPERATIONS.md:267 says that a reaction records its thread. |
| `FollowUpAuthorized.cfg`, `MCReviewFollowUp` | `ApprovalNeedsHuman` | A failing check releases an approval that waits for a human (`github_checks.go:110`, then `review_sync.go:43`); OPERATIONS.md:267. |
| `CodingPlan.cfg`, `MCCodingRun` | `ReviewMeansPlanDone` | A request for a spec is lost when the run answers review threads: the answer replaces the summary the verdict is parsed from, and the issue goes to `Review` whatever its plan and diff are (`runner.go:556`, `:589`). README.md:42 promises a finished plan. |
| `CodingThreads.cfg`, `MCCodingRun` | `AddressedThreadsOnly` | A run resolves threads it never saw: it reads them again after its last turn and answers all (`runner.go:1273`). OPERATIONS.md:329 speaks of the threads it addressed. |
| `MergeRetry.cfg`, `MCMergeRun` | `LimitIsOfRetries` | Merge retries share the attempt counter of every other retry (`runner.go:259`): the first transient refusal may send the issue to `Review`. OPERATIONS.md:351–356 speaks of a bounded retry limit of the merge. |
| `MergeOpens.cfg`, `MCMergeRun` | `PullRequestEnsured` | With Codex reviews on and no pull request, the gate waits for Codex to review a pull request that nobody opens (`manager.go:418`, `runner.go:1400`). OPERATIONS.md:346: Colin "ensures the branch and PR exist". |
| `WorkspaceReset.cfg`, `MCWorkspace` | `NeverReset` | The loop's label sync (`orchestrator.go:413`) calls `Ensure` while a worker does. If the loop made the directory and the worker its worktree, the clean-up after the loop's failed `worktree add` removes the worker's worktree (`manager.go:109`, `:603`). SPEC.md 9.3: reused workspaces are not destructively reset. |
| `ServiceDrain.cfg`, `MCService` | `DrainWaits` | `q` on a screen that has not shown a worker yet, or a refresh from a snapshot of before a dispatch, stops the process with the worker running (`tui/runtime.go:183`, `:211`). README.md:228 says that Colin waits. |
| `MetadataSlack.cfg`, `MCMetadata` | `OneMessage` | A webhook handler writes back the value it read before the loop recorded its Slack message (`service.go:742`); when no worker runs, the next sync posts a second one. README.md:53, OPERATIONS.md:212. |
| `CodexStart.cfg`, `CodexTurn` | `StartAnswersOrTimesOut` | `codex.read_timeout_ms` is read (`config.go:559`) and used nowhere: without stall detection a start that is not answered waits forever (`app_server.go:43`). SPEC.md:1159. |
| `SetupChecked.cfg`, `SetupWizard` | `WrittenWasChecked` | A report is taken for that of the current answers whenever it arrives (`tui.go:192`): answers changed after the check began are written unchecked. README.md:116. |
| `LinearStuck.cfg`, `MCLinearCalls` | `CallsTimeOut` | The token exchange uses `http.DefaultClient`, which has no timeout, while `mu` is held (`oauth.go:298`): every later call of the client waits, and cannot be cancelled. SPEC.md:1218 names a network timeout of 30 seconds. |

Seen while modelling, with no property of their own:

- *Coding.* Any last message that is not a request for a spec counts as ready when
  there is a diff (`runner.go:452`), while OPERATIONS.md:318 asks for an explicit
  `READY_FOR_REVIEW`. A run answers and resolves its threads also when it then
  hands the issue to `Refine` (`runner.go:554`). The working copy of a plan is
  deleted with a run that fails, so its checked tasks are open again.
- *Scheduling.* A merge worker that was cancelled is no longer counted and may
  overlap the next one (`MergeSerialized` counts the entries that were not told to
  stop). The opening move of a run and the start of a follow-up overwrite a
  human move made since the fetch. An approval that waits for a human keeps
  later human feedback waiting.
- *Merging.* GitHub's "base branch was modified" is not classified and starts a
  repair (`manager.go:376`). An issue with nothing to publish fails until it is
  paused (OPERATIONS.md:348, `runner.go:1397`).
- *Workspaces.* A directory whose making was interrupted passes for one that was set
  up: `after_create` never runs in it (SPEC.md:913). A clone that is killed
  leaves a cache without its remote, which nothing repairs. A branch that another
  worktree has, or uncommitted work on another branch, keeps an issue waiting.
  A local base branch in the cache is used without being updated
  (`manager.go:389`). The loop waits for `gitSetup` behind the clones of workers.
- *Service.* A handler that was coalesced with a wake-up that then found no room
  is answered as if one were queued (`orchestrator.go:47`). An edit made before
  the watcher's first look, or whose preflight fails, is not applied until the
  next edit (SPEC.md:1645, `service.go:266`, `:290`): `EveryEditApplied` fails under
  `Service.cfg`. A tick that goes without a fetch has used up the wake-up it
  came for (`orchestrator.go:183`). Handlers use a reloaded runtime before the loop does.
- *Metadata.* Deliveries of different kinds about one delegation are both
  acknowledged (OPERATIONS.md:484, `service.go:706`). A stale fingerprint lets a
  Slack update be skipped.
- *Codex.* The totals of a resumed thread are counted again from nothing
  (SPEC.md:1373). `handleCodexEvent` overwrites ids with empty ones. The stall
  check goes by events that the loop has processed.
- *Set-up.* After ctrl+c during a save, `colin config` says that no file was written
  though one may be: `CanceledUnwritten` fails under `SetupWizard.cfg`. A list
  that arrives late switches manual entry off.
- *Linear.* Each caller that got a 401 exchanges the token again. A client made
  while another caller's new token is on its way to the file holds a spent one
  until the next reload. A daemon that was started before a connect writes its
  own tokens over the new ones. A refresh token that comes back blank replaces
  the one in use. A webhook of the list's second page is not seen. The cached
  label id is kept after the label was deleted.


## 6. Proofs

TLAPS checks every theorem below to the last leaf. Each module of proofs assumes
only the named assumption of the module it is about (names of "nothing" that are
not names of something, functions of the right domain, limits that are natural
numbers), so the theorems hold for any sets of issues, threads, callers, clients
and states and for any bounds. Where a theorem has a further hypothesis, it is
named here.

`Scheduler_proofs` (`SchedulerAssumption`).

1. `TypeInvariant`. Inductive on its own, one step per action.
2. `ClaimsAreExact`, `WorkersAreBehindEntries`, `TimersAreBehindRetries`. None of the
   three is inductive alone: a launch finds no old worker only because an
   unclaimed issue is not running, an exit finds no old timer only because a
   running issue is not retrying, and a timer may be armed only if no event of
   an older one is under way. Their conjunction `ClaimInv` is inductive relative
   to the types, and rests on lemmas about sending to and receiving from the
   channel.
3. `CompletedEntriesAreIdle`, `CompletedEntriesAreHandoffs`, from the claims.
4. `SchedulerImplementsClaims`. Each step of the scheduler maps to a step of
   `IssueClaims` or to a stutter; the proof adds that a drain event in the channel
   always follows the flag that announces it.
5. `MergesAreSerialized` (hypotheses: one merge state `m`, which is no publish
   state, and a finite set of issues), the second half of the module. Counting
   by the state an entry *holds* is right although Codex events and
   reconciliation rewrite that state. `SlotInv` follows the events in the
   channel: the exit of a run is the last that it sends (`LastWord`), and what a
   merge run reports before it is its own state (`Told`), so an entry that merges
   and was not told to stop is counted under `m`. With several merge states the
   theorem would fail: reconciliation may move an entry that goes on to another
   merge state, which frees the slot it came from.

`CodingRun_proofs` (`CodingRunAssumption`).

1. `TypeInvariant`, inductive on its own.
2. `PlanGateHolds`, `ReviewHasDiffHolds`, `AnsweredBeforeReviewHolds`. What the handoff
   needs was true several steps before it, so the invariant `RunInv` carries it
   along the run: `PlanSynced` (from the sync to the handoff the progress the
   run goes by is the plan in Linear), `TurnsEnded` (the turns were left by one of
   the ways of `Judge`, and what each says of plan and diff still holds),
   `HandoffChosen` (the state chosen follows from these), `TargetOnly` (the threads to
   answer are the target's) and `ThreadsAnswered` (past the verification no thread
   of the run is open unless it is late).
3. `OnlyTargetResolvedHolds`, from `TargetOnly`.

`MergeRun_proofs` (`MergeRunAssumption`). `BranchOnlyGrowsHolds`, `RepairIsRealHolds`,
`OnePullRequestHolds`, `MergedWorkLandedHolds`, `LoopStopsHolds` and `TypeInvariant`, all
from `RunInv`: what the local variables of a run say of branch and pull request
(`HasBranch`, `Published`, `Repaired`, `Merged`, `Once`), and that the streak of
identical failures never passes the threshold (`Streaks`). The types need two of
these parts: the counter is bounded by the threshold only because the issue is
paused there, and a repair reads a remote branch that publication made.

`Service_proofs` (`ServiceAssumption`). `PendingIsBackedHolds`, and `NoWakeUpLostHolds`,
the safety core of `WakeUpSeen`: a change that was answered as queued or
coalesced was fetched by a tick or has a wake-up on its way. `WakeInv` is the
types with what backs the flag, a queued answer and a coalesced one. That the
wake-up arrives is liveness and stays with TLC.

`ReviewFollowUp_proofs` (`FollowUpAssumption`). A record of an issue's follow-ups is
in Linear, in the loop and in the run at once, and any of them may write its copy
over another's. The invariants therefore speak of `Copies`, the set of them all,
and `Descends` says of a step that each new copy is an old one or was made of one
by one of the code's operations; what these keep is then kept in every copy.

1. `TypeInvariant`, from `TypeInv`: a start that is refused has a record to put back.
2. `NothingDueTwiceHolds`, from `OnceInv`. A queue is a set in the order of a
   scan: lemmas about `InOrder`, the filters and appending carry "no two are the
   same" through each operation. It needs `Numbered`: no two threads share a
   reaction.
3. `ApprovalKeptHolds`, from `KeptInv`: in every copy an approval whose watermark is
   stored is due until its thread is resolved, or a rollback took it out.
4. `ApprovalReleasedHolds`, from `CareInv`: the loop syncs only an issue that nobody
   runs (`Alone`), and whoever holds an approval that could be worked on while the
   issue is active has its human or its failing check (`SyncCareful`,
   `StartCareful`, `RunCareful`).

Neither has a hypothesis. With section 5 they say that a refused start and a failing
check are the only ways to lose an approval, or to release one without a human.

`Linear_proofs`, first part: `LinearCalls` (`CallsAssumption`).

1. `ExecutedOnceHolds`: a request is repeated only after an answer that says it was
   not executed.
2. `OneWebhookHolds` (hypothesis `OneSetsUp`: only one caller sets webhooks up), from
   `HookInv`: what a setup has seen of the team's webhooks is still so at its next
   request, and each mutation of it takes one step nearer to one good webhook. A
   setup ends well when it finds one good webhook or its creation is answered
   "yes". Two set-up commands at a time could each create one.
3. `LockoutHasCauseHolds`, from `TokenInv`: `mu` makes the token that a client presents
   its own latest one (`Owns`), `authFileMu` makes an update of the file write over
   what it read (`ReadIsFile`), and without a mishap the file keeps up with the
   clients (`FileKeepsUp`).

`TypeOK` of `LinearCalls` is not proved: that the tokens issued stay within `MaxTokens`
is a matter of the bounds of a run.

`Linear_proofs`, second part: `Metadata` (`MetadataAssumption`). `MetaInv` is the type of
every copy and attachment, with the fact that a value names only messages that
were posted.

1. `MetaTypes`: with it, however many goroutines create one, there is one attachment
   for a base URL.
2. `WriteLandsHolds`, from `ReadsBack`: a value that was put under any base URL is the
   last of the attachments, so the canonical choice and the filling of blank
   fields give it back, whoever made or updated an attachment meanwhile.
3. `OneMessageHolds`, from `SyncKnows`: the sync knows a message if the entry does.
   The entry's copy is taken up in each read, and what is left of a sync after
   a worker's end meets no entry.
4. `AnsweredOnceHolds`, from `AcksInv`: a delivery about to say something holds the
   reservation of its state alone, and nothing was said under it yet.

`Linear_proofs`, third part: `SetupWizard` (`SetupAssumption`). Lemmas about `Next` and
`Previous` of the steps (`NextIs`, `PreviousIs`) say which steps a key can leave.

1. `SetupTypes`: the file that is left is the operator's own or one that loads.
2. `ReviewIsValidHolds` (proved only; no run repeats it), from `AnswersFine`: every
   step before the one shown that will be written was accepted. Choices that hide
   or bring back a step are made before it, so the position is enough to know what
   was passed.
3. `OptionsOfThisKeyHolds`, from `ListOfKey`: no listing begins before the key is
   given, and a key that was given hides its step, so nothing can change it under
   a list or a listing that is under way.
4. `NeverClobbersHolds`, from `SaveInv`: a save that may overwrite has the operator's
   word or a look that found no file, one that may not looks before it writes, and
   the word cannot be taken back while the save is under way. In the wizard a save
   overwrites only where the review asks (`WalksAsk`, `SameQuestion`).

`CodexTurn_proofs` (`CodexTurnAssumption`). `TotalsAreReportsHolds`: the reports of a
session that are on their way never fall, lie between what the entry has taken
up and what the session used, and the exit comes after all of them.
`OutputOfThisTurnHolds`: what the runner reads was collected since the turn
began. `TypeOK` is not proved as a whole, because its bound on all tokens is a
sum over sessions.

`Workspace_proofs` (`WorkspaceAssumption`). `ServedOnBranchHolds`, `WorkKeptHolds` and
`SetUpBeforeUseHolds`, from `WorkInv`, which says how the loop and a worker meet: a
worker is started only while the loop does not remove its workspace, a removal
waits until the worker is gone, and a directory that a call made is set up, cut
short, taken away by the loop, or still that call's. What they except is the
clean-up of the loop in a directory it made; `NeverReset` fails because of it
(section 5).

Only model-checked: liveness, which is out of the prover's reach
(`ActiveWorkIsPickedUp`, `FeedbackAnswered`, `WakeUpSeen`, `DrainEnds`, `ReloadComes`,
`MergeSettles`, `WorkspaceComes`, `CallsEnd`, `WaitsEnd`, and `RunEnds` of `CodingRun` and
`CodexTurn`). Every invariant, action property and refinement that a run checks
is stated by a theorem, under the hypotheses named above.

## 7. Not modelled

- *Snapshot stream* (`orchestrator/stream.go`) and *HTTP server*
  (`internal/app/server.go`): what a subscriber or a page sees. Nothing in the core
  depends on it; a slow subscriber gets only the newest snapshot, which is the
  design.
- *Rendering, terminal pages, Slack's home tab and socket mode*: output, and
  connections that external libraries keep.
- *Request budget*: the arithmetic over rate-limit headers. `Scheduler` lets the
  budget refuse anything at any time, so its invariants hold whatever it says.
- *Publish run*: one step of `CodingRun`; its publication is that of `MergeRun`.
- *GitHub client, GraphQL queries, paging*: each call is a step that works, fails,
  or works and reports an error.
- *Parsing* of the workflow file, plans, templates, comments and messages: the
  models take the verdict of the parser.
- *Git*: external, by what the code relies on (containment of commits, one
  worktree per branch).
- *Log buffer, CLI, network checks*: sequential code or one mutex around a ring.

What could follow: a refinement that the results `Scheduler` allows a run include
all that `CodingRun` and `MergeRun` produce; the safety cores of the other liveness
properties, as `NoWakeUpLost` is that of `WakeUpSeen`; an instance of `Scheduler`
with several merge states.
