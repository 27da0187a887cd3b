----------------------------- MODULE Workspace -----------------------------
(***************************************************************************)
(* The worktrees that issues are worked on in (workspace/manager.go): how  *)
(* Ensure makes one from a shared repository or takes up the one that is   *)
(* there, and how Remove takes it away, by several workers and by the      *)
(* orchestrator's loop at once.                                            *)
(*                                                                         *)
(* Ensure is a series of git commands.  Any of them may fail, the context  *)
(* of a worker is cancelled when it is stopped, a new configuration comes  *)
(* with a new Manager and so with another mutex, and the process may die   *)
(* anywhere.  Only gitSetup keeps two of them out of the shared repository.*)
(***************************************************************************)
EXTENDS Integers, FiniteSets

CONSTANTS
  Issues,
  Branches,    \* names of branches
  Targets,     \* the repositories and branches that issues may ask for
  Loop,        \* the goroutine of the orchestrator, among the callers
  Managers,    \* workspace.Manager values: one per loaded configuration
  Faults,      \* bound: failures, stops, crashes, reloads; uncommitted edits cost none
  NoOne, NoBranch

ASSUME WorkspaceAssumption ==
  /\ Targets \subseteq [kind : {"managed", "checkout"}, name : [Issues -> Branches]]
  /\ Loop \notin Issues /\ NoOne \notin Issues \cup {Loop}
  /\ NoBranch \notin Branches
  /\ Managers \subseteq Nat /\ 1 \in Managers
  /\ Faults \in Nat

(* A worker is named after its issue: the claims of the scheduler let an   *)
(* issue have one.                                                         *)
Callers == Issues \cup {Loop}

VARIABLES
  kind,     \* the target has a repository in the cache, or a checkout_path
  name,     \* issue -> the branch it asks for (branchName)
  closed,   \* issues in a terminal state
  repo,     \* the shared repository: none, being cloned, broken, or ready
  local,    \* its local branches: none, in step with GitHub, or ahead
  dir,      \* issue -> its directory: absent, empty, or a worktree
  head,     \* issue -> the branch checked out there
  dirty,    \* issues with uncommitted work
  setup,    \* issues whose directory after_create finished in
  lock,     \* manager -> who holds gitSetup
  manager,  \* the manager of the current configuration
  call,     \* caller -> where it is and its local variables
  sweep,    \* issues that StartupTerminalCleanup is yet to remove
  faults,
  hist      \* history: issues that were terminal since a worker began on them,
            \* those whose directory is what an interrupted call left, or git
            \* made again when it had been taken away, and those whose directory
            \* the loop took away while a worker prepared it

git == <<repo, local>>
disk == <<dir, head, dirty, setup>>
vars == <<kind, name, closed, git, disk, lock, manager, call, sweep, faults, hist>>
fixed == <<kind, name>>

Steps == {"idle", "prepare", "lock", "source", "clone", "hook", "clean", "served", "stopped", "remove", "unbranch"}
Idle(m) == [at |-> "idle", issue |-> NoOne, manager |-> m, created |-> FALSE,
            cancelled |-> FALSE, terminal |-> FALSE, branch |-> NoBranch]

TypeOK ==
  /\ kind \in {"managed", "checkout"} /\ name \in [Issues -> Branches]
  /\ closed \subseteq Issues /\ dirty \subseteq Issues /\ setup \subseteq Issues
  /\ repo \in {"none", "cloning", "broken", "ready"}
  /\ local \in [Branches -> {"none", "same", "ahead"}]
  /\ dir \in [Issues -> {"absent", "empty", "tree"}]
  /\ head \in [Issues -> Branches \cup {NoBranch}]
  /\ \A i \in Issues : head[i] # NoBranch <=> dir[i] = "tree"
  /\ lock \in [Managers -> Callers \cup {NoOne}] /\ manager \in Managers
  /\ call \in [Callers -> [at : Steps, issue : Issues \cup {NoOne}, manager : Managers,
                           created : BOOLEAN, cancelled : BOOLEAN, terminal : BOOLEAN,
                           branch : Branches \cup {NoBranch}]]
  /\ sweep \subseteq Issues
  /\ hist \in [closed : SUBSET Issues, cut : SUBSET Issues, undone : SUBSET Issues]
  /\ faults \in 0 .. Faults

(* A start.  Issues may be in a terminal state by now, whose workspaces an *)
(* earlier process left behind; the list of them may fail to come.         *)
Init ==
  /\ \E t \in Targets : kind = t.kind /\ name = t.name
  /\ closed \in SUBSET Issues /\ sweep \in {closed, {}}
  /\ setup \in {left \in SUBSET closed : \A i, j \in left : name[i] = name[j] => i = j}
  /\ repo = IF kind = "checkout" \/ setup # {} THEN "ready" ELSE "none"
  /\ local = [b \in Branches |-> IF \E i \in setup : name[i] = b THEN "same" ELSE "none"]
  /\ dir = [i \in Issues |-> IF i \in setup THEN "tree" ELSE "absent"]
  /\ head = [i \in Issues |-> IF i \in setup THEN name[i] ELSE NoBranch]
  /\ dirty = {} /\ hist = [closed |-> closed, cut |-> {}, undone |-> {}]
  /\ lock = [m \in Managers |-> NoOne] /\ manager = 1
  /\ call = [c \in Callers |-> Idle(1)] /\ faults = Faults

At(c, step) == call[c].at = step
(* No command of a cancelled context starts.                               *)
Runs(c, step) == At(c, step) /\ ~call[c].cancelled
GoTo(c, step) == call' = [call EXCEPT ![c].at = step]
Fault == faults > 0 /\ faults' = faults - 1
Failure(c) == IF call[c].cancelled THEN UNCHANGED faults ELSE Fault
Free(c) == lock' = [m \in Managers |-> IF lock[m] = c THEN NoOne ELSE lock[m]]

-----------------------------------------------------------------------------
(* Ensure.                                                                 *)

(* Directories are made, or found; populateGitWorkspace takes up a worktree *)
(* that is there, and gives an empty directory one.  Two callers may both  *)
(* find the directory missing and make it.                                 *)
JustMade(i) ==
  /\ dir[i] = "empty"
  /\ \E d \in Callers : call[d].issue = i /\ call[d].created /\ At(d, "lock")
Begin(c, i) ==
  /\ At(c, "idle") /\ sweep = {} /\ i \notin closed
  /\ \E made \in BOOLEAN :
       /\ dir[i] = "absent" => made
       /\ made => dir[i] = "absent" \/ JustMade(i)
       /\ call' = [call EXCEPT ![c] = [Idle(manager) EXCEPT !.issue = i, !.created = made,
                     !.at = IF dir[i] = "tree" THEN "prepare" ELSE "lock"]]
  /\ dir' = [dir EXCEPT ![i] = IF @ = "absent" THEN "empty" ELSE @]
  /\ hist' = IF c = i THEN [hist EXCEPT !.closed = @ \ {i}, !.undone = @ \ {i}] ELSE hist
  /\ UNCHANGED <<fixed, closed, git, head, dirty, setup, lock, manager, sweep, faults>>

(* The loop dispatches a worker, which comes to its workspace some calls   *)
(* later, but never while the loop removes it; or it prepares a workspace  *)
(* itself to look at a pull request, for the review label also while a     *)
(* worker runs (syncCodexReviewLabels).                                    *)
StartWorker(i) ==
  /\ ~(call[Loop].at \in {"remove", "unbranch"} /\ call[Loop].issue = i)
  /\ Begin(i, i)
StartSync == \E i \in Issues : Begin(Loop, i)

(* git checks a branch out in one worktree only.                           *)
Elsewhere(b, i) == \E j \in Issues \ {i} : head[j] = b
Create(b) == local' = [local EXCEPT ![b] = IF @ = "none" THEN "same" ELSE @]

(* A fetch, prepareBranch and ensureBranch.  Uncommitted work is left      *)
(* alone, and where it is on another branch the workspace is refused.      *)
(* Mutant: uncommitted work is taken for the issue's, whatever the branch. *)
AnyDirty(i) == head[i] = name[i] \/ i \in dirty
OnBranch(i) == head[i] = name[i]

CanSwitch(i) == i \notin dirty /\ ~Elsewhere(name[i], i)
Usable(i) == repo = "ready" /\ dir[i] = "tree" /\ (OnBranch(i) \/ CanSwitch(i))

Prepare(c) ==
  /\ Runs(c, "prepare")
  /\ LET i == call[c].issue IN
     \/ /\ Usable(i) /\ OnBranch(i)
        /\ GoTo(c, "hook") /\ UNCHANGED <<local, head>>
     \/ /\ Usable(i) /\ ~OnBranch(i)
        /\ Create(name[i]) /\ head' = [head EXCEPT ![i] = name[i]]
        /\ GoTo(c, "hook")
     \/ /\ ~Usable(i)
        /\ GoTo(c, "clean") /\ UNCHANGED <<local, head>>
  /\ UNCHANGED <<fixed, closed, repo, dir, dirty, setup, lock, manager, sweep, faults, hist>>

(* gitSetup, of the manager the caller was started with.                   *)
Lock(c) ==
  /\ At(c, "lock") /\ lock[call[c].manager] = NoOne
  /\ lock' = [lock EXCEPT ![call[c].manager] = c]
  /\ GoTo(c, "source")
  /\ UNCHANGED <<fixed, closed, git, disk, manager, sweep, faults, hist>>

(* prepareSharedCheckout: a fetch, or a clone into a directory that is     *)
(* missing or empty.  A repository that is still being cloned passes for a *)
(* checkout, but its fetch fails; one that lost its remote always fails.   *)
Source(c) ==
  /\ Runs(c, "source")
  /\ \/ repo = "none" /\ repo' = "cloning" /\ GoTo(c, "clone") /\ UNCHANGED lock
     \/ repo \in {"cloning", "broken"} /\ GoTo(c, "clean") /\ Free(c) /\ UNCHANGED repo
  /\ UNCHANGED <<fixed, closed, local, disk, manager, sweep, faults, hist>>

Clone(c) ==
  /\ Runs(c, "clone") /\ repo' = "ready" /\ GoTo(c, "source")
  /\ UNCHANGED <<fixed, closed, local, disk, lock, manager, sweep, faults, hist>>

(* A clone that fails or is killed: git takes away what it wrote, or       *)
(* leaves a repository with its remote, or without.                        *)
CloneFails(c) ==
  /\ At(c, "clone") /\ Failure(c)
  /\ repo' \in {"none", "broken", "ready"}
  /\ GoTo(c, "clean") /\ Free(c)
  /\ UNCHANGED <<fixed, closed, local, disk, manager, sweep, hist>>

(* addWorktree, with the local branch or a new one that starts at the      *)
(* remote branch or at the base.  It makes the directory when another      *)
(* caller took it away.                                                    *)
Addable(i) == dir[i] # "tree" /\ ~Elsewhere(name[i], i)
Add(i) ==
  /\ dir' = [dir EXCEPT ![i] = "tree"] /\ head' = [head EXCEPT ![i] = name[i]]
  /\ Create(name[i])
  /\ hist' = IF dir[i] = "absent" THEN [hist EXCEPT !.cut = @ \cup {i}] ELSE hist

(* Mutant: gitSetup is not released when git refuses.                      *)
KeepsLock(c) == IF Addable(call[c].issue) THEN Free(c) ELSE UNCHANGED lock
Unlocks(c) == Free(c)

AddWorktree(c) ==
  /\ Runs(c, "source") /\ repo = "ready"
  /\ Unlocks(c)
  /\ LET i == call[c].issue IN
     \/ Addable(i) /\ Add(i) /\ GoTo(c, "hook")
     \/ ~Addable(i) /\ GoTo(c, "clean") /\ UNCHANGED <<dir, head, local, hist>>
  /\ UNCHANGED <<fixed, closed, repo, dirty, setup, manager, sweep, faults>>

(* A git command fails, or git worktree add is killed when it has made the *)
(* worktree.                                                               *)
CommandFails(c) ==
  /\ call[c].at \in {"prepare", "source"} /\ Failure(c)
  /\ \/ UNCHANGED <<local, dir, head, hist>>
     \/ At(c, "source") /\ repo = "ready" /\ Addable(call[c].issue) /\ Add(call[c].issue)
  /\ GoTo(c, "clean") /\ Free(c)
  /\ UNCHANGED <<fixed, closed, repo, dirty, setup, manager, sweep>>

(* after_create, in a directory that this call made.  A stopped worker's   *)
(* hook does not finish.                                                   *)
Serve(c) ==
  call' = [call EXCEPT ![c] = IF c = Loop THEN Idle(manager) ELSE [@ EXCEPT !.at = "served"]]
(* Mutant: a hook that fails is reported, and the workspace served.        *)
HookIgnored(c) == Serve(c)
HookFails(c) == GoTo(c, "clean")
Hook(c) ==
  /\ At(c, "hook")
  /\ \/ ~call[c].created /\ Serve(c) /\ UNCHANGED <<setup, faults>>
     \/ /\ call[c].created /\ ~call[c].cancelled /\ dir[call[c].issue] # "absent"
        /\ setup' = setup \cup {call[c].issue}
        /\ Serve(c) /\ UNCHANGED faults
     \/ /\ call[c].created /\ HookFails(c)
        /\ IF dir[call[c].issue] = "absent" THEN UNCHANGED faults ELSE Failure(c)
        /\ UNCHANGED setup
  /\ UNCHANGED <<fixed, closed, git, dir, head, dirty, lock, manager, sweep, hist>>

(* What is left of a worktree or a directory that is removed.              *)
Unlink(i) == head' = [head EXCEPT ![i] = NoBranch]
Delete(i) ==
  /\ dir' = [dir EXCEPT ![i] = "absent"] /\ Unlink(i)
  /\ dirty' = dirty \ {i} /\ setup' = setup \ {i}

(* The call fails.  What it made is removed, when it made the directory,   *)
(* and with it what another caller has put there since; git worktree       *)
(* remove needs the context, which may be cancelled.                       *)
(* Mutant: a workspace that was there before is removed too.               *)
Preparing(i) == call[i].at \in {"prepare", "lock", "source", "clone", "hook"}
CleansAny(c) == TRUE
Cleans(c) == call[c].created

Clean(c) ==
  /\ At(c, "clean")
  /\ LET i == call[c].issue IN
     \/ Cleans(c) /\ ~(dir[i] = "tree" /\ call[c].cancelled)
        /\ Delete(i) /\ UNCHANGED faults
        /\ hist' = [hist EXCEPT !.cut = @ \ {i},
                                !.undone = IF c # i /\ Preparing(i) THEN @ \cup {i} ELSE @]
     \/ Cleans(c) /\ dir[i] = "tree" /\ UNCHANGED disk /\ Failure(c)
        /\ hist' = [hist EXCEPT !.cut = @ \cup {i}]
     \/ ~Cleans(c) /\ UNCHANGED <<disk, faults, hist>>
  /\ call' = [call EXCEPT ![c] =
                IF @.cancelled THEN [@ EXCEPT !.at = "stopped"] ELSE Idle(manager)]
  /\ UNCHANGED <<fixed, closed, git, lock, manager, sweep>>

-----------------------------------------------------------------------------
(* The work in a workspace.                                                *)

(* Codex edits, commits and switches branches; Publish commits and pushes. *)
Work(i) ==
  /\ At(i, "served") /\ dir[i] = "tree" /\ ~call[i].cancelled
  /\ \/ i \notin dirty /\ dirty' = dirty \cup {i} /\ UNCHANGED <<local, head, faults>>
     \/ /\ i \in dirty /\ dirty' = dirty \ {i}
        /\ local' = [local EXCEPT ![head[i]] = "ahead"] /\ UNCHANGED head /\ Fault
     \/ /\ i \notin dirty /\ local[head[i]] = "ahead"
        /\ local' = [local EXCEPT ![head[i]] = "same"] /\ UNCHANGED <<dirty, head>> /\ Fault
     \/ \E x \in Branches :
          /\ x # head[i] /\ ~Elsewhere(x, i) /\ Create(x)
          /\ head' = [head EXCEPT ![i] = x] /\ UNCHANGED dirty /\ Fault
  /\ UNCHANGED <<fixed, closed, repo, dir, setup, lock, manager, call, sweep, hist>>

(* The run ends by itself.                                                 *)
Leave(i) ==
  /\ At(i, "served") /\ ~call[i].cancelled
  /\ call' = [call EXCEPT ![i] = Idle(manager)]
  /\ UNCHANGED <<fixed, closed, git, disk, lock, manager, sweep, faults, hist>>

(* A worker that was stopped returns.                                      *)
Stopped(i) ==
  /\ At(i, "served") /\ call[i].cancelled /\ GoTo(i, "stopped")
  /\ UNCHANGED <<fixed, closed, git, disk, lock, manager, sweep, faults, hist>>

-----------------------------------------------------------------------------
(* Stops and removal.                                                      *)

(* requestStop, for an issue found in a terminal state, or for another     *)
(* reason.                                                                 *)
Active(i) == call[i].at \notin {"idle", "stopped", "remove", "unbranch"}
Stop(i) ==
  /\ At(Loop, "idle") /\ Active(i) /\ ~call[i].cancelled
  /\ call' = [call EXCEPT ![i].cancelled = TRUE,
                          ![i].terminal = i \in closed]
  /\ (IF i \in closed THEN UNCHANGED faults ELSE Fault)
  /\ UNCHANGED <<fixed, closed, git, disk, lock, manager, sweep, hist>>

(* handleWorkerExit: the workspace of a terminal issue is removed.         *)
(* Mutant: that of any worker that was stopped is.                         *)
AnyStop(i) == TRUE
Terminal(i) == call[i].terminal
Exit(i) ==
  /\ At(i, "stopped") /\ At(Loop, "idle")
  /\ call' = [call EXCEPT ![i] = Idle(manager),
                ![Loop] = IF Terminal(i)
                          THEN [Idle(manager) EXCEPT !.at = "remove", !.issue = i]
                          ELSE @]
  /\ UNCHANGED <<fixed, closed, git, disk, lock, manager, sweep, faults, hist>>

(* StartupTerminalCleanup, one issue after the other, from the list it     *)
(* fetched first.                                                          *)
Sweep(i) ==
  /\ At(Loop, "idle") /\ i \in sweep
  /\ sweep' = sweep \ {i}
  /\ call' = [call EXCEPT ![Loop] = [Idle(manager) EXCEPT !.at = "remove", !.issue = i]]
  /\ UNCHANGED <<fixed, closed, git, disk, lock, manager, faults, hist>>

(* Remove: a directory, or a worktree and then its branch, which must be   *)
(* in a repository that Colin manages.                                     *)
Managed == kind = "managed"

RemoveWorktree ==
  /\ At(Loop, "remove")
  /\ LET i == call[Loop].issue IN
     \/ /\ dir[i] = "tree" /\ Managed
        /\ call' = [call EXCEPT ![Loop].at = "unbranch", ![Loop].branch = head[i]]
     \/ (dir[i] # "tree" \/ ~Managed) /\ call' = [call EXCEPT ![Loop] = Idle(manager)]
  /\ Delete(call[Loop].issue)
  /\ hist' = [hist EXCEPT !.cut = @ \ {call[Loop].issue}]
  /\ UNCHANGED <<fixed, closed, git, lock, manager, sweep, faults>>

DeleteBranch ==
  /\ At(Loop, "unbranch")
  /\ local' = [local EXCEPT ![call[Loop].branch] =
                 IF Elsewhere(call[Loop].branch, NoOne) THEN @ ELSE "none"]
  /\ call' = [call EXCEPT ![Loop] = Idle(manager)]
  /\ UNCHANGED <<fixed, closed, repo, disk, lock, manager, sweep, faults, hist>>

RemoveFails ==
  /\ call[Loop].at \in {"remove", "unbranch"} /\ Fault
  /\ At(Loop, "remove") => dir[call[Loop].issue] # "absent"
  /\ call' = [call EXCEPT ![Loop] = Idle(manager)]
  /\ UNCHANGED <<fixed, closed, git, disk, lock, manager, sweep, hist>>

-----------------------------------------------------------------------------
(* The process and the people.                                             *)

Creating == {c \in Callers : call[c].created /\ call[c].at \notin {"served", "stopped"}}

(* The process dies: what git and the disk have is what is there.          *)
Crash ==
  /\ Fault
  /\ call' = [c \in Callers |-> Idle(manager)]
  /\ lock' = [m \in Managers |-> NoOne] /\ sweep' \in {closed, {}}
  /\ repo' \in IF repo = "cloning" THEN {"none", "broken", "ready"} ELSE {repo}
  /\ hist' = [hist EXCEPT !.cut = @ \cup {call[c].issue : c \in Creating}]
  /\ UNCHANGED <<fixed, closed, local, disk, manager>>

(* buildRuntime makes a new Manager; those at work keep theirs.            *)
Reload ==
  /\ manager + 1 \in Managers /\ manager' = manager + 1 /\ Fault
  /\ UNCHANGED <<fixed, closed, git, disk, lock, call, sweep, hist>>

HumanCloses(i) ==
  /\ closed' = IF i \in closed THEN closed \ {i} ELSE closed \cup {i}
  /\ hist' = [hist EXCEPT !.closed = @ \cup closed']
  /\ Fault
  /\ UNCHANGED <<fixed, git, disk, lock, manager, call, sweep>>

Interrupted(c) == call[c].cancelled /\ (CloneFails(c) \/ CommandFails(c))
Ensure(c) ==
  \/ Prepare(c) \/ Lock(c) \/ Source(c) \/ Clone(c) \/ AddWorktree(c) \/ Hook(c)
  \/ Clean(c)

Next ==
  \/ \E c \in Callers : Ensure(c) \/ CloneFails(c) \/ CommandFails(c)
  \/ \E i \in Issues :
       StartWorker(i) \/ Work(i) \/ Leave(i) \/ Stopped(i) \/ Stop(i) \/ Exit(i)
         \/ Sweep(i) \/ HumanCloses(i)
  \/ StartSync \/ RemoveWorktree \/ DeleteBranch \/ RemoveFails
  \/ Crash \/ Reload

(* Commands end, by themselves or by their time limit, the loop goes on,   *)
(* and an issue is tried again and again.  Strong fairness, of one process *)
(* at a time, is that of a mutex and of the ticks: whoever waits for       *)
(* gitSetup or for the loop gets it when it is free often enough.          *)
LoopStep == Ensure(Loop) \/ RemoveWorktree \/ DeleteBranch \/ \E i \in Issues : Sweep(i)
WorkerStep(i) ==
  StartWorker(i) \/ Ensure(i) \/ Interrupted(i) \/ Leave(i) \/ Stopped(i) \/ Exit(i)
Fairness == SF_vars(LoopStep) /\ \A i \in Issues : SF_vars(WorkerStep(i))
Spec == Init /\ [][Next]_vars /\ Fairness
-----------------------------------------------------------------------------
(* Properties.                                                             *)

(* A run starts in a worktree on the branch of its issue, whatever branch  *)
(* an earlier run left it on and whoever prepared it (prepareBranch),      *)
(* unless the loop took the directory away while the worker prepared it.   *)
ServedOnBranch ==
  [][\A i \in Issues :
       ~At(i, "served") /\ call'[i].at = "served"
         => (dir'[i] = "tree" /\ head'[i] = name[i]) \/ i \in hist.undone]_vars

(* Uncommitted work and commits that GitHub does not have disappear only   *)
(* with the workspace of an issue that was terminal since its last run     *)
(* began: no crash and no other kind of stop takes them away, and no       *)
(* failed Ensure but that of the loop, in a directory it made itself and a *)
(* worker has moved into since (Ensure, handleWorkerExit).                 *)
Removing(i) ==
  call[Loop].at \in {"remove", "unbranch"} /\ call[Loop].issue = i /\ i \in hist.closed
TakingBack(i) == At(Loop, "clean") /\ call[Loop].created /\ call[Loop].issue = i
WorkKept ==
  [][/\ \A i \in Issues : i \in dirty /\ i \notin dirty' =>
          local'[head[i]] = "ahead" \/ Removing(i) \/ TakingBack(i)
     /\ \A b \in Branches : local[b] = "ahead" /\ local'[b] = "none" =>
          \E i \in Issues : Removing(i)]_vars

(* A run starts in a directory where after_create finished, unless the     *)
(* call that made it was interrupted: by a crash, by a stop that also      *)
(* stops the clean-up, or by a clean-up that failed.  Then the directory   *)
(* passes for one that is set up (createdNow in Ensure).  So it does when  *)
(* git made it again for a caller that had found it, and while the loop,   *)
(* which made it, is not done with it.                                     *)
SetUpBeforeUse ==
  [][\A i \in Issues : ~At(i, "served") /\ call'[i].at = "served" =>
       \/ i \in setup' \/ i \in hist'.cut \/ i \in hist.undone
       \/ call[Loop].issue = i /\ call[Loop].created]_vars

(* An open issue gets its workspace again and again, whatever failed       *)
(* before: no lock is left held, no remains of a failed call are in the    *)
(* way.  What stays in the way is a cache that lost its remote, a branch   *)
(* that another worktree has, uncommitted work on another branch, and a    *)
(* loop that comes to the same directory in the middle of each attempt:    *)
(* whoever finds the worktree of the other there fails, and takes it away  *)
(* with the directory it made.                                             *)
InTheWay(i) ==
  \/ repo = "broken" \/ Elsewhere(name[i], i)
  \/ i \in dirty /\ head[i] # name[i]
Meet(i) == Preparing(i) /\ call[Loop].issue = i
WorkspaceComes ==
  \A i \in Issues :
    \/ []<><<~Meet(i) /\ Meet(i)'>>_vars
    \/ []<>(At(i, "served") \/ i \in closed \/ InTheWay(i))

(* SPEC.md:890: "Reused workspaces should not be destructively reset on    *)
(* population failure unless that policy is explicitly chosen".            *)
NeverReset ==
  [][\A i \in Issues : At(i, "served") /\ ~call[i].cancelled /\ i \in dirty => dir'[i] = "tree"]_vars
=============================================================================
