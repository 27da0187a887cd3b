-------------------------- MODULE Workspace_proofs --------------------------
(***************************************************************************)
(* What holds of the workspaces of any number of issues, branches and      *)
(* managers, through any number of failures, stops, crashes and reloads.   *)
(*                                                                         *)
(* The argument: a worker and the loop may prepare the same directory.  A  *)
(* clean-up takes away nothing but a directory that its call made.  The    *)
(* directory a worker makes has no work in it until that worker is served; *)
(* one that the loop makes may, and then the clean-up of the loop may take *)
(* the directory from under a worker: the two exceptions that the          *)
(* properties name, and there is no third.  A removal by the loop finds    *)
(* the worker gone, and the issue terminal since it began.                 *)
(***************************************************************************)
EXTENDS Workspace, TLAPS

Calls == [at : Steps, issue : Issues \cup {NoOne}, manager : Managers,
          created : BOOLEAN, cancelled : BOOLEAN, terminal : BOOLEAN,
          branch : Branches \cup {NoBranch}]

(* Who is busy is busy with an issue, a worker with its own; and made a    *)
(* directory only while it is busy with Ensure.                            *)
Assigned ==
  /\ \A i \in Issues : ~At(i, "idle") => call[i].issue = i
  /\ ~At(Loop, "idle") => call[Loop].issue \in Issues
  /\ \A c \in Callers : call[c].created => call[c].at \notin {"idle", "remove", "unbranch"}

(* While the loop removes a workspace, its worker is gone.                 *)
Alone ==
  \A i \in Issues : call[Loop].at \in {"remove", "unbranch"} /\ call[Loop].issue = i => At(i, "idle")

(* A worker that is about to be served has its worktree, on its branch,    *)
(* unless the loop took it away meanwhile.                                 *)
Standing ==
  \A i \in Issues :
    At(i, "hook") => (dir[i] = "tree" /\ head[i] = name[i]) \/ i \in hist.undone

(* There is no work in a directory that a worker is still making.          *)
Ensuring == {"prepare", "lock", "source", "clone", "hook", "clean"}
Empty == {"lock", "source", "clone"}
Fresh ==
  /\ \A i \in dirty : dir[i] = "tree"
  /\ \A i \in Issues : call[i].created /\ call[i].at \in Ensuring => i \notin dirty

(* What is removed is the workspace of an issue that was terminal since    *)
(* its last run began, and that has no worker.                             *)
Ended ==
  /\ closed \subseteq hist.closed /\ sweep \subseteq hist.closed
  /\ \A i \in sweep : At(i, "idle")
  /\ call[Loop].at \in {"remove", "unbranch"} => call[Loop].issue \in hist.closed
  /\ \A i \in Issues : call[i].terminal => i \in hist.closed

(* A directory is set up, or was left behind by a call that was cut short  *)
(* or made again by git, or is being made.                                 *)
Accounted ==
  \A i \in Issues : dir[i] # "absent" =>
    i \in setup \cup hist.cut \cup {call[c].issue : c \in Creating}

Parts == Assigned /\ Alone /\ Standing /\ Fresh /\ Ended /\ Accounted
WorkInv == TypeOK /\ Parts

-----------------------------------------------------------------------------
(* Types.                                                                  *)

LEMMA Types ==
  TypeOK <=>
    /\ kind \in {"managed", "checkout"} /\ name \in [Issues -> Branches]
    /\ closed \subseteq Issues /\ dirty \subseteq Issues /\ setup \subseteq Issues
    /\ repo \in {"none", "cloning", "broken", "ready"}
    /\ local \in [Branches -> {"none", "same", "ahead"}]
    /\ dir \in [Issues -> {"absent", "empty", "tree"}]
    /\ head \in [Issues -> Branches \cup {NoBranch}]
    /\ \A i \in Issues : head[i] # NoBranch <=> dir[i] = "tree"
    /\ lock \in [Managers -> Callers \cup {NoOne}] /\ manager \in Managers
    /\ call \in [Callers -> Calls]
    /\ sweep \subseteq Issues
    /\ hist \in [closed : SUBSET Issues, cut : SUBSET Issues, undone : SUBSET Issues]
    /\ faults \in 0 .. Faults
BY DEF TypeOK, Calls

LEMMA Constants ==
  /\ \A i \in Issues : i \in Callers /\ i # Loop /\ i # NoOne
  /\ Loop \in Callers /\ Loop # NoOne /\ NoOne \notin Callers
  /\ \A n \in [Issues -> Branches], i \in Issues : n[i] \in Branches
  /\ NoBranch \notin Branches /\ 1 \in Managers /\ Faults \in Nat
BY WorkspaceAssumption DEF Callers

LEMMA CallTypes ==
  /\ \A m \in Managers : Idle(m) \in Calls
  /\ \A r \in Calls, s \in Steps : [r EXCEPT !.at = s] \in Calls
BY DEF Idle, Calls, Steps

LEMMA LessFaults ==
  ASSUME faults \in 0 .. Faults, Fault \/ UNCHANGED faults
  PROVE  faults' \in 0 .. Faults
BY Constants DEF Fault

LEMMA EnsureType ==
  ASSUME TypeOK, Assigned, NEW c \in Callers, Ensure(c) \/ CloneFails(c) \/ CommandFails(c)
  PROVE  TypeOK'
<1> USE DEF fixed, git, disk
<1>s. {"prepare", "lock", "source", "clone", "hook", "clean", "served", "stopped"} \subseteq Steps
  BY DEF Steps
<1>i. call[c].at # "idle" => call[c].issue \in Issues
  BY DEF Assigned, Callers, At
<1>t. call[c] \in Calls /\ manager \in Managers
  BY Types
<1>g. ASSUME NEW s \in Steps, GoTo(c, s) PROVE call' \in [Callers -> Calls]
  BY <1>g, Types, CallTypes DEF GoTo
<1>f. ASSUME Free(c) PROVE lock' \in [Managers -> Callers \cup {NoOne}]
  BY <1>f, Types DEF Free
<1>1. CASE Prepare(c)
  <2>1. call' \in [Callers -> Calls]
    BY <1>1, <1>g, <1>s DEF Prepare
  <2>2. \/ UNCHANGED <<local, head>>
        \/ /\ call[c].issue \in Issues /\ Create(name[call[c].issue])
           /\ head' = [head EXCEPT ![call[c].issue] = name[call[c].issue]]
           /\ dir[call[c].issue] = "tree"
    BY <1>1, <1>i DEF Prepare, Runs, At, Usable
  <2>3. /\ local' \in [Branches -> {"none", "same", "ahead"}]
        /\ head' \in [Issues -> Branches \cup {NoBranch}]
        /\ \A i \in Issues : head'[i] # NoBranch <=> dir[i] = "tree"
    BY <2>2, Types, Constants DEF Create
  <2> QED BY <1>1, <2>1, <2>3 DEF Prepare, TypeOK, Calls
<1>2. CASE Lock(c)
  <2>1. call' \in [Callers -> Calls]
    BY <1>2, <1>g, <1>s DEF Lock
  <2> QED BY <1>2, <2>1 DEF Lock, TypeOK, Calls
<1>3. CASE Source(c)
  <2>1. call' \in [Callers -> Calls] /\ lock' \in [Managers -> Callers \cup {NoOne}]
    BY <1>3, <1>g, <1>s, <1>f, Types DEF Source
  <2> QED BY <1>3, <2>1 DEF Source, TypeOK, Calls
<1>4. CASE Clone(c)
  <2>1. call' \in [Callers -> Calls]
    BY <1>4, <1>g, <1>s DEF Clone
  <2> QED BY <1>4, <2>1 DEF Clone, TypeOK, Calls
<1>5. CASE CloneFails(c)
  <2>1. call' \in [Callers -> Calls] /\ lock' \in [Managers -> Callers \cup {NoOne}]
    BY <1>5, <1>g, <1>s, <1>f DEF CloneFails
  <2>2. faults' \in 0 .. Faults
    BY <1>5, LessFaults, Types DEF CloneFails, Failure
  <2> QED BY <1>5, <2>1, <2>2 DEF CloneFails, TypeOK, Calls
<1>a. ASSUME NEW i \in Issues, Add(i)
      PROVE  /\ local' \in [Branches -> {"none", "same", "ahead"}]
             /\ dir' \in [Issues -> {"absent", "empty", "tree"}]
             /\ head' \in [Issues -> Branches \cup {NoBranch}]
             /\ \A j \in Issues : head'[j] # NoBranch <=> dir'[j] = "tree"
             /\ hist' \in [closed : SUBSET Issues, cut : SUBSET Issues, undone : SUBSET Issues]
  <2>1. hist' \in [closed : SUBSET Issues, cut : SUBSET Issues, undone : SUBSET Issues]
    BY <1>a, Types DEF Add
  <2>2. /\ local' \in [Branches -> {"none", "same", "ahead"}]
        /\ dir' \in [Issues -> {"absent", "empty", "tree"}]
        /\ head' \in [Issues -> Branches \cup {NoBranch}]
        /\ \A j \in Issues : head'[j] # NoBranch <=> dir'[j] = "tree"
    BY <1>a, Types, Constants DEF Add, Create
  <2> QED BY <2>1, <2>2
<1>6. CASE AddWorktree(c)
  <2>1. call' \in [Callers -> Calls] /\ lock' \in [Managers -> Callers \cup {NoOne}]
    BY <1>6, <1>g, <1>s, <1>f DEF AddWorktree, Unlocks
  <2>2. \/ UNCHANGED <<local, dir, head, hist>>
        \/ call[c].issue \in Issues /\ Add(call[c].issue)
    BY <1>6, <1>i DEF AddWorktree, Runs, At
  <2> QED BY <1>6, <1>a, <2>1, <2>2 DEF AddWorktree, TypeOK, Calls
<1>7. CASE CommandFails(c)
  <2>1. call' \in [Callers -> Calls] /\ lock' \in [Managers -> Callers \cup {NoOne}]
    BY <1>7, <1>g, <1>s, <1>f DEF CommandFails
  <2>2. \/ UNCHANGED <<local, dir, head, hist>>
        \/ call[c].issue \in Issues /\ Add(call[c].issue)
    BY <1>7, <1>i DEF CommandFails
  <2>3. faults' \in 0 .. Faults
    BY <1>7, LessFaults, Types DEF CommandFails, Failure
  <2> QED BY <1>7, <1>a, <2>1, <2>2, <2>3 DEF CommandFails, TypeOK, Calls
<1>8. CASE Hook(c)
  <2>1. call' \in [Callers -> Calls]
    BY <1>8, <1>g, <1>s, <1>t, Types, CallTypes DEF Hook, Serve, HookFails
  <2>2. faults' \in 0 .. Faults
    BY <1>8, LessFaults, Types DEF Hook, Failure
  <2>3. setup' \subseteq Issues
    BY <1>8, <1>i, Types DEF Hook, At
  <2> QED BY <1>8, <2>1, <2>2, <2>3 DEF Hook, TypeOK, Calls
<1>9. CASE Clean(c)
  <2>1. call' \in [Callers -> Calls]
    BY <1>9, <1>s, <1>t, Types, CallTypes DEF Clean
  <2>2. faults' \in 0 .. Faults
    BY <1>9, LessFaults, Types DEF Clean, Failure
  <2>3. call[c].issue \in Issues
    BY <1>9, <1>i DEF Clean, At
  <2>4. \/ /\ Delete(call[c].issue)
           /\ hist' = [hist EXCEPT !.cut = @ \ {call[c].issue},
                         !.undone = IF c # call[c].issue /\ Preparing(call[c].issue)
                                    THEN @ \cup {call[c].issue} ELSE @]
        \/ UNCHANGED disk /\ hist' = [hist EXCEPT !.cut = @ \cup {call[c].issue}]
        \/ UNCHANGED <<disk, hist>>
    BY <1>9 DEF Clean
  <2>5. /\ dir' \in [Issues -> {"absent", "empty", "tree"}]
        /\ head' \in [Issues -> Branches \cup {NoBranch}]
        /\ \A j \in Issues : head'[j] # NoBranch <=> dir'[j] = "tree"
        /\ dirty' \subseteq Issues /\ setup' \subseteq Issues
    BY <2>3, <2>4, Types DEF Delete, Unlink
  <2>6. hist' \in [closed : SUBSET Issues, cut : SUBSET Issues, undone : SUBSET Issues]
    <3>1. CASE hist' = [hist EXCEPT !.cut = @ \ {call[c].issue},
                          !.undone = IF c # call[c].issue /\ Preparing(call[c].issue)
                                     THEN @ \cup {call[c].issue} ELSE @]
      BY <2>3, <3>1, Types
    <3>2. CASE hist' = [hist EXCEPT !.cut = @ \cup {call[c].issue}] \/ UNCHANGED hist
      BY <2>3, <3>2, Types
    <3> QED BY <2>4, <3>1, <3>2
  <2> QED BY <1>9, <2>1, <2>2, <2>5, <2>6 DEF Clean, TypeOK, Calls
<1> QED BY <1>1, <1>2, <1>3, <1>4, <1>5, <1>6, <1>7, <1>8, <1>9 DEF Ensure

LEMMA RestType ==
  ASSUME TypeOK, Assigned,
         \/ \E c \in Callers, i \in Issues : Begin(c, i)
         \/ \E i \in Issues : Work(i) \/ Leave(i) \/ Stopped(i) \/ Stop(i) \/ Exit(i) \/ Sweep(i) \/ HumanCloses(i)
         \/ RemoveWorktree \/ DeleteBranch \/ RemoveFails \/ Crash \/ Reload \/ UNCHANGED vars
  PROVE  TypeOK'
<1> USE DEF fixed, git, disk
<1>i. manager \in Managers /\ Idle(manager) \in Calls /\ call[Loop] \in Calls
  BY Types, CallTypes, Constants
<1>1. ASSUME NEW c \in Callers, NEW i \in Issues, Begin(c, i) PROVE TypeOK'
  <2>1. PICK r \in Calls : call' = [call EXCEPT ![c] = r]
    <3>1. PICK made \in BOOLEAN :
            call' = [call EXCEPT ![c] = [Idle(manager) EXCEPT !.issue = i, !.created = made,
                       !.at = IF dir[i] = "tree" THEN "prepare" ELSE "lock"]]
      BY <1>1 DEF Begin
    <3>2. [Idle(manager) EXCEPT !.issue = i, !.created = made,
             !.at = IF dir[i] = "tree" THEN "prepare" ELSE "lock"] \in Calls
      BY <1>i DEF Calls, Steps
    <3> QED BY <3>1, <3>2
  <2>2. call' \in [Callers -> Calls]
    BY <2>1, Types
  <2>3. hist' \in [closed : SUBSET Issues, cut : SUBSET Issues, undone : SUBSET Issues]
    BY <1>1, Types DEF Begin
  <2>4. /\ dir' \in [Issues -> {"absent", "empty", "tree"}]
        /\ \A j \in Issues : head[j] # NoBranch <=> dir'[j] = "tree"
    BY <1>1, Types DEF Begin
  <2> QED BY <1>1, <2>2, <2>3, <2>4 DEF Begin, TypeOK, Calls
<1>2. ASSUME NEW i \in Issues, Work(i) PROVE TypeOK'
  <2>1. faults' \in 0 .. Faults
    BY <1>2, LessFaults, Types DEF Work
  <2>2. head[i] \in Branches /\ dir[i] = "tree"
    BY <1>2, Types DEF Work
  <2>3. /\ local' \in [Branches -> {"none", "same", "ahead"}]
        /\ head' \in [Issues -> Branches \cup {NoBranch}]
        /\ dirty' \subseteq Issues
        /\ \A j \in Issues : head'[j] # NoBranch <=> dir[j] = "tree"
    BY <1>2, <2>2, Types, Constants DEF Work, Create
  <2> QED BY <1>2, <2>1, <2>3 DEF Work, TypeOK, Calls
<1>3. ASSUME NEW i \in Issues, Leave(i) \/ Stopped(i) \/ Stop(i) \/ Exit(i) \/ Sweep(i) PROVE TypeOK'
  <2>1. i \in Callers /\ call[i] \in Calls
    BY Constants, Types
  <2>2. /\ [call[i] EXCEPT !.at = "stopped"] \in Calls
        /\ [call[i] EXCEPT !.cancelled = TRUE, !.terminal = i \in closed] \in Calls
        /\ [Idle(manager) EXCEPT !.at = "remove", !.issue = i] \in Calls
    <3>1. [call[i] EXCEPT !.at = "stopped"] \in Calls
      BY <2>1 DEF Calls, Steps
    <3>2. \A b \in BOOLEAN : [call[i] EXCEPT !.cancelled = TRUE, !.terminal = b] \in Calls
      BY <2>1 DEF Calls
    <3>3. (i \in closed) \in BOOLEAN
      OBVIOUS
    <3>4. [Idle(manager) EXCEPT !.at = "remove", !.issue = i] \in Calls
      BY <1>i DEF Calls, Steps
    <3> QED BY <3>1, <3>2, <3>3, <3>4
  <2>3. call' \in [Callers -> Calls]
    <3>1. CASE Leave(i) \/ Stopped(i)
      BY <1>i, <2>1, <2>2, <3>1, Types DEF Leave, Stopped, GoTo
    <3>2. CASE Stop(i)
      BY <1>i, <2>1, <2>2, <3>2, Types DEF Stop
    <3>3. CASE Exit(i) \/ Sweep(i)
      BY <1>i, <2>1, <2>2, <3>3, Types, Constants, ZenonT(60) DEF Exit, Sweep
    <3> QED BY <1>3, <3>1, <3>2, <3>3
  <2>4. faults' \in 0 .. Faults
    BY <1>3, LessFaults, Types DEF Leave, Stopped, Stop, Exit, Sweep
  <2>5. sweep' \subseteq Issues /\ UNCHANGED <<fixed, closed, git, disk, lock, manager, hist>>
    BY <1>3, Types DEF Leave, Stopped, Stop, Exit, Sweep
  <2> QED BY <2>3, <2>4, <2>5 DEF TypeOK, Calls
<1>4. ASSUME NEW i \in Issues, HumanCloses(i) PROVE TypeOK'
  <2>1. faults' \in 0 .. Faults
    BY <1>4, LessFaults, Types DEF HumanCloses
  <2>2. closed' \subseteq Issues
    BY <1>4, Types DEF HumanCloses
  <2>3. hist' \in [closed : SUBSET Issues, cut : SUBSET Issues, undone : SUBSET Issues]
    BY <1>4, <2>2, Types DEF HumanCloses
  <2> QED BY <1>4, <2>1, <2>2, <2>3 DEF HumanCloses, TypeOK, Calls
<1>5. CASE RemoveWorktree
  <2>1. call[Loop].issue \in Issues /\ head[call[Loop].issue] \in Branches \cup {NoBranch}
    BY <1>5, Types DEF RemoveWorktree, Assigned, At
  <2>2. [call[Loop] EXCEPT !.at = "unbranch", !.branch = head[call[Loop].issue]] \in Calls
    BY <1>i, <2>1 DEF Calls, Steps
  <2>3. call' \in [Callers -> Calls]
    <3>1. CASE call' = [call EXCEPT ![Loop].at = "unbranch", ![Loop].branch = head[call[Loop].issue]]
      BY <2>2, <3>1, Types, Constants
    <3>2. CASE call' = [call EXCEPT ![Loop] = Idle(manager)]
      BY <1>i, <3>2, Types, Constants
    <3> QED BY <1>5, <3>1, <3>2 DEF RemoveWorktree
  <2>4. Delete(call[Loop].issue)
    BY <1>5 DEF RemoveWorktree
  <2>5. /\ dir' \in [Issues -> {"absent", "empty", "tree"}]
        /\ head' \in [Issues -> Branches \cup {NoBranch}]
        /\ \A j \in Issues : head'[j] # NoBranch <=> dir'[j] = "tree"
        /\ dirty' \subseteq Issues /\ setup' \subseteq Issues
    BY <2>1, <2>4, Types DEF Delete, Unlink
  <2>6. hist' \in [closed : SUBSET Issues, cut : SUBSET Issues, undone : SUBSET Issues]
    BY <1>5, <2>1, Types DEF RemoveWorktree
  <2> QED BY <1>5, <2>3, <2>5, <2>6 DEF RemoveWorktree, TypeOK, Calls
<1>6. CASE DeleteBranch
  <2>1. call' \in [Callers -> Calls]
    BY <1>6, <1>i, Types, Constants DEF DeleteBranch
  <2>2. local' \in [Branches -> {"none", "same", "ahead"}]
    BY <1>6, Types DEF DeleteBranch
  <2> QED BY <1>6, <2>1, <2>2 DEF DeleteBranch, TypeOK, Calls
<1>7. CASE RemoveFails
  <2>1. call' \in [Callers -> Calls] /\ faults' \in 0 .. Faults
    BY <1>7, <1>i, Types, Constants, LessFaults DEF RemoveFails
  <2> QED BY <1>7, <2>1 DEF RemoveFails, TypeOK, Calls
<1>8. CASE Crash
  <2>1. call' \in [Callers -> Calls] /\ faults' \in 0 .. Faults
    BY <1>8, <1>i, Types, LessFaults DEF Crash
  <2>2. \A c \in Creating : call[c].issue \in Issues
    BY DEF Creating, Assigned, Callers, At
  <2>3. hist' \in [closed : SUBSET Issues, cut : SUBSET Issues, undone : SUBSET Issues]
    BY <1>8, <2>2, Types DEF Crash
  <2>4. sweep' \subseteq Issues /\ repo' \in {"none", "cloning", "broken", "ready"}
        /\ lock' \in [Managers -> Callers \cup {NoOne}]
    BY <1>8, Types DEF Crash
  <2> QED BY <1>8, <2>1, <2>3, <2>4 DEF Crash, TypeOK, Calls
<1>9. CASE Reload
  <2>1. faults' \in 0 .. Faults
    BY <1>9, LessFaults, Types DEF Reload
  <2> QED BY <1>9, <2>1 DEF Reload, TypeOK, Calls
<1>10. CASE UNCHANGED vars
  BY <1>10 DEF vars, TypeOK
<1> QED BY <1>1, <1>2, <1>3, <1>4, <1>5, <1>6, <1>7, <1>8, <1>9, <1>10

-----------------------------------------------------------------------------
(* The steps of Ensure.                                                    *)

(* Where the call of c goes: on, to a served worker, or to its end.        *)
Onward(c) ==
  /\ call'[c].at \in {"source", "clone", "hook", "clean"}
  /\ call'[c].issue = call[c].issue /\ call'[c].created = call[c].created
  /\ call'[c].terminal = call[c].terminal
  /\ call'[c].at # "clean" => call[c].at # "clean"
  /\ call'[c].at \in Empty => call[c].at \in Empty
ServedNow(c) ==
  /\ At(c, "hook") /\ c # Loop /\ call'[c] = [call[c] EXCEPT !.at = "served"]
  /\ call[c].created => call[c].issue \in setup'
Over(c) ==
  /\ \/ call'[c] = Idle(manager) \/ call'[c] = [call[c] EXCEPT !.at = "stopped"]
  /\ call[c].created /\ dir'[call[c].issue] # "absent" => call[c].issue \in setup' \cup hist'.cut

(* What happens to the directory of its issue: nothing but its branch,     *)
(* a worktree, or its removal by the call that made it.                    *)
Left(i) == dir'[i] = dir[i] /\ head'[i] \in {head[i], name[i]} /\ UNCHANGED dirty
Filled(c, i) == /\ call[c].at \in Empty /\ dir'[i] = "tree" /\ head'[i] = name[i]
                /\ dir[i] = "absent" => i \in hist'.cut
                /\ UNCHANGED dirty
Undone(c, i) == /\ At(c, "clean") /\ call[c].created /\ dir'[i] = "absent"
                /\ c # i /\ Preparing(i) => i \in hist'.undone
                /\ dirty' = dirty \ {i}

Moves(c) ==
  LET i == call[c].issue IN
  /\ call[c].at \in Ensuring /\ i \in Issues
  /\ \A d \in Callers \ {c} : call'[d] = call[d]
  /\ Onward(c) \/ ServedNow(c) \/ Over(c)
  /\ Left(i) \/ Filled(c, i) \/ Undone(c, i)
  /\ call'[c].at = "hook" => dir'[i] = "tree" /\ head'[i] = name[i]
  /\ ServedNow(c) => UNCHANGED <<dir, head>>
  /\ \A j \in Issues \ {i} :
       /\ dir'[j] = dir[j] /\ head'[j] = head[j]
       /\ j \in setup \cup hist.cut => j \in setup' \cup hist'.cut
  /\ dir'[i] # "absent" /\ i \in setup \cup hist.cut => i \in setup' \cup hist'.cut
  /\ UNCHANGED <<fixed, closed, sweep>> /\ hist'.closed = hist.closed
  /\ hist.undone \subseteq hist'.undone

LEMMA EnsureMoves ==
  ASSUME TypeOK, Assigned, NEW c \in Callers, Ensure(c) \/ CloneFails(c) \/ CommandFails(c)
  PROVE  Moves(c)
<1> USE DEF git, disk
<1> DEFINE i == call[c].issue
<1>i. call[c].at # "idle" => i \in Issues
  BY DEF Assigned, Callers, At
<1>t. call[c] \in Calls /\ call \in [Callers -> Calls] /\ hist \in [closed : SUBSET Issues, cut : SUBSET Issues, undone : SUBSET Issues]
  BY Types
<1>g. ASSUME NEW s \in {"source", "clone", "hook", "clean"}, GoTo(c, s)
      PROVE  /\ \A d \in Callers \ {c} : call'[d] = call[d]
             /\ call'[c].at = s /\ call'[c].issue = i /\ call'[c].created = call[c].created
             /\ call'[c].terminal = call[c].terminal
  BY <1>g, <1>t DEF GoTo, Calls
<1>a. ASSUME i \in Issues, Add(i)
      PROVE  /\ dir'[i] = "tree" /\ head'[i] = name[i]
             /\ \A j \in Issues \ {i} : dir'[j] = dir[j] /\ head'[j] = head[j]
             /\ dir[i] = "absent" => i \in hist'.cut
             /\ hist.cut \subseteq hist'.cut
             /\ hist'.closed = hist.closed /\ hist'.undone = hist.undone
  <2>1. /\ dir[i] = "absent" => i \in hist'.cut
        /\ hist.cut \subseteq hist'.cut
        /\ hist'.closed = hist.closed /\ hist'.undone = hist.undone
    BY <1>a, <1>t DEF Add
  <2> QED BY <1>a, <2>1, Types DEF Add
<1>1. CASE Prepare(c)
  <2>1. PICK s \in {"hook", "clean"} : GoTo(c, s) /\ At(c, "prepare")
    BY <1>1 DEF Prepare, Runs
  <2>2. Onward(c) /\ i \in Issues /\ ~ServedNow(c)
    BY <1>g, <1>i, <2>1 DEF Onward, At, Empty, ServedNow
  <2>3. Left(i) /\ (s = "hook" => dir'[i] = "tree" /\ head'[i] = name[i])
    <3>1. CASE Usable(i) /\ OnBranch(i)
      BY <1>1, <3>1 DEF Prepare, Left, Usable, OnBranch
    <3>2. CASE Usable(i) /\ ~OnBranch(i)
      BY <1>1, <2>2, <3>2, Types DEF Prepare, Left, Usable
    <3>3. CASE ~Usable(i)
      <4>1. GoTo(c, "clean") /\ UNCHANGED <<head, dir, dirty>>
        BY <1>1, <3>3 DEF Prepare
      <4>2. s # "hook"
        BY <1>g, <2>1, <4>1
      <4> QED BY <4>1, <4>2 DEF Left
    <3> QED BY <3>1, <3>2, <3>3
  <2>4. \A j \in Issues \ {i} : head'[j] = head[j]
    BY <1>1, <2>2, Types DEF Prepare
  <2> QED BY <1>1, <1>g, <2>1, <2>2, <2>3, <2>4 DEF Prepare, Moves, Ensuring, At
<1>2. CASE Lock(c) \/ Source(c) \/ Clone(c) \/ CloneFails(c)
  <2>1. PICK s \in {"source", "clone", "clean"} : GoTo(c, s) /\ call[c].at \in Empty
    BY <1>2 DEF Lock, Source, Clone, CloneFails, Runs, At, Empty
  <2>2. Onward(c) /\ i \in Issues /\ ~ServedNow(c)
    BY <1>g, <1>i, <2>1 DEF Onward, At, Empty, ServedNow
  <2>3. UNCHANGED <<disk, fixed, closed, sweep, hist>>
    BY <1>2 DEF Lock, Source, Clone, CloneFails
  <2> QED BY <1>g, <2>1, <2>2, <2>3 DEF Moves, Ensuring, Empty, Left
<1>3. CASE AddWorktree(c)
  <2>1. call[c].at = "source" /\ i \in Issues
    BY <1>3, <1>i DEF AddWorktree, Runs, At
  <2>2. \/ GoTo(c, "hook") /\ Add(i)
        \/ GoTo(c, "clean") /\ UNCHANGED <<dir, head, hist>>
    BY <1>3 DEF AddWorktree
  <2>3. UNCHANGED <<fixed, closed, dirty, setup, sweep>>
    BY <1>3 DEF AddWorktree
  <2>4. Onward(c) /\ ~ServedNow(c) /\ \A d \in Callers \ {c} : call'[d] = call[d]
    BY <1>g, <2>1, <2>2 DEF Onward, At, Empty, ServedNow
  <2>5. CASE GoTo(c, "hook") /\ Add(i)
    BY <1>a, <2>1, <2>3, <2>4, <2>5 DEF Moves, Ensuring, Empty, Filled
  <2>6. CASE GoTo(c, "clean") /\ UNCHANGED <<dir, head, hist>>
    BY <1>g, <2>1, <2>3, <2>4, <2>6 DEF Moves, Ensuring, Left
  <2> QED BY <2>2, <2>5, <2>6
<1>4. CASE CommandFails(c)
  <2>1. call[c].at \in {"prepare", "source"} /\ i \in Issues /\ GoTo(c, "clean")
    BY <1>4, <1>i DEF CommandFails
  <2>2. \/ UNCHANGED <<dir, head, hist>>
        \/ call[c].at = "source" /\ Add(i)
    BY <1>4 DEF CommandFails, At
  <2>3. UNCHANGED <<fixed, closed, dirty, setup, sweep>>
    BY <1>4 DEF CommandFails
  <2>4. Onward(c) /\ ~ServedNow(c) /\ call'[c].at = "clean" /\ \A d \in Callers \ {c} : call'[d] = call[d]
    BY <1>g, <2>1 DEF Onward, At, Empty, ServedNow
  <2>5. CASE call[c].at = "source" /\ Add(i)
    BY <1>a, <2>1, <2>3, <2>4, <2>5 DEF Moves, Ensuring, Empty, Filled
  <2>6. CASE UNCHANGED <<dir, head, hist>>
    BY <2>1, <2>3, <2>4, <2>6 DEF Moves, Ensuring, Left
  <2> QED BY <2>2, <2>5, <2>6
<1>5. CASE Hook(c)
  <2>1. call[c].at = "hook" /\ i \in Issues
    BY <1>5, <1>i DEF Hook, At
  <2>2. /\ UNCHANGED <<fixed, closed, dir, head, dirty, sweep, hist>>
        /\ setup \subseteq setup'
    BY <1>5 DEF Hook
  <2>3. CASE Serve(c) /\ (call[c].created => i \in setup')
    <3>1. \A d \in Callers \ {c} : call'[d] = call[d]
      BY <1>t, <2>3 DEF Serve
    <3>2. CASE c = Loop
      <4>1. call'[c] = Idle(manager)
        BY <1>t, <2>3, <3>2 DEF Serve
      <4>2. Over(c) /\ call'[c].at = "idle" /\ ~ServedNow(c)
        BY <2>3, <3>2, <4>1 DEF Over, Idle, ServedNow
      <4> QED BY <2>1, <2>2, <3>1, <4>2 DEF Moves, Ensuring, Left
    <3>3. CASE c # Loop
      <4>1. call'[c] = [call[c] EXCEPT !.at = "served"]
        BY <1>t, <2>3, <3>3 DEF Serve
      <4>2. ServedNow(c) /\ call'[c].at = "served"
        BY <1>t, <2>1, <2>3, <3>3, <4>1 DEF ServedNow, At, Calls
      <4> QED BY <2>1, <2>2, <3>1, <4>2 DEF Moves, Ensuring, Left
    <3> QED BY <3>2, <3>3
  <2>4. CASE GoTo(c, "clean")
    <3>1. Onward(c) /\ ~ServedNow(c) /\ call'[c].at = "clean" /\ \A d \in Callers \ {c} : call'[d] = call[d]
      <4>1. call'[c].at = "clean"
        BY <1>g, <2>4
      <4>2. ~ServedNow(c)
        BY <1>t, <4>1 DEF ServedNow, Calls
      <4> QED BY <1>g, <2>1, <2>4, <4>1, <4>2 DEF Onward, Empty
    <3> QED BY <2>1, <2>2, <3>1 DEF Moves, Ensuring, Left
  <2> QED BY <1>5, <2>3, <2>4 DEF Hook, HookFails
<1>6. CASE Clean(c)
  <2>1. At(c, "clean") /\ call[c].at = "clean" /\ i \in Issues
    BY <1>6, <1>i DEF Clean, At
  <2>2. \A d \in Callers \ {c} : call'[d] = call[d]
    BY <1>6, <1>t DEF Clean
  <2>3. call'[c] = Idle(manager) \/ call'[c] = [call[c] EXCEPT !.at = "stopped"]
    BY <1>6, <1>t DEF Clean
  <2>4. call'[c].at \in {"idle", "stopped"}
    BY <1>t, <2>3 DEF Idle, Calls
  <2>5. UNCHANGED <<fixed, closed, sweep>>
    BY <1>6 DEF Clean
  <2>6. CASE /\ call[c].created /\ Delete(i)
             /\ hist' = [hist EXCEPT !.cut = @ \ {i},
                           !.undone = IF c # i /\ Preparing(i) THEN @ \cup {i} ELSE @]
    <3>0. /\ hist'.cut = hist.cut \ {i} /\ hist'.closed = hist.closed
          /\ hist.undone \subseteq hist'.undone
          /\ c # i /\ Preparing(i) => i \in hist'.undone
      BY <1>t, <2>6
    <3>1. /\ dir'[i] = "absent" /\ dirty' = dirty \ {i} /\ setup' = setup \ {i}
          /\ hist'.cut = hist.cut \ {i} /\ hist'.closed = hist.closed
          /\ \A j \in Issues \ {i} : dir'[j] = dir[j] /\ head'[j] = head[j]
          /\ hist.undone \subseteq hist'.undone
          /\ c # i /\ Preparing(i) => i \in hist'.undone
      BY <2>1, <2>6, <3>0, Types DEF Delete, Unlink
    <3>2. Undone(c, i) /\ Over(c) /\ ~ServedNow(c)
      BY <2>1, <2>3, <2>4, <2>6, <3>1 DEF Undone, Over, ServedNow, At
    <3> QED BY <2>1, <2>2, <2>4, <2>5, <3>1, <3>2 DEF Moves, Ensuring
  <2>7. CASE UNCHANGED disk /\ hist' = [hist EXCEPT !.cut = @ \cup {i}]
    <3>1. hist'.cut = hist.cut \cup {i} /\ hist'.closed = hist.closed /\ hist'.undone = hist.undone
      BY <1>t, <2>7
    <3>2. Over(c) /\ ~ServedNow(c) /\ Left(i)
      BY <2>1, <2>3, <2>7, <3>1 DEF Over, ServedNow, At, Left
    <3> QED BY <2>1, <2>2, <2>4, <2>5, <2>7, <3>1, <3>2 DEF Moves, Ensuring
  <2>8. CASE ~call[c].created /\ UNCHANGED <<disk, hist>>
    <3>1. Over(c) /\ ~ServedNow(c) /\ Left(i)
      BY <2>1, <2>3, <2>8 DEF Over, ServedNow, At, Left
    <3> QED BY <2>1, <2>2, <2>4, <2>5, <2>8, <3>1 DEF Moves, Ensuring
  <2> QED BY <1>6, <2>6, <2>7, <2>8 DEF Clean, Cleans
<1> QED BY <1>1, <1>2, <1>3, <1>4, <1>5, <1>6 DEF Ensure

LEMMA EnsureKeeps ==
  ASSUME TypeOK, Parts, NEW c \in Callers, Moves(c)
  PROVE  Parts'
<1> DEFINE i == call[c].issue
<1>m. /\ call[c].at \in Ensuring /\ i \in Issues
      /\ \A d \in Callers \ {c} : call'[d] = call[d]
      /\ Onward(c) \/ ServedNow(c) \/ Over(c)
      /\ Left(i) \/ Filled(c, i) \/ Undone(c, i)
      /\ call'[c].at = "hook" => dir'[i] = "tree" /\ head'[i] = name[i]
      /\ ServedNow(c) => UNCHANGED <<dir, head>>
      /\ \A j \in Issues \ {i} :
           /\ dir'[j] = dir[j] /\ head'[j] = head[j]
           /\ j \in setup \cup hist.cut => j \in setup' \cup hist'.cut
      /\ dir'[i] # "absent" /\ i \in setup \cup hist.cut => i \in setup' \cup hist'.cut
      /\ UNCHANGED <<fixed, closed, sweep>> /\ hist'.closed = hist.closed
      /\ hist.undone \subseteq hist'.undone
  BY DEF Moves
<1>e. call[c].issue = i
  OBVIOUS
<1>t. call[c] \in Calls /\ name' = name /\ dirty \subseteq Issues
  BY <1>m, Types DEF fixed
<1>p. Assigned /\ Alone /\ Standing /\ Fresh /\ Ended /\ Accounted
  BY DEF Parts
<1>c. c \in Issues => i = c /\ c # Loop
  BY <1>m, <1>p, Constants DEF Assigned, At, Ensuring
(* What the call of c is after the step.                                   *)
<1>n. \/ Onward(c)
      \/ /\ ServedNow(c) /\ call'[c].at = "served" /\ call'[c].issue = i /\ call[c].at = "hook"
         /\ call'[c].created = call[c].created /\ call'[c].terminal = call[c].terminal /\ c # Loop
      \/ Over(c) /\ call'[c].at = "idle" /\ ~call'[c].created /\ ~call'[c].terminal
      \/ /\ Over(c) /\ call'[c].at = "stopped" /\ call'[c].issue = i
         /\ call'[c].created = call[c].created /\ call'[c].terminal = call[c].terminal
  BY <1>m, <1>t DEF ServedNow, Over, Idle, Calls, At
<1> HIDE DEF i
<1>1. Assigned'
  BY <1>c, <1>m, <1>n, <1>p, Constants DEF Assigned, At, Onward, Ensuring
<1>2. Alone'
  <2>1. ASSUME NEW j \in Issues, call'[Loop].at \in {"remove", "unbranch"}, call'[Loop].issue = j
        PROVE  call'[j].at = "idle"
    <3>1. c # Loop /\ call'[Loop] = call[Loop]
      BY <1>m, <1>n, <2>1, Constants DEF Onward
    <3>2. call[j].at = "idle"
      BY <1>p, <2>1, <3>1 DEF Alone, At
    <3> QED BY <1>m, <3>2, Constants DEF Ensuring
  <2> QED BY <2>1 DEF Alone, At
<1>3. Standing'
  <2>1. ASSUME NEW j \in Issues, call'[j].at = "hook"
        PROVE  (dir'[j] = "tree" /\ head'[j] = name[j]) \/ j \in hist'.undone
    <3>1. CASE c = j
      BY <1>c, <1>m, <2>1, <3>1
    <3>2. CASE c # j /\ i # j
      BY <1>m, <1>p, <2>1, <3>2, Constants DEF Standing, At
    <3>3. CASE c # j /\ i = j
      <4>1. call[j].at = "hook"
        BY <1>m, <2>1, <3>3, Constants
      <4>2. (dir[j] = "tree" /\ head[j] = name[j]) \/ j \in hist.undone
        BY <1>p, <4>1 DEF Standing, At
      <4>3. Undone(c, i) => j \in hist'.undone
        BY <3>3, <4>1 DEF Undone, Preparing
      <4> QED BY <1>m, <3>3, <4>2, <4>3 DEF Left, Filled
    <3> QED BY <3>1, <3>2, <3>3
  <2> QED BY <1>t, <2>1 DEF Standing, At
<1>6. Fresh'
  <2>1. ASSUME NEW j \in dirty' PROVE dir'[j] = "tree"
    BY <1>m, <1>p, <1>t, <2>1 DEF Fresh, Left, Filled, Undone
  <2>2. ASSUME NEW j \in Issues, call'[j].created, call'[j].at \in Ensuring
        PROVE  j \notin dirty'
    <3>1. call[j].created /\ call[j].at \in Ensuring
      BY <1>m, <1>n, <2>2, Constants DEF Onward, Ensuring
    <3> QED BY <1>m, <1>p, <3>1 DEF Fresh, Left, Filled, Undone
  <2> QED BY <2>1, <2>2 DEF Fresh
<1>7. Ended'
  <2>1. ASSUME NEW j \in sweep PROVE call'[j].at = "idle"
    <3>1. call[j].at = "idle" /\ j \in Callers
      BY <1>p, <2>1, Types, Constants DEF Ended, At
    <3> QED BY <1>m, <3>1 DEF Ensuring
  <2>2. call'[Loop].at \in {"remove", "unbranch"} => call'[Loop].issue \in hist'.closed
    BY <1>m, <1>n, <1>p, Constants DEF Ended, Onward
  <2>3. ASSUME NEW j \in Issues, call'[j].terminal PROVE j \in hist'.closed
    BY <1>m, <1>n, <1>p, <2>3, Constants DEF Ended, Onward
  <2> QED BY <1>m, <1>p, <2>1, <2>2, <2>3 DEF Ended, At
<1>8. Accounted'
  <2>1. ASSUME NEW j \in Issues, dir'[j] # "absent", j \notin setup' \cup hist'.cut
        PROVE  \E d \in Callers : /\ call'[d].created /\ call'[d].at \notin {"served", "stopped"}
                                  /\ call'[d].issue = j
    <3>1. dir[j] # "absent" /\ j \notin setup \cup hist.cut
      <4>1. CASE j # i
        BY <1>m, <2>1, <4>1
      <4>2. CASE j = i
        BY <1>m, <2>1, <4>2 DEF Left, Filled, Undone
      <4> QED BY <4>1, <4>2
    <3>2. PICK d \in Callers : /\ call[d].created /\ call[d].at \notin {"served", "stopped"}
                               /\ call[d].issue = j
      BY <1>p, <3>1 DEF Accounted, Creating
    <3>3. CASE d # c
      BY <1>m, <3>2, <3>3
    <3>4. CASE d = c
      <4>1. Onward(c)
        BY <1>m, <2>1, <3>2, <3>4 DEF ServedNow, Over, i
      <4> QED BY <3>2, <3>4, <4>1 DEF Onward
    <3> QED BY <3>3, <3>4
  <2> QED BY <2>1 DEF Accounted, Creating
<1> QED BY <1>1, <1>2, <1>3, <1>6, <1>7, <1>8 DEF Parts

-----------------------------------------------------------------------------
(* The other steps.                                                        *)

(* A directory is made only where there is no worktree.                    *)
LEMMA BeginKeeps ==
  ASSUME TypeOK, Parts, NEW c \in Callers, NEW i \in Issues, Begin(c, i),
         \/ c = i /\ ~(call[Loop].at \in {"remove", "unbranch"} /\ call[Loop].issue = i)
         \/ c = Loop
  PROVE  Parts'
<1>p. Assigned /\ Alone /\ Standing /\ Fresh /\ Ended /\ Accounted
  BY DEF Parts
<1>t. call \in [Callers -> Calls] /\ dir \in [Issues -> {"absent", "empty", "tree"}]
      /\ hist \in [closed : SUBSET Issues, cut : SUBSET Issues, undone : SUBSET Issues]
  BY Types
<1>1. PICK made \in BOOLEAN :
        /\ made => dir[i] = "absent" \/ JustMade(i)
        /\ call' = [call EXCEPT ![c] = [Idle(manager) EXCEPT !.issue = i, !.created = made,
                     !.at = IF dir[i] = "tree" THEN "prepare" ELSE "lock"]]
        /\ (dir[i] = "absent" => made)
  BY DEF Begin
<1>2. /\ At(c, "idle") /\ sweep = {} /\ i \notin closed
      /\ dir' = [dir EXCEPT ![i] = IF @ = "absent" THEN "empty" ELSE @]
      /\ hist' = (IF c = i THEN [hist EXCEPT !.closed = @ \ {i}, !.undone = @ \ {i}] ELSE hist)
      /\ UNCHANGED <<name, closed, head, dirty, setup, sweep>>
  BY DEF Begin, fixed
<1>3. made => dir[i] # "tree"
  BY <1>1 DEF JustMade
<1>4. /\ call'[c].issue = i /\ call'[c].created = made /\ call'[c].terminal = FALSE
      /\ call'[c].at = IF dir[i] = "tree" THEN "prepare" ELSE "lock"
      /\ \A d \in Callers \ {c} : call'[d] = call[d]
  BY <1>1, <1>t DEF Idle
<1>5. /\ dir'[i] = IF dir[i] = "absent" THEN "empty" ELSE dir[i]
      /\ \A j \in Issues \ {i} : dir'[j] = dir[j]
  BY <1>2, <1>t
<1>6. hist'.cut = hist.cut /\ hist.closed \ {i} \subseteq hist'.closed
      /\ (c # i => hist'.closed = hist.closed) /\ hist.undone \ {i} \subseteq hist'.undone
      /\ (c # i => hist'.undone = hist.undone)
  BY <1>2, <1>t
<1>7. c = i => c # Loop /\ ~(call[Loop].at \in {"remove", "unbranch"} /\ call[Loop].issue = i)
  BY Constants
<1>8. c \in Issues => c = i
  BY Constants
<1>9. call[c].at = "idle" /\ ~call[c].created
  BY <1>2, <1>p DEF Assigned, At
<1>10. Assigned'
  BY <1>4, <1>8, <1>p, Constants DEF Assigned, At
<1>11. Alone'
  <2>1. ASSUME NEW j \in Issues, call'[Loop].at \in {"remove", "unbranch"}, call'[Loop].issue = j
        PROVE  call'[j].at = "idle"
    <3>1. c # Loop /\ call'[Loop] = call[Loop]
      BY <1>4, <2>1, Constants
    <3>2. call[j].at = "idle" /\ j # c
      BY <1>7, <1>8, <1>p, <2>1, <3>1, Constants DEF Alone, At, Callers
    <3> QED BY <1>4, <3>2, Constants
  <2> QED BY <2>1 DEF Alone, At
<1>12. Standing'
  <2>1. ASSUME NEW j \in Issues, call'[j].at = "hook"
        PROVE  (dir'[j] = "tree" /\ head'[j] = name'[j]) \/ j \in hist'.undone
    <3>1. j # c /\ call[j].at = "hook"
      BY <1>4, <2>1, Constants
    <3>2. (dir[j] = "tree" /\ head[j] = name[j]) \/ j \in hist.undone
      BY <1>p, <3>1 DEF Standing, At
    <3>3. j \in hist.undone => j \in hist'.undone
      BY <1>6, <1>8, <3>1
    <3> QED BY <1>2, <1>5, <3>2, <3>3
  <2> QED BY <2>1 DEF Standing, At
<1>15. Fresh'
  <2>1. \A j \in dirty : dir'[j] = "tree"
    <3>1. \A j \in dirty : j \in Issues
      BY Types
    <3> QED BY <1>5, <1>p, <3>1 DEF Fresh
  <2>2. made => i \notin dirty
    BY <1>3, <1>p DEF Fresh
  <2>3. ASSUME NEW j \in Issues, call'[j].created, call'[j].at \in Ensuring
        PROVE  j \notin dirty
    BY <1>4, <1>8, <1>p, <2>2, <2>3, Constants DEF Fresh
  <2> QED BY <1>2, <2>1, <2>3 DEF Fresh
<1>16. Ended'
  <2>1. i \notin closed /\ sweep = {} /\ closed' = closed /\ sweep' = sweep
    BY <1>2
  <2>2. call'[Loop].at \in {"remove", "unbranch"} => call'[Loop].issue \in hist'.closed
    BY <1>4, <1>6, <1>7, <1>p, Constants DEF Ended, At
  <2>3. ASSUME NEW j \in Issues, call'[j].terminal PROVE j \in hist'.closed
    <3>1. j # c /\ call[j].terminal
      BY <1>4, <2>3, Constants
    <3>2. j \in hist.closed
      BY <1>p, <3>1 DEF Ended
    <3> QED BY <1>6, <3>1, <3>2
  <2> QED BY <1>6, <1>p, <2>1, <2>2, <2>3 DEF Ended
<1>17. Accounted'
  <2>1. ASSUME NEW j \in Issues, dir'[j] # "absent", j \notin setup' \cup hist'.cut
        PROVE  \E d \in Callers : /\ call'[d].created /\ call'[d].at \notin {"served", "stopped"}
                                  /\ call'[d].issue = j
    <3>1. CASE dir[j] = "absent"
      <4>1. j = i /\ made
        BY <1>1, <1>5, <2>1, <3>1
      <4> QED BY <1>4, <3>1, <4>1
    <3>2. CASE dir[j] # "absent"
      <4>1. PICK d \in Callers : /\ call[d].created /\ call[d].at \notin {"served", "stopped"}
                                 /\ call[d].issue = j
        BY <1>2, <1>6, <1>p, <2>1, <3>2 DEF Accounted, Creating
      <4> QED BY <1>4, <1>9, <4>1
    <3> QED BY <3>1, <3>2
  <2> QED BY <2>1 DEF Accounted, Creating
<1> QED BY <1>10, <1>11, <1>12, <1>15, <1>16, <1>17 DEF Parts

(* Work, and what people do to the state of an issue, move no call.        *)
LEMMA WorkKeeps ==
  ASSUME TypeOK, Parts, NEW i \in Issues, Work(i) \/ HumanCloses(i)
  PROVE  Parts'
<1>p. Assigned /\ Alone /\ Standing /\ Fresh /\ Ended /\ Accounted
  BY DEF Parts
<1>1. CASE Work(i)
  <2>1. /\ At(i, "served") /\ dir[i] = "tree" /\ dirty' \subseteq dirty \cup {i}
        /\ \A j \in Issues \ {i} : head'[j] = head[j]
        /\ UNCHANGED <<name, closed, dir, setup, call, sweep, hist>>
    BY <1>1, Types DEF Work, fixed
  <2>2. Assigned' /\ Alone' /\ Ended' /\ Accounted'
    BY <1>p, <2>1 DEF Assigned, Alone, Ended, Accounted, At, Creating
  <2>3. Standing'
    BY <1>p, <2>1 DEF Standing, At
  <2>4. Fresh'
    BY <1>p, <2>1 DEF Fresh, At, Ensuring
  <2> QED BY <2>2, <2>3, <2>4 DEF Parts
<1>2. CASE HumanCloses(i)
  <2>1. UNCHANGED <<name, dir, head, dirty, setup, call, sweep>>
    BY <1>2 DEF HumanCloses, fixed, disk
  <2>2. hist'.cut = hist.cut /\ hist'.undone = hist.undone /\ hist'.closed = hist.closed \cup closed'
    BY <1>2, Types DEF HumanCloses
  <2>3. Assigned' /\ Alone' /\ Standing' /\ Fresh'
    BY <1>p, <2>1, <2>2 DEF Assigned, Alone, Standing, Fresh, At
  <2>4. Ended' /\ Accounted'
    BY <1>p, <2>1, <2>2 DEF Ended, Accounted, Creating, At
  <2> QED BY <2>3, <2>4 DEF Parts
<1> QED BY <1>1, <1>2

(* A worker leaves, is told to stop, and returns.                          *)
LEMMA LeaveKeeps ==
  ASSUME TypeOK, Parts, NEW i \in Issues, Leave(i) \/ Stopped(i) \/ Stop(i)
  PROVE  Parts'
<1>p. Assigned /\ Alone /\ Standing /\ Fresh /\ Ended /\ Accounted
  BY DEF Parts
<1>1. /\ UNCHANGED <<name, closed, dir, head, dirty, setup, sweep, hist>>
      /\ \A d \in Callers \ {i} : call'[d] = call[d]
  BY Types DEF Leave, Stopped, Stop, GoTo, fixed, disk
<1>2. call[i] \in Calls /\ i \in Callers /\ i # Loop /\ call[i].at # "idle"
  BY Types, Constants DEF Leave, Stopped, Stop, Active, At
(* Where the call of the worker is, and whether it still is one.           *)
<1>3. \/ call[i].at = "served" /\ call'[i].at = "idle" /\ ~call'[i].created /\ ~call'[i].terminal
      \/ /\ call'[i].issue = call[i].issue /\ call'[i].created = call[i].created
         /\ call[i].at = "served" /\ call'[i].at = "stopped" /\ call'[i].terminal = call[i].terminal
      \/ /\ call'[i].issue = call[i].issue /\ call'[i].created = call[i].created
         /\ call'[i].at = call[i].at /\ (call'[i].terminal => i \in closed)
  <2>1. CASE Leave(i)
    BY <1>2, <2>1, Types DEF Leave, Idle, At
  <2>2. CASE Stopped(i)
    BY <1>2, <2>2, Types DEF Stopped, GoTo, Calls, At
  <2>3. CASE Stop(i)
    <3>1. call'[i] = [call[i] EXCEPT !.cancelled = TRUE, !.terminal = i \in closed]
      BY <1>2, <2>3, Types DEF Stop
    <3>2. /\ call'[i].issue = call[i].issue /\ call'[i].created = call[i].created
          /\ call'[i].at = call[i].at /\ (call'[i].terminal = (i \in closed))
      BY <1>2, <3>1 DEF Calls
    <3> QED BY <3>2
  <2> QED BY <2>1, <2>2, <2>3
<1>4. Assigned'
  BY <1>1, <1>2, <1>3, <1>p, Constants DEF Assigned, At
<1>5. Alone'
  BY <1>1, <1>2, <1>3, <1>p, Constants DEF Alone, At
<1>6. Standing'
  BY <1>1, <1>2, <1>3, <1>p, Constants DEF Standing, At
<1>8. Fresh'
  BY <1>1, <1>2, <1>3, <1>p, Constants DEF Fresh, Ensuring
<1>9. Ended'
  <2>1. ASSUME NEW j \in Issues, call'[j].terminal PROVE j \in hist'.closed
    BY <1>1, <1>2, <1>3, <1>p, <2>1, Constants DEF Ended
  <2>2. \A j \in sweep : j # i /\ j \in Callers
    BY <1>2, <1>p, Types, Constants DEF Ended, At
  <2> QED BY <1>1, <1>2, <1>p, <2>1, <2>2, Constants DEF Ended, At
<1>10. Accounted'
  BY <1>1, <1>2, <1>3, <1>p, Constants DEF Accounted, Creating
<1> QED BY <1>4, <1>5, <1>6, <1>8, <1>9, <1>10 DEF Parts

(* The loop takes up a removal, when the worker is gone, and ends it.      *)
LEMMA RemovalKeeps ==
  ASSUME TypeOK, Parts,
         \/ \E i \in Issues : Exit(i) \/ Sweep(i)
         \/ DeleteBranch \/ RemoveFails
  PROVE  Parts'
<1>p. Assigned /\ Alone /\ Standing /\ Fresh /\ Ended /\ Accounted
  BY DEF Parts
<1>1. UNCHANGED <<name, closed, dir, head, dirty, setup, hist>> /\ sweep' \subseteq sweep
  BY DEF Exit, Sweep, DeleteBranch, RemoveFails, fixed, disk
<1>2. call[Loop].at \in {"idle", "remove", "unbranch"} /\ ~call[Loop].created
  BY <1>p, Constants DEF Exit, Sweep, DeleteBranch, RemoveFails, Assigned, At
(* A worker goes on or has returned.                                       *)
<1>3. \A j \in Issues :
        \/ call'[j] = call[j]
        \/ call[j].at = "stopped" /\ call'[j].at = "idle" /\ ~call'[j].created /\ ~call'[j].terminal
  <2>1. CASE \E i \in Issues : Exit(i)
    <3>1. PICK i \in Issues : /\ Exit(i)
                              /\ \E r : call' = [call EXCEPT ![i] = Idle(manager), ![Loop] = r]
      BY <2>1 DEF Exit
    <3>2. \A j \in Issues \ {i} : call'[j] = call[j]
      BY <3>1, Types, Constants
    <3>3. call'[i] = Idle(manager) /\ call[i].at = "stopped"
      BY <3>1, Types, Constants DEF Exit, At
    <3> QED BY <3>2, <3>3 DEF Idle
  <2>2. CASE (\E i \in Issues : Sweep(i)) \/ DeleteBranch \/ RemoveFails
    <3>1. PICK r : call' = [call EXCEPT ![Loop] = r]
      BY <2>2 DEF Sweep, DeleteBranch, RemoveFails
    <3> QED BY <3>1, Types, Constants
  <2> QED BY <2>1, <2>2
(* The loop is idle, or is to remove the workspace of an idle worker.      *)
<1>4. /\ ~call'[Loop].created
      /\ \/ call'[Loop].at = "idle"
         \/ /\ call'[Loop].at = "remove" /\ call'[Loop].issue \in hist.closed \cap Issues
            /\ call'[call'[Loop].issue].at = "idle"
  <2>1. CASE \E i \in Issues : Exit(i)
    <3>1. PICK i \in Issues : Exit(i)
      BY <2>1
    <3>2. CASE Terminal(i)
      <4>1. call' = [call EXCEPT ![i] = Idle(manager), ![Loop] = [Idle(manager) EXCEPT !.at = "remove", !.issue = i]]
        BY <3>1, <3>2 DEF Exit
      <4>2. i \in hist.closed
        BY <1>p, <3>2 DEF Ended, Terminal
      <4>3. /\ call'[Loop] = [Idle(manager) EXCEPT !.at = "remove", !.issue = i]
            /\ call'[i] = Idle(manager)
        BY <4>1, Types, Constants
      <4> QED BY <4>2, <4>3 DEF Idle
    <3>3. CASE ~Terminal(i)
      <4>1. call' = [call EXCEPT ![i] = Idle(manager), ![Loop] = @] /\ At(Loop, "idle")
        BY <3>1, <3>3 DEF Exit
      <4> QED BY <1>2, <4>1, Types, Constants DEF At
    <3> QED BY <3>2, <3>3
  <2>2. CASE \E i \in Issues : Sweep(i)
    <3>1. PICK i \in Issues : Sweep(i)
      BY <2>2
    <3>2. /\ call'[Loop] = [Idle(manager) EXCEPT !.at = "remove", !.issue = i]
          /\ call'[i] = call[i] /\ i \in sweep
      BY <3>1, Types, Constants DEF Sweep
    <3>3. i \in hist.closed /\ call[i].at = "idle"
      BY <1>p, <3>2 DEF Ended, At
    <3> QED BY <3>2, <3>3 DEF Idle
  <2>3. CASE DeleteBranch \/ RemoveFails
    <3>1. call'[Loop] = Idle(manager)
      BY <2>3, Types, Constants DEF DeleteBranch, RemoveFails
    <3> QED BY <3>1 DEF Idle
  <2> QED BY <2>1, <2>2, <2>3
<1>5. Assigned'
  BY <1>3, <1>4, <1>p DEF Assigned, At, Callers
<1>6. Alone'
  BY <1>4 DEF Alone, At
<1>7. Standing'
  BY <1>1, <1>3, <1>p DEF Standing, At
<1>9. Fresh'
  BY <1>1, <1>3, <1>p DEF Fresh, Ensuring
<1>10. Ended'
  <2>1. \A j \in sweep' : call'[j].at = "idle"
    BY <1>1, <1>3, <1>p, Types DEF Ended, At
  <2> QED BY <1>1, <1>3, <1>4, <1>p, <2>1 DEF Ended, At
<1>11. Accounted'
  <2>1. ASSUME NEW j \in Issues, dir'[j] # "absent", j \notin setup' \cup hist'.cut
        PROVE  \E d \in Callers : /\ call'[d].created /\ call'[d].at \notin {"served", "stopped"}
                                  /\ call'[d].issue = j
    <3>1. PICK d \in Callers : /\ call[d].created /\ call[d].at \notin {"served", "stopped"}
                               /\ call[d].issue = j
      BY <1>1, <1>p, <2>1 DEF Accounted, Creating
    <3>2. call'[d] = call[d]
      BY <1>2, <1>3, <3>1 DEF Callers
    <3> QED BY <3>1, <3>2
  <2> QED BY <2>1 DEF Accounted, Creating
<1> QED BY <1>5, <1>6, <1>7, <1>9, <1>10, <1>11 DEF Parts

(* A worktree is removed when nobody works there or is on the way there.   *)
LEMMA RemoveKeeps ==
  ASSUME TypeOK, Parts, RemoveWorktree
  PROVE  Parts'
<1> DEFINE i == call[Loop].issue
<1>p. Assigned /\ Alone /\ Standing /\ Fresh /\ Ended /\ Accounted
  BY DEF Parts
<1>1. /\ call[Loop].at = "remove" /\ i \in Issues /\ ~call[Loop].created /\ call[i].at = "idle"
      /\ i \in hist.closed
  BY <1>p, Constants DEF RemoveWorktree, Assigned, Alone, Ended, At
<1>2. /\ \A j \in Issues \ {i} : dir'[j] = dir[j] /\ head'[j] = head[j]
      /\ dir'[i] = "absent" /\ dirty' = dirty \ {i} /\ setup' = setup \ {i}
      /\ hist'.cut = hist.cut \ {i} /\ hist'.closed = hist.closed /\ hist'.undone = hist.undone
      /\ UNCHANGED <<name, closed, sweep>>
  BY <1>1, Types DEF RemoveWorktree, Delete, Unlink, fixed
<1>3. \A j \in Issues : call'[j] = call[j]
  BY Types, Constants DEF RemoveWorktree
<1>4. /\ ~call'[Loop].created
      /\ \/ call'[Loop].at = "idle"
         \/ call'[Loop].at = "unbranch" /\ call'[Loop].issue = i
  <2>1. CASE call' = [call EXCEPT ![Loop].at = "unbranch", ![Loop].branch = head[i]]
    <3>1. call[Loop] \in Calls /\ Loop \in Callers
      BY Types, Constants
    <3>2. call'[Loop] = [call[Loop] EXCEPT !.at = "unbranch", !.branch = head[i]]
      BY <2>1, <3>1, Types
    <3> QED BY <1>1, <3>1, <3>2 DEF Calls
  <2>2. CASE call' = [call EXCEPT ![Loop] = Idle(manager)]
    <3>1. call'[Loop] = Idle(manager)
      BY <2>2, Types, Constants
    <3> QED BY <3>1 DEF Idle
  <2> QED BY <2>1, <2>2 DEF RemoveWorktree
<1>e. call[Loop].issue = i
  OBVIOUS
<1> HIDE DEF i
<1>5. Assigned'
  BY <1>1, <1>3, <1>4, <1>p DEF Assigned, At, Callers
<1>6. Alone'
  BY <1>1, <1>3, <1>4 DEF Alone, At
<1>7. Standing'
  BY <1>1, <1>2, <1>3, <1>p DEF Standing, At
<1>10. Fresh'
  BY <1>1, <1>2, <1>3, <1>p, Types DEF Fresh
<1>11. Ended'
  BY <1>1, <1>2, <1>3, <1>4, <1>p, Types DEF Ended, At
<1>12. Accounted'
  <2>1. ASSUME NEW j \in Issues, dir'[j] # "absent", j \notin setup' \cup hist'.cut
        PROVE  \E d \in Callers : /\ call'[d].created /\ call'[d].at \notin {"served", "stopped"}
                                  /\ call'[d].issue = j
    <3>1. PICK d \in Callers : /\ call[d].created /\ call[d].at \notin {"served", "stopped"}
                               /\ call[d].issue = j
      BY <1>2, <1>p, <2>1 DEF Accounted, Creating
    <3>2. call'[d] = call[d]
      BY <1>1, <1>3, <3>1 DEF Callers
    <3> QED BY <3>1, <3>2
  <2> QED BY <2>1 DEF Accounted, Creating
<1> QED BY <1>5, <1>6, <1>7, <1>10, <1>11, <1>12 DEF Parts

(* The process dies.                                                       *)
LEMMA CrashKeeps ==
  ASSUME TypeOK, Parts, Crash
  PROVE  Parts'
<1>p. Ended /\ Accounted /\ Fresh /\ Assigned
  BY DEF Parts
<1>1. /\ \A c \in Callers : call'[c] = Idle(manager)
      /\ UNCHANGED <<name, closed, dir, head, dirty, setup>> /\ sweep' \in {closed, {}}
  BY DEF Crash, fixed, disk
<1>2. \A c \in Callers : call'[c].at = "idle" /\ ~call'[c].created /\ ~call'[c].terminal
  BY <1>1 DEF Idle
<1>3. hist'.closed = hist.closed /\ hist'.undone = hist.undone /\ hist'.cut = hist.cut \cup {call[c].issue : c \in Creating}
  BY Types DEF Crash
<1>4. \A i \in Issues : i \in Callers
  BY Constants
<1>5. Assigned' /\ Alone' /\ Standing' /\ Fresh'
  BY <1>1, <1>2, <1>4, <1>p, Constants DEF Assigned, Alone, Standing, Fresh, At, Ensuring
<1>6. Ended'
  BY <1>1, <1>2, <1>3, <1>4, <1>p, Types, Constants DEF Ended, At
<1>7. Accounted'
  BY <1>1, <1>3, <1>p DEF Accounted
<1> QED BY <1>5, <1>6, <1>7 DEF Parts

LEMMA StillKeeps ==
  ASSUME Parts, Reload \/ UNCHANGED vars
  PROVE  Parts'
<1>1. UNCHANGED <<fixed, closed, disk, call, sweep, hist>>
  BY DEF Reload, vars, fixed, disk
<1> QED BY <1>1 DEF Parts, Assigned, Alone, Standing, Fresh, Ended, Accounted,
                    At, Creating, fixed, disk

LEMMA StartsWell ==
  ASSUME Init
  PROVE  WorkInv
<1>1. \A c \in Callers : call[c] = Idle(1)
  BY DEF Init
<1>2. \A c \in Callers : call[c].at = "idle" /\ ~call[c].created /\ ~call[c].terminal
  BY <1>1 DEF Idle
<1>3. TypeOK
  <2>1. call \in [Callers -> Calls]
    BY CallTypes, Constants DEF Init
  <2>2. kind \in {"managed", "checkout"} /\ name \in [Issues -> Branches]
    BY WorkspaceAssumption DEF Init
  <2> QED BY <2>1, <2>2, Constants DEF Init, TypeOK, Calls
<1>4. Parts
  BY <1>2, Constants
  DEF Init, Parts, Assigned, Alone, Standing, Fresh, Ended, Accounted, At
<1> QED BY <1>3, <1>4 DEF WorkInv

LEMMA NextKeeps ==
  ASSUME WorkInv, [Next]_vars
  PROVE  WorkInv'
<1>p. TypeOK /\ Parts /\ Assigned
  BY DEF WorkInv, Parts
<1>1. CASE \E c \in Callers : Ensure(c) \/ CloneFails(c) \/ CommandFails(c)
  BY <1>1, <1>p, EnsureType, EnsureMoves, EnsureKeeps DEF WorkInv
<1>2. CASE (\E i \in Issues : StartWorker(i)) \/ StartSync
  <2>1. PICK c \in Callers, i \in Issues :
          /\ Begin(c, i)
          /\ \/ c = i /\ ~(call[Loop].at \in {"remove", "unbranch"} /\ call[Loop].issue = i)
             \/ c = Loop
    BY <1>2, Constants DEF StartWorker, StartSync
  <2> QED BY <1>p, <2>1, RestType, BeginKeeps DEF WorkInv
<1>3. CASE \E i \in Issues : Work(i) \/ HumanCloses(i)
  BY <1>3, <1>p, RestType, WorkKeeps DEF WorkInv
<1>4. CASE \E i \in Issues : Leave(i) \/ Stopped(i) \/ Stop(i)
  BY <1>4, <1>p, RestType, LeaveKeeps DEF WorkInv
<1>5. CASE (\E i \in Issues : Exit(i) \/ Sweep(i)) \/ DeleteBranch \/ RemoveFails
  BY <1>5, <1>p, RestType, RemovalKeeps DEF WorkInv
<1>6. CASE RemoveWorktree
  BY <1>6, <1>p, RestType, RemoveKeeps DEF WorkInv
<1>7. CASE Crash
  BY <1>7, <1>p, RestType, CrashKeeps DEF WorkInv
<1>8. CASE Reload \/ UNCHANGED vars
  BY <1>8, <1>p, RestType, StillKeeps DEF WorkInv
<1> QED BY <1>1, <1>2, <1>3, <1>4, <1>5, <1>6, <1>7, <1>8 DEF Next

-----------------------------------------------------------------------------
(* What the properties ask about a step.                                   *)

(* A worker is served at the end of its own Ensure.                        *)
LEMMA ServedByEnsure ==
  ASSUME TypeOK, Parts, Next, NEW i \in Issues, ~At(i, "served"), call'[i].at = "served"
  PROVE  Moves(i) /\ ServedNow(i) /\ UNCHANGED <<dir, head, name>> /\ call[i].issue = i
<1>p. Assigned /\ i \in Callers /\ i # Loop
  BY Constants DEF Parts
<1>1. ASSUME NEW c \in Callers, Moves(c)
      PROVE  Moves(i) /\ ServedNow(i) /\ UNCHANGED <<dir, head, name>> /\ call[i].issue = i
  <2>1. c = i
    BY <1>1, <1>p DEF Moves, At
  <2>2. ~Onward(c) /\ ~Over(c)
    <3>1. call[c] \in Calls
      BY Types
    <3> QED BY <2>1, <3>1 DEF Onward, Over, Idle, Calls
  <2>3. ServedNow(i) /\ UNCHANGED <<dir, head, name>>
    BY <1>1, <2>1, <2>2 DEF Moves, fixed
  <2> QED BY <1>1, <1>p, <2>1, <2>3 DEF ServedNow, Assigned, At
<1>2. CASE \E c \in Callers : Ensure(c) \/ CloneFails(c) \/ CommandFails(c)
  BY <1>1, <1>2, <1>p, EnsureMoves
<1>3. CASE (\E j \in Issues : StartWorker(j)) \/ StartSync
  <2>1. PICK c \in Callers, j \in Issues : Begin(c, j)
    BY <1>3, Constants DEF StartWorker, StartSync
  <2>2. PICK made \in BOOLEAN :
          call' = [call EXCEPT ![c] = [Idle(manager) EXCEPT !.issue = j, !.created = made,
                     !.at = IF dir[j] = "tree" THEN "prepare" ELSE "lock"]]
    BY <2>1 DEF Begin
  <2>3. call'[i] = call[i] \/ call'[i].at \in {"prepare", "lock"}
    BY <1>p, <2>2, Types DEF Idle
  <2> QED BY <2>3 DEF At
<1>4. ASSUME NEW j \in Issues, Work(j) \/ HumanCloses(j) \/ Leave(j) \/ Stopped(j) \/ Stop(j) PROVE FALSE
  <2>1. call[i] \in Calls
    BY <1>p, Types
  <2>2. CASE Work(j) \/ HumanCloses(j)
    BY <2>2 DEF Work, HumanCloses, At
  <2>3. CASE Leave(j) \/ Stopped(j)
    <3>1. call'[i] = call[i] \/ call'[i] = Idle(manager) \/ call'[i] = [call[i] EXCEPT !.at = "stopped"]
      BY <1>p, <2>3, Types, Constants DEF Leave, Stopped, GoTo
    <3> QED BY <2>1, <3>1 DEF Idle, Calls, At
  <2>4. CASE Stop(j)
    <3>1. PICK x : x = (j \in closed)
      OBVIOUS
    <3>2. call' = [call EXCEPT ![j] = [call[j] EXCEPT !.cancelled = TRUE, !.terminal = x]]
      BY <2>4, <3>1 DEF Stop
    <3>3. call'[i] = call[i] \/ call'[i] = [call[i] EXCEPT !.cancelled = TRUE, !.terminal = x]
      BY <1>p, <3>2, Types, Constants
    <3>4. call'[i].at = call[i].at
      BY <2>1, <3>3 DEF Calls
    <3> QED BY <3>4 DEF At
  <2> QED BY <1>4, <2>2, <2>3, <2>4
<1>5. CASE (\E j \in Issues : Exit(j) \/ Sweep(j)) \/ DeleteBranch \/ RemoveFails \/ RemoveWorktree
  <2>1. call'[i] = call[i] \/ call'[i] = Idle(manager)
    <3>1. CASE \E j \in Issues : Exit(j)
      <4>1. PICK j \in Issues : \E r : call' = [call EXCEPT ![j] = Idle(manager), ![Loop] = r]
        BY <3>1 DEF Exit
      <4> QED BY <1>p, <4>1, Types, Constants
    <3>2. CASE (\E j \in Issues : Sweep(j)) \/ DeleteBranch \/ RemoveFails \/ RemoveWorktree
      BY <1>p, <3>2, Types DEF Sweep, DeleteBranch, RemoveFails, RemoveWorktree
    <3> QED BY <1>5, <3>1, <3>2
  <2> QED BY <2>1 DEF Idle, At
<1>6. CASE Crash
  BY <1>6, <1>p DEF Crash, Idle
<1>7. CASE Reload
  BY <1>7 DEF Reload, At
<1> QED BY <1>2, <1>3, <1>4, <1>5, <1>6, <1>7 DEF Next

(* Uncommitted work goes with a commit, with a removal, or with a directory *)
(* that the loop made.                                                     *)
LEMMA WorkGoes ==
  ASSUME TypeOK, Parts, Next, NEW i \in Issues, i \in dirty, i \notin dirty'
  PROVE  local'[head[i]] = "ahead" \/ Removing(i) \/ TakingBack(i)
<1>p. Assigned /\ Fresh /\ Ended
  BY DEF Parts
<1>1. ASSUME NEW c \in Callers, Moves(c) PROVE TakingBack(i)
  <2>1. Undone(c, i) /\ call[c].issue = i
    BY <1>1 DEF Moves, Left, Filled, Undone
  <2>2. c = Loop
    BY <1>p, <2>1 DEF Fresh, Undone, Ensuring, At, Assigned, Callers
  <2> QED BY <2>1, <2>2 DEF TakingBack, Undone
<1>2. CASE \E c \in Callers : Ensure(c) \/ CloneFails(c) \/ CommandFails(c)
  BY <1>1, <1>2, <1>p, EnsureMoves
<1>3. CASE \E j \in Issues : Work(j)
  <2>1. PICK j \in Issues : Work(j)
    BY <1>3
  <2>2. j = i
    BY <2>1 DEF Work
  <2>3. head[i] \in Branches
    BY <2>1, <2>2, Types DEF Work
  <2> QED BY <2>1, <2>2, <2>3, Types DEF Work
<1>4. CASE RemoveWorktree
  BY <1>4, <1>p, Types DEF RemoveWorktree, Delete, Removing, Ended, At
<1>5. CASE (\E j \in Issues : StartWorker(j)) \/ StartSync
  BY <1>5 DEF StartWorker, StartSync, Begin
<1>6. CASE \E j \in Issues : HumanCloses(j) \/ Leave(j) \/ Stopped(j) \/ Stop(j) \/ Exit(j) \/ Sweep(j)
  BY <1>6 DEF HumanCloses, Leave, Stopped, Stop, Exit, Sweep, disk
<1>7. CASE DeleteBranch \/ RemoveFails \/ Crash \/ Reload
  BY <1>7 DEF DeleteBranch, RemoveFails, Crash, Reload, disk
<1> QED BY <1>2, <1>3, <1>4, <1>5, <1>6, <1>7 DEF Next

(* A branch with commits that GitHub does not have goes with a removal.    *)
LEMMA BranchGoes ==
  ASSUME TypeOK, Parts, Next, NEW b \in Branches, local[b] = "ahead", local'[b] = "none"
  PROVE  \E i \in Issues : Removing(i)
<1>p. Assigned /\ Ended
  BY DEF Parts
<1>c. ASSUME NEW x, Create(x) PROVE FALSE
  BY <1>c, Types DEF Create
<1>1. CASE \E c \in Callers : Ensure(c) \/ CloneFails(c) \/ CommandFails(c)
  <2>1. UNCHANGED local \/ \E x : Create(x)
    <3>1. PICK c \in Callers : Ensure(c) \/ CloneFails(c) \/ CommandFails(c)
      BY <1>1
    <3> QED BY <3>1 DEF Ensure, Prepare, Lock, Source, Clone, CloneFails, AddWorktree, CommandFails, Hook,
                       Clean, Add, git
  <2> QED BY <1>c, <2>1
<1>2. CASE \E j \in Issues : Work(j)
  <2>1. PICK j \in Issues :
          UNCHANGED local \/ (\E x : Create(x)) \/ \E v \in {"ahead", "same"} : local' = [local EXCEPT ![head[j]] = v]
    BY <1>2 DEF Work
  <2> QED BY <1>c, <2>1, Types
<1>3. CASE DeleteBranch
  BY <1>3, <1>p DEF DeleteBranch, Removing, Assigned, Ended, At
<1>4. CASE (\E j \in Issues : StartWorker(j)) \/ StartSync
  BY <1>4 DEF StartWorker, StartSync, Begin, git
<1>5. CASE \E j \in Issues : HumanCloses(j) \/ Leave(j) \/ Stopped(j) \/ Stop(j) \/ Exit(j) \/ Sweep(j)
  BY <1>5 DEF HumanCloses, Leave, Stopped, Stop, Exit, Sweep, git
<1>6. CASE RemoveWorktree \/ RemoveFails \/ Crash \/ Reload
  BY <1>6 DEF RemoveWorktree, RemoveFails, Crash, Reload, git
<1> QED BY <1>1, <1>2, <1>3, <1>4, <1>5, <1>6 DEF Next

-----------------------------------------------------------------------------
(* The theorems.                                                           *)

LEMMA WorkInvariant == Spec => []WorkInv
<1>1. Init => WorkInv
  BY StartsWell
<1>2. WorkInv /\ [Next]_vars => WorkInv'
  BY NextKeeps
<1> QED BY <1>1, <1>2, PTL DEF Spec

(* A run starts in a worktree on the branch of its issue, whatever branch  *)
(* an earlier run left there, whoever prepared it and however many issues  *)
(* want the branch (prepareBranch), unless the loop took the directory     *)
(* away while the worker prepared it (Ensure).                             *)
THEOREM ServedOnBranchHolds == Spec => ServedOnBranch
<1>1. ASSUME WorkInv, [Next]_vars
      PROVE  [\A i \in Issues : ~At(i, "served") /\ call'[i].at = "served"
                => (dir'[i] = "tree" /\ head'[i] = name[i]) \/ i \in hist.undone]_vars
  <2>1. ASSUME Next, NEW i \in Issues, ~At(i, "served"), call'[i].at = "served"
        PROVE  (dir'[i] = "tree" /\ head'[i] = name[i]) \/ i \in hist.undone
    <3>1. TypeOK /\ Parts /\ Standing
      BY <1>1 DEF WorkInv, Parts
    <3>2. At(i, "hook") /\ UNCHANGED <<dir, head>>
      BY <2>1, <3>1, ServedByEnsure DEF ServedNow
    <3> QED BY <3>1, <3>2 DEF Standing, At
  <2> QED BY <1>1, <2>1
<1> QED BY <1>1, WorkInvariant, PTL DEF Spec, ServedOnBranch

(* Uncommitted work and commits that GitHub does not have disappear only   *)
(* with the workspace of an issue that was terminal since its last run     *)
(* began, whatever fails, stops or crashes, or, the work that was not      *)
(* committed, when the loop cleans up after itself (Ensure,                *)
(* handleWorkerExit).                                                      *)
THEOREM WorkKeptHolds == Spec => WorkKept
<1>1. ASSUME WorkInv, [Next]_vars
      PROVE  [/\ \A i \in Issues : i \in dirty /\ i \notin dirty' =>
                    local'[head[i]] = "ahead" \/ Removing(i) \/ TakingBack(i)
              /\ \A b \in Branches : local[b] = "ahead" /\ local'[b] = "none" =>
                    \E i \in Issues : Removing(i)]_vars
  BY <1>1, WorkGoes, BranchGoes DEF WorkInv
<1> QED BY <1>1, WorkInvariant, PTL DEF Spec, WorkKept

(* A run starts in a directory where after_create finished, or in one that *)
(* an interrupted call left behind or git made again, or that the loop     *)
(* made or took away meanwhile: there is no other way (createdNow).        *)
THEOREM SetUpBeforeUseHolds == Spec => SetUpBeforeUse
<1>1. ASSUME WorkInv, [Next]_vars
      PROVE  [\A i \in Issues : ~At(i, "served") /\ call'[i].at = "served" =>
                \/ i \in setup' \/ i \in hist'.cut \/ i \in hist.undone
                \/ call[Loop].issue = i /\ call[Loop].created]_vars
  <2>1. ASSUME Next, NEW i \in Issues, ~At(i, "served"), call'[i].at = "served",
               i \notin hist.undone, ~(call[Loop].issue = i /\ call[Loop].created)
        PROVE  i \in setup' \/ i \in hist'.cut
    <3>1. TypeOK /\ Parts /\ Assigned /\ Standing /\ Accounted
      BY <1>1 DEF WorkInv, Parts
    <3>2. Moves(i) /\ ServedNow(i) /\ call[i].issue = i /\ call[i].at = "hook" /\ UNCHANGED dir
      BY <2>1, <3>1, ServedByEnsure DEF ServedNow, At
    <3>3. CASE call[i].created
      BY <3>2, <3>3 DEF ServedNow
    <3>4. CASE ~call[i].created
      <4>1. dir[i] = "tree"
        BY <2>1, <3>1, <3>2 DEF Standing, At
      <4>2. ASSUME NEW d \in Callers, call[d].created, call[d].issue = i PROVE FALSE
        <5>1. call[d].at # "idle"
          BY <3>1, <4>2 DEF Assigned
        <5>2. d = Loop
          BY <3>1, <3>4, <4>2, <5>1 DEF Assigned, Callers, At
        <5> QED BY <2>1, <4>2, <5>2
      <4>3. i \in setup \cup hist.cut
        BY <3>1, <4>1, <4>2 DEF Accounted, Creating
      <4> QED BY <3>2, <4>1, <4>3 DEF Moves
    <3> QED BY <3>3, <3>4
  <2> QED BY <1>1, <2>1
<1> QED BY <1>1, WorkInvariant, PTL DEF Spec, SetUpBeforeUse
=============================================================================
