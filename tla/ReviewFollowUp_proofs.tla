----------------------- MODULE ReviewFollowUp_proofs -----------------------
(***************************************************************************)
(* Theorems of the review follow-up, for any threads, reactions and order  *)
(* of threads.                                                             *)
(*                                                                         *)
(* The record of an issue is copied all the time: the loop holds one while *)
(* it works, a run two, and each writes its own over what Linear has.  So  *)
(* what is claimed of the stored record is claimed of every copy.          *)
(***************************************************************************)
EXTENDS ReviewFollowUp, FiniteSetTheorems, FunctionTheorems, SequenceTheorems, TLAPS

Copies == {stored, loop.meta} \cup (IF run = None THEN {} ELSE {run.meta, run.entry})

(* What a queue holds, and what is due.                                    *)
Holds(queue, item) == \E k \in DOMAIN queue : queue[k] = item
IsDue(m, item) == item = m.pending \/ Holds(m.queue, item)

(* Where a copy of the record comes from in a step.                        *)
Descends(m) ==
  \/ m \in Copies \/ m = NoMetadata
  \/ Rollback /\ m = loop.previous
  \/ \E c \in Copies : m = Cleared(c) /\ (c.pending # None => c.pending.thread \notin Open')
  \/ /\ loop.at = "tracked" /\ UNCHANGED github
     /\ \/ m = Scanned(loop.meta)
        \/ /\ Scanned(loop.meta).pending = None /\ Scanned(loop.meta).queue # <<>>
           /\ m = NextTaken(Scanned(loop.meta))

(* A comment is due once.                                                  *)
Same(a, b) == a.thread = b.thread /\ IsReaction(a) = IsReaction(b)
Once(queue) == \A k, n \in DOMAIN queue : Same(queue[k], queue[n]) => k = n
DueOnce(m) ==
  /\ Once(m.queue)
  /\ m.pending # None => \A item \in Items : Holds(m.queue, item) => ~Same(m.pending, item)

(* What is due is a thread that was opened.                                *)
Opened(m) == \A item \in Items : IsDue(m, item) => last[item.thread] # "absent"

(* An approval with a watermark is due until its thread is resolved, or    *)
(* was taken out by a refused start.                                       *)
Kept(m) ==
  \A t \in CodexThreads : m.marks[t] # 0 =>
    /\ last[t] # "absent"
    /\ last[t] = "resolved" \/ CommentDue(m, t) \/ <<t, m.marks[t]>> \in lost

(* A refused start puts back the record it took a follow-up from.          *)
TypeInv == TypeOK /\ (loop.at = "rollback" => loop.previous # None)

(* No two threads share a reaction.                                        *)
Numbered ==
  \A t \in CodexThreads : /\ liked[t] \subseteq 1 .. given
                          /\ \A u \in CodexThreads : t # u => liked[t] \cap liked[u] = {}

OnceInv ==
  /\ \A m \in Copies : DueOnce(m) /\ Opened(m)
  /\ loop.previous # None => DueOnce(loop.previous) /\ Opened(loop.previous)

(* The record to put back has the watermarks of the one that was scanned,  *)
(* or none.                                                                *)
KeptInv ==
  /\ \A m \in Copies : Kept(m)
  /\ loop.previous # None =>
       \A t \in CodexThreads : loop.previous.marks[t] \in {0, loop.meta.marks[t]}

(* An approval that could be worked on now.                                *)
Waiting(m) == HasReaction(m) /\ m.pending.thread \in Open

(* The loop works on an issue that nobody runs.                            *)
Alone == loop.at # "idle" => run = None

Released == authorized \/ repaired

(* While the loop syncs the follow-ups only a human makes the issue        *)
(* active, and an approval that is stored is the one at hand.              *)
SyncCareful ==
  /\ loop.at \in {"tracked", "persist", "start", "rollback", "checks", "cleanup"} =>
       (board \in ActiveStates => Released)
  /\ loop.at \in {"tracked", "persist", "start"} =>
       (Waiting(stored) => loop.meta.pending = stored.pending)

(* Where a run may start, a waiting approval was released.                 *)
StartCareful ==
  /\ loop.at = "repair" => repaired
  /\ loop.at = "prepare" => (Waiting(loop.meta) \/ Waiting(stored) => Released)
  /\ loop.at = "idle" /\ run = None /\ board \in ActiveStates => (Waiting(stored) => Released)

(* So it was while a run may make the issue active, and for as long as it  *)
(* is.                                                                     *)
RunCareful ==
  run # None /\ (run.at = "begin" \/ board \in ActiveStates) =>
    (Waiting(stored) \/ Waiting(run.meta) \/ Waiting(run.entry) => Released)

CareInv == Alone /\ SyncCareful /\ StartCareful /\ RunCareful

-----------------------------------------------------------------------------
(* The operators of the scan.                                              *)

(* InOrder lists every member of a finite set of numbers once, the         *)
(* smallest first.                                                         *)
LEMMA Enumeration ==
  ASSUME NEW S, S \subseteq Nat, IsFiniteSet(S)
  PROVE  /\ Cardinality(S) \in Nat
         /\ InOrder(S) \in [1 .. Cardinality(S) -> S]
         /\ \A k, n \in 1 .. Cardinality(S) : k < n => InOrder(S)[k] < InOrder(S)[n]
         /\ \A s \in S : \E k \in 1 .. Cardinality(S) : InOrder(S)[k] = s
<1> DEFINE size == Cardinality(S)
           upto(k) == {j \in S : j <= k}
           rank == [k \in S |-> Cardinality(upto(k))]
<1>1. size \in Nat
  BY FS_CardinalityType
<1>2. ASSUME NEW k \in S
      PROVE  IsFiniteSet(upto(k)) /\ rank[k] \in 1 .. size
  <2>1. upto(k) \in SUBSET S /\ k \in upto(k)
    OBVIOUS
  <2>2. IsFiniteSet(upto(k)) /\ Cardinality(upto(k)) <= size
    BY <2>1, FS_Subset
  <2>3. Cardinality(upto(k)) \in Nat /\ Cardinality(upto(k)) # 0
    BY <2>1, <2>2, FS_CardinalityType, FS_EmptySet
  <2> QED BY <1>1, <2>2, <2>3
<1>3. ASSUME NEW k \in S, NEW m \in S, k < m
      PROVE  rank[k] < rank[m]
  <2>1. upto(k) \in SUBSET upto(m) /\ m \in upto(m) /\ m \notin upto(k)
    <3>1. \A j \in S : j <= k => j <= m
      BY <1>3
    <3>2. m <= m /\ ~(m <= k)
      BY <1>3
    <3> QED BY <3>1, <3>2
  <2>2. IsFiniteSet(upto(m))
    BY <1>2
  <2>3. Cardinality(upto(k)) <= Cardinality(upto(m))
        /\ Cardinality(upto(k)) # Cardinality(upto(m))
    BY <2>1, <2>2, FS_Subset
  <2> QED BY <1>2, <2>3
<1> HIDE DEF size, rank
<1>4. rank \in [S -> 1 .. size]
  BY <1>2 DEF rank
<1>5. rank \in Injection(S, 1 .. size)
  <2>1. ASSUME NEW a \in S, NEW b \in S, rank[a] = rank[b], a # b
        PROVE  FALSE
    <3>1. a < b \/ b < a
      BY <2>1
    <3>2. rank[a] \in Int
      BY <1>4
    <3> QED BY <1>3, <2>1, <3>1, <3>2
  <2> QED BY <1>4, <2>1, Fun_IsInj
<1>6. \A i \in 1 .. size : \E s \in S : rank[s] = i
  <2>1. IsFiniteSet(1 .. size) /\ Cardinality(1 .. size) = size
    BY <1>1, FS_Interval
  <2>2. rank \in Surjection(S, 1 .. size)
    BY <1>5, <2>1, FS_Injection DEF size
  <2> QED BY <2>2, Fun_SurjectionProperties
<1> DEFINE g == [i \in 1 .. size |-> CHOOSE s \in S : rank[s] = i]
<1>7. g \in [1 .. size -> S] /\ \A i \in 1 .. size : rank[g[i]] = i
  BY <1>6
<1> HIDE DEF g
<1>8. \A k, n \in DOMAIN g : k < n => g[k] < g[n]
  <2> SUFFICES ASSUME NEW k \in 1 .. size, NEW n \in 1 .. size, k < n, ~(g[k] < g[n])
               PROVE  FALSE
    BY <1>7
  <2>1. g[k] \in Nat /\ g[n] \in Nat /\ g[k] \in S /\ g[n] \in S
    BY <1>7
  <2>2. g[n] < g[k] \/ g[n] = g[k]
    BY <2>1
  <2> QED BY <1>1, <1>3, <1>7, <2>1, <2>2
<1> DEFINE f == InOrder(S)
<1>9. f \in [1 .. size -> S] /\ \A k, n \in DOMAIN f : k < n => f[k] < f[n]
  BY <1>7, <1>8 DEF InOrder, size
<1> HIDE DEF f
<1>10. \A k, n \in 1 .. size : k < n => f[k] < f[n]
  BY <1>9
<1>11. \A k, n \in 1 .. size : f[k] = f[n] => k = n
  <2> SUFFICES ASSUME NEW k \in 1 .. size, NEW n \in 1 .. size, f[k] = f[n], k # n
               PROVE  FALSE
    OBVIOUS
  <2>1. k < n \/ n < k
    BY <1>1
  <2>2. f[k] \in Nat
    BY <1>9
  <2> QED BY <1>10, <2>1, <2>2
<1>12. f \in Surjection(1 .. size, S)
  <2>1. f \in Injection(1 .. size, S)
    BY <1>9, <1>11, Fun_IsInj
  <2>2. Cardinality(1 .. size) = Cardinality(S)
    BY <1>1, FS_Interval DEF size
  <2> QED BY <2>1, <2>2, FS_Injection
<1>13. \A s \in S : \E k \in 1 .. size : f[k] = s
  BY <1>12 DEF Surjection
<1> QED BY <1>1, <1>9, <1>10, <1>13 DEF f, size

(* Latest is the newest reaction that still stands, or none.               *)
LEMMA LatestIs ==
  ASSUME NEW t, liked[t] \subseteq Reactions
  PROVE  /\ liked[t] = {} => Latest(t) = 0
         /\ liked[t] # {} => Latest(t) \in liked[t]
         /\ Latest(t) \in 0 .. MaxReaction
<1>1. CASE liked[t] = {}
  BY <1>1, FollowUpAssumption DEF Latest, FollowUpAssumption
<1>2. CASE liked[t] # {}
  <2> DEFINE T == {MaxReaction - r : r \in liked[t]}
  <2>1. T \subseteq Nat /\ T # {}
    BY <1>2, FollowUpAssumption DEF Reactions, FollowUpAssumption
  <2>2. PICK x \in T : \A y \in T : ~(<<y, x>> \in OpToRel(<, Nat))
    BY <2>1, WFMin, NatLessThanWellFounded
  <2>3. \A y \in T : ~(y < x)
    BY <2>1, <2>2 DEF OpToRel
  <2>4. PICK r \in liked[t] : x = MaxReaction - r
    BY <2>2
  <2>5. ASSUME NEW q \in liked[t]
        PROVE  q <= r
    <3>1. MaxReaction - q \in T
      OBVIOUS
    <3>2. q \in Int /\ r \in Int
      BY DEF Reactions
    <3>3. ~(MaxReaction - q < MaxReaction - r)
      BY <2>3, <2>4, <3>1
    <3> QED BY <3>2, <3>3, FollowUpAssumption DEF FollowUpAssumption
  <2>6. Latest(t) \in liked[t]
    BY <1>2, <2>5 DEF Latest
  <2> QED BY <1>2, <2>6 DEF Reactions
<1> QED BY <1>1, <1>2

(* What a concatenation holds.                                             *)
LEMMA ConcatHolds ==
  ASSUME NEW p \in Seq(Items), NEW q \in Seq(Items)
  PROVE  /\ p \o q \in Seq(Items)
         /\ \A item : Holds(p \o q, item) <=> Holds(p, item) \/ Holds(q, item)
<1>1. /\ p \o q \in Seq(Items) /\ Len(p) \in Nat /\ Len(q) \in Nat
      /\ DOMAIN p = 1 .. Len(p) /\ DOMAIN q = 1 .. Len(q)
      /\ DOMAIN (p \o q) = 1 .. Len(p) + Len(q)
      /\ \A i \in 1 .. Len(p) : (p \o q)[i] = p[i]
      /\ \A i \in 1 .. Len(q) : (p \o q)[Len(p) + i] = q[i]
  OBVIOUS
<1> DEFINE r == p \o q
<1> HIDE DEF r
<1>2. ASSUME NEW item
      PROVE  Holds(r, item) <=> Holds(p, item) \/ Holds(q, item)
  <2>1. ASSUME NEW k \in DOMAIN r, r[k] = item
        PROVE  Holds(p, item) \/ Holds(q, item)
    <3>1. CASE k <= Len(p)
      BY <1>1, <2>1, <3>1 DEF Holds, r
    <3>2. CASE ~(k <= Len(p))
      <4>1. k - Len(p) \in DOMAIN q /\ k = Len(p) + (k - Len(p))
        BY <1>1, <3>2 DEF r
      <4> QED BY <1>1, <2>1, <4>1 DEF Holds, r
    <3> QED BY <3>1, <3>2
  <2>2. ASSUME NEW k \in DOMAIN p, p[k] = item
        PROVE  Holds(r, item)
    BY <1>1, <2>2 DEF Holds, r
  <2>3. ASSUME NEW k \in DOMAIN q, q[k] = item
        PROVE  Holds(r, item)
    <3>1. Len(p) + k \in DOMAIN r /\ r[Len(p) + k] = item
      BY <1>1, <2>3 DEF r
    <3> QED BY <3>1 DEF Holds
  <2> QED BY <2>1, <2>2, <2>3 DEF Holds
<1> QED BY <1>1, <1>2 DEF r

(* Two queues that hold nothing twice, and nothing of each other.          *)
LEMMA ConcatOnce ==
  ASSUME NEW p \in Seq(Items), NEW q \in Seq(Items), Once(p), Once(q),
         \A a, b \in Items : Holds(p, a) /\ Holds(q, b) => ~Same(a, b)
  PROVE  Once(p \o q)
<1>1. /\ Len(p) \in Nat /\ Len(q) \in Nat
      /\ DOMAIN p = 1 .. Len(p) /\ DOMAIN q = 1 .. Len(q)
      /\ DOMAIN (p \o q) = 1 .. Len(p) + Len(q)
      /\ \A i \in 1 .. Len(p) : (p \o q)[i] = p[i] /\ p[i] \in Items
      /\ \A i \in 1 .. Len(p) + Len(q) : ~(i <= Len(p)) =>
            (p \o q)[i] = q[i - Len(p)] /\ i - Len(p) \in 1 .. Len(q)
      /\ \A i \in 1 .. Len(q) : q[i] \in Items
  OBVIOUS
<1> DEFINE r == p \o q
<1>2. ASSUME NEW k \in DOMAIN r, NEW n \in DOMAIN r, Same(r[k], r[n]),
             k <= Len(p), ~(n <= Len(p))
      PROVE  FALSE
  <2> DEFINE j == n - Len(p)
  <2>1. k \in DOMAIN p /\ r[k] = p[k] /\ p[k] \in Items
    BY <1>1, <1>2
  <2>2. j \in DOMAIN q /\ r[n] = q[j] /\ q[j] \in Items
    BY <1>1, <1>2
  <2>3. Holds(p, r[k]) /\ Holds(q, r[n]) /\ r[k] \in Items /\ r[n] \in Items
    BY <2>1, <2>2 DEF Holds
  <2> QED BY <1>2, <2>3
<1> HIDE DEF r
<1>3. ASSUME NEW k \in DOMAIN r, NEW n \in DOMAIN r, Same(r[k], r[n])
      PROVE  k = n
  <2>0. Same(r[n], r[k])
    BY <1>3 DEF Same
  <2>1. CASE k <= Len(p) /\ n <= Len(p)
    BY <1>1, <1>3, <2>1 DEF Once, r
  <2>2. CASE ~(k <= Len(p)) /\ ~(n <= Len(p))
    <3>1. k - Len(p) = n - Len(p)
      BY <1>1, <1>3, <2>2 DEF Once, r
    <3> QED BY <1>1, <3>1 DEF r
  <2> QED BY <1>2, <1>3, <2>0, <2>1, <2>2
<1> QED BY <1>3 DEF Once, r

(* Due lists the pending follow-up and then the queue.                     *)
LEMMA DueIs ==
  ASSUME NEW m \in Metadata
  PROVE  /\ Due(m) \in Seq(Items)
         /\ \A item \in Items : Holds(Due(m), item) <=> IsDue(m, item)
         /\ DueOnce(m) => Once(Due(m))
<1>1. m.queue \in Seq(Items) /\ (m.pending # None => m.pending \in Items) /\ None \notin Items
  BY FollowUpAssumption DEF Metadata, FollowUpAssumption
<1>2. CASE m.pending = None
  BY <1>1, <1>2 DEF Due, IsDue, DueOnce
<1>3. CASE m.pending # None
  <2> DEFINE p == <<m.pending>>
  <2>1. /\ p \in Seq(Items) /\ DOMAIN p = {1} /\ p[1] = m.pending
        /\ Due(m) = p \o m.queue
    BY <1>1, <1>3 DEF Due
  <2> HIDE DEF p
  <2>2. \A item : Holds(p, item) <=> item = m.pending
    BY <2>1 DEF Holds
  <2>3. Once(p)
    BY <2>1 DEF Once
  <2>4. ASSUME DueOnce(m)
        PROVE  Once(Due(m))
    BY <1>1, <1>3, <2>1, <2>2, <2>3, <2>4, ConcatOnce DEF DueOnce
  <2> QED BY <1>1, <2>1, <2>2, <2>4, ConcatHolds DEF IsDue
<1> QED BY <1>2, <1>3

LEMMA CommentDueIs ==
  ASSUME NEW m \in Metadata, NEW t
  PROVE  /\ CommentDue(m, t) <=> \E item \in Items :
                                   IsDue(m, item) /\ item.thread = t /\ IsReaction(item)
         /\ ThreadDue(m, t) <=> \E item \in Items : IsDue(m, item) /\ item.thread = t
<1>1. Due(m) \in Seq(Items) /\ \A item \in Items : Holds(Due(m), item) <=> IsDue(m, item)
  BY DueIs
<1>2. \A k \in DOMAIN Due(m) : Due(m)[k] \in Items
  BY <1>1
<1> QED BY <1>1, <1>2 DEF Holds, CommentDue, ThreadDue

(* What pruning keeps of a queue: the items whose thread is open.          *)
LEMMA StillOpenIs ==
  ASSUME NEW queue \in Seq(Items)
  PROVE  /\ StillOpen(queue) \in Seq(Items)
         /\ \A item \in Items :
              Holds(StillOpen(queue), item) <=> Holds(queue, item) /\ item.thread \in Open
         /\ Once(queue) => Once(StillOpen(queue))
<1> DEFINE S == {k \in DOMAIN queue : queue[k].thread \in Open}
           n == Cardinality(S)
           f == InOrder(S)
           r == [k \in 1 .. n |-> queue[f[k]]]
<1>1. Len(queue) \in Nat /\ DOMAIN queue = 1 .. Len(queue) /\ \A k \in DOMAIN queue : queue[k] \in Items
  OBVIOUS
<1>2. S \subseteq Nat /\ IsFiniteSet(S)
  <2>1. S \in SUBSET (1 .. Len(queue)) /\ S \subseteq Nat
    BY <1>1
  <2>2. IsFiniteSet(1 .. Len(queue))
    BY <1>1, FS_Interval
  <2> QED BY <2>1, <2>2, FS_Subset
<1> HIDE DEF S
<1>3. /\ n \in Nat /\ f \in [1 .. n -> S]
      /\ \A i, j \in 1 .. n : i < j => f[i] < f[j]
      /\ \A s \in S : \E k \in 1 .. n : f[k] = s
  BY <1>2, Enumeration
<1>4. StillOpen(queue) = r
  BY <1>3 DEF StillOpen, S
<1> HIDE DEF n, f
<1>5. \A k \in 1 .. n : f[k] \in DOMAIN queue /\ queue[f[k]].thread \in Open /\ f[k] \in Nat
  BY <1>2, <1>3 DEF S
<1>6. r \in Seq(Items) /\ DOMAIN r = 1 .. n /\ \A k \in 1 .. n : r[k] = queue[f[k]]
  BY <1>1, <1>3, <1>5
<1> HIDE DEF r
<1>7. ASSUME NEW item \in Items
      PROVE  Holds(r, item) <=> Holds(queue, item) /\ item.thread \in Open
  <2>1. ASSUME Holds(r, item)
        PROVE  Holds(queue, item) /\ item.thread \in Open
    BY <1>5, <1>6, <2>1 DEF Holds
  <2>2. ASSUME Holds(queue, item), item.thread \in Open
        PROVE  Holds(r, item)
    <3>1. PICK j \in DOMAIN queue : queue[j] = item
      BY <2>2 DEF Holds
    <3>2. PICK k \in 1 .. n : f[k] = j
      BY <1>3, <2>2, <3>1 DEF S
    <3> QED BY <1>6, <3>1, <3>2 DEF Holds
  <2> QED BY <2>1, <2>2
<1>8. ASSUME Once(queue), NEW i \in DOMAIN r, NEW j \in DOMAIN r, Same(r[i], r[j])
      PROVE  i = j
  <2>1. f[i] = f[j]
    BY <1>5, <1>6, <1>8 DEF Once
  <2>2. ~(i < j) /\ ~(j < i)
    BY <1>3, <1>5, <1>6, <2>1
  <2> QED BY <1>3, <1>6, <2>2
<1> QED BY <1>4, <1>6, <1>7, <1>8 DEF Once

(* The approvals of a set of approved threads: one for each thread, when   *)
(* no two of them share their latest reaction.                             *)
LEMMA ApprovalsAre ==
  ASSUME NEW threads \in SUBSET CodexThreads,
         \A t \in threads : Latest(t) \in Reactions
  PROVE  /\ Approvals(threads) \in Seq(Items)
         /\ Once(Approvals(threads))
         /\ \A item \in Items : Holds(Approvals(threads), item) =>
              item.thread \in threads /\ IsReaction(item)
         /\ (\A t, u \in threads : Latest(t) = Latest(u) => t = u) =>
              \A t \in threads : \E item \in Items :
                Holds(Approvals(threads), item) /\ item.thread = t /\ IsReaction(item)
<1> DEFINE S == {Latest(t) : t \in threads}
           n == Cardinality(S)
           f == InOrder(S)
           of(k) == CHOOSE t \in threads : Latest(t) = f[k]
           r == [k \in 1 .. n |-> [thread |-> of(k), reaction |-> f[k]]]
<1>1. S \subseteq Nat /\ IsFiniteSet(S) /\ S \subseteq Reactions
  <2>1. S \in SUBSET Reactions /\ Reactions \subseteq Nat
    BY DEF Reactions
  <2>2. IsFiniteSet(Reactions)
    BY FollowUpAssumption, FS_Interval DEF Reactions, FollowUpAssumption
  <2> QED BY <2>1, <2>2, FS_Subset
<1>2. \A s \in S : \E t \in threads : Latest(t) = s
  OBVIOUS
<1>3. \A t \in threads : Latest(t) \in S
  OBVIOUS
<1> HIDE DEF S
<1>4. /\ n \in Nat /\ f \in [1 .. n -> S]
      /\ \A i, j \in 1 .. n : i < j => f[i] < f[j]
      /\ \A s \in S : \E k \in 1 .. n : f[k] = s
  BY <1>1, Enumeration
<1>5. Approvals(threads) = r
  BY <1>4 DEF Approvals, S
<1> HIDE DEF n, f
<1>6. \A k \in 1 .. n : of(k) \in threads /\ Latest(of(k)) = f[k] /\ f[k] \in Reactions
  BY <1>1, <1>2, <1>4
<1> HIDE DEF of
<1>7. ASSUME NEW k \in 1 .. n
      PROVE  /\ r[k] \in Items /\ r[k].thread = of(k) /\ r[k].reaction = f[k] /\ IsReaction(r[k])
  <2>1. r[k] = [thread |-> of(k), reaction |-> f[k]]
    OBVIOUS
  <2>2. of(k) \in Threads /\ f[k] \in 0 .. MaxReaction /\ f[k] # 0
    BY <1>6, FollowUpAssumption DEF Threads, Reactions, FollowUpAssumption
  <2> QED BY <2>1, <2>2 DEF Items, IsReaction
<1>8. r \in Seq(Items) /\ DOMAIN r = 1 .. n
  BY <1>4, <1>7
<1> HIDE DEF r
<1>9. Once(r)
  <2> SUFFICES ASSUME NEW i \in 1 .. n, NEW j \in 1 .. n, Same(r[i], r[j])
               PROVE  i = j
    BY <1>8 DEF Once
  <2>1. f[i] = f[j]
    BY <1>6, <1>7 DEF Same
  <2>2. ~(i < j) /\ ~(j < i)
    BY <1>4, <1>6, <2>1 DEF Reactions
  <2> QED BY <1>4, <2>2
<1>10. \A item \in Items : Holds(r, item) => item.thread \in threads /\ IsReaction(item)
  BY <1>6, <1>7, <1>8 DEF Holds
<1>11. ASSUME \A t, u \in threads : Latest(t) = Latest(u) => t = u,
              NEW t \in threads
       PROVE  \E item \in Items : Holds(r, item) /\ item.thread = t /\ IsReaction(item)
  <2>1. PICK k \in 1 .. n : f[k] = Latest(t)
    BY <1>3, <1>4
  <2>2. of(k) = t
    BY <1>6, <1>11, <2>1
  <2> QED BY <1>7, <1>8, <2>2 DEF Holds
<1> QED BY <1>5, <1>8, <1>9, <1>10, <1>11

(* The feedback on a set of threads: at most one item for each of them,    *)
(* without a reaction.                                                     *)
LEMMA FeedbackIs ==
  ASSUME NEW threads
  PROVE  /\ Feedback(threads) \in Seq(Items)
         /\ Once(Feedback(threads))
         /\ \A item \in Items : Holds(Feedback(threads), item) =>
              item.thread \in threads /\ ~IsReaction(item)
<1> DEFINE S == {k \in DOMAIN ThreadOrder : ThreadOrder[k] \in threads
                     /\ \A n \in 1 .. k - 1 : ThreadOrder[n] # ThreadOrder[k]}
           n == Cardinality(S)
           f == InOrder(S)
           r == [k \in 1 .. n |-> [thread |-> ThreadOrder[f[k]], reaction |-> 0]]
<1>1. Len(ThreadOrder) \in Nat /\ DOMAIN ThreadOrder = 1 .. Len(ThreadOrder)
      /\ \A k \in DOMAIN ThreadOrder : ThreadOrder[k] \in Threads
  BY FollowUpAssumption DEF FollowUpAssumption
<1>2. S \subseteq Nat /\ IsFiniteSet(S)
  <2>1. S \in SUBSET (1 .. Len(ThreadOrder)) /\ S \subseteq Nat
    BY <1>1
  <2>2. IsFiniteSet(1 .. Len(ThreadOrder))
    BY <1>1, FS_Interval
  <2> QED BY <2>1, <2>2, FS_Subset
<1>3. \A k \in S : /\ k \in DOMAIN ThreadOrder /\ ThreadOrder[k] \in threads
                   /\ \A i \in S : i < k => ThreadOrder[i] # ThreadOrder[k]
  BY <1>1
<1> HIDE DEF S
<1>4. /\ n \in Nat /\ f \in [1 .. n -> S]
      /\ \A i, j \in 1 .. n : i < j => f[i] < f[j]
  BY <1>2, Enumeration
<1>5. Feedback(threads) = r
  BY <1>4 DEF Feedback, S
<1> HIDE DEF n, f
<1>6. ASSUME NEW k \in 1 .. n
      PROVE  r[k] \in Items /\ r[k].thread = ThreadOrder[f[k]] /\ r[k].reaction = 0
  BY <1>1, <1>3, <1>4, FollowUpAssumption DEF Items, FollowUpAssumption
<1>7. r \in Seq(Items) /\ DOMAIN r = 1 .. n
  BY <1>4, <1>6
<1> HIDE DEF r
<1>8. Once(r)
  <2> SUFFICES ASSUME NEW i \in 1 .. n, NEW j \in 1 .. n, Same(r[i], r[j])
               PROVE  i = j
    BY <1>7 DEF Once
  <2>1. ThreadOrder[f[i]] = ThreadOrder[f[j]]
    BY <1>6 DEF Same
  <2>2. ~(f[i] < f[j]) /\ ~(f[j] < f[i])
    BY <1>3, <1>4, <2>1
  <2> QED BY <1>4, <2>2
<1>9. \A item \in Items : Holds(r, item) => item.thread \in threads /\ ~IsReaction(item)
  BY <1>3, <1>4, <1>6, <1>7 DEF Holds, IsReaction
<1> QED BY <1>5, <1>7, <1>8, <1>9

(* Something in one queue is the same as something in another exactly when *)
(* they say so item by item: what DueOnce asks of a longer queue.          *)
LEMMA DueOnceLonger ==
  ASSUME NEW m \in Metadata, NEW queue \in Seq(Items), DueOnce(m), Once(queue),
         \A a, b \in Items : IsDue(m, a) /\ Holds(queue, b) => ~Same(a, b)
  PROVE  DueOnce([m EXCEPT !.queue = @ \o queue])
<1> DEFINE p == [m EXCEPT !.queue = @ \o queue]
<1>1. /\ m.queue \in Seq(Items) /\ m.pending \in Items \cup {None}
      /\ p.queue = m.queue \o queue /\ p.pending = m.pending
  BY DEF Metadata
<1> HIDE DEF p
<1>2. Once(p.queue)
  BY <1>1, ConcatOnce DEF DueOnce, IsDue
<1>3. ASSUME p.pending # None, NEW item \in Items, Holds(p.queue, item)
      PROVE  ~Same(p.pending, item)
  <2>1. Holds(m.queue, item) \/ Holds(queue, item)
    BY <1>1, <1>3, ConcatHolds
  <2>2. p.pending = m.pending /\ m.pending \in Items /\ IsDue(m, m.pending)
    BY <1>1, <1>3 DEF IsDue
  <2> QED BY <1>1, <1>3, <2>1, <2>2 DEF DueOnce
<1>4. DueOnce(p)
  BY <1>2, <1>3 DEF DueOnce
<1> QED BY <1>4 DEF p

LEMMA PrunedIs ==
  ASSUME NEW m \in Metadata
  PROVE  /\ Pruned(m) \in Metadata
         /\ Pruned(m).marks = m.marks
         /\ Pruned(m).pending =
              IF m.pending = None \/ m.pending.thread \notin Open THEN None ELSE m.pending
         /\ \A item \in Items : IsDue(Pruned(m), item) <=> IsDue(m, item) /\ item.thread \in Open
         /\ DueOnce(m) => DueOnce(Pruned(m))
<1> DEFINE p == Pruned(m)
<1>1. m.queue \in Seq(Items) /\ m.pending \in Items \cup {None} /\ m.marks \in Marks /\ None \notin Items
  BY FollowUpAssumption DEF Metadata, FollowUpAssumption
<1>2. /\ p.queue = StillOpen(m.queue) /\ p.marks = m.marks
      /\ p.pending = IF m.pending = None \/ m.pending.thread \notin Open THEN None ELSE m.pending
      /\ p = [pending |-> p.pending, queue |-> p.queue, marks |-> p.marks]
  <2> DEFINE x == IF m.pending = None \/ m.pending.thread \notin Open THEN None ELSE m.pending
             y == StillOpen(m.queue)
  <2>1. p = [m EXCEPT !.pending = x, !.queue = y]
    BY DEF Pruned
  <2> HIDE DEF p, x, y
  <2>2. p.queue = y /\ p.marks = m.marks /\ p.pending = x
        /\ p = [pending |-> p.pending, queue |-> p.queue, marks |-> p.marks]
    BY <2>1 DEF Metadata
  <2> QED BY <2>2 DEF x, y
<1>3. /\ p.queue \in Seq(Items)
      /\ \A item \in Items : Holds(p.queue, item) <=> Holds(m.queue, item) /\ item.thread \in Open
      /\ Once(m.queue) => Once(p.queue)
  BY <1>1, <1>2, StillOpenIs
<1> HIDE DEF p
<1>4. p \in Metadata
  BY <1>1, <1>2, <1>3 DEF Metadata
<1>5. \A item \in Items : IsDue(p, item) <=> IsDue(m, item) /\ item.thread \in Open
  BY <1>1, <1>2, <1>3 DEF IsDue
<1>6. DueOnce(m) => DueOnce(p)
  BY <1>1, <1>2, <1>3 DEF DueOnce
<1> QED BY <1>2, <1>4, <1>5, <1>6 DEF p

LEMMA WithApprovalsIs ==
  ASSUME NEW m \in Metadata, liked \in [CodexThreads -> SUBSET Reactions]
  PROVE  /\ WithApprovals(m) \in Metadata
         /\ WithApprovals(m).pending = m.pending
         /\ \A item \in Items : IsDue(m, item) => IsDue(WithApprovals(m), item)
         /\ \A item \in Items : IsDue(WithApprovals(m), item) =>
              IsDue(m, item) \/ item.thread \in Open
         /\ DueOnce(m) => DueOnce(WithApprovals(m))
         /\ Numbered => \A t \in CodexThreads : WithApprovals(m).marks[t] # m.marks[t] =>
              t \in Open /\ CommentDue(WithApprovals(m), t)
<1> DEFINE fresh == {t \in CodexThreads \cap Open : Latest(t) > m.marks[t]}
           new == {t \in fresh : ~CommentDue(m, t)}
           marks == [t \in CodexThreads |-> IF t \in fresh THEN Latest(t) ELSE m.marks[t]]
           p == WithApprovals(m)
<1>1. m.queue \in Seq(Items) /\ m.pending \in Items \cup {None} /\ m.marks \in Marks /\ None \notin Items
  BY FollowUpAssumption DEF Metadata, FollowUpAssumption
<1>2. \A t \in CodexThreads : Latest(t) \in 0 .. MaxReaction /\ m.marks[t] \in 0 .. MaxReaction
  BY <1>1, LatestIs DEF Marks
<1>3. \A t \in fresh : t \in Open /\ t \in CodexThreads /\ Latest(t) \in Reactions /\ Latest(t) \in liked[t]
  <2>1. \A t \in fresh : Latest(t) > 0 /\ Latest(t) # 0
    BY <1>2
  <2> QED BY <1>2, <2>1, LatestIs DEF Reactions
<1>4. marks \in Marks /\ \A t \in CodexThreads : marks[t] # m.marks[t] => t \in fresh
  BY <1>2 DEF Marks
<1>5. p = [m EXCEPT !.marks = marks, !.queue = @ \o Approvals(new)]
  BY DEF WithApprovals
<1>6. /\ p.queue = m.queue \o Approvals(new) /\ p.marks = marks /\ p.pending = m.pending
      /\ p = [pending |-> p.pending, queue |-> p.queue, marks |-> p.marks]
  BY <1>5 DEF Metadata
<1>7. /\ Approvals(new) \in Seq(Items) /\ Once(Approvals(new))
      /\ \A item \in Items : Holds(Approvals(new), item) => item.thread \in new /\ IsReaction(item)
  BY <1>3, ApprovalsAre
<1>8. ASSUME Numbered, NEW t \in new
      PROVE  \E item \in Items : Holds(Approvals(new), item) /\ item.thread = t /\ IsReaction(item)
  <2>1. \A u, v \in new : Latest(u) = Latest(v) => u = v
    BY <1>3, <1>8 DEF Numbered
  <2>2. new \in SUBSET CodexThreads /\ \A u \in new : Latest(u) \in Reactions
    BY <1>3
  <2> HIDE DEF new
  <2> QED BY <2>1, <2>2, ApprovalsAre
<1>9. \A t \in new : t \in fresh /\ ~CommentDue(m, t)
  OBVIOUS
<1>10. \A t \in fresh : t \in new \/ CommentDue(m, t)
  OBVIOUS
<1> HIDE DEF p, new, marks, fresh
<1>11. p \in Metadata
  <2>1. p.queue \in Seq(Items)
    BY <1>1, <1>6, <1>7, ConcatHolds
  <2> QED BY <1>1, <1>4, <1>6, <2>1 DEF Metadata
<1>12. \A item : IsDue(p, item) <=> IsDue(m, item) \/ Holds(Approvals(new), item)
  BY <1>1, <1>6, <1>7, ConcatHolds DEF IsDue
<1>13. ASSUME DueOnce(m)
       PROVE  DueOnce(p)
  <2> DEFINE q == [m EXCEPT !.queue = @ \o Approvals(new)]
  <2>1. ASSUME NEW a \in Items, NEW b \in Items, IsDue(m, a), Holds(Approvals(new), b), Same(a, b)
        PROVE  FALSE
    BY <1>7, <1>9, <2>1, CommentDueIs DEF Same
  <2>2. DueOnce(q)
    BY <1>7, <1>13, <2>1, DueOnceLonger
  <2>3. q.queue = p.queue /\ q.pending = p.pending
    BY <1>6 DEF Metadata
  <2> QED BY <2>2, <2>3 DEF DueOnce
<1>14. ASSUME Numbered, NEW t \in CodexThreads, p.marks[t] # m.marks[t]
       PROVE  t \in Open /\ CommentDue(p, t)
  <2>1. t \in fresh
    BY <1>4, <1>6, <1>14
  <2>2. \E item \in Items : IsDue(p, item) /\ item.thread = t /\ IsReaction(item)
    BY <1>8, <1>10, <1>12, <1>14, <2>1, CommentDueIs
  <2> QED BY <1>3, <1>11, <2>1, <2>2, CommentDueIs
<1> QED BY <1>3, <1>6, <1>7, <1>9, <1>11, <1>12, <1>13, <1>14 DEF p

LEMMA WithFeedbackIs ==
  ASSUME NEW m \in Metadata
  PROVE  /\ WithFeedback(m) \in Metadata
         /\ WithFeedback(m).pending = m.pending
         /\ WithFeedback(m).marks = m.marks
         /\ \A item \in Items : IsDue(m, item) => IsDue(WithFeedback(m), item)
         /\ \A item \in Items : IsDue(WithFeedback(m), item) =>
              IsDue(m, item) \/ item.thread \in Open
         /\ DueOnce(m) => DueOnce(WithFeedback(m))
<1> DEFINE new == {t \in HumanFeedback : ~ThreadDue(m, t)}
           p == WithFeedback(m)
<1>1. m.queue \in Seq(Items) /\ m.pending \in Items \cup {None} /\ m.marks \in Marks
  BY DEF Metadata
<1>2. p = [m EXCEPT !.queue = @ \o Feedback(new)]
  BY DEF WithFeedback
<1>3. /\ p.queue = m.queue \o Feedback(new) /\ p.marks = m.marks /\ p.pending = m.pending
      /\ p = [pending |-> p.pending, queue |-> p.queue, marks |-> p.marks]
  BY <1>2 DEF Metadata
<1>4. \A t \in new : t \in Open /\ ~ThreadDue(m, t)
  BY DEF HumanFeedback
<1> HIDE DEF p, new
<1>5. /\ Feedback(new) \in Seq(Items) /\ Once(Feedback(new))
      /\ \A item \in Items : Holds(Feedback(new), item) => item.thread \in new
  BY FeedbackIs
<1>6. p \in Metadata
  <2>1. p.queue \in Seq(Items)
    BY <1>1, <1>3, <1>5, ConcatHolds
  <2> QED BY <1>1, <1>3, <2>1 DEF Metadata
<1>7. \A item : IsDue(p, item) <=> IsDue(m, item) \/ Holds(Feedback(new), item)
  BY <1>1, <1>3, <1>5, ConcatHolds DEF IsDue
<1>8. ASSUME DueOnce(m)
      PROVE  DueOnce(p)
  <2>1. ASSUME NEW a \in Items, NEW b \in Items, IsDue(m, a), Holds(Feedback(new), b), Same(a, b)
        PROVE  FALSE
    BY <1>4, <1>5, <2>1, CommentDueIs DEF Same
  <2> QED BY <1>2, <1>5, <1>8, <2>1, DueOnceLonger
<1> QED BY <1>3, <1>4, <1>5, <1>6, <1>7, <1>8 DEF p

(* The scan: nothing due is forgotten while its thread is open, nothing    *)
(* becomes due twice, and a watermark that rises leaves its approval due.  *)
LEMMA ScannedIs ==
  ASSUME NEW m \in Metadata, liked \in [CodexThreads -> SUBSET Reactions]
  PROVE  /\ Scanned(m) \in Metadata
         /\ Scanned(m).pending =
              IF m.pending = None \/ m.pending.thread \notin Open THEN None ELSE m.pending
         /\ \A item \in Items : IsDue(m, item) /\ item.thread \in Open => IsDue(Scanned(m), item)
         /\ \A item \in Items : IsDue(Scanned(m), item) => item.thread \in Open
         /\ DueOnce(m) => DueOnce(Scanned(m))
         /\ Numbered => \A t \in CodexThreads : Scanned(m).marks[t] # m.marks[t] =>
              t \in Open /\ CommentDue(Scanned(m), t)
<1> DEFINE p == Pruned(m)
           q == WithApprovals(p)
           r == WithFeedback(q)
<1>1. /\ p \in Metadata /\ p.marks = m.marks
      /\ p.pending = IF m.pending = None \/ m.pending.thread \notin Open THEN None ELSE m.pending
      /\ \A item \in Items : IsDue(p, item) <=> IsDue(m, item) /\ item.thread \in Open
      /\ DueOnce(m) => DueOnce(p)
  BY PrunedIs
<1> HIDE DEF p
<1>2. /\ q \in Metadata /\ q.pending = p.pending
      /\ \A item \in Items : IsDue(p, item) => IsDue(q, item)
      /\ \A item \in Items : IsDue(q, item) => IsDue(p, item) \/ item.thread \in Open
      /\ DueOnce(p) => DueOnce(q)
      /\ Numbered => \A t \in CodexThreads : q.marks[t] # p.marks[t] => t \in Open /\ CommentDue(q, t)
  BY <1>1, WithApprovalsIs
<1> HIDE DEF q
<1>3. /\ r \in Metadata /\ r.pending = q.pending /\ r.marks = q.marks
      /\ \A item \in Items : IsDue(q, item) => IsDue(r, item)
      /\ \A item \in Items : IsDue(r, item) => IsDue(q, item) \/ item.thread \in Open
      /\ DueOnce(q) => DueOnce(r)
  BY <1>2, WithFeedbackIs
<1> HIDE DEF r
<1>4. \A t : CommentDue(q, t) => CommentDue(r, t)
  BY <1>2, <1>3, CommentDueIs
<1>5. Scanned(m) = r
  BY DEF Scanned, p, q, r
<1> QED BY <1>1, <1>2, <1>3, <1>4, <1>5

LEMMA NextTakenIs ==
  ASSUME NEW m \in Metadata, m.pending = None, m.queue # <<>>
  PROVE  /\ NextTaken(m) \in Metadata
         /\ NextTaken(m).marks = m.marks
         /\ NextTaken(m).pending # None
         /\ \A item \in Items : IsDue(NextTaken(m), item) <=> IsDue(m, item)
         /\ DueOnce(m) => DueOnce(NextTaken(m))
<1> DEFINE h == Head(m.queue)
           q == Tail(m.queue)
           p == NextTaken(m)
<1>1. m.queue \in Seq(Items) /\ m.marks \in Marks /\ None \notin Items
  BY FollowUpAssumption DEF Metadata, FollowUpAssumption
<1>2. /\ h = m.queue[1] /\ h \in Items /\ q \in Seq(Items)
      /\ Len(q) \in Nat /\ DOMAIN q = 1 .. Len(q) /\ DOMAIN m.queue = 1 .. Len(q) + 1
      /\ \A k \in 1 .. Len(q) : q[k] = m.queue[k + 1]
  BY <1>1
<1>3. p = [m EXCEPT !.pending = h, !.queue = q]
  BY DEF NextTaken
<1> HIDE DEF h, q, p
<1>4. /\ p.pending = h /\ p.queue = q /\ p.marks = m.marks
      /\ p = [pending |-> p.pending, queue |-> p.queue, marks |-> p.marks]
  BY <1>3 DEF Metadata
<1>5. p \in Metadata /\ p.pending # None
  BY <1>1, <1>2, <1>4 DEF Metadata
<1>6. ASSUME NEW item
      PROVE  Holds(m.queue, item) <=> item = h \/ Holds(q, item)
  <2>1. ASSUME NEW k \in 1 .. Len(q) + 1, m.queue[k] = item, k # 1
        PROVE  Holds(q, item)
    <3>1. k - 1 \in 1 .. Len(q) /\ q[k - 1] = item
      BY <1>2, <2>1
    <3> QED BY <1>2, <3>1 DEF Holds
  <2>2. ASSUME NEW k \in 1 .. Len(q), q[k] = item
        PROVE  Holds(m.queue, item)
    <3>1. k + 1 \in DOMAIN m.queue /\ m.queue[k + 1] = item
      BY <1>2, <2>2
    <3> QED BY <3>1 DEF Holds
  <2>3. 1 \in DOMAIN m.queue
    BY <1>2
  <2> QED BY <1>2, <2>1, <2>2, <2>3 DEF Holds
<1>7. \A item \in Items : IsDue(p, item) <=> IsDue(m, item)
  BY <1>1, <1>4, <1>6 DEF IsDue
<1>8. ASSUME Once(m.queue)
      PROVE  DueOnce(p)
  <2>1. Once(q)
    <3> SUFFICES ASSUME NEW k \in 1 .. Len(q), NEW n \in 1 .. Len(q), Same(q[k], q[n])
                 PROVE  k = n
      BY <1>2 DEF Once
    <3>1. k + 1 \in DOMAIN m.queue /\ n + 1 \in DOMAIN m.queue
          /\ Same(m.queue[k + 1], m.queue[n + 1])
      BY <1>2
    <3>2. k + 1 = n + 1
      BY <1>8, <3>1 DEF Once
    <3> QED BY <1>2, <3>2
  <2>2. ASSUME NEW k \in 1 .. Len(q), Same(h, q[k])
        PROVE  FALSE
    <3>1. 1 \in DOMAIN m.queue /\ k + 1 \in DOMAIN m.queue /\ Same(m.queue[1], m.queue[k + 1])
      BY <1>2, <2>2
    <3>2. 1 = k + 1
      BY <1>8, <3>1 DEF Once
    <3> QED BY <1>2, <3>2
  <2> QED BY <1>2, <1>4, <2>1, <2>2 DEF DueOnce, Holds
<1> QED BY <1>4, <1>5, <1>7, <1>8 DEF p, DueOnce

LEMMA ClearedIs ==
  ASSUME NEW m \in Metadata
  PROVE  /\ Cleared(m) \in Metadata
         /\ Cleared(m).pending = None
         /\ Cleared(m).marks = m.marks
         /\ \A item \in Items : IsDue(Cleared(m), item) => IsDue(m, item)
         /\ \A item \in Items : IsDue(m, item) => item = m.pending \/ IsDue(Cleared(m), item)
         /\ DueOnce(m) => DueOnce(Cleared(m))
<1> DEFINE p == Cleared(m)
<1>1. /\ p.pending = None /\ p.queue = m.queue /\ p.marks = m.marks
      /\ p = [pending |-> p.pending, queue |-> p.queue, marks |-> p.marks]
  BY DEF Cleared, Metadata
<1>2. m.queue \in Seq(Items) /\ m.marks \in Marks /\ None \notin Items
  BY FollowUpAssumption DEF Metadata, FollowUpAssumption
<1> HIDE DEF p
<1>3. p \in Metadata
  BY <1>1, <1>2 DEF Metadata
<1> QED BY <1>1, <1>2, <1>3 DEF p, IsDue, DueOnce

LEMMA PutBackIs ==
  ASSUME NEW m \in Metadata, NEW p \in Metadata
  PROVE  /\ PutBack(m, p) \in Metadata
         /\ PutBack(m, p).pending = m.pending
         /\ PutBack(m, p).queue = m.queue
         /\ \A t \in CodexThreads : PutBack(m, p).marks[t] \in {0, p.marks[t]}
<1> DEFINE b == PutBack(m, p)
<1>1. m.queue \in Seq(Items) /\ m.marks \in Marks /\ m.pending \in Items \cup {None} /\ p.marks \in Marks
  BY DEF Metadata
<1>2. CASE m.marks = NoMarks
  BY <1>2 DEF PutBack, NoMarks
<1>3. CASE m.marks # NoMarks
  <2>1. b = [m EXCEPT !.marks = p.marks]
    BY <1>3 DEF PutBack
  <2> HIDE DEF b
  <2>2. /\ b.queue = m.queue /\ b.pending = m.pending /\ b.marks = p.marks
        /\ b = [pending |-> b.pending, queue |-> b.queue, marks |-> b.marks]
    BY <2>1 DEF Metadata
  <2>3. b \in Metadata
    BY <1>1, <2>2 DEF Metadata
  <2> QED BY <2>2, <2>3 DEF b
<1> QED BY <1>2, <1>3

LEMMA NoMetadataIs ==
  /\ NoMetadata \in Metadata
  /\ NoMetadata.pending = None
  /\ \A t \in CodexThreads : NoMetadata.marks[t] = 0
  /\ \A item \in Items : ~IsDue(NoMetadata, item)
  /\ DueOnce(NoMetadata)
<1>1. NoMetadata.pending = None /\ NoMetadata.queue = <<>> /\ NoMetadata.marks = NoMarks
  BY DEF NoMetadata
<1>2. NoMarks \in Marks /\ \A t \in CodexThreads : NoMarks[t] = 0
  BY FollowUpAssumption DEF NoMarks, Marks, FollowUpAssumption
<1>3. NoMetadata \in Metadata
  BY <1>2 DEF NoMetadata, Metadata
<1>4. \A item : ~Holds(<<>>, item)
  BY DEF Holds
<1>5. None \notin Items
  BY FollowUpAssumption DEF FollowUpAssumption
<1>6. DueOnce(NoMetadata)
  BY <1>1 DEF DueOnce, Once
<1> QED BY <1>1, <1>2, <1>3, <1>4, <1>5, <1>6 DEF IsDue

-----------------------------------------------------------------------------
(* Types.                                                                  *)

LEMMA SyncTypes ==
  ASSUME TypeInv, Sync
  PROVE  TypeInv'
<1> USE NoMetadataIs DEF TypeInv, TypeOK, Loops, Runs, ActiveStates, Idle, At, Goto, github, hist, Persist, Rewrite, Dispatch, RunAt, Ended
<1>1. CASE Track
  BY <1>1 DEF Track
<1>2. CASE ScanFails
  BY <1>2 DEF ScanFails
<1>3. CASE Scan
  <2> DEFINE m == Scanned(loop.meta)
  <2>1. m \in Metadata /\ loop.meta \in Metadata
    BY ScannedIs
  <2>2. m.pending = None /\ m.queue # <<>> => NextTaken(m) \in Metadata
    BY <2>1, NextTakenIs
  <2>3. PutBack(loop.meta, m) \in Metadata
    BY <2>1, PutBackIs
  <2>4. PICK at \in {"persist", "start", "checks"}, x \in Metadata, y \in Metadata \cup {None} :
          loop' = [loop EXCEPT !.at = at, !.meta = x, !.previous = y]
    <3> HIDE DEF m
    <3>1. LET taken == m.pending = None /\ m.queue # <<>>
          IN loop' = [loop EXCEPT
                        !.at = IF taken \/ m # loop.meta THEN "persist"
                               ELSE IF m.pending # None THEN "start" ELSE "checks",
                        !.meta = IF taken THEN NextTaken(m) ELSE m,
                        !.previous = IF taken THEN PutBack(loop.meta, m) ELSE None]
      BY <1>3 DEF Scan, m
    <3> QED BY <2>1, <2>2, <2>3, <3>1
  <2>5. loop' \in Loops /\ loop'.at # "rollback"
    BY <2>4
  <2> QED BY <1>3, <2>5 DEF Scan
<1>4. CASE PersistScan
  <2>1. loop' \in Loops /\ (loop'.at = "rollback" => loop'.previous # None)
    BY <1>4 DEF PersistScan
  <2>2. stored' \in Metadata
    BY <1>4 DEF PersistScan
  <2> QED BY <1>4, <2>1, <2>2 DEF PersistScan
<1>5. CASE StartWaits
  BY <1>5 DEF StartWaits
<1>6. CASE StartMoves
  BY <1>6 DEF StartMoves
<1>7. CASE StartRefused
  <2>1. loop' \in Loops /\ (loop'.at = "rollback" => loop'.previous # None)
    BY <1>7 DEF StartRefused
  <2>2. stored' \in Metadata
    BY <1>7 DEF StartRefused
  <2> QED BY <1>7, <2>1, <2>2 DEF StartRefused
<1>8. CASE Rollback
  <2>1. loop' \in Loops /\ (loop'.at = "rollback" => loop'.previous # None)
    BY <1>8 DEF Rollback
  <2>2. stored' \in Metadata
    BY <1>8 DEF Rollback
  <2>3. lost' \subseteq CodexThreads \X (0 .. MaxReaction)
    <3>1. loop.meta.marks \in [CodexThreads -> 0 .. MaxReaction]
      BY DEF Metadata, Marks
    <3>2. TakenOut(loop.meta, loop.previous) \subseteq CodexThreads \X (0 .. MaxReaction)
      BY <3>1 DEF TakenOut
    <3> QED BY <1>8, <3>2 DEF Rollback
  <2> QED BY <1>8, <2>1, <2>2, <2>3 DEF Rollback
<1>9. CASE ChecksDone
  BY <1>9 DEF ChecksDone
<1>10. CASE CheckRepair
  BY <1>10 DEF CheckRepair
<1> QED BY <1>1, <1>2, <1>3, <1>4, <1>5, <1>6, <1>7, <1>8, <1>9, <1>10 DEF Sync

LEMMA DispatchingTypes ==
  ASSUME TypeInv, Dispatching
  PROVE  TypeInv'
<1> USE NoMetadataIs DEF TypeInv, TypeOK, Loops, Runs, ActiveStates, Idle, At, Goto, github, hist, Persist, Rewrite, Dispatch, RunAt, Ended
<1>1. CASE PollDispatch
  BY <1>1 DEF PollDispatch
<1>2. CASE DispatchRepair
  BY <1>2 DEF DispatchRepair
<1>3. CASE NotReady
  BY <1>3 DEF NotReady
<1>4. CASE PrepareUntargeted
  BY <1>4 DEF PrepareUntargeted
<1>5. CASE PrepareTargeted
  BY <1>5 DEF PrepareTargeted
<1>6. CASE PrepareGone
  <2> DEFINE m == Cleared(loop.meta)
  <2>1. m \in Metadata
    BY ClearedIs
  <2>2. loop' = [loop EXCEPT !.at = "cleanup", !.meta = m]
    BY <1>6 DEF PrepareGone, Cleared
  <2> HIDE DEF m
  <2> QED BY <1>6, <2>1, <2>2 DEF PrepareGone
<1>7. CASE ClearPending
  BY <1>7 DEF ClearPending
<1> QED BY <1>1, <1>2, <1>3, <1>4, <1>5, <1>6, <1>7 DEF Dispatching

LEMMA RunningTypes ==
  ASSUME TypeInv, Running
  PROVE  TypeInv'
<1> USE NoMetadataIs DEF TypeInv, TypeOK, Loops, Runs, ActiveStates, Idle, At, Goto, github, hist, Persist, Rewrite, Dispatch, RunAt, Ended
<1>1. CASE RunFails
  BY <1>1 DEF RunFails
<1>2. CASE LoopComments
  BY <1>2 DEF LoopComments
<1>3. CASE HandleExit
  BY <1>3 DEF HandleExit
<1>4. CASE RunBegins
  BY <1>4 DEF RunBegins
<1>5. CASE RunStopsCoding
  <2>1. PICK seen \in {board, run.state} :
          run' = [run EXCEPT !.at = IF run.answering THEN "finalize" ELSE "record", !.state = seen]
    BY <1>5 DEF RunStopsCoding
  <2>2. run \in Runs /\ run' \in Runs
    BY <1>5, <2>1 DEF RunStopsCoding
  <2> QED BY <1>5, <2>2 DEF RunStopsCoding
<1>6. CASE RunFindsGone
  <2>1. run \in Runs /\ Cleared(run.meta) \in Metadata
    BY <1>6, ClearedIs DEF RunFindsGone
  <2>2. run' \in Runs
    BY <1>6, <2>1 DEF RunFindsGone
  <2>3. stored' \in Metadata
    BY <1>6, <2>1 DEF RunFindsGone
  <2> QED BY <1>6, <2>2, <2>3 DEF RunFindsGone
<1>7. CASE RunAnswers
  <2>1. run \in Runs /\ Cleared(run.meta) \in Metadata
    BY <1>7, ClearedIs DEF RunAnswers
  <2>2. run' \in Runs
    BY <1>7, <2>1 DEF RunAnswers
  <2>3. stored' \in Metadata
    BY <1>7, <2>1 DEF RunAnswers
  <2> QED BY <1>7, <2>2, <2>3 DEF RunAnswers
<1>8. CASE RunBlocked
  BY <1>8 DEF RunBlocked
<1>9. CASE RunRecords
  BY <1>9 DEF RunRecords
<1>10. CASE RunHandsOff
  BY <1>10 DEF RunHandsOff
<1> QED BY <1>1, <1>2, <1>3, <1>4, <1>5, <1>6, <1>7, <1>8, <1>9, <1>10 DEF Running

LEMMA ReviewersTypes ==
  ASSUME TypeInv, Reviewers
  PROVE  TypeInv'
<1> USE DEF TypeInv, TypeOK, github, hist, ActiveStates
<1>1. CASE HumanMoves \/ HumanPauses
  BY <1>1 DEF HumanMoves, HumanPauses
<1>2. ASSUME NEW t \in Threads, ThreadOpens(t) \/ HumanReplies(t) \/ HumanResolves(t)
      PROVE  TypeInv'
  BY <1>2 DEF ThreadOpens, HumanReplies, HumanResolves
<1>3. ASSUME NEW t \in Threads, HumanReacts(t)
      PROVE  TypeInv'
  <2>1. given' \in 0 .. MaxReaction /\ given' \in Reactions
    BY <1>3, FollowUpAssumption DEF HumanReacts, Reactions, FollowUpAssumption
  <2> QED BY <1>3, <2>1 DEF HumanReacts
<1>4. ASSUME NEW t \in Threads, HumanTakesBack(t)
      PROVE  TypeInv'
  BY <1>4 DEF HumanTakesBack
<1> QED BY <1>1, <1>2, <1>3, <1>4 DEF Reviewers

(* What every variable holds, for any threads and any number of reactions, *)
(* and that a refused start always has a record to put back.               *)
LEMMA TypesKept == TypeInv /\ [Next]_vars => TypeInv'
<1> SUFFICES ASSUME TypeInv, [Next]_vars
             PROVE  TypeInv'
  OBVIOUS
<1>1. CASE Restart
  BY <1>1, NoMetadataIs DEF Restart, TypeInv, TypeOK, github, hist, Loops, Idle
<1>2. CASE UNCHANGED vars
  BY <1>2 DEF vars, hist, TypeInv, TypeOK
<1> QED BY <1>1, <1>2, SyncTypes, DispatchingTypes, RunningTypes, ReviewersTypes DEF Next

LEMMA TypesStart == Init => TypeInv
<1> SUFFICES ASSUME Init
             PROVE  TypeInv
  OBVIOUS
<1>1. Idle \in Loops /\ Idle.at = "idle"
  BY NoMetadataIs DEF Idle, Loops
<1>2. given \in 0 .. MaxReaction
  BY FollowUpAssumption DEF Init, FollowUpAssumption
<1>3. last \in [Threads -> {"absent"}] /\ liked \in [CodexThreads -> SUBSET Reactions]
  BY DEF Init
<1> QED BY <1>1, <1>2, <1>3, NoMetadataIs DEF Init, TypeInv, TypeOK

(* Whatever the scan, the queue and the answers make of it, what the loop, *)
(* the run and Linear hold is a record of the issue's metadata: its queue  *)
(* is of follow-ups, its watermarks are numbers of reactions.              *)
THEOREM TypeInvariant == Spec => []TypeOK
<1>1. Spec => []TypeInv
  BY TypesStart, TypesKept, PTL DEF Spec
<1>2. TypeInv => TypeOK
  BY DEF TypeInv
<1> QED BY <1>1, <1>2, PTL

-----------------------------------------------------------------------------
(* Steps: what becomes of the threads and of the copies of the record.     *)

(* A thread stays opened, and stays resolved.                              *)
LEMMA ThreadsMove ==
  ASSUME TypeInv, [Next]_vars, NEW t \in Threads
  PROVE  /\ last[t] # "absent" => last'[t] # "absent"
         /\ last[t] = "resolved" => last'[t] = "resolved"
<1> USE DEF TypeInv, TypeOK, github, Open
<1>1. CASE UNCHANGED last
  BY <1>1
<1>2. CASE RunAnswers
  BY <1>2 DEF RunAnswers
<1>3. CASE RunBlocked
  <2> DEFINE targets == IF run.meta.pending = None THEN Open ELSE Open \cap {run.meta.pending.thread}
  <2>1. PICK replied \in SUBSET targets : \E resolved \in SUBSET replied :
          last' = [u \in Threads |-> IF u \in resolved THEN "resolved"
                                     ELSE IF u \in replied THEN "colin" ELSE last[u]]
    BY <1>3 DEF RunBlocked
  <2> QED BY <2>1
<1>4. ASSUME NEW u \in Threads,
             ThreadOpens(u) \/ HumanReplies(u) \/ HumanResolves(u)
      PROVE  /\ last[t] # "absent" => last'[t] # "absent"
             /\ last[t] = "resolved" => last'[t] = "resolved"
  BY <1>4 DEF ThreadOpens, HumanReplies, HumanResolves
<1>5. ASSUME Reviewers
      PROVE  \/ UNCHANGED last
             \/ \E u \in Threads : ThreadOpens(u) \/ HumanReplies(u) \/ HumanResolves(u)
  BY <1>5 DEF Reviewers, HumanMoves, HumanPauses, HumanReacts, HumanTakesBack, github
<1>6. ASSUME Sync PROVE UNCHANGED last
  BY <1>6 DEF Sync, Track, ScanFails, Scan, PersistScan, StartWaits, StartMoves, StartRefused,
              Rollback, ChecksDone, CheckRepair
<1>7. ASSUME Dispatching PROVE UNCHANGED last
  BY <1>7 DEF Dispatching, PollDispatch, DispatchRepair, NotReady, PrepareUntargeted,
              PrepareTargeted, PrepareGone, ClearPending, Dispatch
<1>8. ASSUME Running PROVE UNCHANGED last \/ RunAnswers \/ RunBlocked
  BY <1>8 DEF Running, RunFails, LoopComments, HandleExit, RunBegins, RunStopsCoding,
              RunFindsGone, RunRecords, RunHandsOff
<1>9. ASSUME Restart \/ UNCHANGED vars PROVE UNCHANGED last
  BY <1>9 DEF Restart, vars
<1> QED BY <1>1, <1>2, <1>3, <1>4, <1>5, <1>6, <1>7, <1>8, <1>9 DEF Next

LEMMA CopiesAre ==
  ASSUME TypeInv
  PROVE  /\ \A m \in Copies : m \in Metadata
         /\ stored \in Copies /\ loop.meta \in Copies
         /\ run # None => run.meta \in Copies /\ run.entry \in Copies
BY DEF TypeInv, TypeOK, Loops, Runs, Copies

(* To look at every copy is to look at the stored one, the one of the      *)
(* loop and the two of the run.                                            *)
LEMMA EveryCopy ==
  ASSUME Descends(stored'), Descends(loop'.meta),
         run' # None => Descends(run'.meta) /\ Descends(run'.entry)
  PROVE  \A m \in Copies' : Descends(m)
<1>1. \A m \in Copies' : \/ m = stored' \/ m = loop'.meta
                         \/ run' # None /\ (m = run'.meta \/ m = run'.entry)
  BY DEF Copies
<1> QED BY <1>1

LEMMA SyncCopies ==
  ASSUME TypeInv, Sync
  PROVE  \A m \in Copies' : Descends(m)
<1>0. /\ \A m \in Copies : Descends(m)
      /\ Descends(stored) /\ Descends(loop.meta) /\ Descends(NoMetadata)
      /\ run # None => Descends(run.meta) /\ Descends(run.entry)
  BY CopiesAre DEF Descends
<1> USE <1>0, EveryCopy DEF TypeInv, TypeOK, Loops, Runs, Idle, At, Goto, Persist, Rewrite, Dispatch, RunAt, Ended
<1>1. CASE Track
  BY <1>1 DEF Track
<1>2. CASE ScanFails
  BY <1>2 DEF ScanFails
<1>3. CASE Scan
  <2>1. loop.at = "tracked" /\ UNCHANGED <<github, stored, run>>
    BY <1>3 DEF Scan, github
  <2>2. \/ loop'.meta = Scanned(loop.meta)
        \/ /\ Scanned(loop.meta).pending = None /\ Scanned(loop.meta).queue # <<>>
           /\ loop'.meta = NextTaken(Scanned(loop.meta))
    BY <1>3 DEF Scan
  <2>3. Descends(loop'.meta)
    BY <2>1, <2>2 DEF Descends
  <2> QED BY <2>1, <2>3
<1>4. CASE PersistScan
  BY <1>4 DEF PersistScan
<1>5. CASE StartWaits
  BY <1>5 DEF StartWaits
<1>6. CASE StartMoves
  BY <1>6 DEF StartMoves
<1>7. CASE StartRefused
  BY <1>7 DEF StartRefused
<1>8. CASE Rollback
  <2>1. Descends(loop.previous)
    BY <1>8 DEF Rollback, Descends
  <2>2. loop'.meta = loop.previous /\ stored' \in {stored, loop.previous} /\ run' = run
    BY <1>8 DEF Rollback
  <2> QED BY <2>1, <2>2
<1>9. CASE ChecksDone
  BY <1>9 DEF ChecksDone
<1>10. CASE CheckRepair
  BY <1>10 DEF CheckRepair
<1> QED BY <1>1, <1>2, <1>3, <1>4, <1>5, <1>6, <1>7, <1>8, <1>9, <1>10 DEF Sync

LEMMA DispatchingCopies ==
  ASSUME TypeInv, Dispatching
  PROVE  \A m \in Copies' : Descends(m)
<1>0. /\ \A m \in Copies : Descends(m)
      /\ Descends(stored) /\ Descends(loop.meta) /\ Descends(NoMetadata)
      /\ run # None => Descends(run.meta) /\ Descends(run.entry)
  BY CopiesAre DEF Descends
<1> USE <1>0, EveryCopy DEF TypeInv, TypeOK, Loops, Runs, Idle, At, Goto, Persist, Rewrite, Dispatch, RunAt, Ended
<1>1. CASE PollDispatch
  BY <1>1 DEF PollDispatch
<1>2. CASE DispatchRepair
  BY <1>2 DEF DispatchRepair
<1>3. CASE NotReady
  BY <1>3 DEF NotReady
<1>4. CASE PrepareUntargeted
  BY <1>4 DEF PrepareUntargeted
<1>5. CASE PrepareTargeted
  BY <1>5 DEF PrepareTargeted
<1>6. CASE PrepareGone
  <2>1. loop.meta.pending.thread \notin Open'
    BY <1>6 DEF PrepareGone, github, Open
  <2>2. Descends(Cleared(loop.meta))
    BY <2>1, CopiesAre DEF Descends
  <2>3. loop'.meta = Cleared(loop.meta) /\ UNCHANGED <<stored, run>>
    BY <1>6 DEF PrepareGone, Cleared
  <2> QED BY <2>2, <2>3
<1>7. CASE ClearPending
  BY <1>7 DEF ClearPending
<1> QED BY <1>1, <1>2, <1>3, <1>4, <1>5, <1>6, <1>7 DEF Dispatching

LEMMA RunningCopies ==
  ASSUME TypeInv, Running
  PROVE  \A m \in Copies' : Descends(m)
<1>0. /\ \A m \in Copies : Descends(m)
      /\ Descends(stored) /\ Descends(loop.meta) /\ Descends(NoMetadata)
      /\ run # None => Descends(run.meta) /\ Descends(run.entry)
  BY CopiesAre DEF Descends
<1> USE <1>0, EveryCopy DEF TypeInv, TypeOK, Loops, Runs, Idle, At, Goto, Persist, Rewrite, Dispatch, RunAt, Ended
<1>1. CASE RunFails
  BY <1>1 DEF RunFails
<1>2. CASE LoopComments
  BY <1>2 DEF LoopComments
<1>3. CASE HandleExit
  BY <1>3 DEF HandleExit
<1>4. CASE RunBegins
  BY <1>4 DEF RunBegins
<1>5. CASE RunStopsCoding
  BY <1>5 DEF RunStopsCoding
<1>6. CASE RunFindsGone
  <2>1. run # None /\ (run.meta.pending # None => run.meta.pending.thread \notin Open')
    BY <1>6 DEF RunFindsGone, github, Open
  <2>2. Descends(Cleared(run.meta))
    BY <2>1, CopiesAre DEF Descends
  <2>3. /\ stored' \in {stored, Cleared(run.meta)} /\ loop' = loop
        /\ run'.meta = Cleared(run.meta) /\ run'.entry = run.entry
    BY <1>6 DEF RunFindsGone
  <2> QED BY <2>1, <2>2, <2>3
<1>7. CASE RunAnswers
  <2>1. run # None /\ run.meta \in Metadata
    BY <1>7 DEF RunAnswers
  <2>2. run.meta.pending # None => last'[run.meta.pending.thread] = "resolved"
    BY <1>7, <2>1 DEF RunAnswers, Metadata, Items
  <2>3. Descends(Cleared(run.meta))
    BY <2>1, <2>2, CopiesAre DEF Descends, Open
  <2>4. /\ stored' \in {stored, Cleared(run.meta)} /\ loop' = loop
        /\ run'.meta = Cleared(run.meta) /\ run'.entry = run.entry
    BY <1>7 DEF RunAnswers
  <2> QED BY <2>1, <2>3, <2>4
<1>8. CASE RunBlocked
  BY <1>8 DEF RunBlocked
<1>9. CASE RunRecords
  BY <1>9 DEF RunRecords
<1>10. CASE RunHandsOff
  BY <1>10 DEF RunHandsOff
<1> QED BY <1>1, <1>2, <1>3, <1>4, <1>5, <1>6, <1>7, <1>8, <1>9, <1>10 DEF Running

LEMMA AllCopies ==
  ASSUME TypeInv, [Next]_vars
  PROVE  \A m \in Copies' : Descends(m)
<1>1. CASE Reviewers \/ UNCHANGED vars
  <2>1. UNCHANGED <<stored, loop, run>>
    BY <1>1 DEF Reviewers, HumanMoves, HumanPauses, ThreadOpens, HumanReplies, HumanResolves, HumanReacts,
                HumanTakesBack, vars
  <2>2. Copies' = Copies
    BY <2>1 DEF Copies
  <2> QED BY <2>2 DEF Descends
<1>2. CASE Restart
  <2>1. stored' = stored /\ loop'.meta = NoMetadata /\ run' = None
    BY <1>2 DEF Restart, Idle
  <2>2. Descends(stored) /\ Descends(NoMetadata)
    BY CopiesAre DEF Descends
  <2> QED BY <2>1, <2>2, EveryCopy
<1> QED BY <1>1, <1>2, SyncCopies, DispatchingCopies, RunningCopies DEF Next

LEMMA PreviousMoves ==
  ASSUME TypeInv, [Next]_vars, loop'.previous # None
  PROVE  \/ loop'.previous = loop.previous
         \/ /\ loop.at = "tracked" /\ UNCHANGED github
            /\ loop'.previous = PutBack(loop.meta, Scanned(loop.meta))
<1> USE DEF TypeInv, TypeOK, Loops, Idle, At, Goto, Dispatch
<1>1. CASE Scan
  BY <1>1 DEF Scan, github
<1>2. CASE UNCHANGED loop
  BY <1>2
<1>3. ASSUME Sync
      PROVE  loop'.previous \in {None, loop.previous} \/ Scan
  <2>1. CASE Track \/ ChecksDone
    <3>1. CASE Track
      BY <3>1 DEF Track
    <3>2. CASE ChecksDone
      BY <3>2 DEF ChecksDone
    <3> QED BY <2>1, <3>1, <3>2
  <2>2. CASE ScanFails \/ PersistScan \/ StartWaits \/ StartRefused
    BY <2>2 DEF ScanFails, PersistScan, StartWaits, StartRefused
  <2>3. CASE StartMoves \/ Rollback \/ CheckRepair
    BY <2>3 DEF StartMoves, Rollback, CheckRepair
  <2> QED BY <1>3, <2>1, <2>2, <2>3 DEF Sync
<1>4. ASSUME Dispatching
      PROVE  loop'.previous \in {None, loop.previous}
  <2>1. CASE PollDispatch \/ NotReady \/ ClearPending
    <3>1. CASE PollDispatch
      BY <3>1 DEF PollDispatch
    <3>2. CASE NotReady
      BY <3>2 DEF NotReady
    <3>3. CASE ClearPending
      BY <3>3 DEF ClearPending
    <3> QED BY <2>1, <3>1, <3>2, <3>3
  <2>2. CASE DispatchRepair \/ PrepareUntargeted \/ PrepareTargeted
    BY <2>2 DEF DispatchRepair, PrepareUntargeted, PrepareTargeted
  <2>3. CASE PrepareGone
    BY <2>3 DEF PrepareGone
  <2> QED BY <1>4, <2>1, <2>2, <2>3 DEF Dispatching
<1>5. ASSUME Running \/ Reviewers \/ UNCHANGED vars
      PROVE  UNCHANGED loop
  BY <1>5 DEF Running, RunFails, LoopComments, HandleExit, RunBegins, RunStopsCoding, RunFindsGone,
              RunAnswers, RunBlocked, RunRecords, RunHandsOff, Reviewers, HumanMoves, HumanPauses, ThreadOpens,
              HumanReplies, HumanResolves, HumanReacts, HumanTakesBack, vars
<1>6. CASE Restart
  BY <1>6 DEF Restart
<1> QED BY <1>1, <1>2, <1>3, <1>4, <1>5, <1>6 DEF Next

(* No two threads come to share a reaction.                                *)
LEMMA NumberedKept ==
  ASSUME TypeInv, Numbered, [Next]_vars
  PROVE  Numbered'
<1> USE DEF TypeInv, TypeOK, github
<1>1. CASE UNCHANGED <<liked, given>>
  BY <1>1 DEF Numbered
<1>2. ASSUME NEW t \in Threads, HumanReacts(t)
      PROVE  Numbered'
  <2>1. /\ t \in CodexThreads /\ given' = given + 1 /\ given \in Nat
        /\ liked' = [liked EXCEPT ![t] = @ \cup {given + 1}]
    BY <1>2, FollowUpAssumption DEF HumanReacts, FollowUpAssumption
  <2>2. ASSUME NEW u \in CodexThreads
        PROVE  /\ liked'[u] = IF u = t THEN liked[u] \cup {given + 1} ELSE liked[u]
               /\ liked[u] \subseteq 1 .. given /\ given + 1 \notin liked[u]
    <3>1. liked[u] \subseteq 1 .. given
      BY DEF Numbered
    <3>2. given + 1 \notin 1 .. given
      BY <2>1
    <3> QED BY <2>1, <3>1, <3>2
  <2>3. 1 .. given \subseteq 1 .. given + 1 /\ given + 1 \in 1 .. given + 1
    BY <2>1
  <2>4. ASSUME NEW u \in CodexThreads, NEW v \in CodexThreads, u # v
        PROVE  liked'[u] \cap liked'[v] = {}
    <3>1. liked[u] \cap liked[v] = {}
      BY <2>4 DEF Numbered
    <3> QED BY <2>2, <2>4, <3>1
  <2> QED BY <2>1, <2>2, <2>3, <2>4 DEF Numbered
<1>3. ASSUME NEW t \in Threads, HumanTakesBack(t)
      PROVE  Numbered'
  <2>1. given' = given /\ \A u \in CodexThreads : liked'[u] \subseteq liked[u]
    BY <1>3 DEF HumanTakesBack
  <2> QED BY <2>1 DEF Numbered
<1>4. ASSUME Reviewers
      PROVE  \/ UNCHANGED <<liked, given>>
             \/ \E t \in Threads : HumanReacts(t) \/ HumanTakesBack(t)
  BY <1>4 DEF Reviewers, HumanMoves, HumanPauses, ThreadOpens, HumanReplies, HumanResolves
<1>5. ASSUME Sync PROVE UNCHANGED <<liked, given>>
  BY <1>5 DEF Sync, Track, ScanFails, Scan, PersistScan, StartWaits, StartMoves, StartRefused,
              Rollback, ChecksDone, CheckRepair
<1>6. ASSUME Dispatching PROVE UNCHANGED <<liked, given>>
  BY <1>6 DEF Dispatching, PollDispatch, DispatchRepair, NotReady, PrepareUntargeted,
              PrepareTargeted, PrepareGone, ClearPending, Dispatch
<1>7. ASSUME Running PROVE UNCHANGED <<liked, given>>
  BY <1>7 DEF Running, RunFails, LoopComments, HandleExit, RunBegins, RunStopsCoding,
              RunFindsGone, RunAnswers, RunBlocked, RunRecords, RunHandsOff
<1>8. ASSUME Restart \/ UNCHANGED vars PROVE UNCHANGED <<liked, given>>
  BY <1>8 DEF Restart, vars
<1> QED BY <1>1, <1>2, <1>3, <1>4, <1>5, <1>6, <1>7, <1>8 DEF Next

-----------------------------------------------------------------------------
(* Nothing is due twice.                                                   *)

LEMMA OnceKept ==
  ASSUME TypeInv, OnceInv, [Next]_vars
  PROVE  OnceInv'
<1>1. /\ loop.meta \in Metadata /\ loop.meta \in Copies
      /\ liked \in [CodexThreads -> SUBSET Reactions]
      /\ loop.previous # None => loop.previous \in Metadata
      /\ loop.at = "rollback" => loop.previous # None
  BY CopiesAre DEF TypeInv, TypeOK, Loops
<1>2. \A c \in Copies : c \in Metadata /\ DueOnce(c) /\ Opened(c)
  BY CopiesAre DEF OnceInv
<1>3. ASSUME NEW item \in Items
      PROVE  item.thread \in Threads /\ (last[item.thread] # "absent" => last'[item.thread] # "absent")
  <2>1. item.thread \in Threads
    BY DEF Items
  <2> QED BY <2>1, ThreadsMove
<1> DEFINE s == Scanned(loop.meta)
           Good(m) == DueOnce(m) /\ \A item \in Items : IsDue(m, item) => last'[item.thread] # "absent"
<1>4. ASSUME NEW c, DueOnce(c), Opened(c)
      PROVE  Good(c)
  BY <1>3, <1>4 DEF Opened
<1>5. s \in Metadata /\ Good(s)
  <2>1. /\ s \in Metadata /\ DueOnce(s)
        /\ \A item \in Items : IsDue(s, item) => item.thread \in Open
    BY <1>1, <1>2, ScannedIs
  <2> HIDE DEF s
  <2> QED BY <1>3, <2>1 DEF Open
<1> HIDE DEF s
<1>6. ASSUME NEW m, Descends(m)
      PROVE  Good(m)
  <2>1. CASE m \in Copies
    BY <1>2, <1>4, <2>1
  <2>2. CASE m = NoMetadata
    BY <2>2, NoMetadataIs
  <2>3. CASE Rollback /\ m = loop.previous
    BY <1>1, <1>4, <2>3 DEF OnceInv, Rollback, At
  <2>4. CASE \E c \in Copies : m = Cleared(c)
    <3>1. PICK c \in Copies : m = Cleared(c)
      BY <2>4
    <3>2. Good(c) /\ c \in Metadata
      BY <1>2, <1>4
    <3> QED BY <3>1, <3>2, ClearedIs
  <2>5. CASE m = s
    BY <1>5, <2>5
  <2>6. CASE s.pending = None /\ s.queue # <<>> /\ m = NextTaken(s)
    BY <1>5, <2>6, NextTakenIs
  <2> QED BY <1>6, <2>1, <2>2, <2>3, <2>4, <2>5, <2>6 DEF Descends, s
<1>7. ASSUME loop'.previous # None
      PROVE  Good(loop'.previous)
  <2>1. CASE loop'.previous = loop.previous
    BY <1>4, <1>7, <2>1 DEF OnceInv
  <2>2. CASE loop'.previous = PutBack(loop.meta, s)
    <3>1. Good(loop.meta)
      BY <1>1, <1>2, <1>4
    <3> QED BY <1>1, <1>5, <2>2, <3>1, PutBackIs DEF DueOnce, IsDue
  <2> QED BY <1>7, <2>1, <2>2, PreviousMoves DEF s
<1>8. \A m \in Copies' : Good(m)
  BY <1>6, AllCopies
<1>9. \A m : Good(m) => (DueOnce(m) /\ Opened(m))'
  BY DEF Opened
<1> QED BY <1>7, <1>8, <1>9 DEF OnceInv

LEMMA OnceStarts == Init => OnceInv
<1> SUFFICES ASSUME Init
             PROVE  OnceInv
  OBVIOUS
<1>1. Copies = {NoMetadata} /\ loop.previous = None
  BY DEF Init, Idle, Copies
<1>2. DueOnce(NoMetadata) /\ Opened(NoMetadata)
  BY NoMetadataIs DEF Opened
<1> QED BY <1>1, <1>2 DEF OnceInv

(* A thread is due at most once for each reason, in every copy of the      *)
(* record and also in the one that a refused start would put back.         *)
THEOREM NothingDueTwiceHolds == Spec => []NothingDueTwice
<1>1. TypeInv /\ OnceInv => NothingDueTwice
  <2> SUFFICES ASSUME TypeInv, OnceInv
               PROVE  NothingDueTwice
    OBVIOUS
  <2>1. stored \in Metadata /\ DueOnce(stored)
    BY CopiesAre DEF OnceInv
  <2>2. Once(Due(stored))
    BY <2>1, DueIs
  <2> QED BY <2>2 DEF NothingDueTwice, Once, Same
<1>2. Spec => [](TypeInv /\ OnceInv)
  <2>1. TypeInv /\ OnceInv /\ [Next]_vars => (TypeInv /\ OnceInv)'
    BY TypesKept, OnceKept
  <2>2. Init => TypeInv /\ OnceInv
    BY TypesStart, OnceStarts
  <2> QED BY <2>1, <2>2, PTL DEF Spec
<1> QED BY <1>1, <1>2, PTL

-----------------------------------------------------------------------------
(* Approvals are kept.                                                     *)

(* What was lost stays on record, and a roll-back adds what it takes out.  *)
LEMMA LostGrows ==
  ASSUME [Next]_vars
  PROVE  lost \subseteq lost'
<1>1. CASE Rollback
  BY <1>1 DEF Rollback
<1>2. ASSUME Sync PROVE lost' = lost \/ Rollback
  BY <1>2 DEF Sync, Track, ScanFails, Scan, PersistScan, StartWaits, StartMoves, StartRefused,
              ChecksDone, CheckRepair, hist
<1>3. ASSUME Dispatching PROVE UNCHANGED lost
  BY <1>3 DEF Dispatching, PollDispatch, DispatchRepair, NotReady, PrepareUntargeted,
              PrepareTargeted, PrepareGone, ClearPending, Dispatch, hist
<1>4. ASSUME Running PROVE UNCHANGED lost
  BY <1>4 DEF Running, RunFails, LoopComments, HandleExit, RunBegins, RunStopsCoding,
              RunFindsGone, RunAnswers, RunBlocked, RunRecords, RunHandsOff, hist
<1>5. ASSUME Reviewers \/ Restart \/ UNCHANGED vars PROVE UNCHANGED lost
  BY <1>5 DEF Reviewers, HumanMoves, HumanPauses, ThreadOpens, HumanReplies, HumanResolves,
              HumanReacts, HumanTakesBack, Restart, vars, hist
<1> QED BY <1>1, <1>2, <1>3, <1>4, <1>5 DEF Next

(* While there is a record to put back, the loop leaves the watermarks of  *)
(* its own as they are.                                                    *)
LEMMA MarksStay ==
  ASSUME TypeInv, [Next]_vars, ~Scan, loop'.previous # None
  PROVE  loop'.previous = loop.previous /\ loop'.meta.marks = loop.meta.marks
<1> USE DEF TypeInv, TypeOK, Loops, Idle, At, Goto, Dispatch
<1>1. CASE Sync
  <2>1. CASE Track \/ ChecksDone
    <3>1. CASE Track
      BY <3>1 DEF Track
    <3>2. CASE ChecksDone
      BY <3>2 DEF ChecksDone
    <3> QED BY <2>1, <3>1, <3>2
  <2>2. CASE ScanFails \/ PersistScan \/ StartWaits \/ StartRefused
    BY <2>2 DEF ScanFails, PersistScan, StartWaits, StartRefused
  <2>3. CASE StartMoves \/ Rollback \/ CheckRepair
    BY <2>3 DEF StartMoves, Rollback, CheckRepair
  <2> QED BY <1>1, <2>1, <2>2, <2>3 DEF Sync
<1>2. CASE Dispatching
  <2>1. CASE PollDispatch \/ NotReady \/ ClearPending
    <3>1. CASE PollDispatch
      BY <3>1 DEF PollDispatch
    <3>2. CASE NotReady
      BY <3>2 DEF NotReady
    <3>3. CASE ClearPending
      BY <3>3 DEF ClearPending
    <3> QED BY <2>1, <3>1, <3>2, <3>3
  <2>2. CASE DispatchRepair \/ PrepareUntargeted \/ PrepareTargeted
    BY <2>2 DEF DispatchRepair, PrepareUntargeted, PrepareTargeted
  <2>3. CASE PrepareGone
    <3>1. loop'.meta = Cleared(loop.meta) /\ loop'.previous = loop.previous
      BY <2>3 DEF PrepareGone, Cleared
    <3> QED BY <3>1, ClearedIs
  <2> QED BY <1>2, <2>1, <2>2, <2>3 DEF Dispatching
<1>3. ASSUME Running \/ Reviewers \/ UNCHANGED vars
      PROVE  UNCHANGED loop
  BY <1>3 DEF Running, RunFails, LoopComments, HandleExit, RunBegins, RunStopsCoding, RunFindsGone,
              RunAnswers, RunBlocked, RunRecords, RunHandsOff, Reviewers, HumanMoves, HumanPauses,
              ThreadOpens, HumanReplies, HumanResolves, HumanReacts, HumanTakesBack, vars
<1>4. CASE Restart
  BY <1>4 DEF Restart
<1> QED BY <1>1, <1>2, <1>3, <1>4 DEF Next

LEMMA KeptKept ==
  ASSUME TypeInv, OnceInv, Numbered, KeptInv, [Next]_vars
  PROVE  KeptInv'
<1>1. /\ loop.meta \in Metadata /\ loop.meta \in Copies
      /\ liked \in [CodexThreads -> SUBSET Reactions]
      /\ loop.previous # None => loop.previous \in Metadata
      /\ loop.at = "rollback" => loop.previous # None
  BY CopiesAre DEF TypeInv, TypeOK, Loops, KeptInv
<1>2. \A c \in Copies : c \in Metadata /\ Kept(c)
  BY CopiesAre DEF KeptInv
<1>3. ASSUME NEW t \in CodexThreads
      PROVE  /\ last[t] # "absent" => last'[t] # "absent"
             /\ last[t] = "resolved" => last'[t] = "resolved"
             /\ t \in Open <=> last[t] # "absent" /\ last[t] # "resolved"
             /\ t \notin Open' => last'[t] = "absent" \/ last'[t] = "resolved"
  <2>1. t \in Threads
    BY DEF Threads
  <2> QED BY <2>1, ThreadsMove DEF Open
<1> DEFINE s == Scanned(loop.meta)
           Good(m) == \A t \in CodexThreads : m.marks[t] # 0 =>
                        /\ last'[t] # "absent"
                        /\ \/ last'[t] = "resolved" \/ CommentDue(m, t)
                           \/ <<t, m.marks[t]>> \in lost'
<1>4. s \in Metadata /\ Good(s)
  <2>1. /\ s \in Metadata
        /\ \A item \in Items : IsDue(loop.meta, item) /\ item.thread \in Open => IsDue(s, item)
        /\ \A t \in CodexThreads : s.marks[t] # loop.meta.marks[t] => t \in Open /\ CommentDue(s, t)
    BY <1>1, ScannedIs
  <2> HIDE DEF s
  <2>2. ASSUME NEW t \in CodexThreads, s.marks[t] # 0
        PROVE  /\ last'[t] # "absent"
               /\ last'[t] = "resolved" \/ CommentDue(s, t) \/ <<t, s.marks[t]>> \in lost'
    <3>1. CASE s.marks[t] # loop.meta.marks[t]
      BY <1>3, <2>1, <3>1
    <3>2. CASE s.marks[t] = loop.meta.marks[t] /\ loop.meta.marks[t] # 0
      <4>1. /\ last[t] # "absent"
            /\ \/ last[t] = "resolved" \/ CommentDue(loop.meta, t)
               \/ <<t, loop.meta.marks[t]>> \in lost
        BY <1>1, <1>2, <3>2 DEF Kept
      <4>2. CASE last[t] = "resolved" \/ <<t, loop.meta.marks[t]>> \in lost
        BY <1>3, <3>2, <4>1, <4>2, LostGrows
      <4>3. CASE last[t] # "resolved" /\ CommentDue(loop.meta, t)
        <5>1. t \in Open
          BY <1>3, <4>1, <4>3
        <5>2. CommentDue(s, t)
          BY <1>1, <2>1, <4>3, <5>1, CommentDueIs
        <5> QED BY <1>3, <4>1, <5>2
      <4> QED BY <4>1, <4>2, <4>3
    <3> QED BY <2>2, <3>1, <3>2
  <2> QED BY <2>1, <2>2
<1> HIDE DEF s
<1>5. ASSUME NEW c \in Metadata, Kept(c)
      PROVE  Good(c)
  BY <1>3, <1>5, LostGrows DEF Kept
<1>6. ASSUME NEW c \in Metadata, Kept(c), c.pending # None => c.pending.thread \notin Open'
      PROVE  Good(Cleared(c))
  <2> SUFFICES ASSUME NEW t \in CodexThreads, c.marks[t] # 0,
                      last'[t] # "resolved", <<t, c.marks[t]>> \notin lost'
               PROVE  last'[t] # "absent" /\ CommentDue(Cleared(c), t)
    BY <1>5, <1>6, ClearedIs
  <2>1. last'[t] # "absent" /\ CommentDue(c, t) /\ t \in Open'
    BY <1>3, <1>6, LostGrows DEF Kept
  <2>2. PICK item \in Items : IsDue(c, item) /\ item.thread = t /\ IsReaction(item)
    BY <2>1, CommentDueIs
  <2>3. item # c.pending
    BY <1>6, <2>1, <2>2, FollowUpAssumption DEF FollowUpAssumption
  <2>4. IsDue(Cleared(c), item) /\ Cleared(c) \in Metadata
    BY <2>2, <2>3, ClearedIs
  <2> QED BY <2>1, <2>2, <2>4, CommentDueIs
<1>7. ASSUME Rollback
      PROVE  Good(loop.previous)
  <2>1. loop.previous # None /\ lost' = lost \cup TakenOut(loop.meta, loop.previous)
    BY <1>1, <1>7 DEF Rollback, At
  <2>2. ASSUME NEW t \in CodexThreads, loop.previous.marks[t] # 0, ~CommentDue(loop.previous, t)
        PROVE  /\ last'[t] # "absent"
               /\ last'[t] = "resolved" \/ <<t, loop.previous.marks[t]>> \in lost'
    <3>1. loop.previous.marks[t] = loop.meta.marks[t]
      BY <2>1, <2>2 DEF KeptInv
    <3>2. /\ last'[t] # "absent"
          /\ \/ last'[t] = "resolved" \/ CommentDue(loop.meta, t)
             \/ <<t, loop.meta.marks[t]>> \in lost'
      BY <1>1, <1>2, <1>5, <2>2, <3>1
    <3>3. CommentDue(loop.meta, t) => <<t, loop.meta.marks[t]>> \in lost'
      BY <2>1, <2>2 DEF TakenOut
    <3> QED BY <3>1, <3>2, <3>3
  <2>3. \A t \in CodexThreads : loop.previous.marks[t] # 0 => last'[t] # "absent"
    <3> SUFFICES ASSUME NEW t \in CodexThreads, loop.previous.marks[t] # 0
                 PROVE  last'[t] # "absent"
      OBVIOUS
    <3>1. loop.meta.marks[t] # 0
      BY <2>1 DEF KeptInv
    <3> QED BY <1>1, <1>2, <1>5, <3>1
  <2> QED BY <2>2, <2>3
<1>8. ASSUME NEW m, Descends(m)
      PROVE  Good(m)
  <2>1. CASE m \in Copies
    BY <1>2, <1>5, <2>1
  <2>2. CASE m = NoMetadata
    BY <2>2, NoMetadataIs
  <2>3. CASE \E c \in Copies : m = Cleared(c) /\ (c.pending # None => c.pending.thread \notin Open')
    <3>1. PICK c \in Copies : m = Cleared(c) /\ (c.pending # None => c.pending.thread \notin Open')
      BY <2>3
    <3>2. Good(Cleared(c))
      BY <1>2, <1>6, <3>1
    <3> QED BY <3>1, <3>2
  <2>4. CASE m = s
    BY <1>4, <2>4
  <2>5. CASE s.pending = None /\ s.queue # <<>> /\ m = NextTaken(s)
    <3>1. m \in Metadata /\ m.marks = s.marks /\ \A item \in Items : IsDue(m, item) <=> IsDue(s, item)
      BY <1>4, <2>5, NextTakenIs
    <3>2. \A t : CommentDue(m, t) <=> CommentDue(s, t)
      BY <1>4, <3>1, CommentDueIs
    <3> QED BY <1>4, <3>1, <3>2
  <2> QED BY <1>7, <1>8, <2>1, <2>2, <2>3, <2>4, <2>5 DEF Descends, s
<1>9. \A m \in Copies' : Good(m)
  BY <1>8, AllCopies
<1>10. \A m : Good(m) => Kept(m)'
  BY DEF Kept
<1>11. ASSUME loop'.previous # None, NEW t \in CodexThreads
       PROVE  loop'.previous.marks[t] \in {0, loop'.meta.marks[t]}
  <2>1. CASE Scan
    <3>1. loop'.previous = PutBack(loop.meta, s) /\ loop'.meta.marks = s.marks
      <4>1. loop' = [loop EXCEPT
                   !.at = IF (s.pending = None /\ s.queue # <<>>) \/ s # loop.meta THEN "persist"
                          ELSE IF s.pending # None THEN "start" ELSE "checks",
                   !.meta = IF s.pending = None /\ s.queue # <<>> THEN NextTaken(s) ELSE s,
                   !.previous = IF s.pending = None /\ s.queue # <<>> THEN PutBack(loop.meta, s) ELSE None]
        BY <2>1 DEF Scan, s
      <4>2. loop \in Loops
        BY DEF TypeInv, TypeOK
      <4>3. s.pending = None /\ s.queue # <<>>
        BY <1>11, <4>1, <4>2 DEF Loops
      <4>4. loop'.meta = NextTaken(s) /\ loop'.previous = PutBack(loop.meta, s)
        BY <4>1, <4>2, <4>3 DEF Loops
      <4> QED BY <1>4, <4>3, <4>4, NextTakenIs
    <3> QED BY <1>1, <1>4, <3>1, PutBackIs
  <2>2. CASE ~Scan
    BY <1>11, <2>2, MarksStay DEF KeptInv
  <2> QED BY <2>1, <2>2
<1> QED BY <1>9, <1>10, <1>11 DEF KeptInv

(* An approval whose watermark is stored is due for as long as its thread  *)
(* is open: what the scan skips because it saw it before is still waiting. *)
(* The one exception is an approval that a refused start took out of the   *)
(* record with the scan that found it.                                     *)
THEOREM ApprovalKeptHolds == Spec => []ApprovalKept
<1> DEFINE I == TypeInv /\ OnceInv /\ Numbered /\ KeptInv
<1>1. Init => I
  <2> SUFFICES ASSUME Init
               PROVE  I
    OBVIOUS
  <2>1. Numbered
    BY DEF Init, Numbered
  <2>2. Copies = {NoMetadata} /\ loop.previous = None
    BY DEF Init, Idle, Copies
  <2>3. KeptInv
    BY <2>2, NoMetadataIs DEF KeptInv, Kept
  <2> QED BY <2>1, <2>3, TypesStart, OnceStarts
<1>2. I /\ [Next]_vars => I'
  BY TypesKept, OnceKept, NumberedKept, KeptKept
<1>3. I => ApprovalKept
  <2> SUFFICES ASSUME TypeInv, KeptInv, NEW t \in CodexThreads, t \in Open, stored.marks[t] # 0
               PROVE  CommentDue(stored, t) \/ <<t, stored.marks[t]>> \in lost
    BY DEF ApprovalKept
  <2>1. Kept(stored)
    BY CopiesAre DEF KeptInv
  <2> QED BY <2>1 DEF Kept, Open
<1> HIDE DEF I
<1> QED BY <1>1, <1>2, <1>3, PTL DEF Spec

-----------------------------------------------------------------------------
(* Approvals wait for a human.                                             *)

(* An approval in a copy of the record that will be waiting after the step *)
(* waits now: a thread that is not open is not opened again.               *)
LEMMA WaitingFalls ==
  ASSUME TypeInv, OnceInv, [Next]_vars, NEW m \in Copies,
         HasReaction(m), m.pending.thread \in Open'
  PROVE  Waiting(m)
<1>1. m \in Metadata /\ Opened(m)
  BY CopiesAre DEF OnceInv
<1>2. m.pending \in Items /\ IsDue(m, m.pending)
  BY <1>1 DEF HasReaction, Metadata, IsDue
<1>3. m.pending.thread \in Threads /\ last[m.pending.thread] # "absent"
  BY <1>1, <1>2 DEF Items, Opened
<1>4. last[m.pending.thread] # "resolved"
  BY <1>3, ThreadsMove DEF Open
<1> QED BY <1>3, <1>4 DEF Waiting, Open

LEMMA SyncCare ==
  ASSUME TypeInv, OnceInv, CareInv, Sync
  PROVE  CareInv'
<1>0. /\ \A m \in Copies : HasReaction(m) /\ m.pending.thread \in Open' => Waiting(m)
      /\ stored \in Copies /\ loop.meta \in Copies
      /\ run # None => run.meta \in Copies /\ run.entry \in Copies
  BY WaitingFalls, CopiesAre DEF Next
<1> USE <1>0 DEF TypeInv, TypeOK, Loops, Runs, ActiveStates, Idle, At, Goto, github, hist, Persist, Rewrite,
        Dispatch, RunAt, Ended, CareInv, Alone, SyncCareful, StartCareful, RunCareful, Released, Waiting, HasReaction
<1>1. CASE Track
  BY <1>1 DEF Track
<1>2. CASE ScanFails
  BY <1>2 DEF ScanFails
<1>3. CASE Scan
  <2> DEFINE m == Scanned(loop.meta)
  <2>1. loop.at = "tracked" /\ UNCHANGED <<board, authorized, repaired, last, stored, run>>
    BY <1>3 DEF Scan
  <2>2. /\ loop'.at \in {"persist", "start", "checks"} /\ loop'.at # "idle"
        /\ m.pending # None => loop'.meta.pending = m.pending
    BY <1>3 DEF Scan
  <2>3. m.pending = IF loop.meta.pending = None \/ loop.meta.pending.thread \notin Open
                    THEN None ELSE loop.meta.pending
    BY CopiesAre, ScannedIs
  <2> HIDE DEF m
  <2>4. Open' = Open
    BY <2>1 DEF Open
  <2>5. Waiting(stored) => loop'.meta.pending = stored.pending
    BY <2>1, <2>2, <2>3
  <2> QED BY <2>1, <2>2, <2>4, <2>5
<1>4. CASE PersistScan
  BY <1>4 DEF PersistScan
<1>5. CASE StartWaits
  BY <1>5 DEF StartWaits
<1>6. CASE StartMoves
  BY <1>6 DEF StartMoves
<1>7. CASE StartRefused
  BY <1>7 DEF StartRefused
<1>8. CASE Rollback
  BY <1>8 DEF Rollback
<1>9. CASE ChecksDone
  BY <1>9 DEF ChecksDone
<1>10. CASE CheckRepair
  BY <1>10 DEF CheckRepair
<1> QED BY <1>1, <1>2, <1>3, <1>4, <1>5, <1>6, <1>7, <1>8, <1>9, <1>10 DEF Sync

LEMMA DispatchingCare ==
  ASSUME TypeInv, OnceInv, CareInv, Dispatching
  PROVE  CareInv'
<1>0. /\ \A m \in Copies : HasReaction(m) /\ m.pending.thread \in Open' => Waiting(m)
      /\ stored \in Copies /\ loop.meta \in Copies
      /\ run # None => run.meta \in Copies /\ run.entry \in Copies
  BY WaitingFalls, CopiesAre DEF Next
<1> USE <1>0 DEF TypeInv, TypeOK, Loops, Runs, ActiveStates, Idle, At, Goto, github, hist, Persist, Rewrite,
        Dispatch, RunAt, Ended, CareInv, Alone, SyncCareful, StartCareful, RunCareful, Released, Waiting, HasReaction
<1>1. CASE PollDispatch
  BY <1>1 DEF PollDispatch
<1>2. CASE DispatchRepair
  BY <1>2 DEF DispatchRepair
<1>3. CASE NotReady
  BY <1>3 DEF NotReady
<1>4. CASE PrepareUntargeted
  BY <1>4 DEF PrepareUntargeted
<1>5. CASE PrepareTargeted
  BY <1>5 DEF PrepareTargeted
<1>6. CASE PrepareGone
  BY <1>6 DEF PrepareGone
<1>7. CASE ClearPending
  BY <1>7 DEF ClearPending
<1> QED BY <1>1, <1>2, <1>3, <1>4, <1>5, <1>6, <1>7 DEF Dispatching

LEMMA RunningCare ==
  ASSUME TypeInv, OnceInv, CareInv, Running
  PROVE  CareInv'
<1>0. /\ \A m \in Copies : HasReaction(m) /\ m.pending.thread \in Open' => Waiting(m)
      /\ stored \in Copies /\ loop.meta \in Copies
      /\ run # None => run.meta \in Copies /\ run.entry \in Copies
  BY WaitingFalls, CopiesAre DEF Next
<1> USE <1>0 DEF TypeInv, TypeOK, Loops, Runs, ActiveStates, Idle, At, Goto, github, hist, Persist, Rewrite,
        Dispatch, RunAt, Ended, CareInv, Alone, SyncCareful, StartCareful, RunCareful, Released, Waiting, HasReaction
<1>1. CASE RunFails
  BY <1>1 DEF RunFails
<1>2. CASE LoopComments
  BY <1>2 DEF LoopComments
<1>3. CASE HandleExit
  BY <1>3 DEF HandleExit
<1>4. CASE RunBegins
  BY <1>4 DEF RunBegins
<1>5. CASE RunStopsCoding
  BY <1>5 DEF RunStopsCoding
<1>6. CASE RunFindsGone
  <2>1. run # None /\ Open' = Open /\ run.at = "finalize" /\ loop' = loop /\ UNCHANGED <<board, authorized, repaired>>
    BY <1>6 DEF RunFindsGone, Open
  <2>2. run'.at = "record" /\ run'.meta = Cleared(run.meta) /\ run'.entry = run.entry
    BY <1>6 DEF RunFindsGone
  <2>3. stored' = stored \/ stored' = Cleared(run.meta)
    BY <1>6 DEF RunFindsGone
  <2>4. Cleared(run.meta).pending = None
    BY <2>1, CopiesAre, ClearedIs
  <2> QED BY <2>1, <2>2, <2>3, <2>4
<1>7. CASE RunAnswers
  <2>1. run # None /\ run.at = "finalize" /\ loop' = loop /\ UNCHANGED <<board, authorized, repaired>>
    BY <1>7 DEF RunAnswers
  <2>2. run'.at = "record" /\ run'.meta = Cleared(run.meta) /\ run'.entry = run.entry
    BY <1>7 DEF RunAnswers
  <2>3. stored' = stored \/ stored' = Cleared(run.meta)
    BY <1>7 DEF RunAnswers
  <2>4. Cleared(run.meta).pending = None
    BY <2>1, CopiesAre, ClearedIs
  <2> QED BY <2>1, <2>2, <2>3, <2>4
<1>8. CASE RunBlocked
  BY <1>8 DEF RunBlocked
<1>9. CASE RunRecords
  BY <1>9 DEF RunRecords
<1>10. CASE RunHandsOff
  BY <1>10 DEF RunHandsOff
<1> QED BY <1>1, <1>2, <1>3, <1>4, <1>5, <1>6, <1>7, <1>8, <1>9, <1>10 DEF Running

LEMMA CareKept ==
  ASSUME TypeInv, OnceInv, CareInv, [Next]_vars
  PROVE  CareInv'
<1>0. /\ \A m \in Copies : HasReaction(m) /\ m.pending.thread \in Open' => Waiting(m)
      /\ stored \in Copies /\ loop.meta \in Copies
      /\ run # None => run.meta \in Copies /\ run.entry \in Copies
  BY WaitingFalls, CopiesAre
<1>1. CASE Reviewers \/ UNCHANGED vars
  <2>0. UNCHANGED <<stored, loop, run>>
    BY <1>1 DEF Reviewers, HumanMoves, HumanPauses, ThreadOpens, HumanReplies, HumanResolves, HumanReacts,
                HumanTakesBack, vars
  <2>1. Released => Released'
    BY <1>1 DEF Reviewers, HumanMoves, HumanPauses, ThreadOpens, HumanReplies, HumanResolves, HumanReacts,
                HumanTakesBack, vars, hist, Released
  <2>2. board' \in ActiveStates => board \in ActiveStates \/ Released'
    BY <1>1 DEF Reviewers, HumanMoves, HumanPauses, ThreadOpens, HumanReplies, HumanResolves, HumanReacts,
                HumanTakesBack, vars, hist, Released, ActiveStates
  <2>3. repaired => repaired'
    BY <1>1 DEF Reviewers, HumanMoves, HumanPauses, ThreadOpens, HumanReplies, HumanResolves, HumanReacts,
                HumanTakesBack, vars, hist
  <2>4. \A m \in Copies : Waiting(m)' => Waiting(m)
    BY <1>0 DEF Waiting, HasReaction
  <2> QED BY <1>0, <2>0, <2>1, <2>2, <2>3, <2>4 DEF CareInv, Alone, SyncCareful, StartCareful, RunCareful, Waiting, HasReaction
<1>2. CASE Restart
  <2>1. /\ UNCHANGED <<board, authorized, repaired, stored>> /\ Open' = Open
        /\ loop'.at = "idle" /\ run' = None
    BY <1>2 DEF Restart, Idle, github, hist, Open
  <2>2. loop.at \in {"idle", "tracked", "persist", "start", "rollback", "checks", "prepare", "cleanup", "repair"}
    BY DEF TypeInv, TypeOK, Loops
  <2>3. board \in ActiveStates => (Waiting(stored) => Released)
    BY <2>2 DEF CareInv, Alone, SyncCareful, StartCareful, RunCareful, Released
  <2> QED BY <2>1, <2>3 DEF CareInv, Alone, SyncCareful, StartCareful, RunCareful, Released, Waiting, HasReaction
<1> QED BY <1>1, <1>2, SyncCare, DispatchingCare, RunningCare DEF Next

(* No run starts to answer an approval that was not released, by a human   *)
(* who moved the issue or by a failing check, since Colin last put the     *)
(* issue in Review: not through the copies the loop and the run hold, not  *)
(* after a restart, not through a repair that started for another reason,  *)
(* and not when the record was overwritten by an older one.                *)
THEOREM ApprovalReleasedHolds == Spec => ApprovalReleased
<1> DEFINE I == TypeInv /\ OnceInv /\ CareInv
           A == run = None /\ run' # None /\ run'.answering /\ HasReaction(run'.meta) => authorized \/ repaired
<1>1. Init => I
  <2> SUFFICES ASSUME Init
               PROVE  CareInv
    BY TypesStart, OnceStarts
  <2> QED BY DEF Init, Idle, CareInv, Alone, SyncCareful, StartCareful, RunCareful, Released, ActiveStates
<1>2. I /\ [Next]_vars => I'
  BY TypesKept, OnceKept, CareKept
<1>3. I /\ [Next]_vars => [A]_vars
  <2> SUFFICES ASSUME TypeInv, CareInv, Next, run = None, run' # None, run'.answering, HasReaction(run'.meta)
               PROVE  authorized \/ repaired
    OBVIOUS
  <2>1. PrepareUntargeted \/ PrepareTargeted \/ DispatchRepair
    <3>1. ~Restart /\ ~Reviewers /\ ~Sync
      BY DEF Restart, Reviewers, HumanMoves, HumanPauses, ThreadOpens, HumanReplies, HumanResolves, HumanReacts,
             HumanTakesBack, Sync, Track, ScanFails, Scan, PersistScan, StartWaits, StartMoves,
             StartRefused, Rollback, ChecksDone, CheckRepair
    <3>2. ~Running
      BY DEF Running, RunFails, LoopComments, HandleExit, RunBegins, RunStopsCoding, RunFindsGone,
             RunAnswers, RunBlocked, RunRecords, RunHandsOff, RunAt
    <3>3. ~PollDispatch /\ ~NotReady /\ ~PrepareGone /\ ~ClearPending
      BY DEF PollDispatch, NotReady, PrepareGone, ClearPending
    <3> QED BY <3>1, <3>2, <3>3 DEF Next, Dispatching
  <2>2. CASE PrepareUntargeted
    BY <2>2 DEF PrepareUntargeted, Dispatch, HasReaction
  <2>3. CASE PrepareTargeted
    BY <2>3 DEF PrepareTargeted, Dispatch, At, HasReaction, Waiting, CareInv, StartCareful, Released
  <2>4. CASE DispatchRepair
    BY <2>4 DEF DispatchRepair, Dispatch
  <2> QED BY <2>1, <2>2, <2>3, <2>4
<1> HIDE DEF I
<1>4. Spec => [][A]_vars
  <2> HIDE DEF A
  <2> QED BY <1>1, <1>2, <1>3, PTL DEF Spec
<1> QED BY <1>4 DEF ApprovalReleased, StartsApproved

=============================================================================
