-------------------------- MODULE SpanJudgeProofs --------------------------
(* Proofs about SpanJudge for every value of its constants.                *)
EXTENDS SpanJudge, TLAPS, FiniteSetTheorems

TaskStates == {"idle", "asking", "storing", "stored"}

(* The constants as the arithmetic below needs them.                       *)
LEMMA ConstantTypes ==
    /\ MaxTTL \in Nat
    /\ \A v \in Verdicts : TTL[v] \in 1..MaxTTL
    /\ NoEntry \in Entries
    /\ Expired \in Entries
    /\ \A v \in Verdicts : [verdict |-> v, left |-> TTL[v]] \in Entries
    /\ {QueueCap, QueueTTL, RetryAfter, PauseAfter, PauseFailures, OverlayCap, Cap} \subseteq Nat \ {0}
    /\ WaitBudget \in Nat
<1>1. TTL["pass"] \in Nat \ {0} /\ TTL["redact"] \in Nat \ {0}
  BY JudgeConstants DEF Verdicts
<1>2. MaxTTL \in Nat /\ \A v \in Verdicts : TTL[v] \in 1..MaxTTL
  BY <1>1 DEF MaxTTL, Verdicts
<1>3. \A v \in Verdicts : [verdict |-> v, left |-> TTL[v]] \in Entries
  BY <1>2 DEF Entries
<1> QED
  BY <1>2, <1>3, JudgeConstants DEF Entries

(* Dispatch moves a prefix of the queue into new tasks: what is left and   *)
(* what runs come from the queue and the tasks it was given.               *)
LEMMA DispatchEffect ==
    ASSUME NEW q \in Seq(Candidates), NEW t \in [Digests -> TaskStates],
           NEW o, NEW p, Dispatch(q, t, o, p)
    PROVE  /\ queue' \in Seq(Candidates)
           /\ task' \in [Digests -> TaskStates]
           /\ Len(queue') <= Len(q)
           /\ Elems(queue') \subseteq Elems(q)
           /\ Busy(t) \subseteq Busy(task')
           /\ Busy(task') \subseteq Busy(t) \cup Elems(q)
           /\ \A d \in Digests : d \in Busy(task') \ Busy(t) => p = 0 /\ ~Fresh(o, d)
           /\ \A d \in Digests : task'[d] = t[d] \/ task'[d] = "asking"
<1>1. PICK k \in 0..Len(q) :
        /\ Takes(q, Busy(t), o, p, k)
        /\ queue' = SubSeq(q, k + 1, Len(q))
        /\ task' = [d \in Digests |-> IF d \in Started(q, o, k) THEN "asking" ELSE t[d]]
  BY DEF Dispatch
<1>2. /\ queue' \in Seq(Candidates)
      /\ Len(queue') = Len(q) - k
      /\ \A i \in 1..Len(queue') : queue'[i] = q[i + k] /\ i + k \in 1..Len(q)
  BY <1>1
<1>3. Elems(queue') \subseteq Elems(q)
  <2>1. DOMAIN queue' = 1..Len(queue') /\ DOMAIN q = 1..Len(q)
    BY <1>2
  <2> QED
    BY <1>2, <2>1 DEF Elems
<1>4. Started(q, o, k) \subseteq Elems(q) /\ \A d \in Started(q, o, k) : ~Fresh(o, d)
  BY DEF Started, Elems
<1>5. task' \in [Digests -> TaskStates]
  BY <1>1 DEF TaskStates
<1>6. Busy(task') = Busy(t) \cup (Started(q, o, k) \cap Digests)
  BY <1>1 DEF Busy
<1>7. ASSUME NEW d \in Busy(task') \ Busy(t) PROVE p = 0 /\ ~Fresh(o, d)
  <2>1. d \in Started(q, o, k)
    BY <1>6, <1>7
  <2>2. k # 0
    BY <2>1 DEF Started
  <2>3. 0 \in 0..(k - 1)
    BY <2>2, <1>1
  <2> QED
    BY <2>1, <2>3, <1>1, <1>4 DEF Takes
<1> QED
  BY <1>1, <1>2, <1>3, <1>4, <1>5, <1>6, <1>7

(* What schedule starts leaves the queue.                                  *)
LEMMA DispatchExclusive ==
    ASSUME NEW q \in Seq(Candidates), NEW t \in [Digests -> TaskStates],
           NEW o, NEW p, Dispatch(q, t, o, p),
           NoRepeats(q), Elems(q) \cap Busy(t) = {}
    PROVE  NoRepeats(queue') /\ Elems(queue') \cap Busy(task') = {}
<1>1. PICK k \in 0..Len(q) :
        /\ queue' = SubSeq(q, k + 1, Len(q))
        /\ task' = [d \in Digests |-> IF d \in Started(q, o, k) THEN "asking" ELSE t[d]]
  BY DEF Dispatch
<1>2. /\ DOMAIN queue' = 1..(Len(q) - k) /\ DOMAIN q = 1..Len(q)
      /\ \A i \in DOMAIN queue' : queue'[i] = q[i + k] /\ i + k \in k + 1..Len(q)
  BY <1>1
<1>3. NoRepeats(queue')
  BY <1>2 DEF NoRepeats
<1>4. Busy(task') \subseteq Busy(t) \cup Started(q, o, k)
  BY <1>1 DEF Busy
<1>5. Elems(queue') \subseteq Elems(q)
  BY <1>2 DEF Elems
<1>6. ASSUME NEW d \in Elems(queue'), d \in Started(q, o, k) PROVE FALSE
  <2>1. PICK i \in DOMAIN queue' : d = queue'[i].digest
    BY <1>6 DEF Elems
  <2>2. PICK j \in 1..k : d = q[j].digest
    BY <1>6 DEF Started
  <2>3. queue'[i] = q[i + k] /\ i + k \in k + 1..Len(q)
    BY <1>2, <2>1
  <2>4. j \in DOMAIN q /\ i + k \in DOMAIN q /\ j # i + k
    BY <1>2, <2>2, <2>3
  <2>5. q[j].digest = q[i + k].digest
    BY <2>1, <2>2, <2>3
  <2> QED
    BY <2>4, <2>5 DEF NoRepeats
<1> QED
  BY <1>3, <1>4, <1>5, <1>6

(* The loop of schedule stops at the cap: it adds one task at a time, each *)
(* with a slot left.                                                       *)
LEMMA DispatchBound ==
    ASSUME NEW q \in Seq(Candidates), NEW t \in [Digests -> TaskStates],
           NEW o, NEW p, Dispatch(q, t, o, p), Cardinality(Busy(t)) <= Cap
    PROVE  Cardinality(Busy(task')) <= Cap
<1>1. PICK k \in 0..Len(q) :
        /\ Takes(q, Busy(t), o, p, k)
        /\ task' = [d \in Digests |-> IF d \in Started(q, o, k) THEN "asking" ELSE t[d]]
  BY DEF Dispatch
<1>2. Busy(task') \subseteq Busy(t) \cup Started(q, o, k)
  BY <1>1 DEF Busy
<1>3. IsFiniteSet(Digests) /\ Cap \in Nat
  BY JudgeConstants
<1>4. Started(q, o, k) \subseteq Digests /\ Started(q, o, k - 1) \subseteq Digests
  <2>1. \A i \in 1..Len(q) : q[i] \in Candidates
    OBVIOUS
  <2>2. \A i \in 1..k : q[i].digest \in Digests
    BY <2>1 DEF Candidates
  <2> QED
    BY <2>2 DEF Started
<1>5. IsFiniteSet(Busy(t) \cup Started(q, o, k)) /\ IsFiniteSet(Busy(t) \cup Started(q, o, k - 1))
  BY <1>3, <1>4, FS_Subset DEF Busy
<1>6. CASE k = 0
  <2>1. Busy(task') = Busy(t)
    BY <1>1, <1>6 DEF Started, Busy
  <2> QED
    BY <2>1
<1>7. CASE k > 0
  <2> DEFINE small == Busy(t) \cup Started(q, o, k - 1)
  <2>1. Cardinality(small) < Cap
    BY <1>1, <1>7 DEF Takes
  <2>2. Started(q, o, k) \subseteq Started(q, o, k - 1) \cup {q[k].digest}
    BY <1>1, <1>7 DEF Started
  <2>3. IsFiniteSet(small \cup {q[k].digest})
        /\ Cardinality(small \cup {q[k].digest}) <= Cardinality(small) + 1
    <3>1. \/ Cardinality(small \cup {q[k].digest}) = Cardinality(small)
          \/ Cardinality(small \cup {q[k].digest}) = Cardinality(small) + 1
      BY <1>5, FS_AddElement
    <3>2. IsFiniteSet(small \cup {q[k].digest})
      BY <1>5, FS_AddElement
    <3>3. Cardinality(small) \in Nat
      BY <1>5, FS_CardinalityType
    <3> HIDE DEF small
    <3> QED
      BY <3>1, <3>2, <3>3
  <2>4. Busy(task') \subseteq small \cup {q[k].digest}
    BY <1>2, <2>2
  <2>5. Cardinality(Busy(task')) <= Cardinality(small \cup {q[k].digest})
    BY <2>3, <2>4, FS_Subset
  <2>6. Cardinality(small) \in Nat /\ Cardinality(small \cup {q[k].digest}) \in Nat
        /\ Cardinality(Busy(task')) \in Nat
    BY <1>5, <2>3, <2>4, FS_CardinalityType, FS_Subset
  <2> QED
    BY <2>1, <2>3, <2>5, <2>6, <1>3
<1> QED
  BY <1>1, <1>6, <1>7

(* What _prune leaves of the queue.                                        *)
LEMMA PrunedEffect ==
    ASSUME queue \in Seq(Candidates), NEW n \in 0..Len(queue)
    PROVE  /\ Pruned(n) \in Seq(Candidates)
           /\ Len(Pruned(n)) <= Len(queue)
           /\ Elems(Pruned(n)) \subseteq Elems(queue)
           /\ NoRepeats(queue) => NoRepeats(Pruned(n))
<1>1. /\ Pruned(n) \in Seq(Candidates)
      /\ Len(Pruned(n)) = Len(queue) - n
      /\ DOMAIN Pruned(n) = 1..(Len(queue) - n) /\ DOMAIN queue = 1..Len(queue)
      /\ \A i \in DOMAIN Pruned(n) : Pruned(n)[i] = queue[i + n] /\ i + n \in DOMAIN queue
  BY DEF Pruned
<1>2. Elems(Pruned(n)) \subseteq Elems(queue)
  BY <1>1 DEF Elems
<1>3. NoRepeats(queue) => NoRepeats(Pruned(n))
  <2> SUFFICES ASSUME NoRepeats(queue), NEW i \in DOMAIN Pruned(n), NEW j \in DOMAIN Pruned(n),
                      Pruned(n)[i].digest = Pruned(n)[j].digest
               PROVE  i = j
    BY DEF NoRepeats
  <2>1. i + n = j + n
    BY <1>1 DEF NoRepeats
  <2> QED
    BY <2>1, <1>1
<1> QED
  BY <1>1, <1>2, <1>3

(* Joined appends at most QueueCap - Len(live) spans of A, none twice.     *)
LEMMA JoinedEffect ==
    ASSUME NEW live \in Seq(Candidates), NoRepeats(live), Len(live) <= QueueCap,
           NEW A \in SUBSET Digests, A \cap Elems(live) = {},
           NEW order \in Orderings(A)
    PROVE  /\ Joined(live, order) \in Seq(Candidates)
           /\ Len(Joined(live, order)) <= QueueCap
           /\ Elems(Joined(live, order)) \subseteq Elems(live) \cup A
           /\ NoRepeats(Joined(live, order))
<1>1. /\ order \in [1..Cardinality(A) -> A]
      /\ \A i, j \in DOMAIN order : order[i] = order[j] => i = j
  BY DEF Orderings
<1>2. IsFiniteSet(A) /\ Cardinality(A) \in Nat /\ QueueCap \in Nat /\ QueueTTL \in Nat
  BY FS_Subset, FS_CardinalityType, JudgeConstants
<1>3. order \in Seq(A) /\ Len(order) = Cardinality(A) /\ DOMAIN order = 1..Len(order)
  BY <1>1, <1>2
<1> DEFINE room == IF Len(live) < QueueCap THEN QueueCap - Len(live) ELSE 0
<1> DEFINE n == IF Len(order) < room THEN Len(order) ELSE room
<1> DEFINE tail == [i \in 1..n |-> [digest |-> order[i], life |-> QueueTTL]]
<1> DEFINE q == live \o tail
<1>4. n \in Nat /\ n <= Len(order) /\ Len(live) + n <= QueueCap
  BY <1>2, <1>3
<1>5. \A i \in 1..n : order[i] \in A
  BY <1>1, <1>3, <1>4
<1>6. tail \in Seq(Candidates) /\ Len(tail) = n
  BY <1>2, <1>4, <1>5 DEF Candidates
<1> HIDE DEF n, room
<1>7. /\ q \in Seq(Candidates)
      /\ Len(q) = Len(live) + n
      /\ DOMAIN q = 1..(Len(live) + n)
      /\ \A i \in DOMAIN q : \/ i \in DOMAIN live /\ q[i] = live[i]
                             \/ i - Len(live) \in 1..n /\ q[i] = tail[i - Len(live)]
  BY <1>4, <1>6
<1>12. \A m \in 1..n : tail[m].digest = order[m]
  OBVIOUS
<1> HIDE DEF tail, q
<1>8. \A i \in DOMAIN q : \/ i \in DOMAIN live /\ q[i] = live[i]
                          \/ i - Len(live) \in 1..n /\ q[i].digest = order[i - Len(live)]
  BY <1>7, <1>12
<1>9. Elems(q) \subseteq Elems(live) \cup A
  BY <1>5, <1>8 DEF Elems
<1>10. NoRepeats(q)
  <2> SUFFICES ASSUME NEW i \in DOMAIN q, NEW j \in DOMAIN q, q[i].digest = q[j].digest
               PROVE  i = j
    BY DEF NoRepeats
  <2>1. CASE i \in DOMAIN live /\ q[i] = live[i] /\ j \in DOMAIN live /\ q[j] = live[j]
    BY <2>1 DEF NoRepeats
  <2>2. CASE /\ i - Len(live) \in 1..n /\ q[i].digest = order[i - Len(live)]
             /\ j - Len(live) \in 1..n /\ q[j].digest = order[j - Len(live)]
    <3>1. i - Len(live) \in DOMAIN order /\ j - Len(live) \in DOMAIN order
      BY <2>2, <1>3, <1>4
    <3>2. i - Len(live) = j - Len(live)
      BY <3>1, <2>2, <1>1
    <3> QED
      BY <3>2, <1>4, <1>7
  <2>3. ASSUME NEW a \in DOMAIN q, NEW b \in DOMAIN q, q[a].digest = q[b].digest,
               a \in DOMAIN live, q[a] = live[a],
               b - Len(live) \in 1..n, q[b].digest = order[b - Len(live)]
        PROVE  FALSE
    <3>1. q[a].digest \in Elems(live)
      BY <2>3 DEF Elems
    <3>2. q[b].digest \in A
      BY <2>3, <1>5
    <3> QED
      BY <3>1, <3>2, <2>3
  <2> QED
    BY <1>8, <2>1, <2>2, <2>3
<1>11. q = Joined(live, order)
  BY DEF q, tail, n, room, Joined
<1> QED
  BY <1>4, <1>7, <1>9, <1>10, <1>11

(* Lemmas on the helpers that the type invariant needs.                    *)
LEMMA EvictType ==
    ASSUME NEW x \in [Digests -> Entries], NEW keep, NEW o \in Evict(x, keep)
    PROVE  /\ o \in [Digests -> Entries]
           /\ \A d \in Digests : o[d] = x[d] \/ o[d] = NoEntry
BY ConstantTypes DEF Evict

(* What time does to entries.                                              *)
LEMMA AgedType ==
    ASSUME NEW x \in [Digests -> Entries]
    PROVE  /\ Aged(x) \in [Digests -> Entries]
           /\ Valid(Aged(x)) \in [Digests -> Entries]
           /\ \A d \in Digests : Fresh(Aged(x), d) => Fresh(x, d) /\ Aged(x)[d].verdict = x[d].verdict
<1>1. ASSUME NEW e \in Entries
      PROVE  Older(e) \in Entries /\ (Older(e).left > 0 => e.left > 0 /\ Older(e).verdict = e.verdict)
  <2>1. CASE e.left > 1
    BY <2>1, ConstantTypes DEF Older, Entries, Less1, NoEntry, Expired
  <2>2. CASE ~(e.left > 1)
    BY <2>2, ConstantTypes DEF Older, NoEntry, Expired
  <2> QED
    BY <2>1, <2>2
<1> QED
  BY <1>1, ConstantTypes DEF Aged, Valid, Fresh

(* What lookups do to entries.                                             *)
LEMMA LookedType ==
    ASSUME NEW x \in [Digests -> Entries], NEW S
    PROVE  /\ Looked(x, S) \in [Digests -> Entries]
           /\ \A d \in Digests : Looked(x, S)[d] = x[d] \/ ~Fresh(Looked(x, S), d)
BY ConstantTypes DEF Looked, Fresh, NoEntry

(* What is left of a period stays within it.                               *)
LEMMA Less1Type == \A k \in Nat : \A n \in 0..k : Less1(n) \in 0..k
BY DEF Less1

(* A fresh entry has a verdict.                                            *)
LEMMA FreshVerdict ==
    ASSUME NEW x \in [Digests -> Entries], NEW d \in Digests, Fresh(x, d)
    PROVE  x[d].verdict \in Verdicts
BY DEF Fresh, Entries, NoEntry, Expired

(* A backoff that starts may end one other, and no more.                   *)
LEMMA BackedOffType ==
    ASSUME backoff \in [Digests -> 0..RetryAfter], NEW d \in Digests, NEW b \in BackedOff(d)
    PROVE  /\ b \in [Digests -> 0..RetryAfter]
           /\ \A e \in Digests \ {d} : b[e] = backoff[e] \/ b[e] = 0
BY ConstantTypes DEF BackedOff
-----------------------------------------------------------------------------
(* What collect leaves behind, before schedule runs.                       *)
LEMMA CollectEffect ==
    ASSUME TypeOK, QueueInv, NEW n \in 0..Len(queue), NEW S \in SUBSET Digests,
           NEW order \in Orderings(Admissible(S, Pruned(n)))
    PROVE  /\ Joined(Pruned(n), order) \in Seq(Candidates)
           /\ Len(Joined(Pruned(n), order)) <= QueueCap
           /\ NoRepeats(Joined(Pruned(n), order))
           /\ Elems(Joined(Pruned(n), order)) \cap inflight = {}
           /\ \A d \in Elems(Joined(Pruned(n), order)) : backoff[d] = 0
<1> DEFINE A == Admissible(S, Pruned(n))
<1>1. /\ Pruned(n) \in Seq(Candidates)
      /\ Len(Pruned(n)) <= Len(queue)
      /\ Elems(Pruned(n)) \subseteq Elems(queue)
      /\ NoRepeats(Pruned(n))
  BY PrunedEffect DEF TypeOK, QueueInv, OneJudgePerSpan
<1>2. /\ A \in SUBSET Digests /\ A \cap Elems(Pruned(n)) = {} /\ A \cap inflight = {}
      /\ \A d \in A : backoff[d] = 0
  BY DEF Admissible
<1>3. Len(Pruned(n)) <= QueueCap
  BY <1>1, ConstantTypes DEF QueueInv, TypeOK
<1> HIDE DEF A
<1>4. /\ Joined(Pruned(n), order) \in Seq(Candidates)
      /\ Len(Joined(Pruned(n), order)) <= QueueCap
      /\ Elems(Joined(Pruned(n), order)) \subseteq Elems(Pruned(n)) \cup A
      /\ NoRepeats(Joined(Pruned(n), order))
  BY <1>1, <1>2, <1>3, JoinedEffect DEF A
<1>5. Elems(queue) \cap inflight = {} /\ \A d \in Elems(queue) : backoff[d] = 0
  BY DEF QueueInv, OneJudgePerSpan
<1> QED
  BY <1>1, <1>2, <1>4, <1>5

(* schedule keeps the queue invariant, from a queue and tasks that have it. *)
LEMMA DispatchKeeps ==
    ASSUME NEW q \in Seq(Candidates), NEW t \in [Digests -> TaskStates], NEW o, NEW p,
           NoRepeats(q), Len(q) <= QueueCap, Elems(q) \cap Busy(t) = {},
           Cardinality(Busy(t)) <= Cap, Dispatch(q, t, o, p)
    PROVE  /\ queue' \in Seq(Candidates) /\ task' \in [Digests -> TaskStates]
           /\ OneJudgePerSpan'
           /\ Len(queue') <= QueueCap
           /\ Cardinality(inflight') <= Cap
           /\ Elems(queue') \subseteq Elems(q)
<1>1. /\ queue' \in Seq(Candidates) /\ task' \in [Digests -> TaskStates]
      /\ Len(queue') <= Len(q) /\ Elems(queue') \subseteq Elems(q)
  BY DispatchEffect
<1>2. NoRepeats(queue') /\ Elems(queue') \cap Busy(task') = {}
  BY DispatchExclusive
<1>3. Cardinality(Busy(task')) <= Cap
  BY DispatchBound
<1> QED
  BY <1>1, <1>2, <1>3, ConstantTypes DEF OneJudgePerSpan, inflight

(* A task that ends keeps the queue invariant.                             *)
LEMMA FinishKeeps ==
    ASSUME TypeOK, QueueInv, NEW d \in Digests, NEW o, NEW p, Finish(d, o, p)
    PROVE  /\ queue' \in Seq(Candidates) /\ task' \in [Digests -> TaskStates]
           /\ OneJudgePerSpan'
           /\ Len(queue') <= QueueCap
           /\ Cardinality(inflight') <= Cap
           /\ Elems(queue') \subseteq Elems(queue)
<1> DEFINE t == [task EXCEPT ![d] = "idle"]
<1>1. PICK n \in 0..Len(queue) : Dispatch(Pruned(n), t, o, p)
  BY DEF Finish, Schedule
<1>2. t \in [Digests -> TaskStates] /\ Busy(t) \subseteq inflight
  BY DEF TypeOK, TaskStates, Busy, inflight
<1>3. Cardinality(Busy(t)) <= Cap
  <2>1. IsFiniteSet(inflight)
    BY JudgeConstants, FS_Subset DEF inflight, Busy
  <2>2. /\ Cardinality(Busy(t)) <= Cardinality(inflight)
        /\ Cardinality(Busy(t)) \in Nat /\ Cardinality(inflight) \in Nat
    BY <2>1, <1>2, FS_Subset, FS_CardinalityType
  <2> QED
    BY <2>2, ConstantTypes DEF QueueInv
<1>4. /\ Pruned(n) \in Seq(Candidates) /\ NoRepeats(Pruned(n))
      /\ Len(Pruned(n)) <= Len(queue) /\ Elems(Pruned(n)) \subseteq Elems(queue)
  <2>1. queue \in Seq(Candidates) /\ NoRepeats(queue)
    BY DEF TypeOK, QueueInv, OneJudgePerSpan
  <2> QED
    BY <2>1, PrunedEffect
<1> HIDE DEF t
<1>5. Elems(Pruned(n)) \cap Busy(t) = {}
  BY <1>2, <1>4 DEF QueueInv, OneJudgePerSpan
<1>6. Len(Pruned(n)) <= QueueCap
  <2>1. Len(queue) <= QueueCap /\ Len(queue) \in Nat /\ Len(Pruned(n)) \in Nat /\ QueueCap \in Nat
    BY <1>4, ConstantTypes DEF QueueInv, TypeOK
  <2> QED
    BY <1>4, <2>1
<1> QED
  BY <1>1, <1>2, <1>3, <1>4, <1>5, <1>6, DispatchKeeps
-----------------------------------------------------------------------------
(* The invariants hold initially.                                          *)
LEMMA InitInvariants == Init => TypeOK /\ QueueInv /\ PassInv
<1> SUFFICES ASSUME Init PROVE TypeOK /\ QueueInv /\ PassInv
  OBVIOUS
<1>1. TypeOK
  BY ConstantTypes DEF Init, TypeOK
<1>2. Busy(task) = {} /\ Elems(queue) = {} /\ DOMAIN queue = {} /\ Len(queue) = 0
  BY DEF Init, Busy, Elems
<1>3. QueueInv
  BY <1>2, FS_EmptySet, ConstantTypes DEF QueueInv, OneJudgePerSpan, NoRepeats, inflight
<1>4. PassInv
  BY DEF Init, PassInv, FailedWriteGrantsNoPass, NoEntry, Fresh
<1> QED
  BY <1>1, <1>3, <1>4

(* The two ways out of _await_judge's synchronous part.                    *)
LEMMA SnapshotType ==
    ASSUME TypeOK, NEW r \in Requests, NEW o \in [Digests -> Entries], Snapshot(r, o)
    PROVE  /\ overlay' \in [Digests -> Entries]
           /\ pc' \in [Requests -> {"idle", "loading", "waiting", "deciding"}]
           /\ pending' \in [Requests -> SUBSET Digests]
           /\ budget' \in [Requests -> 0..WaitBudget]
           /\ woken' \subseteq Requests
           /\ decision' \in [Requests -> [Digests -> Verdicts \cup {"none"}]]
<1>1. overlay' \in [Digests -> Entries]
  BY LookedType DEF Snapshot
<1>2. pc' \in [Requests -> {"idle", "loading", "waiting", "deciding"}]
  BY DEF Snapshot, TypeOK
<1>3. pending' \in [Requests -> SUBSET Digests] /\ woken' \subseteq Requests
  BY DEF Snapshot, TypeOK
<1>4. budget' \in [Requests -> 0..WaitBudget]
  BY ConstantTypes DEF Snapshot, TypeOK
<1>5. [d \in Digests |-> IF d \in want[r] /\ Fresh(o, d) THEN o[d].verdict ELSE "none"]
        \in [Digests -> Verdicts \cup {"none"}]
  BY FreshVerdict
<1>6. decision' \in [Requests -> [Digests -> Verdicts \cup {"none"}]]
  BY <1>5 DEF Snapshot, TypeOK
<1> QED
  BY <1>1, <1>2, <1>3, <1>4, <1>6

(* A wait that starts keeps the types of what it changes.                  *)
LEMMA WaitType ==
    ASSUME TypeOK, NEW r \in Requests, NEW o \in [Digests -> Entries],
           NEW S \in SUBSET Digests, NEW b \in 1..WaitBudget, Wait(r, o, S, b)
    PROVE  /\ overlay' \in [Digests -> Entries]
           /\ pc' \in [Requests -> {"idle", "loading", "waiting", "deciding"}]
           /\ pending' \in [Requests -> SUBSET Digests]
           /\ budget' \in [Requests -> 0..WaitBudget]
           /\ woken' \subseteq Requests
           /\ decision' \in [Requests -> [Digests -> Verdicts \cup {"none"}]]
<1>1. overlay' \in [Digests -> Entries]
  BY LookedType DEF Wait
<1>2. pc' \in [Requests -> {"idle", "loading", "waiting", "deciding"}]
  BY DEF Wait, TypeOK
<1>3. pending' \in [Requests -> SUBSET Digests]
  BY DEF Wait, TypeOK
<1>4. budget' \in [Requests -> 0..WaitBudget]
  BY ConstantTypes DEF Wait, TypeOK
<1> QED
  BY <1>1, <1>2, <1>3, <1>4 DEF Wait, TypeOK

(* Each step keeps the types and the queue invariant: one step of the      *)
(* proof per action.                                                       *)
LEMMA QueueStep ==
    ASSUME TypeOK, QueueInv, [Next]_vars
    PROVE  TypeOK' /\ QueueInv'
<1> USE DEF TaskStates
<1>1. ASSUME NEW r \in Requests, NEW S \in Inputs, Begin(r, S)
      PROVE  TypeOK' /\ QueueInv'
  <2>1. S \in SUBSET Digests
    BY JudgeConstants
  <2>2. TypeOK'
    BY <1>1, <2>1, ConstantTypes DEF TypeOK, Begin, judgeVars, cacheVars
  <2>3. QueueInv'
    BY <1>1 DEF QueueInv, OneJudgePerSpan, inflight, Begin, judgeVars
  <2> QED
    BY <2>2, <2>3
<1>2. ASSUME NEW r \in Requests, AwaitJudge(r)
      PROVE  TypeOK' /\ QueueInv'
  <2> DEFINE loaded == [d \in Digests |-> IF fetched[r][d] # NoEntry THEN fetched[r][d]
                                                                       ELSE overlay[d]]
  <2>1. loaded \in [Digests -> Entries]
    BY DEF TypeOK
  <2> HIDE DEF loaded
  <2>0. PICK o \in Evict(loaded, {}), n \in 0..Len(queue) :
          LET undecided == {d \in want[r] : ~Fresh(o, d)} IN
          \E order \in Orderings(Admissible(undecided, Pruned(n))) :
            LET q == Joined(Pruned(n), order)
            IN  Settle(r, o, q, undecided \cap (inflight \cup Elems(q)))
    BY <1>2 DEF AwaitJudge, loaded
  <2> DEFINE undecided == {d \in want[r] : ~Fresh(o, d)}
  <2>2. PICK order \in Orderings(Admissible(undecided, Pruned(n))) :
          LET q == Joined(Pruned(n), order)
          IN  Settle(r, o, q, undecided \cap (inflight \cup Elems(q)))
    BY <2>0
  <2> DEFINE q == Joined(Pruned(n), order)
  <2> DEFINE collected == undecided \cap (inflight \cup Elems(q))
  <2>3. o \in [Digests -> Entries] /\ want[r] \in SUBSET Digests /\ undecided \in SUBSET Digests
    BY <2>1, EvictType DEF TypeOK
  <2>4. /\ q \in Seq(Candidates) /\ Len(q) <= QueueCap /\ NoRepeats(q)
        /\ Elems(q) \cap inflight = {}
        /\ \A d \in Elems(q) : backoff[d] = 0
    BY <2>3, CollectEffect
  <2>5. \/ queue' = q /\ task' = task
        \/ Dispatch(q, task, o, pause)
    BY <2>2 DEF Settle
  <2>6. Snapshot(r, o) \/ \E b \in 1..WaitBudget : Wait(r, o, collected, b)
    BY <2>2 DEF Settle
  <2>7. task \in [Digests -> TaskStates] /\ Cardinality(Busy(task)) <= Cap /\ inflight = Busy(task)
    BY DEF TypeOK, QueueInv, inflight
  <2>8. collected \in SUBSET Digests
    BY <2>3
  <2> HIDE DEF q, undecided, collected
  <2>9. /\ queue' \in Seq(Candidates) /\ task' \in [Digests -> TaskStates]
        /\ OneJudgePerSpan' /\ Len(queue') <= QueueCap /\ Cardinality(inflight') <= Cap
        /\ Elems(queue') \subseteq Elems(q)
    <3>1. CASE queue' = q /\ task' = task
      BY <3>1, <2>4, <2>7 DEF OneJudgePerSpan, inflight
    <3>2. CASE Dispatch(q, task, o, pause)
      BY <3>2, <2>4, <2>7, DispatchKeeps
    <3> QED
      BY <2>5, <3>1, <3>2
  <2>10. QueueInv'
    BY <2>4, <2>9, <1>2 DEF QueueInv, AwaitJudge
  <2>11. /\ overlay' \in [Digests -> Entries]
         /\ pc' \in [Requests -> {"idle", "loading", "waiting", "deciding"}]
         /\ pending' \in [Requests -> SUBSET Digests]
         /\ budget' \in [Requests -> 0..WaitBudget]
         /\ woken' \subseteq Requests
         /\ decision' \in [Requests -> [Digests -> Verdicts \cup {"none"}]]
    <3>1. CASE Snapshot(r, o)
      BY <3>1, <2>3, SnapshotType
    <3>2. ASSUME NEW b \in 1..WaitBudget, Wait(r, o, collected, b)
          PROVE  /\ overlay' \in [Digests -> Entries]
                 /\ pc' \in [Requests -> {"idle", "loading", "waiting", "deciding"}]
                 /\ pending' \in [Requests -> SUBSET Digests]
                 /\ budget' \in [Requests -> 0..WaitBudget]
                 /\ woken' \subseteq Requests
                 /\ decision' \in [Requests -> [Digests -> Verdicts \cup {"none"}]]
      BY <3>2, <2>3, <2>8, WaitType
    <3> QED
      BY <2>6, <3>1, <3>2
  <2>12. TypeOK'
    BY <1>2, <2>9, <2>11, ConstantTypes DEF TypeOK, AwaitJudge
  <2> QED
    BY <2>10, <2>12
<1>3. ASSUME NEW r \in Requests, WaitAgain(r)
      PROVE  TypeOK' /\ QueueInv'
  BY <1>3 DEF TypeOK, QueueInv, OneJudgePerSpan, inflight, WaitAgain, judgeVars, cacheVars
<1>4. ASSUME NEW r \in Requests, Resume(r)
      PROVE  TypeOK' /\ QueueInv'
  <2>1. overlay \in [Digests -> Entries] /\ Snapshot(r, overlay)
    BY <1>4 DEF TypeOK, Resume
  <2>2. TypeOK'
    BY <1>4, <2>1, SnapshotType DEF TypeOK, Resume, judgeVars
  <2>3. QueueInv'
    BY <1>4 DEF QueueInv, OneJudgePerSpan, inflight, Resume, judgeVars
  <2> QED
    BY <2>2, <2>3
<1>5. ASSUME NEW r \in Requests, Process(r)
      PROVE  TypeOK' /\ QueueInv'
  <2> DEFINE undecided == {d \in want[r] : decision[r][d] = "none"}
  <2>1. PICK n \in 0..Len(queue) :
          \E order \in Orderings(Admissible(undecided, Pruned(n))) :
             Dispatch(Joined(Pruned(n), order), task, overlay, pause)
    BY <1>5 DEF Process
  <2>2. PICK order \in Orderings(Admissible(undecided, Pruned(n))) :
             Dispatch(Joined(Pruned(n), order), task, overlay, pause)
    BY <2>1
  <2> DEFINE q == Joined(Pruned(n), order)
  <2>3. undecided \in SUBSET Digests
    BY DEF TypeOK
  <2>4. /\ q \in Seq(Candidates) /\ Len(q) <= QueueCap /\ NoRepeats(q)
        /\ Elems(q) \cap inflight = {}
        /\ \A d \in Elems(q) : backoff[d] = 0
    BY <2>3, CollectEffect
  <2>5. task \in [Digests -> TaskStates] /\ Cardinality(Busy(task)) <= Cap /\ inflight = Busy(task)
    BY DEF TypeOK, QueueInv, inflight
  <2>6. Dispatch(q, task, overlay, pause)
    BY <2>2
  <2> HIDE DEF q, undecided
  <2>7. /\ queue' \in Seq(Candidates) /\ task' \in [Digests -> TaskStates]
        /\ OneJudgePerSpan' /\ Len(queue') <= QueueCap /\ Cardinality(inflight') <= Cap
        /\ Elems(queue') \subseteq Elems(q)
    BY <2>4, <2>5, <2>6, DispatchKeeps
  <2>8. TypeOK'
    BY <1>5, <2>7 DEF TypeOK, Process, cacheVars
  <2>9. QueueInv'
    BY <1>5, <2>4, <2>7 DEF QueueInv, Process
  <2> QED
    BY <2>8, <2>9
<1>6. ASSUME NEW r \in Requests, Cancel(r)
      PROVE  TypeOK' /\ QueueInv'
  <2>1. TypeOK'
    BY <1>6, ConstantTypes DEF TypeOK, Cancel, judgeVars, cacheVars
  <2>2. QueueInv'
    BY <1>6 DEF QueueInv, OneJudgePerSpan, inflight, Cancel, judgeVars
  <2> QED
    BY <2>1, <2>2
<1>7. ASSUME NEW d \in Digests, NEW v \in Verdicts, Answer(d, v)
      PROVE  TypeOK' /\ QueueInv'
  <2>1. TypeOK'
    BY <1>7, ConstantTypes DEF TypeOK, Answer, cacheVars, requestVars
  <2>2. inflight' = inflight
    BY <1>7 DEF TypeOK, Answer, inflight, Busy
  <2>3. QueueInv'
    BY <1>7, <2>2 DEF QueueInv, OneJudgePerSpan, Answer
  <2> QED
    BY <2>1, <2>3
<1>8. ASSUME NEW d \in Digests, WriteVerdict(d)
      PROVE  TypeOK' /\ QueueInv'
  <2>1. store' \in [Digests -> Entries]
    <3>1. ASSUME Fresh(answer, d), NEW n \in Lives(answer[d])
          PROVE  [answer[d] EXCEPT !.left = n] \in Entries
      <4>1. answer[d] \in [verdict : Verdicts, left : 1..MaxTTL]
        BY <3>1 DEF TypeOK, Fresh, Entries, NoEntry, Expired
      <4>2. TTL[answer[d].verdict] \in 1..MaxTTL
        BY <4>1, ConstantTypes
      <4>3. n \in 1..MaxTTL /\ n <= TTL[answer[d].verdict]
        BY <3>1, <4>1, <4>2, ConstantTypes DEF Lives
      <4> QED
        BY <4>1, <4>3 DEF Entries
    <3> QED
      BY <1>8, <3>1 DEF TypeOK, WriteVerdict
  <2>2. TypeOK'
    BY <1>8, <2>1 DEF TypeOK, WriteVerdict, requestVars
  <2>3. inflight' = inflight
    BY <1>8 DEF TypeOK, WriteVerdict, inflight, Busy
  <2>4. QueueInv'
    BY <1>8, <2>3 DEF QueueInv, OneJudgePerSpan, WriteVerdict
  <2> QED
    BY <2>2, <2>4
<1>9. ASSUME NEW d \in Digests, Record(d)
      PROVE  TypeOK' /\ QueueInv'
  <2>1. PICK o \in Evict([overlay EXCEPT ![d] = answer[d]], {d}) :
           overlay' = o /\ Finish(d, o, pause)
    BY <1>9 DEF Record
  <2>2. o \in [Digests -> Entries]
    BY EvictType DEF TypeOK
  <2>3. /\ queue' \in Seq(Candidates) /\ task' \in [Digests -> TaskStates]
        /\ OneJudgePerSpan' /\ Len(queue') <= QueueCap /\ Cardinality(inflight') <= Cap
        /\ Elems(queue') \subseteq Elems(queue)
    BY <2>1, FinishKeeps
  <2>4. answer' \in [Digests -> Entries] /\ woken' \subseteq Requests
    BY <2>1, ConstantTypes DEF Finish, TypeOK
  <2>5. backoff' \in [Digests -> 0..RetryAfter] /\ \A e \in Digests : backoff[e] = 0 => backoff'[e] = 0
    BY <1>9, ConstantTypes DEF Record, TypeOK
  <2>6. TypeOK'
    BY <1>9, <2>1, <2>2, <2>3, <2>4, <2>5, ConstantTypes DEF TypeOK, Record
  <2>7. Elems(queue) \subseteq Digests
    <3>1. \A i \in DOMAIN queue : queue[i] \in Candidates
      BY DEF TypeOK
    <3> QED
      BY <3>1 DEF Elems, Candidates
  <2>8. QueueInv'
    BY <2>3, <2>5, <2>7 DEF QueueInv
  <2> QED
    BY <2>6, <2>8
<1>10. ASSUME NEW d \in Digests, Fail(d)
       PROVE  TypeOK' /\ QueueInv'
  <2>1. Finish(d, overlay, pause') /\ backoff' \in BackedOff(d) /\ d \in inflight
    BY <1>10 DEF Fail, inflight, Busy
  <2>2. /\ queue' \in Seq(Candidates) /\ task' \in [Digests -> TaskStates]
        /\ OneJudgePerSpan' /\ Len(queue') <= QueueCap /\ Cardinality(inflight') <= Cap
        /\ Elems(queue') \subseteq Elems(queue)
    BY <2>1, FinishKeeps
  <2>3. answer' \in [Digests -> Entries] /\ woken' \subseteq Requests
    BY <2>1, ConstantTypes DEF Finish, TypeOK
  <2>4. /\ backoff' \in [Digests -> 0..RetryAfter]
        /\ \A e \in Digests \ {d} : backoff'[e] = backoff[e] \/ backoff'[e] = 0
    BY <2>1, BackedOffType DEF TypeOK
  <2>5. failures' \in 0..PauseFailures /\ pause' \in 0..PauseAfter
    BY <1>10, ConstantTypes DEF Fail, TypeOK
  <2>6. TypeOK'
    BY <1>10, <2>2, <2>3, <2>4, <2>5 DEF TypeOK, Fail, cacheVars
  <2>7. Elems(queue') \subseteq Digests \ {d}
    <3>1. \A i \in DOMAIN queue : queue[i] \in Candidates
      BY DEF TypeOK
    <3>2. Elems(queue) \subseteq Digests
      BY <3>1 DEF Elems, Candidates
    <3> QED
      BY <2>1, <2>2, <3>2 DEF QueueInv, OneJudgePerSpan
  <2>8. QueueInv'
    BY <2>2, <2>4, <2>7 DEF QueueInv
  <2> QED
    BY <2>6, <2>8
<1>11. ASSUME NEW d \in Foreign, NEW v \in Verdicts, OtherPod(d, v)
       PROVE  TypeOK' /\ QueueInv'
  <2>1. d \in Digests
    BY JudgeConstants
  <2>2. TypeOK'
    BY <1>11, <2>1, ConstantTypes DEF TypeOK, OtherPod, judgeVars, requestVars
  <2>3. QueueInv'
    BY <1>11 DEF QueueInv, OneJudgePerSpan, inflight, OtherPod, judgeVars
  <2> QED
    BY <2>2, <2>3
<1>12. CASE Restart
  <2>1. TypeOK'
    BY <1>12, ConstantTypes DEF TypeOK, Restart
  <2>2. inflight' = {} /\ Elems(queue') = {} /\ DOMAIN queue' = {} /\ Len(queue') = 0
    BY <1>12 DEF Restart, inflight, Busy, Elems
  <2>3. QueueInv'
    BY <2>2, FS_EmptySet, ConstantTypes DEF QueueInv, OneJudgePerSpan, NoRepeats
  <2> QED
    BY <2>1, <2>3
<1>13. CASE Tick
  <2>1. \A i \in DOMAIN queue : queue[i] \in Candidates
    BY DEF TypeOK
  <2>2. \A i \in DOMAIN queue :
           LET c == [queue[i] EXCEPT !.life = Less1(@)]
           IN  c \in Candidates /\ c.digest = queue[i].digest
    BY <2>1, ConstantTypes, Less1Type DEF Candidates
  <2>3. /\ queue' \in Seq(Candidates)
        /\ Len(queue') = Len(queue) /\ DOMAIN queue' = DOMAIN queue
        /\ \A i \in DOMAIN queue : queue'[i].digest = queue[i].digest
    <3>1. queue' = [i \in DOMAIN queue |-> [queue[i] EXCEPT !.life = Less1(@)]]
      BY <1>13 DEF Tick
    <3>2. Len(queue) \in Nat /\ DOMAIN queue = 1..Len(queue)
      BY DEF TypeOK
    <3> DEFINE c(i) == [queue[i] EXCEPT !.life = Less1(@)]
    <3>3. queue' = [i \in 1..Len(queue) |-> c(i)]
      BY <3>1, <3>2
    <3>4. \A i \in 1..Len(queue) : c(i) \in Candidates /\ c(i).digest = queue[i].digest
      BY <2>2, <3>2
    <3> HIDE DEF c
    <3> QED
      BY <3>2, <3>3, <3>4
  <2>4. /\ answer' \in [Digests -> Entries] /\ overlay' \in [Digests -> Entries]
        /\ store' \in [Digests -> Entries]
    BY <1>13, AgedType DEF Tick, TypeOK
  <2>5. fetched' \in [Requests -> [Digests -> Entries]]
    BY <1>13, AgedType DEF Tick, TypeOK
  <2>6. /\ backoff' \in [Digests -> 0..RetryAfter] /\ pause' \in 0..PauseAfter
        /\ budget' \in [Requests -> 0..WaitBudget]
    BY <1>13, ConstantTypes, Less1Type DEF Tick, TypeOK
  <2>7. TypeOK'
    BY <1>13, <2>3, <2>4, <2>5, <2>6 DEF TypeOK, Tick
  <2>8. Elems(queue') = Elems(queue) /\ NoRepeats(queue')
    BY <2>3 DEF Elems, NoRepeats, QueueInv, OneJudgePerSpan
  <2>9. inflight' = inflight
    BY <1>13 DEF Tick, inflight
  <2>10. Elems(queue) \subseteq Digests
    BY <2>1 DEF Elems, Candidates
  <2>11. \A d \in Elems(queue) : backoff'[d] = 0
    BY <1>13, <2>10 DEF Tick, QueueInv, Less1
  <2>12. QueueInv'
    BY <2>3, <2>8, <2>9, <2>11 DEF QueueInv, OneJudgePerSpan
  <2> QED
    BY <2>7, <2>12
<1>14. CASE UNCHANGED vars
  BY <1>14 DEF TypeOK, QueueInv, OneJudgePerSpan, inflight, vars, judgeVars, cacheVars, requestVars
<1> QED
  BY <1>1, <1>2, <1>3, <1>4, <1>5, <1>6, <1>7, <1>8, <1>9, <1>10, <1>11, <1>12, <1>13, <1>14
     DEF Next, RequestStep, JudgeStep
-----------------------------------------------------------------------------
(* The ways a "pass" can go, action by action.  A step that leaves the     *)
(* store, the answers and passWritten alone, and takes what it puts in     *)
(* memory from there, keeps PassInv.                                       *)
LEMMA SnapshotPass ==
    ASSUME TypeOK, PassInv, NEW r \in Requests, NEW o \in [Digests -> Entries],
           \A d \in Digests : Fresh(o, d) /\ o[d].verdict = "pass" => d \in passWritten,
           UNCHANGED passWritten,
           \/ Snapshot(r, o)
           \/ \E S, b : Wait(r, o, S, b)
    PROVE  FailedWriteGrantsNoPass'
<1>1. overlay' = Looked(o, want[r])
  BY DEF Snapshot, Wait
<1>2. \A d \in Digests : Fresh(overlay', d) /\ overlay'[d].verdict = "pass" => d \in passWritten
  BY <1>1, LookedType DEF Fresh
<1>3. \A q \in Requests, d \in Digests : decision'[q][d] = "pass" => d \in passWritten
  <2>1. \A q \in Requests, d \in Digests : decision[q][d] = "pass" => d \in passWritten
    BY DEF PassInv, FailedWriteGrantsNoPass
  <2>2. CASE \E S, b : Wait(r, o, S, b)
    BY <2>1, <2>2 DEF Wait
  <2>3. CASE Snapshot(r, o)
    <3>1. \A q \in Requests \ {r} : decision'[q] = decision[q]
      BY <2>3 DEF Snapshot, TypeOK
    <3>2. \A d \in Digests : decision'[r][d] = "pass" => Fresh(o, d) /\ o[d].verdict = "pass"
      BY <2>3 DEF Snapshot, TypeOK
    <3> QED
      BY <2>1, <3>1, <3>2
  <2> QED
    BY <2>2, <2>3
<1> QED
  BY <1>2, <1>3 DEF FailedWriteGrantsNoPass

(* Every step keeps each valid "pass" one that was written.                *)
LEMMA PassStep ==
    ASSUME TypeOK, PassInv, [Next]_vars
    PROVE  PassInv'
<1> DEFINE Pass(x) == \A d \in Digests : Fresh(x, d) /\ x[d].verdict = "pass" => d \in passWritten
<1> USE DEF TaskStates
<1>0. Pass(overlay) /\ Pass(store) /\ \A r \in Requests : Pass(fetched[r])
  BY DEF PassInv, FailedWriteGrantsNoPass
<1>1. ASSUME NEW r \in Requests, NEW S \in Inputs, Begin(r, S)
      PROVE  PassInv'
  <2>1. \A q \in Requests, d \in Digests : fetched'[q][d].verdict = "pass" => d \in passWritten
    BY <1>1 DEF Begin, PassInv, TypeOK, NoEntry
  <2> QED
    BY <1>1, <2>1 DEF PassInv, FailedWriteGrantsNoPass, Begin, judgeVars, cacheVars
<1>2. ASSUME NEW r \in Requests, AwaitJudge(r)
      PROVE  PassInv'
  <2> DEFINE loaded == [d \in Digests |-> IF fetched[r][d] # NoEntry THEN fetched[r][d]
                                                                       ELSE overlay[d]]
  <2>1. loaded \in [Digests -> Entries] /\ Pass(loaded)
    BY <1>0 DEF TypeOK, Fresh
  <2> HIDE DEF loaded
  <2>2. PICK o \in Evict(loaded, {}), n \in 0..Len(queue) :
          LET undecided == {d \in want[r] : ~Fresh(o, d)} IN
          \E order \in Orderings(Admissible(undecided, Pruned(n))) :
            LET q == Joined(Pruned(n), order)
            IN  Settle(r, o, q, undecided \cap (inflight \cup Elems(q)))
    BY <1>2 DEF AwaitJudge, loaded
  <2>3. o \in [Digests -> Entries] /\ \A d \in Digests : o[d] = loaded[d] \/ o[d] = NoEntry
    BY <2>1, EvictType
  <2>4. Pass(o)
    BY <2>1, <2>3 DEF Fresh, NoEntry
  <2>5. Snapshot(r, o) \/ \E S, b : Wait(r, o, S, b)
    BY <2>2 DEF Settle
  <2>6. FailedWriteGrantsNoPass'
    BY <2>3, <2>4, <2>5, <1>2, SnapshotPass DEF AwaitJudge
  <2>7. \A d \in Digests : task'[d] = task[d] \/ task'[d] = "asking"
    <3>1. CASE task' = task
      BY <3>1
    <3>2. ASSUME NEW q, Dispatch(q, task, o, pause)
          PROVE  \A d \in Digests : task'[d] = task[d] \/ task'[d] = "asking"
      BY <3>2 DEF Dispatch
    <3> QED
      BY <2>2, <3>1, <3>2 DEF Settle
  <2>8. \A q \in Requests, d \in Digests : fetched'[q][d].verdict = "pass" => d \in passWritten
    BY <1>2 DEF AwaitJudge, PassInv, TypeOK, NoEntry
  <2> QED
    BY <1>2, <2>6, <2>7, <2>8 DEF AwaitJudge, PassInv
<1>3. ASSUME NEW r \in Requests, WaitAgain(r)
      PROVE  PassInv'
  BY <1>3 DEF PassInv, FailedWriteGrantsNoPass, WaitAgain, judgeVars, cacheVars
<1>4. ASSUME NEW r \in Requests, Resume(r)
      PROVE  PassInv'
  <2>1. FailedWriteGrantsNoPass'
    BY <1>0, <1>4, SnapshotPass DEF Resume, TypeOK
  <2> QED
    BY <1>4, <2>1 DEF PassInv, Resume, judgeVars
<1>5. ASSUME NEW r \in Requests, Process(r)
      PROVE  PassInv'
  <2>1. \A d \in Digests : task'[d] = task[d] \/ task'[d] = "asking"
    BY <1>5 DEF Process, Dispatch
  <2>2. \A q \in Requests, d \in Digests : decision'[q][d] = "pass" => decision[q][d] = "pass"
    BY <1>5 DEF Process, TypeOK
  <2> QED
    BY <1>5, <2>1, <2>2 DEF PassInv, FailedWriteGrantsNoPass, Process, cacheVars
<1>6. ASSUME NEW r \in Requests, Cancel(r)
      PROVE  PassInv'
  <2>1. \A q \in Requests, d \in Digests :
           /\ decision'[q][d] = "pass" => decision[q][d] = "pass"
           /\ fetched'[q][d].verdict = "pass" => fetched[q][d].verdict = "pass"
    BY <1>6 DEF Cancel, TypeOK, NoEntry
  <2> QED
    BY <1>6, <2>1 DEF PassInv, FailedWriteGrantsNoPass, Cancel, judgeVars, cacheVars
<1>7. ASSUME NEW d \in Digests, NEW v \in Verdicts, Answer(d, v)
      PROVE  PassInv'
  <2>1. \A e \in Digests : task'[e] = "stored" => task[e] = "stored" /\ answer'[e] = answer[e]
    BY <1>7 DEF Answer, TypeOK
  <2> QED
    BY <1>7, <2>1 DEF PassInv, FailedWriteGrantsNoPass, Answer, cacheVars, requestVars, Fresh
<1>8. ASSUME NEW d \in Digests, WriteVerdict(d)
      PROVE  PassInv'
  <2>1. /\ passWritten \subseteq passWritten'
        /\ Fresh(answer, d) /\ answer[d].verdict = "pass" => d \in passWritten'
    BY <1>8 DEF WriteVerdict
  <2>2. \A e \in Digests :
            \/ store'[e] = store[e]
            \/ e = d /\ Fresh(answer, d) /\ store'[e].verdict = answer[d].verdict
    <3>1. CASE ~Fresh(answer, d)
      BY <1>8, <3>1 DEF WriteVerdict
    <3>2. CASE Fresh(answer, d)
      <4>1. PICK n : store' = [store EXCEPT ![d] = [answer[d] EXCEPT !.left = n]]
        BY <1>8, <3>2 DEF WriteVerdict
      <4>2. answer[d] \in [verdict : Verdicts, left : 1..MaxTTL]
        BY <3>2 DEF TypeOK, Fresh, Entries, NoEntry, Expired
      <4>3. [answer[d] EXCEPT !.left = n].verdict = answer[d].verdict
        BY <4>2
      <4> QED
        BY <3>2, <4>1, <4>3 DEF TypeOK
    <3> QED
      BY <3>1, <3>2
  <2>3. \A e \in Digests : task'[e] = "stored" => task[e] = "stored" \/ e = d
    BY <1>8 DEF WriteVerdict, TypeOK
  <2> QED
    BY <1>8, <2>1, <2>2, <2>3 DEF PassInv, FailedWriteGrantsNoPass, WriteVerdict, requestVars
<1>9. ASSUME NEW d \in Digests, NEW o, NEW p, Finish(d, o, p)
      PROVE  \A e \in Digests : task'[e] = "stored" => task[e] = "stored" /\ answer'[e] = answer[e]
  BY <1>9 DEF Finish, Schedule, Dispatch, TypeOK
<1>10. ASSUME NEW d \in Digests, Record(d)
       PROVE  PassInv'
  <2> DEFINE entered == [overlay EXCEPT ![d] = answer[d]]
  <2>1. entered \in [Digests -> Entries] /\ Pass(entered)
    BY <1>0, <1>10 DEF Record, TypeOK, PassInv, Fresh
  <2> HIDE DEF entered
  <2>2. PICK o \in Evict(entered, {d}) : overlay' = o /\ Finish(d, o, pause)
    BY <1>10 DEF Record, entered
  <2>3. Pass(overlay')
    BY <2>1, <2>2, EvictType DEF Fresh, NoEntry
  <2>4. \A e \in Digests : task'[e] = "stored" => task[e] = "stored" /\ answer'[e] = answer[e]
    BY <2>2, <1>9
  <2> QED
    BY <1>10, <2>3, <2>4 DEF Record, PassInv, FailedWriteGrantsNoPass, Fresh
<1>11. ASSUME NEW d \in Digests, Fail(d)
       PROVE  PassInv'
  <2>1. \A e \in Digests : task'[e] = "stored" => task[e] = "stored" /\ answer'[e] = answer[e]
    BY <1>9, <1>11 DEF Fail
  <2> QED
    BY <1>11, <2>1 DEF Fail, PassInv, FailedWriteGrantsNoPass, Fresh, cacheVars
<1>12. ASSUME NEW d \in Foreign, NEW v \in Verdicts, OtherPod(d, v)
       PROVE  PassInv'
  <2>1. \A e \in Digests : store'[e] = store[e] \/ (e = d /\ store'[e].verdict = v)
    BY <1>12 DEF OtherPod, TypeOK
  <2>2. passWritten \subseteq passWritten' /\ (v = "pass" => d \in passWritten')
    BY <1>12 DEF OtherPod
  <2> QED
    BY <1>12, <2>1, <2>2 DEF OtherPod, PassInv, FailedWriteGrantsNoPass, judgeVars, requestVars
<1>13. CASE Restart
  BY <1>13 DEF Restart, PassInv, FailedWriteGrantsNoPass, NoEntry, Fresh
<1>14. CASE Tick
  <2>1. ASSUME NEW x \in [Digests -> Entries], NEW d \in Digests
        PROVE  /\ Fresh(Aged(x), d) /\ Aged(x)[d].verdict = "pass" => Fresh(x, d) /\ x[d].verdict = "pass"
               /\ Valid(Aged(x))[d].verdict = "pass" => x[d].verdict = "pass"
               /\ Aged(x)[d].verdict = "pass" => x[d].verdict = "pass"
    BY AgedType DEF Valid, NoEntry, Aged, Older, Expired
  <2>2. /\ overlay \in [Digests -> Entries] /\ answer \in [Digests -> Entries]
        /\ store \in [Digests -> Entries] /\ \A r \in Requests : fetched[r] \in [Digests -> Entries]
    BY DEF TypeOK
  <2>3. FailedWriteGrantsNoPass'
    BY <1>14, <2>1, <2>2 DEF Tick, FailedWriteGrantsNoPass, PassInv
  <2>4. \A d \in Digests : store'[d].verdict = "pass" => d \in passWritten
    BY <1>14, <2>1, <2>2 DEF Tick, PassInv
  <2>5. \A r \in Requests, d \in Digests : fetched'[r][d].verdict = "pass" => d \in passWritten
    BY <1>14, <2>1, <2>2 DEF Tick, PassInv
  <2>6. \A d \in Digests : task'[d] = "stored" /\ Fresh(answer', d) /\ answer'[d].verdict = "pass"
                              => d \in passWritten
    BY <1>14, <2>1, <2>2 DEF Tick, PassInv
  <2> QED
    BY <1>14, <2>3, <2>4, <2>5, <2>6 DEF Tick, PassInv
<1>15. CASE UNCHANGED vars
  BY <1>15 DEF PassInv, FailedWriteGrantsNoPass, vars, judgeVars, cacheVars, requestVars
<1> QED
  BY <1>1, <1>2, <1>3, <1>4, <1>5, <1>6, <1>7, <1>8, <1>10, <1>11, <1>12, <1>13, <1>14, <1>15
     DEF Next, RequestStep, JudgeStep
-----------------------------------------------------------------------------
(* The caps of the overlay and of the backoff.                             *)
Held(b) == {d \in Digests : b[d] > 0}
CacheInv ==
    /\ Cardinality(Cached(overlay)) <= OverlayCap
    /\ Cardinality(Held(backoff)) <= OverlayCap

(* A subset has no more members.                                           *)
LEMMA SmallerSet ==
    ASSUME NEW A \in SUBSET Digests, NEW B \in SUBSET Digests, B \subseteq A, NEW k \in Nat,
           Cardinality(A) <= k
    PROVE  Cardinality(B) <= k
<1>1. IsFiniteSet(A)
  BY JudgeConstants, FS_Subset
<1>2. Cardinality(B) <= Cardinality(A) /\ Cardinality(A) \in Nat /\ Cardinality(B) \in Nat
  BY <1>1, FS_Subset, FS_CardinalityType
<1> QED
  BY <1>2

(* Eviction meets the cap of the overlay.                                  *)
LEMMA EvictBound ==
    ASSUME NEW x \in [Digests -> Entries], NEW keep, NEW o \in Evict(x, keep)
    PROVE  Cardinality(Cached(o)) <= OverlayCap
<1> DEFINE over == IF Cardinality(Cached(x)) > OverlayCap
                   THEN Cardinality(Cached(x)) - OverlayCap ELSE 0
<1>1. PICK V \in SUBSET (Cached(x) \ keep) :
         Cardinality(V) = over /\ o = [d \in Digests |-> IF d \in V THEN NoEntry ELSE x[d]]
  BY DEF Evict
<1>2. Cached(o) = Cached(x) \ V
  BY <1>1 DEF Cached, NoEntry
<1>3. IsFiniteSet(Cached(x)) /\ Cached(x) \cap V = V
  BY <1>1, JudgeConstants, FS_Subset DEF Cached
<1>4. Cardinality(Cached(x) \ V) = Cardinality(Cached(x)) - Cardinality(V)
  BY <1>3, FS_Difference
<1>5. Cardinality(Cached(x)) \in Nat /\ OverlayCap \in Nat
  BY <1>3, FS_CardinalityType, ConstantTypes
<1> QED
  BY <1>1, <1>2, <1>4, <1>5

(* A backoff that starts meets the cap.                                    *)
LEMMA BackedOffBound ==
    ASSUME TypeOK, CacheInv, NEW d \in Digests, NEW b \in BackedOff(d)
    PROVE  Cardinality(Held(b)) <= OverlayCap
<1> DEFINE c == [backoff EXCEPT ![d] = RetryAfter]
<1>1. /\ \/ Cardinality(Held(c)) <= OverlayCap /\ b = c
         \/ \E e \in Held(c) : b = [c EXCEPT ![e] = 0]
      /\ c \in [Digests -> 0..RetryAfter]
  <2>1. Cardinality(Held(c)) \in Nat /\ OverlayCap \in Nat
    BY JudgeConstants, FS_Subset, FS_CardinalityType DEF Held
  <2> QED
    BY <2>1, ConstantTypes DEF BackedOff, Held, TypeOK
<1>2. ASSUME NEW e \in Held(c), b = [c EXCEPT ![e] = 0]
      PROVE  Cardinality(Held(b)) <= OverlayCap
  <2>1. Held(b) = Held(c) \ {e}
    BY <1>1, <1>2 DEF Held
  <2>2. Held(c) \subseteq Held(backoff) \cup {d}
    BY <1>1 DEF Held, TypeOK
  <2>3. IsFiniteSet(Held(backoff)) /\ IsFiniteSet(Held(c)) /\ IsFiniteSet(Held(backoff) \cup {d})
    BY JudgeConstants, FS_Subset, FS_AddElement DEF Held
  <2>4. Cardinality(Held(backoff) \cup {d}) <= Cardinality(Held(backoff)) + 1
    <3>1. Cardinality(Held(backoff)) \in Nat
      BY <2>3, FS_CardinalityType
    <3>2. CASE d \in Held(backoff)
      BY <3>1, <3>2, <2>3, FS_AddElement
    <3>3. CASE d \notin Held(backoff)
      BY <3>1, <3>3, <2>3, FS_AddElement
    <3> QED
      BY <3>2, <3>3
  <2>5. Cardinality(Held(c)) <= Cardinality(Held(backoff) \cup {d})
    BY <2>2, <2>3, FS_Subset
  <2>6. Cardinality(Held(c) \ {e}) = Cardinality(Held(c)) - 1
    BY <1>2, <2>3, FS_RemoveElement
  <2>7. /\ Cardinality(Held(backoff)) \in Nat /\ Cardinality(Held(c)) \in Nat
        /\ Cardinality(Held(backoff) \cup {d}) \in Nat /\ OverlayCap \in Nat
    BY <2>3, FS_CardinalityType, ConstantTypes
  <2> QED
    BY <2>1, <2>4, <2>5, <2>6, <2>7 DEF CacheInv
<1> QED
  BY <1>1, <1>2

(* Every step keeps overlay and backoff within their caps.                 *)
LEMMA CacheStep ==
    ASSUME TypeOK, CacheInv, [Next]_vars
    PROVE  CacheInv'
<1> USE DEF TaskStates
<1>1. overlay \in [Digests -> Entries] /\ backoff \in [Digests -> 0..RetryAfter] /\ OverlayCap \in Nat
  BY ConstantTypes DEF TypeOK
<1>2. ASSUME NEW x \in [Digests -> Entries], NEW S, Cardinality(Cached(x)) <= OverlayCap
      PROVE  Cardinality(Cached(Looked(x, S))) <= OverlayCap
  <2>1. Cached(Looked(x, S)) \subseteq Cached(x)
    BY DEF Cached, Looked, NoEntry
  <2>2. Cached(x) \subseteq Digests
    BY DEF Cached
  <2> QED
    BY <2>1, <2>2, <1>1, <1>2, SmallerSet
<1>3. ASSUME NEW r \in Requests, AwaitJudge(r)
      PROVE  CacheInv'
  <2> DEFINE loaded == [d \in Digests |-> IF fetched[r][d] # NoEntry THEN fetched[r][d]
                                                                       ELSE overlay[d]]
  <2>1. loaded \in [Digests -> Entries]
    BY DEF TypeOK
  <2>2. PICK o \in Evict(loaded, {}) : overlay' = Looked(o, want[r])
    BY <1>3 DEF AwaitJudge, Settle, Snapshot, Wait
  <2> HIDE DEF loaded
  <2>3. Cardinality(Cached(o)) <= OverlayCap /\ o \in [Digests -> Entries]
    BY <2>1, EvictBound, EvictType
  <2> QED
    BY <1>2, <1>3, <2>2, <2>3 DEF AwaitJudge, CacheInv
<1>4. ASSUME NEW r \in Requests, Resume(r)
      PROVE  CacheInv'
  BY <1>1, <1>2, <1>4 DEF Resume, Snapshot, CacheInv, judgeVars
<1>5. ASSUME NEW d \in Digests, Record(d)
      PROVE  CacheInv'
  <2>1. [overlay EXCEPT ![d] = answer[d]] \in [Digests -> Entries]
    BY DEF TypeOK
  <2>2. Cardinality(Cached(overlay')) <= OverlayCap
    BY <1>5, <2>1, EvictBound DEF Record
  <2>3. Held(backoff') \subseteq Held(backoff)
    BY <1>1, <1>5 DEF Record, Held
  <2>4. Held(backoff) \subseteq Digests
    BY DEF Held
  <2>5. Cardinality(Held(backoff')) <= OverlayCap
    BY <1>1, <2>3, <2>4, SmallerSet DEF CacheInv
  <2> QED
    BY <2>2, <2>5 DEF CacheInv
<1>6. ASSUME NEW d \in Digests, Fail(d)
      PROVE  CacheInv'
  BY <1>6, BackedOffBound DEF Fail, CacheInv, cacheVars
<1>7. CASE Tick
  <2>1. overlay' = Aged(overlay) /\ backoff' = [d \in Digests |-> Less1(backoff[d])]
    BY <1>7 DEF Tick
  <2>2. Cached(overlay') \subseteq Cached(overlay) /\ Cached(overlay) \subseteq Digests
    <3>1. \A e \in Entries : e.verdict = "none" => e = NoEntry
      BY DEF Entries, NoEntry, Expired, Verdicts
    <3>2. Older(NoEntry) = NoEntry
      BY DEF Older, NoEntry
    <3>3. \A d \in Digests : overlay[d].verdict = "none" => overlay'[d].verdict = "none"
      BY <3>1, <3>2, <2>1, <1>1 DEF Aged, NoEntry
    <3> QED
      BY <3>3 DEF Cached
  <2>3. Held(backoff') \subseteq Held(backoff) /\ Held(backoff) \subseteq Digests
    BY <2>1, <1>1 DEF Held, Less1
  <2> QED
    BY <1>1, <2>2, <2>3, SmallerSet DEF CacheInv
<1>8. CASE Restart
  <2>1. Cached(overlay') = {} /\ Held(backoff') = {}
    BY <1>8 DEF Restart, Cached, Held, NoEntry
  <2> QED
    BY <1>1, <2>1, FS_EmptySet DEF CacheInv
<1>9. CASE UNCHANGED <<overlay, backoff>>
  BY <1>9 DEF CacheInv
<1>10. ASSUME NEW r \in Requests,
              \/ \E S \in Inputs : Begin(r, S)
              \/ WaitAgain(r)
              \/ Process(r)
              \/ Cancel(r)
       PROVE  UNCHANGED <<overlay, backoff>>
  BY <1>10 DEF Begin, WaitAgain, Process, Cancel, judgeVars, cacheVars
<1>11. ASSUME NEW d \in Digests, NEW v \in Verdicts, Answer(d, v) \/ OtherPod(d, v)
       PROVE  UNCHANGED <<overlay, backoff>>
  BY <1>11 DEF Answer, OtherPod, judgeVars, cacheVars
<1>12. ASSUME NEW d \in Foreign, NEW v \in Verdicts, OtherPod(d, v)
       PROVE  CacheInv'
  <2>1. d \in Digests
    BY JudgeConstants
  <2> QED
    BY <2>1, <1>9, <1>11, <1>12
<1>13. ASSUME NEW r \in Requests, RequestStep(r)
       PROVE  CacheInv'
  BY <1>3, <1>4, <1>9, <1>10, <1>13 DEF RequestStep
<1>14. ASSUME NEW d \in Digests, JudgeStep(d)
       PROVE  CacheInv'
  <2>1. WriteVerdict(d) => UNCHANGED <<overlay, backoff>>
    BY DEF WriteVerdict, requestVars
  <2> QED
    BY <2>1, <1>5, <1>6, <1>9, <1>11, <1>14 DEF JudgeStep
<1>15. CASE UNCHANGED vars
  BY <1>9, <1>15 DEF vars, judgeVars, cacheVars
<1> QED
  BY <1>7, <1>8, <1>12, <1>13, <1>14, <1>15 DEF Next
-----------------------------------------------------------------------------
(* A task starts only in a call of schedule, which looks at the pause and  *)
(* at the overlay; that the backoff is over follows from the queue         *)
(* invariant: a queued span has none.                                      *)
StartDue == \A d \in inflight' \ inflight : pause' = 0 /\ backoff'[d] = 0 /\ ~Fresh(overlay, d)'

(* What a task that ends starts was due, and was not its own span.         *)
LEMMA FinishStarts ==
    ASSUME TypeOK, QueueInv, NEW d \in inflight, NEW o, NEW p, Finish(d, o, p)
    PROVE  \A e \in inflight' \ inflight :
              p = 0 /\ ~Fresh(o, e) /\ backoff[e] = 0 /\ e # d
<1> DEFINE t == [task EXCEPT ![d] = "idle"]
<1>1. PICK n \in 0..Len(queue) : Dispatch(Pruned(n), t, o, p)
  BY DEF Finish, Schedule
<1>2. t \in [Digests -> TaskStates] /\ Busy(t) = inflight \ {d}
  BY DEF TypeOK, TaskStates, Busy, inflight
<1>3. Pruned(n) \in Seq(Candidates) /\ Elems(Pruned(n)) \subseteq Elems(queue)
  BY PrunedEffect DEF TypeOK
<1> HIDE DEF t
<1>4. /\ Busy(task') \subseteq Busy(t) \cup Elems(queue)
      /\ \A e \in Digests : e \in Busy(task') \ Busy(t) => p = 0 /\ ~Fresh(o, e)
  BY <1>1, <1>2, <1>3, DispatchEffect
<1>5. inflight' = Busy(task') /\ inflight' \subseteq Digests
  BY DEF inflight, Busy
<1>6. \A e \in Elems(queue) : backoff[e] = 0 /\ e \notin inflight
  BY DEF QueueInv, OneJudgePerSpan
<1> SUFFICES ASSUME NEW e \in inflight' \ inflight
             PROVE  p = 0 /\ ~Fresh(o, e) /\ backoff[e] = 0 /\ e # d
  OBVIOUS
<1>7. e \in Digests /\ e \notin Busy(t) /\ e \in Elems(queue)
  BY <1>2, <1>4, <1>5
<1> QED
  BY <1>2, <1>4, <1>5, <1>6, <1>7

(* Every step starts only what is due.                                     *)
LEMMA StartStep ==
    ASSUME TypeOK, QueueInv, [Next]_vars
    PROVE  StartDue
<1> USE DEF TaskStates
<1>1. CASE inflight' \subseteq inflight
  BY <1>1 DEF StartDue
<1>2. ASSUME NEW q \in Seq(Candidates), NEW o \in [Digests -> Entries], NEW S,
             \A d \in Elems(q) : backoff[d] = 0,
             Dispatch(q, task, o, pause), overlay' = Looked(o, S), UNCHANGED <<pause, backoff>>
      PROVE  StartDue
  <2>1. task \in [Digests -> TaskStates] /\ inflight = Busy(task) /\ inflight' = Busy(task')
        /\ inflight' \subseteq Digests
    BY DEF TypeOK, inflight, Busy
  <2>2. /\ Busy(task') \subseteq Busy(task) \cup Elems(q)
        /\ \A d \in Digests : d \in Busy(task') \ Busy(task) => pause = 0 /\ ~Fresh(o, d)
    BY <1>2, <2>1, DispatchEffect
  <2>3. \A d \in Digests : ~Fresh(o, d) => ~Fresh(overlay', d)
    BY <1>2, LookedType DEF Fresh
  <2> SUFFICES ASSUME NEW d \in inflight' \ inflight
               PROVE  pause' = 0 /\ backoff'[d] = 0 /\ ~Fresh(overlay, d)'
    BY DEF StartDue
  <2>4. d \in Digests /\ d \in Elems(q) /\ pause = 0 /\ ~Fresh(o, d)
    BY <2>1, <2>2
  <2> QED
    BY <1>2, <2>3, <2>4 DEF Fresh
<1>3. ASSUME NEW r \in Requests, AwaitJudge(r)
      PROVE  StartDue
  <2> DEFINE loaded == [d \in Digests |-> IF fetched[r][d] # NoEntry THEN fetched[r][d]
                                                                       ELSE overlay[d]]
  <2>1. loaded \in [Digests -> Entries]
    BY DEF TypeOK
  <2> HIDE DEF loaded
  <2>2. PICK o \in Evict(loaded, {}), n \in 0..Len(queue) :
          LET undecided == {d \in want[r] : ~Fresh(o, d)} IN
          \E order \in Orderings(Admissible(undecided, Pruned(n))) :
             /\ overlay' = Looked(o, want[r])
             /\ \/ task' = task
                \/ Dispatch(Joined(Pruned(n), order), task, o, pause)
    BY <1>3 DEF AwaitJudge, Settle, Snapshot, Wait, loaded
  <2> DEFINE undecided == {d \in want[r] : ~Fresh(o, d)}
  <2>3. PICK order \in Orderings(Admissible(undecided, Pruned(n))) :
             /\ overlay' = Looked(o, want[r])
             /\ \/ task' = task
                \/ Dispatch(Joined(Pruned(n), order), task, o, pause)
    BY <2>2
  <2>4. undecided \in SUBSET Digests /\ o \in [Digests -> Entries]
    BY <2>1, EvictType DEF TypeOK
  <2>5. /\ Joined(Pruned(n), order) \in Seq(Candidates)
        /\ \A d \in Elems(Joined(Pruned(n), order)) : backoff[d] = 0
    BY <2>4, CollectEffect
  <2>6. CASE task' = task
    BY <2>6, <1>1 DEF inflight
  <2>7. CASE Dispatch(Joined(Pruned(n), order), task, o, pause)
    BY <1>3, <2>3, <2>4, <2>5, <2>7, <1>2 DEF AwaitJudge
  <2> QED
    BY <2>3, <2>6, <2>7
<1>4. ASSUME NEW r \in Requests, Process(r)
      PROVE  StartDue
  <2> DEFINE undecided == {d \in want[r] : decision[r][d] = "none"}
  <2>1. PICK n \in 0..Len(queue) :
          \E order \in Orderings(Admissible(undecided, Pruned(n))) :
             Dispatch(Joined(Pruned(n), order), task, overlay, pause)
    BY <1>4 DEF Process
  <2>2. PICK order \in Orderings(Admissible(undecided, Pruned(n))) :
             Dispatch(Joined(Pruned(n), order), task, overlay, pause)
    BY <2>1
  <2>3. undecided \in SUBSET Digests /\ overlay \in [Digests -> Entries]
    BY DEF TypeOK
  <2>4. /\ Joined(Pruned(n), order) \in Seq(Candidates)
        /\ \A d \in Elems(Joined(Pruned(n), order)) : backoff[d] = 0
    BY <2>3, CollectEffect
  <2>5. overlay' = Looked(overlay, {}) /\ UNCHANGED <<pause, backoff>>
    BY <1>4, <2>3 DEF Process, cacheVars, Looked
  <2> QED
    BY <2>2, <2>3, <2>4, <2>5, <1>2
<1>5. ASSUME NEW d \in Digests, Record(d)
      PROVE  StartDue
  <2>1. d \in inflight /\ Finish(d, overlay', pause)
    BY <1>5 DEF Record, inflight, Busy
  <2>2. \A e \in inflight' \ inflight :
           pause = 0 /\ ~Fresh(overlay', e) /\ backoff[e] = 0 /\ e # d
    BY <2>1, FinishStarts
  <2>3. inflight' \subseteq Digests
    BY DEF inflight, Busy
  <2> QED
    BY <1>5, <2>2, <2>3 DEF StartDue, Record, TypeOK, Fresh
<1>6. ASSUME NEW d \in Digests, Fail(d)
      PROVE  StartDue
  <2>1. d \in inflight /\ Finish(d, overlay, pause') /\ overlay' = overlay /\ backoff' \in BackedOff(d)
    BY <1>6 DEF Fail, inflight, Busy, cacheVars
  <2>2. \A e \in inflight' \ inflight :
           pause' = 0 /\ ~Fresh(overlay, e) /\ backoff[e] = 0 /\ e # d
    BY <2>1, FinishStarts
  <2>3. inflight' \subseteq Digests
    BY DEF inflight, Busy
  <2>4. \A e \in Digests \ {d} : backoff'[e] = backoff[e] \/ backoff'[e] = 0
    BY <2>1, BackedOffType DEF TypeOK
  <2> QED
    BY <2>1, <2>2, <2>3, <2>4 DEF StartDue, Fresh
<1>7. ASSUME NEW r \in Requests,
             \/ \E S \in Inputs : Begin(r, S)
             \/ WaitAgain(r)
             \/ Resume(r)
             \/ Cancel(r)
      PROVE  inflight' \subseteq inflight
  BY <1>7 DEF Begin, WaitAgain, Resume, Cancel, judgeVars, inflight
<1>8. ASSUME NEW d \in Digests, (\E v \in Verdicts : Answer(d, v)) \/ WriteVerdict(d)
      PROVE  inflight' \subseteq inflight
  BY <1>8 DEF Answer, WriteVerdict, inflight, Busy, TypeOK
<1>9. ASSUME NEW d \in Foreign, NEW v \in Verdicts, OtherPod(d, v)
      PROVE  inflight' \subseteq inflight
  BY <1>9 DEF OtherPod, judgeVars, inflight
<1>10. Restart \/ Tick \/ UNCHANGED vars => inflight' \subseteq inflight
  BY DEF Restart, Tick, vars, judgeVars, inflight, Busy
<1>11. ASSUME NEW r \in Requests, RequestStep(r)
       PROVE  StartDue
  BY <1>1, <1>3, <1>4, <1>7, <1>11 DEF RequestStep
<1>12. ASSUME NEW d \in Digests, JudgeStep(d)
       PROVE  StartDue
  BY <1>1, <1>5, <1>6, <1>8, <1>12 DEF JudgeStep
<1> QED
  BY <1>1, <1>9, <1>10, <1>11, <1>12 DEF Next
-----------------------------------------------------------------------------
(* Without a pause schedule stops for one of two reasons: the queue is     *)
(* empty or all slots are taken.                                           *)
LEMMA DispatchServes ==
    ASSUME NEW q \in Seq(Candidates), NEW t \in [Digests -> TaskStates],
           NEW o, NEW p, p = 0, Dispatch(q, t, o, p)
    PROVE  queue' = <<>> \/ ~(Cardinality(inflight') < Cap)
<1>1. PICK k \in 0..Len(q) :
        /\ Takes(q, Busy(t), o, p, k)
        /\ queue' = SubSeq(q, k + 1, Len(q))
        /\ task' = [d \in Digests |-> IF d \in Started(q, o, k) THEN "asking" ELSE t[d]]
  BY DEF Dispatch
<1>2. Started(q, o, k) \subseteq Digests
  <2>1. \A j \in 1..k : j \in 1..Len(q) /\ q[j] \in Candidates
    BY <1>1
  <2> QED
    BY <2>1 DEF Started, Candidates
<1>3. inflight' = Busy(t) \cup Started(q, o, k)
  BY <1>1, <1>2 DEF inflight, Busy
<1>4. \/ k = Len(q)
      \/ Cardinality(Busy(t) \cup Started(q, o, k)) >= Cap
  BY <1>1 DEF Takes
<1>5. CASE k = Len(q)
  BY <1>1, <1>5
<1>6. CASE Cardinality(inflight') >= Cap
  <2>1. IsFiniteSet(inflight')
    BY JudgeConstants, FS_Subset DEF inflight, Busy
  <2>2. Cardinality(inflight') \in Nat /\ Cap \in Nat
    BY <2>1, ConstantTypes, FS_CardinalityType
  <2> QED
    BY <1>6, <2>2
<1> QED
  BY <1>3, <1>4, <1>5, <1>6

(* What a step may leave neglected: QueueServed, of a single step.         *)
ServedStep ==
    Neglected' =>
        \/ Neglected
        \/ pause > 0
        \/ /\ Elems(queue') \ Elems(queue) # {}
           /\ \E r \in Requests : pc[r] = "loading" /\ pc'[r] = "deciding"

(* A task that ends neglects nothing.                                      *)
LEMMA FinishServes ==
    ASSUME TypeOK, NEW d \in Digests, NEW o, NEW p, p = pause', Finish(d, o, p)
    PROVE  ~Neglected'
<1> DEFINE t == [task EXCEPT ![d] = "idle"]
<1>1. PICK n \in 0..Len(queue) : Dispatch(Pruned(n), t, o, p)
  BY DEF Finish, Schedule
<1>2. t \in [Digests -> TaskStates] /\ Pruned(n) \in Seq(Candidates)
  BY PrunedEffect DEF TypeOK, TaskStates
<1> HIDE DEF t
<1>3. p = 0 => queue' = <<>> \/ ~(Cardinality(inflight') < Cap)
  BY <1>1, <1>2, DispatchServes
<1> QED
  BY <1>3 DEF Neglected

(* A request that collects may leave its spans to a later step only where  *)
(* its wait is over at once.                                               *)
LEMMA CollectServes ==
    ASSUME TypeOK, QueueInv, NEW r \in Requests, AwaitJudge(r)
    PROVE  ServedStep
<1> DEFINE undecided(o) == {d \in want[r] : ~Fresh(o, d)}
<1> DEFINE loaded == [d \in Digests |-> IF fetched[r][d] # NoEntry THEN fetched[r][d]
                                                                     ELSE overlay[d]]
<1>1. PICK o \in Evict(loaded, {}), n \in 0..Len(queue) :
        \E order \in Orderings(Admissible(undecided(o), Pruned(n))) :
           LET q == Joined(Pruned(n), order)
           IN  Settle(r, o, q, undecided(o) \cap (inflight \cup Elems(q)))
  BY DEF AwaitJudge
<1>2. PICK order \in Orderings(Admissible(undecided(o), Pruned(n))) :
           LET q == Joined(Pruned(n), order)
           IN  Settle(r, o, q, undecided(o) \cap (inflight \cup Elems(q)))
  BY <1>1
<1> DEFINE q == Joined(Pruned(n), order)
<1>3. q \in Seq(Candidates) /\ task \in [Digests -> TaskStates]
  <2>1. undecided(o) \in SUBSET Digests
    BY DEF TypeOK
  <2> QED
    BY <2>1, CollectEffect DEF TypeOK, TaskStates
<1>4. Pruned(n) \in Seq(Candidates) /\ Elems(Pruned(n)) \subseteq Elems(queue)
  BY PrunedEffect DEF TypeOK
<1>5. pause' = pause
  BY DEF AwaitJudge
<1>6. CASE queue' = q /\ task' = task /\ pc' = [pc EXCEPT ![r] = "deciding"]
  <2>1. pc[r] = "loading" /\ pc'[r] = "deciding"
    BY <1>6 DEF AwaitJudge, TypeOK
  <2>2. inflight' = inflight
    BY <1>6 DEF inflight
  <2>3. q # <<>> /\ queue = <<>> => Elems(q) \ Elems(queue) # {}
    <3> SUFFICES ASSUME q # <<>>, queue = <<>> PROVE Elems(q) \ Elems(queue) # {}
      OBVIOUS
    <3>1. 1 \in DOMAIN q /\ DOMAIN queue = {}
      BY <1>3
    <3>2. q[1].digest \in Elems(q) /\ Elems(queue) = {}
      BY <3>1 DEF Elems
    <3> QED
      BY <3>2
  <2>4. pause \in Nat
    BY ConstantTypes DEF TypeOK
  <2> HIDE DEF q
  <2> QED
    BY <1>5, <1>6, <2>1, <2>2, <2>3, <2>4 DEF ServedStep, Neglected
<1>7. CASE Dispatch(q, task, o, pause)
  <2> HIDE DEF q
  <2>1. pause = 0 => queue' = <<>> \/ ~(Cardinality(inflight') < Cap)
    BY <1>3, <1>7, DispatchServes
  <2> QED
    BY <1>5, <2>1 DEF ServedStep, Neglected
<1> QED
  BY <1>2, <1>6, <1>7 DEF Settle, Snapshot

(* Every step neglects a candidate only as QueueServed says.               *)
LEMMA ServeStep ==
    ASSUME TypeOK, QueueInv, [Next]_vars
    PROVE  ServedStep
<1>1. CASE UNCHANGED <<queue, task, pause>>
  BY <1>1 DEF ServedStep, Neglected, inflight
<1>2. ASSUME NEW r \in Requests, RequestStep(r)
      PROVE  ServedStep
  <2>1. CASE Process(r)
    <3> DEFINE undecided == {d \in want[r] : decision[r][d] = "none"}
    <3>1. PICK n \in 0..Len(queue) :
            \E order \in Orderings(Admissible(undecided, Pruned(n))) :
               Dispatch(Joined(Pruned(n), order), task, overlay, pause)
      BY <2>1 DEF Process
    <3>2. PICK order \in Orderings(Admissible(undecided, Pruned(n))) :
               Dispatch(Joined(Pruned(n), order), task, overlay, pause)
      BY <3>1
    <3>3. /\ Joined(Pruned(n), order) \in Seq(Candidates)
          /\ task \in [Digests -> TaskStates]
      <4>1. undecided \in SUBSET Digests
        BY DEF TypeOK
      <4> QED
        BY <4>1, CollectEffect DEF TypeOK, TaskStates
    <3>4. pause = 0 => queue' = <<>> \/ ~(Cardinality(inflight') < Cap)
      BY <3>2, <3>3, DispatchServes
    <3>5. pause' = pause
      BY <2>1 DEF Process
    <3> QED
      BY <3>4, <3>5 DEF ServedStep, Neglected
  <2>2. CASE AwaitJudge(r)
    BY <2>2, CollectServes
  <2>3. CASE \/ \E S \in Inputs : Begin(r, S)
             \/ WaitAgain(r)
             \/ Resume(r)
             \/ Cancel(r)
    BY <1>1, <2>3 DEF Begin, WaitAgain, Resume, Cancel, judgeVars
  <2> QED
    BY <1>2, <2>1, <2>2, <2>3 DEF RequestStep
<1>3. ASSUME NEW d \in Digests, JudgeStep(d)
      PROVE  ServedStep
  <2>1. CASE Record(d)
    <3>1. Finish(d, overlay', pause) /\ pause' = pause
      BY <2>1 DEF Record
    <3> QED
      BY <3>1, FinishServes DEF ServedStep
  <2>2. CASE Fail(d)
    <3>1. Finish(d, overlay, pause')
      BY <2>2 DEF Fail
    <3> QED
      BY <3>1, FinishServes DEF ServedStep
  <2>3. CASE (\E v \in Verdicts : Answer(d, v)) \/ WriteVerdict(d)
    <3>1. inflight' = inflight /\ UNCHANGED <<queue, pause>>
      BY <2>3 DEF Answer, WriteVerdict, inflight, Busy, TypeOK, cacheVars
    <3> QED
      BY <3>1 DEF ServedStep, Neglected
  <2> QED
    BY <1>3, <2>1, <2>2, <2>3 DEF JudgeStep
<1>4. CASE Restart
  BY <1>4 DEF Restart, ServedStep, Neglected
<1>5. CASE Tick
  <2>1. inflight' = inflight
    BY <1>5 DEF Tick, inflight
  <2>2. queue' # <<>> => queue # <<>>
    BY <1>5 DEF Tick, TypeOK
  <2>3. pause \in Nat
    BY ConstantTypes DEF TypeOK
  <2> QED
    BY <2>1, <2>2, <2>3 DEF ServedStep, Neglected
<1>6. ASSUME NEW d \in Foreign, NEW v \in Verdicts, OtherPod(d, v)
      PROVE  ServedStep
  BY <1>1, <1>6 DEF OtherPod, judgeVars
<1>7. CASE UNCHANGED vars
  BY <1>1, <1>7 DEF vars, judgeVars
<1> QED
  BY <1>2, <1>3, <1>4, <1>5, <1>6, <1>7 DEF Next
-----------------------------------------------------------------------------
(* All invariants together, for any number of requests, spans, pods, tasks *)
(* and caps.                                                               *)
THEOREM Invariants == Spec => [](TypeOK /\ QueueInv /\ PassInv /\ CacheInv)
<1>1. Init => TypeOK /\ QueueInv /\ PassInv /\ CacheInv
  <2> SUFFICES ASSUME Init PROVE CacheInv
    BY InitInvariants
  <2>1. Cached(overlay) = {} /\ Held(backoff) = {}
    BY DEF Init, Cached, Held, NoEntry
  <2> QED
    BY <2>1, FS_EmptySet, ConstantTypes DEF CacheInv
<1>2. TypeOK /\ QueueInv /\ PassInv /\ CacheInv /\ [Next]_vars
        => (TypeOK /\ QueueInv /\ PassInv /\ CacheInv)'
  BY QueueStep, PassStep, CacheStep
<1> QED
  BY <1>1, <1>2, PTL DEF Spec

(* Every variable stays in its domain.                                     *)
THEOREM TypeCorrect == Spec => []TypeOK
BY Invariants, PTL

(* No span is judged by two tasks of a pod at once, nor queued twice: the  *)
(* dedup by digest of collect and schedule works under any interleaving.   *)
THEOREM OneJudge == Spec => []OneJudgePerSpan
<1>1. QueueInv => OneJudgePerSpan
  BY DEF QueueInv
<1> QED
  BY <1>1, Invariants, PTL

(* At most Cap backend requests run; queue, overlay and backoff keep to    *)
(* their caps.                                                             *)
THEOREM Bounded == Spec => []ResourceBounds
<1>1. QueueInv /\ CacheInv => ResourceBounds
  BY DEF QueueInv, CacheInv, ResourceBounds, Held
<1> QED
  BY <1>1, Invariants, PTL

(* A "pass" is used only for a span for which the store took a "pass".     *)
THEOREM PassNeedsWrite == Spec => []FailedWriteGrantsNoPass
<1>1. PassInv => FailedWriteGrantsNoPass
  BY DEF PassInv
<1> QED
  BY <1>1, Invariants, PTL

(* Judging starts only when no pause, no backoff and no valid verdict      *)
(* forbids it.                                                             *)
THEOREM DueStarts == Spec => StartsAreDue
<1>1. TypeOK /\ QueueInv /\ [Next]_vars => [StartDue]_vars
  BY StartStep
<1>2. Spec => [][StartDue]_vars
  BY <1>1, Invariants, PTL DEF Spec
<1> QED
  BY <1>2 DEF StartsAreDue, StartDue

(* A candidate is neglected only for the end of a pause or by a request    *)
(* that schedules later: every task that ends goes on with the queue.      *)
THEOREM Served == Spec => QueueServed
<1>1. TypeOK /\ QueueInv /\ [Next]_vars => [ServedStep]_vars
  BY ServeStep
<1>2. Spec => [][ServedStep]_vars
  BY <1>1, Invariants, PTL DEF Spec
<1> QED
  BY <1>2 DEF QueueServed, ServedStep
=============================================================================
