-------------------------- MODULE SeenStoreProofs --------------------------
(***************************************************************************)
(* Theorems about SeenStore.  Memory, queue, batch and table hold a span's *)
(* last registration in an order that since follows: whatever is younger   *)
(* than a span, at any of these places, is in since of that span.  So what *)
(* is dropped for being oldest has as many spans in its since as the place *)
(* holds, and a restart, which takes the order of the table, keeps that.   *)
(***************************************************************************)
EXTENDS SeenStore, FiniteSetTheorems, SequenceTheorems, TLAPS

Queue == Elems(pending)

(* Spans whose last registration is in the table, or was deleted there.    *)
Settled == (known \ lost) \ (Queue \cup batch)

(* The process that is down holds nothing; no store, no queue.             *)
PhaseInv ==
    /\ pc = "down" => ~store /\ pending = <<>> /\ batch = {}
    /\ ~store => pending = <<>> /\ batch = {}
    /\ \A d \in Spans : /\ seen[d] <= Cardinality(Spans) + registered
                        /\ last[d] <= writes

(* Only registered spans get anywhere.                                     *)
KnownInv == Queue \subseteq known /\ batch \subseteq known /\ Entries(last) \subseteq known

(* A younger span in memory was registered, or stored, since.              *)
MemoryInv ==
    \A d, e \in Spans :
        d \notin lost /\ d # e /\ seen[d] # 0 /\ seen[d] <= seen[e] => e \in since[d]

(* What waits, or is written, behind the last registration of a span came  *)
(* after it.                                                               *)
QueueInv ==
    /\ \A d \in known \ lost, j \in DOMAIN pending :
          (\A k \in DOMAIN pending : j <= k => pending[k] # d) => pending[j] \in since[d]
    /\ \A d \in Settled, e \in batch : e \in since[d]

(* A row that is no older than that of a settled span came after it, or    *)
(* along with it; a settled span without a row was deleted.                *)
TableInv ==
    store \/ pc = "down" =>
        \A d \in Settled :
            /\ last[d] # 0 => \A e \in Spans : d # e /\ last[d] <= last[e] => e \in since[d]
            /\ last[d] = 0 => Cardinality(since[d]) >= ReportedCap

IInv ==
    TypeOK /\ PhaseInv /\ KnownInv /\ MemoryInv /\ QueueInv /\ TableInv /\ ForgottenLast
-----------------------------------------------------------------------------
(* Counting the spans of a set.                                            *)
LEMMA Sizes ==
  ASSUME NEW T \in SUBSET Spans, NEW S \in SUBSET T
  PROVE  /\ Cardinality(S) \in Nat /\ Cardinality(T) \in Nat
         /\ Cardinality(S) <= Cardinality(T)
         /\ Cardinality(S) = Cardinality(T) => S = T
<1>1. IsFiniteSet(T) /\ IsFiniteSet(S)
  BY StoreConstants, FS_Subset
<1> QED
  BY <1>1, FS_Subset, FS_CardinalityType

(* The constants as the arithmetic below needs them.                       *)
LEMMA Consts ==
  /\ Cardinality(Spans) \in Nat /\ SeenCap \in Nat \ {0} /\ ReportedCap \in Nat
  /\ SeenCap <= ReportedCap /\ BatchSize \in Nat \ {0} /\ MaxRegistered \in Nat
BY StoreConstants, FS_CardinalityType

(* A text is a sequence of spans without repetitions.                      *)
LEMMA TextGives ==
  ASSUME NEW t \in Texts
  PROVE  /\ t \in Seq(Spans) /\ Len(t) \in Nat /\ DOMAIN t = 1..Len(t)
         /\ Elems(t) \subseteq Spans
         /\ \A i, j \in DOMAIN t : t[i] = t[j] => i = j
BY StoreConstants DEF Elems

(* What is kept of the entries f, and that it is younger than the rest.    *)
LEMMA NewestGives ==
  ASSUME NEW f \in [Spans -> Nat], NEW n \in Nat, NEW K \in Newest(f, n)
  PROVE  /\ K \subseteq Entries(f) /\ Entries(f) \subseteq Spans
         /\ Cardinality(K) <= n
         /\ Only(f, K) \in [Spans -> Nat]
         /\ Entries(Only(f, K)) = K
         /\ \A d \in Entries(f) \ K : Cardinality(K) = n /\ \A e \in K : f[d] <= f[e]
<1>1. K \subseteq Entries(f) /\ Entries(f) \subseteq Spans
  BY DEF Newest, Entries
<1>2. Cardinality(K) = Less(n, Cardinality(Entries(f)))
  BY DEF Newest
<1>3. /\ Cardinality(Entries(f)) \in Nat
      /\ Cardinality(K) = Cardinality(Entries(f)) => K = Entries(f)
  BY <1>1, Sizes
<1>4. Cardinality(K) <= n
  BY <1>2, <1>3 DEF Less
<1>5. Only(f, K) \in [Spans -> Nat] /\ Entries(Only(f, K)) = K
  BY <1>1 DEF Only, Entries
<1>6. ASSUME NEW d \in Entries(f) \ K
      PROVE  Cardinality(K) = n /\ \A e \in K : f[d] <= f[e]
  BY <1>2, <1>3, <1>6 DEF Less, Newest
<1> QED
  BY <1>1, <1>4, <1>5, <1>6

(* The spans of a text take the newest places, in their order.             *)
LEMMA PlacedGives ==
  ASSUME TypeOK, NEW t \in Texts
  PROVE  /\ Placed(t) \in [Spans -> Nat]
         /\ \A i \in DOMAIN t : Placed(t)[t[i]] = Cardinality(Spans) + registered + i
         /\ \A d \in Spans \ Elems(t) : Placed(t)[d] = seen[d]
<1>0. /\ t \in Seq(Spans) /\ Len(t) \in Nat /\ DOMAIN t = 1..Len(t)
      /\ \A i, j \in DOMAIN t : t[i] = t[j] => i = j
  BY TextGives
<1>1. registered \in Nat /\ Cardinality(Spans) \in Nat /\ seen \in [Spans -> Nat]
  BY Consts DEF TypeOK
<1>2. \A d \in Spans \ Elems(t) : Placed(t)[d] = seen[d]
  BY DEF Placed
<1>3. ASSUME NEW i \in DOMAIN t
      PROVE  t[i] \in Spans /\ t[i] \in Elems(t)
             /\ Placed(t)[t[i]] = Cardinality(Spans) + registered + i
  <2>1. t[i] \in Spans /\ t[i] \in Elems(t)
    BY <1>0 DEF Elems
  <2>2. (CHOOSE j \in DOMAIN t : t[j] = t[i]) = i
    BY <1>0
  <2> QED
    BY <2>1, <2>2 DEF Placed
<1>4. ASSUME NEW d \in Spans PROVE Placed(t)[d] \in Nat
  <2>1. CASE d \in Elems(t)
    <3>1. PICK i \in DOMAIN t : d = t[i]
      BY <2>1 DEF Elems
    <3>2. Placed(t)[d] = Cardinality(Spans) + registered + i /\ i \in Nat
      BY <1>0, <1>3, <3>1
    <3> QED
      BY <1>1, <3>2
  <2>2. CASE d \notin Elems(t)
    BY <1>1, <1>2, <2>2
  <2> QED
    BY <2>1, <2>2
<1>5. Placed(t) = [d \in Spans |-> Placed(t)[d]]
  BY DEF Placed
<1> QED
  BY <1>2, <1>3, <1>4, <1>5

(* Popping from the left leaves a suffix.                                  *)
LEMMA QueuedGives ==
  ASSUME NEW q \in Seq(Spans)
  PROVE  /\ Queued(q) \in Seq(Spans) /\ Len(Queued(q)) <= SeenCap
         /\ Elems(Queued(q)) \subseteq Elems(q)
         /\ \E k \in Nat : /\ Len(Queued(q)) + k = Len(q)
                           /\ \A i \in 1..Len(Queued(q)) : Queued(q)[i] = q[i + k]
<1> DEFINE k == IF Len(q) > SeenCap THEN Len(q) - SeenCap ELSE 0
<1>1. Len(q) \in Nat /\ k \in Nat /\ k <= Len(q) /\ Len(q) - k <= SeenCap
  BY Consts
<1>2. \A i \in (1 + k)..Len(q) : q[i] \in Spans
  BY <1>1
<1> HIDE DEF k
<1>3. /\ SubSeq(q, 1 + k, Len(q)) \in Seq(Spans)
      /\ Len(SubSeq(q, 1 + k, Len(q))) =
            IF 1 + k <= Len(q) THEN Len(q) - (1 + k) + 1 ELSE 0
      /\ \A i \in 1..(Len(q) - (1 + k) + 1) : SubSeq(q, 1 + k, Len(q))[i] = q[1 + k + i - 1]
  BY <1>1, <1>2, SubSeqProperties
<1>4. Queued(q) = SubSeq(q, 1 + k, Len(q))
  BY DEF Queued, k
<1>5. /\ Queued(q) \in Seq(Spans) /\ Len(Queued(q)) + k = Len(q)
      /\ \A i \in 1..Len(Queued(q)) : Queued(q)[i] = q[i + k]
  BY <1>1, <1>3, <1>4
<1>6. Elems(Queued(q)) \subseteq Elems(q)
  <2> SUFFICES ASSUME NEW i \in DOMAIN Queued(q) PROVE Queued(q)[i] \in Elems(q)
    BY DEF Elems
  <2>1. i \in 1..Len(Queued(q)) /\ i + k \in DOMAIN q
    BY <1>1, <1>5
  <2> QED
    BY <1>5, <2>1 DEF Elems
<1> QED
  BY <1>1, <1>5, <1>6

(* What the queue holds after a text was added.                            *)
LEMMA ConcatElems ==
  ASSUME NEW p \in Seq(Spans), NEW t \in Seq(Spans)
  PROVE  /\ p \o t \in Seq(Spans) /\ Len(p \o t) = Len(p) + Len(t)
         /\ \A i \in 1..Len(p) : (p \o t)[i] = p[i]
         /\ \A i \in 1..Len(t) : (p \o t)[i + Len(p)] = t[i]
         /\ Elems(p \o t) = Elems(p) \cup Elems(t)
<1>1. /\ p \o t \in Seq(Spans) /\ Len(p \o t) = Len(p) + Len(t)
      /\ \A i \in 1..Len(p) + Len(t) :
            (p \o t)[i] = IF i <= Len(p) THEN p[i] ELSE t[i - Len(p)]
  BY ConcatProperties
<1>2. Len(p) \in Nat /\ Len(t) \in Nat /\ DOMAIN p = 1..Len(p) /\ DOMAIN t = 1..Len(t)
      /\ DOMAIN (p \o t) = 1..Len(p) + Len(t)
  BY <1>1
<1>3. \A i \in 1..Len(p) : (p \o t)[i] = p[i]
  BY <1>1, <1>2
<1>4. \A i \in 1..Len(t) : (p \o t)[i + Len(p)] = t[i]
  BY <1>1, <1>2
<1>5. Elems(p \o t) \subseteq Elems(p) \cup Elems(t)
  <2> SUFFICES ASSUME NEW i \in 1..Len(p) + Len(t) PROVE (p \o t)[i] \in Elems(p) \cup Elems(t)
    BY <1>2 DEF Elems
  <2>1. CASE i <= Len(p)
    BY <1>2, <1>3, <2>1 DEF Elems
  <2>2. CASE i > Len(p)
    <3>1. i - Len(p) \in 1..Len(t) /\ (p \o t)[i] = t[i - Len(p)]
      BY <1>1, <1>2, <2>2
    <3> QED
      BY <1>2, <3>1 DEF Elems
  <2> QED
    BY <1>2, <2>1, <2>2
<1>6. Elems(p) \subseteq Elems(p \o t)
  <2> SUFFICES ASSUME NEW i \in 1..Len(p) PROVE p[i] \in Elems(p \o t)
    BY <1>2 DEF Elems
  <2>1. i \in DOMAIN (p \o t)
    BY <1>2
  <2> QED
    BY <1>3, <2>1 DEF Elems
<1>7. Elems(t) \subseteq Elems(p \o t)
  <2> SUFFICES ASSUME NEW i \in 1..Len(t) PROVE t[i] \in Elems(p \o t)
    BY <1>2 DEF Elems
  <2>1. i + Len(p) \in DOMAIN (p \o t)
    BY <1>2
  <2> QED
    BY <1>4, <2>1 DEF Elems
<1> QED
  BY <1>1, <1>3, <1>4, <1>5, <1>6, <1>7

(* The next batch and the rest of the queue.                               *)
LEMMA TakeGives ==
  ASSUME TypeOK, Take
  PROVE  /\ batch' \in SUBSET Spans /\ batch' # {}
         /\ pending' \in Seq(Spans) /\ Len(pending') <= Len(pending)
         /\ Queue = batch' \cup Queue'
         /\ \E n \in 1..Len(pending) :
               /\ Len(pending') + n = Len(pending)
               /\ batch' = {pending[i] : i \in 1..n}
               /\ \A i \in 1..Len(pending') : pending'[i] = pending[i + n]
<1> DEFINE n == Less(BatchSize, Len(pending))
<1>0. pending \in Seq(Spans) /\ pending # <<>> /\ Len(pending) \in Nat
  BY DEF TypeOK, Take
<1>1. n \in 1..Len(pending)
  <2>1. Len(pending) # 0
    BY <1>0, EmptySeq
  <2> QED
    BY <1>0, <2>1, Consts DEF Less
<1>2. /\ batch' = Elems(SubSeq(pending, 1, n))
      /\ pending' = SubSeq(pending, n + 1, Len(pending))
  BY DEF Take
<1> HIDE DEF n
<1>3. /\ SubSeq(pending, 1, n) \in Seq(Spans)
      /\ Len(SubSeq(pending, 1, n)) = n
      /\ \A i \in 1..n : SubSeq(pending, 1, n)[i] = pending[i]
  <2>1. \A i \in 1..n : pending[i] \in Spans
    BY <1>0, <1>1
  <2>2. /\ SubSeq(pending, 1, n) \in Seq(Spans)
        /\ Len(SubSeq(pending, 1, n)) = IF 1 <= n THEN n - 1 + 1 ELSE 0
        /\ \A i \in 1..(n - 1 + 1) : SubSeq(pending, 1, n)[i] = pending[1 + i - 1]
    BY <1>1, <2>1, SubSeqProperties
  <2> QED
    BY <1>1, <2>2
<1>4. /\ pending' \in Seq(Spans)
      /\ Len(pending') + n = Len(pending)
      /\ \A i \in 1..Len(pending') : pending'[i] = pending[i + n]
  <2>1. \A i \in (n + 1)..Len(pending) : pending[i] \in Spans
    BY <1>0, <1>1
  <2>2. /\ SubSeq(pending, n + 1, Len(pending)) \in Seq(Spans)
        /\ Len(SubSeq(pending, n + 1, Len(pending))) =
              IF n + 1 <= Len(pending) THEN Len(pending) - (n + 1) + 1 ELSE 0
        /\ \A i \in 1..(Len(pending) - (n + 1) + 1) :
              SubSeq(pending, n + 1, Len(pending))[i] = pending[n + 1 + i - 1]
    BY <1>0, <1>1, <2>1, SubSeqProperties
  <2> QED
    BY <1>0, <1>1, <1>2, <2>2
<1>5. batch' = {pending[i] : i \in 1..n}
  <2>1. DOMAIN SubSeq(pending, 1, n) = 1..n
    BY <1>3
  <2> QED
    BY <1>2, <1>3, <2>1 DEF Elems
<1>6. batch' \in SUBSET Spans /\ batch' # {}
  <2>1. pending[1] \in batch'
    BY <1>1, <1>5
  <2> QED
    BY <1>0, <1>1, <1>5, <2>1
<1>7. Queue = batch' \cup Queue'
  <2>1. DOMAIN pending = 1..Len(pending) /\ DOMAIN pending' = 1..Len(pending')
        /\ Len(pending') \in Nat
    BY <1>0, <1>4
  <2>2. ASSUME NEW i \in DOMAIN pending PROVE pending[i] \in batch' \cup Queue'
    <3>1. CASE i <= n
      BY <1>1, <1>5, <2>1, <3>1
    <3>2. CASE i > n
      <4>1. i - n \in DOMAIN pending' /\ pending'[i - n] = pending[i]
        BY <1>1, <1>4, <2>1, <3>2
      <4> QED
        BY <4>1 DEF Queue, Elems
    <3> QED
      BY <1>1, <2>1, <3>1, <3>2
  <2>3. ASSUME NEW i \in DOMAIN pending' PROVE pending'[i] \in Queue
    <3>1. i + n \in DOMAIN pending /\ pending'[i] = pending[i + n]
      BY <1>1, <1>4, <2>1
    <3> QED
      BY <3>1 DEF Queue, Elems
  <2>4. batch' \subseteq Queue
    BY <1>1, <1>5, <2>1 DEF Queue, Elems
  <2> QED
    BY <2>2, <2>3, <2>4 DEF Queue, Elems
<1>8. n \in 1..Len(pending) /\ batch' = {pending[i] : i \in 1..n}
      /\ Len(pending') + n = Len(pending) /\ \A i \in 1..Len(pending') : pending'[i] = pending[i + n]
  BY <1>1, <1>4, <1>5
<1>9. Len(pending') <= Len(pending)
  BY <1>0, <1>1, <1>4
<1> QED
  BY <1>4, <1>6, <1>7, <1>8, <1>9, Zenon
-----------------------------------------------------------------------------
(* Every step preserves the type invariant.                                *)
LEMMA TypeStep == TypeOK /\ PhaseInv /\ [Next]_vars => TypeOK'
<1> SUFFICES ASSUME TypeOK, PhaseInv, [Next]_vars PROVE TypeOK'
  OBVIOUS
<1> USE Consts
<1>0. Absent \in [Spans -> Nat] /\ Cardinality(Entries(Absent)) = 0
  BY FS_EmptySet DEF Absent, Entries
<1>1. CASE Start
  <2>0. PICK g \in Orders(last) : \E K \in Newest(g, SeenCap) : seen' = Only(g, K)
    BY <1>1 DEF Start
  <2>1. PICK K \in Newest(g, SeenCap) : seen' = Only(g, K)
    BY <2>0
  <2>2. g \in [Spans -> Nat]
    BY DEF Orders
  <2>3. seen' \in [Spans -> Nat] /\ Cardinality(Entries(seen')) <= SeenCap
    BY <2>1, <2>2, NewestGives
  <2>4. /\ pc' = "up" /\ store' = TRUE
        /\ UNCHANGED <<pending, flushing, batch, last, registered, writes, known, since, lost>>
    BY <1>1 DEF Start, history
  <2>5. last' \in [Spans -> Nat] /\ Cardinality(Entries(last')) <= ReportedCap
    BY <2>4 DEF TypeOK
  <2>6. pc' \in {"up", "stopping", "down"} /\ store' \in BOOLEAN
    BY <2>4
  <2>7. pending' \in Seq(Spans) /\ Len(pending') <= SeenCap /\ flushing' \in BOOLEAN
    BY <2>4 DEF TypeOK
  <2>8. batch' \subseteq Spans /\ registered' \in 0..MaxRegistered /\ writes' \in Nat
    BY <2>4 DEF TypeOK
  <2>9. known' \subseteq Spans /\ since' \in [Spans -> SUBSET Spans] /\ lost' \subseteq Spans
    BY <2>4 DEF TypeOK
  <2> QED
    BY <2>3, <2>5, <2>6, <2>7, <2>8, <2>9 DEF TypeOK, Entries
<1>2. CASE StartWithout
  <2>1. seen' \in [Spans -> Nat] /\ Cardinality(Entries(seen')) = 0
    BY <1>0, <1>2 DEF StartWithout
  <2>2. /\ pc' = "up" /\ store' = FALSE /\ lost' = known
        /\ UNCHANGED <<pending, flushing, batch, last, registered, writes, known, since>>
    BY <1>2 DEF StartWithout
  <2>3. Cardinality(Entries(seen')) <= SeenCap
    BY <2>1
  <2>4. last' \in [Spans -> Nat] /\ Cardinality(Entries(last')) <= ReportedCap
    BY <2>2 DEF TypeOK
  <2>5. pc' \in {"up", "stopping", "down"} /\ store' \in BOOLEAN /\ lost' \subseteq Spans
    BY <2>2 DEF TypeOK
  <2> QED
    BY <2>1, <2>2, <2>3, <2>4, <2>5 DEF TypeOK, Entries
<1>3. ASSUME NEW t \in Texts, Register(t) PROVE TypeOK'
  <2>1. t \in Seq(Spans) /\ Len(t) \in Nat /\ Elems(t) \subseteq Spans /\ DOMAIN t = 1..Len(t)
    BY TextGives
  <2>2. PICK K \in Newest(Placed(t), SeenCap) : seen' = Only(Placed(t), K)
    BY <1>3 DEF Register
  <2>3. Placed(t) \in [Spans -> Nat]
    BY PlacedGives
  <2>4. seen' \in [Spans -> Nat] /\ Cardinality(Entries(seen')) <= SeenCap
    BY <2>2, <2>3, NewestGives
  <2>5. pending \o t \in Seq(Spans)
    BY <2>1, ConcatProperties DEF TypeOK
  <2>6. pending' \in Seq(Spans) /\ Len(pending') <= SeenCap /\ flushing' \in BOOLEAN
        /\ store' \in BOOLEAN
    BY <1>3, <2>5, QueuedGives DEF Register, TypeOK, Woken
  <2>7. since' \in [Spans -> SUBSET Spans]
    BY <1>3, <2>1 DEF Register, TypeOK
  <2>8. registered' \in 0..MaxRegistered
    BY <1>3, <2>1 DEF Register, TypeOK
  <2>9. lost' \subseteq Spans /\ known' \subseteq Spans
    <3>1. Elems(pending \o t) \subseteq Spans
      BY <2>5 DEF Elems
    <3> QED
      BY <1>3, <2>1, <3>1 DEF Register, TypeOK
  <2>10. pc' = pc /\ batch' = batch /\ last' = last /\ writes' = writes
    BY <1>3 DEF Register
  <2> QED
    BY <2>4, <2>6, <2>7, <2>8, <2>9, <2>10 DEF TypeOK, Entries
<1>4. CASE Take
  <2>1. batch' \subseteq Spans /\ pending' \in Seq(Spans) /\ Len(pending') <= Len(pending)
    BY <1>4, TakeGives
  <2>2. Len(pending) \in Nat /\ Len(pending') \in Nat
    BY <2>1 DEF TypeOK
  <2>3. UNCHANGED <<pc, store, seen, flushing, last, registered, writes, known, since, lost>>
    BY <1>4 DEF Take, history
  <2>4. Len(pending') <= SeenCap
    BY <2>1, <2>2 DEF TypeOK
  <2> QED
    BY <2>1, <2>3, <2>4 DEF TypeOK, Entries
<1>5. CASE Idle
  BY <1>5 DEF Idle, TypeOK, history, Entries
<1>6. CASE Commit
  <2>1. PICK K \in Newest(Upserted, ReportedCap) : last' = Only(Upserted, K)
    BY <1>6 DEF Commit
  <2>2. Upserted \in [Spans -> Nat]
    BY DEF Upserted, TypeOK
  <2>3. last' \in [Spans -> Nat] /\ Cardinality(Entries(last')) <= ReportedCap
    BY <2>1, <2>2, NewestGives
  <2>4. since' \in [Spans -> SUBSET Spans]
    BY <1>6 DEF Commit, TypeOK
  <2> QED
    BY <1>6, <2>3, <2>4 DEF Commit, LoopAgain, TypeOK, Entries
<1>7. CASE WriteFails
  BY <1>7 DEF WriteFails, LoopAgain, TypeOK, Entries
<1>8. CASE Stop
  BY <1>8 DEF Stop, TypeOK, history, Entries
<1>9. ASSUME NEW D \in SUBSET Spans, Ends(D) PROVE TypeOK'
  <2>1. pending' \in Seq(Spans) /\ Len(pending') <= SeenCap
    BY <1>9, EmptySeq DEF Ends
  <2>2. seen' \in [Spans -> Nat] /\ Cardinality(Entries(seen')) = 0
    BY <1>0, <1>9 DEF Ends
  <2>3. /\ pc' = "down" /\ store' = FALSE /\ batch' = {} /\ flushing' = FALSE
        /\ lost' \subseteq Spans
        /\ UNCHANGED <<last, registered, writes, known, since>>
    BY <1>9 DEF Ends, TypeOK
  <2>4. Cardinality(Entries(seen')) <= SeenCap
    BY <2>2
  <2>5. last' \in [Spans -> Nat] /\ Cardinality(Entries(last')) <= ReportedCap
    BY <2>3 DEF TypeOK
  <2>6. pc' \in {"up", "stopping", "down"} /\ store' \in BOOLEAN /\ flushing' \in BOOLEAN
    BY <2>3
  <2>7. /\ batch' \subseteq Spans /\ registered' \in 0..MaxRegistered /\ writes' \in Nat
        /\ known' \subseteq Spans /\ since' \in [Spans -> SUBSET Spans]
    BY <2>3 DEF TypeOK
  <2> QED
    BY <2>1, <2>2, <2>3, <2>4, <2>5, <2>6, <2>7 DEF TypeOK, Entries
<1>10. CASE Exit
  BY <1>9, <1>10 DEF Exit
<1>11. CASE Crash
  <2>1. Elems(pending) \cup batch \subseteq Spans
    BY DEF Elems, TypeOK
  <2> QED
    BY <1>9, <1>11, <2>1 DEF Crash
<1>12. CASE UNCHANGED vars
  BY <1>12 DEF vars, history, TypeOK, Entries
<1> QED
  BY <1>1, <1>2, <1>3, <1>4, <1>5, <1>6, <1>7, <1>8, <1>10, <1>11, <1>12 DEF Next

(* Every step keeps what the phases of the process say.                    *)
LEMMA PhaseStep == TypeOK /\ PhaseInv /\ [Next]_vars => PhaseInv'
<1> SUFFICES ASSUME TypeOK, PhaseInv, [Next]_vars PROVE PhaseInv'
  OBVIOUS
<1> DEFINE N == Cardinality(Spans)
<1>0. N \in Nat /\ registered \in Nat /\ writes \in Nat
      /\ seen \in [Spans -> Nat] /\ last \in [Spans -> Nat]
  BY Consts DEF TypeOK
<1> HIDE DEF N
<1>a. \A d \in Spans : seen[d] <= N + registered /\ last[d] <= writes
  BY DEF PhaseInv, N
<1>b. (pc = "down" => ~store /\ pending = <<>> /\ batch = {})
      /\ (~store => pending = <<>> /\ batch = {})
  BY DEF PhaseInv
<1>c. \A d \in Spans : Absent[d] = 0
  BY DEF Absent
<1>1. CASE Start
  <2>0. PICK g \in Orders(last) : \E K \in Newest(g, SeenCap) : seen' = Only(g, K)
    BY <1>1 DEF Start
  <2>1. PICK K \in Newest(g, SeenCap) : seen' = Only(g, K)
    BY <2>0
  <2>2. ASSUME NEW d \in Spans PROVE seen'[d] <= N + registered
    <3>1. g[d] \in 0..N
      BY DEF Orders, N
    <3>2. seen'[d] = 0 \/ seen'[d] = g[d]
      BY <2>1 DEF Only
    <3> QED
      BY <1>0, <3>1, <3>2
  <2> QED
    BY <1>1, <1>a, <1>b, <2>2 DEF Start, PhaseInv, N
<1>2. CASE StartWithout
  BY <1>0, <1>2, <1>a, <1>b, <1>c DEF StartWithout, PhaseInv, N
<1>3. ASSUME NEW t \in Texts, Register(t) PROVE PhaseInv'
  <2>1. Len(t) \in Nat /\ DOMAIN t = 1..Len(t) /\ Elems(t) \subseteq Spans
    BY TextGives
  <2>2. PICK K \in Newest(Placed(t), SeenCap) : seen' = Only(Placed(t), K)
    BY <1>3 DEF Register
  <2>3. ASSUME NEW d \in Spans PROVE seen'[d] <= N + (registered + Len(t))
    <3>1. seen'[d] = 0 \/ seen'[d] = Placed(t)[d]
      BY <2>2 DEF Only
    <3>2. CASE d \in Elems(t)
      <4>1. PICK i \in DOMAIN t : d = t[i]
        BY <3>2 DEF Elems
      <4>2. Placed(t)[d] = N + registered + i
        BY <4>1, PlacedGives DEF N
      <4> QED
        BY <1>0, <2>1, <3>1, <4>2
    <3>3. CASE d \notin Elems(t)
      <4>1. Placed(t)[d] = seen[d]
        BY <3>3, PlacedGives
      <4> QED
        BY <1>0, <1>a, <2>1, <3>1, <4>1
    <3> QED
      BY <3>2, <3>3
  <2>4. pc = "up" /\ pc' = pc /\ store' = store /\ last' = last /\ writes' = writes
        /\ batch' = batch /\ registered' = registered + Len(t)
        /\ (~store => pending' = pending)
    BY <1>3 DEF Register
  <2> QED
    BY <1>a, <1>b, <2>3, <2>4 DEF PhaseInv, N
<1>4. CASE Take
  <2>1. pc' = pc /\ store' = store /\ seen' = seen /\ last' = last /\ writes' = writes
        /\ registered' = registered /\ pending # <<>>
    BY <1>4 DEF Take
  <2> QED
    BY <1>a, <1>b, <2>1 DEF PhaseInv, N
<1>5. CASE Idle \/ Stop
  BY <1>5, <1>a, <1>b DEF Idle, Stop, PhaseInv, N
<1>6. CASE Commit
  <2>1. PICK K \in Newest(Upserted, ReportedCap) : last' = Only(Upserted, K)
    BY <1>6 DEF Commit
  <2>2. ASSUME NEW d \in Spans PROVE last'[d] <= writes + 1
    BY <1>0, <1>a, <2>1 DEF Only, Upserted
  <2>3. pc' = pc /\ store' = store /\ seen' = seen /\ pending' = pending /\ batch' = {}
        /\ writes' = writes + 1 /\ registered' = registered /\ batch # {}
    BY <1>6 DEF Commit
  <2> QED
    BY <1>a, <1>b, <2>2, <2>3 DEF PhaseInv, N
<1>7. CASE WriteFails
  BY <1>7, <1>a, <1>b DEF WriteFails, PhaseInv, N
<1>8. ASSUME NEW D, Ends(D) PROVE PhaseInv'
  BY <1>0, <1>8, <1>a, <1>c DEF Ends, PhaseInv, N
<1>9. CASE Exit \/ Crash
  BY <1>8, <1>9 DEF Exit, Crash
<1>10. CASE UNCHANGED vars
  BY <1>10, <1>a, <1>b DEF vars, PhaseInv, N
<1> QED
  BY <1>1, <1>2, <1>3, <1>4, <1>5, <1>6, <1>7, <1>9, <1>10 DEF Next

(* Every step keeps queue, batch and table to registered spans.            *)
LEMMA KnownStep == TypeOK /\ KnownInv /\ [Next]_vars => KnownInv'
<1> SUFFICES ASSUME TypeOK, KnownInv, [Next]_vars PROVE KnownInv'
  OBVIOUS
<1>0. Queue \subseteq known /\ batch \subseteq known /\ Entries(last) \subseteq known
  BY DEF KnownInv
<1>1. CASE Start \/ StartWithout \/ Idle \/ Stop \/ UNCHANGED vars
  <2>1. pending' = pending /\ batch' = batch /\ last' = last /\ known' = known
    BY <1>1 DEF Start, StartWithout, Idle, Stop, vars, history
  <2> QED
    BY <1>0, <2>1 DEF KnownInv, Queue, Entries, Elems
<1>2. ASSUME NEW t \in Texts, Register(t) PROVE KnownInv'
  <2>1. t \in Seq(Spans) /\ pending \in Seq(Spans)
    BY TextGives DEF TypeOK
  <2>2. pending \o t \in Seq(Spans) /\ Elems(pending \o t) \subseteq Queue \cup Elems(t)
    BY <2>1, ConcatElems DEF Queue
  <2>3. pending' = pending \/ pending' = Queued(pending \o t)
    BY <1>2 DEF Register
  <2>4. Elems(pending') \subseteq Queue \cup Elems(t)
    BY <2>2, <2>3, QueuedGives DEF Queue
  <2>5. batch' = batch /\ last' = last /\ known' = known \cup Elems(t)
    BY <1>2 DEF Register
  <2> QED
    BY <1>0, <2>4, <2>5 DEF KnownInv, Queue, Entries
<1>3. CASE Take
  <2>1. batch' \subseteq Queue /\ Queue' \subseteq Queue
    BY <1>3, TakeGives
  <2>2. last' = last /\ known' = known
    BY <1>3 DEF Take, history
  <2> QED
    BY <1>0, <2>1, <2>2 DEF KnownInv, Entries
<1>4. CASE Commit
  <2>1. PICK K \in Newest(Upserted, ReportedCap) : last' = Only(Upserted, K)
    BY <1>4 DEF Commit
  <2>2. pending' = pending /\ batch' = {} /\ known' = known
    BY <1>4 DEF Commit
  <2>3. Entries(last') \subseteq known
    BY <1>0, <2>1 DEF Only, Upserted, Entries
  <2> QED
    BY <1>0, <2>2, <2>3 DEF KnownInv, Queue, Entries
<1>5. CASE WriteFails
  BY <1>0, <1>5 DEF WriteFails, KnownInv, Queue, Entries
<1>6. CASE Exit \/ Crash
  <2>1. pending' = <<>> /\ batch' = {} /\ last' = last /\ known' = known
    BY <1>6 DEF Exit, Crash, Ends
  <2>2. Queue' = {}
    BY <2>1 DEF Queue, Elems
  <2> QED
    BY <1>0, <2>1, <2>2 DEF KnownInv, Entries
<1> QED
  BY <1>1, <1>2, <1>3, <1>4, <1>5, <1>6 DEF Next
-----------------------------------------------------------------------------
(* After a registration: the spans of the text are younger than the rest,  *)
(* and among themselves in their order.                                    *)
LEMMA RegisterSince ==
  ASSUME TypeOK, NEW t \in Texts, Register(t)
  PROVE  /\ \A d \in Spans \ Elems(t) : since'[d] = since[d] \cup Elems(t)
         /\ \A i, j \in DOMAIN t : i < j => t[j] \in since'[t[i]]
         /\ \A d \in Spans \ Elems(t) : d \notin lost' => d \notin lost
<1>1. since' = [d \in Spans |-> IF d \in Elems(t)
                  THEN {t[j] : j \in {k \in DOMAIN t : \E i \in 1..(k - 1) : t[i] = d}}
                  ELSE since[d] \cup Elems(t)]
  BY DEF Register
<1>2. ASSUME NEW i \in DOMAIN t, NEW j \in DOMAIN t, i < j PROVE t[j] \in since'[t[i]]
  <2>1. t[i] \in Elems(t) /\ t[i] \in Spans /\ DOMAIN t = 1..Len(t) /\ Len(t) \in Nat
    BY TextGives DEF Elems
  <2>2. i \in 1..(j - 1)
    BY <1>2, <2>1
  <2>3. j \in {k \in DOMAIN t : \E l \in 1..(k - 1) : t[l] = t[i]}
    BY <2>2
  <2> QED
    BY <1>1, <2>1, <2>3
<1> QED
  BY <1>1, <1>2 DEF Register

(* What lies behind a span in memory after a text was registered came      *)
(* later.                                                                  *)
LEMMA RegisterYounger ==
  ASSUME TypeOK, PhaseInv, MemoryInv, NEW t \in Texts, Register(t),
         NEW d \in Spans, NEW e \in Spans, d # e, d \notin lost',
         Placed(t)[d] # 0, Placed(t)[d] <= Placed(t)[e]
  PROVE  e \in since'[d]
<1> DEFINE N == Cardinality(Spans)
<1>0. DOMAIN t = 1..Len(t) /\ Len(t) \in Nat /\ N \in Nat /\ registered \in Nat
      /\ seen \in [Spans -> Nat]
  BY TextGives, Consts DEF TypeOK
<1>1. \A i \in DOMAIN t : Placed(t)[t[i]] = N + registered + i
  BY PlacedGives
<1>2. \A c \in Spans \ Elems(t) : Placed(t)[c] = seen[c] /\ seen[c] <= N + registered
  BY PlacedGives DEF PhaseInv
<1> HIDE DEF N
<1>3. CASE d \in Elems(t) /\ e \in Elems(t)
  <2>1. PICK i \in DOMAIN t : d = t[i]
    BY <1>3 DEF Elems
  <2>2. PICK j \in DOMAIN t : e = t[j]
    BY <1>3 DEF Elems
  <2>3. i < j
    BY <1>0, <1>1, <2>1, <2>2
  <2> QED
    BY <2>1, <2>2, <2>3, RegisterSince
<1>4. CASE d \in Elems(t) /\ e \notin Elems(t)
  <2>1. PICK i \in DOMAIN t : d = t[i]
    BY <1>4 DEF Elems
  <2>2. Placed(t)[d] > N + registered
    BY <1>0, <1>1, <2>1
  <2>3. Placed(t)[e] \in Nat /\ Placed(t)[d] \in Nat
    BY PlacedGives
  <2> QED
    BY <1>0, <1>2, <1>4, <2>2, <2>3
<1>5. CASE d \notin Elems(t) /\ e \in Elems(t)
  BY <1>5, RegisterSince
<1>6. CASE d \notin Elems(t) /\ e \notin Elems(t)
  <2>1. d \notin lost /\ seen[d] # 0 /\ seen[d] <= seen[e] /\ since[d] \subseteq since'[d]
    BY <1>2, <1>6, RegisterSince
  <2> QED
    BY <2>1 DEF MemoryInv
<1> QED
  BY <1>3, <1>4, <1>5, <1>6

(* At a start: the order of the rows is right for the memory.              *)
LEMMA StartYounger ==
  ASSUME TypeOK, PhaseInv, KnownInv, TableInv, pc = "down", NEW g \in Orders(last),
         NEW d \in Spans, NEW e \in Spans, d # e, d \notin lost,
         g[d] # 0, g[d] <= g[e]
  PROVE  e \in since[d]
<1>1. g \in [Spans -> 0..Cardinality(Spans)] /\ last \in [Spans -> Nat]
  BY DEF Orders, TypeOK
<1>2. last[d] # 0 /\ g[d] # g[e]
  BY DEF Orders
<1>3. ~(last[e] < last[d])
  <2>1. last[e] < last[d] => g[e] < g[d]
    BY DEF Orders
  <2> QED
    BY <1>1, <2>1, Consts
<1>4. last[d] <= last[e]
  BY <1>1, <1>3
<1>5. d \in Settled
  BY <1>2 DEF Settled, KnownInv, PhaseInv, Queue, Elems, Entries
<1> QED
  BY <1>2, <1>4, <1>5 DEF TableInv

(* The steps that leave since, lost, memory and the order alone.           *)
LEMMA QuietSteps ==
  ASSUME Idle \/ Stop \/ UNCHANGED vars
  PROVE  UNCHANGED <<store, seen, pending, batch, last, known, since, lost, registered, writes>>
BY DEF Idle, Stop, vars, history

(* What a process that ends leaves behind.                                 *)
LEMMA EndsGives ==
  ASSUME PhaseInv, Exit \/ Crash
  PROVE  /\ pc' = "down" /\ seen' = Absent /\ pending' = <<>> /\ batch' = {}
         /\ last' = last /\ known' = known /\ since' = since /\ store' = FALSE
         /\ IF store THEN lost' = lost \cup Queue \cup batch ELSE lost' = lost \cup known
<1>1. CASE Exit
  <2>1. Queue = {} /\ batch = {}
    BY <1>1 DEF Exit, Queue, Elems
  <2> QED
    BY <1>1, <2>1 DEF Exit, Ends
<1>2. CASE Crash
  <2>1. ~store => Queue \cup batch = {}
    BY DEF PhaseInv, Queue, Elems
  <2> QED
    BY <1>2, <2>1 DEF Crash, Ends, Queue
<1> QED
  BY <1>1, <1>2

(* Every step keeps what the memory says of the order of spans.            *)
LEMMA MemoryStep == TypeOK /\ PhaseInv /\ KnownInv /\ MemoryInv /\ TableInv /\ [Next]_vars => MemoryInv'
<1> SUFFICES ASSUME TypeOK, PhaseInv, KnownInv, MemoryInv, TableInv, [Next]_vars,
                    NEW d \in Spans, NEW e \in Spans,
                    d \notin lost', d # e, seen'[d] # 0, seen'[d] <= seen'[e]
             PROVE  e \in since'[d]
  BY DEF MemoryInv
<1>0. seen \in [Spans -> Nat] /\ since \in [Spans -> SUBSET Spans] /\ Absent[d] = 0
  BY DEF TypeOK, Absent
<1>1. CASE Start
  <2>0. PICK g \in Orders(last) : \E K \in Newest(g, SeenCap) : seen' = Only(g, K)
    BY <1>1 DEF Start
  <2>1. PICK K \in Newest(g, SeenCap) : seen' = Only(g, K)
    BY <2>0
  <2>2. g \in [Spans -> 0..Cardinality(Spans)]
    BY DEF Orders
  <2>3. g[d] # 0 /\ g[d] <= g[e]
    BY <2>1, <2>2, Consts DEF Only
  <2>4. d \notin lost /\ since' = since /\ pc = "down"
    BY <1>1 DEF Start, history
  <2> QED
    BY <2>3, <2>4, StartYounger
<1>2. CASE StartWithout \/ Exit \/ Crash
  <2>1. seen' = Absent
    BY <1>2, EndsGives DEF StartWithout
  <2> QED
    BY <1>0, <2>1
<1>3. ASSUME NEW t \in Texts, Register(t) PROVE e \in since'[d]
  <2>1. PICK K \in Newest(Placed(t), SeenCap) : seen' = Only(Placed(t), K)
    BY <1>3 DEF Register
  <2>2. Placed(t)[d] # 0 /\ Placed(t)[d] \in Nat /\ Placed(t)[e] \in Nat
    BY <2>1, PlacedGives DEF Only
  <2>3. Placed(t)[d] <= Placed(t)[e]
    BY <2>1, <2>2 DEF Only
  <2> QED
    BY <1>3, <2>2, <2>3, RegisterYounger
<1>4. CASE Take
  BY <1>4 DEF Take, MemoryInv, history
<1>5. CASE Commit
  <2>1. seen' = seen /\ lost' = lost /\ since[d] \subseteq since'[d]
    BY <1>0, <1>5 DEF Commit
  <2> QED
    BY <2>1 DEF MemoryInv
<1>6. CASE WriteFails
  BY <1>6 DEF WriteFails, MemoryInv
<1>7. CASE Idle \/ Stop \/ UNCHANGED vars
  BY <1>7, QuietSteps DEF MemoryInv
<1> QED
  BY <1>1, <1>2, <1>3, <1>4, <1>5, <1>6, <1>7 DEF Next

(* A span that is settled after a registration was settled before it.      *)
LEMMA RegisterSettles ==
  ASSUME TypeOK, NEW t \in Texts, Register(t), store, NEW d \in Settled'
  PROVE  d \in Settled /\ d \notin Elems(t)
<1>1. t \in Seq(Spans) /\ pending \in Seq(Spans)
  BY TextGives DEF TypeOK
<1>2. Elems(pending \o t) = Queue \cup Elems(t)
  BY <1>1, ConcatElems DEF Queue
<1>3. lost' = (lost \ Elems(t)) \cup ((Queue \cup Elems(t)) \ Queue')
  BY <1>2 DEF Register, Queue
<1>4. known' = known \cup Elems(t) /\ batch' = batch
  BY DEF Register
<1> QED
  BY <1>3, <1>4 DEF Settled

(* Every step keeps what the queue and the batch say of that order.        *)
LEMMA QueueStep == TypeOK /\ PhaseInv /\ QueueInv /\ [Next]_vars => QueueInv'
<1> SUFFICES ASSUME TypeOK, PhaseInv, QueueInv, [Next]_vars PROVE QueueInv'
  OBVIOUS
<1>0. pending \in Seq(Spans) /\ since \in [Spans -> SUBSET Spans]
      /\ known \subseteq Spans /\ batch \subseteq Spans
  BY DEF TypeOK
<1>1. CASE pending' = <<>> /\ batch' = {}
  BY <1>1 DEF QueueInv
<1>2. ASSUME NEW t \in Texts, Register(t), store PROVE QueueInv'
  <2>0. t \in Seq(Spans) /\ DOMAIN t = 1..Len(t) /\ Len(t) \in Nat /\ Len(pending) \in Nat
        /\ Elems(t) \subseteq Spans /\ DOMAIN pending = 1..Len(pending)
    BY <1>0, TextGives
  <2> DEFINE q == pending \o t
  <2>1. /\ q \in Seq(Spans) /\ Len(q) = Len(pending) + Len(t)
        /\ \A i \in 1..Len(pending) : q[i] = pending[i]
        /\ \A i \in 1..Len(t) : q[i + Len(pending)] = t[i]
    BY <1>0, <2>0, ConcatElems
  <2>2. pending' = Queued(q)
    BY <1>2 DEF Register
  <2> HIDE DEF q
  <2>3. PICK n \in Nat : /\ Len(Queued(q)) + n = Len(q)
                         /\ \A i \in 1..Len(Queued(q)) : Queued(q)[i] = q[i + n]
    BY <2>1, QueuedGives
  <2>4. Queued(q) \in Seq(Spans)
    BY <2>1, QueuedGives
  <2>4a. Len(pending') \in Nat /\ DOMAIN pending' = 1..Len(pending')
    BY <2>2, <2>4
  <2>5. known' = known \cup Elems(t) /\ batch' = batch
    BY <1>2 DEF Register
  <2>6. ASSUME NEW d \in known' \ lost', NEW j \in DOMAIN pending',
               \A k \in DOMAIN pending' : j <= k => pending'[k] # d
        PROVE  pending'[j] \in since'[d]
    <3>0. d \in Spans /\ j \in 1..Len(pending') /\ pending'[j] = q[j + n]
          /\ j + n \in 1..(Len(pending) + Len(t))
      BY <1>0, <2>0, <2>1, <2>2, <2>3, <2>4a, <2>5
    <3>1. \A k \in 1..Len(q) : j + n <= k => q[k] # d
      <4> SUFFICES ASSUME NEW k \in 1..Len(q), j + n <= k PROVE q[k] # d
        OBVIOUS
      <4>0. k \in Nat /\ j \in Nat /\ n \in Nat /\ 1 <= j /\ Len(pending') + n = Len(q)
        BY <2>1, <2>2, <2>3, <2>4a, <3>0
      <4>1. k - n \in 1..Len(pending') /\ j <= k - n /\ (k - n) + n = k
        BY <2>4a, <4>0
      <4>2. pending'[k - n] = q[(k - n) + n]
        BY <2>2, <2>3, <4>1
      <4> QED
        BY <2>4a, <2>6, <4>1, <4>2
    <3>2. CASE d \in Elems(t)
      <4>1. PICK a \in DOMAIN t : d = t[a]
        BY <3>2 DEF Elems
      <4>2. a + Len(pending) \in 1..Len(q) /\ q[a + Len(pending)] = d
        BY <2>0, <2>1, <4>1
      <4>3. a + Len(pending) < j + n
        BY <2>0, <3>0, <3>1, <4>2
      <4>4. j + n - Len(pending) \in DOMAIN t /\ a < j + n - Len(pending)
            /\ q[j + n] = t[j + n - Len(pending)]
        BY <2>0, <2>1, <3>0, <4>3
      <4> QED
        BY <1>2, <3>0, <4>1, <4>4, RegisterSince
    <3>3. CASE d \notin Elems(t) /\ j + n > Len(pending)
      <4>1. j + n - Len(pending) \in DOMAIN t /\ q[j + n] = t[j + n - Len(pending)]
        BY <2>0, <2>1, <3>0, <3>3
      <4>2. q[j + n] \in Elems(t)
        BY <4>1 DEF Elems
      <4> QED
        BY <1>2, <3>0, <3>3, <4>2, RegisterSince
    <3>4. CASE d \notin Elems(t) /\ j + n <= Len(pending)
      <4>1. d \in known \ lost
        BY <1>2, <2>5, <3>0, <3>4, RegisterSince
      <4>2. j + n \in DOMAIN pending /\ pending[j + n] = q[j + n]
        BY <2>0, <2>1, <3>0, <3>4
      <4>3. \A k \in DOMAIN pending : j + n <= k => pending[k] # d
        BY <2>0, <2>1, <3>1
      <4>4. pending[j + n] \in since[d]
        BY <4>1, <4>2, <4>3 DEF QueueInv
      <4> QED
        BY <1>2, <3>0, <3>4, <4>2, <4>4, RegisterSince
    <3> QED
      BY <2>0, <3>0, <3>2, <3>3, <3>4
  <2>7. ASSUME NEW d \in Settled', NEW e \in batch' PROVE e \in since'[d]
    <3>1. d \in Settled /\ d \notin Elems(t)
      BY <1>2, RegisterSettles
    <3>2. e \in since[d]
      BY <2>5, <3>1 DEF QueueInv
    <3> QED
      BY <1>0, <1>2, <3>1, <3>2, RegisterSince DEF Settled
  <2> QED
    BY <2>6, <2>7 DEF QueueInv
<1>3. CASE Take
  <2>1. PICK n \in 1..Len(pending) :
               /\ Len(pending') + n = Len(pending)
               /\ batch' = {pending[i] : i \in 1..n}
               /\ \A i \in 1..Len(pending') : pending'[i] = pending[i + n]
    BY <1>3, TakeGives
  <2>2. pending' \in Seq(Spans) /\ Queue = batch' \cup Queue'
    BY <1>3, TakeGives
  <2>2a. Len(pending') \in Nat /\ DOMAIN pending' = 1..Len(pending')
        /\ Len(pending) \in Nat /\ DOMAIN pending = 1..Len(pending)
    BY <1>0, <2>2
  <2>3. known' = known /\ lost' = lost /\ since' = since /\ batch = {}
    BY <1>3 DEF Take, history
  <2>4. ASSUME NEW d \in known \ lost, NEW j \in DOMAIN pending',
               \A k \in DOMAIN pending' : j <= k => pending'[k] # d
        PROVE  pending'[j] \in since[d]
    <3>1. j + n \in DOMAIN pending /\ pending'[j] = pending[j + n]
      BY <2>1, <2>2a
    <3>2. ASSUME NEW k \in DOMAIN pending, j + n <= k PROVE pending[k] # d
      <4>1. k - n \in DOMAIN pending' /\ j <= k - n /\ pending'[k - n] = pending[k]
        BY <2>1, <2>2a, <3>2
      <4> QED
        BY <2>4, <4>1
    <3> QED
      BY <3>1, <3>2 DEF QueueInv
  <2>5. ASSUME NEW d \in Settled', NEW e \in batch' PROVE e \in since[d]
    <3>1. d \in known \ lost /\ d \notin Queue
      BY <2>2, <2>3 DEF Settled
    <3>2. PICK i \in 1..n : e = pending[i]
      BY <2>1
    <3>3. i \in DOMAIN pending /\ \A k \in DOMAIN pending : pending[k] # d
      BY <2>1, <2>2a, <3>1 DEF Queue, Elems
    <3> QED
      BY <3>1, <3>2, <3>3 DEF QueueInv
  <2> QED
    BY <2>3, <2>4, <2>5 DEF QueueInv
<1>4. CASE Commit
  <2>1. pending' = pending /\ batch' = {} /\ known' = known /\ lost' = lost
        /\ \A d \in Spans : since[d] \subseteq since'[d]
    BY <1>0, <1>4 DEF Commit
  <2> QED
    BY <1>0, <2>1 DEF QueueInv
<1>5. CASE WriteFails
  <2>1. pending' = pending /\ batch' = {} /\ known' = known /\ lost \subseteq lost' /\ since' = since
    BY <1>5 DEF WriteFails
  <2> QED
    BY <2>1 DEF QueueInv
<1>6. CASE Idle \/ Stop \/ UNCHANGED vars
  BY <1>6, QuietSteps DEF QueueInv, Settled, Queue
<1>7. CASE Start \/ StartWithout \/ Exit \/ Crash
  BY <1>1, <1>7, EndsGives DEF Start, StartWithout, PhaseInv
<1>8. ASSUME NEW t \in Texts, Register(t), ~store PROVE QueueInv'
  BY <1>1, <1>8 DEF Register, PhaseInv
<1> QED
  BY <1>2, <1>3, <1>4, <1>5, <1>6, <1>7, <1>8 DEF Next

(* Every step keeps what the table says of the order of spans.             *)
LEMMA TableStep ==
  TypeOK /\ PhaseInv /\ QueueInv /\ TableInv /\ [Next]_vars => TableInv'
<1> SUFFICES ASSUME TypeOK, PhaseInv, QueueInv, TableInv, [Next]_vars, store' \/ pc' = "down",
                    NEW d \in Settled'
             PROVE  /\ last'[d] # 0 =>
                          \A e \in Spans : d # e /\ last'[d] <= last'[e] => e \in since'[d]
                    /\ last'[d] = 0 => Cardinality(since'[d]) >= ReportedCap
  BY DEF TableInv
<1>0. /\ since \in [Spans -> SUBSET Spans] /\ last \in [Spans -> Nat] /\ writes \in Nat
      /\ known' \subseteq Spans /\ d \in Spans /\ ReportedCap \in Nat
      /\ \A e \in Spans : last[e] <= writes
      /\ since'[d] \in SUBSET Spans
  BY TypeStep, Consts DEF TypeOK, Settled, PhaseInv
(* Where the table stays and since only grows.                             *)
<1>1. ASSUME d \in Settled, store \/ pc = "down", last' = last, since[d] \subseteq since'[d]
      PROVE  /\ last'[d] # 0 =>
                   \A e \in Spans : d # e /\ last'[d] <= last'[e] => e \in since'[d]
             /\ last'[d] = 0 => Cardinality(since'[d]) >= ReportedCap
  <2>1. /\ last[d] # 0 => \A e \in Spans : d # e /\ last[d] <= last[e] => e \in since[d]
        /\ last[d] = 0 => Cardinality(since[d]) >= ReportedCap
    BY <1>1 DEF TableInv
  <2>2. Cardinality(since[d]) <= Cardinality(since'[d])
        /\ Cardinality(since[d]) \in Nat /\ Cardinality(since'[d]) \in Nat
    BY <1>0, <1>1, Sizes
  <2> QED
    BY <1>0, <1>1, <2>1, <2>2
<1>2. CASE Start
  <2>1. d \in Settled /\ pc = "down" /\ last' = last /\ since' = since
    BY <1>2 DEF Start, Settled, Queue, history
  <2> QED
    BY <1>1, <2>1
<1>3. CASE StartWithout
  BY <1>3 DEF StartWithout
<1>4. ASSUME NEW t \in Texts, Register(t)
      PROVE  /\ last'[d] # 0 =>
                   \A e \in Spans : d # e /\ last'[d] <= last'[e] => e \in since'[d]
             /\ last'[d] = 0 => Cardinality(since'[d]) >= ReportedCap
  <2>1. store /\ last' = last
    BY <1>4 DEF Register
  <2>2. d \in Settled /\ d \notin Elems(t)
    BY <1>4, <2>1, RegisterSettles
  <2>3. since[d] \subseteq since'[d]
    BY <1>0, <1>4, <2>2, RegisterSince
  <2> QED
    BY <1>1, <2>1, <2>2, <2>3
<1>5. CASE Take
  <2>1. Queue = batch' \cup Queue'
    BY <1>5, TakeGives
  <2>2. known' = known /\ lost' = lost /\ since' = since /\ last' = last /\ batch = {}
        /\ store' = store /\ pc' = pc
    BY <1>5 DEF Take, history
  <2>3. d \in Settled
    BY <2>1, <2>2 DEF Settled
  <2> QED
    BY <1>1, <2>2, <2>3
<1>6. CASE Commit
  <2>1. PICK K \in Newest(Upserted, ReportedCap) : last' = Only(Upserted, K)
    BY <1>6 DEF Commit
  <2>2. /\ pending' = pending /\ known' = known /\ lost' = lost /\ batch # {}
        /\ since' = [c \in Spans |-> IF c \in batch THEN since[c] \cup (batch \ {c}) ELSE since[c]]
    BY <1>6 DEF Commit
  <2>3. store
    BY <2>2 DEF PhaseInv
  <2>4. d \in batch \/ d \in Settled
    BY <2>2 DEF Settled, Queue
  <2>5. Upserted \in [Spans -> Nat]
        /\ \A c \in Spans : Upserted[c] = IF c \in batch THEN writes + 1 ELSE last[c]
    BY <1>0 DEF Upserted
  <2>6. ASSUME NEW e \in Spans, d # e, Upserted[d] # 0, Upserted[d] <= Upserted[e]
        PROVE  e \in since'[d]
    <3>1. CASE d \in batch
      <4>1. last[e] <= writes /\ last[e] \in Nat
        BY <1>0
      <4>2. e \in batch
        BY <1>0, <2>5, <2>6, <3>1, <4>1
      <4> QED
        BY <1>0, <2>2, <2>6, <3>1, <4>2
    <3>2. CASE d \notin batch /\ e \in batch
      <4>1. e \in since[d]
        BY <2>4, <3>2 DEF QueueInv
      <4> QED
        BY <1>0, <2>2, <3>2, <4>1
    <3>3. CASE d \notin batch /\ e \notin batch
      <4>1. last[d] # 0 /\ last[d] <= last[e]
        BY <1>0, <2>5, <2>6, <3>3
      <4>2. e \in since[d]
        BY <2>3, <2>4, <2>6, <3>3, <4>1 DEF TableInv
      <4> QED
        BY <1>0, <2>2, <3>3, <4>2
    <3> QED
      BY <3>1, <3>2, <3>3
  <2>7. ASSUME last'[d] # 0, NEW e \in Spans, d # e, last'[d] <= last'[e]
        PROVE  e \in since'[d]
    <3>1. Upserted[d] \in Nat /\ Upserted[e] \in Nat
      BY <1>0, <2>5
    <3>2. last'[d] = Upserted[d] /\ Upserted[d] # 0
      BY <1>0, <2>1, <2>7 DEF Only
    <3>3. last'[e] = Upserted[e]
      BY <2>1, <2>7, <3>1, <3>2 DEF Only
    <3> QED
      BY <2>6, <2>7, <3>2, <3>3
  <2>8. ASSUME last'[d] = 0 PROVE Cardinality(since'[d]) >= ReportedCap
    <3>1. CASE Upserted[d] = 0
      <4>1. d \notin batch /\ last[d] = 0
        BY <1>0, <2>5, <3>1
      <4>2. Cardinality(since[d]) >= ReportedCap
        BY <2>3, <2>4, <4>1 DEF TableInv
      <4> QED
        BY <1>0, <2>2, <4>1, <4>2
    <3>2. CASE Upserted[d] # 0
      <4>1. d \in Entries(Upserted) \ K
        BY <1>0, <2>1, <2>8, <3>2 DEF Only, Entries
      <4>2. /\ Cardinality(K) = ReportedCap /\ \A e \in K : Upserted[d] <= Upserted[e]
            /\ K \subseteq Spans
        BY <1>0, <2>5, <4>1, NewestGives
      <4>3. K \subseteq since'[d]
        BY <2>6, <3>2, <4>1, <4>2
      <4>4. Cardinality(K) <= Cardinality(since'[d])
        BY <1>0, <4>3, Sizes
      <4> QED
        BY <4>2, <4>4
    <3> QED
      BY <3>1, <3>2
  <2> QED
    BY <2>7, <2>8
<1>7. CASE WriteFails
  <2>1. /\ pending' = pending /\ batch' = {} /\ known' = known /\ since' = since /\ last' = last
        /\ lost' = lost \cup (batch \ Queue) /\ store' = store /\ pc' = pc
    BY <1>7 DEF WriteFails, Queue
  <2>2. d \in Settled
    BY <2>1 DEF Settled, Queue
  <2> QED
    BY <1>1, <2>1, <2>2
<1>8. CASE Exit \/ Crash
  <2>1. /\ last' = last /\ known' = known /\ since' = since
        /\ IF store THEN lost' = lost \cup Queue \cup batch ELSE lost' = lost \cup known
    BY <1>8, EndsGives
  <2>2. store /\ d \in Settled
    BY <2>1 DEF Settled
  <2> QED
    BY <1>1, <2>1, <2>2
<1>9. CASE Idle \/ Stop \/ UNCHANGED vars
  <2>1. UNCHANGED <<store, pending, batch, last, known, since, lost>>
    BY <1>9, QuietSteps
  <2>2. d \in Settled
    BY <2>1 DEF Settled, Queue
  <2>3. store \/ pc = "down"
    BY <1>9, <2>1 DEF Idle, Stop, vars
  <2> QED
    BY <1>1, <2>1, <2>2, <2>3
<1> QED
  BY <1>2, <1>3, <1>4, <1>5, <1>6, <1>7, <1>8, <1>9 DEF Next

(* Every step keeps ForgottenLast.                                         *)
LEMMA ForgottenStep ==
  TypeOK /\ PhaseInv /\ KnownInv /\ MemoryInv /\ TableInv /\ ForgottenLast /\ [Next]_vars
      => ForgottenLast'
<1> SUFFICES ASSUME TypeOK, PhaseInv, KnownInv, MemoryInv, TableInv, ForgottenLast, [Next]_vars,
                    pc' # "down", NEW d \in known' \ lost', seen'[d] = 0
             PROVE  Cardinality(since'[d]) >= SeenCap
  BY DEF ForgottenLast
<1>0. /\ since \in [Spans -> SUBSET Spans] /\ seen \in [Spans -> Nat] /\ last \in [Spans -> Nat]
      /\ since' \in [Spans -> SUBSET Spans]
      /\ d \in Spans /\ SeenCap \in Nat /\ ReportedCap \in Nat /\ SeenCap <= ReportedCap
  BY TypeStep, Consts DEF TypeOK
(* Where memory stays and since only grows.                                *)
<1>1. ASSUME pc # "down", d \in known \ lost, seen[d] = 0, since[d] \subseteq since'[d]
      PROVE  Cardinality(since'[d]) >= SeenCap
  <2>1. Cardinality(since[d]) >= SeenCap
    BY <1>1 DEF ForgottenLast
  <2>2. Cardinality(since[d]) <= Cardinality(since'[d])
        /\ Cardinality(since[d]) \in Nat /\ Cardinality(since'[d]) \in Nat
    BY <1>0, <1>1, Sizes
  <2> QED
    BY <1>0, <2>1, <2>2
(* Where d is not among the K that memory keeps.                           *)
<1>2. ASSUME NEW K \in SUBSET Spans, Cardinality(K) = SeenCap, K \subseteq since'[d]
      PROVE  Cardinality(since'[d]) >= SeenCap
  BY <1>0, <1>2, Sizes
<1>3. CASE Start
  <2>0. PICK g \in Orders(last) : \E K \in Newest(g, SeenCap) : seen' = Only(g, K)
    BY <1>3 DEF Start
  <2>1. PICK K \in Newest(g, SeenCap) : seen' = Only(g, K)
    BY <2>0
  <2>2. pc = "down" /\ known' = known /\ lost' = lost /\ since' = since
    BY <1>3 DEF Start, history
  <2>3. g \in [Spans -> Nat] /\ (g[d] = 0 <=> last[d] = 0)
    BY <1>0 DEF Orders
  <2>4. d \in Settled
    BY <2>2 DEF Settled, PhaseInv, Queue, Elems
  <2>5. CASE last[d] = 0
    <3>1. Cardinality(since[d]) >= ReportedCap
      BY <2>2, <2>4, <2>5 DEF TableInv
    <3>2. Cardinality(since[d]) \in Nat
      BY <1>0, Sizes
    <3> QED
      BY <1>0, <2>2, <3>1, <3>2
  <2>6. CASE last[d] # 0
    <3>1. d \in Entries(g) \ K
      BY <1>0, <2>1, <2>3, <2>6 DEF Only, Entries
    <3>2. /\ Cardinality(K) = SeenCap /\ \A e \in K : g[d] <= g[e]
          /\ K \subseteq Spans
      BY <1>0, <2>3, <3>1, NewestGives
    <3>3. ASSUME NEW e \in K PROVE e \in since[d]
      <4>1. e \in Spans /\ d # e /\ d \notin lost /\ g[d] # 0 /\ g[d] <= g[e]
        BY <2>2, <2>3, <2>6, <3>1, <3>2
      <4> QED
        BY <1>0, <2>2, <4>1, StartYounger
    <3> QED
      BY <1>2, <2>2, <3>2, <3>3
  <2> QED
    BY <2>5, <2>6
<1>4. CASE StartWithout
  BY <1>4 DEF StartWithout
<1>5. ASSUME NEW t \in Texts, Register(t) PROVE Cardinality(since'[d]) >= SeenCap
  <2>1. PICK K \in Newest(Placed(t), SeenCap) : seen' = Only(Placed(t), K)
    BY <1>5 DEF Register
  <2>2. Placed(t) \in [Spans -> Nat]
    BY PlacedGives
  <2>3. CASE Placed(t)[d] = 0
    <3>1. d \notin Elems(t)
      <4> SUFFICES ASSUME d \in Elems(t) PROVE FALSE
        OBVIOUS
      <4>1. PICK i \in DOMAIN t : d = t[i]
        BY DEF Elems
      <4>2. Placed(t)[d] = Cardinality(Spans) + registered + i
        BY <4>1, PlacedGives
      <4>3. DOMAIN t = 1..Len(t) /\ Len(t) \in Nat
        BY TextGives
      <4>4. registered \in Nat /\ Cardinality(Spans) \in Nat
        BY Consts DEF TypeOK
      <4> DEFINE N == Cardinality(Spans)
      <4>5. N + registered + i # 0
        <5> HIDE DEF N
        <5>1. N \in Nat /\ i \in Nat /\ i # 0
          BY <4>1, <4>3, <4>4 DEF N
        <5> QED
          BY <4>4, <5>1
      <4> QED
        BY <2>3, <4>2, <4>5
    <3>2. seen[d] = 0 /\ d \notin lost /\ since[d] \subseteq since'[d]
      BY <1>0, <1>5, <2>3, <3>1, PlacedGives, RegisterSince
    <3>3. d \in known /\ pc # "down"
      BY <1>5, <3>1 DEF Register
    <3> QED
      BY <1>1, <3>2, <3>3
  <2>4. CASE Placed(t)[d] # 0
    <3>1. d \in Entries(Placed(t)) \ K
      BY <1>0, <2>1, <2>2, <2>4 DEF Only, Entries
    <3>2. /\ Cardinality(K) = SeenCap /\ \A e \in K : Placed(t)[d] <= Placed(t)[e]
          /\ K \subseteq Spans
      BY <1>0, <2>2, <3>1, NewestGives
    <3>3. ASSUME NEW e \in K PROVE e \in since'[d]
      <4>1. e \in Spans /\ d # e /\ d \notin lost' /\ Placed(t)[d] <= Placed(t)[e]
        BY <3>1, <3>2
      <4> QED
        BY <1>0, <1>5, <2>4, <4>1, RegisterYounger
    <3> QED
      BY <1>2, <3>2, <3>3
  <2> QED
    BY <2>3, <2>4
<1>6. CASE Take
  <2>1. pc # "down" /\ known' = known /\ lost' = lost /\ seen' = seen /\ since' = since
    BY <1>6 DEF Take, history
  <2> QED
    BY <1>1, <2>1
<1>7. CASE Commit
  <2>1. batch # {} /\ known' = known /\ lost' = lost /\ seen' = seen /\ since[d] \subseteq since'[d]
    BY <1>0, <1>7 DEF Commit
  <2>2. pc # "down"
    BY <2>1 DEF PhaseInv
  <2> QED
    BY <1>1, <2>1, <2>2
<1>8. CASE WriteFails
  <2>1. batch # {} /\ known' = known /\ lost \subseteq lost' /\ seen' = seen /\ since' = since
    BY <1>8 DEF WriteFails
  <2>2. pc # "down"
    BY <2>1 DEF PhaseInv
  <2> QED
    BY <1>1, <2>1, <2>2
<1>9. CASE Exit \/ Crash
  BY <1>9, EndsGives
<1>10. CASE Idle \/ Stop \/ UNCHANGED vars
  <2>1. known' = known /\ lost' = lost /\ seen' = seen /\ since' = since /\ pc # "down"
    BY <1>10, QuietSteps DEF Idle, Stop, vars
  <2> QED
    BY <1>1, <2>1
<1> QED
  BY <1>3, <1>4, <1>5, <1>6, <1>7, <1>8, <1>9, <1>10 DEF Next
-----------------------------------------------------------------------------
(* The invariants hold initially.                                          *)
LEMMA InitIInv == Init => IInv
<1> SUFFICES ASSUME Init PROVE IInv
  OBVIOUS
<1> USE Consts
<1>0. /\ Absent \in [Spans -> Nat] /\ \A d \in Spans : Absent[d] = 0
      /\ Entries(Absent) = {} /\ Cardinality({}) = 0
  BY FS_EmptySet DEF Absent, Entries
<1>1. /\ pc = "down" /\ store = FALSE /\ seen = Absent /\ pending = <<>> /\ flushing = FALSE
      /\ batch = {} /\ last = Absent /\ registered = 0 /\ writes = 0
      /\ known = {} /\ since = [d \in Spans |-> {}] /\ lost = {}
  BY DEF Init
<1>2. TypeOK
  <2>1. pending \in Seq(Spans) /\ Len(pending) <= SeenCap
    BY <1>1, EmptySeq
  <2>2. seen \in [Spans -> Nat] /\ Cardinality(Entries(seen)) <= SeenCap
    BY <1>0, <1>1
  <2>3. last \in [Spans -> Nat] /\ Cardinality(Entries(last)) <= ReportedCap
    <3>1. Cardinality(Entries(last)) = 0
      BY <1>0, <1>1
    <3>2. 0 <= ReportedCap
      OBVIOUS
    <3> QED
      BY <1>0, <1>1, <3>1, <3>2
  <2>4. registered \in 0..MaxRegistered /\ writes \in Nat /\ since \in [Spans -> SUBSET Spans]
    BY <1>1
  <2> QED
    BY <1>1, <2>1, <2>2, <2>3, <2>4 DEF TypeOK
<1>3. PhaseInv
  BY <1>0, <1>1 DEF PhaseInv
<1>4. KnownInv /\ MemoryInv
  BY <1>0, <1>1 DEF KnownInv, MemoryInv, Queue, Elems
<1>5. QueueInv /\ TableInv /\ ForgottenLast
  BY <1>1 DEF QueueInv, TableInv, ForgottenLast, Settled
<1> QED
  BY <1>2, <1>3, <1>4, <1>5 DEF IInv

(* Every reachable state satisfies the invariant.                          *)
THEOREM Invariance == Spec => []IInv
<1>1. IInv /\ [Next]_vars => IInv'
  <2> SUFFICES ASSUME IInv, [Next]_vars PROVE IInv'
    OBVIOUS
  <2>1. TypeOK /\ PhaseInv /\ KnownInv /\ MemoryInv /\ QueueInv /\ TableInv /\ ForgottenLast
    BY DEF IInv
  <2>2. TypeOK' /\ PhaseInv' /\ KnownInv'
    BY <2>1, TypeStep, PhaseStep, KnownStep
  <2>3. MemoryInv' /\ QueueInv'
    BY <2>1, MemoryStep, QueueStep
  <2>4. TableInv' /\ ForgottenLast'
    BY <2>1, TableStep, ForgottenStep
  <2> QED
    BY <2>2, <2>3, <2>4 DEF IInv
<1> QED
  BY InitIInv, <1>1, PTL DEF Spec

(* Type correctness, with the caps on memory, queue and table.             *)
THEOREM Types == Spec => []TypeOK
<1>1. IInv => TypeOK
  BY DEF IInv
<1> QED
  BY <1>1, Invariance, PTL

(* What was reported stays quiet, through exits and restarts, until as     *)
(* many other spans as the memory holds came after it, or it was lost.     *)
THEOREM Remembers == Spec => []ForgottenLast
<1>1. IInv => ForgottenLast
  BY DEF IInv
<1> QED
  BY <1>1, Invariance, PTL

(* No digest waits in the queue without a flush task.                      *)
THEOREM NoneStranded == Spec => []NothingStranded
<1>1. Init => NothingStranded
  BY DEF Init, NothingStranded
<1>2. IInv /\ NothingStranded /\ [Next]_vars => NothingStranded'
  <2> SUFFICES ASSUME IInv, NothingStranded, [Next]_vars PROVE NothingStranded'
    OBVIOUS
  <2>1. CASE Start \/ StartWithout
    BY <2>1 DEF Start, StartWithout, IInv, PhaseInv, NothingStranded
  <2>2. ASSUME NEW t \in Texts, Register(t) PROVE NothingStranded'
    BY <2>2 DEF Register, Woken, IInv, PhaseInv, NothingStranded
  <2>3. CASE Take \/ Idle
    BY <2>3 DEF Take, Idle, NothingStranded
  <2>4. CASE Commit \/ WriteFails
    BY <2>4 DEF Commit, WriteFails, LoopAgain, NothingStranded
  <2>5. CASE Stop \/ Exit \/ Crash
    BY <2>5 DEF Stop, Exit, Crash, Ends, NothingStranded
  <2>6. CASE UNCHANGED vars
    BY <2>6 DEF vars, NothingStranded
  <2> QED
    BY <2>1, <2>2, <2>3, <2>4, <2>5, <2>6 DEF Next
<1> QED
  BY <1>1, <1>2, Invariance, PTL DEF Spec
=============================================================================
