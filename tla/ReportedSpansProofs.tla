------------------------ MODULE ReportedSpansProofs ------------------------
(* Proofs about ReportedSpans for every value of its constants.            *)
EXTENDS ReportedSpans, TLAPS, FiniteSetTheorems

(* A reported span is in the memory of the pod that reported it, unless    *)
(* that pod forgot it since.                                               *)
MemoryInv ==
    /\ OncePerPodMemory
    /\ \A d \in Spans : \A r \in reported[d] :
          /\ pc[r] = "done"
          /\ d \in seen[Host[r]] \/ <<Host[r], d>> \in forgotten

(* While Valkey answers and keeps its keys, one claim of a span wins, and  *)
(* it wins before any report.                                              *)
ClaimInv ==
    /\ \A r \in Requests : pc[r] # "claiming" => won[r] = {}
    /\ \A r \in Requests : won[r] \cup unsent[r] \subseteq carried[r]
    /\ \A d \in Spans \ unsure :
          /\ reported[d] # {} => d \in shared
          /\ \A r \in Requests : d \in won[r] =>
                /\ d \in shared
                /\ reported[d] = {}
                /\ \A q \in Requests : d \in won[q] => q = r

(* Some trace of d is left, so that a claim of it may lose.                *)
Traced(d) ==
    \/ d \in shared \cup orphans \cup unsure
    \/ \E p \in Pods : d \in seen[p]
    \/ \E r \in Requests : pc[r] = "done" /\ d \in carried[r]
    \/ \E r \in Requests : pc[r] = "claiming" /\ d \in carried[r] \ unsent[r]

(* d is reported, or the request that will report it is under way.         *)
Told(d) ==
    \/ reported[d] # {}
    \/ \E r \in Requests : pc[r] = "claiming" /\ d \in won[r] /\ d \notin seen[Host[r]]

TraceInv ==
    \A d \in Spans \ (lost \cup raced) :
        /\ Traced(d) => Told(d)
        /\ \A r, q \in Requests :
              /\ pc[r] = "claiming" /\ pc[q] = "claiming" /\ Host[r] = Host[q]
              /\ d \in carried[r] /\ d \in carried[q]
              => r = q

Inv == TypeOK /\ MemoryInv /\ ClaimInv /\ TraceInv
-----------------------------------------------------------------------------
(* The bounded memory holds what it held or was given.                     *)
LEMMA RememberedEffect ==
    ASSUME NEW old \in SUBSET Spans, NEW new \in SUBSET Spans, NEW m \in Remembered(old, new)
    PROVE  m \in SUBSET Spans /\ m \subseteq old \cup new /\ Cardinality(m) <= SeenCap
<1> DEFINE all == old \cup new
<1> DEFINE over == IF Cardinality(all) > SeenCap THEN Cardinality(all) - SeenCap ELSE 0
<1>1. PICK V \in SUBSET all : Cardinality(V) = over /\ m = all \ V
  BY DEF Remembered
<1>2. IsFiniteSet(all) /\ all \cap V = V
  BY ReportConstants, FS_Subset, <1>1
<1>3. Cardinality(all) \in Nat /\ SeenCap \in Nat
  BY <1>2, FS_CardinalityType, ReportConstants
<1>4. Cardinality(all \ V) = Cardinality(all) - Cardinality(V)
  BY <1>2, FS_Difference
<1> HIDE DEF all
<1> QED
  BY <1>1, <1>3, <1>4 DEF all

(* What every step that ends a request with a report does.                 *)
LEMMA ReportEffect ==
    ASSUME TypeOK, NEW r \in Requests, NEW news \in SUBSET Statuses(r, carried[r]), Report(r, news)
    PROVE  /\ seen' \in [Pods -> SUBSET Spans]
           /\ \A p \in Pods : Cardinality(seen'[p]) <= SeenCap
           /\ \A p \in Pods \ {Host[r]} : seen'[p] = seen[p]
           /\ seen'[Host[r]] \subseteq seen[Host[r]] \cup carried[r]
           /\ forgotten \subseteq forgotten' /\ forgotten' \subseteq Pods \X Spans
           /\ \A d \in seen[Host[r]] \cup carried[r] :
                 d \in seen'[Host[r]] \/ <<Host[r], d>> \in forgotten'
           /\ reported' \in [Spans -> SUBSET Requests]
           /\ \A d \in news : reported'[d] = reported[d] \cup {r}
           /\ \A d \in Spans \ news : reported'[d] = reported[d]
           /\ pc' \in [Requests -> {"new", "claiming", "done"}]
           /\ pc'[r] = "done" /\ \A q \in Requests \ {r} : pc'[q] = pc[q]
           /\ unsent' \in [Requests -> SUBSET Spans]
           /\ unsent'[r] = {} /\ \A q \in Requests \ {r} : unsent'[q] = unsent[q]
           /\ won' \in [Requests -> SUBSET Spans]
           /\ won'[r] = {} /\ \A q \in Requests \ {r} : won'[q] = won[q]
           /\ UNCHANGED <<carried, raced>>
<1>1. PICK m \in Remembered(seen[Host[r]], carried[r]) : seen' = [seen EXCEPT ![Host[r]] = m]
  BY DEF Report
<1>2. Host[r] \in Pods /\ seen[Host[r]] \in SUBSET Spans /\ carried[r] \in SUBSET Spans
  BY ReportConstants DEF TypeOK
<1>3. m \in SUBSET Spans /\ m \subseteq seen[Host[r]] \cup carried[r] /\ Cardinality(m) <= SeenCap
  BY <1>2, RememberedEffect
<1>4. /\ seen' \in [Pods -> SUBSET Spans] /\ seen'[Host[r]] = m
      /\ \A p \in Pods \ {Host[r]} : seen'[p] = seen[p]
      /\ \A p \in Pods : Cardinality(seen'[p]) <= SeenCap
  BY <1>1, <1>2, <1>3 DEF TypeOK
<1>5. forgotten' = forgotten \cup ({Host[r]} \X ((seen[Host[r]] \cup carried[r]) \ seen'[Host[r]]))
  BY DEF Report
<1>6. /\ forgotten \subseteq forgotten' /\ forgotten' \subseteq Pods \X Spans
      /\ \A d \in seen[Host[r]] \cup carried[r] :
            d \in seen'[Host[r]] \/ <<Host[r], d>> \in forgotten'
  BY <1>2, <1>5 DEF TypeOK
<1>7. /\ reported' \in [Spans -> SUBSET Requests]
      /\ \A d \in news : reported'[d] = reported[d] \cup {r}
      /\ \A d \in Spans \ news : reported'[d] = reported[d]
  BY DEF Report, TypeOK, Statuses
<1> QED
  BY <1>3, <1>4, <1>6, <1>7 DEF Report, TypeOK

(* The invariant holds initially.                                          *)
LEMMA InitInv == Init => Inv
<1> SUFFICES ASSUME Init PROVE Inv
  OBVIOUS
<1>1. TypeOK
  BY FS_EmptySet, ReportConstants DEF Init, TypeOK
<1>2. MemoryInv /\ ClaimInv
  BY DEF Init, MemoryInv, OncePerPodMemory, ClaimInv
<1>3. TraceInv
  BY DEF Init, TraceInv, Traced
<1> QED
  BY <1>1, <1>2, <1>3 DEF Inv

(* A report of the spans in news keeps the invariants if those claims that *)
(* are not excused had won, and what should be reported is, or is lost.    *)
LEMMA ReportStep ==
    ASSUME Inv, NEW r \in Requests, NEW news \in SUBSET Statuses(r, carried[r]),
           pc[r] = "claiming", Report(r, news),
           shared' = shared, unsure \subseteq unsure', unsure' \subseteq unsure \cup carried[r],
           orphans \subseteq orphans', orphans' \subseteq orphans \cup unsent[r],
           lost \subseteq lost', lost' \in SUBSET Spans,
           \A d \in news : d \in won[r] \/ d \in unsure',
           \A d \in carried[r] \ lost' :
              \/ d \notin unsent[r] /\ (d \in news \/ d \notin Statuses(r, won[r]))
              \/ d \in news \/ d \in seen[Host[r]]
    PROVE  Inv'
<1> DEFINE h == Host[r]
<1>0. TypeOK /\ MemoryInv /\ ClaimInv /\ TraceInv /\ h \in Pods
  BY ReportConstants DEF Inv
<1>1. /\ seen' \in [Pods -> SUBSET Spans]
      /\ \A p \in Pods : Cardinality(seen'[p]) <= SeenCap
      /\ \A p \in Pods \ {h} : seen'[p] = seen[p]
      /\ seen'[h] \subseteq seen[h] \cup carried[r]
      /\ forgotten \subseteq forgotten' /\ forgotten' \subseteq Pods \X Spans
      /\ \A d \in seen[h] \cup carried[r] : d \in seen'[h] \/ <<h, d>> \in forgotten'
      /\ reported' \in [Spans -> SUBSET Requests]
      /\ \A d \in news : reported'[d] = reported[d] \cup {r}
      /\ \A d \in Spans \ news : reported'[d] = reported[d]
      /\ pc' \in [Requests -> {"new", "claiming", "done"}]
      /\ pc'[r] = "done" /\ \A q \in Requests \ {r} : pc'[q] = pc[q]
      /\ unsent' \in [Requests -> SUBSET Spans]
      /\ unsent'[r] = {} /\ \A q \in Requests \ {r} : unsent'[q] = unsent[q]
      /\ won' \in [Requests -> SUBSET Spans]
      /\ won'[r] = {} /\ \A q \in Requests \ {r} : won'[q] = won[q]
      /\ UNCHANGED <<carried, raced>>
  BY <1>0, ReportEffect
<1>2. TypeOK'
  BY <1>0, <1>1 DEF TypeOK
<1>3. \A d \in news : d \in carried[r] /\ d \notin seen[h] /\ d \in Spans
  BY <1>0 DEF Statuses, TypeOK
<1>4. MemoryInv'
  <2>1. \A d \in Spans : \A q \in reported'[d] :
           /\ pc'[q] = "done"
           /\ d \in seen'[Host[q]] \/ <<Host[q], d>> \in forgotten'
    <3> SUFFICES ASSUME NEW d \in Spans, NEW q \in reported'[d]
                 PROVE  /\ pc'[q] = "done"
                        /\ d \in seen'[Host[q]] \/ <<Host[q], d>> \in forgotten'
      OBVIOUS
    <3>1. CASE q = r /\ d \in news
      BY <3>1, <1>1, <1>3
    <3>2. CASE q \in reported[d]
      <4>1. /\ pc[q] = "done" /\ q # r /\ q \in Requests /\ Host[q] \in Pods
            /\ d \in seen[Host[q]] \/ <<Host[q], d>> \in forgotten
        BY <3>2, <1>0, ReportConstants DEF MemoryInv, TypeOK
      <4> QED
        BY <4>1, <1>1
    <3> QED
      BY <3>1, <3>2, <1>1
  <2>2. OncePerPodMemory'
    <3> SUFFICES ASSUME NEW d \in Spans, NEW a \in reported'[d], NEW b \in reported'[d],
                        Host[a] = Host[b], a # b
                 PROVE  <<Host[a], d>> \in forgotten'
      BY DEF OncePerPodMemory
    <3>1. CASE a \in reported[d] /\ b \in reported[d]
      BY <3>1, <1>0, <1>1 DEF MemoryInv, OncePerPodMemory
    <3>2. CASE d \in news /\ (a = r \/ b = r)
      <4>1. PICK q \in reported[d] : Host[q] = h /\ Host[a] = h
        BY <3>2, <1>1, <1>3
      <4>2. <<h, d>> \in forgotten
        BY <4>1, <3>2, <1>0, <1>3 DEF MemoryInv
      <4> QED
        BY <4>1, <4>2, <1>1
    <3> QED
      BY <3>1, <3>2, <1>1
  <2> QED
    BY <2>1, <2>2 DEF MemoryInv
<1>5. ClaimInv'
  <2>1. ASSUME NEW d \in Spans \ unsure'
        PROVE  /\ reported'[d] # {} => d \in shared
               /\ \A q \in Requests : d \in won'[q] =>
                     /\ d \in shared
                     /\ reported'[d] = {}
                     /\ \A s \in Requests : d \in won'[s] => s = q
    <3>1. d \in Spans \ unsure
      OBVIOUS
    <3>2. d \in news => d \in won[r]
      OBVIOUS
    <3> QED
      BY <3>1, <3>2, <1>0, <1>1 DEF ClaimInv
  <2> QED
    BY <2>1, <1>0, <1>1 DEF ClaimInv
<1>6. TraceInv'
  <2> SUFFICES ASSUME NEW d \in Spans \ (lost' \cup raced')
               PROVE  /\ Traced(d)' => Told(d)'
                      /\ \A a, b \in Requests :
                            /\ pc'[a] = "claiming" /\ pc'[b] = "claiming" /\ Host[a] = Host[b]
                            /\ d \in carried'[a] /\ d \in carried'[b]
                            => a = b
    BY DEF TraceInv
  <2>1. /\ d \in Spans \ (lost \cup raced)
        /\ Traced(d) => Told(d)
        /\ \A a, b \in Requests :
              /\ pc[a] = "claiming" /\ pc[b] = "claiming" /\ Host[a] = Host[b]
              /\ d \in carried[a] /\ d \in carried[b]
              => a = b
    BY <1>0, <1>1 DEF TraceInv
  <2>2. \A a, b \in Requests :
           /\ pc'[a] = "claiming" /\ pc'[b] = "claiming" /\ Host[a] = Host[b]
           /\ d \in carried'[a] /\ d \in carried'[b]
           => a = b
    BY <2>1, <1>1
  <2>3. Told(d) => Told(d)'
    <3>1. CASE reported[d] # {}
      BY <3>1, <1>1 DEF Told
    <3>2. ASSUME NEW q \in Requests, pc[q] = "claiming", d \in won[q], d \notin seen[Host[q]]
          PROVE  Told(d)'
      <4>1. d \in carried[q] /\ Host[q] \in Pods
        BY <3>2, <1>0, ReportConstants DEF ClaimInv
      <4>2. CASE q = r
        <5>1. d \in Statuses(r, won[r])
          BY <4>1, <4>2, <3>2 DEF Statuses
        <5>2. d \in news
          BY <5>1, <4>1, <4>2, <3>2
        <5> QED
          BY <5>2, <1>1 DEF Told
      <4>3. CASE q # r
        <5>1. d \notin seen'[Host[q]]
          BY <4>1, <4>3, <3>2, <2>1, <1>1
        <5> QED
          BY <4>3, <5>1, <3>2, <1>1 DEF Told
      <4> QED
        BY <4>2, <4>3
    <3> QED
      BY <3>1, <3>2 DEF Told
  <2>4. ASSUME Traced(d)', ~Traced(d) PROVE Told(d)'
    <3>1. d \in carried[r]
      BY <2>4, <1>0, <1>1 DEF Traced, ClaimInv
    <3>2. d \in unsent[r] /\ d \notin seen[h]
      BY <3>1, <2>4, <1>0 DEF Traced
    <3>3. d \in news
      BY <3>1, <3>2
    <3> QED
      BY <3>3, <1>1 DEF Told
  <2> QED
    BY <2>1, <2>2, <2>3, <2>4
<1> QED
  BY <1>2, <1>4, <1>5, <1>6 DEF Inv

(* One lemma per action that is no report.                                 *)
LEMMA PrepareStep ==
    ASSUME Inv, NEW r \in Requests, NEW S \in SUBSET Spans, Prepare(r, S)
    PROVE  Inv'
<1>0. TypeOK /\ MemoryInv /\ ClaimInv /\ TraceInv
  BY DEF Inv
<1>1. TypeOK'
  BY <1>0 DEF Prepare, TypeOK
<1>2. MemoryInv'
  BY <1>0 DEF Prepare, MemoryInv, OncePerPodMemory, TypeOK
<1>3. ClaimInv'
  BY <1>0 DEF Prepare, ClaimInv, TypeOK
<1>4. TraceInv'
  <2> SUFFICES ASSUME NEW d \in Spans \ (lost' \cup raced')
               PROVE  /\ Traced(d)' => Told(d)'
                      /\ \A a, b \in Requests :
                            /\ pc'[a] = "claiming" /\ pc'[b] = "claiming" /\ Host[a] = Host[b]
                            /\ d \in carried'[a] /\ d \in carried'[b]
                            => a = b
    BY DEF TraceInv
  <2>1. d \in Spans \ (lost \cup raced)
    BY DEF Prepare
  <2>2. Traced(d)' => Traced(d)
    BY <1>0 DEF Prepare, Traced, TypeOK
  <2>3. Told(d) => Told(d)'
    BY <1>0 DEF Prepare, Told, TypeOK
  <2>4. \A a, b \in Requests :
           /\ pc[a] = "claiming" /\ pc[b] = "claiming" /\ Host[a] = Host[b]
           /\ d \in carried[a] /\ d \in carried[b]
           => a = b
    BY <1>0, <2>1 DEF TraceInv
  <2>5. d \in S => \A q \in Requests :
           pc[q] = "claiming" /\ Host[q] = Host[r] => d \notin carried[q]
    BY DEF Prepare
  <2>6. \A a \in Requests \ {r} : pc'[a] = pc[a] /\ carried'[a] = carried[a]
    BY <1>0 DEF Prepare, TypeOK
  <2>7. carried'[r] = S
    BY <1>0 DEF Prepare, TypeOK
  <2>8. \A a, b \in Requests :
           /\ pc'[a] = "claiming" /\ pc'[b] = "claiming" /\ Host[a] = Host[b]
           /\ d \in carried'[a] /\ d \in carried'[b]
           => a = b
    BY <2>4, <2>5, <2>6, <2>7
  <2> QED
    BY <1>0, <2>1, <2>2, <2>3, <2>8 DEF TraceInv
<1> QED
  BY <1>1, <1>2, <1>3, <1>4 DEF Inv

(* A claim preserves the invariant,                                        *)
LEMMA ClaimStep ==
    ASSUME Inv, NEW r \in Requests, NEW c \in Spans, Claim(r, c)
    PROVE  Inv'
<1>0. TypeOK /\ MemoryInv /\ ClaimInv /\ TraceInv
  BY DEF Inv
<1>1. /\ pc[r] = "claiming" /\ c \in unsent[r] /\ c \in carried[r]
      /\ unsent' = [unsent EXCEPT ![r] = @ \ {c}]
      /\ won' = [won EXCEPT ![r] = IF c \in shared THEN @ ELSE @ \cup {c}]
      /\ shared' = shared \cup {c}
      /\ UNCHANGED <<orphans, seen, pc, carried, reported, unsure, lost, raced, forgotten>>
  BY <1>0 DEF Claim, ClaimInv, history
<1>2. TypeOK'
  BY <1>0, <1>1 DEF TypeOK
<1>3. MemoryInv'
  BY <1>0, <1>1 DEF MemoryInv, OncePerPodMemory
<1>4. /\ \A q \in Requests \ {r} : won'[q] = won[q] /\ unsent'[q] = unsent[q]
      /\ won'[r] = IF c \in shared THEN won[r] ELSE won[r] \cup {c}
      /\ unsent'[r] = unsent[r] \ {c}
  BY <1>0, <1>1 DEF TypeOK
<1>5. ClaimInv'
  BY <1>0, <1>1, <1>4 DEF ClaimInv
<1>6. TraceInv'
  <2> SUFFICES ASSUME NEW d \in Spans \ (lost \cup raced)
               PROVE  Traced(d)' => Told(d)'
    BY <1>0, <1>1 DEF TraceInv
  <2>1. Told(d) => Told(d)'
    BY <1>1, <1>4 DEF Told
  <2>2. CASE Traced(d)
    BY <1>0, <2>1, <2>2 DEF TraceInv
  <2>3. ASSUME ~Traced(d), Traced(d)' PROVE Told(d)'
    <3>1. d = c
      BY <2>3, <1>1, <1>4 DEF Traced
    <3>2. d \notin shared /\ d \notin seen[Host[r]]
      BY <2>3, ReportConstants DEF Traced
    <3> QED
      BY <3>1, <3>2, <1>1, <1>4 DEF Told
  <2> QED
    BY <2>2, <2>3
<1> QED
  BY <1>2, <1>3, <1>5, <1>6 DEF Inv

(* a claim that runs late does,                                            *)
LEMMA LateClaimStep ==
    ASSUME Inv, NEW c \in Spans, LateClaim(c)
    PROVE  Inv'
<1>0. TypeOK /\ MemoryInv /\ ClaimInv /\ TraceInv
  BY DEF Inv
<1>1. TypeOK' /\ MemoryInv'
  BY <1>0 DEF LateClaim, history, TypeOK, MemoryInv, OncePerPodMemory
<1>2. ClaimInv'
  BY <1>0 DEF LateClaim, history, ClaimInv
<1>3. \A d \in Spans : (Traced(d)' => Traced(d)) /\ (Told(d) => Told(d)')
  BY DEF LateClaim, history, Traced, Told
<1>4. TraceInv'
  BY <1>0, <1>3 DEF LateClaim, history, TraceInv
<1> QED
  BY <1>1, <1>2, <1>4 DEF Inv

(* a key that expires,                                                     *)
LEMMA ExpireStep ==
    ASSUME Inv, NEW c \in Spans, Expire(c)
    PROVE  Inv'
<1>0. TypeOK /\ MemoryInv /\ ClaimInv /\ TraceInv
  BY DEF Inv
<1>1. TypeOK' /\ MemoryInv'
  BY <1>0 DEF Expire, TypeOK, MemoryInv, OncePerPodMemory
<1>2. ClaimInv'
  BY <1>0 DEF Expire, ClaimInv
<1>3. \A d \in Spans : (Traced(d)' => Traced(d)) /\ (Told(d) => Told(d)')
  BY DEF Expire, Traced, Told
<1>4. TraceInv'
  BY <1>0, <1>3 DEF Expire, TraceInv
<1> QED
  BY <1>1, <1>2, <1>4 DEF Inv

(* a client that leaves,                                                   *)
LEMMA CancelledStep ==
    ASSUME Inv, NEW r \in Requests, Cancelled(r)
    PROVE  Inv'
<1>0. TypeOK /\ MemoryInv /\ ClaimInv /\ TraceInv
  BY DEF Inv
<1>1. TypeOK'
  BY <1>0 DEF Cancelled, TypeOK
<1>2. MemoryInv'
  BY <1>0 DEF Cancelled, MemoryInv, OncePerPodMemory, TypeOK
<1>3. /\ pc[r] = "claiming" /\ pc'[r] = "done" /\ won'[r] = {} /\ unsent'[r] = {}
      /\ \A q \in Requests \ {r} :
            pc'[q] = pc[q] /\ won'[q] = won[q] /\ unsent'[q] = unsent[q]
      /\ orphans' = orphans \cup unsent[r] /\ lost' = lost \cup carried[r]
      /\ UNCHANGED <<shared, seen, carried, reported, unsure, raced, forgotten>>
  BY <1>0 DEF Cancelled, TypeOK
<1>4. ClaimInv'
  BY <1>0, <1>3 DEF ClaimInv
<1>5. ASSUME NEW d \in Spans \ lost'
      PROVE  (Traced(d)' => Traced(d)) /\ (Told(d) => Told(d)')
  <2>1. d \notin carried[r] /\ d \notin unsent[r] /\ d \notin won[r]
    BY <1>0, <1>3 DEF ClaimInv
  <2> QED
    BY <1>3, <2>1 DEF Traced, Told
<1>6. TraceInv'
  BY <1>0, <1>3, <1>5 DEF TraceInv
<1> QED
  BY <1>1, <1>2, <1>4, <1>6 DEF Inv

(* and a pod that stops.                                                   *)
LEMMA CrashStep ==
    ASSUME Inv, NEW p \in Pods, Crash(p)
    PROVE  Inv'
<1> DEFINE cut == {r \in Requests : Host[r] = p /\ pc[r] = "claiming"}
<1>0. TypeOK /\ MemoryInv /\ ClaimInv /\ TraceInv
  BY DEF Inv
<1>1. /\ seen' = [seen EXCEPT ![p] = {}]
      /\ forgotten' = forgotten \cup ({p} \X seen[p])
      /\ pc' = [r \in Requests |-> IF r \in cut THEN "done" ELSE pc[r]]
      /\ unsent' = [r \in Requests |-> IF r \in cut THEN {} ELSE unsent[r]]
      /\ won' = [r \in Requests |-> IF r \in cut THEN {} ELSE won[r]]
      /\ orphans \subseteq orphans' /\ orphans' \subseteq orphans \cup UNION {unsent[r] : r \in cut}
      /\ lost' = lost \cup UNION {carried[r] : r \in cut}
      /\ UNCHANGED <<shared, carried, reported, unsure, raced>>
  BY DEF Crash
<1>2. \A r \in cut : unsent[r] \subseteq carried[r] /\ carried[r] \in SUBSET Spans
  BY <1>0 DEF ClaimInv, TypeOK
<1>3. /\ seen'[p] = {} /\ \A q \in Pods \ {p} : seen'[q] = seen[q]
      /\ seen' \in [Pods -> SUBSET Spans]
  BY <1>0, <1>1 DEF TypeOK
<1>4. TypeOK'
  <2>1. \A q \in Pods : Cardinality(seen'[q]) <= SeenCap
    <3>1. Cardinality(seen'[p]) = 0 /\ 0 <= SeenCap
      BY <1>3, FS_EmptySet, ReportConstants
    <3> QED
      BY <1>0, <1>3, <3>1 DEF TypeOK
  <2>2. orphans' \subseteq Spans /\ lost' \subseteq Spans
    BY <1>0, <1>1, <1>2 DEF TypeOK
  <2>3. forgotten' \subseteq Pods \X Spans
    BY <1>0, <1>1 DEF TypeOK
  <2> QED
    BY <1>0, <1>1, <1>3, <2>1, <2>2, <2>3 DEF TypeOK
<1>5. MemoryInv'
  <2>1. \A d \in Spans : \A r \in reported[d] :
           /\ pc'[r] = "done"
           /\ d \in seen'[Host[r]] \/ <<Host[r], d>> \in forgotten'
    <3> SUFFICES ASSUME NEW d \in Spans, NEW r \in reported[d]
                 PROVE  /\ pc'[r] = "done"
                        /\ d \in seen'[Host[r]] \/ <<Host[r], d>> \in forgotten'
      OBVIOUS
    <3>1. r \in Requests /\ Host[r] \in Pods /\ pc[r] = "done"
          /\ (d \in seen[Host[r]] \/ <<Host[r], d>> \in forgotten)
      BY <1>0, ReportConstants DEF TypeOK, MemoryInv
    <3> QED
      BY <3>1, <1>1, <1>3
  <2>2. OncePerPodMemory'
    BY <1>0, <1>1 DEF MemoryInv, OncePerPodMemory
  <2> QED
    BY <1>1, <2>1, <2>2 DEF MemoryInv
<1>6. ClaimInv'
  BY <1>0, <1>1 DEF ClaimInv
<1>7. ASSUME NEW d \in Spans \ lost'
      PROVE  (Traced(d)' => Traced(d)) /\ (Told(d) => Told(d)')
  <2>1. \A r \in cut : d \notin carried[r] /\ d \notin unsent[r] /\ d \notin won[r]
    BY <1>0, <1>1, <1>2 DEF ClaimInv
  <2>2. Traced(d)' => Traced(d)
    BY <1>1, <1>3, <2>1 DEF Traced
  <2>3. \A r \in Requests : Host[r] \in Pods
    BY ReportConstants
  <2>4. Told(d) => Told(d)'
    BY <1>1, <1>3, <2>1, <2>3 DEF Told
  <2> QED
    BY <2>2, <2>4
<1>8. TraceInv'
  BY <1>0, <1>1, <1>7 DEF TraceInv
<1> QED
  BY <1>4, <1>5, <1>6, <1>8 DEF Inv

(* Every step preserves the invariant.                                     *)
LEMMA InvStep == Inv /\ [Next]_vars => Inv'
<1> SUFFICES ASSUME Inv, [Next]_vars PROVE Inv'
  OBVIOUS
<1>0. TypeOK /\ MemoryInv /\ ClaimInv /\ TraceInv
  BY DEF Inv
<1>1. ASSUME NEW r \in Requests, Replied(r) PROVE Inv'
  <2> DEFINE news == Statuses(r, won[r])
  <2>1. news \in SUBSET Statuses(r, carried[r]) /\ news \subseteq won[r]
    BY DEF Statuses
  <2>2. unsent[r] = {} /\ Report(r, news) /\ pc[r] = "claiming"
        /\ UNCHANGED <<shared, orphans, unsure, lost>>
    BY <1>1 DEF Replied
  <2> HIDE DEF news
  <2>3. \A d \in carried[r] : d \in news \/ d \notin Statuses(r, won[r])
    BY DEF news
  <2> QED
    BY <1>0, <2>1, <2>2, <2>3, ReportStep DEF TypeOK
<1>2. ASSUME NEW r \in Requests, Errored(r) PROVE Inv'
  <2>1. PICK news \in SUBSET Statuses(r, won[r]) :
           Report(r, news) /\ lost' = lost \cup (Statuses(r, won[r]) \ news)
    BY <1>2 DEF Errored
  <2>2. news \in SUBSET Statuses(r, carried[r]) /\ news \subseteq won[r]
    BY DEF Statuses
  <2>3. unsent[r] = {} /\ pc[r] = "claiming" /\ UNCHANGED <<shared, orphans, unsure>>
    BY <1>2 DEF Errored
  <2>4. lost' \in SUBSET Spans
    BY <1>0, <2>1 DEF Statuses, TypeOK
  <2>5. \A d \in carried[r] \ lost' : d \in news \/ d \notin Statuses(r, won[r])
    BY <2>1
  <2> QED
    BY <1>0, <2>1, <2>2, <2>3, <2>4, <2>5, ReportStep
<1>3. ASSUME NEW r \in Requests, Unanswered(r) PROVE Inv'
  <2> DEFINE news == Statuses(r, carried[r])
  <2>1. PICK late \in SUBSET unsent[r] : orphans' = orphans \cup late
    BY <1>3 DEF Unanswered
  <2>2. Report(r, news) /\ pc[r] = "claiming" /\ unsure' = unsure \cup carried[r]
        /\ UNCHANGED <<shared, lost>>
    BY <1>3 DEF Unanswered
  <2>3. \A d \in carried[r] : d \in news \/ d \in seen[Host[r]]
    BY DEF Statuses
  <2>4. news \subseteq carried[r]
    BY DEF Statuses
  <2> HIDE DEF news
  <2>5. news \in SUBSET Statuses(r, carried[r])
    BY DEF news
  <2> QED
    BY <1>0, <2>1, <2>2, <2>3, <2>4, <2>5, ReportStep DEF TypeOK
<1>4. CASE UNCHANGED vars
  <2>1. TypeOK' /\ MemoryInv' /\ ClaimInv'
    BY <1>0, <1>4 DEF vars, history, TypeOK, MemoryInv, OncePerPodMemory, ClaimInv
  <2>2. TraceInv'
    BY <1>0, <1>4 DEF vars, history, TraceInv, Traced, Told
  <2> QED
    BY <2>1, <2>2 DEF Inv
<1> QED
  BY <1>1, <1>2, <1>3, <1>4, PrepareStep, ClaimStep, LateClaimStep, ExpireStep,
     CancelledStep, CrashStep DEF Next
-----------------------------------------------------------------------------
(* The invariants hold for any pods, requests, spans, cap and faults.      *)
THEOREM Invariant == Spec => []Inv
BY InitInv, InvStep, PTL DEF Spec

(* Types, and the cap on a pod's memory.                                   *)
THEOREM TypeCorrect == Spec => []TypeOK
<1>1. Inv => TypeOK
  BY DEF Inv
<1> QED
  BY <1>1, Invariant, PTL

(* A pod reports a span again only after it forgot it.                     *)
THEOREM OncePerPod == Spec => []OncePerPodMemory
<1>1. Inv => OncePerPodMemory
  BY DEF Inv, MemoryInv
<1> QED
  BY <1>1, Invariant, PTL

(* Only a cut-short claim or two requests of one pod with the same span    *)
(* can keep a span from being reported.                                    *)
THEOREM FirstReportHolds == Spec => []FirstReportUnlessRaced
<1>1. Inv => FirstReportUnlessRaced
  <2> SUFFICES ASSUME Inv, NEW d \in Spans \ (lost \cup raced), Settled(d)
               PROVE  reported[d] # {}
    BY DEF FirstReportUnlessRaced
  <2>1. Traced(d)
    BY DEF Settled, Traced
  <2>2. Told(d)
    BY <2>1 DEF Inv, TraceInv
  <2>3. \A r \in Requests : pc[r] = "claiming" => d \notin won[r]
    BY DEF Settled, Inv, ClaimInv
  <2> QED
    BY <2>2, <2>3 DEF Told
<1> QED
  BY <1>1, Invariant, PTL

-----------------------------------------------------------------------------
(* A step is a step of FirstReport, with news the spans it reports, or     *)
(* leaves what FirstReport sees alone.                                     *)
Count == [d \in Spans |-> Cardinality(reported[d])]

(* A request that reports spans for the first time tells each of them once *)
(* more.                                                                   *)
LEMMA ReportCounts ==
    ASSUME TypeOK, NEW r \in Requests, NEW news \in SUBSET Spans,
           \A d \in Spans : r \notin reported[d],
           reported' = [d \in Spans |-> IF d \in news THEN reported[d] \cup {r} ELSE reported[d]],
           unsure \subseteq unsure', unsure' \subseteq Spans,
           \A d \in news : reported[d] = {} \/ d \in unsure'
    PROVE  Promise!Next
<1>1. \A d \in Spans : IsFiniteSet(reported[d]) /\ Cardinality(reported[d]) \in Nat
  BY ReportConstants, FS_Subset, FS_CardinalityType DEF TypeOK
<1>2. \A d \in news : Cardinality(reported'[d]) = Cardinality(reported[d]) + 1
  BY <1>1, FS_AddElement
<1>3. \A d \in Spans \ news : reported'[d] = reported[d]
  OBVIOUS
<1>4. Count' = [d \in Spans |-> IF d \in news THEN Count[d] + 1 ELSE Count[d]]
  BY <1>2, <1>3 DEF Count
<1>5. \A d \in news : Count[d] = 0 \/ d \in unsure'
  BY FS_EmptySet DEF Count
<1>6. Promise!Tell(news, unsure')
  BY <1>4, <1>5 DEF Promise!Tell, Count
<1> QED
  BY <1>6 DEF Promise!Next

(* The gating keeps the promise of at most one report.                     *)
THEOREM Implements == Spec => AtMostOneReport
<1>1. Init => Promise!Init
  BY FS_EmptySet DEF Init, Promise!Init
<1>2. Inv /\ [Next]_vars => [Promise!Next]_<<Count, unsure>>
  <2> SUFFICES ASSUME Inv, [Next]_vars PROVE Promise!Next \/ UNCHANGED <<Count, unsure>>
    OBVIOUS
  <2>0. TypeOK /\ MemoryInv /\ ClaimInv
    BY DEF Inv
  <2>1. ASSUME NEW r \in Requests, NEW news \in SUBSET Statuses(r, carried[r]),
               pc[r] = "claiming", Report(r, news),
               unsure \subseteq unsure', unsure' \subseteq Spans,
               \A d \in news : d \in won[r] \/ d \in unsure'
        PROVE  Promise!Next
    <3>1. news \in SUBSET Spans
      BY <2>0 DEF Statuses, TypeOK
    <3>2. \A d \in Spans : r \notin reported[d]
      BY <2>0, <2>1 DEF MemoryInv
    <3>3. \A d \in news : reported[d] = {} \/ d \in unsure'
      BY <2>0, <2>1, <3>1 DEF ClaimInv
    <3>4. reported' = [d \in Spans |-> IF d \in news THEN reported[d] \cup {r} ELSE reported[d]]
      BY <2>1 DEF Report
    <3> QED
      BY <2>0, <2>1, <3>1, <3>2, <3>3, <3>4, ReportCounts
  <2>2. ASSUME NEW r \in Requests, Replied(r) PROVE Promise!Next
    BY <2>0, <2>1, <2>2 DEF Replied, Statuses, TypeOK
  <2>3. ASSUME NEW r \in Requests, Errored(r) PROVE Promise!Next
    BY <2>0, <2>1, <2>3 DEF Errored, Statuses, TypeOK
  <2>4. ASSUME NEW r \in Requests, Unanswered(r) PROVE Promise!Next
    BY <2>0, <2>1, <2>4 DEF Unanswered, Statuses, TypeOK
  <2>5. ASSUME UNCHANGED reported, unsure \subseteq unsure', unsure' \subseteq Spans
        PROVE  Promise!Next
    <3>1. Count' = [d \in Spans |-> IF d \in {} THEN Count[d] + 1 ELSE Count[d]]
      BY <2>5 DEF Count
    <3>2. Promise!Tell({}, unsure')
      BY <3>1, <2>5 DEF Promise!Tell, Count
    <3> QED
      BY <3>2, <2>5 DEF Promise!Next
  <2>6. ASSUME NEW d \in Spans, Expire(d) PROVE Promise!Next
    BY <2>0, <2>5, <2>6 DEF Expire, TypeOK
  <2>7. ASSUME NEW r \in Requests,
               \/ \E S \in (SUBSET Spans) \ {{}} : Prepare(r, S)
               \/ \E d \in Spans : Claim(r, d)
               \/ Cancelled(r)
        PROVE  UNCHANGED <<Count, unsure>>
    BY <2>7 DEF Prepare, Claim, Cancelled, history, Count
  <2>8. ASSUME NEW d \in Spans, LateClaim(d) PROVE UNCHANGED <<Count, unsure>>
    BY <2>8 DEF LateClaim, history, Count
  <2>9. ASSUME NEW p \in Pods, Crash(p) PROVE UNCHANGED <<Count, unsure>>
    BY <2>9 DEF Crash, Count
  <2>10. CASE UNCHANGED vars
    BY <2>10 DEF vars, history, Count
  <2> QED
    BY <2>2, <2>3, <2>4, <2>6, <2>7, <2>8, <2>9, <2>10 DEF Next
<1>3. [Promise!Next]_<<Count, unsure>>
        <=> [Promise!Next]_<<[d \in Spans |-> Cardinality(reported[d])], unsure>>
  BY DEF Count
<1> QED
  BY <1>1, <1>2, <1>3, Invariant, PTL DEF Spec, AtMostOneReport, Promise!Spec
=============================================================================
