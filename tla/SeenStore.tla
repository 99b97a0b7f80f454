----------------------------- MODULE SeenStore -----------------------------
(***************************************************************************)
(* First-report gating of the LiteLLM secrets guardrail with the SQLite    *)
(* store: _register_spans and _SeenStore of secrets_guardrail.py.  Memory  *)
(* (_SEEN_SPANS) alone decides whether a span was reported; a background   *)
(* task writes every digest to the table reported_spans, whose newest rows *)
(* refill the memory after a restart.                                      *)
(*                                                                         *)
(* Registering and queueing are one step of the event loop, so is each     *)
(* turn of the flush task; the write itself runs on a worker thread, or in *)
(* the exit handler once that thread is done.                              *)
(***************************************************************************)
EXTENDS Naturals, Sequences, FiniteSets

CONSTANTS
    Spans,          \* the spans that are redacted, by digest
    Texts,          \* the lists of distinct spans that texts contain
    SeenCap,        \* _SEEN_SPANS_CAP, 10000
    ReportedCap,    \* _REPORTED_CAP, 20000
    BatchSize,      \* 256
    Faults,         \* the kinds of fault that may happen
    MaxRegistered   \* bound: spans registered in all

ASSUME StoreConstants ==
    /\ IsFiniteSet(Spans)
    /\ Texts \subseteq Seq(Spans)
    /\ \A t \in Texts : \A i, j \in DOMAIN t : t[i] = t[j] => i = j
    /\ SeenCap \in Nat \ {0} /\ ReportedCap \in Nat /\ SeenCap <= ReportedCap
    /\ BatchSize \in Nat \ {0}
    /\ MaxRegistered \in Nat
    /\ Faults \subseteq {"write", "crash", "open"}

VARIABLES
    pc,         \* "up", "stopping" (the exit handler's turn) or "down"
    store,      \* the store is enabled and was opened (_db is not None)
    seen,       \* _SEEN_SPANS: the place of a span, newest highest, 0 if absent
    pending,    \* _pending
    flushing,   \* _flushing
    batch,      \* the digests being written
    last,       \* last_seen in the table, 0 without a row
    registered, \* how many spans were registered
    writes      \* how many batches were written

VARIABLES       \* history
    known,      \* the spans registered so far
    since,      \* since[d]: spans registered after d was, or written along with it
    lost        \* spans registered after what the table holds of them

history == <<known, since, lost>>
vars == <<pc, store, seen, pending, flushing, batch, last, registered, writes, history>>
-----------------------------------------------------------------------------
Elems(s) == {s[i] : i \in DOMAIN s}
Absent == [d \in Spans |-> 0]
Less(m, n) == IF m < n THEN m ELSE n

Entries(f) == {d \in Spans : f[d] # 0}

(* The choices of the n newest of the entries with places f.               *)
Newest(f, n) ==
    {K \in SUBSET Entries(f) :
        /\ Cardinality(K) = Less(n, Cardinality(Entries(f)))
        /\ \A d \in Entries(f) \ K, e \in K : f[d] <= f[e]}

Only(f, K) == [d \in Spans |-> IF d \in K THEN f[d] ELSE 0]

(* move_to_end, or insertion, of the spans of a text one after another.    *)
Placed(t) ==
    [d \in Spans |-> IF d \in Elems(t)
                     THEN Cardinality(Spans) + registered + (CHOOSE i \in DOMAIN t : t[i] = d)
                     ELSE seen[d]]

(* ORDER BY last_seen: rows of the same batch come in any order.           *)
Orders(f) ==
    {g \in [Spans -> 0..Cardinality(Spans)] :
        /\ \A d \in Spans : g[d] = 0 <=> f[d] = 0
        /\ \A d, e \in Spans : g[d] = g[e] /\ g[d] # 0 => d = e
        /\ \A d, e \in Spans : f[d] < f[e] => g[d] < g[e]}

NoRoomMade(q) == q

(* popleft while there are more than _SEEN_SPANS_CAP.                      *)
Queued(q) == SubSeq(q, 1 + (IF Len(q) > SeenCap THEN Len(q) - SeenCap ELSE 0), Len(q))

WokenNever == flushing

(* A flush task is started unless there is one.                            *)
Woken == TRUE

LoopOnce == FALSE

(* while True: the flush task looks for another batch.                     *)
LoopAgain == flushing
-----------------------------------------------------------------------------
Init ==
    /\ pc = "down"
    /\ store = FALSE
    /\ seen = Absent
    /\ pending = <<>>
    /\ flushing = FALSE
    /\ batch = {}
    /\ last = Absent
    /\ registered = 0
    /\ writes = 0
    /\ known = {}
    /\ since = [d \in Spans |-> {}]
    /\ lost = {}

(* The proxy starts: the newest rows refill the memory, newest last.       *)
Start ==
    /\ pc = "down"
    /\ pc' = "up"
    /\ store' = TRUE
    /\ \E g \in Orders(last) : \E K \in Newest(g, SeenCap) : seen' = Only(g, K)
    /\ UNCHANGED <<pending, flushing, batch, last, registered, writes, history>>

(* The store is switched off or cannot be opened: memory only.             *)
StartWithout ==
    /\ "open" \in Faults
    /\ pc = "down"
    /\ pc' = "up"
    /\ store' = FALSE
    /\ seen' = Absent
    /\ lost' = known
    /\ UNCHANGED <<pending, flushing, batch, last, registered, writes, known, since>>

(* _register_spans: those not in memory are reported, all are queued.      *)
Register(t) ==
    LET q == pending \o t IN
    /\ pc = "up"
    /\ registered + Len(t) <= MaxRegistered
    /\ registered' = registered + Len(t)
    /\ \E K \in Newest(Placed(t), SeenCap) : seen' = Only(Placed(t), K)
    /\ IF store THEN pending' = Queued(q) /\ flushing' = Woken
                ELSE UNCHANGED <<pending, flushing>>
    /\ known' = known \cup Elems(t)
    /\ since' = [d \in Spans |-> IF d \in Elems(t)
                                 THEN {t[j] : j \in {k \in DOMAIN t : \E i \in 1..(k - 1) : t[i] = d}}
                                 ELSE since[d] \cup Elems(t)]
    /\ lost' = (lost \ Elems(t)) \cup (IF store THEN Elems(q) \ Elems(pending') ELSE {})
    /\ UNCHANGED <<pc, store, batch, last, writes>>

(* _flush, or the exit handler _flush_sync, takes the next batch.          *)
Take ==
    /\ (pc = "up" /\ flushing) \/ pc = "stopping"
    /\ batch = {}
    /\ pending # <<>>
    /\ LET n == Less(BatchSize, Len(pending)) IN
       /\ batch' = Elems(SubSeq(pending, 1, n))
       /\ pending' = SubSeq(pending, n + 1, Len(pending))
    /\ UNCHANGED <<pc, store, seen, flushing, last, registered, writes, history>>

(* There is none: the flush task ends.                                     *)
Idle ==
    /\ pc = "up" /\ flushing
    /\ batch = {}
    /\ pending = <<>>
    /\ flushing' = FALSE
    /\ UNCHANGED <<pc, store, seen, pending, batch, last, registered, writes, history>>

(* The table with the batch written, before old rows go.                   *)
Upserted == [d \in Spans |-> IF d \in batch THEN writes + 1 ELSE last[d]]

(* _persist: the transaction commits.                                      *)
Commit ==
    /\ batch # {}
    /\ writes' = writes + 1
    /\ \E K \in Newest(Upserted, ReportedCap) : last' = Only(Upserted, K)
    /\ batch' = {}
    /\ flushing' = LoopAgain
    /\ since' = [d \in Spans |-> IF d \in batch THEN since[d] \cup (batch \ {d}) ELSE since[d]]
    /\ UNCHANGED <<pc, store, seen, pending, registered, known, lost>>

(* It raises, which is logged: the batch is gone.                          *)
WriteFails ==
    /\ "write" \in Faults
    /\ batch # {}
    /\ batch' = {}
    /\ flushing' = LoopAgain
    /\ lost' = lost \cup (batch \ Elems(pending))
    /\ UNCHANGED <<pc, store, seen, pending, last, registered, writes, known, since>>

(* The event loop ends and with it the flush task.  A thread that writes   *)
(* is waited for; then the exit handler takes over.                        *)
Stop ==
    /\ pc = "up"
    /\ pc' = "stopping"
    /\ flushing' = FALSE
    /\ UNCHANGED <<store, seen, pending, batch, last, registered, writes, history>>

(* The process ends, without the spans of D.                               *)
Ends(D) ==
    /\ pc' = "down"
    /\ store' = FALSE
    /\ seen' = Absent
    /\ pending' = <<>>
    /\ batch' = {}
    /\ flushing' = FALSE
    /\ lost' = lost \cup D \cup (IF store THEN {} ELSE known)
    /\ UNCHANGED <<last, registered, writes, known, since>>

ExitAtOnce ==
    /\ pc = "stopping"
    /\ batch = {}
    /\ Ends({})

(* The exit handler found nothing more to write.                           *)
Exit ==
    /\ pc = "stopping"
    /\ batch = {}
    /\ pending = <<>>
    /\ Ends({})

(* The process is killed.                                                  *)
Crash ==
    /\ "crash" \in Faults
    /\ pc # "down"
    /\ Ends(Elems(pending) \cup batch)

Next ==
    \/ Start
    \/ StartWithout
    \/ \E t \in Texts : Register(t)
    \/ Take
    \/ Idle
    \/ Commit
    \/ WriteFails
    \/ Stop
    \/ Exit
    \/ Crash

Spec == Init /\ [][Next]_vars

(* The event loop gives the flush task its turns, and a write ends.        *)
FairSpec ==
    /\ Spec
    /\ WF_vars(Take \/ Idle)
    /\ WF_vars(Commit \/ WriteFails)
-----------------------------------------------------------------------------
(* Every variable stays in its domain; memory, queue and table within      *)
(* their caps.                                                             *)
TypeOK ==
    /\ pc \in {"up", "stopping", "down"}
    /\ store \in BOOLEAN
    /\ seen \in [Spans -> Nat]
    /\ Cardinality(Entries(seen)) <= SeenCap
    /\ pending \in Seq(Spans)
    /\ Len(pending) <= SeenCap
    /\ flushing \in BOOLEAN
    /\ batch \subseteq Spans
    /\ last \in [Spans -> Nat]
    /\ Cardinality(Entries(last)) <= ReportedCap
    /\ registered \in 0..MaxRegistered
    /\ writes \in Nat
    /\ known \subseteq Spans
    /\ since \in [Spans -> SUBSET Spans]
    /\ lost \subseteq Spans

(* "A pod restart does not re-report known spans": a span is out of memory *)
(* (so that it would be reported again) only if as many other spans as the *)
(* memory holds were registered since it last was, or stored with it; or   *)
(* if its last registration never reached the table, through a crash, a    *)
(* failed write, a full queue or a missing store.  An orderly exit loses   *)
(* nothing, however often the process restarts.                            *)
ForgottenLast ==
    pc # "down" =>
        \A d \in known \ lost : seen[d] = 0 => Cardinality(since[d]) >= SeenCap

(* No digest waits without a flush task that will take it: the task that   *)
(* ends leaves an empty queue, and whoever queues later starts another.    *)
NothingStranded == pc = "up" /\ pending # <<>> => flushing

(* Every queued digest leaves the queue (each is queued finitely often),   *)
(* for a batch of its own or with the process.                             *)
Drained == \A d \in Spans : (d \in Elems(pending)) ~> (d \notin Elems(pending))
=============================================================================
