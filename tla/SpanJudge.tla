----------------------------- MODULE SpanJudge -----------------------------
(***************************************************************************)
(* The span judge of the LiteLLM secrets guardrail, class _SpanJudge of    *)
(* secrets_guardrail.py, as one proxy pod runs it with the Valkey store    *)
(* that helmrelease.yaml selects.                                          *)
(*                                                                         *)
(* Requests are coroutines of one event loop: everything between two       *)
(* awaits is one action.  HTTP calls and store calls run in worker threads *)
(* and are steps of their own.  A digest stands for a span in its context: *)
(* spans over _JUDGE_MAX_SPAN are never collected and are not in Digests.  *)
(*                                                                         *)
(* Time is kept as what is left of each period (Tick lets one unit pass),  *)
(* so that no clock grows without bound.                                   *)
(***************************************************************************)
EXTENDS Naturals, Sequences, FiniteSets

CONSTANTS
    Digests,        \* the judgeable spans, by scoped digest
    Requests,       \* concurrent request coroutines
    Inputs,         \* the sets of spans a request may carry
    Foreign,        \* the spans that other pods judge too
    Cap,            \* judge tasks at once (MAX_INFLIGHT)
    QueueCap,       \* _JUDGE_QUEUE_CAP
    QueueTTL,       \* _JUDGE_QUEUE_TTL_S
    RetryAfter,     \* _JUDGE_RETRY_AFTER_S
    PauseAfter,     \* _JUDGE_PAUSE_AFTER_S
    PauseFailures,  \* _JUDGE_PAUSE_FAILURES
    OverlayCap,     \* _JUDGE_OVERLAY_CAP, for the overlay and for the backoff
    TTL,            \* TTL[v]: how long verdict v stays valid
    WaitBudget,     \* JUDGE_WAIT_SECONDS, the wait one request may spend
    CancelAt        \* the states in which its client may give a request up

Verdicts == {"pass", "redact"}

ASSUME JudgeConstants ==
    /\ IsFiniteSet(Digests)
    /\ Inputs \subseteq (SUBSET Digests) \ {{}}
    /\ Foreign \subseteq Digests
    /\ Cap \in Nat \ {0}
    /\ {QueueCap, QueueTTL, RetryAfter, PauseAfter, PauseFailures} \subseteq Nat \ {0}
    /\ OverlayCap \in Nat \ {0}
    /\ TTL \in [Verdicts -> Nat \ {0}]
    /\ WaitBudget \in Nat
    /\ CancelAt \subseteq {"loading", "waiting", "deciding"}

VARIABLES
    queue,      \* _candidates, oldest first
    task,       \* task[d]: where the _judge_one task of d is, "idle" if none
    answer,     \* answer[d]: the verdict that task is storing
    backoff,    \* backoff[d]: time left before d may be queued again
    pause,      \* time left of the global pause
    failures,   \* consecutive failures, saturating at PauseFailures
    overlay,    \* _overlay: verdicts in this pod's memory
    store       \* Valkey, shared with other pods; survives a restart

judgeVars == <<queue, task, answer, backoff, pause, failures>>
cacheVars == <<overlay, store>>

VARIABLES
    pc,         \* pc[r]: "idle", "loading", "waiting" or "deciding"
    want,       \* want[r]: the judgeable spans of the request
    fetched,    \* fetched[r]: what load_verdicts read, until it is applied
    pending,    \* pending[r]: the undecided spans it waits for
    budget,     \* budget[r]: time left of its wait
    woken,      \* requests whose awaited _changed event was set
    decision    \* decision[r]: its snapshot of the verdicts (judge_decisions)

requestVars == <<pc, want, fetched, pending, budget, woken, decision>>

VARIABLE passWritten  \* history: digests for which the store took a "pass"

vars == <<judgeVars, cacheVars, requestVars, passWritten>>
-----------------------------------------------------------------------------
NoEntry == [verdict |-> "none", left |-> 0]
MaxTTL == IF TTL["pass"] > TTL["redact"] THEN TTL["pass"] ELSE TTL["redact"]
Expired == [verdict |-> "expired", left |-> 0]
Entries == {e \in [verdict : Verdicts, left : 1..MaxTTL] : e.left <= TTL[e.verdict]}
               \cup {NoEntry, Expired}
Candidates == [digest : Digests, life : 0..QueueTTL]

Less1(n) == IF n = 0 THEN 0 ELSE n - 1
Fresh(o, d) == o[d].left > 0
Cached(o) == {d \in Digests : o[d].verdict # "none"}
Busy(t) == {d \in Digests : t[d] # "idle"}
inflight == Busy(task)
Elems(q) == {q[i].digest : i \in DOMAIN q}

NoRepeats(q) == \A i, j \in DOMAIN q : q[i].digest = q[j].digest => i = j

(* One of the orders in which a request's text can mention the spans of S. *)
Orderings(S) ==
    {s \in [1..Cardinality(S) -> S] : \A i, j \in DOMAIN s : s[i] = s[j] => i = j}

(* popitem(last=False) until the cap is met.  The code drops the least     *)
(* recently used entries; here any entry but those of keep may go.         *)
Evict(o, keep) ==
    LET over == IF Cardinality(Cached(o)) > OverlayCap
                THEN Cardinality(Cached(o)) - OverlayCap ELSE 0
        victims == {V \in SUBSET (Cached(o) \ keep) : Cardinality(V) = over}
    IN  {[d \in Digests |-> IF d \in V THEN NoEntry ELSE o[d]] : V \in victims}

(* A lookup of an expired entry deletes it.                                *)
Looked(o, S) == [d \in Digests |-> IF d \in S /\ ~Fresh(o, d) THEN NoEntry ELSE o[d]]

(* _prune: the expired head of the queue, n candidates long, is dropped.   *)
DeadPrefix(n) ==
    /\ \A i \in 1..n : queue[i].life = 0
    /\ n < Len(queue) => queue[n + 1].life > 0
Pruned(n) == SubSeq(queue, n + 1, Len(queue))

(* schedule: of the first k candidates those with no fresh verdict start.  *)
Started(q, o, k) == {q[i].digest : i \in {j \in 1..k : ~Fresh(o, q[j].digest)}}

TakesOneTooMany(q, busy, o, p, k) ==
    /\ \A j \in 0..(k - 1) : p = 0 /\ Cardinality(busy \cup Started(q, o, j)) <= Cap
    /\ \/ k = Len(q)
       \/ p > 0
       \/ Cardinality(busy \cup Started(q, o, k)) > Cap

(* k is the number of candidates the loop of schedule pops.                *)
Takes(q, busy, o, p, k) ==
    /\ \A j \in 0..(k - 1) : p = 0 /\ Cardinality(busy \cup Started(q, o, j)) < Cap
    /\ \/ k = Len(q)
       \/ p > 0
       \/ Cardinality(busy \cup Started(q, o, k)) >= Cap

Dispatch(q, t, o, p) ==
    \E k \in 0..Len(q) :
        /\ Takes(q, Busy(t), o, p, k)
        /\ queue' = SubSeq(q, k + 1, Len(q))
        /\ task' = [d \in Digests |-> IF d \in Started(q, o, k) THEN "asking" ELSE t[d]]

Schedule(t, o, p) ==
    \E n \in 0..Len(queue) : DeadPrefix(n) /\ Dispatch(Pruned(n), t, o, p)

AdmissibleIfNotQueued(S, live) ==
    {d \in S : d \notin Elems(live) /\ pause = 0 /\ backoff[d] = 0}

AdmissibleDespiteBackoff(S, live) ==
    {d \in S : d \notin inflight \cup Elems(live) /\ pause = 0}

(* collect: which spans of S may join the queue live.                      *)
Admissible(S, live) ==
    {d \in S : /\ d \notin inflight \cup Elems(live)
               /\ pause = 0
               /\ backoff[d] = 0}

(* The queue after the spans that fit of order joined it.                  *)
Joined(live, order) ==
    LET room == IF Len(live) < QueueCap THEN QueueCap - Len(live) ELSE 0
        n == IF Len(order) < room THEN Len(order) ELSE room
    IN  live \o [i \in 1..n |-> [digest |-> order[i], life |-> QueueTTL]]

(* What wait goes on waiting for.                                          *)
Unsettled(S, t, q, p) ==
    {d \in S : t[d] # "idle" \/ (d \in Elems(q) /\ p = 0)}
-----------------------------------------------------------------------------
Init ==
    /\ queue = <<>>
    /\ task = [d \in Digests |-> "idle"]
    /\ answer = [d \in Digests |-> NoEntry]
    /\ backoff = [d \in Digests |-> 0]
    /\ pause = 0
    /\ failures = 0
    /\ overlay = [d \in Digests |-> NoEntry]
    /\ store = [d \in Digests |-> NoEntry]
    /\ pc = [r \in Requests |-> "idle"]
    /\ want = [r \in Requests |-> {}]
    /\ fetched = [r \in Requests |-> [d \in Digests |-> NoEntry]]
    /\ pending = [r \in Requests |-> {}]
    /\ budget = [r \in Requests |-> 0]
    /\ woken = {}
    /\ decision = [r \in Requests |-> [d \in Digests |-> "none"]]
    /\ passWritten = {}

(* A request with the spans S arrives; load_shared sends its reads.  The   *)
(* reply holds the verdicts valid at the store, or nothing when the store  *)
(* is down (the exception is logged).                                      *)
Begin(r, S) ==
    /\ pc[r] = "idle"
    /\ pc' = [pc EXCEPT ![r] = "loading"]
    /\ want' = [want EXCEPT ![r] = S]
    /\ \E R \in {S, {}} :
          fetched' = [fetched EXCEPT
                        ![r] = [d \in Digests |-> IF d \in R THEN store[d] ELSE NoEntry]]
    /\ UNCHANGED <<judgeVars, cacheVars, pending, budget, woken, decision, passWritten>>

(* The snapshot of verdicts taken when the wait is over, over overlay o.   *)
Snapshot(r, o) ==
    /\ overlay' = Looked(o, want[r])
    /\ decision' = [decision EXCEPT
                      ![r] = [d \in Digests |-> IF d \in want[r] /\ Fresh(o, d)
                                                THEN o[d].verdict ELSE "none"]]
    /\ pending' = [pending EXCEPT ![r] = {}]
    /\ budget' = [budget EXCEPT ![r] = 0]
    /\ woken' = woken \ {r}
    /\ pc' = [pc EXCEPT ![r] = "deciding"]

Wait(r, o, S, b) ==
    /\ overlay' = Looked(o, want[r])
    /\ pending' = [pending EXCEPT ![r] = S]
    /\ budget' = [budget EXCEPT ![r] = b]
    /\ pc' = [pc EXCEPT ![r] = "waiting"]
    /\ UNCHANGED <<decision, woken>>

(* The end of _await_judge, with the queue q in which the request has the  *)
(* spans of collected.  It returns at once if there is none, or if an      *)
(* earlier stage of the request used its budget up (judge_wait_deadline);  *)
(* otherwise it schedules and, with what is left of the budget, waits.     *)
Settle(r, o, q, collected) ==
    \/ /\ collected = {} \/ WaitBudget > 0
       /\ queue' = q
       /\ task' = task
       /\ Snapshot(r, o)
    \/ /\ collected # {}
       /\ Dispatch(q, task, o, pause)
       /\ IF WaitBudget > 0 /\ Unsettled(collected, task', queue', pause) # {}
          THEN \E b \in 1..WaitBudget : Wait(r, o, collected, b)
          ELSE Snapshot(r, o)

(* _await_judge from the load_shared reply to its own wait: apply what was *)
(* read, look every span up, collect the undecided ones, settle.           *)
AwaitJudge(r) ==
    /\ pc[r] = "loading"
    /\ \E o \in Evict([d \in Digests |-> IF fetched[r][d] # NoEntry THEN fetched[r][d]
                                                                   ELSE overlay[d]], {}),
          n \in 0..Len(queue) :
          LET undecided == {d \in want[r] : ~Fresh(o, d)} IN
          /\ IF undecided = {} THEN n = 0 ELSE DeadPrefix(n)
          /\ \E order \in Orderings(Admissible(undecided, Pruned(n))) :
                LET q == Joined(Pruned(n), order)
                IN  Settle(r, o, q, undecided \cap (inflight \cup Elems(q)))
    /\ fetched' = [fetched EXCEPT ![r] = [d \in Digests |-> NoEntry]]
    /\ UNCHANGED <<answer, backoff, pause, failures, store, want, passWritten>>

(* The event was set but something is still unsettled: wait again.         *)
WaitAgain(r) ==
    /\ pc[r] = "waiting"
    /\ r \in woken
    /\ budget[r] > 0
    /\ Unsettled(pending[r], task, queue, pause) # {}
    /\ woken' = woken \ {r}
    /\ UNCHANGED <<judgeVars, cacheVars, pc, want, fetched, pending, budget,
                   decision, passWritten>>

ResumeWithoutDeadline(r) ==
    /\ pc[r] = "waiting"
    /\ r \in woken /\ Unsettled(pending[r], task, queue, pause) = {}
    /\ Snapshot(r, overlay)
    /\ UNCHANGED <<judgeVars, store, want, fetched, passWritten>>

(* The wait ends: everything settled, or the deadline passed.              *)
Resume(r) ==
    /\ pc[r] = "waiting"
    /\ \/ budget[r] = 0
       \/ r \in woken /\ Unsettled(pending[r], task, queue, pause) = {}
    /\ Snapshot(r, overlay)
    /\ UNCHANGED <<judgeVars, store, want, fetched, passWritten>>

(* _process, after the report claim was awaited: a span whose snapshot is  *)
(* "pass" is sent verbatim, the others are redacted, the undecided ones    *)
(* are collected and the judge is scheduled.                               *)
Process(r) ==
    /\ pc[r] = "deciding"
    /\ \E n \in 0..Len(queue) :
          LET undecided == {d \in want[r] : decision[r][d] = "none"} IN
          /\ DeadPrefix(n)
          /\ \E order \in Orderings(Admissible(undecided, Pruned(n))) :
                Dispatch(Joined(Pruned(n), order), task, overlay, pause)
    /\ pc' = [pc EXCEPT ![r] = "idle"]
    /\ want' = [want EXCEPT ![r] = {}]
    /\ decision' = [decision EXCEPT ![r] = [d \in Digests |-> "none"]]
    /\ UNCHANGED <<answer, backoff, pause, failures, cacheVars, fetched, pending,
                   budget, woken, passWritten>>

(* The client goes away: its request is cancelled at the await it is in.   *)
Cancel(r) ==
    /\ pc[r] \in CancelAt
    /\ pc' = [pc EXCEPT ![r] = "idle"]
    /\ want' = [want EXCEPT ![r] = {}]
    /\ fetched' = [fetched EXCEPT ![r] = [d \in Digests |-> NoEntry]]
    /\ pending' = [pending EXCEPT ![r] = {}]
    /\ budget' = [budget EXCEPT ![r] = 0]
    /\ woken' = woken \ {r}
    /\ decision' = [decision EXCEPT ![r] = [d \in Digests |-> "none"]]
    /\ UNCHANGED <<judgeVars, cacheVars, passWritten>>
-----------------------------------------------------------------------------
(* _judge_one: the backend answers with an exact PASS or REDACT.           *)
Answer(d, v) ==
    /\ task[d] = "asking"
    /\ task' = [task EXCEPT ![d] = "storing"]
    /\ answer' = [answer EXCEPT ![d] = [verdict |-> v, left |-> TTL[v]]]
    /\ UNCHANGED <<queue, backoff, pause, failures, cacheVars, requestVars, passWritten>>

LivesOn(e) == {e.left + 1}

(* math.ceil(expires - time.time()): what is left of the verdict, in whole *)
(* seconds, may reach into one more unit of time, but a verdict's life is  *)
(* a number of whole seconds too.                                          *)
Lives(e) == {n \in {e.left, e.left + 1} : n <= TTL[e.verdict]}

(* The worker thread writes the verdict; an expired one is not written.    *)
WriteVerdict(d) ==
    /\ task[d] = "storing"
    /\ task' = [task EXCEPT ![d] = "stored"]
    /\ IF Fresh(answer, d)
       THEN /\ \E n \in Lives(answer[d]) :
                  store' = [store EXCEPT ![d] = [answer[d] EXCEPT !.left = n]]
            /\ passWritten' = IF answer[d].verdict = "pass"
                              THEN passWritten \cup {d} ELSE passWritten
       ELSE UNCHANGED <<store, passWritten>>
    /\ UNCHANGED <<queue, answer, backoff, pause, failures, overlay, requestVars>>

FinishWithoutSchedule(d, o, p) ==
    /\ answer' = [answer EXCEPT ![d] = NoEntry]
    /\ woken' = {r \in Requests : pc[r] = "waiting"}
    /\ task' = [task EXCEPT ![d] = "idle"]
    /\ UNCHANGED queue

(* The finally clause: free the slot, wake every waiter, schedule.         *)
Finish(d, o, p) ==
    /\ answer' = [answer EXCEPT ![d] = NoEntry]
    /\ woken' = {r \in Requests : pc[r] = "waiting"}
    /\ Schedule([task EXCEPT ![d] = "idle"], o, p)

RecordBeforeWrite(d) ==
    /\ task[d] = "storing"
    /\ \E o \in Evict([overlay EXCEPT ![d] = answer[d]], {d}) :
          /\ overlay' = o
          /\ Finish(d, o, pause)
    /\ backoff' = [backoff EXCEPT ![d] = 0]
    /\ failures' = 0
    /\ UNCHANGED <<pause, store, pc, want, fetched, pending, budget, decision, passWritten>>

(* The verdict, once written, enters the overlay.                          *)
Record(d) ==
    /\ task[d] = "stored"
    /\ \E o \in Evict([overlay EXCEPT ![d] = answer[d]], {d}) :
          /\ overlay' = o
          /\ Finish(d, o, pause)
    /\ backoff' = [backoff EXCEPT ![d] = 0]
    /\ failures' = 0
    /\ UNCHANGED <<pause, store, pc, want, fetched, pending, budget, decision, passWritten>>

(* The backoff of d starts; over the cap, the oldest other one is dropped. *)
BackedOff(d) ==
    LET b == [backoff EXCEPT ![d] = RetryAfter]
        held == {e \in Digests : b[e] > 0}
        oldest == {e \in held \ {d} : \A f \in held \ {d} : b[e] <= b[f]}
    IN  IF Cardinality(held) > OverlayCap
        THEN {[b EXCEPT ![e] = 0] : e \in oldest} ELSE {b}

(* The request to the backend fails or its answer does not parse ("asking"),*)
(* or the write raises before ("storing") or after ("stored") it took effect.*)
Fail(d) ==
    /\ task[d] # "idle"
    /\ backoff' \in BackedOff(d)
    /\ failures' = IF failures < PauseFailures THEN failures + 1 ELSE failures
    /\ pause' = IF failures' >= PauseFailures THEN PauseAfter ELSE pause
    /\ Finish(d, overlay, pause')
    /\ UNCHANGED <<cacheVars, pc, want, fetched, pending, budget, decision, passWritten>>
-----------------------------------------------------------------------------
(* Another pod judged d and wrote its verdict to the shared store; or a    *)
(* write this pod gave up as failed reaches the store late.                *)
OtherPod(d, v) ==
    /\ store' = [store EXCEPT ![d] = [verdict |-> v, left |-> TTL[v]]]
    /\ passWritten' = IF v = "pass" THEN passWritten \cup {d} ELSE passWritten
    /\ UNCHANGED <<judgeVars, overlay, requestVars>>

(* The pod stops, crashed or replaced: only the shared store is left.      *)
Restart ==
    /\ queue' = <<>>
    /\ task' = [d \in Digests |-> "idle"]
    /\ answer' = [d \in Digests |-> NoEntry]
    /\ backoff' = [d \in Digests |-> 0]
    /\ pause' = 0
    /\ failures' = 0
    /\ overlay' = [d \in Digests |-> NoEntry]
    /\ pc' = [r \in Requests |-> "idle"]
    /\ want' = [r \in Requests |-> {}]
    /\ fetched' = [r \in Requests |-> [d \in Digests |-> NoEntry]]
    /\ pending' = [r \in Requests |-> {}]
    /\ budget' = [r \in Requests |-> 0]
    /\ woken' = {}
    /\ decision' = [r \in Requests |-> [d \in Digests |-> "none"]]
    /\ UNCHANGED <<store, passWritten>>

(* Time passes.  An expired entry stays in the overlay until a lookup or   *)
(* an eviction; Valkey drops it at once.                                   *)
Older(e) == IF e.left > 1 THEN [e EXCEPT !.left = Less1(@)]
            ELSE IF e = NoEntry THEN NoEntry ELSE Expired
Aged(o) == [d \in Digests |-> Older(o[d])]
Valid(o) == [d \in Digests |-> IF Fresh(o, d) THEN o[d] ELSE NoEntry]
Tick ==
    /\ queue' = [i \in DOMAIN queue |-> [queue[i] EXCEPT !.life = Less1(@)]]
    /\ answer' = Aged(answer)
    /\ backoff' = [d \in Digests |-> Less1(backoff[d])]
    /\ pause' = Less1(pause)
    /\ overlay' = Aged(overlay)
    /\ store' = Valid(Aged(store))
    /\ fetched' = [r \in Requests |-> Aged(fetched[r])]
    /\ budget' = [r \in Requests |-> Less1(budget[r])]
    /\ UNCHANGED <<task, failures, pc, want, pending, woken, decision, passWritten>>
-----------------------------------------------------------------------------
RequestStep(r) ==
    \/ \E S \in Inputs : Begin(r, S)
    \/ AwaitJudge(r)
    \/ WaitAgain(r)
    \/ Resume(r)
    \/ Process(r)
    \/ Cancel(r)

JudgeStep(d) ==
    \/ \E v \in Verdicts : Answer(d, v)
    \/ WriteVerdict(d)
    \/ Record(d)
    \/ Fail(d)

Next ==
    \/ \E r \in Requests : RequestStep(r)
    \/ \E d \in Digests : JudgeStep(d)
    \/ \E d \in Foreign, v \in Verdicts : OtherPod(d, v)
    \/ Restart
    \/ Tick

Spec == Init /\ [][Next]_vars

(* What the event loop owes: runnable coroutines run, time passes.  No     *)
(* request has to arrive, and no judge task to end: see TasksEnd.          *)
FairSpec ==
    /\ Spec
    /\ WF_vars(Tick)
    /\ \A r \in Requests : WF_vars(AwaitJudge(r) \/ Resume(r) \/ Process(r))
-----------------------------------------------------------------------------
(* Every variable stays in its domain; no verdict, however it is written,  *)
(* read back or kept, ever has more left than its TTL.                     *)
TypeOK ==
    /\ queue \in Seq(Candidates)
    /\ task \in [Digests -> {"idle", "asking", "storing", "stored"}]
    /\ answer \in [Digests -> Entries]
    /\ backoff \in [Digests -> 0..RetryAfter]
    /\ pause \in 0..PauseAfter
    /\ failures \in 0..PauseFailures
    /\ overlay \in [Digests -> Entries]
    /\ store \in [Digests -> Entries]
    /\ pc \in [Requests -> {"idle", "loading", "waiting", "deciding"}]
    /\ want \in [Requests -> SUBSET Digests]
    /\ fetched \in [Requests -> [Digests -> Entries]]
    /\ pending \in [Requests -> SUBSET Digests]
    /\ budget \in [Requests -> 0..WaitBudget]
    /\ woken \subseteq Requests
    /\ decision \in [Requests -> [Digests -> Verdicts \cup {"none"}]]
    /\ passWritten \subseteq Digests

(* However requests and finishing tasks interleave their calls of schedule *)
(* and collect, no more than Cap judge tasks run, the queue keeps to its   *)
(* cap, and overlay and backoff keep to theirs.                            *)
ResourceBounds ==
    /\ Cardinality(inflight) <= Cap
    /\ Len(queue) <= QueueCap
    /\ Cardinality(Cached(overlay)) <= OverlayCap
    /\ Cardinality({d \in Digests : backoff[d] > 0}) <= OverlayCap

(* A span is judged by one task at a time: it is queued at most once, and  *)
(* never while a task of its own runs.                                     *)
OneJudgePerSpan ==
    /\ NoRepeats(queue)
    /\ Elems(queue) \cap inflight = {}

(* "Failed writes cannot grant a PASS": whatever path a valid "pass" takes *)
(* into memory or into a request's decision, the store took it before.     *)
FailedWriteGrantsNoPass ==
    \A d \in Digests :
        \/ d \in passWritten
        \/ /\ ~(Fresh(overlay, d) /\ overlay[d].verdict = "pass")
           /\ \A r \in Requests : decision[r][d] # "pass"

(* The two inductive invariants behind the properties above and below: of  *)
(* the queue and its tasks, and of the ways a "pass" travels.              *)
QueueInv ==
    /\ OneJudgePerSpan
    /\ Len(queue) <= QueueCap
    /\ Cardinality(inflight) <= Cap
    /\ \A d \in Elems(queue) : backoff[d] = 0

PassInv ==
    /\ FailedWriteGrantsNoPass
    /\ \A d \in Digests : store[d].verdict = "pass" => d \in passWritten
    /\ \A r \in Requests, d \in Digests :
           fetched[r][d].verdict = "pass" => d \in passWritten
    /\ \A d \in Digests :
           task[d] = "stored" /\ Fresh(answer, d) /\ answer[d].verdict = "pass"
              => d \in passWritten

(* No judging starts during the global pause, before the span's own        *)
(* backoff is over, or for a span with a verdict that is still valid.      *)
StartsAreDue ==
    [][\A d \in inflight' \ inflight :
            pause' = 0 /\ backoff'[d] = 0 /\ ~Fresh(overlay, d)']_vars

(* A candidate waits although nothing stands in the way of its judge task. *)
Neglected == queue # <<>> /\ pause = 0 /\ Cardinality(inflight) < Cap

(* Each task that ends and each request that collects starts what it can,  *)
(* so that a candidate is neglected in two ways only: the global pause     *)
(* ends, which nothing notices; or a request whose wait budget was spent   *)
(* queues a span, which it schedules after one more await.                 *)
QueueServed ==
    [][Neglected' =>
          \/ Neglected
          \/ pause > 0
          \/ /\ Elems(queue') \ Elems(queue) # {}
             /\ \E r \in Requests : pc[r] = "loading" /\ pc'[r] = "deciding"]_vars

(* The calls of every judge task come back, as their timeouts make them.   *)
TasksEnd == \A d \in Digests : []<>(task[d] = "idle")

(* A request that waits for verdicts goes on, even if judge tasks hang and *)
(* whatever becomes of the candidates it waits for.                        *)
WaitEnds == \A r \in Requests : pc[r] = "waiting" ~> pc[r] # "waiting"

(* Span d goes on as a candidate that a request brought anew: its queued   *)
(* entry had expired, and one step dropped it and queued the span again.   *)
Renewed(d) ==
    \E i \in DOMAIN queue, j \in DOMAIN queue' :
        queue[i].digest = d /\ queue'[j].digest = d /\ queue[i].life < queue'[j].life

(* While the judge is never paused, no candidate stays in the queue for    *)
(* ever, even if no further request comes: a task that ends starts the     *)
(* next.  (For a CancelAt without "deciding": a request whose budget was   *)
(* spent collects first and schedules only after one more await.)          *)
QueueDrainsUnlessPaused ==
    TasksEnd /\ [](pause = 0) =>
        \A d \in Digests : []<>(d \notin Elems(queue)) \/ []<><<Renewed(d)>>_vars
=============================================================================
