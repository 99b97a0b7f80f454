--------------------------- MODULE ReportedSpans ---------------------------
(***************************************************************************)
(* First-report gating of the LiteLLM secrets guardrail with the Valkey    *)
(* store: _prepare_valkey_reports, claim_reported and _register_spans of   *)
(* secrets_guardrail.py, run by several proxy pods on one Valkey.          *)
(*                                                                         *)
(* A request redacts its spans whatever happens here; the question is      *)
(* which request reports them (WARNING audit line, guardrail_intervened,   *)
(* notices).  It claims each digest at Valkey with SET .. GET, from a      *)
(* worker thread and in a pipeline that is no transaction, so that the     *)
(* commands of several requests interleave.  Back on the event loop of its *)
(* pod, with no further await, it combines the replies with the pod's      *)
(* memory of seen spans and reports.                                       *)
(***************************************************************************)
EXTENDS Naturals, FiniteSets

CONSTANTS
    Pods,
    Requests,   \* the requests, each one pass through _process_with_judge
    Host,       \* Host[r]: the pod that serves r
    Spans,      \* the spans that are redacted, by digest
    SeenCap,    \* _SEEN_SPANS_CAP
    Faults      \* the kinds of fault that may happen

ASSUME ReportConstants ==
    /\ IsFiniteSet(Requests)
    /\ IsFiniteSet(Spans)
    /\ Host \in [Requests -> Pods]
    /\ SeenCap \in Nat \ {0}
    /\ Faults \subseteq {"outage", "cancel", "error", "crash", "expire"}

VARIABLES
    shared,     \* the keys guardrail:s:<digest> in Valkey
    orphans,    \* claims still to run at Valkey whose sender is gone
    seen,       \* seen[p]: _SEEN_SPANS of the pod
    pc,         \* pc[r]: "new", "claiming" or "done"
    carried,    \* carried[r]: the spans of the request (spans)
    unsent,     \* unsent[r]: its claims that Valkey did not run yet
    won         \* won[r]: its claims that found no key (not shared_seen)

VARIABLES       \* history
    reported,   \* reported[d]: the requests that reported d
    unsure,     \* spans whose claims went unanswered or whose key expired
    lost,       \* spans of a claim whose request did not get to report them
    raced,      \* spans carried by two requests of one pod at the same time
    forgotten   \* <<p, d>>: pod p evicted d or restarted since it saw d

history == <<reported, unsure, lost, raced, forgotten>>
vars == <<shared, orphans, seen, pc, carried, unsent, won, history>>
-----------------------------------------------------------------------------
RememberedUnbounded(old, new) == {old \cup new}

(* The seen spans of a pod once the spans of new were moved to the end and *)
(* popitem(last=False) brought the rest down to the cap.  Of the entries   *)
(* that are not new, any may be the oldest.                                *)
Remembered(old, new) ==
    LET all == old \cup new
        over == IF Cardinality(all) > SeenCap THEN Cardinality(all) - SeenCap ELSE 0
    IN  {all \ V : V \in {W \in SUBSET all : /\ Cardinality(W) = over
                                             /\ W \cap new = {} \/ all \ new \subseteq W}}

StatusesIgnoreMemory(r, fresh) == {d \in carried[r] : d \in fresh}

(* statuses: the spans r reports when Valkey says those of fresh are new.  *)
Statuses(r, fresh) == {d \in carried[r] : d \notin seen[Host[r]] /\ d \in fresh}
-----------------------------------------------------------------------------
Init ==
    /\ shared = {}
    /\ orphans = {}
    /\ seen = [p \in Pods |-> {}]
    /\ pc = [r \in Requests |-> "new"]
    /\ carried = [r \in Requests |-> {}]
    /\ unsent = [r \in Requests |-> {}]
    /\ won = [r \in Requests |-> {}]
    /\ reported = [d \in Spans |-> {}]
    /\ unsure = {}
    /\ lost = {}
    /\ raced = {}
    /\ forgotten = {}

PrepareRemembers(r, S) ==
    /\ pc[r] = "new"
    /\ pc' = [pc EXCEPT ![r] = "claiming"]
    /\ carried' = [carried EXCEPT ![r] = S]
    /\ unsent' = [unsent EXCEPT ![r] = S]
    /\ seen' \in {[seen EXCEPT ![Host[r]] = m] : m \in Remembered(seen[Host[r]], S)}
    /\ raced' = raced \cup {d \in S : \E q \in Requests :
                               pc[q] = "claiming" /\ Host[q] = Host[r] /\ d \in carried[q]}
    /\ UNCHANGED <<shared, orphans, won, reported, unsure, lost, forgotten>>

(* The request's spans that are not acquitted are S; their claims are sent.*)
Prepare(r, S) ==
    /\ pc[r] = "new"
    /\ pc' = [pc EXCEPT ![r] = "claiming"]
    /\ carried' = [carried EXCEPT ![r] = S]
    /\ unsent' = [unsent EXCEPT ![r] = S]
    /\ raced' = raced \cup {d \in S : \E q \in Requests :
                               pc[q] = "claiming" /\ Host[q] = Host[r] /\ d \in carried[q]}
    /\ UNCHANGED <<shared, orphans, seen, won, reported, unsure, lost, forgotten>>

ClaimReadsOnly(r, d) ==
    /\ pc[r] = "claiming"
    /\ d \in unsent[r]
    /\ unsent' = [unsent EXCEPT ![r] = @ \ {d}]
    /\ won' = [won EXCEPT ![r] = IF d \in shared THEN @ ELSE @ \cup {d}]
    /\ orphans' = orphans \cup {d}
    /\ UNCHANGED <<shared, seen, pc, carried, history>>

(* Valkey runs one SET .. GET of the pipeline of r.                        *)
Claim(r, d) ==
    /\ pc[r] = "claiming"
    /\ d \in unsent[r]
    /\ unsent' = [unsent EXCEPT ![r] = @ \ {d}]
    /\ won' = [won EXCEPT ![r] = IF d \in shared THEN @ ELSE @ \cup {d}]
    /\ shared' = shared \cup {d}
    /\ UNCHANGED <<orphans, seen, pc, carried, history>>

(* A claim runs that nobody waits for any more.                            *)
LateClaim(d) ==
    /\ d \in orphans
    /\ orphans' = orphans \ {d}
    /\ shared' = shared \cup {d}
    /\ UNCHANGED <<seen, pc, carried, unsent, won, history>>

(* The rest of the request, one step of the event loop: its spans enter    *)
(* the pod's memory, those of news are reported.                           *)
Report(r, news) ==
    /\ seen' \in {[seen EXCEPT ![Host[r]] = m] : m \in Remembered(seen[Host[r]], carried[r])}
    /\ forgotten' = forgotten \cup
                       ({Host[r]} \X ((seen[Host[r]] \cup carried[r]) \ seen'[Host[r]]))
    /\ reported' = [d \in Spans |-> IF d \in news THEN reported[d] \cup {r} ELSE reported[d]]
    /\ pc' = [pc EXCEPT ![r] = "done"]
    /\ unsent' = [unsent EXCEPT ![r] = {}]
    /\ won' = [won EXCEPT ![r] = {}]
    /\ UNCHANGED <<carried, raced>>

(* All replies are in.                                                     *)
Replied(r) ==
    /\ pc[r] = "claiming"
    /\ unsent[r] = {}
    /\ Report(r, Statuses(r, won[r]))
    /\ UNCHANGED <<shared, orphans, unsure, lost>>

(* All replies are in, but the redaction that follows raises and the       *)
(* request ends in a 503: what it counted by then is all it reports.       *)
Errored(r) ==
    /\ "error" \in Faults
    /\ pc[r] = "claiming"
    /\ unsent[r] = {}
    /\ \E news \in SUBSET Statuses(r, won[r]) :
          /\ Report(r, news)
          /\ lost' = lost \cup (Statuses(r, won[r]) \ news)
    /\ UNCHANGED <<shared, orphans, unsure>>

(* The pipeline times out or the connection breaks: claim_reported returns *)
(* {}, every span counts as new to Valkey.  Any of the claims that did not *)
(* run yet may still run.                                                  *)
Unanswered(r) ==
    /\ "outage" \in Faults
    /\ pc[r] = "claiming"
    /\ Report(r, Statuses(r, carried[r]))
    /\ \E late \in SUBSET unsent[r] : orphans' = orphans \cup late
    /\ unsure' = unsure \cup carried[r]
    /\ UNCHANGED <<shared, lost>>

(* The client goes away: the thread's claims run all the same.             *)
Cancelled(r) ==
    /\ "cancel" \in Faults
    /\ pc[r] = "claiming"
    /\ pc' = [pc EXCEPT ![r] = "done"]
    /\ unsent' = [unsent EXCEPT ![r] = {}]
    /\ won' = [won EXCEPT ![r] = {}]
    /\ orphans' = orphans \cup unsent[r]
    /\ lost' = lost \cup carried[r]
    /\ UNCHANGED <<shared, seen, carried, reported, unsure, raced, forgotten>>

(* A pod stops and a new one takes its place, with an empty memory.        *)
Crash(p) ==
    LET cut == {r \in Requests : Host[r] = p /\ pc[r] = "claiming"} IN
    /\ "crash" \in Faults
    /\ seen' = [seen EXCEPT ![p] = {}]
    /\ forgotten' = forgotten \cup ({p} \X seen[p])
    /\ pc' = [r \in Requests |-> IF r \in cut THEN "done" ELSE pc[r]]
    /\ unsent' = [r \in Requests |-> IF r \in cut THEN {} ELSE unsent[r]]
    /\ won' = [r \in Requests |-> IF r \in cut THEN {} ELSE won[r]]
    /\ \E late \in SUBSET UNION {unsent[r] : r \in cut} : orphans' = orphans \cup late
    /\ lost' = lost \cup UNION {carried[r] : r \in cut}
    /\ UNCHANGED <<shared, carried, reported, unsure, raced>>

(* The 90-day TTL of a key runs out.                                       *)
Expire(d) ==
    /\ "expire" \in Faults
    /\ d \in shared
    /\ shared' = shared \ {d}
    /\ unsure' = unsure \cup {d}
    /\ UNCHANGED <<orphans, seen, pc, carried, unsent, won, reported, lost, raced, forgotten>>

Next ==
    \/ \E r \in Requests :
          \/ \E S \in (SUBSET Spans) \ {{}} : Prepare(r, S)
          \/ \E d \in Spans : Claim(r, d)
          \/ Replied(r)
          \/ Errored(r)
          \/ Unanswered(r)
          \/ Cancelled(r)
    \/ \E d \in Spans : LateClaim(d) \/ Expire(d)
    \/ \E p \in Pods : Crash(p)

Spec == Init /\ [][Next]_vars
-----------------------------------------------------------------------------
(* Every variable stays in its domain, and a pod's memory in its cap.      *)
TypeOK ==
    /\ shared \subseteq Spans
    /\ orphans \subseteq Spans
    /\ seen \in [Pods -> SUBSET Spans]
    /\ \A p \in Pods : Cardinality(seen[p]) <= SeenCap
    /\ pc \in [Requests -> {"new", "claiming", "done"}]
    /\ carried \in [Requests -> SUBSET Spans]
    /\ unsent \in [Requests -> SUBSET Spans]
    /\ won \in [Requests -> SUBSET Spans]
    /\ reported \in [Spans -> SUBSET Requests]
    /\ unsure \subseteq Spans
    /\ lost \subseteq Spans
    /\ raced \subseteq Spans
    /\ forgotten \subseteq Pods \X Spans

(* Even while Valkey fails, a pod that remembers a span does not report it *)
(* a second time ("bounded cache for outage degradation").                 *)
OncePerPodMemory ==
    \A d \in Spans : \A r, q \in reported[d] :
        Host[r] = Host[q] /\ r # q => <<Host[r], d>> \in forgotten

(* No request that carries d is under way, and one of them has ended.      *)
Settled(d) ==
    /\ \A r \in Requests : pc[r] = "claiming" => d \notin carried[r]
    /\ \E r \in Requests : pc[r] = "done" /\ d \in carried[r]

(* A span that was redacted is reported by some request, unless the one    *)
(* that claimed it was cut short, or two requests of one pod carried it at *)
(* the same time.                                                          *)
FirstReportUnlessRaced ==
    \A d \in Spans \ (lost \cup raced) : Settled(d) => reported[d] # {}

(* "error reporting fires on the first report of a span": a redacted span  *)
(* is reported by some request.                                            *)
FirstReportFires ==
    \A d \in Spans : Settled(d) => reported[d] # {}

(* Across all pods a span is reported at most once, unless its claims went *)
(* unanswered or its key expired: cancelled requests, errors and restarts  *)
(* do not lead to a second report.                                         *)
Promise == INSTANCE FirstReport
             WITH told <- [d \in Spans |-> Cardinality(reported[d])], excused <- unsure
AtMostOneReport == Promise!Spec
=============================================================================
