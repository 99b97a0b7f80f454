-------------------------- MODULE GuardrailRequest --------------------------
(***************************************************************************)
(* The life of a call in the LiteLLM secrets guardrail, the hooks of class *)
(* SecretsObserverGuardrail in secrets_guardrail.py, in redact mode with   *)
(* the judge and the Valkey store: async_pre_call_hook scans the request   *)
(* once, async_pre_call_deployment_hook scans it again for every attempt   *)
(* at a deployment (retries and fallbacks, which may leave a local route   *)
(* for a cloud one), and the response hooks tell what was done.  The       *)
(* stages of a call share one call state and come one after another; calls *)
(* interleave at their awaits.                                             *)
(*                                                                         *)
(* Two parts appear only by their answers: the verdicts of SpanJudge may   *)
(* change between any two steps, and which spans are first reports, the    *)
(* subject of ReportedSpans, is arbitrary.  A payload is the set of spans  *)
(* that it still carries verbatim.                                         *)
(***************************************************************************)
EXTENDS Naturals, Sequences, FiniteSets

CONSTANTS
    Calls,
    Strong,         \* spans of the format and fingerprint detectors
    Ambiguous,      \* spans of the detector sensitive_assignment
    Attempts,       \* bound: Attempts[c] deployments are tried for c
    WaitBudget,     \* JUDGE_WAIT_SECONDS
    StateCap        \* bound on _CALL_STATES, 4096 in the code

ASSUME RequestConstants ==
    /\ IsFiniteSet(Calls)
    /\ Strong \cap Ambiguous = {}
    /\ Attempts \in [Calls -> Nat]
    /\ WaitBudget \in Nat
    /\ StateCap \in Nat \ {0}

Spans == Strong \cup Ambiguous
Verdicts == {"none", "pass", "redact"}

VARIABLES
    verdict,    \* verdict[d]: what judge.lookup says of d
    callStates, \* the keys of _CALL_STATES, oldest first
    pc,         \* pc[c]: where the call is
    attempt,    \* attempt[c]: 0 at ingress, then the deployment tried
    data,       \* data[c]: the request as the ingress stage left it
    work,       \* work[c]: the payload of the current stage
    dataNotes,  \* dataNotes[c]: the model notices in data[c]
    notes       \* notes[c]: those in work[c]

VARIABLES       \* the call state of c, a dict in the code
    decisions,  \* judge_decisions: the verdicts pinned for the stage
    armed,      \* whether judge_wait_deadline was set
    left,       \* time left until judge_wait_deadline
    newCounts,  \* whether new_counts is not empty
    redacted,   \* redacted
    noticed     \* model_notice_added

VARIABLES       \* the response to c
    pending,    \* notice_pending, or not responses_stream_notice_added
    body,       \* history: whether the client has got any text of it
    reply       \* history: how many notices that text carries

replyVars == <<pending, body, reply>>
stateVars == <<decisions, armed, left, newCounts, redacted, noticed>>

VARIABLES       \* history
    acquitted,  \* spans with a PASS when the current stage pinned verdicts
    claimed,    \* spans whose first report the current stage claimed
    sent,       \* what the current remote attempt was sent verbatim
    told,       \* 1 + the first stage that reported a span as new, or 0
    cleaned,    \* calls of which a stage redacted a span
    waited,     \* time the call waited for verdicts
    kept        \* calls whose ingress ended without making room for them

history == <<acquitted, claimed, sent, told, cleaned, waited, kept>>
notices == <<dataNotes, notes, noticed>>
vars == <<verdict, callStates, pc, attempt, data, work, dataNotes, notes, stateVars,
          replyVars, history>>
-----------------------------------------------------------------------------
Elems(s) == {s[i] : i \in DOMAIN s}
Scanning == {"loading", "waiting", "claiming"}
Responding == {"chunks", "events", "answered"}
Nothing == [d \in Ambiguous |-> "none"]

(* _CALL_STATES[call_id] = state: a known key keeps its place.             *)
Registered(s, c) == IF c \in Elems(s) THEN s ELSE Append(s, c)

CappedNever(s) == s

(* _process then drops the oldest entry if there are too many.             *)
Capped(s) == IF Len(s) > StateCap THEN Tail(s) ELSE s

PassesNow(c, dec) == {d \in work[c] \cap Ambiguous : verdict[d] = "pass"}

(* _redact_text keeps the spans whose pinned verdict is PASS.              *)
Passes(c, dec) == {d \in work[c] \cap Ambiguous : dec[d] = "pass"}

AddsAnyway(c, new) == new

(* A stage that reports a span as new adds a model notice to its payload,  *)
(* unless an earlier stage of the call added one to its own.               *)
Adds(c, new) == new /\ ~noticed[c]

CountsAnew(c, new) == new

(* if new_counts: state["new_counts"] = new_counts                         *)
Counts(c, new) == new \/ newCounts[c]
-----------------------------------------------------------------------------
Init ==
    /\ verdict = Nothing
    /\ callStates = <<>>
    /\ pc = [c \in Calls |-> "new"]
    /\ attempt = [c \in Calls |-> 0]
    /\ data = [c \in Calls |-> {}]
    /\ work = [c \in Calls |-> {}]
    /\ decisions = [c \in Calls |-> Nothing]
    /\ armed = [c \in Calls |-> FALSE]
    /\ left = [c \in Calls |-> WaitBudget]
    /\ newCounts = [c \in Calls |-> FALSE]
    /\ redacted = [c \in Calls |-> FALSE]
    /\ dataNotes = [c \in Calls |-> 0]
    /\ notes = [c \in Calls |-> 0]
    /\ noticed = [c \in Calls |-> FALSE]
    /\ pending = [c \in Calls |-> FALSE]
    /\ body = [c \in Calls |-> FALSE]
    /\ reply = [c \in Calls |-> 0]
    /\ acquitted = [c \in Calls |-> {}]
    /\ claimed = [c \in Calls |-> {}]
    /\ sent = [c \in Calls |-> {}]
    /\ told = [c \in Calls |-> 0]
    /\ cleaned = {}
    /\ waited = [c \in Calls |-> 0]
    /\ kept = {}

(* What _is_local_destination finds in the request's model and api_base.   *)
Destinations == {"local", "remote"}

(* A stage begins on payload S with n notices, and takes the call to s.    *)
Start(c, S, n, s) ==
    /\ pc' = [pc EXCEPT ![c] = s]
    /\ work' = [work EXCEPT ![c] = S]
    /\ notes' = [notes EXCEPT ![c] = n]
    /\ acquitted' = [acquitted EXCEPT ![c] = {}]

(* async_pre_call_hook: a request with the spans S arrives.  For a local   *)
(* destination _process follows at once and leaves it alone (local_skip);  *)
(* otherwise the reads of load_shared are sent.                            *)
PreCall(c, S) ==
    /\ pc[c] = "new"
    /\ data' = [data EXCEPT ![c] = S]
    /\ \E to \in Destinations :
          \/ /\ to = "remote"
             /\ Start(c, S, 0, "loading")
             /\ callStates' = Registered(callStates, c)
          \/ /\ to = "local"
             /\ Start(c, S, 0, "scanned")
             /\ callStates' = Capped(Registered(callStates, c))
    /\ UNCHANGED <<verdict, attempt, dataNotes, stateVars, replyVars, claimed, sent, told,
                   cleaned, waited, kept>>

(* async_pre_call_deployment_hook: the router tries a deployment, with a   *)
(* copy of the request as the ingress stage left it.  A local one gets it  *)
(* as it is.                                                               *)
Deploy(c) ==
    /\ \/ pc[c] = "scanned" /\ attempt[c] = 0
       \/ pc[c] = "failed" /\ attempt[c] > 0
    /\ attempt[c] < Attempts[c]
    /\ attempt' = [attempt EXCEPT ![c] = @ + 1]
    /\ \E to \in Destinations :
          \/ /\ to = "remote"
             /\ Start(c, data[c], dataNotes[c], "loading")
             /\ callStates' = callStates
          \/ /\ to = "local"
             /\ Start(c, data[c], dataNotes[c], "sent")
             /\ callStates' = Capped(Registered(callStates, c))
    /\ UNCHANGED <<verdict, data, dataNotes, stateVars, replyVars, claimed, sent, told,
                   cleaned, waited, kept>>
-----------------------------------------------------------------------------
(* What _process does whether or not the redaction succeeds.               *)
Retain(c) ==
    /\ callStates' = Capped(Registered(callStates, c))
    /\ kept' = IF attempt[c] = 0 /\ c \notin Elems(callStates)
               THEN kept \cup {c} ELSE kept

(* _add_model_notice, for a chat or a Responses call.                      *)
AddModelNotice(c, new) ==
    /\ notes' = IF Adds(c, new) THEN [notes EXCEPT ![c] = @ + 1] ELSE notes
    /\ noticed' = [noticed EXCEPT ![c] = @ \/ new]
    /\ dataNotes' = IF attempt[c] = 0 THEN [dataNotes EXCEPT ![c] = notes'[c]] ELSE dataNotes

(* _process redacts all but the spans with a pinned PASS, with some first  *)
(* report among them if new holds, and clears the scan state.              *)
Process(c, dec, new) ==
    LET clean == Passes(c, dec) IN
    /\ Retain(c)
    /\ pc' = [pc EXCEPT ![c] = "scanned"]
    /\ work' = [work EXCEPT ![c] = clean]
    /\ data' = IF attempt[c] = 0 THEN [data EXCEPT ![c] = clean] ELSE data
    /\ newCounts' = [newCounts EXCEPT ![c] = Counts(c, new)]
    /\ redacted' = [redacted EXCEPT ![c] = @ \/ work[c] # clean]
    /\ AddModelNotice(c, new)
    /\ told' = IF new /\ told[c] = 0 THEN [told EXCEPT ![c] = attempt[c] + 1] ELSE told
    /\ cleaned' = IF work[c] # clean THEN cleaned \cup {c} ELSE cleaned
    /\ claimed' = [claimed EXCEPT ![c] = {}]
    /\ decisions' = [decisions EXCEPT ![c] = Nothing]

(* _process_with_judge pins the verdicts; if a span is left to redact, its *)
(* claim is awaited (_prepare_valkey_reports), otherwise _process follows. *)
Decide(c) ==
    LET dec == [d \in Ambiguous |-> IF d \in work[c] THEN verdict[d] ELSE "none"]
        claims == work[c] \ Passes(c, dec)
    IN  /\ acquitted' = [acquitted EXCEPT
                            ![c] = {d \in work[c] \cap Ambiguous : verdict[d] = "pass"}]
        /\ \/ /\ claims # {}
              /\ claimed' = [claimed EXCEPT ![c] = claims]
              /\ pc' = [pc EXCEPT ![c] = "claiming"]
              /\ decisions' = [decisions EXCEPT ![c] = dec]
              /\ UNCHANGED <<callStates, work, data, newCounts, redacted, notices, told,
                             cleaned, kept>>
           \/ claims = {} /\ Process(c, dec, FALSE)

(* deadline = state.setdefault("judge_wait_deadline", now + wait)          *)
ArmAgain(c) ==
    /\ armed' = [armed EXCEPT ![c] = TRUE]
    /\ left' = [left EXCEPT ![c] = WaitBudget]

Arm(c) ==
    /\ armed' = [armed EXCEPT ![c] = TRUE]
    /\ left' = left

(* _await_judge once load_shared returned: it waits if a span is undecided,*)
(* the judge takes it and the deadline of the call has not passed.         *)
AwaitJudge(c) ==
    /\ pc[c] = "loading"
    /\ \/ /\ \E d \in work[c] \cap Ambiguous : verdict[d] = "none"
          /\ left[c] > 0
          /\ Arm(c)
          /\ \/ /\ pc' = [pc EXCEPT ![c] = "waiting"]
                /\ UNCHANGED <<callStates, data, work, decisions, newCounts, redacted,
                               notices, acquitted, claimed, told, cleaned, kept>>
             \/ Decide(c)
       \/ Decide(c) /\ UNCHANGED <<armed, left>>
    /\ UNCHANGED <<verdict, attempt, replyVars, sent, waited>>

(* The wait is over, by an answer, a pause or the deadline.                *)
WaitOver(c) ==
    /\ pc[c] = "waiting"
    /\ Decide(c)
    /\ UNCHANGED <<verdict, attempt, armed, left, replyVars, sent, waited>>

(* The claims were answered, or failed: new if one is a first report.      *)
Claimed(c, new) ==
    /\ pc[c] = "claiming"
    /\ Process(c, decisions[c], new)
    /\ UNCHANGED <<verdict, attempt, armed, left, replyVars, acquitted, sent, waited>>

(* A scan fails: the payload is given up, the call goes on at s.           *)
Abandon(c, s) ==
    /\ pc' = [pc EXCEPT ![c] = s]
    /\ work' = [work EXCEPT ![c] = {}]
    /\ notes' = [notes EXCEPT ![c] = 0]
    /\ decisions' = [decisions EXCEPT ![c] = Nothing]
    /\ acquitted' = [acquitted EXCEPT ![c] = {}]
    /\ claimed' = [claimed EXCEPT ![c] = {}]
    /\ UNCHANGED <<verdict, attempt, data, dataNotes, armed, left, newCounts, redacted,
                   noticed, replyVars, sent, told, cleaned, waited>>

(* The redaction in _process raises: scan_error, a 503.  (A payload with   *)
(* nothing to redact gives it nothing to raise at.)                        *)
RedactFails(c) ==
    /\ pc[c] = "claiming"
    /\ Retain(c)
    /\ Abandon(c, "failed")

(* The stage of c ends at an await; _process is not reached.               *)
CutShort(c, s) ==
    /\ pc[c] \in Scanning
    /\ Abandon(c, s)
    /\ kept' = IF attempt[c] = 0 THEN kept \cup {c} ELSE kept
    /\ callStates' = callStates

ScanFailsOpen(c) ==
    /\ pc[c] \in Scanning
    /\ pc' = [pc EXCEPT ![c] = "scanned"]
    /\ decisions' = [decisions EXCEPT ![c] = Nothing]
    /\ UNCHANGED <<verdict, callStates, attempt, data, work, armed, left, newCounts,
                   redacted, notices, replyVars, history>>

(* Something in _process_with_judge raises: a 503.                         *)
ScanFails(c) ==
    CutShort(c, "failed")

(* The client goes away during a scan.                                     *)
Cancel(c) ==
    CutShort(c, "ended")

(* The payload goes to the remote deployment.                              *)
Send(c) ==
    /\ pc[c] = "scanned"
    /\ attempt[c] > 0
    /\ pc' = [pc EXCEPT ![c] = "sent"]
    /\ sent' = [sent EXCEPT ![c] = work[c]]
    /\ UNCHANGED <<verdict, callStates, attempt, data, work, dataNotes, notes, stateVars,
                   replyVars, acquitted, claimed, told, cleaned, waited, kept>>

-----------------------------------------------------------------------------
(* _response_notice, with the call state: a notice about new_counts.       *)
ResponseNotice(c) == newCounts[c]

(* _was_redacted, with the call state.                                     *)
WasRedacted(c) == redacted[c]

(* The header X-LiteLLM-Secrets-Guardrail of the response.                 *)
Headers(c) == IF WasRedacted(c) THEN {"redacted"} ELSE {}

(* The attempt is over, and so is its payload; the call goes on at s.      *)
Outcome(c, s) ==
    /\ pc[c] = "sent"
    /\ pc' = [pc EXCEPT ![c] = s]
    /\ work' = [work EXCEPT ![c] = {}]
    /\ notes' = [notes EXCEPT ![c] = 0]
    /\ sent' = [sent EXCEPT ![c] = {}]
    /\ acquitted' = [acquitted EXCEPT ![c] = {}]
    /\ UNCHANGED <<verdict, callStates, attempt, data, dataNotes, stateVars, claimed, told,
                   cleaned, waited, kept>>

DeploymentFails(c) == Outcome(c, "failed") /\ UNCHANGED replyVars

(* _prepend_assistant_notice and its like: a text that starts with the     *)
(* notice already, as a cached one may, is left alone.                     *)
Prepended(own) == IF own = 0 THEN 1 ELSE own

(* The client's text of the response, which had the notice of this call's  *)
(* counts own times already.  Without counts the call has no notice.       *)
Delivered(c, own) ==
    /\ body' = [body EXCEPT ![c] = TRUE]
    /\ reply' = [reply EXCEPT ![c] = IF ResponseNotice(c) THEN Prepended(own) ELSE 0]

(* async_post_call_success_hook: the deployment answers as a whole.  There *)
(* may be no text or choice in it; the exception is swallowed.             *)
Respond(c, own) ==
    /\ Outcome(c, "answered")
    /\ Delivered(c, own) \/ UNCHANGED <<body, reply>>
    /\ UNCHANGED pending

(* It streams, in chunks of a chat or in events of the Responses API: the  *)
(* iterators start with the notice, if any, to be added.  (The events of a *)
(* cached response are made from one that has it: the first text again.)   *)
StreamStarts(c, s) ==
    /\ Outcome(c, s)
    /\ pending' = [pending EXCEPT ![c] = ResponseNotice(c)]
    /\ UNCHANGED <<body, reply>>

callVars == <<verdict, callStates, attempt, data, work, dataNotes, notes, stateVars, history>>

(* Text goes to the client, of which the first gets the notice.            *)
FirstText(c, own) ==
    /\ body' = [body EXCEPT ![c] = TRUE]
    /\ IF pending[c] THEN reply' = [reply EXCEPT ![c] = Prepended(own)]
                     ELSE UNCHANGED reply
    /\ pending' = [pending EXCEPT ![c] = FALSE]
    /\ UNCHANGED <<callVars, pc>>

(* async_post_call_streaming_iterator_hook, for a chunk with text or tool  *)
(* calls; it yields the others as they are.                                *)
Chunk(c, own) == pc[c] = "chunks" /\ FirstText(c, own)

(* process_chunk, for an output_text.delta.                                *)
TextDelta(c, own) == pc[c] = "events" /\ FirstText(c, own)

(* process_chunk, for the last event: it holds the whole response, in      *)
(* place of what the deltas built up, even if there was no delta.          *)
Completed(c, own) ==
    /\ pc[c] = "events"
    /\ pc' = [pc EXCEPT ![c] = "answered"]
    /\ Delivered(c, own)
    /\ UNCHANGED <<callVars, pending>>

(* The chunks end, or either side drops the stream.                        *)
StreamEnds(c) ==
    /\ pc[c] \in {"chunks", "events"}
    /\ pc' = [pc EXCEPT ![c] = "ended"]
    /\ pending' = [pending EXCEPT ![c] = FALSE]
    /\ body' = [body EXCEPT ![c] = FALSE]
    /\ reply' = [reply EXCEPT ![c] = 0]
    /\ UNCHANGED callVars

(* The judge's answer for d changes: a verdict arrives, expires, is evicted*)
(* or replaced by one of another pod.                                      *)
Judge(d, v) ==
    /\ verdict[d] # v
    /\ verdict' = [verdict EXCEPT ![d] = v]
    /\ UNCHANGED <<callStates, pc, attempt, data, work, dataNotes, notes, stateVars,
                   replyVars, history>>

RemainingNoFloor(c) == IF armed[c] THEN left[c] - 1 ELSE left[c]

(* remaining = deadline - time.monotonic(), a unit of time later.          *)
Remaining(c) == IF armed[c] /\ left[c] > 0 THEN left[c] - 1 ELSE left[c]

(* A unit of time passes; no call waits past its deadline, and that of a   *)
(* call that is over does not matter any more.                             *)
Tick ==
    /\ \A c \in Calls : pc[c] = "waiting" => left[c] > 0
    /\ \E c \in Calls : armed[c] /\ left[c] > 0
    /\ left' = [c \in Calls |-> IF pc[c] \in Responding \cup {"ended"} THEN left[c]
                                                                      ELSE Remaining(c)]
    /\ waited' = [c \in Calls |-> IF pc[c] = "waiting" THEN waited[c] + 1 ELSE waited[c]]
    /\ UNCHANGED <<verdict, callStates, pc, attempt, data, work, decisions, armed,
                   newCounts, redacted, notices, replyVars, acquitted, claimed, sent, told,
                   cleaned, kept>>

Next ==
    \/ \E c \in Calls :
          \/ \E S \in (SUBSET Spans) \ {{}} : PreCall(c, S)
          \/ Deploy(c)
          \/ AwaitJudge(c)
          \/ WaitOver(c)
          \/ \E new \in BOOLEAN : Claimed(c, new)
          \/ RedactFails(c)
          \/ ScanFails(c)
          \/ Cancel(c)
          \/ Send(c)
          \/ DeploymentFails(c)
          \/ \E own \in {0, 1} :
                Respond(c, own) \/ Chunk(c, own) \/ TextDelta(c, own) \/ Completed(c, own)
          \/ \E s \in {"chunks", "events"} : StreamStarts(c, s)
          \/ StreamEnds(c)
    \/ \E d \in Ambiguous, v \in Verdicts : Judge(d, v)
    \/ Tick

Spec == Init /\ [][Next]_vars
-----------------------------------------------------------------------------
ReplyTypes ==
    /\ pending \in [Calls -> BOOLEAN]
    /\ body \in [Calls -> BOOLEAN]
    /\ reply \in [Calls -> {0, 1}]

(* Every variable stays in its domain.                                     *)
TypeOK ==
    /\ verdict \in [Ambiguous -> Verdicts]
    /\ callStates \in Seq(Calls)
    /\ pc \in [Calls -> Scanning \cup Responding \cup {"new", "scanned", "sent", "failed", "ended"}]
    /\ attempt \in [Calls -> Nat]
    /\ \A c \in Calls : attempt[c] <= Attempts[c]
    /\ data \in [Calls -> SUBSET Spans]
    /\ work \in [Calls -> SUBSET Spans]
    /\ decisions \in [Calls -> [Ambiguous -> Verdicts]]
    /\ armed \in [Calls -> BOOLEAN]
    /\ left \in [Calls -> 0..WaitBudget]
    /\ newCounts \in [Calls -> BOOLEAN]
    /\ redacted \in [Calls -> BOOLEAN]
    /\ dataNotes \in [Calls -> Nat]
    /\ notes \in [Calls -> Nat]
    /\ noticed \in [Calls -> BOOLEAN]
    /\ ReplyTypes
    /\ acquitted \in [Calls -> SUBSET Spans]
    /\ claimed \in [Calls -> SUBSET Spans]
    /\ sent \in [Calls -> SUBSET Spans]
    /\ told \in [Calls -> Nat]
    /\ cleaned \subseteq Calls
    /\ waited \in [Calls -> Nat]
    /\ kept \subseteq Calls

(* Whatever the earlier stages of the call did, and whatever failed in     *)
(* them, an attempt at a remote deployment is sent no span but those the   *)
(* judge passed when this attempt was scanned: "scanner failure stops      *)
(* cloud dispatch", "cloud fallbacks are checked again at deployment".     *)
FailClosed ==
    \A c \in Calls : sent[c] \subseteq acquitted[c] \cap Ambiguous

(* "Async request hooks share one wait deadline across all undecided spans *)
(* and lifecycle stages": retries and fallbacks do not wait anew.          *)
OneWaitBudget ==
    \A c \in Calls : waited[c] <= WaitBudget /\ (~armed[c] => waited[c] = 0)

(* As soon as the client gets text of a response, whole or streamed, it    *)
(* has got exactly one notice of new spans if a stage of the call reported *)
(* one, though the text may have come with the notice, and none otherwise; *)
(* and the response is marked redacted if and only if a stage redacted a   *)
(* span.  Later stages that find nothing more do not hide what one did.    *)
ResponseTells ==
    \A c \in Calls : pc[c] \in Responding =>
        /\ reply[c] = IF body[c] /\ told[c] # 0 THEN 1 ELSE 0
        /\ Headers(c) = IF c \in cleaned THEN {"redacted"} ELSE {}

(* No deployment gets more than one model notice, however often the call   *)
(* is scanned and reported again; and it does get one if the first stage   *)
(* of the call that reported a span as new was the ingress or the scan of  *)
(* this attempt.  Nothing is promised of the others: see RedactedNoticed.  *)
ModelNotice ==
    \A c \in Calls : pc[c] = "sent" =>
        /\ notes[c] <= 1
        /\ told[c] \in {1, attempt[c] + 1} => notes[c] = 1

(* "Redacted chat requests receive a model-context notice": a call of      *)
(* which some stage redacted a span has the notice when it is sent to a    *)
(* remote deployment.  The code falls short of it in two ways: it tells    *)
(* only of spans reported as new, never of known ones; and an attempt that *)
(* follows the one that was told starts from a payload without the notice. *)
RedactedNoticed ==
    [][\A c \in cleaned :
           pc[c] = "scanned" /\ pc'[c] = "sent" /\ attempt'[c] = attempt[c] => notes[c] = 1]_vars

(* A stage redacts exactly the spans whose first reports it claimed before *)
(* at Valkey, though verdicts may change while the claim is awaited: no    *)
(* claim is spent on a span that is passed, no span is redacted unclaimed. *)
ClaimsMatchRedaction ==
    [][\A c \in Calls : pc[c] \in Scanning /\ pc'[c] = "scanned" =>
           work[c] \ work'[c] = claimed[c]]_vars

Pending == {c \in Calls : attempt[c] = 0 /\ pc[c] \in Scanning}

(* _CALL_STATES exceeds its cap only by the calls in their ingress stage   *)
(* and by those whose ingress stage made no room: one that was cut short,  *)
(* or whose entry had been dropped during the stage.                       *)
CallStatesBounded ==
    Len(callStates) <= StateCap + Cardinality(Pending) + Cardinality(kept)
=============================================================================
