# Formal models of home-lab-iac

TLA+ models of the parts of this repository that compute something: the
components with state, concurrency and failure. Most of the repository declares
desired state for other systems (Flux, Terraform, Ansible); the programs in it
are listed below, with what is modelled, checked by TLC and proved with TLAPS.
Paths in this file are relative to the repository; `guardrail` stands for
`kubernetes/apps/apps/ai/litellm/scripts/secrets_guardrail.py`.

## 1. Inventory

| Component | State it keeps | Operations | Hard behaviour | What makes it correct |
| --- | --- | --- | --- | --- |
| Span judge (`_SpanJudge`, guardrail 868-1213, 1439-1510, 1564-1587) | candidate queue, in-flight set, backoff, global pause, failure count, overlay of verdicts; verdicts in Valkey | `load_shared`, `lookup`, `collect`, `schedule`, `wait`, `_judge_one` | coroutines that interleave at awaits, worker threads, timeouts, failures, cancelled clients, other pods, restarts | caps hold; one task per span; a PASS counts only once stored; no judging in a pause or backoff; waits end; the queue drains |
| Reported spans, Valkey (guardrail 35-48, 561-594, 932-944, 1512-1562) | claim keys shared by all pods, bounded memory per pod | claim, combine, register | pipelines of several pods interleave; lost answers; late commands; eviction; restarts | a span is reported once, and is reported |
| Reported spans, SQLite (`_SeenStore`, guardrail 1216-1332) | pending deque, table | `queue`, `_flush`, `_persist`, `_flush_sync` | crash between pop and write | what was reported stays quiet after a restart |
| Request lifecycle (guardrail 214-242, 541-558, 1589-1893) | call states by id, one deadline for all stages | hooks, `_process`, notices | stages share state that may be evicted | fail closed; one wait budget; the notice follows the report |
| Span detection (guardrail 245-521) | none (a cache) | scan, sort, merge | overlapping matches | redaction covers every match |
| LiteLLM catalogs, patches, start-up (same directory) | tables built at start | conversions around third-party code | little | - |
| k3s remediation (`scripts/k3s/k3s-remediate.sh`, `-cron.sh`) | ledger file | tier 0 Jobs, tier 1 pods | calls that time out after taking effect, crash before the append, failed append | budget per run, cooldown per owner, circuit breaker |
| k3s health check (`scripts/k3s/k3s-health-check.sh`) | none | reads, formats | - | - |
| Photon scheduler (`kubernetes/apps/apps/utils/photon/scheduler.py`) | attempt and failure markers, backup, update flag | `check_update`, metrics | crash during an update, a metrics thread | at most one attempt a day; failure stays visible; a backup blocks |
| Host power (`ansible/roles/host_power/files/host_power.py`) | sysfs controls | plan, apply, readback | one control resets another, late readback, failure half way | nothing written unless the whole plan is valid; on success all controls hold; a rerun writes only drift |
| BookOrbit reconciler (`kubernetes/apps/apps/media/bookorbit/reconcile.mjs`) | configuration behind an HTTP API | read, compare, write per resource | abort at any request, requests that take effect late, changes by others, reruns | reruns converge; no desired library falls to a deletion |
| k3s maintenance (`ansible/roles/k3s/tasks`) | cordon, version and health per node | plan, drain, apply, health, uncordon | failure half way, serial hosts | at most one node is down; a no-op run drains nothing; a failed node stays cordoned |
| ComfyUI idle restart, llama-swap and TTS adapters, Tautulli scripts, build scripts, hooks, CI | - | single calls, text filters, one-off builds | - | not modelled |

Interactions. A LiteLLM hook calls `_process_with_judge`: it waits for the judge
(`_await_judge`), takes one snapshot of the verdicts, claims the spans to report
(`_prepare_valkey_reports`), and then, without a further await, redacts, registers
and schedules (`_process`). Judge tasks are shared by all requests of a pod and
outlive them. Pods share only Valkey: verdict keys (`guardrail:v:`) and claim keys
(`guardrail:s:`). The two sets of keys have no step in common, so the judge and the
reports are separate modules: what the judge hands over is the set of spans that
are not acquitted, which `ReportedSpans` takes as arbitrary. Without Valkey the memory
of reported spans is backed by SQLite (`_SeenStore`), which one process has to itself.
The remediation script, the Photon scheduler, the power policy and the BookOrbit
reconciler share nothing with the guardrail, or with each other, but the cluster.

## 2. Modules

| Module | Role |
| --- | --- |
| `SpanJudge` | the span judge of one pod, with other pods and restarts |
| `SpanJudgeProofs` | its theorems |
| `MCSpanJudge` + 2 cfgs | its instances for TLC |
| `FirstReport` | abstract: a span is told at most once unless excused |
| `ReportedSpans` | the claims and memories of several pods; refines `FirstReport` |
| `ReportedSpansProofs` | its theorems, the refinement among them |
| `MCReportedSpans` + 2 cfgs | its instances for TLC |
| `GuardrailRequest` | the stages of calls through the guardrail's hooks |
| `GuardrailRequestProofs` | its theorems |
| `MCGuardrailRequest` + 2 cfgs | its instances for TLC |
| `K3sRemediate` | the remediation script and its hourly runs |
| `K3sRemediateProofs` | its theorems |
| `MCK3sRemediate` + 2 cfgs | its instances for TLC |
| `SeenStore` | the memory of reported spans and its SQLite table, across restarts |
| `HostPower` | the power policy's helper, run again and again on one host |
| `PhotonScheduler` | the monthly index update, its markers, its alert |
| `BookOrbit` | the BookOrbit reconciler, BookOrbit and the people who use it |
| `SeenStoreProofs`, `HostPowerProofs`, `PhotonSchedulerProofs`, `BookOrbitProofs` | their theorems |
| `MCSeenStore`, `MCHostPower`, `MCPhotonScheduler`, `MCBookOrbit` + 1 cfg each | their instances for TLC |

In each module the operators named like `TakesOneTooMany` or `RecordBeforeWrite` are
faulty variants of the definition that follows them. No specification uses them:
substituted for that definition, each makes one property fail, which shows that the
property depends on the code it is about.

### SpanJudge

*State.* `queue` is `_candidates` in insertion order; `task[d]` says how far
`_judge_one` is with digest `d` ("asking" the backend, "storing" in the worker
thread, "stored" but not yet back on the loop), so `_inflight` is the set of busy
digests; `backoff`, `pause`, `failures` are `_backoff`, `_paused_until`, `_failures`;
`overlay` is `_overlay`; `store` is Valkey. Per request: the state of the coroutine,
its spans, what `load_verdicts` read, what it waits for, what is left of
`judge_wait_deadline`, whether its `_changed` event was set, and its snapshot
`judge_decisions`.

*Steps.* What happens on the event loop between two awaits is one action: `Begin`
(to the first await, the read of Valkey included), `AwaitJudge` (apply the reply,
look up, collect, schedule, start to wait), `WaitAgain` and `Resume` (the loop of
`wait`), `Process` (redact, collect, schedule), `Record`, `Fail` (the end of
`_judge_one`, with its finally clause `Finish`). Worker threads are steps of their
own: `Answer`, `WriteVerdict`. `Cancel` is a client that leaves at an await,
`OtherPod` a write by another pod (or a late one by this pod), `Restart` a pod that
is replaced. Time is what is left of each period; `Tick` lets one unit pass
everywhere at once. One stage stands for one request; a later stage whose budget is
spent appears as the first disjunct of `Settle`.

*Abstractions.* A digest stands for a span in its context: `_key` is injective for
this purpose. The overlay's least-recently-used order is dropped: any entry may be
evicted, which includes the one the code picks. The order in which a request
mentions its spans is arbitrary. Spans over `_JUDGE_MAX_SPAN` and other detectors
are never collected and do not occur. What is left of a verdict is rounded up to whole
seconds when it is written (`Lives`), as in `store_verdict`: the store may keep it a unit
longer than its pod does, but never longer than the verdict's own TTL (`TypeOK`).

*An observation.* `schedule` and `_prune` run only from requests and from finishing tasks.
When the failure that starts a global pause ends the last task, `schedule` starts nothing,
and no timer runs when the pause is over: a queued span is then neither judged nor expired
until another request comes, whereas `.agents/skills/litellm-config-change/SKILL.md:128-129`
says that the queue drains and that queued work expires after five minutes. Redaction is
unaffected: the span stays redacted. `QueueServed` names the end of a pause as one of the two
ways a free slot may be left beside a queued span, and `QueueDrainsUnlessPaused` has the
pause in its name.

### ReportedSpans

*State.* `shared` holds the keys of Valkey; `seen[p]` is `_SEEN_SPANS` of pod `p`;
each request has the spans it carries, the claims Valkey has not run yet (`unsent`)
and those that found no key (`won`); `orphans` are claims that may still run though
nobody waits for them. History variables record who reported what, and why a report
may be missing or doubled: `unsure` (unanswered or expired), `lost` (the claimant was
cut short), `raced` (two requests of one pod at once), `forgotten` (evicted, or the
pod restarted).

*Steps.* `Prepare`, `Claim` (one SET .. GET: the pipeline is no transaction), then one
of `Replied`, `Errored` (the redaction raises half way, a 503), `Unanswered`
(timeout: every span counts as new), `Cancelled`; besides `LateClaim`, `Crash`,
`Expire`. The pod's memory is read and written after the claim returns, as in the
code: that is where the race of finding 1 lives.

### GuardrailRequest

*State.* `callStates` holds the keys of `_CALL_STATES` in insertion order. Per call:
where it is (`pc`), the deployment attempt (0 at ingress), the request as the ingress
stage left it (`data`), the payload of the current stage (`work`: the spans it still
carries verbatim), and the fields of its call state: `judge_decisions`,
`judge_wait_deadline` (`armed`, and what is `left` of it), `new_counts`, `redacted`.
`verdict` is what `judge.lookup` would say at the moment. History: what was acquitted,
claimed, sent, told, redacted, how long the call waited, and `kept`: the calls whose
ingress stage ended without making room in `_CALL_STATES`. Of the response: `pending`,
whether an iterator still has to add the notice, `body`, whether the client got text, and
`reply`, how often that text has the notice of the call's `new_counts`.

*Steps.* `PreCall` and `Deploy` begin a stage up to its first await, the read of
Valkey (for a local destination the stage is over at once); `AwaitJudge` goes on after
the read and may wait; `WaitOver` ends the wait. `Decide` pins the verdicts, and either
claims the spans left to redact or, if there are none, runs `_process` (`Process`).
`Claimed` is the end of a claim and the redaction that follows it without an await,
`RedactFails` a redaction that raises, `ScanFails` any other failure of the stage,
`Cancel` a client that leaves. `Send` and `DeploymentFails` are LiteLLM's: the deployment gets
the payload, and fails (the next attempt may follow). `Respond` is a whole answer through
`async_post_call_success_hook`, `StreamStarts` a streamed one, in chunks of a chat
(`Chunk`: `async_post_call_streaming_iterator_hook`) or in events of the Responses API
(`TextDelta`, `Completed`: `process_chunk`), until `StreamEnds`.

*Abstractions.* What `SpanJudge` does is an arbitrary change of verdicts (`Judge`), and
whether a claim found a first report, the subject of `ReportedSpans`, is an arbitrary
Boolean: the properties hold whatever those two do. `LiteLLM` is external: the stages of
a call come one after another, and each attempt starts from the request as the ingress
stage returned it. A call whose entry was dropped from `_CALL_STATES` still finds its
state in the context variable `_CALL_STATE`, so that an eviction matters for the size
of the table alone. A redaction can raise only where there is something to redact. What
`_was_redacted` and `_response_notice` read besides the call state (a notice in the
text, audits in the metadata) is left out; so is a stream that falls back to another
deployment half way. A text may start with the notice when it reaches the hook (`own`), as
an answer from LiteLLM's cache does that was stored with it.

*The model's notice.* `notes` counts the notices in the payload of the current stage,
`dataNotes` those in the request as the ingress stage left it, `noticed` is the flag
`model_notice_added` of the call state. A call is a chat or Responses call whose content
is text or a list of parts, so that `_insert_model_notice` finds a place. Only
spans reported as new bring a notice, and the flag outlives the payload it stands for: every
attempt starts from the ingress payload, so a retry or fallback that reports spans as new gets
no notice if an earlier attempt got it. `ModelNotice` states what holds: no payload has two,
and the one made when the call first reported a span has one. That redacted requests
receive one, as the documentation has it, is refuted (finding 3).

*An observation.* Only `_process` makes room in `_CALL_STATES`. An ingress stage that is
cancelled at an await or refused with a 503 by `_process_with_judge` leaves the entry it
added; a later ingress stage removes at most one entry for the one it adds. Beyond the
cap the table therefore grows with each such call, and shrinks only when a deployment
stage of a call that still has its entry removes one more. `CallStatesBounded` is the
bound that holds. Nothing in the repository promises a tighter one.

### K3sRemediate

*State.* `ledger[k]`: for how long the newest entry of key `k` stays inside the
cutoff. A run (`Start`, rows of tier 0, `Tier1`, rows of tier 1, `End`) has its
candidate rows, `acted` and `breaker`. History: `since`, `times` for deletions that
took effect, `hidden` for those the ledger does not show. Whether a deletion happened
and whether the script learns of it are separate: `Refused`, `Counted` (whose append
may fail), `Unanswered` (kubectl was cut off by `timeout`), `Crash`. Candidates are an
arbitrary choice at `Start`, since they depend on the cluster. Runs do not overlap
(one hourly cron entry) and take no time on the scale of the ledger.

### SeenStore

*State.* `seen` is `_SEEN_SPANS`, as the place of each span in its order; `pending`,
`flushing` are those of `_SeenStore`; `batch` is what a worker thread (or the exit
handler) is writing; `last` is the column `last_seen` of `reported_spans`. History:
`since[d]`, the spans that were registered after `d` (or stored in one batch with it),
and `lost`, the spans whose last registration the table does not hold.

*Steps.* `Register` is `_register_spans` for one text, with the trim of the memory, of
the queue, and the start of a flush task; `Take` and `Idle` are the two ways of a turn of
`_flush`; `Commit` and `WriteFails` the ends of `_persist`. `Stop` ends the event loop,
after which the exit handler `_flush_sync` takes batch after batch; `Exit`, `Crash` end
the process. `Start` reopens the table and refills the memory, `StartWithout` fails to.

*Assumptions.* The wall clock does not step back between two batches. Rows of one batch
have one time and come back in any order. A span that occurs twice in a text counts
once. CPython joins the executor's threads before the exit handler runs. The columns
`hits` and `first_seen` are not read by the program and are left out.

### HostPower

*State.* `sys[c]` is what control `c` (a file below `/sys`, or the daemon's profile)
holds, `due` the ceilings that a driver has accepted and not published. Of a run: what
the plan read (`initial`), the controls to go (`todo`, taken in the order of `Place`),
the further reads of a ceiling. History: what the run wrote, what the hardware rounded,
what others changed, and whether it was struck: by a fault, or by a ceiling in force that
reads as zero, which the validation refuses though the request is sound (`NoCeiling`).

*Steps.* `Start`, then `Plan` (all the checks; a run is rejected before any write, or ends
there in check mode), then for each control `Keep`, or `Write` and its readback: `Confirm`,
`ReadAgain`, `Mismatch`. The caps of the daemon's backend are read after the profile was set,
all others before the first write (`PreRead`). `AccessFails`, `Publish`, `Kill`, `Boot` and
`Drift` are the host's. The checks are `Unusable` (what the request and the files say) and
`CeilingMalformed` (what the ceiling says at the time). `Restraint` does not refer to them:
it spells out what a written control implies of request and host, so that a check that is
dropped from either violates it.

*Assumptions.* A write resets at most controls that come later in the plan, and at once
(the comment "Boost controls may reset cpufreq policy limits, so apply the ceiling after
boost"). The configuration stays the same from run to run. A zone has one constraint.
Unreadable, read-only and malformed files are one case, `broken`.

### PhotonScheduler

*State.* The two markers (`attempt` with its time), the backup, the age of the index, free
space, the `UPDATING` flag and the error handler's flag; the metrics thread between its two
reads; `bad`, the samples in a row that satisfy the alert's expression (up to `Enough`, for
"for: 15m"). `run_update` and the index belong to Photon's image (external): `Work` lets it
touch index and backup in any way and log an error at any time.

*Steps.* One action per file operation of the thread, from `Check` to `End`; `Raise` for an
exception in the checks, at a marker, in the update, or after an update that logged no error
(`BACKUP.exists()` and `FAILURE.unlink()`, lines 111-112); `ReadFailure` and `ReadUpdating` of
a sample; `Crash`, `Operator` (the backup is removed, the disk fills or empties), `Tick`.

*An observation.* An exception at lines 111-112 leaves the failure marker behind an update
that went well (the history variable `stuck`), and the alert says "failed or was interrupted"
(`prometheusrule.yaml:20`) until the next update that goes well, a month later unless a hand
removes the marker. `AlertTrue` has it as the one
cause besides a failure, an interruption or a stop (`mishap`).

*Assumptions.* A sample takes far less than a unit of time: in each unit at least one sample
is not torn unless the pod is down. Three bad samples stand for the alert's fifteen minutes.
With two, two torn samples in a row would fire it; that three cannot is proved (`Enough`
is any number from three on).

### BookOrbit

*State.* BookOrbit: `libs`, `access`, `defaults`, `conf` (setup, entries, users and their
roles, the plugin), and `late`, the requests that timed out and may still take effect. The
run: its place and what it has read (`found`, `listed` and `managed`, `defs`, `rights`,
`onpage`, `plug`), apart from the store because the script acts on what it read. An entry is
a thing of which there should be one, and `conf.entries` has its copies in the order of
creation, since BookOrbit accepts more. `Mode` says how the script treats it: set blindly,
create or update ("upsert"), the same but refuse another type ("typed"), write only if it
differs ("lazy"), remove ("obsolete"); `Taken` is the copy it looks at, the first that `find`
meets or the last that a `Map` keeps. `Groups` are the lists read together, in the script's
order. History: `extra`, the entries of which a creation timed out or others added a copy.

*Steps.* One action per request or decision. `Answered` is a request that is answered;
`Fails` is a run that ends at any point, and any request it was about to make may join
`late`; `Land` and `Vanish` are what becomes of it, at once or runs later. `Rejected` is an
answer the script does not expect, `SelfUpdate` a plugin that updates itself, `Change` what
administrators, users and sign-ins do.

*Assumptions.* BookOrbit is not in the repository. `Accepts`, `LibsAfter` and the like say
what the script's use of the API implies: it refuses what concerns a library, user or
copy that does not exist; deleting a library removes its access and its place among the
defaults; it does not enforce unique names, so that a late POST may create a second one. Nothing
in the script removes the second copy of an entry, or corrects it: `Converges` (`EntrySettled`)
asks that the copy it looks at is right and that it is the only one but for the entries of
`extra`. `late` is a set: of two requests alike that are under way one takes effect. The
list of libraries comes in a stable order (of creation, here): were the order arbitrary,
two runs could choose different libraries of one name, and `ManagedKept` would fail. One run
at a time (`concurrencyPolicy: Forbid`). Login, health wait, connection tests and syncs change
nothing that the properties speak of and may fail like anything else (`Fails`). The mail
provider's flags are part of its entry, and one plugin stands for both. A library of the right
folder and mode `fits`; its scan schedule is `cron`. Names that differ in case are one name.
The users are finitely many, the roster lists none of them twice, and a user has one access
level per library.

## 3. Runs

| Run | Expect | Shows |
| --- | --- | --- |
| `span_judge` | pass | caps, one task per span, PASS only after its write, starts are due, nothing else leaves the queue unserved, with every fault |
| `span_judge_live` | pass | types, the store's TTLs among them; waits end; the queue drains while nothing pauses |
| `reported_spans` | pass | types, memory per pod, first report unless raced, refinement of `FirstReport` |
| `reported_spans_race` | violation | finding 1 |
| `guardrail_request` | pass | nothing unacquitted is sent, one wait budget, truthful responses (whole and streamed), at most one notice to the model and when there is one, claims match redactions, the size of the state table |
| `guardrail_request_notice` | violation | finding 3 |
| `k3s_remediate` | pass | budget, breaker, cooldown under every fault |
| `k3s_remediate_timeout` | violation | finding 2 |
| `seen_store` | pass | what was reported is forgotten only behind newer spans or through a loss, across restarts; no digest is stranded |
| `host_power` | pass | only what was asked for and is usable is written, applied values hold, a rerun is quiet, valid requests fail only for a cause, runs end |
| `photon_scheduler` | pass | at most one update a day and never over a backup; the alert is true and comes; the schedule survives every exception |
| `book_orbit` | pass | no desired library falls to a deletion; runs converge, every entry to one copy unless a late creation or others made more |

*Bounds.* `span_judge`: two spans, two requests, all caps and periods 1, two failures
to pause: with one slot, one queue place and one overlay entry every limit is met, and
two requests are enough for any pair of interleaved calls of `collect` and `schedule`.
That the caps hold for longer queues, more slots and larger requests is what `Bounded`,
`OneJudge` and `DueStarts` prove. Periods of 1 make expiry, end of pause and end of backoff happen in any
order with respect to each other through the interleaving of `Tick`. `span_judge_live` has one
request, and a TTL of 2 for "redact" and of 1 for "pass", so that a rest of life can be rounded
up. `reported_spans`:
two requests on one pod and one on another, two spans, a memory of one: a race on one
pod, a race across pods, and an eviction all happen. `guardrail_request`: a call with an
ingress stage and two attempts, so that a retry follows both a local and a remote one,
and a call with an ingress stage only, over a table of one entry, so that each can drop
the other's (`guardrail_request_notice` has the same instance); one span the judge decides and one it does not; a budget of two units, so
that a wait can end before it is spent and another stage use the rest. `k3s_remediate`: three owners
against a breaker of two, two pods each, a budget of two, a window of two runs.
`seen_store`: three spans over a memory and a table of two, batches of two, five
registrations (`MaxRegistered`, which makes `Drained` speak of bursts that end).
`host_power`: two policies, of which the ceiling concerns one; three zones, one linked twice
and two of one name; valid and invalid configurations with every kind of control; two
further reads. `photon_scheduler`: a month of 3, a day of 2, time up to 9, which is room for
three updates. `book_orbit`: two desired libraries and another name, two users on two pages,
five entries of all modes in four groups, four installations (fresh, used, two refused); two
troubles, of which one is a change by others: a late request of one run meets the next run,
fails there or is overtaken by a change. What a
larger instance could add, the theorems cover: they hold for all values of the
constants. Symmetry is used in safety runs only, over sets whose elements are
interchangeable.

*Deadlock* is checked but for `ReportedSpans` and `GuardrailRequest`, where each request
runs once and the model ends when all are done.

*Fairness.* `SpanJudge!FairSpec` asks that time passes and that a runnable coroutine
runs: `WF` of `Tick` and of each request's own continuation. asyncio's loop is FIFO,
so both are justified. Nothing is asked of arrivals, clients, other pods. That judge
tasks end is the antecedent `TasksEnd` of the drain properties (their calls have
timeouts: `GUARDRAIL_SECRETS_JUDGE_TIMEOUT`, 0.5 s for Valkey), not an assumption of
`WaitEnds`: waits end even if tasks hang. The live runs leave out cancellation after
the wait: a request whose budget was spent collects and schedules only one await
later, and cancelled there leaves its candidates to the next request, a gap of the
same kind as the end of a pause. A queued entry that expires may be replaced, in one step, by a new
one for the same span (with three spans over a queue of two it may be so for ever, under
requests that never end): the drain properties are about entries, hence `Renewed`.

`SeenStore` asks that the event loop turns (`Take`, `Idle`) and that a write ends, well or
not. `HostPower` asks for the helper's own steps alone; that a ceiling is ever published is
not assumed. `PhotonScheduler` asks for samples (`WF`) and that the loop's check, which the
minute's wait repeats, is made in the end if it could be made again and again (`SF`); not that an
update returns, a pod starts or time passes. `BookOrbit` asks that runs start and go on (the
CronJob) and that no request is under way for ever; troubles are bounded by `MaxTroubles`,
so `Converges` reads: once they are over.

## 4. Findings

1. **Two concurrent requests of one pod can both stay quiet** (`reported_spans_race`,
   `FirstReportFires`). The one that created the claim finds the span in the pod's
   memory, where the other, which found the key, put it meanwhile.
   `.agents/skills/litellm-config-change/SKILL.md:138-139` says that reporting "fires on the
   first report of a span", and a comment in `_prepare_valkey_reports` calls the gating
   atomic across pods. `FirstReportUnlessRaced` shows this is the only way without a request
   being cut short.
2. **A deletion that outlasts the kubectl timeout is not recorded**
   (`k3s_remediate_timeout`, `OneActionPerOwner`). It is logged as failed, so it enters
   neither ledger, budget nor breaker, against the guard rails in the script's header.
   `CooldownUnlessHidden` shows that what is recorded is never repeated.
3. **A redacted request may reach the model without a notice** (`guardrail_request_notice`,
   `RedactedNoticed`). The same SKILL.md (71-72) says: "Redacted chat requests receive a
   model-context notice and an assistant-visible notice". The code (guardrail 1648-1650) adds
   it for spans that the stage reports as new, so a request whose redacted spans are all known
   has none: the run's trace. And the flag kept for the call (722-724) outlives the payload
   with the notice, so a retry of a call whose first attempt was told has none either.
   `ModelNotice` is what does hold.

## 5. Proofs

All theorems are for arbitrary constants that satisfy the modules' named assumptions
(`JudgeConstants`, `ReportConstants`, `RequestConstants`, `RemediateConstants`,
`StoreConstants`, `PowerConstants`, `PhotonConstants`, `OrbitConstants`), which TLC evaluates in
every run.

*SpanJudge.* The inductive invariant is `TypeOK /\ QueueInv /\ PassInv /\ CacheInv`.
`OneJudgePerSpan` alone is not inductive: that a span being started is not in
backoff needs to be known of queued spans already (`QueueInv`: no queued span is in
backoff, because a span enters the backoff only while its task runs and it is then not
queued). `FailedWriteGrantsNoPass` needs to follow a "pass" along its ways into memory:
from the store, from a reply that is still to be applied, from a task between its write
and its record (`PassInv`). `CacheInv` bounds overlay and backoff. Theorems: `TypeCorrect`,
`Bounded`, `OneJudge`, `PassNeedsWrite`, and, for the action properties `StartsAreDue` and
`QueueServed`, `DueStarts` and `Served`. The latter says that the two gaps known of, the end of a
pause and a request whose wait budget was spent (guardrail 1498), are the only
ones: a call of `schedule` ends with the queue empty, all slots taken, or in a pause
(`DispatchServes`), and every step that frees a slot or queues a span makes one, but for
those two.

*ReportedSpans.* `MemoryInv` (a pod that reported a span remembers it or has
forgotten it), `ClaimInv` (a span has at most one claim that found no key, and none once
it was reported, unless unsure) and `TraceInv` (what became of a carried span) give
`OncePerPod`, `FirstReportHolds`, and `Implements`: initial states map to initial
states, and each step is a `Tell` or a stutter of `FirstReport` with
`told <- Cardinality(reported[d])`, `excused <- unsure`.

*GuardrailRequest.* The inductive invariant is `TypeOK` and, for each call, `CallInv`.
`ScanInv` follows a payload: while the claim is awaited, the pinned verdicts pass only
acquitted spans and the claims are the rest; once scanned for an attempt, only acquitted
spans are left; what was sent is one of these. `FailClosed` alone speaks of the end of that
chain and is not inductive. `WaitInv` says that what was waited and what is left make up
at most the budget, `TellInv` that the call state agrees with what the stages did. A
step touches one call, and `OneCall` reduces each step to that call. Theorems:
`TypeCorrect`, `NeverFailsOpen`, `WaitsOnce`, `ResponseTruthful`, `ClaimsAreRedactions`.
`StatesBounded` counts: a step adds an entry only with a call that enters its ingress
stage, and when that call leaves it the entry is paid for by a dropped one or by a member
of `kept` (`RoomInv`: a member of `kept` is past its ingress stage, so it is counted once).
`NoticedOnce` (`ModelNotice`, by `NoticeInv`) relates the flag, the ingress payload's notices and those of the
current one. `Replies` is a second invariant, `RInv`: during a stream a notice is pending
exactly if the call state asks for one and no text went out yet, and outside of a response
nothing of one is there. With what `CallInv` says of the call state it gives
`ResponseTruthful`.

*K3sRemediate.* `LedgerInv` relates the ledger to what happened; `BreakerInv` says that
the run's running count is never below the number of recent owners. They give
`TypeCorrect`, `BreakerBound`, `BreakerCount`, `OneActionWhileRecorded`.

*SeenStore.* `Remembers` rests on what relates memory, queue, batch and table: a span that
is known and not lost is in memory behind fewer spans than `since` has members, or will be
put there by the next start from the table's newest rows. `Types` bounds the three by
their caps, `NoneStranded` is `NothingStranded`.

*HostPower.* `Restrained`: what is written was asked for (`PlannedAsked`), and once a run
writes, each check that it passed says of the request and the host what `Restraint` spells
out (`BrokenChecked`, `CeilingChecked`, `LimitChecked`). `Applied`: controls
whose turn is over hold their value, since a write resets only controls that come later.
`Quiet`: from a run that succeeded to the letter until the next, nothing differs from the
plan. `FailedForCause` (`FailsForCause`): the plan's checks, one by one, are turned into what they
say of the host and the request (`CeilingCause` for the ceilings, `LimitCause` for the RAPL limits, where a zone that is
linked twice must not count as two), and a run that fails on the way was struck. `Types`.

*PhotonScheduler.* `Apart` (`RunsAllowed`) needs that the last start is no younger than the
attempt marker, and that the day's distance and the missing backup established by the check
still hold at the start of the run (`Spaced`). `Truthful` (`AlertTrue`): without a mishap or a marker that is stuck, a bad
sample is a torn one, whose first read was made during an update (`Torn`). Two in a row are
possible if the first update took a day, so that the next began at once; a third needs an
attempt that is younger still (`Recent`), which is a day too early. `Types` is the type
invariant, which the run leaves to the proof.

*BookOrbit.* `Kept` (`ManagedKept`) rests on `KInv`: a library under deletion, now or late,
has an older fitting library for its name (`LateInv`), so that the oldest is never under
deletion; what the run has listed agrees with what there is but for younger and deleted
libraries (`ListInv`); the first listed library of a desired name, and later the chosen one,
is under no deletion (`FirstInv`). A deletion keeps a fitting library of each name
(`Deletion`), and a creation disturbs none of this because a new library is the youngest.
`Types` (`TypeOK`) needs more than domains: that a list is not read past its end, that a page
beyond the last is never asked for, that what a request uses was read before. Its invariant
`TInv` ties what is in hand to the place of the run (`LibTypes`, `EntryTypes`, `AccessTypes`,
`RestTypes`); that pages end rests on a roster without repetitions, which is no longer than
there are users.

*Model-checked only.* Liveness under fairness is outside what the prover does: `WaitEnds`,
`QueueDrainsUnlessPaused`, `Drained`, `RunEnds`, `AlertComes`, `Attempted`, `Converges`.
Every invariant and action property of the passing runs is a theorem. The three violations
are counterexamples of small instances and need no proof.

## 6. Plan

Done: `SpanJudge`, `FirstReport`, `ReportedSpans`, `GuardrailRequest`, `K3sRemediate`,
`SeenStore`, `HostPower`, `PhotonScheduler`, `BookOrbit`, with proofs. What is left, in this
order:

1. The safety that the liveness properties rest on, where it says something by itself, as
   `QueueServed` does for the queue of the judge: what a late run of the BookOrbit reconciler
   can undo once everything is as listed.
2. `ScanMerge`: sorting and merging of matches as a pure function against a reference
   definition over bounded inputs.
3. The idle restart of ComfyUI: checks that may be stale when the container is restarted.

An abstract judge for `GuardrailRequest` to stand on was planned and dropped: what that
module assumes of verdicts is that they change in any way at any time, which every judge
implements.

## 7. Not modelled

Regular expressions, entropy and fingerprints (data); the SQLite verdict table and
other settings the deployment does not select; catalogs, patches, adapters, build
scripts, hooks and CI (straight-line or stateless code). The k3s maintenance role, whose
order (one node at a time, no further host after a failure) is a promise of Ansible's
`serial` and `any_errors_fatal`, so that a model would check Ansible. The declarative
infrastructure, whose behaviour is that of its controllers.
