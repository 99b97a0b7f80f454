---------------------------- MODULE K3sRemediate ----------------------------
(***************************************************************************)
(* scripts/k3s/k3s-remediate.sh, which k3s-remediate-cron.sh runs once an  *)
(* hour: it deletes old finished Jobs (tier 0) and stuck pods (tier 1),    *)
(* restrained by a budget per run, a cooldown per owner and a circuit      *)
(* breaker on the number of pod owners, all kept in one ledger file.       *)
(*                                                                         *)
(* Runs do not overlap.  Time passes between runs only: a run stamps what  *)
(* it does with the time it started at.  What the lists of candidates hold *)
(* is up to the cluster; a run whose lists fail does nothing.              *)
(***************************************************************************)
EXTENDS Naturals, FiniteSets

CONSTANTS
    Jobs,           \* the finished Jobs past JOB_TTL_DAYS, by UID
    Owners,         \* the ReplicaSets and DaemonSets with stuck pods, by UID
    Replicas,       \* stuck pods an owner may have at once
    MaxActions,     \* MAX_ACTIONS_PER_RUN
    Cooldown,       \* OWNER_COOLDOWN_HOURS, in hourly runs
    BreakerKeys,    \* BREAKER_KEYS
    Faults          \* the kinds of fault that may happen

Keys == Jobs \cup Owners

ASSUME RemediateConstants ==
    /\ IsFiniteSet(Owners)
    /\ Jobs \cap Owners = {}
    /\ {Replicas, MaxActions, Cooldown, BreakerKeys} \subseteq Nat \ {0}
    /\ Faults \subseteq {"timeout", "append", "crash"}

VARIABLES
    ledger,     \* ledger[k]: time until the last entry of k passes the cutoff
    gone,       \* the Jobs that were deleted
    pc,         \* "idle", "tier0" or "tier1"
    mode,       \* "apply" or "dry-run"
    jobRows,    \* the rows of tier0 not read yet
    podRows,    \* podRows[o]: the rows of tier1 with owner o not read yet
    acted,      \* the run's count of its actions
    breaker     \* pod owners acted on lately, as the run counts them

VARIABLES       \* history
    since,      \* since[k]: time until the last deletion for k is Cooldown old
    times,      \* times[k]: deletions for k, each within Cooldown of the one
                \* before; 2 stands for more
    hidden      \* keys with a recent deletion that the ledger does not show

runVars == <<jobRows, podRows, acted, breaker>>
history == <<since, times, hidden>>
vars == <<ledger, gone, pc, mode, runVars, history>>
-----------------------------------------------------------------------------
NeverActive(k) == FALSE

(* cooldown_active *)
CooldownActive(k) == ledger[k] > 0

SpentOneLater == acted > MaxActions

Spent == acted >= MaxActions

RecentOwnersAndJobs == {k \in Keys : ledger[k] > 0}

(* The pod owners with an entry in the ledger inside the window.           *)
RecentOwners == {o \in Owners : ledger[o] > 0}
NoRows == [o \in Owners |-> 0]

Init ==
    /\ ledger = [k \in Keys |-> 0]
    /\ gone = {}
    /\ pc = "idle"
    /\ mode = "dry-run"
    /\ jobRows = {}
    /\ podRows = NoRows
    /\ acted = 0
    /\ breaker = 0
    /\ since = [k \in Keys |-> 0]
    /\ times = [k \in Keys |-> 0]
    /\ hidden = {}

StartWithBreakerClosed(m, J, rows) ==
    /\ pc = "idle"
    /\ pc' = "tier0"
    /\ mode' = m
    /\ jobRows' = J
    /\ podRows' = rows
    /\ acted' = 0
    /\ breaker' = 0
    /\ UNCHANGED <<ledger, gone, history>>

(* A run counts the recent owners and lists both kinds of candidates.      *)
Start(m, J, rows) ==
    /\ pc = "idle"
    /\ pc' = "tier0"
    /\ mode' = m
    /\ jobRows' = J
    /\ podRows' = rows
    /\ acted' = 0
    /\ breaker' = Cardinality(RecentOwners)
    /\ UNCHANGED <<ledger, gone, history>>

(* What a row of key k leads to.  Whether an object is deleted and whether *)
(* the script knows it are two questions: kubectl delete waits for the     *)
(* object to be gone and is cut off after TIMEOUT.                         *)
Skip(k) ==
    /\ CooldownActive(k) \/ Spent
    /\ UNCHANGED <<ledger, acted, history>>

Plan(k) ==
    /\ ~CooldownActive(k) /\ ~Spent
    /\ mode = "dry-run"
    /\ acted' = acted + 1
    /\ UNCHANGED <<ledger, history>>

Refused(k) ==
    /\ ~CooldownActive(k) /\ ~Spent
    /\ mode = "apply"
    /\ UNCHANGED <<ledger, acted, history>>

Deleted(k) ==
    /\ ~CooldownActive(k) /\ ~Spent
    /\ mode = "apply"
    /\ since' = [since EXCEPT ![k] = Cooldown]
    /\ times' = [times EXCEPT ![k] = IF @ = 2 THEN 2 ELSE @ + 1]

(* The deletion is known and the entry is appended, or the append fails,   *)
(* which the script does not notice.                                       *)
Counted(k) ==
    /\ Deleted(k)
    /\ acted' = acted + 1
    /\ \/ /\ ledger' = [ledger EXCEPT ![k] = Cooldown]
          /\ UNCHANGED hidden
       \/ /\ "append" \in Faults
          /\ hidden' = hidden \cup {k}
          /\ UNCHANGED ledger

(* The deletion was accepted, but kubectl did not return in time.          *)
Unanswered(k) ==
    /\ "timeout" \in Faults
    /\ Deleted(k)
    /\ hidden' = hidden \cup {k}
    /\ UNCHANGED <<ledger, acted>>

(* The host stops between the deletion and the append.  (A run that stops  *)
(* elsewhere is one that had fewer rows.)                                  *)
Crash(k) ==
    /\ "crash" \in Faults
    /\ Deleted(k)
    /\ hidden' = hidden \cup {k}
    /\ pc' = "idle"
    /\ jobRows' = {}
    /\ podRows' = NoRows
    /\ UNCHANGED <<ledger, mode, acted, breaker>>

(* One round of the tier-0 loop.                                           *)
JobRow(j) ==
    /\ pc = "tier0"
    /\ j \in jobRows
    /\ \/ /\ jobRows' = jobRows \ {j}
          /\ \/ (Skip(j) \/ Plan(j) \/ Refused(j)) /\ UNCHANGED gone
             \/ (Counted(j) \/ Unanswered(j)) /\ gone' = gone \cup {j}
          /\ UNCHANGED <<pc, mode, podRows, breaker>>
       \/ Crash(j) /\ gone' = gone \cup {j}

Tier1 ==
    /\ pc = "tier0"
    /\ jobRows = {}
    /\ pc' = "tier1"
    /\ UNCHANGED <<ledger, gone, mode, runVars, history>>

(* One round of the tier-1 loop.                                           *)
PodRow(o) ==
    /\ pc = "tier1"
    /\ podRows[o] > 0
    /\ breaker < BreakerKeys
    /\ \/ /\ podRows' = [podRows EXCEPT ![o] = @ - 1]
          /\ \/ (Skip(o) \/ Plan(o) \/ Refused(o) \/ Unanswered(o)) /\ UNCHANGED breaker
             \/ Counted(o) /\ breaker' = breaker + 1
          /\ UNCHANGED <<pc, mode, jobRows>>
       \/ Crash(o)
    /\ UNCHANGED gone

(* The rows are read, or the breaker is open.                              *)
End ==
    /\ pc = "tier1"
    /\ podRows = NoRows \/ breaker >= BreakerKeys
    /\ pc' = "idle"
    /\ podRows' = NoRows
    /\ UNCHANGED <<ledger, gone, mode, jobRows, acted, breaker, history>>

(* An hour passes.                                                         *)
Tick ==
    /\ pc = "idle"
    /\ ledger' = [k \in Keys |-> IF ledger[k] = 0 THEN 0 ELSE ledger[k] - 1]
    /\ since' = [k \in Keys |-> IF since[k] = 0 THEN 0 ELSE since[k] - 1]
    /\ times' = [k \in Keys |-> IF since[k] > 1 THEN times[k] ELSE 0]
    /\ hidden' = {k \in hidden : since[k] > 1}
    /\ UNCHANGED <<gone, pc, mode, runVars>>

Next ==
    \/ \E m \in {"apply", "dry-run"}, J \in SUBSET (Jobs \ gone),
          rows \in [Owners -> 0..Replicas] : Start(m, J, rows)
    \/ \E j \in Jobs : JobRow(j)
    \/ Tier1
    \/ \E o \in Owners : PodRow(o)
    \/ End
    \/ Tick

Spec == Init /\ [][Next]_vars
-----------------------------------------------------------------------------
(* Every variable stays in its domain; a run never counts more actions     *)
(* than its budget.                                                        *)
TypeOK ==
    /\ ledger \in [Keys -> 0..Cooldown]
    /\ gone \subseteq Jobs
    /\ pc \in {"idle", "tier0", "tier1"}
    /\ mode \in {"apply", "dry-run"}
    /\ jobRows \subseteq Jobs
    /\ podRows \in [Owners -> 0..Replicas]
    /\ acted \in 0..MaxActions
    /\ breaker \in Nat
    /\ since \in [Keys -> 0..Cooldown]
    /\ times \in [Keys -> 0..2]
    /\ hidden \subseteq Keys

(* "stop entirely once BREAKER_KEYS distinct pod owners were acted on in   *)
(* the last 24h": over any such window and any number of runs, no further  *)
(* owner loses a pod, but for deletions the ledger never saw.              *)
BreakerHolds ==
    Cardinality({o \in Owners \ hidden : since[o] > 0}) <= BreakerKeys

(* While every deletion is recorded, the count that opens the breaker is   *)
(* the number of distinct owners acted on: a run counts pods as it goes,   *)
(* but its own entries keep it from counting an owner twice, and Jobs,     *)
(* "routine hygiene", never count.                                         *)
BreakerExact ==
    pc # "idle" /\ hidden = {} => breaker = Cardinality({o \in Owners : since[o] > 0})

(* A second action on an owner inside its cooldown needs an earlier one    *)
(* that the ledger did not record.                                         *)
CooldownUnlessHidden ==
    \A k \in Keys \ hidden : times[k] <= 1

(* "one action per owner UID per OWNER_COOLDOWN_HOURS (24)".               *)
OneActionPerOwner ==
    \A k \in Keys : times[k] <= 1
(* The inductive invariants behind these: what the ledger shows of the     *)
(* deletions, and what the run's own count shows of the ledger.            *)
LedgerInv ==
    \A k \in Keys :
        /\ ledger[k] <= since[k]
        /\ since[k] = 0 => times[k] = 0
        /\ k \notin hidden => ledger[k] = since[k] /\ times[k] <= 1

BreakerInv ==
    /\ Cardinality(RecentOwners) <= BreakerKeys
    /\ pc # "idle" => breaker >= Cardinality(RecentOwners)
    /\ pc # "idle" /\ hidden = {} => breaker = Cardinality(RecentOwners)
=============================================================================
