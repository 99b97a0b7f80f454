------------------------- MODULE K3sRemediateProofs -------------------------
(***************************************************************************)
(* Proofs about K3sRemediate, for any Jobs, owners, limits and faults.     *)
(***************************************************************************)
EXTENDS K3sRemediate, FiniteSetTheorems, TLAPS

Inv == TypeOK /\ LedgerInv /\ BreakerInv

(* There are finitely many recent owners.                                  *)
LEMMA RecentOwnersFinite == IsFiniteSet(RecentOwners) /\ Cardinality(RecentOwners) \in Nat
  BY RemediateConstants, FS_Subset, FS_CardinalityType DEF RecentOwners

(* A row that deletes nothing leaves ledger and history alone, and keeps   *)
(* the count of actions in the budget.                                     *)
LEMMA QuietRow ==
  ASSUME TypeOK, NEW k \in Keys, Skip(k) \/ Plan(k) \/ Refused(k)
  PROVE  acted' \in 0..MaxActions /\ UNCHANGED <<ledger, history>>
  BY RemediateConstants DEF TypeOK, Skip, Plan, Refused, Spent, history

(* A row that deletes keeps the types, the budget and LedgerInv.           *)
LEMMA DeletingRow ==
  ASSUME TypeOK, LedgerInv, NEW k \in Keys, Counted(k) \/ Unanswered(k) \/ Crash(k)
  PROVE  /\ acted' \in 0..MaxActions
         /\ ledger' \in [Keys -> 0..Cooldown]
         /\ since' \in [Keys -> 0..Cooldown]
         /\ times' \in [Keys -> 0..2]
         /\ hidden' \subseteq Keys
         /\ LedgerInv'
<1>1. /\ ledger[k] = 0 /\ acted < MaxActions
      /\ since' = [since EXCEPT ![k] = Cooldown]
      /\ times' = [times EXCEPT ![k] = IF @ = 2 THEN 2 ELSE @ + 1]
  BY RemediateConstants DEF TypeOK, Counted, Unanswered, Crash, Deleted, CooldownActive, Spent
<1>2. \/ /\ ledger' = [ledger EXCEPT ![k] = Cooldown]
         /\ hidden' = hidden
      \/ /\ ledger' = ledger
         /\ hidden' = hidden \cup {k}
  BY DEF Counted, Unanswered, Crash
<1>3. acted' \in {acted, acted + 1}
  BY DEF Counted, Unanswered, Crash
<1>4. /\ acted' \in 0..MaxActions
      /\ ledger' \in [Keys -> 0..Cooldown]
      /\ since' \in [Keys -> 0..Cooldown]
      /\ hidden' \subseteq Keys
  BY <1>1, <1>2, <1>3, RemediateConstants DEF TypeOK
<1>5. times' \in [Keys -> 0..2]
  BY <1>1 DEF TypeOK
<1>6. k \notin hidden => times[k] = 0
  BY <1>1 DEF LedgerInv
<1>7. LedgerInv'
  <2> SUFFICES ASSUME NEW e \in Keys
               PROVE  /\ ledger'[e] <= since'[e]
                      /\ since'[e] = 0 => times'[e] = 0
                      /\ e \notin hidden' => ledger'[e] = since'[e] /\ times'[e] <= 1
    BY DEF LedgerInv
  <2>1. CASE e = k
    BY <2>1, <1>1, <1>2, <1>6, RemediateConstants DEF TypeOK
  <2>2. CASE e # k
    <3>1. /\ ledger'[e] = ledger[e] /\ since'[e] = since[e] /\ times'[e] = times[e]
          /\ e \in hidden' <=> e \in hidden
      BY <2>2, <1>1, <1>2 DEF TypeOK
    <3> QED
      BY <3>1 DEF LedgerInv
  <2> QED
    BY <2>1, <2>2
<1> QED
  BY <1>4, <1>5, <1>7

(* What a row does to the set of recent owners.                            *)
LEMMA RecentAfterJob ==
  ASSUME TypeOK, NEW j \in Jobs, Counted(j) \/ Unanswered(j) \/ Crash(j)
  PROVE  RecentOwners' = RecentOwners /\ (hidden' = {} => hidden = {})
<1>1. j \notin Owners
  BY RemediateConstants
<1> QED
  BY <1>1 DEF RecentOwners, TypeOK, Counted, Unanswered, Crash, Keys

(* A counted deletion adds one owner, or escapes the ledger.               *)
LEMMA RecentAfterPod ==
  ASSUME TypeOK, NEW o \in Owners, Counted(o)
  PROVE  \/ /\ Cardinality(RecentOwners') = Cardinality(RecentOwners) + 1
            /\ hidden' = hidden
         \/ RecentOwners' = RecentOwners /\ hidden' # {}
<1>1. o \in Keys /\ ledger[o] = 0
  BY DEF Keys, Counted, Deleted, CooldownActive, TypeOK
<1>2. CASE ledger' = [ledger EXCEPT ![o] = Cooldown] /\ hidden' = hidden
  <2>1. RecentOwners' = RecentOwners \cup {o}
    BY <1>1, <1>2, RemediateConstants DEF RecentOwners, TypeOK, Keys
  <2>2. o \notin RecentOwners
    BY <1>1 DEF RecentOwners
  <2> QED
    BY <1>2, <2>1, <2>2, RecentOwnersFinite, FS_AddElement
<1>3. CASE ledger' = ledger /\ hidden' = hidden \cup {o}
  BY <1>3 DEF RecentOwners
<1> QED
  BY <1>2, <1>3 DEF Counted

(* A row of tier 0 preserves the invariant,                                *)
LEMMA JobRowInv ==
  ASSUME Inv, NEW j \in Jobs, JobRow(j)
  PROVE  Inv'
<1> USE DEF Inv
<1>0. j \in Keys
  BY DEF Keys
<1>1. CASE Skip(j) \/ Plan(j) \/ Refused(j)
  <2>1. /\ acted' \in 0..MaxActions /\ UNCHANGED <<ledger, history>>
    BY <1>0, <1>1, QuietRow
  <2>2. /\ pc' \in {"idle", pc} /\ UNCHANGED mode
        /\ jobRows' \subseteq Jobs /\ podRows' \in {podRows, NoRows}
        /\ breaker' = breaker /\ gone' \subseteq Jobs
    BY DEF JobRow, TypeOK, Crash
  <2> QED
    BY <2>1, <2>2, RemediateConstants DEF TypeOK, LedgerInv, BreakerInv, RecentOwners, history, NoRows
<1>2. CASE Counted(j) \/ Unanswered(j) \/ Crash(j)
  <2>1. /\ acted' \in 0..MaxActions
        /\ ledger' \in [Keys -> 0..Cooldown]
        /\ since' \in [Keys -> 0..Cooldown]
        /\ times' \in [Keys -> 0..2]
        /\ hidden' \subseteq Keys
        /\ LedgerInv'
    BY <1>0, <1>2, DeletingRow
  <2>2. /\ pc' \in {"idle", pc} /\ UNCHANGED mode
        /\ jobRows' \subseteq Jobs /\ podRows' \in {podRows, NoRows}
        /\ breaker' = breaker /\ gone' \subseteq Jobs
    BY DEF JobRow, TypeOK, Crash
  <2>3. TypeOK'
    BY <2>1, <2>2, RemediateConstants DEF TypeOK, NoRows
  <2>4. RecentOwners' = RecentOwners /\ (hidden' = {} => hidden = {})
    BY <1>2, RecentAfterJob
  <2>5. BreakerInv'
    BY <2>2, <2>4 DEF BreakerInv
  <2> QED
    BY <2>1, <2>3, <2>5
<1> QED
  BY <1>1, <1>2 DEF JobRow

(* a row of tier 1 does,                                                   *)
LEMMA PodRowInv ==
  ASSUME Inv, NEW o \in Owners, PodRow(o)
  PROVE  Inv'
<1> USE DEF Inv
<1>0. o \in Keys
  BY DEF Keys
<1>1. /\ UNCHANGED <<mode, gone>> /\ pc' \in {"idle", pc} /\ pc = "tier1"
      /\ jobRows' \subseteq Jobs /\ breaker < BreakerKeys
  BY DEF PodRow, TypeOK, Crash
<1>2. podRows' \in [Owners -> 0..Replicas]
  BY RemediateConstants DEF PodRow, TypeOK, Crash, NoRows
<1>3. CASE Skip(o) \/ Plan(o) \/ Refused(o)
  <2>1. acted' \in 0..MaxActions /\ UNCHANGED <<ledger, history>>
    BY <1>0, <1>3, QuietRow
  <2>2. breaker' = breaker
    BY <1>3, <2>1 DEF PodRow, Crash, Counted, Deleted, Skip, Plan, Refused
  <2> QED
    BY <1>1, <1>2, <2>1, <2>2 DEF TypeOK, LedgerInv, BreakerInv, RecentOwners, history
<1>4. ASSUME Counted(o) \/ Unanswered(o) \/ Crash(o)
      PROVE  /\ LedgerInv'
             /\ breaker' \in Nat => TypeOK'
  <2>1. /\ acted' \in 0..MaxActions
        /\ ledger' \in [Keys -> 0..Cooldown]
        /\ since' \in [Keys -> 0..Cooldown]
        /\ times' \in [Keys -> 0..2]
        /\ hidden' \subseteq Keys
        /\ LedgerInv'
    BY <1>0, <1>4, DeletingRow
  <2> QED
    BY <1>1, <1>2, <2>1 DEF TypeOK
<1>5. CASE Counted(o) /\ breaker' = breaker + 1
  <2>1. breaker' \in Nat
    BY <1>5 DEF TypeOK
  <2>2. /\ pc = "tier1" /\ breaker \in Nat /\ BreakerKeys \in Nat
        /\ Cardinality(RecentOwners) \in Nat /\ Cardinality(RecentOwners) <= breaker
        /\ hidden = {} => breaker = Cardinality(RecentOwners)
    BY <1>1, RecentOwnersFinite, RemediateConstants DEF BreakerInv, TypeOK
  <2>3. CASE Cardinality(RecentOwners') = Cardinality(RecentOwners) + 1 /\ hidden' = hidden
    <3>1. /\ Cardinality(RecentOwners') <= BreakerKeys
          /\ breaker' >= Cardinality(RecentOwners')
          /\ hidden' = {} => breaker' = Cardinality(RecentOwners')
      BY <1>1, <1>5, <2>2, <2>3
    <3> QED
      BY <1>4, <1>5, <2>1, <3>1 DEF BreakerInv
  <2>4. CASE RecentOwners' = RecentOwners /\ hidden' # {}
    <3>1. /\ Cardinality(RecentOwners) <= BreakerKeys
          /\ breaker' >= Cardinality(RecentOwners)
      BY <1>1, <1>5, <2>2
    <3> QED
      BY <1>4, <1>5, <2>1, <2>4, <3>1 DEF BreakerInv
  <2> QED
    BY <1>5, <2>3, <2>4, RecentAfterPod
<1>6. CASE Unanswered(o) /\ breaker' = breaker
  BY <1>1, <1>4, <1>6 DEF BreakerInv, TypeOK, Unanswered, RecentOwners
<1>7. CASE Crash(o)
  BY <1>1, <1>4, <1>7 DEF BreakerInv, TypeOK, Crash, RecentOwners
<1> QED
  BY <1>3, <1>5, <1>6, <1>7 DEF PodRow

(* and so does the hour that passes.                                       *)
LEMMA TickInv ==
  ASSUME Inv, Tick
  PROVE  Inv'
<1> USE DEF Inv
<1>1. TypeOK'
  BY RemediateConstants DEF TypeOK, Tick, runVars
<1>2. LedgerInv'
  <2> SUFFICES ASSUME NEW k \in Keys
               PROVE  /\ ledger'[k] <= since'[k]
                      /\ since'[k] = 0 => times'[k] = 0
                      /\ k \notin hidden' => ledger'[k] = since'[k] /\ times'[k] <= 1
    BY DEF LedgerInv
  <2>1. /\ ledger[k] \in Nat /\ since[k] \in Nat /\ times[k] \in Nat
        /\ ledger[k] <= since[k]
        /\ k \notin hidden => ledger[k] = since[k] /\ times[k] <= 1
    BY RemediateConstants DEF TypeOK, LedgerInv
  <2>2. /\ ledger'[k] = IF ledger[k] = 0 THEN 0 ELSE ledger[k] - 1
        /\ since'[k] = IF since[k] = 0 THEN 0 ELSE since[k] - 1
        /\ times'[k] = IF since[k] > 1 THEN times[k] ELSE 0
        /\ k \in hidden' <=> k \in hidden /\ since[k] > 1
    BY DEF Tick
  <2> QED
    BY <2>1, <2>2
<1>3. BreakerInv'
  <2>1. RecentOwners' \subseteq RecentOwners
    BY RemediateConstants DEF RecentOwners, Tick, TypeOK, Keys
  <2>2. Cardinality(RecentOwners') <= Cardinality(RecentOwners) /\ Cardinality(RecentOwners') \in Nat
    BY <2>1, RecentOwnersFinite, FS_Subset, FS_CardinalityType
  <2> QED
    BY <2>2, RecentOwnersFinite, RemediateConstants DEF BreakerInv, Tick
<1> QED
  BY <1>1, <1>2, <1>3

(* The invariant of ledger, breaker and history is inductive.              *)
THEOREM Invariant == Spec => []Inv
<1>1. Init => Inv
  <2> SUFFICES ASSUME Init PROVE Inv
    OBVIOUS
  <2>1. RecentOwners = {}
    BY DEF Init, RecentOwners, Keys
  <2> QED
    BY <2>1, FS_EmptySet, RemediateConstants
    DEF Init, Inv, TypeOK, LedgerInv, BreakerInv, NoRows
<1>2. Inv /\ [Next]_vars => Inv'
  <2> SUFFICES ASSUME Inv, [Next]_vars PROVE Inv'
    OBVIOUS
  <2>1. ASSUME NEW m \in {"apply", "dry-run"}, NEW J \in SUBSET (Jobs \ gone),
               NEW rows \in [Owners -> 0..Replicas], Start(m, J, rows)
        PROVE  Inv'
    BY <2>1, RecentOwnersFinite, RemediateConstants
    DEF Inv, TypeOK, LedgerInv, BreakerInv, RecentOwners, Start, history
  <2>2. ASSUME NEW j \in Jobs, JobRow(j) PROVE Inv'
    BY <2>2, JobRowInv
  <2>3. CASE Tier1
    BY <2>3 DEF Inv, TypeOK, LedgerInv, BreakerInv, RecentOwners, Tier1, history, runVars
  <2>4. ASSUME NEW o \in Owners, PodRow(o) PROVE Inv'
    BY <2>4, PodRowInv
  <2>5. CASE End
    BY <2>5, RemediateConstants
    DEF Inv, TypeOK, LedgerInv, BreakerInv, RecentOwners, End, history, NoRows
  <2>6. CASE Tick
    BY <2>6, TickInv
  <2>7. CASE UNCHANGED vars
    BY <2>7 DEF Inv, TypeOK, LedgerInv, BreakerInv, RecentOwners, vars, history, runVars
  <2> QED
    BY <2>1, <2>2, <2>3, <2>4, <2>5, <2>6, <2>7 DEF Next
<1> QED
  BY <1>1, <1>2, PTL DEF Spec

(* No run counts more actions than its budget; all variables keep their    *)
(* domains.                                                                *)
THEOREM TypeCorrect == Spec => []TypeOK
<1>1. Inv => TypeOK
  BY DEF Inv
<1> QED
  BY <1>1, Invariant, PTL

(* However many runs fall into one window, the breaker's bound on distinct *)
(* pod owners holds for all deletions that were recorded.                  *)
THEOREM BreakerBound == Spec => []BreakerHolds
<1>1. Inv => BreakerHolds
  <2> SUFFICES ASSUME Inv PROVE BreakerHolds
    OBVIOUS
  <2> DEFINE Seen == {o \in Owners \ hidden : since[o] > 0}
  <2>1. Seen \subseteq RecentOwners
    BY DEF Inv, LedgerInv, RecentOwners, Keys
  <2>2. Cardinality(Seen) <= Cardinality(RecentOwners) /\ Cardinality(Seen) \in Nat
    BY <2>1, RecentOwnersFinite, FS_Subset, FS_CardinalityType
  <2> QED
    BY <2>2, RecentOwnersFinite, RemediateConstants DEF Inv, BreakerInv, BreakerHolds
<1> QED
  BY <1>1, Invariant, PTL

(* While no deletion escapes the ledger, the breaker counts the distinct   *)
(* owners acted on, neither pods nor Jobs.                                 *)
THEOREM BreakerCount == Spec => []BreakerExact
<1>1. Inv => BreakerExact
  <2> SUFFICES ASSUME Inv, pc # "idle", hidden = {}
               PROVE  breaker = Cardinality({o \in Owners : since[o] > 0})
    BY DEF BreakerExact
  <2>1. RecentOwners = {o \in Owners : since[o] > 0}
    BY DEF Inv, LedgerInv, RecentOwners, Keys
  <2> QED
    BY <2>1 DEF Inv, BreakerInv
<1> QED
  BY <1>1, Invariant, PTL

(* No owner is acted on twice within its cooldown, unless a deletion       *)
(* escaped the ledger.                                                     *)
THEOREM OneActionWhileRecorded == Spec => []CooldownUnlessHidden
<1>1. Inv => CooldownUnlessHidden
  BY DEF Inv, LedgerInv, CooldownUnlessHidden
<1> QED
  BY <1>1, Invariant, PTL
=============================================================================
