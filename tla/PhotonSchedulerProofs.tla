----------------------- MODULE PhotonSchedulerProofs -----------------------
(***************************************************************************)
(* What TLAPS proves of PhotonScheduler, for every length of a month and a *)
(* day, whichever faults happen: its type invariant, that updates are a    *)
(* day apart and never start over a backup, and that the alert is true.    *)
(***************************************************************************)
EXTENDS PhotonScheduler, TLAPS

(* An update begins only after the attempt marker of the one before is a   *)
(* day old; and between the check and the start no time passes and no      *)
(* backup appears.                                                         *)
Spaced ==
    /\ started <= attempt
    /\ pc = "marked" => attempt = now
    /\ pc \in {"begun", "marked"} =>
           /\ started = 0 \/ now - started >= Day
           /\ ~backup

(* The last attempt was made just now, or, if no sample was taken since    *)
(* time last passed, a unit of time ago at most.                           *)
Recent == attempt = now \/ (~scraped /\ attempt + 1 = now)

(* While no update has failed or was stuck, a sample is bad only if torn by*)
(* the end of an update, and then a whole one came first in its unit of    *)
(* time.  One more unit without a whole sample is all that may follow: long*)
(* enough for another update to tear a sample, if it began at once, but not*)
(* for a third, a day later.                                               *)
Torn ==
    /\ updating <=> pc \in {"begun", "marked", "running", "returned", "cleared"}
    /\ pc \in {"running", "returned"} <=> outcome = "running"
    /\ mishap \/ stuck \/
          /\ failure => pc \in {"running", "returned"}
          /\ read => reading
          /\ bad <= 2
          /\ bad = 1 /\ (read \/ pc \in {"marked", "running", "returned"}) => Recent
          /\ bad = 2 => ~read /\ ~updating /\ Recent

Inv == TypeOK /\ Spaced /\ Torn

(* Arithmetic on the bounds of time.                                       *)
LEMMA Bounds ==
    /\ Month \in Nat /\ Day \in Nat /\ MaxTime \in Nat /\ Enough \in Nat /\ 3 <= Enough /\ 2 <= Day
    /\ Month \in Month..MaxTime /\ 0 \in 0..Month /\ Month \in 0..Month /\ 0 \in 0..Enough
  BY PhotonConstants

(* The type invariant holds initially.                                     *)
LEMMA InitTypes == Init => TypeOK
  BY Bounds DEF Init, TypeOK

(* Every step preserves the type invariant.                                *)
LEMMA NextTypes == TypeOK /\ [Next]_vars => TypeOK'
<1> SUFFICES ASSUME TypeOK, [Next]_vars PROVE TypeOK'
  OBVIOUS
<1>a. now \in Nat /\ now \in 0..now
  BY Bounds DEF TypeOK
<1>1. CASE Start
  BY <1>1 DEF Start, disk, metrics, history, TypeOK
<1>2. CASE Check
  BY <1>2 DEF Check, disk, metrics, history, TypeOK
<1>3. CASE TouchAttempt
  <2>1. attempt' \in 0..now'
    BY <1>3, <1>a DEF TouchAttempt
  <2>. QED
    BY <1>3, <2>1 DEF TouchAttempt, metrics, history, TypeOK
<1>4. CASE TouchFailure
  <2>1. started' \in 0..now'
    BY <1>4, <1>a DEF TouchFailure
  <2>. QED
    BY <1>4, <2>1 DEF TouchFailure, metrics, TypeOK
<1>5. CASE Work
  <2>1. updated' \in 0..now'
    BY <1>5, <1>a DEF Work, TypeOK
  <2>2. backup' \in BOOLEAN /\ errors' \in BOOLEAN
    BY <1>5 DEF Work, TypeOK
  <2>. QED
    BY <1>5, <2>1, <2>2 DEF Work, metrics, history, TypeOK
<1>6. CASE Return
  BY <1>6 DEF Return, disk, metrics, history, TypeOK
<1>7. CASE Conclude
  <2>1. failure' \in BOOLEAN /\ mishap' \in BOOLEAN
    BY <1>7 DEF Conclude, Succeeded, TypeOK
  <2>. QED
    BY <1>7, <2>1 DEF Conclude, metrics, TypeOK
<1>8. CASE End
  BY <1>8 DEF End, disk, metrics, history, TypeOK
<1>9. CASE Raise
  <2>1. /\ outcome' \in {"none", "running", "ok", "failed", "cut"}
        /\ mishap' \in BOOLEAN /\ stuck' \in BOOLEAN
    BY <1>9 DEF Raise, TypeOK
  <2>. QED
    BY <1>9, <2>1 DEF Raise, AfterError, Cleared, disk, metrics, TypeOK
<1>10. CASE Crash
  <2>1. bad' \in 0..Enough
    BY <1>10, Bounds DEF Crash, TypeOK
  <2>2. outcome' \in {"none", "running", "ok", "failed", "cut"} /\ mishap' \in BOOLEAN
    BY <1>10 DEF Crash, TypeOK
  <2>. QED
    BY <1>10, <2>1, <2>2 DEF Crash, disk, TypeOK
<1>11. CASE ReadFailure
  BY <1>11 DEF ReadFailure, disk, history, TypeOK
<1>12. CASE ReadUpdating
  <2>1. bad' \in 0..Enough
    BY <1>12, Bounds DEF ReadUpdating, TypeOK
  <2>2. scraped' \in BOOLEAN
    BY <1>12 DEF ReadUpdating, TypeOK
  <2>3. /\ reading' \in BOOLEAN /\ read' \in BOOLEAN
        /\ UNCHANGED <<now, updated, attempt, failure, backup, roomy, pc, updating, errors>>
        /\ UNCHANGED <<started, outcome, mishap, stuck>>
    BY <1>12 DEF ReadUpdating, disk, history
  <2>. QED
    BY <2>1, <2>2, <2>3 DEF TypeOK
<1>13. CASE Operator
  <2>1. backup' \in BOOLEAN /\ roomy' \in BOOLEAN
    BY <1>13 DEF Operator, TypeOK
  <2>. QED
    BY <1>13, <2>1 DEF Operator, metrics, history, TypeOK
<1>14. CASE Tick
  <2>1. now' \in Month..MaxTime /\ 0..now \subseteq 0..now'
    BY <1>14, Bounds DEF Tick, TypeOK
  <2>2. updated' \in 0..now' /\ attempt' \in 0..now' /\ started' \in 0..now'
    BY <1>14, <2>1 DEF Tick, disk, history, TypeOK
  <2>3. bad' \in 0..Enough /\ scraped' \in BOOLEAN
    BY <1>14, Bounds DEF Tick, TypeOK
  <2>. QED
    BY <1>14, <2>1, <2>2, <2>3 DEF Tick, disk, history, TypeOK
<1>15. CASE UNCHANGED vars
  BY <1>15 DEF vars, disk, metrics, history, TypeOK
<1>. QED
  BY <1>1, <1>2, <1>3, <1>4, <1>5, <1>6, <1>7, <1>8, <1>9, <1>10, <1>11, <1>12,
     <1>13, <1>14, <1>15 DEF Next

(* No update is under way or recorded initially.                           *)
LEMMA InitSpaced == Init => Spaced
  BY DEF Init, Spaced

(* Every step keeps updates apart: only Check begins one, on a marker that *)
(* is a day old, and only TouchFailure records a start, at an instant that *)
(* the marker holds already.                                               *)
LEMMA NextSpaced == Inv /\ [Next]_vars => Spaced'
<1> SUFFICES ASSUME Inv, [Next]_vars PROVE Spaced'
  OBVIOUS
<1> USE Bounds DEF Inv
<1>1. CASE Start
  BY <1>1 DEF Start, disk, history, Spaced
<1>2. CASE Check
  BY <1>2 DEF Check, Due, disk, history, Spaced, TypeOK
<1>3. CASE TouchAttempt
  BY <1>3 DEF TouchAttempt, history, Spaced, TypeOK
<1>4. CASE TouchFailure
  BY <1>4 DEF TouchFailure, Spaced, TypeOK
<1>5. CASE Work
  BY <1>5 DEF Work, history, Spaced
<1>6. CASE Return
  BY <1>6 DEF Return, disk, history, Spaced
<1>7. CASE Conclude
  BY <1>7 DEF Conclude, Spaced
<1>8. CASE End
  BY <1>8 DEF End, disk, history, Spaced
<1>9. CASE Raise
  BY <1>9 DEF Raise, AfterError, disk, Spaced
<1>10. CASE Crash
  BY <1>10 DEF Crash, disk, Spaced
<1>11. CASE ReadFailure
  BY <1>11 DEF ReadFailure, disk, history, Spaced
<1>12. CASE ReadUpdating
  BY <1>12 DEF ReadUpdating, disk, history, Spaced
<1>13. CASE Operator
  BY <1>13 DEF Operator, history, Spaced
<1>14. CASE Tick
  BY <1>14 DEF Tick, disk, history, Spaced
<1>15. CASE UNCHANGED vars
  BY <1>15 DEF vars, disk, history, Spaced
<1>. QED
  BY <1>1, <1>2, <1>3, <1>4, <1>5, <1>6, <1>7, <1>8, <1>9, <1>10, <1>11, <1>12,
     <1>13, <1>14, <1>15 DEF Next

(* No sample has been taken initially.                                     *)
LEMMA InitTorn == Init => Torn
  BY DEF Init, Torn

(* Every step keeps what bad samples say: only ReadUpdating counts one, and*)
(* while no update has failed only if the update has ended since it read   *)
(* the marker.                                                             *)
LEMMA NextTorn == Inv /\ [Next]_vars => Torn'
<1> SUFFICES ASSUME Inv, [Next]_vars PROVE Torn'
  OBVIOUS
<1> USE Bounds DEF Inv
<1>1. CASE Start
  BY <1>1 DEF Start, disk, metrics, history, Torn, Recent
<1>2. CASE Check
  <2>1. bad = 2 => mishap \/ stuck
    BY <1>2 DEF Check, Due, Torn, Recent, TypeOK
  <2>. QED
    BY <1>2, <2>1 DEF Check, disk, metrics, history, Torn, Recent
<1>3. CASE TouchAttempt
  BY <1>3 DEF TouchAttempt, metrics, history, Torn, Recent
<1>4. CASE TouchFailure
  BY <1>4 DEF TouchFailure, metrics, Torn, Recent
<1>5. CASE Work
  BY <1>5 DEF Work, metrics, history, Torn, Recent
<1>6. CASE Return
  BY <1>6 DEF Return, disk, metrics, history, Torn, Recent
<1>7. CASE Conclude
  BY <1>7 DEF Conclude, Succeeded, metrics, Torn, Recent
<1>8. CASE End
  BY <1>8 DEF End, disk, metrics, history, Torn, Recent
<1>9. CASE Raise
  BY <1>9 DEF Raise, AfterError, Cleared, disk, metrics, Torn, Recent
<1>10. CASE Crash
  BY <1>10 DEF Crash, disk, Torn, Recent, TypeOK
<1>11. CASE ReadFailure
  BY <1>11 DEF ReadFailure, disk, history, Torn, Recent
<1>12. CASE ReadUpdating
  <2>1. UNCHANGED <<now, disk, pc, updating, errors, history>> /\ ~read'
    BY <1>12 DEF ReadUpdating
  <2>2. CASE mishap \/ stuck \/ ~Bad
    BY <1>12, <2>1, <2>2 DEF ReadUpdating, disk, history, Torn
  <2>3. CASE ~mishap /\ ~stuck /\ Bad
    <3>1. read /\ ~updating /\ ~failure /\ bad \in {0, 1} /\ (bad = 1 => Recent)
      BY <2>3 DEF Bad, Torn, TypeOK
    <3>2. read # failure /\ scraped \in BOOLEAN
      BY <3>1 DEF TypeOK
    <3>3. scraped' <=> scraped
      BY <1>12, <3>2 DEF ReadUpdating
    <3>4. bad' = bad + 1
      BY <1>12, <2>3, <3>1 DEF ReadUpdating
    <3>. QED
      BY <2>1, <3>1, <3>3, <3>4 DEF disk, history, Torn, Recent
  <2>. QED
    BY <2>2, <2>3
<1>13. CASE Operator
  BY <1>13 DEF Operator, metrics, history, Torn, Recent
<1>14. CASE Tick
  <2>1. UNCHANGED <<disk, pc, updating, reading, read, history>> /\ now' = now + 1 /\ ~scraped'
    BY <1>14 DEF Tick
  <2>2. bad' = 0 \/ (scraped /\ bad' = bad)
    BY <1>14 DEF Tick
  <2>3. bad' # 0 /\ Recent => Recent'
    BY <2>1, <2>2 DEF disk, Recent, TypeOK
  <2>. QED
    BY <2>1, <2>2, <2>3 DEF disk, history, Torn
<1>15. CASE UNCHANGED vars
  BY <1>15 DEF vars, disk, metrics, history, Torn, Recent
<1>. QED
  BY <1>1, <1>2, <1>3, <1>4, <1>5, <1>6, <1>7, <1>8, <1>9, <1>10, <1>11, <1>12,
     <1>13, <1>14, <1>15 DEF Next

(* The inductive invariant.                                                *)
THEOREM Invariance == Spec => []Inv
<1>1. Init => Inv
  BY InitTypes, InitSpaced, InitTorn DEF Inv
<1>2. Inv /\ [Next]_vars => Inv'
  BY NextTypes, NextSpaced, NextTorn DEF Inv
<1>. QED
  BY <1>1, <1>2, PTL DEF Spec

(* Every variable stays in its domain, and no time is in the future.       *)
THEOREM Types == Spec => []TypeOK
<1>1. Inv => TypeOK
  BY DEF Inv
<1>. QED
  BY <1>1, Invariance, PTL

(* Updates start at least a day apart, and never over a backup, however    *)
(* earlier runs ended and however often the pod stopped.                   *)
THEOREM Apart == Spec => RunsAllowed
<1> DEFINE Allowed == pc # "running" /\ pc' = "running" =>
                          /\ started = 0 \/ now - started >= Day
                          /\ ~backup
<1>1. Inv /\ [Next]_vars => [Allowed]_vars
  <2> SUFFICES ASSUME Inv, Next, pc # "running", pc' = "running"
               PROVE  (started = 0 \/ now - started >= Day) /\ ~backup
    OBVIOUS
  <2>1. TouchFailure
    BY DEF Next, Start, Check, TouchAttempt, Work, Return, Conclude, End, Raise, AfterError,
           Crash, ReadFailure, ReadUpdating, Operator, Tick
  <2>. QED
    BY <2>1 DEF TouchFailure, Inv, Spaced
<1>. QED
  BY <1>1, Invariance, PTL DEF Spec, RunsAllowed

(* The alert fires only if an update failed, was cut, or kept its marker   *)
(* by an exception, though samples may be torn between their two reads.    *)
THEOREM Truthful == Spec => []AlertTrue
<1>1. Inv => AlertTrue
  BY Bounds DEF Inv, Torn, AlertTrue, TypeOK
<1>. QED
  BY <1>1, Invariance, PTL
=============================================================================
