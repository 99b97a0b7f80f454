-------------------------- MODULE PhotonScheduler --------------------------
(***************************************************************************)
(* The monthly update of the Photon index, scheduler.py: a thread that     *)
(* checks every minute whether an update is due, runs it and keeps two     *)
(* marker files, which survive the pod; and the metrics thread, from whose *)
(* samples the alert PhotonUpdateFailed is computed (prometheusrule.yaml). *)
(* run_update belongs to Photon's image: it may do anything to the index   *)
(* and to its backup, log a failure or raise.  Photon stops with its pod,  *)
(* at any point, and there is one pod at a time.                           *)
(***************************************************************************)
EXTENDS Naturals

CONSTANTS
    Month,      \* MONTH, the age at which the index is updated
    Day,        \* DAY, the least time between two attempts
    Enough,     \* the bad samples in a row that fill "for: 15m"
    Faults,     \* the kinds of fault that may happen
    MaxTime     \* bound on time

(* Prometheus takes a sample a minute, hence 15 of them fill the 15 minutes*)
(* and no fewer than three do: two in a row may be torn.                   *)
ASSUME PhotonConstants ==
    /\ Month \in Nat /\ Day \in Nat /\ MaxTime \in Nat
    /\ 2 <= Day /\ Day <= Month /\ Month <= MaxTime
    /\ Enough \in Nat /\ 3 <= Enough
    /\ Faults \subseteq {"touch", "raise", "crash"}

VARIABLES
    now,
    updated,    \* index.last_updated
    attempt,    \* the mtime of ATTEMPT, 0 without the file
    failure,    \* FAILURE exists
    backup,     \* BACKUP exists
    roomy,      \* MIN_FREE bytes are available
    pc,         \* "down", "loop", "begun", "marked", "running", "returned" or "cleared"
    updating,   \* UPDATING is set
    errors,     \* UpdateErrors.failed
    reading,    \* the metrics thread has read FAILURE but not UPDATING yet
    read,       \* what it read
    bad,        \* samples in a row that say failed and not in progress
    scraped     \* a sample that is not torn was taken since time last passed

VARIABLES       \* history
    started,    \* when the last run started, 0 if none did
    outcome,    \* what became of it: "none", "running", "ok", "failed" or "cut"
    mishap,     \* some run failed or was cut
    stuck       \* some run ended well, but its failure marker stayed

disk == <<updated, attempt, failure, backup, roomy>>
metrics == <<reading, read, bad, scraped>>
history == <<started, outcome, mishap, stuck>>
vars == <<now, disk, pc, updating, errors, metrics, history>>
-----------------------------------------------------------------------------
(* An update is due: the index is a month old, the last attempt a day.     *)
Due == now - updated >= Month /\ now - attempt >= Day

(* not errors.failed and not BACKUP.exists()                               *)
Succeeded == ~errors /\ ~backup

NeverAgain == "dead"

(* The loop catches every exception.                                       *)
AfterError == "loop"

StillSet == updating

(* finally: UPDATING.clear()                                               *)
Cleared == FALSE
-----------------------------------------------------------------------------
Init ==
    /\ now = Month
    /\ updated \in {0, Month}
    /\ attempt = 0
    /\ failure = FALSE
    /\ backup = FALSE
    /\ roomy \in BOOLEAN
    /\ pc = "down"
    /\ updating = FALSE
    /\ errors = FALSE
    /\ reading = FALSE /\ read = FALSE /\ bad = 0 /\ scraped = FALSE
    /\ started = 0
    /\ outcome = "none"
    /\ mishap = FALSE
    /\ stuck = FALSE

(* The pod starts its threads.                                             *)
Start ==
    /\ pc = "down"
    /\ pc' = "loop"
    /\ UNCHANGED <<now, disk, updating, errors, metrics, history>>

(* check_update finds that an update is due, with neither an old backup    *)
(* nor too little space, and announces it.                                 *)
Check ==
    /\ pc = "loop"
    /\ Due /\ ~backup /\ roomy
    /\ pc' = "begun"
    /\ updating' = TRUE
    /\ UNCHANGED <<now, disk, errors, metrics, history>>

TouchLater ==
    /\ pc = "begun"
    /\ pc' = "marked"
    /\ UNCHANGED <<now, disk, updating, errors, metrics, history>>

(* ATTEMPT.touch()                                                         *)
TouchAttempt ==
    /\ pc = "begun"
    /\ pc' = "marked"
    /\ attempt' = now
    /\ UNCHANGED <<now, updated, failure, backup, roomy, updating, errors, metrics, history>>

(* FAILURE.touch(); the update starts, with a new handler for its errors.  *)
TouchFailure ==
    /\ pc = "marked"
    /\ pc' = "running"
    /\ failure' = TRUE
    /\ errors' = FALSE
    /\ started' = now
    /\ outcome' = "running"
    /\ UNCHANGED <<now, updated, attempt, backup, roomy, updating, metrics, mishap, stuck>>

(* run_update does something to the index or its backup, or logs an error. *)
Work ==
    /\ pc = "running"
    /\ \/ backup' = ~backup /\ UNCHANGED <<updated, errors>>
       \/ updated' = now /\ UNCHANGED <<backup, errors>>
       \/ errors' = TRUE /\ UNCHANGED <<backup, updated>>
    /\ UNCHANGED <<now, attempt, failure, roomy, pc, updating, metrics, history>>

(* run_update returns.                                                     *)
Return ==
    /\ pc = "running"
    /\ pc' = "returned"
    /\ UNCHANGED <<now, disk, updating, errors, metrics, history>>

(* After a success the failure marker goes.                                *)
Conclude ==
    /\ pc = "returned"
    /\ pc' = "cleared"
    /\ failure' = (failure /\ ~Succeeded)
    /\ outcome' = IF errors \/ backup THEN "failed" ELSE "ok"
    /\ mishap' = (mishap \/ outcome' = "failed")
    /\ UNCHANGED <<now, updated, attempt, backup, roomy, updating, errors, metrics, started,
                   stuck>>

(* The update is over.                                                     *)
End ==
    /\ pc = "cleared"
    /\ pc' = "loop"
    /\ updating' = FALSE
    /\ UNCHANGED <<now, disk, errors, metrics, history>>

(* A file operation raises: one of the checks, of the touches, or, unless  *)
(* an error was logged, BACKUP.exists() or FAILURE.unlink() at the end; or *)
(* run_update does.  An update that ended well keeps its marker then.      *)
Raise ==
    /\ \/ "touch" \in Faults /\ pc \in {"loop", "begun", "marked"}
       \/ "touch" \in Faults /\ pc = "returned" /\ ~errors
       \/ "raise" \in Faults /\ pc = "running"
    /\ pc' = AfterError
    /\ updating' = Cleared
    /\ outcome' = CASE pc = "running"  -> "failed"
                    [] pc = "returned" -> IF backup THEN "failed" ELSE "ok"
                    [] OTHER           -> outcome
    /\ mishap' = (mishap \/ pc = "running" \/ (pc = "returned" /\ backup))
    /\ stuck' = (stuck \/ (pc = "returned" /\ ~backup))
    /\ UNCHANGED <<now, disk, errors, metrics, started>>

(* The pod stops.  A sample may be remembered until the next pod's.        *)
Crash ==
    /\ "crash" \in Faults
    /\ pc # "down"
    /\ pc' = "down"
    /\ updating' = FALSE
    /\ errors' = FALSE
    /\ reading' = FALSE /\ read' = FALSE
    /\ bad' \in {0, bad}
    /\ outcome' = IF outcome = "running" THEN "cut" ELSE outcome
    /\ mishap' = (mishap \/ outcome = "running")
    /\ UNCHANGED <<now, disk, scraped, started, stuck>>

(* do_GET: the metrics are read one after another.                         *)
ReadFailure ==
    /\ pc # "down"
    /\ ~reading
    /\ reading' = TRUE
    /\ read' = failure
    /\ UNCHANGED <<now, disk, pc, updating, errors, bad, scraped, history>>

BadWhenMarked == read

(* photon_update_failed == 1 and photon_update_in_progress == 0            *)
Bad == read /\ ~updating

ReadUpdating ==
    /\ reading
    /\ reading' = FALSE
    /\ read' = FALSE
    /\ bad' = IF ~Bad THEN 0 ELSE IF bad < Enough THEN bad + 1 ELSE bad
    /\ scraped' = (scraped \/ read = failure)
    /\ UNCHANGED <<now, disk, pc, updating, errors, history>>

(* Somebody removes the backup, or the disk fills or empties.              *)
Operator ==
    /\ \/ backup /\ pc # "running" /\ backup' = FALSE /\ UNCHANGED roomy
       \/ roomy' = ~roomy /\ UNCHANGED backup
    /\ UNCHANGED <<now, updated, attempt, failure, pc, updating, errors, metrics, history>>

(* A unit of time, much longer than a sample, passes: with at least one in *)
(* it that is not torn, unless the pod is down, and then the alert is      *)
(* forgotten.  The thread touches its markers without a wait.              *)
Tick ==
    /\ now < MaxTime
    /\ pc \notin {"begun", "marked", "cleared"} /\ ~reading
    /\ pc = "down" \/ scraped
    /\ now' = now + 1
    /\ bad' = IF scraped THEN bad ELSE 0
    /\ scraped' = FALSE
    /\ UNCHANGED <<disk, pc, updating, errors, reading, read, history>>

Next ==
    \/ Start
    \/ Check \/ TouchAttempt \/ TouchFailure \/ Work \/ Return \/ Conclude \/ End \/ Raise
    \/ Crash
    \/ ReadFailure \/ ReadUpdating
    \/ Operator
    \/ Tick

Spec == Init /\ [][Next]_vars

(* The loop checks again and again, its checks do not raise for ever, and  *)
(* samples are taken.  Nothing says that an update returns, that a pod     *)
(* starts or that time passes.                                             *)
FairSpec ==
    /\ Spec
    /\ SF_vars(Check)
    /\ WF_vars(ReadFailure \/ ReadUpdating)
-----------------------------------------------------------------------------
(* Every variable stays in its domain, and no time is in the future.       *)
TypeOK ==
    /\ now \in Month..MaxTime
    /\ updated \in 0..now
    /\ attempt \in 0..now
    /\ started \in 0..now
    /\ failure \in BOOLEAN /\ backup \in BOOLEAN /\ roomy \in BOOLEAN
    /\ pc \in {"down", "loop", "begun", "marked", "running", "returned", "cleared"}
    /\ updating \in BOOLEAN /\ errors \in BOOLEAN
    /\ reading \in BOOLEAN /\ read \in BOOLEAN
    /\ bad \in 0..Enough
    /\ scraped \in BOOLEAN
    /\ outcome \in {"none", "running", "ok", "failed", "cut"}
    /\ mishap \in BOOLEAN /\ stuck \in BOOLEAN

(* An update starts at most once a day, however runs ended and however     *)
(* often the pod restarts, and never over a backup that an earlier one     *)
(* left behind.                                                            *)
RunsAllowed ==
    [][pc # "running" /\ pc' = "running" =>
           /\ started = 0 \/ now - started >= Day
           /\ ~backup]_vars

(* The alert does not fire for nothing: not during an update, whose marker *)
(* is set all the time, and not by samples that are torn between their two *)
(* reads when one ends.  When it fires, some update failed, was cut, or    *)
(* ended well but could not remove its marker, which the alert then calls  *)
(* a failure.                                                              *)
AlertTrue == bad = Enough => mishap \/ stuck

(* "Photon index update failed or was interrupted": whatever way it did,   *)
(* also when the pod was restarted since, the alert fires unless the next  *)
(* attempt starts or the pod stops.                                        *)
AlertComes ==
    (outcome \in {"failed", "cut"} /\ pc = "loop") ~> (bad = Enough \/ pc # "loop")

(* No exception ends the schedule: the pod that could update the index,    *)
(* which is due, with enough space and no backup in the way, does not stay *)
(* idle.                                                                   *)
Attempted ==
    []<>~(pc \in {"loop", "dead"} /\ Due /\ ~backup /\ roomy)
=============================================================================
