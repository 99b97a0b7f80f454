----------------------------- MODULE HostPower -----------------------------
(***************************************************************************)
(* The host power policy, host_power.py: it checks every requested control *)
(* against the host, then visits the controls one by one, writes those     *)
(* that differ and reads them back.  A oneshot unit runs it at boot, and   *)
(* every Ansible run once more; the configuration stays the same here.     *)
(*                                                                         *)
(* A control is <<kind, index>>: a cpufreq policy has "governor", "epp"    *)
(* and "max" (scaling_max_freq), the host "boost", "profile" and the       *)
(* daemon's "ppd", a powercap zone one "cap" (a constraint file).  The     *)
(* value 1 stands for what is requested where values are not ordered.      *)
(***************************************************************************)
EXTENDS Naturals, Sequences, FiniteSets

CONSTANTS
    Policies,   \* the number of cpufreq policies
    Zones,      \* the number of powercap zones, with one constraint each
    HwMax,      \* HwMax[p]: cpuinfo_max_freq, 0 if malformed
    MinFreq,    \* MinFreq[p]: scaling_min_freq
    Links,      \* the directory entries that lead to powercap zones
    ZoneOf,     \* ZoneOf[l]: the zone that l resolves to
    NameOf,     \* NameOf[z]: the name of zone z
    CapMin,     \* CapMin[z]: the lower limit of its constraint
    CapMax,     \* CapMax[z]: the upper limit
    Cases,      \* the configurations, each with the controls that are unusable
    Default,    \* Default[c]: what c holds after a boot
    Values,     \* what other programs or the hardware may set
    Resets,     \* Resets[c]: the controls that a write to c may reset
    MaxReads,   \* 20, the further reads of a scaling_max_freq
    Faults,     \* the kinds of fault that may happen
    Drifting    \* the controls that other programs change

Controls ==
    ({"governor", "epp", "max"} \X (1..Policies))
        \cup ({"boost", "profile", "ppd"} \X {0}) \cup ({"cap"} \X (1..Zones))

SysfsKinds == {"governor", "epp", "boost", "max", "profile"}
Entries == [zone : {NameOf[z] : z \in 1..Zones} \cup {"none"}, value : Nat]

(* The place of a control in the plan.                                     *)
Place(c) ==
    CASE c[1] = "ppd"      -> 0
      [] c[1] = "governor" -> 2 * c[2] - 1
      [] c[1] = "epp"      -> 2 * c[2]
      [] c[1] = "boost"    -> 2 * Policies + 1
      [] c[1] = "max"      -> 2 * Policies + 1 + c[2]
      [] c[1] = "profile"  -> 3 * Policies + 2
      [] OTHER             -> 3 * Policies + 2 + c[2]

(* "Boost controls may reset cpufreq policy limits, so apply the ceiling   *)
(* after boost": a write resets at most controls that come later.          *)
ASSUME PowerConstants ==
    /\ Policies \in Nat /\ Zones \in Nat /\ MaxReads \in Nat
    /\ HwMax \in [1..Policies -> Nat] /\ MinFreq \in [1..Policies -> Nat]
    /\ ZoneOf \in [Links -> 1..Zones]
    /\ CapMin \in [1..Zones -> Nat] /\ CapMax \in [1..Zones -> Nat]
    /\ \A g \in Cases : /\ g.config.kinds \subseteq SysfsKinds
                        /\ g.config.freq \in Nat
                        /\ g.config.limits \in Seq(Entries)
                        /\ g.config.check \in BOOLEAN
                        /\ g.broken \subseteq Controls
    /\ Default \in [Controls -> Nat]
    /\ Values \subseteq Nat
    /\ Resets \in [Controls -> SUBSET Controls]
    /\ \A c \in Controls : \A d \in Resets[c] : Place(c) < Place(d)
    /\ Faults \subseteq {"write", "clamp", "round", "late", "kill", "boot"}
    /\ Drifting \subseteq Controls

VARIABLES
    sys,        \* sys[c]: what control c holds
    due,        \* ceilings written but not published yet
    config,     \* the configuration file
    broken,     \* controls that are missing, read-only, out of choices, ...
    pc,         \* "idle", "started", "turn" or "wrote"
    initial,    \* initial[c]: what c held when apply_plan read it first
    todo,       \* the planned controls whose turn is not over
    reads,      \* further reads of the ceiling just written
    result      \* "none", "ok", "rejected", "failed" or "killed"

VARIABLES       \* history of the current or last run
    written,    \* the controls it wrote
    rounded,    \* caps that the hardware rounded
    disturbed,  \* controls that others changed since it started
    struck,     \* whether a control failed it, or held no usable ceiling
    steady,     \* it succeeded, to the letter, and nothing happened since
    quiet       \* it started while the one before was steady

history == <<written, rounded, disturbed, struck, steady, quiet>>
vars == <<sys, due, config, broken, pc, initial, todo, reads, result, history>>
-----------------------------------------------------------------------------
(* discover_zones: the zones of that name, each once however it is linked. *)
ZonesNamed(name) == {z \in 1..Zones : NameOf[z] = name /\ \E l \in Links : ZoneOf[l] = z}

Requests(z) == {i \in DOMAIN config.limits : z \in ZonesNamed(config.limits[i].zone)}

(* validate_rapl rejects entry i; the files of a zone that is disabled or  *)
(* whose constraint is missing, ambiguous or read-only count as broken.    *)
LimitRejected(i) ==
    LET e == config.limits[i] IN
    \/ ~ \E z \in ZonesNamed(e.zone) : ZonesNamed(e.zone) = {z}
    \/ \E z \in ZonesNamed(e.zone) : \/ <<"cap", z>> \in broken
                                     \/ e.value = 0 \/ e.value < CapMin[z] \/ e.value > CapMax[z]
                                     \/ Requests(z) # {i}

SelectedOrEqual == {p \in 1..Policies : HwMax[p] >= config.freq}

(* validate_cpu_max_freq: the policies that the ceiling concerns.          *)
Selected == {p \in 1..Policies : HwMax[p] > config.freq}

CeilingRejected ==
    \/ config.freq = 0
    \/ Policies = 0
    \/ \E p \in 1..Policies : HwMax[p] = 0
    \/ \E p \in Selected : \/ <<"max", p>> \in broken
                           \/ MinFreq[p] = 0 \/ config.freq < MinFreq[p]

(* Its last check, of the ceiling in force: current_maximum <= 0.          *)
CeilingMalformed ==
    "max" \in config.kinds /\ \E p \in Selected : sys[<<"max", p>>] = 0

(* discover_control and the other checks of sysfs_plan.                    *)
KindRejected(k) ==
    \/ k \in {"governor", "epp"} /\ (Policies = 0 \/ \E p \in 1..Policies : <<k, p>> \in broken)
    \/ k \in {"boost", "profile"} /\ <<k, 0>> \in broken
    \/ k = "max" /\ CeilingRejected

LimitsRejected == \E i \in DOMAIN config.limits : LimitRejected(i)

(* Everything that raises before the first write, whatever the controls    *)
(* hold at the time...                                                     *)
Unusable ==
    \/ config.backend \notin {"sysfs", "power-profiles-daemon"}
    \/ config.backend = "sysfs" /\ \E k \in config.kinds : KindRejected(k)
    \/ config.backend = "power-profiles-daemon" /\ (config.kinds # {} \/ <<"ppd", 0>> \in broken)
    \/ LimitsRejected

(* ...and all of it.                                                       *)
Rejected == Unusable \/ CeilingMalformed

(* sysfs_plan, or the profile and the caps of the daemon's backend.        *)
Planned ==
    {c \in Controls :
        \/ c[1] \in {"governor", "epp", "boost", "profile"} /\ c[1] \in config.kinds
        \/ c[1] = "max" /\ "max" \in config.kinds /\ c[2] \in Selected
        \/ c[1] = "ppd" /\ config.backend = "power-profiles-daemon"
        \/ c[1] = "cap" /\ Requests(c[2]) # {}}

Want(c) ==
    CASE c[1] = "max" -> config.freq
      [] c[1] = "cap" -> config.limits[CHOOSE i \in DOMAIN config.limits : i \in Requests(c[2])].value
      [] OTHER        -> 1

(* The control whose turn it is.                                           *)
Turn(c) == c \in todo /\ \A d \in todo : Place(c) <= Place(d)

(* apply_plan reads all it was given before its first write; the daemon's  *)
(* backend has set the profile by then.                                    *)
PreRead(c) == IF c[1] = "ppd" THEN sys ELSE initial

BeforeAtPlan(c) == initial[c]

(* before = initial_value if check else read(path)                         *)
Before(c) == IF config.check THEN initial[c] ELSE sys[c]

DriftedAlways(c) == TRUE

(* before != str(wanted)                                                   *)
Drifted(c) == Before(c) # Want(c)

(* A readback may differ only for constraint files, which are quantized.   *)
Strict(c) == c[1] # "cap"

ReadOnce(c) == FALSE
ReadOn(c) == c[1] = "max"

(* Another read is allowed, for a ceiling only: range(20).                 *)
MayReadAgain(c) == c[1] = "max" /\ reads < MaxReads
-----------------------------------------------------------------------------
Init ==
    /\ sys = Default
    /\ due = {}
    /\ \E g \in Cases : config = g.config /\ broken = g.broken
    /\ pc = "idle"
    /\ initial = Default
    /\ todo = {}
    /\ reads = 0
    /\ result = "none"
    /\ written = {} /\ rounded = {} /\ disturbed = {}
    /\ struck = FALSE /\ steady = FALSE /\ quiet = FALSE

(* The boot unit or Ansible runs the helper.                               *)
Start ==
    /\ pc = "idle"
    /\ pc' = "started"
    /\ result' = "none"
    /\ quiet' = steady
    /\ steady' = FALSE
    /\ written' = {} /\ rounded' = {} /\ disturbed' = {}
    /\ struck' = FALSE
    /\ UNCHANGED <<sys, due, config, broken, initial, todo, reads>>

(* The run ends with outcome r.                                            *)
End(r) ==
    /\ pc' = "idle"
    /\ result' = r
    /\ initial' = Default
    /\ todo' = {}
    /\ reads' = 0

(* History: whether a policy that the ceiling concerns holds none now.     *)
NoCeiling ==
    \E p \in 1..Policies : config.freq < HwMax[p] /\ sys[<<"max", p>>] = 0

(* The plan is made and its controls are read, before the first write.     *)
Plan ==
    /\ pc = "started"
    /\ IF Rejected THEN End("rejected") /\ struck' = NoCeiling
                   ELSE /\ pc' = "turn"
                        /\ initial' = sys
                        /\ todo' = Planned
                        /\ UNCHANGED <<result, reads, struck>>
    /\ UNCHANGED <<sys, due, config, broken, written, rounded, disturbed, steady, quiet>>

(* The control is as requested already, or this is check mode.             *)
Keep(c) ==
    /\ pc = "turn"
    /\ Turn(c)
    /\ config.check \/ ~Drifted(c)
    /\ todo' = todo \ {c}
    /\ initial' = PreRead(c)
    /\ UNCHANGED <<sys, due, config, broken, pc, reads, result, history>>

(* What c holds after the write: what was asked; a value rounded (a cap)   *)
(* or adjusted by the driver; or, for a ceiling, the old one still.        *)
Holds(c) ==
    {Want(c)} \cup (IF "round" \in Faults /\ c[1] = "cap" THEN Values ELSE {})
              \cup (IF "clamp" \in Faults THEN Values ELSE {})
              \cup (IF "late" \in Faults /\ c[1] = "max" THEN {sys[c]} ELSE {})

Write(c) ==
    /\ pc = "turn"
    /\ Turn(c)
    /\ ~config.check /\ Drifted(c)
    /\ pc' = "wrote"
    /\ written' = written \cup {c}
    /\ \E v \in Holds(c), R \in SUBSET Resets[c] :
          /\ sys' = [d \in Controls |-> IF d = c THEN v ELSE
                                        IF d \in R THEN Default[d] ELSE sys[d]]
          /\ due' = IF c[1] = "max" /\ v = sys[c] THEN due \cup {c} ELSE due \ {c}
    /\ UNCHANGED <<config, broken, initial, todo, reads, result, rounded, disturbed,
                   struck, steady, quiet>>

(* The driver publishes a ceiling that was written a while ago.            *)
Publish(c) ==
    /\ c \in due
    /\ due' = due \ {c}
    /\ sys' = [sys EXCEPT ![c] = config.freq]
    /\ UNCHANGED <<config, broken, pc, initial, todo, reads, result, history>>

(* The readback is right, or need not be.                                  *)
Confirm(c) ==
    /\ pc = "wrote"
    /\ Turn(c)
    /\ sys[c] = Want(c) \/ ~Strict(c)
    /\ pc' = "turn"
    /\ todo' = todo \ {c}
    /\ reads' = 0
    /\ initial' = PreRead(c)
    /\ rounded' = IF sys[c] = Want(c) THEN rounded ELSE rounded \cup {c}
    /\ UNCHANGED <<sys, due, config, broken, result, written, disturbed, struck,
                   steady, quiet>>

(* Another read of a ceiling, 50 ms later.                                 *)
ReadAgain(c) ==
    /\ pc = "wrote"
    /\ Turn(c)
    /\ sys[c] # Want(c)
    /\ MayReadAgain(c)
    /\ reads' = reads + 1
    /\ UNCHANGED <<sys, due, config, broken, pc, initial, todo, result, history>>

(* History: whether the failure of c has a cause outside the program: a    *)
(* rounded cap is none, nor is a ceiling published within the wait.        *)
Cause(c) == c[1] # "cap" /\ (c \notin due \/ reads = MaxReads)

MismatchRetries(c) ==
    /\ pc = "wrote"
    /\ Turn(c)
    /\ sys[c] # Want(c) /\ Strict(c) /\ ~MayReadAgain(c)
    /\ pc' = "turn"
    /\ reads' = 0
    /\ UNCHANGED <<sys, due, config, broken, initial, todo, result, history>>

(* The readback differs and is not forgiven.                               *)
Mismatch(c) ==
    /\ pc = "wrote"
    /\ Turn(c)
    /\ sys[c] # Want(c) /\ Strict(c) /\ ~MayReadAgain(c)
    /\ End("failed")
    /\ struck' = (struck \/ Cause(c))
    /\ UNCHANGED <<sys, due, config, broken, written, rounded, disturbed,
                   steady, quiet>>

(* Reading or writing c raises, for the kernel or the daemon refuses (in   *)
(* check mode too, where c is only read).                                  *)
AccessFails(c) ==
    /\ "write" \in Faults
    /\ pc \in {"turn", "wrote"}
    /\ Turn(c)
    /\ End("failed")
    /\ struck' = TRUE
    /\ UNCHANGED <<sys, due, config, broken, written, rounded, disturbed,
                   steady, quiet>>

(* Every control had its turn: the report is printed.                      *)
Finish ==
    /\ pc = "turn"
    /\ todo = {}
    /\ End("ok")
    /\ steady' = (~config.check /\ rounded = {} /\ disturbed = {})
    /\ UNCHANGED <<sys, due, config, broken, written, rounded, disturbed,
                   struck, quiet>>

(* The run is killed, with some of the controls written.                   *)
Kill ==
    /\ "kill" \in Faults
    /\ pc # "idle"
    /\ End("killed")
    /\ UNCHANGED <<sys, due, config, broken, history>>

(* The host restarts: the controls fall back to the defaults.              *)
Boot ==
    /\ "boot" \in Faults
    /\ sys' = Default
    /\ due' = {}
    /\ IF pc = "idle" THEN UNCHANGED <<pc, initial, result, todo, reads>> ELSE End("killed")
    /\ disturbed' = Controls
    /\ steady' = FALSE
    /\ quiet' = FALSE
    /\ UNCHANGED <<config, broken, written, rounded, struck>>

(* Another program, or the hardware, changes a control.                    *)
Drift(c, v) ==
    /\ c \in Drifting
    /\ v # sys[c]
    /\ sys' = [sys EXCEPT ![c] = v]
    /\ disturbed' = disturbed \cup {c}
    /\ steady' = FALSE
    /\ quiet' = FALSE
    /\ UNCHANGED <<due, config, broken, pc, initial, todo, reads, result, written,
                   rounded, struck>>

(* The steps of the helper itself.                                         *)
Step ==
    \/ Plan
    \/ \E c \in todo : Keep(c) \/ Write(c) \/ Confirm(c) \/ ReadAgain(c) \/ Mismatch(c)
    \/ Finish

Next ==
    \/ Start
    \/ Step
    \/ \E c \in todo : AccessFails(c)
    \/ \E c \in due : Publish(c)
    \/ Kill
    \/ Boot
    \/ \E c \in Controls, v \in Values : Drift(c, v)

Spec == Init /\ [][Next]_vars

(* A run goes on; that another starts, or that a ceiling gets published,   *)
(* is not taken for granted.                                               *)
FairSpec == Spec /\ WF_vars(Step)
-----------------------------------------------------------------------------
(* Every variable stays in its domain.                                     *)
TypeOK ==
    /\ sys \in [Controls -> Nat]
    /\ due \subseteq Controls
    /\ \E g \in Cases : config = g.config /\ broken = g.broken
    /\ pc \in {"idle", "started", "turn", "wrote"}
    /\ initial \in [Controls -> Nat]
    /\ todo \subseteq Controls
    /\ reads \in 0..MaxReads
    /\ result \in {"none", "ok", "rejected", "failed", "killed"}
    /\ written \subseteq Controls
    /\ rounded \subseteq Controls
    /\ disturbed \subseteq Controls
    /\ struck \in BOOLEAN /\ steady \in BOOLEAN /\ quiet \in BOOLEAN

(* What the configuration asks for: a ceiling only of the policies above   *)
(* it, a cap of the zone of that name.                                     *)
Asked(c) ==
    CASE c[1] = "ppd" -> config.backend = "power-profiles-daemon"
      [] c[1] = "cap" -> /\ \E i \in DOMAIN config.limits : config.limits[i].zone = NameOf[c[2]]
                         /\ \E l \in Links : ZoneOf[l] = c[2]
      [] c[1] = "max" -> "max" \in config.kinds /\ config.freq < HwMax[c[2]]
      [] OTHER        -> c[1] \in config.kinds

(* A ceiling can be set: every policy has a maximum, and those it concerns *)
(* a minimum that is not above it.                                         *)
CeilingUsable ==
    /\ Policies > 0 /\ config.freq > 0
    /\ \A p \in 1..Policies :
          HwMax[p] > 0 /\ (config.freq < HwMax[p] => MinFreq[p] \in 1..config.freq)

(* A limit can be set: one zone has the name, it allows the value, and no  *)
(* other entry is for it.                                                  *)
LimitUsable(i) ==
    \E z \in 1..Zones :
        /\ \A y \in 1..Zones :
              NameOf[y] = config.limits[i].zone /\ (\E l \in Links : ZoneOf[l] = y) <=> y = z
        /\ config.limits[i].value \in (CapMin[z]..CapMax[z]) \ {0}
        /\ \A j \in DOMAIN config.limits : j # i => config.limits[j].zone # config.limits[i].zone

(* "All requested controls and limits are validated before any sysfs       *)
(* write", check mode writes nothing, and "equal-or-lower policies are     *)
(* left completely untouched": whatever one run has written, it asked for, *)
(* and nothing it asked for was unusable, each check spelled out here.     *)
Restraint ==
    written # {} =>
        /\ ~config.check
        /\ \A c \in written : Asked(c)
        /\ \A c \in Controls : Asked(c) => c \notin broken
        /\ config.backend \in {"sysfs", "power-profiles-daemon"}
        /\ config.backend = "power-profiles-daemon" => config.kinds = {}
        /\ config.kinds \cap {"governor", "epp"} # {} => Policies > 0
        /\ "max" \in config.kinds => CeilingUsable
        /\ \A i \in DOMAIN config.limits : LimitUsable(i)
        /\ pc # "idle" => \A p \in 1..Policies : Asked(<<"max", p>>) => initial[<<"max", p>>] # 0

(* When a run has succeeded, every control it asked for holds what was     *)
(* asked, also those that a later write of the same run might have reset:  *)
(* all but the caps that the hardware rounded and the controls that others *)
(* changed meanwhile.                                                      *)
AppliedHolds ==
    result = "ok" /\ ~config.check =>
        \A c \in Planned : sys[c] = Want(c) \/ c \in rounded \cup disturbed

(* Only drift is written: a run after one that succeeded to the letter,    *)
(* with nothing changed since, writes no control (a boost that was written *)
(* again would reset the ceiling again).                                   *)
QuietRerun == quiet => written = {}

(* A valid request is not turned down and does not fail by itself: not for *)
(* a zone that is linked twice, a rounded cap, a policy that the ceiling   *)
(* does not concern, or a ceiling that appears within the bounded wait     *)
(* (unless the ceiling in force is no frequency at all).  So a rerun       *)
(* repairs what a failed run left.                                         *)
FailsForCause ==
    /\ result = "failed" => struck
    /\ result = "rejected" /\ broken = {} /\ config.backend = "sysfs" =>
          \/ Policies = 0
          \/ "max" \in config.kinds /\ (~CeilingUsable \/ struck)
          \/ \E i \in DOMAIN config.limits : ~LimitUsable(i)

(* A run ends: the wait for a ceiling is bounded, and a control that never *)
(* takes its value is not tried forever.                                   *)
RunEnds == (pc # "idle") ~> (pc = "idle")
=============================================================================
