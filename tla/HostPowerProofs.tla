-------------------------- MODULE HostPowerProofs --------------------------
(***************************************************************************)
(* Proofs about HostPower, for any host, configurations, resets and faults *)
(* that its assumption allows.                                             *)
(***************************************************************************)
EXTENDS HostPower, TLAPS

Active == pc \in {"turn", "wrote"}

(* What the phases of a run say of its plan and of what it wrote.          *)
PhaseInv ==
    /\ pc # "idle" => result = "none"
    /\ ~Active => todo = {}
    /\ pc = "started" => written = {}
    /\ Active => ~Unusable
    /\ Active /\ "max" \in config.kinds => \A p \in Selected : initial[<<"max", p>>] # 0
    /\ pc = "wrote" => ~config.check
    /\ result = "rejected" => Unusable \/ ("max" \in config.kinds /\ struck)
    /\ written \subseteq Planned
    /\ written # {} => ~config.check /\ ~Unusable
    /\ todo \subseteq Planned
    /\ \A c \in due : c[1] = "max"
    /\ result = "failed" => struck

(* Turns are taken in the order of the plan.                               *)
OrderInv == Active => \A e \in Planned \ todo, d \in todo : Place(e) <= Place(d)

(* A control whose turn is over holds what was asked.                      *)
HoldsInv ==
    ~config.check /\ (Active \/ result = "ok") =>
        \A e \in Planned \ todo : sys[e] = Want(e) \/ e \in rounded \cup disturbed

Conforms == \A e \in Planned : sys[e] = Want(e)

QuietInv ==
    /\ steady => pc = "idle" /\ ~config.check /\ Conforms
    /\ quiet => ~config.check /\ Conforms /\ written = {}

IInv == TypeOK /\ PhaseInv /\ OrderInv /\ HoldsInv /\ QuietInv

(* What a configuration and the broken files are.                          *)
LEMMA CaseTypes ==
  ASSUME TypeOK
  PROVE  /\ config.kinds \subseteq SysfsKinds /\ config.freq \in Nat
         /\ config.limits \in Seq(Entries) /\ config.check \in BOOLEAN
         /\ broken \subseteq Controls
<1>1. PICK g \in Cases : config = g.config /\ broken = g.broken
  BY DEF TypeOK
<1>2. /\ g.config.kinds \subseteq SysfsKinds /\ g.config.freq \in Nat
      /\ g.config.limits \in Seq(Entries) /\ g.config.check \in BOOLEAN
      /\ g.broken \subseteq Controls
  BY PowerConstants
<1> QED
  BY <1>1, <1>2

(* What a sequence holds.                                                  *)
LEMMA ElementOf == ASSUME NEW S, NEW s \in Seq(S), NEW i \in DOMAIN s PROVE s[i] \in S
  OBVIOUS

(* A planned control has a number for a value.                             *)
LEMMA WantNat ==
  ASSUME TypeOK, NEW c \in Planned
  PROVE  c \in Controls /\ Want(c) \in Nat
<1>1. c \in Controls
  BY DEF Planned
<1>2. CASE c[1] = "max"
  BY <1>1, <1>2, CaseTypes DEF Want
<1>3. CASE c[1] = "cap"
  <2>1. Requests(c[2]) # {}
    BY <1>3 DEF Planned
  <2> DEFINE j == CHOOSE i \in DOMAIN config.limits : i \in Requests(c[2])
  <2>2. j \in DOMAIN config.limits
    BY <2>1 DEF Requests
  <2>0. config.limits \in Seq(Entries)
    BY CaseTypes
  <2>3. config.limits[j] \in Entries
    BY <2>0, <2>2, ElementOf
  <2>4. config.limits[j].value \in Nat
    BY <2>3 DEF Entries
  <2>5. Want(c) = config.limits[j].value
    BY <1>3 DEF Want
  <2> QED
    BY <1>1, <2>4, <2>5
<1>4. CASE c[1] # "max" /\ c[1] # "cap"
  BY <1>1, <1>4 DEF Want
<1> QED
  BY <1>2, <1>3, <1>4

(* The places of controls are numbers.                                     *)
LEMMA PlaceNat == ASSUME NEW c \in Controls PROVE Place(c) \in Nat
<1>1. Policies \in Nat /\ Zones \in Nat
  BY PowerConstants
<1>2. CASE c[1] \in {"governor", "epp", "max"}
  <2>1. c[2] \in 1..Policies
    BY <1>2 DEF Controls
  <2> QED
    BY <1>1, <1>2, <2>1 DEF Place
<1>3. CASE c[1] \in {"boost", "profile", "ppd"}
  BY <1>1, <1>3 DEF Place
<1>4. CASE c[1] = "cap"
  <2>1. c[2] \in 1..Zones
    BY <1>4 DEF Controls
  <2> QED
    BY <1>1, <1>4, <2>1 DEF Place
<1>5. c[1] \in {"governor", "epp", "max", "boost", "profile", "ppd", "cap"}
  BY DEF Controls
<1> QED
  BY <1>2, <1>3, <1>4, <1>5

(* Neither the configuration nor the host changes.                         *)
LEMMA Fixed ==
  ASSUME [Next]_vars
  PROVE  /\ config' = config /\ broken' = broken
         /\ Planned' = Planned /\ Selected' = Selected /\ (Unusable' <=> Unusable)
         /\ \A c : Want(c)' = Want(c)
<1>1. config' = config /\ broken' = broken
  BY DEF Next, vars, Start, Step, Plan, Keep, Write, Confirm, ReadAgain, Mismatch,
         AccessFails, Finish, Publish, Kill, Boot, Drift
<1>2. Planned' = Planned /\ Selected' = Selected
  BY <1>1 DEF Planned, Selected, Requests, ZonesNamed
<1>3. Unusable' <=> Unusable
  BY <1>1 DEF Unusable, KindRejected, CeilingRejected, Selected, LimitsRejected,
         LimitRejected, Requests, ZonesNamed
<1>4. \A c : Want(c)' = Want(c)
  BY <1>1 DEF Want, Requests, ZonesNamed
<1> QED
  BY <1>1, <1>2, <1>3, <1>4
-----------------------------------------------------------------------------
(* Every step preserves the type invariant.                                *)
LEMMA TypeStep == ASSUME TypeOK, todo \subseteq Planned, [Next]_vars PROVE TypeOK'
<1>1. \E g \in Cases : config' = g.config /\ broken' = g.broken
  BY Fixed DEF TypeOK
<1>2. Default \in [Controls -> Nat] /\ MaxReads \in Nat /\ Values \subseteq Nat
  BY PowerConstants
<1>3. config.freq \in Nat
  BY CaseTypes
<1>4. CASE Start
  BY <1>1, <1>4 DEF TypeOK, Start
<1>5. CASE Plan
  <2>1. Planned \subseteq Controls
    BY DEF Planned
  <2>2. struck' \in BOOLEAN
    BY <1>5 DEF TypeOK, Plan, NoCeiling
  <2>3. /\ pc' \in {"idle", "turn"} /\ result' \in {"rejected", result}
        /\ initial' \in {Default, sys} /\ todo' \subseteq Controls /\ reads' \in {0, reads}
    BY <1>5, <2>1 DEF Plan, End
  <2>4. UNCHANGED <<sys, due, config, broken, written, rounded, disturbed, steady, quiet>>
    BY <1>5 DEF Plan
  <2> QED
    BY <1>1, <1>2, <2>2, <2>3, <2>4 DEF TypeOK
<1>6. ASSUME NEW c \in todo, Keep(c) PROVE TypeOK'
  BY <1>1, <1>6 DEF TypeOK, Keep, PreRead, history
<1>7. ASSUME NEW c \in todo, Write(c) PROVE TypeOK'
  <2>1. c \in Controls /\ Want(c) \in Nat
    BY WantNat
  <2>2. Holds(c) \subseteq Nat
    BY <1>2, <1>7, <2>1 DEF Holds, TypeOK
  <2>3. PICK v \in Holds(c), R \in SUBSET Resets[c] :
           /\ sys' = [d \in Controls |-> IF d = c THEN v ELSE
                                         IF d \in R THEN Default[d] ELSE sys[d]]
           /\ due' = IF c[1] = "max" /\ v = sys[c] THEN due \cup {c} ELSE due \ {c}
    BY <1>7 DEF Write
  <2>4. sys' \in [Controls -> Nat] /\ due' \subseteq Controls
    BY <1>2, <2>1, <2>2, <2>3 DEF TypeOK
  <2> QED
    BY <1>1, <1>7, <2>1, <2>4 DEF TypeOK, Write
<1>8. ASSUME NEW c \in todo, Confirm(c) PROVE TypeOK'
  BY <1>1, <1>2, <1>8 DEF TypeOK, Confirm, PreRead
<1>9. ASSUME NEW c \in todo, ReadAgain(c) PROVE TypeOK'
  BY <1>1, <1>2, <1>9 DEF TypeOK, ReadAgain, MayReadAgain, history
<1>10. ASSUME NEW c \in todo, Mismatch(c) PROVE TypeOK'
  <2>1. struck' \in BOOLEAN
    BY <1>10 DEF Mismatch, TypeOK
  <2> QED
    BY <1>1, <1>2, <1>10, <2>1 DEF TypeOK, Mismatch, End
<1>11. ASSUME NEW c \in todo, AccessFails(c) PROVE TypeOK'
  BY <1>1, <1>2, <1>11 DEF TypeOK, AccessFails, End
<1>12. CASE Finish
  <2>1. steady' \in BOOLEAN
    BY <1>12 DEF Finish
  <2> QED
    BY <1>1, <1>2, <1>12, <2>1 DEF TypeOK, Finish, End
<1>13. ASSUME NEW c \in due, Publish(c) PROVE TypeOK'
  BY <1>1, <1>3, <1>13 DEF TypeOK, Publish, history
<1>14. CASE Kill
  BY <1>1, <1>2, <1>14 DEF TypeOK, Kill, End, history
<1>15. CASE Boot
  <2>1. /\ sys' = Default /\ due' = {} /\ disturbed' = Controls
        /\ steady' = FALSE /\ quiet' = FALSE
        /\ UNCHANGED <<written, rounded, struck>>
    BY <1>15 DEF Boot
  <2>2. \/ UNCHANGED <<pc, initial, result, todo, reads>>
        \/ /\ pc' = "idle" /\ result' = "killed" /\ initial' = Default
           /\ todo' = {} /\ reads' = 0
    BY <1>15 DEF Boot, End
  <2>3. /\ pc' \in {"idle", "started", "turn", "wrote"}
        /\ initial' \in [Controls -> Nat] /\ todo' \subseteq Controls /\ reads' \in 0..MaxReads
        /\ result' \in {"none", "ok", "rejected", "failed", "killed"}
    BY <1>2, <2>2 DEF TypeOK
  <2> QED
    BY <1>1, <1>2, <2>1, <2>3 DEF TypeOK
<1>16. ASSUME NEW c \in Controls, NEW v \in Values, Drift(c, v) PROVE TypeOK'
  BY <1>1, <1>2, <1>16 DEF TypeOK, Drift
<1>17. CASE UNCHANGED vars
  BY <1>1, <1>17 DEF TypeOK, vars, history
<1> QED
  BY <1>4, <1>5, <1>6, <1>7, <1>8, <1>9, <1>10, <1>11, <1>12, <1>13, <1>14, <1>15, <1>16, <1>17
  DEF Next, Step
-----------------------------------------------------------------------------
(* Every step keeps what the phases of a run say.                          *)
LEMMA PhaseStep == ASSUME TypeOK, PhaseInv, [Next]_vars PROVE PhaseInv'
<1>0. Planned' = Planned /\ Selected' = Selected /\ (Unusable' <=> Unusable) /\ config' = config
  BY Fixed
<1>ppd. ASSUME NEW c \in todo, Active, c[1] = "ppd" PROVE "max" \notin config.kinds
  BY <1>ppd DEF PhaseInv, Planned, Unusable
<1>1. CASE Start
  BY <1>0, <1>1 DEF PhaseInv, Active, Start
<1>2. CASE Plan
  <2>1. CASE Rejected
    <3>1. CeilingMalformed => "max" \in config.kinds /\ NoCeiling
      <4>1. \A p \in Selected : p \in 1..Policies /\ config.freq < HwMax[p]
        BY CaseTypes, PowerConstants DEF Selected
      <4> QED
        BY <4>1 DEF CeilingMalformed, NoCeiling
    <3>2. pc' = "idle" /\ result' = "rejected" /\ todo' = {} /\ struck' = NoCeiling
      BY <1>2, <2>1 DEF Plan, End
    <3> QED
      BY <1>0, <1>2, <2>1, <3>1, <3>2 DEF PhaseInv, Active, Plan, Rejected
  <2>2. CASE ~Rejected
    <3>1. initial' = sys /\ pc' = "turn" /\ todo' = Planned /\ result' = result
      BY <1>2, <2>2 DEF Plan
    <3>2. "max" \in config.kinds => \A p \in Selected : sys[<<"max", p>>] # 0
      BY <2>2 DEF Rejected, CeilingMalformed
    <3> QED
      BY <1>0, <1>2, <2>2, <3>1, <3>2 DEF PhaseInv, Active, Plan, Rejected
  <2> QED
    BY <2>1, <2>2
<1>3. ASSUME NEW c \in todo, Keep(c) PROVE PhaseInv'
  <2>1. Active /\ (initial' = initial \/ "max" \notin config.kinds)
    BY <1>3, <1>ppd DEF Keep, PreRead, Active
  <2> QED
    BY <1>0, <1>3, <2>1 DEF PhaseInv, Active, Keep, history
<1>4. ASSUME NEW c \in todo, Write(c) PROVE PhaseInv'
  <2>1. \A d \in due' : d \in due \/ d[1] = "max"
    BY <1>4 DEF Write
  <2> QED
    BY <1>0, <1>4, <2>1 DEF PhaseInv, Active, Write
<1>5. ASSUME NEW c \in todo, Confirm(c) PROVE PhaseInv'
  <2>1. Active /\ (initial' = initial \/ "max" \notin config.kinds)
    BY <1>5, <1>ppd DEF Confirm, PreRead, Active
  <2> QED
    BY <1>0, <1>5, <2>1 DEF PhaseInv, Active, Confirm
<1>6. ASSUME NEW c \in todo, ReadAgain(c) PROVE PhaseInv'
  BY <1>0, <1>6 DEF PhaseInv, Active, ReadAgain, history
<1>7. ASSUME NEW c \in todo, Mismatch(c) PROVE PhaseInv'
  <2>1. Cause(c)
    <3>1. c[1] = "max" => reads = MaxReads
      BY <1>7, PowerConstants DEF Mismatch, MayReadAgain, TypeOK
    <3> QED
      BY <1>7, <3>1 DEF Mismatch, Strict, Cause, PhaseInv
  <2>2. struck'
    BY <1>7, <2>1 DEF Mismatch
  <2> QED
    BY <1>0, <1>7, <2>2 DEF PhaseInv, Active, Mismatch, End
<1>8. ASSUME NEW c \in todo, AccessFails(c) PROVE PhaseInv'
  BY <1>0, <1>8 DEF PhaseInv, Active, AccessFails, End
<1>9. CASE Finish
  BY <1>0, <1>9 DEF PhaseInv, Active, Finish, End
<1>10. ASSUME NEW c \in due, Publish(c) PROVE PhaseInv'
  BY <1>0, <1>10 DEF PhaseInv, Active, Publish, history
<1>11. CASE Kill
  BY <1>0, <1>11 DEF PhaseInv, Active, Kill, End, history
<1>12. CASE Boot
  BY <1>0, <1>12 DEF PhaseInv, Active, Boot, End
<1>13. ASSUME NEW c \in Controls, NEW v \in Values, Drift(c, v) PROVE PhaseInv'
  BY <1>0, <1>13 DEF PhaseInv, Active, Drift
<1>14. CASE UNCHANGED vars
  BY <1>0, <1>14 DEF PhaseInv, Active, vars, history
<1> QED
  BY <1>1, <1>2, <1>3, <1>4, <1>5, <1>6, <1>7, <1>8, <1>9, <1>10, <1>11, <1>12, <1>13, <1>14
  DEF Next, Step

(* A turn that ends leaves the order and the finished controls as they are.*)
LEMMA OrderStep == ASSUME TypeOK, PhaseInv, OrderInv, [Next]_vars PROVE OrderInv'
<1>0. Planned' = Planned
  BY Fixed
<1>1. CASE UNCHANGED <<pc, todo>>
  BY <1>0, <1>1 DEF OrderInv, Active
<1>2. CASE ~Active' \/ todo' = Planned
  BY <1>0, <1>2 DEF OrderInv
<1>3. ASSUME NEW c \in todo, Turn(c), Active, todo' = todo \ {c} PROVE OrderInv'
  <2> SUFFICES ASSUME NEW e \in Planned \ todo', NEW d \in todo'
               PROVE  Place(e) <= Place(d)
    BY <1>0 DEF OrderInv
  <2>1. CASE e = c
    BY <1>3, <2>1 DEF Turn
  <2>2. CASE e # c
    BY <1>3, <2>2 DEF OrderInv
  <2> QED
    BY <2>1, <2>2
<1>4. ASSUME NEW c \in todo, Write(c) \/ ReadAgain(c) PROVE OrderInv'
  BY <1>0, <1>4 DEF OrderInv, Active, Write, ReadAgain
<1>5. ASSUME NEW c \in todo, Keep(c) \/ Confirm(c) PROVE OrderInv'
  BY <1>3, <1>5 DEF Active, Keep, Confirm
<1>6. ASSUME NEW c \in todo, Mismatch(c) \/ AccessFails(c) PROVE OrderInv'
  BY <1>2, <1>6 DEF Active, Mismatch, AccessFails, End
<1>7. CASE Start \/ Plan \/ Finish \/ Kill
  BY <1>2, <1>7 DEF Active, Start, Plan, Finish, Kill, End
<1>8. CASE Boot
  BY <1>1, <1>2, <1>8 DEF Active, Boot, End
<1>9. ASSUME NEW c \in Controls, NEW v \in Values, Drift(c, v) \/ Publish(c) PROVE OrderInv'
  BY <1>1, <1>9 DEF Drift, Publish
<1>10. CASE UNCHANGED vars
  BY <1>1, <1>10 DEF vars
<1>11. ASSUME NEW c \in due, Publish(c) PROVE OrderInv'
  BY <1>1, <1>11 DEF Publish
<1> QED
  BY <1>4, <1>5, <1>6, <1>7, <1>8, <1>9, <1>10, <1>11 DEF Next, Step
-----------------------------------------------------------------------------
(* A write leaves the controls alone whose turn is over.                   *)
LEMMA WriteSpares ==
  ASSUME TypeOK, PhaseInv, OrderInv, NEW c \in todo, Write(c), NEW e \in Planned \ todo
  PROVE  sys'[e] = sys[e]
<1>1. c \in Controls /\ e \in Controls /\ e # c
  BY WantNat DEF PhaseInv
<1>2. Place(e) <= Place(c)
  BY DEF OrderInv, Active, Write
<1>3. Place(e) \in Nat /\ Place(c) \in Nat
  BY <1>1, PlaceNat
<1>4. e \notin Resets[c]
  <2>1. e \in Resets[c] => Place(c) < Place(e)
    BY <1>1, PowerConstants
  <2> QED
    BY <1>2, <1>3, <2>1
<1> QED
  BY <1>1, <1>4 DEF Write

(* A publication gives a ceiling the value that was asked.                 *)
LEMMA PublishGives ==
  ASSUME TypeOK, PhaseInv, NEW c \in due, Publish(c), NEW e \in Controls
  PROVE  sys'[e] = sys[e] \/ sys'[e] = Want(e)
<1>1. c[1] = "max"
  BY DEF PhaseInv
<1>2. Want(c) = config.freq
  BY <1>1 DEF Want
<1> QED
  BY <1>2 DEF Publish, TypeOK

(* Every step keeps the controls whose turn is over at their values.       *)
LEMMA HoldsStep ==
  ASSUME TypeOK, PhaseInv, OrderInv, HoldsInv, [Next]_vars
  PROVE  HoldsInv'
<1>0. config' = config /\ Planned' = Planned /\ \A e : Want(e)' = Want(e)
  BY Fixed
<1> DEFINE Fine(e) == sys[e] = Want(e) \/ e \in rounded \cup disturbed
<1>1. ASSUME sys' = sys, todo' = todo, rounded \subseteq rounded', disturbed \subseteq disturbed',
             Active' \/ result' = "ok" => Active \/ result = "ok"
      PROVE  HoldsInv'
  BY <1>0, <1>1 DEF HoldsInv
<1>2. CASE ~Active' /\ result' # "ok"
  BY <1>2 DEF HoldsInv
<1>3. CASE Plan
  <2>1. CASE Rejected
    BY <1>2, <1>3, <2>1 DEF Plan, End, Active
  <2>2. CASE ~Rejected
    BY <1>0, <1>3, <2>2 DEF Plan, HoldsInv
  <2> QED
    BY <2>1, <2>2
<1>4. CASE Start
  BY <1>2, <1>4 DEF Start, Active
<1>5. ASSUME NEW c \in todo, Keep(c) \/ Confirm(c) PROVE HoldsInv'
  <2> SUFFICES ASSUME ~config.check, NEW e \in Planned \ todo'
               PROVE  sys'[e] = Want(e) \/ e \in rounded' \cup disturbed'
    BY <1>0 DEF HoldsInv
  <2>1. sys' = sys /\ rounded \subseteq rounded' /\ disturbed' = disturbed /\ Active
        /\ todo' = todo \ {c}
    BY <1>5 DEF Keep, Confirm, history, Active
  <2>2. CASE e = c
    BY <1>5, <2>1, <2>2 DEF Keep, Drifted, Before, Confirm
  <2>3. CASE e # c
    BY <2>1, <2>3 DEF HoldsInv
  <2> QED
    BY <2>2, <2>3
<1>6. ASSUME NEW c \in todo, Write(c) PROVE HoldsInv'
  <2>1. todo' = todo /\ rounded' = rounded /\ disturbed' = disturbed /\ Active
    BY <1>6 DEF Write, Active
  <2>2. \A e \in Planned \ todo : sys'[e] = sys[e]
    BY <1>6, WriteSpares
  <2> QED
    BY <1>0, <2>1, <2>2 DEF HoldsInv
<1>7. ASSUME NEW c \in todo, ReadAgain(c) PROVE HoldsInv'
  BY <1>1, <1>7 DEF ReadAgain, history, Active
<1>8. ASSUME NEW c \in todo, Mismatch(c) \/ AccessFails(c) PROVE HoldsInv'
  BY <1>2, <1>8 DEF Mismatch, AccessFails, End, Active
<1>9. CASE Finish
  BY <1>1, <1>9 DEF Finish, End, Active
<1>10. ASSUME NEW c \in due, Publish(c) PROVE HoldsInv'
  <2>1. UNCHANGED <<pc, todo, result, rounded, disturbed>>
    BY <1>10 DEF Publish, history
  <2>2. \A e \in Controls : sys'[e] = sys[e] \/ sys'[e] = Want(e)
    BY <1>10, PublishGives
  <2>3. Planned \subseteq Controls
    BY DEF Planned
  <2> QED
    BY <1>0, <2>1, <2>2, <2>3 DEF HoldsInv, Active
<1>11. CASE Kill
  BY <1>2, <1>11 DEF Kill, End, Active
<1>12. CASE Boot
  <2>1. disturbed' = Controls
    BY <1>12 DEF Boot
  <2>2. Planned \subseteq Controls
    BY DEF Planned
  <2> QED
    BY <1>0, <2>1, <2>2 DEF HoldsInv
<1>13. ASSUME NEW c \in Controls, NEW v \in Values, Drift(c, v) PROVE HoldsInv'
  <2>1. UNCHANGED <<pc, todo, result, rounded>> /\ disturbed' = disturbed \cup {c}
    BY <1>13 DEF Drift
  <2>2. \A e \in Controls \ {c} : sys'[e] = sys[e]
    BY <1>13 DEF Drift, TypeOK
  <2>3. Planned \subseteq Controls
    BY DEF Planned
  <2> QED
    BY <1>0, <2>1, <2>2, <2>3 DEF HoldsInv, Active
<1>14. CASE UNCHANGED vars
  BY <1>1, <1>14 DEF vars, history, Active
<1> QED
  BY <1>3, <1>4, <1>5, <1>6, <1>7, <1>8, <1>9, <1>10, <1>11, <1>12, <1>13, <1>14 DEF Next, Step

(* Every step keeps what a run that succeeded to the letter left.          *)
LEMMA QuietStep ==
  ASSUME TypeOK, PhaseInv, OrderInv, HoldsInv, QuietInv, [Next]_vars
  PROVE  QuietInv'
<1>0. config' = config /\ Planned' = Planned /\ \A e : Want(e)' = Want(e)
  BY Fixed
<1>1. ASSUME sys' = sys PROVE Conforms <=> Conforms'
  BY <1>0, <1>1 DEF Conforms
<1>2. CASE Start
  BY <1>0, <1>1, <1>2 DEF QuietInv, Start
<1>3. CASE Plan
  <2>1. steady' = steady /\ quiet' = quiet /\ written' = written /\ sys' = sys /\ pc = "started"
    BY <1>3 DEF Plan
  <2> QED
    BY <1>0, <1>1, <2>1 DEF QuietInv
<1>4. ASSUME NEW c \in todo, Keep(c) \/ ReadAgain(c) PROVE QuietInv'
  BY <1>0, <1>1, <1>4 DEF QuietInv, Keep, ReadAgain, history
<1>5. ASSUME NEW c \in todo, Write(c) PROVE QuietInv'
  <2>1. ~quiet /\ ~steady
    BY <1>5 DEF Write, Drifted, Before, QuietInv, Conforms, PhaseInv
  <2> QED
    BY <1>5, <2>1 DEF Write, QuietInv
<1>6. ASSUME NEW c \in todo, Confirm(c) \/ Mismatch(c) \/ AccessFails(c) PROVE QuietInv'
  <2>1. sys' = sys /\ steady' = steady /\ quiet' = quiet /\ written' = written /\ pc # "idle"
    BY <1>6 DEF Confirm, Mismatch, AccessFails
  <2> QED
    BY <1>0, <1>1, <2>1 DEF QuietInv
<1>7. CASE Finish
  <2>1. sys' = sys /\ quiet' = quiet /\ written' = written /\ pc' = "idle" /\ todo = {} /\ Active
        /\ steady' = (~config.check /\ rounded = {} /\ disturbed = {})
    BY <1>7 DEF Finish, End, Active
  <2>2. steady' => Conforms
    BY <2>1 DEF HoldsInv, Conforms
  <2> QED
    BY <1>0, <1>1, <2>1, <2>2 DEF QuietInv
<1>8. ASSUME NEW c \in due, Publish(c) PROVE QuietInv'
  <2>1. UNCHANGED <<pc, steady, quiet, written>>
    BY <1>8 DEF Publish, history
  <2>2. \A e \in Controls : sys'[e] = sys[e] \/ sys'[e] = Want(e)
    BY <1>8, PublishGives
  <2>3. Planned \subseteq Controls
    BY DEF Planned
  <2>4. Conforms => Conforms'
    BY <1>0, <2>2, <2>3 DEF Conforms
  <2> QED
    BY <1>0, <2>1, <2>4 DEF QuietInv
<1>9. CASE Kill
  BY <1>0, <1>1, <1>9 DEF QuietInv, Kill, End, history
<1>10. CASE Boot
  BY <1>10 DEF QuietInv, Boot
<1>11. ASSUME NEW c \in Controls, NEW v \in Values, Drift(c, v) PROVE QuietInv'
  BY <1>11 DEF QuietInv, Drift
<1>12. CASE UNCHANGED vars
  BY <1>0, <1>1, <1>12 DEF QuietInv, vars, history
<1> QED
  BY <1>2, <1>3, <1>4, <1>5, <1>6, <1>7, <1>8, <1>9, <1>10, <1>11, <1>12 DEF Next, Step
-----------------------------------------------------------------------------
(* The invariants hold initially.                                          *)
LEMMA InitIInv == Init => IInv
<1> SUFFICES ASSUME Init PROVE IInv
  OBVIOUS
<1>1. Default \in [Controls -> Nat] /\ MaxReads \in Nat
  BY PowerConstants
<1>2. TypeOK
  <2>1. sys \in [Controls -> Nat] /\ initial \in [Controls -> Nat]
    BY <1>1 DEF Init
  <2>2. \E g \in Cases : config = g.config /\ broken = g.broken
    BY DEF Init
  <2>3. pc = "idle" /\ result = "none" /\ reads \in 0..MaxReads
    BY <1>1 DEF Init
  <2>4. struck \in BOOLEAN /\ steady \in BOOLEAN /\ quiet \in BOOLEAN
    BY DEF Init
  <2>5. /\ due = {} /\ todo = {}
        /\ written = {} /\ rounded = {} /\ disturbed = {}
    BY DEF Init
  <2> QED
    BY <2>1, <2>2, <2>3, <2>4, <2>5 DEF TypeOK
<1>3. PhaseInv /\ OrderInv /\ HoldsInv /\ QuietInv
  BY DEF Init, PhaseInv, OrderInv, HoldsInv, QuietInv, Active
<1> QED
  BY <1>2, <1>3 DEF IInv

(* Every reachable state satisfies the invariant.                          *)
THEOREM Invariance == Spec => []IInv
<1>1. IInv /\ [Next]_vars => IInv'
  <2> SUFFICES ASSUME IInv, [Next]_vars PROVE IInv'
    OBVIOUS
  <2>1. TypeOK /\ PhaseInv /\ OrderInv /\ HoldsInv /\ QuietInv /\ todo \subseteq Planned
    BY DEF IInv, PhaseInv
  <2>2. TypeOK'
    BY <2>1, TypeStep
  <2>3. PhaseInv' /\ OrderInv'
    BY <2>1, PhaseStep, OrderStep
  <2>4. HoldsInv' /\ QuietInv'
    BY <2>1, HoldsStep, QuietStep
  <2> QED
    BY <2>2, <2>3, <2>4 DEF IInv
<1> QED
  BY InitIInv, <1>1, PTL DEF Spec

(* Type correctness.                                                       *)
THEOREM Types == Spec => []TypeOK
<1>1. IInv => TypeOK
  BY DEF IInv
<1> QED
  BY <1>1, Invariance, PTL

(* When a run has succeeded, all it asked for is in force, whatever the    *)
(* writes reset on the way, but for rounded caps and what others changed.  *)
THEOREM Applied == Spec => []AppliedHolds
<1>1. IInv => AppliedHolds
  BY DEF IInv, PhaseInv, HoldsInv, AppliedHolds, Active
<1> QED
  BY <1>1, Invariance, PTL

(* A run over a host that the one before left as asked writes nothing.     *)
THEOREM Quiet == Spec => []QuietRerun
<1>1. IInv => QuietRerun
  BY DEF IInv, QuietInv, QuietRerun
<1> QED
  BY <1>1, Invariance, PTL

(* The controls of the plan are those that the configuration asks for.     *)
LEMMA PlannedAsked == ASSUME TypeOK, NEW c \in Controls PROVE c \in Planned <=> Asked(c)
<1>1. CASE c[1] \in {"governor", "epp", "boost", "profile"}
  BY <1>1 DEF Planned, Asked
<1>2. CASE c[1] = "ppd"
  BY <1>2 DEF Planned, Asked
<1>3. CASE c[1] = "max"
  <2>1. c[2] \in 1..Policies
    BY <1>3 DEF Controls
  <2>2. c[2] \in Selected <=> config.freq < HwMax[c[2]]
    BY <2>1, CaseTypes, PowerConstants DEF Selected
  <2> QED
    BY <1>3, <2>2 DEF Planned, Asked
<1>4. CASE c[1] = "cap"
  <2>1. c[2] \in 1..Zones
    BY <1>4 DEF Controls
  <2>2. Requests(c[2]) # {} <=> Asked(c)
    BY <1>4, <2>1 DEF Requests, ZonesNamed, Asked
  <2> QED
    BY <1>4, <2>2 DEF Planned
<1> QED
  BY <1>1, <1>2, <1>3, <1>4 DEF Controls

(* The check of the ceiling rejects one that cannot be set...              *)
LEMMA CeilingChecked == ASSUME TypeOK, ~CeilingRejected PROVE CeilingUsable
<1>1. config.freq \in Nat /\ Policies \in Nat
      /\ \A p \in 1..Policies : HwMax[p] \in Nat /\ MinFreq[p] \in Nat
  BY CaseTypes, PowerConstants
<1>2. \A p \in 1..Policies : config.freq < HwMax[p] => p \in Selected
  BY <1>1 DEF Selected
<1> QED
  BY <1>1, <1>2 DEF CeilingRejected, CeilingUsable

(* ...and no other, on a host without unusable controls.                   *)
LEMMA CeilingCause == ASSUME TypeOK, broken = {}, CeilingUsable PROVE ~CeilingRejected
<1>1. config.freq \in Nat /\ Policies \in Nat
      /\ \A p \in 1..Policies : HwMax[p] \in Nat /\ MinFreq[p] \in Nat
  BY CaseTypes, PowerConstants
<1>2. \A p \in Selected : p \in 1..Policies /\ config.freq < HwMax[p]
  BY <1>1 DEF Selected
<1> QED
  BY <1>1, <1>2 DEF CeilingRejected, CeilingUsable

(* The check of the limits rejects those that cannot be set...             *)
LEMMA LimitChecked ==
  ASSUME TypeOK, NEW i \in DOMAIN config.limits, ~LimitRejected(i)
  PROVE  LimitUsable(i)
<1>1. PICK z \in ZonesNamed(config.limits[i].zone) : ZonesNamed(config.limits[i].zone) = {z}
  BY DEF LimitRejected
<1>2. z \in 1..Zones /\ NameOf[z] = config.limits[i].zone /\ \E l \in Links : ZoneOf[l] = z
  BY <1>1 DEF ZonesNamed
<1>3. /\ Requests(z) = {i} /\ config.limits[i].value # 0
      /\ ~(config.limits[i].value < CapMin[z]) /\ ~(config.limits[i].value > CapMax[z])
  BY <1>1 DEF LimitRejected
<1>4. config.limits[i].value \in Nat
  <2>1. config.limits \in Seq(Entries)
    BY CaseTypes
  <2>2. config.limits[i] \in Entries
    BY <2>1, ElementOf
  <2> QED
    BY <2>2 DEF Entries
<1>5. config.limits[i].value \in (CapMin[z]..CapMax[z]) \ {0}
  BY <1>2, <1>3, <1>4, PowerConstants
<1>6. \A y \in 1..Zones :
        NameOf[y] = config.limits[i].zone /\ (\E l \in Links : ZoneOf[l] = y) <=> y = z
  BY <1>1, <1>2 DEF ZonesNamed
<1>7. ASSUME NEW j \in DOMAIN config.limits, j # i
      PROVE  config.limits[j].zone # config.limits[i].zone
  <2>1. config.limits[j].zone = config.limits[i].zone => j \in Requests(z)
    BY <1>1 DEF Requests
  <2> QED
    BY <1>3, <1>7, <2>1
<1> QED
  BY <1>2, <1>5, <1>6, <1>7 DEF LimitUsable

(* ...and no other, on a host without unusable controls: not one whose zone*)
(* is linked more than once.                                               *)
LEMMA LimitCause ==
  ASSUME TypeOK, broken = {}, NEW i \in DOMAIN config.limits, LimitUsable(i)
  PROVE  ~LimitRejected(i)
<1>1. PICK z \in 1..Zones :
        /\ \A y \in 1..Zones :
              NameOf[y] = config.limits[i].zone /\ (\E l \in Links : ZoneOf[l] = y) <=> y = z
        /\ config.limits[i].value \in (CapMin[z]..CapMax[z]) \ {0}
        /\ \A j \in DOMAIN config.limits : j # i => config.limits[j].zone # config.limits[i].zone
  BY DEF LimitUsable
<1>2. ZonesNamed(config.limits[i].zone) = {z}
  BY <1>1 DEF ZonesNamed
<1>3. NameOf[z] = config.limits[i].zone
  BY <1>1
<1>4. ASSUME NEW j \in DOMAIN config.limits, j # i PROVE z \notin ZonesNamed(config.limits[j].zone)
  BY <1>1, <1>3, <1>4 DEF ZonesNamed
<1>5. Requests(z) = {i}
  BY <1>2, <1>4 DEF Requests
<1>6. CapMin[z] \in Nat /\ CapMax[z] \in Nat
  BY PowerConstants
<1>7. /\ config.limits[i].value # 0
      /\ ~(config.limits[i].value < CapMin[z]) /\ ~(config.limits[i].value > CapMax[z])
  BY <1>1, <1>6
<1> QED
  BY <1>2, <1>5, <1>7 DEF LimitRejected

(* An unusable control that is asked for is noticed.                       *)
LEMMA BrokenChecked == ASSUME TypeOK, ~Unusable, NEW c \in Planned PROVE c \notin broken
<1>0. c \in Controls /\ c = <<c[1], c[2]>>
  BY DEF Planned, Controls
<1>1. CASE c[1] \in {"governor", "epp", "boost", "profile", "max"}
  <2>1. c[1] \in config.kinds /\ (c[1] = "max" => c[2] \in Selected)
    BY <1>1 DEF Planned
  <2>2. config.backend = "sysfs"
    BY <2>1 DEF Unusable
  <2>3. ~KindRejected(c[1])
    BY <2>1, <2>2 DEF Unusable
  <2>4. CASE c[1] \in {"governor", "epp"}
    <3>1. c[2] \in 1..Policies
      BY <1>0, <2>4 DEF Controls
    <3> QED
      BY <1>0, <2>3, <2>4, <3>1 DEF KindRejected
  <2>5. CASE c[1] \in {"boost", "profile"}
    <3>1. c[2] = 0
      BY <1>0, <2>5 DEF Controls
    <3> QED
      BY <1>0, <2>3, <2>5, <3>1 DEF KindRejected
  <2>6. CASE c[1] = "max"
    BY <1>0, <2>1, <2>3, <2>6 DEF KindRejected, CeilingRejected
  <2> QED
    BY <1>1, <2>4, <2>5, <2>6
<1>2. CASE c[1] = "ppd"
  <2>1. c[2] = 0 /\ config.backend = "power-profiles-daemon"
    BY <1>0, <1>2 DEF Planned, Controls
  <2> QED
    BY <1>0, <1>2, <2>1 DEF Unusable
<1>3. CASE c[1] = "cap"
  <2>1. PICK i \in DOMAIN config.limits : c[2] \in ZonesNamed(config.limits[i].zone)
    BY <1>3 DEF Planned, Requests
  <2>2. <<"cap", c[2]>> \notin broken
    BY <2>1 DEF Unusable, LimitsRejected, LimitRejected
  <2> QED
    BY <1>0, <1>3, <2>2
<1> QED
  BY <1>1, <1>2, <1>3 DEF Planned, Controls

(* Nothing is written that was not asked for, in check mode, or when       *)
(* anything that was asked for is unusable.                                *)
THEOREM Restrained == Spec => []Restraint
<1>1. IInv => Restraint
  <2> SUFFICES ASSUME IInv, written # {} PROVE Restraint
    BY DEF Restraint
  <2>1. TypeOK /\ ~config.check /\ ~Unusable /\ written \subseteq Planned
    BY DEF IInv, PhaseInv
  <2>2. Planned \subseteq Controls
    BY DEF Planned
  <2>3. \A c \in written : Asked(c)
    BY <2>1, <2>2, PlannedAsked
  <2>4. \A c \in Controls : Asked(c) => c \notin broken
    BY <2>1, PlannedAsked, BrokenChecked
  <2>5. /\ config.backend \in {"sysfs", "power-profiles-daemon"}
        /\ config.backend = "power-profiles-daemon" => config.kinds = {}
    BY <2>1 DEF Unusable
  <2>6. \A k \in config.kinds : ~KindRejected(k)
    BY <2>1, <2>5 DEF Unusable
  <2>7. config.kinds \cap {"governor", "epp"} # {} => Policies > 0
    <3>1. ASSUME NEW k \in config.kinds, k \in {"governor", "epp"} PROVE Policies # 0
      BY <2>6, <3>1 DEF KindRejected
    <3> QED
      BY <3>1, PowerConstants
  <2>8. "max" \in config.kinds => CeilingUsable
    BY <2>1, <2>6, CeilingChecked DEF KindRejected
  <2>9. \A i \in DOMAIN config.limits : LimitUsable(i)
    BY <2>1, LimitChecked DEF Unusable, LimitsRejected
  <2>10. ASSUME pc # "idle", NEW p \in 1..Policies, Asked(<<"max", p>>)
         PROVE  initial[<<"max", p>>] # 0
    <3>1. Active
      BY <2>10 DEF IInv, TypeOK, PhaseInv, Active
    <3>2. "max" \in config.kinds /\ config.freq < HwMax[p]
      BY <2>10 DEF Asked
    <3>3. p \in Selected
      BY <2>1, <3>2, CaseTypes, PowerConstants DEF Selected
    <3> QED
      BY <3>1, <3>2, <3>3 DEF IInv, PhaseInv
  <2> QED
    BY <2>1, <2>3, <2>4, <2>5, <2>7, <2>8, <2>9, <2>10 DEF Restraint
<1> QED
  BY <1>1, Invariance, PTL

(* A run that failed was struck by the kernel, the daemon or the hardware, *)
(* and one that was rejected asked for something that cannot be had.       *)
THEOREM FailedForCause == Spec => []FailsForCause
<1>1. IInv => FailsForCause
  <2> SUFFICES ASSUME IInv PROVE FailsForCause
    OBVIOUS
  <2>1. result = "failed" => struck
    BY DEF IInv, PhaseInv
  <2>2. ASSUME result = "rejected", broken = {}, config.backend = "sysfs", Policies # 0,
               \A i \in DOMAIN config.limits : LimitUsable(i)
        PROVE  "max" \in config.kinds /\ (~CeilingUsable \/ struck)
    <3>1. Unusable \/ ("max" \in config.kinds /\ struck)
      BY <2>2 DEF IInv, PhaseInv
    <3>2. ~LimitsRejected
      BY <2>2, LimitCause DEF IInv, LimitsRejected
    <3>3. ASSUME Unusable PROVE "max" \in config.kinds /\ ~CeilingUsable
      <4>1. PICK k \in config.kinds : KindRejected(k)
        BY <2>2, <3>2, <3>3 DEF Unusable
      <4>2. k = "max" /\ CeilingRejected
        BY <2>2, <4>1 DEF KindRejected
      <4> QED
        BY <2>2, <4>1, <4>2, CeilingCause DEF IInv
    <3> QED
      BY <3>1, <3>3
  <2> QED
    BY <2>1, <2>2 DEF FailsForCause
<1> QED
  BY <1>1, Invariance, PTL
=============================================================================
