-------------------------- MODULE BookOrbitProofs --------------------------
(***************************************************************************)
(* Theorems about BookOrbit.  A library is spared of deletion for being    *)
(* the first of a desired name: whatever a run deletes, now or late, has a *)
(* fitting library of the same name that is older.  That one, too, may be  *)
(* under deletion, but not all of them.                                    *)
(***************************************************************************)
EXTENDS BookOrbit, FiniteSetTheorems, TLAPS

Typed ==
    /\ libs \subseteq Libraries
    /\ next \in Nat
    /\ \A x \in libs : x.id < next
    /\ \A x, y \in libs : x.id = y.id => x = y
    /\ listed \subseteq Libraries
    /\ managed \in Seq(Nat)
    /\ Len(managed) <= Len(Desired)
    /\ pc # "ensure" => listed = {} /\ managed = <<>>

Fitting(n) == {y \in libs : y.name = n /\ y.fits}

(* The names that only the script cares for.                               *)
Ours == Elems(Desired) \ gone

(* Library i may go: there is an older one for its name.                   *)
Superfluous(i) ==
    /\ i \in Nat /\ i < next
    /\ \A x \in libs : x.id = i /\ x.name \in Ours => \E y \in Fitting(x.name) : y.id < i

Present == \A n \in Ours : Fitting(n) # {}

UnderDeletion == {w \in late : w.op = "delete"}

LateInv ==
    /\ \A w \in UnderDeletion : Superfluous(w.lib) /\ Present
    /\ \A w \in late : w.op = "create" => w.name \in Names

(* What was read is what there is, but for younger and deleted libraries.  *)
ListInv ==
    \A x \in listed :
        /\ x.id < next
        /\ \A y \in libs : /\ y.id = x.id => y.name = x.name /\ y.fits = x.fits
                           /\ y.id < x.id => \E z \in listed : z.id = y.id

Safe(i) == (\E y \in libs : y.id = i) /\ \A w \in UnderDeletion : w.lib # i

(* The first library of a name stays, until it is chosen and after.        *)
FirstInv ==
    pc = "ensure" =>
        \A i \in DOMAIN Desired : Desired[i] \in Ours =>
            IF i <= Len(managed)
            THEN /\ Safe(managed[i])
                 /\ \E y \in Fitting(Desired[i]) : y.id = managed[i]
                 /\ \A z \in listed : z.name = Desired[i] => managed[i] <= z.id
            ELSE \A x \in First(Desired[i]) : Safe(x.id)

KInv == Typed /\ LateInv /\ ListInv /\ FirstInv
-----------------------------------------------------------------------------
(* The desired names are a sequence without repetitions.                   *)
LEMMA DesiredNames ==
  /\ Desired \in Seq(Names)
  /\ \A i, j \in DOMAIN Desired : Desired[i] = Desired[j] => i = j
  /\ Len(Desired) \in Nat /\ DOMAIN Desired = 1..Len(Desired)
  /\ Elems(Desired) = {Desired[i] : i \in DOMAIN Desired}
BY OrbitConstants DEF OrbitConstants, Elems

(* The invariant holds initially.                                          *)
LEMMA Initially == Init => KInv
<1> SUFFICES ASSUME Init PROVE KInv
  OBVIOUS
<1>1. PICK s \in Installs : libs = s.libs /\ next = s.next
  BY DEF Init
<1>2. /\ s.next \in Nat /\ s.libs \subseteq Libraries
      /\ \A x \in s.libs : x.id < s.next
      /\ \A x, y \in s.libs : x.id = y.id => x = y
  BY OrbitConstants DEF OrbitConstants
<1>3. Typed
  BY <1>1, <1>2, DesiredNames DEF Typed, Init
<1>4. LateInv /\ ListInv /\ FirstInv
  BY DEF Init, LateInv, UnderDeletion, ListInv, FirstInv
<1> QED
  BY <1>3, <1>4 DEF KInv

(* Most steps leave the libraries alone and have none in hand.             *)
LEMMA Elsewhere ==
  ASSUME KInv, UNCHANGED <<libs, next, gone>>,
         \A w \in late' : w \in late \/ w.op \notin {"create", "delete"},
         pc' # "ensure", listed' = {}, managed' = <<>>
  PROVE  KInv'
<1>1. Typed'
  BY DesiredNames DEF KInv, Typed
<1>2. LateInv'
  BY DEF KInv, LateInv, UnderDeletion, Superfluous, Present, Ours, Fitting
<1>3. ListInv' /\ FirstInv'
  BY DEF ListInv, FirstInv
<1> QED
  BY <1>1, <1>2, <1>3 DEF KInv

(* Requests about anything but libraries leave them alone.                 *)
LEMMA OtherRequest ==
  ASSUME NEW w, Takes(w), w.op \notin {"create", "patch", "delete"}
  PROVE  UNCHANGED <<libs, next>>
BY DEF Takes, LibsAfter

(* What each request is, and where the run is when it makes it.            *)
LEMMA Asked ==
  /\ \A w \in SetupAsks : w.op = "setup" /\ pc = "setup"
  /\ \A w \in EntryAsks : w.op \in {"set", "post", "put", "drop"} /\ pc = "entry"
  /\ \A w \in CreateAsks : w.op = "create" /\ w.name = Turn /\ Ensuring /\ First(Turn) = {}
  /\ \A w \in PatchAsks : w.op = "patch" /\ Ensuring
                          /\ \E x \in First(Turn) : x.fits /\ w.lib = x.id
  /\ \A w \in DeleteAsks : w.op = "delete" /\ Deletes /\ \E x \in Doomed : w.lib = x.id
  /\ \A w \in DefaultAsks : w.op = "defaults" /\ pc = "add"
  /\ \A w \in UserAsks : w.op \in {"grant", "revoke"} /\ pc = "user"
  /\ \A w \in ChannelAsks : w.op = "manual" /\ pc = "channel"
  /\ \A w \in UploadAsks : w.op = "upload" /\ pc = "file"
  /\ \A w \in ManualAsks : w.op = "manual" /\ pc = "uploaded"
<1>1. \A w \in SetupAsks : w.op = "setup" /\ pc = "setup"
  BY DEF SetupAsks
<1>2. \A w \in EntryAsks : w.op \in {"set", "post", "put", "drop"} /\ pc = "entry"
  BY DEF EntryAsks, AsksFor
<1>3. \A w \in CreateAsks : w.op = "create" /\ w.name = Turn /\ Ensuring /\ First(Turn) = {}
  BY DEF CreateAsks
<1>4. \A w \in PatchAsks : w.op = "patch" /\ Ensuring
                           /\ \E x \in First(Turn) : x.fits /\ w.lib = x.id
  BY DEF PatchAsks
<1>5. \A w \in DeleteAsks : w.op = "delete" /\ Deletes /\ \E x \in Doomed : w.lib = x.id
  BY DEF DeleteAsks
<1>6. \A w \in DefaultAsks : w.op = "defaults" /\ pc = "add"
  BY DEF DefaultAsks
<1>7. \A w \in UserAsks : w.op \in {"grant", "revoke"} /\ pc = "user"
  BY DEF UserAsks
<1>8. \A w \in ChannelAsks : w.op = "manual" /\ pc = "channel"
  BY DEF ChannelAsks
<1>9. /\ \A w \in UploadAsks : w.op = "upload" /\ pc = "file"
      /\ \A w \in ManualAsks : w.op = "manual" /\ pc = "uploaded"
  BY DEF UploadAsks, ManualAsks
<1> QED
  BY <1>1, <1>2, <1>3, <1>4, <1>5, <1>6, <1>7, <1>8, <1>9
-----------------------------------------------------------------------------
(* The deletion of a superfluous library leaves the older one for its name.*)
LEMMA Deletion ==
  ASSUME KInv, NEW i, Superfluous(i), Present,
         libs' = {x \in libs : x.id # i}, UNCHANGED <<next, gone>>
  PROVE  /\ Present'
         /\ \A j : Superfluous(j) => Superfluous(j)'
<1> USE DEF KInv, Typed, Libraries
<1>1. \A n \in Ours : \A y \in Fitting(n) : \E z \in libs' : z.name = n /\ z.fits /\ z.id <= y.id
  <2> SUFFICES ASSUME NEW n \in Ours, NEW y \in Fitting(n)
               PROVE  \E z \in libs' : z.name = n /\ z.fits /\ z.id <= y.id
    OBVIOUS
  <2>1. CASE y.id # i
    BY <2>1 DEF Fitting
  <2>2. CASE y.id = i
    <3>1. PICK z \in Fitting(n) : z.id < i
      BY <2>2 DEF Superfluous, Fitting
    <3> QED
      BY <3>1, <2>2 DEF Fitting
  <2> QED
    BY <2>1, <2>2
<1>2. Present'
  BY <1>1 DEF Present, Ours, Fitting
<1>3. ASSUME NEW j, Superfluous(j) PROVE Superfluous(j)'
  <2>1. SUFFICES ASSUME NEW x \in libs', x.id = j, x.name \in Ours
                 PROVE  \E y \in libs' : y.name = x.name /\ y.fits /\ y.id < j
    BY <1>3 DEF Superfluous, Ours, Fitting
  <2>2. PICK y \in Fitting(x.name) : y.id < j
    BY <1>3, <2>1 DEF Superfluous
  <2>3. PICK z \in libs' : z.name = x.name /\ z.fits /\ z.id <= y.id
    BY <1>1, <2>1, <2>2
  <2> QED
    BY <2>1, <2>2, <2>3, <1>3 DEF Superfluous, Fitting
<1> QED
  BY <1>2, <1>3

(* A library that is new is the youngest, and a patch keeps what matters.  *)
Persist ==
    /\ next' \in Nat /\ next <= next'
    /\ libs' \subseteq Libraries
    /\ \A x \in libs' : x.id < next'
    /\ \A x, y \in libs' : x.id = y.id => x = y
    /\ \A x \in libs : \E y \in libs' : y.id = x.id /\ y.name = x.name /\ y.fits = x.fits
    /\ \A y \in libs' : y.id = next
                        \/ \E x \in libs : y.id = x.id /\ y.name = x.name /\ y.fits = x.fits
    /\ gone' = gone

(* Where libraries persist, so do the desired ones, and what is            *)
(* superfluous.                                                            *)
LEMMA Persistence ==
  ASSUME KInv, Persist
  PROVE  /\ Present => Present'
         /\ \A j : Superfluous(j) => Superfluous(j)'
<1> USE DEF KInv, Typed, Persist
<1>1. Present => Present'
  BY DEF Present, Ours, Fitting
<1>2. ASSUME NEW j, Superfluous(j) PROVE Superfluous(j)'
  <2>1. SUFFICES ASSUME NEW x \in libs', x.id = j, x.name \in Ours
                 PROVE  \E y \in libs' : y.name = x.name /\ y.fits /\ y.id < j
    BY <1>2 DEF Superfluous, Ours, Fitting, Libraries
  <2>2. PICK z \in libs : x.id = z.id /\ x.name = z.name
    BY <1>2, <2>1 DEF Superfluous, Libraries
  <2>3. PICK y \in Fitting(x.name) : y.id < j
    BY <1>2, <2>1, <2>2 DEF Superfluous
  <2> QED
    BY <2>3 DEF Fitting
<1> QED
  BY <1>1, <1>2

(* So a change that only adds or patches libraries keeps the invariant.    *)
LEMMA PersistKeeps ==
  ASSUME KInv, Persist, late' \subseteq late, UNCHANGED <<pc, listed, managed>>
  PROVE  KInv'
<1> USE DEF KInv, Persist
<1>1. Typed'
  BY DEF Typed
<1>2. LateInv'
  BY Persistence DEF LateInv, UnderDeletion
<1>3. ListInv'
  BY DEF ListInv, Typed, Libraries
<1>4. FirstInv'
  <2>1. \A i : Safe(i) => Safe(i)'
    BY DEF Safe, UnderDeletion
  <2>2. \A n, i : (\E y \in Fitting(n) : y.id = i) => \E y \in Fitting(n)' : y.id = i
    BY DEF Fitting
  <2>3. Ours' = Ours /\ \A n : First(n)' = First(n)
    BY DEF Ours, First
  <2> HIDE DEF KInv, Persist
  <2> QED
    BY <2>1, <2>2, <2>3 DEF FirstInv, KInv
<1> QED
  BY <1>1, <1>2, <1>3, <1>4

(* A new library is the youngest, and disturbs none of the others.         *)
LEMMA Creation ==
  ASSUME KInv, NEW n \in Names, NEW fits \in BOOLEAN, NEW cron \in BOOLEAN,
         libs' = libs \cup {[id |-> next, name |-> n, fits |-> fits, cron |-> cron]},
         next' = next + 1, gone' = gone
  PROVE  Persist
BY DEF KInv, Typed, Persist, Libraries

(* A new scan schedule makes no library another one.                       *)
LEMMA Patching ==
  ASSUME KInv, NEW i,
         libs' = {IF x.id = i THEN [x EXCEPT !.cron = TRUE] ELSE x : x \in libs},
         UNCHANGED <<next, gone>>
  PROVE  Persist
<1> DEFINE p(x) == IF x.id = i THEN [x EXCEPT !.cron = TRUE] ELSE x
<1> USE DEF KInv, Typed
<1>1. \A x \in libs : /\ p(x) \in Libraries
                       /\ p(x).id = x.id /\ p(x).name = x.name /\ p(x).fits = x.fits
  BY DEF Libraries
<1>2. libs' = {p(x) : x \in libs}
  OBVIOUS
<1> HIDE DEF p
<1>3. /\ libs' \subseteq Libraries
      /\ \A x \in libs' : x.id < next'
      /\ \A x, y \in libs' : x.id = y.id => x = y
  BY <1>1, <1>2
<1>4. /\ \A x \in libs : \E y \in libs' : y.id = x.id /\ y.name = x.name /\ y.fits = x.fits
      /\ \A y \in libs' : \E x \in libs : y.id = x.id /\ y.name = x.name /\ y.fits = x.fits
  BY <1>1, <1>2
<1>5. next' \in Nat /\ next <= next' /\ gone' = gone
  OBVIOUS
<1>6. \A y \in libs' : \/ y.id = next
                        \/ \E x \in libs : y.id = x.id /\ y.name = x.name /\ y.fits = x.fits
  BY <1>4
<1> QED
  BY ONLY <1>3, <1>4, <1>5, <1>6 DEF Persist

(* A late deletion takes effect.                                           *)
LEMMA LandedDeletion ==
  ASSUME KInv, NEW i, Superfluous(i), Present, \E w \in UnderDeletion : w.lib = i,
         libs' = {x \in libs : x.id # i}, UNCHANGED <<next, gone>>,
         late' \subseteq late, UNCHANGED <<pc, listed, managed>>
  PROVE  KInv'
<1> USE DEF KInv
<1>1. Typed'
  BY DEF Typed
<1>2. LateInv'
  BY Deletion DEF LateInv, UnderDeletion
<1>3. ListInv'
  BY DEF ListInv
<1>4. FirstInv'
  <2>1. \A j : Safe(j) => Safe(j)' /\ j # i
    BY DEF Safe, UnderDeletion
  <2>2. \A n, j : j # i /\ (\E y \in Fitting(n) : y.id = j) => \E y \in Fitting(n)' : y.id = j
    BY DEF Fitting
  <2> QED
    BY <2>1, <2>2 DEF FirstInv, First, Ours
<1> QED
  BY <1>1, <1>2, <1>3, <1>4

(* Others remove a library, and its name is theirs from then on.           *)
LEMMA Removal ==
  ASSUME KInv, NEW x \in libs, libs' = libs \ {x}, next' = next,
         gone' = gone \cup {x.name}, UNCHANGED <<late, pc, listed, managed>>
  PROVE  KInv'
<1> USE DEF KInv
<1>1. Typed'
  BY DEF Typed
<1>2. \A n \in Ours' : n \in Ours /\ Fitting(n)' = Fitting(n)
  BY DEF Ours, Fitting
<1>3. LateInv'
  BY <1>2 DEF LateInv, UnderDeletion, Superfluous, Present
<1>4. ListInv'
  BY DEF ListInv
<1>5. FirstInv'
  <2> SUFFICES ASSUME pc = "ensure", NEW i \in DOMAIN Desired, Desired[i] \in Ours'
               PROVE IF i <= Len(managed)
                     THEN /\ Safe(managed[i])'
                          /\ \E y \in Fitting(Desired[i])' : y.id = managed[i]
                          /\ \A z \in listed : z.name = Desired[i] => managed[i] <= z.id
                     ELSE \A z \in First(Desired[i]) : Safe(z.id)'
    BY DEF FirstInv, First
  <2>1. CASE i <= Len(managed)
    <3>1. /\ Safe(managed[i])
          /\ \E y \in Fitting(Desired[i]) : y.id = managed[i]
          /\ \A z \in listed : z.name = Desired[i] => managed[i] <= z.id
      BY <1>2, <2>1 DEF FirstInv
    <3>2. \E y \in libs' : y.id = managed[i]
      BY <3>1, <1>2 DEF Fitting
    <3> QED
      BY <3>1, <3>2, <1>2, <2>1 DEF Safe, UnderDeletion
  <2>2. CASE ~(i <= Len(managed))
    <3> SUFFICES ASSUME NEW z \in First(Desired[i]) PROVE Safe(z.id)'
      BY <2>2
    <3>1. Safe(z.id)
      BY <1>2, <2>2 DEF FirstInv
    <3>2. PICK y \in libs : y.id = z.id
      BY <3>1 DEF Safe
    <3>3. y.name = Desired[i]
      BY <3>2 DEF First, ListInv
    <3>4. y \in libs'
      BY <3>3 DEF Ours
    <3> QED
      BY <3>1, <3>2, <3>4 DEF Safe, UnderDeletion
  <2> QED
    BY <2>1, <2>2
<1> QED
  BY <1>1, <1>3, <1>4, <1>5
-----------------------------------------------------------------------------
(* The first list read is the list there is.                               *)
LEMMA ReadingKeeps == KInv /\ ReadLibraries => KInv'
<1> SUFFICES ASSUME KInv, ReadLibraries PROVE KInv'
  OBVIOUS
<1> USE DEF KInv
<1>1. /\ UNCHANGED <<libs, next, gone, late, managed>>
      /\ pc' = "ensure" /\ listed' = libs /\ managed = <<>>
  BY DEF ReadLibraries, Reads, orbit, bounds, Typed
<1>2. Typed'
  BY <1>1 DEF Typed
<1>3. LateInv'
  BY <1>1 DEF LateInv, UnderDeletion, Superfluous, Present, Ours, Fitting
<1>4. ListInv'
  BY <1>1 DEF ListInv, Typed
<1>5. FirstInv'
  <2> SUFFICES ASSUME NEW i \in DOMAIN Desired, Desired[i] \in Ours,
                      NEW x \in libs, x.name = Desired[i],
                      \A y \in libs : y.name = Desired[i] => x.id <= y.id
               PROVE  Safe(x.id)'
    BY <1>1, DesiredNames DEF FirstInv, First, Ours
  <2>1. \A w \in UnderDeletion : w.lib # x.id
    BY DEF LateInv, Superfluous, Fitting, Typed, Libraries
  <2> QED
    BY <1>1, <2>1 DEF Safe, UnderDeletion
<1> QED
  BY <1>2, <1>3, <1>4, <1>5

(* Library i is chosen for the desired name whose turn it is.              *)
LEMMA ChoiceKeeps ==
  ASSUME KInv, Persist, Ensuring, NEW i \in Nat, managed' = Append(managed, i),
         UNCHANGED <<pc, listed, late>>,
         Turn \in Ours => /\ Safe(i)'
                          /\ \E y \in libs' : y.name = Turn /\ y.fits /\ y.id = i
                          /\ \A z \in listed : z.name = Turn => i <= z.id
  PROVE  KInv'
<1> USE DEF KInv, Persist
<1>1. Typed'
  BY DEF Typed, Ensuring
<1>2. LateInv'
  BY Persistence DEF LateInv, UnderDeletion
<1>3. ListInv'
  BY DEF ListInv, Typed, Libraries
<1>4. FirstInv'
  <2>1. \A j : Safe(j) => Safe(j)'
    BY DEF Safe, UnderDeletion
  <2>2. \A n, j : (\E y \in Fitting(n) : y.id = j) => \E y \in Fitting(n)' : y.id = j
    BY DEF Fitting
  <2>3. Ours' = Ours /\ \A n : First(n)' = First(n)
    BY DEF Ours, First
  <2>4. /\ Len(managed') = Len(managed) + 1
        /\ managed'[Len(managed) + 1] = i
        /\ \A k \in 1..Len(managed) : managed'[k] = managed[k]
        /\ Len(managed) \in Nat
    BY DEF Typed
  <2> HIDE DEF KInv, Persist
  <2> SUFFICES ASSUME pc = "ensure", NEW k \in DOMAIN Desired, Desired[k] \in Ours
               PROVE IF k <= Len(managed')
                     THEN /\ Safe(managed[k])'
                          /\ \E y \in Fitting(Desired[k])' : y.id = managed'[k]
                          /\ \A z \in listed : z.name = Desired[k] => managed'[k] <= z.id
                     ELSE \A x \in First(Desired[k]) : Safe(x.id)'
    BY <2>3 DEF FirstInv, Safe
  <2>5. k \in Nat \ {0}
    BY DesiredNames
  <2>6. CASE k <= Len(managed)
    <3>1. /\ Safe(managed[k])
          /\ \E y \in Fitting(Desired[k]) : y.id = managed[k]
          /\ \A z \in listed : z.name = Desired[k] => managed[k] <= z.id
      BY <2>6 DEF FirstInv, KInv
    <3>2. managed'[k] = managed[k] /\ k <= Len(managed')
      BY <2>4, <2>5, <2>6
    <3>3. Safe(managed[k])'
      BY <3>1, <3>2, <2>1 DEF Safe
    <3>4. \E y \in Fitting(Desired[k])' : y.id = managed'[k]
      BY <3>1, <3>2, <2>2
    <3> QED
      BY <3>1, <3>2, <3>3, <3>4
  <2>7. CASE k = Len(managed) + 1
    <3>1. Desired[k] = Turn /\ managed'[k] = i /\ k <= Len(managed')
      BY <2>4, <2>5, <2>7 DEF Turn
    <3>2. Safe(managed[k])'
      BY <3>1 DEF Safe
    <3>3. \E y \in Fitting(Desired[k])' : y.id = managed'[k]
      BY <3>1 DEF Fitting
    <3>4. \A z \in listed : z.name = Desired[k] => managed'[k] <= z.id
      BY <3>1
    <3> QED
      BY <3>1, <3>2, <3>3, <3>4
  <2>8. CASE k > Len(managed) + 1
    BY <2>1, <2>3, <2>4, <2>5, <2>8 DEF FirstInv, KInv, Safe
  <2> QED
    BY <2>4, <2>5, <2>6, <2>7, <2>8
<1> QED
  BY <1>1, <1>2, <1>3, <1>4

(* A name without a first library in the list is not in the list.          *)
LEMMA Unlisted == ASSUME KInv, NEW n, First(n) = {} PROVE \A z \in listed : z.name # n
<1> SUFFICES ASSUME NEW z \in listed, z.name = n PROVE FALSE
  OBVIOUS
<1> DEFINE ids == {x.id : x \in {y \in listed : y.name = n}}
<1>1. ids \subseteq Nat /\ ids # {}
  BY DEF KInv, Typed, Libraries
<1>2. PICK i \in ids : \A j \in ids : i <= j
  <2> HIDE DEF ids
  <2>1. PICK i \in ids : \A j \in ids : ~(<<j, i>> \in OpToRel(<, Nat))
    BY <1>1, NatLessThanWellFounded, WFMin
  <2>2. \A j \in ids : ~(j < i) /\ j \in Nat /\ i \in Nat
    BY <2>1, <1>1 DEF OpToRel
  <2> QED
    BY <2>2
<1> QED
  BY <1>2 DEF First

(* The list has no library of the name: the one made has it to itself, and *)
(* no deletion that is under way can mean it.                              *)
LEMMA CreateKeeps == KInv /\ CreateLibrary => KInv' /\ Persist
<1> SUFFICES ASSUME KInv, CreateLibrary PROVE KInv' /\ Persist
  OBVIOUS
<1>1. PICK w \in CreateAsks : Answered(w)
  BY DEF CreateLibrary
<1>2. /\ Ensuring /\ First(Turn) = {}
      /\ UNCHANGED <<pc, listed, late, gone>> /\ managed' = Append(managed, next)
      /\ libs' = libs \cup {[id |-> next, name |-> Turn, fits |-> TRUE, cron |-> TRUE]}
      /\ next' = next + 1
  BY <1>1, Asked DEF Answered, Takes, LibsAfter, bounds, CreateLibrary
<1>3. next \in Nat /\ Turn \in Names
  BY <1>2, DesiredNames DEF KInv, Typed, Turn, Ensuring
<1>. PICK i \in Nat : i = next
  BY <1>3
<1>4. Persist
  BY <1>2, <1>3, Creation
<1>5. \E y \in libs' : y.name = Turn /\ y.fits /\ y.id = i
  <2> DEFINE new == [id |-> next, name |-> Turn, fits |-> TRUE, cron |-> TRUE]
  <2>1. new \in libs' /\ new.name = Turn /\ new.fits /\ new.id = i
    BY <1>2
  <2> QED
    BY <2>1
<1>6. Safe(i)'
  BY <1>2, <1>3, <1>5 DEF Safe, UnderDeletion, KInv, LateInv, Superfluous
<1>7. \A z \in listed : z.name # Turn
  BY <1>2, Unlisted
<1> QED
  BY <1>2, <1>3, <1>4, <1>5, <1>6, <1>7, ChoiceKeeps

(* The first library of the name, if it fits, may be chosen.               *)
LEMMA FirstChosen ==
  ASSUME KInv, Persist, Ensuring, UNCHANGED late, NEW x \in First(Turn), x.fits
  PROVE  /\ x.id \in Nat
         /\ Turn \in Ours => /\ Safe(x.id)'
                             /\ \E y \in libs' : y.name = Turn /\ y.fits /\ y.id = x.id
                             /\ \A z \in listed : z.name = Turn => x.id <= z.id
<1>1. x \in listed /\ x.name = Turn /\ x.id \in Nat
      /\ \A z \in listed : z.name = Turn => x.id <= z.id
  BY DEF First, KInv, Typed, Libraries
<1>2. ASSUME Turn \in Ours
      PROVE  Safe(x.id)' /\ \E y \in libs' : y.name = Turn /\ y.fits /\ y.id = x.id
  <2> DEFINE k == Len(managed) + 1
  <2>1. k \in DOMAIN Desired /\ ~(k <= Len(managed)) /\ Desired[k] = Turn /\ pc = "ensure"
    BY DesiredNames DEF KInv, Typed, Ensuring, Turn
  <2>2. Safe(x.id)
    BY <1>2, <2>1 DEF KInv, FirstInv
  <2>3. PICK y \in libs : y.id = x.id
    BY <2>2 DEF Safe
  <2>4. y.name = Turn /\ y.fits
    BY <1>1, <2>3 DEF KInv, ListInv
  <2> QED
    BY <2>2, <2>3, <2>4 DEF Safe, UnderDeletion, Persist
<1> QED
  BY <1>1, <1>2

(* A patch leaves every library in place.                                  *)
LEMMA PatchKeeps == KInv /\ PatchLibrary => KInv' /\ Persist
<1> SUFFICES ASSUME KInv, PatchLibrary PROVE KInv' /\ Persist
  OBVIOUS
<1>1. PICK w \in PatchAsks : Answered(w) /\ managed' = Append(managed, w.lib)
  BY DEF PatchLibrary
<1>2. PICK x \in First(Turn) : x.fits /\ w.lib = x.id
  BY <1>1, Asked
<1>3. w.op = "patch" /\ Ensuring
  BY <1>1, Asked
<1>4. UNCHANGED <<pc, listed, late, gone, next>> /\ libs' = LibsAfter(w)
  BY <1>1, <1>3 DEF Answered, Takes, bounds, PatchLibrary
<1>5. libs' = {IF y.id = w.lib THEN [y EXCEPT !.cron = TRUE] ELSE y : y \in libs}
  BY <1>3, <1>4 DEF LibsAfter
<1>6. Persist
  BY <1>4, <1>5, Patching
<1> QED
  BY <1>1, <1>2, <1>3, <1>4, <1>6, FirstChosen, ChoiceKeeps

(* To keep a library that there is changes none.                           *)
LEMMA KeepKeeps == KInv /\ KeepLibrary => KInv'
<1> SUFFICES ASSUME KInv, KeepLibrary PROVE KInv'
  OBVIOUS
<1>1. PICK x \in First(Turn) : x.fits /\ managed' = Append(managed, x.id)
  BY DEF KeepLibrary
<1>2. Ensuring /\ UNCHANGED <<pc, listed, late, gone, next, libs>>
  BY DEF KeepLibrary, Reads, orbit, bounds
<1>3. Persist
  BY <1>2 DEF Persist, KInv, Typed
<1> QED
  BY <1>1, <1>2, <1>3, FirstChosen, ChoiceKeeps

(* What is in the list, and not chosen, is younger than what is.           *)
LEMMA DoomedSuperfluous ==
  ASSUME KInv, Deletes, NEW x \in Doomed
  PROVE  Superfluous(x.id) /\ Present
<1>1. /\ x \in listed /\ x.id \in Nat /\ x.id < next
      /\ \A y \in libs : y.id = x.id => y.name = x.name
  BY DEF Doomed, KInv, ListInv, Typed, Libraries
<1>2. \A n \in Ours : \E i \in DOMAIN Desired : Desired[i] = n /\ i \in DOMAIN managed
  BY DesiredNames DEF Ours, Deletes, KInv, Typed
<1>3. \A i \in DOMAIN Desired : Desired[i] \in Ours =>
          /\ \E y \in Fitting(Desired[i]) : y.id = managed[i]
          /\ \A z \in listed : z.name = Desired[i] => managed[i] <= z.id
  BY DesiredNames DEF KInv, FirstInv, Deletes
<1>4. \A i \in DOMAIN managed : managed[i] # x.id /\ managed[i] \in Nat
  BY DEF Doomed, Elems, KInv, Typed
<1>5. Present
  BY <1>2, <1>3 DEF Present
<1>6. ASSUME NEW y \in libs, y.id = x.id, y.name \in Ours
      PROVE  \E z \in Fitting(y.name) : z.id < x.id
  <2>1. PICK i \in DOMAIN Desired : Desired[i] = y.name /\ i \in DOMAIN managed
    BY <1>2, <1>6
  <2>2. managed[i] <= x.id
    BY <1>1, <1>3, <1>6, <2>1
  <2>3. managed[i] < x.id
    BY <1>1, <1>4, <2>1, <2>2
  <2> QED
    BY <1>3, <1>6, <2>1, <2>3
<1> QED
  BY <1>1, <1>5, <1>6 DEF Superfluous

(* What the run deletes is not what it chose to keep.                      *)
LEMMA DeleteKeeps == KInv /\ DeleteLibrary => KInv'
<1> SUFFICES ASSUME KInv, DeleteLibrary PROVE KInv'
  OBVIOUS
<1>1. PICK w \in DeleteAsks : Answered(w) /\ listed' = {z \in listed : z.id # w.lib}
  BY DEF DeleteLibrary
<1>2. w.op = "delete" /\ Deletes /\ \E x \in Doomed : w.lib = x.id
  BY <1>1, Asked
<1>3. PICK x \in Doomed : w.lib = x.id
  BY <1>2
<1>4. UNCHANGED <<pc, managed, late, gone, next>> /\ libs' = {y \in libs : y.id # x.id}
  BY <1>1, <1>2, <1>3 DEF Answered, Takes, LibsAfter, bounds, DeleteLibrary
<1>5. Superfluous(x.id) /\ Present
  BY <1>2, DoomedSuperfluous
<1>6. Typed'
  BY <1>1, <1>2, <1>4 DEF KInv, Typed, Deletes
<1>7. LateInv'
  BY <1>4, <1>5, Deletion DEF KInv, LateInv, UnderDeletion
<1>8. ListInv'
  BY <1>1, <1>3, <1>4 DEF KInv, ListInv
<1>9. FirstInv'
  <2>1. \A i \in DOMAIN Desired : i <= Len(managed) /\ managed[i] # x.id
    BY <1>2, DesiredNames DEF Deletes, Doomed, Elems, KInv, Typed
  <2>2. \A i : Safe(i) /\ i # x.id => Safe(i)'
    BY <1>4 DEF Safe, UnderDeletion
  <2>3. \A n, i : i # x.id /\ (\E y \in Fitting(n) : y.id = i) => \E y \in Fitting(n)' : y.id = i
    BY <1>4 DEF Fitting
  <2>4. \A i \in DOMAIN Desired : Desired[i] \in Ours =>
            /\ Safe(managed[i])
            /\ \E y \in Fitting(Desired[i]) : y.id = managed[i]
            /\ \A z \in listed : z.name = Desired[i] => managed[i] <= z.id
    BY <1>2, <2>1 DEF KInv, FirstInv, Deletes
  <2>5. Ours' = Ours /\ listed' \subseteq listed
    BY <1>1, <1>4 DEF Ours
  <2> SUFFICES ASSUME NEW i \in DOMAIN Desired, Desired[i] \in Ours
               PROVE  /\ Safe(managed[i])'
                      /\ \E y \in Fitting(Desired[i])' : y.id = managed[i]
                      /\ \A z \in listed' : z.name = Desired[i] => managed[i] <= z.id
    BY <1>4, <2>1, <2>5 DEF FirstInv
  <2>6. Safe(managed[i])'
    BY <1>4, <2>1, <2>2, <2>4 DEF Safe
  <2> QED
    BY <2>1, <2>3, <2>4, <2>5, <2>6
<1> QED
  BY <1>6, <1>7, <1>8, <1>9 DEF KInv

(* A run that fails may leave a deletion under way, of what may go.        *)
LEMMA FailureKeeps == KInv /\ Fails => KInv'
<1> SUFFICES ASSUME KInv, Fails PROVE KInv'
  OBVIOUS
<1>1. /\ UNCHANGED <<libs, next, gone>>
      /\ pc' # "ensure" /\ listed' = {} /\ managed' = <<>>
      /\ \A w \in late' : w \in late \/ w \in Asks
  BY DEF Fails, End, orbit
<1>2. \A w \in Asks : w.op = "delete" => w \in DeleteAsks
  BY Asked DEF Asks
<1>3. \A w \in DeleteAsks : Superfluous(w.lib) /\ Present
  BY Asked, DoomedSuperfluous
<1>4. \A w \in Asks : w.op = "create" => w.name \in Names
  BY Asked, DesiredNames DEF Asks, Turn, Ensuring, KInv, Typed
<1>5. LateInv'
  BY <1>1, <1>2, <1>3, <1>4 DEF KInv, LateInv, UnderDeletion, Superfluous, Present, Ours, Fitting
<1>6. Typed' /\ ListInv' /\ FirstInv'
  BY <1>1, DesiredNames DEF KInv, Typed, ListInv, FirstInv
<1> QED
  BY <1>5, <1>6 DEF KInv

(* A request that timed out takes effect, or never does.                   *)
LEMMA LateKeeps == ASSUME KInv, NEW w \in late, Land(w) \/ Vanish(w) PROVE KInv'
<1>1. CASE Land(w) /\ w.op = "delete"
  <2>1. /\ libs' = {x \in libs : x.id # w.lib} /\ UNCHANGED <<next, gone>>
        /\ late' \subseteq late /\ UNCHANGED <<pc, listed, managed>>
    BY <1>1 DEF Land, Takes, LibsAfter, libVars, bounds
  <2>2. w \in UnderDeletion
    BY <1>1 DEF UnderDeletion
  <2>3. Superfluous(w.lib) /\ Present
    BY <2>2 DEF KInv, LateInv
  <2> QED
    BY <2>1, <2>2, <2>3, LandedDeletion
<1>2. CASE Land(w) /\ w.op = "create"
  <2>1. /\ libs' = libs \cup {[id |-> next, name |-> w.name, fits |-> TRUE, cron |-> TRUE]}
        /\ next' = next + 1 /\ gone' = gone
        /\ late' \subseteq late /\ UNCHANGED <<pc, listed, managed>>
    BY <1>2 DEF Land, Takes, LibsAfter, libVars, bounds
  <2>2. w.name \in Names
    BY <1>2 DEF KInv, LateInv
  <2> QED
    BY <2>1, <2>2, Creation, PersistKeeps
<1>3. CASE Land(w) /\ w.op = "patch"
  <2>1. /\ UNCHANGED <<next, gone, pc, listed, managed>>
        /\ late' \subseteq late /\ libs' = LibsAfter(w)
    BY <1>3 DEF Land, Takes, libVars, bounds
  <2>2. libs' = {IF x.id = w.lib THEN [x EXCEPT !.cron = TRUE] ELSE x : x \in libs}
    BY <1>3, <2>1 DEF LibsAfter
  <2> QED
    BY <2>1, <2>2, Patching, PersistKeeps
<1>4. CASE Vanish(w) \/ (Land(w) /\ w.op \notin {"create", "patch", "delete"})
  <2>1. UNCHANGED <<libs, next, gone, pc, listed, managed>> /\ late' \subseteq late
    BY <1>4, OtherRequest DEF Land, Vanish, orbit, libVars, bounds
  <2>2. Persist
    BY <2>1 DEF Persist, KInv, Typed
  <2> QED
    BY <2>1, <2>2, PersistKeeps
<1> QED
  BY <1>1, <1>2, <1>3, <1>4

(* Others add a library, remove one, or change something else.             *)
LEMMA ChangeKeeps == KInv /\ Change => KInv'
<1> SUFFICES ASSUME KInv, Change PROVE KInv'
  OBVIOUS
<1>1. UNCHANGED <<late, pc, listed, managed>>
  BY DEF Change, libVars
<1>2. CASE \E n \in Names, fits \in BOOLEAN :
              /\ libs' = libs \cup {[id |-> next, name |-> n, fits |-> fits, cron |-> FALSE]}
              /\ next' = next + 1 /\ gone' = gone
  BY <1>1, <1>2, Creation, PersistKeeps
<1>3. CASE \E x \in libs : libs' = libs \ {x} /\ next' = next /\ gone' = gone \cup {x.name}
  BY <1>1, <1>3, Removal
<1>4. CASE UNCHANGED <<libs, next, gone>>
  <2>1. Persist
    BY <1>4 DEF Persist, KInv, Typed
  <2> QED
    BY <1>1, <2>1, PersistKeeps
<1>5. \/ UNCHANGED <<libs, next, gone>>
      \/ \E n \in Names, fits \in BOOLEAN :
            /\ libs' = libs \cup {[id |-> next, name |-> n, fits |-> fits, cron |-> FALSE]}
            /\ next' = next + 1 /\ gone' = gone
      \/ \E x \in libs : libs' = libs \ {x} /\ next' = next /\ gone' = gone \cup {x.name}
  BY DEF Change
<1> QED
  BY <1>2, <1>3, <1>4, <1>5

(* The other steps of a run: they leave the libraries alone.               *)
LEMMA OtherSteps ==
  ASSUME KInv, Start \/ Run \/ SetUpFails \/ SelfUpdate,
         ~ReadLibraries, ~CreateLibrary, ~PatchLibrary, ~KeepLibrary, ~DeleteLibrary
  PROVE  KInv' /\ UNCHANGED <<libs, next, gone>>
<1> USE DEF orbit, bounds, libVars, Reads
<1>0. pc # "ensure" => listed = {} /\ managed = <<>>
  BY DEF KInv, Typed
<1>1. \A w : Answered(w) /\ w.op \notin {"create", "patch", "delete"}
              => UNCHANGED <<libs, next, late, gone>>
  BY OtherRequest DEF Answered
<1>2. CASE Start
  BY <1>0, <1>2, Elsewhere DEF Start
<1>3. CASE ReadStatus
  BY <1>0, <1>3, Elsewhere DEF ReadStatus
<1>4. CASE Recheck
  BY <1>0, <1>4, Elsewhere DEF Recheck, End
<1>5. CASE ReadGroup
  BY <1>0, <1>5, Elsewhere DEF ReadGroup
<1>6. CASE KeepEntry
  BY <1>0, <1>6, Elsewhere DEF KeepEntry
<1>7. CASE RefuseEntry
  BY <1>0, <1>7, Elsewhere DEF RefuseEntry, End
<1>8. CASE LeaveGroup
  BY <1>0, <1>8, Elsewhere DEF LeaveGroup, End
<1>9. CASE RefuseLibrary
  BY <1>0, <1>9, Elsewhere DEF RefuseLibrary, End
<1>10. CASE LeaveLibraries
  BY <1>0, <1>10, Elsewhere DEF LeaveLibraries
<1>11. CASE ReadDefaults
  BY <1>0, <1>11, Elsewhere DEF ReadDefaults
<1>12. CASE ReadAccess
  BY <1>0, <1>12, Elsewhere DEF ReadAccess
<1>13. CASE ReadPage
  BY <1>0, <1>13, Elsewhere DEF ReadPage
<1>14. CASE KeepAccess
  BY <1>0, <1>14, Elsewhere DEF KeepAccess
<1>15. CASE NextPage
  BY <1>0, <1>15, Elsewhere DEF NextPage
<1>16. CASE LastPage
  BY <1>0, <1>16, Elsewhere DEF LastPage
<1>17. CASE LeaveAccess
  BY <1>0, <1>17, Elsewhere DEF LeaveAccess
<1>18. CASE ReadPlugin
  BY <1>0, <1>18, Elsewhere DEF ReadPlugin
<1>19. CASE NoUpdates
  BY <1>0, <1>19, Elsewhere DEF NoUpdates
<1>20. CASE KeepPlugin
  BY <1>0, <1>20, Elsewhere DEF KeepPlugin
<1>21. CASE Rejected
  BY <1>0, <1>21, Elsewhere DEF Rejected, End
<1>22. CASE SelfUpdate
  <2>1. UNCHANGED <<libs, next, gone, late, pc, listed, managed>>
    BY <1>22 DEF SelfUpdate
  <2>2. Persist
    BY <2>1 DEF Persist, KInv, Typed
  <2> QED
    BY <2>1, <2>2, PersistKeeps
<1>23. CASE SetUpRefused
  <2>1. pc # "ensure"
    BY <1>23, Asked DEF SetUpRefused
  <2>2. /\ UNCHANGED <<libs, next, gone, listed, managed>> /\ pc' = "recheck"
        /\ late' \subseteq late
    BY <1>23 DEF SetUpRefused
  <2> QED
    BY <1>0, <2>1, <2>2, Elsewhere
<1>24. CASE SetUpFails
  <2>1. pc # "ensure"
    BY <1>24, Asked DEF SetUpFails
  <2>2. /\ UNCHANGED <<libs, next, gone, listed, managed>> /\ pc' = "recheck"
        /\ \A w \in late' : w \in late \/ w \in SetupAsks
    BY <1>24 DEF SetUpFails
  <2> QED
    BY <1>0, <2>1, <2>2, Asked, Elsewhere
<1>25. CASE SetUp
  <2>1. PICK w \in SetupAsks : Answered(w)
    BY <1>25 DEF SetUp
  <2>2. UNCHANGED <<libs, next, late, gone>>
    BY <1>1, <2>1, Asked
  <2>3. pc # "ensure"
    BY <2>1, Asked
  <2> QED
    BY <1>0, <1>25, <2>2, <2>3, Elsewhere DEF SetUp
<1>26. CASE WriteEntry
  <2>1. PICK w \in EntryAsks : Answered(w)
    BY <1>26 DEF WriteEntry
  <2>2. UNCHANGED <<libs, next, late, gone>>
    BY <1>1, <2>1, Asked
  <2>3. pc # "ensure"
    BY <2>1, Asked
  <2> QED
    BY <1>0, <1>26, <2>2, <2>3, Elsewhere DEF WriteEntry
<1>27. CASE AddDefault
  <2>1. PICK w \in DefaultAsks : Answered(w)
    BY <1>27 DEF AddDefault
  <2>2. UNCHANGED <<libs, next, late, gone>>
    BY <1>1, <2>1, Asked
  <2>3. pc # "ensure"
    BY <2>1, Asked
  <2> QED
    BY <1>0, <1>27, <2>2, <2>3, Elsewhere DEF AddDefault
<1>28. CASE SetAccess
  <2>1. PICK w \in UserAsks : Answered(w)
    BY <1>28 DEF SetAccess
  <2>2. UNCHANGED <<libs, next, late, gone>>
    BY <1>1, <2>1, Asked
  <2>3. pc # "ensure"
    BY <2>1, Asked
  <2> QED
    BY <1>0, <1>28, <2>2, <2>3, Elsewhere DEF SetAccess
<1>29. CASE StopUpdates
  <2>1. PICK w \in ChannelAsks : Answered(w)
    BY <1>29 DEF StopUpdates
  <2>2. UNCHANGED <<libs, next, late, gone>>
    BY <1>1, <2>1, Asked
  <2>3. pc # "ensure"
    BY <2>1, Asked
  <2> QED
    BY <1>0, <1>29, <2>2, <2>3, Elsewhere DEF StopUpdates
<1>30. CASE Upload
  <2>1. PICK w \in UploadAsks : Answered(w)
    BY <1>30 DEF Upload
  <2>2. UNCHANGED <<libs, next, late, gone>>
    BY <1>1, <2>1, Asked
  <2>3. pc # "ensure"
    BY <2>1, Asked
  <2> QED
    BY <1>0, <1>30, <2>2, <2>3, Elsewhere DEF Upload
<1>31. CASE KeepManual
  <2>1. PICK w \in ManualAsks : Answered(w)
    BY <1>31 DEF KeepManual
  <2>2. UNCHANGED <<libs, next, late, gone>>
    BY <1>1, <2>1, Asked
  <2>3. pc # "ensure"
    BY <2>1, Asked
  <2> QED
    BY <1>0, <1>31, <2>2, <2>3, Elsewhere DEF KeepManual
<1> QED
  BY <1>2, <1>3, <1>4, <1>5, <1>6, <1>7, <1>8, <1>9, <1>10, <1>11, <1>12,
     <1>13, <1>14, <1>15, <1>16, <1>17, <1>18, <1>19, <1>20, <1>21, <1>22,
     <1>23, <1>24, <1>25, <1>26, <1>27, <1>28, <1>29, <1>30, <1>31 DEF Run

(* The reconciler's invariant.                                             *)
THEOREM Invariance == Spec => []KInv
<1>1. KInv /\ [Next]_vars => KInv'
  <2> SUFFICES ASSUME KInv, [Next]_vars PROVE KInv'
    OBVIOUS
  <2>1. CASE Start \/ Run \/ SetUpFails \/ SelfUpdate
    BY <2>1, OtherSteps, ReadingKeeps, CreateKeeps, PatchKeeps, KeepKeeps, DeleteKeeps
  <2>2. CASE Fails
    BY <2>2, FailureKeeps
  <2>3. CASE \E w \in late : Land(w) \/ Vanish(w)
    BY <2>3, LateKeeps
  <2>4. CASE Change
    BY <2>4, ChangeKeeps
  <2>5. CASE UNCHANGED vars
    <3>1. UNCHANGED <<libs, next, gone, late, pc, listed, managed>>
      BY <2>5 DEF vars, orbit, libVars, bounds
    <3>2. Persist
      BY <3>1 DEF Persist, KInv, Typed
    <3> QED
      BY <3>1, <3>2, PersistKeeps
  <2> QED
    BY <2>1, <2>2, <2>3, <2>4, <2>5 DEF Next
<1> QED
  BY <1>1, Initially, PTL DEF Spec

Count == changes \in Nat

(* The changes made by others are a number in every reachable state.       *)
LEMMA Counted == Spec => []Count
<1> USE DEF Count
<1>1. Count /\ [Next]_vars => Count'
  <2> SUFFICES ASSUME Count, [Next]_vars PROVE Count'
    OBVIOUS
  <2>1. CASE Run
    <3> USE DEF Reads, Answered, bounds
    <3>1. CASE ReadStatus \/ SetUp \/ SetUpRefused \/ Recheck \/ ReadGroup \/ WriteEntry
                   \/ KeepEntry \/ RefuseEntry \/ LeaveGroup \/ Rejected
      BY <3>1 DEF ReadStatus, SetUp, SetUpRefused, Recheck, ReadGroup, WriteEntry,
                  KeepEntry, RefuseEntry, LeaveGroup, Rejected
    <3>2. CASE ReadLibraries \/ CreateLibrary \/ PatchLibrary \/ KeepLibrary \/ RefuseLibrary
                   \/ DeleteLibrary \/ LeaveLibraries
      BY <3>2 DEF ReadLibraries, CreateLibrary, PatchLibrary, KeepLibrary, RefuseLibrary,
                  DeleteLibrary, LeaveLibraries
    <3>3. CASE ReadDefaults \/ AddDefault \/ ReadAccess \/ ReadPage \/ SetAccess \/ KeepAccess
                   \/ NextPage \/ LastPage \/ LeaveAccess
      BY <3>3 DEF ReadDefaults, AddDefault, ReadAccess, ReadPage, SetAccess, KeepAccess,
                  NextPage, LastPage, LeaveAccess
    <3>4. CASE ReadPlugin \/ StopUpdates \/ NoUpdates \/ Upload \/ KeepManual \/ KeepPlugin
      BY <3>4 DEF ReadPlugin, StopUpdates, NoUpdates, Upload, KeepManual, KeepPlugin
    <3> QED
      BY <2>1, <3>1, <3>2, <3>3, <3>4 DEF Run
  <2>2. CASE Start \/ SetUpFails \/ Fails \/ SelfUpdate \/ Change
    BY <2>2 DEF Start, SetUpFails, Fails, SelfUpdate, Change, Reads, bounds
  <2>3. CASE \E w \in late : Land(w) \/ Vanish(w)
    BY <2>3 DEF Land, Vanish, bounds
  <2>4. CASE UNCHANGED vars
    BY <2>4 DEF vars, bounds
  <2> QED
    BY <2>1, <2>2, <2>3, <2>4 DEF Next
<1>2. Init => Count
  BY DEF Init
<1> HIDE DEF Count
<1> QED
  BY <1>1, <1>2, PTL DEF Spec

(* A step that is not a change by others and after which a library is      *)
(* missing is a deletion by the script, now or late, of what may go.       *)
LEMMA WhoDeletes ==
  ASSUME KInv, Count, Next, changes' = changes,
         NEW x \in libs, \A y \in libs' : y.id # x.id
  PROVE  /\ \E i : Superfluous(i) /\ libs' = {y \in libs : y.id # i}
         /\ Present /\ UNCHANGED <<next, gone>>
<1> USE DEF orbit, bounds
<1>1. /\ ~Persist
      /\ ~(UNCHANGED <<libs, next, gone>>)
  BY DEF Persist, KInv, Typed
<1>2. CASE \E w \in late : Land(w)
  <2>1. PICK w \in late : Land(w)
    BY <1>2
  <2>2. libs' = LibsAfter(w) /\ gone' = gone /\ next' = IF w.op = "create" THEN next + 1 ELSE next
    BY <2>1 DEF Land, Takes
  <2>3. w.op = "delete"
    <3>1. CASE w.op = "create"
      BY <1>1, <2>2, <3>1, Creation DEF LibsAfter, KInv, LateInv
    <3>2. CASE w.op = "patch"
      <4>1. libs' = {IF y.id = w.lib THEN [y EXCEPT !.cron = TRUE] ELSE y : y \in libs}
        BY <2>2, <3>2 DEF LibsAfter
      <4> QED
        BY <1>1, <2>2, <3>2, <4>1, Patching
    <3>3. CASE w.op \notin {"create", "patch", "delete"}
      BY <1>1, <2>1, <2>2, <3>3, OtherRequest DEF Land
    <3> QED
      BY <3>1, <3>2, <3>3
  <2>4. Superfluous(w.lib) /\ Present
    BY <2>3 DEF KInv, LateInv, UnderDeletion
  <2> QED
    BY <2>2, <2>3, <2>4 DEF LibsAfter
<1>3. CASE DeleteLibrary
  <2>1. PICK w \in DeleteAsks : Answered(w)
    BY <1>3 DEF DeleteLibrary
  <2>2. w.op = "delete" /\ Superfluous(w.lib) /\ Present
    BY <2>1, Asked, DoomedSuperfluous
  <2> QED
    BY <2>1, <2>2 DEF Answered, Takes, LibsAfter
<1>4. CASE Start \/ Run \/ SetUpFails \/ SelfUpdate
  <2>1. ~ReadLibraries /\ ~KeepLibrary
    BY <1>1 DEF ReadLibraries, KeepLibrary, Reads
  <2>2. ~CreateLibrary /\ ~PatchLibrary
    BY <1>1, CreateKeeps, PatchKeeps
  <2> QED
    BY <1>1, <1>3, <1>4, <2>1, <2>2, OtherSteps
<1>5. CASE Fails \/ \E w \in late : Vanish(w)
  BY <1>1, <1>5 DEF Fails, Vanish
<1>6. ~Change
  BY DEF Change, Count
<1> QED
  BY <1>2, <1>3, <1>4, <1>5, <1>6 DEF Next

(* Whatever the script deletes, however late, every desired library is     *)
(* there before and after, unless others removed one of that name: proved  *)
(* for any number of libraries, runs, failures and changes.                *)
THEOREM Kept == Spec => ManagedKept
<1>1. ASSUME KInv, Count, [Next]_vars
      PROVE  [changes' = changes /\ (\E x \in libs : \A y \in libs' : y.id # x.id) =>
                 \A n \in Elems(Desired) : n \in gone \/ \E y \in libs' : y.name = n /\ y.fits]_vars
  <2> SUFFICES ASSUME Next, changes' = changes, NEW x \in libs, \A y \in libs' : y.id # x.id,
                      NEW n \in Elems(Desired), n \notin gone
               PROVE  \E y \in libs' : y.name = n /\ y.fits
    BY <1>1
  <2>1. PICK i : Superfluous(i) /\ libs' = {y \in libs : y.id # i}
    BY <1>1, WhoDeletes
  <2>2. Present'
    BY <1>1, <2>1, WhoDeletes, Deletion
  <2>3. gone' = gone
    BY <1>1, WhoDeletes
  <2> QED
    BY <2>2, <2>3 DEF Present, Ours, Fitting
<1> QED
  BY <1>1, Invariance, Counted, PTL DEF Spec, ManagedKept
-----------------------------------------------------------------------------
(* The types, one group of variables after another, with what keeps them:  *)
(* where the run is tells which of its variables are in use, and a user is *)
(* on the roster once, so that the pages end.                              *)
OrbitTypes ==
    /\ libs \subseteq Libraries /\ next \in Nat
    /\ \A x \in libs : x.id < next
    /\ \A x, y \in libs : x.id = y.id => x = y
    /\ access \subseteq Rows
    /\ \A r, s \in access : r.lib = s.lib /\ r.user = s.user => r = s
    /\ defaults \subseteq Nat
    /\ conf \in Confs
    /\ \A i, j \in DOMAIN conf.roster : conf.roster[i] = conf.roster[j] => i = j

Early == {"idle", "status", "setup", "recheck"}
Providing == {"add", "access", "page", "user"}

EntryTypes ==
    /\ group \in 0..Len(Groups)
    /\ pc \notin Early => group # 0
    /\ found \in [Entries -> Seq(Copies)]
    /\ left \in Seq(Entries)

LibTypes ==
    /\ listed \subseteq Libraries
    /\ managed \in Seq(Nat) /\ Len(managed) <= Len(Desired)
    /\ todo \in Seq(Nat)
    /\ pc \in Providing => todo # <<>>

AccessTypes ==
    /\ defs \subseteq Nat
    /\ rights \subseteq Rows
    /\ page \in Nat /\ (page = 0 \/ page * PageSize < Cardinality(Users))
    /\ onpage \in Seq([user : Users, role : Roles])
    /\ more \in BOOLEAN
    /\ more => pc = "user" /\ (page + 1) * PageSize < Cardinality(Users)

RestTypes ==
    /\ late \subseteq Requests
    /\ plug \in [adapter : BOOLEAN, auto : BOOLEAN]
    /\ gone \subseteq Names /\ extra \subseteq Entries
    /\ faults \in 0..MaxTroubles /\ changes \in 0..MaxChanges

TInv == OrbitTypes /\ EntryTypes /\ LibTypes /\ AccessTypes /\ RestTypes

(* With a new library identifiers stay unique and below the next one.      *)
LEMMA NewLibrary ==
  ASSUME NEW i \in Nat, NEW n \in Names, NEW fits \in BOOLEAN, NEW cron \in BOOLEAN,
         libs \subseteq Libraries, i = next,
         \A x \in libs : x.id < i,
         \A x, y \in libs : x.id = y.id => x = y,
         libs' = libs \cup {[id |-> i, name |-> n, fits |-> fits, cron |-> cron]},
         next' = i + 1
  PROVE  /\ libs' \subseteq Libraries /\ next' \in Nat
         /\ \A x \in libs' : x.id < next'
         /\ \A x, y \in libs' : x.id = y.id => x = y
<1> DEFINE new == [id |-> i, name |-> n, fits |-> fits, cron |-> cron]
<1>1. new \in Libraries /\ new.id = i
  BY DEF Libraries
<1>2. \A x \in Libraries : x.id \in Nat
  BY DEF Libraries
<1>3. libs' = libs \cup {new}
  OBVIOUS
<1> HIDE DEF new
<1>4. \A x \in libs' : x.id < next'
  BY <1>1, <1>2, <1>3
<1>5. \A x, y \in libs' : x.id = y.id => x = y
  BY <1>1, <1>2, <1>3
<1> QED
  BY <1>1, <1>3, <1>4, <1>5

(* The parts of a non-empty sequence.                                      *)
LEMMA HeadIn ==
  ASSUME NEW S, NEW t \in Seq(S), t # <<>>
  PROVE  Head(t) \in S /\ Tail(t) \in Seq(S)
OBVIOUS

(* A function on 1..n is a sequence.                                       *)
LEMMA ListOf ==
  ASSUME NEW S, NEW n \in Nat, NEW t \in [1..n -> S]
  PROVE  t \in Seq(S)
OBVIOUS

(* A list of copies stays one when a copy is added or replaced.            *)
LEMMA CopyList ==
  ASSUME NEW s \in Seq(Copies), NEW c \in Copies
  PROVE  /\ Append(s, c) \in Seq(Copies) /\ Standing(s) \subseteq Nat
         /\ \A i : [s EXCEPT ![i] = c] \in Seq(Copies)
<1>1. s \in [1..Len(s) -> Copies] /\ Len(s) \in Nat
  OBVIOUS
<1>2. ASSUME NEW i PROVE [s EXCEPT ![i] = c] \in Seq(Copies)
  <2> DEFINE t == [s EXCEPT ![i] = c]
  <2>1. t \in [1..Len(s) -> Copies]
    BY <1>1
  <2> HIDE DEF t
  <2> QED
    BY <1>1, <2>1, ListOf DEF t
<1>3. Standing(s) \subseteq Nat
  BY <1>1 DEF Standing
<1> QED
  BY <1>2, <1>3

(* What a request of each kind carries.                                    *)
LEMMA RequestFields ==
  ASSUME NEW w \in Requests
  PROVE  /\ w.op \in {"set", "post", "put", "drop"} => w.entry \in Entries
         /\ w.op = "create" => w.name \in Names
         /\ w.op = "defaults" => w.ids \subseteq Nat
         /\ w.op = "grant" => w.row \in Rows
BY DEF Requests

(* The configuration after the plugin's requests is one, and keeps its     *)
(* roster.                                                                 *)
LEMMA ConfWith ==
  ASSUME NEW c \in Confs
  PROVE  /\ [c EXCEPT !.ready = TRUE] \in Confs
         /\ \A b \in BOOLEAN : [c EXCEPT !.auto = b] \in Confs
         /\ [c EXCEPT !.file = "moved"] \in Confs
         /\ [c EXCEPT !.file = "pinned", !.adapter = TRUE] \in Confs
         /\ [c EXCEPT !.file = "none", !.adapter = FALSE, !.auto = FALSE] \in Confs
         /\ [c EXCEPT !.ready = TRUE].roster = c.roster
         /\ \A b \in BOOLEAN : [c EXCEPT !.auto = b].roster = c.roster
         /\ [c EXCEPT !.file = "moved"].roster = c.roster
         /\ [c EXCEPT !.file = "pinned", !.adapter = TRUE].roster = c.roster
         /\ [c EXCEPT !.file = "none", !.adapter = FALSE, !.auto = FALSE].roster = c.roster
BY DEF Confs

(* ... after the requests about entries,                                   *)
LEMMA ConfEntries ==
  ASSUME NEW c \in Confs, NEW E \in [Entries -> Seq(Copies)]
  PROVE  [c EXCEPT !.entries = E] \in Confs /\ [c EXCEPT !.entries = E].roster = c.roster
BY DEF Confs

(* ... after a change of roles,                                            *)
LEMMA ConfRole ==
  ASSUME NEW c \in Confs, NEW f \in [Users -> Roles]
  PROVE  [c EXCEPT !.role = f] \in Confs /\ [c EXCEPT !.role = f].roster = c.roster
BY DEF Confs

(* ... and with another roster.                                            *)
LEMMA ConfRoster ==
  ASSUME NEW c \in Confs, NEW t \in Seq(Users)
  PROVE  [c EXCEPT !.roster = t] \in Confs /\ [c EXCEPT !.roster = t].roster = t
BY DEF Confs

(* What a configuration is made of.                                        *)
LEMMA ConfFields ==
  ASSUME NEW c \in Confs
  PROVE  /\ c.entries \in [Entries -> Seq(Copies)] /\ c.role \in [Users -> Roles]
         /\ c.roster \in Seq(Users) /\ c.adapter \in BOOLEAN /\ c.auto \in BOOLEAN
BY DEF Confs

(* Whatever request BookOrbit accepts.                                     *)
LEMMA TakesTypes ==
  ASSUME OrbitTypes, NEW w \in Requests, Takes(w)
  PROVE  OrbitTypes'
<1>1. /\ libs' \subseteq Libraries /\ next' \in Nat
      /\ \A x \in libs' : x.id < next'
      /\ \A x, y \in libs' : x.id = y.id => x = y
  <2>1. CASE w.op = "create"
    <3>1. libs' = libs \cup {[id |-> next, name |-> w.name, fits |-> TRUE, cron |-> TRUE]}
          /\ next' = next + 1
      BY <2>1 DEF Takes, LibsAfter
    <3>2. w.name \in Names
      BY <2>1, RequestFields
    <3> QED
      BY <3>1, <3>2, NewLibrary DEF OrbitTypes
  <2>2. CASE w.op = "patch"
    <3>1. libs' = {IF x.id = w.lib THEN [x EXCEPT !.cron = TRUE] ELSE x : x \in libs}
          /\ next' = next
      BY <2>2 DEF Takes, LibsAfter
    <3>2. ASSUME NEW x \in Libraries
          PROVE  [x EXCEPT !.cron = TRUE] \in Libraries /\ [x EXCEPT !.cron = TRUE].id = x.id
      BY DEF Libraries
    <3>3. \A z \in libs' : \E x \in libs : /\ z.id = x.id /\ z \in Libraries
                                         /\ z = IF x.id = w.lib THEN [x EXCEPT !.cron = TRUE] ELSE x
      BY <3>1, <3>2 DEF OrbitTypes
    <3>4. \A x, y \in libs : x.id = y.id => x = y
      BY DEF OrbitTypes
    <3>5. ASSUME NEW y \in libs', NEW z \in libs', y.id = z.id
          PROVE  y = z
      <4>1. PICK u \in libs : /\ y.id = u.id
                              /\ y = IF u.id = w.lib THEN [u EXCEPT !.cron = TRUE] ELSE u
        BY <3>3
      <4>2. PICK v \in libs : /\ z.id = v.id
                              /\ z = IF v.id = w.lib THEN [v EXCEPT !.cron = TRUE] ELSE v
        BY <3>3
      <4>3. u = v
        BY <3>4, <3>5, <4>1, <4>2
      <4> QED
        BY <4>1, <4>2, <4>3
    <3> QED
      BY <3>1, <3>3, <3>5 DEF OrbitTypes
  <2>3. CASE w.op \notin {"create", "patch"}
    <3>1. libs' \subseteq libs /\ next' = next
      BY <2>3 DEF Takes, LibsAfter
    <3> QED
      BY <3>1 DEF OrbitTypes
  <2> QED
    BY <2>1, <2>2, <2>3
<1>2. /\ access' \subseteq Rows
      /\ \A r, s \in access' : r.lib = s.lib /\ r.user = s.user => r = s
  <2>1. CASE w.op = "grant"
    <3>1. access' = {r \in access : r.lib # w.row.lib \/ r.user # w.row.user} \cup {w.row}
      BY <2>1 DEF Takes, AccessAfter
    <3>2. w.row \in Rows
      BY <2>1, RequestFields
    <3> QED
      BY <3>1, <3>2 DEF OrbitTypes
  <2>2. CASE w.op # "grant"
    <3>1. access' \subseteq access
      BY <2>2 DEF Takes, AccessAfter
    <3> QED
      BY <3>1 DEF OrbitTypes
  <2> QED
    BY <2>1, <2>2
<1>3. defaults' \subseteq Nat
  BY RequestFields DEF Takes, DefaultsAfter, OrbitTypes
<1>4. conf' \in Confs /\ conf'.roster = conf.roster
  <2>1. conf \in Confs /\ conf' = ConfAfter(w)
    BY DEF OrbitTypes, Takes
  <2>2. CASE w.op \in {"set", "post", "put", "drop"}
    <3>1. w.entry \in Entries /\ conf.entries \in [Entries -> Seq(Copies)]
      BY <2>1, <2>2, RequestFields, ConfFields
    <3>2. PICK X \in Seq(Copies) : conf' = [conf EXCEPT !.entries = [@ EXCEPT ![w.entry] = X]]
      <4> DEFINE old == conf.entries[w.entry]
      <4>1. "right" \in Copies /\ "gone" \in Copies /\ old \in Seq(Copies)
        BY <3>1 DEF Copies
      <4>2. CASE w.op = "set"
        <5>1. <<"right">> \in Seq(Copies)
          BY <4>1
        <5>2. conf' = [conf EXCEPT !.entries = [@ EXCEPT ![w.entry] = <<"right">>]]
          BY <2>1, <4>2 DEF ConfAfter
        <5> QED
          BY <5>1, <5>2
      <4>3. CASE w.op = "post"
        <5>1. Append(old, "right") \in Seq(Copies)
          BY <4>1
        <5> QED
          BY <2>1, <4>3, <5>1 DEF ConfAfter
      <4>4. CASE w.op = "put"
        <5>1. [old EXCEPT ![w.copy] = "right"] \in Seq(Copies)
          BY <4>1, CopyList
        <5> QED
          BY <2>1, <3>1, <4>4, <5>1 DEF ConfAfter
      <4>5. CASE w.op = "drop"
        <5>1. [old EXCEPT ![w.copy] = "gone"] \in Seq(Copies)
          BY <4>1, CopyList
        <5> QED
          BY <2>1, <3>1, <4>5, <5>1 DEF ConfAfter
      <4> QED
        BY <2>2, <4>2, <4>3, <4>4, <4>5
    <3> DEFINE E == [conf.entries EXCEPT ![w.entry] = X]
    <3>3. E \in [Entries -> Seq(Copies)]
      BY <3>1
    <3>4. conf' = [conf EXCEPT !.entries = E]
      BY <3>2
    <3> HIDE DEF E
    <3> QED
      BY <2>1, <3>3, <3>4, ConfEntries
  <2>3. CASE w.op \notin {"set", "post", "put", "drop"}
    <3>1. \/ conf' = [conf EXCEPT !.ready = TRUE]
          \/ conf' = [conf EXCEPT !.file = "pinned", !.adapter = TRUE]
          \/ conf' = [conf EXCEPT !.auto = FALSE]
          \/ conf' = conf
      BY <2>1, <2>3 DEF ConfAfter
    <3> QED
      BY <2>1, <3>1, ConfWith
  <2> QED
    BY <2>2, <2>3
<1> QED
  BY <1>1, <1>2, <1>3, <1>4 DEF OrbitTypes

(* What others change.                                                     *)
LEMMA ConfChangedTypes ==
  ASSUME OrbitTypes, ConfChanged
  PROVE  /\ conf' \in Confs
         /\ \A i, j \in DOMAIN conf'.roster : conf'.roster[i] = conf'.roster[j] => i = j
<1>0. conf \in Confs
  BY DEF OrbitTypes
<1>1. CASE \E u \in Users, r \in Roles : conf' = [conf EXCEPT !.role[u] = r]
  <2>1. PICK u \in Users, r \in Roles : conf' = [conf EXCEPT !.role[u] = r]
    BY <1>1
  <2> DEFINE E == [conf.role EXCEPT ![u] = r]
  <2>2. E \in [Users -> Roles]
    BY <1>0, ConfFields
  <2>3. conf' = [conf EXCEPT !.role = E]
    BY <2>1
  <2> HIDE DEF E
  <2>4. conf' \in Confs /\ conf'.roster = conf.roster
    BY <1>0, <2>2, <2>3, ConfRole
  <2> QED
    BY <2>4 DEF OrbitTypes
<1>2. ASSUME NEW t \in Seq(Users), conf' = [conf EXCEPT !.roster = t],
             \A i, j \in DOMAIN t : t[i] = t[j] => i = j
      PROVE  /\ conf' \in Confs
             /\ \A i, j \in DOMAIN conf'.roster : conf'.roster[i] = conf'.roster[j] => i = j
  BY <1>0, <1>2, ConfRoster
<1>3. CASE \E i \in DOMAIN conf.roster : conf' = [conf EXCEPT !.roster = Without(@, i)]
  <2>1. PICK i \in DOMAIN conf.roster : conf' = [conf EXCEPT !.roster = Without(conf.roster, i)]
    BY <1>3
  <2> DEFINE s == conf.roster  t == Without(s, i)
  <2>2. /\ s \in Seq(Users) /\ i \in 1..Len(s) /\ Len(s) \in Nat
        /\ \A k \in 1..Len(s) : s[k] \in Users
    BY <1>0, ConfFields
  <2>3. \A k, j \in 1..Len(s) : s[k] = s[j] => k = j
    BY <2>2 DEF OrbitTypes
  <2>4. /\ Len(s) - 1 \in Nat
        /\ t \in [1..(Len(s) - 1) -> Users]
    BY <2>2 DEF Without
  <2>5. t \in Seq(Users) /\ DOMAIN t = 1..(Len(s) - 1)
    BY <2>4
  <2>6. \A k \in DOMAIN t : t[k] = IF k < i THEN s[k] ELSE s[k + 1]
    BY <2>5 DEF Without
  <2>7. ASSUME NEW k \in DOMAIN t, NEW j \in DOMAIN t, t[k] = t[j]
        PROVE  k = j
    <3> DEFINE a == IF k < i THEN k ELSE k + 1
               b == IF j < i THEN j ELSE j + 1
    <3>1. k \in 1..(Len(s) - 1) /\ j \in 1..(Len(s) - 1)
      BY <2>5
    <3>2. a \in 1..Len(s) /\ b \in 1..Len(s)
      BY <2>2, <3>1
    <3>3. s[a] = s[b]
      BY <2>6, <2>7
    <3>4. a = b
      BY <2>3, <3>2, <3>3
    <3> QED
      BY <2>2, <3>1, <3>4
  <2> HIDE DEF s, t
  <2> QED
    BY <1>2, <2>1, <2>5, <2>7 DEF s, t
<1>4. CASE \E u \in Users \ Elems(conf.roster) : conf' = [conf EXCEPT !.roster = <<u>> \o @]
  <2>1. PICK u \in Users \ Elems(conf.roster) :
            conf' = [conf EXCEPT !.roster = <<u>> \o conf.roster]
    BY <1>4
  <2> DEFINE s == conf.roster  t == <<u>> \o s
  <2>2. /\ s \in Seq(Users) /\ Len(s) \in Nat
        /\ \A k \in 1..Len(s) : s[k] # u
    BY <1>0, ConfFields DEF Elems
  <2>3. \A k, j \in 1..Len(s) : s[k] = s[j] => k = j
    BY <2>2 DEF OrbitTypes
  <2>4. t \in Seq(Users) /\ Len(t) = Len(s) + 1 /\ DOMAIN t = 1..(Len(s) + 1)
    BY <2>2
  <2>5. \A k \in 1..(Len(s) + 1) : t[k] = IF k = 1 THEN u ELSE s[k - 1]
    BY <2>2
  <2>6. ASSUME NEW k \in DOMAIN t, NEW j \in DOMAIN t, t[k] = t[j]
        PROVE  k = j
    <3>1. k \in 1..(Len(s) + 1) /\ j \in 1..(Len(s) + 1)
      BY <2>4
    <3>2. /\ k # 1 => k - 1 \in 1..Len(s) /\ t[k] = s[k - 1]
          /\ j # 1 => j - 1 \in 1..Len(s) /\ t[j] = s[j - 1]
          /\ k = 1 => t[k] = u
          /\ j = 1 => t[j] = u
      BY <2>2, <2>5, <3>1
    <3>3. k # 1 /\ j # 1 => k - 1 = j - 1
      BY <2>3, <2>6, <3>2
    <3>4. k = 1 <=> j = 1
      BY <2>2, <2>6, <3>2
    <3> QED
      BY <3>1, <3>3, <3>4
  <2> HIDE DEF s, t
  <2> QED
    BY <1>2, <2>1, <2>4, <2>6 DEF s, t
<1>5. CASE \E e \in Entries : \/ \E i \in Standing(conf.entries[e]) :
                                  \/ conf' = [conf EXCEPT !.entries[e][i] = "stale"]
                                  \/ conf' = [conf EXCEPT !.entries[e][i] = "gone"]
                             \/ conf' = [conf EXCEPT !.entries[e] = Append(@, "stale")]
  <2>0. /\ conf.entries \in [Entries -> Seq(Copies)] /\ "stale" \in Copies /\ "gone" \in Copies
        /\ \A e \in Entries : conf.entries[e] \in Seq(Copies)
    BY <1>0, ConfFields DEF Copies
  <2>1. PICK e \in Entries, X \in Seq(Copies) : conf' = [conf EXCEPT !.entries[e] = X]
    <3>1. PICK e \in Entries : \/ \E i \in Standing(conf.entries[e]) :
                                  \/ conf' = [conf EXCEPT !.entries[e][i] = "stale"]
                                  \/ conf' = [conf EXCEPT !.entries[e][i] = "gone"]
                             \/ conf' = [conf EXCEPT !.entries[e] = Append(@, "stale")]
      BY <1>5
    <3> DEFINE old == conf.entries[e]
    <3>2. CASE conf' = [conf EXCEPT !.entries[e] = Append(@, "stale")]
      <4>1. Append(old, "stale") \in Seq(Copies)
        BY <2>0
      <4> QED
        BY <3>2, <4>1
    <3>3. ASSUME NEW i, NEW c \in Copies, conf' = [conf EXCEPT !.entries[e][i] = c]
          PROVE  \E X \in Seq(Copies) : conf' = [conf EXCEPT !.entries[e] = X]
      <4>1. [old EXCEPT ![i] = c] \in Seq(Copies)
        BY <2>0, CopyList
      <4> QED
        BY <3>3, <4>1
    <3> QED
      BY <2>0, <3>1, <3>2, <3>3
  <2> DEFINE E == [conf.entries EXCEPT ![e] = X]
  <2>2. E \in [Entries -> Seq(Copies)]
    BY <2>0
  <2>3. conf' = [conf EXCEPT !.entries = E]
    BY <2>1
  <2> HIDE DEF E
  <2>4. conf' \in Confs /\ conf'.roster = conf.roster
    BY <1>0, <2>2, <2>3, ConfEntries
  <2> QED
    BY <2>4 DEF OrbitTypes
<1>6. CASE \/ conf' = [conf EXCEPT !.auto = conf.adapter]
           \/ conf' = [conf EXCEPT !.file = "none", !.adapter = FALSE, !.auto = FALSE]
  <2>1. conf' \in Confs /\ conf'.roster = conf.roster
    <3>1. conf.adapter \in BOOLEAN
      BY <1>0, ConfFields
    <3>2. CASE conf' = [conf EXCEPT !.auto = conf.adapter]
      BY <1>0, <3>1, <3>2, ConfWith
    <3>3. CASE conf' = [conf EXCEPT !.file = "none", !.adapter = FALSE, !.auto = FALSE]
      BY <1>0, <3>3, ConfWith
    <3> QED
      BY <1>6, <3>2, <3>3
  <2> QED
    BY <2>1 DEF OrbitTypes
<1> QED
  BY <1>1, <1>3, <1>4, <1>5, <1>6 DEF ConfChanged

(* What others change keeps the types of what BookOrbit holds.             *)
LEMMA ChangeTypes ==
  ASSUME OrbitTypes, Change
  PROVE  OrbitTypes'
<1>1. CASE ConfChanged /\ access' \subseteq access /\ UNCHANGED <<libs, next, defaults>>
  BY <1>1, ConfChangedTypes DEF OrbitTypes
<1>2. CASE /\ \E n \in Names, fits \in BOOLEAN :
                 libs' = libs \cup {[id |-> next, name |-> n, fits |-> fits, cron |-> FALSE]}
           /\ next' = next + 1
           /\ UNCHANGED <<access, defaults, conf>>
  BY <1>2, NewLibrary DEF OrbitTypes
<1>3. CASE /\ libs' \subseteq libs /\ access' \subseteq access /\ defaults' \subseteq defaults
           /\ UNCHANGED <<next, conf>>
  BY <1>3 DEF OrbitTypes
<1> QED
  BY <1>1, <1>2, <1>3 DEF Change

(* The run asks only for what there is to ask.                             *)
LEMMA AskedTypes ==
  ASSUME TInv
  PROVE  Asks \subseteq Requests
<1>0. /\ left \in Seq(Entries) /\ found \in [Entries -> Seq(Copies)]
      /\ listed \subseteq Libraries /\ Len(managed) \in Nat
      /\ todo \in Seq(Nat) /\ (pc \in Providing => todo # <<>>)
      /\ defs \subseteq Nat
      /\ onpage \in Seq([user : Users, role : Roles])
  BY DEF TInv, EntryTypes, LibTypes, AccessTypes
<1>1. SetupAsks \cup ChannelAsks \cup UploadAsks \cup ManualAsks \subseteq Requests
  BY DEF SetupAsks, ChannelAsks, UploadAsks, ManualAsks, Requests
<1>2. EntryAsks \subseteq Requests
  <2> SUFFICES ASSUME NEW w \in EntryAsks PROVE w \in Requests
    OBVIOUS
  <2>1. pc = "entry" /\ left # <<>> /\ w \in AsksFor(Head(left))
    BY DEF EntryAsks
  <2>2. Head(left) \in Entries
    BY <1>0, <2>1
  <2>3. PICK e \in Entries : w \in AsksFor(e)
    BY <2>1, <2>2
  <2>4. Standing(found[e]) \subseteq Nat /\ Taken(e, found[e]) \subseteq Nat
    <3>1. found[e] \in Seq(Copies) /\ "right" \in Copies
      BY <1>0 DEF Copies
    <3> QED
      BY <3>1, CopyList DEF Taken
  <2>5. \/ w \in [op : {"set", "post"}, entry : Entries]
        \/ w \in [op : {"put", "drop"}, entry : Entries, copy : Nat]
    BY <2>3, <2>4 DEF AsksFor
  <2> QED
    BY <2>5 DEF Requests
<1>3. CreateAsks \subseteq Requests
  <2> SUFFICES ASSUME NEW w \in CreateAsks PROVE w \in Requests
    OBVIOUS
  <2>1. Len(managed) < Len(Desired) /\ w \in [op : {"create"}, name : {Turn}]
    BY DEF CreateAsks, Ensuring
  <2>2. Len(managed) + 1 \in 1..Len(Desired)
    BY <1>0, <2>1, DesiredNames
  <2>3. Turn \in Names
    BY <2>2, DesiredNames DEF Turn
  <2> QED
    BY <2>1, <2>3 DEF Requests
<1>4. PatchAsks \cup DeleteAsks \subseteq Requests
  <2> SUFFICES ASSUME NEW w \in PatchAsks \cup DeleteAsks PROVE w \in Requests
    OBVIOUS
  <2>1. \E x \in listed : w \in [op : {"patch", "delete"}, lib : {x.id}]
    BY DEF PatchAsks, DeleteAsks, First, Doomed
  <2>2. \A x \in listed : x.id \in Nat
    BY <1>0 DEF Libraries
  <2> QED
    BY <2>1, <2>2 DEF Requests
<1>5. DefaultAsks \subseteq Requests
  <2> SUFFICES ASSUME NEW w \in DefaultAsks PROVE w \in Requests
    OBVIOUS
  <2>1. pc = "add" /\ w \in [op : {"defaults"}, ids : {WithDefault(Head(todo))}]
    BY DEF DefaultAsks
  <2>2. Head(todo) \in Nat
    BY <1>0, <2>1 DEF Providing
  <2>3. WithDefault(Head(todo)) \subseteq Nat
    BY <1>0, <2>2 DEF WithDefault
  <2> QED
    BY <2>1, <2>3 DEF Requests
<1>6. UserAsks \subseteq Requests
  <2> SUFFICES ASSUME NEW w \in UserAsks PROVE w \in Requests
    OBVIOUS
  <2>1. pc = "user" /\ onpage # <<>>
    BY DEF UserAsks
  <2> DEFINE u == Head(onpage).user
             level == Level(Head(onpage).role)
  <2>2. Head(todo) \in Nat
    BY <1>0, <2>1 DEF Providing
  <2>3. u \in Users
    <3>1. Head(onpage) \in [user : Users, role : Roles]
      BY <1>0, <2>1, HeadIn
    <3> QED
      BY <3>1
  <2>4. level \subseteq {"editor", "viewer"}
    BY DEF Level
  <2>5. \/ w \in [op : {"revoke"}, lib : {Head(todo)}, user : {u}]
        \/ w \in [op : {"grant"}, row : [lib : {Head(todo)}, user : {u}, level : level \ Current(u)]]
    BY <2>1 DEF UserAsks
  <2>6. [lib : {Head(todo)}, user : {u}, level : level \ Current(u)] \subseteq Rows
    BY <2>2, <2>3, <2>4 DEF Rows
  <2> HIDE DEF u, level
  <2> QED
    BY <2>2, <2>3, <2>5, <2>6 DEF Requests
<1> QED
  BY <1>1, <1>2, <1>3, <1>4, <1>5, <1>6 DEF Asks

(* Where the run is when it asks for something.                            *)
LEMMA Where ==
  /\ SetUp \/ SetUpRefused \/ SetUpFails => pc = "setup"
  /\ WriteEntry => pc = "entry" /\ left # <<>>
  /\ CreateLibrary \/ PatchLibrary => Ensuring
  /\ DeleteLibrary => Deletes
  /\ AddDefault => pc = "add"
  /\ SetAccess => pc = "user" /\ onpage # <<>>
  /\ StopUpdates => pc = "channel"
  /\ Upload => pc = "file"
  /\ KeepManual => pc = "uploaded"
<1>1. SetUp \/ SetUpRefused \/ SetUpFails => pc = "setup"
  BY DEF SetUp, SetUpRefused, SetUpFails, SetupAsks
<1>2. WriteEntry => pc = "entry" /\ left # <<>>
  BY DEF WriteEntry, EntryAsks
<1>3. CreateLibrary \/ PatchLibrary => Ensuring
  BY DEF CreateLibrary, PatchLibrary, CreateAsks, PatchAsks
<1>4. DeleteLibrary => Deletes
  BY DEF DeleteLibrary, DeleteAsks
<1>5. AddDefault => pc = "add"
  BY DEF AddDefault, DefaultAsks
<1>6. SetAccess => pc = "user" /\ onpage # <<>>
  BY DEF SetAccess, UserAsks
<1>7. /\ StopUpdates => pc = "channel"
      /\ Upload => pc = "file"
      /\ KeepManual => pc = "uploaded"
  BY DEF StopUpdates, ChannelAsks, Upload, UploadAsks, KeepManual, ManualAsks
<1> QED
  BY <1>1, <1>2, <1>3, <1>4, <1>5, <1>6, <1>7

(* A step changes BookOrbit by a request, by itself or by others.          *)
LEMMA OrbitStep ==
  ASSUME TInv, [Next]_vars
  PROVE  OrbitTypes'
<1>0. OrbitTypes /\ late \subseteq Requests /\ Asks \subseteq Requests
  BY AskedTypes DEF TInv, RestTypes
<1>1. CASE UNCHANGED orbit
  BY <1>0, <1>1 DEF orbit, OrbitTypes
<1>2. CASE \E w \in Asks \cup late : Takes(w)
  BY <1>0, <1>2, TakesTypes
<1>3. CASE SelfUpdate
  <2>1. conf' \in Confs /\ conf'.roster = conf.roster
    BY <1>0, <1>3, ConfWith DEF SelfUpdate, OrbitTypes
  <2> QED
    BY <1>0, <1>3, <2>1 DEF SelfUpdate, OrbitTypes
<1>4. CASE Change
  BY <1>0, <1>4, ChangeTypes
<1>5. Run => UNCHANGED orbit \/ \E w \in Asks : Takes(w)
  BY DEF Run, Answered, Reads, Asks, ReadStatus, SetUp, SetUpRefused, Recheck, ReadGroup,
         WriteEntry, KeepEntry, RefuseEntry, LeaveGroup, ReadLibraries, CreateLibrary,
         PatchLibrary, KeepLibrary, RefuseLibrary, DeleteLibrary, LeaveLibraries,
         ReadDefaults, AddDefault, ReadAccess, ReadPage, SetAccess, KeepAccess, NextPage,
         LastPage, LeaveAccess, ReadPlugin, StopUpdates, NoUpdates, Upload, KeepManual,
         KeepPlugin, Rejected
<1>6. Start \/ SetUpFails \/ Fails \/ (\E w \in late : Vanish(w)) \/ UNCHANGED vars
         => UNCHANGED orbit
  BY DEF Start, Reads, SetUpFails, Fails, Vanish, vars
<1>7. (\E w \in late : Land(w)) => \E w \in late : Takes(w)
  BY DEF Land
<1> QED
  BY <1>1, <1>2, <1>3, <1>4, <1>5, <1>6, <1>7 DEF Next

(* The constants as the arithmetic below needs them.                       *)
LEMMA Bounds ==
  /\ Len(Groups) \in Nat /\ 1 \in 0..Len(Groups)
  /\ \A g \in 1..Len(Groups) : Groups[g] \in Seq(Entries)
  /\ PageSize \in Nat \ {0} /\ Cardinality(Users) \in Nat
  /\ MaxChanges \in Nat /\ MaxTroubles \in Nat
BY OrbitConstants, FS_CardinalityType

(* A run that is over has nothing in hand.                                 *)
LEMMA EndTypes ==
  ASSUME End
  PROVE  EntryTypes' /\ LibTypes' /\ AccessTypes' /\ plug' \in [adapter : BOOLEAN, auto : BOOLEAN]
<1>1. EntryTypes'
  BY Bounds DEF End, EntryTypes, Early, NoCopies
<1>2. LibTypes'
  BY DesiredNames DEF End, LibTypes, Providing
<1>3. AccessTypes'
  <2>1. /\ defs' = {} /\ rights' = {} /\ page' = 0 /\ more' = FALSE
        /\ onpage' \in Seq([user : Users, role : Roles])
    BY DEF End
  <2> QED
    BY <2>1 DEF AccessTypes
<1> QED
  BY <1>1, <1>2, <1>3 DEF End, NoPlug

(* Every step keeps the groups and entries in hand in their lists.         *)
LEMMA EntryStep ==
  ASSUME TInv, [Next]_vars
  PROVE  EntryTypes'
<1>0. /\ EntryTypes
      /\ left \in Seq(Entries) /\ found \in [Entries -> Seq(Copies)]
      /\ group \in 0..Len(Groups)
  BY DEF TInv, EntryTypes
<1> USE DEF entryVars
<1>1. ASSUME UNCHANGED entryVars, pc' \notin Early => pc \notin Early
      PROVE  EntryTypes'
  BY <1>0, <1>1 DEF EntryTypes
<1>2. ASSUME group' = 1, UNCHANGED <<found, left>>
      PROVE  EntryTypes'
  BY <1>0, <1>2, Bounds DEF EntryTypes
<1>3. CASE ReadStatus \/ SetUp \/ Recheck
  <2>1. pc' \in Early \/ group' = 1 \/ End
    BY <1>3 DEF ReadStatus, SetUp, Recheck, Early
  <2> QED
    BY <1>1, <1>2, <1>3, <2>1, EndTypes DEF ReadStatus, SetUp, Recheck
<1>4. CASE ReadGroup
  <2>1. pc = "group" /\ group # 0
    BY <1>0, <1>4 DEF ReadGroup, EntryTypes, Early
  <2>2. group' = group /\ left' = Groups[group] /\ left' \in Seq(Entries)
    BY <1>0, <1>4, <2>1, Bounds DEF ReadGroup
  <2>3. found' \in [Entries -> Seq(Copies)]
    <3>1. \A e \in Entries : conf.entries[e] \in Seq(Copies)
      BY ConfFields DEF TInv, OrbitTypes
    <3> QED
      BY <1>4, <3>1 DEF ReadGroup
  <2> QED
    BY <1>0, <2>1, <2>2, <2>3 DEF EntryTypes
<1>5. CASE WriteEntry
  <2>1. pc = "entry" /\ left # <<>> /\ UNCHANGED <<pc, group>>
    BY <1>5, Where DEF WriteEntry
  <2>2. \/ UNCHANGED found /\ left' = Tail(left)
        \/ /\ UNCHANGED left
           /\ \E e, i : found' = [found EXCEPT ![e][i] = "gone"]
    BY <1>5 DEF WriteEntry
  <2>3. Tail(left) \in Seq(Entries)
    BY <1>0, <2>1
  <2>4. left' \in Seq(Entries) /\ found' \in [Entries -> Seq(Copies)]
    <3>1. ASSUME NEW e, NEW i, found' = [found EXCEPT ![e][i] = "gone"]
          PROVE  found' \in [Entries -> Seq(Copies)]
      <4>1. e \in Entries => [found[e] EXCEPT ![i] = "gone"] \in Seq(Copies)
        BY <1>0, CopyList DEF Copies
      <4> QED
        BY <1>0, <3>1, <4>1
    <3> QED
      BY <1>0, <2>2, <2>3, <3>1
  <2> QED
    BY <1>0, <2>1, <2>4 DEF EntryTypes
<1>6. CASE KeepEntry
  <2>1. Tail(left) \in Seq(Entries)
    BY <1>0, <1>6 DEF KeepEntry
  <2> QED
    BY <1>0, <1>6, <2>1 DEF KeepEntry, EntryTypes
<1>7. CASE LeaveGroup
  <2>1. CASE End
    BY <2>1, EndTypes
  <2>2. CASE group # Len(Groups) /\ group' = group + 1 /\ found' = NoCopies /\ UNCHANGED left
    <3>1. group' \in 0..Len(Groups) /\ group' # 0
      BY <1>0, <2>2, Bounds
    <3> QED
      BY <1>0, <2>2, <3>1 DEF EntryTypes, NoCopies
  <2> QED
    BY <1>7, <2>1, <2>2 DEF LeaveGroup
<1>8. CASE RefuseEntry \/ RefuseLibrary \/ Rejected \/ Fails
  BY <1>8, EndTypes DEF RefuseEntry, RefuseLibrary, Rejected, Fails
<1>9. CASE \/ ReadLibraries \/ CreateLibrary \/ PatchLibrary \/ KeepLibrary
           \/ DeleteLibrary \/ LeaveLibraries
  <2>1. pc \in {"libraries", "ensure"} /\ UNCHANGED entryVars
    BY <1>9, Where DEF ReadLibraries, CreateLibrary, PatchLibrary, KeepLibrary,
       DeleteLibrary, LeaveLibraries, Ensuring, Deletes
  <2> QED
    BY <1>1, <2>1 DEF Early
<1>10. CASE \/ ReadDefaults \/ AddDefault \/ ReadAccess \/ ReadPage \/ SetAccess
            \/ KeepAccess \/ NextPage \/ LastPage \/ LeaveAccess
  <2>1. pc \in {"defaults", "add", "access", "page", "user"} /\ UNCHANGED entryVars
    BY <1>10, Where DEF ReadDefaults, AddDefault, ReadAccess, ReadPage, SetAccess,
       KeepAccess, NextPage, LastPage, LeaveAccess
  <2> QED
    BY <1>1, <2>1 DEF Early
<1>11. CASE ReadPlugin \/ StopUpdates \/ NoUpdates \/ Upload \/ KeepManual \/ KeepPlugin
  <2>1. pc \in {"plugins", "channel", "file", "uploaded"} /\ UNCHANGED entryVars
    BY <1>11, Where DEF ReadPlugin, StopUpdates, NoUpdates, Upload, KeepManual, KeepPlugin
  <2> QED
    BY <1>1, <2>1 DEF Early
<1>12. CASE Start \/ SetUpFails \/ SetUpRefused
  BY <1>1, <1>12 DEF Start, SetUpFails, SetUpRefused, Early
<1>13. CASE (\E w \in late : Land(w) \/ Vanish(w)) \/ SelfUpdate \/ Change \/ UNCHANGED vars
  BY <1>1, <1>13 DEF Land, Vanish, SelfUpdate, Change, vars
<1> QED
  BY <1>3, <1>4, <1>5, <1>6, <1>7, <1>8, <1>9, <1>10, <1>11, <1>12, <1>13 DEF Next, Run

(* Every step keeps the libraries in hand those that were read.            *)
LEMMA LibStep ==
  ASSUME TInv, [Next]_vars
  PROVE  LibTypes'
<1>0. /\ LibTypes
      /\ listed \subseteq Libraries /\ managed \in Seq(Nat) /\ Len(managed) <= Len(Desired)
      /\ todo \in Seq(Nat) /\ Len(Desired) \in Nat /\ Len(managed) \in Nat
      /\ next \in Nat /\ libs \subseteq Libraries
  BY DesiredNames DEF TInv, LibTypes, OrbitTypes
<1> USE DEF libVars
<1>1. ASSUME UNCHANGED libVars, pc' \in Providing => pc \in Providing
      PROVE  LibTypes'
  BY <1>0, <1>1 DEF LibTypes
<1>2. CASE RefuseEntry \/ RefuseLibrary \/ Rejected \/ Fails \/ Recheck \/ LeaveGroup
  <2>1. CASE End
    BY <2>1, EndTypes
  <2>2. CASE ~End
    <3>1. UNCHANGED libVars /\ pc' \in {"group", "libraries", "plugins"}
      BY <1>2, <2>2 DEF RefuseEntry, RefuseLibrary, Rejected, Fails, Recheck, LeaveGroup
    <3> QED
      BY <1>1, <3>1 DEF Providing
  <2> QED
    BY <2>1, <2>2
<1>3. CASE ReadLibraries
  <2>1. pc' = "ensure" /\ listed' = libs /\ UNCHANGED <<managed, todo>>
    BY <1>3 DEF ReadLibraries
  <2> QED
    BY <1>0, <2>1 DEF LibTypes, Providing
<1>4. CASE CreateLibrary \/ PatchLibrary \/ KeepLibrary
  <2>1. /\ pc = "ensure" /\ Len(managed) < Len(Desired)
        /\ UNCHANGED <<pc, listed, todo>>
    BY <1>4, Where DEF CreateLibrary, PatchLibrary, KeepLibrary, Ensuring
  <2>2. \A x \in listed : x.id \in Nat
    BY <1>0 DEF Libraries
  <2>3. \E i \in Nat : managed' = Append(managed, i)
    <3>1. CASE CreateLibrary
      BY <1>0, <3>1 DEF CreateLibrary
    <3>2. CASE PatchLibrary
      BY <2>2, <3>2 DEF PatchLibrary, PatchAsks, First
    <3>3. CASE KeepLibrary
      BY <2>2, <3>3 DEF KeepLibrary, First
    <3> QED
      BY <1>4, <3>1, <3>2, <3>3
  <2>4. managed' \in Seq(Nat) /\ Len(managed') <= Len(Desired)
    BY <1>0, <2>1, <2>3
  <2> QED
    BY <1>0, <2>1, <2>4 DEF LibTypes, Providing
<1>5. CASE DeleteLibrary
  <2>1. pc = "ensure" /\ UNCHANGED <<pc, managed, todo>> /\ listed' \subseteq listed
    BY <1>5, Where DEF DeleteLibrary, Deletes
  <2> QED
    BY <1>0, <2>1 DEF LibTypes, Providing
<1>6. CASE LeaveLibraries
  <2>1. pc' = "defaults" /\ todo' = managed /\ listed' = {} /\ managed' = <<>>
    BY <1>6 DEF LeaveLibraries
  <2> QED
    BY <1>0, <2>1 DEF LibTypes, Providing
<1>7. CASE LastPage
  <2>1. /\ pc = "user" /\ pc' = "defaults" /\ todo' = Tail(todo)
        /\ UNCHANGED <<listed, managed>>
    BY <1>7 DEF LastPage
  <2>2. todo # <<>>
    BY <1>0, <2>1 DEF LibTypes, Providing
  <2>3. Tail(todo) \in Seq(Nat)
    BY <1>0, <2>2
  <2> QED
    BY <1>0, <2>1, <2>3 DEF LibTypes, Providing
<1>8. CASE ReadDefaults
  BY <1>0, <1>8 DEF ReadDefaults, LibTypes
<1>9. CASE AddDefault \/ ReadAccess \/ ReadPage \/ SetAccess \/ KeepAccess \/ NextPage
  <2>1. pc \in {"add", "access", "page", "user"} /\ UNCHANGED libVars
    BY <1>9, Where DEF AddDefault, ReadAccess, ReadPage, SetAccess, KeepAccess, NextPage
  <2> QED
    BY <1>1, <2>1 DEF Providing
<1>10. CASE \/ Start \/ ReadStatus \/ SetUp \/ SetUpFails \/ SetUpRefused
            \/ ReadGroup \/ WriteEntry \/ KeepEntry
  <2>1. /\ UNCHANGED libVars
        /\ pc' \in {"status", "setup", "group", "recheck", "entry"} \/ UNCHANGED pc
    BY <1>10 DEF Start, ReadStatus, SetUp, SetUpFails, SetUpRefused, ReadGroup,
       WriteEntry, KeepEntry
  <2> QED
    BY <1>1, <2>1 DEF Providing
<1>11. CASE \/ LeaveAccess \/ ReadPlugin \/ StopUpdates \/ NoUpdates \/ Upload
            \/ KeepManual \/ KeepPlugin
  <2>1. UNCHANGED libVars /\ pc' \in {"group", "channel", "file", "uploaded"}
    BY <1>11 DEF LeaveAccess, ReadPlugin, StopUpdates, NoUpdates, Upload, KeepManual,
       KeepPlugin
  <2> QED
    BY <1>1, <2>1 DEF Providing
<1>12. CASE (\E w \in late : Land(w) \/ Vanish(w)) \/ SelfUpdate \/ Change \/ UNCHANGED vars
  BY <1>1, <1>12 DEF Land, Vanish, SelfUpdate, Change, vars
<1> QED
  BY <1>2, <1>3, <1>4, <1>5, <1>6, <1>7, <1>8, <1>9, <1>10, <1>11, <1>12 DEF Next, Run

(* A roster without repetitions is no longer than there are users.         *)
LEMMA RosterFits ==
  ASSUME OrbitTypes
  PROVE  conf.roster \in Seq(Users) /\ Len(conf.roster) <= Cardinality(Users)
<1> DEFINE s == conf.roster  n == Len(s)
<1>1. s \in Seq(Users) /\ n \in Nat
  BY ConfFields DEF OrbitTypes
<1>2. /\ s \in [1..n -> Users]
      /\ \A i, j \in 1..n : s[i] = s[j] => i = j
  BY <1>1 DEF OrbitTypes
<1> HIDE DEF s
<1>3. s \in Injection(1..n, Users)
  BY <1>2 DEF Injection, IsInjective
<1>4. Cardinality(1..n) <= Cardinality(Users)
  BY <1>3, FS_Injection, OrbitConstants
<1>5. ASSUME NEW k \in Nat PROVE Cardinality(1..k) = k
  <2>1. Cardinality(1..k) = IF 1 > k THEN 0 ELSE k - 1 + 1
    BY FS_Interval
  <2> QED
    BY <2>1
<1>6. Cardinality(1..n) = n
  BY <1>1, <1>5
<1> QED
  BY <1>1, <1>4, <1>6 DEF s

(* The users on a page, and whether there are more.                        *)
LEMMA PageFits ==
  ASSUME NEW n \in Nat, NEW a \in Nat, NEW S, NEW t \in Seq(S), n = Len(t), NEW b \in Nat, a <= b
  PROVE  LET u == SubSeq(t, a + 1, Less(b, n)) IN
         u \in Seq(S) /\ (a + Len(u) < n => b < n)
<1> DEFINE m == Less(b, n)  u == SubSeq(t, a + 1, m)
<1>1. m \in Nat /\ m <= n /\ m <= b /\ (m = b \/ m = n)
  BY DEF Less
<1> HIDE DEF m
<1>2. u \in Seq(S)
  BY <1>1
<1>3. Len(u) = IF a + 1 <= m THEN m - a ELSE 0
  BY <1>1
<1>4. a + Len(u) < n => b < n
  BY <1>1, <1>3
<1> QED
  BY <1>2, <1>4 DEF m

(* Every step keeps pages, users and defaults in hand what was read.       *)
LEMMA AccessStep ==
  ASSUME TInv, [Next]_vars
  PROVE  AccessTypes'
<1>0. /\ AccessTypes
      /\ defs \subseteq Nat /\ rights \subseteq Rows /\ more \in BOOLEAN
      /\ page \in Nat /\ (page = 0 \/ page * PageSize < Cardinality(Users))
      /\ onpage \in Seq([user : Users, role : Roles])
      /\ pc # "user" => more = FALSE
  BY DEF TInv, AccessTypes
<1> USE DEF accessVars
<1>1. ASSUME UNCHANGED accessVars, pc # "user" \/ UNCHANGED pc
      PROVE  AccessTypes'
  BY <1>0, <1>1 DEF AccessTypes
<1>2. CASE RefuseEntry \/ RefuseLibrary \/ Rejected \/ Fails \/ Recheck \/ LeaveGroup
  <2>1. CASE End
    BY <2>1, EndTypes
  <2>2. CASE ~End
    <3>1. UNCHANGED accessVars /\ pc # "user"
      BY <1>2, <2>2 DEF RefuseEntry, RefuseLibrary, Rejected, Fails, Recheck, LeaveGroup
    <3> QED
      BY <1>1, <3>1
  <2> QED
    BY <2>1, <2>2
<1>3. CASE ReadDefaults \/ AddDefault
  <2>1. /\ pc \in {"defaults", "add"} /\ defs' \in {defs, defaults, {}}
        /\ UNCHANGED <<rights, page, onpage, more>>
    BY <1>3, Where DEF ReadDefaults, AddDefault
  <2>2. defs' \subseteq Nat
    BY <1>0, <2>1 DEF TInv, OrbitTypes
  <2> QED
    BY <1>0, <2>1, <2>2 DEF AccessTypes
<1>4. CASE ReadAccess
  <2>1. /\ pc = "access" /\ rights' \subseteq access /\ page' = 0
        /\ UNCHANGED <<defs, onpage, more>>
    BY <1>4 DEF ReadAccess
  <2>2. rights' \subseteq Rows
    BY <2>1 DEF TInv, OrbitTypes
  <2> QED
    BY <1>0, <2>1, <2>2 DEF AccessTypes
<1>5. CASE ReadPage
  <2> DEFINE a == page * PageSize
             b == (page + 1) * PageSize
             users == SubSeq(conf.roster, a + 1, Less(b, Len(conf.roster)))
  <2>1. /\ pc' = "user" /\ UNCHANGED <<defs, rights, page>>
        /\ onpage' = [i \in DOMAIN users |-> [user |-> users[i], role |-> conf.role[users[i]]]]
        /\ more' = (a + Len(users) < Len(conf.roster))
    BY <1>5 DEF ReadPage, MoreThanRead
  <2>2. /\ conf.roster \in Seq(Users) /\ Len(conf.roster) <= Cardinality(Users)
        /\ Len(conf.roster) \in Nat /\ Cardinality(Users) \in Nat
        /\ conf.role \in [Users -> Roles]
    BY RosterFits, ConfFields, Bounds DEF TInv, OrbitTypes
  <2>3. a \in Nat /\ b \in Nat /\ a <= b
    <3>1. page \in Nat /\ PageSize \in Nat
      BY <1>0, Bounds
    <3>2. b = a + PageSize
      BY <3>1
    <3>3. a \in Nat
      BY <3>1
    <3> QED
      BY <3>1, <3>2, <3>3
  <2> HIDE DEF a, b
  <2>4. users \in Seq(Users) /\ (a + Len(users) < Len(conf.roster) => b < Len(conf.roster))
    BY <2>2, <2>3, PageFits
  <2> HIDE DEF users
  <2>5. onpage' \in Seq([user : Users, role : Roles])
    <3>1. Len(users) \in Nat /\ DOMAIN users = 1..Len(users)
          /\ \A i \in 1..Len(users) : users[i] \in Users
      BY <2>4
    <3>2. onpage' \in [1..Len(users) -> [user : Users, role : Roles]]
      BY <2>1, <2>2, <3>1
    <3> QED
      BY <3>1, <3>2, ListOf
  <2>6. more' => b < Cardinality(Users)
    <3>1. more' => b < Len(conf.roster)
      BY <2>1, <2>4
    <3> QED
      BY <2>2, <2>3, <3>1
  <2>7. more' \in BOOLEAN
    BY <2>1
  <2> QED
    BY <1>0, <2>1, <2>5, <2>6, <2>7 DEF AccessTypes, b
<1>6. CASE SetAccess \/ KeepAccess
  <2>1. /\ pc = "user" /\ onpage # <<>> /\ onpage' = Tail(onpage)
        /\ UNCHANGED <<pc, defs, rights, page, more>>
    BY <1>6, Where DEF SetAccess, KeepAccess
  <2>2. onpage' \in Seq([user : Users, role : Roles])
    BY <1>0, <2>1, HeadIn
  <2> QED
    BY <1>0, <2>1, <2>2 DEF AccessTypes
<1>7. CASE NextPage
  <2>1. /\ more /\ more' = FALSE /\ page' = page + 1
        /\ UNCHANGED <<defs, rights, onpage>>
    BY <1>7 DEF NextPage
  <2>2. page' * PageSize < Cardinality(Users)
    BY <1>0, <2>1 DEF AccessTypes
  <2>3. page' \in Nat
    BY <1>0, <2>1
  <2>4. /\ defs' \subseteq Nat /\ rights' \subseteq Rows
        /\ onpage' \in Seq([user : Users, role : Roles])
    BY <1>0, <2>1
  <2> QED
    BY <2>1, <2>2, <2>3, <2>4 DEF AccessTypes
<1>8. CASE LastPage
  <2>1. ~more /\ rights' = {} /\ page' = 0 /\ UNCHANGED <<defs, onpage, more>>
    BY <1>8 DEF LastPage
  <2> QED
    BY <1>0, <2>1 DEF AccessTypes
<1>9. CASE \/ ReadLibraries \/ CreateLibrary \/ PatchLibrary \/ KeepLibrary
           \/ DeleteLibrary \/ LeaveLibraries
  <2>1. pc \in {"libraries", "ensure"} /\ UNCHANGED accessVars
    BY <1>9, Where DEF ReadLibraries, CreateLibrary, PatchLibrary, KeepLibrary,
       DeleteLibrary, LeaveLibraries, Ensuring, Deletes
  <2> QED
    BY <1>1, <2>1
<1>10. CASE \/ Start \/ ReadStatus \/ SetUp \/ SetUpFails \/ SetUpRefused
            \/ ReadGroup \/ WriteEntry \/ KeepEntry
  <2>1. pc \in {"idle", "status", "setup", "group", "entry"} /\ UNCHANGED accessVars
    BY <1>10, Where DEF Start, ReadStatus, SetUp, SetUpFails, SetUpRefused, ReadGroup,
       WriteEntry, KeepEntry
  <2> QED
    BY <1>1, <2>1
<1>11. CASE \/ LeaveAccess \/ ReadPlugin \/ StopUpdates \/ NoUpdates \/ Upload
            \/ KeepManual \/ KeepPlugin
  <2>1. pc \in {"defaults", "plugins", "channel", "file", "uploaded"} /\ UNCHANGED accessVars
    BY <1>11, Where DEF LeaveAccess, ReadPlugin, StopUpdates, NoUpdates, Upload,
       KeepManual, KeepPlugin
  <2> QED
    BY <1>1, <2>1
<1>12. CASE (\E w \in late : Land(w) \/ Vanish(w)) \/ SelfUpdate \/ Change \/ UNCHANGED vars
  BY <1>1, <1>12 DEF Land, Vanish, SelfUpdate, Change, vars
<1> QED
  BY <1>2, <1>3, <1>4, <1>5, <1>6, <1>7, <1>8, <1>9, <1>10, <1>11, <1>12 DEF Next, Run

(* Every step keeps the types of the rest of the run.                      *)
LEMMA RestStep ==
  ASSUME TInv, [Next]_vars
  PROVE  RestTypes'
<1>0. /\ RestTypes /\ late \subseteq Requests /\ Asks \subseteq Requests
      /\ faults \in Nat /\ changes \in Nat /\ MaxTroubles \in Nat /\ MaxChanges \in Nat
  BY AskedTypes, Bounds DEF TInv, RestTypes
<1>1. late' \subseteq Requests
  <2>1. CASE late' \subseteq late
    BY <1>0, <2>1
  <2>2. CASE late' \subseteq late \cup Asks
    BY <1>0, <2>2
  <2>3. Start \/ Run \/ SelfUpdate \/ Change \/ UNCHANGED vars => late' = late
    BY DEF Start, Run, SelfUpdate, Change, vars, Answered, Reads, ReadStatus, SetUp,
       SetUpRefused, Recheck, ReadGroup,
       WriteEntry, KeepEntry, RefuseEntry, LeaveGroup, ReadLibraries, CreateLibrary,
       PatchLibrary, KeepLibrary, RefuseLibrary, DeleteLibrary, LeaveLibraries,
       ReadDefaults, AddDefault, ReadAccess, ReadPage, SetAccess, KeepAccess, NextPage,
       LastPage, LeaveAccess, ReadPlugin, StopUpdates, NoUpdates, Upload, KeepManual,
       KeepPlugin, Rejected
  <2>4. SetUpFails \/ Fails => late' \subseteq late \cup Asks
    BY DEF SetUpFails, Fails, Asks
  <2>5. (\E w \in late : Land(w) \/ Vanish(w)) => late' \subseteq late
    BY DEF Land, Vanish
  <2> QED
    BY <2>1, <2>2, <2>3, <2>4, <2>5 DEF Next
<1>2. plug' \in [adapter : BOOLEAN, auto : BOOLEAN]
  <2>1. CASE plug' = plug
    BY <1>0, <2>1 DEF RestTypes
  <2>2. CASE End
    BY <2>2, EndTypes
  <2>3. CASE plug' = NoPlug
    BY <2>3 DEF NoPlug
  <2>4. CASE ReadPlugin
    BY <2>4, ConfFields DEF ReadPlugin, TInv, OrbitTypes
  <2>5. Run /\ ~ReadPlugin => plug' = plug \/ plug' = NoPlug \/ End
    BY DEF Run, ReadStatus, SetUp, SetUpRefused, Recheck, ReadGroup,
       WriteEntry, KeepEntry, RefuseEntry, LeaveGroup, ReadLibraries, CreateLibrary,
       PatchLibrary, KeepLibrary, RefuseLibrary, DeleteLibrary, LeaveLibraries,
       ReadDefaults, AddDefault, ReadAccess, ReadPage, SetAccess, KeepAccess, NextPage,
       LastPage, LeaveAccess, StopUpdates, NoUpdates, Upload, KeepManual,
       KeepPlugin, Rejected
  <2>6. Start \/ SelfUpdate \/ Change \/ SetUpFails \/ UNCHANGED vars
          \/ (\E w \in late : Land(w) \/ Vanish(w)) => plug' = plug
    BY DEF Start, SelfUpdate, Change, SetUpFails, vars, Land, Vanish
  <2>7. Fails => End
    BY DEF Fails
  <2> QED
    BY <2>1, <2>2, <2>3, <2>4, <2>5, <2>6, <2>7 DEF Next
<1>3. gone' \subseteq Names /\ extra' \subseteq Entries
      /\ faults' \in 0..MaxTroubles /\ changes' \in 0..MaxChanges
  <2>1. CASE UNCHANGED bounds
    BY <1>0, <2>1 DEF RestTypes, bounds
  <2>2. CASE SetUpFails \/ Fails
    <3>1. faults + changes < MaxTroubles /\ faults' = faults + 1 /\ UNCHANGED <<gone, changes>>
      BY <2>2 DEF SetUpFails, Fails
    <3>2. extra' = extra \/ \E w \in Asks : w.op = "post" /\ extra' = extra \cup {w.entry}
      <4>1. CASE SetUpFails
        BY <4>1 DEF SetUpFails
      <4>2. CASE Fails
        <5>1. PICK W \in {{}} \cup {{w} : w \in Asks} :
                extra' = extra \cup {w.entry : w \in {v \in W : v.op = "post"}}
          BY <4>2 DEF Fails
        <5> QED
          BY <5>1
      <4> QED
        BY <2>2, <4>1, <4>2
    <3>3. extra' \subseteq Entries
      BY <1>0, <3>2, RequestFields DEF RestTypes
    <3> QED
      BY <1>0, <3>1, <3>3 DEF RestTypes
  <2>3. CASE Change
    <3>1. changes < MaxChanges /\ changes' = changes + 1 /\ faults' = faults
      BY <2>3 DEF Change
    <3>2. gone' = gone \/ \E x \in libs : gone' = gone \cup {x.name}
      BY <2>3 DEF Change
    <3>3. \A x \in libs : x.name \in Names
      BY DEF TInv, OrbitTypes, Libraries
    <3>4. extra' \subseteq Entries
      BY <1>0, <2>3 DEF Change, RestTypes
    <3> QED
      BY <1>0, <3>1, <3>2, <3>3, <3>4 DEF RestTypes
  <2>4. Run => UNCHANGED bounds
    BY DEF Run, Answered, Reads, ReadStatus, SetUp,
       SetUpRefused, Recheck, ReadGroup,
       WriteEntry, KeepEntry, RefuseEntry, LeaveGroup, ReadLibraries, CreateLibrary,
       PatchLibrary, KeepLibrary, RefuseLibrary, DeleteLibrary, LeaveLibraries,
       ReadDefaults, AddDefault, ReadAccess, ReadPage, SetAccess, KeepAccess, NextPage,
       LastPage, LeaveAccess, ReadPlugin, StopUpdates, NoUpdates, Upload, KeepManual,
       KeepPlugin, Rejected
  <2>5. Start \/ SelfUpdate \/ UNCHANGED vars \/ (\E w \in late : Land(w) \/ Vanish(w))
          => UNCHANGED bounds
    BY DEF Start, Reads, SelfUpdate, vars, Land, Vanish
  <2> QED
    BY <2>1, <2>2, <2>3, <2>4, <2>5 DEF Next
<1> QED
  BY <1>1, <1>2, <1>3 DEF RestTypes

(* The invariant holds initially.                                          *)
LEMMA TypesInitially == Init => TInv
<1> SUFFICES ASSUME Init PROVE TInv
  OBVIOUS
<1>1. PICK s \in Installs : /\ libs = s.libs /\ next = s.next /\ access = s.access
                            /\ defaults = s.defaults /\ conf = s.conf
  BY DEF Init
<1>2. OrbitTypes
  BY <1>1, OrbitConstants DEF OrbitTypes
<1>3. EntryTypes
  BY Bounds DEF Init, EntryTypes, Early, NoCopies
<1>4. LibTypes
  BY DesiredNames DEF Init, LibTypes, Providing
<1>5. AccessTypes
  <2>1. /\ defs = {} /\ rights = {} /\ page = 0 /\ more = FALSE
        /\ onpage \in Seq([user : Users, role : Roles])
    BY DEF Init
  <2> QED
    BY <2>1 DEF AccessTypes
<1>6. RestTypes
  BY Bounds DEF Init, RestTypes, NoPlug
<1> QED
  BY <1>2, <1>3, <1>4, <1>5, <1>6 DEF TInv

(* Every variable stays in its domain: in particular identifiers stay      *)
(* unique, a user has one level of access to a library, and no page beyond *)
(* the last user is read, though users come and go between two pages.      *)
THEOREM Types == Spec => []TypeOK
<1>1. TInv /\ [Next]_vars => TInv'
  BY OrbitStep, EntryStep, LibStep, AccessStep, RestStep DEF TInv
<1>2. TInv => TypeOK
  BY DEF TInv, OrbitTypes, EntryTypes, LibTypes, AccessTypes, RestTypes, TypeOK
<1> QED
  BY <1>1, <1>2, TypesInitially, PTL DEF Spec
=============================================================================
