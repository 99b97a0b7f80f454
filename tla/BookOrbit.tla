----------------------------- MODULE BookOrbit -----------------------------
(***************************************************************************)
(* The BookOrbit reconciler, reconcile.mjs: a CronJob that brings the      *)
(* configuration behind BookOrbit's HTTP API to what the script lists.     *)
(* Each section reads, compares and writes, one request after another; any *)
(* failure ends the run, and the next run starts over.  A request that     *)
(* timed out may take effect all the same, at once or much later.          *)
(*                                                                         *)
(* An entry is a thing that the script looks up by name and creates if it  *)
(* finds none: a setting, a group mapping, the provider, the manager, the  *)
(* download client, an indexer, the mail provider.  BookOrbit may hold     *)
(* several copies of that name, in the order in which they were made.  Each*)
(* is "right", "stale" or "other" (of a type that the script refuses to    *)
(* touch), or "gone".  The script brings one of them in line, and deletes  *)
(* none but those of obsolete mappings.                                    *)
(***************************************************************************)
EXTENDS Naturals, Sequences, FiniteSets

CONSTANTS
    Desired,        \* the names of the libraries to have, in order
    Users,          \* the users that may be provisioned
    PageSize,       \* users on a page, 100
    Entries,        \* the entries
    Mode,           \* Mode[e]: how the script treats entry e
    Groups,         \* the lists of entries whose copies are read together
    LibrariesAfter, \* the libraries follow this group,
    PluginsAfter,   \* the plugin this one
    Installs,       \* the states of BookOrbit before the first run
    Names,          \* the names that libraries may have
    MaxChanges,     \* bound: changes by others in all
    MaxTroubles     \* bound: failures and changes in all

Copies == {"right", "stale", "other", "gone"}
Roles == {"admin", "reader", "guest", "inactive"}
Rows == [lib : Nat, user : Users, level : {"editor", "viewer"}]
Libraries == [id : Nat, name : Names, fits : BOOLEAN, cron : BOOLEAN]
Confs == [ready : BOOLEAN, entries : [Entries -> Seq(Copies)],
          role : [Users -> Roles], roster : Seq(Users),
          file : {"none", "moved", "pinned"}, adapter : BOOLEAN, auto : BOOLEAN]

ASSUME OrbitConstants ==
    /\ Desired \in Seq(Names)
    /\ \A i, j \in DOMAIN Desired : Desired[i] = Desired[j] => i = j
    /\ IsFiniteSet(Users)
    /\ PageSize \in Nat \ {0}
    /\ Mode \in [Entries -> {"blind", "upsert", "typed", "lazy", "obsolete"}]
    /\ Groups \in Seq(Seq(Entries))
    /\ LibrariesAfter \in 1..(PluginsAfter - 1) /\ PluginsAfter \in 1..(Len(Groups) - 1)
    /\ \A s \in Installs : /\ s.conf \in Confs /\ s.next \in Nat
                           /\ s.libs \subseteq Libraries /\ s.access \subseteq Rows
                           /\ s.defaults \subseteq Nat
                           /\ \A x \in s.libs : x.id < s.next
                           /\ \A x, y \in s.libs : x.id = y.id => x = y
                           /\ \A r, t \in s.access : r.lib = t.lib /\ r.user = t.user => r = t
                           /\ \A i, j \in DOMAIN s.conf.roster :
                                 s.conf.roster[i] = s.conf.roster[j] => i = j
    /\ MaxChanges \in Nat /\ MaxTroubles \in Nat

VARIABLES           \* BookOrbit
    libs,           \* its libraries: folder and mode fit, scan schedule is right
    next,           \* the next identifier
    access,         \* who has which access to which library
    defaults,       \* the libraries that new users may see
    conf,           \* setup, entries, users, the plugin
    late            \* requests that timed out and may still take effect

VARIABLES           \* the run
    pc,
    group, found, left,     \* the group, its copies as read, the entries to go
    listed, managed, todo,  \* libraries as read, managed ids, ids whose access is to go
    defs, rights,           \* default and user access as read
    page, onpage, more,     \* the page, its users to go, whether another follows
    plug                    \* whether the adapter is known and updates itself, as read

VARIABLES           \* history and bounds
    gone,           \* names of libraries that others removed
    extra,          \* entries whose creation timed out or that others added to
    faults, changes

orbit == <<libs, next, access, defaults, conf>>
entryVars == <<group, found, left>>
libVars == <<listed, managed, todo>>
accessVars == <<defs, rights, page, onpage, more>>
bounds == <<gone, extra, faults, changes>>
vars == <<orbit, late, pc, entryVars, libVars, accessVars, plug, bounds>>
-----------------------------------------------------------------------------
Elems(s) == {s[i] : i \in DOMAIN s}
Less(m, n) == IF m < n THEN m ELSE n
Ids == {x.id : x \in libs}

NoCopies == [e \in Entries |-> <<>>]
Standing(copies) == {i \in DOMAIN copies : copies[i] # "gone"}
NoPlug == [adapter |-> FALSE, auto |-> FALSE]

(* What BookOrbit does with request w; it refuses what concerns a library, *)
(* a user or a copy that is not there.                                     *)
Requests ==
    [op : {"setup", "upload", "manual"}]
        \cup [op : {"set", "post"}, entry : Entries]
        \cup [op : {"put", "drop"}, entry : Entries, copy : Nat]
        \cup [op : {"create"}, name : Names]
        \cup [op : {"patch", "delete"}, lib : Nat]
        \cup [op : {"defaults"}, ids : SUBSET Nat]
        \cup [op : {"grant"}, row : Rows]
        \cup [op : {"revoke"}, lib : Nat, user : Users]

Accepts(w) ==
    CASE w.op = "setup" -> ~conf.ready
      [] w.op \in {"put", "drop"} -> w.copy \in Standing(conf.entries[w.entry])
      [] w.op \in {"patch", "delete", "revoke"} -> w.lib \in Ids
      [] w.op = "grant" -> w.row.lib \in Ids /\ w.row.user \in Elems(conf.roster)
      [] OTHER -> TRUE

LibsAfter(w) ==
    CASE w.op = "create" -> libs \cup {[id |-> next, name |-> w.name, fits |-> TRUE, cron |-> TRUE]}
      [] w.op = "patch"  -> {IF x.id = w.lib THEN [x EXCEPT !.cron = TRUE] ELSE x : x \in libs}
      [] w.op = "delete" -> {x \in libs : x.id # w.lib}
      [] OTHER           -> libs

AccessAfter(w) ==
    CASE w.op = "grant"  -> {r \in access : r.lib # w.row.lib \/ r.user # w.row.user} \cup {w.row}
      [] w.op = "revoke" -> {r \in access : r.lib # w.lib \/ r.user # w.user}
      [] w.op = "delete" -> {r \in access : r.lib # w.lib}
      [] OTHER           -> access

DefaultsAfter(w) ==
    CASE w.op = "defaults" -> w.ids \cap Ids
      [] w.op = "delete"   -> defaults \ {w.lib}
      [] OTHER             -> defaults

ConfAfter(w) ==
    CASE w.op = "setup"  -> [conf EXCEPT !.ready = TRUE]
      [] w.op = "set"    -> [conf EXCEPT !.entries[w.entry] = <<"right">>]
      [] w.op = "post"   -> [conf EXCEPT !.entries[w.entry] = Append(@, "right")]
      [] w.op = "put"    -> [conf EXCEPT !.entries[w.entry][w.copy] = "right"]
      [] w.op = "drop"   -> [conf EXCEPT !.entries[w.entry][w.copy] = "gone"]
      [] w.op = "upload" -> [conf EXCEPT !.file = "pinned", !.adapter = TRUE]
      [] w.op = "manual" -> [conf EXCEPT !.auto = FALSE]
      [] OTHER           -> conf

Takes(w) ==
    /\ Accepts(w)
    /\ libs' = LibsAfter(w)
    /\ next' = IF w.op = "create" THEN next + 1 ELSE next
    /\ access' = AccessAfter(w)
    /\ defaults' = DefaultsAfter(w)
    /\ conf' = ConfAfter(w)

(* Request w is answered as expected.                                      *)
Answered(w) == Takes(w) /\ UNCHANGED <<late, bounds>>

(* A step of the script without a request that changes anything.           *)
Reads == UNCHANGED <<orbit, late, bounds>>
-----------------------------------------------------------------------------
Init ==
    /\ \E s \in Installs : /\ libs = s.libs /\ next = s.next /\ access = s.access
                           /\ defaults = s.defaults /\ conf = s.conf
    /\ late = {}
    /\ pc = "idle"
    /\ group = 0 /\ found = NoCopies /\ left = <<>>
    /\ listed = {} /\ managed = <<>> /\ todo = <<>>
    /\ defs = {} /\ rights = {} /\ page = 0 /\ onpage = <<>> /\ more = FALSE
    /\ plug = NoPlug
    /\ gone = {} /\ extra = {} /\ faults = 0 /\ changes = 0

(* The CronJob or its Job starts a pod; there is one at a time.            *)
Start ==
    /\ pc = "idle"
    /\ pc' = "status"
    /\ Reads /\ UNCHANGED <<entryVars, libVars, accessVars, plug>>

(* The run is over, well or not.                                           *)
End ==
    /\ pc' = "idle"
    /\ group' = 0 /\ found' = NoCopies /\ left' = <<>>
    /\ listed' = {} /\ managed' = <<>> /\ todo' = <<>>
    /\ defs' = {} /\ rights' = {} /\ page' = 0 /\ onpage' = <<>> /\ more' = FALSE
    /\ plug' = NoPlug

SetupAsks == {w \in [op : {"setup"}] : pc = "setup"}

(* ensureBootstrap: BookOrbit is set up already, or not.                   *)
ReadStatus ==
    /\ pc = "status"
    /\ IF conf.ready THEN pc' = "group" /\ group' = 1 ELSE pc' = "setup" /\ UNCHANGED group
    /\ Reads /\ UNCHANGED <<found, left, libVars, accessVars, plug>>

SetUp ==
    /\ \E w \in SetupAsks : Answered(w)
    /\ pc' = "group" /\ group' = 1
    /\ UNCHANGED <<found, left, libVars, accessVars, plug>>

(* A failed setup is forgiven if BookOrbit is set up by now.               *)
SetUpFails ==
    /\ \E w \in SetupAsks :
          /\ faults + changes < MaxTroubles /\ faults' = faults + 1
          /\ late' \in {late, late \cup {w}}
    /\ pc' = "recheck"
    /\ UNCHANGED <<orbit, entryVars, libVars, accessVars, plug, gone, extra, changes>>

(* It is forgiven, too, if BookOrbit refuses it, being set up already.     *)
SetUpRefused ==
    /\ \E w \in SetupAsks : ~Accepts(w)
    /\ pc' = "recheck"
    /\ Reads /\ UNCHANGED <<entryVars, libVars, accessVars, plug>>

Recheck ==
    /\ pc = "recheck"
    /\ IF conf.ready THEN /\ pc' = "group" /\ group' = 1
                          /\ UNCHANGED <<found, left, libVars, accessVars, plug>>
                     ELSE End
    /\ Reads

(* The copies of a group are read.                                         *)
ReadGroup ==
    /\ pc = "group"
    /\ pc' = "entry"
    /\ found' = [e \in Entries |-> IF e \in Elems(Groups[group]) THEN conf.entries[e] ELSE <<>>]
    /\ left' = Groups[group]
    /\ Reads /\ UNCHANGED <<group, libVars, accessVars, plug>>

(* The copy of entry e that the script looks at, of those it has read: the *)
(* first, with find(), or the last, with a Map.                            *)
Taken(e, copies) ==
    {i \in Standing(copies) :
        \A j \in Standing(copies) : IF Mode[e] = "lazy" THEN j <= i ELSE i <= j}

(* What the script does about entry e if that copy is c.                   *)
Refused(e, c) == Mode[e] = "typed" /\ c = "other"
Written(e, c) == Mode[e] = "upsert" \/ (Mode[e] = "typed" /\ c # "other")
                                    \/ (Mode[e] = "lazy" /\ c # "right")

AsksFor(e) ==
    IF Mode[e] = "blind" THEN [op : {"set"}, entry : {e}]
    ELSE IF Mode[e] = "obsolete" THEN [op : {"drop"}, entry : {e}, copy : Standing(found[e])]
    ELSE IF Standing(found[e]) = {} THEN [op : {"post"}, entry : {e}]
    ELSE [op : {"put"}, entry : {e}, copy : {i \in Taken(e, found[e]) : Written(e, found[e][i])}]

EntryAsks == IF pc = "entry" /\ left # <<>> THEN AsksFor(Head(left)) ELSE {}

WriteEntry ==
    /\ \E w \in EntryAsks :
          /\ Answered(w)
          /\ IF w.op = "drop"
             THEN found' = [found EXCEPT ![w.entry][w.copy] = "gone"] /\ UNCHANGED left
             ELSE left' = Tail(left) /\ UNCHANGED found
    /\ UNCHANGED <<pc, group, libVars, accessVars, plug>>

KeepEntry ==
    /\ pc = "entry" /\ left # <<>>
    /\ LET e == Head(left) IN
       \/ Mode[e] = "lazy" /\ \E i \in Taken(e, found[e]) : found[e][i] = "right"
       \/ Mode[e] = "obsolete" /\ Standing(found[e]) = {}
    /\ left' = Tail(left)
    /\ Reads /\ UNCHANGED <<pc, group, found, libVars, accessVars, plug>>

RefuseEntry ==
    /\ pc = "entry" /\ left # <<>>
    /\ LET e == Head(left) IN \E i \in Taken(e, found[e]) : Refused(e, found[e][i])
    /\ End
    /\ Reads

(* The group is done: the script goes on, or has done everything.          *)
LeaveGroup ==
    /\ pc = "entry" /\ left = <<>>
    /\ IF group = Len(Groups) THEN End
       ELSE /\ group' = group + 1
            /\ pc' = CASE group = LibrariesAfter -> "libraries"
                       [] group = PluginsAfter   -> "plugins"
                       [] OTHER                  -> "group"
            /\ found' = NoCopies
            /\ UNCHANGED <<left, libVars, accessVars, plug>>
    /\ Reads
-----------------------------------------------------------------------------
(* ensureLibraries: the list is read once.                                 *)
ReadLibraries ==
    /\ pc = "libraries"
    /\ pc' = "ensure"
    /\ listed' = libs
    /\ Reads /\ UNCHANGED <<entryVars, managed, todo, accessVars, plug>>

(* libraries.find: the first of that name, in the order of creation.       *)
First(n) == {x \in listed : x.name = n /\ \A y \in listed : y.name = n => x.id <= y.id}

(* The desired library whose turn it is.                                   *)
Turn == Desired[Len(managed) + 1]

Ensuring == pc = "ensure" /\ Len(managed) < Len(Desired)

CreateAsks == IF Ensuring /\ First(Turn) = {} THEN [op : {"create"}, name : {Turn}] ELSE {}

PatchAsks ==
    IF Ensuring THEN [op : {"patch"}, lib : {x.id : x \in {y \in First(Turn) : y.fits /\ ~y.cron}}]
                ELSE {}

CreateLibrary ==
    /\ \E w \in CreateAsks : Answered(w)
    /\ managed' = Append(managed, next)
    /\ UNCHANGED <<pc, entryVars, listed, todo, accessVars, plug>>

PatchLibrary ==
    /\ \E w \in PatchAsks : Answered(w) /\ managed' = Append(managed, w.lib)
    /\ UNCHANGED <<pc, entryVars, listed, todo, accessVars, plug>>

KeepLibrary ==
    /\ Ensuring
    /\ \E x \in First(Turn) : x.fits /\ x.cron /\ managed' = Append(managed, x.id)
    /\ Reads /\ UNCHANGED <<pc, entryVars, listed, todo, accessVars, plug>>

(* It has another folder or organization mode.                             *)
RefuseLibrary ==
    /\ Ensuring
    /\ \E x \in First(Turn) : ~x.fits
    /\ End
    /\ Reads

DeletesEarly == pc = "ensure"

(* All desired libraries are there: the others may go.                     *)
Deletes == pc = "ensure" /\ Len(managed) = Len(Desired)

Doomed == {x \in listed : x.id \notin Elems(managed)}

DeleteAsks == IF Deletes THEN [op : {"delete"}, lib : {x.id : x \in Doomed}] ELSE {}

DeleteLibrary ==
    /\ \E w \in DeleteAsks : Answered(w) /\ listed' = {x \in listed : x.id # w.lib}
    /\ UNCHANGED <<pc, entryVars, managed, todo, accessVars, plug>>

LeaveLibraries ==
    /\ Deletes /\ Doomed = {}
    /\ pc' = "defaults"
    /\ todo' = managed
    /\ listed' = {} /\ managed' = <<>>
    /\ Reads /\ UNCHANGED <<entryVars, accessVars, plug>>
-----------------------------------------------------------------------------
(* reconcileLibraryAccess, for one library after another.                  *)
ReadDefaults ==
    /\ pc = "defaults" /\ todo # <<>>
    /\ IF Head(todo) \in defaults THEN pc' = "access" /\ UNCHANGED defs
                                  ELSE pc' = "add" /\ defs' = defaults
    /\ Reads /\ UNCHANGED <<entryVars, libVars, rights, page, onpage, more, plug>>

WithoutOthers(lib) == {lib}

(* [...defaults.libraryIds, library.id]                                    *)
WithDefault(lib) == defs \cup {lib}

DefaultAsks == IF pc = "add" THEN [op : {"defaults"}, ids : {WithDefault(Head(todo))}] ELSE {}

AddDefault ==
    /\ \E w \in DefaultAsks : Answered(w)
    /\ pc' = "access"
    /\ defs' = {}
    /\ UNCHANGED <<entryVars, libVars, rights, page, onpage, more, plug>>

(* The access to the library is read, which exists.                        *)
ReadAccess ==
    /\ pc = "access"
    /\ Head(todo) \in Ids
    /\ rights' = {r \in access : r.lib = Head(todo)}
    /\ pc' = "page"
    /\ page' = 0
    /\ Reads /\ UNCHANGED <<entryVars, libVars, defs, onpage, more, plug>>

MoreThan(n) == n <= Len(conf.roster)

(* No break yet after n users: n < result.total                            *)
MoreThanRead(n) == n < Len(conf.roster)

(* A page of users, with their roles at the time.                          *)
ReadPage ==
    /\ pc = "page"
    /\ LET users == SubSeq(conf.roster, page * PageSize + 1,
                           Less((page + 1) * PageSize, Len(conf.roster))) IN
       /\ onpage' = [i \in DOMAIN users |-> [user |-> users[i], role |-> conf.role[users[i]]]]
       /\ more' = MoreThanRead(page * PageSize + Len(users))
    /\ pc' = "user"
    /\ Reads /\ UNCHANGED <<entryVars, libVars, defs, rights, page, plug>>

Level(role) ==
    CASE role = "admin"  -> {"editor"}
      [] role = "reader" -> {"viewer"}
      [] OTHER           -> {}

Current(user) == {r.level : r \in {s \in rights : s.user = user}}

UserAsks ==
    IF pc = "user" /\ onpage # <<>>
    THEN LET u == Head(onpage).user
             level == Level(Head(onpage).role) IN
         IF level = {} /\ Current(u) # {}
         THEN [op : {"revoke"}, lib : {Head(todo)}, user : {u}]
         ELSE [op : {"grant"}, row : [lib : {Head(todo)}, user : {u}, level : level \ Current(u)]]
    ELSE {}

SetAccess ==
    /\ \E w \in UserAsks : Answered(w)
    /\ onpage' = Tail(onpage)
    /\ UNCHANGED <<pc, entryVars, libVars, defs, rights, page, more, plug>>

KeepAccess ==
    /\ pc = "user" /\ onpage # <<>>
    /\ UserAsks = {}
    /\ onpage' = Tail(onpage)
    /\ Reads /\ UNCHANGED <<pc, entryVars, libVars, defs, rights, page, more, plug>>

NextPage ==
    /\ pc = "user" /\ onpage = <<>> /\ more
    /\ pc' = "page"
    /\ page' = page + 1
    /\ more' = FALSE
    /\ Reads /\ UNCHANGED <<entryVars, libVars, defs, rights, onpage, plug>>

LastPage ==
    /\ pc = "user" /\ onpage = <<>> /\ ~more
    /\ pc' = "defaults"
    /\ todo' = Tail(todo)
    /\ rights' = {}
    /\ page' = 0
    /\ Reads /\ UNCHANGED <<entryVars, listed, managed, defs, onpage, more, plug>>

LeaveAccess ==
    /\ pc = "defaults" /\ todo = <<>>
    /\ pc' = "group"
    /\ Reads /\ UNCHANGED <<entryVars, libVars, accessVars, plug>>
-----------------------------------------------------------------------------
(* reconcileOpenLibraryPlugins, for one plugin: what BookOrbit says of it. *)
ReadPlugin ==
    /\ pc = "plugins"
    /\ pc' = "channel"
    /\ plug' = [adapter |-> conf.adapter, auto |-> conf.adapter /\ conf.auto]
    /\ Reads /\ UNCHANGED <<entryVars, libVars, accessVars>>

(* The installed file is read: is it the pinned one?                       *)
Pinned == conf.file = "pinned" /\ plug.adapter

ChannelAsks == IF pc = "channel" /\ plug.auto THEN [op : {"manual"}] ELSE {}
UploadAsks == IF pc = "file" /\ ~Pinned THEN [op : {"upload"}] ELSE {}
ManualAsks == IF pc = "uploaded" THEN [op : {"manual"}] ELSE {}

(* Its own updates are switched off before the file is restored.           *)
StopUpdates ==
    /\ \E w \in ChannelAsks : Answered(w)
    /\ pc' = "file"
    /\ UNCHANGED <<entryVars, libVars, accessVars, plug>>

NoUpdates ==
    /\ pc = "channel" /\ ~plug.auto
    /\ pc' = "file"
    /\ Reads /\ UNCHANGED <<entryVars, libVars, accessVars, plug>>

Upload ==
    /\ \E w \in UploadAsks : Answered(w)
    /\ pc' = "uploaded"
    /\ UNCHANGED <<entryVars, libVars, accessVars, plug>>

KeepManual ==
    /\ \E w \in ManualAsks : Answered(w)
    /\ pc' = "group"
    /\ plug' = NoPlug
    /\ UNCHANGED <<entryVars, libVars, accessVars>>

KeepPlugin ==
    /\ pc = "file" /\ Pinned
    /\ pc' = "group"
    /\ plug' = NoPlug
    /\ Reads /\ UNCHANGED <<entryVars, libVars, accessVars>>
-----------------------------------------------------------------------------
(* The requests that the run may make now.                                 *)
Asks == SetupAsks \cup EntryAsks \cup CreateAsks \cup PatchAsks \cup DeleteAsks
            \cup DefaultAsks \cup UserAsks \cup ChannelAsks \cup UploadAsks \cup ManualAsks

(* BookOrbit refuses what the run asks for, which somebody else removed.   *)
Rejected ==
    /\ \/ pc # "setup" /\ \E w \in Asks : ~Accepts(w)
       \/ pc = "access" /\ Head(todo) \notin Ids
    /\ End
    /\ Reads

(* Any request or check fails, or the pod is stopped.                      *)
Fails ==
    /\ pc # "idle"
    /\ faults + changes < MaxTroubles
    /\ faults' = faults + 1
    /\ End
    /\ \E W \in {{}} \cup {{w} : w \in Asks} :
          /\ late' = late \cup W
          /\ extra' = extra \cup {w.entry : w \in {v \in W : v.op = "post"}}
    /\ UNCHANGED <<orbit, gone, changes>>

(* A request that timed out takes effect after all, or never.              *)
Land(w) ==
    /\ w \in late
    /\ late' = late \ {w}
    /\ Takes(w)
    /\ UNCHANGED <<pc, entryVars, libVars, accessVars, plug, bounds>>

Vanish(w) ==
    /\ w \in late
    /\ late' = late \ {w}
    /\ UNCHANGED <<orbit, pc, entryVars, libVars, accessVars, plug, bounds>>

(* The plugin updates itself.                                              *)
SelfUpdate ==
    /\ conf.adapter /\ conf.auto
    /\ conf' = [conf EXCEPT !.file = "moved"]
    /\ UNCHANGED <<libs, next, access, defaults, late, pc, entryVars, libVars,
                   accessVars, plug, bounds>>

Without(s, i) == [j \in 1..(Len(s) - 1) |-> IF j < i THEN s[j] ELSE s[j + 1]]

(* Other people, or BookOrbit's sign-in, change something.                 *)
ConfChanged ==
    \/ \E u \in Users, r \in Roles : conf' = [conf EXCEPT !.role[u] = r]
    \/ \E i \in DOMAIN conf.roster : conf' = [conf EXCEPT !.roster = Without(@, i)]
    \/ \E u \in Users \ Elems(conf.roster) : conf' = [conf EXCEPT !.roster = <<u>> \o @]
    \/ \E e \in Entries : \E i \in Standing(conf.entries[e]) :
          conf' = [conf EXCEPT !.entries[e][i] = "stale"]
    \/ \E e \in Entries : \E i \in Standing(conf.entries[e]) :
          Mode[e] # "blind" /\ conf' = [conf EXCEPT !.entries[e][i] = "gone"]
    \/ \E e \in Entries :
          Mode[e] # "blind" /\ conf' = [conf EXCEPT !.entries[e] = Append(@, "stale")]
    \/ conf' = [conf EXCEPT !.auto = conf.adapter]
    \/ conf' = [conf EXCEPT !.file = "none", !.adapter = FALSE, !.auto = FALSE]

Change ==
    /\ changes < MaxChanges /\ faults + changes < MaxTroubles
    /\ changes' = changes + 1
    /\ \/ /\ ConfChanged
          /\ access' = {r \in access : r.user \in Elems(conf'.roster)}
          /\ UNCHANGED <<libs, next, defaults, gone>>
       \/ /\ \E n \in Names, fits \in BOOLEAN :
                libs' = libs \cup {[id |-> next, name |-> n, fits |-> fits, cron |-> FALSE]}
          /\ next' = next + 1
          /\ UNCHANGED <<access, defaults, conf, gone>>
       \/ \E x \in libs :
             /\ libs' = libs \ {x}
             /\ access' = {r \in access : r.lib # x.id}
             /\ defaults' = defaults \ {x.id}
             /\ gone' = gone \cup {x.name}
             /\ UNCHANGED <<next, conf>>
       \/ /\ \E x \in libs : defaults' = defaults \ {x.id}
          /\ access' = {}
          /\ UNCHANGED <<libs, next, conf, gone>>
    /\ extra' = extra \cup {e \in Entries : Len(conf'.entries[e]) > Len(conf.entries[e])}
    /\ UNCHANGED <<late, pc, entryVars, libVars, accessVars, plug, faults>>

Run ==
    \/ ReadStatus \/ SetUp \/ SetUpRefused \/ Recheck
    \/ ReadGroup \/ WriteEntry \/ KeepEntry \/ RefuseEntry \/ LeaveGroup
    \/ ReadLibraries \/ CreateLibrary \/ PatchLibrary \/ KeepLibrary \/ RefuseLibrary
    \/ DeleteLibrary \/ LeaveLibraries
    \/ ReadDefaults \/ AddDefault \/ ReadAccess \/ ReadPage \/ SetAccess \/ KeepAccess
    \/ NextPage \/ LastPage \/ LeaveAccess
    \/ ReadPlugin \/ StopUpdates \/ NoUpdates \/ Upload \/ KeepManual \/ KeepPlugin
    \/ Rejected

Next ==
    \/ Start
    \/ Run
    \/ SetUpFails
    \/ Fails
    \/ \E w \in late : Land(w) \/ Vanish(w)
    \/ SelfUpdate
    \/ Change

Spec == Init /\ [][Next]_vars

(* Runs start and go on, and no request stays under way for ever.          *)
FairSpec ==
    /\ Spec
    /\ WF_vars(Start \/ Run)
    /\ WF_vars(\E w \in late : Land(w) \/ Vanish(w))
-----------------------------------------------------------------------------
(* Every variable stays in its domain, ids are unique, a library has one   *)
(* level per user, and no page beyond the last user is read.               *)
TypeOK ==
    /\ libs \subseteq Libraries
    /\ \A x \in libs : x.id < next
    /\ \A x, y \in libs : x.id = y.id => x = y
    /\ access \subseteq Rows
    /\ \A r, s \in access : r.lib = s.lib /\ r.user = s.user => r = s
    /\ defaults \subseteq Nat
    /\ conf \in Confs
    /\ late \subseteq Requests
    /\ group \in 0..Len(Groups)
    /\ found \in [Entries -> Seq(Copies)]
    /\ left \in Seq(Entries)
    /\ listed \subseteq Libraries
    /\ managed \in Seq(Nat) /\ Len(managed) <= Len(Desired)
    /\ todo \in Seq(Nat)
    /\ defs \subseteq Nat
    /\ rights \subseteq Rows
    /\ page = 0 \/ page * PageSize < Cardinality(Users)
    /\ onpage \in Seq([user : Users, role : Roles])
    /\ more \in BOOLEAN
    /\ plug \in [adapter : BOOLEAN, auto : BOOLEAN]
    /\ gone \subseteq Names /\ extra \subseteq Entries
    /\ faults \in 0..MaxTroubles /\ changes \in 0..MaxChanges

(* "This list is authoritative: deleting other libraries also removes      *)
(* their catalog data": whatever the script deletes, in any run and        *)
(* however late the request takes effect, every desired library is there   *)
(* before and after, unless others removed one of that name.               *)
ManagedKept ==
    [][changes' = changes /\ (\E x \in libs : \A y \in libs' : y.id # x.id) =>
           \A n \in Elems(Desired) : n \in gone \/ \E y \in libs' : y.name = n /\ y.fits]_vars

(* A library or an entry that the script will not touch.                   *)
Refuses ==
    \/ \E x \in libs : ~x.fits /\ x.name \in Elems(Desired)
    \/ \E e \in Entries : \E i \in Taken(e, conf.entries[e]) : Refused(e, conf.entries[e][i])

(* An entry is as the script wants it: nothing is left of an obsolete one, *)
(* and of any other the copy that the script looks at is right.  It is the *)
(* only copy, unless a creation that timed out, or somebody else, may have *)
(* made more: those the script leaves as they are, right or stale.         *)
EntrySettled(e) ==
    LET copies == conf.entries[e] IN
    IF Mode[e] = "obsolete" THEN Standing(copies) = {}
    ELSE /\ \E i \in Taken(e, copies) : copies[i] = "right"
         /\ e \in extra \/ Cardinality(Standing(copies)) = 1

(* Everything is as the script lists it.                                   *)
Settled ==
    /\ conf.ready
    /\ {x.name : x \in libs} = Elems(Desired)
    /\ Cardinality(libs) = Len(Desired)
    /\ \A x \in libs : x.fits /\ x.cron /\ x.id \in defaults
    /\ access = {r \in [lib : Ids, user : Elems(conf.roster), level : {"editor", "viewer"}] :
                    r.level \in Level(conf.role[r.user])}
    /\ \A e \in Entries : EntrySettled(e)
    /\ conf.file = "pinned" /\ conf.adapter /\ ~conf.auto

(* Whatever failed half way, took effect late or was changed by others,    *)
(* once that is over the runs bring everything to what is listed, and      *)
(* further runs leave it so; what needs a hand is a refusal, and the copies*)
(* of an entry that were made twice.                                       *)
Converges == <>[](Settled \/ Refuses)
=============================================================================
