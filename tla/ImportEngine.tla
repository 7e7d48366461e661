------------------------------ MODULE ImportEngine ------------------------------
(***************************************************************************)
(* The transaction of an import (services/import_bulk.py) next to those of *)
(* editors (services/strings.py, update_string) and of module deletion     *)
(* (services/catalog.py).  Postgres, at READ COMMITTED, lets a statement   *)
(* see what is committed when it starts, makes it wait for the locks of    *)
(* others, and breaks a circle of waiting transactions by aborting one.    *)
(* What an import does with the rows is CatalogRows!Plan.                  *)
(***************************************************************************)
EXTENDS CatalogRows

CONSTANTS
    Clients,    \* each sends one request
    Scenes,     \* who sends what: names
    Requests,   \* the requests that each client may send in each scene
    Setups      \* what to start from: a catalog, layout, key policy and scene

\* What a client may send; a module deletion moves published snapshots.
ImportRequests ==
    [kind: {"import"}, file: Seq(ImportRows), public: BOOLEAN, reject: BOOLEAN]
SaveRequests ==
    [kind: {"save"}, checked: BOOLEAN, s: Strings, key: Keys \cup {None}, move: BOOLEAN,
     mod: Modules \cup {None}, text: Texts \cup {None}, public: BOOLEAN]
DeleteRequests == [kind: {"delete"}, mod: Modules, public: {TRUE}]
CreateRequests == [kind: {"create"}, x: Contents, public: BOOLEAN]
ModuleRequests == [kind: {"module"}, slug: Slugs, public: {FALSE}]
RenameRequests == [kind: {"rename"}, mod: Modules, slug: Slugs, public: {FALSE}]
AllRequests ==
    ImportRequests \cup SaveRequests \cup DeleteRequests
      \cup CreateRequests \cup ModuleRequests \cup RenameRequests

ASSUME EngineAssumption ==
    /\ None \notin AllRequests
    /\ Setups \subseteq [cat: Catalogs, modular: BOOLEAN, duplicates: BOOLEAN, scene: Scenes]
    /\ \A u \in Setups : ModulesKept(u.cat) /\ SlugsUnique(u.cat) /\ Snapshots(u.cat)
    /\ DOMAIN Requests = Scenes
    /\ \A scene \in Scenes : Requests[scene] \in [Clients -> SUBSET AllRequests]

VARIABLES
    cat,        \* the committed strings and modules
    setting,    \* layout, key policy and scene
    task,       \* the request of each client and the progress of its transaction
    held,       \* locks of each transaction
    queue,      \* locks that its current statement still has to take, in order
    moved       \* history: a string has changed its key or modules in the middle of an
                \* import, or of a deletion that waits for strings

vars == <<cat, setting, task, held, queue, moved>>

-----------------------------------------------------------------------------
(* Locks.                                                                  *)

\* "share" and "module" are the two modes in which the row of a module is locked;
\* "key" is an entry of the unique indexes that is not committed yet.
Publication == <<"publication">>
Share(m) == <<"share", m>>
Whole(m) == <<"module", m>>
Entry(s) == <<"string", s>>
Key(r) == <<"key", KeyIdentity(setting.duplicates, r)>>
Slug(slug) == <<"slug", slug>>

Conflict(i, j) ==
    \/ i = j /\ i[1] # "share"
    \/ {i[1], j[1]} = {"share", "module"} /\ i[2] = j[2]

WaitsFor(c, d) ==
    c # d /\ queue[c] # <<>> /\ \E j \in held[d] : Conflict(Head(queue[c]), j)

\* Each of D waits, through some others of D, for itself.
Circle(D) == \A d \in D : \E e, f \in D : WaitsFor(d, e) /\ WaitsFor(f, d)
InCircle(c) == \E D \in SUBSET Clients : c \in D /\ Circle(D)

\* Nobody else has, or waits for, a lock in the way of m.
Unnamed(c, m) ==
    \A d \in Clients \ {c} : \A i \in held[d] \cup ToSet(queue[d]) : ~Conflict(Whole(m), i)
Free(items) == \A d \in Clients : \A i \in items, j \in held[d] : ~Conflict(i, j)

InOrder(S) ==
    CHOOSE ids \in SetToSeqs(S) : \A i, j \in DOMAIN ids : i < j => ids[i] < ids[j]
Locks(mode(_), ids) == [i \in DOMAIN ids |-> mode(ids[i])]
Unless(none, item) == IF none THEN <<>> ELSE <<item>>

-----------------------------------------------------------------------------
(* Transactions.                                                           *)

Idle == [req |-> None, pc |-> "idle", tries |-> 0, open |-> None, got |-> {}, view |-> None,
         plan |-> None]

Init ==
    /\ \E u \in Setups :
          /\ cat = u.cat
          /\ setting = [modular |-> u.modular, duplicates |-> u.duplicates, scene |-> u.scene]
    /\ KeysAlive(setting.duplicates, cat.rows) /\ KeysPublic(setting.modular, cat)
    /\ task = [c \in Clients |-> Idle]
    /\ held = [c \in Clients |-> {}]
    /\ queue = [c \in Clients |-> <<>>]
    /\ moved = FALSE

Req(c) == task[c].req
At(c, kind, pc) ==
    task[c].pc = pc /\ queue[c] = <<>> /\ Req(c).kind = kind

\* What the finished statements of c have locked, as they have returned it.
Got(c, pc) == {g[2] : g \in {h \in task[c].got : h[1] = pc}}

Importing(c) == task[c].pc \in {"modules", "entries", "rows", "checked", "created", "planned"}
Clearing(c) == task[c].pc \in {"refs", "published"}

\* Mutant: an import takes no publication lock.
BegunUnlocked(c, req, tries, open) ==
    /\ task' = [task EXCEPT ![c] =
                   [Idle EXCEPT !.req = req, !.pc = "begun", !.tries = tries, !.open = open]]
    /\ queue' = [queue EXCEPT ![c] = Unless(~req.public \/ req.kind = "import", Publication)]

\* A request that publishes, and a module deletion, calls lock_publication first.  An
\* editor has the string open as it was when it sends the save.
Begun(c, req, tries, open) ==
    /\ task' = [task EXCEPT ![c] =
                   [Idle EXCEPT !.req = req, !.pc = "begun", !.tries = tries, !.open = open]]
    /\ queue' = [queue EXCEPT ![c] = Unless(~req.public, Publication)]

Begin(c, req) ==
    /\ task[c].pc = "idle"
    /\ req.kind = "import" => \A d \in Clients : task[d].req # None => Req(d).kind # "import"
    /\ Begun(c, req, 1, IF req.kind = "save" THEN cat.rows[req.s] ELSE None)
    /\ UNCHANGED <<cat, setting, held, moved>>

\* The next statement of c, with the locks it takes.
Statement(c, pc, locks) ==
    /\ task' = [task EXCEPT ![c].pc = pc]
    /\ queue' = [queue EXCEPT ![c] = locks]
    /\ UNCHANGED <<cat, setting, held, moved>>

End(c) ==
    /\ task' = [task EXCEPT ![c] = [Idle EXCEPT !.pc = "done"]]
    /\ held' = [held EXCEPT ![c] = {}]
    /\ queue' = [queue EXCEPT ![c] = <<>>]
    /\ UNCHANGED setting

Refuse(c) == End(c) /\ UNCHANGED <<cat, moved>>

Commit(c, new) ==
    /\ cat' = new
    /\ moved' = (moved \/ /\ \E d \in Clients \ {c} : Importing(d) \/ Clearing(d)
                          /\ \E s \in Strings :
                                \/ new.rows[s].key # cat.rows[s].key
                                \/ new.rows[s].mod # cat.rows[s].mod
                                \/ PubMod(new.rows[s]) # PubMod(cat.rows[s]))
    /\ End(c)

\* A row that a statement has waited for is looked at again; the lock stays.
Matches(c, item) ==
    CASE task[c].pc = "modules"   -> cat.mods[item[2]] # None
      [] task[c].pc = "entries"   -> \E q \in ToSet(Req(c).file) : q.key = cat.rows[item[2]].key
      [] task[c].pc = "refs"      -> item[1] = "string" /\ cat.rows[item[2]].mod = Req(c).mod
      [] task[c].pc = "published" -> PubMod(cat.rows[item[2]]) = Req(c).mod
      [] OTHER -> FALSE

\* Clearing the module of a live string puts its key among those without module.
Then(c, item) ==
    IF task[c].pc = "refs" /\ Matches(c, item) /\ Alive(cat.rows[item[2]])
    THEN <<Key([cat.rows[item[2]] EXCEPT !.mod = None])>> ELSE <<>>

Acquire(c) ==
    /\ queue[c] # <<>>
    /\ LET item == Head(queue[c])
       IN  /\ \A d \in Clients : ~WaitsFor(c, d)
           /\ held' = [held EXCEPT ![c] = @ \cup {item}]
           /\ queue' = [queue EXCEPT ![c] = Then(c, item) \o Tail(@)]
           /\ task' = [task EXCEPT ![c].got =
                          @ \cup (IF Matches(c, item) THEN {<<task[c].pc, item[2]>>} ELSE {})]
    /\ UNCHANGED <<cat, setting, moved>>

\* Deadlock: run_write rolls back and replays once; imports are not replayed.
Victim(c) ==
    /\ InCircle(c)
    /\ IF Req(c).kind # "import" /\ task[c].tries = 1
       THEN /\ Begun(c, Req(c), 2, task[c].open)
            /\ held' = [held EXCEPT ![c] = {}]
            /\ UNCHANGED <<cat, setting, moved>>
       ELSE Refuse(c)

-----------------------------------------------------------------------------
(* import_rows.                                                            *)

File(c) == Req(c).file
FileKeys(c) == {q.key : q \in ToSet(File(c))}
FileSlugs(c) == {q.ref : q \in ToSet(File(c))} \ {None}
Plans(c) == [duplicates |-> setting.duplicates, public |-> Req(c).public,
             reject |-> Req(c).reject, dry |-> FALSE]

Affected(c, view) == {s \in Strings : Exists(view.rows[s]) /\ view.rows[s].key \in FileKeys(c)}

\* Mutant: modules are not locked.
NoneReferenced(c, view) == {}

\* The modules of the strings it may touch, published ones too, and of the file.
Referenced(c, view) ==
    {m \in Modules : /\ view.mods[m] # None
                     /\ \/ view.mods[m] \in FileSlugs(c)
                        \/ \E s \in Affected(c, view) :
                              m \in {view.rows[s].mod, PubMod(view.rows[s])}}

\* _lock_import_modules, _lock_import_entries: in the order of the ids.
ImportModules(c) ==
    /\ At(c, "import", "begun")
    /\ Statement(c, "modules", Locks(Share, InOrder(Referenced(c, cat))))

ImportEntries(c) ==
    /\ At(c, "import", "modules")
    /\ Statement(c, "entries", Locks(Entry, InOrder(Affected(c, cat))))

\* _load_catalog reads the strings and then, in a later statement, the modules.
ImportRead(c) ==
    /\ At(c, "import", "entries")
    /\ task' = [task EXCEPT ![c].pc = "rows", ![c].view = cat]
    /\ UNCHANGED <<cat, setting, held, queue, moved>>

\* Mutant: only modules are checked.
CoveredModules(c, view, new) == Referenced(c, view) \subseteq Got(c, "modules") \cup new

\* _check_import_locks; new are modules that the import has inserted itself.
Covered(c, view, new) ==
    /\ Affected(c, view) \subseteq Got(c, "entries")
    /\ Referenced(c, view) \subseteq Got(c, "modules") \cup new

ImportCheck(c) ==
    LET view == [task[c].view EXCEPT !.mods = cat.mods]
    IN  /\ At(c, "import", "rows")
        /\ IF /\ Covered(c, view, {})
              /\ Refusal(view, File(c), setting.duplicates, Req(c).reject) = "ok"
           THEN /\ task' = [task EXCEPT ![c].pc = "checked", ![c].view = view]
                /\ UNCHANGED <<cat, setting, held, queue, moved>>
           ELSE Refuse(c)

\* A module that someone has created meanwhile is not inserted, and not locked.
\* Bound: there are ids for all modules of the file, and nobody names them yet.
ImportCreate(c) ==
    LET missing == NewSlugs(task[c].view, File(c))
        mods == IF missing = {} THEN task[c].view.mods
                ELSE WithModules(cat.mods, NewSlugs(cat, File(c)))
        new == {m \in Modules : missing # {} /\ mods[m] # None /\ cat.mods[m] = None}
        view == [task[c].view EXCEPT !.mods = mods]
    IN  /\ At(c, "import", "checked")
        /\ IF Covered(c, view, new)
           THEN /\ NewSlugs(view, File(c)) = {} /\ \A m \in new : Unnamed(c, m)
                /\ task' = [task EXCEPT ![c].pc = "created", ![c].view = view]
                /\ held' = [held EXCEPT ![c] =
                               @ \cup {Whole(m) : m \in new} \cup {Slug(mods[m]) : m \in new}]
                /\ UNCHANGED <<cat, setting, queue, moved>>
           ELSE Refuse(c)

\* The public rows as they will be: guard_published_keys reads the others now.
Overlaid(c, plan) ==
    [rows |-> [s \in Strings |-> IF s \in plan.touched THEN plan.cat.rows[s] ELSE cat.rows[s]],
     mods |-> [m \in Modules |-> IF cat.mods[m] = None THEN plan.cat.mods[m] ELSE cat.mods[m]]]

Unused == {s \in Strings : ~Exists(cat.rows[s])}

\* The strings that the plan makes live are entries to come of the unique indexes.
\* Bound: there are ids for all strings of the file, and nobody has used them.
ImportPlan(c) ==
    LET view == task[c].view
        plan == Plan(Plans(c), view, File(c))
        born == {s \in plan.touched : ~Alive(view.rows[s])}
        key(s) == Key(plan.cat.rows[s])
    IN  /\ At(c, "import", "created")
        /\ IF ~plan.clash /\ (Req(c).public => KeysPublic(setting.modular, Overlaid(c, plan)))
           THEN /\ plan.touched \subseteq Affected(c, view) \cup Unused
                /\ task' = [task EXCEPT ![c].pc = "planned", ![c].plan = plan]
                /\ queue' = [queue EXCEPT ![c] = Locks(key, InOrder(born))]
                /\ UNCHANGED <<cat, setting, held, moved>>
           ELSE Refuse(c)

\* What the transaction writes: the columns it has changed.
Written(c) ==
    LET view == task[c].view
        plan == task[c].plan
    IN  [cat EXCEPT !.rows = [s \in Strings |->
            IF s \in plan.touched THEN Changed(view.rows[s], plan.cat.rows[s], @[s]) ELSE @[s]]]

ImportWrite(c) ==
    LET new == [Written(c) EXCEPT !.mods = [m \in Modules |->
                    IF Whole(m) \in held[c] THEN task[c].view.mods[m] ELSE @[m]]]
    IN  /\ At(c, "import", "planned")
        /\ IF KeysAlive(setting.duplicates, new.rows) THEN Commit(c, new) ELSE Refuse(c)

-----------------------------------------------------------------------------
(* update_string.                                                          *)

SaveEntry(c) ==
    /\ At(c, "save", "begun")
    /\ Statement(c, "entry", <<Entry(Req(c).s)>>)

\* _check_editor_expected: a field has neither the value the editor saw nor the one sent.
Stale(req, open, r) ==
    LET lost(given, seen, now, sent) == given /\ now # seen /\ now # sent
    IN  \/ r.deleted
        \/ lost(req.key # None, open.key, r.key, req.key)
        \/ lost(req.text # None, open.text, r.text, req.text)
        \/ lost(req.move, open.mod, r.mod, req.mod)
        \/ lost(req.public, open.status, r.status, "public")

Edited(req, r) ==
    [r EXCEPT !.key = IF req.key = None THEN @ ELSE req.key,
              !.mod = IF req.move THEN req.mod ELSE @,
              !.text = IF req.text = None THEN @ ELSE req.text]

Place(r) == <<r.key, r.mod>>

\* key_owner, among what is committed.
Owned(s, r) ==
    \E t \in Strings \ {s} :
        /\ Alive(cat.rows[t])
        /\ KeyIdentity(setting.duplicates, cat.rows[t]) = KeyIdentity(setting.duplicates, r)

\* The flush adds an entry to the unique index and looks up new modules.
SaveEdit(c) ==
    LET req == Req(c)
        r == cat.rows[req.s]
        now == Edited(req, r)
        new == IF req.public THEN Promoted(now) ELSE now
        shared == (IF new.mod # r.mod THEN {new.mod} ELSE {})
                    \cup (IF PubMod(new) # PubMod(r) THEN {PubMod(new)} ELSE {})
    IN  /\ At(c, "save", "entry")
        /\ IF /\ Exists(r)
              /\ req.checked => ~Stale(req, task[c].open, r)
              /\ req.move /\ req.mod # None => cat.mods[req.mod] # None
              /\ Place(now) # Place(r) => ~Owned(req.s, now)
           THEN /\ task' = [task EXCEPT ![c].pc = "flush", ![c].view = cat,
                               ![c].plan = [cat |-> [cat EXCEPT !.rows[req.s] = new],
                                            touched |-> {req.s}]]
                /\ queue' = [queue EXCEPT ![c] =
                               Unless(r.deleted \/ Place(new) = Place(r), Key(new))
                                 \o Locks(Share, InOrder(shared \ {None}))]
                /\ UNCHANGED <<cat, setting, held, moved>>
           ELSE Refuse(c)

SaveFlush(c) ==
    LET new == Written(c)
        r == new.rows[Req(c).s]
    IN  /\ At(c, "save", "flush")
        /\ IF /\ \A m \in {r.mod, PubMod(r)} \ {None} : cat.mods[m] # None
              /\ KeysAlive(setting.duplicates, new.rows)
              /\ Req(c).public => KeysPublic(setting.modular, new)
           THEN Commit(c, new) ELSE Refuse(c)

-----------------------------------------------------------------------------
(* delete_module.                                                          *)

DeleteModule(c) ==
    /\ At(c, "delete", "begun")
    /\ Statement(c, "module", <<Whole(Req(c).mod)>>)

\* An UPDATE locks the rows it finds in an order of its own.
DeleteCheck(c) ==
    LET gone == Req(c).mod
    IN  /\ At(c, "delete", "module")
        /\ IF cat.mods[gone] # None /\ Deletable(setting.duplicates, cat, gone)
           THEN \E ids \in SetToSeqs({s \in Strings : cat.rows[s].mod = gone}) :
                   Statement(c, "refs", Locks(Entry, ids))
           ELSE Refuse(c)

DeleteRefs(c) ==
    /\ At(c, "delete", "refs")
    /\ \E ids \in SetToSeqs({s \in Strings : PubMod(cat.rows[s]) = Req(c).mod}) :
          Statement(c, "published", Locks(Entry, ids))

DeleteDrop(c) ==
    LET cleared(s, r) ==
            [r EXCEPT !.mod = IF s \in Got(c, "refs") THEN None ELSE @,
                      !.pub = IF s \in Got(c, "published") THEN [@ EXCEPT !.mod = None] ELSE @]
        new == [cat EXCEPT !.rows = [s \in Strings |-> cleared(s, @[s])],
                           !.mods[Req(c).mod] = None]
    IN  /\ At(c, "delete", "published")
        /\ IF KeysAlive(setting.duplicates, new.rows) THEN Commit(c, new) ELSE Refuse(c)

-----------------------------------------------------------------------------
(* Requests of one statement or two; they wait until their locks are free. *)

Quick(c, req, kind, items) == task[c].pc = "idle" /\ req.kind = kind /\ Free(items)

\* Ids that no import has taken either.
Untaken == {s \in Unused : \A d \in Clients : task[d].pc = "planned" => s \notin task[d].plan.touched}

\* create_string.
CreateString(c, req) ==
    LET s == CHOOSE t \in Untaken : \A u \in Untaken : u <= t
        r == IF req.public THEN Promoted(Draft(req.x)) ELSE Draft(req.x)
        new == [cat EXCEPT !.rows[s] = r]
    IN  /\ Quick(c, req, "create",
                 {Key(Draft(req.x)), Share(req.x.mod)} \cup (IF req.public THEN {Publication} ELSE {}))
        /\ Untaken # {}
        /\ IF /\ req.x.mod # None => cat.mods[req.x.mod] # None
              /\ ~Owned(s, r)
              /\ req.public => KeysPublic(setting.modular, new)
           THEN Commit(c, new) ELSE Refuse(c)

\* create_module; a slug that an import is inserting is waited for.
AddModule(c, req) ==
    /\ Quick(c, req, "module", {Slug(req.slug)})
    /\ IF ModuleIds(cat, req.slug) = {}
       THEN \E m \in ModuleIds(cat, None) :
               /\ Free({Whole(m)})
               /\ Commit(c, [cat EXCEPT !.mods[m] = req.slug])
       ELSE Refuse(c)

\* update_module: the slug is in a unique index, so the whole row is locked.
RenameModule(c, req) ==
    /\ Quick(c, req, "rename", {Whole(req.mod), Slug(req.slug)})
    /\ IF cat.mods[req.mod] # None /\ ModuleIds(cat, req.slug) = {}
       THEN Commit(c, [cat EXCEPT !.mods[req.mod] = req.slug]) ELSE Refuse(c)

-----------------------------------------------------------------------------
Starting(c, req) ==
    \/ req.kind \in {"import", "save", "delete"} /\ Begin(c, req)
    \/ CreateString(c, req) \/ AddModule(c, req) \/ RenameModule(c, req)

Working(c) ==
    \/ Acquire(c) \/ Victim(c)
    \/ ImportModules(c) \/ ImportEntries(c) \/ ImportRead(c) \/ ImportCheck(c)
    \/ ImportCreate(c) \/ ImportPlan(c) \/ ImportWrite(c)
    \/ SaveEntry(c) \/ SaveEdit(c) \/ SaveFlush(c)
    \/ DeleteModule(c) \/ DeleteCheck(c) \/ DeleteRefs(c) \/ DeleteDrop(c)

Next == \E c \in Clients : Working(c) \/ \E req \in Requests[setting.scene][c] : Starting(c, req)

Spec == Init /\ [][Next]_vars

-----------------------------------------------------------------------------
Pcs == {"idle", "begun", "modules", "entries", "rows", "checked", "created", "planned",
        "entry", "flush", "module", "refs", "published", "done"}

TypeOK ==
    /\ cat \in Catalogs
    /\ setting \in [modular: BOOLEAN, duplicates: BOOLEAN, scene: Scenes]
    /\ \A c \in Clients :
          /\ task[c].req \in Requests[setting.scene][c] \cup {None}
          /\ task[c].pc \in Pcs /\ task[c].tries \in 0..2
          /\ task[c].got \subseteq Pcs \X (Strings \cup Modules)
          /\ task[c].view # None => task[c].view \in Catalogs
    /\ moved \in BOOLEAN

\* Nobody overwrites what he has not seen.  Every string that an import writes is as it
\* was read, and becomes what was planned, so its history is the transition it commits
\* (docs/import-performance.md, Validation boundary); and every field that a guarded save
\* changes still has the value that its editor saw (update_string, stale_editor_save).
WritesAreInformed ==
    [][\A c \in Clients :
          /\ ImportWrite(c) /\ cat' # cat =>
                \A s \in task[c].plan.touched :
                    /\ cat.rows[s] = task[c].view.rows[s]
                    /\ cat'.rows[s] = task[c].plan.cat.rows[s]
          /\ SaveFlush(c) /\ Req(c).checked =>
                LET s == Req(c).s
                IN  \A f \in {"key", "mod", "text", "status", "deleted"} :
                        cat'.rows[s][f] # cat.rows[s][f] =>
                            cat.rows[s][f] = task[c].open[f]]_vars

\* An import takes its locks in the order of a module deletion, modules before strings
\* (_lock_import_modules, docs/import-performance.md).  Unless strings move in between, it
\* is in no deadlock that its keys do not cause: somebody renames a string to, or moves it
\* to where, the import inserts it.
ImportsAvoidDeadlock ==
    moved \/ \A c \in Clients : \A D \in SUBSET Clients :
        Importing(c) /\ c \in D /\ Circle(D) =>
            \E d \in D : /\ task[d].pc = "flush" /\ WaitsFor(d, c)
                         /\ Head(queue[d])[1] = "key"

\* delete_module leaves no string for the foreign keys to clear: every string that
\* enters the module meanwhile is seen, or is refused.
ModulesExist == ModulesKept(cat)

\* The publication lock orders public imports, publishing saves and module deletion:
\* no two of them make the public export ambiguous together.
ExportUnambiguous == KeysPublic(setting.modular, cat)

\* However imports, saves and deletions overlap, references and export keys are sound.
EngineSound == TypeOK /\ ModulesExist /\ ExportUnambiguous
=============================================================================
