-------------------------------- MODULE Catalog --------------------------------
(***************************************************************************)
(* A project's catalog over its life: strings, modules and settings, the   *)
(* import of files and what the export and the sync state say.  Requests   *)
(* come one at a time; what happens when they overlap is in Publication    *)
(* and in ImportEngine.                                                    *)
(***************************************************************************)
EXTENDS CatalogRows

CONSTANTS
    Starts,     \* the catalogs to start from
    Files,      \* the files that are imported, each a sequence of ImportRows
    Kinds,      \* the kinds of request that are sent
    Layouts, Policies,
    MaxSteps    \* bound on the requests

\* A start keeps the foreign keys, the unique slugs and a snapshot of every public string; a
\* file lists all its strings by module or none.
ASSUME CatalogAssumption ==
    /\ Starts \subseteq Catalogs
    /\ \A start \in Starts : ModulesKept(start) /\ SlugsUnique(start) /\ Snapshots(start)
    /\ Files \subseteq Seq(ImportRows)
    /\ \A file \in Files : \A i, j \in DOMAIN file : file[i].scoped = file[j].scoped
    /\ Layouts \subseteq BOOLEAN /\ Policies \subseteq BOOLEAN /\ MaxSteps \in Nat

VARIABLES
    catalog,        \* strings and modules
    modular, duplicates,  \* the project's layout and key policy
    steps,      \* requests so far
    relaid      \* history: the layout has changed

catalogVars == <<catalog, modular, duplicates, steps, relaid>>

CatalogTypeOK ==
    /\ catalog \in Catalogs
    /\ modular \in BOOLEAN /\ duplicates \in BOOLEAN
    /\ steps \in 0..MaxSteps
    /\ relaid \in BOOLEAN

CatalogInit ==
    /\ catalog \in Starts
    /\ modular \in Layouts /\ duplicates \in Policies
    /\ KeysAlive(duplicates, catalog.rows) /\ KeysPublic(modular, catalog)
    /\ steps = 0
    /\ relaid = FALSE

Request(kind) == kind \in Kinds /\ steps < MaxSteps /\ steps' = steps + 1
Settings == <<modular, duplicates, relaid>>

Published(c) == KeysPublic(modular, c)
WithRow(s, r) == [catalog EXCEPT !.rows[s] = r]
Known(m) == m # None => catalog.mods[m] # None

\* key_owner: another live row has this key.
KeyOwned(s, r) ==
    \E t \in Strings \ {s} : /\ Alive(catalog.rows[t])
                             /\ KeyIdentity(duplicates, catalog.rows[t]) = KeyIdentity(duplicates, r)

-----------------------------------------------------------------------------
(* Strings: POST, PATCH and the batch actions on one string.               *)

WithStatus(r, status) ==
    CASE status = "public" -> Promoted(r)
      [] status = "draft"  -> [r EXCEPT !.status = "draft"]
      [] OTHER -> r

Create(s, x, status) ==
    /\ Request("create")
    /\ ~Exists(catalog.rows[s]) /\ \A t \in Strings : ~Exists(catalog.rows[t]) => s <= t
    /\ Known(x.mod) /\ ~KeyOwned(s, Draft(x))
    /\ catalog' = WithRow(s, WithStatus(Draft(x), status))
    /\ status = "public" => Published(catalog')
    /\ UNCHANGED Settings

Save(s, x, status) ==
    LET r == catalog.rows[s]
        now == [r EXCEPT !.key = x.key, !.mod = x.mod, !.text = x.text, !.tr = x.tr]
    IN  /\ Request("save")
        /\ Exists(r) /\ Known(x.mod)
        /\ <<x.key, x.mod>> # <<r.key, r.mod>> => ~KeyOwned(s, now)
        /\ catalog' = WithRow(s, WithStatus(now, status))
        /\ status = "public" => Published(catalog')
        /\ UNCHANGED Settings

Publish(s) ==
    LET r == catalog.rows[s]
    IN  /\ Request("publish")
        /\ Alive(r)
        /\ catalog' = WithRow(s, IF r.pending THEN [r EXCEPT !.deleted = TRUE, !.pending = FALSE]
                             ELSE Promoted(r))
        /\ Published(catalog')
        /\ UNCHANGED Settings

Unpublish(s) ==
    /\ Request("unpublish")
    /\ Alive(catalog.rows[s])
    /\ catalog' = WithRow(s, [catalog.rows[s] EXCEPT !.status = "draft"])
    /\ UNCHANGED Settings

\* queue_or_soft_delete.
Delete(s) ==
    /\ Request("delete")
    /\ Alive(catalog.rows[s])
    /\ catalog' = WithRow(s, IF catalog.rows[s].pub # None THEN [catalog.rows[s] EXCEPT !.pending = TRUE]
                         ELSE [catalog.rows[s] EXCEPT !.deleted = TRUE, !.pending = FALSE])
    /\ UNCHANGED Settings

\* A key that is taken meanwhile fails on the unique index.
Restore(s) ==
    /\ Request("restore")
    /\ Exists(catalog.rows[s])
    /\ catalog' = WithRow(s, [catalog.rows[s] EXCEPT !.deleted = FALSE, !.pending = FALSE,
                                             !.status = IF catalog.rows[s].deleted THEN "draft" ELSE @])
    /\ KeysAlive(duplicates, catalog'.rows)
    /\ UNCHANGED Settings

\* discard_working_changes; a module deleted since then is not there to go back to.
Discard(s) ==
    LET r == catalog.rows[s]
    IN  /\ Request("discard")
        /\ Exists(r) /\ r.pub # None
        /\ catalog' = WithRow(s, [r EXCEPT !.key = r.pub.key, !.mod = r.pub.mod,
                                       !.text = r.pub.text, !.tr = r.pub.tr, !.pending = FALSE])
        /\ KeysAlive(duplicates, catalog'.rows)
        /\ UNCHANGED Settings

-----------------------------------------------------------------------------
(* Modules.                                                                *)

CreateModule(m, slug) ==
    /\ Request("modules")
    /\ catalog.mods[m] = None /\ \A n \in Modules : catalog.mods[n] = None => m <= n
    /\ ModuleIds(catalog, slug) = {}
    /\ catalog' = [catalog EXCEPT !.mods[m] = slug]
    /\ UNCHANGED Settings

UpdateModule(m, slug) ==
    /\ Request("modules")
    /\ catalog.mods[m] # None /\ ModuleIds(catalog, slug) = {}
    /\ catalog' = [catalog EXCEPT !.mods[m] = slug]
    /\ UNCHANGED Settings

ModuleCleared(c, m) == [c EXCEPT !.rows = [s \in Strings |-> Unassigned(@[s], m)],
                                 !.mods[m] = None]

RemoveModule(m) ==
    /\ Request("modules")
    /\ catalog.mods[m] # None /\ Deletable(duplicates, catalog, m)
    /\ catalog' = ModuleCleared(catalog, m)
    /\ UNCHANGED Settings

-----------------------------------------------------------------------------
(* Settings.                                                               *)

\* duplicate_key_details: the policy may get strict when no live key is double.
SetPolicy(allow) ==
    /\ Request("policy")
    /\ allow # duplicates
    /\ ~allow => KeysAlive(FALSE, catalog.rows)
    /\ duplicates' = allow
    /\ UNCHANGED <<catalog, modular, relaid>>

SetLayout(layout) ==
    /\ Request("layout")
    /\ layout # modular
    /\ modular' = layout
    /\ relaid' = TRUE
    /\ UNCHANGED <<catalog, duplicates>>

-----------------------------------------------------------------------------
(* Imports.                                                                *)

\* What a client may ask of an import: to publish, or, as the CLI, to refuse
\* removed keys; a dry run writes nothing.
Options(public, reject, dry) ==
    [duplicates |-> duplicates, public |-> public, reject |-> reject, dry |-> dry]

\* A file says where its keys live exactly when it is modular.
Fits(file) == Room(catalog, file) /\ \A i \in DOMAIN file :
                 /\ ~file[i].scoped => file[i].ref = None
                 /\ file[i].excel => file[i].scoped = modular

Accepts(c, file, o) ==
    /\ Refusal(c, file, o.duplicates, o.reject) = "ok"
    /\ ~Plan(o, c, file).clash
    /\ o.public => KeysPublic(modular, Plan(o, c, file).cat)

Import(file, public, reject) ==
    LET o == Options(public, reject, FALSE)
    IN  /\ Request("import")
        /\ ~(public /\ reject)
        /\ Fits(file) /\ Accepts(catalog, file, o)
        /\ catalog' = Plan(o, catalog, file).cat
        /\ UNCHANGED Settings

\* The groups of a file with its live strings that the file does not name.
Orphans(m, c, file) ==
    {s \in Strings :
        /\ Alive(c.rows[s])
        /\ \E ref \in {None} \cup (IF m THEN {file[i].ref : i \in DOMAIN file} ELSE {}) :
              /\ m => SlugOf(c, c.rows[s].mod) = ref
              /\ \A i \in DOMAIN file : file[i].ref = ref => file[i].key # c.rows[s].key}

-----------------------------------------------------------------------------
(* Exports.                                                                *)

\* The draft export ships what is live and not about to be removed.
Drafted(r) == Alive(r) /\ ~r.pending

\* translation_value: the public export of a target language may be empty.
PublicText(r) == IF r.pub = None THEN [text |-> r.text, tr |-> Blank]
                 ELSE [text |-> r.pub.text, tr |-> r.pub.tr]

\* Mutant: the draft export ships published texts.
ShippedRow(m, c, s) ==
    LET r == c.rows[s]
    IN  [key |-> r.key, ref |-> IF m THEN SlugOf(c, r.mod) ELSE None, scoped |-> m,
         excel |-> FALSE, text |-> PublicText(r).text,
         tr |-> IF r.tr = Blank THEN None ELSE r.tr]

\* check_export_keys, build_flat_export, build_modular_export: blank translations
\* are left out, texts are not.
DraftRow(m, c, s) ==
    LET r == c.rows[s]
    IN  [key |-> r.key, ref |-> IF m THEN SlugOf(c, r.mod) ELSE None, scoped |-> m,
         excel |-> FALSE, text |-> r.text, tr |-> IF r.tr = Blank THEN None ELSE r.tr]

\* build_workbook, _write_sheet: a cell for every translation, blank or not.
SheetRow(m, c, s) == [DraftRow(m, c, s) EXCEPT !.excel = TRUE, !.tr = c.rows[s].tr]

FilePlace(q) == <<q.ref, q.key>>

DraftExport(m, c) == {DraftRow(m, c, s) : s \in {t \in Strings : Drafted(c.rows[t])}}
DraftWorkbook(m, c) == {SheetRow(m, c, s) : s \in {t \in Strings : Drafted(c.rows[t])}}

Exportable(m, c) ==
    \A s, t \in Strings :
        /\ Drafted(c.rows[s]) /\ Drafted(c.rows[t])
        /\ FilePlace(DraftRow(m, c, s)) = FilePlace(DraftRow(m, c, t)) => s = t

PublicExport(m, c) ==
    {[place |-> ExportIdentity(m, c, s), value |-> PublicText(c.rows[s])] :
        s \in {t \in Strings : Exported(c.rows[t])}}

\* build_sync_state: the removed keys, by the place a local file has for them.
Label(m, c, s) == <<IF m THEN SlugOf(c, c.rows[s].mod) ELSE None, c.rows[s].key>>

\* Mutant: a live replacement does not hide a tombstone.
AllTombstones(m, c) == {Label(m, c, s) : s \in {t \in Strings : Dead(c.rows[t])}}

SyncTombstones(m, c) ==
    LET scoped == duplicates /\ m
        same(s, t) == IF scoped THEN Label(m, c, s) = Label(m, c, t)
                      ELSE c.rows[s].key = c.rows[t].key
    IN  {Label(m, c, s) : s \in {t \in Strings :
            Dead(c.rows[t]) /\ ~\E u \in Strings : Alive(c.rows[u]) /\ same(u, t)}}

SyncPending(m, c) ==
    {Label(m, c, s) : s \in {t \in Strings : Alive(c.rows[t]) /\ c.rows[t].pending}}

\* The flat sync state of keys that several live strings have is refused.
SyncRefused(m, c) ==
    ~m /\ \E s, t \in Strings : /\ s # t /\ c.rows[s].key = c.rows[t].key
                                /\ Alive(c.rows[s]) /\ Alive(c.rows[t])

-----------------------------------------------------------------------------
StringStep(s) ==
    \/ \E x \in Contents, status \in {"draft", "public"} : Create(s, x, status)
    \/ \E x \in Contents, status \in {"draft", "public", None} : Save(s, x, status)
    \/ Publish(s) \/ Unpublish(s) \/ Delete(s) \/ Restore(s) \/ Discard(s)

ModuleStep(m) ==
    \/ \E slug \in Slugs : CreateModule(m, slug) \/ UpdateModule(m, slug)
    \/ RemoveModule(m)

CatalogNext ==
    \/ \E s \in Strings : StringStep(s)
    \/ \E m \in Modules : ModuleStep(m)
    \/ \E b \in BOOLEAN : SetPolicy(b) \/ SetLayout(b)
    \/ \E file \in Files, public, reject \in BOOLEAN : Import(file, public, reject)

CatalogSpec == CatalogInit /\ [][CatalogNext]_catalogVars

-----------------------------------------------------------------------------
\* What each handler checks before it writes is enough for the unique indexes:
\* create_string, PATCH, imports, module deletion and a stricter policy never
\* leave two live strings with one key (key_policy.py, models.py).
ChecksSuffice == KeysAlive(duplicates, catalog.rows)

\* Every string of the public export has a key of its own, whatever is published,
\* imported as public, renamed or moved out of a deleted module: a modular export is
\* never refused as ambiguous, and a flat one only after the layout has changed.
PublicExportable ==
    /\ KeysPublic(TRUE, catalog)
    /\ relaid \/ KeysPublic(modular, catalog)

\* Whatever sequence of requests led here, working keys and exported keys are apart.
CatalogSound == CatalogTypeOK /\ ChecksSuffice /\ PublicExportable

\* Importing the draft export of the project, JSON or workbook, unchanged, creates
\* nothing, updates nothing and changes no string, unless it is refused as ambiguous;
\* and the JSON import reports as missing only what waits for its removal.
RoundTrip ==
    Exportable(modular, catalog) =>
        \A rows \in {DraftExport(modular, catalog), DraftWorkbook(modular, catalog)} :
            LET file == SetToSeq(rows)
                plan == Plan(Options(FALSE, FALSE, FALSE), catalog, file)
            IN  \/ Refusal(catalog, file, duplicates, FALSE) = "ambiguous_key"
                \/ /\ Refusal(catalog, file, duplicates, FALSE) = "ok" /\ ~plan.clash
                   /\ plan.creates = 0 /\ plan.updates = 0 /\ plan.cat = catalog
                   /\ \A s \in Orphans(modular, plan.cat, file) : catalog.rows[s].pending

\* The sync state, by which `loc status` marks keys, and a push of one key agree:
\* a push is refused for removed keys only if the sync state lists them, and a key
\* it lists cannot be pushed.
StatusPredictsPush ==
    ~SyncRefused(modular, catalog) =>
        \A k \in Keys, ref \in IF modular THEN Slugs \cup {None} ELSE {None} :
            LET file == <<[key |-> k, ref |-> ref, scoped |-> modular, excel |-> FALSE,
                           text |-> k, tr |-> None]>>
                listed == SyncPending(modular, catalog) \cup SyncTombstones(modular, catalog)
                refused == {Label(modular, catalog, s) : s \in PushDeleted(catalog, file, duplicates)}
            IN  /\ refused \subseteq listed
                /\ <<ref, k>> \in listed => Refusal(catalog, file, duplicates, TRUE) # "ok"

\* A dry run of a file that names every key once counts what the import would do.
DryRunPredicts ==
    \A file \in Files, public \in BOOLEAN :
        /\ Fits(file)
        /\ \A i, j \in DOMAIN file : FilePlace(file[i]) = FilePlace(file[j]) => i = j
        /\ Refusal(catalog, file, duplicates, FALSE) = "ok"
        => LET run == Plan(Options(public, FALSE, FALSE), catalog, file)
               dry == Plan(Options(public, FALSE, TRUE), catalog, file)
           IN  <<dry.creates, dry.updates>> = <<run.creates, run.updates>>

\* The two predictions the CLI shows before it writes, `loc status` and a dry run,
\* come true.
PredictionsHold == StatusPredictsPush /\ DryRunPredicts

\* An import of drafts leaves the public export alone, of the revived tombstones
\* too (data-model.md, Draft / public workflow); and a push never brings back, or
\* keeps, a string that was removed on the server.
ImportsReviveNothing ==
    [][\A file \in Files, reject \in BOOLEAN :
          Import(file, FALSE, reject) =>
              /\ PublicExport(modular, catalog') = PublicExport(modular, catalog)
              /\ reject => \A s \in Strings :
                    Dead(catalog.rows[s]) \/ (Alive(catalog.rows[s]) /\ catalog.rows[s].pending) =>
                        catalog'.rows[s] = catalog.rows[s]]_catalogVars
=============================================================================
