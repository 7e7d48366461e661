-------------------------------- MODULE Settings --------------------------------
(***************************************************************************)
(* The settings of a project (services/projects.py, update_project) next   *)
(* to the requests that rely on them: string creation, CLI pushes, JSON    *)
(* imports and editor saves.  A request works with the project as its      *)
(* session has loaded it, which may be older than the row.  What guards    *)
(* the settings are locks on the project's row in four modes, the import   *)
(* lock, and the rows of the strings.                                      *)
(***************************************************************************)
EXTENDS Naturals

CONSTANTS
    Clients,    \* each sends one request
    Requests,   \* the requests they may send
    Languages,
    Strings,    \* ids
    Initial,    \* the settings to start from
    None

Projects == [base: Languages, targets: SUBSET Languages, dup: BOOLEAN]

\* "gives" are the fields in the payload of a change.  A push says the language of its texts;
\* an imported file has the texts of every language.
AllRequests ==
    [kind: {"settings"}, gives: SUBSET {"base", "targets", "dup"}, base: Languages,
     targets: SUBSET Languages, dup: BOOLEAN]
    \cup [kind: {"create", "save"}, id: Strings]
    \cup [kind: {"import"}, ids: SUBSET Strings, lang: Languages \cup {None}, async: BOOLEAN]

ASSUME SettingsAssumption ==
    /\ Requests \subseteq AllRequests
    /\ Initial \subseteq Projects
    /\ \A p \in Initial : p.base \notin p.targets    \* create_project: _validated_locales
    /\ None \notin Languages \cup AllRequests \cup Clients \cup Projects

VARIABLES
    project,    \* the committed settings
    lang,       \* the language of the text of each string, tombstones too, or None
    importer,   \* who holds the project's import lock, or None
    req, pc,    \* the request of each client and its progress
    seen,       \* the project in each client's session
    mode,       \* the lock of each client on the project's row
    rows,       \* the strings that each client has locked
    tries,      \* attempts of run_write
    late,       \* history: a job has waited for the import lock without its handoff
    crossed     \* history: a settings change used a base language that was replaced

settingsVars == <<project, lang, importer, req, pc, seen, mode, rows, tries, late, crossed>>

Pcs == {"idle", "loaded", "locked", "upgrade", "checked", "cascade", "shared", "handed",
        "planned", "writing", "done"}

-----------------------------------------------------------------------------
(* Locks.                                                                  *)

Modes == {"none", "keyshare", "share", "nokey", "update"}

\* The modes of row locks that exclude each other.
Excludes(a, b) ==
    \/ a = "update" /\ b # "none"
    \/ b = "update" /\ a # "none"
    \/ a = "nokey" /\ b \in {"nokey", "share"}
    \/ b = "nokey" /\ a = "share"

Is(c, kind, at) == pc[c] = at /\ req[c].kind = kind

\* The strings a save or an import writes.
Ids(c) == IF req[c].kind = "save" THEN {req[c].id} ELSE req[c].ids

Stored == {s \in Strings : lang[s] # None}

NewPolicy(c) == "dup" \in req[c].gives /\ req[c].dup # seen[c].dup
NewBase(c) == "base" \in req[c].gives /\ req[c].base # seen[c].base

\* The strings that the statement of c still has to lock; a new policy is copied to all.
Unlocked(c) ==
    CASE pc[c] = "planned" -> (Ids(c) \cap Stored) \ rows[c]
      [] pc[c] = "cascade" /\ NewPolicy(c) -> Stored \ rows[c]
      [] OTHER -> {}

\* The lock on the project's row that it asks for.
Wanted(c) ==
    CASE Is(c, "settings", "loaded") -> "nokey"
      [] pc[c] = "upgrade" -> "update"
      [] Is(c, "create", "loaded") -> "share"
      [] pc[c] = "planned" /\ Unlocked(c) = {} -> "keyshare"
      [] OTHER -> "none"

Granted(c) == \A d \in Clients \ {c} : ~Excludes(Wanted(c), mode[d])

WaitsFor(c, d) ==
    c # d /\ (Excludes(Wanted(c), mode[d]) \/ Unlocked(c) \cap rows[d] # {})

\* c waits, through some others, for itself.
InCircle(c) ==
    \E D \in SUBSET Clients :
        c \in D /\ \A d \in D : \E e, f \in D : WaitsFor(d, e) /\ WaitsFor(f, d)

-----------------------------------------------------------------------------
(* Every request.                                                          *)

SettingsInit ==
    /\ project \in Initial
    /\ lang \in [Strings -> {None, project.base}]
    /\ importer = None
    /\ req = [c \in Clients |-> None]
    /\ pc = [c \in Clients |-> "idle"]
    /\ seen = [c \in Clients |-> None]
    /\ mode = [c \in Clients |-> "none"]
    /\ rows = [c \in Clients |-> {}]
    /\ tries = [c \in Clients |-> 0]
    /\ late = FALSE
    /\ crossed = FALSE

\* Authorization loads the project.
Load(c, r) ==
    /\ pc[c] = "idle"
    /\ req' = [req EXCEPT ![c] = r]
    /\ pc' = [pc EXCEPT ![c] = IF r.kind = "save" THEN "planned" ELSE "loaded"]
    /\ seen' = [seen EXCEPT ![c] = project]
    /\ tries' = [tries EXCEPT ![c] = 1]
    /\ UNCHANGED <<project, lang, importer, mode, rows, late, crossed>>

\* Commit and rollback free the locks; the import lock too.
Ended(c) ==
    /\ pc' = [pc EXCEPT ![c] = "done"]
    /\ mode' = [mode EXCEPT ![c] = "none"]
    /\ rows' = [rows EXCEPT ![c] = {}]
    /\ importer' = IF importer = c THEN None ELSE importer
    /\ UNCHANGED <<req, seen, tries>>

Refuse(c) == Ended(c) /\ UNCHANGED <<project, lang, late, crossed>>

\* The locks of the strings, one by one.
LockRow(c, s) ==
    /\ s \in Unlocked(c)
    /\ \A d \in Clients : s \notin rows[d]
    /\ rows' = [rows EXCEPT ![c] = @ \cup {s}]
    /\ UNCHANGED <<project, lang, importer, req, pc, seen, mode, tries, late, crossed>>

\* Mutant: a save is replayed as often as it meets a deadlock.
VictimReplayed(c) ==
    /\ InCircle(c) /\ req[c].kind = "save"
    /\ rows' = [rows EXCEPT ![c] = {}]
    /\ UNCHANGED <<project, lang, importer, req, pc, seen, mode, tries, late, crossed>>

\* Deadlock: a save is replayed once (run_write), other requests fail.
Victim(c) ==
    /\ InCircle(c)
    /\ IF req[c].kind = "save" /\ tries[c] = 1
       THEN /\ tries' = [tries EXCEPT ![c] = 2]
            /\ rows' = [rows EXCEPT ![c] = {}]
            /\ UNCHANGED <<project, lang, importer, req, pc, seen, mode, late, crossed>>
       ELSE Refuse(c)

-----------------------------------------------------------------------------
(* update_project.                                                         *)

\* SessionAdmin locks the project for its membership check; it selects the id only.
LockProject(c) ==
    /\ Is(c, "settings", "loaded") /\ Granted(c)
    /\ mode' = [mode EXCEPT ![c] = "nokey"]
    /\ pc' = [pc EXCEPT ![c] = "locked"]
    /\ UNCHANGED <<project, lang, importer, req, seen, rows, tries, late, crossed>>

\* Only a payload with a policy or a base language reads the project again.
Reread(c) ==
    /\ Is(c, "settings", "locked")
    /\ seen' = [seen EXCEPT ![c] =
                   IF {"dup", "base"} \cap req[c].gives # {} THEN project ELSE @]
    /\ pc' = [pc EXCEPT ![c] = "checked"]
    /\ UNCHANGED <<project, lang, importer, req, mode, rows, tries, late, crossed>>

\* Mutant: the import lock is not taken.
UpgradeUnasked(c) ==
    /\ Is(c, "settings", "checked") /\ mode[c] = "nokey" /\ (NewPolicy(c) \/ NewBase(c))
    /\ pc' = [pc EXCEPT ![c] = "upgrade"]
    /\ UNCHANGED <<project, lang, importer, req, seen, mode, rows, tries, late, crossed>>

\* A change of either fails while an import is running, before it locks the row.
AskImports(c) ==
    /\ Is(c, "settings", "checked") /\ mode[c] = "nokey" /\ (NewPolicy(c) \/ NewBase(c))
    /\ IF importer = None
       THEN /\ importer' = c
            /\ pc' = [pc EXCEPT ![c] = "upgrade"]
            /\ UNCHANGED <<project, lang, req, seen, mode, rows, tries, late, crossed>>
       ELSE Refuse(c)

Upgrade(c) ==
    /\ pc[c] = "upgrade" /\ Granted(c)
    /\ mode' = [mode EXCEPT ![c] = "update"]
    /\ seen' = [seen EXCEPT ![c] = project]
    /\ pc' = [pc EXCEPT ![c] = "checked"]
    /\ UNCHANGED <<project, lang, importer, req, rows, tries, late, crossed>>

\* Mutant: a base language may always be replaced.
HasStringsNever(c) == FALSE

\* base_language_has_strings; tombstones count.
HasStrings(c) == NewBase(c) /\ Stored # {}

\* Whether keys are duplicate is left open: keys are not part of this module.
CheckSettings(c) ==
    /\ Is(c, "settings", "checked")
    /\ NewPolicy(c) \/ NewBase(c) => mode[c] = "update"
    /\ \E duplicates \in BOOLEAN :
          IF HasStrings(c) \/ (NewPolicy(c) /\ seen[c].dup /\ duplicates)
          THEN Refuse(c)
          ELSE /\ pc' = [pc EXCEPT ![c] = "cascade"]
               /\ UNCHANGED <<project, lang, importer, req, seen, mode, rows, tries, late, crossed>>

\* _validated_locales.
Validated(base, targets) == targets \ {base}

\* What the handler assigns to its copy of the project.
Assigned(c) ==
    LET r == req[c]
        base == IF "base" \in r.gives THEN r.base ELSE seen[c].base
        targets == IF "targets" \in r.gives THEN r.targets ELSE seen[c].targets
    IN  [base |-> base,
         targets |-> IF {"base", "targets"} \cap r.gives = {} THEN targets
                     ELSE Validated(base, targets),
         dup |-> IF "dup" \in r.gives THEN r.dup ELSE seen[c].dup]

\* The UPDATE names the columns that differ from what was loaded.
Merged(new, old, now) ==
    [base |-> IF new.base # old.base THEN new.base ELSE now.base,
     targets |-> IF new.targets # old.targets THEN new.targets ELSE now.targets,
     dup |-> IF new.dup # old.dup THEN new.dup ELSE now.dup]

SaveSettings(c) ==
    /\ Is(c, "settings", "cascade") /\ Unlocked(c) = {}
    /\ project' = Merged(Assigned(c), seen[c], project)
    /\ crossed' = (crossed \/ seen[c].base # project.base)
    /\ Ended(c)
    /\ UNCHANGED <<lang, late>>

-----------------------------------------------------------------------------
(* create_string.                                                          *)

\* FOR SHARE keeps settings waiting until the string is there (base_language_changed).
Share(c) ==
    /\ Is(c, "create", "loaded") /\ Granted(c)
    /\ IF seen[c].base = project.base
       THEN /\ seen' = [seen EXCEPT ![c] = project]
            /\ mode' = [mode EXCEPT ![c] = "share"]
            /\ pc' = [pc EXCEPT ![c] = "shared"]
            /\ UNCHANGED <<project, lang, importer, req, rows, tries, late, crossed>>
       ELSE Refuse(c)

Create(c) ==
    /\ pc[c] = "shared"
    /\ IF lang[req[c].id] = None
       THEN /\ lang' = [lang EXCEPT ![req[c].id] = seen[c].base]
            /\ Ended(c)
            /\ UNCHANGED <<project, late, crossed>>
       ELSE Refuse(c)

-----------------------------------------------------------------------------
(* Imports.                                                                *)

\* validate_import_base_language.
BaseAgrees(c, base) == req[c].lang = None \/ req[c].lang = base

\* acquire_import_lock, after a first look at what authorization has loaded.
LockImports(c) ==
    /\ Is(c, "import", "loaded")
    /\ IF importer = None /\ BaseAgrees(c, seen[c].base)
       THEN /\ importer' = c
            /\ pc' = [pc EXCEPT ![c] = "locked"]
            /\ UNCHANGED <<project, lang, req, seen, mode, rows, tries, late, crossed>>
       ELSE Refuse(c)

\* db.refresh(project), and a second look.
Refresh(c) ==
    /\ Is(c, "import", "locked")
    /\ IF BaseAgrees(c, project.base)
       THEN /\ seen' = [seen EXCEPT ![c] = project]
            /\ pc' = [pc EXCEPT ![c] = IF req[c].async THEN "handed" ELSE "planned"]
            /\ UNCHANGED <<project, lang, importer, req, mode, rows, tries, late, crossed>>
       ELSE Refuse(c)

\* launch_job misses a deadline: the request's lock is gone before the worker waits.
HandoffFails(c) ==
    /\ pc[c] = "handed" /\ importer = c
    /\ importer' = None
    /\ late' = TRUE
    /\ UNCHANGED <<project, lang, req, pc, seen, mode, rows, tries, crossed>>

\* run_job loads the project in a session of its own; nothing is validated again.
Resume(c) ==
    /\ pc[c] = "handed" /\ importer \in {None, c}
    /\ importer' = c
    /\ seen' = [seen EXCEPT ![c] = project]
    /\ pc' = [pc EXCEPT ![c] = "planned"]
    /\ UNCHANGED <<project, lang, req, mode, rows, tries, late, crossed>>

\* The audit rows refer to the project: their insertion locks its key.
Audit(c) ==
    /\ pc[c] = "planned" /\ Unlocked(c) = {} /\ Granted(c)
    /\ mode' = [mode EXCEPT ![c] = "keyshare"]
    /\ pc' = [pc EXCEPT ![c] = "writing"]
    /\ UNCHANGED <<project, lang, importer, req, seen, rows, tries, late, crossed>>

\* The language of the texts in the payload.
TextsOf(c) == IF req[c].lang = None THEN seen[c].base ELSE req[c].lang

\* Strings that others have created meanwhile have the keys; fk_strings_key_policy.
Write(c) ==
    LET new == Ids(c) \ rows[c]
    IN  /\ pc[c] = "writing"
        /\ IF \/ req[c].kind = "save"
              \/ new \cap Stored # {}
              \/ new # {} /\ seen[c].dup # project.dup
           THEN Refuse(c)
           ELSE /\ lang' = [s \in Strings |-> IF s \in Ids(c) THEN TextsOf(c) ELSE lang[s]]
                /\ Ended(c)
                /\ UNCHANGED <<project, late, crossed>>

-----------------------------------------------------------------------------
Step(c) ==
    \/ Victim(c) \/ \E s \in Strings : LockRow(c, s)
    \/ LockProject(c) \/ Reread(c) \/ AskImports(c) \/ Upgrade(c) \/ CheckSettings(c)
    \/ SaveSettings(c)
    \/ Share(c) \/ Create(c)
    \/ LockImports(c) \/ Refresh(c) \/ Resume(c) \/ Audit(c) \/ Write(c)

SettingsNext ==
    \E c \in Clients : Step(c) \/ HandoffFails(c) \/ \E r \in Requests : Load(c, r)

SettingsSpec == SettingsInit /\ [][SettingsNext]_settingsVars

\* Requests run on; Postgres grants what is free and breaks circles.
LiveSpec == SettingsSpec /\ \A c \in Clients : WF_settingsVars(Step(c))

-----------------------------------------------------------------------------
SettingsTypeOK ==
    /\ project \in Projects
    /\ lang \in [Strings -> Languages \cup {None}]
    /\ importer \in Clients \cup {None}
    /\ req \in [Clients -> Requests \cup {None}]
    /\ pc \in [Clients -> Pcs]
    /\ seen \in [Clients -> Projects \cup {None}]
    /\ mode \in [Clients -> Modes]
    /\ rows \in [Clients -> SUBSET Strings]
    /\ tries \in [Clients -> 0..2]
    /\ late \in BOOLEAN /\ crossed \in BOOLEAN

\* Every text is in the language that the project now calls its base: no change of the
\* base relabels a string, and nothing written for the old base arrives after it.  A job
\* whose handoff failed is validated no second time (run_job) and is excepted.
SourceLanguage == ~late => \A s \in Strings : lang[s] \in {None, project.base}

\* A request that is about to insert strings works with the current settings, so the
\* foreign key on the policy never has to refuse one.
FreshSettings ==
    \A c \in Clients :
        pc[c] = "shared" \/ (pc[c] = "writing" /\ req[c].kind = "import") =>
            seen[c].base = project.base /\ seen[c].dup = project.dup

\* The base language is no target (docs/data-model.md: "Project locale-setting writes
\* remove the base language from target lists").
BaseIsNoTarget == project.base \notin project.targets

\* It is none while no settings change has worked with a base that was replaced.
BaseStaysApart == crossed \/ BaseIsNoTarget

\* Strings, requests that are about to write strings, and targets agree with the base
\* language, whatever changes of it overlap with them.
LanguagesSound == SettingsTypeOK /\ SourceLanguage /\ FreshSettings /\ BaseStaysApart

\* The import lock keeps imports out of every deadlock with settings, which lock the
\* project first and the strings after it (update_project: "imports lock strings before
\* audit FKs").
ImportsKeepClear == \A c \in Clients : req[c] # None /\ req[c].kind = "import" => ~InCircle(c)

\* Every request ends.
RequestsEnd == \A c \in Clients : (pc[c] # "idle") ~> (pc[c] = "done")
=============================================================================
