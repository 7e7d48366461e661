------------------------------ MODULE CatalogRows ------------------------------
(***************************************************************************)
(* The catalog of a project with modules: its strings and what a key       *)
(* identifies among them, for editors (services/key_policy.py), for the    *)
(* export (services/sync.py) and for an import, whose plan is a fold over  *)
(* the rows of the file (services/import_bulk.py).                         *)
(* There is one target language; a text may be Blank.                      *)
(***************************************************************************)
EXTENDS Naturals, FiniteSets, SequencesExt

CONSTANTS
    Strings, Modules,   \* ids, ordered: sets of numbers
    Slugs, Keys, Texts,
    Blank,              \* the empty text, one of Texts
    None

Contents == [key: Keys, mod: Modules \cup {None}, text: Texts, tr: Texts]

ASSUME RowsAssumption ==
    /\ Strings \subseteq Nat /\ IsFiniteSet(Strings)
    /\ Modules \subseteq Nat /\ IsFiniteSet(Modules)
    /\ Blank \in Texts /\ Keys \subseteq Texts
    /\ None \notin Keys \cup Texts \cup Slugs \cup Modules \cup Contents

NoRow == [key |-> None, mod |-> None, text |-> None, tr |-> None, pub |-> None,
          status |-> "none", pending |-> FALSE, deleted |-> FALSE]

\* The rows of the table; NoRow is an id that is not in use.
Rows ==
    {NoRow} \cup
    [key: Keys, mod: Modules \cup {None}, text: Texts, tr: Texts, pub: Contents \cup {None},
     status: {"draft", "public"}, pending: BOOLEAN, deleted: BOOLEAN]

Draft(x) == [key |-> x.key, mod |-> x.mod, text |-> x.text, tr |-> x.tr, pub |-> None,
             status |-> "draft", pending |-> FALSE, deleted |-> FALSE]

Content(r) == [key |-> r.key, mod |-> r.mod, text |-> r.text, tr |-> r.tr]

Promoted(r) == [r EXCEPT !.pub = Content(r), !.status = "public", !.pending = FALSE]

Exists(r) == r.status # "none"
Alive(r) == Exists(r) /\ ~r.deleted
Dead(r) == Exists(r) /\ r.deleted

Least(S) == CHOOSE x \in S : \A y \in S : x <= y
Only(S) == CHOOSE x \in S : TRUE

\* A catalog is the table of strings and the slug of every module.
Catalogs == [rows: [Strings -> Rows], mods: [Modules -> Slugs \cup {None}]]

SlugOf(cat, m) == IF m = None THEN None ELSE cat.mods[m]
ModuleIds(cat, slug) == {m \in Modules : cat.mods[m] = slug}
LiveWith(cat, k) == {s \in Strings : Alive(cat.rows[s]) /\ cat.rows[s].key = k}
DeadWith(cat, k) == {s \in Strings : Dead(cat.rows[s]) /\ cat.rows[s].key = k}
Within(cat, S, m) == {s \in S : cat.rows[s].mod = m}

-----------------------------------------------------------------------------
(* What a key identifies.                                                  *)

\* key_identity: with duplicate keys allowed, the module counts.
KeyIdentity(duplicates, r) == IF duplicates THEN <<r.mod, r.key>> ELSE <<None, r.key>>

\* uq_project_key_alive and uq_project_module_key_alive.
KeysAlive(duplicates, rows) ==
    \A s, t \in Strings :
        /\ Alive(rows[s]) /\ Alive(rows[t])
        /\ KeyIdentity(duplicates, rows[s]) = KeyIdentity(duplicates, rows[t])
        => s = t

PubKey(r) == IF r.pub = None THEN r.key ELSE r.pub.key
PubMod(r) == IF r.pub = None THEN None ELSE r.pub.mod

\* published_export_identity: flat projects ignore the module.
ExportIdentity(modular, cat, s) ==
    LET r == cat.rows[s]
    IN <<IF modular THEN SlugOf(cat, PubMod(r)) ELSE None, PubKey(r)>>

Exported(r) == Alive(r) /\ r.status = "public"

\* guard_published_keys.
KeysPublic(modular, cat) ==
    \A s, t \in Strings :
        /\ Exported(cat.rows[s]) /\ Exported(cat.rows[t])
        /\ ExportIdentity(modular, cat, s) = ExportIdentity(modular, cat, t)
        => s = t

\* The foreign keys, the unique index of slugs, and the snapshot of every public string.
ModulesKept(cat) ==
    \A s \in Strings : \A m \in {cat.rows[s].mod, PubMod(cat.rows[s])} \ {None} :
        cat.mods[m] # None
SlugsUnique(cat) ==
    \A i, j \in Modules : cat.mods[i] = cat.mods[j] /\ cat.mods[i] # None => i = j
Snapshots(cat) ==
    \A s \in Strings : cat.rows[s].status = "public" => cat.rows[s].pub # None

-----------------------------------------------------------------------------
(* Deleting a module.                                                      *)

\* _clear_module_refs: working copies and snapshots move to Unassigned.
Unassigned(r, m) ==
    [r EXCEPT !.mod = IF @ = m THEN None ELSE @,
              !.pub = IF @ # None /\ @.mod = m THEN [@ EXCEPT !.mod = None] ELSE @]

\* A live string in the module has the key of a live string without one.
KeyCollides(cat, m) ==
    \E s, t \in Strings :
        /\ Alive(cat.rows[s]) /\ cat.rows[s].mod = m
        /\ Alive(cat.rows[t]) /\ cat.rows[t].mod = None /\ cat.rows[t].key = cat.rows[s].key

\* Mutant: only working copies are compared.
NoneCollides(cat, m) == FALSE

PublishedCollides(cat, m) ==
    \E s, t \in Strings :
        /\ Exported(cat.rows[s]) /\ PubMod(cat.rows[s]) = m
        /\ Exported(cat.rows[t]) /\ PubMod(cat.rows[t]) = None
        /\ PubKey(cat.rows[t]) = PubKey(cat.rows[s])

Deletable(duplicates, cat, m) ==
    /\ duplicates => ~KeyCollides(cat, m)
    /\ ~PublishedCollides(cat, m)

-----------------------------------------------------------------------------
(* The rows of a file, and which string each is about.                     *)

\* A file's row: its module is a slug (JSON by modules, Excel) or None, "scoped"
\* when the file says where the key lives; None is a value that is not given.
ImportRows ==
    [key: Keys, ref: Slugs \cup {None}, scoped: BOOLEAN, excel: BOOLEAN,
     text: Texts \cup {None}, tr: Texts \cup {None}]

\* The module id of a row, if its slug has one yet.
RefIds(cat, q) == IF q.ref = None THEN {None} ELSE ModuleIds(cat, q.ref)

\* _lookup: the strings the row may mean; a row that means several is ambiguous.
Candidates(cat, q, m, duplicates) ==
    LET live == LiveWith(cat, q.key)
        dead == DeadWith(cat, q.key)
        one(S) == IF S = {} THEN {} ELSE {Least(S)}
    IN  IF q.scoped
        THEN IF Within(cat, live, m) # {} THEN Within(cat, live, m)
             ELSE one(Within(cat, dead, m))
        ELSE IF live # {} THEN live
        ELSE IF duplicates /\ Cardinality({cat.rows[s].mod : s \in dead}) > 1 THEN dead
        ELSE IF Within(cat, dead, None) # {} THEN one(Within(cat, dead, None))
        ELSE one(dead)

\* The string a row names before the import has written anything.
Named(cat, q, duplicates) ==
    UNION {Candidates(cat, q, m, duplicates) : m \in RefIds(cat, q)}

-----------------------------------------------------------------------------
(* Validation.                                                             *)

\* _validate, reject_deleted: the removed strings that a push names: those that
\* wait for their removal, and the tombstones without a live replacement.
Wanted(cat, file, duplicates, s) ==
    LET r == cat.rows[s]
    IN \E i \in DOMAIN file :
          /\ file[i].key = r.key
          /\ duplicates =>
                IF file[i].scoped THEN r.mod \in RefIds(cat, file[i])
                ELSE \E t \in Named(cat, file[i], duplicates) : cat.rows[t].mod = r.mod

Replaced(cat, duplicates, s) ==
    \E t \in Strings : /\ Alive(cat.rows[t])
                       /\ KeyIdentity(duplicates, cat.rows[t])
                            = KeyIdentity(duplicates, cat.rows[s])

PushDeleted(cat, file, duplicates) ==
    {s \in Strings : /\ Wanted(cat, file, duplicates, s)
                     /\ \/ Alive(cat.rows[s]) /\ cat.rows[s].pending
                        \/ Dead(cat.rows[s]) /\ ~Replaced(cat, duplicates, s)}

\* Keys that would move between modules; a strict project refuses them.
Misplaced(cat, file, duplicates) ==
    /\ ~duplicates
    /\ \E i \in DOMAIN file :
          /\ file[i].scoped
          /\ \/ \E j \in DOMAIN file : /\ file[j].scoped /\ file[j].key = file[i].key
                                       /\ file[j].ref # file[i].ref
             \/ \E s \in LiveWith(cat, file[i].key) : cat.rows[s].mod \notin RefIds(cat, file[i])

Ambiguous(cat, file, duplicates) ==
    \E i \in DOMAIN file : Cardinality(Named(cat, file[i], duplicates)) > 1

Refusal(cat, file, duplicates, reject) ==
    IF reject /\ PushDeleted(cat, file, duplicates) # {} THEN "push_deleted_keys"
    ELSE IF Ambiguous(cat, file, duplicates) THEN "ambiguous_key"
    ELSE IF Misplaced(cat, file, duplicates) THEN "exists"
    ELSE "ok"

-----------------------------------------------------------------------------
(* The plan: the rows of the file in their order.                          *)

\* _create_references: a module for every slug that has none; ids are fresh.
NewSlugs(cat, file) ==
    {file[i].ref : i \in DOMAIN file} \ ({None} \cup {cat.mods[m] : m \in Modules})

WithModules(mods, slugs) ==
    LET add(slug, given) == [given EXCEPT ![Least({m \in Modules : given[m] = None})] = slug]
    IN  FoldSet(add, mods, slugs)

Room(cat, file) ==
    /\ Cardinality(NewSlugs(cat, file)) <= Cardinality(ModuleIds(cat, None))
    /\ Len(file) <= Cardinality({s \in Strings : ~Exists(cat.rows[s])})

\* _needs_publication.
NeedsPublication(r) ==
    r.status # "public" \/ r.pub = None \/ r.pending \/ r.pub # Content(r)

\* Mutant: a tombstone comes back with the status it had.
RevivedAsWas(q, r) ==
    IF ~q.excel \/ r.deleted THEN [r EXCEPT !.pending = FALSE, !.deleted = FALSE] ELSE r

\* A JSON row cancels a removal; a tombstone comes back as a draft.
Revived(q, r) ==
    IF ~q.excel \/ r.deleted
    THEN [r EXCEPT !.pending = FALSE, !.deleted = FALSE,
                   !.status = IF r.deleted THEN "draft" ELSE @]
    ELSE r

\* A new string starts with its key as text when the file has none for it.
Source(q, r) ==
    IF q.text # None THEN q.text ELSE IF Exists(r) THEN r.text ELSE q.key

Created(q, m, public) ==
    [NoRow EXCEPT !.key = q.key, !.mod = m, !.text = Source(q, NoRow), !.tr = Blank,
                  !.status = IF public THEN "public" ELSE "draft"]

\* The string after the row of the file.
Imported(q, m, r, public) ==
    LET old == IF Exists(r) THEN [r EXCEPT !.text = Source(q, r)] ELSE Created(q, m, public)
        now == Revived(q, old)
    IN  IF q.tr = None THEN now ELSE [now EXCEPT !.tr = q.tr]

\* What the diff counts as an update: an Excel row by its source text only.
DiffChanged(q, r, public) ==
    \/ r.deleted \/ Source(q, r) # r.text
    \/ /\ ~q.excel
       /\ (q.tr # None /\ q.tr # r.tr) \/ (public /\ NeedsPublication(r))

Counts(o, q, r) == Exists(r) /\ DiffChanged(q, r, o.public)

\* A draft's dry run stops after counting; a public one still builds the result
\* in memory, for the check of the published keys.
Skips(o, q, r) ==
    \/ o.dry /\ ~o.public
    \/ ~q.excel /\ Exists(r) /\ ~DiffChanged(q, r, o.public)

\* One row of the file.
PlanRow(o, st, q) ==
    LET home == Only(RefIds(st.cat, q))
        named == Candidates(st.cat, q, home, o.duplicates)
        s == Least(IF named = {} THEN {t \in Strings : ~Exists(st.cat.rows[t])} ELSE named)
        r == st.cat.rows[s]
        live == LiveWith(st.cat, q.key)
        skip == Skips(o, q, r)
    IN  [cat |-> IF skip THEN st.cat
                 ELSE [st.cat EXCEPT !.rows[s] = Imported(q, home, r, o.public)],
         touched |-> st.touched \cup (IF skip THEN {} ELSE {s}),
         creates |-> st.creates + (IF named = {} THEN 1 ELSE 0),
         updates |-> st.updates + (IF Counts(o, q, r) THEN 1 ELSE 0),
         clash |-> st.clash \/ (~o.duplicates /\ live # {} /\ live # named)]

\* Publish the final working copy, after all repeated rows.
Shipped(o, st) ==
    IF o.public THEN {s \in st.touched : NeedsPublication(st.cat.rows[s])} ELSE {}

Plan(o, cat, file) ==
    LET start == [cat |-> [cat EXCEPT !.mods = WithModules(@, NewSlugs(cat, file))],
                  touched |-> {}, creates |-> 0, updates |-> 0, clash |-> FALSE]
        end == FoldLeft(LAMBDA st, q : PlanRow(o, st, q), start, file)
    IN  [end EXCEPT !.cat.rows = [s \in Strings |-> IF s \in Shipped(o, end) THEN Promoted(@[s])
                                                    ELSE @[s]]]

\* An UPDATE names only the columns that the handler changed.
Changed(before, after, now) ==
    [f \in DOMAIN now |-> IF after[f] # before[f] THEN after[f] ELSE now[f]]
=============================================================================
