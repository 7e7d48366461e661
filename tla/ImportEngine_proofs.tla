-------------------------- MODULE ImportEngine_proofs ---------------------------
(***************************************************************************)
(* However imports, saves, deletions and smaller edits overlap, the        *)
(* references and export keys of the catalog stay sound, nobody overwrites *)
(* what he has not seen, and imports are in no deadlock but by their keys  *)
(* or by strings that move; for any sets of clients, strings, modules and  *)
(* requests, and files of any length.                                      *)
(*                                                                         *)
(* The invariant says what each transaction knows of the catalog by its    *)
(* locks.  A step of one transaction is Lawful when the locks of others    *)
(* allow it, and what another knows stays true after any lawful step       *)
(* (Steady), so each action is shown lawful, and to keep what its own      *)
(* client knows.  What a plan does is shown in Catalog_proofs, by          *)
(* induction over the file.                                                *)
(* A second invariant, Ordered, says which locks a transaction has while   *)
(* it waits for others.                                                    *)
(*                                                                         *)
(* In the proof of an action, a name with _ stands for a term of the       *)
(* action, and the constant beside it is the value of that term.           *)
(***************************************************************************)
EXTENDS ImportEngine, Catalog_proofs, FiniteSetTheorems, TLAPS

\* A sequence without repetition that is as long as a finite set has all of it.
LEMMA SeqsCover ==
    ASSUME NEW S, IsFiniteSet(S), NEW f \in SetToSeqs(S)
    PROVE  f \in Seq(S) /\ DOMAIN f = 1..Cardinality(S) /\ ToSet(f) = S
<1> DEFINE D == 1..Cardinality(S)
<1>1. Cardinality(S) \in Nat
  BY FS_CardinalityType
<1>2. IsFiniteSet(D) /\ Cardinality(D) = Cardinality(S)
  BY <1>1, FS_Interval
<1>3. f \in [D -> S] /\ \A i, j \in D : i # j => f[i] # f[j]
  BY DEF SetToSeqs
<1>4. f \in Injection(D, S)
  BY <1>3 DEF Injection, IsInjective
<1>5. f \in Surjection(D, S)
  BY <1>2, <1>4, FS_Injection
<1>6. ToSet(f) = S
  BY <1>3, <1>5 DEF ToSet, Surjection
<1> QED
  BY <1>1, <1>3, <1>6

Increasing(ids) == \A i, j \in DOMAIN ids : i < j => ids[i] < ids[j]

\* Every finite set of numbers has an ascending order.
LEMMA OrderExists ==
    ASSUME NEW S \in SUBSET Nat, IsFiniteSet(S)
    PROVE  \E ids \in SetToSeqs(S) : Increasing(ids)
<1> DEFINE Sortable(U) == \E ids \in SetToSeqs(U) : Increasing(ids)
           T == {n \in Nat : \A U \in SUBSET Nat :
                    IsFiniteSet(U) /\ Cardinality(U) = n => Sortable(U)}
<1>1. 0 \in T
  <2> SUFFICES ASSUME NEW U \in SUBSET Nat, IsFiniteSet(U), Cardinality(U) = 0
               PROVE  Sortable(U)
    OBVIOUS
  <2>1. U = {}
    BY FS_EmptySet
  <2>2. 1..0 = {}
    OBVIOUS
  <2> DEFINE none == [i \in 1..0 |-> i]
  <2>3. none \in SetToSeqs(U) /\ Increasing(none)
    BY <2>1, <2>2, FS_EmptySet DEF SetToSeqs, Increasing
  <2> QED
    BY <2>3
<1>2. ASSUME NEW n \in T
      PROVE  n + 1 \in T
  <2> SUFFICES ASSUME NEW U \in SUBSET Nat, IsFiniteSet(U), Cardinality(U) = n + 1
               PROVE  Sortable(U)
    OBVIOUS
  <2>0. n \in Nat /\ n + 1 # 0
    OBVIOUS
  <2>1. U # {}
    BY <2>0, FS_EmptySet
  <2>2. PICK x \in U : \A y \in U : x <= y
    BY <2>1, LeastNumber
  <2>3. IsFiniteSet(U \ {x}) /\ Cardinality(U \ {x}) = n
    <3>1. /\ IsFiniteSet(U \ {x})
          /\ Cardinality(U \ {x}) = IF x \in U THEN Cardinality(U) - 1 ELSE Cardinality(U)
      BY FS_RemoveElement
    <3> QED
      BY <2>0, <3>1
  <2>4. Sortable(U \ {x})
    BY <2>3
  <2>5. PICK ids \in SetToSeqs(U \ {x}) : Increasing(ids)
    BY <2>4
  <2>6. /\ ids \in [1..n -> U \ {x}]
        /\ \A i, j \in 1..n : i # j => ids[i] # ids[j]
        /\ \A i, j \in 1..n : i < j => ids[i] < ids[j]
    <3>1. ids \in [1..n -> U \ {x}] /\ \A i, j \in 1..n : i # j => ids[i] # ids[j]
      BY <2>3 DEF SetToSeqs
    <3>2. DOMAIN ids = 1..n
      BY <3>1
    <3> QED
      BY <2>5, <3>1, <3>2 DEF Increasing
  <2> DEFINE all == [i \in 1..(n + 1) |-> IF i = 1 THEN x ELSE ids[i - 1]]
  <2>7. \A i \in 1..(n + 1) : i # 1 => i - 1 \in 1..n
    BY <2>0
  <2>8. all \in [1..(n + 1) -> U]
    BY <2>6, <2>7
  <2>9. \A i, j \in 1..(n + 1) : i < j => all[i] < all[j]
    <3> SUFFICES ASSUME NEW i \in 1..(n + 1), NEW j \in 1..(n + 1), i < j
                 PROVE  all[i] < all[j]
      OBVIOUS
    <3>1. j # 1 /\ j - 1 \in 1..n /\ all[j] = ids[j - 1]
      BY <2>0, <2>7
    <3>2. CASE i = 1
      <4>1. ids[j - 1] \in U \ {x}
        BY <2>6, <3>1
      <4>2. ids[j - 1] # x /\ x <= ids[j - 1] /\ ids[j - 1] \in Nat /\ x \in Nat
        BY <2>2, <4>1
      <4>3. all[i] = x
        BY <2>0, <3>2
      <4> QED
        BY <3>1, <4>2, <4>3
    <3>3. CASE i # 1
      <4>1. i - 1 \in 1..n /\ all[i] = ids[i - 1] /\ i - 1 < j - 1
        BY <2>0, <2>7, <3>3
      <4> QED
        BY <2>6, <3>1, <4>1
    <3> QED
      BY <3>2, <3>3
  <2>10. \A i, j \in 1..(n + 1) : i # j => all[i] # all[j]
    <3> SUFFICES ASSUME NEW i \in 1..(n + 1), NEW j \in 1..(n + 1), i # j
                 PROVE  all[i] # all[j]
      OBVIOUS
    <3>1. all[i] \in Nat /\ all[j] \in Nat
      BY <2>8
    <3>2. i < j \/ j < i
      BY <2>0
    <3>3. all[i] < all[j] \/ all[j] < all[i]
      BY <2>9, <3>2
    <3> QED
      BY <3>1, <3>3
  <2>11. all \in SetToSeqs(U) /\ Increasing(all)
    <3> HIDE DEF all
    <3>1. DOMAIN all = 1..(n + 1)
      BY <2>8
    <3> QED
      BY <2>8, <2>9, <2>10, <3>1 DEF SetToSeqs, Increasing
  <2> QED
    BY <2>11
<1> HIDE DEF Sortable
<1>3. T = Nat
  <2> HIDE DEF T
  <2>1. T \in SUBSET Nat
    BY DEF T
  <2> QED
    BY <1>1, <1>2, <2>1, Induction
<1>4. Cardinality(S) \in Nat
  BY FS_CardinalityType
<1>5. Sortable(S)
  BY <1>3, <1>4
<1> QED
  BY <1>5 DEF Sortable

\* The order of the ids has them all.
LEMMA InOrderCovers ==
    ASSUME NEW S \in SUBSET Nat, IsFiniteSet(S)
    PROVE  InOrder(S) \in Seq(S) /\ ToSet(InOrder(S)) = S
<1>1. InOrder(S) \in SetToSeqs(S)
  BY OrderExists DEF InOrder, Increasing
<1> QED
  BY <1>1, SeqsCover

-----------------------------------------------------------------------------
(* The inductive invariant.                                                *)

Awaited(c) == ToSet(queue[c])
Claims(c) == held[c] \cup Awaited(c)
Own(c) == {m \in Modules : Whole(m) \in held[c]}

Works ==
    [cat: Catalogs, touched: SUBSET Strings]
      \cup [cat: Catalogs, touched: SUBSET Strings, creates: Nat, updates: Nat, clash: BOOLEAN]

Tasks ==
    [req: AllRequests \cup {None}, pc: Pcs, tries: 0..2, open: Rows \cup {None},
     got: SUBSET (Pcs \X (Strings \cup Modules)), view: Catalogs \cup {None},
     plan: Works \cup {None}]

Typed ==
    /\ TypeOK
    /\ task \in [Clients -> Tasks]
    /\ held = [c \in Clients |-> held[c]]
    /\ queue = [c \in Clients |-> queue[c]]
    /\ \A c \in Clients : queue[c] \in Seq(Awaited(c))

\* No two transactions have locks that conflict.
Exclusive ==
    \A c, d \in Clients : c # d => \A i \in held[c], j \in held[d] : ~Conflict(i, j)

OneImport ==
    \A c, d \in Clients :
        /\ Req(c) # None /\ Req(c).kind = "import"
        /\ Req(d) # None /\ Req(d).kind = "import"
        => c = d

\* No two exported strings in one place; modules are compared by their ids.
Apart(rows) ==
    \A s, t \in Strings :
        /\ Exported(rows[s]) /\ Exported(rows[t]) /\ PubKey(rows[s]) = PubKey(rows[t])
        /\ (setting.modular => PubMod(rows[s]) = PubMod(rows[t]))
        => s = t

Grounded ==
    ModulesKept(cat) /\ SlugsUnique(cat) /\ Snapshots(cat) /\ Apart(cat.rows)

ImportPcs == {"modules", "entries", "rows", "checked", "created", "planned"}
SavePcs == {"entry", "flush"}
DeletePcs == {"module", "refs", "published"}

\* Who is where, with the publication lock when the request publishes.
Phase(c) ==
    /\ task[c].pc \in {"idle", "done"} <=> Req(c) = None
    /\ Req(c) = None => held[c] = {} /\ queue[c] = <<>>
    /\ task[c].pc \in ImportPcs => Req(c).kind = "import"
    /\ task[c].pc \in SavePcs => Req(c).kind = "save"
    /\ task[c].pc \in DeletePcs => Req(c).kind = "delete"
    /\ task[c].pc = "begun" => Req(c).kind \in {"import", "save", "delete"}
    /\ task[c].pc \in {"begun", "module"} => task[c].got = {}
    /\ Req(c) # None /\ Req(c).public =>
          /\ Publication \in Claims(c)
          /\ task[c].pc # "begun" => Publication \in held[c]

\* What a statement waits for.
IsKey(i) == i[1] = "key"
KeyOf(i) == i[2][2]
Waits(c) ==
    /\ task[c].pc = "begun" => Awaited(c) \subseteq {Publication}
    /\ task[c].pc = "modules" => Awaited(c) \subseteq {Share(m) : m \in Modules}
    /\ task[c].pc \in {"entries", "entry", "published"} =>
          Awaited(c) \subseteq {Entry(s) : s \in Strings}
    /\ task[c].pc \in {"rows", "checked", "created"} => Awaited(c) = {}
    /\ task[c].pc = "planned" => \A i \in Awaited(c) : IsKey(i)
    /\ task[c].pc = "flush" => \A i \in Awaited(c) : IsKey(i) \/ i \in {Share(m) : m \in Modules}
    /\ task[c].pc = "module" => Awaited(c) \subseteq {Whole(m) : m \in Modules}
    /\ task[c].pc = "refs" => \A i \in Awaited(c) : IsKey(i) \/ i \in {Entry(s) : s \in Strings}

Holds(c) ==
    /\ \A slug \in Slugs : Slug(slug) \in held[c] => task[c].pc \in {"created", "planned"}
    /\ \A m \in Modules :
          Whole(m) \in held[c] => task[c].pc \in {"created", "planned"} \cup DeletePcs

\* What an import has locked stays as it has seen it, until it writes.
Locked(c) ==
    /\ \A m \in Got(c, "modules") : m \in Modules /\ Share(m) \in held[c] /\ cat.mods[m] # None
    /\ \A s \in Got(c, "entries") :
          s \in Strings /\ Entry(s) \in held[c] /\ Exists(cat.rows[s])

Viewed(c, view) ==
    /\ view \in Catalogs
    /\ \A s \in Strings : Exists(view.rows[s]) => Exists(cat.rows[s])
    /\ \A s \in Got(c, "entries") : cat.rows[s] = view.rows[s]

Checked(c, view) ==
    /\ Affected(c, view) \subseteq Got(c, "entries")
    /\ Referenced(c, view) \subseteq Got(c, "modules") \cup Own(c)
    /\ \A s \in Affected(c, view) :
          \A m \in {view.rows[s].mod, PubMod(view.rows[s])} \ {None} : view.mods[m] # None

\* Modules that it inserts are nobody's, nor are their slugs.
Inserted(c, view) ==
    /\ NewSlugs(view, File(c)) = {}
    /\ \A m \in Own(c) :
          /\ cat.mods[m] = None /\ view.mods[m] \in Slugs
          /\ Slug(view.mods[m]) \in held[c]
          /\ \A i \in Modules : cat.mods[i] # view.mods[m]
          /\ \A i \in Own(c) : view.mods[i] = view.mods[m] => i = m

PlanStands(c, view, plan) ==
    /\ plan = Plan(Plans(c), view, File(c))
    /\ \A s \in plan.touched :
          /\ s \in Strings /\ cat.rows[s] = view.rows[s]
          /\ Exists(cat.rows[s]) => s \in Affected(c, view)
    /\ Req(c).public => Apart(Overlaid(c, plan).rows)

ImportFacts(c) ==
    /\ task[c].pc \in ImportPcs => Locked(c)
    /\ task[c].pc \in {"rows", "checked", "created", "planned"} => Viewed(c, task[c].view)
    /\ task[c].pc \in {"checked", "created", "planned"} => Checked(c, task[c].view)
    /\ task[c].pc \in {"created", "planned"} => Inserted(c, task[c].view)
    /\ task[c].pc = "planned" => PlanStands(c, task[c].view, task[c].plan)

\* A save that is about to flush has locked its string, found what its editor saw, and
\* locks the modules that the string enters.
After(req, r) == IF req.public THEN Promoted(Edited(req, r)) ELSE Edited(req, r)

SaveStands(c, req, view) ==
    LET s == req.s
        r == cat.rows[s]
        new == After(req, r)
    IN  /\ Entry(s) \in held[c] /\ Exists(r)
        /\ view \in Catalogs /\ view.rows[s] = r
        /\ task[c].plan = [cat |-> [view EXCEPT !.rows[s] = new], touched |-> {s}]
        /\ req.checked => ~Stale(req, task[c].open, r)
        /\ new.mod \notin {r.mod, None} => Share(new.mod) \in Claims(c)
        /\ PubMod(new) \notin {PubMod(r), None} => Share(PubMod(new)) \in Claims(c)

SaveFacts(c) ==
    /\ task[c].pc = "entry" => Entry(Req(c).s) \in Claims(c)
    /\ task[c].pc = "flush" => SaveStands(c, Req(c), task[c].view)

\* A deletion has its module for itself, and sees every string that is in it.
Sees(c, gone) ==
    /\ Whole(gone) \in held[c] /\ cat.mods[gone] # None
    /\ ~PublishedCollides(cat, gone)
    /\ \A s \in Got(c, "refs") :
          s \in Strings /\ Entry(s) \in held[c] /\ cat.rows[s].mod = gone
    /\ \A s \in Got(c, "published") :
          s \in Strings /\ Entry(s) \in held[c] /\ PubMod(cat.rows[s]) = gone
    /\ \A s \in Strings : cat.rows[s].mod = gone =>
          s \in Got(c, "refs") \/ (task[c].pc = "refs" /\ Entry(s) \in Awaited(c))
    /\ \A s \in Strings : task[c].pc = "published" /\ PubMod(cat.rows[s]) = gone =>
          s \in Got(c, "published") \/ Entry(s) \in Awaited(c)

DeleteFacts(c) ==
    /\ task[c].pc = "module" => Whole(Req(c).mod) \in Claims(c)
    /\ task[c].pc \in {"refs", "published"} => Sees(c, Req(c).mod)

Local(c) == Phase(c) /\ Waits(c) /\ Holds(c) /\ ImportFacts(c) /\ SaveFacts(c) /\ DeleteFacts(c)

IInv == Typed /\ Exclusive /\ OneImport /\ Grounded /\ \A c \in Clients : Local(c)

-----------------------------------------------------------------------------
(* Locks.                                                                  *)

\* Locks that conflict: two of one thing, and a shared and a whole module.
LEMMA Conflicts ==
    /\ \A i, j : Conflict(i, j) <=> Conflict(j, i)
    /\ \A m : Conflict(Share(m), Whole(m)) /\ Conflict(Whole(m), Whole(m))
    /\ \A s : Conflict(Entry(s), Entry(s))
    /\ \A slug : Conflict(Slug(slug), Slug(slug))
    /\ Conflict(Publication, Publication)
  BY DEF Conflict, Share, Whole, Entry, Slug, Publication

\* Nobody else has a lock in the way of i.
Alone(c, i) == \A d \in Clients \ {c} : \A j \in held[d] : ~Conflict(i, j)

\* Nobody else has a lock in the way of one that is held.
LEMMA HeldAlone ==
    ASSUME Exclusive, NEW c \in Clients, NEW i \in held[c]
    PROVE  Alone(c, i)
  BY DEF Exclusive, Alone

\* A lock in the way of another is not held by anybody else.
LEMMA NotAlone ==
    ASSUME NEW c \in Clients, NEW d \in Clients, c # d, NEW i, NEW j \in held[d],
           Conflict(i, j), Alone(c, i)
    PROVE  FALSE
  BY DEF Alone

\* What is left of a queue of locks when its first is taken, or replaced.
LEMMA TakeFirst ==
    ASSUME NEW q, q \in Seq(ToSet(q)), q # <<>>, NEW i
    PROVE  /\ Head(q) \in ToSet(q)
           /\ ToSet(q) = {Head(q)} \cup ToSet(Tail(q))
           /\ Tail(q) \in Seq(ToSet(Tail(q)))
           /\ <<>> \o Tail(q) = Tail(q)
           /\ ToSet(<<i>> \o Tail(q)) = {i} \cup ToSet(Tail(q))
           /\ <<i>> \o Tail(q) \in Seq(ToSet(<<i>> \o Tail(q)))
<1> DEFINE rest == Tail(q)
           S == ToSet(q)
<1>1. Len(q) \in Nat /\ Len(q) > 0 /\ DOMAIN q = 1..Len(q)
  OBVIOUS
<1>2. rest \in Seq(S) /\ Len(rest) = Len(q) - 1 /\ \A n \in 1..Len(rest) : rest[n] = q[n + 1]
  OBVIOUS
<1>3. Head(q) = q[1] /\ Head(q) \in S
  BY <1>1 DEF ToSet
<1>4. S = {Head(q)} \cup ToSet(rest)
  <2>1. ASSUME NEW x \in S
        PROVE  x \in {Head(q)} \cup ToSet(rest)
    <3>1. PICK n \in 1..Len(q) : x = q[n]
      BY <1>1 DEF ToSet
    <3>2. CASE n = 1
      BY <1>3, <3>1, <3>2
    <3>3. CASE n # 1
      <4>1. n - 1 \in 1..Len(rest) /\ rest[n - 1] = q[n]
        BY <1>1, <1>2, <3>1, <3>3
      <4>2. n - 1 \in DOMAIN rest
        BY <1>2, <4>1
      <4> HIDE DEF rest
      <4> QED
        BY <3>1, <4>1, <4>2 DEF ToSet
    <3> QED
      BY <3>2, <3>3
  <2>2. ToSet(rest) \subseteq S
    BY <1>2 DEF ToSet
  <2> QED
    BY <1>3, <2>1, <2>2
<1>5. rest \in Seq(ToSet(rest))
  <2>1. DOMAIN rest = 1..Len(rest)
    BY <1>2
  <2>2. \A n \in 1..Len(rest) : rest[n] \in ToSet(rest)
    BY <2>1 DEF ToSet
  <2> HIDE DEF rest
  <2> QED
    BY <1>2, <2>1, <2>2
<1> HIDE DEF rest
<1> DEFINE all == <<i>> \o rest
<1>6. /\ all \in Seq(ToSet(rest) \cup {i}) /\ Len(all) = Len(rest) + 1 /\ all[1] = i
      /\ \A n \in 1..Len(rest) : all[n + 1] = rest[n]
  BY <1>5
<1>7. <<>> \o rest = rest
  BY <1>5
<1> HIDE DEF all
<1>8. DOMAIN all = 1..(Len(rest) + 1) /\ DOMAIN rest = 1..Len(rest) /\ Len(rest) \in Nat
  BY <1>5, <1>6
<1>9. ToSet(all) = {i} \cup ToSet(rest)
  <2>1. ToSet(all) \subseteq {i} \cup ToSet(rest)
    BY <1>6 DEF ToSet
  <2>2. i \in ToSet(all)
    BY <1>6, <1>8 DEF ToSet
  <2>3. ASSUME NEW x \in ToSet(rest)
        PROVE  x \in ToSet(all)
    <3>1. PICK n \in 1..Len(rest) : x = rest[n]
      BY <1>8 DEF ToSet
    <3>2. n + 1 \in DOMAIN all /\ all[n + 1] = x
      BY <1>6, <1>8, <3>1
    <3> QED
      BY <3>2 DEF ToSet
  <2> QED
    BY <2>1, <2>2, <2>3
<1>10. all \in Seq(ToSet(all))
  BY <1>6, <1>9
<1> QED
  BY <1>3, <1>4, <1>5, <1>7, <1>9, <1>10 DEF rest, all

-----------------------------------------------------------------------------
(* What depends on what.                                                   *)

\* What is computed from the request depends on the request only.
LEMMA SameRequest ==
    ASSUME NEW c, task'[c].req = task[c].req, setting' = setting
    PROVE  /\ Req(c)' = Req(c) /\ File(c)' = File(c) /\ Plans(c)' = Plans(c)
           /\ \A view : Affected(c, view)' = Affected(c, view)
           /\ \A view : Referenced(c, view)' = Referenced(c, view)
  BY DEF Req, File, Plans, Affected, Referenced, FileKeys, FileSlugs

\* What the statements have locked depends on got only.
LEMMA SameGot ==
    ASSUME NEW c, task'[c].got = task[c].got
    PROVE  \A pc : Got(c, pc)' = Got(c, pc)
  BY DEF Got

\* The modules a transaction has for itself depend on its locks only.
LEMMA SameHeld ==
    ASSUME NEW c, held'[c] = held[c]
    PROVE  Own(c)' = Own(c)
  BY DEF Own, Whole

\* What a statement waits for depends on its queue only.
LEMMA SameQueue ==
    ASSUME NEW c, queue'[c] = queue[c]
    PROVE  Awaited(c)' = Awaited(c)
  BY DEF Awaited

-----------------------------------------------------------------------------
(* What one transaction may do while others are under way.                 *)

\* Nobody else inserts or deletes the module.
Open(c, m) == \A d \in Clients \ {c} : Whole(m) \notin held[d]

\* The export of the new rows shows nothing that the old one does not.
FacesKept(new) ==
    \A s \in Strings : Exported(new.rows[s]) =>
        /\ Exported(cat.rows[s])
        /\ PubKey(new.rows[s]) = PubKey(cat.rows[s])
        /\ PubMod(new.rows[s]) = PubMod(cat.rows[s])

Lawful(c, new) ==
    /\ new \in Catalogs
    /\ \A s \in Strings : new.rows[s] # cat.rows[s] =>
          IF Exists(cat.rows[s]) THEN Alone(c, Entry(s)) /\ Exists(new.rows[s])
          ELSE \A d \in Clients \ {c} : task[d].pc = "planned" => s \notin task[d].plan.touched
    /\ \A s \in Strings : /\ new.rows[s].mod \notin {cat.rows[s].mod, None} =>
                                Open(c, new.rows[s].mod)
                          /\ PubMod(new.rows[s]) \notin {PubMod(cat.rows[s]), None} =>
                                Open(c, PubMod(new.rows[s]))
    /\ \A m \in Modules : new.mods[m] # cat.mods[m] =>
          /\ Alone(c, Whole(m))
          /\ new.mods[m] # None => Alone(c, Slug(new.mods[m]))
    /\ Alone(c, Publication) \/ FacesKept(new)

\* It is lawful to change nothing.
LEMMA NothingIsLawful ==
    ASSUME NEW c, cat \in Catalogs
    PROVE  Lawful(c, cat)
  BY DEF Lawful, FacesKept

\* A string or module that d has locked is not changed by c.
LEMMA LockedStays ==
    ASSUME NEW c, NEW d \in Clients, d # c, NEW new, Lawful(c, new)
    PROVE  /\ \A s \in Strings : Entry(s) \in held[d] /\ Exists(cat.rows[s]) =>
                                     new.rows[s] = cat.rows[s]
           /\ \A m \in Modules : Share(m) \in held[d] \/ Whole(m) \in held[d] =>
                                     new.mods[m] = cat.mods[m]
           /\ \A m \in Modules : Slug(new.mods[m]) \in held[d] /\ new.mods[m] # None =>
                                     new.mods[m] = cat.mods[m]
           /\ \A m : Whole(m) \in held[d] => ~Open(c, m)
           /\ Publication \in held[d] => FacesKept(new)
<1>1. /\ \A i \in held[d] : \A j : Alone(c, j) => ~Conflict(j, i)
      /\ \A m : Open(c, m) => Whole(m) \notin held[d]
  BY DEF Alone, Open
<1>2. /\ \A s : Conflict(Entry(s), Entry(s)) /\ \A slug : Conflict(Slug(slug), Slug(slug))
      /\ \A m : Conflict(Whole(m), Share(m)) /\ Conflict(Whole(m), Whole(m))
      /\ Conflict(Publication, Publication)
  BY Conflicts
<1> QED
  BY <1>1, <1>2 DEF Lawful

\* Published keys that do not collide do not begin to, when the export only shrinks.
LEMMA FacesOf ==
    ASSUME NEW new, FacesKept(new), NEW gone, ~PublishedCollides(cat, gone)
    PROVE  ~PublishedCollides(new, gone)
  BY DEF FacesKept, PublishedCollides

\* Exported strings stay apart when the export only shrinks.
LEMMA FacesApart ==
    ASSUME NEW rows, NEW old, Apart(old),
           \A s \in Strings : Exported(rows[s]) =>
               /\ Exported(old[s]) /\ PubKey(rows[s]) = PubKey(old[s])
               /\ PubMod(rows[s]) = PubMod(old[s])
    PROVE  Apart(rows)
  BY DEF Apart

\* What a request asks follows from its kind.
LEMMA RequestKinds ==
    ASSUME NEW r \in AllRequests
    PROVE  /\ r # None
           /\ r.kind \in {"import", "save", "delete", "create", "module", "rename"}
           /\ r.kind = "import" => r \in ImportRequests
           /\ r.kind = "save" => r \in SaveRequests
           /\ r.kind = "delete" => r \in DeleteRequests
           /\ r.kind = "create" => r \in CreateRequests
           /\ r.kind = "module" => r \in ModuleRequests
           /\ r.kind = "rename" => r \in RenameRequests
  BY EngineAssumption, RowsAssumption
     DEF AllRequests, ImportRequests, SaveRequests, DeleteRequests, CreateRequests,
         ModuleRequests, RenameRequests

\* A request under way is one of those that clients send.
LEMMA RequestOf ==
    ASSUME Typed, NEW c \in Clients, Req(c) # None
    PROVE  Req(c) \in AllRequests
  BY DEF Typed, Tasks, Req

\* The modules of a string are modules, and an id that is not in use has none.
LEMMA ModOf ==
    ASSUME cat \in Catalogs, NEW s \in Strings
    PROVE  /\ cat.rows[s] \in Rows
           /\ cat.rows[s].mod \in Modules \cup {None} /\ PubMod(cat.rows[s]) \in Modules \cup {None}
           /\ ~Exists(cat.rows[s]) => cat.rows[s] = NoRow
           /\ cat.rows[s].mod \in Modules \/ PubMod(cat.rows[s]) \in Modules => Exists(cat.rows[s])
<1>1. cat.rows[s] \in Rows
  BY DEF Catalogs
<1> DEFINE r == cat.rows[s]
<1> HIDE DEF r
<1>2. r \in Rows => /\ r.mod \in Modules \cup {None} /\ PubMod(r) \in Modules \cup {None}
                    /\ ~Exists(r) => r = NoRow /\ r.mod = None /\ PubMod(r) = None
  BY RowKinds DEF FullRows, PubMod, Contents
<1> QED
  BY <1>1, <1>2, EngineAssumption, RowsAssumption DEF r

\* What holds of a transaction still holds after a lawful step of another.
LEMMA Steady ==
    ASSUME NEW c, NEW d \in Clients, d # c, Local(d), Grounded, Typed,
           task'[d] = task[d], held'[d] = held[d], queue'[d] = queue[d], setting' = setting,
           NEW new, cat' = new, Lawful(c, new)
    PROVE  Local(d)'
<1> DEFINE view == task[d].view
           plan == task[d].plan
<1>1. /\ Req(d)' = Req(d) /\ File(d)' = File(d) /\ Plans(d)' = Plans(d)
      /\ \A v : Affected(d, v)' = Affected(d, v)
      /\ \A v : Referenced(d, v)' = Referenced(d, v)
      /\ \A pc : Got(d, pc)' = Got(d, pc)
      /\ Own(d)' = Own(d) /\ Awaited(d)' = Awaited(d) /\ Claims(d)' = Claims(d)
  BY SameRequest, SameGot, SameHeld, SameQueue DEF Claims
<1>2. /\ \A s \in Strings : Entry(s) \in held[d] /\ Exists(cat.rows[s]) =>
                                 new.rows[s] = cat.rows[s]
      /\ \A m \in Modules : Share(m) \in held[d] \/ Whole(m) \in held[d] =>
                                 new.mods[m] = cat.mods[m]
      /\ \A m \in Modules : Slug(new.mods[m]) \in held[d] /\ new.mods[m] # None =>
                                 new.mods[m] = cat.mods[m]
      /\ \A m : Whole(m) \in held[d] => ~Open(c, m)
      /\ Publication \in held[d] => FacesKept(new)
  BY LockedStays
<1>3. Phase(d) /\ Waits(d) /\ Holds(d) /\ ImportFacts(d) /\ SaveFacts(d) /\ DeleteFacts(d)
  BY DEF Local
<1>4. Phase(d)' /\ Waits(d)' /\ Holds(d)'
  <2>1. Phase(d)'
    BY <1>1, <1>3 DEF Phase
  <2>2. Waits(d)'
    BY <1>1, <1>3 DEF Waits, Entry, Share, Whole, Publication, IsKey
  <2>3. Holds(d)'
    BY <1>1, <1>3 DEF Holds, Slug, Whole
  <2> QED
    BY <2>1, <2>2, <2>3
<1>5. ImportFacts(d)'
  <2>1. task[d].pc \in ImportPcs => Locked(d)'
    BY <1>1, <1>2, <1>3 DEF ImportFacts, Locked, Entry, Share
  <2>2. task[d].pc \in {"rows", "checked", "created", "planned"} => Viewed(d, view)'
    <3> SUFFICES ASSUME task[d].pc \in {"rows", "checked", "created", "planned"}
                 PROVE  Viewed(d, view)'
      OBVIOUS
    <3>1. Viewed(d, view) /\ Locked(d)
      BY <1>3 DEF ImportFacts, ImportPcs
    <3>2. view' = view /\ view \in Catalogs
      BY <3>1 DEF Viewed
    <3>3. \A s \in Got(d, "entries") : new.rows[s] = view.rows[s]
      BY <1>2, <3>1 DEF Viewed, Locked
    <3>4. \A s \in Strings : Exists(view.rows[s]) => Exists(new.rows[s])
      BY <3>1 DEF Viewed, Lawful
    <3> HIDE DEF view
    <3> QED
      BY <1>1, <3>2, <3>3, <3>4 DEF Viewed
  <2>3. task[d].pc \in {"checked", "created", "planned"} => Checked(d, view)'
    <3> SUFFICES ASSUME task[d].pc \in {"checked", "created", "planned"}
                 PROVE  Checked(d, view)'
      OBVIOUS
    <3>1. Checked(d, view)
      BY <1>3 DEF ImportFacts
    <3>2. view' = view
      OBVIOUS
    <3> HIDE DEF view
    <3> QED
      BY <1>1, <3>1, <3>2 DEF Checked
  <2>4. task[d].pc \in {"created", "planned"} => Inserted(d, view)'
    <3> SUFFICES ASSUME task[d].pc \in {"created", "planned"}
                 PROVE  Inserted(d, view)'
      OBVIOUS
    <3>1. Inserted(d, view)
      BY <1>3 DEF ImportFacts
    <3>2. view' = view /\ (\A slug : Slug(slug)' = Slug(slug))
      BY DEF Slug
    <3>3. \A m \in Own(d) : m \in Modules /\ Whole(m) \in held[d]
      BY DEF Own
    <3> HIDE DEF view
    <3>4. \A m \in Own(d) : new.mods[m] = None
      BY <1>2, <3>1, <3>3 DEF Inserted
    <3>5. ASSUME NEW m \in Own(d), NEW i \in Modules
          PROVE  new.mods[i] # view.mods[m]
      BY <1>2, <3>1, <3>5, EngineAssumption, RowsAssumption DEF Inserted
    <3> QED
      BY <1>1, <3>1, <3>2, <3>4, <3>5 DEF Inserted
  <2>5. task[d].pc = "planned" => PlanStands(d, view, plan)'
    <3> SUFFICES ASSUME task[d].pc = "planned"
                 PROVE  PlanStands(d, view, plan)'
      OBVIOUS
    <3>1. PlanStands(d, view, plan) /\ Checked(d, view) /\ Locked(d)
      BY <1>3 DEF ImportFacts, ImportPcs
    <3>2. view' = view /\ plan' = plan
      OBVIOUS
    <3>3. \A s \in plan.touched : s \in Strings /\ new.rows[s] = cat.rows[s]
      <4> TAKE s \in plan.touched
      <4>1. s \in Strings /\ (Exists(cat.rows[s]) => Entry(s) \in held[d])
        BY <3>1 DEF PlanStands, Checked, Locked
      <4>2. CASE Exists(cat.rows[s])
        BY <1>2, <4>1, <4>2
      <4>3. CASE ~Exists(cat.rows[s])
        BY <4>1, <4>3 DEF Lawful
      <4> QED
        BY <4>1, <4>2, <4>3
    <3>4. Req(d).public => Apart(Overlaid(d, plan).rows)'
      <4> SUFFICES ASSUME Req(d).public
                   PROVE  Apart(Overlaid(d, plan).rows)'
        OBVIOUS
      <4>1. Req(d) # None
        BY <1>3 DEF Phase
      <4>2. FacesKept(new)
        BY <1>2, <1>3, <4>1 DEF Phase
      <4>3. Apart(Overlaid(d, plan).rows)
        BY <3>1 DEF PlanStands
      <4> HIDE DEF plan
      <4> DEFINE after == Overlaid(d, plan).rows'
                 before == Overlaid(d, plan).rows
      <4>4. \A s \in Strings :
               /\ after[s] = IF s \in plan.touched THEN plan.cat.rows[s] ELSE new.rows[s]
               /\ before[s] = IF s \in plan.touched THEN plan.cat.rows[s] ELSE cat.rows[s]
        BY <3>2 DEF Overlaid
      <4> HIDE DEF after, before
      <4>5. Apart(after)
        BY <4>2, <4>3, <4>4, FacesApart DEF FacesKept, before
      <4>6. Apart(after) => Apart(Overlaid(d, plan).rows)'
        BY DEF Apart, after
      <4> QED
        BY <4>5, <4>6
    <3> HIDE DEF view, plan
    <3> QED
      BY <1>1, <3>1, <3>2, <3>3, <3>4 DEF PlanStands
  <2> QED
    BY <2>1, <2>2, <2>3, <2>4, <2>5 DEF ImportFacts
<1>6. SaveFacts(d)'
  <2>1. task[d].pc = "flush" => SaveStands(d, Req(d), view)'
    <3> SUFFICES ASSUME task[d].pc = "flush"
                 PROVE  SaveStands(d, Req(d), view)'
      OBVIOUS
    <3>1. SaveStands(d, Req(d), view)
      BY <1>3 DEF SaveFacts
    <3>2. Req(d) # None /\ Req(d).kind = "save"
      BY <1>3 DEF Phase, SavePcs
    <3>3. Req(d).s \in Strings
      BY <3>2, RequestOf, RequestKinds DEF SaveRequests
    <3>4. new.rows[Req(d).s] = cat.rows[Req(d).s]
      BY <1>2, <3>1, <3>3 DEF SaveStands
    <3>5. view' = view
      OBVIOUS
    <3> HIDE DEF view
    <3> QED
      BY <1>1, <3>1, <3>4, <3>5 DEF SaveStands, Entry, Share
  <2> QED
    BY <1>1, <1>3, <2>1 DEF SaveFacts, Entry
<1>7. DeleteFacts(d)'
  <2> DEFINE gone == Req(d).mod
  <2>1. task[d].pc \in {"refs", "published"} => Sees(d, gone)'
    <3> SUFFICES ASSUME task[d].pc \in {"refs", "published"}
                 PROVE  Sees(d, gone)'
      OBVIOUS
    <3>1. Req(d) # None /\ Req(d).kind = "delete"
      BY <1>3 DEF Phase, DeletePcs
    <3>2. Req(d).public /\ gone \in Modules
      BY <3>1, RequestOf, RequestKinds DEF DeleteRequests
    <3>3. Sees(d, gone) /\ FacesKept(new)
      BY <1>2, <1>3, <3>1, <3>2 DEF DeleteFacts, Phase
    <3>4. gone' = gone
      BY <1>1
    <3> HIDE DEF gone
    <3>5. /\ Whole(gone) \in held[d] /\ new.mods[gone] # None
          /\ ~PublishedCollides(new, gone)
      BY <1>2, <3>2, <3>3, FacesOf DEF Sees
    <3>6. /\ \A s \in Got(d, "refs") :
                s \in Strings /\ Entry(s) \in held[d] /\ new.rows[s] = cat.rows[s]
          /\ \A s \in Got(d, "published") :
                s \in Strings /\ Entry(s) \in held[d] /\ new.rows[s] = cat.rows[s]
      BY <1>2, <3>2, <3>3, ModOf DEF Sees, Typed, TypeOK
    <3>7. ~Open(c, gone) /\ gone # None
      BY <1>2, <3>2, <3>5, EngineAssumption, RowsAssumption
    <3>8. \A s \in Strings : /\ new.rows[s].mod = gone => cat.rows[s].mod = gone
                             /\ PubMod(new.rows[s]) = gone => PubMod(cat.rows[s]) = gone
      BY <3>7 DEF Lawful
    <3>9. (\A s : Entry(s)' = Entry(s)) /\ Whole(gone)' = Whole(gone)
      BY <3>4 DEF Entry, Whole
    <3> QED
      BY <1>1, <3>3, <3>4, <3>5, <3>6, <3>8, <3>9 DEF Sees
  <2> QED
    BY <1>1, <1>3, <2>1 DEF DeleteFacts, Whole
<1> QED
  BY <1>4, <1>5, <1>6, <1>7 DEF Local

-----------------------------------------------------------------------------
(* A step of one client.                                                   *)

\* What c may hold next to the others.
Grants(c, h) == \A d \in Clients \ {c} : \A i \in h, j \in held[d] : ~Conflict(i, j)

\* No other client imports when the request does.
Sole(c, req) ==
    req # None /\ req.kind = "import" =>
        \A d \in Clients \ {c} : Req(d) # None => Req(d).kind # "import"

\* A step of one client keeps the invariant when its own part of it holds afterwards.
LEMMA Step ==
    ASSUME IInv, NEW c \in Clients, NEW t \in Tasks, NEW h, NEW q, q \in Seq(ToSet(q)), NEW new,
           task' = [task EXCEPT ![c] = t], held' = [held EXCEPT ![c] = h],
           queue' = [queue EXCEPT ![c] = q], setting' = setting, cat' = new,
           moved' \in BOOLEAN, Lawful(c, new), Grounded',
           t.req \in Requests[setting.scene][c] \cup {None},
           Grants(c, h), Sole(c, t.req), Local(c)'
    PROVE  IInv'
<1>1. Typed /\ Exclusive /\ OneImport /\ Grounded /\ \A d \in Clients : Local(d)
  BY DEF IInv
<1>2. /\ DOMAIN task = Clients /\ DOMAIN held = Clients /\ DOMAIN queue = Clients
      /\ task \in [Clients -> Tasks]
  BY <1>1 DEF Typed
<1>3. /\ task' \in [Clients -> Tasks] /\ DOMAIN task' = Clients
      /\ task'[c] = t /\ held'[c] = h /\ queue'[c] = q
      /\ \A d \in Clients \ {c} : task'[d] = task[d] /\ held'[d] = held[d] /\ queue'[d] = queue[d]
      /\ held' = [d \in Clients |-> held'[d]] /\ queue' = [d \in Clients |-> queue'[d]]
  BY <1>2
<1>4. Typed'
  <2>1. TypeOK
    BY <1>1 DEF Typed
  <2>2. cat' \in Catalogs /\ setting' \in [modular: BOOLEAN, duplicates: BOOLEAN, scene: Scenes]
    BY <2>1 DEF TypeOK, Lawful
  <2>3. ASSUME NEW d \in Clients
        PROVE  /\ task'[d].req \in Requests[setting'.scene][d] \cup {None}
               /\ task'[d].pc \in Pcs /\ task'[d].tries \in 0..2
               /\ task'[d].got \subseteq Pcs \X (Strings \cup Modules)
               /\ task'[d].view # None => task'[d].view \in Catalogs
    <3>1. task'[d] \in Tasks
      BY <1>3
    <3>2. task'[d].req \in Requests[setting'.scene][d] \cup {None}
      <4>1. CASE d = c
        BY <1>3, <4>1
      <4>2. CASE d # c
        BY <1>3, <2>1, <4>2 DEF TypeOK
      <4> QED
        BY <4>1, <4>2
    <3> QED
      BY <3>1, <3>2 DEF Tasks
  <2>4. \A d \in Clients : queue'[d] \in Seq(Awaited(d)')
    <3>1. \A d \in Clients : queue[d] \in Seq(ToSet(queue[d]))
      BY <1>1 DEF Typed, Awaited
    <3>2. \A d \in Clients : queue'[d] \in Seq(ToSet(queue'[d]))
      BY <1>3, <3>1
    <3>3. \A d : Awaited(d)' = ToSet(queue'[d])
      BY DEF Awaited
    <3> QED
      BY <3>2, <3>3
  <2>5. TypeOK'
    BY <2>2, <2>3 DEF TypeOK
  <2> QED
    BY <1>3, <2>4, <2>5 DEF Typed
<1>5. Exclusive'
  <2> SUFFICES ASSUME NEW d \in Clients, NEW e \in Clients, d # e, NEW i \in held'[d],
                      NEW j \in held'[e]
               PROVE  ~Conflict(i, j)
    BY DEF Exclusive, Conflict
  <2>1. CASE d = c
    BY <1>3, <2>1 DEF Grants
  <2>2. CASE e = c
    BY <1>3, <2>2, Conflicts DEF Grants
  <2>3. CASE d # c /\ e # c
    BY <1>1, <1>3, <2>3 DEF Exclusive
  <2> QED
    BY <2>1, <2>2, <2>3
<1>6. OneImport'
  <2>1. Req(c)' = t.req /\ \A d \in Clients \ {c} : Req(d)' = Req(d)
    BY <1>3 DEF Req
  <2>2. Req(c)' # None /\ Req(c)'.kind = "import" =>
            \A d \in Clients \ {c} : Req(d)' # None => Req(d)'.kind # "import"
    BY <2>1 DEF Sole
  <2>3. \A d, e \in Clients \ {c} :
            /\ Req(d)' # None /\ Req(d)'.kind = "import"
            /\ Req(e)' # None /\ Req(e)'.kind = "import"
            => d = e
    BY <1>1, <2>1 DEF OneImport
  <2> QED
    BY <2>2, <2>3 DEF OneImport
<1>7. ASSUME NEW d \in Clients \ {c}
      PROVE  Local(d)'
  BY <1>1, <1>3, Steady
<1> QED
  BY <1>4, <1>5, <1>6, <1>7 DEF IInv

\* A step that leaves the catalog alone.
LEMMA Quiet ==
    ASSUME IInv, NEW c \in Clients, NEW t \in Tasks, NEW h, NEW q, q \in Seq(ToSet(q)),
           task' = [task EXCEPT ![c] = t], held' = [held EXCEPT ![c] = h],
           queue' = [queue EXCEPT ![c] = q], setting' = setting, cat' = cat, moved' = moved,
           t.req \in Requests[setting.scene][c] \cup {None},
           Grants(c, h), Sole(c, t.req), Local(c)'
    PROVE  IInv'
<1>1. Typed /\ Grounded
  BY DEF IInv
<1>2. cat \in Catalogs /\ moved \in BOOLEAN
  BY <1>1 DEF Typed, TypeOK
<1>3. Grounded'
  BY <1>1 DEF Grounded, ModulesKept, SlugsUnique, Snapshots, Apart
<1>4. Lawful(c, cat)
  BY <1>2, NothingIsLawful
<1> QED
  BY <1>2, <1>3, <1>4, Step

\* Where a client may be that has ended.
LEMMA Ended ==
    ASSUME NEW c \in Clients, task'[c] = [Idle EXCEPT !.pc = "done"], held'[c] = {},
           queue'[c] = <<>>
    PROVE  Local(c)'
<1>1. /\ task'[c].pc = "done" /\ task'[c].req = None
  BY DEF Idle
<1>2. Req(c)' = None
  BY <1>1 DEF Req
<1>3. Phase(c)'
  BY <1>1, <1>2 DEF Phase, ImportPcs, SavePcs, DeletePcs
<1>4. Waits(c)'
  BY <1>1 DEF Waits
<1>5. Holds(c)'
  BY DEF Holds
<1>6. ImportFacts(c)' /\ SaveFacts(c)' /\ DeleteFacts(c)'
  BY <1>1 DEF ImportFacts, SaveFacts, DeleteFacts, ImportPcs
<1> QED
  BY <1>3, <1>4, <1>5, <1>6 DEF Local

\* The record of a client without request.
LEMMA IdleTask ==
    ASSUME NEW pc \in Pcs
    PROVE  [Idle EXCEPT !.pc = pc] \in Tasks /\ [Idle EXCEPT !.pc = pc].req = None
  BY DEF Idle, Tasks

\* A transaction that ends with a lawful commit keeps the invariant.
LEMMA EndStep ==
    ASSUME IInv, NEW c \in Clients, End(c), NEW new, cat' = new, Lawful(c, new), Grounded',
           moved' \in BOOLEAN
    PROVE  IInv'
<1> DEFINE t == [Idle EXCEPT !.pc = "done"]
<1>1. /\ task' = [task EXCEPT ![c] = t] /\ held' = [held EXCEPT ![c] = {}]
      /\ queue' = [queue EXCEPT ![c] = <<>>] /\ setting' = setting
  BY DEF End
<1>2. t \in Tasks /\ t.req = None
  BY IdleTask DEF Pcs
<1>3. DOMAIN task = Clients /\ DOMAIN held = Clients /\ DOMAIN queue = Clients
  BY DEF IInv, Typed
<1>4. Local(c)'
  BY <1>1, <1>3, Ended
<1> HIDE DEF t
<1>5. Grants(c, {}) /\ Sole(c, t.req) /\ <<>> \in Seq(ToSet(<<>>))
  BY <1>2 DEF Grants, Sole
<1> QED
  BY <1>1, <1>2, <1>4, <1>5, Step

\* A transaction that is rolled back keeps the invariant.
LEMMA RefuseStep ==
    ASSUME IInv, NEW c \in Clients, Refuse(c)
    PROVE  IInv'
<1>1. Typed /\ Grounded
  BY DEF IInv
<1>2. cat \in Catalogs /\ moved \in BOOLEAN
  BY <1>1 DEF Typed, TypeOK
<1>3. End(c) /\ cat' = cat /\ moved' = moved
  BY DEF Refuse
<1>4. Grounded'
  BY <1>1, <1>3 DEF Grounded, ModulesKept, SlugsUnique, Snapshots, Apart, End
<1>5. Lawful(c, cat)
  BY <1>2, NothingIsLawful
<1> QED
  BY <1>2, <1>3, <1>4, <1>5, EndStep

\* A commit keeps the invariant when it is lawful, and the new catalog is sound.
LEMMA CommitStep ==
    ASSUME IInv, NEW c \in Clients, NEW new, Commit(c, new), Lawful(c, new),
           ModulesKept(new), SlugsUnique(new), Snapshots(new), Apart(new.rows)
    PROVE  IInv'
<1>1. End(c) /\ cat' = new /\ setting' = setting
  BY DEF Commit, End
<1>2. moved' \in BOOLEAN
  BY DEF Commit, IInv, Typed, TypeOK
<1>3. Grounded'
  BY <1>1 DEF Grounded, ModulesKept, SlugsUnique, Snapshots, Apart
<1> QED
  BY <1>1, <1>2, <1>3, EndStep

-----------------------------------------------------------------------------
(* Sequences of locks.                                                     *)

\* The sequence of what a function makes of the members of another sequence.
LEMMA Mapped ==
    ASSUME NEW S, NEW ids \in Seq(S), ToSet(ids) = S, NEW g, DOMAIN g = S,
           NEW q, q = [i \in DOMAIN ids |-> g[ids[i]]]
    PROVE  /\ q \in Seq(ToSet(q))
           /\ ToSet(q) = {g[x] : x \in S}
<1>1. DOMAIN ids = 1..Len(ids) /\ Len(ids) \in Nat
  OBVIOUS
<1>2. DOMAIN q = 1..Len(ids) /\ \A i \in 1..Len(ids) : q[i] = g[ids[i]]
  BY <1>1
<1>3. \A i \in 1..Len(ids) : q[i] \in ToSet(q)
  BY <1>2 DEF ToSet
<1>4. q \in Seq(ToSet(q))
  <2>1. q = [i \in 1..Len(ids) |-> q[i]]
    BY <1>1
  <2>2. q \in [1..Len(ids) -> ToSet(q)]
    BY <1>3, <2>1
  <2> QED
    BY <1>1, <2>2
<1>5. ToSet(q) = {g[x] : x \in S}
  BY <1>1, <1>2 DEF ToSet
<1> QED
  BY <1>4, <1>5

\* The locks on some modules are a sequence that has them all.
LEMMA ShareLocks ==
    ASSUME NEW S, S \subseteq Modules, NEW q, q = Locks(Share, InOrder(S))
    PROVE  q \in Seq(ToSet(q)) /\ ToSet(q) = {Share(m) : m \in S}
<1>1. IsFiniteSet(S) /\ S \subseteq Nat
  BY FS_Subset, EngineAssumption, RowsAssumption
<1>2. InOrder(S) \in Seq(S) /\ ToSet(InOrder(S)) = S
  BY <1>1, InOrderCovers
<1> DEFINE g == [m \in S |-> Share(m)]
           ids == InOrder(S)
<1>3. q = [i \in DOMAIN ids |-> Share(ids[i])]
  BY DEF Locks
<1> HIDE DEF ids
<1>4. \A i \in DOMAIN ids : ids[i] \in S
  BY <1>2 DEF ids
<1>5. q = [i \in DOMAIN ids |-> g[ids[i]]]
  BY <1>3, <1>4
<1>6. DOMAIN g = S /\ {g[m] : m \in S} = {Share(m) : m \in S}
  OBVIOUS
<1> HIDE DEF g
<1>7. ids \in Seq(S) /\ ToSet(ids) = S
  BY <1>2 DEF ids
<1>8. q \in Seq(ToSet(q)) /\ ToSet(q) = {g[x] : x \in S}
  BY <1>5, <1>6, <1>7, Mapped
<1> QED
  BY <1>6, <1>8

\* The locks on some strings are a sequence that has them all.
LEMMA EntryLocks ==
    ASSUME NEW S, S \subseteq Strings, NEW ids \in Seq(S), ToSet(ids) = S,
           NEW q, q = Locks(Entry, ids)
    PROVE  q \in Seq(ToSet(q)) /\ ToSet(q) = {Entry(s) : s \in S}
<1> DEFINE g == [s \in S |-> Entry(s)]
<1>1. q = [i \in DOMAIN ids |-> Entry(ids[i])]
  BY DEF Locks
<1>2. \A i \in DOMAIN ids : ids[i] \in S
  OBVIOUS
<1>3. q = [i \in DOMAIN ids |-> g[ids[i]]]
  BY <1>1, <1>2
<1>4. DOMAIN g = S /\ {g[s] : s \in S} = {Entry(s) : s \in S}
  OBVIOUS
<1> HIDE DEF g
<1>5. q \in Seq(ToSet(q)) /\ ToSet(q) = {g[x] : x \in S}
  BY <1>3, <1>4, Mapped
<1> QED
  BY <1>4, <1>5

\* The strings, in whatever order they are found.
LEMMA Found ==
    ASSUME NEW S, S \subseteq Strings
    PROVE  /\ \A ids \in SetToSeqs(S) : ids \in Seq(S) /\ ToSet(ids) = S
           /\ InOrder(S) \in Seq(S) /\ ToSet(InOrder(S)) = S
<1>1. IsFiniteSet(S) /\ S \subseteq Nat
  BY FS_Subset, EngineAssumption, RowsAssumption
<1> QED
  BY <1>1, InOrderCovers, SeqsCover

-----------------------------------------------------------------------------
(* A statement, and an acquisition.                                        *)

\* The invariant, part by part.
LEMMA Parts ==
    ASSUME IInv, NEW c \in Clients
    PROVE  /\ Typed /\ Exclusive /\ OneImport /\ Grounded /\ Local(c)
           /\ DOMAIN task = Clients /\ DOMAIN held = Clients /\ DOMAIN queue = Clients
           /\ task[c] \in Tasks /\ task[c].req \in Requests[setting.scene][c] \cup {None}
           /\ queue[c] \in Seq(ToSet(queue[c]))
           /\ held = [held EXCEPT ![c] = held[c]] /\ queue = [queue EXCEPT ![c] = queue[c]]
           /\ Grants(c, held[c]) /\ Sole(c, task[c].req)
           /\ cat \in Catalogs
<1>1. Typed /\ Exclusive /\ OneImport /\ Grounded /\ Local(c)
  BY DEF IInv
<1>2. /\ task[c] \in Tasks /\ task[c].req \in Requests[setting.scene][c] \cup {None}
      /\ queue[c] \in Seq(ToSet(queue[c]))
      /\ DOMAIN task = Clients /\ DOMAIN held = Clients /\ DOMAIN queue = Clients
      /\ held = [held EXCEPT ![c] = held[c]] /\ queue = [queue EXCEPT ![c] = queue[c]]
      /\ cat \in Catalogs
  BY <1>1 DEF Typed, TypeOK, Awaited
<1>3. Grants(c, held[c])
  BY <1>1 DEF Exclusive, Grants
<1>4. Sole(c, task[c].req)
  BY <1>1 DEF OneImport, Sole, Req
<1> QED
  BY <1>1, <1>2, <1>3, <1>4

\* A statement keeps the invariant when the part of its client holds afterwards.
LEMMA StatementStep ==
    ASSUME IInv, NEW c \in Clients, NEW pc \in Pcs, NEW locks, Statement(c, pc, locks),
           locks \in Seq(ToSet(locks)), Local(c)'
    PROVE  IInv'
<1> DEFINE t == [task[c] EXCEPT !.pc = pc]
<1>1. /\ task' = [task EXCEPT ![c] = t] /\ held' = [held EXCEPT ![c] = held[c]]
      /\ queue' = [queue EXCEPT ![c] = locks]
      /\ cat' = cat /\ setting' = setting /\ moved' = moved
  BY Parts DEF Statement
<1>2. t \in Tasks /\ t.req = task[c].req
  BY Parts DEF Tasks
<1> HIDE DEF t
<1> QED
  BY <1>1, <1>2, Parts, Quiet

\* What a statement changes, and what it leaves alone.
LEMMA StatementLeaves ==
    ASSUME IInv, NEW c \in Clients, NEW pc \in Pcs, NEW locks, Statement(c, pc, locks)
    PROVE  /\ task'[c].pc = pc /\ queue'[c] = locks /\ Awaited(c)' = ToSet(locks)
           /\ held'[c] = held[c] /\ cat' = cat /\ setting' = setting
           /\ task'[c].req = task[c].req /\ task'[c].got = task[c].got
           /\ task'[c].view = task[c].view /\ task'[c].plan = task[c].plan
           /\ task'[c].open = task[c].open
           /\ Req(c)' = Req(c) /\ File(c)' = File(c) /\ Plans(c)' = Plans(c)
           /\ \A view : Affected(c, view)' = Affected(c, view)
           /\ \A view : Referenced(c, view)' = Referenced(c, view)
           /\ \A p : Got(c, p)' = Got(c, p)
           /\ Own(c)' = Own(c)
<1>1. /\ task'[c].pc = pc /\ queue'[c] = locks
      /\ held'[c] = held[c] /\ cat' = cat /\ setting' = setting
      /\ task'[c].req = task[c].req /\ task'[c].got = task[c].got
      /\ task'[c].view = task[c].view /\ task'[c].plan = task[c].plan
      /\ task'[c].open = task[c].open
  BY Parts DEF Statement, Tasks
<1>2. Awaited(c)' = ToSet(locks)
  BY <1>1 DEF Awaited
<1> QED
  BY <1>1, <1>2, SameRequest, SameGot, SameHeld

-----------------------------------------------------------------------------
(* The statements that only lock and read.                                 *)

\* The facts of one kind of request say nothing of another.
LEMMA OtherFacts ==
    ASSUME NEW c
    PROVE  /\ task[c].pc \in ImportPcs => SaveFacts(c) /\ DeleteFacts(c)
           /\ task[c].pc \in SavePcs => ImportFacts(c) /\ DeleteFacts(c)
           /\ task[c].pc \in DeletePcs => ImportFacts(c) /\ SaveFacts(c)
           /\ task[c].pc = "begun" => ImportFacts(c) /\ SaveFacts(c) /\ DeleteFacts(c)
  BY DEF ImportFacts, SaveFacts, DeleteFacts, ImportPcs, SavePcs, DeletePcs

\* A client whose queue is empty has the publication lock that it needs.
LEMMA Ready ==
    ASSUME IInv, NEW c \in Clients, NEW kind, NEW pc, At(c, kind, pc), pc \notin {"idle", "done"}
    PROVE  /\ Req(c) # None /\ Req(c) \in AllRequests /\ Req(c).kind = kind
           /\ task[c].pc = pc
           /\ Awaited(c) = {} /\ Claims(c) = held[c]
           /\ Req(c).public => Publication \in held[c]
<1>1. Typed /\ Phase(c)
  BY Parts DEF Local
<1>2. task[c].pc = pc /\ queue[c] = <<>> /\ Req(c).kind = kind
  BY DEF At
<1>3. Awaited(c) = {} /\ Claims(c) = held[c]
  BY <1>2 DEF Awaited, Claims, ToSet
<1>4. Req(c) # None
  BY <1>1, <1>2 DEF Phase
<1> QED
  BY <1>1, <1>2, <1>3, <1>4, RequestOf DEF Phase

\* An import that begins to lock modules keeps the invariant.
LEMMA ImportModulesStep ==
    ASSUME IInv, NEW c \in Clients, ImportModules(c)
    PROVE  IInv'
<1> DEFINE locks == Locks(Share, InOrder(Referenced(c, cat)))
<1>1. At(c, "import", "begun") /\ Statement(c, "modules", locks)
  BY DEF ImportModules
<1>2. locks \in Seq(ToSet(locks)) /\ ToSet(locks) = {Share(m) : m \in Referenced(c, cat)}
  BY ShareLocks DEF Referenced
<1> HIDE DEF locks
<1>3. Phase(c) /\ Holds(c)
  BY Parts DEF Local
<1>4. /\ task'[c].pc = "modules" /\ Awaited(c)' = ToSet(locks) /\ held'[c] = held[c]
      /\ Req(c)' = Req(c) /\ task'[c].got = task[c].got
  BY <1>1, StatementLeaves DEF Pcs
<1>5. Req(c) # None /\ Req(c).kind = "import" /\ (Req(c).public => Publication \in held[c])
  BY <1>1, Ready
<1>6. task[c].pc = "begun" /\ task[c].got = {}
  BY <1>1, <1>3 DEF At, Phase
<1>7. Phase(c)'
  BY <1>4, <1>5 DEF Phase, Claims, ImportPcs, SavePcs, DeletePcs
<1>8. Waits(c)'
  <2>1. Awaited(c)' \subseteq {Share(m) : m \in Modules}
    BY <1>2, <1>4 DEF Referenced
  <2> QED
    BY <1>4, <2>1 DEF Waits, Share
<1>9. Holds(c)'
  BY <1>3, <1>4, <1>6 DEF Holds, DeletePcs, Slug, Whole
<1>10. ImportFacts(c)'
  <2>1. \A pc : Got(c, pc)' = {}
    BY <1>4, <1>6 DEF Got
  <2>2. Locked(c)'
    BY <2>1 DEF Locked
  <2> QED
    BY <1>4, <2>2 DEF ImportFacts
<1>11. SaveFacts(c)' /\ DeleteFacts(c)'
  BY <1>4 DEF SaveFacts, DeleteFacts
<1>12. Local(c)'
  BY <1>7, <1>8, <1>9, <1>10, <1>11 DEF Local
<1> QED
  BY <1>1, <1>2, <1>12, StatementStep DEF Pcs

\* An import that begins to lock strings keeps the invariant.
LEMMA ImportEntriesStep ==
    ASSUME IInv, NEW c \in Clients, ImportEntries(c)
    PROVE  IInv'
<1> DEFINE locks == Locks(Entry, InOrder(Affected(c, cat)))
<1>1. At(c, "import", "modules") /\ Statement(c, "entries", locks)
  BY DEF ImportEntries
<1>2. locks \in Seq(ToSet(locks)) /\ ToSet(locks) = {Entry(s) : s \in Affected(c, cat)}
  BY EntryLocks, Found DEF Affected
<1> HIDE DEF locks
<1>3. Phase(c) /\ Holds(c) /\ ImportFacts(c)
  BY Parts DEF Local
<1>4. /\ task'[c].pc = "entries" /\ Awaited(c)' = ToSet(locks) /\ held'[c] = held[c]
      /\ Req(c)' = Req(c) /\ cat' = cat /\ \A pc : Got(c, pc)' = Got(c, pc)
  BY <1>1, StatementLeaves DEF Pcs
<1>5. /\ Req(c) # None /\ Req(c).kind = "import" /\ (Req(c).public => Publication \in held[c])
      /\ task[c].pc = "modules"
  BY <1>1, Ready
<1>6. Phase(c)'
  BY <1>4, <1>5 DEF Phase, Claims, ImportPcs, SavePcs, DeletePcs
<1>7. Waits(c)'
  <2>1. Awaited(c)' \subseteq {Entry(s) : s \in Strings}
    BY <1>2, <1>4 DEF Affected
  <2> QED
    BY <1>4, <2>1 DEF Waits, Entry
<1>8. Holds(c)'
  BY <1>3, <1>4, <1>5 DEF Holds, DeletePcs, Slug, Whole
<1>9. ImportFacts(c)'
  <2>1. Locked(c)
    BY <1>3, <1>5 DEF ImportFacts, ImportPcs
  <2>2. Locked(c)'
    BY <1>4, <2>1 DEF Locked, Share, Entry
  <2> QED
    BY <1>4, <2>2 DEF ImportFacts
<1>10. SaveFacts(c)' /\ DeleteFacts(c)'
  BY <1>4 DEF SaveFacts, DeleteFacts
<1>11. Local(c)'
  BY <1>6, <1>7, <1>8, <1>9, <1>10 DEF Local
<1> QED
  BY <1>1, <1>2, <1>11, StatementStep DEF Pcs

\* A save that locks its string keeps the invariant.
LEMMA SaveEntryStep ==
    ASSUME IInv, NEW c \in Clients, SaveEntry(c)
    PROVE  IInv'
<1> DEFINE locks == <<Entry(Req(c).s)>>
<1>1. At(c, "save", "begun") /\ Statement(c, "entry", locks)
  BY DEF SaveEntry
<1>2. /\ Req(c) # None /\ Req(c) \in AllRequests /\ Req(c).kind = "save"
      /\ (Req(c).public => Publication \in held[c]) /\ task[c].pc = "begun"
  BY <1>1, Ready
<1>3. Req(c).s \in Strings
  BY <1>2, RequestKinds DEF SaveRequests
<1>4. locks \in Seq(ToSet(locks)) /\ ToSet(locks) = {Entry(Req(c).s)}
  BY DEF ToSet
<1> HIDE DEF locks
<1>5. Phase(c) /\ Holds(c)
  BY Parts DEF Local
<1>6. /\ task'[c].pc = "entry" /\ Awaited(c)' = ToSet(locks) /\ held'[c] = held[c]
      /\ Req(c)' = Req(c)
  BY <1>1, StatementLeaves DEF Pcs
<1>7. Phase(c)'
  BY <1>2, <1>6 DEF Phase, Claims, ImportPcs, SavePcs, DeletePcs
<1>8. Waits(c)'
  <2>1. Awaited(c)' \subseteq {Entry(s) : s \in Strings}
    BY <1>3, <1>4, <1>6
  <2> QED
    BY <1>6, <2>1 DEF Waits, Entry
<1>9. Holds(c)'
  BY <1>2, <1>5, <1>6 DEF Holds, DeletePcs, Slug, Whole
<1>10. SaveFacts(c)'
  BY <1>4, <1>6 DEF SaveFacts, Claims, Entry
<1>11. ImportFacts(c)' /\ DeleteFacts(c)'
  BY <1>6 DEF ImportFacts, DeleteFacts, ImportPcs
<1>12. Local(c)'
  BY <1>7, <1>8, <1>9, <1>10, <1>11 DEF Local
<1> QED
  BY <1>1, <1>4, <1>12, StatementStep DEF Pcs

\* A deletion that locks its module keeps the invariant.
LEMMA DeleteModuleStep ==
    ASSUME IInv, NEW c \in Clients, DeleteModule(c)
    PROVE  IInv'
<1> DEFINE locks == <<Whole(Req(c).mod)>>
<1>1. At(c, "delete", "begun") /\ Statement(c, "module", locks)
  BY DEF DeleteModule
<1>2. /\ Req(c) # None /\ Req(c) \in AllRequests /\ Req(c).kind = "delete"
      /\ (Req(c).public => Publication \in held[c]) /\ task[c].pc = "begun"
  BY <1>1, Ready
<1>3. Req(c).mod \in Modules
  BY <1>2, RequestKinds DEF DeleteRequests
<1>4. locks \in Seq(ToSet(locks)) /\ ToSet(locks) = {Whole(Req(c).mod)}
  BY DEF ToSet
<1> HIDE DEF locks
<1>5. Phase(c) /\ Holds(c)
  BY Parts DEF Local
<1>6. /\ task'[c].pc = "module" /\ Awaited(c)' = ToSet(locks) /\ held'[c] = held[c]
      /\ Req(c)' = Req(c) /\ task'[c].got = task[c].got
  BY <1>1, StatementLeaves DEF Pcs
<1>7. Phase(c)'
  <2>1. task[c].got = {}
    BY <1>2, <1>5 DEF Phase
  <2> QED
    BY <1>2, <1>6, <2>1 DEF Phase, Claims, ImportPcs, SavePcs, DeletePcs
<1>8. Waits(c)'
  <2>1. Awaited(c)' \subseteq {Whole(m) : m \in Modules}
    BY <1>3, <1>4, <1>6
  <2> QED
    BY <1>6, <2>1 DEF Waits, Whole
<1>9. Holds(c)'
  BY <1>2, <1>5, <1>6 DEF Holds, DeletePcs, Slug, Whole
<1>10. DeleteFacts(c)'
  BY <1>4, <1>6 DEF DeleteFacts, Claims, Whole
<1>11. ImportFacts(c)' /\ SaveFacts(c)'
  BY <1>6 DEF ImportFacts, SaveFacts, ImportPcs
<1>12. Local(c)'
  BY <1>7, <1>8, <1>9, <1>10, <1>11 DEF Local
<1> QED
  BY <1>1, <1>4, <1>12, StatementStep DEF Pcs

\* A deletion that finds its module deletable keeps the invariant.
LEMMA DeleteCheckStep ==
    ASSUME IInv, NEW c \in Clients, DeleteCheck(c)
    PROVE  IInv'
<1> DEFINE gone == Req(c).mod
           S == {s \in Strings : cat.rows[s].mod = gone}
<1>0. At(c, "delete", "module")
  BY DEF DeleteCheck
<1>1. CASE Refuse(c)
  BY <1>1, RefuseStep
<1>2. CASE ~Refuse(c)
  <2>1. /\ cat.mods[gone] # None /\ Deletable(setting.duplicates, cat, gone)
        /\ \E ids \in SetToSeqs(S) : Statement(c, "refs", Locks(Entry, ids))
    BY <1>2 DEF DeleteCheck
  <2>2. PICK ids \in SetToSeqs(S) : Statement(c, "refs", Locks(Entry, ids))
    BY <2>1
  <2> DEFINE locks == Locks(Entry, ids)
  <2>3. locks \in Seq(ToSet(locks)) /\ ToSet(locks) = {Entry(s) : s \in S}
    BY EntryLocks, Found
  <2>4. Statement(c, "refs", locks)
    BY <2>2
  <2> HIDE DEF locks
  <2>5. /\ Req(c) # None /\ Req(c) \in AllRequests /\ Req(c).kind = "delete"
        /\ (Req(c).public => Publication \in held[c]) /\ task[c].pc = "module"
        /\ Claims(c) = held[c]
    BY <1>0, Ready
  <2>6. gone \in Modules
    BY <2>5, RequestKinds DEF DeleteRequests
  <2>7. Phase(c) /\ Holds(c) /\ DeleteFacts(c)
    BY Parts DEF Local
  <2>8. /\ task'[c].pc = "refs" /\ Awaited(c)' = ToSet(locks) /\ held'[c] = held[c]
        /\ Req(c)' = Req(c) /\ task'[c].got = task[c].got /\ cat' = cat
    BY <2>4, StatementLeaves DEF Pcs
  <2>9. Phase(c)'
    BY <2>5, <2>8 DEF Phase, Claims, ImportPcs, SavePcs, DeletePcs
  <2>10. Waits(c)'
    <3>1. Awaited(c)' \subseteq {Entry(s) : s \in Strings}
      BY <2>3, <2>8
    <3> QED
      BY <2>8, <3>1 DEF Waits, Entry
  <2>11. Holds(c)'
    BY <2>5, <2>7, <2>8 DEF Holds, DeletePcs, Slug, Whole
  <2>12. Sees(c, gone)'
    <3>1. \A pc : Got(c, pc)' = {}
      BY <2>5, <2>7, <2>8 DEF Got, Phase
    <3>2. Whole(gone) \in held[c] /\ ~PublishedCollides(cat, gone)
      BY <2>1, <2>5, <2>7 DEF DeleteFacts, Deletable
    <3>3. gone' = gone
      BY <2>8
    <3>4. \A s \in Strings : cat.rows[s].mod = gone => Entry(s) \in Awaited(c)'
      BY <2>3, <2>8
    <3> HIDE DEF gone
    <3> QED
      BY <2>1, <2>8, <3>1, <3>2, <3>3, <3>4 DEF Sees, Whole, Entry
  <2>13. DeleteFacts(c)'
    BY <2>8, <2>12 DEF DeleteFacts
  <2>14. ImportFacts(c)' /\ SaveFacts(c)'
    BY <2>8 DEF ImportFacts, SaveFacts, ImportPcs
  <2>15. Local(c)'
    BY <2>9, <2>10, <2>11, <2>13, <2>14 DEF Local
  <2> QED
    BY <2>3, <2>4, <2>15, StatementStep DEF Pcs
<1> QED
  BY <1>1, <1>2

\* A deletion that turns to the snapshots keeps the invariant.
LEMMA DeleteRefsStep ==
    ASSUME IInv, NEW c \in Clients, DeleteRefs(c)
    PROVE  IInv'
<1> DEFINE gone == Req(c).mod
           S == {s \in Strings : PubMod(cat.rows[s]) = gone}
<1>1. /\ At(c, "delete", "refs")
      /\ \E ids \in SetToSeqs(S) : Statement(c, "published", Locks(Entry, ids))
  BY DEF DeleteRefs
<1>2. PICK ids \in SetToSeqs(S) : Statement(c, "published", Locks(Entry, ids))
  BY <1>1
<1> DEFINE locks == Locks(Entry, ids)
<1>3. locks \in Seq(ToSet(locks)) /\ ToSet(locks) = {Entry(s) : s \in S}
  BY EntryLocks, Found
<1>4. Statement(c, "published", locks)
  BY <1>2
<1> HIDE DEF locks
<1>5. /\ Req(c) # None /\ Req(c) \in AllRequests /\ Req(c).kind = "delete"
      /\ (Req(c).public => Publication \in held[c]) /\ task[c].pc = "refs"
      /\ Awaited(c) = {}
  BY <1>1, Ready
<1>6. Phase(c) /\ Holds(c) /\ DeleteFacts(c)
  BY Parts DEF Local
<1>7. /\ task'[c].pc = "published" /\ Awaited(c)' = ToSet(locks) /\ held'[c] = held[c]
      /\ Req(c)' = Req(c) /\ cat' = cat /\ \A pc : Got(c, pc)' = Got(c, pc)
  BY <1>4, StatementLeaves DEF Pcs
<1>8. Phase(c)'
  BY <1>5, <1>7 DEF Phase, Claims, ImportPcs, SavePcs, DeletePcs
<1>9. Waits(c)'
  <2>1. Awaited(c)' \subseteq {Entry(s) : s \in Strings}
    BY <1>3, <1>7
  <2> QED
    BY <1>7, <2>1 DEF Waits, Entry
<1>10. Holds(c)'
  BY <1>5, <1>6, <1>7 DEF Holds, DeletePcs, Slug, Whole
<1>11. Sees(c, gone)'
  <2>1. Sees(c, gone)
    BY <1>5, <1>6 DEF DeleteFacts
  <2>2. gone' = gone
    BY <1>7
  <2>3. \A s \in Strings : PubMod(cat.rows[s]) = gone => Entry(s) \in Awaited(c)'
    BY <1>3, <1>7
  <2>4. \A s \in Strings : cat.rows[s].mod = gone => s \in Got(c, "refs")
    BY <1>5, <2>1 DEF Sees
  <2> HIDE DEF gone
  <2> QED
    BY <1>7, <2>1, <2>2, <2>3, <2>4 DEF Sees, Whole, Entry
<1>12. DeleteFacts(c)'
  BY <1>7, <1>11 DEF DeleteFacts
<1>13. ImportFacts(c)' /\ SaveFacts(c)'
  BY <1>7 DEF ImportFacts, SaveFacts, ImportPcs
<1>14. Local(c)'
  BY <1>8, <1>9, <1>10, <1>12, <1>13 DEF Local
<1> QED
  BY <1>3, <1>4, <1>14, StatementStep DEF Pcs

\* The record of a transaction after a statement.
Reading(u, pc, view) == [u EXCEPT !.pc = pc, !.view = view]
Planning(u, pc, plan) == [u EXCEPT !.pc = pc, !.plan = plan]
Saving(u, pc, view, plan) == [u EXCEPT !.pc = pc, !.view = view, !.plan = plan]

\* A record with another view.
LEMMA Retasked ==
    ASSUME NEW u \in Tasks, NEW pc \in Pcs, NEW view \in Catalogs \cup {None}, NEW t,
           t = Reading(u, pc, view)
    PROVE  /\ t \in Tasks /\ t.pc = pc /\ t.view = view
           /\ t.req = u.req /\ t.open = u.open /\ t.got = u.got /\ t.plan = u.plan
  BY DEF Reading, Tasks

\* A record with another plan.
LEMMA Replanned ==
    ASSUME NEW u \in Tasks, NEW pc \in Pcs, NEW plan \in Works \cup {None}, NEW t,
           t = Planning(u, pc, plan)
    PROVE  /\ t \in Tasks /\ t.pc = pc /\ t.plan = plan
           /\ t.req = u.req /\ t.open = u.open /\ t.got = u.got /\ t.view = u.view
  BY DEF Planning, Tasks

\* A record with another view and plan.
LEMMA RetaskedAll ==
    ASSUME NEW u \in Tasks, NEW pc \in Pcs, NEW view \in Catalogs \cup {None},
           NEW plan \in Works \cup {None}, NEW t,
           t = Saving(u, pc, view, plan)
    PROVE  /\ t \in Tasks /\ t.pc = pc /\ t.view = view /\ t.plan = plan
           /\ t.req = u.req /\ t.open = u.open /\ t.got = u.got
  BY DEF Saving, Tasks

\* An import that reads its strings keeps the invariant.
LEMMA ImportReadStep ==
    ASSUME IInv, NEW c \in Clients, ImportRead(c)
    PROVE  IInv'
<1> PICK t : t = [task[c] EXCEPT !.pc = "rows", !.view = cat]
  OBVIOUS
<1>1. /\ At(c, "import", "entries")
      /\ task' = [task EXCEPT ![c] = t] /\ held' = [held EXCEPT ![c] = held[c]]
      /\ queue' = [queue EXCEPT ![c] = queue[c]]
      /\ cat' = cat /\ setting' = setting /\ moved' = moved
      /\ held' = held /\ queue' = queue
  BY Parts DEF ImportRead
<1>2. t \in Tasks /\ t.req = task[c].req /\ t.pc = "rows" /\ t.got = task[c].got /\ t.view = cat
  <2>1. "rows" \in Pcs
    BY DEF Pcs
  <2>2. task[c] \in Tasks /\ cat \in Catalogs \cup {None}
    BY Parts
  <2>3. t = Reading(task[c], "rows", cat)
    BY DEF Reading
  <2> QED
    BY <2>1, <2>2, <2>3, Retasked
<1>3. task'[c] = t
  BY <1>1, Parts
<1>4. /\ Req(c) # None /\ Req(c).kind = "import" /\ (Req(c).public => Publication \in held[c])
      /\ task[c].pc = "entries" /\ Awaited(c) = {}
  BY <1>1, Ready
<1>5. Phase(c) /\ Holds(c) /\ ImportFacts(c) /\ cat \in Catalogs
  BY Parts DEF Local
<1>6. /\ Req(c)' = Req(c) /\ \A pc : Got(c, pc)' = Got(c, pc) /\ Awaited(c)' = {}
  BY <1>1, <1>2, <1>3, <1>4, SameRequest, SameGot, SameQueue
<1>7. Phase(c)'
  BY <1>1, <1>2, <1>3, <1>4, <1>6 DEF Phase, Claims, ImportPcs, SavePcs, DeletePcs
<1>8. Waits(c)'
  BY <1>2, <1>3, <1>6 DEF Waits
<1>9. Holds(c)'
  BY <1>1, <1>4, <1>5 DEF Holds, DeletePcs, Slug, Whole
<1>10. ImportFacts(c)'
  <2>1. Locked(c)
    BY <1>4, <1>5 DEF ImportFacts, ImportPcs
  <2>2. Locked(c)'
    BY <1>1, <1>6, <2>1 DEF Locked, Share, Entry
  <2>3. Viewed(c, cat)'
    BY <1>1, <1>5 DEF Viewed
  <2>4. task'[c].view = cat'
    BY <1>1, <1>2, <1>3
  <2> QED
    BY <1>2, <1>3, <2>2, <2>3, <2>4 DEF ImportFacts
<1>11. SaveFacts(c)' /\ DeleteFacts(c)'
  BY <1>2, <1>3 DEF SaveFacts, DeleteFacts
<1>12. Local(c)'
  BY <1>7, <1>8, <1>9, <1>10, <1>11 DEF Local
<1> QED
  BY <1>1, <1>2, <1>12, Parts, Quiet

\* An import that checks its locks and its file keeps the invariant.
LEMMA ImportCheckStep ==
    ASSUME IInv, NEW c \in Clients, ImportCheck(c)
    PROVE  IInv'
<1> PICK old : old = task[c].view
  OBVIOUS
<1> PICK view : view = [old EXCEPT !.mods = cat.mods]
  OBVIOUS
<1> PICK t : t = [task[c] EXCEPT !.pc = "checked", !.view = view]
  OBVIOUS
<1>0. At(c, "import", "rows")
  BY DEF ImportCheck
<1>1. CASE Refuse(c)
  BY <1>1, RefuseStep
<1>2. CASE ~Refuse(c)
  <2>1. /\ Covered(c, view, {})
        /\ task' = [task EXCEPT ![c] = t] /\ held' = [held EXCEPT ![c] = held[c]]
        /\ queue' = [queue EXCEPT ![c] = queue[c]]
        /\ cat' = cat /\ setting' = setting /\ moved' = moved
        /\ held' = held /\ queue' = queue
    BY <1>2, Parts DEF ImportCheck
  <2>2. /\ Req(c) # None /\ Req(c).kind = "import" /\ (Req(c).public => Publication \in held[c])
        /\ task[c].pc = "rows" /\ Awaited(c) = {}
    BY <1>0, Ready
  <2>3. Phase(c) /\ Holds(c) /\ ImportFacts(c) /\ cat \in Catalogs /\ Grounded
    BY Parts DEF Local
  <2>4. Locked(c) /\ Viewed(c, old)
    BY <2>2, <2>3 DEF ImportFacts, ImportPcs
  <2>5. view \in Catalogs /\ view.rows = old.rows /\ view.mods = cat.mods
    BY <2>3, <2>4 DEF Viewed, Catalogs
  <2>6. /\ t \in Tasks /\ t.req = task[c].req /\ t.pc = "checked" /\ t.got = task[c].got
        /\ t.view = view
    <3>1. "checked" \in Pcs
      BY DEF Pcs
    <3>2. task[c] \in Tasks /\ view \in Catalogs \cup {None}
      BY <2>5, Parts
    <3>3. t = Reading(task[c], "checked", view)
      BY DEF Reading
    <3> QED
      BY <3>1, <3>2, <3>3, Retasked
  <2>7. task'[c] = t
    BY <2>1, Parts
  <2>8. /\ Req(c)' = Req(c) /\ \A pc : Got(c, pc)' = Got(c, pc) /\ Awaited(c)' = {}
        /\ \A v : Affected(c, v)' = Affected(c, v)
        /\ \A v : Referenced(c, v)' = Referenced(c, v)
        /\ Own(c)' = Own(c)
    BY <2>1, <2>2, <2>6, <2>7, SameRequest, SameGot, SameQueue, SameHeld
  <2>9. Phase(c)'
    BY <2>1, <2>2, <2>6, <2>7, <2>8 DEF Phase, Claims, ImportPcs, SavePcs, DeletePcs
  <2>10. Waits(c)'
    BY <2>6, <2>7, <2>8 DEF Waits
  <2>11. Holds(c)'
    BY <2>1, <2>2, <2>3 DEF Holds, DeletePcs, Slug, Whole
  <2>12. Viewed(c, view)
    BY <2>4, <2>5 DEF Viewed
  <2>13. Checked(c, view)
    <3>1. Affected(c, view) \subseteq Got(c, "entries") /\ Referenced(c, view) \subseteq Got(c, "modules")
      BY <2>1 DEF Covered
    <3>2. ASSUME NEW s \in Affected(c, view),
                 NEW m \in {view.rows[s].mod, PubMod(view.rows[s])} \ {None}
          PROVE  view.mods[m] # None
      <4>1. s \in Strings /\ cat.rows[s] = view.rows[s]
        BY <2>12, <3>1 DEF Affected, Viewed
      <4> QED
        BY <2>3, <2>5, <4>1 DEF Grounded, ModulesKept
    <3> QED
      BY <3>1, <3>2 DEF Checked
  <2>14. ImportFacts(c)'
    <3>1. Locked(c)'
      BY <2>1, <2>4, <2>8 DEF Locked, Share, Entry
    <3>2. Viewed(c, view)' /\ Checked(c, view)'
      BY <2>1, <2>8, <2>12, <2>13 DEF Viewed, Checked
    <3>3. task'[c].view = view /\ task'[c].pc = "checked"
      BY <2>6, <2>7
    <3> QED
      BY <3>1, <3>2, <3>3 DEF ImportFacts
  <2>15. SaveFacts(c)' /\ DeleteFacts(c)'
    BY <2>6, <2>7 DEF SaveFacts, DeleteFacts
  <2>16. Local(c)'
    BY <2>9, <2>10, <2>11, <2>14, <2>15 DEF Local
  <2> QED
    BY <2>1, <2>6, <2>16, Parts, Quiet
<1> QED
  BY <1>1, <1>2

\* An import that inserts its modules keeps the invariant.
LEMMA ImportCreateStep ==
    ASSUME IInv, NEW c \in Clients, ImportCreate(c)
    PROVE  IInv'
<1> DEFINE missing_ == NewSlugs(task[c].view, File(c))
           mods_ == IF missing_ = {} THEN task[c].view.mods
                    ELSE WithModules(cat.mods, NewSlugs(cat, File(c)))
           new_ == {m \in Modules : missing_ # {} /\ mods_[m] # None /\ cat.mods[m] = None}
           view_ == [task[c].view EXCEPT !.mods = mods_]
           t_ == [task[c] EXCEPT !.pc = "created", !.view = view_]
           h_ == held[c] \cup {Whole(m) : m \in new_} \cup {Slug(mods_[m]) : m \in new_}
<1>a. \/ Refuse(c)
      \/ /\ Covered(c, view_, new_) /\ NewSlugs(view_, File(c)) = {}
         /\ \A m \in new_ : Unnamed(c, m)
         /\ task' = [task EXCEPT ![c] = t_] /\ held' = [held EXCEPT ![c] = h_]
         /\ queue' = queue /\ cat' = cat /\ setting' = setting /\ moved' = moved
  <2>1. DOMAIN task = Clients /\ DOMAIN held = Clients
    BY Parts
  <2> QED
    BY <2>1 DEF ImportCreate
<1> PICK old : old = task[c].view
  OBVIOUS
<1> PICK missing : missing = missing_
  OBVIOUS
<1> PICK mods : mods = mods_
  OBVIOUS
<1> PICK new : new = new_
  OBVIOUS
<1> PICK view : view = view_
  OBVIOUS
<1> PICK t : t = t_
  OBVIOUS
<1> PICK h : h = h_
  OBVIOUS
<1>b. /\ missing = NewSlugs(old, File(c))
      /\ mods = IF missing = {} THEN old.mods ELSE WithModules(cat.mods, NewSlugs(cat, File(c)))
      /\ view = [old EXCEPT !.mods = mods] /\ t = [task[c] EXCEPT !.pc = "created", !.view = view]
      /\ \A m : m \in new <=> m \in Modules /\ missing # {} /\ mods[m] # None /\ cat.mods[m] = None
      /\ h = held[c] \cup {Whole(m) : m \in new} \cup {Slug(mods[m]) : m \in new}
  <2> HIDE DEF missing_
  <2>1. missing = NewSlugs(old, File(c))
    BY DEF missing_
  <2>2. mods = IF missing = {} THEN old.mods ELSE WithModules(cat.mods, NewSlugs(cat, File(c)))
    OBVIOUS
  <2> HIDE DEF mods_
  <2>3. view = [old EXCEPT !.mods = mods] /\ t = [task[c] EXCEPT !.pc = "created", !.view = view]
    OBVIOUS
  <2>4. \A m : m \in new <=> m \in Modules /\ missing # {} /\ mods[m] # None /\ cat.mods[m] = None
    OBVIOUS
  <2> HIDE DEF new_
  <2>5. h = held[c] \cup {Whole(m) : m \in new} \cup {Slug(mods[m]) : m \in new}
    OBVIOUS
  <2> QED
    BY <2>1, <2>2, <2>3, <2>4, <2>5
<1> HIDE DEF missing_, mods_, new_, view_, t_, h_
<1>0. At(c, "import", "checked")
  BY DEF ImportCreate
<1>1. CASE Refuse(c)
  BY <1>1, RefuseStep
<1>2. CASE ~Refuse(c)
  <2>1. /\ Covered(c, view, new) /\ NewSlugs(view, File(c)) = {}
        /\ \A m \in new : Unnamed(c, m)
        /\ task' = [task EXCEPT ![c] = t] /\ held' = [held EXCEPT ![c] = h]
        /\ queue' = [queue EXCEPT ![c] = queue[c]]
        /\ cat' = cat /\ setting' = setting /\ moved' = moved /\ queue' = queue
    BY <1>a, <1>2, Parts
  <2>2. /\ Req(c) # None /\ Req(c) \in AllRequests /\ Req(c).kind = "import"
        /\ (Req(c).public => Publication \in held[c])
        /\ task[c].pc = "checked" /\ Awaited(c) = {}
    BY <1>0, Ready
  <2>3. Phase(c) /\ Holds(c) /\ ImportFacts(c) /\ cat \in Catalogs /\ Grounded
    BY Parts DEF Local
  <2>4. Locked(c) /\ Viewed(c, old) /\ Checked(c, old)
    BY <2>2, <2>3 DEF ImportFacts, ImportPcs
  <2>5. File(c) \in Seq(ImportRows)
    BY <2>2, RequestKinds DEF ImportRequests, File
  <2>6. old \in Catalogs /\ old.mods \in [Modules -> Slugs \cup {None}]
        /\ cat.mods \in [Modules -> Slugs \cup {None}]
    BY <2>3, <2>4 DEF Viewed, Catalogs
  <2>7. /\ mods \in [Modules -> Slugs \cup {None}]
        /\ missing # {} => /\ \A m \in Modules : cat.mods[m] # None => mods[m] # None
                           /\ \A m \in new : mods[m] \in NewSlugs(cat, File(c))
                           /\ \A i, j \in new : mods[i] = mods[j] => i = j
    <3>1. CASE missing = {}
      BY <1>b, <2>6, <3>1
    <3>2. CASE missing # {}
      <4> PICK slugs : slugs = NewSlugs(cat, File(c))
        OBVIOUS
      <4>1. mods = WithModules(cat.mods, slugs)
        BY <1>b, <3>2
      <4>2. slugs \in SUBSET Slugs /\ IsFiniteSet(slugs) /\ None \notin Slugs
        BY <2>5, NewSlugsAre, EngineAssumption, RowsAssumption
      <4>3. /\ mods \in [Modules -> Slugs \cup {None}]
            /\ \A m \in Modules : /\ cat.mods[m] # None => mods[m] # None
                                  /\ mods[m] # cat.mods[m] => mods[m] \in slugs
            /\ \A i, j \in Modules :
                  mods[i] # cat.mods[i] /\ mods[j] # cat.mods[j] /\ mods[i] = mods[j] => i = j
        BY <2>6, <4>1, <4>2, WithModulesAdds
      <4>4. \A m \in new : m \in Modules /\ mods[m] # cat.mods[m]
        BY <1>b
      <4> QED
        BY <4>3, <4>4
    <3> QED
      BY <3>1, <3>2
  <2>8. view \in Catalogs /\ view.rows = old.rows /\ view.mods = mods
    BY <1>b, <2>6, <2>7 DEF Catalogs
  <2>9. /\ t \in Tasks /\ t.req = task[c].req /\ t.pc = "created" /\ t.got = task[c].got
        /\ t.view = view
    <3>1. "created" \in Pcs
      BY DEF Pcs
    <3>2. task[c] \in Tasks /\ view \in Catalogs \cup {None}
      BY <2>8, Parts
    <3>3. t = Reading(task[c], "created", view)
      BY <1>b DEF Reading
    <3> QED
      BY <3>1, <3>2, <3>3, Retasked
  <2>10. task'[c] = t /\ held'[c] = h
    BY <2>1, Parts
  <2>11. /\ Req(c)' = Req(c) /\ (\A pc : Got(c, pc)' = Got(c, pc)) /\ Awaited(c)' = {}
         /\ File(c)' = File(c)
         /\ \A v : Affected(c, v)' = Affected(c, v)
         /\ \A v : Referenced(c, v)' = Referenced(c, v)
    BY <2>1, <2>2, <2>9, <2>10, SameRequest, SameGot, SameQueue
  <2>12. Own(c) = {}
    BY <2>2, <2>3 DEF Own, Holds, DeletePcs
  <2>13. Own(c)' = new /\ new \subseteq Modules /\ held[c] \subseteq h
    <3>1. \A m, i : Whole(m) = Whole(i) => m = i
      BY DEF Whole
    <3>2. \A m, slug : Whole(m) # Slug(slug)
      BY DEF Whole, Slug
    <3>3. \A m \in Modules : Whole(m) \notin held[c]
      BY <2>12 DEF Own
    <3>4. {m \in Modules : Whole(m) \in h} = new
      BY <1>b, <3>1, <3>2, <3>3
    <3> QED
      BY <1>b, <2>10, <3>4 DEF Own, Whole
  <2>14. Grants(c, h)
    <3> SUFFICES ASSUME NEW d \in Clients \ {c}, NEW i \in h, NEW j \in held[d]
                 PROVE  ~Conflict(i, j)
      BY DEF Grants
    <3>1. CASE i \in held[c]
      BY <3>1, Parts DEF Grants
    <3>2. CASE i \in {Whole(m) : m \in new}
      BY <2>1, <3>2 DEF Unnamed
    <3>3. CASE i \in {Slug(mods[m]) : m \in new}
      <4>1. PICK m \in new : i = Slug(mods[m])
        BY <3>3
      <4>2. mods[m] \in Slugs
        BY <1>b, <2>7, <2>13, <4>1
      <4>3. Conflict(i, j) => j = Slug(mods[m])
        BY <4>1 DEF Conflict, Slug
      <4>4. Slug(mods[m]) \notin held[d]
        <5>1. Phase(d) /\ Holds(d) /\ OneImport
          BY DEF IInv, Local
        <5>2. task[d].pc \in {"created", "planned"} => Req(d) # None /\ Req(d).kind = "import"
          BY <5>1 DEF Phase, ImportPcs
        <5>3. task[d].pc \notin {"created", "planned"}
          BY <2>2, <5>1, <5>2 DEF OneImport
        <5> QED
          BY <4>2, <5>1, <5>3 DEF Holds
      <4> QED
        BY <4>3, <4>4
    <3> QED
      BY <1>b, <3>1, <3>2, <3>3
  <2>15. Phase(c)'
    BY <2>1, <2>2, <2>9, <2>10, <2>11, <2>13 DEF Phase, Claims, ImportPcs, SavePcs, DeletePcs
  <2>16. Waits(c)'
    BY <2>9, <2>10, <2>11 DEF Waits
  <2>17. Holds(c)'
    BY <2>9, <2>10 DEF Holds
  <2>18. Viewed(c, view)
    BY <2>4, <2>8 DEF Viewed
  <2>19. Checked(c, view)'
    <3>1. Affected(c, view) \subseteq Got(c, "entries")
          /\ Referenced(c, view) \subseteq Got(c, "modules") \cup new
      BY <2>1 DEF Covered
    <3>2. ASSUME NEW s \in Affected(c, view),
                 NEW m \in {view.rows[s].mod, PubMod(view.rows[s])} \ {None}
          PROVE  view.mods[m] # None
      <4>1. s \in Strings /\ cat.rows[s] = view.rows[s] /\ s \in Affected(c, old)
        BY <2>8, <2>18, <3>1 DEF Affected, Viewed
      <4>2. m \in Modules /\ cat.mods[m] # None
        BY <2>3, <4>1, ModOf DEF Grounded, ModulesKept
      <4>3. old.mods[m] # None
        BY <2>4, <2>8, <4>1 DEF Checked
      <4> QED
        BY <1>b, <2>7, <2>8, <4>2, <4>3
    <3> QED
      BY <2>1, <2>11, <2>13, <3>1, <3>2 DEF Checked
  <2>20. Inserted(c, view)'
    <3>1. ASSUME NEW m \in new
          PROVE  /\ cat.mods[m] = None /\ view.mods[m] \in Slugs
                 /\ Slug(view.mods[m]) \in h
                 /\ \A i \in Modules : cat.mods[i] # view.mods[m]
                 /\ \A i \in new : view.mods[i] = view.mods[m] => i = m
      BY <1>b, <2>5, <2>7, <2>8, <3>1, NewSlugsAre
    <3>2. \A slug : Slug(slug)' = Slug(slug)
      BY DEF Slug
    <3> QED
      BY <2>1, <2>10, <2>11, <2>13, <3>1, <3>2 DEF Inserted
  <2>21. ImportFacts(c)'
    <3>1. Locked(c)'
      BY <2>1, <2>4, <2>10, <2>11, <2>13 DEF Locked, Share, Entry
    <3>2. Viewed(c, view)'
      BY <2>1, <2>11, <2>18 DEF Viewed
    <3>3. task'[c].view = view /\ task'[c].pc = "created"
      BY <2>9, <2>10
    <3> QED
      BY <2>19, <2>20, <3>1, <3>2, <3>3 DEF ImportFacts
  <2>22. SaveFacts(c)' /\ DeleteFacts(c)'
    BY <2>9, <2>10 DEF SaveFacts, DeleteFacts
  <2>23. Local(c)'
    BY <2>15, <2>16, <2>17, <2>21, <2>22 DEF Local
  <2> QED
    BY <2>1, <2>9, <2>14, <2>23, Parts, Quiet
<1> QED
  BY <1>1, <1>2

\* The keys of some rows.
RowKeys(S, rows) == {rows[s].key : s \in S}

\* The entries of some rows in the indexes are a sequence of key locks.
LEMMA KeyLocks ==
    ASSUME NEW S, NEW ids \in Seq(S), ToSet(ids) = S, NEW rows,
           NEW q, q = [i \in DOMAIN ids |-> Key(rows[ids[i]])]
    PROVE  /\ q \in Seq(ToSet(q)) /\ \A i \in ToSet(q) : IsKey(i)
           /\ \A i \in ToSet(q) : KeyOf(i) \in RowKeys(S, rows)
<1> DEFINE g == [s \in S |-> Key(rows[s])]
<1>1. \A i \in DOMAIN ids : ids[i] \in S
  OBVIOUS
<1>2. q = [i \in DOMAIN ids |-> g[ids[i]]]
  BY <1>1
<1>3. DOMAIN g = S /\ \A s \in S : IsKey(g[s]) /\ KeyOf(g[s]) = rows[s].key
  BY DEF Key, IsKey, KeyOf, KeyIdentity
<1> HIDE DEF g
<1>4. q \in Seq(ToSet(q)) /\ ToSet(q) = {g[x] : x \in S}
  BY <1>2, <1>3, Mapped
<1>5. \A s \in S : KeyOf(g[s]) \in RowKeys(S, rows)
  BY <1>3 DEF RowKeys
<1> QED
  BY <1>3, <1>4, <1>5

\* What is apart by slugs is apart by ids.
LEMMA PublicApart ==
    ASSUME NEW view, KeysPublic(setting.modular, view)
    PROVE  Apart(view.rows)
  BY DEF KeysPublic, Apart, ExportIdentity

\* An import that makes its plan keeps the invariant.
LEMMA ImportPlanStep ==
    ASSUME IInv, NEW c \in Clients, ImportPlan(c)
    PROVE  /\ IInv'
           /\ Refuse(c) \/ \A i \in ToSet(queue'[c]) : IsKey(i) /\ KeyOf(i) \in FileKeys(c)
<1> DEFINE view_ == task[c].view
           plan_ == Plan(Plans(c), view_, File(c))
           born_ == {s \in plan_.touched : ~Alive(view_.rows[s])}
           ids_ == InOrder(born_)
           locks_ == [i \in DOMAIN ids_ |-> Key(plan_.cat.rows[ids_[i]])]
           t_ == [task[c] EXCEPT !.pc = "planned", !.plan = plan_]
<1>a. \/ Refuse(c)
      \/ /\ Req(c).public => KeysPublic(setting.modular, Overlaid(c, plan_))
         /\ plan_.touched \subseteq Affected(c, view_) \cup Unused
         /\ task' = [task EXCEPT ![c] = t_] /\ held' = held
         /\ queue' = [queue EXCEPT ![c] = locks_]
         /\ cat' = cat /\ setting' = setting /\ moved' = moved
  <2>1. DOMAIN task = Clients
    BY Parts
  <2> QED
    BY <2>1 DEF ImportPlan, Locks
<1> PICK view : view = view_
  OBVIOUS
<1> PICK plan : plan = plan_
  OBVIOUS
<1> PICK locks : locks = locks_
  OBVIOUS
<1> PICK t : t = t_
  OBVIOUS
<1>b. /\ view = task[c].view /\ plan = Plan(Plans(c), view, File(c))
      /\ t = [task[c] EXCEPT !.pc = "planned", !.plan = plan]
      /\ born_ \subseteq plan.touched
      /\ locks = [i \in DOMAIN ids_ |-> Key(plan.cat.rows[ids_[i]])]
  <2>1. plan = Plan(Plans(c), view, File(c)) /\ view = task[c].view
    OBVIOUS
  <2> HIDE DEF plan_
  <2> QED
    BY <2>1
<1>c. ids_ = InOrder(born_)
  OBVIOUS
<1> HIDE DEF view_, plan_, born_, ids_, locks_, t_
<1>0. At(c, "import", "created")
  BY DEF ImportPlan
<1>1. CASE Refuse(c)
  BY <1>1, RefuseStep
<1>2. CASE ~Refuse(c)
  <2>1. /\ Req(c).public => KeysPublic(setting.modular, Overlaid(c, plan))
        /\ plan.touched \subseteq Affected(c, view) \cup Unused
        /\ task' = [task EXCEPT ![c] = t] /\ held' = [held EXCEPT ![c] = held[c]]
        /\ queue' = [queue EXCEPT ![c] = locks]
        /\ cat' = cat /\ setting' = setting /\ moved' = moved /\ held' = held
    BY <1>a, <1>2, Parts
  <2>2. /\ Req(c) # None /\ Req(c) \in AllRequests /\ Req(c).kind = "import"
        /\ (Req(c).public => Publication \in held[c])
        /\ task[c].pc = "created" /\ Awaited(c) = {}
    BY <1>0, Ready
  <2>3. Phase(c) /\ Holds(c) /\ ImportFacts(c) /\ cat \in Catalogs /\ Typed
    BY Parts DEF Local
  <2>4. Locked(c) /\ Viewed(c, view) /\ Checked(c, view) /\ Inserted(c, view)
    BY <1>b, <2>2, <2>3 DEF ImportFacts, ImportPcs
  <2>5. /\ File(c) \in Seq(ImportRows) /\ Plans(c) \in PlanOptions
        /\ view \in Catalogs /\ NewSlugs(view, File(c)) = {}
    <3>1. Req(c) \in ImportRequests
      BY <2>2, RequestKinds
    <3>2. setting.duplicates \in BOOLEAN
      BY <2>3 DEF Typed, TypeOK
    <3>3. Plans(c) \in PlanOptions
      BY <3>1, <3>2 DEF ImportRequests, Plans, PlanOptions
    <3> QED
      BY <2>4, <3>1, <3>3 DEF ImportRequests, File, Viewed, Inserted
  <2>6. plan \in ImportPlans
    BY <1>b, <2>5, PlanFacts
  <2>7. plan.touched \subseteq Strings
    BY <2>1 DEF Affected, Unused
  <2>8. plan \in Works
    BY <2>6, <2>7 DEF ImportPlans, Works
  <2>9. /\ t \in Tasks /\ t.req = task[c].req /\ t.pc = "planned" /\ t.got = task[c].got
        /\ t.view = view /\ t.plan = plan
    <3>1. "planned" \in Pcs
      BY DEF Pcs
    <3>2. task[c] \in Tasks /\ plan \in Works \cup {None}
      BY <2>8, Parts
    <3>3. t = Planning(task[c], "planned", plan)
      BY <1>b DEF Planning
    <3>4. /\ t \in Tasks /\ t.req = task[c].req /\ t.pc = "planned" /\ t.got = task[c].got
          /\ t.view = task[c].view /\ t.plan = plan
      BY <3>1, <3>2, <3>3, Replanned
    <3> QED
      BY <1>b, <3>4
  <2>10. /\ locks \in Seq(ToSet(locks)) /\ \A i \in ToSet(locks) : IsKey(i)
         /\ \A i \in ToSet(locks) : KeyOf(i) \in RowKeys(plan.touched, plan.cat.rows)
    <3>1. born_ \subseteq Strings
      BY <1>b, <2>7
    <3>2. ids_ \in Seq(born_) /\ ToSet(ids_) = born_
      BY <1>c, <3>1, Found
    <3> PICK rows : rows = plan.cat.rows
      OBVIOUS
    <3>3. locks = [i \in DOMAIN ids_ |-> Key(rows[ids_[i]])]
      BY <1>b
    <3>4. /\ locks \in Seq(ToSet(locks)) /\ \A i \in ToSet(locks) : IsKey(i)
          /\ \A i \in ToSet(locks) : KeyOf(i) \in RowKeys(born_, rows)
      <4> PICK born : born = born_
        OBVIOUS
      <4> PICK ids : ids = ids_
        OBVIOUS
      <4>1. /\ ids \in Seq(born) /\ ToSet(ids) = born
            /\ locks = [i \in DOMAIN ids |-> Key(rows[ids[i]])]
        BY <3>2, <3>3
      <4>2. /\ locks \in Seq(ToSet(locks)) /\ \A i \in ToSet(locks) : IsKey(i)
            /\ \A i \in ToSet(locks) : KeyOf(i) \in RowKeys(born, rows)
        <5>1. locks \in Seq(ToSet(locks)) /\ \A i \in ToSet(locks) : IsKey(i)
          BY <4>1, KeyLocks
        <5>2. \A i \in ToSet(locks) : KeyOf(i) \in RowKeys(born, rows)
          BY <4>1, KeyLocks
        <5> QED
          BY <5>1, <5>2
      <4> QED
        BY <4>2
    <3>5. RowKeys(born_, rows) \subseteq RowKeys(plan.touched, rows)
      BY <1>b DEF RowKeys
    <3> QED
      BY <3>4, <3>5
  <2>11. task'[c] = t /\ queue'[c] = locks /\ held'[c] = held[c]
    BY <2>1, Parts
  <2>12. /\ Req(c)' = Req(c) /\ (\A pc : Got(c, pc)' = Got(c, pc)) /\ Awaited(c)' = ToSet(locks)
         /\ File(c)' = File(c) /\ Plans(c)' = Plans(c) /\ Own(c)' = Own(c)
         /\ \A v : Affected(c, v)' = Affected(c, v)
         /\ \A v : Referenced(c, v)' = Referenced(c, v)
    <3>1. Awaited(c)' = ToSet(locks)
      BY <2>11 DEF Awaited
    <3> QED
      BY <2>1, <2>9, <2>11, <3>1, SameRequest, SameGot, SameHeld
  <2>13. Phase(c)'
    BY <2>1, <2>2, <2>9, <2>11, <2>12 DEF Phase, Claims, ImportPcs, SavePcs, DeletePcs
  <2>14. Waits(c)'
    BY <2>9, <2>10, <2>11, <2>12 DEF Waits, IsKey
  <2>15. Holds(c)'
    BY <2>2, <2>3, <2>9, <2>11 DEF Holds, Slug, Whole
  <2>16. PlanStands(c, view, plan)
    <3>1. ASSUME NEW s \in plan.touched
          PROVE  /\ s \in Strings /\ cat.rows[s] = view.rows[s]
                 /\ Exists(cat.rows[s]) => s \in Affected(c, view)
      <4>1. s \in Strings
        BY <2>7
      <4>2. CASE s \in Affected(c, view)
        BY <2>4, <4>1, <4>2 DEF Checked, Viewed
      <4>3. CASE s \in Unused
        <5>1. ~Exists(cat.rows[s]) /\ ~Exists(view.rows[s])
          BY <2>4, <4>1, <4>3 DEF Unused, Viewed
        <5>2. cat.rows[s] \in Rows /\ view.rows[s] \in Rows
          BY <2>3, <2>5, <4>1 DEF Catalogs
        <5> QED
          BY <4>1, <5>1, <5>2, RowKinds
      <4> QED
        BY <2>1, <4>2, <4>3
    <3>2. Req(c).public => Apart(Overlaid(c, plan).rows)
      BY <2>1, PublicApart
    <3> QED
      BY <1>b, <3>1, <3>2 DEF PlanStands
  <2>17. ImportFacts(c)'
    <3>1. Locked(c)'
      BY <2>1, <2>4, <2>12 DEF Locked, Share, Entry
    <3>2. Viewed(c, view)' /\ Checked(c, view)'
      BY <2>1, <2>4, <2>12 DEF Viewed, Checked
    <3>3. Inserted(c, view)'
      BY <2>1, <2>4, <2>12 DEF Inserted, Slug
    <3>4. PlanStands(c, view, plan)'
      <4>1. Overlaid(c, plan)' = Overlaid(c, plan)
        BY <2>1 DEF Overlaid
      <4>2. Apart(Overlaid(c, plan).rows)' <=> Apart(Overlaid(c, plan).rows)
        BY <2>1, <4>1 DEF Apart
      <4> QED
        BY <2>1, <2>12, <2>16, <4>2 DEF PlanStands
    <3>5. task'[c].view = view /\ task'[c].plan = plan /\ task'[c].pc = "planned"
      BY <2>9, <2>11
    <3> QED
      BY <3>1, <3>2, <3>3, <3>4, <3>5 DEF ImportFacts
  <2>18. SaveFacts(c)' /\ DeleteFacts(c)'
    BY <2>9, <2>11 DEF SaveFacts, DeleteFacts
  <2>19. Local(c)'
    BY <2>13, <2>14, <2>15, <2>17, <2>18 DEF Local
  <2>20. \A s \in plan.touched : plan.cat.rows[s].key \in FileKeys(c)
    <3> SUFFICES ASSUME NEW s \in plan.touched
                 PROVE  plan.cat.rows[s].key \in FileKeys(c)
      OBVIOUS
    <3>1. FileKeys(c) = KeysIn(File(c))
      BY <2>5 DEF FileKeys, KeysIn, ToSet
    <3>2. s \in Strings /\ (Exists(view.rows[s]) => view.rows[s].key \in FileKeys(c))
      BY <2>4, <2>16, <2>7 DEF PlanStands, Affected, Viewed
    <3> PICK mods : mods = FileMods(view, File(c))
      OBVIOUS
    <3>3. PlannedRow(Plans(c).public, KeysIn(File(c)), mods, view.rows[s], plan.cat.rows[s])
      BY <1>b, <2>5, <3>2, PlanFacts
    <3> QED
      BY <3>1, <3>2, <3>3 DEF PlannedRow
  <2>21. \A i \in ToSet(queue'[c]) : IsKey(i) /\ KeyOf(i) \in FileKeys(c)
    BY <2>10, <2>11, <2>20 DEF RowKeys
  <2> QED
    BY <2>1, <2>9, <2>10, <2>19, <2>21, Parts, Quiet
<1> QED
  BY <1>1, <1>2

-----------------------------------------------------------------------------
(* The edit of a save.                                                     *)

\* What a save makes of the row of its string.
LEMMA AfterRow ==
    ASSUME NEW req \in SaveRequests, NEW r \in FullRows, NEW new, new = After(req, r)
    PROVE  /\ new \in FullRows /\ new.deleted = r.deleted
           /\ req.public => new.status = "public" /\ new.pub # None
           /\ ~req.public => new.status = r.status /\ new.pub = r.pub
<1> PICK e : e = Edited(req, r)
  OBVIOUS
<1> PICK k : k = IF req.key = None THEN r.key ELSE req.key
  OBVIOUS
<1> PICK m : m = IF req.move THEN req.mod ELSE r.mod
  OBVIOUS
<1> PICK x : x = IF req.text = None THEN r.text ELSE req.text
  OBVIOUS
<1>1. k \in Keys /\ m \in Modules \cup {None} /\ x \in Texts
  BY DEF SaveRequests, FullRows
<1>2. e = [r EXCEPT !.key = k, !.mod = m, !.text = x]
  BY DEF Edited
<1>3. e \in FullRows /\ e.deleted = r.deleted /\ e.status = r.status /\ e.pub = r.pub
  BY <1>1, <1>2 DEF FullRows
<1>4. CASE req.public
  <2>1. new = [e EXCEPT !.pub = Content(e), !.status = "public", !.pending = FALSE]
    BY <1>4 DEF After, Promoted
  <2>2. Content(e) \in Contents
    BY <1>3 DEF FullRows, Content, Contents
  <2>3. new \in FullRows /\ new.deleted = e.deleted /\ new.status = "public" /\ new.pub = Content(e)
    BY <1>3, <2>1, <2>2 DEF FullRows
  <2> QED
    BY <1>3, <1>4, <2>2, <2>3, EngineAssumption, RowsAssumption
<1>5. CASE ~req.public
  <2>1. new = e
    BY <1>5 DEF After
  <2> QED
    BY <1>3, <1>5, <2>1
<1> QED
  BY <1>4, <1>5 DEF SaveRequests

\* Two sequences of locks, one after the other.
LEMMA Glue ==
    ASSUME NEW a, a \in Seq(ToSet(a)), NEW b, b \in Seq(ToSet(b)), NEW q, q = a \o b
    PROVE  q \in Seq(ToSet(q)) /\ ToSet(q) = ToSet(a) \cup ToSet(b)
<1> DEFINE A == ToSet(a)
           B == ToSet(b)
<1>1. /\ Len(a) \in Nat /\ Len(b) \in Nat /\ DOMAIN a = 1..Len(a) /\ DOMAIN b = 1..Len(b)
      /\ DOMAIN q = 1..(Len(a) + Len(b)) /\ Len(q) = Len(a) + Len(b)
      /\ \A i \in 1..Len(a) : q[i] = a[i]
      /\ \A i \in 1..Len(b) : q[Len(a) + i] = b[i]
      /\ q \in Seq(A \cup B)
  OBVIOUS
<1>2. ToSet(q) \subseteq A \cup B
  BY <1>1 DEF ToSet
<1>3. A \subseteq ToSet(q)
  <2>1. \A i \in 1..Len(a) : i \in DOMAIN q
    BY <1>1
  <2> QED
    BY <1>1, <2>1 DEF ToSet
<1>4. B \subseteq ToSet(q)
  <2>1. \A i \in 1..Len(b) : Len(a) + i \in DOMAIN q
    BY <1>1
  <2> QED
    BY <1>1, <2>1 DEF ToSet
<1> QED
  BY <1>1, <1>2, <1>3, <1>4

\* The sequence of a lock that is taken, or not.
LEMMA UnlessSeq ==
    ASSUME NEW none \in BOOLEAN, NEW item, NEW q, q = Unless(none, item)
    PROVE  q \in Seq(ToSet(q)) /\ ToSet(q) = IF none THEN {} ELSE {item}
<1>1. CASE none
  BY <1>1 DEF Unless, ToSet
<1>2. CASE ~none
  BY <1>2 DEF Unless, ToSet
<1> QED
  BY <1>1, <1>2

\* A save that edits its string keeps the invariant.
LEMMA SaveEditStep ==
    ASSUME IInv, NEW c \in Clients, SaveEdit(c)
    PROVE  /\ IInv'
           /\ Refuse(c) \/ \A m \in Modules : Share(m) \in ToSet(queue'[c]) => cat.mods[m] # None
<1> DEFINE req_ == Req(c)
           r_ == cat.rows[req_.s]
           now_ == Edited(req_, r_)
           new_ == IF req_.public THEN Promoted(now_) ELSE now_
           shared_ == (IF new_.mod # r_.mod THEN {new_.mod} ELSE {})
                        \cup (IF PubMod(new_) # PubMod(r_) THEN {PubMod(new_)} ELSE {})
           plan_ == [cat |-> [cat EXCEPT !.rows[req_.s] = new_], touched |-> {req_.s}]
           t_ == [task[c] EXCEPT !.pc = "flush", !.view = cat, !.plan = plan_]
           keyed_ == Unless(r_.deleted \/ Place(new_) = Place(r_), Key(new_))
           locks_ == keyed_ \o Locks(Share, InOrder(shared_ \ {None}))
<1>a. \/ Refuse(c)
      \/ /\ Exists(r_) /\ (req_.checked => ~Stale(req_, task[c].open, r_))
         /\ req_.move /\ req_.mod # None => cat.mods[req_.mod] # None
         /\ task' = [task EXCEPT ![c] = t_] /\ held' = held
         /\ queue' = [queue EXCEPT ![c] = locks_]
         /\ cat' = cat /\ setting' = setting /\ moved' = moved
  <2>1. DOMAIN task = Clients
    BY Parts
  <2> QED
    BY <2>1 DEF SaveEdit
<1> PICK req : req = req_
  OBVIOUS
<1> PICK r : r = r_
  OBVIOUS
<1> PICK new : new = new_
  OBVIOUS
<1> PICK shared : shared = shared_
  OBVIOUS
<1> PICK plan : plan = plan_
  OBVIOUS
<1> PICK t : t = t_
  OBVIOUS
<1> PICK keyed : keyed = keyed_
  OBVIOUS
<1> PICK locks : locks = locks_
  OBVIOUS
<1> PICK old : old = cat
  OBVIOUS
<1>b. /\ req = Req(c) /\ r = cat.rows[req.s] /\ new = After(req, r)
      /\ plan = [cat |-> [cat EXCEPT !.rows[req.s] = new], touched |-> {req.s}]
      /\ t = [task[c] EXCEPT !.pc = "flush", !.view = cat, !.plan = plan]
      /\ keyed = Unless(r.deleted \/ Place(new) = Place(r), Key(new))
      /\ locks = keyed \o Locks(Share, InOrder(shared \ {None}))
      /\ shared = (IF new.mod # r.mod THEN {new.mod} ELSE {})
                     \cup (IF PubMod(new) # PubMod(r) THEN {PubMod(new)} ELSE {})
  <2>1. req = Req(c) /\ r = cat.rows[req.s]
    OBVIOUS
  <2>2. new = After(req, r)
    BY DEF After
  <2> HIDE DEF req_, r_, new_, shared_
  <2>3. /\ plan = [cat |-> [cat EXCEPT !.rows[req.s] = new], touched |-> {req.s}]
        /\ t = [task[c] EXCEPT !.pc = "flush", !.view = cat, !.plan = plan]
        /\ keyed = Unless(r.deleted \/ Place(new) = Place(r), Key(new))
    OBVIOUS
  <2>4. locks = keyed \o Locks(Share, InOrder(shared \ {None}))
    <3> HIDE DEF keyed_
    <3> QED
      OBVIOUS
  <2>5. shared = (IF new.mod # r.mod THEN {new.mod} ELSE {})
                     \cup (IF PubMod(new) # PubMod(r) THEN {PubMod(new)} ELSE {})
    BY DEF shared_
  <2> QED
    BY <2>1, <2>2, <2>3, <2>4, <2>5
<1>c. req = Req(c) /\ r = cat.rows[req.s]
  BY <1>b
<1>d. new = After(req, r)
  BY <1>b
<1>e. locks = keyed \o Locks(Share, InOrder(shared \ {None}))
  BY <1>b
<1> HIDE DEF req_, r_, now_, new_, shared_, plan_, t_, keyed_, locks_
<1>0. At(c, "save", "entry")
  BY DEF SaveEdit
<1>1. CASE Refuse(c)
  BY <1>1, RefuseStep
<1>2. CASE ~Refuse(c)
  <2>1. /\ Exists(r) /\ (req.checked => ~Stale(req, task[c].open, r))
        /\ req.move /\ req.mod # None => cat.mods[req.mod] # None
        /\ task' = [task EXCEPT ![c] = t] /\ held' = [held EXCEPT ![c] = held[c]]
        /\ queue' = [queue EXCEPT ![c] = locks]
        /\ cat' = cat /\ setting' = setting /\ moved' = moved /\ held' = held
    BY <1>a, <1>2, Parts
  <2>2. /\ req # None /\ req \in AllRequests /\ req.kind = "save"
        /\ (req.public => Publication \in held[c])
        /\ task[c].pc = "entry" /\ Awaited(c) = {} /\ Claims(c) = held[c]
    <3>1. /\ Req(c) # None /\ Req(c) \in AllRequests /\ Req(c).kind = "save"
          /\ (Req(c).public => Publication \in held[c])
          /\ task[c].pc = "entry" /\ Awaited(c) = {} /\ Claims(c) = held[c]
      BY <1>0, Ready
    <3> QED
      BY <1>c, <3>1
  <2>3. Phase(c) /\ Holds(c) /\ SaveFacts(c) /\ cat \in Catalogs
    BY Parts DEF Local
  <2>4. req \in SaveRequests /\ req.s \in Strings
    BY <2>2, RequestKinds DEF SaveRequests
  <2>5. r \in FullRows
    <3>1. r \in Rows
      BY <1>c, <2>3, <2>4 DEF Catalogs
    <3> QED
      BY <2>1, <3>1, RowKinds
  <2>6. new \in FullRows
    BY <1>d, <2>4, <2>5, AfterRow
  <2>7. plan \in Works /\ plan.touched = {req.s}
    <3>1. cat.rows \in [Strings -> Rows] /\ new \in Rows
      BY <2>3, <2>6, RowKinds DEF Catalogs
    <3> PICK rows : rows = [cat.rows EXCEPT ![req.s] = new]
      OBVIOUS
    <3>2. rows \in [Strings -> Rows]
      BY <3>1
    <3>4. plan = [cat |-> [cat EXCEPT !.rows = rows], touched |-> {req.s}]
      BY <1>b
    <3>5. [cat EXCEPT !.rows = rows] \in Catalogs
      BY <2>3, <3>2 DEF Catalogs
    <3> QED
      BY <2>4, <3>4, <3>5 DEF Works
  <2>8. /\ t \in Tasks /\ t.req = task[c].req /\ t.pc = "flush" /\ t.got = task[c].got
        /\ t.view = cat /\ t.plan = plan /\ t.open = task[c].open
    <3>1. "flush" \in Pcs
      BY DEF Pcs
    <3>2. task[c] \in Tasks /\ plan \in Works \cup {None} /\ cat \in Catalogs \cup {None}
      BY <2>3, <2>7, Parts
    <3>3. t = Saving(task[c], "flush", cat, plan)
      BY <1>b DEF Saving
    <3> QED
      BY <3>1, <3>2, <3>3, RetaskedAll
  <2>9. /\ locks \in Seq(ToSet(locks))
        /\ \A i \in ToSet(locks) : IsKey(i) \/ i \in {Share(m) : m \in Modules}
        /\ \A m \in shared \ {None} : Share(m) \in ToSet(locks)
        /\ \A m : Share(m) \in ToSet(locks) => m \in shared \ {None}
    <3>1. shared \ {None} \subseteq Modules
      BY <1>b, <2>5, <2>6 DEF FullRows, PubMod, Contents
    <3> PICK last : last = Locks(Share, InOrder(shared \ {None}))
      OBVIOUS
    <3>2. last \in Seq(ToSet(last)) /\ ToSet(last) = {Share(m) : m \in shared \ {None}}
      BY <3>1, ShareLocks
    <3>4. keyed \in Seq(ToSet(keyed)) /\ ToSet(keyed) \subseteq {Key(new)}
      <4> PICK none \in BOOLEAN : none <=> (r.deleted \/ Place(new) = Place(r))
        OBVIOUS
      <4>1. keyed = Unless(none, Key(new))
        BY <1>b DEF Unless
      <4> QED
        BY <4>1, UnlessSeq
    <3>5. locks \in Seq(ToSet(locks)) /\ ToSet(locks) = ToSet(keyed) \cup ToSet(last)
      <4>1. locks = keyed \o last
        BY <1>e
      <4> QED
        BY <3>2, <3>4, <4>1, Glue, Zenon
    <3>6. IsKey(Key(new)) /\ \A m, i : ~IsKey(Share(m)) /\ (Share(m) = Share(i) => m = i)
      BY DEF IsKey, Key, Share
    <3> QED
      BY <3>1, <3>2, <3>4, <3>5, <3>6
  <2>10. task'[c] = t /\ queue'[c] = locks /\ held'[c] = held[c]
    BY <2>1, Parts
  <2>11. Req(c)' = req /\ Awaited(c)' = ToSet(locks) /\ Claims(c)' = held[c] \cup ToSet(locks)
    BY <1>b, <2>8, <2>10 DEF Req, Awaited, Claims
  <2>12. Phase(c)'
    BY <2>1, <2>2, <2>8, <2>10, <2>11 DEF Phase, ImportPcs, SavePcs, DeletePcs
  <2>13. Waits(c)'
    BY <2>8, <2>9, <2>10, <2>11 DEF Waits, IsKey, Share
  <2>14. Holds(c)'
    BY <2>2, <2>3, <2>8, <2>10 DEF Holds, DeletePcs, Slug, Whole
  <2>15. SaveStands(c, req, old)'
    <3>1. Entry(req.s) \in held[c]
      BY <1>b, <2>2, <2>3 DEF SaveFacts
    <3>2. /\ new.mod \notin {r.mod, None} => Share(new.mod) \in ToSet(locks)
          /\ PubMod(new) \notin {PubMod(r), None} => Share(PubMod(new)) \in ToSet(locks)
      BY <1>b, <2>9
    <3>3. task'[c].plan = [cat |-> [old EXCEPT !.rows[req.s] = new], touched |-> {req.s}]
      BY <1>b, <2>8, <2>10
    <3> QED
      BY <1>b, <2>1, <2>3, <2>8, <2>10, <2>11, <3>1, <3>2, <3>3 DEF SaveStands, Entry, Share
  <2>16. SaveFacts(c)'
    BY <2>8, <2>10, <2>11, <2>15 DEF SaveFacts
  <2>17. ImportFacts(c)' /\ DeleteFacts(c)'
    BY <2>8, <2>10 DEF ImportFacts, DeleteFacts, ImportPcs
  <2>18. Local(c)'
    BY <2>12, <2>13, <2>14, <2>16, <2>17 DEF Local
  <2>19. \A m \in shared \ {None} : cat.mods[m] # None
    <3>1. ModulesKept(cat)
      BY Parts DEF Grounded
    <3>2. \A m \in {r.mod, PubMod(r)} \ {None} : cat.mods[m] # None
      BY <1>c, <2>4, <3>1 DEF ModulesKept
    <3>3. new.mod \in {r.mod, req.mod} /\ (new.mod # r.mod => req.move /\ new.mod = req.mod)
      BY <1>d, <2>4, <2>5 DEF After, Edited, Promoted, FullRows
    <3>4. PubMod(new) \in {PubMod(r), new.mod}
      <4> PICK e : e = Edited(req, r)
        OBVIOUS
      <4>1. e \in FullRows /\ e.pub = r.pub
        BY <2>4, <2>5 DEF SaveRequests, FullRows, Edited
      <4>2. CASE req.public
        <5>1. new = Promoted(e)
          BY <1>d, <4>2 DEF After
        <5>2. new.pub = Content(e) /\ new.mod = e.mod /\ Content(e) \in Contents
          BY <4>1, <5>1 DEF Promoted, FullRows, Content, Contents
        <5>3. Content(e).mod = e.mod
          BY DEF Content
        <5> QED
          BY <5>2, <5>3, EngineAssumption, RowsAssumption DEF PubMod
      <4>3. CASE ~req.public
        BY <1>d, <4>1, <4>3 DEF After, PubMod
      <4> QED
        BY <4>2, <4>3
    <3> QED
      BY <1>b, <2>1, <3>2, <3>3, <3>4
  <2>20. \A m \in Modules : Share(m) \in ToSet(queue'[c]) => cat.mods[m] # None
    BY <2>9, <2>10, <2>19
  <2> QED
    BY <2>1, <2>8, <2>9, <2>18, <2>20, Parts, Quiet
<1> QED
  BY <1>1, <1>2

-----------------------------------------------------------------------------
(* A request that begins, and one that is replayed.                        *)

Opened(req, tries, open) ==
    [Idle EXCEPT !.req = req, !.pc = "begun", !.tries = tries, !.open = open]

\* The record of a request that begins.
LEMMA BegunTask ==
    ASSUME NEW req \in AllRequests, NEW tries \in 0..2, NEW open \in Rows \cup {None}, NEW t,
           t = Opened(req, tries, open)
    PROVE  t \in Tasks /\ t.req = req /\ t.pc = "begun" /\ t.got = {}
<1> PICK pc : pc = "begun"
  OBVIOUS
<1>1. t = [req |-> req, pc |-> pc, tries |-> tries, open |-> open, got |-> {},
           view |-> None, plan |-> None]
  BY DEF Opened, Idle
<1>2. pc \in Pcs
  BY DEF Pcs
<1>3. t \in Tasks
  BY <1>1, <1>2 DEF Tasks
<1>4. t.req = req /\ t.pc = pc /\ t.got = {}
  BY <1>1
<1> QED
  BY <1>3, <1>4

\* A transaction that begins, or begins again, keeps the invariant.
LEMMA BegunStep ==
    ASSUME IInv, NEW c \in Clients, NEW req \in Requests[setting.scene][c],
           req.kind \in {"import", "save", "delete"}, NEW tries \in 0..2,
           NEW open \in Rows \cup {None}, Begun(c, req, tries, open),
           held' = [held EXCEPT ![c] = {}], Sole(c, req),
           cat' = cat, setting' = setting, moved' = moved
    PROVE  IInv'
<1> PICK t : t = Opened(req, tries, open)
  OBVIOUS
<1> PICK q : q = Unless(~req.public, Publication)
  OBVIOUS
<1>1. task' = [task EXCEPT ![c] = t] /\ queue' = [queue EXCEPT ![c] = q]
  BY DEF Begun, Opened
<1>2. req \in AllRequests /\ req # None
  <2>1. setting.scene \in Scenes
    BY Parts DEF Typed, TypeOK
  <2>2. Requests[setting.scene] \in [Clients -> SUBSET AllRequests]
    BY <2>1, EngineAssumption, RowsAssumption
  <2> QED
    BY <2>2, RequestKinds
<1>3. /\ t \in Tasks /\ t.req = req /\ t.pc = "begun" /\ t.got = {}
  BY <1>2, BegunTask
<1>4. q \in Seq(ToSet(q)) /\ ToSet(q) \subseteq {Publication} /\ (req.public => Publication \in ToSet(q))
  <2> PICK none \in BOOLEAN : none <=> ~req.public
    OBVIOUS
  <2>1. q = Unless(none, Publication)
    BY DEF Unless
  <2> QED
    BY <2>1, UnlessSeq
<1>5. /\ task'[c] = t /\ queue'[c] = q /\ held'[c] = {}
      /\ Req(c)' = req /\ Awaited(c)' = ToSet(q) /\ Claims(c)' = ToSet(q)
  <2>1. task'[c] = t /\ queue'[c] = q /\ held'[c] = {}
    BY <1>1, Parts
  <2> QED
    BY <1>3, <2>1 DEF Req, Awaited, Claims
<1>6. Phase(c)'
  BY <1>2, <1>3, <1>4, <1>5 DEF Phase, ImportPcs, SavePcs, DeletePcs, Publication
<1>7. Waits(c)'
  BY <1>3, <1>4, <1>5 DEF Waits, Publication
<1>8. Holds(c)' /\ ImportFacts(c)' /\ SaveFacts(c)' /\ DeleteFacts(c)'
  BY <1>3, <1>5 DEF Holds, ImportFacts, SaveFacts, DeleteFacts, ImportPcs
<1>9. Local(c)'
  BY <1>6, <1>7, <1>8 DEF Local
<1>10. Grants(c, {})
  BY DEF Grants
<1> QED
  BY <1>1, <1>3, <1>4, <1>9, <1>10, Quiet

\* A request that begins keeps the invariant.
LEMMA BeginStep ==
    ASSUME IInv, NEW c \in Clients, NEW req \in Requests[setting.scene][c],
           req.kind \in {"import", "save", "delete"}, Begin(c, req)
    PROVE  IInv'
<1> PICK open : open = IF req.kind = "save" THEN cat.rows[req.s] ELSE None
  OBVIOUS
<1>1. /\ task[c].pc = "idle" /\ Begun(c, req, 1, open) /\ cat' = cat /\ setting' = setting /\ moved' = moved
      /\ held' = held
      /\ req.kind = "import" => \A d \in Clients : task[d].req # None => Req(d).kind # "import"
  BY DEF Begin
<1>2. held[c] = {}
  BY <1>1, Parts DEF Local, Phase
<1>3. held' = [held EXCEPT ![c] = {}]
  BY <1>1, <1>2, Parts
<1>4. open \in Rows \cup {None}
  <2>1. setting.scene \in Scenes
    BY Parts DEF Typed, TypeOK
  <2>2. Requests[setting.scene] \in [Clients -> SUBSET AllRequests]
    BY <2>1, EngineAssumption, RowsAssumption
  <2>3. req.kind = "save" => req.s \in Strings
    BY <2>2, RequestKinds DEF SaveRequests
  <2> QED
    BY <2>3, Parts DEF Catalogs
<1>5. Sole(c, req)
  BY <1>1 DEF Sole, Req
<1>6. 1 \in 0..2
  OBVIOUS
<1> QED
  BY <1>1, <1>3, <1>4, <1>5, <1>6, BegunStep

\* A victim of a deadlock, replayed or not, keeps the invariant.
LEMMA VictimStep ==
    ASSUME IInv, NEW c \in Clients, Victim(c)
    PROVE  IInv'
<1>1. CASE Refuse(c)
  BY <1>1, RefuseStep
<1>2. CASE ~Refuse(c)
  <2>1. /\ InCircle(c) /\ Req(c).kind # "import" /\ Begun(c, Req(c), 2, task[c].open)
        /\ held' = [held EXCEPT ![c] = {}]
        /\ cat' = cat /\ setting' = setting /\ moved' = moved
    BY <1>2 DEF Victim
  <2>2. queue[c] # <<>>
    BY <2>1 DEF InCircle, Circle, WaitsFor
  <2>3. Phase(c) /\ task[c] \in Tasks /\ Req(c) \in Requests[setting.scene][c] \cup {None}
    BY Parts DEF Local, Req
  <2>4. Req(c) # None /\ task[c].pc \in Pcs
    BY <2>2, <2>3 DEF Phase, Tasks
  <2>5. Req(c).kind \in {"import", "save", "delete"}
    BY <2>3, <2>4 DEF Phase, Pcs, ImportPcs, SavePcs, DeletePcs
  <2>6. Sole(c, Req(c)) /\ task[c].open \in Rows \cup {None}
    BY <2>1, <2>3 DEF Sole, Tasks
  <2> PICK req : req = Req(c)
    OBVIOUS
  <2> PICK open : open = task[c].open
    OBVIOUS
  <2>7. Begun(c, req, 2, open) /\ req \in Requests[setting.scene][c]
    BY <2>1, <2>3, <2>4
  <2>8. 2 \in 0..2
    OBVIOUS
  <2> QED
    BY <2>1, <2>5, <2>6, <2>7, <2>8, BegunStep
<1> QED
  BY <1>1, <1>2

-----------------------------------------------------------------------------
(* A lock is granted.                                                      *)

\* A lock that is granted keeps the invariant.
LEMMA AcquireStep ==
    ASSUME IInv, NEW c \in Clients, Acquire(c)
    PROVE  IInv'
<1> PICK item : item = Head(queue[c])
  OBVIOUS
<1> PICK pc : pc = task[c].pc
  OBVIOUS
<1> PICK rest : rest = Tail(queue[c])
  OBVIOUS
<1> PICK more : more = IF Matches(c, item) THEN {<<pc, item[2]>>} ELSE {}
  OBVIOUS
<1> PICK first : first = Then(c, item)
  OBVIOUS
<1> PICK q : q = first \o rest
  OBVIOUS
<1> PICK h : h = held[c] \cup {item}
  OBVIOUS
<1> PICK got : got = task[c].got \cup more
  OBVIOUS
<1> PICK t : t = [task[c] EXCEPT !.got = got]
  OBVIOUS
<1>1. /\ queue[c] # <<>> /\ \A d \in Clients : ~WaitsFor(c, d)
      /\ held' = [held EXCEPT ![c] = h]
      /\ queue' = [queue EXCEPT ![c] = q]
      /\ task' = [task EXCEPT ![c] = t]
      /\ cat' = cat /\ setting' = setting /\ moved' = moved
  <2>1. DOMAIN task = Clients /\ DOMAIN held = Clients /\ DOMAIN queue = Clients
    BY Parts
  <2> QED
    BY <2>1 DEF Acquire
<1>2. /\ Phase(c) /\ Waits(c) /\ Holds(c) /\ ImportFacts(c) /\ SaveFacts(c) /\ DeleteFacts(c)
      /\ task[c] \in Tasks /\ queue[c] \in Seq(ToSet(queue[c])) /\ cat \in Catalogs
      /\ Typed
  BY Parts DEF Local
<1>3. /\ item \in Awaited(c) /\ Awaited(c) = {item} \cup ToSet(rest)
      /\ rest \in Seq(ToSet(rest))
  BY <1>1, <1>2, TakeFirst DEF Awaited
<1>4. /\ q \in Seq(ToSet(q)) /\ ToSet(rest) \subseteq ToSet(q)
      /\ \A i \in ToSet(q) : i \in ToSet(rest) \/ (pc = "refs" /\ IsKey(i))
  <2>1. CASE first = <<>>
    <3>1. q = rest
      BY <1>1, <1>2, <2>1, TakeFirst
    <3> QED
      BY <1>3, <3>1
  <2>2. CASE first # <<>>
    <3>1. pc = "refs" /\ \E i : IsKey(i) /\ first = <<i>>
      BY <2>2 DEF Then, Key, IsKey
    <3>2. PICK i : IsKey(i) /\ first = <<i>>
      BY <3>1
    <3>3. q = <<i>> \o Tail(queue[c])
      BY <3>2
    <3>4. q \in Seq(ToSet(q)) /\ ToSet(q) = {i} \cup ToSet(rest)
      <4>1. /\ ToSet(<<i>> \o Tail(queue[c])) = {i} \cup ToSet(Tail(queue[c]))
            /\ <<i>> \o Tail(queue[c]) \in Seq(ToSet(<<i>> \o Tail(queue[c])))
        BY <1>1, <1>2, TakeFirst
      <4> QED
        BY <3>3, <4>1
    <3> QED
      BY <3>1, <3>2, <3>4
  <2> QED
    BY <2>1, <2>2
<1>5. Grants(c, h)
  <2>1. \A d \in Clients \ {c} : \A j \in held[d] : ~Conflict(item, j)
    BY <1>1 DEF WaitsFor
  <2>2. Grants(c, held[c])
    BY Parts
  <2> QED
    BY <2>1, <2>2 DEF Grants
<1>6. /\ task'[c] = t /\ queue'[c] = q /\ held'[c] = h
      /\ Awaited(c)' = ToSet(q) /\ Claims(c)' = h \cup ToSet(q)
  <2>1. task'[c] = t /\ queue'[c] = q /\ held'[c] = h
    BY <1>1, Parts
  <2> QED
    BY <2>1 DEF Awaited, Claims
<1>7. Claims(c) \subseteq Claims(c)' /\ held[c] \subseteq held'[c]
  BY <1>3, <1>4, <1>6 DEF Claims
\* What kind of lock it is.
<1>8. /\ pc \in Pcs
      /\ pc \notin {"idle", "done", "rows", "checked", "created"}
      /\ pc = "modules" => \E m \in Modules : item = Share(m)
      /\ pc \in {"entries", "entry", "published"} => \E s \in Strings : item = Entry(s)
      /\ pc = "refs" => IsKey(item) \/ \E s \in Strings : item = Entry(s)
      /\ pc = "planned" => IsKey(item)
      /\ pc = "module" => \E m \in Modules : item = Whole(m)
  <2>1. pc \in Pcs
    BY <1>2 DEF Tasks
  <2> QED
    BY <1>1, <1>2, <1>3, <2>1 DEF Waits, Phase
<1>9. /\ Matches(c, item) => item[2] \in Strings \cup Modules
      /\ pc = "modules" /\ Matches(c, item) => item[2] \in Modules /\ item = Share(item[2])
                                                 /\ cat.mods[item[2]] # None
      /\ pc = "entries" /\ Matches(c, item) =>
            /\ item[2] \in Strings /\ item = Entry(item[2])
            /\ \E k \in ToSet(Req(c).file) : k.key = cat.rows[item[2]].key
      /\ pc = "refs" /\ Matches(c, item) => item[2] \in Strings /\ item = Entry(item[2])
                                              /\ cat.rows[item[2]].mod = Req(c).mod
      /\ pc = "published" /\ Matches(c, item) => item[2] \in Strings /\ item = Entry(item[2])
                                              /\ PubMod(cat.rows[item[2]]) = Req(c).mod
      /\ pc \notin {"modules", "entries", "refs", "published"} => ~Matches(c, item)
  <2>1. \A m : Share(m)[2] = m /\ Share(m)[1] = "share"
    BY DEF Share
  <2>2. \A s : Entry(s)[2] = s /\ Entry(s)[1] = "string"
    BY DEF Entry
  <2> QED
    BY <1>8, <2>1, <2>2 DEF Matches, IsKey
<1>10. \A p : Got(c, p)' = Got(c, p) \cup IF Matches(c, item) /\ p = pc THEN {item[2]} ELSE {}
  <2>1. task'[c].got = task[c].got \cup more
    BY <1>2, <1>6 DEF Tasks
  <2>2. \A p, x : x \in Got(c, p) <=> \E g \in task[c].got : g[1] = p /\ x = g[2]
    BY DEF Got
  <2>3. \A p, x : x \in Got(c, p)' <=> \E g \in task[c].got \cup more : g[1] = p /\ x = g[2]
    BY <2>1 DEF Got
  <2>4. CASE Matches(c, item)
    <3>1. more = {<<pc, item[2]>>}
      BY <2>4
    <3> PICK pair : pair = <<pc, item[2]>>
      OBVIOUS
    <3>a. more = {pair} /\ pair[1] = pc /\ pair[2] = item[2]
      BY <3>1
    <3>2. \A p, x : (\E g \in more : g[1] = p /\ x = g[2]) <=> p = pc /\ x = item[2]
      BY <3>a
    <3> QED
      BY <2>2, <2>3, <2>4, <3>2
  <2>5. CASE ~Matches(c, item)
    <3>1. more = {}
      BY <2>5
    <3> QED
      BY <2>2, <2>3, <2>5, <3>1
  <2> QED
    BY <2>4, <2>5
<1>11. /\ t \in Tasks /\ t.req = task[c].req /\ t.pc = pc /\ t.view = task[c].view
       /\ t.plan = task[c].plan /\ t.open = task[c].open /\ t.got = got
  <2>1. got \in SUBSET (Pcs \X (Strings \cup Modules))
    BY <1>2, <1>8, <1>9 DEF Tasks
  <2> QED
    BY <1>2, <2>1 DEF Tasks
<1>12. /\ Req(c)' = Req(c) /\ File(c)' = File(c) /\ Plans(c)' = Plans(c)
       /\ \A v : Affected(c, v)' = Affected(c, v)
       /\ \A v : Referenced(c, v)' = Referenced(c, v)
  BY <1>1, <1>6, <1>11, SameRequest
<1>13. Phase(c)'
  <2>1. pc \in {"begun", "module"} => t.got = {}
    BY <1>2, <1>9, <1>11 DEF Phase
  <2> QED
    BY <1>2, <1>6, <1>7, <1>8, <1>11, <1>12, <2>1
       DEF Phase, Publication, ImportPcs, SavePcs, DeletePcs
<1>14. Waits(c)'
  <2>1. \A i \in ToSet(q) : i \in Awaited(c) \/ (pc = "refs" /\ IsKey(i))
    BY <1>3, <1>4
  <2> QED
    BY <1>2, <1>6, <1>11, <2>1 DEF Waits, IsKey, Share, Entry, Whole, Publication
<1>15. Holds(c)' /\ (pc \in {"created", "planned"} => Own(c)' = Own(c))
  <2>1. (\A slug : ~IsKey(Slug(slug))) /\ (\A m : ~IsKey(Whole(m)))
    BY DEF IsKey, Slug, Whole
  <2>2. \A slug : item # Slug(slug)
    <3>1. pc = "begun" => item = Publication
      BY <1>2, <1>3 DEF Waits
    <3>2. pc = "flush" => IsKey(item) \/ \E m \in Modules : item = Share(m)
      BY <1>2, <1>3 DEF Waits
    <3> QED
      <4>1. /\ \A slug : Slug(slug)[1] = "slug"
            /\ \A m : Share(m)[1] = "share" /\ Whole(m)[1] = "module"
            /\ \A s : Entry(s)[1] = "string"
            /\ Publication[1] = "publication"
        BY DEF Slug, Share, Whole, Entry, Publication
      <4> QED
        BY <1>8, <2>1, <3>1, <3>2, <4>1 DEF Pcs
  <2>3. \A m : item = Whole(m) => pc = "module"
    <3>1. pc = "begun" => item = Publication
      BY <1>2, <1>3 DEF Waits
    <3>2. pc = "flush" => IsKey(item) \/ \E m \in Modules : item = Share(m)
      BY <1>2, <1>3 DEF Waits
    <3> QED
      BY <1>8, <2>1, <3>1, <3>2 DEF Share, Whole, Entry, Publication, Pcs
  <2>4. Holds(c)'
    BY <1>2, <1>6, <1>11, <2>2, <2>3 DEF Holds, Slug, Whole, DeletePcs
  <2>5. pc # "module" => \A m : Whole(m) \in h <=> Whole(m) \in held[c]
    BY <2>3
  <2> QED
    BY <1>6, <2>4, <2>5 DEF Own, Whole
<1>16. ImportFacts(c)'
  <2>1. pc \in ImportPcs => Locked(c)'
    <3> SUFFICES ASSUME pc \in ImportPcs
                 PROVE  Locked(c)'
      OBVIOUS
    <3>1. Locked(c)
      BY <1>2 DEF ImportFacts
    <3>2. pc = "entries" /\ Matches(c, item) => Exists(cat.rows[item[2]])
      <4> SUFFICES ASSUME pc = "entries", Matches(c, item)
                   PROVE  Exists(cat.rows[item[2]])
        OBVIOUS
      <4>1. PICK k \in ToSet(Req(c).file) : k.key = cat.rows[item[2]].key
        BY <1>9
      <4>2. Req(c) \in ImportRequests
        BY <1>2, <1>8, RequestKinds, RequestOf DEF Phase, ImportPcs
      <4>3. k \in ImportRows
        BY <4>2 DEF ImportRequests, ToSet
      <4>4. k.key \in Keys /\ k.key # None
        BY <4>3, EngineAssumption, RowsAssumption DEF ImportRows
      <4>5. cat.rows[item[2]] \in Rows /\ NoRow.key = None
        BY <1>2, <1>9 DEF Catalogs, NoRow
      <4> QED
        BY <4>1, <4>4, <4>5, RowKinds
    <3>3. \A m \in Got(c, "modules") \cup (IF Matches(c, item) /\ pc = "modules" THEN {item[2]} ELSE {}) :
              m \in Modules /\ Share(m) \in h /\ cat.mods[m] # None
      BY <1>9, <3>1 DEF Locked
    <3>4. \A s \in Got(c, "entries") \cup (IF Matches(c, item) /\ pc = "entries" THEN {item[2]} ELSE {}) :
              s \in Strings /\ Entry(s) \in h /\ Exists(cat.rows[s])
      BY <1>9, <3>1, <3>2 DEF Locked
    <3> QED
      BY <1>1, <1>6, <1>10, <3>3, <3>4 DEF Locked, Share, Entry
  <2>2. pc = "planned" => Viewed(c, t.view)' /\ Checked(c, t.view)' /\ Inserted(c, t.view)'
                            /\ PlanStands(c, t.view, t.plan)'
    <3> SUFFICES ASSUME pc = "planned"
                 PROVE  Viewed(c, t.view)' /\ Checked(c, t.view)' /\ Inserted(c, t.view)'
                            /\ PlanStands(c, t.view, t.plan)'
      OBVIOUS
    <3>1. Viewed(c, t.view) /\ Checked(c, t.view) /\ Inserted(c, t.view)
            /\ PlanStands(c, t.view, t.plan)
      BY <1>2, <1>11 DEF ImportFacts
    <3>2. (\A p : Got(c, p)' = Got(c, p)) /\ Own(c)' = Own(c)
      BY <1>9, <1>10, <1>15
    <3>3. \A slug : Slug(slug)' = Slug(slug)
      BY DEF Slug
    <3>4. Viewed(c, t.view)' /\ Checked(c, t.view)'
      BY <1>1, <1>12, <3>1, <3>2 DEF Viewed, Checked
    <3>5. Inserted(c, t.view)'
      BY <1>1, <1>7, <1>12, <3>1, <3>2, <3>3 DEF Inserted
    <3>6. PlanStands(c, t.view, t.plan)'
      <4>1. Overlaid(c, t.plan)' = Overlaid(c, t.plan)
        BY <1>1 DEF Overlaid
      <4>2. Apart(Overlaid(c, t.plan).rows)' <=> Apart(Overlaid(c, t.plan).rows)
        BY <1>1, <4>1 DEF Apart
      <4> QED
        BY <1>1, <1>12, <3>1, <4>2 DEF PlanStands
    <3> QED
      BY <3>4, <3>5, <3>6
  <2>3. task'[c].pc = pc /\ task'[c].view = t.view /\ task'[c].plan = t.plan
    BY <1>6, <1>11
  <2> QED
    BY <1>8, <2>1, <2>2, <2>3 DEF ImportFacts
<1>17. SaveFacts(c)'
  <2>1. pc = "flush" => SaveStands(c, Req(c), t.view)'
    <3> SUFFICES ASSUME pc = "flush"
                 PROVE  SaveStands(c, Req(c), t.view)'
      OBVIOUS
    <3> PICK req : req = Req(c)
      OBVIOUS
    <3>1. SaveStands(c, req, t.view)
      BY <1>2, <1>11 DEF SaveFacts
    <3>2. SaveStands(c, req, t.view)'
      BY <1>1, <1>6, <1>7, <1>11, <3>1 DEF SaveStands, Share, Entry
    <3> QED
      BY <1>12, <3>2
  <2>2. pc = "entry" => Entry(Req(c).s) \in Claims(c)'
    BY <1>2, <1>7 DEF SaveFacts
  <2>3. task'[c].pc = pc /\ task'[c].view = t.view
    BY <1>6, <1>11
  <2> QED
    BY <1>12, <2>1, <2>2, <2>3 DEF SaveFacts, Entry
<1>18. DeleteFacts(c)'
  <2> PICK gone : gone = Req(c).mod
    OBVIOUS
  <2>1. pc = "module" => Whole(gone) \in Claims(c)'
    BY <1>2, <1>7 DEF DeleteFacts
  <2>2. pc \in {"refs", "published"} => Sees(c, gone)'
    <3> SUFFICES ASSUME pc \in {"refs", "published"}
                 PROVE  Sees(c, gone)'
      OBVIOUS
    <3>1. Sees(c, gone)
      BY <1>2 DEF DeleteFacts
    <3>2. \A s \in Strings : item = Entry(s) => item[2] = s /\ item[1] = "string"
      BY DEF Entry
    <3>3. \A s \in Got(c, "refs")' : s \in Strings /\ Entry(s) \in h /\ cat.rows[s].mod = gone
      BY <1>9, <1>10, <3>1 DEF Sees
    <3>4. \A s \in Got(c, "published")' :
              s \in Strings /\ Entry(s) \in h /\ PubMod(cat.rows[s]) = gone
      BY <1>9, <1>10, <3>1 DEF Sees
    <3>5. ASSUME NEW s \in Strings, cat.rows[s].mod = gone
          PROVE  s \in Got(c, "refs")' \/ (pc = "refs" /\ Entry(s) \in ToSet(q))
      <4>1. s \in Got(c, "refs") \/ (pc = "refs" /\ Entry(s) \in Awaited(c))
        BY <3>1, <3>5 DEF Sees
      <4>2. CASE s \in Got(c, "refs")
        BY <1>10, <4>2
      <4>3. CASE pc = "refs" /\ item = Entry(s)
        <5>1. Matches(c, item)
          BY <3>2, <3>5, <4>3 DEF Matches
        <5> QED
          BY <1>10, <3>2, <4>3, <5>1
      <4>4. CASE pc = "refs" /\ Entry(s) \in ToSet(rest)
        BY <1>4, <4>4
      <4> QED
        BY <1>3, <4>1, <4>2, <4>3, <4>4
    <3>6. ASSUME NEW s \in Strings, pc = "published", PubMod(cat.rows[s]) = gone
          PROVE  s \in Got(c, "published")' \/ Entry(s) \in ToSet(q)
      <4>1. s \in Got(c, "published") \/ Entry(s) \in Awaited(c)
        BY <3>1, <3>6 DEF Sees
      <4>2. CASE s \in Got(c, "published")
        BY <1>10, <4>2
      <4>3. CASE item = Entry(s)
        <5>1. Matches(c, item)
          BY <3>2, <3>6, <4>3 DEF Matches
        <5> QED
          BY <1>10, <3>2, <3>6, <4>3, <5>1
      <4>4. CASE Entry(s) \in ToSet(rest)
        BY <1>4, <4>4
      <4> QED
        BY <1>3, <4>1, <4>2, <4>3, <4>4
    <3>7. task'[c].pc = pc /\ (\A s : Entry(s)' = Entry(s)) /\ Whole(gone)' = Whole(gone)
      BY <1>6, <1>11 DEF Entry, Whole
    <3> QED
      BY <1>1, <1>6, <1>7, <3>1, <3>3, <3>4, <3>5, <3>6, <3>7 DEF Sees
  <2>3. task'[c].pc = pc /\ Req(c)'.mod = gone
    BY <1>6, <1>11, <1>12
  <2> QED
    BY <2>1, <2>2, <2>3 DEF DeleteFacts, Whole
<1>19. Local(c)'
  BY <1>13, <1>14, <1>15, <1>16, <1>17, <1>18 DEF Local
<1> QED
  BY <1>1, <1>4, <1>5, <1>11, <1>19, Parts, Quiet

-----------------------------------------------------------------------------
(* What an import commits.                                                 *)

\* A column that nobody else has changed becomes what was planned.
LEMMA ChangedIs ==
    ASSUME NEW r \in Rows, NEW new \in Rows
    PROVE  Changed(r, new, r) = new
<1>1. DOMAIN new = DOMAIN r
  BY DEF Rows, NoRow
<1>2. new = [f \in DOMAIN new |-> new[f]]
  BY DEF Rows, NoRow
<1>3. \A f \in DOMAIN r : (IF new[f] # r[f] THEN new[f] ELSE r[f]) = new[f]
  OBVIOUS
<1> QED
  BY <1>1, <1>2, <1>3 DEF Changed

WithRows(old, rows) == [old EXCEPT !.rows = rows]
WithMods(old, mods) == [old EXCEPT !.mods = mods]

\* A catalog with other rows and modules.
LEMMA Composed ==
    ASSUME NEW old \in Catalogs, NEW rows \in [Strings -> Rows],
           NEW mods \in [Modules -> Slugs \cup {None}], NEW part, part = WithRows(old, rows),
           NEW new, new = WithMods(part, mods)
    PROVE  /\ part \in Catalogs /\ part.rows = rows /\ part.mods = old.mods
           /\ new \in Catalogs /\ new.rows = rows /\ new.mods = mods
<1>1. part \in Catalogs /\ part.rows = rows /\ part.mods = old.mods
  BY DEF Catalogs, WithRows
<1>2. new \in Catalogs /\ new.rows = rows /\ new.mods = mods
  BY <1>1 DEF Catalogs, WithMods
<1> QED
  BY <1>1, <1>2

\* A module that a transaction has locked is its own to refer to.
LEMMA OpenTo ==
    ASSUME Exclusive, NEW c \in Clients, NEW m, Share(m) \in held[c] \/ Whole(m) \in held[c]
    PROVE  Open(c, m)
<1> SUFFICES ASSUME NEW d \in Clients \ {c}, Whole(m) \in held[d]
             PROVE  FALSE
  BY DEF Open
<1>1. Conflict(Share(m), Whole(m)) /\ Conflict(Whole(m), Whole(m))
  BY Conflicts
<1> QED
  BY <1>1 DEF Exclusive

\* The rows that an import writes, string by string.
LEMMA WrittenRows ==
    ASSUME NEW c, cat \in Catalogs, NEW view \in Catalogs, view = task[c].view,
           NEW plan, plan = task[c].plan, plan.cat.rows \in [Strings -> Rows],
           \A s \in plan.touched : s \in Strings /\ cat.rows[s] = view.rows[s]
    PROVE  \E rows \in [Strings -> Rows] :
              /\ Written(c) = [cat EXCEPT !.rows = rows]
              /\ \A s \in Strings :
                    rows[s] = IF s \in plan.touched THEN plan.cat.rows[s] ELSE cat.rows[s]
<1> DEFINE rows == [s \in Strings |-> IF s \in plan.touched
                                      THEN Changed(view.rows[s], plan.cat.rows[s], cat.rows[s])
                                      ELSE cat.rows[s]]
<1>1. Written(c) = [cat EXCEPT !.rows = rows]
  BY DEF Written
<1>2. ASSUME NEW s \in Strings
      PROVE  rows[s] = IF s \in plan.touched THEN plan.cat.rows[s] ELSE cat.rows[s]
  <2>1. cat.rows[s] \in Rows /\ plan.cat.rows[s] \in Rows
    BY DEF Catalogs
  <2>2. CASE s \in plan.touched
    BY <2>1, <2>2, ChangedIs
  <2>3. CASE s \notin plan.touched
    BY <2>3
  <2> QED
    BY <2>2, <2>3
<1>3. \A s \in Strings : cat.rows[s] \in Rows /\ plan.cat.rows[s] \in Rows
  BY DEF Catalogs
<1>4. rows = [s \in Strings |-> rows[s]]
  OBVIOUS
<1> HIDE DEF rows
<1>5. rows \in [Strings -> Rows]
  BY <1>2, <1>3, <1>4
<1> QED
  BY <1>1, <1>2, <1>5

\* An import that writes, or is refused by the index, keeps the invariant.
LEMMA ImportWriteStep ==
    ASSUME IInv, NEW c \in Clients, ImportWrite(c)
    PROVE  IInv'
<1> DEFINE new_ == [Written(c) EXCEPT !.mods = [m \in Modules |->
                       IF Whole(m) \in held[c] THEN task[c].view.mods[m] ELSE @[m]]]
<1>a. At(c, "import", "planned") /\ (Refuse(c) \/ Commit(c, new_))
  BY DEF ImportWrite
<1> PICK new : new = new_
  OBVIOUS
<1> PICK view : view = task[c].view
  OBVIOUS
<1> PICK plan : plan = task[c].plan
  OBVIOUS
<1> PICK part : part = Written(c)
  OBVIOUS
<1> PICK mods : mods = [m \in Modules |-> IF Whole(m) \in held[c] THEN view.mods[m] ELSE part.mods[m]]
  OBVIOUS
<1>b. new = [part EXCEPT !.mods = mods]
  OBVIOUS
<1>c. Refuse(c) \/ Commit(c, new)
  BY <1>a
<1> HIDE DEF new_
<1>1. CASE Refuse(c)
  BY <1>1, RefuseStep
<1>2. CASE Commit(c, new)
  <2>1. /\ Req(c) # None /\ Req(c) \in AllRequests /\ Req(c).kind = "import"
        /\ (Req(c).public => Publication \in held[c])
        /\ task[c].pc = "planned"
    BY <1>a, Ready
  <2>2. /\ Typed /\ Exclusive /\ OneImport /\ Grounded /\ Local(c) /\ cat \in Catalogs
    BY Parts
  <2>3. /\ Locked(c) /\ Viewed(c, view) /\ Checked(c, view) /\ Inserted(c, view)
        /\ PlanStands(c, view, plan)
    BY <2>1, <2>2 DEF Local, ImportFacts, ImportPcs
  <2>4. /\ File(c) \in Seq(ImportRows) /\ Plans(c) \in PlanOptions /\ Plans(c).public = Req(c).public
        /\ Req(c).public \in BOOLEAN /\ view \in Catalogs /\ NewSlugs(view, File(c)) = {}
    <3>1. Req(c) \in ImportRequests
      BY <2>1, RequestKinds
    <3>2. setting.duplicates \in BOOLEAN
      BY <2>2 DEF Typed, TypeOK
    <3>3. Plans(c) \in PlanOptions /\ Plans(c).public = Req(c).public
      BY <3>1, <3>2 DEF ImportRequests, Plans, PlanOptions
    <3> QED
      BY <2>3, <3>1, <3>3 DEF ImportRequests, File, Viewed, Inserted
  <2> PICK given : given = FileMods(view, File(c))
    OBVIOUS
  <2> PICK keys : keys = KeysIn(File(c))
    OBVIOUS
  <2>5. /\ plan \in ImportPlans
        /\ \A s \in Strings :
              IF s \in plan.touched
              THEN PlannedRow(Req(c).public, keys, given, view.rows[s], plan.cat.rows[s])
              ELSE plan.cat.rows[s] = view.rows[s]
    <3>1. plan = Plan(Plans(c), view, File(c))
      BY <2>3 DEF PlanStands
    <3> QED
      BY <2>4, <3>1, PlanFacts
  <2>6. \A s \in plan.touched : /\ s \in Strings /\ cat.rows[s] = view.rows[s]
                                /\ Exists(cat.rows[s]) => s \in Affected(c, view)
    BY <2>3 DEF PlanStands
  <2>7. plan.cat.rows \in [Strings -> Rows]
    BY <2>5 DEF ImportPlans, Catalogs
  <2>8. \E rows \in [Strings -> Rows] :
              /\ Written(c) = [cat EXCEPT !.rows = rows]
              /\ \A s \in Strings :
                    rows[s] = IF s \in plan.touched THEN plan.cat.rows[s] ELSE cat.rows[s]
    BY <2>2, <2>4, <2>6, <2>7, WrittenRows
  <2>9. PICK rows \in [Strings -> Rows] :
              /\ part = [cat EXCEPT !.rows = rows]
              /\ \A s \in Strings :
                    rows[s] = IF s \in plan.touched THEN plan.cat.rows[s] ELSE cat.rows[s]
    BY <2>8
  <2>10. /\ new \in Catalogs /\ new.rows = rows
         /\ \A m \in Modules : new.mods[m] = IF m \in Own(c) THEN view.mods[m] ELSE cat.mods[m]
    <3>1. part.mods = cat.mods
      BY <2>2, <2>9 DEF Catalogs
    <3>2. mods = [m \in Modules |-> IF Whole(m) \in held[c] THEN view.mods[m] ELSE cat.mods[m]]
      BY <3>1
    <3>3. mods \in [Modules -> Slugs \cup {None}]
      BY <2>2, <2>4, <3>2 DEF Catalogs
    <3>4. new \in Catalogs /\ new.rows = rows /\ new.mods = mods
      <4>1. part = WithRows(cat, rows) /\ new = WithMods(part, mods)
        BY <1>b, <2>9 DEF WithRows, WithMods
      <4> QED
        BY <2>2, <3>3, <4>1, Composed
    <3> QED
      BY <3>2, <3>4 DEF Own
  \* What the written rows refer to.
  <2>11. \A m \in Referenced(c, view) : m \in Modules /\ Open(c, m) /\ new.mods[m] # None
    <3> TAKE m \in Referenced(c, view)
    <3>1. m \in Modules /\ view.mods[m] # None
      BY DEF Referenced
    <3>2. CASE m \in Own(c)
      BY <2>2, <2>10, <3>1, <3>2, OpenTo DEF Own
    <3>3. CASE m \notin Own(c)
      <4>1. m \in Got(c, "modules")
        BY <2>3, <3>3 DEF Checked
      <4>2. Share(m) \in held[c] /\ cat.mods[m] # None
        BY <2>3, <4>1 DEF Locked
      <4> QED
        BY <2>2, <2>10, <3>1, <3>3, <4>2, OpenTo
    <3> QED
      BY <3>2, <3>3
  <2>12. ASSUME NEW s \in plan.touched
         PROVE  /\ rows[s].mod \in Referenced(c, view) \cup {None}
                /\ PubMod(rows[s]) \in Referenced(c, view) \cup {None}
    <3> PICK v : v = view.rows[s]
      OBVIOUS
    <3> PICK r : r = rows[s]
      OBVIOUS
    <3>1. s \in Strings /\ r = plan.cat.rows[s] /\ PlannedRow(Req(c).public, keys, given, v, r)
      BY <2>5, <2>6, <2>9
    <3>2. v \in Rows /\ r \in FullRows /\ v = cat.rows[s]
      BY <2>4, <2>6, <3>1 DEF Catalogs, PlannedRow
    <3>3. given \subseteq Referenced(c, view)
      <4>1. given = {m \in Modules : view.mods[m] \in {File(c)[i].ref : i \in DOMAIN File(c)} \ {None}}
        BY DEF FileMods
      <4>2. {File(c)[i].ref : i \in DOMAIN File(c)} \ {None} = FileSlugs(c)
        BY DEF FileSlugs, ToSet
      <4> QED
        BY <4>1, <4>2 DEF Referenced, FileSlugs
    <3>4. Exists(v) => {v.mod, PubMod(v)} \subseteq Referenced(c, view) \cup {None}
      <4> SUFFICES ASSUME Exists(v), NEW m \in {v.mod, PubMod(v)} \ {None}
                   PROVE  m \in Referenced(c, view)
        OBVIOUS
      <4>1. s \in Affected(c, view)
        BY <2>6, <3>2
      <4>2. view.mods[m] # None
        BY <2>3, <4>1 DEF Checked
      <4>3. m \in Modules
        BY <2>2, <3>1, <3>2, ModOf
      <4> QED
        BY <4>1, <4>2, <4>3 DEF Referenced
    <3>5. ~Exists(v) => v.pub = None
      BY <3>2, RowKinds
    <3>6. r.mod \in Referenced(c, view) \cup {None}
      BY <3>1, <3>3, <3>4 DEF PlannedRow
    <3>7. r.pub = v.pub \/ r.pub = Content(r)
      BY <3>1 DEF PlannedRow
    <3>8. CASE r.pub = v.pub
      <4>1. PubMod(r) = PubMod(v)
        BY <3>8 DEF PubMod
      <4> QED
        BY <3>4, <3>5, <3>6, <4>1 DEF PubMod
    <3>9. CASE r.pub = Content(r)
      <4>1. PubMod(r) \in {r.mod, None}
        BY <3>9 DEF PubMod, Content
      <4> QED
        BY <3>6, <4>1
    <3> QED
      BY <3>6, <3>7, <3>8, <3>9
  \* The export of an import that does not publish.
  <2>13. ASSUME NEW s \in plan.touched, rows[s].status = "public", ~Req(c).public
         PROVE  /\ Exists(cat.rows[s]) /\ ~cat.rows[s].deleted /\ cat.rows[s].status = "public"
                /\ rows[s].pub = cat.rows[s].pub /\ cat.rows[s].pub # None
    <3>1. s \in Strings /\ PlannedRow(Req(c).public, keys, given, cat.rows[s], rows[s])
      BY <2>5, <2>6, <2>9
    <3>2. /\ rows[s].pub = cat.rows[s].pub
          /\ rows[s].status = IF Exists(cat.rows[s]) /\ ~cat.rows[s].deleted
                              THEN cat.rows[s].status ELSE "draft"
      BY <2>13, <3>1 DEF PlannedRow
    <3>3. Exists(cat.rows[s]) /\ ~cat.rows[s].deleted /\ cat.rows[s].status = "public"
      BY <2>13, <3>2
    <3> QED
      BY <2>2, <3>1, <3>2, <3>3 DEF Grounded, Snapshots
  <2>14. ~Req(c).public => FacesKept(new)
    <3> SUFFICES ASSUME ~Req(c).public, NEW s \in Strings, Exported(rows[s])
                 PROVE  /\ Exported(cat.rows[s])
                        /\ PubKey(rows[s]) = PubKey(cat.rows[s])
                        /\ PubMod(rows[s]) = PubMod(cat.rows[s])
      BY <2>10 DEF FacesKept
    <3>1. CASE s \in plan.touched
      <4>1. rows[s].status = "public"
        BY DEF Exported
      <4> QED
        BY <2>13, <3>1, <4>1 DEF Exported, Alive, PubKey, PubMod
    <3>2. CASE s \notin plan.touched
      BY <2>9, <3>2
    <3> QED
      BY <3>1, <3>2
  <2>15. Lawful(c, new)
    <3>1. ASSUME NEW s \in Strings, new.rows[s] # cat.rows[s]
          PROVE  IF Exists(cat.rows[s]) THEN Alone(c, Entry(s)) /\ Exists(new.rows[s])
                 ELSE \A d \in Clients \ {c} : task[d].pc = "planned" => s \notin task[d].plan.touched
      <4>1. s \in plan.touched
        BY <2>9, <2>10, <3>1
      <4>2. CASE Exists(cat.rows[s])
        <5>1. s \in Got(c, "entries")
          BY <2>3, <2>6, <4>1, <4>2 DEF Checked
        <5>2. Alone(c, Entry(s))
          BY <2>2, <2>3, <5>1, HeldAlone DEF Locked
        <5>3. new.rows[s] \in FullRows
          BY <2>5, <2>9, <2>10, <4>1 DEF PlannedRow
        <5> QED
          BY <4>2, <5>2, <5>3, RowKinds
      <4>3. CASE ~Exists(cat.rows[s])
        <5> SUFFICES ASSUME NEW d \in Clients \ {c}, task[d].pc = "planned"
                     PROVE  FALSE
          BY <4>3
        <5>1. Phase(d)
          BY Parts DEF Local
        <5>2. Req(d) # None /\ Req(d).kind = "import"
          BY <5>1 DEF Phase, ImportPcs
        <5> QED
          BY <2>1, <2>2, <5>2 DEF OneImport
      <4> QED
        BY <4>2, <4>3
    <3>2. ASSUME NEW s \in Strings
          PROVE  /\ new.rows[s].mod \notin {cat.rows[s].mod, None} => Open(c, new.rows[s].mod)
                 /\ PubMod(new.rows[s]) \notin {PubMod(cat.rows[s]), None} =>
                        Open(c, PubMod(new.rows[s]))
      <4>1. CASE s \in plan.touched
        BY <2>10, <2>11, <2>12, <4>1
      <4>2. CASE s \notin plan.touched
        BY <2>9, <2>10, <4>2
      <4> QED
        BY <4>1, <4>2
    <3>3. ASSUME NEW m \in Modules, new.mods[m] # cat.mods[m]
          PROVE  /\ Alone(c, Whole(m))
                 /\ new.mods[m] # None => Alone(c, Slug(new.mods[m]))
      <4>1. m \in Own(c)
        BY <2>10, <3>3
      <4>2. Whole(m) \in held[c] /\ Slug(new.mods[m]) \in held[c]
        BY <2>3, <2>10, <4>1 DEF Own, Inserted
      <4> QED
        BY <2>2, <4>2, HeldAlone
    <3>4. Alone(c, Publication) \/ FacesKept(new)
      BY <2>1, <2>2, <2>14, HeldAlone
    <3> QED
      BY <2>10, <3>1, <3>2, <3>3, <3>4 DEF Lawful
  <2>16. ModulesKept(new)
    <3> SUFFICES ASSUME NEW s \in Strings, NEW m \in {rows[s].mod, PubMod(rows[s])} \ {None}
                 PROVE  new.mods[m] # None
      BY <2>10 DEF ModulesKept
    <3>1. CASE s \in plan.touched
      BY <2>11, <2>12, <3>1
    <3>2. CASE s \notin plan.touched
      <4>1. m \in {cat.rows[s].mod, PubMod(cat.rows[s])} \ {None} /\ m \in Modules
        BY <2>2, <2>9, <3>2, ModOf
      <4>2. cat.mods[m] # None
        BY <2>2, <4>1 DEF Grounded, ModulesKept
      <4> QED
        BY <2>3, <2>10, <4>1, <4>2 DEF Inserted
    <3> QED
      BY <3>1, <3>2
  <2>17. SlugsUnique(new)
    <3> SUFFICES ASSUME NEW i \in Modules, NEW j \in Modules,
                        new.mods[i] = new.mods[j], new.mods[i] # None
                 PROVE  i = j
      BY DEF SlugsUnique
    <3>1. CASE i \in Own(c) /\ j \in Own(c)
      BY <2>3, <2>10, <3>1 DEF Inserted
    <3>2. CASE i \in Own(c) /\ j \notin Own(c)
      BY <2>3, <2>10, <3>2 DEF Inserted
    <3>3. CASE i \notin Own(c) /\ j \in Own(c)
      BY <2>3, <2>10, <3>3 DEF Inserted
    <3>4. CASE i \notin Own(c) /\ j \notin Own(c)
      BY <2>2, <2>10, <3>4 DEF Grounded, SlugsUnique
    <3> QED
      BY <3>1, <3>2, <3>3, <3>4
  <2>18. Snapshots(new)
    <3> SUFFICES ASSUME NEW s \in Strings, rows[s].status = "public"
                 PROVE  rows[s].pub # None
      BY <2>10 DEF Snapshots
    <3>1. CASE s \in plan.touched /\ Req(c).public
      <4>1. PlannedRow(TRUE, keys, given, view.rows[s], rows[s])
        BY <2>4, <2>5, <2>9, <3>1
      <4> QED
        BY <4>1 DEF PlannedRow
    <3>2. CASE s \in plan.touched /\ ~Req(c).public
      BY <2>13, <3>2
    <3>3. CASE s \notin plan.touched
      BY <2>2, <2>9, <3>3 DEF Grounded, Snapshots
    <3> QED
      BY <2>4, <3>1, <3>2, <3>3
  <2>19. Apart(rows)
    <3>1. CASE Req(c).public
      <4> DEFINE over == Overlaid(c, plan).rows
      <4>1. Apart(over)
        BY <2>3, <3>1 DEF PlanStands
      <4>2. \A s \in Strings : rows[s] = over[s]
        BY <2>9 DEF Overlaid
      <4> HIDE DEF over
      <4> QED
        BY <4>1, <4>2, FacesApart
    <3>2. CASE ~Req(c).public
      <4>1. Apart(cat.rows)
        BY <2>2 DEF Grounded
      <4> QED
        BY <2>10, <2>14, <3>2, <4>1, FacesApart DEF FacesKept
    <3> QED
      BY <3>1, <3>2
  <2> QED
    BY <1>2, <2>10, <2>15, <2>16, <2>17, <2>18, <2>19, CommitStep
<1> QED
  BY <1>1, <1>2, <1>c

-----------------------------------------------------------------------------
(* What a save commits.                                                    *)

Put(old, s, r) == [old EXCEPT !.rows[s] = r]

\* Rows that change in one string only.
LEMMA OneRow ==
    ASSUME NEW old \in Catalogs, NEW s \in Strings, NEW r \in Rows, NEW new, new = Put(old, s, r)
    PROVE  /\ new \in Catalogs /\ new.mods = old.mods
           /\ \A t \in Strings : new.rows[t] = IF t = s THEN r ELSE old.rows[t]
<1> PICK rows : rows = [old.rows EXCEPT ![s] = r]
  OBVIOUS
<1>1. rows \in [Strings -> Rows] /\ \A t \in Strings : rows[t] = IF t = s THEN r ELSE old.rows[t]
  BY DEF Catalogs
<1>2. new = [old EXCEPT !.rows = rows]
  BY DEF Put
<1>3. new \in Catalogs /\ new.mods = old.mods /\ new.rows = rows
  BY <1>1, <1>2 DEF Catalogs
<1> QED
  BY <1>1, <1>3

\* What one string and no module changes to is lawful, and sound.
LEMMA OneString ==
    ASSUME IInv, NEW c \in Clients, NEW s \in Strings, NEW e \in FullRows, NEW new \in Catalogs,
           new.mods = cat.mods,
           \A t \in Strings : new.rows[t] = IF t = s THEN e ELSE cat.rows[t],
           IF Exists(cat.rows[s]) THEN Alone(c, Entry(s))
           ELSE \A d \in Clients \ {c} : task[d].pc = "planned" => s \notin task[d].plan.touched,
           e.mod \notin {cat.rows[s].mod, None} => Open(c, e.mod),
           PubMod(e) \notin {PubMod(cat.rows[s]), None} => Open(c, PubMod(e)),
           \A m \in {e.mod, PubMod(e)} \ {None} : cat.mods[m] # None,
           NEW public \in BOOLEAN,
           public => /\ Alone(c, Publication) /\ KeysPublic(setting.modular, new)
                     /\ e.pub # None,
           ~public /\ e.status = "public" =>
               /\ Exists(cat.rows[s]) /\ e.deleted = cat.rows[s].deleted
               /\ cat.rows[s].status = "public" /\ e.pub = cat.rows[s].pub
    PROVE  Lawful(c, new) /\ ModulesKept(new) /\ SlugsUnique(new) /\ Snapshots(new) /\ Apart(new.rows)
<1>1. Grounded /\ Typed
  BY Parts
<1>2. Exists(e)
  BY RowKinds
<1>3. ~public /\ e.status = "public" => e.pub # None
  BY <1>1 DEF Grounded, Snapshots
<1>4. ~public => FacesKept(new)
  <2> SUFFICES ASSUME ~public, NEW t \in Strings, Exported(new.rows[t])
               PROVE  /\ Exported(cat.rows[t])
                      /\ PubKey(new.rows[t]) = PubKey(cat.rows[t])
                      /\ PubMod(new.rows[t]) = PubMod(cat.rows[t])
    BY DEF FacesKept
  <2>1. CASE t = s
    <3>1. new.rows[t] = e /\ e.status = "public" /\ ~e.deleted
      BY <2>1 DEF Exported, Alive
    <3> QED
      BY <1>3, <2>1, <3>1 DEF Exported, Alive, PubKey, PubMod
  <2>2. CASE t # s
    BY <2>2
  <2> QED
    BY <2>1, <2>2
<1>5. Lawful(c, new)
  BY <1>2, <1>4 DEF Lawful
<1>6. ModulesKept(new)
  BY <1>1 DEF Grounded, ModulesKept
<1>7. SlugsUnique(new)
  BY <1>1 DEF Grounded, SlugsUnique
<1>8. Snapshots(new)
  BY <1>1, <1>3 DEF Grounded, Snapshots
<1>9. Apart(new.rows)
  <2>1. CASE public
    BY <2>1, PublicApart
  <2>2. CASE ~public
    BY <1>1, <1>4, <2>2, FacesApart DEF Grounded, FacesKept
  <2> QED
    BY <2>1, <2>2
<1> QED
  BY <1>5, <1>6, <1>7, <1>8, <1>9

\* What a save writes, when its statements have found everything in order.
LEMMA Flushed ==
    ASSUME IInv, NEW c \in Clients, At(c, "save", "flush"), NEW req, req = Req(c),
           NEW e, e = After(req, cat.rows[req.s]), NEW new, new = Written(c)
    PROVE  /\ req \in SaveRequests /\ req.s \in Strings /\ cat.rows[req.s] \in FullRows
           /\ (req.public => Publication \in held[c])
           /\ SaveStands(c, req, task[c].view) /\ Claims(c) = held[c]
           /\ e \in FullRows /\ new \in Catalogs /\ new.mods = cat.mods
           /\ \A t \in Strings : new.rows[t] = IF t = req.s THEN e ELSE cat.rows[t]
<1> PICK s : s = req.s
  OBVIOUS
<1> PICK view : view = task[c].view
  OBVIOUS
<1> PICK plan : plan = task[c].plan
  OBVIOUS
<1>1. /\ req \in AllRequests /\ req.kind = "save" /\ (req.public => Publication \in held[c])
      /\ task[c].pc = "flush" /\ Claims(c) = held[c]
  <2>1. /\ Req(c) \in AllRequests /\ Req(c).kind = "save"
        /\ (Req(c).public => Publication \in held[c])
        /\ task[c].pc = "flush" /\ Claims(c) = held[c]
    BY Ready
  <2> QED
    BY <2>1
<1>2. req \in SaveRequests /\ s \in Strings
  BY <1>1, RequestKinds DEF SaveRequests
<1>3. SaveFacts(c) /\ cat \in Catalogs
  BY Parts DEF Local
<1>4. SaveStands(c, req, view)
  BY <1>1, <1>3 DEF SaveFacts
<1>5. cat.rows[s] \in FullRows
  <2>1. Exists(cat.rows[s]) /\ cat.rows[s] \in Rows
    BY <1>2, <1>3, <1>4 DEF SaveStands, Catalogs
  <2> QED
    BY <2>1, RowKinds
<1>6. e \in FullRows
  BY <1>2, <1>5, AfterRow
<1>7. view \in Catalogs /\ view.rows[s] = cat.rows[s]
  BY <1>4 DEF SaveStands
<1> PICK target : target = Put(view, s, e)
  OBVIOUS
<1>8. plan.cat = target /\ plan.touched = {s}
  <2>1. plan = [cat |-> target, touched |-> {s}]
    BY <1>4 DEF SaveStands, Put
  <2> QED
    BY <2>1
<1>9. e \in Rows
  BY <1>6, RowKinds
<1>10. target \in Catalogs /\ \A t \in Strings : target.rows[t] = IF t = s THEN e ELSE view.rows[t]
  BY <1>2, <1>7, <1>9, OneRow
<1>11. target.rows \in [Strings -> Rows]
  BY <1>10 DEF Catalogs
<1>a. \A t \in plan.touched : t \in Strings /\ cat.rows[t] = view.rows[t]
  BY <1>2, <1>7, <1>8
<1>b. plan.cat.rows \in [Strings -> Rows]
  BY <1>8, <1>11
<1>12. PICK rows \in [Strings -> Rows] :
          /\ Written(c) = [cat EXCEPT !.rows = rows]
          /\ \A t \in Strings :
                rows[t] = IF t \in plan.touched THEN plan.cat.rows[t] ELSE cat.rows[t]
  BY <1>3, <1>7, <1>a, <1>b, WrittenRows
<1>13. new \in Catalogs /\ new.mods = cat.mods /\ new.rows = rows
  BY <1>3, <1>12 DEF Catalogs
<1> QED
  BY <1>1, <1>2, <1>4, <1>5, <1>6, <1>8, <1>10, <1>12, <1>13

\* A save that is flushed and committed, or refused, keeps the invariant.
LEMMA SaveFlushStep ==
    ASSUME IInv, NEW c \in Clients, SaveFlush(c)
    PROVE  IInv'
<1> PICK new : new = Written(c)
  OBVIOUS
<1> PICK req : req = Req(c)
  OBVIOUS
<1> PICK s : s = req.s
  OBVIOUS
<1> PICK old : old = cat.rows[s]
  OBVIOUS
<1> PICK e : e = After(req, old)
  OBVIOUS
<1>1. /\ At(c, "save", "flush")
      /\ \/ Refuse(c)
         \/ /\ \A m \in {new.rows[s].mod, PubMod(new.rows[s])} \ {None} : cat.mods[m] # None
            /\ req.public => KeysPublic(setting.modular, new)
            /\ Commit(c, new)
  BY DEF SaveFlush
<1>2. CASE Refuse(c)
  BY <1>2, RefuseStep
<1>3. CASE /\ \A m \in {new.rows[s].mod, PubMod(new.rows[s])} \ {None} : cat.mods[m] # None
           /\ req.public => KeysPublic(setting.modular, new)
           /\ Commit(c, new)
  <2>1. /\ req \in SaveRequests /\ s \in Strings /\ old \in FullRows
        /\ (req.public => Publication \in held[c])
        /\ SaveStands(c, req, task[c].view) /\ Claims(c) = held[c]
        /\ e \in FullRows /\ new \in Catalogs /\ new.mods = cat.mods
        /\ \A t \in Strings : new.rows[t] = IF t = s THEN e ELSE cat.rows[t]
    BY <1>1, Flushed
  <2>2. Exclusive
    BY Parts
  <2>3. new.rows[s] = e
    BY <2>1
  <2>4. Alone(c, Entry(s)) /\ Exists(old)
    BY <2>1, <2>2, HeldAlone DEF SaveStands
  <2>5. /\ e.mod \notin {old.mod, None} => Open(c, e.mod)
        /\ PubMod(e) \notin {PubMod(old), None} => Open(c, PubMod(e))
    BY <2>1, <2>2, OpenTo DEF SaveStands
  <2>6. /\ e.deleted = old.deleted
        /\ req.public => e.status = "public" /\ e.pub # None
        /\ ~req.public => e.status = old.status /\ e.pub = old.pub
    BY <2>1, AfterRow
  <2>7. req.public => Alone(c, Publication)
    BY <2>1, <2>2, HeldAlone
  <2>8. req.public \in BOOLEAN
    BY <2>1 DEF SaveRequests
  <2> PICK public \in BOOLEAN : public = req.public
    BY <2>8
  <2>9. \A m \in {e.mod, PubMod(e)} \ {None} : cat.mods[m] # None
    BY <1>3, <2>3
  <2>10. public => Alone(c, Publication) /\ KeysPublic(setting.modular, new) /\ e.pub # None
    BY <1>3, <2>6, <2>7
  <2>11. ~public /\ e.status = "public" =>
            Exists(old) /\ e.deleted = old.deleted /\ old.status = "public" /\ e.pub = old.pub
    BY <2>4, <2>6
  <2>12. Lawful(c, new) /\ ModulesKept(new) /\ SlugsUnique(new) /\ Snapshots(new) /\ Apart(new.rows)
    BY <2>1, <2>4, <2>5, <2>9, <2>10, <2>11, OneString
  <2> QED
    BY <1>3, <2>12, CommitStep
<1> QED
  BY <1>1, <1>2, <1>3

-----------------------------------------------------------------------------
(* What a deletion of a module commits.                                    *)

\* A row whose module, or whose snapshot's, is cleared.
Cleared(r, a, b) ==
    [r EXCEPT !.mod = IF a THEN None ELSE @, !.pub = IF b THEN [@ EXCEPT !.mod = None] ELSE @]

\* A row whose module, or whose snapshot's, is cleared.
LEMMA ClearedRow ==
    ASSUME NEW r \in Rows, NEW a \in BOOLEAN, NEW b \in BOOLEAN,
           a => r.mod \in Modules, b => PubMod(r) \in Modules,
           NEW n, n = Cleared(r, a, b)
    PROVE  /\ n \in Rows /\ n.status = r.status /\ n.deleted = r.deleted
           /\ ~a /\ ~b => n = r
           /\ n.mod = IF a THEN None ELSE r.mod
           /\ PubMod(n) = IF b THEN None ELSE PubMod(r)
           /\ PubKey(n) = IF r.pub = None THEN n.key ELSE PubKey(r)
           /\ n.key = r.key /\ (n.pub = None <=> r.pub = None)
<1> PICK m : m = IF a THEN None ELSE r.mod
  OBVIOUS
<1> PICK x : x = IF b THEN [r.pub EXCEPT !.mod = None] ELSE r.pub
  OBVIOUS
<1>1. n = [r EXCEPT !.mod = m, !.pub = x]
  BY DEF Cleared
<1>2. CASE ~Exists(r)
  <2>1. r = NoRow /\ r.mod = None /\ PubMod(r) = None /\ r.pub = None
    BY <1>2, RowKinds DEF PubMod
  <2>2. ~a /\ ~b
    BY <2>1, EngineAssumption, RowsAssumption
  <2>3. n = r
    BY <1>1, <2>1, <2>2 DEF NoRow
  <2> QED
    BY <2>2, <2>3 DEF PubMod, PubKey
<1>3. CASE Exists(r)
  <2>1. r \in FullRows
    BY <1>3, RowKinds
  <2>2. r.pub \in Contents \cup {None} /\ m \in Modules \cup {None}
    BY <2>1 DEF FullRows
  <2>3. b => r.pub \in Contents /\ r.pub # None
    BY <2>2, EngineAssumption, RowsAssumption DEF PubMod
  <2>4. /\ x \in Contents \cup {None} /\ (x = None <=> r.pub = None)
        /\ x # None => x.key = r.pub.key /\ x.mod = IF b THEN None ELSE r.pub.mod
    <3>1. CASE b
      <4>1. x \in Contents /\ x.key = r.pub.key /\ x.mod = None
        BY <2>3, <3>1 DEF Contents
      <4> QED
        BY <2>3, <3>1, <4>1, EngineAssumption, RowsAssumption
    <3>2. CASE ~b
      BY <2>2, <3>2
    <3> QED
      BY <3>1, <3>2
  <2>5. /\ n \in FullRows /\ n.mod = m /\ n.pub = x /\ n.key = r.key
        /\ n.status = r.status /\ n.deleted = r.deleted
    BY <1>1, <2>1, <2>2, <2>4 DEF FullRows
  <2>6. ~a /\ ~b => n = r
    BY <1>1, <2>1 DEF FullRows
  <2>7. n \in Rows
    BY <2>5, RowKinds
  <2>8. PubMod(n) = IF b THEN None ELSE PubMod(r)
    BY <2>3, <2>4, <2>5 DEF PubMod
  <2>9. PubKey(n) = IF r.pub = None THEN n.key ELSE PubKey(r)
    BY <2>4, <2>5 DEF PubKey
  <2> QED
    BY <2>4, <2>5, <2>6, <2>7, <2>8, <2>9
<1> QED
  BY <1>2, <1>3

\* A deletion that clears what is in its module and drops it keeps the invariant.
LEMMA DeleteDropStep ==
    ASSUME IInv, NEW c \in Clients, DeleteDrop(c)
    PROVE  IInv'
<1> DEFINE gone_ == Req(c).mod
           refs_ == Got(c, "refs")
           published_ == Got(c, "published")
           cleared_(s, r) ==
               [r EXCEPT !.mod = IF s \in refs_ THEN None ELSE @,
                         !.pub = IF s \in published_ THEN [@ EXCEPT !.mod = None] ELSE @]
           rows_ == [s \in Strings |-> cleared_(s, cat.rows[s])]
           new_ == [cat EXCEPT !.rows = rows_, !.mods[gone_] = None]
<1>a. At(c, "delete", "published") /\ (Refuse(c) \/ Commit(c, new_))
  BY DEF DeleteDrop
<1> PICK gone : gone = gone_
  OBVIOUS
<1> PICK refs : refs = refs_
  OBVIOUS
<1> PICK published : published = published_
  OBVIOUS
<1> PICK rows : rows = rows_
  OBVIOUS
<1> PICK new : new = new_
  OBVIOUS
<1>b. /\ gone = Req(c).mod /\ refs = Got(c, "refs") /\ published = Got(c, "published")
      /\ Refuse(c) \/ Commit(c, new)
  BY <1>a
<1>c. \A s \in Strings :
         rows[s] = [cat.rows[s] EXCEPT !.mod = IF s \in refs THEN None ELSE @,
                       !.pub = IF s \in published THEN [@ EXCEPT !.mod = None] ELSE @]
  OBVIOUS
<1>d. DOMAIN rows = Strings /\ rows = [s \in Strings |-> rows[s]]
  OBVIOUS
<1>e. new = [cat EXCEPT !.rows = rows, !.mods[gone] = None]
  <2> HIDE DEF rows_, gone_
  <2> QED
    OBVIOUS
<1> HIDE DEF gone_, refs_, published_, cleared_, rows_, new_
<1>1. CASE Refuse(c)
  BY <1>1, RefuseStep
<1>2. CASE Commit(c, new)
  <2>1. /\ Req(c) # None /\ Req(c) \in AllRequests /\ Req(c).kind = "delete"
        /\ (Req(c).public => Publication \in held[c])
        /\ task[c].pc = "published" /\ Awaited(c) = {}
    BY <1>a, Ready
  <2>2. gone \in Modules /\ gone # None /\ Publication \in held[c]
    <3>1. Req(c) \in DeleteRequests
      BY <2>1, RequestKinds
    <3>2. Req(c).mod \in Modules /\ Req(c).public
      BY <3>1 DEF DeleteRequests
    <3> QED
      BY <1>b, <2>1, <3>2, EngineAssumption, RowsAssumption
  <2>3. /\ Typed /\ Exclusive /\ Grounded /\ Local(c) /\ cat \in Catalogs
    BY Parts
  <2>4. Sees(c, gone)
    BY <1>b, <2>1, <2>3 DEF Local, DeleteFacts
  <2>5. /\ \A s \in refs : s \in Strings /\ Entry(s) \in held[c] /\ cat.rows[s].mod = gone
        /\ \A s \in published : s \in Strings /\ Entry(s) \in held[c] /\ PubMod(cat.rows[s]) = gone
        /\ \A s \in Strings : cat.rows[s].mod = gone => s \in refs
        /\ \A s \in Strings : PubMod(cat.rows[s]) = gone => s \in published
        /\ Whole(gone) \in held[c] /\ ~PublishedCollides(cat, gone)
    BY <1>b, <2>1, <2>4 DEF Sees
  <2>6. ASSUME NEW s \in Strings
        PROVE  /\ rows[s] \in Rows /\ rows[s].status = cat.rows[s].status
               /\ rows[s].deleted = cat.rows[s].deleted
               /\ s \notin refs /\ s \notin published => rows[s] = cat.rows[s]
               /\ rows[s].mod = IF cat.rows[s].mod = gone THEN None ELSE cat.rows[s].mod
               /\ PubMod(rows[s]) = IF PubMod(cat.rows[s]) = gone THEN None ELSE PubMod(cat.rows[s])
               /\ cat.rows[s].pub # None => PubKey(rows[s]) = PubKey(cat.rows[s])
               /\ rows[s].pub = None <=> cat.rows[s].pub = None
    <3> PICK r : r = cat.rows[s]
      OBVIOUS
    <3> PICK n : n = rows[s]
      OBVIOUS
    <3> PICK a \in BOOLEAN : a <=> s \in refs
      OBVIOUS
    <3> PICK b \in BOOLEAN : b <=> s \in published
      OBVIOUS
    <3>1. n = [r EXCEPT !.mod = IF s \in refs THEN None ELSE @,
                        !.pub = IF s \in published THEN [@ EXCEPT !.mod = None] ELSE @]
      BY <1>c
    <3>2. n = Cleared(r, a, b)
      <4>1. (IF s \in refs THEN None ELSE r.mod) = (IF a THEN None ELSE r.mod)
        OBVIOUS
      <4> QED
        BY <3>1 DEF Cleared
    <3>3. /\ a <=> r.mod = gone
          /\ b <=> PubMod(r) = gone
          /\ r \in Rows
      BY <2>3, <2>5 DEF Catalogs
    <3>4. /\ n \in Rows /\ n.status = r.status /\ n.deleted = r.deleted
          /\ ~a /\ ~b => n = r
          /\ n.mod = IF a THEN None ELSE r.mod
          /\ PubMod(n) = IF b THEN None ELSE PubMod(r)
          /\ PubKey(n) = IF r.pub = None THEN n.key ELSE PubKey(r)
          /\ n.key = r.key /\ (n.pub = None <=> r.pub = None)
      BY <2>2, <3>2, <3>3, ClearedRow
    <3> QED
      BY <3>3, <3>4
  <2>7. /\ new \in Catalogs /\ new.rows = rows
        /\ \A m \in Modules : new.mods[m] = IF m = gone THEN None ELSE cat.mods[m]
    <3> PICK mods : mods = [cat.mods EXCEPT ![gone] = None]
      OBVIOUS
    <3> PICK part : part = WithRows(cat, rows)
      OBVIOUS
    <3>1. rows \in [Strings -> Rows]
      BY <1>d, <2>6
    <3>2. /\ mods \in [Modules -> Slugs \cup {None}]
          /\ \A m \in Modules : mods[m] = IF m = gone THEN None ELSE cat.mods[m]
      BY <2>2, <2>3 DEF Catalogs
    <3>3. new = WithMods(part, mods)
      BY <1>e, <2>3 DEF WithMods, WithRows, Catalogs
    <3>4. new \in Catalogs /\ new.rows = rows /\ new.mods = mods
      BY <2>3, <3>1, <3>2, <3>3, Composed
    <3> QED
      BY <3>2, <3>4
  <2>8. Lawful(c, new)
    <3>1. ASSUME NEW s \in Strings, new.rows[s] # cat.rows[s]
          PROVE  Exists(cat.rows[s]) /\ Alone(c, Entry(s)) /\ Exists(new.rows[s])
      <4>1. s \in refs \/ s \in published
        BY <2>6, <2>7, <3>1
      <4>2. cat.rows[s].mod \in Modules \/ PubMod(cat.rows[s]) \in Modules
        BY <2>2, <2>5, <4>1
      <4>3. Exists(cat.rows[s])
        BY <2>3, <4>2, ModOf
      <4> QED
        BY <2>3, <2>5, <2>6, <2>7, <4>1, <4>3, HeldAlone DEF Exists
    <3>2. \A s \in Strings : /\ new.rows[s].mod \in {cat.rows[s].mod, None}
                             /\ PubMod(new.rows[s]) \in {PubMod(cat.rows[s]), None}
      BY <2>6, <2>7
    <3>3. \A m \in Modules : new.mods[m] # cat.mods[m] =>
              Alone(c, Whole(m)) /\ new.mods[m] = None
      BY <2>3, <2>5, <2>7, HeldAlone
    <3>4. Alone(c, Publication)
      BY <2>2, <2>3, HeldAlone
    <3> QED
      BY <2>7, <3>1, <3>2, <3>3, <3>4 DEF Lawful
  <2>9. ModulesKept(new)
    <3> SUFFICES ASSUME NEW s \in Strings, NEW m \in {rows[s].mod, PubMod(rows[s])} \ {None}
                 PROVE  new.mods[m] # None
      BY <2>7 DEF ModulesKept
    <3>1. m \in {cat.rows[s].mod, PubMod(cat.rows[s])} \ {None} /\ m # gone
      BY <2>6
    <3>2. m \in Modules
      BY <2>3, <3>1, ModOf
    <3>3. cat.mods[m] # None
      BY <2>3, <3>1 DEF Grounded, ModulesKept
    <3> QED
      BY <2>7, <3>1, <3>2, <3>3
  <2>10. SlugsUnique(new)
    BY <2>3, <2>7 DEF Grounded, SlugsUnique
  <2>11. Snapshots(new)
    BY <2>3, <2>6, <2>7 DEF Grounded, Snapshots
  <2>12. Apart(rows)
    <3> SUFFICES ASSUME NEW s \in Strings, NEW t \in Strings, Exported(rows[s]), Exported(rows[t]),
                        PubKey(rows[s]) = PubKey(rows[t]),
                        setting.modular => PubMod(rows[s]) = PubMod(rows[t])
                 PROVE  s = t
      BY DEF Apart
    <3>1. /\ Exported(cat.rows[s]) /\ Exported(cat.rows[t])
          /\ PubKey(cat.rows[s]) = PubKey(cat.rows[t])
      BY <2>3, <2>6 DEF Exported, Alive, Exists, Grounded, Snapshots
    <3>2. CASE setting.modular => PubMod(cat.rows[s]) = PubMod(cat.rows[t])
      BY <2>3, <3>1, <3>2 DEF Grounded, Apart
    <3>3. CASE PubMod(cat.rows[s]) = gone /\ PubMod(cat.rows[t]) = None
      BY <2>5, <3>1, <3>3 DEF PublishedCollides
    <3>4. CASE PubMod(cat.rows[t]) = gone /\ PubMod(cat.rows[s]) = None
      BY <2>5, <3>1, <3>4 DEF PublishedCollides
    <3>5. /\ PubMod(rows[s]) = IF PubMod(cat.rows[s]) = gone THEN None ELSE PubMod(cat.rows[s])
          /\ PubMod(rows[t]) = IF PubMod(cat.rows[t]) = gone THEN None ELSE PubMod(cat.rows[t])
      BY <2>6
    <3> QED
      BY <3>2, <3>3, <3>4, <3>5
  <2> QED
    BY <1>2, <2>7, <2>8, <2>9, <2>10, <2>11, <2>12, CommitStep
<1> QED
  BY <1>1, <1>2, <1>b

-----------------------------------------------------------------------------
(* Requests of one statement or two.                                       *)

\* A finite set of numbers has a greatest one: the last in their order.
LEMMA GreatestNumber ==
    ASSUME NEW S \in SUBSET Nat, IsFiniteSet(S), S # {}
    PROVE  \E x \in S : \A y \in S : y <= x
<1>1. PICK ids \in SetToSeqs(S) : Increasing(ids)
  BY OrderExists
<1>2. ids \in Seq(S) /\ DOMAIN ids = 1..Cardinality(S) /\ ToSet(ids) = S
  BY <1>1, SeqsCover
<1> DEFINE n == Cardinality(S)
<1>3. n \in Nat /\ n # 0
  BY FS_CardinalityType, FS_EmptySet
<1> HIDE DEF n
<1>4. n \in DOMAIN ids /\ ids[n] \in S
  BY <1>2, <1>3 DEF n
<1>5. ASSUME NEW y \in S
      PROVE  y <= ids[n]
  <2>1. PICK i \in DOMAIN ids : ids[i] = y
    BY <1>2 DEF ToSet
  <2>2. i = n \/ i < n
    BY <1>2, <1>3 DEF n
  <2>3. i < n => ids[i] < ids[n]
    BY <1>1, <1>4 DEF Increasing
  <2>4. ids[n] \in Nat /\ y \in Nat
    BY <1>4
  <2> QED
    BY <2>1, <2>2, <2>3, <2>4
<1> QED
  BY <1>4, <1>5

\* The row of a string that an editor creates.
LEMMA CreatedRow ==
    ASSUME NEW x \in Contents, NEW public \in BOOLEAN,
           NEW r, r = IF public THEN Promoted(Draft(x)) ELSE Draft(x)
    PROVE  /\ r \in FullRows /\ r.mod = x.mod /\ PubMod(r) \in {x.mod, None}
           /\ public => r.pub # None
           /\ ~public => r.status # "public"
<1> PICK b : b = Draft(x)
  OBVIOUS
<1>1. b \in FullRows /\ b.mod = x.mod /\ b.pub = None /\ b.status # "public"
  BY DEF Draft, FullRows, Contents
<1>2. Content(b) \in Contents /\ Content(b).mod = x.mod
  BY <1>1 DEF FullRows, Content, Contents
<1>3. CASE public
  <2>1. r = [b EXCEPT !.pub = Content(b), !.status = "public", !.pending = FALSE]
    BY <1>3 DEF Promoted
  <2>2. r \in FullRows /\ r.mod = x.mod /\ r.pub = Content(b)
    BY <1>1, <1>2, <2>1 DEF FullRows
  <2> QED
    BY <1>2, <1>3, <2>2, EngineAssumption, RowsAssumption DEF PubMod
<1>4. CASE ~public
  BY <1>1, <1>4 DEF PubMod
<1> QED
  BY <1>3, <1>4

\* Who finds locks free has them for himself.
LEMMA FreeIs ==
    ASSUME NEW items, Free(items), NEW c
    PROVE  /\ \A i \in items : Alone(c, i)
           /\ \A m : Share(m) \in items => Open(c, m)
<1>1. \A m : Conflict(Share(m), Whole(m))
  BY Conflicts
<1> QED
  BY <1>1 DEF Free, Alone, Open

\* What a client may send is a request.
LEMMA RequestedBy ==
    ASSUME IInv, NEW c \in Clients, NEW req \in Requests[setting.scene][c]
    PROVE  req \in AllRequests
<1>1. setting.scene \in Scenes
  BY Parts DEF Typed, TypeOK
<1>2. Requests[setting.scene] \in [Clients -> SUBSET AllRequests]
  BY <1>1, EngineAssumption, RowsAssumption
<1> QED
  BY <1>2

\* A string that an editor creates keeps the invariant.
LEMMA CreateStringStep ==
    ASSUME IInv, NEW c \in Clients, NEW req \in AllRequests, CreateString(c, req)
    PROVE  IInv'
<1> PICK S : S = Untaken
  OBVIOUS
<1>s. PICK s : s = CHOOSE t \in S : \A u \in S : u <= t
  OBVIOUS
<1>r. PICK r : r = IF req.public THEN Promoted(Draft(req.x)) ELSE Draft(req.x)
  OBVIOUS
<1> PICK new : new = Put(cat, s, r)
  OBVIOUS
<1>i. PICK items : items = {Key(Draft(req.x)), Share(req.x.mod)}
                            \cup (IF req.public THEN {Publication} ELSE {})
  OBVIOUS
<1>1. /\ req.kind = "create" /\ Free(items) /\ S # {}
      /\ \/ Refuse(c)
         \/ /\ req.x.mod # None => cat.mods[req.x.mod] # None
            /\ req.public => KeysPublic(setting.modular, new)
            /\ Commit(c, new)
  BY <1>i, <1>r, <1>s DEF CreateString, Quick, Put
<1>2. CASE Refuse(c)
  BY <1>2, RefuseStep
<1>3. CASE /\ req.x.mod # None => cat.mods[req.x.mod] # None
           /\ req.public => KeysPublic(setting.modular, new)
           /\ Commit(c, new)
  <2>1. req \in CreateRequests
    BY <1>1, RequestKinds
  <2>2. req.x \in Contents /\ req.public \in BOOLEAN
    BY <2>1 DEF CreateRequests
  <2>3. s \in S
    <3>1. S \subseteq Strings
      BY DEF Untaken, Unused
    <3>2. S \in SUBSET Nat /\ IsFiniteSet(S)
      BY <3>1, FS_Subset, EngineAssumption, RowsAssumption
    <3>3. \E t \in S : \A u \in S : u <= t
      BY <1>1, <3>2, GreatestNumber
    <3> QED
      BY <1>s, <3>3
  <2>4. /\ s \in Strings /\ ~Exists(cat.rows[s])
        /\ \A d \in Clients \ {c} : task[d].pc = "planned" => s \notin task[d].plan.touched
    BY <2>3 DEF Untaken, Unused
  <2> PICK public \in BOOLEAN : public = req.public
    BY <2>2
  <2> PICK x \in Contents : x = req.x
    BY <2>2
  <2>5. /\ r \in FullRows /\ r.mod = x.mod /\ PubMod(r) \in {x.mod, None}
        /\ public => r.pub # None
        /\ ~public => r.status # "public"
    <3>1. r = IF public THEN Promoted(Draft(x)) ELSE Draft(x)
      BY <1>r
    <3> QED
      BY <3>1, CreatedRow
  <2>6. Open(c, x.mod) /\ (public => Alone(c, Publication))
    <3>1. Share(x.mod) \in items /\ (public => Publication \in items)
      BY <1>i
    <3> QED
      BY <1>1, <3>1, FreeIs
  <2>7. /\ new \in Catalogs /\ new.mods = cat.mods
        /\ \A t \in Strings : new.rows[t] = IF t = s THEN r ELSE cat.rows[t]
    <3>1. r \in Rows /\ cat \in Catalogs
      BY <2>5, RowKinds, Parts
    <3> QED
      BY <2>4, <3>1, OneRow
  <2>8. /\ r.mod \notin {cat.rows[s].mod, None} => Open(c, r.mod)
        /\ PubMod(r) \notin {PubMod(cat.rows[s]), None} => Open(c, PubMod(r))
        /\ \A m \in {r.mod, PubMod(r)} \ {None} : cat.mods[m] # None
    BY <1>3, <2>5, <2>6
  <2>9. public => Alone(c, Publication) /\ KeysPublic(setting.modular, new) /\ r.pub # None
    BY <1>3, <2>5, <2>6
  <2>10. ~public /\ r.status = "public" =>
            /\ Exists(cat.rows[s]) /\ r.deleted = cat.rows[s].deleted
            /\ cat.rows[s].status = "public" /\ r.pub = cat.rows[s].pub
    BY <2>5
  <2>11. Lawful(c, new) /\ ModulesKept(new) /\ SlugsUnique(new) /\ Snapshots(new) /\ Apart(new.rows)
    <3>1. r \in FullRows
      BY <2>5
    <3>2. IF Exists(cat.rows[s]) THEN Alone(c, Entry(s))
          ELSE \A d \in Clients \ {c} : task[d].pc = "planned" => s \notin task[d].plan.touched
      BY <2>4
    <3> QED
      BY <2>4, <2>7, <2>8, <2>9, <2>10, <3>1, <3>2, OneString
  <2> QED
    BY <1>3, <2>11, CommitStep
<1> QED
  BY <1>1, <1>2, <1>3

\* A module gets a slug that none has, while nobody else is about either.
LEMMA NamedStep ==
    ASSUME IInv, NEW c \in Clients, NEW m \in Modules, NEW slug \in Slugs,
           Alone(c, Whole(m)), Alone(c, Slug(slug)), ModuleIds(cat, slug) = {},
           NEW new, new = [cat EXCEPT !.mods[m] = slug], Commit(c, new)
    PROVE  IInv'
<1>1. Grounded /\ cat \in Catalogs
  BY Parts
<1> PICK mods : mods = [cat.mods EXCEPT ![m] = slug]
  OBVIOUS
<1>2. /\ mods \in [Modules -> Slugs \cup {None}]
      /\ \A i \in Modules : mods[i] = IF i = m THEN slug ELSE cat.mods[i]
  BY <1>1 DEF Catalogs
<1>3. new = [cat EXCEPT !.mods = mods]
  OBVIOUS
<1>4. new \in Catalogs /\ new.rows = cat.rows /\ new.mods = mods
  BY <1>1, <1>2, <1>3 DEF Catalogs
<1>5. slug # None /\ \A i \in Modules : cat.mods[i] # slug
  BY EngineAssumption, RowsAssumption DEF ModuleIds
<1>6. Lawful(c, new)
  <2>1. \A i \in Modules : new.mods[i] # cat.mods[i] => i = m /\ new.mods[i] = slug
    BY <1>2, <1>4
  <2> QED
    BY <1>4, <2>1 DEF Lawful, FacesKept
<1>7. ModulesKept(new)
  <2> SUFFICES ASSUME NEW s \in Strings, NEW i \in {cat.rows[s].mod, PubMod(cat.rows[s])} \ {None}
               PROVE  new.mods[i] # None
    BY <1>4 DEF ModulesKept
  <2>1. i \in Modules /\ cat.mods[i] # None
    BY <1>1, ModOf DEF Grounded, ModulesKept
  <2> QED
    BY <1>2, <1>4, <1>5, <2>1
<1>8. SlugsUnique(new)
  BY <1>1, <1>2, <1>4, <1>5 DEF Grounded, SlugsUnique
<1>9. Snapshots(new) /\ Apart(new.rows)
  BY <1>1, <1>4 DEF Grounded, Snapshots
<1> QED
  BY <1>6, <1>7, <1>8, <1>9, CommitStep

\* A module that an editor adds keeps the invariant.
LEMMA AddModuleStep ==
    ASSUME IInv, NEW c \in Clients, NEW req \in AllRequests, AddModule(c, req)
    PROVE  IInv'
<1>1. CASE Refuse(c)
  BY <1>1, RefuseStep
<1>2. CASE ~Refuse(c)
  <2>1. /\ req.kind = "module" /\ Free({Slug(req.slug)}) /\ ModuleIds(cat, req.slug) = {}
        /\ \E m \in ModuleIds(cat, None) :
              Free({Whole(m)}) /\ Commit(c, [cat EXCEPT !.mods[m] = req.slug])
    BY <1>2 DEF AddModule, Quick
  <2>2. PICK m \in ModuleIds(cat, None) :
              Free({Whole(m)}) /\ Commit(c, [cat EXCEPT !.mods[m] = req.slug])
    BY <2>1
  <2>3. req.slug \in Slugs
    BY <2>1, RequestKinds DEF ModuleRequests
  <2> PICK new : new = [cat EXCEPT !.mods[m] = req.slug]
    OBVIOUS
  <2> PICK slug : slug = req.slug
    OBVIOUS
  <2>4. Commit(c, new) /\ new = [cat EXCEPT !.mods[m] = slug] /\ m \in Modules /\ slug \in Slugs
    BY <2>2, <2>3 DEF ModuleIds
  <2>5. Alone(c, Whole(m)) /\ Alone(c, Slug(slug))
    BY <2>1, <2>2, FreeIs
  <2> QED
    BY <2>1, <2>4, <2>5, NamedStep
<1> QED
  BY <1>1, <1>2

\* A module that an editor renames keeps the invariant.
LEMMA RenameModuleStep ==
    ASSUME IInv, NEW c \in Clients, NEW req \in AllRequests, RenameModule(c, req)
    PROVE  IInv'
<1>1. CASE Refuse(c)
  BY <1>1, RefuseStep
<1>2. CASE ~Refuse(c)
  <2> PICK new : new = [cat EXCEPT !.mods[req.mod] = req.slug]
    OBVIOUS
  <2> PICK slug : slug = req.slug
    OBVIOUS
  <2> PICK m : m = req.mod
    OBVIOUS
  <2>1. /\ req.kind = "rename" /\ Free({Whole(m), Slug(slug)}) /\ ModuleIds(cat, slug) = {}
        /\ Commit(c, new) /\ new = [cat EXCEPT !.mods[m] = slug]
    BY <1>2 DEF RenameModule, Quick
  <2>2. slug \in Slugs /\ m \in Modules
    BY <2>1, RequestKinds DEF RenameRequests
  <2>3. Alone(c, Whole(m)) /\ Alone(c, Slug(slug))
    BY <2>1, FreeIs
  <2> QED
    BY <2>1, <2>2, <2>3, NamedStep
<1> QED
  BY <1>1, <1>2

-----------------------------------------------------------------------------
(* The invariant.                                                          *)

\* The invariant holds initially.
LEMMA InitSound == Init => IInv
<1> SUFFICES ASSUME Init
             PROVE  IInv
  OBVIOUS
<1>1. PICK u \in Setups :
         /\ cat = u.cat
         /\ setting = [modular |-> u.modular, duplicates |-> u.duplicates, scene |-> u.scene]
  BY DEF Init
<1>2. /\ KeysPublic(setting.modular, cat) /\ moved = FALSE
      /\ DOMAIN task = Clients /\ DOMAIN held = Clients /\ DOMAIN queue = Clients
      /\ held = [c \in Clients |-> held[c]] /\ queue = [c \in Clients |-> queue[c]]
      /\ \A c \in Clients : task[c] = Idle /\ held[c] = {} /\ queue[c] = <<>>
      /\ task = [c \in Clients |-> task[c]]
  BY DEF Init
<1>3. u \in [cat: Catalogs, modular: BOOLEAN, duplicates: BOOLEAN, scene: Scenes]
  BY EngineAssumption, RowsAssumption
<1>4. cat \in Catalogs /\ setting \in [modular: BOOLEAN, duplicates: BOOLEAN, scene: Scenes]
  BY <1>1, <1>3
<1>5. Idle \in Tasks /\ Idle.req = None /\ Idle.pc \in Pcs /\ Idle.tries \in 0..2
      /\ Idle.got = {} /\ Idle.view = None /\ ~(Idle.pc # "idle")
  <2> PICK pc : pc = "idle"
    OBVIOUS
  <2>1. pc \in Pcs
    BY DEF Pcs
  <2>2. Idle = [req |-> None, pc |-> pc, tries |-> 0, open |-> None, got |-> {}, view |-> None,
                plan |-> None]
    BY DEF Idle
  <2>3. Idle \in Tasks
    BY <2>1, <2>2 DEF Tasks
  <2>4. Idle.req = None /\ Idle.pc = pc /\ Idle.tries \in 0..2 /\ Idle.got = {} /\ Idle.view = None
    BY <2>2
  <2> QED
    BY <2>1, <2>3, <2>4
<1>6. Typed
  <2>1. TypeOK
    BY <1>2, <1>4, <1>5 DEF TypeOK
  <2>2. task \in [Clients -> Tasks]
    BY <1>2, <1>5
  <2>3. \A c \in Clients : queue[c] \in Seq(Awaited(c))
    <3>1. \A S : <<>> \in Seq(S)
      OBVIOUS
    <3> QED
      BY <1>2, <3>1
  <2> QED
    BY <1>2, <2>1, <2>2, <2>3 DEF Typed
<1>7. \A c \in Clients : Req(c) = None /\ task[c].pc = "idle" /\ held[c] = {} /\ queue[c] = <<>>
  BY <1>2, <1>5 DEF Req
<1>8. Exclusive /\ OneImport
  BY <1>7 DEF Exclusive, OneImport
<1>9. Grounded
  BY <1>1, <1>2, EngineAssumption, RowsAssumption, PublicApart DEF Grounded
<1>10. ASSUME NEW c \in Clients
       PROVE  Local(c)
  <2>1. Phase(c)
    BY <1>7 DEF Phase, ImportPcs, SavePcs, DeletePcs
  <2>2. Waits(c) /\ Holds(c)
    BY <1>7 DEF Waits, Holds
  <2>3. ImportFacts(c) /\ SaveFacts(c) /\ DeleteFacts(c)
    BY <1>7 DEF ImportFacts, SaveFacts, DeleteFacts, ImportPcs
  <2> QED
    BY <2>1, <2>2, <2>3 DEF Local
<1> QED
  BY <1>6, <1>8, <1>9, <1>10 DEF IInv

\* The invariant holds when nothing happens.
LEMMA StutterSound ==
    ASSUME IInv, UNCHANGED vars
    PROVE  IInv'
<1>1. /\ task' = task /\ held' = held /\ queue' = queue /\ cat' = cat
      /\ setting' = setting /\ moved' = moved
  BY DEF vars
<1>2. Typed /\ Exclusive /\ OneImport /\ Grounded /\ \A d \in Clients : Local(d)
  BY DEF IInv
<1>3. Typed'
  <2>1. TypeOK'
    BY <1>1, <1>2 DEF Typed, TypeOK
  <2> QED
    BY <1>1, <1>2, <2>1 DEF Typed, Awaited
<1>4. Exclusive'
  BY <1>1, <1>2 DEF Exclusive, Conflict
<1>5. OneImport'
  BY <1>1, <1>2 DEF OneImport, Req
<1>6. Grounded'
  BY <1>1, <1>2 DEF Grounded, ModulesKept, SlugsUnique, Snapshots, Apart
\* Nobody at all has done something lawful.
<1> PICK c : c = {d \in Clients : d \notin d}
  OBVIOUS
<1>7. c \notin Clients
  OBVIOUS
<1>8. Lawful(c, cat)
  BY <1>2, NothingIsLawful DEF Typed, TypeOK
<1>9. ASSUME NEW d \in Clients
      PROVE  Local(d)'
  BY <1>1, <1>2, <1>7, <1>8, Steady
<1> QED
  BY <1>3, <1>4, <1>5, <1>6, <1>9 DEF IInv

\* Every step keeps the invariant.
LEMMA NextSound == IInv /\ [Next]_vars => IInv'
<1> SUFFICES ASSUME IInv, [Next]_vars
             PROVE  IInv'
  OBVIOUS
<1>1. ASSUME NEW c \in Clients, NEW req \in Requests[setting.scene][c], Starting(c, req)
      PROVE  IInv'
  <2>1. req \in AllRequests
    BY <1>1, RequestedBy
  <2>2. CASE req.kind \in {"import", "save", "delete"} /\ Begin(c, req)
    BY <1>1, <2>2, BeginStep
  <2>3. CASE CreateString(c, req)
    BY <2>1, <2>3, CreateStringStep
  <2>4. CASE AddModule(c, req)
    BY <2>1, <2>4, AddModuleStep
  <2>5. CASE RenameModule(c, req)
    BY <2>1, <2>5, RenameModuleStep
  <2> QED
    BY <1>1, <2>2, <2>3, <2>4, <2>5 DEF Starting
<1>2. ASSUME NEW c \in Clients, Working(c)
      PROVE  IInv'
  <2>1. CASE Acquire(c) \/ Victim(c)
    BY <2>1, AcquireStep, VictimStep
  <2>2. CASE ImportModules(c) \/ ImportEntries(c) \/ ImportRead(c) \/ ImportCheck(c)
    BY <2>2, ImportModulesStep, ImportEntriesStep, ImportReadStep, ImportCheckStep
  <2>3. CASE ImportCreate(c) \/ ImportPlan(c) \/ ImportWrite(c)
    BY <2>3, ImportCreateStep, ImportPlanStep, ImportWriteStep
  <2>4. CASE SaveEntry(c) \/ SaveEdit(c) \/ SaveFlush(c)
    BY <2>4, SaveEntryStep, SaveEditStep, SaveFlushStep
  <2>5. CASE DeleteModule(c) \/ DeleteCheck(c) \/ DeleteRefs(c) \/ DeleteDrop(c)
    BY <2>5, DeleteModuleStep, DeleteCheckStep, DeleteRefsStep, DeleteDropStep
  <2> QED
    BY <1>2, <2>1, <2>2, <2>3, <2>4, <2>5 DEF Working
<1>3. CASE UNCHANGED vars
  BY <1>3, StutterSound
<1> QED
  BY <1>1, <1>2, <1>3 DEF Next

\* The invariant always holds.
LEMMA InvariantHolds == Spec => []IInv
<1> QED
  BY InitSound, NextSound, PTL DEF Spec

\* What the rows refer to, apart by ids, is apart by slugs.
LEMMA SoundNow == IInv => EngineSound
<1> SUFFICES ASSUME IInv
             PROVE  EngineSound
  OBVIOUS
<1>1. Typed /\ Grounded
  BY DEF IInv
<1>2. TypeOK /\ cat \in Catalogs
  BY <1>1 DEF Typed, TypeOK
<1>3. ModulesExist
  BY <1>1 DEF Grounded, ModulesExist
<1>4. ExportUnambiguous
  <2> SUFFICES ASSUME NEW s \in Strings, NEW t \in Strings,
                      Exported(cat.rows[s]), Exported(cat.rows[t]),
                      ExportIdentity(setting.modular, cat, s)
                        = ExportIdentity(setting.modular, cat, t)
               PROVE  s = t
    BY DEF ExportUnambiguous, KeysPublic
  <2> PICK i : i = PubMod(cat.rows[s])
    OBVIOUS
  <2> PICK j : j = PubMod(cat.rows[t])
    OBVIOUS
  <2>1. /\ PubKey(cat.rows[s]) = PubKey(cat.rows[t])
        /\ setting.modular => SlugOf(cat, i) = SlugOf(cat, j)
    BY DEF ExportIdentity
  <2>2. /\ i \in Modules \cup {None} /\ j \in Modules \cup {None}
        /\ i # None => cat.mods[i] # None
        /\ j # None => cat.mods[j] # None
    BY <1>1, <1>2, ModOf DEF Grounded, ModulesKept
  <2>3. setting.modular => i = j
    BY <1>1, <2>1, <2>2 DEF SlugOf, Grounded, SlugsUnique
  <2> QED
    BY <1>1, <2>1, <2>3 DEF Grounded, Apart
<1> QED
  BY <1>2, <1>3, <1>4 DEF EngineSound

\* However imports, saves and deletions overlap, references and export keys are sound.
THEOREM EngineStaysSound == Spec => []EngineSound
<1> QED
  BY InvariantHolds, SoundNow, PTL

-----------------------------------------------------------------------------
(* Nobody overwrites what he has not seen.                                 *)

\* What an import writes was as it had read it, and becomes what it planned.
LEMMA ImportInformed ==
    ASSUME IInv, NEW c \in Clients, ImportWrite(c), cat' # cat, NEW s \in task[c].plan.touched
    PROVE  cat.rows[s] = task[c].view.rows[s] /\ cat'.rows[s] = task[c].plan.cat.rows[s]
<1> PICK view : view = task[c].view
  OBVIOUS
<1> PICK plan : plan = task[c].plan
  OBVIOUS
<1> PICK part : part = Written(c)
  OBVIOUS
<1>1. At(c, "import", "planned")
  BY DEF ImportWrite
<1>2. \E mods : cat' = [part EXCEPT !.mods = mods]
  BY DEF ImportWrite, Commit, Refuse
<1>3. PICK mods : cat' = [part EXCEPT !.mods = mods]
  BY <1>2
<1>4. task[c].pc = "planned" /\ Req(c) # None /\ Req(c) \in AllRequests /\ Req(c).kind = "import"
  BY <1>1, Ready
<1>5. ImportFacts(c) /\ cat \in Catalogs /\ task[c] \in Tasks
  BY Parts DEF Local
<1>6. Viewed(c, view) /\ PlanStands(c, view, plan)
  BY <1>4, <1>5 DEF ImportFacts
<1>7. view \in Catalogs /\ \A t \in plan.touched : t \in Strings /\ cat.rows[t] = view.rows[t]
  BY <1>6 DEF Viewed, PlanStands
<1>8. plan # None => plan.cat.rows \in [Strings -> Rows]
  BY <1>5 DEF Tasks, Works, Catalogs
<1>9. plan \in ImportPlans
  <2>1. Req(c) \in ImportRequests
    BY <1>4, RequestKinds
  <2>2. setting.duplicates \in BOOLEAN
    BY Parts DEF Typed, TypeOK
  <2>3. Plans(c) \in PlanOptions /\ File(c) \in Seq(ImportRows)
    BY <2>1, <2>2 DEF ImportRequests, Plans, PlanOptions, File
  <2>4. NewSlugs(view, File(c)) = {} /\ plan = Plan(Plans(c), view, File(c))
    BY <1>4, <1>5, <1>6 DEF ImportFacts, Inserted, PlanStands
  <2> QED
    BY <1>7, <2>3, <2>4, PlanFacts
<1>10. plan.cat.rows \in [Strings -> Rows]
  BY <1>9 DEF ImportPlans, Catalogs
<1>11. PICK rows \in [Strings -> Rows] :
          /\ part = [cat EXCEPT !.rows = rows]
          /\ \A t \in Strings :
                rows[t] = IF t \in plan.touched THEN plan.cat.rows[t] ELSE cat.rows[t]
  <2>1. \E rows \in [Strings -> Rows] :
          /\ Written(c) = [cat EXCEPT !.rows = rows]
          /\ \A t \in Strings :
                rows[t] = IF t \in plan.touched THEN plan.cat.rows[t] ELSE cat.rows[t]
    BY <1>5, <1>7, <1>10, WrittenRows
  <2> QED
    BY <2>1
<1>12. cat'.rows = rows
  <2>1. part \in Catalogs /\ part.rows = rows
    BY <1>5, <1>11 DEF Catalogs
  <2> QED
    BY <1>3, <2>1 DEF Catalogs
<1> QED
  BY <1>7, <1>11, <1>12

\* What a guarded save changes was as its editor saw it.
LEMMA SaveInformed ==
    ASSUME IInv, NEW c \in Clients, SaveFlush(c), Req(c).checked,
           NEW f \in {"key", "mod", "text", "status", "deleted"},
           cat'.rows[Req(c).s][f] # cat.rows[Req(c).s][f]
    PROVE  cat.rows[Req(c).s][f] = task[c].open[f]
<1> PICK req : req = Req(c)
  OBVIOUS
<1> PICK s : s = req.s
  OBVIOUS
<1> PICK r : r = cat.rows[s]
  OBVIOUS
<1> PICK e : e = After(req, r)
  OBVIOUS
<1> PICK open : open = task[c].open
  OBVIOUS
<1> PICK new : new = Written(c)
  OBVIOUS
<1>1. At(c, "save", "flush") /\ (cat' = cat \/ cat' = new)
  BY DEF SaveFlush, Commit, Refuse
<1>2. /\ req \in SaveRequests /\ s \in Strings /\ r \in FullRows
      /\ SaveStands(c, req, task[c].view)
      /\ \A t \in Strings : new.rows[t] = IF t = s THEN e ELSE cat.rows[t]
  BY <1>1, Flushed
<1>3. cat'.rows[s] = e
  BY <1>1, <1>2
<1>4. ~Stale(req, open, r)
  BY <1>2 DEF SaveStands
<1> PICK d : d = Edited(req, r)
  OBVIOUS
<1>5. /\ d.key = IF req.key = None THEN r.key ELSE req.key
      /\ d.mod = IF req.move THEN req.mod ELSE r.mod
      /\ d.text = IF req.text = None THEN r.text ELSE req.text
      /\ d.status = r.status /\ d.deleted = r.deleted /\ DOMAIN d = DOMAIN r
  BY <1>2 DEF Edited, FullRows
<1>6. /\ e.key = d.key /\ e.mod = d.mod /\ e.text = d.text /\ e.deleted = d.deleted
      /\ e.status = IF req.public THEN "public" ELSE d.status
  <2>1. /\ d = [r EXCEPT !.key = d.key, !.mod = d.mod, !.text = d.text]
    BY <1>2, <1>5 DEF Edited
  <2>2. CASE req.public
    <3>1. e = [d EXCEPT !.pub = Content(d), !.status = "public", !.pending = FALSE]
      BY <2>2 DEF After, Promoted
    <3> QED
      BY <1>2, <1>5, <2>2, <3>1 DEF FullRows
  <2>3. CASE ~req.public
    BY <2>3 DEF After
  <2> QED
    BY <2>2, <2>3
<1>7. r[f] = open[f]
  <2>1. CASE f = "key"
    BY <1>3, <1>4, <1>5, <1>6, <2>1 DEF Stale
  <2>2. CASE f = "mod"
    BY <1>3, <1>4, <1>5, <1>6, <2>2 DEF Stale
  <2>3. CASE f = "text"
    BY <1>3, <1>4, <1>5, <1>6, <2>3 DEF Stale
  <2>4. CASE f = "status"
    BY <1>3, <1>4, <1>5, <1>6, <2>4 DEF Stale
  <2>5. CASE f = "deleted"
    BY <1>3, <1>5, <1>6, <2>5
  <2> QED
    BY <2>1, <2>2, <2>3, <2>4, <2>5
<1> QED
  BY <1>7

\* Nobody overwrites what he has not seen.
THEOREM WritesStayInformed == Spec => WritesAreInformed
<1> DEFINE Kept ==
       \A c \in Clients :
          /\ ImportWrite(c) /\ cat' # cat =>
                \A s \in task[c].plan.touched :
                    /\ cat.rows[s] = task[c].view.rows[s]
                    /\ cat'.rows[s] = task[c].plan.cat.rows[s]
          /\ SaveFlush(c) /\ Req(c).checked =>
                LET s == Req(c).s
                IN  \A f \in {"key", "mod", "text", "status", "deleted"} :
                        cat'.rows[s][f] # cat.rows[s][f] =>
                            cat.rows[s][f] = task[c].open[f]
<1>1. IInv => Kept
  <2> SUFFICES ASSUME IInv, NEW c \in Clients
               PROVE  /\ ImportWrite(c) /\ cat' # cat =>
                            \A s \in task[c].plan.touched :
                                /\ cat.rows[s] = task[c].view.rows[s]
                                /\ cat'.rows[s] = task[c].plan.cat.rows[s]
                      /\ SaveFlush(c) /\ Req(c).checked =>
                            \A f \in {"key", "mod", "text", "status", "deleted"} :
                                cat'.rows[Req(c).s][f] # cat.rows[Req(c).s][f] =>
                                    cat.rows[Req(c).s][f] = task[c].open[f]
    OBVIOUS
  <2>1. ASSUME ImportWrite(c), cat' # cat, NEW s \in task[c].plan.touched
        PROVE  /\ cat.rows[s] = task[c].view.rows[s]
               /\ cat'.rows[s] = task[c].plan.cat.rows[s]
    BY <2>1, ImportInformed
  <2>2. ASSUME SaveFlush(c), Req(c).checked, NEW f \in {"key", "mod", "text", "status", "deleted"},
               cat'.rows[Req(c).s][f] # cat.rows[Req(c).s][f]
        PROVE  cat.rows[Req(c).s][f] = task[c].open[f]
    BY <2>2, SaveInformed
  <2> QED
    BY <2>1, <2>2
<1> HIDE DEF Kept
<1>2. Spec => [][Kept]_vars
  BY <1>1, InvariantHolds, PTL DEF Spec
<1> QED
  BY <1>2 DEF Kept, WritesAreInformed

-----------------------------------------------------------------------------
(* Deadlocks.                                                              *)

\* The modules that a string refers to.
Homes(s) == {cat.rows[s].mod, PubMod(cat.rows[s])} \ {None}

IsItem(i) ==
    \/ i = Publication \/ IsKey(i)
    \/ \E m \in Modules : i = Share(m) \/ i = Whole(m)
    \/ \E s \in Strings : i = Entry(s)
    \/ \E slug \in Slugs : i = Slug(slug)

\* Whoever waits for the first lock of his, or the one after the publication lock, has
\* no other that somebody waits for.
Few(c) ==
    /\ \A i \in held[c] : IsItem(i)
    /\ task[c].pc = "begun" =>
          \/ queue[c] = <<>> /\ held[c] \subseteq {Publication}
          \/ queue[c] = <<Publication>> /\ held[c] = {}
    /\ task[c].pc = "entry" =>
          queue[c] = <<>> \/ (queue[c] = <<Entry(Req(c).s)>> /\ held[c] \subseteq {Publication})
    /\ task[c].pc = "module" =>
          \/ queue[c] = <<>> /\ held[c] \subseteq {Publication, Whole(Req(c).mod)}
          \/ queue[c] = <<Whole(Req(c).mod)>> /\ held[c] \subseteq {Publication}

\* An import locks the modules of the strings that it names, then those strings and no
\* others, and then inserts keys of its file.
Follows(c) ==
    task[c].pc \in ImportPcs =>
        /\ \A s \in Affected(c, cat) : \A m \in Homes(s) : Share(m) \in Claims(c)
        /\ task[c].pc # "modules" => \A s \in Affected(c, cat) : Entry(s) \in Claims(c)
        /\ \A s \in Strings :
              Entry(s) \in Claims(c) => s \in Affected(c, cat) /\ task[c].pc # "modules"
        /\ \A i \in Claims(c) : IsKey(i) => KeyOf(i) \in FileKeys(c) /\ task[c].pc = "planned"

\* A deletion locks strings of its module only, and keys of those it has locked.
Clears(c) ==
    Clearing(c) =>
        /\ \A s \in Strings : Entry(s) \in Claims(c) => Req(c).mod \in Homes(s)
        /\ \A i \in Claims(c) : IsKey(i) =>
              \E s \in Strings : Entry(s) \in held[c] /\ cat.rows[s].key = KeyOf(i)

Order(c) == Few(c) /\ (moved \/ (Follows(c) /\ Clears(c)))

\* No save waits for a module that an import inserts.
Unclaimed ==
    \A c, d \in Clients, m \in Modules :
        Importing(c) /\ Whole(m) \in held[c] /\ task[d].pc = "flush" => Share(m) \notin Awaited(d)

Ordered == Unclaimed /\ \A c \in Clients : Order(c)

-----------------------------------------------------------------------------
\* The kinds of locks, and what they conflict with.
LEMMA Tags ==
    /\ Publication[1] = "publication" /\ ~IsKey(Publication)
    /\ \A m : Share(m)[1] = "share" /\ Share(m)[2] = m /\ ~IsKey(Share(m))
    /\ \A m : Whole(m)[1] = "module" /\ Whole(m)[2] = m /\ ~IsKey(Whole(m))
    /\ \A s : Entry(s)[1] = "string" /\ Entry(s)[2] = s /\ ~IsKey(Entry(s))
    /\ \A x : Slug(x)[1] = "slug" /\ ~IsKey(Slug(x))
    /\ \A i, j : Conflict(i, j) /\ i[1] \notin {"share", "module"} => i = j
    /\ \A m, j : Conflict(Share(m), j) => j[1] = "module" /\ j[2] = m
    /\ \A r : IsKey(Key(r)) /\ KeyOf(Key(r)) = r.key
  BY DEF Publication, Share, Whole, Entry, Slug, IsKey, KeyOf, Conflict, Key, KeyIdentity

\* The rows in use are those with a key.
LEMMA KeyExists ==
    ASSUME NEW r \in Rows
    PROVE  Exists(r) <=> r.key # None
<1>1. NoRow.key = None
  BY DEF NoRow
<1>2. \A x \in FullRows : x.key \in Keys
  BY DEF FullRows
<1> QED
  BY <1>1, <1>2, RowKinds, EngineAssumption, RowsAssumption

\* Nobody but c acts.
Others(c) ==
    /\ setting' = setting
    /\ \A d \in Clients \ {c} : task'[d] = task[d] /\ held'[d] = held[d] /\ queue'[d] = queue[d]

SamePlace(s) ==
    /\ cat'.rows[s].key = cat.rows[s].key
    /\ cat'.rows[s].mod = cat.rows[s].mod
    /\ PubMod(cat'.rows[s]) = PubMod(cat.rows[s])

\* What c commits moves no string in the middle of something, or is on record.
Calm(c) ==
    /\ moved => moved'
    /\ \/ moved'
       \/ \A d \in Clients \ {c} : Importing(d) \/ Clearing(d) => \A s \in Strings : SamePlace(s)

\* What one client does keeps the order of the locks of the others.
LEMMA OthersKeep ==
    ASSUME IInv, IInv', Ordered, NEW c \in Clients, Others(c), Calm(c), Unclaimed', Order(c)'
    PROVE  Ordered'
<1> SUFFICES ASSUME NEW d \in Clients, d # c
             PROVE  Order(d)'
  BY DEF Ordered
<1>1. /\ task'[d] = task[d] /\ held'[d] = held[d] /\ queue'[d] = queue[d] /\ setting' = setting
      /\ Order(d)
  BY DEF Others, Ordered
<1>2. Req(d)' = Req(d) /\ Claims(d)' = Claims(d) /\ FileKeys(d)' = FileKeys(d)
  BY <1>1 DEF Req, Claims, Awaited, FileKeys, File
<1>3. Few(d)'
  BY <1>1, <1>2 DEF Order, Few, IsItem, IsKey, Publication, Share, Whole, Entry, Slug
<1>4. CASE moved'
  BY <1>3, <1>4 DEF Order
<1>5. CASE ~moved'
  <2>1. ~moved /\ (Importing(d) \/ Clearing(d) => \A s \in Strings : SamePlace(s))
    BY <1>5 DEF Calm
  <2>2. cat \in Catalogs /\ cat' \in Catalogs
    BY DEF IInv, Typed, TypeOK
  <2>3. \A s \in Strings : SamePlace(s) =>
           Homes(s)' = Homes(s) /\ (Exists(cat'.rows[s]) <=> Exists(cat.rows[s]))
    <3> SUFFICES ASSUME NEW s \in Strings, SamePlace(s)
                 PROVE  Homes(s)' = Homes(s) /\ (Exists(cat'.rows[s]) <=> Exists(cat.rows[s]))
      OBVIOUS
    <3>1. cat.rows[s] \in Rows /\ cat'.rows[s] \in Rows
      BY <2>2 DEF Catalogs
    <3> QED
      BY <3>1, KeyExists DEF SamePlace, Homes
  <2>4. Follows(d)'
    <3> SUFFICES ASSUME task[d].pc \in ImportPcs
                 PROVE  Follows(d)'
      BY <1>1 DEF Follows
    <3>1. Follows(d) /\ \A s \in Strings : SamePlace(s)
      BY <1>1, <2>1 DEF Order, Importing, ImportPcs
    <3>2. Affected(d, cat)' = Affected(d, cat)
      BY <1>2, <2>3, <3>1 DEF Affected, SamePlace
    <3> QED
      BY <1>1, <1>2, <2>3, <3>1, <3>2 DEF Follows, Share, Entry, IsKey, Affected
  <2>5. Clears(d)'
    <3> SUFFICES ASSUME Clearing(d)
                 PROVE  Clears(d)'
      BY <1>1 DEF Clears, Clearing
    <3>1. Clears(d) /\ \A s \in Strings : SamePlace(s)
      BY <1>1, <2>1 DEF Order
    <3> QED
      BY <1>1, <1>2, <2>3, <3>1 DEF Clears, Entry, IsKey, SamePlace
  <2> QED
    BY <1>3, <2>4, <2>5 DEF Order
<1> QED
  BY <1>4, <1>5

\* Nobody begins to wait for modules when no save and no insertion begins.
LEMMA UnclaimedStays ==
    ASSUME Ordered, NEW c \in Clients, Others(c),
           \A m \in Modules : Importing(c)' /\ Whole(m) \in held'[c] =>
               Importing(c) /\ Whole(m) \in held[c],
           task'[c].pc = "flush" => task[c].pc = "flush" /\ Awaited(c)' \subseteq Awaited(c)
    PROVE  Unclaimed'
<1> SUFFICES ASSUME NEW a \in Clients, NEW d \in Clients, NEW m \in Modules,
                    Importing(a)', Whole(m) \in held'[a], task'[d].pc = "flush",
                    Share(m) \in Awaited(d)'
             PROVE  FALSE
  BY DEF Unclaimed, Whole, Share
<1>1. Importing(a) /\ Whole(m) \in held[a]
  BY DEF Others, Importing
<1>2. task[d].pc = "flush" /\ Share(m) \in Awaited(d)
  BY DEF Others, Awaited
<1> QED
  BY <1>1, <1>2 DEF Ordered, Unclaimed

\* A commit that moves strings in the middle of something is on record.
LEMMA CommitCalm ==
    ASSUME IInv, NEW c \in Clients, NEW new, Commit(c, new)
    PROVE  Calm(c) /\ End(c)
<1>1. /\ cat' = new /\ End(c)
      /\ moved' = (moved \/ /\ \E d \in Clients \ {c} : Importing(d) \/ Clearing(d)
                            /\ \E s \in Strings :
                                  \/ new.rows[s].key # cat.rows[s].key
                                  \/ new.rows[s].mod # cat.rows[s].mod
                                  \/ PubMod(new.rows[s]) # PubMod(cat.rows[s]))
  BY DEF Commit
<1> QED
  BY <1>1 DEF Calm, SamePlace

\* Who changes no string moves none.
LEMMA QuietCalm ==
    ASSUME NEW c, cat' = cat, moved' = moved
    PROVE  Calm(c)
  BY DEF Calm, SamePlace

\* An action on the record, locks and queue of one client.
LEMMA OthersOf ==
    ASSUME IInv, NEW c \in Clients, NEW t, NEW h, NEW q,
           task' = [task EXCEPT ![c] = t], held' = [held EXCEPT ![c] = h],
           queue' = [queue EXCEPT ![c] = q], setting' = setting
    PROVE  Others(c) /\ task'[c] = t /\ held'[c] = h /\ queue'[c] = q
<1>1. DOMAIN task = Clients /\ DOMAIN held = Clients /\ DOMAIN queue = Clients
  BY Parts
<1> QED
  BY <1>1 DEF Others

\* A transaction that ends keeps the order of the locks.
LEMMA EndOrder ==
    ASSUME IInv, IInv', Ordered, NEW c \in Clients, End(c), Calm(c)
    PROVE  Ordered'
<1> PICK t : t = [Idle EXCEPT !.pc = "done"]
  OBVIOUS
<1>1. /\ task' = [task EXCEPT ![c] = t] /\ held' = [held EXCEPT ![c] = {}]
      /\ queue' = [queue EXCEPT ![c] = <<>>] /\ setting' = setting
  BY DEF End
<1>2. Others(c) /\ task'[c] = t /\ held'[c] = {} /\ queue'[c] = <<>>
  BY <1>1, OthersOf
<1>3. task'[c].pc = "done"
  BY <1>2 DEF Idle
<1>4. Unclaimed'
  BY <1>2, <1>3, UnclaimedStays DEF Importing
<1>5. Order(c)'
  BY <1>2, <1>3 DEF Order, Few, Follows, Clears, Clearing, ImportPcs
<1> QED
  BY <1>2, <1>4, <1>5, OthersKeep

\* A rollback keeps the order of the locks.
LEMMA RefuseOrder ==
    ASSUME IInv, IInv', Ordered, NEW c \in Clients, Refuse(c)
    PROVE  Ordered'
  BY QuietCalm, EndOrder DEF Refuse

\* A commit keeps the order of the locks.
LEMMA CommitOrder ==
    ASSUME IInv, IInv', Ordered, NEW c \in Clients, NEW new, Commit(c, new)
    PROVE  Ordered'
  BY CommitCalm, EndOrder

\* A request that begins, or is replayed, keeps the order of the locks.
LEMMA BegunOrder ==
    ASSUME IInv, IInv', Ordered, NEW c \in Clients, NEW req, NEW tries, NEW open,
           Begun(c, req, tries, open), held' = [held EXCEPT ![c] = {}],
           cat' = cat, setting' = setting, moved' = moved
    PROVE  Ordered'
<1> PICK t : t = Opened(req, tries, open)
  OBVIOUS
<1> PICK q : q = Unless(~req.public, Publication)
  OBVIOUS
<1>1. task' = [task EXCEPT ![c] = t] /\ queue' = [queue EXCEPT ![c] = q]
  BY DEF Begun, Opened
<1>2. Others(c) /\ task'[c] = t /\ held'[c] = {} /\ queue'[c] = q
  BY <1>1, OthersOf
<1>3. task'[c].pc = "begun"
  BY <1>2 DEF Opened, Idle
<1>4. q = <<>> \/ q = <<Publication>>
  BY DEF Unless
<1>5. Unclaimed'
  BY <1>2, <1>3, UnclaimedStays DEF Importing
<1>6. Order(c)'
  <2>1. Few(c)'
    BY <1>2, <1>3, <1>4 DEF Few, Publication
  <2> QED
    BY <1>3, <2>1 DEF Order, Follows, Clears, Clearing, ImportPcs
<1> QED
  BY <1>2, <1>5, <1>6, QuietCalm, OthersKeep

\* A request that is sent keeps the order of the locks.
LEMMA BeginOrder ==
    ASSUME IInv, IInv', Ordered, NEW c \in Clients, NEW req, Begin(c, req)
    PROVE  Ordered'
<1> PICK open : open = IF req.kind = "save" THEN cat.rows[req.s] ELSE None
  OBVIOUS
<1>1. /\ task[c].pc = "idle" /\ Begun(c, req, 1, open)
      /\ cat' = cat /\ setting' = setting /\ moved' = moved /\ held' = held
  BY DEF Begin
<1>2. held[c] = {}
  BY <1>1, Parts DEF Local, Phase
<1>3. held' = [held EXCEPT ![c] = {}]
  BY <1>1, <1>2, Parts
<1> QED
  BY <1>1, <1>3, BegunOrder

\* The victim of a deadlock keeps the order of the locks.
LEMMA VictimOrder ==
    ASSUME IInv, IInv', Ordered, NEW c \in Clients, Victim(c)
    PROVE  Ordered'
<1>1. \/ Refuse(c)
      \/ /\ Begun(c, Req(c), 2, task[c].open) /\ held' = [held EXCEPT ![c] = {}]
         /\ cat' = cat /\ setting' = setting /\ moved' = moved
  BY DEF Victim
<1> QED
  BY <1>1, RefuseOrder, BegunOrder

\* A statement that only locks.
LEMMA StatementOrder ==
    ASSUME IInv, IInv', Ordered, NEW c \in Clients, NEW pc \in Pcs, NEW locks,
           Statement(c, pc, locks), pc # "flush", Importing(c)' => Importing(c) \/ held[c] \subseteq {Publication},
           Order(c)'
    PROVE  Ordered'
<1>1. /\ task' = [task EXCEPT ![c].pc = pc] /\ held' = [held EXCEPT ![c] = held[c]]
      /\ queue' = [queue EXCEPT ![c] = locks]
      /\ setting' = setting /\ cat' = cat /\ moved' = moved
  BY Parts DEF Statement
<1> PICK t : t = [task[c] EXCEPT !.pc = pc]
  OBVIOUS
<1>2. task' = [task EXCEPT ![c] = t]
  BY <1>1
<1>3. Others(c) /\ task'[c] = t /\ held'[c] = held[c]
  BY <1>1, <1>2, OthersOf
<1>4. task'[c].pc = pc
  BY <1>3, Parts DEF Tasks
<1>5. Unclaimed'
  <2>1. \A m : Whole(m) # Publication
    BY DEF Whole, Publication
  <2>2. \A m \in Modules : Importing(c)' /\ Whole(m) \in held'[c] =>
            Importing(c) /\ Whole(m) \in held[c]
    BY <1>3, <2>1
  <2> QED
    BY <1>3, <1>4, <2>2, UnclaimedStays
<1> QED
  BY <1>1, <1>3, <1>5, QuietCalm, OthersKeep

\* A save that locks its string keeps the order of the locks.
LEMMA SaveEntryOrder ==
    ASSUME IInv, IInv', Ordered, NEW c \in Clients, SaveEntry(c)
    PROVE  Ordered'
<1> PICK locks : locks = <<Entry(Req(c).s)>>
  OBVIOUS
<1>1. At(c, "save", "begun") /\ Statement(c, "entry", locks) /\ "entry" \in Pcs
  BY DEF SaveEntry, Pcs
<1>2. task'[c].pc = "entry" /\ queue'[c] = locks /\ held'[c] = held[c] /\ Req(c)' = Req(c)
  BY <1>1, StatementLeaves
<1>3. Few(c) /\ held[c] \subseteq {Publication}
  BY <1>1 DEF Ordered, Order, Few, At
<1>4. Few(c)'
  BY <1>2, <1>3 DEF Few, IsItem, Entry, Publication
<1>5. Order(c)' /\ ~Importing(c)'
  BY <1>2, <1>4 DEF Order, Follows, Clears, Clearing, ImportPcs, Importing
<1> QED
  BY <1>1, <1>5, StatementOrder

\* A deletion that locks its module keeps the order of the locks.
LEMMA DeleteModuleOrder ==
    ASSUME IInv, IInv', Ordered, NEW c \in Clients, DeleteModule(c)
    PROVE  Ordered'
<1> PICK locks : locks = <<Whole(Req(c).mod)>>
  OBVIOUS
<1>1. At(c, "delete", "begun") /\ Statement(c, "module", locks) /\ "module" \in Pcs
  BY DEF DeleteModule, Pcs
<1>2. task'[c].pc = "module" /\ queue'[c] = locks /\ held'[c] = held[c] /\ Req(c)' = Req(c)
  BY <1>1, StatementLeaves
<1>3. Few(c) /\ held[c] \subseteq {Publication}
  BY <1>1 DEF Ordered, Order, Few, At
<1>4. Few(c)'
  BY <1>2, <1>3 DEF Few, IsItem, Whole, Publication
<1>5. Order(c)' /\ ~Importing(c)'
  BY <1>2, <1>4 DEF Order, Follows, Clears, Clearing, ImportPcs, Importing
<1> QED
  BY <1>1, <1>5, StatementOrder

\* An import locks the modules of all strings that it names.
LEMMA ImportModulesOrder ==
    ASSUME IInv, IInv', Ordered, NEW c \in Clients, ImportModules(c)
    PROVE  Ordered'
<1> PICK locks : locks = Locks(Share, InOrder(Referenced(c, cat)))
  OBVIOUS
<1>1. At(c, "import", "begun") /\ Statement(c, "modules", locks) /\ "modules" \in Pcs
  BY DEF ImportModules, Pcs
<1>2. ToSet(locks) = {Share(m) : m \in Referenced(c, cat)}
  BY ShareLocks DEF Referenced
<1>3. /\ task'[c].pc = "modules" /\ queue'[c] = locks /\ held'[c] = held[c] /\ Req(c)' = Req(c)
      /\ Awaited(c)' = ToSet(locks) /\ cat' = cat /\ setting' = setting
      /\ \A view : Affected(c, view)' = Affected(c, view)
  BY <1>1, StatementLeaves
<1>4. Few(c) /\ held[c] \subseteq {Publication}
  BY <1>1 DEF Ordered, Order, Few, At
<1>5. Few(c)'
  BY <1>3, <1>4 DEF Few, IsItem, Publication
<1>6. Claims(c)' = held[c] \cup {Share(m) : m \in Referenced(c, cat)}
  BY <1>2, <1>3 DEF Claims
<1>7. Follows(c)'
  <2>1. \A s \in Affected(c, cat) : \A m \in Homes(s) : m \in Referenced(c, cat)
    <3> SUFFICES ASSUME NEW s \in Affected(c, cat), NEW m \in Homes(s)
                 PROVE  m \in Referenced(c, cat)
      OBVIOUS
    <3>1. s \in Strings /\ cat \in Catalogs /\ Grounded
      BY Parts DEF Affected
    <3>2. m \in Modules /\ cat.mods[m] # None
      BY <3>1, ModOf DEF Homes, Grounded, ModulesKept
    <3> QED
      BY <3>2 DEF Referenced, Homes
  <2>2. \A i \in Claims(c)' : i[1] # "string" /\ ~IsKey(i)
    BY <1>4, <1>6, Tags
  <2>3. \A s \in Affected(c, cat) : Homes(s)' = Homes(s)
    BY <1>3 DEF Homes
  <2>4. Affected(c, cat)' = Affected(c, cat)
    BY <1>3 DEF Affected, FileKeys, File
  <2>5. \A s \in Affected(c, cat) : \A m \in Homes(s) : Share(m) \in Claims(c)'
    BY <1>6, <2>1
  <2>6. \A s : Entry(s)[1] = "string"
    BY Tags
  <2> QED
    BY <1>3, <2>2, <2>3, <2>4, <2>5, <2>6 DEF Follows, Share, Entry, IsKey
<1>8. Order(c)'
  BY <1>3, <1>5, <1>7 DEF Order, Clears, Clearing
<1> QED
  BY <1>1, <1>4, <1>8, StatementOrder

\* An import locks all strings that it names, and no others.
LEMMA ImportEntriesOrder ==
    ASSUME IInv, IInv', Ordered, NEW c \in Clients, ImportEntries(c)
    PROVE  Ordered'
<1> PICK locks : locks = Locks(Entry, InOrder(Affected(c, cat)))
  OBVIOUS
<1>1. At(c, "import", "modules") /\ Statement(c, "entries", locks) /\ "entries" \in Pcs
  BY DEF ImportEntries, Pcs
<1>2. ToSet(locks) = {Entry(s) : s \in Affected(c, cat)}
  BY EntryLocks, Found DEF Affected
<1>3. /\ task'[c].pc = "entries" /\ queue'[c] = locks /\ held'[c] = held[c] /\ Req(c)' = Req(c)
      /\ Awaited(c)' = ToSet(locks) /\ cat' = cat /\ setting' = setting
      /\ \A view : Affected(c, view)' = Affected(c, view)
      /\ task[c].pc = "modules" /\ Claims(c) = held[c] /\ moved' = moved
  <2>1. task[c].pc = "modules" /\ Claims(c) = held[c]
    BY <1>1, Ready
  <2>2. moved' = moved
    BY <1>1 DEF Statement
  <2> QED
    BY <1>1, <2>1, <2>2, StatementLeaves
<1>4. Few(c) /\ (moved \/ Follows(c))
  BY <1>1 DEF Ordered, Order
<1>5. Few(c)'
  BY <1>3, <1>4 DEF Few, IsItem, Publication, IsKey, Share, Whole, Entry, Slug
<1>6. Claims(c)' = held[c] \cup {Entry(s) : s \in Affected(c, cat)}
  BY <1>2, <1>3 DEF Claims
<1>7. ASSUME ~moved
      PROVE  Follows(c)'
  <2>1. Follows(c) /\ task[c].pc \in ImportPcs
    BY <1>3, <1>4, <1>7 DEF ImportPcs
  <2>2. \A i \in Claims(c)' : ~IsKey(i)
    <3>1. \A i \in held[c] : ~IsKey(i)
      BY <1>3, <2>1 DEF Follows
    <3> QED
      BY <1>6, <3>1, Tags
  <2>3. \A s \in Affected(c, cat) : Homes(s)' = Homes(s)
    BY <1>3 DEF Homes
  <2>4. Affected(c, cat)' = Affected(c, cat)
    BY <1>3 DEF Affected, FileKeys, File
  <2>5. \A s \in Affected(c, cat) : \A m \in Homes(s) : Share(m) \in Claims(c)'
    BY <1>3, <1>6, <2>1 DEF Follows
  <2>6. \A s \in Strings : Entry(s) \in Claims(c)' => s \in Affected(c, cat)
    <3>1. \A s \in Strings : Entry(s) \notin held[c]
      BY <1>3, <2>1 DEF Follows
    <3>2. \A s, r : Entry(s) = Entry(r) => s = r
      BY DEF Entry
    <3> QED
      BY <1>6, <3>1, <3>2
  <2> QED
    BY <1>3, <1>6, <2>2, <2>3, <2>4, <2>5, <2>6 DEF Follows, Share, Entry, IsKey
<1>8. Order(c)'
  BY <1>3, <1>5, <1>7 DEF Order, Clears, Clearing
<1>9. Importing(c)
  BY <1>3 DEF Importing
<1> QED
  BY <1>1, <1>8, <1>9, StatementOrder

\* A deletion locks strings of its module only.
LEMMA DeleteCheckOrder ==
    ASSUME IInv, IInv', Ordered, NEW c \in Clients, DeleteCheck(c)
    PROVE  Ordered'
<1> DEFINE gone == Req(c).mod
           S == {s \in Strings : cat.rows[s].mod = gone}
<1>0. At(c, "delete", "module")
  BY DEF DeleteCheck
<1>1. CASE Refuse(c)
  BY <1>1, RefuseOrder
<1>2. CASE ~Refuse(c)
  <2>1. \E ids \in SetToSeqs(S) : Statement(c, "refs", Locks(Entry, ids))
    BY <1>2 DEF DeleteCheck
  <2>2. PICK ids \in SetToSeqs(S) : Statement(c, "refs", Locks(Entry, ids))
    BY <2>1
  <2> PICK locks : locks = Locks(Entry, ids)
    OBVIOUS
  <2>3. ToSet(locks) = {Entry(s) : s \in S}
    BY EntryLocks, Found
  <2>4. Statement(c, "refs", locks) /\ "refs" \in Pcs
    BY <2>2 DEF Pcs
  <2>5. /\ task'[c].pc = "refs" /\ Awaited(c)' = ToSet(locks) /\ held'[c] = held[c]
        /\ Req(c)' = Req(c) /\ cat' = cat
    BY <2>4, StatementLeaves
  <2>6. Few(c) /\ held[c] \subseteq {Publication, Whole(gone)}
    BY <1>0 DEF Ordered, Order, Few, At
  <2>7. Few(c)'
    BY <2>5, <2>6 DEF Few, IsItem, Publication, IsKey, Share, Whole, Entry, Slug
  <2>8. Claims(c)' = held[c] \cup {Entry(s) : s \in S}
    BY <2>3, <2>5 DEF Claims
  <2>9. Clears(c)'
    <3>1. \A i \in Claims(c)' : ~IsKey(i)
      BY <2>6, <2>8, Tags
    <3>2. gone # None
      <4>1. Req(c) # None /\ Req(c) \in AllRequests /\ Req(c).kind = "delete"
        BY <1>0, Ready
      <4> QED
        BY <4>1, RequestKinds, EngineAssumption, RowsAssumption DEF DeleteRequests
    <3>3. \A s \in Strings : Entry(s) \in Claims(c)' => gone \in Homes(s)
      <4>1. \A s : Entry(s) \notin held[c]
        BY <2>6 DEF Entry, Publication, Whole
      <4>2. \A s, r : Entry(s) = Entry(r) => s = r
        BY DEF Entry
      <4> QED
        BY <2>8, <3>2, <4>1, <4>2 DEF Homes
    <3>4. \A s : Homes(s)' = Homes(s)
      BY <2>5 DEF Homes
    <3> QED
      BY <2>5, <3>1, <3>3, <3>4 DEF Clears, Entry, IsKey
  <2>10. Order(c)' /\ ~Importing(c)'
    BY <2>5, <2>7, <2>9 DEF Order, Follows, ImportPcs, Importing
  <2> QED
    BY <2>4, <2>10, StatementOrder
<1> QED
  BY <1>1, <1>2

\* A deletion locks strings with snapshots in its module only.
LEMMA DeleteRefsOrder ==
    ASSUME IInv, IInv', Ordered, NEW c \in Clients, DeleteRefs(c)
    PROVE  Ordered'
<1> DEFINE gone == Req(c).mod
           S == {s \in Strings : PubMod(cat.rows[s]) = gone}
<1>1. /\ At(c, "delete", "refs")
      /\ \E ids \in SetToSeqs(S) : Statement(c, "published", Locks(Entry, ids))
  BY DEF DeleteRefs
<1>2. PICK ids \in SetToSeqs(S) : Statement(c, "published", Locks(Entry, ids))
  BY <1>1
<1> PICK locks : locks = Locks(Entry, ids)
  OBVIOUS
<1>3. ToSet(locks) = {Entry(s) : s \in S}
  BY EntryLocks, Found
<1>4. Statement(c, "published", locks) /\ "published" \in Pcs
  BY <1>2 DEF Pcs
<1>5. /\ task'[c].pc = "published" /\ Awaited(c)' = ToSet(locks) /\ held'[c] = held[c]
      /\ Req(c)' = Req(c) /\ cat' = cat
  BY <1>4, StatementLeaves
<1>6. task[c].pc = "refs" /\ Claims(c) = held[c] /\ gone # None
  <2>1. Req(c) # None /\ Req(c) \in AllRequests /\ Req(c).kind = "delete"
        /\ task[c].pc = "refs" /\ Claims(c) = held[c]
    BY <1>1, Ready
  <2> QED
    BY <2>1, RequestKinds, EngineAssumption, RowsAssumption DEF DeleteRequests
<1>7. Few(c) /\ (moved \/ Clears(c)) /\ moved' = moved
  BY <1>4 DEF Ordered, Order, Statement
<1>8. Few(c)'
  BY <1>5, <1>7 DEF Few, IsItem, Publication, IsKey, Share, Whole, Entry, Slug
<1>9. Claims(c)' = held[c] \cup {Entry(s) : s \in S}
  BY <1>3, <1>5 DEF Claims
<1>10. ASSUME ~moved
       PROVE  Clears(c)'
  <2>1. /\ \A s \in Strings : Entry(s) \in held[c] => gone \in Homes(s)
        /\ \A i \in held[c] : IsKey(i) =>
              \E s \in Strings : Entry(s) \in held[c] /\ cat.rows[s].key = KeyOf(i)
    BY <1>6, <1>7, <1>10 DEF Clears, Clearing
  <2>2. \A i \in Claims(c)' : IsKey(i) => i \in held[c]
    BY <1>9, Tags
  <2>3. \A s \in Strings : Entry(s) \in Claims(c)' => gone \in Homes(s)
    <3>1. \A s, r : Entry(s) = Entry(r) => s = r
      BY DEF Entry
    <3> QED
      BY <1>6, <1>9, <2>1, <3>1 DEF Homes
  <2>4. \A s : Homes(s)' = Homes(s)
    BY <1>5 DEF Homes
  <2> QED
    BY <1>5, <2>1, <2>2, <2>3, <2>4 DEF Clears, Entry, IsKey
<1>11. Order(c)' /\ ~Importing(c)'
  BY <1>5, <1>7, <1>8, <1>10 DEF Order, Follows, ImportPcs, Importing
<1> QED
  BY <1>4, <1>11, StatementOrder

\* An import that goes on with the locks that it has.
LEMMA ReadOrder ==
    ASSUME IInv, IInv', Ordered, NEW c \in Clients, NEW t,
           Importing(c), task[c].pc # "modules", task[c].pc # "planned",
           t.req = task[c].req, t.pc \in {"rows", "checked"},
           task' = [task EXCEPT ![c] = t], held' = held, queue' = queue,
           cat' = cat, setting' = setting, moved' = moved
    PROVE  Ordered'
<1>1. held' = [held EXCEPT ![c] = held[c]] /\ queue' = [queue EXCEPT ![c] = queue[c]]
  BY Parts
<1>2. Others(c) /\ task'[c] = t /\ held'[c] = held[c] /\ queue'[c] = queue[c]
  BY <1>1, OthersOf
<1>3. Req(c)' = Req(c) /\ Claims(c)' = Claims(c) /\ FileKeys(c)' = FileKeys(c)
  BY <1>2 DEF Req, Claims, Awaited, FileKeys, File
<1>4. Unclaimed'
  BY <1>2, UnclaimedStays
<1>5. Few(c) /\ (moved \/ Follows(c))
  BY DEF Ordered, Order
<1>6. Few(c)'
  BY <1>2, <1>5 DEF Few, IsItem, Publication, IsKey, Share, Whole, Entry, Slug
<1>7. Follows(c) => Follows(c)'
  <2>1. Affected(c, cat)' = Affected(c, cat) /\ \A s : Homes(s)' = Homes(s)
    BY <1>3 DEF Affected, Homes
  <2> QED
    BY <1>2, <1>3, <2>1 DEF Follows, Importing, ImportPcs, Share, Entry, IsKey
<1>8. Order(c)'
  BY <1>2, <1>5, <1>6, <1>7 DEF Order, Clears, Clearing
<1> QED
  BY <1>2, <1>4, <1>8, QuietCalm, OthersKeep

\* An import that reads its strings keeps the order of the locks.
LEMMA ImportReadOrder ==
    ASSUME IInv, IInv', Ordered, NEW c \in Clients, ImportRead(c)
    PROVE  Ordered'
<1> PICK t : t = [task[c] EXCEPT !.pc = "rows", !.view = cat]
  OBVIOUS
<1>1. /\ At(c, "import", "entries") /\ task' = [task EXCEPT ![c] = t]
      /\ cat' = cat /\ setting' = setting /\ moved' = moved /\ held' = held /\ queue' = queue
  BY Parts DEF ImportRead
<1>2. t.req = task[c].req /\ t.pc = "rows"
  <2>1. "rows" \in Pcs
    BY DEF Pcs
  <2>2. task[c] \in Tasks /\ cat \in Catalogs \cup {None}
    BY Parts
  <2>3. t = Reading(task[c], "rows", cat)
    BY DEF Reading
  <2> QED
    BY <2>1, <2>2, <2>3, Retasked
<1>3. Importing(c) /\ task[c].pc = "entries"
  BY <1>1 DEF At, Importing
<1> QED
  BY <1>1, <1>2, <1>3, ReadOrder

\* An import that checks its locks keeps the order of the locks.
LEMMA ImportCheckOrder ==
    ASSUME IInv, IInv', Ordered, NEW c \in Clients, ImportCheck(c)
    PROVE  Ordered'
<1> DEFINE view_ == [task[c].view EXCEPT !.mods = cat.mods]
           t_ == [task[c] EXCEPT !.pc = "checked", !.view = view_]
<1>1. /\ At(c, "import", "rows")
      /\ \/ Refuse(c)
         \/ /\ task' = [task EXCEPT ![c] = t_]
            /\ cat' = cat /\ setting' = setting /\ moved' = moved /\ held' = held /\ queue' = queue
  BY Parts DEF ImportCheck
<1>2. t_.req = task[c].req /\ t_.pc = "checked"
  BY Parts DEF Tasks
<1> PICK t : t = t_
  OBVIOUS
<1>3. /\ t.req = task[c].req /\ t.pc = "checked"
      /\ \/ Refuse(c)
         \/ /\ task' = [task EXCEPT ![c] = t]
            /\ cat' = cat /\ setting' = setting /\ moved' = moved /\ held' = held /\ queue' = queue
  BY <1>1, <1>2
<1> HIDE DEF t_
<1>4. Importing(c) /\ task[c].pc = "rows"
  BY <1>1 DEF At, Importing
<1> QED
  BY <1>3, <1>4, RefuseOrder, ReadOrder

\* An import waits for keys of its file only.
LEMMA ImportPlanOrder ==
    ASSUME IInv, IInv', Ordered, NEW c \in Clients, ImportPlan(c),
           Refuse(c) \/ \A i \in ToSet(queue'[c]) : IsKey(i) /\ KeyOf(i) \in FileKeys(c)
    PROVE  Ordered'
<1> DEFINE plan_ == Plan(Plans(c), task[c].view, File(c))
           born_ == {s \in plan_.touched : ~Alive(task[c].view.rows[s])}
           ids_ == InOrder(born_)
           locks_ == [i \in DOMAIN ids_ |-> Key(plan_.cat.rows[ids_[i]])]
           t_ == [task[c] EXCEPT !.pc = "planned", !.plan = plan_]
<1>a. \/ Refuse(c)
      \/ /\ task' = [task EXCEPT ![c] = t_] /\ held' = [held EXCEPT ![c] = held[c]]
         /\ queue' = [queue EXCEPT ![c] = locks_]
         /\ cat' = cat /\ setting' = setting /\ moved' = moved
  <2>1. DOMAIN task = Clients /\ held = [held EXCEPT ![c] = held[c]]
    BY Parts
  <2> QED
    BY <2>1 DEF ImportPlan, Locks
<1>b. t_.req = task[c].req /\ t_.pc = "planned"
  BY Parts DEF Tasks
<1> PICK locks : locks = locks_
  OBVIOUS
<1> PICK t : t = t_
  OBVIOUS
<1>c. /\ t.req = task[c].req /\ t.pc = "planned"
      /\ \/ Refuse(c)
         \/ /\ task' = [task EXCEPT ![c] = t] /\ held' = [held EXCEPT ![c] = held[c]]
            /\ queue' = [queue EXCEPT ![c] = locks]
            /\ cat' = cat /\ setting' = setting /\ moved' = moved
  BY <1>a, <1>b
<1> HIDE DEF plan_, born_, ids_, locks_, t_
<1>0. At(c, "import", "created")
  BY DEF ImportPlan
<1>1. CASE Refuse(c)
  BY <1>1, RefuseOrder
<1>2. CASE ~Refuse(c)
  <2>1. /\ task' = [task EXCEPT ![c] = t] /\ held' = [held EXCEPT ![c] = held[c]]
        /\ queue' = [queue EXCEPT ![c] = locks]
        /\ cat' = cat /\ setting' = setting /\ moved' = moved
    BY <1>c, <1>2
  <2>2. Others(c) /\ task'[c] = t /\ held'[c] = held[c] /\ queue'[c] = locks
    BY <2>1, OthersOf
  <2>3. task[c].pc = "created" /\ Claims(c) = held[c] /\ Importing(c)
    BY <1>0, Ready DEF Importing
  <2>4. Req(c)' = Req(c) /\ FileKeys(c)' = FileKeys(c) /\ Claims(c)' = held[c] \cup ToSet(locks)
    BY <1>c, <2>2 DEF Req, Claims, Awaited, FileKeys, File
  <2>5. Unclaimed'
    BY <1>c, <2>2, <2>3, UnclaimedStays
  <2>6. Few(c) /\ (moved \/ Follows(c))
    BY DEF Ordered, Order
  <2>7. Few(c)'
    BY <1>c, <2>2, <2>6 DEF Few, IsItem, Publication, IsKey, Share, Whole, Entry, Slug
  <2>8. \A i \in ToSet(locks) : IsKey(i) /\ KeyOf(i) \in FileKeys(c)
    BY <1>2, <2>2
  <2>9. Follows(c) => Follows(c)'
    <3>1. Affected(c, cat)' = Affected(c, cat) /\ \A s : Homes(s)' = Homes(s)
      BY <2>1, <2>4 DEF Affected, Homes
    <3>2. \A s : ~IsKey(Entry(s))
      BY Tags
    <3>3. \A s : Entry(s) \in Claims(c)' => Entry(s) \in Claims(c)
      BY <2>3, <2>4, <2>8, <3>2
    <3>4. \A i : IsKey(i)' <=> IsKey(i)
      BY DEF IsKey
    <3>5. SUFFICES ASSUME Follows(c)
                   PROVE  Follows(c)'
      OBVIOUS
    <3>6. \A i \in held[c] : ~IsKey(i)
      BY <2>3, <3>5 DEF Follows, ImportPcs
    <3>7. \A i \in Claims(c)' : IsKey(i) => KeyOf(i) \in FileKeys(c)
      BY <2>4, <2>8, <3>6
    <3>8. task'[c].pc = "planned" /\ task[c].pc \in ImportPcs /\ Claims(c) \subseteq Claims(c)'
      BY <1>c, <2>2, <2>3, <2>4 DEF ImportPcs
    <3>9. /\ \A s \in Affected(c, cat) : \A m \in Homes(s) : Share(m) \in Claims(c)'
          /\ \A s \in Affected(c, cat) : Entry(s) \in Claims(c)'
          /\ \A s \in Strings : Entry(s) \in Claims(c)' => s \in Affected(c, cat)
      BY <2>3, <3>3, <3>5, <3>8 DEF Follows
    <3> QED
      BY <2>4, <3>1, <3>7, <3>8, <3>9 DEF Follows, Share, Entry, IsKey
  <2>10. Order(c)'
    BY <1>c, <2>1, <2>2, <2>6, <2>7, <2>9 DEF Order, Clears, Clearing
  <2> QED
    BY <2>1, <2>2, <2>5, <2>10, QuietCalm, OthersKeep
<1> QED
  BY <1>1, <1>2

\* An import inserts modules that nobody waits for.
LEMMA ImportCreateOrder ==
    ASSUME IInv, IInv', Ordered, NEW c \in Clients, ImportCreate(c)
    PROVE  Ordered'
<1> DEFINE missing_ == NewSlugs(task[c].view, File(c))
           mods_ == IF missing_ = {} THEN task[c].view.mods
                    ELSE WithModules(cat.mods, NewSlugs(cat, File(c)))
           new_ == {m \in Modules : missing_ # {} /\ mods_[m] # None /\ cat.mods[m] = None}
           view_ == [task[c].view EXCEPT !.mods = mods_]
           t_ == [task[c] EXCEPT !.pc = "created", !.view = view_]
           h_ == held[c] \cup {Whole(m) : m \in new_} \cup {Slug(mods_[m]) : m \in new_}
<1>a. \/ Refuse(c)
      \/ /\ \A m \in new_ : Unnamed(c, m)
         /\ task' = [task EXCEPT ![c] = t_] /\ held' = [held EXCEPT ![c] = h_]
         /\ queue' = [queue EXCEPT ![c] = queue[c]]
         /\ cat' = cat /\ setting' = setting /\ moved' = moved
  <2>1. DOMAIN task = Clients /\ DOMAIN held = Clients /\ queue = [queue EXCEPT ![c] = queue[c]]
    BY Parts
  <2> QED
    BY <2>1 DEF ImportCreate
<1>b. t_.req = task[c].req /\ t_.pc = "created" /\ t_.view = view_
  BY Parts DEF Tasks
<1> PICK mods : mods = mods_
  OBVIOUS
<1> PICK new : new = new_
  OBVIOUS
<1> PICK t : t = t_
  OBVIOUS
<1> PICK h : h = h_
  OBVIOUS
<1>c. /\ t.req = task[c].req /\ t.pc = "created"
      /\ new \subseteq Modules /\ \A m \in new : mods[m] # None
      /\ h = held[c] \cup {Whole(m) : m \in new} \cup {Slug(mods[m]) : m \in new}
      /\ \/ Refuse(c)
         \/ /\ \A m \in new : Unnamed(c, m)
            /\ task' = [task EXCEPT ![c] = t] /\ held' = [held EXCEPT ![c] = h]
            /\ queue' = [queue EXCEPT ![c] = queue[c]]
            /\ cat' = cat /\ setting' = setting /\ moved' = moved
  <2> HIDE DEF missing_, mods_
  <2>1. new \subseteq Modules /\ \A m \in new : mods[m] # None
    OBVIOUS
  <2> HIDE DEF new_
  <2>2. h = held[c] \cup {Whole(m) : m \in new} \cup {Slug(mods[m]) : m \in new}
    OBVIOUS
  <2> HIDE DEF h_, view_
  <2> QED
    BY <1>a, <1>b, <2>1, <2>2
<1>d. t.view.mods = mods /\ mods = mods_
  <2>1. task[c].view \in Catalogs
    <3>1. task[c].pc = "checked"
      BY DEF ImportCreate, At
    <3> QED
      BY <3>1, Parts DEF Local, ImportFacts, Viewed
  <2>2. DOMAIN task[c].view = {"rows", "mods"}
    BY <2>1 DEF Catalogs
  <2> HIDE DEF mods_
  <2>3. view_.mods = mods
    BY <2>1 DEF Catalogs
  <2> QED
    BY <1>b, <2>3
<1> HIDE DEF missing_, mods_, new_, view_, t_, h_
<1>0. At(c, "import", "checked")
  BY DEF ImportCreate
<1>1. CASE Refuse(c)
  BY <1>1, RefuseOrder
<1>2. CASE ~Refuse(c)
  <2>1. /\ \A m \in new : Unnamed(c, m)
        /\ task' = [task EXCEPT ![c] = t] /\ held' = [held EXCEPT ![c] = h]
        /\ queue' = [queue EXCEPT ![c] = queue[c]]
        /\ cat' = cat /\ setting' = setting /\ moved' = moved
    BY <1>c, <1>2
  <2>2. Others(c) /\ task'[c] = t /\ held'[c] = h /\ queue'[c] = queue[c]
    BY <2>1, OthersOf
  <2>3. task[c].pc = "checked" /\ Claims(c) = held[c] /\ Awaited(c) = {} /\ Importing(c)
    BY <1>0, Ready DEF Importing
  <2>4. Req(c)' = Req(c) /\ FileKeys(c)' = FileKeys(c) /\ Claims(c)' = h
    BY <1>c, <2>2, <2>3 DEF Req, Claims, Awaited, FileKeys, File
  <2>5. \A m \in new : mods[m] \in Slugs
    <3>1. task'[c].view \in Catalogs
      <4>1. ImportFacts(c)' /\ task'[c].pc = "created"
        BY <1>c, <2>2 DEF IInv, Local
      <4> QED
        BY <4>1 DEF ImportFacts, Viewed, Catalogs, Rows, FullRows, NoRow, Contents
    <3>2. mods \in [Modules -> Slugs \cup {None}]
      BY <1>d, <2>2, <3>1 DEF Catalogs
    <3> QED
      BY <1>c, <3>2
  <2>6. \A i \in h : i \in held[c] \/ (\E m \in Modules : i = Whole(m)) \/ (\E slug \in Slugs : i = Slug(slug))
    BY <1>c, <2>5
  <2>7. Few(c) /\ (moved \/ Follows(c))
    BY DEF Ordered, Order
  <2>8. Few(c)'
    <3>1. \A i \in held'[c] : IsItem(i)
      BY <2>2, <2>6, <2>7 DEF Few, IsItem
    <3>2. \A i : IsItem(i)' <=> IsItem(i)
      BY DEF IsItem, Publication, IsKey, Share, Whole, Entry, Slug
    <3> QED
      BY <1>c, <2>2, <3>1, <3>2 DEF Few
  <2>9. Unclaimed'
    <3> SUFFICES ASSUME NEW a \in Clients, NEW d \in Clients, NEW m \in Modules,
                        Importing(a)', Whole(m) \in held'[a], task'[d].pc = "flush",
                        Share(m) \in Awaited(d)'
                 PROVE  FALSE
      BY DEF Unclaimed, Whole, Share
    <3>1. d # c /\ task[d].pc = "flush" /\ Share(m) \in Awaited(d)
      BY <1>c, <2>2 DEF Others, Awaited
    <3>2. Unclaimed
      BY DEF Ordered
    <3>3. a = c
      BY <2>2, <3>1, <3>2 DEF Others, Importing, Unclaimed
    <3>4. Whole(m) \notin held[c]
      BY <2>3, <3>1, <3>2 DEF Unclaimed
    <3>5. m \in new
      <4>1. \A i, slug : Whole(i) # Slug(slug) /\ \A j : Whole(i) = Whole(j) => i = j
        BY DEF Whole, Slug
      <4> QED
        BY <1>c, <2>2, <3>3, <3>4, <4>1
    <3>6. Unnamed(c, m) /\ Conflict(Whole(m), Share(m))
      BY <2>1, <3>5, Conflicts
    <3> QED
      BY <3>1, <3>6 DEF Unnamed, Awaited
  <2>10. Follows(c) => Follows(c)'
    <3>1. Affected(c, cat)' = Affected(c, cat) /\ \A s : Homes(s)' = Homes(s)
      BY <2>1, <2>4 DEF Affected, Homes
    <3>2. \A i \in Claims(c)' : IsKey(i) \/ i[1] = "string" => i \in Claims(c)
      BY <2>3, <2>4, <2>6, Tags
    <3>3. SUFFICES ASSUME Follows(c)
                   PROVE  Follows(c)'
      OBVIOUS
    <3>4. task'[c].pc = "created" /\ task[c].pc \in ImportPcs /\ Claims(c) \subseteq Claims(c)'
      BY <1>c, <2>2, <2>3, <2>4 DEF ImportPcs
    <3>5. \A s : Entry(s)[1] = "string"
      BY Tags
    <3>6. /\ \A s \in Affected(c, cat) : \A m \in Homes(s) : Share(m) \in Claims(c)'
          /\ \A s \in Affected(c, cat) : Entry(s) \in Claims(c)'
          /\ \A s \in Strings : Entry(s) \in Claims(c)' => s \in Affected(c, cat)
          /\ \A i \in Claims(c)' : ~IsKey(i)
      BY <2>3, <3>2, <3>3, <3>4, <3>5 DEF Follows
    <3> QED
      BY <2>4, <3>1, <3>4, <3>6 DEF Follows, Share, Entry, IsKey
  <2>11. Order(c)'
    BY <1>c, <2>1, <2>2, <2>7, <2>8, <2>10 DEF Order, Clears, Clearing
  <2> QED
    BY <2>1, <2>2, <2>9, <2>11, QuietCalm, OthersKeep
<1> QED
  BY <1>1, <1>2

\* A save waits for modules that are committed, not for inserted ones.
LEMMA SaveEditOrder ==
    ASSUME IInv, IInv', Ordered, NEW c \in Clients, SaveEdit(c),
           Refuse(c) \/ \A m \in Modules : Share(m) \in ToSet(queue'[c]) => cat.mods[m] # None
    PROVE  Ordered'
<1> DEFINE req_ == Req(c)
           r_ == cat.rows[req_.s]
           now_ == Edited(req_, r_)
           new_ == IF req_.public THEN Promoted(now_) ELSE now_
           shared_ == (IF new_.mod # r_.mod THEN {new_.mod} ELSE {})
                        \cup (IF PubMod(new_) # PubMod(r_) THEN {PubMod(new_)} ELSE {})
           plan_ == [cat |-> [cat EXCEPT !.rows[req_.s] = new_], touched |-> {req_.s}]
           t_ == [task[c] EXCEPT !.pc = "flush", !.view = cat, !.plan = plan_]
           keyed_ == Unless(r_.deleted \/ Place(new_) = Place(r_), Key(new_))
           locks_ == keyed_ \o Locks(Share, InOrder(shared_ \ {None}))
<1>a. \/ Refuse(c)
      \/ /\ task' = [task EXCEPT ![c] = t_] /\ held' = [held EXCEPT ![c] = held[c]]
         /\ queue' = [queue EXCEPT ![c] = locks_]
         /\ cat' = cat /\ setting' = setting /\ moved' = moved
  <2>1. DOMAIN task = Clients /\ held = [held EXCEPT ![c] = held[c]]
    BY Parts
  <2> QED
    BY <2>1 DEF SaveEdit
<1> HIDE DEF plan_, locks_
<1>b. t_.req = task[c].req /\ t_.pc = "flush"
  BY Parts DEF Tasks
<1> PICK locks : locks = locks_
  OBVIOUS
<1> PICK t : t = t_
  OBVIOUS
<1>c. /\ t.req = task[c].req /\ t.pc = "flush"
      /\ \/ Refuse(c)
         \/ /\ task' = [task EXCEPT ![c] = t] /\ held' = [held EXCEPT ![c] = held[c]]
            /\ queue' = [queue EXCEPT ![c] = locks]
            /\ cat' = cat /\ setting' = setting /\ moved' = moved
  BY <1>a, <1>b
<1> HIDE DEF req_, r_, now_, new_, shared_, t_, keyed_
<1>1. CASE Refuse(c)
  BY <1>1, RefuseOrder
<1>2. CASE ~Refuse(c)
  <2>1. /\ task' = [task EXCEPT ![c] = t] /\ held' = [held EXCEPT ![c] = held[c]]
        /\ queue' = [queue EXCEPT ![c] = locks]
        /\ cat' = cat /\ setting' = setting /\ moved' = moved
    BY <1>c, <1>2
  <2>2. Others(c) /\ task'[c] = t /\ held'[c] = held[c] /\ queue'[c] = locks
    BY <2>1, OthersOf
  <2>3. task'[c].pc = "flush"
    BY <1>c, <2>2
  <2>4. Few(c)
    BY DEF Ordered, Order
  <2>5. Few(c)'
    BY <2>2, <2>3, <2>4 DEF Few, IsItem, Publication, IsKey, Share, Whole, Entry, Slug
  <2>6. Order(c)'
    BY <2>3, <2>5 DEF Order, Follows, Clears, Clearing, ImportPcs
  <2>7. Unclaimed'
    <3> SUFFICES ASSUME NEW a \in Clients, NEW d \in Clients, NEW m \in Modules,
                        Importing(a)', Whole(m) \in held'[a], task'[d].pc = "flush",
                        Share(m) \in Awaited(d)'
                 PROVE  FALSE
      BY DEF Unclaimed, Whole, Share
    <3>1. a # c
      BY <2>3 DEF Importing
    <3>2. CASE d = c
      <4>1. cat'.mods[m] # None
        BY <1>2, <2>1, <3>2 DEF Awaited
      <4>2. Holds(a)' /\ ImportFacts(a)'
        BY DEF IInv, Local
      <4>3. task'[a].pc \in {"created", "planned"}
        <5>1. task'[a].pc \in {"created", "planned"} \cup DeletePcs
          BY <4>2 DEF Holds, Whole
        <5> QED
          BY <5>1 DEF Importing, DeletePcs
      <4>4. m \in Own(a)' /\ Inserted(a, task[a].view)'
        BY <4>2, <4>3 DEF Own, ImportFacts, Whole
      <4> QED
        BY <4>1, <4>4 DEF Inserted
    <3>3. CASE d # c
      BY <2>2, <3>1, <3>3 DEF Others, Ordered, Unclaimed, Importing, Awaited
    <3> QED
      BY <3>2, <3>3
  <2> QED
    BY <2>1, <2>2, <2>6, <2>7, QuietCalm, OthersKeep
<1> QED
  BY <1>1, <1>2

-----------------------------------------------------------------------------
(* A lock is granted.                                                      *)

\* What is waited for afterwards, besides the rest, is the key of the string just locked.
\* What is waited for next, after item.
More(c, item, rest) == ToSet(Then(c, item) \o rest) \ ToSet(rest)

\* A deletion that locks a string waits for the key of that string next.
LEMMA NextLocks ==
    ASSUME IInv, NEW c \in Clients, queue[c] # <<>>
    PROVE  LET item == Head(queue[c])
               rest == Tail(queue[c])
           IN  /\ item \in Awaited(c) /\ Awaited(c) = {item} \cup ToSet(rest)
               /\ task[c].pc # "refs" => Then(c, item) \o rest = rest
               /\ \A i \in More(c, item, rest) :
                     /\ IsKey(i) /\ task[c].pc = "refs" /\ item[1] = "string"
                     /\ KeyOf(i) = cat.rows[item[2]].key
<1> PICK item : item = Head(queue[c])
  OBVIOUS
<1> PICK rest : rest = Tail(queue[c])
  OBVIOUS
<1> PICK q : q = Then(c, item) \o rest
  OBVIOUS
<1>0. SUFFICES
         /\ item \in Awaited(c) /\ Awaited(c) = {item} \cup ToSet(rest)
         /\ task[c].pc # "refs" => q = rest
         /\ \A i \in ToSet(q) \ ToSet(rest) :
               /\ IsKey(i) /\ task[c].pc = "refs" /\ item[1] = "string"
               /\ KeyOf(i) = cat.rows[item[2]].key
  BY DEF More
<1>1. queue[c] \in Seq(ToSet(queue[c]))
  BY Parts
<1>2. item \in Awaited(c) /\ Awaited(c) = {item} \cup ToSet(rest)
  BY <1>1, TakeFirst DEF Awaited
<1>3. <<>> \o rest = rest
  BY <1>1, TakeFirst
<1> PICK r : r = cat.rows[item[2]]
  OBVIOUS
<1> PICK e : e = [r EXCEPT !.mod = None]
  OBVIOUS
<1> PICK first : first = Then(c, item)
  OBVIOUS
<1>4. CASE first = <<>>
  BY <1>2, <1>3, <1>4
<1>5. CASE first # <<>>
  <2>1. /\ task[c].pc = "refs" /\ Matches(c, item) /\ Alive(r) /\ first = <<Key(e)>>
    BY <1>5 DEF Then
  <2>2. item[1] = "string"
    BY <2>1 DEF Matches
  <2>3. ToSet(q) = {Key(e)} \cup ToSet(rest)
    <3> PICK i : i = Key(e)
      OBVIOUS
    <3>1. ToSet(<<i>> \o Tail(queue[c])) = {i} \cup ToSet(Tail(queue[c]))
      BY <1>1, TakeFirst
    <3> QED
      BY <2>1, <3>1
  <2>4. IsKey(Key(e)) /\ KeyOf(Key(e)) = r.key
    <3>1. IsKey(Key(e)) /\ KeyOf(Key(e)) = e.key
      BY Tags
    <3>2. e.key = r.key
      <4>1. Matches(c, item) /\ item \in Awaited(c) /\ Waits(c)
        BY <1>2, <2>1, Parts DEF Local
      <4>2. IsKey(item) \/ item \in {Entry(s) : s \in Strings}
        BY <2>1, <4>1 DEF Waits
      <4>3. PICK s \in Strings : item = Entry(s)
        BY <2>2, <4>2 DEF IsKey
      <4>4. r \in Rows
        BY <4>3, Tags, ModOf, Parts
      <4>5. r \in FullRows
        BY <2>1, <4>4, RowKinds DEF Alive, Exists, NoRow
      <4> QED
        BY <4>5 DEF FullRows
    <3> QED
      BY <3>1, <3>2
  <2> QED
    BY <1>2, <2>1, <2>2, <2>3, <2>4
<1> QED
  BY <1>4, <1>5

\* A granted lock keeps the order of the locks.
LEMMA AcquireOrder ==
    ASSUME IInv, IInv', Ordered, NEW c \in Clients, Acquire(c)
    PROVE  Ordered'
<1> PICK item : item = Head(queue[c])
  OBVIOUS
<1> PICK rest : rest = Tail(queue[c])
  OBVIOUS
<1> PICK q : q = Then(c, item) \o rest
  OBVIOUS
<1> PICK h : h = held[c] \cup {item}
  OBVIOUS
<1> PICK pc : pc = task[c].pc
  OBVIOUS
<1> DEFINE t_ == [task[c] EXCEPT !.got =
                     @ \cup (IF Matches(c, item) THEN {<<task[c].pc, item[2]>>} ELSE {})]
<1>a. t_.req = task[c].req /\ t_.pc = pc
  BY Parts DEF Tasks
<1> PICK t : t = t_
  OBVIOUS
<1>b. t.req = task[c].req /\ t.pc = pc
  BY <1>a
<1>1. /\ queue[c] # <<>> /\ task' = [task EXCEPT ![c] = t]
      /\ held' = [held EXCEPT ![c] = h] /\ queue' = [queue EXCEPT ![c] = q]
      /\ cat' = cat /\ setting' = setting /\ moved' = moved
  <2>1. DOMAIN task = Clients /\ DOMAIN held = Clients /\ DOMAIN queue = Clients
    BY Parts
  <2> QED
    BY <2>1 DEF Acquire
<1> HIDE DEF t_
<1>2. Others(c) /\ task'[c] = t /\ held'[c] = h /\ queue'[c] = q
  BY <1>1, OthersOf
<1>3. /\ item \in Awaited(c) /\ Awaited(c) = {item} \cup ToSet(rest)
      /\ pc # "refs" => q = rest
      /\ \A i \in ToSet(q) \ ToSet(rest) :
            /\ IsKey(i) /\ pc = "refs" /\ item[1] = "string"
            /\ KeyOf(i) = cat.rows[item[2]].key
  <2>1. queue[c] # <<>>
    BY <1>1
  <2>2. ToSet(q) \ ToSet(rest) = More(c, item, rest)
    BY DEF More
  <2> QED
    BY <2>1, <2>2, NextLocks
<1>4. /\ Req(c)' = Req(c) /\ FileKeys(c)' = FileKeys(c)
      /\ Awaited(c)' = ToSet(q) /\ Claims(c)' = h \cup ToSet(q)
      /\ Claims(c) = h \cup ToSet(rest) /\ task'[c].pc = pc
  BY <1>b, <1>2, <1>3 DEF Req, Claims, Awaited, FileKeys, File
<1>5. Waits(c) /\ Phase(c) /\ pc \in Pcs
  BY Parts DEF Local, Tasks
<1>6. Few(c) /\ (moved \/ (Follows(c) /\ Clears(c))) /\ Unclaimed
  <2>1. Order(c) /\ Unclaimed
    BY DEF Ordered
  <2> QED
    BY <2>1 DEF Order
\* What kind of lock it is.
<1>7. /\ IsItem(item)
      /\ pc \in ImportPcs => item[1] # "module"
      /\ pc = "refs" => IsKey(item) \/ \E s \in Strings : item = Entry(s)
  <2>1. pc \notin {"idle", "done"}
    BY <1>1, <1>5 DEF Phase
  <2>2. pc \notin {"rows", "checked", "created"}
    BY <1>3, <1>5 DEF Waits
  <2>3. /\ pc = "modules" => \E m \in Modules : item = Share(m)
        /\ pc \in {"entries", "entry", "published"} => \E s \in Strings : item = Entry(s)
        /\ pc = "planned" => IsKey(item)
        /\ pc = "module" => \E m \in Modules : item = Whole(m)
        /\ pc = "begun" => item = Publication
    BY <1>3, <1>5 DEF Waits
  <2>4. pc = "refs" => IsKey(item) \/ \E s \in Strings : item = Entry(s)
    BY <1>3, <1>5 DEF Waits
  <2>5. pc = "flush" => IsKey(item) \/ \E m \in Modules : item = Share(m)
    BY <1>3, <1>5 DEF Waits
  <2>6. IsItem(item)
    BY <1>5, <2>1, <2>2, <2>3, <2>4, <2>5 DEF IsItem, Pcs
  <2>7. pc \in ImportPcs => item[1] # "module"
    BY <2>2, <2>3, Tags DEF ImportPcs, IsKey
  <2> QED
    BY <2>4, <2>6, <2>7
<1>8. Few(c)'
  <2>1. \A i \in h : IsItem(i)
    BY <1>6, <1>7 DEF Few
  <2>2. \A i : IsItem(i)' <=> IsItem(i)
    BY DEF IsItem, Publication, IsKey, Share, Whole, Entry, Slug
  <2>3. \A i : queue[c] = <<i>> => item = i /\ rest = <<>>
    OBVIOUS
  <2>4. pc = "begun" => q = <<>> /\ h \subseteq {Publication}
    BY <1>1, <1>3, <1>6, <2>3 DEF Few
  <2>5. pc = "entry" => q = <<>>
    BY <1>1, <1>3, <1>6, <2>3 DEF Few
  <2>6. pc = "module" => q = <<>> /\ h \subseteq {Publication, Whole(Req(c).mod)}
    BY <1>1, <1>3, <1>6, <2>3 DEF Few
  <2> QED
    BY <1>2, <1>4, <2>1, <2>2, <2>4, <2>5, <2>6 DEF Few, Publication, Whole
<1>9. Unclaimed'
  <2>1. Importing(c)' => Importing(c) /\ pc \in ImportPcs
    BY <1>4 DEF Importing, ImportPcs
  <2>2. \A m \in Modules : Importing(c)' /\ Whole(m) \in held'[c] =>
            Importing(c) /\ Whole(m) \in held[c]
    BY <1>2, <1>7, <2>1, Tags
  <2>3. pc = "flush" => Awaited(c)' \subseteq Awaited(c)
    BY <1>3, <1>4
  <2> QED
    BY <1>2, <1>4, <2>2, <2>3, UnclaimedStays
<1>10. Follows(c) => Follows(c)'
  <2> SUFFICES ASSUME Follows(c), pc \in ImportPcs
               PROVE  Follows(c)'
    BY <1>4 DEF Follows
  <2>1. Claims(c)' = Claims(c)
    BY <1>3, <1>4 DEF ImportPcs
  <2>2. Affected(c, cat)' = Affected(c, cat) /\ \A s : Homes(s)' = Homes(s)
    BY <1>1, <1>4 DEF Affected, Homes
  <2> QED
    BY <1>4, <2>1, <2>2 DEF Follows, Share, Entry, IsKey
<1>11. Clears(c) => Clears(c)'
  <2> SUFFICES ASSUME Clears(c), Clearing(c)
               PROVE  Clears(c)'
    BY <1>4 DEF Clears, Clearing
  <2>1. /\ \A s \in Strings : Entry(s) \in Claims(c) => Req(c).mod \in Homes(s)
        /\ \A i \in Claims(c) : IsKey(i) =>
              \E s \in Strings : Entry(s) \in held[c] /\ cat.rows[s].key = KeyOf(i)
    BY DEF Clears
  <2>2. \A s : Entry(s) \in Claims(c)' => Entry(s) \in Claims(c)
    BY <1>3, <1>4, Tags
  <2>3. ASSUME NEW i \in Claims(c)', IsKey(i)
        PROVE  \E s \in Strings : Entry(s) \in h /\ cat.rows[s].key = KeyOf(i)
    <3>1. CASE i \in Claims(c)
      BY <2>1, <2>3, <3>1
    <3>2. CASE i \notin Claims(c)
      <4>1. pc = "refs" /\ item[1] = "string" /\ KeyOf(i) = cat.rows[item[2]].key
        BY <1>3, <1>4, <3>2
      <4>2. PICK s \in Strings : item = Entry(s)
        BY <1>7, <4>1 DEF IsKey
      <4>3. item[2] = s
        BY <4>2, Tags
      <4> QED
        BY <4>1, <4>2, <4>3
    <3> QED
      BY <3>1, <3>2
  <2>4. \A s : Homes(s)' = Homes(s)
    BY <1>1 DEF Homes
  <2> QED
    BY <1>1, <1>2, <1>4, <2>1, <2>2, <2>3, <2>4 DEF Clears, Entry, IsKey
<1>12. Order(c)'
  BY <1>1, <1>6, <1>8, <1>10, <1>11 DEF Order
<1> QED
  BY <1>1, <1>2, <1>9, <1>12, QuietCalm, OthersKeep

-----------------------------------------------------------------------------
\* A transaction that commits or rolls back keeps the order of the locks.
LEMMA EndedOrder ==
    ASSUME IInv, IInv', Ordered, NEW c \in Clients,
           Refuse(c) \/ \E new : Commit(c, new)
    PROVE  Ordered'
  BY RefuseOrder, CommitOrder

\* A request that starts keeps the order of the locks.
LEMMA StartingOrder ==
    ASSUME IInv, IInv', Ordered, NEW c \in Clients, NEW req, Starting(c, req)
    PROVE  Ordered'
<1>1. CASE Begin(c, req)
  BY <1>1, BeginOrder
<1>2. CASE CreateString(c, req)
  BY <1>2, EndedOrder DEF CreateString
<1>3. CASE AddModule(c, req)
  BY <1>3, EndedOrder DEF AddModule
<1>4. CASE RenameModule(c, req)
  BY <1>4, EndedOrder DEF RenameModule
<1> QED
  BY <1>1, <1>2, <1>3, <1>4 DEF Starting

\* A transaction under way keeps the order of the locks.
LEMMA WorkingOrder ==
    ASSUME IInv, IInv', Ordered, NEW c \in Clients, Working(c)
    PROVE  Ordered'
<1>1. CASE Acquire(c) \/ Victim(c)
  BY <1>1, AcquireOrder, VictimOrder
<1>2. CASE ImportModules(c) \/ ImportEntries(c) \/ ImportRead(c) \/ ImportCheck(c)
  BY <1>2, ImportModulesOrder, ImportEntriesOrder, ImportReadOrder, ImportCheckOrder
<1>3. CASE ImportCreate(c)
  BY <1>3, ImportCreateOrder
<1>4. CASE ImportPlan(c)
  BY <1>4, ImportPlanStep, ImportPlanOrder
<1>5. CASE ImportWrite(c)
  BY <1>5, EndedOrder DEF ImportWrite
<1>6. CASE SaveEntry(c)
  BY <1>6, SaveEntryOrder
<1>7. CASE SaveEdit(c)
  BY <1>7, SaveEditStep, SaveEditOrder
<1>8. CASE SaveFlush(c)
  BY <1>8, EndedOrder DEF SaveFlush
<1>9. CASE DeleteModule(c) \/ DeleteCheck(c) \/ DeleteRefs(c)
  BY <1>9, DeleteModuleOrder, DeleteCheckOrder, DeleteRefsOrder
<1>10. CASE DeleteDrop(c)
  BY <1>10, EndedOrder DEF DeleteDrop
<1> QED
  BY <1>1, <1>2, <1>3, <1>4, <1>5, <1>6, <1>7, <1>8, <1>9, <1>10 DEF Working

\* The order of the locks is kept when nothing happens.
LEMMA StutterOrder ==
    ASSUME IInv, Ordered, UNCHANGED vars
    PROVE  Ordered'
<1>1. cat' = cat /\ setting' = setting /\ task' = task /\ held' = held /\ queue' = queue
      /\ moved' = moved
  BY DEF vars
<1>2. \A c \in Clients : Claims(c)' = Claims(c) /\ FileKeys(c)' = FileKeys(c) /\ Req(c)' = Req(c)
  BY <1>1 DEF Claims, Awaited, FileKeys, File, Req
<1>3. \A c \in Clients : Affected(c, cat)' = Affected(c, cat) /\ \A s : Homes(s)' = Homes(s)
  BY <1>1, <1>2 DEF Affected, Homes
<1>4. Unclaimed'
  BY <1>1 DEF Ordered, Unclaimed, Importing, Awaited, Whole, Share
<1>5. ASSUME NEW c \in Clients
      PROVE  Order(c)'
  <2>1. Few(c)'
    BY <1>1, <1>2 DEF Ordered, Order, Few, IsItem, Publication, IsKey, Share, Whole, Entry, Slug
  <2>2. Follows(c) => Follows(c)'
    BY <1>1, <1>2, <1>3 DEF Follows, Share, Entry, IsKey
  <2>3. Clears(c) => Clears(c)'
    BY <1>1, <1>2, <1>3 DEF Clears, Clearing, Entry, IsKey
  <2> QED
    BY <1>1, <2>1, <2>2, <2>3 DEF Ordered, Order
<1> QED
  BY <1>4, <1>5 DEF Ordered

\* Every step keeps the order of the locks.
LEMMA NextOrder == IInv /\ IInv' /\ Ordered /\ [Next]_vars => Ordered'
  BY StartingOrder, WorkingOrder, StutterOrder DEF Next

\* There are no locks in the beginning.
LEMMA InitOrder == Init => Ordered
<1> SUFFICES ASSUME Init
             PROVE  Ordered
  OBVIOUS
<1>1. \A c \in Clients : task[c].pc = "idle" /\ held[c] = {}
  BY DEF Init, Idle
<1>2. Unclaimed
  BY <1>1 DEF Unclaimed
<1>3. \A c \in Clients : Order(c)
  BY <1>1 DEF Order, Few, Follows, Clears, Clearing, ImportPcs
<1> QED
  BY <1>2, <1>3 DEF Ordered

\* Locks are always in order.
LEMMA OrderHolds == Spec => []Ordered
  BY InvariantHolds, InitOrder, NextOrder, PTL DEF Spec

\* What somebody waits for: the first of his queue.
LEMMA Blocked ==
    ASSUME IInv, NEW c \in Clients, NEW d \in Clients, WaitsFor(c, d)
    PROVE  /\ c # d /\ queue[c] # <<>> /\ Head(queue[c]) \in Awaited(c)
           /\ task[c].pc \notin {"idle", "done", "rows", "checked", "created"}
           /\ \E j \in held[d] : Conflict(Head(queue[c]), j)
<1>1. c # d /\ queue[c] # <<>> /\ \E j \in held[d] : Conflict(Head(queue[c]), j)
  BY DEF WaitsFor
<1>2. queue[c] \in Seq(ToSet(queue[c])) /\ Phase(c) /\ Waits(c)
  BY Parts DEF Local
<1>3. Head(queue[c]) \in Awaited(c)
  BY <1>1, <1>2, TakeFirst DEF Awaited
<1> QED
  BY <1>1, <1>2, <1>3 DEF Phase, Waits

\* Who waits in front of the first lock after the publication lock is in no circle.
LEMMA BarelyBegun ==
    ASSUME IInv, Ordered, NEW D \in SUBSET Clients, Circle(D), NEW d \in D
    PROVE  task[d].pc \notin {"begun", "entry", "module"}
<1>1. ASSUME NEW a \in D
      PROVE  task[a].pc # "begun"
  <2>1. PICK e \in D, f \in D : WaitsFor(a, e) /\ WaitsFor(f, a)
    BY <1>1 DEF Circle
  <2>2. queue[a] # <<>> /\ held[a] # {}
    BY <1>1, <2>1 DEF WaitsFor
  <2>3. Few(a)
    BY <1>1 DEF Ordered, Order
  <2> QED
    BY <2>2, <2>3 DEF Few
<1>2. ASSUME task[d].pc \in {"entry", "module"}
      PROVE  FALSE
  <2>1. PICK e \in D, f \in D : WaitsFor(d, e) /\ WaitsFor(f, d)
    BY DEF Circle
  <2>2. queue[d] # <<>> /\ Few(d)
    BY <2>1 DEF WaitsFor, Ordered, Order
  <2>3. held[d] \subseteq {Publication}
    BY <1>2, <2>2 DEF Few
  <2>4. Conflict(Head(queue[f]), Publication) /\ Head(queue[f]) \in Awaited(f)
        /\ task[f].pc \notin {"idle", "done", "rows", "checked", "created"}
    BY <2>1, <2>3, Blocked
  <2>5. Head(queue[f]) = Publication
    BY <2>4, Tags, Conflicts
  <2>6. Waits(f) /\ task[f].pc \in Pcs
    BY Parts DEF Local, Tasks
  <2>7. task[f].pc = "begun"
    <3>1. /\ ~IsKey(Publication) /\ (\A m : Share(m) # Publication /\ Whole(m) # Publication)
          /\ \A s : Entry(s) # Publication
      BY Tags DEF Share, Whole, Entry, Publication
    <3> QED
      BY <2>4, <2>5, <2>6, <3>1 DEF Waits, Pcs
  <2> QED
    BY <1>1, <2>7
<1> QED
  BY <1>1, <1>2

\* An import that is in the way of somebody is in the way of a rename to its keys.
LEMMA KeysOnly ==
    ASSUME IInv, Ordered, ~moved, NEW c \in Clients, NEW f \in Clients,
           Importing(c), WaitsFor(f, c), task[f].pc \notin {"begun", "entry", "module"}
    PROVE  task[f].pc = "flush" /\ Head(queue[f])[1] = "key"
<1> PICK i : i = Head(queue[f])
  OBVIOUS
<1>1. /\ f # c /\ queue[f] # <<>> /\ i \in Awaited(f)
      /\ task[f].pc \notin {"idle", "done", "rows", "checked", "created"}
      /\ \E j \in held[c] : Conflict(i, j)
  BY Blocked
<1>2. PICK j \in held[c] : Conflict(i, j)
  BY <1>1
<1>3. /\ Phase(c) /\ Waits(c) /\ Holds(c) /\ Phase(f) /\ Waits(f) /\ DeleteFacts(f)
      /\ task[f].pc \in Pcs /\ OneImport /\ Exclusive /\ cat \in Catalogs
  BY Parts DEF Local, Tasks
<1>4. Follows(c) /\ Clears(f) /\ Few(c) /\ Unclaimed
  <2>1. Order(c) /\ Order(f) /\ Unclaimed
    BY DEF Ordered
  <2> QED
    BY <2>1 DEF Order
<1>5. task[c].pc \in ImportPcs /\ Req(c) # None /\ Req(c).kind = "import"
  BY <1>3 DEF Importing, ImportPcs, Phase
<1>6. task[f].pc \notin ImportPcs
  BY <1>1, <1>3, <1>5 DEF Phase, OneImport, ImportPcs
<1>7. task[f].pc \in {"flush", "refs", "published"}
  BY <1>1, <1>3, <1>6 DEF Pcs, ImportPcs
<1>8. CASE task[f].pc = "flush"
  <2>1. IsKey(i) \/ \E m \in Modules : i = Share(m)
    BY <1>1, <1>3, <1>8 DEF Waits
  <2>2. ASSUME NEW m \in Modules, i = Share(m)
        PROVE  FALSE
    <3>1. j[1] = "module" /\ j[2] = m /\ IsItem(j)
      BY <1>2, <1>4, <2>2, Tags DEF Few
    <3>2. j = Whole(m)
      BY <3>1, Tags DEF IsItem, IsKey
    <3> QED
      BY <1>1, <1>2, <1>4, <1>8, <2>2, <3>2 DEF Unclaimed
  <2> QED
    BY <1>8, <2>1, <2>2 DEF IsKey
<1>9. CASE task[f].pc \in {"refs", "published"}
  <2> PICK gone : gone = Req(f).mod
    OBVIOUS
  <2>1. Whole(gone) \in held[f]
    BY <1>3, <1>9 DEF DeleteFacts, Sees
  <2>2. Share(gone) \notin held[c]
    BY <1>1, <1>3, <2>1, Conflicts DEF Exclusive
  <2>3. Clearing(f)
    BY <1>9 DEF Clearing
  <2>4. IsKey(i) \/ \E s \in Strings : i = Entry(s)
    BY <1>1, <1>3, <1>9 DEF Waits
  <2>5. i[1] \notin {"share", "module"}
    BY <2>4, Tags DEF IsKey
  <2>6. i = j
    BY <1>2, <2>5, Tags
  <2>7. ASSUME NEW s \in Strings, i = Entry(s)
        PROVE  FALSE
    <3>1. s \in Affected(c, cat) /\ task[c].pc # "modules"
      BY <1>2, <1>4, <1>5, <2>6, <2>7 DEF Follows, Claims
    <3>2. gone \in Homes(s)
      BY <1>1, <1>4, <2>3, <2>7 DEF Clears, Claims
    <3>3. Share(gone) \in Claims(c)
      BY <1>4, <1>5, <3>1, <3>2 DEF Follows
    <3>4. Share(gone) \in Awaited(c)
      BY <2>2, <3>3 DEF Claims
    <3>5. \A r : Share(gone) # Entry(r) /\ ~IsKey(Share(gone))
      BY Tags DEF Share, Entry
    <3> QED
      BY <1>3, <1>5, <3>1, <3>4, <3>5 DEF Waits, ImportPcs
  <2>8. ASSUME IsKey(i)
        PROVE  FALSE
    <3>1. KeyOf(i) \in FileKeys(c) /\ task[c].pc = "planned"
      BY <1>2, <1>4, <1>5, <2>6, <2>8 DEF Follows, Claims
    <3>2. PICK s \in Strings : Entry(s) \in held[f] /\ cat.rows[s].key = KeyOf(i)
      BY <1>1, <1>4, <2>3, <2>8 DEF Clears, Claims
    <3>3. KeyOf(i) # None
      <4>1. Req(c) \in ImportRequests
        BY <1>5, RequestKinds, RequestOf, Parts
      <4>2. File(c) \in Seq(ImportRows)
        BY <4>1 DEF ImportRequests, File
      <4>3. \A q \in ToSet(File(c)) : q.key \in Keys
        <5> TAKE q \in ToSet(File(c))
        <5>1. q \in ImportRows
          BY <4>2 DEF ToSet
        <5> QED
          BY <5>1 DEF ImportRows
      <4> QED
        BY <3>1, <4>3, EngineAssumption, RowsAssumption DEF FileKeys
    <3>4. Exists(cat.rows[s])
      BY <1>3, <3>2, <3>3, KeyExists DEF Catalogs
    <3>5. s \in Affected(c, cat)
      BY <3>1, <3>2, <3>4 DEF Affected
    <3>6. Entry(s) \in Claims(c)
      BY <1>4, <1>5, <3>1, <3>5 DEF Follows
    <3>7. Entry(s) \in held[c]
      BY <1>3, <3>1, <3>6, Tags DEF Waits, Claims
    <3> QED
      BY <1>1, <1>3, <3>2, <3>7, Conflicts DEF Exclusive
  <2> QED
    BY <2>4, <2>7, <2>8
<1> QED
  BY <1>7, <1>8, <1>9

\* With locks in order, no circle has an import, except by its keys.
LEMMA ClearNow == IInv /\ Ordered => ImportsAvoidDeadlock
<1> SUFFICES ASSUME IInv, Ordered, ~moved, NEW c \in Clients, NEW D \in SUBSET Clients,
                    Importing(c), c \in D, Circle(D)
             PROVE  \E d \in D : /\ task[d].pc = "flush" /\ WaitsFor(d, c)
                                 /\ Head(queue[d])[1] = "key"
  BY DEF ImportsAvoidDeadlock
<1>1. PICK f \in D : WaitsFor(f, c)
  BY DEF Circle
<1>2. task[f].pc \notin {"begun", "entry", "module"}
  BY BarelyBegun
<1> QED
  BY <1>1, <1>2, KeysOnly

\* Unless strings move in between, an import is in no deadlock that its keys do not cause.
THEOREM ImportsStayClear == Spec => []ImportsAvoidDeadlock
<1> QED
  BY InvariantHolds, OrderHolds, ClearNow, PTL
=================================================================================
