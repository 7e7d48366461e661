------------------------------ MODULE Catalog_proofs ------------------------------
(***************************************************************************)
(* What each request checks before it writes is enough: live strings and   *)
(* exported places stay apart, an import of drafts leaves the export as it *)
(* was, a push brings no removed string back, an export imports back as    *)
(* nothing and what the CLI is told comes true; for any sets of strings,   *)
(* modules, keys and texts, and files of any length.                       *)
(*                                                                         *)
(* Each request leaves one catalog (Leaves), which is sound when its live  *)
(* keys are apart and its exported places are those of before or checked.  *)
(* The plan of an import is a fold over the file; what it does is shown by *)
(* induction over its rows, for the theorems here and those of             *)
(* ImportEngine.                                                           *)
(***************************************************************************)
EXTENDS Catalog, FiniteSetTheorems, TLAPS
\* Every nonempty set of numbers has a least one.
LEMMA LeastNumber ==
    ASSUME NEW T, T \subseteq Nat, T # {}
    PROVE  \E x \in T : \A y \in T : x <= y
<1> DEFINE R == OpToRel(<, Nat)
<1>1. IsWellFoundedOn(R, Nat)
  BY NatLessThanWellFounded
<1>2. \A x, y \in Nat : <<x, y>> \in R <=> x < y
  BY DEF OpToRel
<1> HIDE DEF R
<1>3. PICK x \in T : \A y \in T : ~(<<y, x>> \in R)
  BY <1>1, WFMin
<1>4. ASSUME NEW y \in T
      PROVE  x <= y
  <2>1. x \in Nat /\ y \in Nat
    OBVIOUS
  <2>2. ~(y < x)
    BY <1>2, <1>3, <2>1
  <2> QED
    BY <2>1, <2>2
<1> QED
  BY <1>4

\* Induction over the natural numbers, about a set.
LEMMA Induction ==
    ASSUME NEW T \in SUBSET Nat, 0 \in T, \A n \in T : n + 1 \in T
    PROVE  T = Nat
<1> SUFFICES ASSUME Nat \ T # {}
             PROVE  FALSE
  OBVIOUS
<1>1. PICK x \in Nat \ T : \A y \in Nat \ T : x <= y
  BY LeastNumber
<1>2. x # 0 /\ x - 1 \in Nat /\ x - 1 \in T /\ x = (x - 1) + 1
  BY <1>1
<1> QED
  BY <1>1, <1>2

-----------------------------------------------------------------------------
(* The fold over the rows of a file is a run of states.                    *)

\* The function that FoldLeft defines by recursion, on the sets of positions.
FoldsRows(o, start, file, D, g) ==
    g = [U \in SUBSET D |->
            IF U = {} THEN start ELSE PlanRow(o, g[U \ {Max(U)}], file[Max(U)])]

\* The greatest of a set of numbers up to k + 1 that contains it.
LEMMA MaxUpTo ==
    ASSUME NEW k \in Nat, NEW U \in SUBSET (1..(k + 1)), k + 1 \in U
    PROVE  Max(U) = k + 1
<1>1. \A y \in U : k + 1 >= y
  OBVIOUS
<1>2. \A x \in U : (\A y \in U : x >= y) => x = k + 1
  OBVIOUS
<1> QED
  BY <1>1, <1>2 DEF Max

\* The function that the fold over the first n rows chooses exists.
LEMMA FoldExists ==
    ASSUME NEW o, NEW start, NEW file, NEW n \in Nat
    PROVE  \E g : FoldsRows(o, start, file, 1..n, g)
<1> DEFINE T == {k \in Nat : \E g : FoldsRows(o, start, file, 1..k, g)}
<1>1. 0 \in T
  <2> DEFINE g == [U \in SUBSET (1..0) |-> start]
  <2>1. FoldsRows(o, start, file, 1..0, g)
    <3>1. \A U \in SUBSET (1..0) : U = {}
      OBVIOUS
    <3> QED
      BY <3>1 DEF FoldsRows
  <2> QED
    BY <2>1
<1>2. ASSUME NEW k \in T
      PROVE  k + 1 \in T
  <2>0. k \in Nat /\ k + 1 \in Nat
    OBVIOUS
  <2>1. PICK g : FoldsRows(o, start, file, 1..k, g)
    OBVIOUS
  <2> DEFINE h == [U \in SUBSET (1..(k + 1)) |->
                      IF k + 1 \in U THEN PlanRow(o, g[U \ {k + 1}], file[k + 1]) ELSE g[U]]
  <2>2. ASSUME NEW U \in SUBSET (1..(k + 1))
        PROVE  h[U] = IF U = {} THEN start ELSE PlanRow(o, h[U \ {Max(U)}], file[Max(U)])
    <3>1. \A V \in SUBSET (1..k) : /\ V \in SUBSET (1..(k + 1)) /\ k + 1 \notin V
                                   /\ h[V] = g[V]
      BY <2>0
    <3>2. CASE k + 1 \in U
      <4>1. Max(U) = k + 1
        BY <2>0, <3>2, MaxUpTo
      <4>2. U \ {k + 1} \in SUBSET (1..k)
        BY <2>0
      <4>3. h[U \ {k + 1}] = g[U \ {k + 1}]
        BY <3>1, <4>2
      <4>4. h[U] = PlanRow(o, g[U \ {k + 1}], file[k + 1])
        BY <3>2
      <4>5. U # {}
        BY <3>2
      <4> HIDE DEF h
      <4> QED
        BY <4>1, <4>3, <4>4, <4>5
    <3>3. CASE k + 1 \notin U
      <4>1. U \in SUBSET (1..k)
        BY <2>0, <3>3
      <4>2. h[U] = g[U]
        BY <3>1, <4>1
      <4>3. h[U \ {Max(U)}] = g[U \ {Max(U)}]
        BY <3>1, <4>1
      <4>4. g[U] = IF U = {} THEN start ELSE PlanRow(o, g[U \ {Max(U)}], file[Max(U)])
        BY <2>1, <4>1 DEF FoldsRows
      <4> HIDE DEF h
      <4> QED
        BY <4>2, <4>3, <4>4
    <3> QED
      BY <3>2, <3>3
  <2>3. FoldsRows(o, start, file, 1..(k + 1), h)
    <3>1. h = [U \in SUBSET (1..(k + 1)) |-> h[U]]
      OBVIOUS
    <3> HIDE DEF h
    <3> QED
      BY <2>2, <3>1 DEF FoldsRows
  <2> QED
    BY <2>0, <2>3
<1>3. T = Nat
  <2>1. T \in SUBSET Nat
    OBVIOUS
  <2> HIDE DEF T
  <2> QED
    BY <1>1, <1>2, <2>1, Induction
<1> QED
  BY <1>3

PlanEnd(o, start, file) == FoldLeft(LAMBDA st, q : PlanRow(o, st, q), start, file)

\* A plan is made in a run of states, one for each row of the file.
LEMMA FoldIsRun ==
    ASSUME NEW o, NEW start, NEW S, NEW file \in Seq(S)
    PROVE  \E f : /\ f[0] = start
                  /\ \A k \in Nat : k < Len(file) => f[k + 1] = PlanRow(o, f[k], file[k + 1])
                  /\ PlanEnd(o, start, file) = f[Len(file)]
<1> DEFINE n == Len(file)
           g == CHOOSE e : FoldsRows(o, start, file, 1..n, e)
           f == [k \in Nat |-> g[1..k]]
<1>1. n \in Nat /\ DOMAIN file = 1..n
  OBVIOUS
<1>2. PlanEnd(o, start, file)
         = (CHOOSE e : FoldsRows(o, start, file, DOMAIN file, e))[DOMAIN file]
  BY DEF PlanEnd, FoldLeft, MapThenFoldSet, FoldsRows
<1>3. FoldsRows(o, start, file, 1..n, g)
  BY <1>1, FoldExists
<1> HIDE DEF g, n
<1>4. f[0] = start
  <2>1. 1..0 = {} /\ 1..0 \in SUBSET (1..n)
    OBVIOUS
  <2> QED
    BY <1>3, <2>1 DEF FoldsRows
<1>5. ASSUME NEW k \in Nat, k < n
      PROVE  f[k + 1] = PlanRow(o, f[k], file[k + 1])
  <2>1. 1..(k + 1) \in SUBSET (1..n) /\ 1..(k + 1) # {} /\ k + 1 \in 1..(k + 1)
    BY <1>1, <1>5
  <2>2. Max(1..(k + 1)) = k + 1
    BY <2>1, MaxUpTo
  <2>3. (1..(k + 1)) \ {k + 1} = 1..k
    OBVIOUS
  <2>4. g[1..(k + 1)] = PlanRow(o, g[(1..(k + 1)) \ {Max(1..(k + 1))}], file[Max(1..(k + 1))])
    BY <1>3, <2>1 DEF FoldsRows
  <2>5. g[1..(k + 1)] = PlanRow(o, g[1..k], file[k + 1])
    BY <2>2, <2>3, <2>4
  <2>6. f[k] = g[1..k] /\ f[k + 1] = g[1..(k + 1)]
    OBVIOUS
  <2> QED
    BY <2>5, <2>6
<1>6. PlanEnd(o, start, file) = f[n]
  <2>1. f[n] = g[1..n]
    BY <1>1
  <2> QED
    BY <1>1, <1>2, <2>1 DEF g
<1> HIDE DEF f
<1> QED
  BY <1>4, <1>5, <1>6 DEF n

-----------------------------------------------------------------------------
(* The modules of a file.                                                  *)

AddSlug(given, slug) == [given EXCEPT ![Least({m \in Modules : given[m] = None})] = slug]

\* The function that FoldSet defines by recursion, on the sets of slugs.
FoldsSlugs(mods, D, g) ==
    g = [U \in SUBSET D |-> IF U = {} THEN mods ELSE AddSlug(g[U \ {Only(U)}], Only(U))]

\* WithModules is a fold of AddSlug.
LEMMA WithModulesFold ==
    ASSUME NEW mods, NEW slugs
    PROVE  WithModules(mods, slugs) = (CHOOSE g : FoldsSlugs(mods, slugs, g))[slugs]
  BY DEF FoldSet, MapThenFoldSet, FoldsSlugs, WithModules, AddSlug, Only

\* The member that Only chooses is one.
LEMMA OnlyIn ==
    ASSUME NEW U, U # {}
    PROVE  Only(U) \in U
  BY DEF Only

\* The function that the fold over a finite set of slugs chooses exists.
LEMMA SlugFoldExists ==
    ASSUME NEW mods, NEW D, IsFiniteSet(D)
    PROVE  \E g : FoldsSlugs(mods, D, g)
<1> DEFINE Small(n) == {U \in SUBSET D : Cardinality(U) <= n}
           FoldsTo(n, g) ==
               g = [U \in Small(n) |->
                       IF U = {} THEN mods ELSE AddSlug(g[U \ {Only(U)}], Only(U))]
           T == {n \in Nat : \E g : FoldsTo(n, g)}
<1>0. \A U \in SUBSET D : /\ IsFiniteSet(U) /\ Cardinality(U) \in Nat
                          /\ Cardinality(U) = 0 <=> U = {}
                          /\ U # {} => /\ U \ {Only(U)} \in SUBSET D
                                       /\ Cardinality(U \ {Only(U)}) = Cardinality(U) - 1
  <2> TAKE U \in SUBSET D
  <2>1. IsFiniteSet(U)
    BY FS_Subset
  <2>2. Cardinality(U) \in Nat /\ (Cardinality(U) = 0 <=> U = {})
    BY <2>1, FS_CardinalityType, FS_EmptySet
  <2>3. ASSUME U # {}
        PROVE  Cardinality(U \ {Only(U)}) = Cardinality(U) - 1
    <3>1. Only(U) \in U
      BY <2>3, OnlyIn
    <3>2. Cardinality(U \ {Only(U)})
            = IF Only(U) \in U THEN Cardinality(U) - 1 ELSE Cardinality(U)
      BY <2>1, FS_RemoveElement
    <3> QED
      BY <3>1, <3>2
  <2> QED
    BY <2>1, <2>2, <2>3
<1>1. 0 \in T
  <2> DEFINE g == [U \in Small(0) |-> mods]
  <2>1. \A U \in Small(0) : U = {}
    <3> TAKE U \in Small(0)
    <3>1. U \in SUBSET D /\ Cardinality(U) <= 0
      OBVIOUS
    <3>2. Cardinality(U) \in Nat /\ (Cardinality(U) = 0 <=> U = {})
      BY <1>0, <3>1
    <3> QED
      BY <3>1, <3>2
  <2>2. FoldsTo(0, g)
    BY <2>1
  <2> QED
    BY <2>2
<1>2. ASSUME NEW n \in T
      PROVE  n + 1 \in T
  <2>0. n \in Nat
    OBVIOUS
  <2>1. PICK g : FoldsTo(n, g)
    OBVIOUS
  <2> DEFINE h == [U \in Small(n + 1) |->
                      IF U = {} THEN mods ELSE AddSlug(g[U \ {Only(U)}], Only(U))]
  <2>2. \A V \in Small(n) : V \in Small(n + 1) /\ h[V] = g[V]
    <3> TAKE V \in Small(n)
    <3>1. V \in Small(n + 1)
      <4>1. V \in SUBSET D /\ Cardinality(V) <= n
        OBVIOUS
      <4>2. Cardinality(V) \in Nat
        BY <1>0, <4>1
      <4>3. Cardinality(V) <= n + 1
        BY <2>0, <4>1, <4>2
      <4> QED
        BY <4>1, <4>3
    <3>2. g[V] = IF V = {} THEN mods ELSE AddSlug(g[V \ {Only(V)}], Only(V))
      BY <2>1
    <3> QED
      BY <3>1, <3>2
  <2>3. ASSUME NEW U \in Small(n + 1)
        PROVE  h[U] = IF U = {} THEN mods ELSE AddSlug(h[U \ {Only(U)}], Only(U))
    <3>1. U # {} => U \ {Only(U)} \in Small(n)
      BY <1>0, <2>0
    <3>2. U # {} => h[U \ {Only(U)}] = g[U \ {Only(U)}]
      BY <2>2, <3>1
    <3>3. h[U] = IF U = {} THEN mods ELSE AddSlug(g[U \ {Only(U)}], Only(U))
      OBVIOUS
    <3> HIDE DEF h
    <3> QED
      BY <3>2, <3>3
  <2>4. FoldsTo(n + 1, h)
    <3>1. h = [U \in Small(n + 1) |-> h[U]]
      OBVIOUS
    <3> HIDE DEF h, Small
    <3> QED
      BY <2>3, <3>1
  <2> HIDE DEF h, FoldsTo
  <2> QED
    BY <2>0, <2>4
<1>3. T = Nat
  <2>1. T \in SUBSET Nat
    OBVIOUS
  <2> HIDE DEF T
  <2> QED
    BY <1>1, <1>2, <2>1, Induction
<1>4. Cardinality(D) \in Nat
  BY FS_CardinalityType
<1>5. PICK g : FoldsTo(Cardinality(D), g)
  BY <1>3, <1>4
<1>6. Small(Cardinality(D)) = SUBSET D
  <2>1. \A U \in SUBSET D : Cardinality(U) <= Cardinality(D)
    BY FS_Subset
  <2> QED
    BY <2>1
<1>7. FoldsSlugs(mods, D, g)
  BY <1>5, <1>6 DEF FoldsSlugs
<1> QED
  BY <1>7

\* _create_references keeps the modules there are, and gives each id that it takes a
\* slug of its own among the new ones.
LEMMA WithModulesAdds ==
    ASSUME NEW mods \in [Modules -> Slugs \cup {None}], NEW slugs \in SUBSET Slugs,
           IsFiniteSet(slugs), None \notin Slugs
    PROVE  /\ WithModules(mods, {}) = mods
           /\ WithModules(mods, slugs) \in [Modules -> Slugs \cup {None}]
           /\ \A m \in Modules :
                 /\ mods[m] # None => WithModules(mods, slugs)[m] # None
                 /\ WithModules(mods, slugs)[m] # mods[m] => WithModules(mods, slugs)[m] \in slugs
           /\ \A i, j \in Modules :
                 /\ WithModules(mods, slugs)[i] # mods[i]
                 /\ WithModules(mods, slugs)[j] # mods[j]
                 /\ WithModules(mods, slugs)[i] = WithModules(mods, slugs)[j]
                 => i = j
<1> DEFINE g == CHOOSE e : FoldsSlugs(mods, slugs, e)
           Added(U) ==
               /\ g[U] \in [Modules -> Slugs \cup {None}]
               /\ \A m \in Modules : /\ mods[m] # None => g[U][m] # None
                                     /\ g[U][m] # mods[m] => g[U][m] \in U
               /\ \A i, j \in Modules :
                     g[U][i] # mods[i] /\ g[U][j] # mods[j] /\ g[U][i] = g[U][j] => i = j
           T == {n \in Nat : \A U \in SUBSET slugs : Cardinality(U) = n => Added(U)}
<1>1. FoldsSlugs(mods, slugs, g)
  BY SlugFoldExists
<1>2. WithModules(mods, slugs) = g[slugs]
  BY WithModulesFold
<1>3. WithModules(mods, {}) = mods
  <2>1. \E e : FoldsSlugs(mods, {}, e)
    BY SlugFoldExists, FS_EmptySet
  <2>2. FoldsSlugs(mods, {}, CHOOSE e : FoldsSlugs(mods, {}, e))
    BY <2>1
  <2>3. (CHOOSE e : FoldsSlugs(mods, {}, e))[{}] = mods
    BY <2>2 DEF FoldsSlugs
  <2> QED
    BY <2>3, WithModulesFold
<1>4. g[{}] = mods
  BY <1>1 DEF FoldsSlugs
<1>5. \A U \in SUBSET slugs : U # {} => g[U] = AddSlug(g[U \ {Only(U)}], Only(U))
  BY <1>1 DEF FoldsSlugs
<1> HIDE DEF g
<1>6. \A U \in SUBSET slugs : IsFiniteSet(U) /\ Cardinality(U) \in Nat
  BY FS_Subset, FS_CardinalityType
<1>7. 0 \in T
  <2>1. \A U \in SUBSET slugs : Cardinality(U) = 0 => U = {}
    BY <1>6, FS_EmptySet
  <2>2. Added({})
    BY <1>4
  <2> QED
    BY <2>1, <2>2
<1>8. ASSUME NEW n \in T
      PROVE  n + 1 \in T
  <2> SUFFICES ASSUME NEW U \in SUBSET slugs, Cardinality(U) = n + 1
               PROVE  Added(U)
    OBVIOUS
  <2> DEFINE x == Only(U)
             V == U \ {x}
  <2>0. n \in Nat /\ n + 1 # 0
    OBVIOUS
  <2>1. U # {}
    BY <2>0, FS_EmptySet
  <2>2. x \in U
    BY <2>1, OnlyIn
  <2>3. V \in SUBSET slugs /\ Cardinality(V) = n
    <3>1. Cardinality(V) = IF x \in U THEN Cardinality(U) - 1 ELSE Cardinality(U)
      BY <1>6, FS_RemoveElement
    <3> QED
      BY <2>0, <2>2, <3>1
  <2>4. Added(V)
    BY <2>3
  <2>5. g[U] = AddSlug(g[V], x)
    BY <1>5, <2>1
  <2>6. x \in Slugs /\ x # None /\ x \notin V
    BY <2>2
  <2> HIDE DEF x, V
  <2> DEFINE id == Least({m \in Modules : g[V][m] = None})
             old == g[V]
  <2>7. /\ old \in [Modules -> Slugs \cup {None}]
        /\ g[U] = [old EXCEPT ![id] = x]
    BY <2>4, <2>5 DEF AddSlug
  <2> HIDE DEF id
  <2>8. g[U] \in [Modules -> Slugs \cup {None}]
    <3> HIDE DEF old
    <3> QED
      BY <2>6, <2>7
  <2>11. \A m \in Modules : g[U][m] = g[V][m] \/ (m = id /\ g[U][m] = x)
    <3>1. \A m \in Modules : g[U][m] = IF m = id THEN x ELSE old[m]
      <4> HIDE DEF old
      <4>1. g[U] = [m \in Modules |-> IF m = id THEN x ELSE old[m]]
        BY <2>7
      <4> QED
        BY <4>1
    <3> TAKE m \in Modules
    <3>2. CASE m = id
      BY <3>1, <3>2
    <3>3. CASE m # id
      BY <3>1, <3>3
    <3> QED
      BY <3>2, <3>3
  <2>9. \A m \in Modules : /\ mods[m] # None => g[U][m] # None
                           /\ g[U][m] # mods[m] => g[U][m] \in U
    BY <2>2, <2>4, <2>6, <2>11 DEF V
  <2>10. ASSUME NEW i \in Modules, NEW j \in Modules,
                g[U][i] # mods[i], g[U][j] # mods[j], g[U][i] = g[U][j]
         PROVE  i = j
    <3>1. g[U][i] = g[V][i] => g[V][i] \in V
      BY <2>4, <2>10
    <3>2. g[U][j] = g[V][j] => g[V][j] \in V
      BY <2>4, <2>10
    <3> QED
      BY <2>4, <2>6, <2>11, <2>10, <3>1, <3>2
  <2> QED
    BY <2>8, <2>9, <2>10
<1>9. T = Nat
  <2>1. T \in SUBSET Nat
    OBVIOUS
  <2> HIDE DEF T
  <2> QED
    BY <1>7, <1>8, <2>1, Induction
<1>10. Added(slugs)
  BY <1>6, <1>9
<1> QED
  BY <1>2, <1>3, <1>10

-----------------------------------------------------------------------------
(* What a file does to a row.                                              *)

FullRows ==
    [key: Keys, mod: Modules \cup {None}, text: Texts, tr: Texts, pub: Contents \cup {None},
     status: {"draft", "public"}, pending: BOOLEAN, deleted: BOOLEAN]

\* A row of the table is empty or in use.
LEMMA RowKinds ==
    /\ Rows = {NoRow} \cup FullRows
    /\ ~Exists(NoRow) /\ NoRow.mod = None /\ NoRow.pub = None /\ ~NoRow.deleted
    /\ \A r \in FullRows : Exists(r)
    /\ \A r \in Rows : Exists(r) <=> r \in FullRows
    /\ \A r \in Rows : ~Exists(r) <=> r = NoRow
  BY DEF Rows, FullRows, NoRow, Exists

\* The row that a row of a file makes of a string, new or not.
LEMMA ImportedRow ==
    ASSUME NEW q \in ImportRows, NEW m \in Modules \cup {None}, NEW r \in Rows,
           NEW public \in BOOLEAN, NEW i, i = Imported(q, m, r, public)
    PROVE  /\ i \in FullRows /\ ~i.deleted /\ i.pub = r.pub
           /\ Exists(r) => /\ i.key = r.key /\ i.mod = r.mod
                           /\ i.status = IF r.deleted THEN "draft" ELSE r.status
           /\ ~Exists(r) => /\ i.key = q.key /\ i.mod = m
                            /\ i.status = IF public THEN "public" ELSE "draft"
<1> USE RowsAssumption
<1>1. q.key \in Keys /\ q.text \in Texts \cup {None} /\ q.tr \in Texts \cup {None}
  BY DEF ImportRows
<1> DEFINE old == IF Exists(r) THEN [r EXCEPT !.text = Source(q, r)] ELSE Created(q, m, public)
           now == Revived(q, old)
<1>2. CASE Exists(r)
  <2>1. r \in FullRows
    BY <1>2, RowKinds
  <2>2. Source(q, r) \in Texts
    BY <1>1, <1>2, <2>1 DEF Source, FullRows
  <2>3. /\ old \in FullRows /\ old.key = r.key /\ old.mod = r.mod /\ old.pub = r.pub
        /\ old.status = r.status /\ old.deleted = r.deleted
    BY <1>2, <2>1, <2>2 DEF FullRows
  <2> HIDE DEF old
  <2>4. /\ now \in FullRows /\ now.key = r.key /\ now.mod = r.mod /\ now.pub = r.pub
        /\ ~now.deleted
        /\ now.status = IF r.deleted THEN "draft" ELSE r.status
    BY <2>1, <2>3 DEF Revived, FullRows
  <2>5. Imported(q, m, r, public) = IF q.tr = None THEN now ELSE [now EXCEPT !.tr = q.tr]
    BY DEF Imported, old
  <2> HIDE DEF now
  <2> QED
    BY <1>1, <1>2, <2>4, <2>5 DEF FullRows
<1>3. CASE ~Exists(r)
  <2>1. r = NoRow
    BY <1>3, RowKinds
  <2>2. Source(q, NoRow) \in Texts
    BY <1>1, RowKinds DEF Source
  <2>3. /\ old \in FullRows /\ old.key = q.key /\ old.mod = m /\ old.pub = None
        /\ old.status = (IF public THEN "public" ELSE "draft") /\ ~old.deleted
    BY <1>1, <1>3, <2>2 DEF FullRows, Created, NoRow
  <2> HIDE DEF old
  <2>4. /\ now \in FullRows /\ now.key = q.key /\ now.mod = m /\ now.pub = None
        /\ ~now.deleted /\ now.status = (IF public THEN "public" ELSE "draft")
    BY <2>3 DEF Revived, FullRows
  <2>5. Imported(q, m, r, public) = IF q.tr = None THEN now ELSE [now EXCEPT !.tr = q.tr]
    BY DEF Imported, old
  <2> HIDE DEF now
  <2> QED
    BY <1>1, <1>3, <2>1, <2>4, <2>5, RowKinds DEF FullRows
<1> QED
  BY <1>2, <1>3

\* The least of some numbers is one of them.
LEMMA LeastIn ==
    ASSUME NEW U, U \subseteq Nat, U # {}
    PROVE  Least(U) \in U
<1>1. \E x \in U : \A y \in U : x <= y
  BY LeastNumber
<1> QED
  BY <1>1 DEF Least

\* When enough ids are free, each new slug gets one, and no module is renamed.
LEMMA WithModulesFit ==
    ASSUME NEW mods \in [Modules -> Slugs \cup {None}], NEW slugs \in SUBSET Slugs,
           IsFiniteSet(slugs),
           Cardinality(slugs) <= Cardinality({m \in Modules : mods[m] = None})
    PROVE  /\ \A m \in Modules : mods[m] # None => WithModules(mods, slugs)[m] = mods[m]
           /\ \A slug \in slugs : \E m \in Modules : WithModules(mods, slugs)[m] = slug
<1> DEFINE g == CHOOSE e : FoldsSlugs(mods, slugs, e)
           Free(given) == {m \in Modules : given[m] = None}
           Fitted(U) ==
               /\ g[U] \in [Modules -> Slugs \cup {None}]
               /\ \A m \in Modules : mods[m] # None => g[U][m] = mods[m]
               /\ \A slug \in U : \E m \in Modules : g[U][m] = slug
               /\ Cardinality(Free(g[U])) + Cardinality(U) = Cardinality(Free(mods))
           T == {n \in Nat : \A U \in SUBSET slugs : Cardinality(U) = n => Fitted(U)}
<1>1. FoldsSlugs(mods, slugs, g)
  BY SlugFoldExists
<1>2. WithModules(mods, slugs) = g[slugs]
  BY WithModulesFold
<1>3. g[{}] = mods
  BY <1>1 DEF FoldsSlugs
<1>4. \A U \in SUBSET slugs : U # {} => g[U] = AddSlug(g[U \ {Only(U)}], Only(U))
  BY <1>1 DEF FoldsSlugs
<1> HIDE DEF g
<1>5. \A U \in SUBSET slugs : /\ IsFiniteSet(U) /\ Cardinality(U) \in Nat
                              /\ Cardinality(U) <= Cardinality(slugs)
  BY FS_Subset, FS_CardinalityType
<1>6. \A given : IsFiniteSet(Free(given)) /\ Cardinality(Free(given)) \in Nat
  <2> TAKE given
  <2>1. Free(given) \subseteq Modules
    OBVIOUS
  <2> HIDE DEF Free
  <2> QED
    BY <2>1, RowsAssumption, FS_Subset, FS_CardinalityType
<1>7. 0 \in T
  <2>1. \A U \in SUBSET slugs : Cardinality(U) = 0 => U = {}
    BY <1>5, FS_EmptySet
  <2>2. Cardinality({}) = 0
    BY FS_EmptySet
  <2>3. Fitted({})
    <3>1. Cardinality(Free(g[{}])) + Cardinality({}) = Cardinality(Free(mods))
      <4> HIDE DEF Free
      <4> QED
        BY <1>3, <1>6, <2>2
    <3> QED
      BY <1>3, <3>1
  <2> HIDE DEF Fitted
  <2> QED
    BY <2>1, <2>3
<1>8. ASSUME NEW n \in T
      PROVE  n + 1 \in T
  <2> SUFFICES ASSUME NEW U \in SUBSET slugs, Cardinality(U) = n + 1
               PROVE  Fitted(U)
    OBVIOUS
  <2> DEFINE x == Only(U)
             V == U \ {x}
             old == g[V]
             id == Least(Free(old))
  <2>0. n \in Nat /\ n + 1 # 0
    OBVIOUS
  <2>1. U # {}
    BY <2>0, FS_EmptySet
  <2>2. x \in U /\ x \in Slugs
    BY <2>1, OnlyIn
  <2>3. V \in SUBSET slugs /\ Cardinality(V) = n
    <3>1. Cardinality(V) = IF x \in U THEN Cardinality(U) - 1 ELSE Cardinality(U)
      BY <1>5, FS_RemoveElement
    <3> QED
      BY <2>0, <2>2, <3>1
  <2>4. Fitted(V)
    BY <2>3
  <2>5. g[U] = AddSlug(old, x)
    BY <1>4, <2>1
  <2>6. x # None
    BY <2>2, RowsAssumption
  <2>7. U = V \cup {x}
    BY <2>2
  <2> HIDE DEF x, V
  <2>8. Free(old) # {}
    <3>1. Cardinality(Free(old)) + n = Cardinality(Free(mods))
      BY <2>3, <2>4
    <3>2. n + 1 <= Cardinality(Free(mods))
      <4>1. n + 1 <= Cardinality(slugs) /\ Cardinality(slugs) \in Nat
        BY <1>5
      <4>2. Cardinality(Free(mods)) \in Nat
        BY <1>6
      <4> QED
        BY <2>0, <4>1, <4>2
    <3> HIDE DEF Free, old
    <3>3. Cardinality(Free(old)) \in Nat /\ Cardinality(Free(mods)) \in Nat
      BY <1>6
    <3>4. Cardinality(Free(old)) # 0
      BY <2>0, <3>1, <3>2, <3>3
    <3> QED
      BY <3>4, FS_EmptySet
  <2>9. id \in Modules /\ old[id] = None
    <3>1. Free(old) \subseteq Nat
      BY RowsAssumption
    <3>2. id \in Free(old)
      <4> HIDE DEF Free, old
      <4> QED
        BY <2>8, <3>1, LeastIn
    <3> QED
      BY <3>2
  <2>10. old \in [Modules -> Slugs \cup {None}] /\ g[U] = [old EXCEPT ![id] = x]
    BY <2>4, <2>5 DEF AddSlug
  <2> HIDE DEF id
  <2>11. /\ g[U] \in [Modules -> Slugs \cup {None}]
         /\ g[U][id] = x
         /\ \A m \in Modules \ {id} : g[U][m] = old[m]
    <3> HIDE DEF old
    <3> QED
      BY <2>2, <2>9, <2>10
  <2>12. \A m \in Modules : mods[m] # None => g[U][m] = mods[m]
    BY <2>4, <2>9, <2>11
  <2>13. \A slug \in U : \E m \in Modules : g[U][m] = slug
    <3> TAKE slug \in U
    <3>1. CASE slug = x
      BY <2>9, <2>11, <3>1
    <3>2. CASE slug # x
      <4>1. PICK m \in Modules : old[m] = slug
        BY <2>4, <2>7, <3>2
      <4>2. slug # None
        BY RowsAssumption
      <4> QED
        BY <2>9, <2>11, <4>1, <4>2
    <3> QED
      BY <3>1, <3>2
  <2>14. Cardinality(Free(g[U])) + Cardinality(U) = Cardinality(Free(mods))
    <3>1. Free(g[U]) = Free(old) \ {id}
      BY <2>6, <2>9, <2>11
    <3>2. id \in Free(old)
      BY <2>9
    <3>3. IsFiniteSet(Free(old)) /\ Cardinality(Free(old)) \in Nat
      BY <1>6
    <3>4. Cardinality(Free(old)) + n = Cardinality(Free(mods))
      BY <2>3, <2>4
    <3> HIDE DEF Free, old
    <3>5. Cardinality(Free(old) \ {id}) = Cardinality(Free(old)) - 1
      BY <3>2, <3>3, FS_RemoveElement
    <3> QED
      BY <2>0, <3>1, <3>3, <3>4, <3>5
  <2> QED
    BY <2>11, <2>12, <2>13, <2>14
<1>9. T = Nat
  <2>1. T \in SUBSET Nat
    OBVIOUS
  <2> HIDE DEF T
  <2> QED
    BY <1>7, <1>8, <2>1, Induction
<1>10. Fitted(slugs)
  BY <1>5, <1>9
<1> QED
  BY <1>2, <1>10

\* What a row of a file may name are strings.
LEMMA CandidatesAreStrings ==
    ASSUME NEW view, NEW q, NEW m, NEW allow
    PROVE  Candidates(view, q, m, allow) \subseteq Strings
<1> DEFINE live == LiveWith(view, q.key)
           dead == DeadWith(view, q.key)
           one(S) == IF S = {} THEN {} ELSE {Least(S)}
<1>1. live \subseteq Strings /\ dead \subseteq Strings
  BY DEF LiveWith, DeadWith
<1>2. \A S \in SUBSET Strings : one(S) \subseteq Strings
  <2> TAKE S \in SUBSET Strings
  <2>1. S \subseteq Nat
    BY RowsAssumption
  <2>2. S # {} => Least(S) \in S
    BY <2>1, LeastIn
  <2> QED
    BY <2>2
<1>3. /\ Within(view, live, m) \in SUBSET Strings
      /\ Within(view, dead, m) \in SUBSET Strings
      /\ Within(view, dead, None) \in SUBSET Strings
  BY <1>1 DEF Within
<1>4. Candidates(view, q, m, allow) \in
        {Within(view, live, m), one(Within(view, dead, m)), live, dead,
         one(Within(view, dead, None)), one(dead)}
  <2> HIDE DEF live, dead
  <2> QED
    BY DEF Candidates, live, dead
<1> HIDE DEF live, dead, one
<1> QED
  BY <1>1, <1>2, <1>3, <1>4

-----------------------------------------------------------------------------
(* What a plan is.                                                         *)

KeysIn(file) == {file[i].key : i \in DOMAIN file}
FileMods(view, file) ==
    {m \in Modules : view.mods[m] \in {file[i].ref : i \in DOMAIN file} \ {None}}

\* What the rows of a file may have made of the row v.
RowOf(public, keys, mods, v, r) ==
    /\ r \in FullRows /\ ~r.deleted /\ r.pub = v.pub
    /\ Exists(v) => /\ r.key = v.key /\ r.mod = v.mod
                    /\ r.status = IF v.deleted THEN "draft" ELSE v.status
    /\ ~Exists(v) => /\ r.key \in keys /\ r.mod \in mods \cup {None}
                     /\ r.status = IF public THEN "public" ELSE "draft"

\* An id when none is left.
NoId == Least({t \in Strings : FALSE})

PlanStates ==
    [cat: Catalogs, touched: SUBSET (Strings \cup {NoId}), creates: Nat, updates: Nat,
     clash: BOOLEAN]

Planned(public, view, file, st) ==
    /\ st \in PlanStates
    /\ st.cat.mods = view.mods
    /\ \A s \in Strings :
          IF s \in st.touched
          THEN RowOf(public, KeysIn(file), FileMods(view, file), view.rows[s], st.cat.rows[s])
          ELSE st.cat.rows[s] = view.rows[s]

PlanOptions == [duplicates: BOOLEAN, public: BOOLEAN, reject: BOOLEAN, dry: BOOLEAN]

\* Another row of the file keeps what a plan may have done so far.
LEMMA PlanRowKeeps ==
    ASSUME NEW o \in PlanOptions, NEW view \in Catalogs, NEW file \in Seq(ImportRows),
           NewSlugs(view, file) = {}, NEW k \in DOMAIN file,
           NEW st, Planned(o.public, view, file, st)
    PROVE  Planned(o.public, view, file, PlanRow(o, st, file[k]))
<1> DEFINE q == file[k]
           mods == FileMods(view, file)
           keys == KeysIn(file)
           home == Only(RefIds(st.cat, q))
           named == Candidates(st.cat, q, home, o.duplicates)
           s == Least(IF named = {} THEN {t \in Strings : ~Exists(st.cat.rows[t])} ELSE named)
           r == st.cat.rows[s]
           live == LiveWith(st.cat, q.key)
           skip == Skips(o, q, r)
           new == Imported(q, home, r, o.public)
           after == IF skip THEN st.cat ELSE [st.cat EXCEPT !.rows[s] = new]
<1>1. q \in ImportRows /\ o.public \in BOOLEAN /\ o.duplicates \in BOOLEAN
  BY DEF PlanOptions
<1>2. st \in PlanStates /\ st.cat \in Catalogs /\ st.cat.mods = view.mods
  BY DEF Planned, PlanStates
<1>3. home \in mods \cup {None}
  <2>1. q.ref # None => \E m \in Modules : view.mods[m] = q.ref
    <3>1. q.ref \in {file[i].ref : i \in DOMAIN file}
      OBVIOUS
    <3> QED
      BY <3>1 DEF NewSlugs
  <2>2. RefIds(st.cat, q) # {} /\ RefIds(st.cat, q) \subseteq mods \cup {None}
    <3>1. CASE q.ref = None
      BY <3>1 DEF RefIds
    <3>2. CASE q.ref # None
      <4>1. RefIds(st.cat, q) = {m \in Modules : view.mods[m] = q.ref}
        BY <1>2, <3>2 DEF RefIds, ModuleIds
      <4>2. q.ref \in {file[i].ref : i \in DOMAIN file} \ {None}
        BY <3>2
      <4> QED
        BY <2>1, <3>2, <4>1, <4>2 DEF FileMods
    <3> QED
      BY <3>1, <3>2
  <2> QED
    BY <2>2, OnlyIn
<1>4. named \subseteq Strings
  BY CandidatesAreStrings
<1>5. s \in Strings \cup {NoId}
  <2>1. CASE named # {}
    <3>1. s = Least(named)
      BY <2>1
    <3>2. named \subseteq Nat
      BY <1>4, RowsAssumption
    <3> HIDE DEF s, named
    <3>3. Least(named) \in named
      BY <2>1, <3>2, LeastIn
    <3> QED
      BY <1>4, <3>1, <3>3
  <2>2. CASE named = {}
    <3> DEFINE free == {t \in Strings : ~Exists(st.cat.rows[t])}
    <3>1. s = Least(free)
      BY <2>2
    <3>2. free \subseteq Strings /\ free \subseteq Nat
      BY RowsAssumption
    <3>3. free = {} => free = {t \in Strings : FALSE}
      OBVIOUS
    <3> HIDE DEF s, free
    <3>4. free # {} => Least(free) \in free
      BY <3>2, LeastIn
    <3>5. CASE free = {}
      BY <3>1, <3>3, <3>5 DEF NoId
    <3>6. CASE free # {}
      BY <3>1, <3>2, <3>4, <3>6
    <3> QED
      BY <3>5, <3>6
  <2> QED
    BY <2>1, <2>2
<1>6. PlanRow(o, st, q)
        = [cat |-> after,
           touched |-> st.touched \cup (IF skip THEN {} ELSE {s}),
           creates |-> st.creates + (IF named = {} THEN 1 ELSE 0),
           updates |-> st.updates + (IF Counts(o, q, r) THEN 1 ELSE 0),
           clash |-> st.clash \/ (~o.duplicates /\ live # {} /\ live # named)]
  BY DEF PlanRow
<1>7. mods \subseteq Modules /\ q.key \in keys
  BY DEF FileMods, KeysIn
<1> HIDE DEF home, named, live, skip, q, mods, keys
<1>8. s \in Strings => /\ r \in Rows
                       /\ new \in FullRows /\ ~new.deleted /\ new.pub = r.pub
                       /\ Exists(r) => /\ new.key = r.key /\ new.mod = r.mod
                                       /\ new.status = IF r.deleted THEN "draft" ELSE r.status
                       /\ ~Exists(r) => /\ new.key = q.key /\ new.mod = home
                                        /\ new.status = IF o.public THEN "public" ELSE "draft"
  <2> SUFFICES ASSUME s \in Strings
               PROVE  /\ r \in Rows
                      /\ new \in FullRows /\ ~new.deleted /\ new.pub = r.pub
                      /\ Exists(r) => /\ new.key = r.key /\ new.mod = r.mod
                                      /\ new.status = IF r.deleted THEN "draft" ELSE r.status
                      /\ ~Exists(r) => /\ new.key = q.key /\ new.mod = home
                                       /\ new.status = IF o.public THEN "public" ELSE "draft"
    OBVIOUS
  <2> HIDE DEF s
  <2>1. r \in Rows
    BY <1>2 DEF Catalogs
  <2>2. home \in Modules \cup {None}
    BY <1>3, <1>7
  <2> HIDE DEF r, new
  <2> QED
    BY <1>1, <2>1, <2>2, ImportedRow DEF new
<1>9. s \in Strings => RowOf(o.public, keys, mods, view.rows[s], new)
  <2> SUFFICES ASSUME s \in Strings
               PROVE  RowOf(o.public, keys, mods, view.rows[s], new)
    OBVIOUS
  <2>1. IF s \in st.touched THEN RowOf(o.public, keys, mods, view.rows[s], r) ELSE r = view.rows[s]
    <3> HIDE DEF s
    <3> QED
      BY DEF Planned, mods, keys
  <2> HIDE DEF s, r, new
  <2>2. CASE s \in st.touched
    <3>1. RowOf(o.public, keys, mods, view.rows[s], r) /\ Exists(r)
      BY <2>1, <2>2, RowKinds DEF RowOf
    <3> QED
      BY <1>8, <3>1 DEF RowOf
  <2>3. CASE s \notin st.touched
    <3>1. r = view.rows[s]
      BY <2>1, <2>3
    <3> QED
      BY <1>3, <1>7, <1>8, <3>1 DEF RowOf
  <2> QED
    BY <2>2, <2>3
<1>10. /\ after \in Catalogs /\ after.mods = view.mods
       /\ \A t \in Strings : after.rows[t] = IF t = s /\ ~skip THEN new ELSE st.cat.rows[t]
  <2>0. st.cat.rows \in [Strings -> Rows] /\ st.cat.mods \in [Modules -> Slugs \cup {None}]
    BY <1>2 DEF Catalogs
  <2>1. s \in Strings => new \in Rows
    BY <1>8, RowKinds
  <2> HIDE DEF s, r, new
  <2>2. CASE skip
    BY <1>2, <2>2
  <2>3. CASE ~skip
    <3> DEFINE rows == [st.cat.rows EXCEPT ![s] = new]
    <3>1. after = [st.cat EXCEPT !.rows = rows]
      BY <2>3
    <3>2. rows \in [Strings -> Rows]
      BY <2>0, <2>1
    <3>3. \A t \in Strings : rows[t] = IF t = s THEN new ELSE st.cat.rows[t]
      BY <2>0
    <3> HIDE DEF rows, after
    <3> QED
      BY <1>2, <2>0, <2>3, <3>1, <3>2, <3>3 DEF Catalogs
  <2> QED
    BY <2>2, <2>3
<1> HIDE DEF s, r, new, after
<1>11. PlanRow(o, st, q) \in PlanStates
  BY <1>2, <1>5, <1>6, <1>10 DEF PlanStates
<1>12. ASSUME NEW t \in Strings
       PROVE  IF t \in PlanRow(o, st, q).touched
              THEN RowOf(o.public, keys, mods, view.rows[t], PlanRow(o, st, q).cat.rows[t])
              ELSE PlanRow(o, st, q).cat.rows[t] = view.rows[t]
  <2>1. /\ PlanRow(o, st, q).cat = after
        /\ PlanRow(o, st, q).touched = st.touched \cup (IF skip THEN {} ELSE {s})
    BY <1>6
  <2>2. IF t \in st.touched THEN RowOf(o.public, keys, mods, view.rows[t], st.cat.rows[t])
        ELSE st.cat.rows[t] = view.rows[t]
    BY DEF Planned, mods, keys
  <2>3. CASE t = s /\ ~skip
    BY <1>9, <1>10, <2>1, <2>3
  <2>4. CASE ~(t = s /\ ~skip)
    BY <1>10, <2>1, <2>2, <2>4
  <2> QED
    BY <2>3, <2>4
<1> QED
  BY <1>6, <1>10, <1>11, <1>12 DEF Planned, q, mods, keys

ImportPlans ==
    [cat: Catalogs, touched: SUBSET (Strings \cup {NoId}), creates: Nat, updates: Nat,
     clash: BOOLEAN]

\* What a plan has made of the row v.
PlannedRow(public, keys, mods, v, r) ==
    /\ r \in FullRows /\ ~r.deleted
    /\ Exists(v) => r.key = v.key /\ r.mod = v.mod
    /\ ~Exists(v) => r.key \in keys /\ r.mod \in mods \cup {None}
    /\ IF public
       THEN r.pub # None /\ (r.pub = v.pub \/ r.pub = Content(r))
       ELSE /\ r.pub = v.pub
            /\ r.status = IF Exists(v) /\ ~v.deleted THEN v.status ELSE "draft"

\* The plan of an import, whatever the file: it changes the strings that it names as
\* touched, and those as the file says.
LEMMA PlanFacts ==
    ASSUME NEW o \in PlanOptions, NEW view \in Catalogs, NEW file \in Seq(ImportRows),
           NewSlugs(view, file) = {}, NEW p, p = Plan(o, view, file)
    PROVE  /\ p \in ImportPlans
           /\ p.cat.mods = view.mods
           /\ \A s \in Strings :
                 IF s \in p.touched
                 THEN PlannedRow(o.public, KeysIn(file), FileMods(view, file), view.rows[s],
                                 p.cat.rows[s])
                 ELSE p.cat.rows[s] = view.rows[s]
<1> USE RowsAssumption
<1> DEFINE n == Len(file)
           start == [cat |-> [view EXCEPT !.mods = WithModules(@, NewSlugs(view, file))],
                     touched |-> {}, creates |-> 0, updates |-> 0, clash |-> FALSE]
           end == PlanEnd(o, start, file)
<1>0. /\ n \in Nat /\ DOMAIN file = 1..n
      /\ view.rows \in [Strings -> Rows] /\ view.mods \in [Modules -> Slugs \cup {None}]
      /\ o.public \in BOOLEAN
  BY DEF Catalogs, PlanOptions
<1>1. Planned(o.public, view, file, start)
  <2>1. WithModules(view.mods, {}) = view.mods
    BY <1>0, WithModulesAdds, FS_EmptySet
  <2>2. [view EXCEPT !.mods = view.mods] = view
    BY DEF Catalogs
  <2>3. start = [cat |-> view, touched |-> {}, creates |-> 0, updates |-> 0, clash |-> FALSE]
    BY <2>1, <2>2
  <2> HIDE DEF start
  <2> QED
    BY <2>3 DEF Planned, PlanStates
<1> HIDE DEF start
<1>2. PICK f : /\ f[0] = start
               /\ \A k \in Nat : k < n => f[k + 1] = PlanRow(o, f[k], file[k + 1])
               /\ end = f[n]
  BY FoldIsRun
<1>3. Planned(o.public, view, file, end)
  <2> DEFINE T == {k \in Nat : k <= n => Planned(o.public, view, file, f[k])}
  <2>1. 0 \in T
    BY <1>1, <1>2
  <2>2. ASSUME NEW k \in T
        PROVE  k + 1 \in T
    <3> SUFFICES ASSUME k + 1 <= n
                 PROVE  Planned(o.public, view, file, f[k + 1])
      OBVIOUS
    <3>1. k \in Nat /\ k < n /\ k + 1 \in DOMAIN file /\ Planned(o.public, view, file, f[k])
      BY <1>0
    <3>2. f[k + 1] = PlanRow(o, f[k], file[k + 1])
      BY <1>2, <3>1
    <3> QED
      BY <3>1, <3>2, PlanRowKeeps
  <2>3. T = Nat
    <3>1. T \in SUBSET Nat
      OBVIOUS
    <3> HIDE DEF T
    <3> QED
      BY <2>1, <2>2, <3>1, Induction
  <2>4. Planned(o.public, view, file, f[n])
    BY <1>0, <2>3
  <2> QED
    BY <1>2, <2>4
<1>4. p = [end EXCEPT !.cat.rows = [s \in Strings |->
              IF s \in Shipped(o, end) THEN Promoted(@[s]) ELSE @[s]]]
  BY DEF Plan, PlanEnd, FoldLeft, MapThenFoldSet, start
<1> HIDE DEF end
<1> DEFINE rows == [s \in Strings |->
              IF s \in Shipped(o, end) THEN Promoted(end.cat.rows[s]) ELSE end.cat.rows[s]]
<1>5. /\ end \in PlanStates /\ end.cat \in Catalogs /\ end.cat.mods = view.mods
      /\ end.cat.rows \in [Strings -> Rows]
  BY <1>3 DEF Planned, PlanStates, Catalogs
<1>6. /\ p.cat.rows = rows /\ p.cat.mods = view.mods
      /\ p.touched = end.touched
      /\ p = [cat |-> [rows |-> rows, mods |-> view.mods], touched |-> end.touched,
              creates |-> end.creates, updates |-> end.updates, clash |-> end.clash]
  <2>1. p = [end EXCEPT !.cat = [end.cat EXCEPT !.rows = rows]]
    BY <1>4
  <2>2. [end.cat EXCEPT !.rows = rows] = [rows |-> rows, mods |-> view.mods]
    <3> HIDE DEF rows
    <3> QED
      BY <1>5 DEF Catalogs
  <2> HIDE DEF rows
  <2> QED
    BY <1>5, <2>1, <2>2 DEF PlanStates
<1>7. ASSUME NEW s \in Strings
      PROVE  /\ rows[s] \in Rows
             /\ IF s \in end.touched
                THEN PlannedRow(o.public, KeysIn(file), FileMods(view, file), view.rows[s],
                                rows[s])
                ELSE rows[s] = view.rows[s]
  <2> DEFINE v == view.rows[s]
             e == end.cat.rows[s]
             mods == FileMods(view, file)
             keys == KeysIn(file)
  <2>1. e \in Rows /\ v \in Rows
    BY <1>0, <1>5
  <2>2. IF s \in end.touched THEN RowOf(o.public, keys, mods, v, e) ELSE e = v
    BY <1>3 DEF Planned
  <2>3. rows[s] = IF s \in Shipped(o, end) THEN Promoted(e) ELSE e
    OBVIOUS
  <2>4. s \in Shipped(o, end) <=> o.public /\ s \in end.touched /\ NeedsPublication(e)
    BY DEF Shipped
  <2> HIDE DEF rows, v, e, mods, keys
  <2>5. CASE s \in Shipped(o, end)
    <3>1. RowOf(o.public, keys, mods, v, e) /\ e \in FullRows /\ o.public
      BY <2>2, <2>4, <2>5 DEF RowOf
    <3> DEFINE r == Promoted(e)
    <3>2. /\ r \in FullRows /\ r.key = e.key /\ r.mod = e.mod /\ r.deleted = e.deleted
          /\ r.pub = Content(r) /\ r.pub \in Contents
      BY <3>1 DEF Promoted, FullRows, Content, Contents
    <3>3. r.pub # None
      BY <3>2
    <3>4. rows[s] = r
      BY <2>3, <2>5
    <3> HIDE DEF r
    <3>5. PlannedRow(o.public, keys, mods, v, r)
      BY <3>1, <3>2, <3>3 DEF PlannedRow, RowOf
    <3> QED
      BY <2>4, <2>5, <3>2, <3>4, <3>5, RowKinds DEF v, mods, keys
  <2>6. CASE s \notin Shipped(o, end)
    <3>1. rows[s] = e
      BY <2>3, <2>6
    <3>2. CASE s \notin end.touched
      BY <2>1, <2>2, <3>1, <3>2 DEF v
    <3>3. CASE s \in end.touched /\ ~o.public
      <4>1. v.pub = None \/ Exists(v)
        BY <2>1, RowKinds
      <4>2. RowOf(FALSE, keys, mods, v, e)
        BY <2>2, <3>3, <1>0
      <4>3. v.deleted \in BOOLEAN \/ v = NoRow
        BY <2>1, RowKinds DEF FullRows
      <4>4. PlannedRow(FALSE, keys, mods, v, e)
        BY <4>2, <4>3, RowKinds DEF PlannedRow, RowOf
      <4> QED
        BY <1>0, <2>1, <3>1, <3>3, <4>4 DEF v, mods, keys
    <3>4. CASE s \in end.touched /\ o.public
      <4>1. ~NeedsPublication(e)
        BY <2>4, <2>6, <3>4
      <4>2. e.pub # None
        BY <4>1 DEF NeedsPublication
      <4>3. RowOf(o.public, keys, mods, v, e)
        BY <2>2, <3>4
      <4>4. PlannedRow(o.public, keys, mods, v, e)
        BY <3>4, <4>2, <4>3 DEF PlannedRow, RowOf
      <4> QED
        BY <2>1, <3>1, <3>4, <4>4 DEF v, mods, keys
    <3> QED
      BY <1>0, <3>2, <3>3, <3>4
  <2> QED
    BY <2>5, <2>6
<1>8. rows \in [Strings -> Rows]
  BY <1>7
<1>9. p \in ImportPlans
  <2>1. [rows |-> rows, mods |-> view.mods] \in Catalogs
    BY <1>0, <1>8 DEF Catalogs
  <2> HIDE DEF rows
  <2> QED
    BY <1>5, <1>6, <2>1 DEF ImportPlans, PlanStates
<1> QED
  <2> HIDE DEF rows
  <2> QED
    BY <1>6, <1>7, <1>9

-----------------------------------------------------------------------------
(* What a plan leaves apart: live strings of one key, and the strings that *)
(* a push must not bring back.                                             *)

\* Whom a row of a file names: strings with its key, a removed one only when no live
\* one is in the way; and it creates a string only then.
LEMMA WhoIsNamed ==
    ASSUME NEW view, NEW q, NEW m, NEW allow
    PROVE  /\ \A s \in Candidates(view, q, m, allow) :
                 /\ s \in Strings /\ Exists(view.rows[s]) /\ view.rows[s].key = q.key
                 /\ q.scoped => view.rows[s].mod = m
           /\ (Candidates(view, q, m, allow) = {}
               \/ \E s \in Candidates(view, q, m, allow) : ~Alive(view.rows[s]))
                => IF q.scoped THEN Within(view, LiveWith(view, q.key), m) = {}
                   ELSE LiveWith(view, q.key) = {}
<1> DEFINE live == LiveWith(view, q.key)
           dead == DeadWith(view, q.key)
           one(S) == IF S = {} THEN {} ELSE {Least(S)}
           named == Candidates(view, q, m, allow)
<1>1. /\ \A s \in live : s \in Strings /\ Alive(view.rows[s]) /\ view.rows[s].key = q.key
      /\ \A s \in dead : s \in Strings /\ Dead(view.rows[s]) /\ view.rows[s].key = q.key
  BY DEF LiveWith, DeadWith
<1>2. \A S \in SUBSET Strings : one(S) \subseteq S /\ (one(S) = {} => S = {})
  <2> TAKE S \in SUBSET Strings
  <2>1. S \subseteq Nat
    BY RowsAssumption
  <2>2. S # {} => Least(S) \in S
    BY <2>1, LeastIn
  <2> QED
    BY <2>2
<1>3. \A n : /\ Within(view, live, n) \subseteq live /\ Within(view, dead, n) \subseteq dead
             /\ \A s \in Within(view, live, n) \cup Within(view, dead, n) : view.rows[s].mod = n
  BY DEF Within
<1>4. named = IF q.scoped
              THEN IF Within(view, live, m) # {} THEN Within(view, live, m)
                   ELSE one(Within(view, dead, m))
              ELSE IF live # {} THEN live
              ELSE IF allow /\ Cardinality({view.rows[s].mod : s \in dead}) > 1 THEN dead
              ELSE IF Within(view, dead, None) # {} THEN one(Within(view, dead, None))
              ELSE one(dead)
  BY DEF Candidates
<1>5. live \subseteq Strings /\ dead \subseteq Strings
  BY <1>1
<1> HIDE DEF live, dead, one, named
<1>6. CASE q.scoped
  <2>1. Within(view, live, m) \subseteq live /\ Within(view, dead, m) \subseteq dead
    BY <1>3
  <2>2. one(Within(view, dead, m)) \subseteq Within(view, dead, m)
    BY <1>2, <1>5, <2>1
  <2>3. CASE Within(view, live, m) # {}
    <3>1. named = Within(view, live, m)
      BY <1>4, <1>6, <2>3
    <3>2. \A s \in named : s \in Strings /\ Alive(view.rows[s]) /\ view.rows[s].key = q.key
                           /\ view.rows[s].mod = m
      BY <1>1, <1>3, <2>1, <3>1
    <3> QED
      BY <2>3, <3>1, <3>2 DEF named, Alive
  <2>4. CASE Within(view, live, m) = {}
    <3>1. named \subseteq Within(view, dead, m)
      BY <1>4, <1>6, <2>2, <2>4
    <3>2. \A s \in named : s \in Strings /\ Dead(view.rows[s]) /\ view.rows[s].key = q.key
                           /\ view.rows[s].mod = m
      BY <1>1, <1>3, <2>1, <3>1
    <3> QED
      BY <1>6, <2>4, <3>2 DEF named, live, Dead
  <2> QED
    BY <2>3, <2>4
<1>7. CASE ~q.scoped
  <2>1. CASE live # {}
    <3>1. named = live
      BY <1>4, <1>7, <2>1
    <3>2. \A s \in named : s \in Strings /\ Alive(view.rows[s]) /\ view.rows[s].key = q.key
      BY <1>1, <3>1
    <3> QED
      BY <1>7, <2>1, <3>1, <3>2 DEF named, Alive
  <2>2. CASE live = {}
    <3>1. Within(view, dead, None) \subseteq dead
      BY <1>3
    <3>2. one(Within(view, dead, None)) \subseteq dead /\ one(dead) \subseteq dead
      BY <1>2, <1>5, <3>1
    <3>3. named \subseteq dead
      BY <1>4, <1>7, <2>2, <3>2
    <3>4. \A s \in named : s \in Strings /\ Dead(view.rows[s]) /\ view.rows[s].key = q.key
      BY <1>1, <3>3
    <3> QED
      BY <1>7, <2>2, <3>4 DEF named, live, Dead
  <2> QED
    BY <2>1, <2>2
<1> QED
  BY <1>6, <1>7

FreeIds(view) == {t \in Strings : ~Exists(view.rows[t])}

\* How a row of a file changes the plan when an id is free for a new string.
RowPlanned(o, st, q, home, s, next) ==
    LET r == st.cat.rows[s]
        new == next.cat.rows[s]
        named == Candidates(st.cat, q, home, o.duplicates)
        live == LiveWith(st.cat, q.key)
    IN  /\ home \in RefIds(st.cat, q)
        /\ IF named = {} THEN s \in FreeIds(st.cat) ELSE s \in named
        /\ next.clash = (st.clash \/ (~o.duplicates /\ live # {} /\ live # named))
        /\ \/ next.cat = st.cat /\ next.touched = st.touched
           \/ /\ next.touched = st.touched \cup {s}
              /\ \A t \in Strings \ {s} : next.cat.rows[t] = st.cat.rows[t]
              /\ new \in FullRows /\ ~new.deleted
              /\ IF Exists(r) THEN new.key = r.key /\ new.mod = r.mod
                 ELSE new.key = q.key /\ new.mod = home

\* A row of a file finds a string it names, or takes a free id.
LEMMA PlanRowDoes ==
    ASSUME NEW o \in PlanOptions, NEW view \in Catalogs, NEW file \in Seq(ImportRows),
           NewSlugs(view, file) = {}, NEW k \in DOMAIN file,
           NEW st, Planned(o.public, view, file, st), FreeIds(st.cat) # {}
    PROVE  \E home \in Modules \cup {None}, s \in Strings :
               RowPlanned(o, st, file[k], home, s, PlanRow(o, st, file[k]))
<1> DEFINE q == file[k]
           home == Only(RefIds(st.cat, q))
           named == Candidates(st.cat, q, home, o.duplicates)
           s == Least(IF named = {} THEN FreeIds(st.cat) ELSE named)
           r == st.cat.rows[s]
           live == LiveWith(st.cat, q.key)
           skip == Skips(o, q, r)
           new == Imported(q, home, r, o.public)
           after == IF skip THEN st.cat ELSE [st.cat EXCEPT !.rows[s] = new]
           next == PlanRow(o, st, q)
<1>1. q \in ImportRows /\ o.public \in BOOLEAN
  BY DEF PlanOptions
<1>2. /\ st.cat \in Catalogs /\ st.cat.mods = view.mods
      /\ st.cat.rows \in [Strings -> Rows]
  BY DEF Planned, PlanStates, Catalogs
<1>3. home \in RefIds(st.cat, q) /\ home \in Modules \cup {None}
  <2>1. q.ref # None => \E m \in Modules : view.mods[m] = q.ref
    <3>1. q.ref \in {file[i].ref : i \in DOMAIN file}
      OBVIOUS
    <3> QED
      BY <3>1 DEF NewSlugs
  <2>2. RefIds(st.cat, q) # {} /\ RefIds(st.cat, q) \subseteq Modules \cup {None}
    BY <1>2, <2>1 DEF RefIds, ModuleIds
  <2> QED
    BY <2>2, OnlyIn
<1>4. next = [cat |-> after,
              touched |-> st.touched \cup (IF skip THEN {} ELSE {s}),
              creates |-> st.creates + (IF named = {} THEN 1 ELSE 0),
              updates |-> st.updates + (IF Counts(o, q, r) THEN 1 ELSE 0),
              clash |-> st.clash \/ (~o.duplicates /\ live # {} /\ live # named)]
  BY DEF PlanRow, FreeIds
<1> HIDE DEF home, named, live, skip, q, next
<1>5. s \in Strings /\ IF named = {} THEN s \in FreeIds(st.cat) ELSE s \in named
  <2>1. named \subseteq Strings
    BY CandidatesAreStrings DEF named
  <2>2. FreeIds(st.cat) \subseteq Strings
    BY DEF FreeIds
  <2> DEFINE U == IF named = {} THEN FreeIds(st.cat) ELSE named
  <2>3. U # {} /\ U \subseteq Nat
    BY <2>1, <2>2, RowsAssumption
  <2> HIDE DEF U
  <2>4. Least(U) \in U
    BY <2>3, LeastIn
  <2> QED
    BY <2>1, <2>2, <2>4 DEF U
<1> HIDE DEF s
<1>6. /\ r \in Rows
      /\ new \in FullRows /\ ~new.deleted
      /\ IF Exists(r) THEN new.key = r.key /\ new.mod = r.mod
         ELSE new.key = q.key /\ new.mod = home
  <2>1. r \in Rows
    BY <1>2, <1>5
  <2> HIDE DEF r, new
  <2> QED
    BY <1>1, <1>3, <2>1, ImportedRow DEF new
<1> HIDE DEF r, new
<1>7. CASE skip
  <2>1. next.cat = st.cat /\ next.touched = st.touched
    BY <1>4, <1>7
  <2>2. next.clash = (st.clash \/ (~o.duplicates /\ live # {} /\ live # named))
    BY <1>4
  <2> QED
    BY <1>3, <1>5, <2>1, <2>2 DEF RowPlanned, named, live, next, q
<1>8. CASE ~skip
  <2> DEFINE rows == [st.cat.rows EXCEPT ![s] = new]
  <2>1. next.cat = [st.cat EXCEPT !.rows = rows]
    BY <1>4, <1>8
  <2>2. \A t \in Strings : rows[t] = IF t = s THEN new ELSE st.cat.rows[t]
    BY <1>2
  <2> HIDE DEF rows, after
  <2>3. next.cat.rows = rows
    BY <1>2, <2>1 DEF Catalogs
  <2>4. next.cat.rows[s] = new /\ \A t \in Strings \ {s} : next.cat.rows[t] = st.cat.rows[t]
    BY <1>5, <2>2, <2>3
  <2>5. next.touched = st.touched \cup {s}
    BY <1>4, <1>8
  <2>6. next.clash = (st.clash \/ (~o.duplicates /\ live # {} /\ live # named))
    BY <1>4
  <2> QED
    BY <1>3, <1>5, <1>6, <2>4, <2>5, <2>6 DEF RowPlanned, named, live, next, q, r
<1> QED
  BY <1>7, <1>8

\* A row of a file takes at most one free id.
LEMMA RowTakesOne ==
    ASSUME NEW o, NEW st, NEW q, NEW home, NEW s \in Strings, NEW next,
           RowPlanned(o, st, q, home, s, next)
    PROVE  /\ Cardinality(FreeIds(st.cat)) \in Nat /\ Cardinality(FreeIds(next.cat)) \in Nat
           /\ Cardinality(FreeIds(st.cat)) <= Cardinality(FreeIds(next.cat)) + 1
<1> DEFINE U == FreeIds(st.cat)
           V == FreeIds(next.cat)
<1>1. IsFiniteSet(U) /\ IsFiniteSet(V)
  BY RowsAssumption, FS_Subset DEF FreeIds
<1>2. U \ {s} \subseteq V
  BY DEF RowPlanned, FreeIds
<1> HIDE DEF U, V
<1>3. /\ Cardinality(U) \in Nat /\ Cardinality(V) \in Nat
      /\ Cardinality(U \ {s}) <= Cardinality(V)
      /\ IsFiniteSet(U \ {s}) /\ Cardinality(U \ {s}) \in Nat
  BY <1>1, <1>2, FS_Subset, FS_CardinalityType, FS_RemoveElement
<1>4. Cardinality(U \ {s}) = IF s \in U THEN Cardinality(U) - 1 ELSE Cardinality(U)
  BY <1>1, FS_RemoveElement
<1> QED
  BY <1>3, <1>4 DEF U, V

\* A row of a file leaves the live strings their own keys, or the plan has a clash.
LEMMA RowKeepsKeys ==
    ASSUME NEW o \in PlanOptions, NEW st, NEW q, NEW home, NEW s \in Strings, NEW next,
           RowPlanned(o, st, q, home, s, next), ~next.clash,
           KeysAlive(o.duplicates, st.cat.rows)
    PROVE  KeysAlive(o.duplicates, next.cat.rows)
<1> DEFINE r == st.cat.rows[s]
           new == next.cat.rows[s]
           named == Candidates(st.cat, q, home, o.duplicates)
           live == LiveWith(st.cat, q.key)
<1>0. o.duplicates \in BOOLEAN
  BY DEF PlanOptions
<1>1. CASE next.cat = st.cat
  BY <1>1
<1>2. CASE next.cat # st.cat
  <2>1. /\ \A t \in Strings \ {s} : next.cat.rows[t] = st.cat.rows[t]
        /\ IF Exists(r) THEN new.key = r.key /\ new.mod = r.mod
           ELSE new.key = q.key /\ new.mod = home
        /\ IF named = {} THEN s \in FreeIds(st.cat) ELSE s \in named
        /\ ~(~o.duplicates /\ live # {} /\ live # named)
    BY <1>2 DEF RowPlanned
  <2>2. /\ s \in named => Exists(r) /\ r.key = q.key /\ (q.scoped => r.mod = home)
        /\ (named = {} \/ \E t \in named : ~Alive(st.cat.rows[t]))
             => IF q.scoped THEN Within(st.cat, live, home) = {} ELSE live = {}
    <3>1. s \in named => Exists(r) /\ r.key = q.key /\ (q.scoped => r.mod = home)
      BY WhoIsNamed
    <3>2. (named = {} \/ \E t \in named : ~Alive(st.cat.rows[t]))
             => IF q.scoped THEN Within(st.cat, live, home) = {} ELSE live = {}
      BY WhoIsNamed, Zenon
    <3> QED
      BY <3>1, <3>2
  <2> HIDE DEF named
  <2>3. ASSUME NEW t \in Strings \ {s}, Alive(st.cat.rows[t]),
               KeyIdentity(o.duplicates, st.cat.rows[t]) = KeyIdentity(o.duplicates, new)
        PROVE  FALSE
    <3>1. CASE Alive(r)
      <4>1. new.key = r.key /\ new.mod = r.mod
        BY <2>1, <3>1 DEF Alive
      <4>2. KeyIdentity(o.duplicates, st.cat.rows[t]) = KeyIdentity(o.duplicates, r)
        BY <2>3, <4>1 DEF KeyIdentity
      <4> QED
        BY <2>3, <3>1, <4>2 DEF KeysAlive
    <3>2. CASE ~Alive(r)
      <4>1. IF q.scoped THEN Within(st.cat, live, home) = {} ELSE live = {}
        BY <2>1, <2>2, <3>2
      <4>2. new.key = q.key /\ (q.scoped => new.mod = home)
        BY <2>1, <2>2 DEF FreeIds
      <4>3. /\ st.cat.rows[t].key = q.key
            /\ o.duplicates => st.cat.rows[t].mod = new.mod
        BY <1>0, <2>3, <4>2 DEF KeyIdentity
      <4>4. t \in live
        BY <2>3, <4>3 DEF LiveWith
      <4>5. q.scoped /\ ~o.duplicates
        BY <4>1, <4>2, <4>3, <4>4 DEF Within
      <4>6. s \in live
        BY <2>1, <4>4, <4>5
      <4> QED
        BY <3>2, <4>6 DEF LiveWith
    <3> QED
      BY <3>1, <3>2
  <2> HIDE DEF r, new, live
  <2>4. \A t \in Strings \ {s} : Alive(next.cat.rows[t]) =>
            KeyIdentity(o.duplicates, next.cat.rows[t]) # KeyIdentity(o.duplicates, new)
    BY <2>1, <2>3
  <2>5. \A t, u \in Strings \ {s} :
           /\ Alive(next.cat.rows[t]) /\ Alive(next.cat.rows[u])
           /\ KeyIdentity(o.duplicates, next.cat.rows[t])
                = KeyIdentity(o.duplicates, next.cat.rows[u])
           => t = u
    BY <2>1 DEF KeysAlive
  <2> QED
    BY <2>4, <2>5 DEF KeysAlive, new
<1> QED
  BY <1>1, <1>2

\* The strings that a push must leave alone: removed, or waiting for it.
Guarded(view) ==
    {s \in Strings : \/ Dead(view.rows[s])
                     \/ Alive(view.rows[s]) /\ view.rows[s].pending}
Spared(view, st) == Guarded(view) \cap st.touched = {}

\* What is live before an import stays live, under its key and module.
LEMMA LiveStays ==
    ASSUME NEW public, NEW view, NEW file, NEW st, Planned(public, view, file, st),
           NEW t \in Strings
    PROVE  /\ Alive(view.rows[t]) => /\ Alive(st.cat.rows[t])
                                     /\ st.cat.rows[t].key = view.rows[t].key
                                     /\ st.cat.rows[t].mod = view.rows[t].mod
           /\ t \in st.touched => Alive(st.cat.rows[t])
           /\ t \notin st.touched => st.cat.rows[t] = view.rows[t]
  BY RowKinds DEF Planned, RowOf, Alive

\* A file that may be pushed names no removed string, or a live one is in the way.
LEMMA RowSpares ==
    ASSUME NEW o \in PlanOptions, NEW view \in Catalogs, NEW file \in Seq(ImportRows),
           NEW k \in DOMAIN file, NEW st, Planned(o.public, view, file, st),
           NEW home, NEW s \in Strings, NEW next,
           RowPlanned(o, st, file[k], home, s, next), ~next.clash,
           ~file[k].scoped => file[k].ref = None,
           PushDeleted(view, file, o.duplicates) = {}, Spared(view, st)
    PROVE  Spared(view, next)
<1> DEFINE q == file[k]
           r == view.rows[s]
           named == Candidates(st.cat, q, home, o.duplicates)
           live == LiveWith(st.cat, q.key)
<1> SUFFICES ASSUME s \in Guarded(view), s \notin st.touched
             PROVE  FALSE
  BY DEF Spared, RowPlanned
<1>0. o.duplicates \in BOOLEAN
  BY DEF PlanOptions
<1>1. st.cat.rows[s] = r /\ st.cat.mods = view.mods
  BY LiveStays DEF Planned
<1>2. Exists(r) /\ (Dead(r) \/ (Alive(r) /\ r.pending))
  BY DEF Guarded, Dead, Alive
<1>3. /\ s \in named /\ home \in RefIds(view, q)
      /\ ~(~o.duplicates /\ live # {} /\ live # named)
  BY <1>1, <1>2 DEF RowPlanned, FreeIds, RefIds, ModuleIds
<1>4. /\ r.key = q.key /\ (q.scoped => r.mod = home)
      /\ ~Alive(r) => IF q.scoped THEN Within(st.cat, live, home) = {} ELSE live = {}
  <2>1. s \in named => r.key = q.key /\ (q.scoped => r.mod = home)
    BY <1>1, WhoIsNamed
  <2>2. (\E t \in named : ~Alive(st.cat.rows[t]))
           => IF q.scoped THEN Within(st.cat, live, home) = {} ELSE live = {}
    BY WhoIsNamed, Zenon
  <2> QED
    BY <1>1, <1>3, <2>1, <2>2
<1>5. ASSUME Dead(r), ~q.scoped
      PROVE  s \in Candidates(view, q, None, o.duplicates)
  <2> DEFINE before == DeadWith(view, q.key)
             dead == DeadWith(st.cat, q.key)
  <2>1. live = {} /\ LiveWith(view, q.key) = {}
    BY <1>4, <1>5, LiveStays DEF Dead, Alive, LiveWith
  <2>2. \A t \in Strings : Dead(view.rows[t]) \/ Dead(st.cat.rows[t]) =>
            st.cat.rows[t] = view.rows[t]
    BY LiveStays DEF Spared, Guarded, Dead, Alive
  <2>3. before = dead /\ \A t \in dead : st.cat.rows[t] = view.rows[t]
    BY <2>2 DEF DeadWith
  <2>4. {view.rows[t].mod : t \in before} = {st.cat.rows[t].mod : t \in dead}
    BY <2>3
  <2>5. Within(view, before, None) = Within(st.cat, dead, None)
    BY <2>3 DEF Within
  <2> HIDE DEF before, dead
  <2>6. Candidates(view, q, None, o.duplicates) = named
    BY <1>5, <2>1, <2>3, <2>4, <2>5 DEF Candidates, before, dead
  <2> QED
    BY <1>3, <2>6
<1>6. ASSUME Alive(r), ~q.scoped
      PROVE  s \in Candidates(view, q, None, o.duplicates)
  BY <1>4, <1>6 DEF Candidates, LiveWith
<1>7. Wanted(view, file, o.duplicates, s)
  <2>1. CASE q.scoped
    BY <1>3, <1>4, <2>1 DEF Wanted
  <2>2. CASE ~q.scoped
    <3>1. s \in Candidates(view, q, None, o.duplicates)
      BY <1>2, <1>5, <1>6, <2>2
    <3>2. s \in Named(view, q, o.duplicates)
      BY <2>2, <3>1 DEF Named, RefIds
    <3> QED
      BY <1>4, <2>2, <3>2 DEF Wanted
  <2> QED
    BY <2>1, <2>2
<1>8. Dead(r) /\ Replaced(view, o.duplicates, s)
  BY <1>2, <1>7 DEF PushDeleted
<1>9. PICK t \in Strings : /\ Alive(view.rows[t])
                           /\ KeyIdentity(o.duplicates, view.rows[t])
                                = KeyIdentity(o.duplicates, r)
  BY <1>8 DEF Replaced
<1>10. /\ Alive(st.cat.rows[t]) /\ st.cat.rows[t].key = q.key
       /\ o.duplicates => st.cat.rows[t].mod = r.mod
  BY <1>0, <1>4, <1>9, LiveStays DEF KeyIdentity
<1>11. t \in live
  BY <1>10 DEF LiveWith
<1>12. ~Alive(r)
  BY <1>8 DEF Dead, Alive
<1>13. q.scoped /\ ~o.duplicates
  BY <1>4, <1>10, <1>11, <1>12 DEF Within
<1>14. s \in live
  BY <1>3, <1>11, <1>13
<1> QED
  BY <1>1, <1>12, <1>14 DEF LiveWith

\* The plan of an import that fits: unless it clashes, live strings have keys of their
\* own, and a push leaves removed strings as they are.
LEMMA PlanIsSafe ==
    ASSUME NEW o \in PlanOptions, NEW view \in Catalogs, NEW file \in Seq(ImportRows),
           NewSlugs(view, file) = {}, Len(file) <= Cardinality(FreeIds(view)),
           \A i \in DOMAIN file : ~file[i].scoped => file[i].ref = None,
           KeysAlive(o.duplicates, view.rows),
           o.reject => PushDeleted(view, file, o.duplicates) = {},
           NEW p, p = Plan(o, view, file), ~p.clash
    PROVE  /\ KeysAlive(o.duplicates, p.cat.rows)
           /\ o.reject => \A s \in Guarded(view) : p.cat.rows[s] = view.rows[s]
<1> DEFINE n == Len(file)
           start == [cat |-> [view EXCEPT !.mods = WithModules(@, NewSlugs(view, file))],
                     touched |-> {}, creates |-> 0, updates |-> 0, clash |-> FALSE]
           end == PlanEnd(o, start, file)
           Safe(st, k) ==
               /\ Planned(o.public, view, file, st)
               /\ n <= Cardinality(FreeIds(st.cat)) + k
               /\ ~st.clash => /\ KeysAlive(o.duplicates, st.cat.rows)
                               /\ o.reject => Spared(view, st)
<1>0. /\ n \in Nat /\ DOMAIN file = 1..n
      /\ view.rows \in [Strings -> Rows] /\ view.mods \in [Modules -> Slugs \cup {None}]
  BY DEF Catalogs
<1>c. \A c : Cardinality(FreeIds(c)) \in Nat
  BY RowsAssumption, FS_Subset, FS_CardinalityType DEF FreeIds
<1>1. Safe(start, 0)
  <2>1. WithModules(view.mods, {}) = view.mods
    BY <1>0, WithModulesAdds, FS_EmptySet, RowsAssumption
  <2>2. [view EXCEPT !.mods = view.mods] = view
    BY DEF Catalogs
  <2>3. start = [cat |-> view, touched |-> {}, creates |-> 0, updates |-> 0, clash |-> FALSE]
    BY <2>1, <2>2
  <2> HIDE DEF start, n
  <2>4. Planned(o.public, view, file, start)
    BY <2>3 DEF Planned, PlanStates
  <2>5. n <= Cardinality(FreeIds(start.cat)) + 0
    BY <1>0, <1>c, <2>3 DEF n
  <2> QED
    BY <2>3, <2>4, <2>5 DEF Spared
<1> HIDE DEF start
<1>2. PICK f : /\ f[0] = start
               /\ \A k \in Nat : k < n => f[k + 1] = PlanRow(o, f[k], file[k + 1])
               /\ end = f[n]
  BY FoldIsRun
<1>3. Safe(end, n)
  <2> DEFINE T == {k \in Nat : k <= n => Safe(f[k], k)}
  <2>1. 0 \in T
    BY <1>1, <1>2
  <2>2. ASSUME NEW k \in T
        PROVE  k + 1 \in T
    <3> SUFFICES ASSUME k + 1 <= n
                 PROVE  Safe(f[k + 1], k + 1)
      OBVIOUS
    <3>1. k \in Nat /\ k < n /\ k + 1 \in DOMAIN file /\ Safe(f[k], k)
      BY <1>0
    <3> DEFINE st == f[k]
               next == f[k + 1]
               q == file[k + 1]
    <3>2. next = PlanRow(o, st, q)
      BY <1>2, <3>1
    <3>3. FreeIds(st.cat) # {}
      <4>1. Cardinality(FreeIds(st.cat)) # 0
        BY <1>0, <3>1
      <4> QED
        BY <4>1, FS_EmptySet
    <3> HIDE DEF next
    <3>4. Planned(o.public, view, file, next)
      BY <3>1, <3>2, PlanRowKeeps
    <3>5. PICK home \in Modules \cup {None}, s \in Strings :
              RowPlanned(o, st, q, home, s, next)
      BY <3>1, <3>2, <3>3, PlanRowDoes
    <3>6. n <= Cardinality(FreeIds(next.cat)) + (k + 1)
      <4>1. /\ Cardinality(FreeIds(st.cat)) \in Nat /\ Cardinality(FreeIds(next.cat)) \in Nat
            /\ Cardinality(FreeIds(st.cat)) <= Cardinality(FreeIds(next.cat)) + 1
        BY <3>5, RowTakesOne
      <4>2. n <= Cardinality(FreeIds(st.cat)) + k
        BY <3>1
      <4> HIDE DEF st, n
      <4> QED
        BY <1>0, <3>1, <4>1, <4>2
    <3>7. ASSUME ~next.clash
          PROVE  /\ KeysAlive(o.duplicates, next.cat.rows)
                 /\ o.reject => Spared(view, next)
      <4>1. ~st.clash
        BY <3>5, <3>7 DEF RowPlanned
      <4>2. KeysAlive(o.duplicates, st.cat.rows) /\ (o.reject => Spared(view, st))
        BY <3>1, <4>1
      <4>3. KeysAlive(o.duplicates, next.cat.rows)
        BY <3>5, <3>7, <4>2, RowKeepsKeys
      <4>4. ASSUME o.reject
            PROVE  Spared(view, next)
        BY <3>1, <3>5, <3>7, <4>2, <4>4, RowSpares
      <4> QED
        BY <4>3, <4>4
    <3> QED
      BY <3>4, <3>6, <3>7 DEF next
  <2>3. T = Nat
    <3>1. T \in SUBSET Nat
      OBVIOUS
    <3> HIDE DEF T
    <3> QED
      BY <2>1, <2>2, <3>1, Induction
  <2>4. Safe(f[n], n)
    BY <1>0, <2>3
  <2> QED
    BY <1>2, <2>4
<1>4. p = [end EXCEPT !.cat.rows = [s \in Strings |->
              IF s \in Shipped(o, end) THEN Promoted(@[s]) ELSE @[s]]]
  BY DEF Plan, PlanEnd, FoldLeft, MapThenFoldSet, start
<1> HIDE DEF end
<1> DEFINE rows == [s \in Strings |->
              IF s \in Shipped(o, end) THEN Promoted(end.cat.rows[s]) ELSE end.cat.rows[s]]
<1>5. end \in PlanStates /\ end.cat \in Catalogs
  BY <1>3 DEF Planned, PlanStates
<1>6. p.cat.rows = rows /\ p.clash = end.clash
  <2>1. p = [end EXCEPT !.cat = [end.cat EXCEPT !.rows = rows]]
    BY <1>4
  <2> HIDE DEF rows
  <2> QED
    BY <1>5, <2>1 DEF PlanStates, Catalogs
<1>7. KeysAlive(o.duplicates, end.cat.rows) /\ (o.reject => Spared(view, end))
  BY <1>3, <1>6
<1>8. ASSUME NEW s \in Strings
      PROVE  /\ rows[s].key = end.cat.rows[s].key /\ rows[s].mod = end.cat.rows[s].mod
             /\ Alive(rows[s]) <=> Alive(end.cat.rows[s])
             /\ s \notin end.touched => rows[s] = view.rows[s]
  <2> DEFINE e == end.cat.rows[s]
  <2>1. e \in Rows
    BY <1>5 DEF Catalogs
  <2>2. s \in Shipped(o, end) => s \in end.touched
    BY DEF Shipped
  <2>3. s \in end.touched => e \in FullRows
    BY <1>3 DEF Planned, RowOf
  <2>4. s \notin end.touched => e = view.rows[s]
    BY <1>3 DEF Planned
  <2>5. rows[s] = IF s \in Shipped(o, end) THEN Promoted(e) ELSE e
    OBVIOUS
  <2> HIDE DEF rows, e
  <2>6. CASE s \in Shipped(o, end)
    <3>1. e \in FullRows /\ rows[s] = Promoted(e)
      BY <2>2, <2>3, <2>5, <2>6
    <3>2. /\ Promoted(e).key = e.key /\ Promoted(e).mod = e.mod
          /\ Alive(Promoted(e)) <=> Alive(e)
      BY <3>1 DEF Promoted, FullRows, Alive, Exists
    <3> QED
      BY <2>2, <2>6, <3>1, <3>2 DEF e
  <2>7. CASE s \notin Shipped(o, end)
    BY <2>4, <2>5, <2>7 DEF e
  <2> QED
    BY <2>6, <2>7
<1> HIDE DEF rows
<1>9. KeysAlive(o.duplicates, rows)
  BY <1>7, <1>8 DEF KeysAlive, KeyIdentity
<1>10. ASSUME o.reject, NEW s \in Guarded(view)
       PROVE  rows[s] = view.rows[s]
  <2>1. s \in Strings /\ s \notin end.touched
    BY <1>7, <1>10 DEF Spared, Guarded
  <2> QED
    BY <1>8, <2>1
<1> QED
  BY <1>6, <1>9, <1>10

-----------------------------------------------------------------------------
(* The catalog that a plan starts from.                                    *)

\* The new slugs of a file are finitely many, and no module has them.
LEMMA NewSlugsAre ==
    ASSUME NEW view, NEW file \in Seq(ImportRows)
    PROVE  /\ NewSlugs(view, file) \in SUBSET Slugs /\ IsFiniteSet(NewSlugs(view, file))
           /\ \A slug \in NewSlugs(view, file) : \A m \in Modules : view.mods[m] # slug
<1> DEFINE refs == {file[i].ref : i \in DOMAIN file}
           g == [i \in DOMAIN file |-> file[i].ref]
<1>1. DOMAIN file = 1..Len(file) /\ Len(file) \in Nat /\ \A i \in DOMAIN file : file[i] \in ImportRows
  OBVIOUS
<1>2. refs \subseteq Slugs \cup {None}
  BY <1>1 DEF ImportRows
<1>3. IsFiniteSet(refs)
  <2>1. IsFiniteSet(DOMAIN file)
    BY <1>1, FS_Interval
  <2>2. refs = {g[i] : i \in DOMAIN file}
    OBVIOUS
  <2>3. g \in Surjection(DOMAIN file, refs)
    BY <2>2 DEF Surjection
  <2> HIDE DEF g, refs
  <2> QED
    BY <2>1, <2>3, FS_Surjection DEF ExistsSurjection
<1>4. NewSlugs(view, file) \subseteq refs \ {None}
  BY DEF NewSlugs
<1>5. IsFiniteSet(NewSlugs(view, file))
  BY <1>3, <1>4, FS_Subset
<1> QED
  BY <1>2, <1>4, <1>5 DEF NewSlugs

Prepared(c, file) == [c EXCEPT !.mods = WithModules(@, NewSlugs(c, file))]

\* An import that fits plans on the catalog with the modules of its file, where the
\* modules there were have kept their slugs.
LEMMA ViewFacts ==
    ASSUME NEW c \in Catalogs, NEW file \in Seq(ImportRows), Room(c, file)
    PROVE  /\ Prepared(c, file) \in Catalogs
           /\ Prepared(c, file).rows = c.rows
           /\ NewSlugs(Prepared(c, file), file) = {}
           /\ \A m \in Modules : c.mods[m] # None => Prepared(c, file).mods[m] = c.mods[m]
           /\ \A o : Plan(o, c, file) = Plan(o, Prepared(c, file), file)
<1> DEFINE slugs == NewSlugs(c, file)
           mods == WithModules(c.mods, slugs)
           view == Prepared(c, file)
<1>1. c.mods \in [Modules -> Slugs \cup {None}] /\ c.rows \in [Strings -> Rows]
  BY DEF Catalogs
<1>2. slugs \in SUBSET Slugs /\ IsFiniteSet(slugs)
  BY NewSlugsAre
<1>3. Cardinality(slugs) <= Cardinality({m \in Modules : c.mods[m] = None})
  BY DEF Room, ModuleIds
<1>4. None \notin Slugs
  BY RowsAssumption
<1> HIDE DEF slugs
<1>5. /\ mods \in [Modules -> Slugs \cup {None}]
      /\ \A m \in Modules : c.mods[m] # None => mods[m] = c.mods[m]
      /\ \A slug \in slugs : \E m \in Modules : mods[m] = slug
  BY <1>1, <1>2, <1>3, <1>4, WithModulesAdds, WithModulesFit
<1>6. WithModules(mods, {}) = mods
  BY <1>4, <1>5, WithModulesAdds, FS_EmptySet
<1> HIDE DEF mods
<1>7. /\ view \in Catalogs /\ view.rows = c.rows /\ view.mods = mods
      /\ [view EXCEPT !.mods = mods] = view
  BY <1>1, <1>5 DEF Prepared, Catalogs, mods, slugs
<1> HIDE DEF view
<1>8. NewSlugs(view, file) = {}
  <2> SUFFICES ASSUME NEW ref \in {file[i].ref : i \in DOMAIN file}, ref # None,
                      \A m \in Modules : mods[m] # ref
               PROVE  FALSE
    BY <1>7 DEF NewSlugs
  <2>1. ref \notin slugs
    BY <1>5
  <2>2. PICK m \in Modules : c.mods[m] = ref
    BY <2>1 DEF slugs, NewSlugs
  <2> QED
    BY <1>5, <2>2
<1>9. ASSUME NEW o
      PROVE  Plan(o, c, file) = Plan(o, view, file)
  <2>1. [c EXCEPT !.mods = WithModules(@, NewSlugs(c, file))] = view
    BY DEF view, Prepared
  <2>2. [view EXCEPT !.mods = WithModules(@, NewSlugs(view, file))] = view
    BY <1>6, <1>7, <1>8
  <2> QED
    BY <2>1, <2>2 DEF Plan
<1> QED
  BY <1>5, <1>7, <1>8, <1>9 DEF view

\* New modules make no more of the removed strings wanted.
LEMMA PushAgrees ==
    ASSUME NEW c \in Catalogs, ModulesKept(c), NEW file \in Seq(ImportRows), Room(c, file),
           \A i \in DOMAIN file : ~file[i].scoped => file[i].ref = None,
           NEW allow \in BOOLEAN, PushDeleted(c, file, allow) = {}
    PROVE  PushDeleted(Prepared(c, file), file, allow) = {}
<1> DEFINE view == Prepared(c, file)
<1>1. /\ view.rows = c.rows
      /\ \A m \in Modules : c.mods[m] # None => view.mods[m] = c.mods[m]
  BY ViewFacts
<1> HIDE DEF view
<1>2. ASSUME NEW s \in Strings, Wanted(view, file, allow, s)
      PROVE  Wanted(c, file, allow, s)
  <2>1. PICK i \in DOMAIN file :
            /\ file[i].key = view.rows[s].key
            /\ allow => IF file[i].scoped THEN view.rows[s].mod \in RefIds(view, file[i])
                        ELSE \E t \in Named(view, file[i], allow) :
                                 view.rows[t].mod = view.rows[s].mod
    BY <1>2 DEF Wanted
  <2> DEFINE q == file[i]
             r == c.rows[s]
  <2>2. r.mod \in RefIds(view, q) => r.mod \in RefIds(c, q)
    BY <1>1, RowsAssumption DEF RefIds, ModuleIds, ModulesKept
  <2>3. ~q.scoped => Named(view, q, allow) = Named(c, q, allow)
    <3> SUFFICES ASSUME q.ref = None
                 PROVE  Named(view, q, allow) = Named(c, q, allow)
      OBVIOUS
    <3>1. RefIds(view, q) = {None} /\ RefIds(c, q) = {None}
      BY DEF RefIds
    <3> DEFINE live == LiveWith(c, q.key)
               dead == DeadWith(c, q.key)
    <3>2. LiveWith(view, q.key) = live /\ DeadWith(view, q.key) = dead
      BY <1>1 DEF LiveWith, DeadWith
    <3> HIDE DEF live, dead
    <3>3. {view.rows[t].mod : t \in dead} = {c.rows[t].mod : t \in dead}
      BY <1>1
    <3>4. \A S : Within(view, S, None) = Within(c, S, None)
      BY <1>1 DEF Within
    <3>5. Candidates(view, q, None, allow) = Candidates(c, q, None, allow)
      BY <3>2, <3>3, <3>4 DEF Candidates, live, dead
    <3> QED
      BY <3>1, <3>5 DEF Named
  <2> QED
    BY <1>1, <2>1, <2>2, <2>3 DEF Wanted
<1> QED
  BY <1>1, <1>2 DEF PushDeleted, Replaced, view

-----------------------------------------------------------------------------
(* The inductive invariant.                                                *)

CatalogInv ==
    /\ CatalogTypeOK
    /\ ChecksSuffice
    /\ PublicExportable
    /\ ModulesKept(catalog)
    /\ Snapshots(catalog)

\* Keys that are apart in the whole project are apart in each module.
LEMMA StricterKeys ==
    /\ \A rows : KeysAlive(FALSE, rows) => KeysAlive(TRUE, rows)
    /\ \A c : KeysPublic(FALSE, c) => KeysPublic(TRUE, c)
<1>1. ASSUME NEW rows, KeysAlive(FALSE, rows)
      PROVE  KeysAlive(TRUE, rows)
  BY <1>1 DEF KeysAlive, KeyIdentity
<1>2. ASSUME NEW c, KeysPublic(FALSE, c)
      PROVE  KeysPublic(TRUE, c)
  BY <1>2 DEF KeysPublic, ExportIdentity
<1> QED
  BY <1>1, <1>2

\* Exported strings that keep their published place keep apart.
SamePublic(c, d) ==
    \A s \in Strings : Exported(d.rows[s]) =>
        /\ Exported(c.rows[s])
        /\ PubKey(d.rows[s]) = PubKey(c.rows[s]) /\ PubMod(d.rows[s]) = PubMod(c.rows[s])
        /\ SlugOf(d, PubMod(c.rows[s])) = SlugOf(c, PubMod(c.rows[s]))

\* They stay apart then, in whatever layout they were.
LEMMA PublicStays ==
    ASSUME NEW m, NEW c, NEW d, SamePublic(c, d), KeysPublic(m, c)
    PROVE  KeysPublic(m, d)
<1>1. \A s \in Strings : Exported(d.rows[s]) =>
          Exported(c.rows[s]) /\ ExportIdentity(m, d, s) = ExportIdentity(m, c, s)
  BY DEF SamePublic, ExportIdentity
<1> QED
  BY <1>1 DEF KeysPublic

\* A request leaves the catalog c, with layout and policy as they are.
Leaves(c) ==
    /\ catalog' = c
    /\ UNCHANGED Settings
    /\ steps' \in 0..MaxSteps

\* The invariant after a request, from what holds of the catalog that it leaves.
LEMMA LeavesSound ==
    ASSUME CatalogInv, NEW c \in Catalogs, Leaves(c), KeysAlive(duplicates, c.rows),
           SamePublic(catalog, c) \/ KeysPublic(modular, c),
           ModulesKept(c), Snapshots(c)
    PROVE  CatalogInv'
<1>1. modular \in BOOLEAN /\ modular' = modular /\ duplicates' = duplicates /\ relaid' = relaid
  BY DEF CatalogInv, CatalogTypeOK, Leaves, Settings
<1>2. CatalogTypeOK'
  BY DEF CatalogInv, CatalogTypeOK, Leaves, Settings
<1>3. ChecksSuffice'
  BY <1>1 DEF ChecksSuffice, Leaves
<1>4. KeysPublic(TRUE, c) /\ (relaid \/ KeysPublic(modular, c))
  <2>1. CASE KeysPublic(modular, c)
    <3>1. KeysPublic(TRUE, c)
      BY <1>1, <2>1, StricterKeys
    <3> QED
      BY <2>1, <3>1
  <2>2. CASE SamePublic(catalog, c)
    BY <2>2, PublicStays DEF CatalogInv, PublicExportable
  <2> QED
    BY <2>1, <2>2
<1> QED
  BY <1>1, <1>2, <1>3, <1>4 DEF CatalogInv, PublicExportable, Leaves

-----------------------------------------------------------------------------
(* The strings.                                                            *)

\* The catalog after a write of one string.
LEMMA OneWritten ==
    ASSUME CatalogTypeOK, NEW s \in Strings, NEW r \in Rows
    PROVE  /\ WithRow(s, r) \in Catalogs /\ WithRow(s, r).mods = catalog.mods
           /\ WithRow(s, r).rows[s] = r
           /\ \A t \in Strings \ {s} : WithRow(s, r).rows[t] = catalog.rows[t]
<1> DEFINE rows == [catalog.rows EXCEPT ![s] = r]
<1>1. /\ catalog.rows \in [Strings -> Rows]
      /\ catalog.mods \in [Modules -> Slugs \cup {None}]
  BY DEF CatalogTypeOK, Catalogs
<1>2. /\ rows \in [Strings -> Rows] /\ rows[s] = r
      /\ \A t \in Strings \ {s} : rows[t] = catalog.rows[t]
  BY <1>1
<1>3. WithRow(s, r) = [catalog EXCEPT !.rows = rows]
  BY DEF WithRow
<1> HIDE DEF rows
<1>4. WithRow(s, r) = [rows |-> rows, mods |-> catalog.mods]
  BY <1>3 DEF CatalogTypeOK, Catalogs
<1> QED
  BY <1>1, <1>2, <1>4 DEF Catalogs

\* A string that keeps its key, or takes one that is free, keeps keys apart.
LEMMA OneKey ==
    ASSUME CatalogInv, NEW s \in Strings, NEW r \in Rows,
           \/ ~Alive(r)
           \/ ~KeyOwned(s, r)
           \/ /\ Alive(catalog.rows[s])
              /\ r.key = catalog.rows[s].key /\ r.mod = catalog.rows[s].mod
    PROVE  KeysAlive(duplicates, WithRow(s, r).rows)
<1>1. KeysAlive(duplicates, catalog.rows) /\ CatalogTypeOK
  BY DEF CatalogInv, ChecksSuffice
<1> DEFINE rows == WithRow(s, r).rows
<1>2. rows[s] = r /\ \A t \in Strings \ {s} : rows[t] = catalog.rows[t]
  BY <1>1, OneWritten
<1> HIDE DEF rows
<1>3. ASSUME Alive(r), NEW t \in Strings \ {s}, Alive(catalog.rows[t])
      PROVE  KeyIdentity(duplicates, catalog.rows[t]) # KeyIdentity(duplicates, r)
  <2>1. CASE ~KeyOwned(s, r)
    BY <1>3, <2>1 DEF KeyOwned
  <2>2. CASE /\ Alive(catalog.rows[s])
             /\ r.key = catalog.rows[s].key /\ r.mod = catalog.rows[s].mod
    <3>1. KeyIdentity(duplicates, r) = KeyIdentity(duplicates, catalog.rows[s])
      BY <2>2 DEF KeyIdentity
    <3> QED
      BY <1>1, <1>3, <2>2, <3>1 DEF KeysAlive
  <2> QED
    BY <1>3, <2>1, <2>2
<1>4. \A t, u \in Strings \ {s} :
          /\ Alive(rows[t]) /\ Alive(rows[u])
          /\ KeyIdentity(duplicates, rows[t]) = KeyIdentity(duplicates, rows[u])
          => t = u
  BY <1>1, <1>2 DEF KeysAlive
<1>5. \A t \in Strings \ {s} : Alive(rows[t]) /\ Alive(rows[s]) =>
          KeyIdentity(duplicates, rows[t]) # KeyIdentity(duplicates, rows[s])
  BY <1>2, <1>3
<1> QED
  BY <1>4, <1>5 DEF KeysAlive, rows

\* A write of one string is sound that keeps its references, has a key of its own, and
\* is checked against the export or leaves its published place.
LEMMA OneSound ==
    ASSUME CatalogInv, NEW s \in Strings, NEW r \in Rows, Leaves(WithRow(s, r)),
           KeysAlive(duplicates, WithRow(s, r).rows),
           r.mod # None => catalog.mods[r.mod] # None,
           PubMod(r) # None => catalog.mods[PubMod(r)] # None,
           r.status = "public" => r.pub # None,
           \/ KeysPublic(modular, WithRow(s, r))
           \/ ~Exported(r)
           \/ /\ Exported(catalog.rows[s])
              /\ PubKey(r) = PubKey(catalog.rows[s]) /\ PubMod(r) = PubMod(catalog.rows[s])
    PROVE  CatalogInv'
<1> DEFINE c == WithRow(s, r)
<1>0. CatalogTypeOK /\ ModulesKept(catalog) /\ Snapshots(catalog)
  BY DEF CatalogInv
<1>1. /\ c \in Catalogs /\ c.mods = catalog.mods /\ c.rows[s] = r
      /\ \A t \in Strings \ {s} : c.rows[t] = catalog.rows[t]
  BY <1>0, OneWritten
<1> HIDE DEF c
<1>2. ModulesKept(c)
  BY <1>0, <1>1 DEF ModulesKept
<1>3. Snapshots(c)
  BY <1>0, <1>1 DEF Snapshots
<1>4. SamePublic(catalog, c) \/ KeysPublic(modular, c)
  <2>1. CASE KeysPublic(modular, c)
    BY <2>1
  <2>2. CASE ~KeysPublic(modular, c)
    <3>1. \/ ~Exported(r)
          \/ /\ Exported(catalog.rows[s])
             /\ PubKey(r) = PubKey(catalog.rows[s]) /\ PubMod(r) = PubMod(catalog.rows[s])
      BY <2>2 DEF c
    <3>2. \A m : SlugOf(c, m) = SlugOf(catalog, m)
      BY <1>1 DEF SlugOf
    <3> QED
      BY <1>1, <3>1, <3>2 DEF SamePublic
  <2> QED
    BY <2>1, <2>2
<1> QED
  BY <1>1, <1>2, <1>3, <1>4, LeavesSound DEF c

\* What the catalog says of one of its rows.
LEMMA RowNow ==
    ASSUME CatalogInv, NEW s \in Strings
    PROVE  LET r == catalog.rows[s]
           IN  /\ r \in Rows /\ (Exists(r) => r \in FullRows)
               /\ r.mod # None => catalog.mods[r.mod] # None
               /\ PubMod(r) # None => catalog.mods[PubMod(r)] # None
               /\ r.status = "public" => r.pub # None
<1>1. catalog.rows[s] \in Rows
  BY DEF CatalogInv, CatalogTypeOK, Catalogs
<1> QED
  BY <1>1, RowKinds DEF CatalogInv, ModulesKept, Snapshots

\* A row with the content x, published or not.
LEMMA StatusRow ==
    ASSUME NEW r \in FullRows, NEW status \in {"draft", "public", None}
    PROVE  LET now == WithStatus(r, status)
           IN  /\ now \in FullRows /\ now.key = r.key /\ now.mod = r.mod
               /\ now.deleted = r.deleted
               /\ now.pub = IF status = "public" THEN Content(r) ELSE r.pub
               /\ status = "public" => PubMod(now) = r.mod /\ now.pub # None
               /\ status = "draft" => now.status = "draft"
               /\ status \notin {"draft", "public"} => now = r
<1>1. Content(r) \in Contents /\ Content(r).mod = r.mod
  BY DEF Content, Contents, FullRows
<1>2. Content(r) # None
  BY <1>1, RowsAssumption
<1>3. CASE status = "public"
  <2>1. WithStatus(r, status) = Promoted(r)
    BY <1>3 DEF WithStatus
  <2>2. /\ Promoted(r) \in FullRows /\ Promoted(r).key = r.key /\ Promoted(r).mod = r.mod
        /\ Promoted(r).deleted = r.deleted /\ Promoted(r).pub = Content(r)
    BY <1>1 DEF Promoted, FullRows
  <2> QED
    BY <1>1, <1>2, <1>3, <2>1, <2>2 DEF PubMod
<1>4. CASE status = "draft"
  <2>1. WithStatus(r, status) = [r EXCEPT !.status = "draft"]
    BY <1>4 DEF WithStatus
  <2> QED
    BY <1>4, <2>1 DEF FullRows
<1>5. CASE status \notin {"draft", "public"}
  <2>1. WithStatus(r, status) = r
    BY <1>5 DEF WithStatus
  <2> QED
    BY <1>5, <2>1
<1> QED
  BY <1>3, <1>4, <1>5

\* A request that changes no setting leaves the catalog that it writes.
LEMMA RequestLeaves ==
    ASSUME CatalogInv, NEW kind, Request(kind), UNCHANGED Settings, NEW c, catalog' = c
    PROVE  Leaves(c)
  BY RowsAssumption, CatalogAssumption DEF CatalogInv, CatalogTypeOK, Request, Leaves

\* POST: the key is free, and a published string is checked against the export.
LEMMA CreateSound ==
    ASSUME CatalogInv, NEW s \in Strings, NEW x \in Contents,
           NEW status \in {"draft", "public"}, Create(s, x, status)
    PROVE  CatalogInv'
<1> DEFINE r == Draft(x)
           now == WithStatus(r, status)
<1>1. /\ r \in FullRows /\ r.key = x.key /\ r.mod = x.mod /\ r.pub = None /\ ~r.deleted
      /\ x.mod \in Modules \cup {None}
  BY DEF Draft, FullRows, Contents
<1> HIDE DEF r
<1>2. /\ now \in FullRows /\ now.key = r.key /\ now.mod = r.mod
      /\ now.pub = IF status = "public" THEN Content(r) ELSE None
      /\ status = "public" => PubMod(now) = r.mod /\ now.pub # None
      /\ status = "draft" => now.status = "draft"
  BY <1>1, StatusRow
<1>3. now \in Rows
  BY <1>2, RowKinds
<1> HIDE DEF now
<1>4. /\ catalog' = WithRow(s, now) /\ ~KeyOwned(s, r) /\ Known(x.mod)
      /\ status = "public" => KeysPublic(modular, WithRow(s, now))
      /\ Request("create") /\ UNCHANGED Settings
  <2>1. catalog' = WithRow(s, now)
    BY DEF Create, now, r
  <2> QED
    BY <2>1 DEF Create, r, Published
<1>5. ~KeyOwned(s, now)
  BY <1>2, <1>4 DEF KeyOwned, KeyIdentity
<1>6. KeysAlive(duplicates, WithRow(s, now).rows)
  BY <1>3, <1>5, OneKey
<1>7. Leaves(WithRow(s, now))
  BY <1>4, RequestLeaves
<1>8. now.mod # None => catalog.mods[now.mod] # None
  BY <1>1, <1>2, <1>4 DEF Known
<1>9. /\ PubMod(now) # None => catalog.mods[PubMod(now)] # None
      /\ now.status = "public" => now.pub # None
      /\ KeysPublic(modular, WithRow(s, now)) \/ ~Exported(now)
  BY <1>1, <1>2, <1>4, <1>8 DEF PubMod, Exported
<1> QED
  BY <1>3, <1>6, <1>7, <1>8, <1>9, OneSound

\* PATCH: a key or module that changes is checked, a kept one is the old one.
LEMMA SaveSound ==
    ASSUME CatalogInv, NEW s \in Strings, NEW x \in Contents,
           NEW status \in {"draft", "public", None}, Save(s, x, status)
    PROVE  CatalogInv'
<1> DEFINE r == catalog.rows[s]
           new == [r EXCEPT !.key = x.key, !.mod = x.mod, !.text = x.text, !.tr = x.tr]
           now == WithStatus(new, status)
<1>1. /\ r \in FullRows
      /\ PubMod(r) # None => catalog.mods[PubMod(r)] # None
      /\ r.status = "public" => r.pub # None
  BY RowNow DEF Save
<1>2. /\ Request("save") /\ UNCHANGED Settings /\ Known(x.mod)
      /\ <<x.key, x.mod>> # <<r.key, r.mod>> => ~KeyOwned(s, new)
      /\ catalog' = WithRow(s, now)
      /\ status = "public" => KeysPublic(modular, WithRow(s, now))
  <2>1. catalog' = WithRow(s, now)
    BY DEF Save
  <2> QED
    BY <2>1 DEF Save, Published
<1> HIDE DEF r
<1>3. /\ new \in FullRows /\ new.key = x.key /\ new.mod = x.mod /\ new.pub = r.pub
      /\ new.status = r.status /\ new.deleted = r.deleted
      /\ x.mod \in Modules \cup {None}
  BY <1>1 DEF FullRows, Contents
<1> HIDE DEF new
<1>4. /\ now \in FullRows /\ now.key = x.key /\ now.mod = x.mod /\ now.deleted = r.deleted
      /\ now.pub = IF status = "public" THEN Content(new) ELSE r.pub
      /\ status = "public" => PubMod(now) = x.mod /\ now.pub # None
      /\ status = "draft" => now.status = "draft"
      /\ status \notin {"draft", "public"} => now = new
  BY <1>3, StatusRow
<1>5. now \in Rows
  BY <1>4, RowKinds
<1> HIDE DEF now
<1>6. KeysAlive(duplicates, WithRow(s, now).rows)
  <2>1. CASE ~KeyOwned(s, new)
    <3>1. ~KeyOwned(s, now)
      BY <1>3, <1>4, <2>1 DEF KeyOwned, KeyIdentity
    <3> QED
      BY <1>5, <3>1, OneKey
  <2>2. CASE KeyOwned(s, new)
    <3>1. now.key = r.key /\ now.mod = r.mod
      BY <1>2, <1>4, <2>2
    <3>2. ~Alive(now) \/ Alive(r)
      BY <1>1, <1>4, RowKinds DEF Alive
    <3> QED
      BY <1>5, <3>1, <3>2, OneKey DEF r
  <2> QED
    BY <2>1, <2>2
<1>7. Leaves(WithRow(s, now))
  BY <1>2, RequestLeaves
<1>8. now.mod # None => catalog.mods[now.mod] # None
  BY <1>2, <1>4 DEF Known
<1>9. PubMod(now) # None => catalog.mods[PubMod(now)] # None
  BY <1>1, <1>4, <1>8 DEF PubMod
<1>10. now.status = "public" => now.pub # None
  BY <1>1, <1>3, <1>4
<1>11. \/ KeysPublic(modular, WithRow(s, now))
       \/ ~Exported(now)
       \/ Exported(r) /\ PubKey(now) = PubKey(r) /\ PubMod(now) = PubMod(r)
  <2>1. CASE status = "public"
    BY <1>2, <2>1
  <2>2. CASE status = "draft"
    BY <1>4, <2>2 DEF Exported
  <2>3. CASE status \notin {"draft", "public"} /\ Exported(now)
    <3>1. now.status = "public" /\ r.status = "public" /\ now.pub = r.pub /\ r.pub # None
      BY <1>1, <1>3, <1>4, <2>3 DEF Exported
    <3>2. Exported(r)
      BY <1>1, <1>4, <2>3, <3>1, RowKinds DEF Exported, Alive
    <3> QED
      BY <3>1, <3>2 DEF PubKey, PubMod
  <2> QED
    BY <2>1, <2>2, <2>3
<1> QED
  BY <1>5, <1>6, <1>7, <1>8, <1>9, <1>10, <1>11, OneSound DEF r

\* Publish: the export is checked; a string that waits for its removal is removed.
LEMMA PublishSound ==
    ASSUME CatalogInv, NEW s \in Strings, Publish(s)
    PROVE  CatalogInv'
<1> DEFINE r == catalog.rows[s]
           now == IF r.pending THEN [r EXCEPT !.deleted = TRUE, !.pending = FALSE]
                  ELSE Promoted(r)
<1>1. /\ Request("publish") /\ UNCHANGED Settings /\ Alive(r)
      /\ catalog' = WithRow(s, now)
      /\ KeysPublic(modular, WithRow(s, now))
  <2>1. catalog' = WithRow(s, now)
    BY DEF Publish
  <2> QED
    BY <2>1 DEF Publish, Published
<1>2. /\ r \in FullRows
      /\ r.mod # None => catalog.mods[r.mod] # None
      /\ PubMod(r) # None => catalog.mods[PubMod(r)] # None
      /\ r.status = "public" => r.pub # None
  BY <1>1, RowNow DEF Alive
<1> HIDE DEF r
<1>3. /\ now \in FullRows /\ now.key = r.key /\ now.mod = r.mod
      /\ PubMod(now) \in {r.mod, PubMod(r)}
      /\ now.status = "public" => now.pub # None
  <2>1. CASE r.pending
    <3>1. now = [r EXCEPT !.deleted = TRUE, !.pending = FALSE]
      BY <2>1
    <3> HIDE DEF now
    <3> QED
      BY <1>2, <3>1 DEF FullRows, PubMod
  <2>2. CASE ~r.pending
    <3>1. now = WithStatus(r, "public")
      BY <2>2 DEF WithStatus
    <3> HIDE DEF now
    <3> QED
      BY <1>2, <3>1, StatusRow
  <2> QED
    BY <2>1, <2>2
<1>4. now \in Rows
  BY <1>3, RowKinds
<1> HIDE DEF now
<1>5. KeysAlive(duplicates, WithRow(s, now).rows)
  BY <1>1, <1>3, <1>4, OneKey DEF r
<1>6. Leaves(WithRow(s, now))
  BY <1>1, RequestLeaves
<1> QED
  BY <1>1, <1>2, <1>3, <1>4, <1>5, <1>6, OneSound

\* Unpublish: the export loses a string.
LEMMA UnpublishSound ==
    ASSUME CatalogInv, NEW s \in Strings, Unpublish(s)
    PROVE  CatalogInv'
<1> DEFINE r == catalog.rows[s]
           now == [r EXCEPT !.status = "draft"]
<1>1. /\ Request("unpublish") /\ UNCHANGED Settings /\ Alive(r)
      /\ catalog' = WithRow(s, now)
  BY DEF Unpublish
<1>2. /\ r \in FullRows
      /\ r.mod # None => catalog.mods[r.mod] # None
      /\ PubMod(r) # None => catalog.mods[PubMod(r)] # None
  BY <1>1, RowNow DEF Alive
<1> HIDE DEF r
<1>3. /\ now \in FullRows /\ now.key = r.key /\ now.mod = r.mod
      /\ PubMod(now) = PubMod(r) /\ now.status = "draft"
  BY <1>2 DEF FullRows, PubMod
<1>4. now \in Rows
  BY <1>3, RowKinds
<1> HIDE DEF now
<1>5. KeysAlive(duplicates, WithRow(s, now).rows)
  BY <1>1, <1>3, <1>4, OneKey DEF r
<1>6. Leaves(WithRow(s, now))
  BY <1>1, RequestLeaves
<1>7. ~Exported(now) /\ now.status # "public"
  BY <1>3 DEF Exported
<1> QED
  BY <1>2, <1>3, <1>4, <1>5, <1>6, <1>7, OneSound

\* Delete: the working key and the published place stay, or the string goes.
LEMMA DeleteSound ==
    ASSUME CatalogInv, NEW s \in Strings, Delete(s)
    PROVE  CatalogInv'
<1> DEFINE r == catalog.rows[s]
           now == IF r.pub # None THEN [r EXCEPT !.pending = TRUE]
                  ELSE [r EXCEPT !.deleted = TRUE, !.pending = FALSE]
<1>1. /\ Request("delete") /\ UNCHANGED Settings /\ Alive(r)
      /\ catalog' = WithRow(s, now)
  BY DEF Delete
<1>2. /\ r \in FullRows
      /\ r.mod # None => catalog.mods[r.mod] # None
      /\ PubMod(r) # None => catalog.mods[PubMod(r)] # None
      /\ r.status = "public" => r.pub # None
  BY <1>1, RowNow DEF Alive
<1> HIDE DEF r
<1>3. /\ now \in FullRows /\ now.key = r.key /\ now.mod = r.mod /\ now.pub = r.pub
      /\ now.status = r.status
  <2>1. CASE r.pub # None
    <3>1. now = [r EXCEPT !.pending = TRUE]
      BY <2>1
    <3> HIDE DEF now
    <3> QED
      BY <1>2, <3>1 DEF FullRows
  <2>2. CASE r.pub = None
    <3>1. now = [r EXCEPT !.deleted = TRUE, !.pending = FALSE]
      BY <2>2
    <3> HIDE DEF now
    <3> QED
      BY <1>2, <3>1 DEF FullRows
  <2> QED
    BY <2>1, <2>2
<1>4. now \in Rows
  BY <1>3, RowKinds
<1> HIDE DEF now
<1>5. KeysAlive(duplicates, WithRow(s, now).rows)
  BY <1>1, <1>3, <1>4, OneKey DEF r
<1>6. Leaves(WithRow(s, now))
  BY <1>1, RequestLeaves
<1>7. PubKey(now) = PubKey(r) /\ PubMod(now) = PubMod(r)
  BY <1>3 DEF PubKey, PubMod
<1>8. Exported(now) => Exported(r)
  BY <1>1, <1>3 DEF Exported
<1> QED
  BY <1>2, <1>3, <1>4, <1>5, <1>6, <1>7, <1>8, OneSound DEF r

\* Restore: the unique index refuses a key that is taken; a tombstone is a draft again.
LEMMA RestoreSound ==
    ASSUME CatalogInv, NEW s \in Strings, Restore(s)
    PROVE  CatalogInv'
<1> DEFINE r == catalog.rows[s]
           now == [r EXCEPT !.deleted = FALSE, !.pending = FALSE,
                            !.status = IF r.deleted THEN "draft" ELSE @]
<1>1. /\ Request("restore") /\ UNCHANGED Settings /\ Exists(r)
      /\ catalog' = WithRow(s, now) /\ KeysAlive(duplicates, WithRow(s, now).rows)
  <2>1. catalog' = WithRow(s, now)
    BY DEF Restore
  <2> QED
    BY <2>1 DEF Restore
<1>2. /\ r \in FullRows
      /\ r.mod # None => catalog.mods[r.mod] # None
      /\ PubMod(r) # None => catalog.mods[PubMod(r)] # None
      /\ r.status = "public" => r.pub # None
  BY <1>1, RowNow
<1> HIDE DEF r
<1>3. /\ now \in FullRows /\ now.mod = r.mod /\ now.pub = r.pub /\ now.key = r.key
      /\ now.status = IF r.deleted THEN "draft" ELSE r.status
  BY <1>2 DEF FullRows
<1>4. now \in Rows
  BY <1>3, RowKinds
<1> HIDE DEF now
<1>5. Leaves(WithRow(s, now))
  BY <1>1, RequestLeaves
<1>6. PubKey(now) = PubKey(r) /\ PubMod(now) = PubMod(r)
  BY <1>3 DEF PubKey, PubMod
<1>7. Exported(now) => Exported(r)
  BY <1>1, <1>3 DEF Exported, Alive
<1>8. now.status = "public" => now.pub # None
  BY <1>2, <1>3
<1> QED
  BY <1>1, <1>2, <1>3, <1>4, <1>5, <1>6, <1>7, <1>8, OneSound DEF r

\* Discard: the working copy takes a key that may be taken, the export stays.
LEMMA DiscardSound ==
    ASSUME CatalogInv, NEW s \in Strings, Discard(s)
    PROVE  CatalogInv'
<1> DEFINE r == catalog.rows[s]
           now == [r EXCEPT !.key = r.pub.key, !.mod = r.pub.mod,
                            !.text = r.pub.text, !.tr = r.pub.tr, !.pending = FALSE]
<1>1. /\ Request("discard") /\ UNCHANGED Settings /\ Exists(r) /\ r.pub # None
      /\ catalog' = WithRow(s, now) /\ KeysAlive(duplicates, WithRow(s, now).rows)
  <2>1. catalog' = WithRow(s, now)
    BY DEF Discard
  <2> QED
    BY <2>1 DEF Discard
<1>2. /\ r \in FullRows
      /\ PubMod(r) # None => catalog.mods[PubMod(r)] # None
  BY <1>1, RowNow
<1> HIDE DEF r
<1>3. /\ r.pub \in Contents /\ PubMod(r) = r.pub.mod
  BY <1>1, <1>2 DEF FullRows, PubMod
<1>4. /\ now \in FullRows /\ now.mod = r.pub.mod /\ now.pub = r.pub
      /\ now.status = r.status /\ now.deleted = r.deleted
  BY <1>2, <1>3 DEF FullRows, Contents
<1>5. now \in Rows
  BY <1>4, RowKinds
<1> HIDE DEF now
<1>6. Leaves(WithRow(s, now))
  BY <1>1, RequestLeaves
<1>7. PubKey(now) = PubKey(r) /\ PubMod(now) = PubMod(r)
  BY <1>1, <1>4 DEF PubKey, PubMod
<1>8. Exported(now) => Exported(r)
  BY <1>4 DEF Exported, Alive, Exists
<1> QED
  BY <1>1, <1>2, <1>3, <1>4, <1>5, <1>6, <1>7, <1>8, OneSound DEF r

-----------------------------------------------------------------------------
(* The modules and the settings.                                           *)

\* The catalog with another slug for one module.
Slugged(m, slug) == [catalog EXCEPT !.mods[m] = slug]

\* The catalog after a module got a slug.
LEMMA SluggedIs ==
    ASSUME CatalogInv, NEW m \in Modules, NEW slug \in Slugs
    PROVE  /\ Slugged(m, slug) \in Catalogs /\ Slugged(m, slug).rows = catalog.rows
           /\ Slugged(m, slug).mods[m] = slug
           /\ \A n \in Modules \ {m} : Slugged(m, slug).mods[n] = catalog.mods[n]
<1> DEFINE mods == [catalog.mods EXCEPT ![m] = slug]
<1>1. /\ catalog.rows \in [Strings -> Rows]
      /\ catalog.mods \in [Modules -> Slugs \cup {None}]
  BY DEF CatalogInv, CatalogTypeOK, Catalogs
<1>2. /\ mods \in [Modules -> Slugs \cup {None}] /\ mods[m] = slug
      /\ \A n \in Modules \ {m} : mods[n] = catalog.mods[n]
  BY <1>1
<1>3. Slugged(m, slug) = [catalog EXCEPT !.mods = mods]
  BY DEF Slugged
<1> HIDE DEF mods
<1>4. Slugged(m, slug) = [rows |-> catalog.rows, mods |-> mods]
  BY <1>3 DEF CatalogInv, CatalogTypeOK, Catalogs
<1> QED
  BY <1>1, <1>2, <1>4 DEF Catalogs

\* A slug that no module has keeps the exported places apart, whoever gets it.
LEMMA SluggedSound ==
    ASSUME CatalogInv, NEW m \in Modules, NEW slug \in Slugs,
           ModuleIds(catalog, slug) = {}, Leaves(Slugged(m, slug))
    PROVE  CatalogInv'
<1> DEFINE c == Slugged(m, slug)
<1>0. /\ CatalogTypeOK /\ ModulesKept(catalog) /\ Snapshots(catalog)
      /\ KeysAlive(duplicates, catalog.rows)
      /\ KeysPublic(TRUE, catalog) /\ (relaid \/ KeysPublic(modular, catalog))
      /\ modular \in BOOLEAN
  BY DEF CatalogInv, ChecksSuffice, PublicExportable, CatalogTypeOK
<1>1. /\ c \in Catalogs /\ c.rows = catalog.rows /\ c.mods[m] = slug
      /\ \A n \in Modules \ {m} : c.mods[n] = catalog.mods[n]
  BY SluggedIs
<1>2. slug # None /\ \A n \in Modules : catalog.mods[n] # slug
  BY RowsAssumption DEF ModuleIds
<1> HIDE DEF c
<1>3. \A s \in Strings : PubMod(catalog.rows[s]) \in Modules \cup {None}
  BY <1>0, RowKinds DEF CatalogTypeOK, Catalogs, FullRows, Contents, PubMod
<1>4. ASSUME NEW i \in Modules \cup {None}, NEW j \in Modules \cup {None},
             i # None => catalog.mods[i] # None, j # None => catalog.mods[j] # None,
             SlugOf(c, i) = SlugOf(c, j)
      PROVE  SlugOf(catalog, i) = SlugOf(catalog, j)
  <2>1. i # None => c.mods[i] # None
    BY <1>1, <1>2, <1>4
  <2>2. j # None => c.mods[j] # None
    BY <1>1, <1>2, <1>4
  <2> QED
    BY <1>1, <1>2, <1>4, <2>1, <2>2 DEF SlugOf
<1>5. ASSUME NEW layout \in BOOLEAN, KeysPublic(layout, catalog)
      PROVE  KeysPublic(layout, c)
  <2> SUFFICES ASSUME NEW s \in Strings, NEW t \in Strings,
                      Exported(c.rows[s]), Exported(c.rows[t]),
                      ExportIdentity(layout, c, s) = ExportIdentity(layout, c, t)
               PROVE  s = t
    BY DEF KeysPublic
  <2>1. /\ PubKey(catalog.rows[s]) = PubKey(catalog.rows[t])
        /\ layout => SlugOf(c, PubMod(catalog.rows[s])) = SlugOf(c, PubMod(catalog.rows[t]))
    BY <1>1 DEF ExportIdentity
  <2>2. /\ PubMod(catalog.rows[s]) # None => catalog.mods[PubMod(catalog.rows[s])] # None
        /\ PubMod(catalog.rows[t]) # None => catalog.mods[PubMod(catalog.rows[t])] # None
    BY RowNow
  <2>3. layout => SlugOf(catalog, PubMod(catalog.rows[s]))
                    = SlugOf(catalog, PubMod(catalog.rows[t]))
    BY <1>3, <1>4, <2>1, <2>2
  <2>4. ExportIdentity(layout, catalog, s) = ExportIdentity(layout, catalog, t)
    BY <2>1, <2>3 DEF ExportIdentity
  <2> QED
    BY <1>1, <1>5, <2>4 DEF KeysPublic
<1>6. ModulesKept(c)
  <2>1. \A s \in Strings : catalog.rows[s].mod \in Modules \cup {None}
    BY <1>0, RowKinds DEF CatalogTypeOK, Catalogs, FullRows
  <2> SUFFICES ASSUME NEW s \in Strings,
                      NEW n \in {catalog.rows[s].mod, PubMod(catalog.rows[s])} \ {None}
               PROVE  c.mods[n] # None
    BY <1>1 DEF ModulesKept
  <2>2. n \in Modules /\ catalog.mods[n] # None
    BY <1>0, <1>3, <2>1 DEF ModulesKept
  <2> QED
    BY <1>1, <1>2, <2>2
<1>7. Snapshots(c)
  BY <1>0, <1>1 DEF Snapshots
<1>8. /\ catalog' = c /\ modular' = modular /\ duplicates' = duplicates /\ relaid' = relaid
      /\ steps' \in 0..MaxSteps
  BY DEF Leaves, Settings, c
<1>9. KeysPublic(TRUE, c) /\ (relaid \/ KeysPublic(modular, c))
  BY <1>0, <1>5
<1> QED
  BY <1>0, <1>1, <1>6, <1>7, <1>8, <1>9
  DEF CatalogInv, CatalogTypeOK, ChecksSuffice, PublicExportable

\* A row after the deletion of a module.
LEMMA UnassignedRow ==
    ASSUME NEW r \in Rows, NEW m \in Modules
    PROVE  LET now == Unassigned(r, m)
           IN  /\ now \in Rows /\ now.key = r.key /\ now.status = r.status
               /\ now.deleted = r.deleted
               /\ now.mod = IF r.mod = m THEN None ELSE r.mod
               /\ PubMod(now) = IF PubMod(r) = m THEN None ELSE PubMod(r)
               /\ PubKey(now) = PubKey(r)
               /\ now.pub = None <=> r.pub = None
<1> DEFINE now == Unassigned(r, m)
           pub == IF r.pub # None /\ r.pub.mod = m THEN [r.pub EXCEPT !.mod = None] ELSE r.pub
           mod == IF r.mod = m THEN None ELSE r.mod
<1>1. now = [r EXCEPT !.mod = mod, !.pub = pub]
  BY DEF Unassigned
<1>2. None \notin Modules /\ None \notin Contents
  BY RowsAssumption
<1>3. CASE r = NoRow
  <2>1. pub = None /\ mod = None
    BY <1>3, RowKinds
  <2> HIDE DEF now, pub, mod
  <2>2. r \in [key: {None}, mod: {None}, text: {None}, tr: {None}, pub: {None},
                status: {"none"}, pending: {FALSE}, deleted: {FALSE}]
    BY <1>3 DEF NoRow
  <2>3. now = [r EXCEPT !.mod = None, !.pub = None]
    BY <1>1, <2>1
  <2>4. now = r /\ r.mod = None /\ r.pub = None
    BY <2>2, <2>3
  <2>5. PubMod(r) = None
    BY <2>4 DEF PubMod
  <2> QED
    BY <2>4, <2>5 DEF now
<1>4. CASE r # NoRow
  <2>1. r \in FullRows
    BY <1>4, RowKinds
  <2>2. r.pub # None => r.pub \in Contents
    BY <2>1 DEF FullRows
  <2>3. /\ pub \in Contents \cup {None} /\ (pub = None <=> r.pub = None)
        /\ r.pub # None => /\ pub.key = r.pub.key
                           /\ pub.mod = IF r.pub.mod = m THEN None ELSE r.pub.mod
    <3>1. CASE r.pub = None
      BY <3>1
    <3>2. CASE r.pub # None /\ r.pub.mod = m
      <4>1. [r.pub EXCEPT !.mod = None] \in Contents
        BY <2>2, <3>2 DEF Contents
      <4>2. [r.pub EXCEPT !.mod = None].key = r.pub.key /\ [r.pub EXCEPT !.mod = None].mod = None
        BY <2>2, <3>2 DEF Contents
      <4> QED
        BY <1>2, <3>2, <4>1, <4>2
    <3>3. CASE r.pub # None /\ r.pub.mod # m
      BY <2>2, <3>3
    <3> QED
      BY <3>1, <3>2, <3>3
  <2>4. mod \in Modules \cup {None}
    BY <2>1 DEF FullRows
  <2> HIDE DEF now, pub
  <2>5. /\ now \in FullRows /\ now.key = r.key /\ now.status = r.status
        /\ now.deleted = r.deleted /\ now.mod = mod /\ now.pub = pub
    <3> HIDE DEF mod
    <3> QED
      BY <1>1, <2>1, <2>3, <2>4 DEF FullRows
  <2> QED
    BY <1>2, <2>3, <2>5, RowKinds DEF now, PubMod, PubKey
<1> QED
  BY <1>3, <1>4

\* A module is deleted only when its strings stay apart without it.
LEMMA RemoveModuleSound ==
    ASSUME CatalogInv, NEW m \in Modules, RemoveModule(m)
    PROVE  CatalogInv'
<1> DEFINE rows == [s \in Strings |-> Unassigned(catalog.rows[s], m)]
           mods == [catalog.mods EXCEPT ![m] = None]
           c == [rows |-> rows, mods |-> mods]
<1>0. /\ CatalogTypeOK /\ ModulesKept(catalog) /\ Snapshots(catalog)
      /\ KeysAlive(duplicates, catalog.rows)
      /\ KeysPublic(TRUE, catalog) /\ (relaid \/ KeysPublic(modular, catalog))
      /\ modular \in BOOLEAN /\ duplicates \in BOOLEAN
      /\ catalog.rows \in [Strings -> Rows]
      /\ catalog.mods \in [Modules -> Slugs \cup {None}]
  BY DEF CatalogInv, ChecksSuffice, PublicExportable, CatalogTypeOK, Catalogs
<1>1. catalog' = c
  <2>1. catalog' = [catalog EXCEPT !.rows = rows, !.mods = mods]
    BY DEF RemoveModule, ModuleCleared
  <2> HIDE DEF rows, mods
  <2> QED
    BY <1>0, <2>1 DEF CatalogTypeOK, Catalogs
<1>2. \A s \in Strings :
         LET r == catalog.rows[s]
         IN  /\ rows[s] \in Rows /\ rows[s].key = r.key /\ rows[s].status = r.status
             /\ rows[s].deleted = r.deleted
             /\ rows[s].mod = IF r.mod = m THEN None ELSE r.mod
             /\ PubMod(rows[s]) = IF PubMod(r) = m THEN None ELSE PubMod(r)
             /\ PubKey(rows[s]) = PubKey(r)
             /\ rows[s].pub = None <=> r.pub = None
  BY <1>0, UnassignedRow
<1>3. /\ mods \in [Modules -> Slugs \cup {None}] /\ mods[m] = None
      /\ \A n \in Modules \ {m} : mods[n] = catalog.mods[n]
  BY <1>0
<1>4. \A s \in Strings : /\ PubMod(catalog.rows[s]) \in Modules \cup {None}
                         /\ catalog.rows[s].mod \in Modules \cup {None}
  BY <1>0, RowKinds DEF FullRows, Contents, PubMod
<1>5. None \notin Modules
  BY RowsAssumption
<1>6. /\ duplicates => ~KeyCollides(catalog, m)
      /\ ~PublishedCollides(catalog, m)
  BY DEF RemoveModule, Deletable
<1> HIDE DEF rows, mods
<1>7. c \in Catalogs /\ c.rows = rows /\ c.mods = mods
  <2>1. rows \in [Strings -> Rows]
    BY <1>2 DEF rows
  <2> QED
    BY <1>3, <2>1 DEF Catalogs
<1> HIDE DEF c
<1>8. \A s \in Strings : /\ Alive(rows[s]) <=> Alive(catalog.rows[s])
                         /\ Exported(rows[s]) <=> Exported(catalog.rows[s])
  BY <1>2 DEF Alive, Exists, Exported
<1>9. KeysAlive(duplicates, rows)
  <2> SUFFICES ASSUME NEW s \in Strings, NEW t \in Strings, Alive(rows[s]), Alive(rows[t]),
                      KeyIdentity(duplicates, rows[s]) = KeyIdentity(duplicates, rows[t]),
                      s # t
               PROVE  FALSE
    BY DEF KeysAlive
  <2>1. Alive(catalog.rows[s]) /\ Alive(catalog.rows[t])
    BY <1>8
  <2>2. KeyIdentity(duplicates, catalog.rows[s]) # KeyIdentity(duplicates, catalog.rows[t])
    BY <1>0, <2>1 DEF KeysAlive
  <2>3. duplicates /\ catalog.rows[s].key = catalog.rows[t].key
    BY <1>0, <1>2, <2>2 DEF KeyIdentity
  <2>4. rows[s].mod = rows[t].mod /\ catalog.rows[s].mod # catalog.rows[t].mod
    BY <1>0, <2>2, <2>3 DEF KeyIdentity
  <2>5. \/ catalog.rows[s].mod = m /\ catalog.rows[t].mod = None
        \/ catalog.rows[t].mod = m /\ catalog.rows[s].mod = None
    BY <1>2, <1>5, <2>4
  <2> QED
    BY <1>6, <2>1, <2>3, <2>5 DEF KeyCollides
<1>10. ASSUME NEW layout \in BOOLEAN, KeysPublic(layout, catalog)
       PROVE  KeysPublic(layout, c)
  <2> SUFFICES ASSUME NEW s \in Strings, NEW t \in Strings,
                      Exported(rows[s]), Exported(rows[t]),
                      ExportIdentity(layout, c, s) = ExportIdentity(layout, c, t),
                      s # t
               PROVE  FALSE
    BY <1>7 DEF KeysPublic
  <2> DEFINE i == PubMod(catalog.rows[s])
             j == PubMod(catalog.rows[t])
  <2>1. Exported(catalog.rows[s]) /\ Exported(catalog.rows[t])
    BY <1>8
  <2>2. /\ PubKey(catalog.rows[s]) = PubKey(catalog.rows[t])
        /\ layout => SlugOf(c, PubMod(rows[s])) = SlugOf(c, PubMod(rows[t]))
    BY <1>2, <1>7 DEF ExportIdentity
  <2>3. ExportIdentity(layout, catalog, s) # ExportIdentity(layout, catalog, t)
    BY <1>10, <2>1 DEF KeysPublic
  <2>4. layout /\ SlugOf(catalog, i) # SlugOf(catalog, j)
    BY <2>2, <2>3 DEF ExportIdentity
  <2>5. /\ i # None => catalog.mods[i] # None
        /\ j # None => catalog.mods[j] # None
    BY RowNow
  <2>6. /\ i \in Modules \cup {None} /\ j \in Modules \cup {None}
        /\ PubMod(rows[s]) = IF i = m THEN None ELSE i
        /\ PubMod(rows[t]) = IF j = m THEN None ELSE j
    BY <1>2, <1>4
  <2> HIDE DEF i, j
  <2>7. \/ i = m /\ j = None
        \/ j = m /\ i = None
    BY <1>3, <1>5, <1>7, <2>2, <2>4, <2>5, <2>6 DEF SlugOf
  <2> QED
    BY <1>6, <2>1, <2>2, <2>7 DEF PublishedCollides, i, j
<1>11. ModulesKept(c)
  BY <1>0, <1>2, <1>3, <1>4, <1>7 DEF ModulesKept
<1>12. Snapshots(c)
  BY <1>0, <1>2, <1>7 DEF Snapshots
<1>13. KeysPublic(TRUE, c) /\ (relaid \/ KeysPublic(modular, c))
  BY <1>0, <1>10
<1>14. /\ modular' = modular /\ duplicates' = duplicates /\ relaid' = relaid
       /\ steps' \in 0..MaxSteps
  <2>1. Request("modules") /\ UNCHANGED Settings
    BY DEF RemoveModule
  <2>2. Leaves(c)
    BY <1>1, <2>1, RequestLeaves DEF c
  <2> QED
    BY <2>2 DEF Leaves, Settings
<1> QED
  BY <1>0, <1>1, <1>7, <1>9, <1>11, <1>12, <1>13, <1>14
  DEF CatalogInv, CatalogTypeOK, ChecksSuffice, PublicExportable, c

\* A policy gets strict only when no key is double.
LEMMA SetPolicySound ==
    ASSUME CatalogInv, NEW allow \in BOOLEAN, SetPolicy(allow)
    PROVE  CatalogInv'
<1>1. /\ duplicates' = allow /\ catalog' = catalog /\ modular' = modular /\ relaid' = relaid
      /\ ~allow => KeysAlive(FALSE, catalog.rows)
      /\ allow # duplicates /\ Request("policy")
  BY DEF SetPolicy
<1>2. KeysAlive(allow, catalog.rows)
  <2>1. CASE ~allow
    BY <1>1, <2>1
  <2>2. CASE allow
    <3>1. KeysAlive(FALSE, catalog.rows)
      BY <1>1, <2>2 DEF CatalogInv, ChecksSuffice, CatalogTypeOK
    <3> QED
      BY <2>2, <3>1, StricterKeys
  <2> QED
    BY <2>1, <2>2
<1>3. steps' \in 0..MaxSteps
  BY <1>1, CatalogAssumption DEF Request, CatalogInv, CatalogTypeOK
<1> QED
  BY <1>1, <1>2, <1>3 DEF CatalogInv, CatalogTypeOK, ChecksSuffice, PublicExportable

\* A new layout changes no string; relaid remembers it.
LEMMA SetLayoutSound ==
    ASSUME CatalogInv, NEW layout \in BOOLEAN, SetLayout(layout)
    PROVE  CatalogInv'
<1>1. /\ modular' = layout /\ relaid' = TRUE /\ catalog' = catalog
      /\ duplicates' = duplicates /\ Request("layout")
  BY DEF SetLayout
<1>2. steps' \in 0..MaxSteps
  BY <1>1, CatalogAssumption DEF Request, CatalogInv, CatalogTypeOK
<1> QED
  BY <1>1, <1>2 DEF CatalogInv, CatalogTypeOK, ChecksSuffice, PublicExportable

-----------------------------------------------------------------------------
(* The imports.                                                            *)

\* What an import makes of the row v, where mods are the modules of its file.
ImportedAs(public, keys, mods, v, r) == r = v \/ PlannedRow(public, keys, mods, v, r)

\* What an import leaves, by its plan and the checks of _validate.
LEMMA ImportDoes ==
    ASSUME CatalogInv, NEW file \in Files, NEW public \in BOOLEAN, NEW reject \in BOOLEAN,
           Import(file, public, reject)
    PROVE  \E c \in Catalogs, mods \in SUBSET Modules :
              /\ Leaves(c)
              /\ KeysAlive(duplicates, c.rows)
              /\ public => KeysPublic(modular, c)
              /\ \A m \in Modules : catalog.mods[m] # None => c.mods[m] = catalog.mods[m]
              /\ \A m \in mods : c.mods[m] # None
              /\ \A s \in Strings :
                    ImportedAs(public, KeysIn(file), mods, catalog.rows[s], c.rows[s])
              /\ reject => \A s \in Guarded(catalog) : c.rows[s] = catalog.rows[s]
<1> DEFINE o == Options(public, reject, FALSE)
           view == Prepared(catalog, file)
           mods == FileMods(view, file)
<1>0. /\ catalog \in Catalogs /\ duplicates \in BOOLEAN /\ file \in Seq(ImportRows)
      /\ KeysAlive(duplicates, catalog.rows) /\ ModulesKept(catalog)
  BY CatalogAssumption DEF CatalogInv, CatalogTypeOK, ChecksSuffice
<1>1. /\ o \in PlanOptions /\ o.duplicates = duplicates /\ o.public = public
      /\ o.reject = reject
  BY <1>0 DEF Options, PlanOptions
<1>2. /\ Request("import") /\ UNCHANGED Settings
      /\ Fits(file) /\ Accepts(catalog, file, o)
      /\ catalog' = Plan(o, catalog, file).cat
  BY DEF Import
<1> HIDE DEF o
<1>3. Room(catalog, file) /\ \A i \in DOMAIN file : ~file[i].scoped => file[i].ref = None
  BY <1>2 DEF Fits
<1>4. /\ view \in Catalogs /\ view.rows = catalog.rows /\ NewSlugs(view, file) = {}
      /\ \A m \in Modules : catalog.mods[m] # None => view.mods[m] = catalog.mods[m]
      /\ Plan(o, catalog, file) = Plan(o, view, file)
  BY <1>0, <1>3, ViewFacts
<1>5. Len(file) <= Cardinality(FreeIds(view))
  BY <1>3, <1>4 DEF Room, FreeIds
<1>6. reject => PushDeleted(view, file, duplicates) = {}
  <2>1. reject => PushDeleted(catalog, file, duplicates) = {}
    BY <1>1, <1>2 DEF Accepts, Refusal
  <2> QED
    BY <1>0, <1>3, <2>1, PushAgrees
<1> HIDE DEF view
<1> PICK p : p = Plan(o, view, file)
  OBVIOUS
<1>7. /\ catalog' = p.cat /\ ~p.clash
      /\ public => KeysPublic(modular, p.cat)
  BY <1>1, <1>2, <1>4 DEF Accepts
<1>8. /\ KeysAlive(duplicates, p.cat.rows)
      /\ reject => \A s \in Guarded(view) : p.cat.rows[s] = view.rows[s]
  BY <1>0, <1>1, <1>3, <1>4, <1>5, <1>6, <1>7, PlanIsSafe
<1>9. /\ p.cat \in Catalogs /\ p.cat.mods = view.mods
      /\ \A s \in Strings :
            IF s \in p.touched
            THEN PlannedRow(public, KeysIn(file), mods, view.rows[s], p.cat.rows[s])
            ELSE p.cat.rows[s] = view.rows[s]
  <2>1. /\ p \in ImportPlans /\ p.cat.mods = view.mods
        /\ \A s \in Strings :
              IF s \in p.touched
              THEN PlannedRow(o.public, KeysIn(file), FileMods(view, file), view.rows[s],
                              p.cat.rows[s])
              ELSE p.cat.rows[s] = view.rows[s]
    BY <1>0, <1>1, <1>4, PlanFacts
  <2>2. p.cat \in Catalogs
    BY <2>1 DEF ImportPlans
  <2> QED
    BY <1>1, <2>1, <2>2
<1>10. Leaves(p.cat)
  BY <1>2, <1>7, RequestLeaves
<1>11. mods \in SUBSET Modules /\ \A m \in mods : p.cat.mods[m] # None
  BY <1>9 DEF FileMods
<1>12. Guarded(view) = Guarded(catalog)
  BY <1>4 DEF Guarded
<1> HIDE DEF mods
<1>13. \A s \in Strings :
          ImportedAs(public, KeysIn(file), mods, catalog.rows[s], p.cat.rows[s])
  BY <1>4, <1>9 DEF ImportedAs
<1> QED
  BY <1>4, <1>7, <1>8, <1>9, <1>10, <1>11, <1>12, <1>13

\* An import of drafts changes nothing that is exported.
LEMMA DraftsKeepPublic ==
    ASSUME CatalogInv, NEW keys, NEW mods, NEW s \in Strings, NEW r,
           ImportedAs(FALSE, keys, mods, catalog.rows[s], r)
    PROVE  /\ Exported(r) <=> Exported(catalog.rows[s])
           /\ Exported(r) => r.pub = catalog.rows[s].pub /\ r.pub # None
<1> DEFINE v == catalog.rows[s]
<1>1. /\ v \in Rows /\ (Exists(v) => v \in FullRows)
      /\ v.status = "public" => v.pub # None
  BY RowNow
<1> HIDE DEF v
<1>2. CASE r = v
  BY <1>1, <1>2 DEF Exported, v
<1>3. CASE PlannedRow(FALSE, keys, mods, v, r)
  <2>1. /\ r \in FullRows /\ ~r.deleted /\ r.pub = v.pub
        /\ r.status = IF Exists(v) /\ ~v.deleted THEN v.status ELSE "draft"
    BY <1>3 DEF PlannedRow
  <2>2. Alive(r)
    BY <2>1, RowKinds DEF Alive
  <2> QED
    BY <1>1, <2>1, <2>2 DEF Exported, Alive, v
<1> QED
  BY <1>2, <1>3 DEF ImportedAs, v

\* An import keeps the invariant.
LEMMA ImportSound ==
    ASSUME CatalogInv, NEW file \in Files, NEW public \in BOOLEAN, NEW reject \in BOOLEAN,
           Import(file, public, reject)
    PROVE  CatalogInv'
<1>1. PICK c \in Catalogs, mods \in SUBSET Modules :
          /\ Leaves(c)
          /\ KeysAlive(duplicates, c.rows)
          /\ public => KeysPublic(modular, c)
          /\ \A m \in Modules : catalog.mods[m] # None => c.mods[m] = catalog.mods[m]
          /\ \A m \in mods : c.mods[m] # None
          /\ \A s \in Strings :
                ImportedAs(public, KeysIn(file), mods, catalog.rows[s], c.rows[s])
          /\ reject => \A s \in Guarded(catalog) : c.rows[s] = catalog.rows[s]
  BY ImportDoes
<1>2. ASSUME NEW s \in Strings
      PROVE  /\ catalog.rows[s].mod \in Modules \cup {None}
             /\ PubMod(catalog.rows[s]) \in Modules \cup {None}
             /\ catalog.rows[s].mod # None => c.mods[catalog.rows[s].mod] # None
             /\ PubMod(catalog.rows[s]) # None =>
                   /\ c.mods[PubMod(catalog.rows[s])] # None
                   /\ c.mods[PubMod(catalog.rows[s])] = catalog.mods[PubMod(catalog.rows[s])]
  <2>1. /\ catalog.rows[s].mod \in Modules \cup {None}
        /\ PubMod(catalog.rows[s]) \in Modules \cup {None}
    BY RowNow, RowKinds DEF FullRows, Contents, PubMod
  <2>2. /\ catalog.rows[s].mod # None => catalog.mods[catalog.rows[s].mod] # None
        /\ PubMod(catalog.rows[s]) # None => catalog.mods[PubMod(catalog.rows[s])] # None
    BY RowNow
  <2> QED
    BY <1>1, <2>1, <2>2
<1>3. ASSUME NEW s \in Strings
      PROVE  /\ c.rows[s].mod # None => c.mods[c.rows[s].mod] # None
             /\ PubMod(c.rows[s]) # None => c.mods[PubMod(c.rows[s])] # None
             /\ c.rows[s].status = "public" => c.rows[s].pub # None
  <2> DEFINE v == catalog.rows[s]
             r == c.rows[s]
  <2>0. v \in Rows /\ (v.status = "public" => v.pub # None)
    BY RowNow
  <2>1. CASE r = v
    BY <1>2, <2>0, <2>1
  <2>2. CASE PlannedRow(public, KeysIn(file), mods, v, r)
    <3>1. /\ Exists(v) => r.mod = v.mod
          /\ ~Exists(v) => r.mod \in mods \cup {None}
          /\ IF public THEN r.pub # None /\ (r.pub = v.pub \/ r.pub = Content(r))
             ELSE /\ r.pub = v.pub
                  /\ r.status = IF Exists(v) /\ ~v.deleted THEN v.status ELSE "draft"
      BY <2>2 DEF PlannedRow
    <3>2. r.mod # None => c.mods[r.mod] # None
      BY <1>1, <1>2, <3>1
    <3>3. PubMod(r) = PubMod(v) \/ PubMod(r) = r.mod
      BY <3>1 DEF PubMod, Content
    <3>4. PubMod(r) # None => c.mods[PubMod(r)] # None
      BY <1>2, <3>2, <3>3
    <3>5. r.status = "public" => r.pub # None
      BY <2>0, <3>1
    <3> QED
      BY <3>2, <3>4, <3>5
  <2> QED
    BY <1>1, <2>1, <2>2 DEF ImportedAs
<1>4. ModulesKept(c) /\ Snapshots(c)
  BY <1>3 DEF ModulesKept, Snapshots
<1>5. ~public => SamePublic(catalog, c)
  <2> SUFFICES ASSUME ~public, NEW s \in Strings, Exported(c.rows[s])
               PROVE  /\ Exported(catalog.rows[s])
                      /\ PubKey(c.rows[s]) = PubKey(catalog.rows[s])
                      /\ PubMod(c.rows[s]) = PubMod(catalog.rows[s])
                      /\ SlugOf(c, PubMod(catalog.rows[s]))
                           = SlugOf(catalog, PubMod(catalog.rows[s]))
    BY DEF SamePublic
  <2>1. ImportedAs(FALSE, KeysIn(file), mods, catalog.rows[s], c.rows[s])
    BY <1>1
  <2>2. /\ Exported(catalog.rows[s])
        /\ c.rows[s].pub = catalog.rows[s].pub /\ c.rows[s].pub # None
    BY <2>1, DraftsKeepPublic
  <2>3. SlugOf(c, PubMod(catalog.rows[s])) = SlugOf(catalog, PubMod(catalog.rows[s]))
    BY <1>2 DEF SlugOf
  <2> QED
    BY <2>2, <2>3 DEF PubKey, PubMod
<1> QED
  BY <1>1, <1>4, <1>5, LeavesSound

-----------------------------------------------------------------------------
\* The catalogs to start from are sound.
LEMMA CatalogStarts == CatalogInit => CatalogInv
<1> SUFFICES ASSUME CatalogInit
             PROVE  CatalogInv
  OBVIOUS
<1>1. /\ catalog \in Catalogs /\ ModulesKept(catalog) /\ Snapshots(catalog)
      /\ modular \in BOOLEAN /\ duplicates \in BOOLEAN
      /\ steps \in 0..MaxSteps /\ relaid \in BOOLEAN
  <2>1. catalog \in Starts /\ modular \in Layouts /\ duplicates \in Policies
    BY DEF CatalogInit
  <2>2. steps = 0 /\ relaid = FALSE /\ 0 \in 0..MaxSteps
    BY CatalogAssumption DEF CatalogInit
  <2> QED
    BY <2>1, <2>2, CatalogAssumption
<1>2. KeysPublic(TRUE, catalog)
  <2>1. CASE modular
    <3>1. modular = TRUE
      BY <1>1, <2>1
    <3> QED
      BY <3>1 DEF CatalogInit
  <2>2. CASE ~modular
    <3>1. modular = FALSE
      BY <1>1, <2>2
    <3> QED
      BY <3>1, StricterKeys DEF CatalogInit
  <2> QED
    BY <2>1, <2>2
<1> QED
  BY <1>1, <1>2
  DEF CatalogInit, CatalogInv, CatalogTypeOK, ChecksSuffice, PublicExportable

\* Every request keeps the invariant.
LEMMA CatalogSteps == CatalogInv /\ [CatalogNext]_catalogVars => CatalogInv'
<1> SUFFICES ASSUME CatalogInv, [CatalogNext]_catalogVars
             PROVE  CatalogInv'
  OBVIOUS
<1>1. ASSUME NEW s \in Strings, StringStep(s)
      PROVE  CatalogInv'
  BY <1>1, CreateSound, SaveSound, PublishSound, UnpublishSound, DeleteSound, RestoreSound,
     DiscardSound DEF StringStep
<1>2. ASSUME NEW m \in Modules, ModuleStep(m)
      PROVE  CatalogInv'
  <2>1. ASSUME NEW slug \in Slugs, CreateModule(m, slug) \/ UpdateModule(m, slug)
        PROVE  CatalogInv'
    <3>1. /\ Request("modules") /\ UNCHANGED Settings /\ ModuleIds(catalog, slug) = {}
          /\ catalog' = Slugged(m, slug)
      BY <2>1 DEF CreateModule, UpdateModule, Slugged
    <3>2. Leaves(Slugged(m, slug))
      BY <3>1, RequestLeaves
    <3> QED
      BY <3>1, <3>2, SluggedSound
  <2> QED
    BY <1>2, <2>1, RemoveModuleSound DEF ModuleStep
<1>3. ASSUME NEW b \in BOOLEAN, SetPolicy(b) \/ SetLayout(b)
      PROVE  CatalogInv'
  BY <1>3, SetPolicySound, SetLayoutSound
<1>4. ASSUME NEW file \in Files, NEW public \in BOOLEAN, NEW reject \in BOOLEAN,
             Import(file, public, reject)
      PROVE  CatalogInv'
  BY <1>4, ImportSound
<1>5. CASE UNCHANGED catalogVars
  BY <1>5 DEF CatalogInv, CatalogTypeOK, ChecksSuffice, PublicExportable, catalogVars
<1> QED
  BY <1>1, <1>2, <1>3, <1>4, <1>5 DEF CatalogNext

\* The invariant holds of every sequence of requests.
LEMMA CatalogInvHolds == CatalogSpec => []CatalogInv
  BY CatalogStarts, CatalogSteps, PTL DEF CatalogSpec

\* Whatever sequence of requests led here, no two live strings have one key and no two
\* exported strings one place: what create_string, PATCH, imports, the deletion of a
\* module and a stricter policy check before they write (key_policy.py, strings.py,
\* import_bulk.py, catalog.py) is enough for the unique indexes and for the export.
THEOREM CatalogStaysSound == CatalogSpec => []CatalogSound
<1>1. CatalogInv => CatalogSound
  BY DEF CatalogInv, CatalogSound
<1> QED
  BY <1>1, CatalogInvHolds, PTL

\* An import of drafts leaves the public export as it was, the one of the tombstones
\* that it revives too, and a push leaves alone what was removed, or waits for it, on
\* the server (import_bulk.py, _validate with reject_deleted).
THEOREM NothingIsRevived == CatalogSpec => ImportsReviveNothing
<1>1. ASSUME CatalogInv, NEW file \in Files, NEW reject \in BOOLEAN,
             Import(file, FALSE, reject)
      PROVE  /\ PublicExport(modular, catalog') = PublicExport(modular, catalog)
             /\ reject => \A s \in Strings :
                   Dead(catalog.rows[s]) \/ (Alive(catalog.rows[s]) /\ catalog.rows[s].pending) =>
                       catalog'.rows[s] = catalog.rows[s]
  <2>1. PICK c \in Catalogs, mods \in SUBSET Modules :
            /\ Leaves(c)
            /\ KeysAlive(duplicates, c.rows)
            /\ FALSE => KeysPublic(modular, c)
            /\ \A m \in Modules : catalog.mods[m] # None => c.mods[m] = catalog.mods[m]
            /\ \A m \in mods : c.mods[m] # None
            /\ \A s \in Strings :
                  ImportedAs(FALSE, KeysIn(file), mods, catalog.rows[s], c.rows[s])
            /\ reject => \A s \in Guarded(catalog) : c.rows[s] = catalog.rows[s]
    BY <1>1, ImportDoes
  <2>2. catalog' = c
    BY <2>1 DEF Leaves
  <2>3. \A s \in Strings : Exported(c.rows[s]) <=> Exported(catalog.rows[s])
    BY <1>1, <2>1, DraftsKeepPublic
  <2>4. ASSUME NEW s \in Strings, Exported(catalog.rows[s])
        PROVE  /\ ExportIdentity(modular, c, s) = ExportIdentity(modular, catalog, s)
               /\ PublicText(c.rows[s]) = PublicText(catalog.rows[s])
    <3>1. c.rows[s].pub = catalog.rows[s].pub /\ c.rows[s].pub # None
      <4>1. ImportedAs(FALSE, KeysIn(file), mods, catalog.rows[s], c.rows[s])
        BY <2>1
      <4>2. Exported(c.rows[s])
        BY <2>3, <2>4
      <4> QED
        BY <1>1, <4>1, <4>2, DraftsKeepPublic
    <3>2. /\ PubKey(c.rows[s]) = PubKey(catalog.rows[s])
          /\ PubMod(c.rows[s]) = PubMod(catalog.rows[s])
      BY <3>1 DEF PubKey, PubMod
    <3>3. PubMod(catalog.rows[s]) # None =>
             /\ PubMod(catalog.rows[s]) \in Modules
             /\ catalog.mods[PubMod(catalog.rows[s])] # None
      BY <1>1, RowNow, RowKinds DEF FullRows, Contents, PubMod
    <3>4. SlugOf(c, PubMod(catalog.rows[s])) = SlugOf(catalog, PubMod(catalog.rows[s]))
      BY <2>1, <3>3 DEF SlugOf
    <3> QED
      BY <3>1, <3>2, <3>4 DEF ExportIdentity, PublicText
  <2>5. PublicExport(modular, c) = PublicExport(modular, catalog)
    BY <2>3, <2>4 DEF PublicExport
  <2> QED
    BY <2>1, <2>2, <2>5 DEF Guarded
<1>2. CatalogInv =>
        [\A file \in Files, reject \in BOOLEAN :
            Import(file, FALSE, reject) =>
              /\ PublicExport(modular, catalog') = PublicExport(modular, catalog)
              /\ reject => \A s \in Strings :
                    Dead(catalog.rows[s]) \/ (Alive(catalog.rows[s]) /\ catalog.rows[s].pending) =>
                        catalog'.rows[s] = catalog.rows[s]]_catalogVars
  BY <1>1
<1> QED
  BY <1>2, CatalogInvHolds, PTL DEF ImportsReviveNothing
-----------------------------------------------------------------------------
(* What the CLI is told.  The exports are finite, and name a module by its *)
(* slug, which belongs to one module only.                                 *)

\* No two modules ever have one slug.
LEMMA SlugsStayUnique ==
    CatalogInv /\ SlugsUnique(catalog) /\ [CatalogNext]_catalogVars => SlugsUnique(catalog)'
<1> SUFFICES ASSUME CatalogInv, SlugsUnique(catalog), [CatalogNext]_catalogVars
             PROVE  SlugsUnique(catalog)'
  OBVIOUS
<1> USE RowsAssumption
<1>0. catalog \in Catalogs /\ catalog.mods \in [Modules -> Slugs \cup {None}]
  BY DEF CatalogInv, CatalogTypeOK, Catalogs
<1>1. ASSUME NEW s \in Strings, StringStep(s)
      PROVE  SlugsUnique(catalog)'
  <2>1. \E r : catalog' = WithRow(s, r)
    BY <1>1 DEF StringStep, Create, Save, Publish, Unpublish, Delete, Restore, Discard
  <2>2. catalog'.mods = catalog.mods
    BY <1>0, <2>1 DEF WithRow, Catalogs
  <2> QED
    BY <2>2 DEF SlugsUnique
<1>2. ASSUME NEW m \in Modules, NEW slug \in Slugs, CreateModule(m, slug) \/ UpdateModule(m, slug)
      PROVE  SlugsUnique(catalog)'
  <2>1. ModuleIds(catalog, slug) = {} /\ catalog' = Slugged(m, slug)
    BY <1>2 DEF CreateModule, UpdateModule, Slugged
  <2> QED
    BY <2>1, SluggedIs DEF SlugsUnique, ModuleIds
<1>3. ASSUME NEW m \in Modules, RemoveModule(m)
      PROVE  SlugsUnique(catalog)'
  <2>1. catalog' = ModuleCleared(catalog, m)
    BY <1>3 DEF RemoveModule
  <2>2. catalog'.mods = [catalog.mods EXCEPT ![m] = None]
    BY <1>0, <2>1 DEF ModuleCleared, Catalogs
  <2> QED
    BY <1>0, <2>2 DEF SlugsUnique
<1>4. ASSUME NEW b \in BOOLEAN, SetPolicy(b) \/ SetLayout(b)
      PROVE  SlugsUnique(catalog)'
  BY <1>4 DEF SetPolicy, SetLayout, SlugsUnique
<1>5. ASSUME NEW file \in Files, NEW public \in BOOLEAN, NEW reject \in BOOLEAN,
             Import(file, public, reject)
      PROVE  SlugsUnique(catalog)'
  <2> DEFINE o == Options(public, reject, FALSE)
             view == Prepared(catalog, file)
             slugs == NewSlugs(catalog, file)
             mods == WithModules(catalog.mods, slugs)
  <2>1. o \in PlanOptions /\ file \in Seq(ImportRows)
    BY CatalogAssumption DEF Options, PlanOptions, CatalogInv, CatalogTypeOK
  <2>2. catalog' = Plan(o, catalog, file).cat /\ Room(catalog, file)
    BY <1>5 DEF Import, Fits
  <2> HIDE DEF o
  <2>3. /\ view \in Catalogs /\ NewSlugs(view, file) = {}
        /\ Plan(o, catalog, file) = Plan(o, view, file)
    BY <1>0, <2>1, <2>2, ViewFacts
  <2>4. view.mods = mods
    BY <1>0 DEF Prepared, Catalogs
  <2> HIDE DEF view
  <2>5. Plan(o, view, file).cat.mods = view.mods
    BY <2>1, <2>3, PlanFacts
  <2>6. /\ slugs \in SUBSET Slugs /\ IsFiniteSet(slugs)
        /\ \A slug \in slugs : \A m \in Modules : catalog.mods[m] # slug
    BY <2>1, NewSlugsAre
  <2> HIDE DEF slugs
  <2>7. /\ \A m \in Modules : mods[m] # catalog.mods[m] => mods[m] \in slugs
        /\ \A i, j \in Modules :
              mods[i] # catalog.mods[i] /\ mods[j] # catalog.mods[j] /\ mods[i] = mods[j] => i = j
    BY <1>0, <2>6, WithModulesAdds
  <2>8. catalog'.mods = mods
    BY <2>2, <2>3, <2>4, <2>5
  <2> HIDE DEF mods
  <2> QED
    BY <2>6, <2>7, <2>8 DEF SlugsUnique
<1>6. CASE UNCHANGED catalogVars
  BY <1>6 DEF catalogVars, SlugsUnique
<1> QED
  BY <1>1, <1>2, <1>3, <1>4, <1>5, <1>6 DEF CatalogNext, ModuleStep

\* What the predictions rest on.
LEMMA SlugsAreUnique == CatalogSpec => [](CatalogInv /\ SlugsUnique(catalog))
<1>1. CatalogInit => SlugsUnique(catalog)
  BY CatalogAssumption DEF CatalogInit
<1> QED
  BY <1>1, CatalogStarts, CatalogSteps, SlugsStayUnique, PTL DEF CatalogSpec

\* The sequence of a finite set has all its members.
LEMMA AllInSequence ==
    ASSUME NEW S, IsFiniteSet(S), NEW f, f = SetToSeq(S)
    PROVE  /\ f \in Seq(S)
           /\ \A x \in S : \E i \in DOMAIN f : f[i] = x
<1> DEFINE n == Cardinality(S)
<1>1. n \in Nat /\ ExistsBijection(1..n, S)
  BY FS_CardinalityType
<1> HIDE DEF n
<1>2. \E g \in [1..n -> S] : IsInjective(g)
  BY <1>1 DEF ExistsBijection, Bijection, Injection
<1>3. f \in [1..n -> S] /\ IsInjective(f)
  BY <1>2 DEF SetToSeq, n
<1>4. f \in Injection(1..n, S)
  BY <1>3 DEF Injection
<1>5. IsFiniteSet(1..n) /\ Cardinality(1..n) = n
  BY <1>1, FS_Interval
<1>6. f \in Surjection(1..n, S)
  BY <1>4, <1>5, FS_Injection DEF n
<1>7. \A x \in S : \E i \in 1..n : f[i] = x
  BY <1>6 DEF Surjection
<1> QED
  BY <1>1, <1>3, <1>7

\* A function of finitely many strings has finitely many values.
LEMMA ValuesAreFinite ==
    ASSUME NEW D \in SUBSET Strings, NEW g, g = [s \in D |-> g[s]]
    PROVE  IsFiniteSet({g[s] : s \in D})
<1> DEFINE V == {g[s] : s \in D}
<1>1. IsFiniteSet(D)
  BY RowsAssumption, FS_Subset
<1>2. g \in Surjection(D, V)
  <2>1. g \in [D -> V]
    OBVIOUS
  <2> QED
    BY <2>1 DEF Surjection
<1> HIDE DEF V
<1> QED
  BY <1>1, <1>2, FS_Surjection DEF V

\* A row of an export names the module of its string, and the string itself.
LEMMA ExportNames ==
    ASSUME NEW c \in Catalogs, ModulesKept(c), SlugsUnique(c), NEW m \in BOOLEAN,
           NEW s \in Strings, Drafted(c.rows[s]),
           NEW q \in {DraftRow(m, c, s), SheetRow(m, c, s)}, NEW allow,
           NEW home, home = IF m THEN c.rows[s].mod ELSE None
    PROVE  /\ q \in ImportRows /\ q.key = c.rows[s].key /\ q.scoped = m
           /\ q.text = c.rows[s].text /\ q.tr \in {c.rows[s].tr, None}
           /\ q.ref = IF m THEN SlugOf(c, c.rows[s].mod) ELSE None
           /\ RefIds(c, q) = {home}
           /\ Named(c, q, allow) = Candidates(c, q, home, allow)
           /\ s \in Named(c, q, allow)
<1> USE RowsAssumption
<1> DEFINE r == c.rows[s]
           ref == IF m THEN SlugOf(c, r.mod) ELSE None
<1>1. /\ r \in FullRows /\ Alive(r)
      /\ c.mods \in [Modules -> Slugs \cup {None}]
      /\ r.mod # None => c.mods[r.mod] # None
  <2>1. r \in Rows /\ Alive(r)
    BY DEF Catalogs, Drafted
  <2> QED
    BY <2>1, RowKinds DEF Alive, Catalogs, ModulesKept
<1>2. ref \in Slugs \cup {None}
  BY <1>1 DEF SlugOf, FullRows
<1>3. /\ q \in ImportRows /\ q.key = r.key /\ q.scoped = m
      /\ q.text = r.text /\ q.tr \in {r.tr, None} /\ q.ref = ref
  <2>1. DraftRow(m, c, s) = [key |-> r.key, ref |-> ref, scoped |-> m, excel |-> FALSE,
                             text |-> r.text, tr |-> IF r.tr = Blank THEN None ELSE r.tr]
    BY DEF DraftRow
  <2>2. r.key \in Keys /\ r.text \in Texts /\ r.tr \in Texts
    BY <1>1 DEF FullRows
  <2> HIDE DEF r, ref
  <2>3. DraftRow(m, c, s) \in ImportRows
    BY <1>2, <2>1, <2>2 DEF ImportRows
  <2>4. /\ SheetRow(m, c, s) \in ImportRows
        /\ SheetRow(m, c, s).key = r.key /\ SheetRow(m, c, s).scoped = m
        /\ SheetRow(m, c, s).text = r.text /\ SheetRow(m, c, s).tr = r.tr
        /\ SheetRow(m, c, s).ref = ref /\ SheetRow(m, c, s).excel
    <3>1. PICK d \in ImportRows : d = DraftRow(m, c, s)
      BY <2>3
    <3>2. PICK e : e = [d EXCEPT !.excel = TRUE, !.tr = r.tr]
      OBVIOUS
    <3>3. /\ e \in ImportRows /\ e.key = d.key /\ e.ref = d.ref /\ e.scoped = d.scoped
          /\ e.text = d.text /\ e.tr = r.tr /\ e.excel
      BY <2>2, <3>2 DEF ImportRows
    <3>4. SheetRow(m, c, s) = e
      BY <3>1, <3>2 DEF SheetRow, r
    <3>5. d.key = r.key /\ d.ref = ref /\ d.scoped = m /\ d.text = r.text
      BY <2>1, <3>1
    <3> QED
      BY <3>3, <3>4, <3>5
  <2> QED
    <3>1. CASE q = DraftRow(m, c, s)
      BY <2>1, <2>3, <3>1
    <3>2. CASE q = SheetRow(m, c, s)
      BY <2>4, <3>2
    <3> QED
      BY <3>1, <3>2
<1> HIDE DEF r, ref
<1>4. RefIds(c, q) = {home}
  <2>1. CASE ~m \/ r.mod = None
    BY <1>3, <2>1 DEF RefIds, ref, r, SlugOf
  <2>2. CASE m /\ r.mod # None
    <3>1. r.mod \in Modules /\ q.ref = c.mods[r.mod] /\ q.ref # None
      BY <1>1, <1>3, <2>2 DEF ref, r, SlugOf, FullRows
    <3>2. ModuleIds(c, q.ref) = {r.mod}
      BY <3>1 DEF ModuleIds, SlugsUnique
    <3> QED
      BY <2>2, <3>1, <3>2 DEF RefIds, r
  <2> QED
    BY <2>1, <2>2
<1>5. Named(c, q, allow) = Candidates(c, q, home, allow)
  BY <1>4 DEF Named
<1>6. s \in LiveWith(c, q.key)
  BY <1>1, <1>3 DEF LiveWith, r
<1>7. m => s \in Within(c, LiveWith(c, q.key), home)
  BY <1>6 DEF Within
<1>8. s \in Candidates(c, q, home, allow)
  BY <1>3, <1>6, <1>7 DEF Candidates
<1> QED
  BY <1>3, <1>4, <1>5, <1>8 DEF r, ref

-----------------------------------------------------------------------------
(* A plan as a run of states, on a catalog that has the modules of the     *)
(* file.                                                                   *)

\* The state before the first row.
PlanStart(view) ==
    [cat |-> view, touched |-> {}, creates |-> 0, updates |-> 0, clash |-> FALSE]

\* What a run of rows leaves, published where the import publishes.
ShippedPlan(o, end) ==
    [end EXCEPT !.cat.rows = [s \in Strings |-> IF s \in Shipped(o, end) THEN Promoted(@[s])
                                                ELSE @[s]]]

\* The rows of a file take a plan from state to state.
LEMMA PlanIsRun ==
    ASSUME NEW o, NEW view \in Catalogs, NEW file \in Seq(ImportRows),
           NewSlugs(view, file) = {}
    PROVE  \E f : /\ f[0] = PlanStart(view)
                  /\ \A k \in Nat : k < Len(file) => f[k + 1] = PlanRow(o, f[k], file[k + 1])
                  /\ Plan(o, view, file) = ShippedPlan(o, f[Len(file)])
<1> DEFINE start == [cat |-> [view EXCEPT !.mods = WithModules(@, NewSlugs(view, file))],
                     touched |-> {}, creates |-> 0, updates |-> 0, clash |-> FALSE]
           end == PlanEnd(o, start, file)
<1>1. view.mods \in [Modules -> Slugs \cup {None}]
  BY DEF Catalogs
<1>2. WithModules(view.mods, {}) = view.mods
  BY <1>1, WithModulesAdds, FS_EmptySet, RowsAssumption
<1>3. [view EXCEPT !.mods = view.mods] = view
  BY DEF Catalogs
<1>4. start = PlanStart(view)
  BY <1>2, <1>3 DEF PlanStart
<1>5. Plan(o, view, file) = ShippedPlan(o, end)
  BY DEF Plan, PlanEnd, FoldLeft, MapThenFoldSet, start, ShippedPlan
<1> HIDE DEF start
<1>6. PICK f : /\ f[0] = start
               /\ \A k \in Nat : k < Len(file) => f[k + 1] = PlanRow(o, f[k], file[k + 1])
               /\ end = f[Len(file)]
  BY FoldIsRun
<1> QED
  BY <1>4, <1>5, <1>6

\* A plan that publishes nothing is what its rows leave.
LEMMA DraftPlan ==
    ASSUME NEW o, ~o.public, NEW end \in PlanStates
    PROVE  ShippedPlan(o, end) = end
<1> PICK rows : rows = end.cat.rows
  OBVIOUS
<1>1. rows \in [Strings -> Rows] /\ end.cat \in Catalogs
  BY DEF PlanStates, Catalogs
<1>2. Shipped(o, end) = {}
  BY DEF Shipped
<1>3. [s \in Strings |-> IF s \in Shipped(o, end) THEN Promoted(rows[s]) ELSE rows[s]] = rows
  BY <1>1, <1>2
<1>4. ShippedPlan(o, end) = [end EXCEPT !.cat = [end.cat EXCEPT !.rows = rows]]
  BY <1>3 DEF ShippedPlan
<1>5. [end.cat EXCEPT !.rows = rows] = end.cat
  BY <1>1 DEF Catalogs
<1>6. [end EXCEPT !.cat = end.cat] = end
  BY DEF PlanStates
<1> QED
  BY <1>4, <1>5, <1>6

\* The states of a plan that has changed nothing.
Unmoved(c, st) ==
    \E touched \in SUBSET Strings :
        st = [cat |-> c, touched |-> touched, creates |-> 0, updates |-> 0, clash |-> FALSE]

\* A row of the draft export that names one string changes nothing.
LEMMA RowTripped ==
    ASSUME NEW c \in Catalogs, ModulesKept(c), SlugsUnique(c), NEW m \in BOOLEAN,
           NEW s \in Strings, Drafted(c.rows[s]),
           NEW q \in {DraftRow(m, c, s), SheetRow(m, c, s)},
           NEW o \in PlanOptions, ~o.public, ~o.dry, KeysAlive(o.duplicates, c.rows),
           ~(Cardinality(Named(c, q, o.duplicates)) > 1),
           NEW st, Unmoved(c, st)
    PROVE  Unmoved(c, PlanRow(o, st, q))
<1> USE RowsAssumption
<1> DEFINE r == c.rows[s]
           home == Only(RefIds(c, q))
           named == Candidates(c, q, home, o.duplicates)
           live == LiveWith(c, q.key)
           skip == Skips(o, q, r)
           new == Imported(q, home, r, o.public)
<1>1. PICK h : h = IF m THEN c.rows[s].mod ELSE None
  OBVIOUS
<1>2. /\ q \in ImportRows /\ q.key = c.rows[s].key /\ q.scoped = m
      /\ q.text = c.rows[s].text /\ q.tr \in {c.rows[s].tr, None}
      /\ RefIds(c, q) = {h}
      /\ Named(c, q, o.duplicates) = Candidates(c, q, h, o.duplicates)
      /\ s \in Named(c, q, o.duplicates)
  BY <1>1, ExportNames
<1>3. home = h
  BY <1>2 DEF Only
<1>4. named = {s}
  <2>1. named = Named(c, q, o.duplicates) /\ s \in named
    BY <1>2, <1>3
  <2>2. named \subseteq Strings /\ IsFiniteSet(named)
    BY CandidatesAreStrings, FS_Subset
  <2> HIDE DEF named
  <2>3. Cardinality(named) \in Nat /\ Cardinality(named) # 0
    BY <2>1, <2>2, FS_CardinalityType, FS_EmptySet
  <2>4. Cardinality(named) = 1
    BY <2>1, <2>3
  <2>5. \E x : named = {x}
    BY <2>2, <2>4, FS_Singleton
  <2> QED
    BY <2>1, <2>5
<1>5. Least({s}) = s
  BY LeastIn
<1>6. r \in FullRows /\ ~r.deleted /\ Alive(r) /\ Exists(r)
  <2>1. r \in Rows /\ Alive(r)
    BY DEF Catalogs, Drafted
  <2> QED
    BY <2>1, RowKinds DEF Alive
<1>7. ~(~o.duplicates /\ live # {} /\ live # named)
  <2>1. s \in live
    BY <1>2, <1>6 DEF LiveWith
  <2>2. ~o.duplicates => \A t \in live : t = s
    BY <1>2, <1>6 DEF LiveWith, KeysAlive, KeyIdentity
  <2> QED
    BY <1>4, <2>1, <2>2
<1> HIDE DEF home, named, live
<1>8. ~DiffChanged(q, r, o.public) /\ Source(q, r) = r.text
  <2>1. q.text = r.text /\ q.text # None /\ (q.tr = None \/ q.tr = r.tr)
    BY <1>2, <1>6 DEF FullRows
  <2>2. Source(q, r) = r.text
    BY <2>1 DEF Source
  <2> HIDE DEF r
  <2> QED
    BY <1>6, <2>1, <2>2 DEF DiffChanged
<1>9. ~Counts(o, q, r)
  BY <1>8 DEF Counts
<1>10. ~skip => new = r
  <2> SUFFICES ASSUME q.excel
               PROVE  new = r
    BY <1>6, <1>8 DEF Skips
  <2>1. q.tr = None \/ q.tr = r.tr
    BY <1>2
  <2> HIDE DEF r
  <2>2. [r EXCEPT !.text = r.text] = r /\ [r EXCEPT !.tr = r.tr] = r
    BY <1>6 DEF FullRows
  <2>3. Revived(q, r) = r
    BY <1>6 DEF Revived
  <2> QED
    BY <1>6, <1>8, <2>1, <2>2, <2>3 DEF Imported
<1>11. [c EXCEPT !.rows[s] = r] = c
  BY DEF Catalogs
<1> HIDE DEF skip, new
<1> PICK touched \in SUBSET Strings :
        st = [cat |-> c, touched |-> touched, creates |-> 0, updates |-> 0, clash |-> FALSE]
  BY DEF Unmoved
<1>12. st.cat = c /\ st.touched = touched /\ st.creates = 0 /\ st.updates = 0 /\ st.clash = FALSE
  OBVIOUS
<1>13. PlanRow(o, st, q) =
          [cat |-> IF skip THEN c ELSE [c EXCEPT !.rows[s] = new],
           touched |-> touched \cup (IF skip THEN {} ELSE {s}),
           creates |-> 0 + (IF named = {} THEN 1 ELSE 0),
           updates |-> 0 + (IF Counts(o, q, r) THEN 1 ELSE 0),
           clash |-> FALSE \/ (~o.duplicates /\ live # {} /\ live # named)]
  <2>1. Least(IF named = {} THEN {t \in Strings : ~Exists(st.cat.rows[t])} ELSE named) = s
    BY <1>4, <1>5
  <2> QED
    BY <1>12, <2>1 DEF PlanRow, home, named, live, skip, new
<1>14. PlanRow(o, st, q) =
          [cat |-> c, touched |-> touched \cup (IF skip THEN {} ELSE {s}),
           creates |-> 0, updates |-> 0, clash |-> FALSE]
  <2>1. (IF skip THEN c ELSE [c EXCEPT !.rows[s] = new]) = c
    BY <1>10, <1>11
  <2>2. (FALSE \/ (~o.duplicates /\ live # {} /\ live # named)) = FALSE
    BY <1>7
  <2>3. /\ 0 + (IF named = {} THEN 1 ELSE 0) = 0
        /\ 0 + (IF Counts(o, q, r) THEN 1 ELSE 0) = 0
    BY <1>4, <1>9
  <2> QED
    BY <1>13, <2>1, <2>2, <2>3
<1> QED
  BY <1>14 DEF Unmoved

\* A file with rows for exactly the strings that a draft export ships.
Ships(m, c, file) ==
    /\ file \in Seq(ImportRows)
    /\ \A i \in DOMAIN file : \E s \in Strings :
          Drafted(c.rows[s]) /\ file[i] \in {DraftRow(m, c, s), SheetRow(m, c, s)}
    /\ \A s \in Strings : Drafted(c.rows[s]) =>
          \E i \in DOMAIN file : file[i] \in {DraftRow(m, c, s), SheetRow(m, c, s)}

\* The files that an export makes, JSON or workbook.
LEMMA ExportFile ==
    ASSUME NEW c \in Catalogs, ModulesKept(c), SlugsUnique(c), NEW m \in BOOLEAN,
           NEW rows \in {DraftExport(m, c), DraftWorkbook(m, c)},
           NEW file, file = SetToSeq(rows)
    PROVE  Ships(m, c, file)
<1> DEFINE D == {t \in Strings : Drafted(c.rows[t])}
           draft == [s \in D |-> DraftRow(m, c, s)]
           sheet == [s \in D |-> SheetRow(m, c, s)]
<1>1. D \in SUBSET Strings
  OBVIOUS
<1>2. /\ DraftExport(m, c) = {draft[s] : s \in D}
      /\ DraftWorkbook(m, c) = {sheet[s] : s \in D}
  BY DEF DraftExport, DraftWorkbook
<1>3. draft = [s \in D |-> draft[s]] /\ sheet = [s \in D |-> sheet[s]]
  OBVIOUS
<1>4. \A s \in D : draft[s] = DraftRow(m, c, s) /\ sheet[s] = SheetRow(m, c, s)
  OBVIOUS
<1>5. \A s \in D : s \in Strings /\ Drafted(c.rows[s])
  OBVIOUS
<1>6. \A s \in Strings : Drafted(c.rows[s]) => s \in D
  OBVIOUS
<1> HIDE DEF D, draft, sheet
<1>7. IsFiniteSet(rows)
  <2>1. IsFiniteSet({draft[s] : s \in D})
    BY <1>1, <1>3, ValuesAreFinite
  <2>2. IsFiniteSet({sheet[s] : s \in D})
    BY <1>1, <1>3, ValuesAreFinite
  <2> QED
    BY <1>2, <2>1, <2>2
<1>8. file \in Seq(rows) /\ \A x \in rows : \E i \in DOMAIN file : file[i] = x
  BY <1>7, AllInSequence
<1>9. \A s \in D : \A q \in {DraftRow(m, c, s), SheetRow(m, c, s)} : q \in ImportRows
  BY <1>5, ExportNames
<1>10. \A x \in rows : \E s \in D : x \in {DraftRow(m, c, s), SheetRow(m, c, s)}
  BY <1>2, <1>4
<1>11. \A x \in rows : x \in ImportRows
  BY <1>9, <1>10
<1>12. file \in Seq(ImportRows) /\ \A i \in DOMAIN file : file[i] \in rows
  BY <1>8, <1>11
<1>13. \A s \in D : \E x \in rows : x \in {DraftRow(m, c, s), SheetRow(m, c, s)}
  BY <1>2, <1>4
<1> QED
  BY <1>5, <1>6, <1>8, <1>10, <1>12, <1>13 DEF Ships

\* Importing what was exported changes nothing, or is refused as ambiguous.
LEMMA TripIsRound == CatalogInv /\ SlugsUnique(catalog) => RoundTrip
<1> SUFFICES ASSUME CatalogInv, SlugsUnique(catalog),
                    NEW rows \in {DraftExport(modular, catalog), DraftWorkbook(modular, catalog)}
             PROVE  LET file == SetToSeq(rows)
                        plan == Plan(Options(FALSE, FALSE, FALSE), catalog, file)
                    IN  \/ Refusal(catalog, file, duplicates, FALSE) = "ambiguous_key"
                        \/ /\ Refusal(catalog, file, duplicates, FALSE) = "ok" /\ ~plan.clash
                           /\ plan.creates = 0 /\ plan.updates = 0 /\ plan.cat = catalog
                           /\ \A s \in Orphans(modular, plan.cat, file) : catalog.rows[s].pending
  BY DEF RoundTrip
<1> USE RowsAssumption
<1> PICK c \in Catalogs : c = catalog
  BY DEF CatalogInv, CatalogTypeOK
<1> PICK file : file = SetToSeq(rows)
  OBVIOUS
<1> DEFINE o == Options(FALSE, FALSE, FALSE)
           n == Len(file)
           plan == Plan(o, c, file)
<1>1. /\ modular \in BOOLEAN /\ duplicates \in BOOLEAN
      /\ KeysAlive(duplicates, c.rows) /\ ModulesKept(c) /\ SlugsUnique(c)
      /\ c.rows \in [Strings -> Rows] /\ c.mods \in [Modules -> Slugs \cup {None}]
  BY DEF CatalogInv, CatalogTypeOK, ChecksSuffice, Catalogs
<1>2. /\ o \in PlanOptions /\ o.duplicates = duplicates /\ ~o.public /\ ~o.dry
  BY <1>1 DEF Options, PlanOptions
<1> HIDE DEF o
<1>3. /\ file \in Seq(ImportRows)
      /\ \A i \in DOMAIN file : \E s \in Strings :
            Drafted(c.rows[s]) /\ file[i] \in {DraftRow(modular, c, s), SheetRow(modular, c, s)}
      /\ \A s \in Strings : Drafted(c.rows[s]) =>
            \E i \in DOMAIN file : file[i] \in {DraftRow(modular, c, s), SheetRow(modular, c, s)}
  <2>1. rows \in {DraftExport(modular, c), DraftWorkbook(modular, c)}
    OBVIOUS
  <2>2. ModulesKept(c) /\ SlugsUnique(c) /\ modular \in BOOLEAN
    BY <1>1
  <2> HIDE DEF plan, n
  <2>3. Ships(modular, c, file)
    BY <2>1, <2>2, ExportFile
  <2> QED
    BY <2>3 DEF Ships
<1>4. ASSUME NEW s \in Strings, Drafted(c.rows[s]),
             NEW q \in {DraftRow(modular, c, s), SheetRow(modular, c, s)}
      PROVE  /\ q.key = c.rows[s].key /\ q.scoped = modular
             /\ q.ref = IF modular THEN SlugOf(c, c.rows[s].mod) ELSE None
             /\ RefIds(c, q) = {IF modular THEN c.rows[s].mod ELSE None}
             /\ Alive(c.rows[s]) /\ c.rows[s].mod \in Modules \cup {None}
  <2>1. PICK home : home = IF modular THEN c.rows[s].mod ELSE None
    OBVIOUS
  <2>2. /\ q.key = c.rows[s].key /\ q.scoped = modular
        /\ q.ref = IF modular THEN SlugOf(c, c.rows[s].mod) ELSE None
        /\ RefIds(c, q) = {home}
    BY <1>1, <1>4, <2>1, ExportNames
  <2>3. Alive(c.rows[s]) /\ c.rows[s].mod \in Modules \cup {None}
    BY <1>1, <1>4, RowKinds DEF Drafted, Alive, FullRows
  <2> QED
    BY <2>1, <2>2, <2>3
<1>5. CASE Ambiguous(c, file, duplicates)
  BY <1>5 DEF Refusal
<1>6. CASE ~Ambiguous(c, file, duplicates)
  <2>1. ~Misplaced(c, file, duplicates)
    <3> SUFFICES ASSUME ~duplicates, Misplaced(c, file, duplicates)
                 PROVE  FALSE
      BY DEF Misplaced
    <3>1. PICK i \in DOMAIN file :
              /\ file[i].scoped
              /\ \/ \E j \in DOMAIN file : /\ file[j].scoped /\ file[j].key = file[i].key
                                           /\ file[j].ref # file[i].ref
                 \/ \E s \in LiveWith(c, file[i].key) : c.rows[s].mod \notin RefIds(c, file[i])
      BY DEF Misplaced
    <3>2. PICK s \in Strings :
              Drafted(c.rows[s]) /\ file[i] \in {DraftRow(modular, c, s), SheetRow(modular, c, s)}
      BY <1>3
    <3>3. /\ file[i].key = c.rows[s].key /\ modular
          /\ file[i].ref = SlugOf(c, c.rows[s].mod)
          /\ c.rows[s].mod \in RefIds(c, file[i]) /\ Alive(c.rows[s])
      BY <1>4, <3>1, <3>2
    <3>4. \A t \in Strings : Alive(c.rows[t]) /\ c.rows[t].key = c.rows[s].key => t = s
      BY <1>1, <3>3 DEF KeysAlive, KeyIdentity
    <3>5. CASE \E j \in DOMAIN file : /\ file[j].scoped /\ file[j].key = file[i].key
                                      /\ file[j].ref # file[i].ref
      <4>1. PICK j \in DOMAIN file : file[j].key = file[i].key /\ file[j].ref # file[i].ref
        BY <3>5
      <4>2. PICK t \in Strings :
                Drafted(c.rows[t]) /\ file[j] \in {DraftRow(modular, c, t), SheetRow(modular, c, t)}
        BY <1>3
      <4>3. file[j].key = c.rows[t].key /\ file[j].ref = SlugOf(c, c.rows[t].mod)
            /\ Alive(c.rows[t])
        BY <1>4, <3>3, <4>2
      <4> QED
        BY <3>3, <3>4, <4>1, <4>3
    <3>6. CASE \E t \in LiveWith(c, file[i].key) : c.rows[t].mod \notin RefIds(c, file[i])
      BY <3>3, <3>4, <3>6 DEF LiveWith
    <3> QED
      BY <3>1, <3>5, <3>6
  <2>2. Refusal(c, file, duplicates, FALSE) = "ok"
    BY <1>6, <2>1 DEF Refusal
  <2>3. NewSlugs(c, file) = {}
    <3> SUFFICES ASSUME NEW i \in DOMAIN file, file[i].ref # None
                 PROVE  \E m \in Modules : c.mods[m] = file[i].ref
      BY DEF NewSlugs
    <3>1. PICK s \in Strings :
              Drafted(c.rows[s]) /\ file[i] \in {DraftRow(modular, c, s), SheetRow(modular, c, s)}
      BY <1>3
    <3> QED
      BY <1>4, <3>1 DEF SlugOf
  <2>4. PICK f : /\ f[0] = PlanStart(c)
                 /\ \A k \in Nat : k < n => f[k + 1] = PlanRow(o, f[k], file[k + 1])
                 /\ plan = ShippedPlan(o, f[n])
    <3>1. \E f : /\ f[0] = PlanStart(c)
                 /\ \A k \in Nat : k < Len(file) => f[k + 1] = PlanRow(o, f[k], file[k + 1])
                 /\ Plan(o, c, file) = ShippedPlan(o, f[Len(file)])
      <4>1. file \in Seq(ImportRows)
        BY <1>3
      <4> HIDE DEF plan, n
      <4> QED
        BY <2>3, <4>1, PlanIsRun
    <3> QED
      BY <3>1
  <2>5. n \in Nat /\ DOMAIN file = 1..n
    BY <1>3
  <2> DEFINE T == {k \in Nat : k <= n => Unmoved(c, f[k])}
  <2>6. 0 \in T
    BY <2>4 DEF Unmoved, PlanStart
  <2>7. ASSUME NEW k \in T
        PROVE  k + 1 \in T
    <3> SUFFICES ASSUME k + 1 <= n
                 PROVE  Unmoved(c, f[k + 1])
      OBVIOUS
    <3>1. k \in Nat /\ k < n /\ k + 1 \in DOMAIN file /\ Unmoved(c, f[k])
      BY <2>5
    <3>2. f[k + 1] = PlanRow(o, f[k], file[k + 1])
      BY <2>4, <3>1
    <3>3. PICK s \in Strings :
              /\ Drafted(c.rows[s])
              /\ file[k + 1] \in {DraftRow(modular, c, s), SheetRow(modular, c, s)}
      BY <1>3, <3>1
    <3>4. ~(Cardinality(Named(c, file[k + 1], o.duplicates)) > 1)
      BY <1>2, <1>6, <3>1 DEF Ambiguous
    <3>5. KeysAlive(o.duplicates, c.rows)
      BY <1>1, <1>2
    <3> HIDE DEF T, n
    <3> QED
      BY <1>1, <1>2, <3>1, <3>2, <3>3, <3>4, <3>5, RowTripped
  <2>8. Unmoved(c, f[n])
    <3>1. T \in SUBSET Nat
      OBVIOUS
    <3> HIDE DEF T
    <3>2. T = Nat
      BY <2>6, <2>7, <3>1, Induction
    <3> QED
      BY <2>5, <3>2 DEF T
  <2>9. f[n] \in PlanStates /\ f[n].cat = c /\ f[n].creates = 0 /\ f[n].updates = 0 /\ ~f[n].clash
    <3> HIDE DEF n
    <3>1. PICK touched \in SUBSET Strings :
              f[n] = [cat |-> c, touched |-> touched, creates |-> 0, updates |-> 0, clash |-> FALSE]
      BY <2>8 DEF Unmoved
    <3> QED
      BY <3>1 DEF PlanStates
  <2>10. plan = f[n]
    BY <1>2, <2>4, <2>9, DraftPlan
  <2>11. ASSUME NEW s \in Orphans(modular, c, file)
         PROVE  c.rows[s].pending
    <3> SUFFICES ASSUME ~c.rows[s].pending
                 PROVE  FALSE
      OBVIOUS
    <3>1. /\ s \in Strings /\ Alive(c.rows[s])
          /\ \E ref \in {None} \cup (IF modular THEN {file[i].ref : i \in DOMAIN file} ELSE {}) :
                /\ modular => SlugOf(c, c.rows[s].mod) = ref
                /\ \A i \in DOMAIN file : file[i].ref = ref => file[i].key # c.rows[s].key
      BY DEF Orphans
    <3>2. Drafted(c.rows[s])
      BY <3>1 DEF Drafted
    <3>3. PICK i \in DOMAIN file :
              file[i] \in {DraftRow(modular, c, s), SheetRow(modular, c, s)}
      BY <1>3, <3>1, <3>2
    <3>4. /\ file[i].key = c.rows[s].key
          /\ file[i].ref = IF modular THEN SlugOf(c, c.rows[s].mod) ELSE None
      BY <1>4, <3>1, <3>2, <3>3
    <3> QED
      BY <3>1, <3>4
  <2> HIDE DEF plan
  <2> QED
    BY <2>2, <2>9, <2>10, <2>11 DEF plan, o
<1> QED
  BY <1>5, <1>6

-----------------------------------------------------------------------------
(* The sync state.                                                         *)

\* At most one member, all members alike.
LEMMA AtMostOne ==
    ASSUME NEW M, IsFiniteSet(M), ~(Cardinality(M) > 1), NEW x \in M, NEW y \in M
    PROVE  x = y
<1>1. Cardinality(M) \in Nat /\ Cardinality(M) # 0
  BY FS_CardinalityType, FS_EmptySet
<1>2. Cardinality(M) = 1
  BY <1>1
<1>3. \E z : M = {z}
  BY <1>2, FS_Singleton
<1> QED
  BY <1>3

\* What a row of a flat file names in a catalog.
NamesFlat(c, q, allow) ==
    /\ LiveWith(c, q.key) # {} => Named(c, q, allow) = LiveWith(c, q.key)
    /\ LiveWith(c, q.key) = {} /\ allow =>
         \A s \in DeadWith(c, q.key) :
             \E t \in Named(c, q, allow) : c.rows[t].mod = c.rows[s].mod

\* A row of a flat file names the live strings of its key; without any, it names a
\* removed one of every place that a removed one has, or is ambiguous.
LEMMA FlatNames ==
    ASSUME NEW c, NEW q, ~q.scoped, q.ref = None, NEW allow
    PROVE  NamesFlat(c, q, allow)
<1> DEFINE live == LiveWith(c, q.key)
           dead == DeadWith(c, q.key)
           one(S) == IF S = {} THEN {} ELSE {Least(S)}
           mods == {c.rows[s].mod : s \in dead}
           named == Named(c, q, allow)
<1>1. named = IF live # {} THEN live
              ELSE IF allow /\ Cardinality(mods) > 1 THEN dead
              ELSE IF Within(c, dead, None) # {} THEN one(Within(c, dead, None))
              ELSE one(dead)
  <2>1. named = Candidates(c, q, None, allow)
    BY DEF Named, RefIds
  <2> QED
    BY <2>1 DEF Candidates
<1>2. dead \subseteq Strings /\ Within(c, dead, None) \subseteq dead
  BY DEF DeadWith, Within
<1>3. \A S \in SUBSET Strings : S # {} => one(S) # {} /\ one(S) \subseteq S
  <2> TAKE S \in SUBSET Strings
  <2>1. S \subseteq Nat
    BY RowsAssumption
  <2>2. S # {} => Least(S) \in S
    BY <2>1, LeastIn
  <2> QED
    BY <2>2
<1>4. IsFiniteSet(mods)
  <2> DEFINE g == [s \in dead |-> c.rows[s].mod]
  <2>1. g = [s \in dead |-> g[s]] /\ mods = {g[s] : s \in dead}
    OBVIOUS
  <2> HIDE DEF g, mods, dead
  <2>2. dead \in SUBSET Strings
    BY <1>2
  <2>3. IsFiniteSet({g[s] : s \in dead})
    BY <2>1, <2>2, ValuesAreFinite
  <2> QED
    BY <2>1, <2>3
<1>5. \A s \in dead : c.rows[s].mod \in mods
  OBVIOUS
<1> HIDE DEF live, dead, one, mods, named
<1>6. ASSUME live = {}, allow, NEW s \in dead
      PROVE  \E t \in named : c.rows[t].mod = c.rows[s].mod
  <2>1. CASE Cardinality(mods) > 1
    BY <1>1, <1>6, <2>1
  <2>2. CASE ~(Cardinality(mods) > 1)
    <3>1. named = IF Within(c, dead, None) # {} THEN one(Within(c, dead, None)) ELSE one(dead)
      BY <1>1, <1>6, <2>2
    <3>2. named # {} /\ named \subseteq dead
      BY <1>2, <1>3, <1>6, <3>1
    <3>3. PICK t \in named : t \in dead
      BY <3>2
    <3>4. c.rows[t].mod = c.rows[s].mod
      BY <1>4, <1>5, <1>6, <2>2, <3>3, AtMostOne
    <3> QED
      BY <3>4
  <2> QED
    BY <2>1, <2>2
<1> QED
  BY <1>1, <1>6 DEF live, dead, named, NamesFlat

\* What the sync state lists is what a push refuses.
LEMMA StatusIsRight == CatalogInv /\ SlugsUnique(catalog) => StatusPredictsPush
<1> SUFFICES ASSUME CatalogInv, SlugsUnique(catalog), ~SyncRefused(modular, catalog),
                    NEW k \in Keys, NEW ref \in IF modular THEN Slugs \cup {None} ELSE {None}
             PROVE  LET file == <<[key |-> k, ref |-> ref, scoped |-> modular, excel |-> FALSE,
                                   text |-> k, tr |-> None]>>
                        listed == SyncPending(modular, catalog) \cup SyncTombstones(modular, catalog)
                        refused == {Label(modular, catalog, s) :
                                      s \in PushDeleted(catalog, file, duplicates)}
                    IN  /\ refused \subseteq listed
                        /\ <<ref, k>> \in listed =>
                             Refusal(catalog, file, duplicates, TRUE) # "ok"
  BY DEF StatusPredictsPush
<1> USE RowsAssumption
<1> PICK c \in Catalogs : c = catalog
  BY DEF CatalogInv, CatalogTypeOK
<1> PICK q : q = [key |-> k, ref |-> ref, scoped |-> modular, excel |-> FALSE,
                  text |-> k, tr |-> None]
  OBVIOUS
<1> PICK file : file = <<q>>
  OBVIOUS
<1>1. DOMAIN file = {1} /\ file[1] = q
  OBVIOUS
<1>2. q.key = k /\ q.ref = ref /\ q.scoped = modular
  OBVIOUS
<1>3. /\ modular \in BOOLEAN /\ duplicates \in BOOLEAN
      /\ \A s \in Strings :
            /\ Exists(c.rows[s]) => c.rows[s].mod \in Modules \cup {None}
            /\ c.rows[s].mod # None => c.mods[c.rows[s].mod] # None
  <2>1. \A s \in Strings : c.rows[s] \in Rows
    BY DEF Catalogs
  <2> QED
    BY <2>1, RowKinds
    DEF CatalogInv, CatalogTypeOK, ModulesKept, FullRows
<1>4. SlugsUnique(c) /\ ~SyncRefused(modular, c)
  OBVIOUS
<1> DEFINE slug(s) == SlugOf(c, c.rows[s].mod)
           listed == SyncPending(modular, c) \cup SyncTombstones(modular, c)
           deleted == PushDeleted(c, file, duplicates)
           Asks(s) ==
               /\ c.rows[s].key = k
               /\ duplicates => IF modular THEN c.rows[s].mod \in RefIds(c, q)
                                ELSE \E t \in Named(c, q, duplicates) :
                                         c.rows[t].mod = c.rows[s].mod
<1>5. \A s \in Strings : Wanted(c, file, duplicates, s) <=> Asks(s)
  <2> HIDE DEF slug, listed, deleted
  <2> TAKE s \in Strings
  <2>1. (\A i \in DOMAIN file : file[i] = q) /\ (\E i \in DOMAIN file : TRUE)
    BY <1>1
  <2>2. Wanted(c, file, duplicates, s) <=>
           /\ q.key = c.rows[s].key
           /\ duplicates => IF q.scoped THEN c.rows[s].mod \in RefIds(c, q)
                            ELSE \E t \in Named(c, q, duplicates) :
                                     c.rows[t].mod = c.rows[s].mod
    BY <2>1, Zenon DEF Wanted
  <2> QED
    BY <1>2, <2>2
<1>6. \A s : s \in deleted <=>
        /\ s \in Strings /\ Asks(s)
        /\ \/ Alive(c.rows[s]) /\ c.rows[s].pending
           \/ Dead(c.rows[s]) /\ ~Replaced(c, duplicates, s)
  <2> HIDE DEF slug, listed, Asks
  <2> QED
    BY <1>5 DEF PushDeleted
<1>7. \A s \in Strings : modular /\ Exists(c.rows[s]) =>
        (c.rows[s].mod \in RefIds(c, q) <=> slug(s) = ref)
  <2> TAKE s \in Strings
  <2> SUFFICES ASSUME modular, Exists(c.rows[s])
               PROVE  c.rows[s].mod \in RefIds(c, q) <=> slug(s) = ref
    OBVIOUS
  <2>1. /\ c.rows[s].mod \in Modules \cup {None}
        /\ c.rows[s].mod # None => c.mods[c.rows[s].mod] # None
    BY <1>3
  <2> QED
    BY <1>2, <2>1 DEF RefIds, ModuleIds, SlugOf
<1>8. ~modular => ref = None
  OBVIOUS
<1>9. \A s, t \in Strings :
        Exists(c.rows[s]) /\ Exists(c.rows[t]) /\ slug(s) = slug(t)
          => c.rows[s].mod = c.rows[t].mod
  <2> TAKE s, t \in Strings
  <2> SUFFICES ASSUME Exists(c.rows[s]), Exists(c.rows[t]), slug(s) = slug(t)
               PROVE  c.rows[s].mod = c.rows[t].mod
    OBVIOUS
  <2>1. /\ c.rows[s].mod \in Modules \cup {None} /\ c.rows[t].mod \in Modules \cup {None}
        /\ c.rows[s].mod # None => c.mods[c.rows[s].mod] # None
        /\ c.rows[t].mod # None => c.mods[c.rows[t].mod] # None
    BY <1>3
  <2> QED
    BY <1>4, <2>1 DEF SlugOf, SlugsUnique
<1>10. \A s \in Strings : Label(modular, c, s) = <<IF modular THEN slug(s) ELSE None, c.rows[s].key>>
  BY DEF Label
<1> HIDE DEF slug
<1> DEFINE Same(s, t) ==
               IF duplicates /\ modular THEN slug(s) = slug(t) /\ c.rows[s].key = c.rows[t].key
               ELSE c.rows[s].key = c.rows[t].key
<1>11. \A s, t \in Strings : Same(s, t) <=>
          IF duplicates /\ modular THEN Label(modular, c, s) = Label(modular, c, t)
          ELSE c.rows[s].key = c.rows[t].key
  BY <1>3, <1>10
<1>12. /\ \A x : x \in listed <=> \E s \in Strings :
             /\ x = Label(modular, c, s)
             /\ \/ Alive(c.rows[s]) /\ c.rows[s].pending
                \/ Dead(c.rows[s]) /\ ~\E u \in Strings : Alive(c.rows[u]) /\ Same(u, s)
  <2> HIDE DEF Same, Asks, deleted
  <2>1. SyncTombstones(modular, c) =
          {Label(modular, c, s) : s \in {t \in Strings :
              Dead(c.rows[t]) /\ ~\E u \in Strings : Alive(c.rows[u]) /\ Same(u, t)}}
    BY <1>11 DEF SyncTombstones
  <2> QED
    BY <2>1 DEF SyncPending
<1> HIDE DEF listed, deleted
<1>13. \A s \in Strings : Replaced(c, duplicates, s) <=>
          \E t \in Strings : /\ Alive(c.rows[t]) /\ c.rows[t].key = c.rows[s].key
                             /\ duplicates => c.rows[t].mod = c.rows[s].mod
  BY <1>3 DEF Replaced, KeyIdentity
<1>14. ~modular /\ duplicates =>
         /\ LiveWith(c, k) # {} => Named(c, q, duplicates) = LiveWith(c, k)
         /\ LiveWith(c, k) = {} =>
              \A s \in DeadWith(c, k) :
                  \E t \in Named(c, q, duplicates) : c.rows[t].mod = c.rows[s].mod
  <2> SUFFICES ASSUME ~modular, duplicates
               PROVE  /\ LiveWith(c, k) # {} => Named(c, q, duplicates) = LiveWith(c, k)
                      /\ LiveWith(c, k) = {} =>
                           \A s \in DeadWith(c, k) :
                               \E t \in Named(c, q, duplicates) : c.rows[t].mod = c.rows[s].mod
    OBVIOUS
  <2>1. ~q.scoped /\ q.ref = None /\ q.key = k
    BY <1>2, <1>8
  <2>2. NamesFlat(c, q, duplicates)
    BY <2>1, FlatNames
  <2> QED
    BY <2>1, <2>2 DEF NamesFlat
<1>15. ASSUME NEW s \in deleted
       PROVE  Label(modular, c, s) \in listed
  <2>1. /\ s \in Strings /\ Asks(s)
        /\ \/ Alive(c.rows[s]) /\ c.rows[s].pending
           \/ Dead(c.rows[s]) /\ ~Replaced(c, duplicates, s)
    BY <1>6
  <2>2. CASE Alive(c.rows[s]) /\ c.rows[s].pending
    BY <1>12, <2>1, <2>2
  <2>3. CASE Dead(c.rows[s]) /\ ~Replaced(c, duplicates, s)
    <3> SUFFICES ASSUME NEW u \in Strings, Alive(c.rows[u]), Same(u, s)
                 PROVE  FALSE
      BY <1>12, <2>1, <2>3
    <3>1. c.rows[u].key = c.rows[s].key /\ c.rows[s].key = k
      BY <2>1
    <3>2. CASE ~duplicates
      BY <1>13, <2>1, <2>3, <3>1, <3>2
    <3>3. CASE duplicates /\ modular
      <4>1. c.rows[u].mod = c.rows[s].mod
        BY <1>9, <2>1, <2>3, <3>3 DEF Alive, Dead
      <4> QED
        BY <1>13, <2>1, <2>3, <3>1, <4>1
    <3>4. CASE duplicates /\ ~modular
      <4>1. u \in LiveWith(c, k)
        BY <3>1 DEF LiveWith
      <4>2. PICK t \in LiveWith(c, k) : c.rows[t].mod = c.rows[s].mod
        <5>1. Named(c, q, duplicates) = LiveWith(c, k)
          BY <1>14, <3>4, <4>1
        <5>2. \E t \in Named(c, q, duplicates) : c.rows[t].mod = c.rows[s].mod
          BY <1>3, <2>1, <3>4
        <5> QED
          BY <5>1, <5>2
      <4> QED
        BY <1>13, <2>1, <2>3, <3>1, <4>2 DEF LiveWith
    <3> QED
      BY <3>2, <3>3, <3>4
  <2> QED
    BY <2>1, <2>2, <2>3
<1>16. ASSUME <<ref, k>> \in listed
       PROVE  deleted # {}
  <2>1. PICK s \in Strings :
            /\ <<ref, k>> = Label(modular, c, s)
            /\ \/ Alive(c.rows[s]) /\ c.rows[s].pending
               \/ Dead(c.rows[s]) /\ ~\E u \in Strings : Alive(c.rows[u]) /\ Same(u, s)
    BY <1>12, <1>16
  <2>2. /\ c.rows[s].key = k /\ (modular => slug(s) = ref) /\ Exists(c.rows[s])
    BY <1>10, <2>1 DEF Alive, Dead
  <2>3. CASE Alive(c.rows[s]) /\ c.rows[s].pending
    <3>1. Asks(s)
      <4>1. CASE duplicates /\ modular
        BY <1>7, <2>2, <4>1
      <4>2. CASE duplicates /\ ~modular
        <5>1. s \in LiveWith(c, k)
          BY <2>2, <2>3 DEF LiveWith
        <5> QED
          BY <1>14, <2>2, <4>2, <5>1
      <4> QED
        BY <2>2, <4>1, <4>2
    <3> QED
      BY <1>6, <2>3, <3>1
  <2>4. CASE Dead(c.rows[s]) /\ ~\E u \in Strings : Alive(c.rows[u]) /\ Same(u, s)
    <3>1. ~Replaced(c, duplicates, s)
      <4> SUFFICES ASSUME NEW t \in Strings, Alive(c.rows[t]), c.rows[t].key = c.rows[s].key,
                          duplicates => c.rows[t].mod = c.rows[s].mod
                   PROVE  FALSE
        BY <1>13
      <4>1. duplicates => slug(t) = slug(s)
        BY DEF slug
      <4> QED
        BY <2>4, <4>1
    <3>2. Asks(s)
      <4>1. CASE duplicates /\ modular
        BY <1>7, <2>2, <4>1
      <4>2. CASE duplicates /\ ~modular
        <5>1. LiveWith(c, k) = {}
          BY <2>2, <2>4, <4>2 DEF LiveWith
        <5>2. s \in DeadWith(c, k)
          BY <2>2, <2>4 DEF DeadWith
        <5> QED
          BY <1>14, <2>2, <4>2, <5>1, <5>2
      <4> QED
        BY <2>2, <4>1, <4>2
    <3> QED
      BY <1>6, <2>4, <3>1, <3>2
  <2> QED
    BY <2>1, <2>3, <2>4
<1>17. <<ref, k>> \in listed => Refusal(c, file, duplicates, TRUE) # "ok"
  BY <1>16 DEF Refusal, deleted
<1>18. {Label(modular, c, s) : s \in deleted} \subseteq listed
  BY <1>15
<1> QED
  BY <1>17, <1>18 DEF listed, deleted

-----------------------------------------------------------------------------
(* Dry runs.  A file that names every key once has each row about strings  *)
(* of its own, so that no row meets what another has done.                 *)

\* A row of the table lies where the row q of a file says.
LiesAt(view, q, r) == r.key = q.key /\ (q.scoped => r.mod \in RefIds(view, q))

\* The rows of a file up to k have changed only rows that lie where they say.
ChangedThere(view, file, st, k) ==
    \A s \in Strings :
        \/ st.cat.rows[s] = view.rows[s]
        \/ \E j \in 1..k : /\ LiesAt(view, file[j], st.cat.rows[s])
                           /\ Exists(view.rows[s]) => LiesAt(view, file[j], view.rows[s])

\* Each row of a file names a place of its own, and all of them do so in one way.
PlacesOnce(file) ==
    /\ \A i, j \in DOMAIN file : FilePlace(file[i]) = FilePlace(file[j]) => i = j
    /\ \A i, j \in DOMAIN file : file[i].scoped = file[j].scoped
    /\ \A i \in DOMAIN file : ~file[i].scoped => file[i].ref = None

\* Two catalogs agree on the rows that lie where the row q of a file says.
AgreeAt(view, cat, q) ==
    \A s \in Strings : \/ Exists(cat.rows[s]) /\ LiesAt(view, q, cat.rows[s])
                       \/ Exists(view.rows[s]) /\ LiesAt(view, q, view.rows[s])
                       => cat.rows[s] = view.rows[s]

\* A row names the same strings in two catalogs that agree where the row says.
LEMMA SameNames ==
    ASSUME NEW view, NEW cat, NEW q, NEW m \in RefIds(view, q), NEW allow,
           AgreeAt(view, cat, q)
    PROVE  Candidates(cat, q, m, allow) = Candidates(view, q, m, allow)
<1> USE DEF AgreeAt
<1>1. CASE q.scoped
  <2>1. /\ Within(cat, LiveWith(cat, q.key), m) = Within(view, LiveWith(view, q.key), m)
        /\ Within(cat, DeadWith(cat, q.key), m) = Within(view, DeadWith(view, q.key), m)
    BY <1>1 DEF Within, LiveWith, DeadWith, LiesAt, Alive, Dead
  <2> QED
    BY <1>1, <2>1 DEF Candidates
<1>2. CASE ~q.scoped
  <2> DEFINE live == LiveWith(view, q.key)
             dead == DeadWith(view, q.key)
  <2>1. LiveWith(cat, q.key) = live /\ DeadWith(cat, q.key) = dead
    BY <1>2 DEF LiveWith, DeadWith, LiesAt, Alive, Dead
  <2>2. \A s \in dead : cat.rows[s] = view.rows[s]
    BY <1>2 DEF DeadWith, LiesAt, Dead
  <2> HIDE DEF live, dead
  <2>3. {cat.rows[s].mod : s \in dead} = {view.rows[s].mod : s \in dead}
    BY <2>2
  <2>4. Within(cat, dead, None) = Within(view, dead, None)
    BY <2>2 DEF Within
  <2> QED
    BY <1>2, <2>1, <2>3, <2>4 DEF Candidates, live, dead
<1> QED
  BY <1>1, <1>2

\* What a dry run and the run have in common after the rows up to k.
Foretold(view, file, k, st, dry) ==
    /\ Planned(FALSE, view, file, st) /\ Planned(FALSE, view, file, dry)
    /\ dry.cat = view
    /\ st.creates = dry.creates /\ st.updates = dry.updates
    /\ ChangedThere(view, file, st, k)
    /\ Len(file) <= Cardinality(FreeIds(st.cat)) + k

\* The next row of the file counts the same for both.
LEMMA RowForetold ==
    ASSUME NEW o \in PlanOptions, NEW d \in PlanOptions, ~o.public, ~d.public, d.dry,
           o.duplicates = d.duplicates,
           NEW view \in Catalogs, NEW file \in Seq(ImportRows), NewSlugs(view, file) = {},
           PlacesOnce(file), NEW k \in Nat, k < Len(file),
           NEW st, NEW dry, Foretold(view, file, k, st, dry),
           NEW next, next = PlanRow(o, st, file[k + 1]),
           NEW after, after = PlanRow(d, dry, file[k + 1])
    PROVE  Foretold(view, file, k + 1, next, after)
<1> USE RowsAssumption
<1> DEFINE q == file[k + 1]
           home == Only(RefIds(view, q))
           named == Candidates(view, q, home, o.duplicates)
           s == Least(IF named = {} THEN FreeIds(st.cat) ELSE named)
           t == Least(IF named = {} THEN FreeIds(view) ELSE named)
<1>1. /\ k + 1 \in DOMAIN file /\ DOMAIN file = 1..Len(file) /\ Len(file) \in Nat
      /\ q \in ImportRows /\ o.public = FALSE /\ d.public = FALSE
  BY DEF PlanOptions
<1>2. /\ Planned(FALSE, view, file, st) /\ Planned(FALSE, view, file, dry)
      /\ dry.cat = view /\ ChangedThere(view, file, st, k)
      /\ st.creates = dry.creates /\ st.updates = dry.updates
      /\ Len(file) <= Cardinality(FreeIds(st.cat)) + k
  BY DEF Foretold
<1>3. /\ Planned(FALSE, view, file, next) /\ Planned(FALSE, view, file, after)
  <2>1. Planned(o.public, view, file, st) /\ Planned(d.public, view, file, dry)
    BY <1>1, <1>2
  <2>2. Planned(o.public, view, file, next)
    BY <1>1, <2>1, PlanRowKeeps
  <2>3. Planned(d.public, view, file, after)
    BY <1>1, <2>1, PlanRowKeeps
  <2> QED
    BY <1>1, <2>2, <2>3
<1>4. /\ st.cat.mods = view.mods
      /\ \A u \in Strings : st.cat.rows[u] = view.rows[u] \/ Exists(st.cat.rows[u])
  BY <1>2, RowKinds DEF Planned, RowOf
<1>5. FreeIds(st.cat) # {} /\ FreeIds(st.cat) \subseteq FreeIds(view)
  <2>1. Cardinality(FreeIds(st.cat)) \in Nat
    BY FS_Subset, FS_CardinalityType DEF FreeIds
  <2>2. Cardinality(FreeIds(st.cat)) # 0
    BY <1>1, <1>2, <2>1
  <2> QED
    BY <1>4, <2>2, FS_EmptySet DEF FreeIds
<1>6. home \in RefIds(view, q) /\ RefIds(st.cat, q) = RefIds(view, q)
  <2>1. q.ref # None => \E m \in Modules : view.mods[m] = q.ref
    <3>1. q.ref \in {file[i].ref : i \in DOMAIN file}
      BY <1>1
    <3> QED
      BY <3>1 DEF NewSlugs
  <2>2. RefIds(view, q) # {}
    BY <2>1 DEF RefIds, ModuleIds
  <2> QED
    BY <1>4, <2>2, OnlyIn DEF RefIds, ModuleIds
<1>7. ASSUME NEW u \in Strings,
             \/ Exists(st.cat.rows[u]) /\ LiesAt(view, q, st.cat.rows[u])
             \/ Exists(view.rows[u]) /\ LiesAt(view, q, view.rows[u])
      PROVE  st.cat.rows[u] = view.rows[u]
  <2> SUFFICES ASSUME st.cat.rows[u] # view.rows[u]
               PROVE  FALSE
    OBVIOUS
  <2>1. PICK j \in 1..k : /\ LiesAt(view, file[j], st.cat.rows[u])
                          /\ Exists(view.rows[u]) => LiesAt(view, file[j], view.rows[u])
    BY <1>2 DEF ChangedThere
  <2>2. j \in DOMAIN file /\ j # k + 1
    BY <1>1
  <2>3. \E r : LiesAt(view, file[j], r) /\ LiesAt(view, q, r)
    BY <1>7, <2>1
  <2>4. /\ file[j].scoped = q.scoped
        /\ ~q.scoped => q.ref = None /\ file[j].ref = None
        /\ FilePlace(file[j]) # FilePlace(q)
    BY <1>1, <2>2 DEF PlacesOnce
  <2>5. file[j].key = q.key
    BY <2>3 DEF LiesAt
  <2>6. q.scoped => \E m : m \in RefIds(view, file[j]) /\ m \in RefIds(view, q)
    BY <2>3, <2>4 DEF LiesAt
  <2>7. \A x, y : (\E m : m \in RefIds(view, x) /\ m \in RefIds(view, y)) => x.ref = y.ref
    BY DEF RefIds, ModuleIds
  <2>8. file[j].ref = q.ref
    BY <2>4, <2>6, <2>7
  <2> QED
    BY <2>4, <2>5, <2>8 DEF FilePlace
<1>8. Candidates(st.cat, q, home, o.duplicates) = named
  <2>1. AgreeAt(view, st.cat, q)
    BY <1>7 DEF AgreeAt
  <2> QED
    BY <1>6, <2>1, SameNames
<1>9. PICK h \in Modules \cup {None}, u \in Strings : RowPlanned(o, st, q, h, u, next)
  <2>1. Planned(o.public, view, file, st)
    BY <1>1, <1>2
  <2> QED
    BY <1>1, <1>5, <2>1, PlanRowDoes
<1>10. Len(file) <= Cardinality(FreeIds(next.cat)) + (k + 1)
  <2>1. /\ Cardinality(FreeIds(st.cat)) \in Nat /\ Cardinality(FreeIds(next.cat)) \in Nat
        /\ Cardinality(FreeIds(st.cat)) <= Cardinality(FreeIds(next.cat)) + 1
    BY <1>9, RowTakesOne
  <2> QED
    BY <1>1, <1>2, <2>1
<1>11. ChangedThere(view, file, next, k + 1)
  <2>1. ASSUME NEW v \in Strings, next.cat.rows[v] = st.cat.rows[v]
        PROVE  \/ next.cat.rows[v] = view.rows[v]
               \/ \E j \in 1..(k + 1) :
                     /\ LiesAt(view, file[j], next.cat.rows[v])
                     /\ Exists(view.rows[v]) => LiesAt(view, file[j], view.rows[v])
    <3>1. 1..k \subseteq 1..(k + 1)
      OBVIOUS
    <3>2. \/ st.cat.rows[v] = view.rows[v]
          \/ \E j \in 1..k : /\ LiesAt(view, file[j], st.cat.rows[v])
                             /\ Exists(view.rows[v]) => LiesAt(view, file[j], view.rows[v])
      BY <1>2 DEF ChangedThere
    <3> QED
      BY <2>1, <3>1, <3>2
  <2>2. CASE next.cat = st.cat
    BY <2>1, <2>2 DEF ChangedThere
  <2>3. CASE next.cat # st.cat
    <3> DEFINE r == st.cat.rows[u]
               new == next.cat.rows[u]
    <3>1. /\ \A v \in Strings \ {u} : next.cat.rows[v] = st.cat.rows[v]
          /\ IF Exists(r) THEN new.key = r.key /\ new.mod = r.mod
             ELSE new.key = q.key /\ new.mod = h
          /\ h \in RefIds(view, q)
          /\ u \in FreeIds(st.cat) \/ u \in Candidates(st.cat, q, h, o.duplicates)
      BY <1>6, <1>9, <2>3 DEF RowPlanned
    <3>2. Exists(r) => LiesAt(view, q, r)
      <4>1. u \in Candidates(st.cat, q, h, o.duplicates) =>
               r.key = q.key /\ (q.scoped => r.mod = h)
        BY WhoIsNamed
      <4> QED
        BY <3>1, <4>1 DEF FreeIds, LiesAt
    <3>3. LiesAt(view, q, new)
      BY <3>1, <3>2 DEF LiesAt
    <3>4. Exists(view.rows[u]) => LiesAt(view, q, view.rows[u])
      BY <1>4, <1>7, <3>2
    <3>5. k + 1 \in 1..(k + 1)
      OBVIOUS
    <3>6. \E j \in 1..(k + 1) : /\ LiesAt(view, file[j], new)
                                /\ Exists(view.rows[u]) => LiesAt(view, file[j], view.rows[u])
      BY <3>3, <3>4, <3>5
    <3> QED
      BY <2>1, <3>1, <3>6 DEF ChangedThere
  <2> QED
    BY <2>2, <2>3
<1>12. /\ s \in Strings /\ t \in Strings
       /\ Exists(st.cat.rows[s]) => st.cat.rows[s] = view.rows[t]
       /\ Exists(st.cat.rows[s]) <=> Exists(view.rows[t])
  <2>1. CASE named = {}
    <3>1. s = Least(FreeIds(st.cat)) /\ t = Least(FreeIds(view))
      BY <2>1
    <3>2. FreeIds(st.cat) \subseteq Nat /\ FreeIds(view) \subseteq Nat /\ FreeIds(view) # {}
      BY <1>5 DEF FreeIds
    <3> HIDE DEF s, t, named
    <3>3. s \in FreeIds(st.cat) /\ t \in FreeIds(view)
      BY <1>5, <3>1, <3>2, LeastIn
    <3> QED
      BY <3>3 DEF FreeIds
  <2>2. CASE named # {}
    <3>1. s = Least(named) /\ t = Least(named)
      BY <2>2
    <3>2. named \subseteq Strings /\ named \subseteq Nat
      BY CandidatesAreStrings
    <3>3. \A v \in named : Exists(view.rows[v]) /\ LiesAt(view, q, view.rows[v])
      <4>1. \A v \in named : /\ Exists(view.rows[v]) /\ view.rows[v].key = q.key
                             /\ q.scoped => view.rows[v].mod = home
        BY WhoIsNamed
      <4> QED
        BY <1>6, <4>1 DEF LiesAt
    <3> HIDE DEF s, t, named
    <3>4. s \in named /\ t = s
      BY <2>2, <3>1, <3>2, LeastIn
    <3> QED
      BY <1>7, <3>2, <3>3, <3>4
  <2> QED
    BY <2>1, <2>2
<1>13. Counts(o, q, st.cat.rows[s]) <=> Counts(d, q, view.rows[t])
  BY <1>1, <1>12 DEF Counts
<1>14. /\ next.creates = st.creates + (IF named = {} THEN 1 ELSE 0)
       /\ next.updates = st.updates + (IF Counts(o, q, st.cat.rows[s]) THEN 1 ELSE 0)
  <2>1. Only(RefIds(st.cat, q)) = home
    BY <1>6
  <2> HIDE DEF home
  <2> QED
    BY <1>8, <2>1 DEF PlanRow, FreeIds
<1>15. /\ after.creates = dry.creates + (IF named = {} THEN 1 ELSE 0)
       /\ after.updates = dry.updates + (IF Counts(d, q, view.rows[t]) THEN 1 ELSE 0)
       /\ after.cat = view
  <2>1. Skips(d, q, view.rows[t])
    BY DEF Skips
  <2> QED
    BY <1>2, <2>1 DEF PlanRow, FreeIds
<1> HIDE DEF s, t, named
<1>16. next.creates = after.creates /\ next.updates = after.updates
  BY <1>2, <1>13, <1>14, <1>15
<1> QED
  BY <1>3, <1>10, <1>11, <1>15, <1>16 DEF Foretold

\* Two plans count the same.
CountsAlike(p, q) == p.creates = q.creates /\ p.updates = q.updates

\* A plan that writes and one that does not count the same.
LEMMA PlansMeet ==
    ASSUME NEW o \in PlanOptions, NEW d \in PlanOptions, o.public = d.public, d.dry,
           o.duplicates = d.duplicates,
           NEW view \in Catalogs, NEW file \in Seq(ImportRows), NewSlugs(view, file) = {},
           PlacesOnce(file), Len(file) <= Cardinality(FreeIds(view))
    PROVE  CountsAlike(Plan(o, view, file), Plan(d, view, file))
<1> USE DEF CountsAlike
<1> USE RowsAssumption
<1> DEFINE n == Len(file)
<1>5. n \in Nat /\ n <= Cardinality(FreeIds(view))
  OBVIOUS
<1>6. PICK f : /\ f[0] = PlanStart(view)
               /\ \A k \in Nat : k < n => f[k + 1] = PlanRow(o, f[k], file[k + 1])
               /\ Plan(o, view, file) = ShippedPlan(o, f[n])
  <2> HIDE DEF n
  <2>1. \E e : /\ e[0] = PlanStart(view)
               /\ \A k \in Nat : k < Len(file) => e[k + 1] = PlanRow(o, e[k], file[k + 1])
               /\ Plan(o, view, file) = ShippedPlan(o, e[Len(file)])
    BY PlanIsRun
  <2> QED
    BY <2>1 DEF n
<1>7. PICK g : /\ g[0] = PlanStart(view)
               /\ \A k \in Nat : k < n => g[k + 1] = PlanRow(d, g[k], file[k + 1])
               /\ Plan(d, view, file) = ShippedPlan(d, g[n])
  <2> HIDE DEF n
  <2>1. \E e : /\ e[0] = PlanStart(view)
               /\ \A k \in Nat : k < Len(file) => e[k + 1] = PlanRow(d, e[k], file[k + 1])
               /\ Plan(d, view, file) = ShippedPlan(d, e[Len(file)])
    BY PlanIsRun
  <2> QED
    BY <2>1 DEF n
<1>8. CASE o.public
  <2> DEFINE T == {k \in Nat : k <= n => f[k] = g[k]}
  <2>1. 0 \in T
    BY <1>6, <1>7
  <2>2. ASSUME NEW k \in T
        PROVE  k + 1 \in T
    <3> SUFFICES ASSUME k + 1 <= n
                 PROVE  f[k + 1] = g[k + 1]
      OBVIOUS
    <3>1. k \in Nat /\ k < n /\ f[k] = g[k]
      BY <1>5
    <3>2. \A st, q : PlanRow(o, st, q) = PlanRow(d, st, q)
      <4>1. ASSUME NEW q, NEW r
            PROVE  /\ Skips(o, q, r) <=> Skips(d, q, r)
                   /\ Counts(o, q, r) <=> Counts(d, q, r)
        <5>1. o.public = d.public /\ o.public
          BY <1>8
        <5> QED
          BY <5>1 DEF Skips, Counts
      <4> TAKE st, q
      <4> DEFINE home == Only(RefIds(st.cat, q))
                 named == Candidates(st.cat, q, home, o.duplicates)
                 s == Least(IF named = {} THEN {t \in Strings : ~Exists(st.cat.rows[t])} ELSE named)
                 r == st.cat.rows[s]
                 live == LiveWith(st.cat, q.key)
                 new == [st.cat EXCEPT !.rows[s] = Imported(q, home, r, o.public)]
                 Next(p) ==
                     [cat |-> IF Skips(p, q, r) THEN st.cat
                              ELSE new,
                      touched |-> st.touched \cup (IF Skips(p, q, r) THEN {} ELSE {s}),
                      creates |-> st.creates + (IF named = {} THEN 1 ELSE 0),
                      updates |-> st.updates + (IF Counts(p, q, r) THEN 1 ELSE 0),
                      clash |-> st.clash \/ (~o.duplicates /\ live # {} /\ live # named)]
      <4>2. PlanRow(o, st, q) = Next(o) /\ PlanRow(d, st, q) = Next(d)
        BY DEF PlanRow
      <4> HIDE DEF home, named, s, r, live, new
      <4>3. /\ (IF Skips(o, q, r) THEN st.cat ELSE new) = (IF Skips(d, q, r) THEN st.cat ELSE new)
            /\ (IF Skips(o, q, r) THEN {} ELSE {s}) = (IF Skips(d, q, r) THEN {} ELSE {s})
            /\ (IF Counts(o, q, r) THEN 1 ELSE 0) = (IF Counts(d, q, r) THEN 1 ELSE 0)
        BY <4>1
      <4>4. Next(o) = Next(d)
        BY <4>3
      <4> QED
        BY <4>2, <4>4
    <3> HIDE DEF n
    <3> QED
      BY <1>6, <1>7, <3>1, <3>2
  <2>3. f[n] = g[n]
    <3>1. T \in SUBSET Nat
      OBVIOUS
    <3> HIDE DEF T
    <3>2. T = Nat
      BY <2>1, <2>2, <3>1, Induction
    <3> QED
      BY <1>5, <3>2 DEF T
  <2>4. ShippedPlan(o, f[n]) = ShippedPlan(d, f[n])
    BY DEF ShippedPlan, Shipped
  <2> QED
    BY <1>6, <1>7, <2>3, <2>4
<1>9. CASE ~o.public
  <2> DEFINE T == {k \in Nat : k <= n => Foretold(view, file, k, f[k], g[k])}
  <2>1. 0 \in T
    <3>1. Planned(FALSE, view, file, PlanStart(view))
      BY DEF Planned, PlanStates, PlanStart
    <3>2. PlanStart(view).cat = view
      BY DEF PlanStart
    <3>3. ChangedThere(view, file, PlanStart(view), 0)
      BY <3>2 DEF ChangedThere
    <3>4. Cardinality(FreeIds(view)) \in Nat
      BY FS_Subset, FS_CardinalityType DEF FreeIds
    <3>5. Foretold(view, file, 0, PlanStart(view), PlanStart(view))
      <4>1. Len(file) <= Cardinality(FreeIds(PlanStart(view).cat)) + 0
        BY <1>5, <3>2, <3>4
      <4> QED
        BY <3>1, <3>2, <3>3, <4>1 DEF Foretold
    <3> QED
      BY <1>6, <1>7, <3>5
  <2>2. ASSUME NEW k \in T
        PROVE  k + 1 \in T
    <3> SUFFICES ASSUME k + 1 <= n
                 PROVE  Foretold(view, file, k + 1, f[k + 1], g[k + 1])
      OBVIOUS
    <3>1. k \in Nat /\ k < n /\ Foretold(view, file, k, f[k], g[k])
      BY <1>5
    <3>2. /\ f[k + 1] = PlanRow(o, f[k], file[k + 1])
          /\ g[k + 1] = PlanRow(d, g[k], file[k + 1])
      BY <1>6, <1>7, <3>1
    <3>3. ~o.public /\ ~d.public /\ d.dry /\ o.duplicates = d.duplicates
      BY <1>9
    <3>4. k < Len(file)
      BY <3>1
    <3> HIDE DEF T, n
    <3> QED
      BY <3>1, <3>2, <3>3, <3>4, RowForetold
  <2>3. Foretold(view, file, n, f[n], g[n])
    <3>1. T \in SUBSET Nat
      OBVIOUS
    <3> HIDE DEF T
    <3>2. T = Nat
      BY <2>1, <2>2, <3>1, Induction
    <3> QED
      BY <1>5, <3>2 DEF T
  <2> HIDE DEF n
  <2>4. f[n] \in PlanStates /\ g[n] \in PlanStates
    BY <2>3 DEF Foretold, Planned
  <2>5. Plan(o, view, file) = f[n] /\ Plan(d, view, file) = g[n]
    BY <1>6, <1>7, <1>9, <2>4, DraftPlan
  <2> QED
    BY <2>3, <2>5 DEF Foretold
<1> QED
  BY <1>8, <1>9

\* A dry run of a file that names every key once counts what the import would do.
LEMMA DryRunsCount == CatalogInv => DryRunPredicts
<1> SUFFICES ASSUME CatalogInv, NEW file \in Files, NEW public \in BOOLEAN, Fits(file),
                    \A i, j \in DOMAIN file : FilePlace(file[i]) = FilePlace(file[j]) => i = j
             PROVE  LET run == Plan(Options(public, FALSE, FALSE), catalog, file)
                        dry == Plan(Options(public, FALSE, TRUE), catalog, file)
                    IN  <<dry.creates, dry.updates>> = <<run.creates, run.updates>>
  BY DEF DryRunPredicts
<1> USE RowsAssumption
<1> PICK o : o = Options(public, FALSE, FALSE)
  OBVIOUS
<1> PICK d : d = Options(public, FALSE, TRUE)
  OBVIOUS
<1>1. /\ o \in PlanOptions /\ o.duplicates = duplicates /\ o.public = public /\ o.dry = FALSE
      /\ d \in PlanOptions /\ d.duplicates = duplicates /\ d.public = public /\ d.dry = TRUE
  BY DEF Options, PlanOptions, CatalogInv, CatalogTypeOK
<1>2. catalog \in Catalogs /\ file \in Seq(ImportRows) /\ Room(catalog, file)
  BY CatalogAssumption DEF CatalogInv, CatalogTypeOK, Fits
<1>3. PlacesOnce(file)
  BY CatalogAssumption DEF PlacesOnce, Fits
<1> PICK view : view = Prepared(catalog, file)
  OBVIOUS
<1>4. /\ view \in Catalogs /\ view.rows = catalog.rows /\ NewSlugs(view, file) = {}
      /\ Plan(o, catalog, file) = Plan(o, view, file)
      /\ Plan(d, catalog, file) = Plan(d, view, file)
  BY <1>2, ViewFacts
<1>5. Len(file) <= Cardinality(FreeIds(view))
  BY <1>2, <1>4 DEF Room, FreeIds
<1>6. o.public = d.public /\ d.dry /\ o.duplicates = d.duplicates
  BY <1>1
<1>7. CountsAlike(Plan(o, view, file), Plan(d, view, file))
  <2>1. view \in Catalogs /\ NewSlugs(view, file) = {}
    BY <1>4
  <2> QED
    BY <1>1, <1>2, <1>3, <1>5, <1>6, <2>1, PlansMeet
<1> QED
  BY <1>4, <1>7 DEF CountsAlike

\* Importing the draft export of the project, JSON or workbook, unchanged, changes nothing,
\* unless it is refused as ambiguous (build_flat_export, build_modular_export, _write_sheet
\* against import_rows).
THEOREM ExportsComeBack == CatalogSpec => []RoundTrip
  BY SlugsAreUnique, TripIsRound, PTL

\* `loc status` says which keys a push refuses, and a dry run counts what the import does
\* (build_sync_state and _validate; import_rows with dry_run).
THEOREM PredictionsComeTrue == CatalogSpec => []PredictionsHold
<1>1. CatalogInv /\ SlugsUnique(catalog) => PredictionsHold
  BY StatusIsRight, DryRunsCount DEF PredictionsHold
<1> QED
  BY <1>1, SlugsAreUnique, PTL
===============================================================================
