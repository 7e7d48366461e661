---------------------------- MODULE History_proofs -----------------------------
(***************************************************************************)
(* What the activity log promises, for any strings, keys, texts, clients   *)
(* and scenes: entries are undone once, an undo writes over nothing that   *)
(* its entries did not record, its markers tell what it did, the export    *)
(* stays unambiguous and the previews agree with the writes.               *)
(*                                                                         *)
(* HistoryInv says what a session may rely on between its read and its     *)
(* commit.  Plans and previews are folds over the entries of a batch: each *)
(* is a run of states, and what it does is shown by induction over them.   *)
(***************************************************************************)
EXTENDS History, FiniteSetTheorems, TLAPS

\* A string that exists has a key and a text, and a snapshot once it is public.
Filled(r) ==
    /\ Exists(r) => r.key # None /\ r.text # None
    /\ r.status = "public" => r.pub # None

RequestForms ==
    [kind: RequestKinds \cup {"none"}, strs: Seq(Strings), acts: Seq(Nat), force: BOOLEAN]

\* The types that the steps keep.
Typed ==
    /\ rows \in [Strings -> Rows] /\ ver \in [Strings -> Nat]
    /\ log \in Seq(Activities) /\ pruned \in 0..Len(log)
    /\ importer \in Clients \cup {None} /\ publisher \in Clients \cup {None}
    /\ pc \in [Clients -> {"idle", "read"}] /\ req \in [Clients -> RequestForms]
    /\ copy \in [Clients -> [Strings -> Rows]] /\ cver \in [Clients -> [Strings -> Nat]]
    /\ scene \in Scenes /\ sent \in 0..scene.requests /\ fresh \in BOOLEAN

\* An activity is about rows that exist, and what it created or changed is there still.
GoodEntry(a, table) ==
    /\ Filled(a.before) /\ Filled(a.after) /\ Exists(a.after)
    /\ a.action # "create" => Exists(a.before)
    /\ Exists(table[a.str])

\* An entry that a marker points to is older, and linked back unless it is pruned.
GoodLink(i) ==
    LET r == log[i].revertOf IN
    /\ r < i
    /\ r # 0 /\ r > pruned => log[r].revertedBy # 0
    /\ log[i].revertedBy \in 0..Len(log)

GoodLog == \A i \in DOMAIN log : GoodEntry(log[i], rows) /\ GoodLink(i)

\* What a session has read was there: nothing that existed has gone, and a row whose
\* version is the one that was read is the row that was read.
Remembers(c) ==
    \A s \in Strings :
        /\ Filled(copy[c][s])
        /\ Exists(copy[c][s]) => Exists(rows[s])
        /\ cver[c][s] <= ver[s]
        /\ cver[c][s] = ver[s] => copy[c][s] = rows[s]

\* The request of a session is about strings and entries that there are.
GoodRows(c) == req[c].kind \in RowKinds => Len(req[c].strs) = 1

GoodVersion(c) ==
    req[c].kind = "version" =>
        /\ Len(req[c].strs) = 1 /\ Len(req[c].acts) = 1
        /\ req[c].acts[1] \in DOMAIN log
        /\ log[req[c].acts[1]].str = req[c].strs[1]
        /\ IsHistoryRestorable(log[req[c].acts[1]])
        /\ Exists(copy[c][req[c].strs[1]])

\* An undo has both locks, and nobody else undoes its entries.
GoodUndo(c) ==
    IsUndo(req[c]) =>
        LET acts == req[c].acts IN
        /\ importer = c /\ publisher = c
        /\ req[c].kind = "undo" => Len(acts) = 1
        /\ \A n \in DOMAIN acts :
              /\ acts[n] \in DOMAIN log
              /\ Exists(copy[c][log[acts[n]].str])
              /\ \A o \in DOMAIN acts : acts[o] = acts[n] => o = n
              /\ req[c].kind = "undo batch" \/ ~req[c].force =>
                    \A j \in DOMAIN log : log[j].revertOf # acts[n]

\* Nobody takes a snapshot away while a publication has the lock.
GoodPublish(c) ==
    req[c].kind = "publish" =>
        /\ publisher = c
        /\ \A s \in Strings : copy[c][s].pub # None => rows[s].pub # None

GoodSession(c) ==
    IF pc[c] = "idle" THEN req[c] = NoRequest
    ELSE /\ req[c].kind # "none"
         /\ Remembers(c) /\ GoodRows(c) /\ GoodVersion(c) /\ GoodUndo(c) /\ GoodPublish(c)

HistoryInv ==
    /\ Typed
    /\ \A s \in Strings : Filled(rows[s])
    /\ KeysAlive(rows)
    /\ GoodLog
    /\ \A c \in Clients : GoodSession(c)
    /\ UndoneOnce
    /\ ExportStaysUnambiguous

-----------------------------------------------------------------------------
(* Numbers and folds.                                                      *)

\* Every nonempty set of numbers has a least one.
LEMMA LeastNumber ==
    ASSUME NEW T, T \subseteq Nat, T # {}
    PROVE  \E x \in T : \A y \in T : x <= y
<1> DEFINE R == OpToRel(<, Nat)
<1>1. IsWellFoundedOn(R, Nat)
  BY NatLessThanWellFounded
<1>2. \A x, y \in Nat : <<x, y>> \in R <=> x < y
  BY DEF OpToRel
<1> HIDE DEF R
<1>3. PICK x \in T : \A y \in T : ~(<<y, x>> \in R)
  BY <1>1, WFMin
<1>4. ASSUME NEW y \in T
      PROVE  x <= y
  <2>1. x \in Nat /\ y \in Nat
    OBVIOUS
  <2>2. ~(y < x)
    BY <1>2, <1>3, <2>1
  <2> QED
    BY <2>1, <2>2
<1> QED
  BY <1>4

\* Every nonempty bounded set of numbers has a greatest one.
LEMMA GreatestNumber ==
    ASSUME NEW k \in Nat, NEW T \in SUBSET (0..k), T # {}
    PROVE  \E x \in T : \A y \in T : y <= x
<1> DEFINE U == {u \in Nat : \E x \in T : u = k - x}
<1>1. U \subseteq Nat /\ U # {}
  <2>1. PICK x \in T : TRUE
    OBVIOUS
  <2>2. x \in 0..k
    OBVIOUS
  <2>3. k - x \in U
    BY <2>2
  <2> QED
    BY <2>3
<1>2. PICK u \in U : \A v \in U : u <= v
  BY <1>1, LeastNumber
<1>3. PICK x \in T : u = k - x
  BY <1>2
<1>4. ASSUME NEW y \in T
      PROVE  y <= x
  <2>1. y \in 0..k /\ x \in 0..k
    OBVIOUS
  <2>2. k - y \in U
    BY <2>1
  <2>3. u <= k - y
    BY <1>2, <2>2
  <2> QED
    BY <1>3, <2>1, <2>3
<1> QED
  BY <1>4

\* Induction over the natural numbers, about a set.
LEMMA Induction ==
    ASSUME NEW T \in SUBSET Nat, 0 \in T, \A n \in T : n + 1 \in T
    PROVE  T = Nat
<1> SUFFICES ASSUME Nat \ T # {}
             PROVE  FALSE
  OBVIOUS
<1>1. PICK x \in Nat \ T : \A y \in Nat \ T : x <= y
  BY LeastNumber
<1>2. x # 0 /\ x - 1 \in Nat /\ x - 1 \in T /\ x = (x - 1) + 1
  BY <1>1
<1> QED
  BY <1>1, <1>2

\* One step of a fold: of a plan, of a preview, or of restore_last_history.
FoldStep(kind, x, state, e) ==
    CASE kind = "plan" -> PlanStep(state, e, x)
      [] kind = "preview" -> PreviewItem(state, e)
      [] kind = "last" -> LastStep(x, state, e)

\* The function that FoldLeft defines by recursion, on the sets of positions.
Folds(kind, x, start, seq, D, g) ==
    g = [U \in SUBSET D |->
            IF U = {} THEN start ELSE FoldStep(kind, x, g[U \ {Max(U)}], seq[Max(U)])]

\* The greatest of a set of numbers up to k + 1 that contains it.
LEMMA MaxUpTo ==
    ASSUME NEW k \in Nat, NEW U \in SUBSET (1..(k + 1)), k + 1 \in U
    PROVE  Max(U) = k + 1
<1>1. \A y \in U : k + 1 >= y
  OBVIOUS
<1>2. \A x \in U : (\A y \in U : x >= y) => x = k + 1
  OBVIOUS
<1> QED
  BY <1>1, <1>2 DEF Max

\* The function that a fold over the first n positions chooses exists.
LEMMA FoldExists ==
    ASSUME NEW kind, NEW x, NEW start, NEW seq, NEW n \in Nat
    PROVE  \E g : Folds(kind, x, start, seq, 1..n, g)
<1> DEFINE T == {k \in Nat : \E g : Folds(kind, x, start, seq, 1..k, g)}
<1>1. 0 \in T
  <2> DEFINE g == [U \in SUBSET (1..0) |-> start]
  <2>1. Folds(kind, x, start, seq, 1..0, g)
    <3>1. \A U \in SUBSET (1..0) : U = {}
      OBVIOUS
    <3> QED
      BY <3>1 DEF Folds
  <2> QED
    BY <2>1
<1>2. ASSUME NEW k \in T
      PROVE  k + 1 \in T
  <2>0. k \in Nat /\ k + 1 \in Nat
    OBVIOUS
  <2>1. PICK g : Folds(kind, x, start, seq, 1..k, g)
    OBVIOUS
  <2> DEFINE h == [U \in SUBSET (1..(k + 1)) |->
                      IF k + 1 \in U THEN FoldStep(kind, x, g[U \ {k + 1}], seq[k + 1])
                      ELSE g[U]]
  <2>2. ASSUME NEW U \in SUBSET (1..(k + 1))
        PROVE  h[U] = IF U = {} THEN start
                      ELSE FoldStep(kind, x, h[U \ {Max(U)}], seq[Max(U)])
    <3>1. \A V \in SUBSET (1..k) : /\ V \in SUBSET (1..(k + 1)) /\ k + 1 \notin V
                                   /\ h[V] = g[V]
      BY <2>0
    <3>2. CASE k + 1 \in U
      <4>1. Max(U) = k + 1
        BY <2>0, <3>2, MaxUpTo
      <4>2. U \ {k + 1} \in SUBSET (1..k)
        BY <2>0
      <4>3. h[U \ {k + 1}] = g[U \ {k + 1}]
        BY <3>1, <4>2
      <4>4. h[U] = FoldStep(kind, x, g[U \ {k + 1}], seq[k + 1])
        BY <3>2
      <4>5. U # {}
        BY <3>2
      <4> HIDE DEF h
      <4> QED
        BY <4>1, <4>3, <4>4, <4>5
    <3>3. CASE k + 1 \notin U
      <4>1. U \in SUBSET (1..k)
        BY <2>0, <3>3
      <4>2. h[U] = g[U]
        BY <3>1, <4>1
      <4>3. h[U \ {Max(U)}] = g[U \ {Max(U)}]
        BY <3>1, <4>1
      <4>4. g[U] = IF U = {} THEN start
                   ELSE FoldStep(kind, x, g[U \ {Max(U)}], seq[Max(U)])
        BY <2>1, <4>1 DEF Folds
      <4> HIDE DEF h
      <4> QED
        BY <4>2, <4>3, <4>4
    <3> QED
      BY <3>2, <3>3
  <2>3. Folds(kind, x, start, seq, 1..(k + 1), h)
    <3>1. h = [U \in SUBSET (1..(k + 1)) |-> h[U]]
      OBVIOUS
    <3> HIDE DEF h
    <3> QED
      BY <2>2, <3>1 DEF Folds
  <2> QED
    BY <2>0, <2>3
<1>3. T = Nat
  <2>1. T \in SUBSET Nat
    OBVIOUS
  <2> HIDE DEF T
  <2> QED
    BY <1>1, <1>2, <2>1, Induction
<1> QED
  BY <1>3

\* A run of states, one after each member of the sequence.
IsRun(kind, x, start, seq, end, f) ==
    /\ f[0] = start
    /\ \A k \in Nat : k < Len(seq) => f[k + 1] = FoldStep(kind, x, f[k], seq[k + 1])
    /\ end = f[Len(seq)]

\* A fold is the end of a run.
LEMMA FoldIsRun ==
    ASSUME NEW kind, NEW x, NEW start, NEW S, NEW seq \in Seq(S)
    PROVE  \E f : IsRun(kind, x, start, seq,
                        (CHOOSE e : Folds(kind, x, start, seq, DOMAIN seq, e))[DOMAIN seq], f)
<1> DEFINE n == Len(seq)
           g == CHOOSE e : Folds(kind, x, start, seq, DOMAIN seq, e)
           f == [k \in Nat |-> g[1..k]]
<1>1. n \in Nat /\ DOMAIN seq = 1..n
  OBVIOUS
<1>2. \E e : Folds(kind, x, start, seq, DOMAIN seq, e)
  BY <1>1, FoldExists
<1>3. Folds(kind, x, start, seq, 1..n, g)
  BY <1>1, <1>2
<1> HIDE DEF g, n
<1>4. f[0] = start
  <2>1. 1..0 = {} /\ 1..0 \in SUBSET (1..n)
    OBVIOUS
  <2> QED
    BY <1>3, <2>1 DEF Folds
<1>5. ASSUME NEW k \in Nat, k < n
      PROVE  f[k + 1] = FoldStep(kind, x, f[k], seq[k + 1])
  <2>1. 1..(k + 1) \in SUBSET (1..n) /\ 1..(k + 1) # {} /\ k + 1 \in 1..(k + 1)
    BY <1>1, <1>5
  <2>2. Max(1..(k + 1)) = k + 1
    BY <2>1, MaxUpTo
  <2>3. (1..(k + 1)) \ {k + 1} = 1..k
    OBVIOUS
  <2>4. g[1..(k + 1)]
          = FoldStep(kind, x, g[(1..(k + 1)) \ {Max(1..(k + 1))}], seq[Max(1..(k + 1))])
    BY <1>3, <2>1 DEF Folds
  <2>5. g[1..(k + 1)] = FoldStep(kind, x, g[1..k], seq[k + 1])
    BY <2>2, <2>3, <2>4
  <2>6. f[k] = g[1..k] /\ f[k + 1] = g[1..(k + 1)]
    OBVIOUS
  <2> QED
    BY <2>5, <2>6
<1>6. g[DOMAIN seq] = f[n]
  BY <1>1
<1>7. IsRun(kind, x, start, seq, g[DOMAIN seq], f)
  <2> HIDE DEF f
  <2> QED
    BY <1>4, <1>5, <1>6 DEF IsRun, n
<1> QED
  BY <1>7 DEF g

PlanStart(table) == [ok |-> TRUE, rows |-> table, owners |-> Owners(table), inverses |-> <<>>]

PreviewStart(table) ==
    [blocked |-> FALSE, conflict |-> FALSE, rows |-> table, owners |-> Owners(table)]

LastStart(c) == [ok |-> TRUE, after |-> copy[c], entries |-> <<>>]

\* The plan of a batch is a run.
LEMMA PlanIsRun ==
    ASSUME NEW table, NEW S, NEW acts \in Seq(S), NEW force
    PROVE  \E f : IsRun("plan", force, PlanStart(table), acts, Plan(table, acts, force), f)
<1>1. Plan(table, acts, force)
         = (CHOOSE e : Folds("plan", force, PlanStart(table), acts, DOMAIN acts, e))[DOMAIN acts]
  BY DEF Plan, FoldLeft, MapThenFoldSet, Folds, FoldStep, PlanStart
<1> QED
  BY <1>1, FoldIsRun

\* The preview of a batch is a run.
LEMMA PreviewIsRun ==
    ASSUME NEW table, NEW S, NEW acts \in Seq(S)
    PROVE  \E f : IsRun("preview", TRUE, PreviewStart(table), acts, Preview(table, acts), f)
<1>1. Preview(table, acts)
         = (CHOOSE e : Folds("preview", TRUE, PreviewStart(table), acts, DOMAIN acts, e))
               [DOMAIN acts]
  BY DEF Preview, FoldLeft, MapThenFoldSet, Folds, FoldStep, PreviewStart
<1> QED
  BY <1>1, FoldIsRun

\* The plan of restore_last_history is a run.
LEMMA LastIsRun ==
    ASSUME NEW c, NEW S, req[c].strs \in Seq(S)
    PROVE  \E f : IsRun("last", c, LastStart(c), req[c].strs, LastPlan(c), f)
<1>1. LastPlan(c)
         = (CHOOSE e : Folds("last", c, LastStart(c), req[c].strs, DOMAIN req[c].strs, e))
               [DOMAIN req[c].strs]
  BY DEF LastPlan, FoldLeft, MapThenFoldSet, Folds, FoldStep, LastStart
<1> QED
  BY <1>1, FoldIsRun

-----------------------------------------------------------------------------
(* Rows.                                                                   *)

LEMMA RowFields ==
    ASSUME NEW r \in Rows
    PROVE  /\ r.key \in Keys \cup {None} /\ r.text \in Texts \cup {None}
           /\ r.pub \in Contents \cup {None} /\ r.status \in {"none", "draft", "public"}
           /\ r.pending \in BOOLEAN /\ r.deleted \in BOOLEAN
           /\ DOMAIN r = {"key", "text", "pub", "status", "pending", "deleted"}
  BY DEF Rows

LEMMA ChangedFields ==
    ASSUME NEW b \in Rows, NEW a \in Rows, NEW n \in Rows
    PROVE  /\ Changed(b, a, n).key = IF a.key # b.key THEN a.key ELSE n.key
           /\ Changed(b, a, n).text = IF a.text # b.text THEN a.text ELSE n.text
           /\ Changed(b, a, n).pub = IF a.pub # b.pub THEN a.pub ELSE n.pub
           /\ Changed(b, a, n).status = IF a.status # b.status THEN a.status ELSE n.status
           /\ Changed(b, a, n).pending = IF a.pending # b.pending THEN a.pending ELSE n.pending
           /\ Changed(b, a, n).deleted = IF a.deleted # b.deleted THEN a.deleted ELSE n.deleted
           /\ Changed(b, a, n) \in Rows
  BY DEF Changed, Rows

LEMMA ChangedNothing ==
    ASSUME NEW b \in Rows, NEW n \in Rows
    PROVE  Changed(b, b, n) = n
  BY DEF Changed, Rows

\* A row that was not changed by others becomes what the handler made of it.
LEMMA ChangedFresh ==
    ASSUME NEW b \in Rows, NEW a \in Rows
    PROVE  Changed(b, a, b) = a
  BY DEF Changed, Rows

\* What was published stays on the rows that a write leaves.
KeepsPub(r, now) == r.pub # None => now.pub # None

\* A write that ships nothing new.
Quiet(r, now) == Exported(now) => Exported(r) /\ ExportKey(now) = ExportKey(r)

\* A row that a write may leave in the place of another.
Follows(r, now) == now \in Rows /\ Filled(now) /\ (Exists(r) => Exists(now))

\* What a handler does that publishes nothing and revives nothing.
Tame(b, a) ==
    /\ a \in Rows /\ Filled(a) /\ (Exists(b) => Exists(a))
    /\ a.pub = b.pub /\ a.status = b.status
    /\ a.deleted = b.deleted \/ a.deleted

\* The columns of a tame handler may be written over what others have made of the row.
LEMMA TameChange ==
    ASSUME NEW b \in Rows, NEW a \in Rows, NEW n \in Rows, Tame(b, a), Filled(b), Filled(n),
           Exists(b) => Exists(n), Exists(b)
    PROVE  /\ Follows(n, Changed(b, a, n)) /\ KeepsPub(n, Changed(b, a, n))
           /\ Quiet(n, Changed(b, a, n))
<1> DEFINE r == Changed(b, a, n)
<1>0. r \in Rows
  BY ChangedFields
<1>1. r.pub = n.pub /\ r.status = n.status
  BY ChangedFields DEF Tame
<1>2. r.key # None /\ r.text # None
  BY ChangedFields DEF Tame, Filled, Exists
<1>3. r.deleted = n.deleted \/ r.deleted = TRUE
  BY ChangedFields, RowFields DEF Tame
<1>4. Quiet(n, r)
  <2>1. ASSUME Exported(r) PROVE Exported(n) /\ n.pub # None
    BY <1>1, <1>3, <2>1, RowFields DEF Exported, Alive, Exists, Filled
  <2> QED
    BY <1>1, <2>1 DEF Quiet, ExportKey
<1>5. Follows(n, r)
  BY <1>0, <1>1, <1>2 DEF Follows, Filled, Exists
<1>6. KeepsPub(n, r)
  BY <1>1 DEF KeepsPub
<1> HIDE DEF Follows, KeepsPub, Quiet
<1> QED
  BY <1>4, <1>5, <1>6

LEMMA PromotedFields ==
    ASSUME NEW r \in Rows, r.key # None, r.text # None
    PROVE  /\ Promoted(r) \in Rows /\ Filled(Promoted(r)) /\ Exists(Promoted(r))
           /\ Promoted(r).key = r.key /\ Promoted(r).text = r.text
           /\ Promoted(r).pub # None /\ Promoted(r).pub = Content(r)
           /\ Promoted(r).status = "public" /\ Promoted(r).pending = FALSE
           /\ Promoted(r).deleted = r.deleted
<1>1. Content(r) \in Contents /\ Content(r) # None
  BY RowFields, HistoryAssumption DEF Content, Contents
<1> DEFINE x == Content(r)
<1>2. x \in Contents /\ x # None
  BY <1>1
<1>3. Promoted(r) = [r EXCEPT !.pub = x, !.status = "public", !.pending = FALSE]
  BY DEF Promoted
<1> HIDE DEF x
<1>4. /\ Promoted(r) \in Rows
      /\ Promoted(r).key = r.key /\ Promoted(r).text = r.text
      /\ Promoted(r).pub = x /\ Promoted(r).status = "public" /\ Promoted(r).pending = FALSE
      /\ Promoted(r).deleted = r.deleted
  BY <1>2, <1>3 DEF Rows
<1> QED
  BY <1>2, <1>4 DEF Filled, Exists, x

\* The handlers of the grid and of History that are tame.
LEMMA TameHandlers ==
    ASSUME NEW r \in Rows, Filled(r), Exists(r)
    PROVE  /\ Tame(r, r) /\ Tame(r, Tombstone(r))
           /\ Tame(r, QueuedOrDeleted(r)) /\ Tame(r, Discarded(r))
           /\ \A v \in Rows : Filled(v) /\ Exists(v) => Tame(r, HistoryTarget(r, v))
<1> USE RowFields
<1>1. Tame(r, r)
  BY DEF Tame
<1>5. Tame(r, Tombstone(r))
  <2>1. [r EXCEPT !.deleted = TRUE, !.pending = FALSE] \in Rows
    BY DEF Rows
  <2> QED
    BY <2>1 DEF Tombstone, Tame, Filled, Exists
<1>2. Tame(r, QueuedOrDeleted(r))
  <2>1. CASE r.deleted
    BY <1>1, <2>1 DEF QueuedOrDeleted
  <2>2. CASE ~r.deleted /\ r.pub # None
    <3>1. QueuedOrDeleted(r) = [r EXCEPT !.pending = TRUE]
      BY <2>2 DEF QueuedOrDeleted
    <3>2. [r EXCEPT !.pending = TRUE] \in Rows
      BY DEF Rows
    <3> QED
      BY <3>1, <3>2 DEF Tame, Filled, Exists
  <2>3. CASE ~r.deleted /\ r.pub = None
    BY <1>5, <2>3 DEF QueuedOrDeleted
  <2> QED
    BY <2>1, <2>2, <2>3
<1>3. Tame(r, Discarded(r))
  <2>1. CASE r.pub = None
    BY <1>1, <2>1 DEF Discarded
  <2>2. CASE r.pub # None
    <3>1. r.pub \in Contents
      BY <2>2
    <3>2. /\ r.pub.key \in Keys /\ r.pub.text \in Texts
          /\ r.pub.key # None /\ r.pub.text # None
      BY <3>1, HistoryAssumption DEF Contents
    <3>3. PICK x \in Keys, y \in Texts : x = r.pub.key /\ y = r.pub.text
      BY <3>2
    <3>4. Discarded(r) = [r EXCEPT !.key = x, !.text = y, !.pending = FALSE]
      BY <2>2, <3>3 DEF Discarded
    <3>5. [r EXCEPT !.key = x, !.text = y, !.pending = FALSE] \in Rows
      BY DEF Rows
    <3>6. x # None /\ y # None
      BY <3>2, <3>3
    <3> HIDE <3>3
    <3> QED
      BY <3>4, <3>5, <3>6 DEF Tame, Filled, Exists
  <2> QED
    BY <2>1, <2>2
<1>4. ASSUME NEW v \in Rows, Filled(v), Exists(v)
      PROVE  Tame(r, HistoryTarget(r, v))
  <2>1. /\ v.key \in Keys /\ v.text \in Texts
        /\ v.key # None /\ v.text # None
    BY <1>4 DEF Filled
  <2>2. PICK x \in Keys, y \in Texts : x = v.key /\ y = v.text
    BY <2>1
  <2>3. HistoryTarget(r, v) = [r EXCEPT !.key = x, !.text = y]
    BY <2>2 DEF HistoryTarget
  <2>4. [r EXCEPT !.key = x, !.text = y] \in Rows
    BY DEF Rows
  <2>5. x # None /\ y # None
    BY <2>1, <2>2
  <2> QED
    BY <2>3, <2>4, <2>5 DEF Tame, Filled, Exists
<1> QED
  BY <1>1, <1>2, <1>3, <1>4, <1>5

\* restore_string; on a row that nobody else changed it ships nothing.
LEMMA RestoredRow ==
    ASSUME NEW b \in Rows, NEW n \in Rows, Filled(b), Filled(n), Exists(b), Exists(n)
    PROVE  /\ Restored(b) \in Rows /\ Filled(Restored(b)) /\ Exists(Restored(b))
           /\ Follows(n, Changed(b, Restored(b), n)) /\ KeepsPub(n, Changed(b, Restored(b), n))
           /\ b = n => Quiet(n, Changed(b, Restored(b), n))
<1> DEFINE a == Restored(b)
           r == Changed(b, a, n)
<1>1. /\ a \in Rows
      /\ a.key = b.key /\ a.text = b.text /\ a.pub = b.pub /\ a.pending = FALSE
      /\ a.deleted = FALSE /\ a.status = IF b.deleted THEN "draft" ELSE b.status
  <2> PICK w \in {"draft", b.status} : w = IF b.deleted THEN "draft" ELSE b.status
    OBVIOUS
  <2>1. a = [b EXCEPT !.deleted = FALSE, !.pending = FALSE, !.status = w]
    BY DEF Restored
  <2>2. w \in {"none", "draft", "public"}
    BY RowFields
  <2> HIDE DEF a
  <2> QED
    BY <2>1, <2>2 DEF Rows
<1> HIDE DEF a
<1>2. Filled(a) /\ Exists(a)
  BY <1>1 DEF Filled, Exists
<1>3. /\ r \in Rows /\ r.key = n.key /\ r.text = n.text /\ r.pub = n.pub
      /\ r.status = n.status \/ r.status = "draft"
  BY <1>1, ChangedFields
<1>4. b = n => r = a
  BY <1>1, ChangedFresh
<1>5. b = n => Quiet(n, a)
  BY <1>1, RowFields DEF Quiet, Exported, Alive, Exists, ExportKey
<1> HIDE DEF r
<1>6. Follows(n, r) /\ KeepsPub(n, r)
  BY <1>3 DEF Follows, KeepsPub, Filled, Exists
<1> QED
  BY <1>1, <1>2, <1>4, <1>5, <1>6 DEF r, a

\* A string that is edited, or created; published by its editor or not.
LEMMA EditedRow ==
    ASSUME NEW n \in Rows, Filled(n), NEW x \in Keys, NEW y \in Texts,
           NEW w \in {"none", "draft", "public"}, w = IF Exists(n) THEN n.status ELSE "draft"
    PROVE  LET r == [n EXCEPT !.key = x, !.text = y, !.status = w]
           IN  /\ Follows(n, r) /\ KeepsPub(n, r) /\ Quiet(n, r) /\ Exists(r)
               /\ Follows(n, Promoted(r)) /\ KeepsPub(n, Promoted(r)) /\ Exists(Promoted(r))
<1> DEFINE r == [n EXCEPT !.key = x, !.text = y, !.status = w]
<1>1. x # None /\ y # None
  BY HistoryAssumption
<1>2. /\ r \in Rows /\ r.key = x /\ r.text = y /\ r.status = w /\ r.pub = n.pub
      /\ r.deleted = n.deleted
  BY DEF Rows
<1> HIDE DEF r
<1>3. w = "public" => n.status = "public"
  OBVIOUS
<1>4. Exists(r) /\ Filled(r)
  BY <1>1, <1>2, <1>3 DEF Exists, Filled
<1>5. Quiet(n, r)
  BY <1>2, <1>3 DEF Quiet, Exported, Alive, Exists, ExportKey, Filled
<1>6. Follows(n, Promoted(r)) /\ KeepsPub(n, Promoted(r)) /\ Exists(Promoted(r))
  BY <1>1, <1>2, PromotedFields DEF Follows, KeepsPub
<1> QED
  BY <1>2, <1>4, <1>5, <1>6 DEF r, Follows, KeepsPub


\* publish of a row, with the snapshot that it has still.
LEMMA PublishedHandled ==
    ASSUME NEW b \in Rows, NEW n \in Rows, Filled(b), Filled(n), Exists(b), Exists(n),
           KeepsPub(b, n)
    PROVE  LET a == Handled("publish", b)
           IN  /\ a \in Rows /\ Filled(a) /\ Exists(a)
               /\ Follows(n, Changed(b, a, n)) /\ KeepsPub(n, Changed(b, a, n))
<1> DEFINE a == Handled("publish", b)
           r == Changed(b, a, n)
<1>1. CASE b.deleted
  <2>1. a = b
    BY <1>1 DEF Handled
  <2> QED
    BY <2>1, ChangedNothing DEF Follows, KeepsPub
<1>2. CASE ~b.deleted /\ b.pending
  <2>1. a = Tombstone(b)
    BY <1>2 DEF Handled
  <2>3. Tame(b, a)
    BY <2>1, TameHandlers
  <2> HIDE DEF a
  <2> QED
    BY <2>3, TameChange DEF Tame, a
<1>3. CASE ~b.deleted /\ ~b.pending
  <2>1. a = Promoted(b)
    BY <1>3 DEF Handled
  <2>2. /\ a \in Rows /\ Filled(a) /\ Exists(a)
        /\ a.key = b.key /\ a.text = b.text /\ a.pub # None /\ a.status = "public"
    BY <2>1, PromotedFields DEF Filled
  <2> HIDE DEF a
  <2>3. /\ r \in Rows /\ r.key = n.key /\ r.text = n.text
        /\ r.pub # None
        /\ r.status # "none"
    BY <2>2, ChangedFields DEF KeepsPub, Exists
  <2> HIDE DEF r
  <2>4. Follows(n, r) /\ KeepsPub(n, r)
    BY <2>3 DEF Follows, KeepsPub, Filled, Exists
  <2> QED
    BY <2>2, <2>4 DEF a, r
<1> QED
  BY <1>1, <1>2, <1>3

\* What an undo puts in the place of a row.
LEMMA RevertedRow ==
    ASSUME NEW a, NEW r \in Rows, a.before \in Rows, Filled(a.before),
           a.action # "create" => Exists(a.before), Filled(r), Exists(r)
    PROVE  /\ RevertTarget(a, r) \in Rows /\ Filled(RevertTarget(a, r))
           /\ Exists(RevertTarget(a, r))
<1>1. CASE a.action # "create"
  BY <1>1 DEF RevertTarget
<1>2. CASE a.action = "create" /\ r.pub # None
  <2>1. RevertTarget(a, r) = [r EXCEPT !.pending = TRUE]
    BY <1>2 DEF RevertTarget
  <2>2. [r EXCEPT !.pending = TRUE] \in Rows
    BY DEF Rows
  <2> QED
    BY <2>1, <2>2 DEF Filled, Exists
<1>3. CASE a.action = "create" /\ r.pub = None
  <2>1. RevertTarget(a, r) = [r EXCEPT !.deleted = TRUE, !.pending = FALSE]
    BY <1>3 DEF RevertTarget, Tombstone
  <2>2. [r EXCEPT !.deleted = TRUE, !.pending = FALSE] \in Rows
    BY DEF Rows
  <2> QED
    BY <2>1, <2>2 DEF Filled, Exists
<1> QED
  BY <1>1, <1>2, <1>3

\* Undoing a creation removes the string, or queues its removal.
LEMMA RevertedCreation ==
    ASSUME NEW a, NEW r \in Rows, a.action = "create"
    PROVE  RevertTarget(a, r).deleted \/ RevertTarget(a, r).pending
  BY DEF RevertTarget, Tombstone, Rows

\* The export stays unambiguous where a write ships nothing new.
LEMMA QuietTable ==
    ASSUME NEW table, NEW next, KeysPublic(table),
           \A s \in Strings : Quiet(table[s], next[s])
    PROVE  KeysPublic(next)
  BY DEF KeysPublic, Quiet

-----------------------------------------------------------------------------
(* What a commit leaves of the table, of the log and of the sessions.      *)

\* Rows stay whole, and each one that changes gets a new version.
RowsMove ==
    /\ rows' \in [Strings -> Rows] /\ ver' \in [Strings -> Nat]
    /\ \A s \in Strings :
          /\ Follows(rows[s], rows'[s])
          /\ \/ ver'[s] = ver[s] /\ rows'[s] = rows[s]
             \/ ver'[s] = ver[s] + 1

\* Entries keep what they say; only the link to their marker may be set.
SameEntry(a, b) ==
    /\ a.str = b.str /\ a.action = b.action /\ a.intent = b.intent
    /\ a.before = b.before /\ a.after = b.after
    /\ a.revertOf = b.revertOf /\ a.forced = b.forced

LogGrows ==
    /\ log' \in Seq(Activities) /\ Len(log) <= Len(log')
    /\ \A i \in 1..Len(log) : SameEntry(log[i], log'[i])

NewEntries == {j \in DOMAIN log' : j > Len(log)}

\* The entries of a write that undoes nothing.
Plain(entries) ==
    /\ entries \in Seq(Activities)
    /\ \A n \in DOMAIN entries :
          entries[n].revertOf = 0 /\ entries[n].revertedBy = 0 /\ GoodEntry(entries[n], rows')

PlainStep == /\ LogGrows /\ GoodLog' /\ UndoneOnce'
             /\ \A j \in NewEntries : log'[j].revertOf = 0

\* The fields of an activity.
LEMMA ActivityFields ==
    ASSUME NEW a \in Activities
    PROVE  /\ a.str \in Strings /\ a.action \in Actions /\ a.intent \in {"none", "restore"}
           /\ a.before \in Rows /\ a.after \in Rows /\ a.batch \in Nat
           /\ a.revertOf \in Nat /\ a.revertedBy \in Nat /\ a.forced \in BOOLEAN
  BY DEF Activities, Snapshots

\* The members of a sequence that goes on with another.
LEMMA Joined ==
    ASSUME NEW S, NEW p \in Seq(S), NEW q \in Seq(S)
    PROVE  /\ p \o q \in Seq(S) /\ Len(p \o q) = Len(p) + Len(q)
           /\ DOMAIN (p \o q) = 1..(Len(p) + Len(q))
           /\ \A i \in 1..Len(p) : (p \o q)[i] = p[i]
           /\ \A n \in 1..Len(q) : (p \o q)[Len(p) + n] = q[n]
           /\ \A i \in 1..(Len(p) + Len(q)) :
                 i > Len(p) => i - Len(p) \in 1..Len(q) /\ (p \o q)[i] = q[i - Len(p)]
  OBVIOUS

\* Writes that undo nothing leave a good log.
LEMMA PlainEntries ==
    ASSUME HistoryInv, RowsMove, NEW entries, Plain(entries), log' = log \o entries,
           pruned' = pruned
    PROVE  PlainStep
<1>0. log \in Seq(Activities) /\ entries \in Seq(Activities)
  BY DEF HistoryInv, Typed, Plain
<1>1. /\ log' \in Seq(Activities) /\ Len(log') = Len(log) + Len(entries)
      /\ DOMAIN log' = 1..(Len(log) + Len(entries))
      /\ DOMAIN log = 1..Len(log) /\ DOMAIN entries = 1..Len(entries)
      /\ Len(log) \in Nat /\ Len(entries) \in Nat
  BY <1>0, Joined
<1>2. \A i \in 1..Len(log) : log'[i] = log[i]
  BY <1>0, Joined
<1>3. \A j \in NewEntries : j - Len(log) \in DOMAIN entries /\ log'[j] = entries[j - Len(log)]
  BY <1>0, <1>1, Joined DEF NewEntries
<1>4. \A j \in DOMAIN log' : j \in DOMAIN log \/ j \in NewEntries
  BY <1>1 DEF NewEntries
<1>5. \A j \in NewEntries : /\ log'[j].revertOf = 0 /\ log'[j].revertedBy = 0
                            /\ GoodEntry(log'[j], rows')
  BY <1>3 DEF Plain
<1>6. LogGrows
  BY <1>1, <1>2 DEF LogGrows, SameEntry
<1>7. ASSUME NEW i \in DOMAIN log'
      PROVE  GoodEntry(log'[i], rows') /\ GoodLink(i)'
  <2>1. CASE i \in DOMAIN log
    <3>1. GoodEntry(log[i], rows) /\ GoodLink(i) /\ log[i].str \in Strings /\ log'[i] = log[i]
      BY <1>0, <1>1, <1>2, <2>1, ActivityFields DEF HistoryInv, GoodLog
    <3>2. GoodEntry(log'[i], rows')
      BY <3>1 DEF GoodEntry, RowsMove, Follows
    <3>3. log[i].revertOf \in Nat
      BY <1>0, <2>1, ActivityFields
    <3>4. GoodLink(i)'
      <4> DEFINE r == log[i].revertOf
      <4>1. r # 0 => r \in 1..Len(log) /\ log'[r] = log[r]
        BY <1>1, <1>2, <2>1, <3>1, <3>3 DEF GoodLink
      <4> QED
        BY <1>1, <2>1, <3>1, <3>3, <4>1 DEF GoodLink
    <3> QED
      BY <3>2, <3>4
  <2>2. CASE i \in NewEntries
    <3>1. i \in Nat /\ i > 0
      BY <1>1 DEF NewEntries
    <3>2. GoodLink(i)'
      BY <1>1, <1>5, <2>2, <3>1 DEF GoodLink
    <3> QED
      BY <1>5, <2>2, <3>2
  <2> QED
    BY <1>4, <2>1, <2>2
<1>8. GoodLog'
  BY <1>7 DEF GoodLog
<1>9. UndoneOnce'
  <2> SUFFICES ASSUME NEW i \in DOMAIN log', NEW j \in DOMAIN log',
                      log'[i].revertOf # 0, log'[i].revertOf = log'[j].revertOf,
                      ~log'[i].forced, ~log'[j].forced
               PROVE  i = j
    BY DEF UndoneOnce
  <2>1. i \in DOMAIN log /\ j \in DOMAIN log
    BY <1>4, <1>5
  <2>2. log'[i] = log[i] /\ log'[j] = log[j]
    BY <1>1, <1>2, <2>1
  <2> QED
    BY <2>1, <2>2 DEF HistoryInv, UndoneOnce
<1> QED
  BY <1>5, <1>6, <1>8, <1>9 DEF PlainStep

\* The session of somebody else goes on as it was.
LEMMA OthersKeep ==
    ASSUME HistoryInv, NEW d \in Clients, RowsMove, LogGrows,
           pc'[d] = pc[d], req'[d] = req[d], copy'[d] = copy[d], cver'[d] = cver[d],
           importer = d => importer' = d, publisher = d => publisher' = d,
           publisher = d => \A s \in Strings : KeepsPub(rows[s], rows'[s]),
           importer = d => \A j \in NewEntries : log'[j].revertOf = 0
    PROVE  GoodSession(d)'
<1>1. CASE pc[d] = "idle"
  BY <1>1 DEF HistoryInv, GoodSession
<1>2. CASE pc[d] # "idle"
  <2>0. /\ log \in Seq(Activities) /\ DOMAIN log = 1..Len(log) /\ Len(log) \in Nat
        /\ DOMAIN log' = 1..Len(log') /\ Len(log') \in Nat
        /\ log' \in Seq(Activities)
        /\ copy \in [Clients -> [Strings -> Rows]] /\ cver \in [Clients -> [Strings -> Nat]]
        /\ rows \in [Strings -> Rows] /\ ver \in [Strings -> Nat]
        /\ req[d] \in RequestForms
    BY DEF HistoryInv, Typed, LogGrows
  <2>1. /\ req[d].kind # "none"
        /\ Remembers(d) /\ GoodRows(d) /\ GoodVersion(d) /\ GoodUndo(d) /\ GoodPublish(d)
    BY <1>2 DEF HistoryInv, GoodSession
  <2>2. Remembers(d)'
    <3> SUFFICES ASSUME NEW s \in Strings
                 PROVE  /\ Filled(copy'[d][s])
                        /\ Exists(copy'[d][s]) => Exists(rows'[s])
                        /\ cver'[d][s] <= ver'[s]
                        /\ cver'[d][s] = ver'[s] => copy'[d][s] = rows'[s]
      BY DEF Remembers
    <3>1. /\ Filled(copy[d][s])
          /\ Exists(copy[d][s]) => Exists(rows[s])
          /\ cver[d][s] <= ver[s]
          /\ cver[d][s] = ver[s] => copy[d][s] = rows[s]
      BY <2>1 DEF Remembers
    <3>2. /\ Exists(rows[s]) => Exists(rows'[s])
          /\ \/ ver'[s] = ver[s] /\ rows'[s] = rows[s]
             \/ ver'[s] = ver[s] + 1
      BY DEF RowsMove, Follows
    <3>3. cver[d][s] \in Nat /\ ver[s] \in Nat
      BY <2>0
    <3> QED
      BY <3>1, <3>2, <3>3
  <2>3. GoodRows(d)'
    BY <2>1 DEF GoodRows
  <2>4. GoodVersion(d)'
    <3> SUFFICES ASSUME req[d].kind = "version"
                 PROVE  /\ Len(req[d].strs) = 1 /\ Len(req[d].acts) = 1
                        /\ req[d].acts[1] \in DOMAIN log'
                        /\ log'[req[d].acts[1]].str = req[d].strs[1]
                        /\ IsHistoryRestorable(log'[req[d].acts[1]])
                        /\ Exists(copy[d][req[d].strs[1]])
      BY DEF GoodVersion
    <3> DEFINE i == req[d].acts[1]
    <3>1. /\ Len(req[d].strs) = 1 /\ Len(req[d].acts) = 1
          /\ i \in DOMAIN log
          /\ log[i].str = req[d].strs[1]
          /\ IsHistoryRestorable(log[i])
          /\ Exists(copy[d][req[d].strs[1]])
      BY <2>1 DEF GoodVersion
    <3>2. i \in DOMAIN log' /\ SameEntry(log[i], log'[i])
      BY <2>0, <3>1 DEF LogGrows
    <3>3. IsHistoryRestorable(log'[i])
      BY <3>1, <3>2 DEF IsHistoryRestorable, EventType, SameEntry
    <3> QED
      BY <3>1, <3>2, <3>3 DEF SameEntry
  <2>5. GoodUndo(d)'
    <3> SUFFICES ASSUME IsUndo(req[d])
                 PROVE  LET acts == req[d].acts IN
                        /\ importer' = d /\ publisher' = d
                        /\ req[d].kind = "undo" => Len(acts) = 1
                        /\ \A n \in DOMAIN acts :
                              /\ acts[n] \in DOMAIN log'
                              /\ Exists(copy[d][log'[acts[n]].str])
                              /\ \A o \in DOMAIN acts : acts[o] = acts[n] => o = n
                              /\ req[d].kind = "undo batch" \/ ~req[d].force =>
                                    \A j \in DOMAIN log' : log'[j].revertOf # acts[n]
      BY DEF GoodUndo
    <3>1. /\ importer = d /\ publisher = d
          /\ req[d].kind = "undo" => Len(req[d].acts) = 1
      BY <2>1 DEF GoodUndo
    <3>2. ASSUME NEW n \in DOMAIN req[d].acts
          PROVE  /\ req[d].acts[n] \in DOMAIN log'
                 /\ Exists(copy[d][log'[req[d].acts[n]].str])
                 /\ \A o \in DOMAIN req[d].acts : req[d].acts[o] = req[d].acts[n] => o = n
      <4>1. /\ req[d].acts[n] \in DOMAIN log
            /\ Exists(copy[d][log[req[d].acts[n]].str])
            /\ \A o \in DOMAIN req[d].acts : req[d].acts[o] = req[d].acts[n] => o = n
        BY <2>1 DEF GoodUndo
      <4> QED
        BY <2>0, <4>1 DEF LogGrows, SameEntry
    <3>3. ASSUME NEW n \in DOMAIN req[d].acts, req[d].kind = "undo batch" \/ ~req[d].force,
                 NEW j \in DOMAIN log'
          PROVE  log'[j].revertOf # req[d].acts[n]
      <4>1. \A o \in DOMAIN log : log[o].revertOf # req[d].acts[n]
        BY <2>1, <3>3 DEF GoodUndo
      <4>0. req[d].acts[n] \in DOMAIN log
        BY <2>1 DEF GoodUndo
      <4>2. req[d].acts[n] # 0
        BY <2>0, <4>0
      <4>3. CASE j \in DOMAIN log
        BY <2>0, <4>1, <4>3 DEF LogGrows, SameEntry
      <4>4. CASE j \notin DOMAIN log
        BY <2>0, <3>1, <4>2, <4>4 DEF NewEntries
      <4> QED
        BY <4>3, <4>4
    <3> QED
      BY <3>1, <3>2, <3>3
  <2>6. GoodPublish(d)'
    <3> SUFFICES ASSUME req[d].kind = "publish"
                 PROVE  /\ publisher' = d
                        /\ \A s \in Strings : copy[d][s].pub # None => rows'[s].pub # None
      BY DEF GoodPublish
    <3>1. publisher = d /\ \A s \in Strings : copy[d][s].pub # None => rows[s].pub # None
      BY <2>1 DEF GoodPublish
    <3> QED
      BY <3>1 DEF KeepsPub
  <2> QED
    BY <1>2, <2>1, <2>2, <2>3, <2>4, <2>5, <2>6 DEF GoodSession
<1> QED
  BY <1>1, <1>2

\* A step that is not about sessions, or ends one, keeps the types.
LEMMA OutsideKeeps ==
    ASSUME HistoryInv, RowsMove, LogGrows, GoodLog', UndoneOnce', KeysAlive(rows'),
           ExportStaysUnambiguous', fresh' \in BOOLEAN, pruned' \in 0..Len(log'),
           scene' = scene, sent' \in 0..scene.requests, UNCHANGED <<locks, session>>,
           publisher # None => \A s \in Strings : KeepsPub(rows[s], rows'[s]),
           \A j \in NewEntries : log'[j].revertOf = 0
    PROVE  HistoryInv'
<1>1. Typed'
  BY DEF HistoryInv, Typed, RowsMove, LogGrows, locks, session
<1>2. ASSUME NEW d \in Clients
      PROVE  GoodSession(d)'
  <2>1. d # None
    BY HistoryAssumption
  <2> QED
    BY <2>1, OthersKeep DEF locks, session
<1>3. \A s \in Strings : Filled(rows'[s])
  BY DEF RowsMove, Follows
<1> QED
  BY <1>1, <1>2, <1>3 DEF HistoryInv

LEMMA DoneKeeps ==
    ASSUME HistoryInv, NEW c \in Clients, pc[c] = "read", Done(c),
           RowsMove, LogGrows, GoodLog', UndoneOnce', KeysAlive(rows'),
           ExportStaysUnambiguous', fresh' \in BOOLEAN, pruned' = pruned,
           scene' = scene, sent' = sent,
           publisher = c \/ \A s \in Strings : KeepsPub(rows[s], rows'[s]),
           importer = c \/ \A j \in NewEntries : log'[j].revertOf = 0
    PROVE  HistoryInv'
<1>0. /\ pc \in [Clients -> {"idle", "read"}] /\ req \in [Clients -> RequestForms]
      /\ copy \in [Clients -> [Strings -> Rows]] /\ cver \in [Clients -> [Strings -> Nat]]
      /\ importer \in Clients \cup {None} /\ publisher \in Clients \cup {None}
      /\ log \in Seq(Activities) /\ pruned \in 0..Len(log)
      /\ scene \in Scenes /\ sent \in 0..scene.requests
  BY DEF HistoryInv, Typed
<1>1. Typed'
  <2>1. NoRequest \in RequestForms
    BY DEF NoRequest, RequestForms
  <2>2. NoRows \in [Strings -> Rows]
    BY DEF NoRows, NoRow, Rows
  <2>3. [s \in Strings |-> 0] \in [Strings -> Nat]
    OBVIOUS
  <2>4. /\ pc' \in [Clients -> {"idle", "read"}] /\ req' \in [Clients -> RequestForms]
        /\ copy' \in [Clients -> [Strings -> Rows]] /\ cver' \in [Clients -> [Strings -> Nat]]
        /\ importer' \in Clients \cup {None} /\ publisher' \in Clients \cup {None}
    BY <1>0, <2>1, <2>2, <2>3 DEF Done
  <2>5. pruned' \in 0..Len(log')
    BY <1>0 DEF LogGrows
  <2> QED
    BY <1>0, <2>4, <2>5 DEF Typed, RowsMove, LogGrows
<1>2. ASSUME NEW d \in Clients
      PROVE  GoodSession(d)'
  <2>1. CASE d = c
    BY <1>0, <2>1 DEF Done, GoodSession
  <2>2. CASE d # c
    <3>1. /\ pc'[d] = pc[d] /\ req'[d] = req[d] /\ copy'[d] = copy[d] /\ cver'[d] = cver[d]
          /\ importer = d => importer' = d
          /\ publisher = d => publisher' = d
      BY <1>0, <2>2 DEF Done
    <3> QED
      BY <2>2, <3>1, OthersKeep
  <2> QED
    BY <2>1, <2>2
<1>3. \A s \in Strings : Filled(rows'[s])
  BY DEF RowsMove, Follows
<1> QED
  BY <1>1, <1>2, <1>3 DEF HistoryInv

\* A commit moves the rows that it touches, and no others.
LEMMA StampedMoves ==
    ASSUME HistoryInv, NEW S \in SUBSET Strings, ver' = Stamped(S),
           NEW table \in [Strings -> Rows], rows' = table,
           \A s \in Strings : Follows(rows[s], table[s]),
           \A s \in Strings \ S : table[s] = rows[s]
    PROVE  RowsMove
<1>1. ver \in [Strings -> Nat]
  BY DEF HistoryInv, Typed
<1> QED
  BY <1>1 DEF RowsMove, Stamped

\* A table with other rows for some strings.
LEMMA EntryIsGood ==
    ASSUME NEW s \in Strings, NEW b \in Rows, NEW a \in Rows, NEW batch \in Nat,
           Filled(b), Filled(a), Exists(a)
    PROVE  /\ Entry(s, b, a, batch) \in Activities
           /\ AsRestore(Entry(s, b, a, batch)) \in Activities
           /\ \A table : Exists(table[s]) =>
                 /\ GoodEntry(Entry(s, b, a, batch), table)
                 /\ GoodEntry(AsRestore(Entry(s, b, a, batch)), table)
           /\ Entry(s, b, a, batch).revertOf = 0 /\ Entry(s, b, a, batch).revertedBy = 0
           /\ AsRestore(Entry(s, b, a, batch)).revertOf = 0
           /\ AsRestore(Entry(s, b, a, batch)).revertedBy = 0
<1> DEFINE act == Action(b, a)
<1>1. act \in Actions /\ (act # "create" => Exists(b))
  BY DEF Action, Actions
<1> HIDE DEF act
<1>2. Entry(s, b, a, batch) = [str |-> s, action |-> act, intent |-> "none",
                               before |-> b, after |-> a, batch |-> batch,
                               revertOf |-> 0, revertedBy |-> 0, forced |-> FALSE]
  BY DEF Entry, act
<1>4. Entry(s, b, a, batch) \in Activities
  BY <1>1, <1>2 DEF Activities, Snapshots
<1> DEFINE e == Entry(s, b, a, batch)
<1>5. /\ e.str = s /\ e.action = act /\ e.before = b /\ e.after = a
      /\ e.revertOf = 0 /\ e.revertedBy = 0
  BY <1>2
<1>6. e \in Activities
  BY <1>4
<1> HIDE DEF e
<1> DEFINE q == [e EXCEPT !.intent = "restore"]
<1>7. /\ q \in Activities /\ q.str = e.str /\ q.action = e.action /\ q.before = e.before
      /\ q.after = e.after /\ q.revertOf = e.revertOf /\ q.revertedBy = e.revertedBy
  BY <1>6 DEF Activities
<1>8. q = AsRestore(e)
  BY DEF AsRestore
<1> HIDE DEF q
<1>9. \A table : Exists(table[s]) => GoodEntry(e, table) /\ GoodEntry(q, table)
  BY <1>1, <1>5, <1>7 DEF GoodEntry
<1> QED
  BY <1>5, <1>6, <1>7, <1>8, <1>9 DEF e

\* The entries of a flush.
LEMMA CapturedEntries ==
    ASSUME HistoryInv, NEW before \in [Strings -> Rows], NEW after \in [Strings -> Rows],
           NEW batch \in Nat, NEW entries \in Captured(before, after, batch),
           \A s \in Strings : before[s] # after[s] =>
               Filled(before[s]) /\ Filled(after[s]) /\ Exists(after[s]) /\ Exists(rows'[s])
    PROVE  Plain(entries)
<1> DEFINE changed == {s \in Strings : before[s] # after[s]}
<1>1. IsFiniteSet(changed)
  BY FS_Subset, HistoryAssumption
<1>2. Cardinality(changed) \in Nat
  BY <1>1, FS_CardinalityType
<1>3. PICK order \in SetToSeqs(changed) :
         entries = [n \in DOMAIN order |->
                       Entry(order[n], before[order[n]], after[order[n]], batch)]
  BY DEF Captured
<1>4. order \in [1..Cardinality(changed) -> changed]
  BY DEF SetToSeqs
<1> DEFINE k == Cardinality(changed)
<1>5. k \in Nat /\ DOMAIN order = 1..k /\ \A n \in 1..k : order[n] \in changed
  BY <1>2, <1>4
<1> HIDE DEF k
<1>6. ASSUME NEW n \in 1..k
      PROVE  /\ entries[n] \in Activities /\ entries[n].revertOf = 0
             /\ entries[n].revertedBy = 0 /\ GoodEntry(entries[n], rows')
  <2>1. order[n] \in Strings /\ before[order[n]] # after[order[n]]
    BY <1>5
  <2> DEFINE s == order[n]
  <2>2. /\ before[s] \in Rows /\ after[s] \in Rows
        /\ Filled(before[s]) /\ Filled(after[s]) /\ Exists(after[s]) /\ Exists(rows'[s])
    BY <2>1
  <2>3. entries[n] = Entry(s, before[s], after[s], batch)
    BY <1>3, <1>5
  <2> QED
    BY <2>1, <2>2, <2>3, EntryIsGood
<1>7. DOMAIN entries = 1..k /\ entries = [n \in 1..k |-> entries[n]]
  BY <1>3, <1>5
<1>8. entries \in Seq(Activities)
  BY <1>5, <1>6, <1>7
<1> QED
  BY <1>6, <1>7, <1>8 DEF Plain

\* The batch of a write is named by the position of its first entry.
LEMMA BatchIsNumber == ASSUME HistoryInv PROVE NextBatch \in Nat /\ Len(log) \in Nat
<1>1. log \in Seq(Activities)
  BY DEF HistoryInv, Typed
<1> QED
  BY <1>1 DEF NextBatch

\* A flush that writes whole rows moves the table and adds plain entries.
LEMMA FlushMoves ==
    ASSUME HistoryInv, NEW table \in [Strings -> Rows],
           NEW before \in [Strings -> Rows], NEW after \in [Strings -> Rows],
           NEW batch \in Nat, NEW S \in SUBSET Strings,
           WriteFlushed(table, before, after, batch, S), pruned' = pruned,
           \A s \in Strings : Follows(rows[s], table[s]),
           \A s \in Strings \ S : table[s] = rows[s],
           \A s \in Strings : before[s] # after[s] =>
               Filled(before[s]) /\ Filled(after[s]) /\ Exists(after[s]) /\ Exists(table[s])
    PROVE  RowsMove /\ PlainStep /\ rows' = table /\ KeysAlive(rows')
<1>1. PICK entries \in Captured(before, after, batch) : Write(table, entries, S)
  BY DEF WriteFlushed
<1>2. rows' = table /\ ver' = Stamped(S) /\ log' = log \o entries /\ KeysAlive(table)
  BY <1>1 DEF Write
<1>3. RowsMove
  BY <1>2, StampedMoves
<1>4. Plain(entries)
  BY <1>2, CapturedEntries
<1> QED
  BY <1>2, <1>3, <1>4, PlainEntries

LEMMA EditKeeps ==
    ASSUME HistoryInv, NEW s \in Strings, NEW key \in scene.keys, NEW text \in scene.texts,
           NEW publish \in BOOLEAN, Edit(s, key, text, publish)
    PROVE  HistoryInv'
<1>0. /\ scene \in Scenes /\ rows \in [Strings -> Rows] /\ Filled(rows[s])
      /\ rows[s] \in Rows /\ fresh \in BOOLEAN
      /\ log \in Seq(Activities) /\ pruned \in 0..Len(log) /\ sent \in 0..scene.requests
  BY DEF HistoryInv, Typed
<1>1. key \in Keys /\ text \in Texts /\ scene.requests \in Nat
  BY <1>0, HistoryAssumption
<1>2. PICK w \in {"none", "draft", "public"} :
         w = IF Exists(rows[s]) THEN rows[s].status ELSE "draft"
  BY <1>0, RowFields
<1> DEFINE edited == [rows[s] EXCEPT !.key = key, !.text = text, !.status = w]
           new == IF publish THEN Promoted(edited) ELSE edited
           table == [rows EXCEPT ![s] = new]
<1>3. /\ Send("edit")
      /\ publish => publisher = None /\ KeysPublic(table)
      /\ WriteFlushed(table, rows, table, 0, {s})
      /\ UNCHANGED <<pruned, locks, session, fresh>>
  BY <1>2 DEF Edit
<1>4. /\ Follows(rows[s], new) /\ KeepsPub(rows[s], new) /\ Exists(new)
      /\ ~publish => Quiet(rows[s], new)
  BY <1>0, <1>1, <1>2, EditedRow
<1> HIDE DEF new
<1>5. table \in [Strings -> Rows] /\ table[s] = new
  BY <1>0, <1>4 DEF Follows
<1>6. \A t \in Strings \ {s} : table[t] = rows[t]
  BY <1>0
<1> HIDE DEF table
<1>7. \A t \in Strings : Follows(rows[t], table[t])
  BY <1>0, <1>4, <1>5, <1>6 DEF HistoryInv, Follows
<1>8. \A t \in Strings : rows[t] # table[t] =>
         Filled(rows[t]) /\ Filled(table[t]) /\ Exists(table[t])
  BY <1>0, <1>4, <1>5, <1>6 DEF Follows
<1>9. RowsMove /\ PlainStep /\ rows' = table /\ KeysAlive(rows')
  <2>1. 0 \in Nat /\ {s} \in SUBSET Strings
    OBVIOUS
  <2> QED
    BY <1>0, <1>3, <1>5, <1>6, <1>7, <1>8, <2>1, FlushMoves
<1>10. \A t \in Strings : KeepsPub(rows[t], rows'[t])
  BY <1>4, <1>5, <1>6, <1>9 DEF KeepsPub
<1>11. ExportStaysUnambiguous'
  <2>1. CASE publish
    BY <1>3, <1>9, <2>1 DEF ExportStaysUnambiguous
  <2>2. CASE ~publish
    <3>1. \A t \in Strings : Quiet(rows[t], table[t])
      BY <1>4, <1>5, <1>6, <2>2 DEF Quiet
    <3> QED
      BY <1>3, <1>9, <3>1, QuietTable DEF HistoryInv, ExportStaysUnambiguous
  <2> QED
    BY <2>1, <2>2
<1>12. /\ scene' = scene /\ sent' \in 0..scene.requests /\ fresh' \in BOOLEAN
       /\ pruned' \in 0..Len(log') /\ UNCHANGED <<locks, session>>
  BY <1>0, <1>1, <1>3, <1>9 DEF Send, PlainStep, LogGrows
<1> QED
  BY <1>9, <1>10, <1>11, <1>12, OutsideKeeps DEF PlainStep

LEMMA ImportKeeps ==
    ASSUME HistoryInv, NEW T \in SUBSET Strings, NEW text \in scene.texts,
           NEW newKey \in scene.keys, Import(T, text, newKey)
    PROVE  HistoryInv'
<1>0. /\ scene \in Scenes /\ rows \in [Strings -> Rows] /\ \A s \in Strings : Filled(rows[s])
      /\ fresh \in BOOLEAN
      /\ log \in Seq(Activities) /\ pruned \in 0..Len(log) /\ sent \in 0..scene.requests
  BY DEF HistoryInv, Typed
<1>1. newKey \in Keys /\ text \in Texts /\ scene.requests \in Nat
  BY <1>0, HistoryAssumption
<1> DEFINE new(s) == [rows[s] EXCEPT !.text = text,
                                     !.key = IF Exists(rows[s]) THEN rows[s].key ELSE newKey,
                                     !.status = IF Exists(rows[s]) THEN @ ELSE "draft"]
           table == [s \in Strings |-> IF s \in T THEN new(s) ELSE rows[s]]
<1>2. /\ Send("import")
      /\ WriteFlushed(table, rows, table, NextBatch, T)
      /\ UNCHANGED <<pruned, locks, session, fresh>>
  BY DEF Import
<1>3. ASSUME NEW s \in Strings
      PROVE  /\ Follows(rows[s], new(s)) /\ KeepsPub(rows[s], new(s)) /\ Exists(new(s))
             /\ Quiet(rows[s], new(s))
  <2>1. rows[s] \in Rows /\ Filled(rows[s])
    BY <1>0
  <2>2. PICK w \in {"none", "draft", "public"} :
           w = IF Exists(rows[s]) THEN rows[s].status ELSE "draft"
    BY <2>1, RowFields
  <2>3. PICK x \in Keys : x = IF Exists(rows[s]) THEN rows[s].key ELSE newKey
    BY <1>1, <2>1, RowFields DEF Filled
  <2>4. new(s) = [rows[s] EXCEPT !.key = x, !.text = text, !.status = w]
    BY <2>2, <2>3
  <2> DEFINE r == [rows[s] EXCEPT !.key = x, !.text = text, !.status = w]
  <2>5. Follows(rows[s], r) /\ KeepsPub(rows[s], r) /\ Quiet(rows[s], r) /\ Exists(r)
    BY <1>1, <2>1, <2>2, EditedRow
  <2> HIDE DEF r, new
  <2>6. new(s) = r
    BY <2>4 DEF r
  <2> QED
    BY <2>5, <2>6
<1>4. ASSUME NEW s \in Strings
      PROVE  /\ table[s] \in Rows
             /\ Follows(rows[s], table[s]) /\ KeepsPub(rows[s], table[s])
             /\ Quiet(rows[s], table[s])
             /\ rows[s] # table[s] => Exists(table[s])
             /\ s \notin T => table[s] = rows[s]
  <2>1. CASE s \in T
    <3>1. table[s] = new(s)
      BY <2>1
    <3> HIDE DEF new, table
    <3> QED
      BY <1>3, <2>1, <3>1 DEF Follows
  <2>2. CASE s \notin T
    <3>1. table[s] = rows[s]
      BY <2>2
    <3> HIDE DEF new, table
    <3>2. rows[s] \in Rows /\ Filled(rows[s])
      BY <1>0
    <3> QED
      BY <2>2, <3>1, <3>2 DEF Follows, KeepsPub, Quiet
  <2> QED
    BY <2>1, <2>2
<1>5. table = [s \in Strings |-> table[s]]
  OBVIOUS
<1> HIDE DEF table, new
<1>6. table \in [Strings -> Rows]
  BY <1>4, <1>5
<1>7. RowsMove /\ PlainStep /\ rows' = table /\ KeysAlive(rows')
  <2>1. \A s \in Strings : rows[s] # table[s] =>
           Filled(rows[s]) /\ Filled(table[s]) /\ Exists(table[s])
    BY <1>0, <1>4 DEF Follows
  <2>2. \A s \in Strings \ T : table[s] = rows[s]
    BY <1>4
  <2> QED
    BY <1>0, <1>2, <1>4, <1>6, <2>1, <2>2, FlushMoves, BatchIsNumber
<1>8. ExportStaysUnambiguous'
  BY <1>2, <1>4, <1>7, QuietTable DEF HistoryInv, ExportStaysUnambiguous
<1>9. \A s \in Strings : KeepsPub(rows[s], rows'[s])
  BY <1>4, <1>7
<1>10. /\ scene' = scene /\ sent' \in 0..scene.requests /\ fresh' \in BOOLEAN
       /\ pruned' \in 0..Len(log') /\ UNCHANGED <<locks, session>>
  BY <1>0, <1>1, <1>2, <1>7 DEF Send, PlainStep, LogGrows
<1> QED
  BY <1>7, <1>8, <1>9, <1>10, OutsideKeeps DEF PlainStep

\* A step that writes nothing leaves the table and the log.
LEMMA NothingWritten ==
    ASSUME HistoryInv, rows' = rows, ver' = ver, log' = log
    PROVE  /\ RowsMove /\ LogGrows /\ UndoneOnce' /\ KeysAlive(rows')
           /\ \A s \in Strings : KeepsPub(rows[s], rows'[s])
           /\ NewEntries = {}
<1>1. /\ rows \in [Strings -> Rows] /\ ver \in [Strings -> Nat] /\ log \in Seq(Activities)
      /\ \A s \in Strings : Filled(rows[s])
      /\ UndoneOnce /\ KeysAlive(rows)
  BY DEF HistoryInv, Typed
<1>2. RowsMove
  BY <1>1 DEF RowsMove, Follows
<1>3. LogGrows
  BY <1>1 DEF LogGrows, SameEntry
<1>4. UndoneOnce'
  BY <1>1 DEF UndoneOnce
<1>5. NewEntries = {}
  BY <1>1 DEF NewEntries
<1> QED
  BY <1>1, <1>2, <1>3, <1>4, <1>5 DEF KeepsPub

LEMMA PruneKeeps ==
    ASSUME HistoryInv, Prune
    PROVE  HistoryInv'
<1>1. /\ UNCHANGED <<rows, ver, log, locks, session, fresh>>
      /\ pruned' = pruned + 1 /\ pruned < Len(log) /\ Send("prune")
  BY DEF Prune
<1>2. /\ pruned \in 0..Len(log) /\ log \in Seq(Activities) /\ scene \in Scenes
      /\ sent \in 0..scene.requests /\ fresh \in BOOLEAN
  BY DEF HistoryInv, Typed
<1>3. scene.requests \in Nat
  BY <1>2, HistoryAssumption
<1>4. GoodLog'
  <2> SUFFICES ASSUME NEW i \in DOMAIN log
               PROVE  GoodEntry(log[i], rows) /\ GoodLink(i)'
    BY <1>1 DEF GoodLog
  <2>1. GoodEntry(log[i], rows) /\ GoodLink(i)
    BY DEF HistoryInv, GoodLog
  <2>2. log[i].revertOf \in Nat
    BY <1>2, ActivityFields
  <2>3. log[i].revertOf > pruned + 1 => log[i].revertOf > pruned
    BY <1>2, <2>2
  <2> QED
    BY <1>1, <2>1, <2>3 DEF GoodLink
<1>5. /\ scene' = scene /\ sent' \in 0..scene.requests /\ fresh' \in BOOLEAN
      /\ pruned' \in 0..Len(log')
  BY <1>1, <1>2, <1>3 DEF Send
<1>6. ExportStaysUnambiguous'
  BY <1>1 DEF HistoryInv, ExportStaysUnambiguous
<1> QED
  BY <1>1, <1>4, <1>5, <1>6, NothingWritten, OutsideKeeps

-----------------------------------------------------------------------------
(* What a request may rely on from the start.                              *)

\* An entry that can be undone has no marker.
LEMMA NoMarkerYet ==
    ASSUME HistoryInv, NEW i, Revertible(i)
    PROVE  /\ i \in DOMAIN log /\ i # 0
           /\ \A j \in DOMAIN log : log[j].revertOf # i
<1>1. /\ log \in Seq(Activities) /\ DOMAIN log = 1..Len(log) /\ Len(log) \in Nat
      /\ pruned \in 0..Len(log)
  BY DEF HistoryInv, Typed
<1>2. i \in pruned + 1..Len(log) /\ log[i].revertedBy = 0
  BY DEF Revertible, Live
<1>3. i \in DOMAIN log /\ i # 0 /\ i > pruned
  BY <1>1, <1>2
<1>4. \A j \in DOMAIN log : log[j].revertOf = i => log[i].revertedBy # 0
  BY <1>3 DEF HistoryInv, GoodLog, GoodLink
<1> QED
  BY <1>2, <1>3, <1>4

\* A set of entries, from the newest to the oldest.
LEMMA NewestFirstLists ==
    ASSUME NEW k \in Nat, NEW S \in SUBSET (1..k), NEW acts \in NewestFirst(S)
    PROVE  /\ acts \in Seq(Nat)
           /\ \A n \in DOMAIN acts : acts[n] \in S
           /\ \A n, o \in DOMAIN acts : acts[o] = acts[n] => o = n
<1>1. IsFiniteSet(1..k)
  BY FS_Interval
<1>2. IsFiniteSet(S)
  BY <1>1, FS_Subset
<1>3. Cardinality(S) \in Nat
  BY <1>2, FS_CardinalityType
<1>4. /\ acts \in [1..Cardinality(S) -> S]
      /\ \A m, n \in 1..Cardinality(S) : m # n => acts[m] # acts[n]
  BY DEF NewestFirst, SetToSeqs
<1> DEFINE size == Cardinality(S)
<1>5. /\ size \in Nat /\ acts \in [1..size -> S]
      /\ \A m, n \in 1..size : m # n => acts[m] # acts[n]
  BY <1>3, <1>4
<1> HIDE DEF size
<1>6. S \subseteq Nat
  OBVIOUS
<1>7. acts \in [1..size -> Nat]
  BY <1>5, <1>6
<1> QED
  BY <1>5, <1>7

\* Strings in some order.
LEMMA OrdersList ==
    ASSUME NEW order \in Orders, HistoryAssumption
    PROVE  order \in Seq(Strings)
<1>1. PICK S \in SUBSET Strings : order \in SetToSeqs(S)
  BY DEF Orders, SetToAllKPermutations
<1>2. Cardinality(S) \in Nat
  BY FS_Subset, FS_CardinalityType, HistoryAssumption
<1>3. order \in [1..Cardinality(S) -> S]
  BY <1>1 DEF SetToSeqs
<1> DEFINE size == Cardinality(S)
<1>4. size \in Nat /\ order \in [1..size -> S]
  BY <1>2, <1>3
<1> HIDE DEF size
<1>5. order \in [1..size -> Strings]
  BY <1>4
<1> QED
  BY <1>4, <1>5

\* What the requests that exist in a state are about.
Wellformed(q) ==
    /\ q \in RequestForms /\ q.kind # "none"
    /\ q.kind \in RowKinds => Len(q.strs) = 1
    /\ q.kind = "version" =>
          /\ Len(q.strs) = 1 /\ Len(q.acts) = 1
          /\ q.acts[1] \in Live /\ q.strs[1] = log[q.acts[1]].str
    /\ q.kind = "undo" => Len(q.acts) = 1 /\ q.acts[1] \in Live
    /\ q.kind = "undo batch" =>
          /\ \A n \in DOMAIN q.acts : q.acts[n] \in Live /\ Revertible(q.acts[n])
          /\ \A n, o \in DOMAIN q.acts : q.acts[o] = q.acts[n] => o = n

LEMMA OfferedForms ==
    ASSUME HistoryInv, NEW q \in Offered
    PROVE  Wellformed(q)
<1>0. /\ log \in Seq(Activities) /\ DOMAIN log = 1..Len(log) /\ Len(log) \in Nat
      /\ pruned \in 0..Len(log)
  BY DEF HistoryInv, Typed
<1>1. Live \subseteq 1..Len(log) /\ \A i \in Live : log[i].str \in Strings
  <2>1. Live \subseteq 1..Len(log)
    BY <1>0 DEF Live
  <2> QED
    BY <1>0, <2>1, ActivityFields
<1>3. CASE q \in [kind: RowKinds, strs: {<<s>> : s \in Strings}, acts: {<<>>}, force: {FALSE}]
  <2>1. PICK s \in Strings : q.strs = <<s>>
    BY <1>3
  <2>2. q.kind \in RequestKinds /\ q.kind \notin {"none", "version", "undo", "undo batch"}
    BY <1>3 DEF RowKinds, RequestKinds
  <2>3. <<s>> \in Seq(Strings) /\ <<>> \in Seq(Nat) /\ Len(<<s>>) = 1
    OBVIOUS
  <2>4. q \in RequestForms
    BY <1>3, <2>1, <2>2, <2>3 DEF RequestForms
  <2> QED
    BY <2>1, <2>2, <2>3, <2>4 DEF Wellformed
<1>4. CASE q \in [kind: {"last"}, strs: Orders, acts: {<<>>}, force: {FALSE}]
  <2>1. /\ q.strs \in Seq(Strings) /\ <<>> \in Seq(Nat) /\ "last" \in RequestKinds
        /\ q.kind = "last"
    BY <1>4, OrdersList, HistoryAssumption DEF RequestKinds
  <2>2. q \in RequestForms
    BY <1>4, <2>1 DEF RequestForms
  <2> QED
    BY <2>1, <2>2 DEF Wellformed, RowKinds
<1>5. CASE q \in {[kind |-> "version", strs |-> <<log[i].str>>, acts |-> <<i>>,
                   force |-> FALSE] : i \in Live}
  <2>1. PICK i \in Live :
           q = [kind |-> "version", strs |-> <<log[i].str>>, acts |-> <<i>>, force |-> FALSE]
    BY <1>5
  <2> DEFINE s == log[i].str
  <2>2. s \in Strings /\ i \in Nat
    BY <1>0, <1>1
  <2>3. q = [kind |-> "version", strs |-> <<s>>, acts |-> <<i>>, force |-> FALSE]
    BY <2>1
  <2> HIDE DEF s
  <2>4. /\ <<s>> \in Seq(Strings) /\ <<i>> \in Seq(Nat) /\ Len(<<s>>) = 1 /\ Len(<<i>>) = 1
        /\ <<s>>[1] = s /\ <<i>>[1] = i /\ "version" \in RequestKinds
    BY <2>2 DEF RequestKinds
  <2>5. q.kind = "version" /\ q.strs = <<s>> /\ q.acts = <<i>>
    BY <2>3
  <2>6. q \in RequestForms
    BY <2>3, <2>4 DEF RequestForms
  <2> QED
    BY <2>4, <2>5, <2>6 DEF Wellformed, RowKinds, s
<1>6. CASE q \in [kind: {"undo"}, strs: {<<>>}, acts: {<<i>> : i \in Live}, force: BOOLEAN]
  <2>1. PICK i \in Live : q.acts = <<i>>
    BY <1>6
  <2>2. i \in Nat
    BY <1>0, <1>1
  <2>3. /\ <<>> \in Seq(Strings) /\ <<i>> \in Seq(Nat) /\ Len(<<i>>) = 1
        /\ <<i>>[1] = i /\ "undo" \in RequestKinds
    BY <2>2 DEF RequestKinds
  <2>4. q.kind = "undo" /\ q \in RequestForms
    BY <1>6, <2>1, <2>3 DEF RequestForms
  <2> QED
    BY <2>1, <2>3, <2>4 DEF Wellformed, RowKinds
<1>7. CASE q \in [kind: {"undo batch"}, strs: {<<>>},
                  acts: UNION {BatchActs(b) : b \in Batches}, force: BOOLEAN]
  <2>1. PICK b : q.acts \in BatchActs(b)
    BY <1>7
  <2> DEFINE acts == q.acts
             S == {i \in Live : log[i].batch = b /\ Revertible(i)}
  <2>2. S \in SUBSET (1..Len(log)) /\ acts \in NewestFirst(S)
    BY <1>1, <2>1 DEF BatchActs
  <2> HIDE DEF acts
  <2>3. /\ acts \in Seq(Nat)
        /\ \A n \in DOMAIN acts : acts[n] \in S
        /\ \A n, o \in DOMAIN acts : acts[o] = acts[n] => o = n
    BY <1>0, <2>2, NewestFirstLists
  <2>4. \A n \in DOMAIN acts : acts[n] \in Live /\ Revertible(acts[n])
    BY <2>3
  <2> HIDE DEF S
  <2>5. <<>> \in Seq(Strings) /\ "undo batch" \in RequestKinds
    BY DEF RequestKinds
  <2>6. q.kind = "undo batch" /\ q.acts = acts /\ q \in RequestForms
    BY <1>7, <2>3, <2>5 DEF RequestForms, acts
  <2> QED
    BY <2>3, <2>4, <2>6 DEF Wellformed, RowKinds
<1> QED
  BY <1>3, <1>4, <1>5, <1>6, <1>7 DEF Offered

LEMMA BeginKeeps ==
    ASSUME HistoryInv, NEW c \in Clients, NEW q \in Offered, Begin(c, q)
    PROVE  HistoryInv'
<1>0. /\ pc \in [Clients -> {"idle", "read"}] /\ req \in [Clients -> RequestForms]
      /\ copy \in [Clients -> [Strings -> Rows]] /\ cver \in [Clients -> [Strings -> Nat]]
      /\ importer \in Clients \cup {None} /\ publisher \in Clients \cup {None}
      /\ rows \in [Strings -> Rows] /\ ver \in [Strings -> Nat]
      /\ log \in Seq(Activities) /\ DOMAIN log = 1..Len(log) /\ Len(log) \in Nat
      /\ pruned \in 0..Len(log)
      /\ scene \in Scenes /\ sent \in 0..scene.requests /\ fresh \in BOOLEAN
  BY DEF HistoryInv, Typed
<1>1. /\ pc[c] = "idle" /\ Send(q.kind) /\ Sensible(q)
      /\ pc' = [pc EXCEPT ![c] = "read"] /\ req' = [req EXCEPT ![c] = q]
      /\ copy' = [copy EXCEPT ![c] = rows] /\ cver' = [cver EXCEPT ![c] = ver]
      /\ UNCHANGED <<rows, ver, log, pruned, fresh>>
  BY DEF Begin
<1>2. /\ IsUndo(q) => importer = None /\ importer' = c
      /\ ~IsUndo(q) => importer' = importer
      /\ TakesPublication(q) => publisher = None /\ publisher' = c
      /\ ~TakesPublication(q) => publisher' = publisher
  BY DEF Begin
<1>3. Wellformed(q)
  BY OfferedForms
<1>4. c # None /\ scene.requests \in Nat
  BY <1>0, HistoryAssumption
<1>5. Typed'
  <2>1. /\ pc' \in [Clients -> {"idle", "read"}] /\ req' \in [Clients -> RequestForms]
        /\ copy' \in [Clients -> [Strings -> Rows]] /\ cver' \in [Clients -> [Strings -> Nat]]
    BY <1>0, <1>1, <1>3 DEF Wellformed
  <2>2. importer' \in Clients \cup {None} /\ publisher' \in Clients \cup {None}
    BY <1>0, <1>2
  <2>3. scene' \in Scenes /\ sent' \in 0..scene'.requests
    BY <1>0, <1>1, <1>4 DEF Send
  <2> QED
    BY <1>0, <1>1, <2>1, <2>2, <2>3 DEF Typed
<1>6. GoodLog'
  BY <1>1 DEF HistoryInv, GoodLog, GoodLink
<1>7. ASSUME NEW d \in Clients, d # c
      PROVE  GoodSession(d)'
  <2>1. /\ pc'[d] = pc[d] /\ req'[d] = req[d] /\ copy'[d] = copy[d] /\ cver'[d] = cver[d]
    BY <1>0, <1>1, <1>7
  <2>2. d # None
    BY HistoryAssumption
  <2>3. /\ importer = d => importer' = d
        /\ publisher = d => publisher' = d
    BY <1>2, <2>2
  <2> QED
    BY <1>1, <2>1, <2>3, NothingWritten, OthersKeep
<1>8. GoodSession(c)'
  <2>1. pc'[c] = "read" /\ req'[c] = q /\ copy'[c] = rows /\ cver'[c] = ver
    BY <1>0, <1>1
  <2>2. Remembers(c)'
    BY <1>0, <1>1, <2>1 DEF Remembers, HistoryInv
  <2>3. GoodRows(c)'
    BY <1>3, <2>1 DEF Wellformed, GoodRows
  <2>4. Live \subseteq 1..Len(log)
    BY <1>0 DEF Live
  <2>5. \A i \in Live : Exists(rows[log[i].str])
    BY <1>0, <2>4 DEF HistoryInv, GoodLog, GoodEntry
  <2>6. GoodVersion(c)'
    <3> SUFFICES ASSUME q.kind = "version"
                 PROVE  /\ Len(q.strs) = 1 /\ Len(q.acts) = 1
                        /\ q.acts[1] \in DOMAIN log
                        /\ log[q.acts[1]].str = q.strs[1]
                        /\ IsHistoryRestorable(log[q.acts[1]])
                        /\ Exists(rows[q.strs[1]])
      BY <1>1, <2>1 DEF GoodVersion, IsHistoryRestorable, EventType
    <3>1. IsHistoryRestorable(log[q.acts[1]])
      BY <1>1 DEF Sensible
    <3> QED
      BY <1>0, <1>3, <2>4, <2>5, <3>1 DEF Wellformed
  <2>7. GoodUndo(c)'
    <3> SUFFICES ASSUME IsUndo(q)
                 PROVE  /\ importer' = c /\ publisher' = c
                        /\ q.kind = "undo" => Len(q.acts) = 1
                        /\ \A n \in DOMAIN q.acts :
                              /\ q.acts[n] \in DOMAIN log
                              /\ Exists(rows[log[q.acts[n]].str])
                              /\ \A o \in DOMAIN q.acts : q.acts[o] = q.acts[n] => o = n
                              /\ q.kind = "undo batch" \/ ~q.force =>
                                    \A j \in DOMAIN log : log[j].revertOf # q.acts[n]
      BY <1>1, <2>1 DEF GoodUndo
    <3>1. importer' = c /\ publisher' = c
      BY <1>2 DEF TakesPublication
    <3>2. ASSUME NEW n \in DOMAIN q.acts
          PROVE  /\ q.acts[n] \in Live
                 /\ \A o \in DOMAIN q.acts : q.acts[o] = q.acts[n] => o = n
                 /\ q.kind = "undo batch" \/ ~q.force => Revertible(q.acts[n])
      <4>1. CASE q.kind = "undo"
        <5>1. q.acts \in Seq(Nat) /\ Len(q.acts) = 1 /\ q.acts[1] \in Live
          BY <1>3, <4>1 DEF Wellformed, RequestForms
        <5>2. DOMAIN q.acts = {1}
          BY <5>1
        <5>3. Revertible(q.acts[1]) \/ q.force
          BY <1>1, <4>1 DEF Sensible
        <5> QED
          BY <4>1, <5>1, <5>2, <5>3
      <4>2. CASE q.kind = "undo batch"
        BY <1>3, <4>2 DEF Wellformed
      <4> QED
        BY <4>1, <4>2 DEF IsUndo
    <3> QED
      BY <1>0, <1>3, <2>4, <2>5, <3>1, <3>2, NoMarkerYet DEF Wellformed
  <2>8. GoodPublish(c)'
    <3>1. q.kind = "publish" => publisher' = c
      BY <1>2 DEF TakesPublication
    <3> QED
      BY <1>1, <2>1, <3>1 DEF GoodPublish
  <2>9. q.kind # "none"
    BY <1>3 DEF Wellformed
  <2> QED
    BY <2>1, <2>2, <2>3, <2>6, <2>7, <2>8, <2>9 DEF GoodSession
<1>9. ExportStaysUnambiguous'
  BY <1>1 DEF HistoryInv, ExportStaysUnambiguous
<1> QED
  BY <1>1, <1>5, <1>6, <1>7, <1>8, <1>9, NothingWritten DEF HistoryInv

\* Giving up leaves everything but the session.
LEMMA GiveUpKeeps ==
    ASSUME HistoryInv, NEW c \in Clients, GiveUp(c)
    PROVE  HistoryInv'
<1>1. /\ pc[c] = "read" /\ Done(c) /\ UNCHANGED <<rows, ver, log, pruned, scene, sent, fresh>>
  BY DEF GiveUp
<1>2. GoodLog' /\ ExportStaysUnambiguous' /\ fresh' \in BOOLEAN
  BY <1>1 DEF HistoryInv, Typed, GoodLog, GoodLink, ExportStaysUnambiguous
<1> QED
  BY <1>1, <1>2, NothingWritten, DoneKeeps

-----------------------------------------------------------------------------
(* The writes of a session.                                                *)

\* What a session that has read relies on, and the types of what it uses.
LEMMA SessionFacts ==
    ASSUME HistoryInv, NEW c \in Clients, pc[c] = "read"
    PROVE  /\ req[c] \in RequestForms /\ copy[c] \in [Strings -> Rows]
           /\ cver[c] \in [Strings -> Nat] /\ req[c].strs \in Seq(Strings)
           /\ req[c].acts \in Seq(Nat) /\ req[c].force \in BOOLEAN
           /\ rows \in [Strings -> Rows] /\ ver \in [Strings -> Nat]
           /\ log \in Seq(Activities) /\ DOMAIN log = 1..Len(log) /\ Len(log) \in Nat
           /\ pruned \in 0..Len(log) /\ fresh \in BOOLEAN
           /\ \A s \in Strings : rows[s] \in Rows /\ Filled(rows[s])
           /\ \A s \in Strings : copy[c][s] \in Rows /\ Filled(copy[c][s])
           /\ \A s \in Strings : Exists(copy[c][s]) => Exists(rows[s])
           /\ \A s \in Strings : cver[c][s] = ver[s] => copy[c][s] = rows[s]
           /\ GoodRows(c) /\ GoodVersion(c) /\ GoodUndo(c) /\ GoodPublish(c)
<1>1. /\ req[c] \in RequestForms /\ copy[c] \in [Strings -> Rows]
      /\ cver[c] \in [Strings -> Nat]
      /\ rows \in [Strings -> Rows] /\ ver \in [Strings -> Nat]
      /\ log \in Seq(Activities) /\ pruned \in 0..Len(log) /\ fresh \in BOOLEAN
  BY DEF HistoryInv, Typed
<1>2. Remembers(c) /\ GoodRows(c) /\ GoodVersion(c) /\ GoodUndo(c) /\ GoodPublish(c)
  BY DEF HistoryInv, GoodSession
<1>3. /\ req[c].strs \in Seq(Strings) /\ req[c].acts \in Seq(Nat) /\ req[c].force \in BOOLEAN
  BY <1>1 DEF RequestForms
<1> QED
  BY <1>1, <1>2, <1>3 DEF HistoryInv, Remembers

LEMMA MergedFields ==
    ASSUME HistoryInv, NEW c \in Clients, pc[c] = "read", NEW after \in [Strings -> Rows]
    PROVE  /\ Merged(c, after) \in [Strings -> Rows]
           /\ \A s \in Strings :
                 /\ Merged(c, after)[s] = Changed(copy[c][s], after[s], rows[s])
                 /\ after[s] = copy[c][s] => Merged(c, after)[s] = rows[s]
<1>1. ASSUME NEW s \in Strings
      PROVE  /\ Changed(copy[c][s], after[s], rows[s]) \in Rows
             /\ after[s] = copy[c][s] => Changed(copy[c][s], after[s], rows[s]) = rows[s]
  <2>1. copy[c][s] \in Rows /\ rows[s] \in Rows /\ after[s] \in Rows
    BY SessionFacts
  <2> QED
    BY <2>1, ChangedFields, ChangedNothing
<1> QED
  BY <1>1 DEF Merged

\* What the handlers of the grid leave of a row, over what others have made of it.
LEMMA HandledRow ==
    ASSUME NEW kind \in RowKinds, NEW b \in Rows, NEW n \in Rows, Filled(b), Filled(n),
           Exists(b), Exists(n), kind = "publish" => KeepsPub(b, n)
    PROVE  LET a == Handled(kind, b)
           IN  /\ a \in Rows /\ Filled(a) /\ Exists(a)
               /\ Follows(n, Changed(b, a, n)) /\ KeepsPub(n, Changed(b, a, n))
               /\ kind # "publish" /\ (kind = "restore" => b = n) => Quiet(n, Changed(b, a, n))
<1>1. CASE kind = "publish"
  BY <1>1, PublishedHandled
<1>2. CASE kind = "restore"
  <2>1. Handled(kind, b) = Restored(b)
    BY <1>2 DEF Handled
  <2> QED
    BY <1>2, <2>1, RestoredRow
<1>3. CASE kind = "delete"
  <2>1. Handled(kind, b) = QueuedOrDeleted(b)
    BY <1>3 DEF Handled
  <2>2. Tame(b, QueuedOrDeleted(b))
    BY TameHandlers
  <2> QED
    BY <1>3, <2>1, <2>2, TameChange DEF Tame
<1>4. CASE kind = "discard"
  <2>1. Handled(kind, b) = Discarded(b)
    BY <1>4 DEF Handled
  <2>2. Tame(b, Discarded(b))
    BY TameHandlers
  <2> QED
    BY <1>4, <2>1, <2>2, TameChange DEF Tame
<1> QED
  BY <1>1, <1>2, <1>3, <1>4 DEF RowKinds

\* What every write that undoes nothing leaves.
WriteKeeps ==
    /\ RowsMove /\ PlainStep /\ KeysAlive(rows') /\ ExportStaysUnambiguous'
    /\ \A s \in Strings : KeepsPub(rows[s], rows'[s])

\* The history variable of a request that finishes.
FreshStep(c) ==
    fresh' = (fresh /\ (req[c].kind = "restore" =>
                          LET s == req[c].strs[1] IN copy[c][s] = rows[s]))

LEMMA RowActionKeeps ==
    ASSUME HistoryInv, NEW c \in Clients, pc[c] = "read", RowAction(c), FreshStep(c),
           pruned' = pruned
    PROVE  WriteKeeps
<1> DEFINE s == req[c].strs[1]
           a == Handled(req[c].kind, copy[c][s])
           after == [copy[c] EXCEPT ![s] = a]
           table == Merged(c, after)
<1>1. /\ req[c].kind \in RowKinds /\ Exists(copy[c][s])
      /\ req[c].kind = "publish" => KeysPublic(table)
      /\ WriteFlushed(table, copy[c], after, NextBatch, IF after = copy[c] THEN {} ELSE {s})
  BY DEF RowAction
<1>2. s \in Strings
  <2>1. req[c].strs \in Seq(Strings) /\ Len(req[c].strs) = 1
    BY <1>1, SessionFacts DEF GoodRows
  <2> QED
    BY <2>1
<1>3. /\ copy[c] \in [Strings -> Rows] /\ rows \in [Strings -> Rows]
      /\ copy[c][s] \in Rows /\ rows[s] \in Rows /\ Filled(copy[c][s]) /\ Filled(rows[s])
      /\ Exists(rows[s])
      /\ req[c].kind = "publish" => KeepsPub(copy[c][s], rows[s])
  <2>1. /\ copy[c] \in [Strings -> Rows] /\ rows \in [Strings -> Rows]
        /\ copy[c][s] \in Rows /\ rows[s] \in Rows /\ Filled(copy[c][s]) /\ Filled(rows[s])
        /\ Exists(rows[s])
    BY <1>1, <1>2, SessionFacts
  <2>2. req[c].kind = "publish" => KeepsPub(copy[c][s], rows[s])
    BY <1>2, SessionFacts DEF GoodPublish, KeepsPub
  <2> QED
    BY <2>1, <2>2
<1> DEFINE new == Changed(copy[c][s], a, rows[s])
<1>4. /\ a \in Rows /\ Filled(a) /\ Exists(a)
      /\ Follows(rows[s], new) /\ KeepsPub(rows[s], new)
      /\ req[c].kind # "publish" /\ (req[c].kind = "restore" => copy[c][s] = rows[s])
            => Quiet(rows[s], new)
  BY <1>1, <1>3, HandledRow
<1> HIDE DEF a
<1>5. /\ after \in [Strings -> Rows] /\ after[s] = a
      /\ \A t \in Strings \ {s} : after[t] = copy[c][t]
  BY <1>2, <1>3, <1>4
<1>6. /\ table \in [Strings -> Rows] /\ table[s] = new
      /\ \A t \in Strings : after[t] = copy[c][t] => table[t] = rows[t]
  BY <1>2, <1>5, MergedFields
<1> DEFINE S == IF after = copy[c] THEN {} ELSE {s}
<1>7. S \in SUBSET Strings /\ \A t \in Strings \ S : table[t] = rows[t]
  <2>1. CASE after = copy[c]
    BY <1>6, <2>1
  <2>2. CASE after # copy[c]
    BY <1>2, <1>5, <1>6, <2>2
  <2> QED
    BY <2>1, <2>2
<1>8. WriteFlushed(table, copy[c], after, NextBatch, S)
  BY <1>1
<1> HIDE DEF S, table, after, new
<1>9. \A t \in Strings : Follows(rows[t], table[t])
  <2> TAKE t \in Strings
  <2>1. CASE t = s
    BY <1>4, <1>6, <2>1
  <2>2. CASE t # s
    <3>1. table[t] = rows[t] /\ rows[t] \in Rows /\ Filled(rows[t])
      BY <1>5, <1>6, <2>2, SessionFacts
    <3> QED
      BY <3>1 DEF Follows
  <2> QED
    BY <2>1, <2>2
<1>10. \A t \in Strings : copy[c][t] # after[t] =>
          Filled(copy[c][t]) /\ Filled(after[t]) /\ Exists(after[t]) /\ Exists(table[t])
  <2> TAKE t \in Strings
  <2>1. CASE t = s
    BY <1>3, <1>4, <1>5, <1>6, <2>1 DEF Follows
  <2>2. CASE t # s
    BY <1>5, <2>2
  <2> QED
    BY <2>1, <2>2
<1>11. RowsMove /\ PlainStep /\ rows' = table /\ KeysAlive(rows')
  BY <1>3, <1>5, <1>6, <1>7, <1>8, <1>9, <1>10, FlushMoves, BatchIsNumber
<1>12. \A t \in Strings : KeepsPub(rows[t], table[t])
  BY <1>4, <1>5, <1>6 DEF KeepsPub
<1>13. ExportStaysUnambiguous'
  <2>1. CASE req[c].kind = "publish"
    BY <1>1, <1>11, <2>1 DEF ExportStaysUnambiguous
  <2>2. CASE req[c].kind # "publish"
    <3> SUFFICES ASSUME fresh' PROVE KeysPublic(rows')
      BY DEF ExportStaysUnambiguous
    <3>1. fresh /\ (req[c].kind = "restore" => copy[c][s] = rows[s])
      BY DEF FreshStep
    <3>2. \A t \in Strings : Quiet(rows[t], table[t])
      BY <1>4, <1>5, <1>6, <2>2, <3>1 DEF Quiet
    <3> QED
      BY <1>11, <3>1, <3>2, QuietTable DEF HistoryInv, ExportStaysUnambiguous
  <2> QED
    BY <2>1, <2>2
<1> QED
  BY <1>11, <1>12, <1>13 DEF WriteKeeps

\* Writes of tame rows, whatever others have made of them.
LEMMA TameWrite ==
    ASSUME HistoryInv, NEW c \in Clients, pc[c] = "read", req[c].kind # "restore",
           FreshStep(c), pruned' = pruned,
           NEW after \in [Strings -> Rows], NEW entries, NEW S \in SUBSET Strings,
           Write(Merged(c, after), entries, S),
           \A s \in Strings \ S : after[s] = copy[c][s],
           \A s \in S : Exists(copy[c][s]) /\ Tame(copy[c][s], after[s]),
           entries \in Seq(Activities),
           \A n \in DOMAIN entries :
               /\ entries[n].revertOf = 0 /\ entries[n].revertedBy = 0
               /\ entries[n].str \in Strings /\ Exists(copy[c][entries[n].str])
               /\ Filled(entries[n].before) /\ Filled(entries[n].after)
               /\ Exists(entries[n].after) /\ Exists(entries[n].before)
    PROVE  WriteKeeps
<1> DEFINE table == Merged(c, after)
<1>1. /\ rows' = table /\ ver' = Stamped(S) /\ log' = log \o entries /\ KeysAlive(table)
  BY DEF Write
<1>2. /\ table \in [Strings -> Rows]
      /\ \A s \in Strings : /\ table[s] = Changed(copy[c][s], after[s], rows[s])
                            /\ after[s] = copy[c][s] => table[s] = rows[s]
  BY MergedFields
<1> HIDE DEF table
<1>3. ASSUME NEW s \in Strings
      PROVE  /\ Follows(rows[s], table[s]) /\ KeepsPub(rows[s], table[s])
             /\ Quiet(rows[s], table[s])
  <2>1. /\ copy[c][s] \in Rows /\ rows[s] \in Rows /\ after[s] \in Rows
        /\ Filled(copy[c][s]) /\ Filled(rows[s])
        /\ Exists(copy[c][s]) => Exists(rows[s])
    BY SessionFacts
  <2>2. CASE s \in S
    <3>1. Exists(copy[c][s]) /\ Tame(copy[c][s], after[s])
      BY <2>2
    <3> QED
      BY <1>2, <2>1, <3>1, TameChange
  <2>3. CASE s \notin S
    <3>1. table[s] = rows[s]
      BY <1>2, <2>3
    <3> QED
      BY <2>1, <3>1 DEF Follows, KeepsPub, Quiet
  <2> QED
    BY <2>2, <2>3
<1>4. \A s \in Strings \ S : table[s] = rows[s]
  BY <1>2
<1>5. RowsMove
  BY <1>1, <1>2, <1>3, <1>4, StampedMoves
<1>6. Plain(entries)
  <2>1. ASSUME NEW n \in DOMAIN entries
        PROVE  GoodEntry(entries[n], rows')
    <3>1. Exists(rows[entries[n].str]) /\ entries[n].str \in Strings
      BY SessionFacts
    <3>2. Exists(rows'[entries[n].str])
      BY <1>5, <3>1 DEF RowsMove, Follows
    <3> QED
      BY <3>2 DEF GoodEntry
  <2> QED
    BY <2>1 DEF Plain
<1>7. PlainStep
  BY <1>1, <1>5, <1>6, PlainEntries
<1>8. ExportStaysUnambiguous'
  <2> SUFFICES ASSUME fresh' PROVE KeysPublic(rows')
    BY DEF ExportStaysUnambiguous
  <2>1. fresh
    BY DEF FreshStep
  <2> QED
    BY <1>1, <1>3, <2>1, QuietTable DEF HistoryInv, ExportStaysUnambiguous
<1> QED
  BY <1>1, <1>3, <1>5, <1>7, <1>8 DEF WriteKeeps

LEMMA RestoreVersionKeeps ==
    ASSUME HistoryInv, NEW c \in Clients, pc[c] = "read", RestoreVersion(c), FreshStep(c),
           pruned' = pruned
    PROVE  WriteKeeps
<1> DEFINE s == req[c].strs[1]
           i == req[c].acts[1]
           b == copy[c][s]
           a == VersionTarget(c)
           entry == AsRestore(Entry(s, b, a, 0))
<1>1. /\ req[c].kind = "version"
      /\ Write(Merged(c, WithVersion(c)), <<entry>>, {s})
  BY DEF RestoreVersion
<1>2. s \in Strings /\ i \in DOMAIN log /\ log[i].str = s /\ Exists(b)
  <2>1. req[c].strs \in Seq(Strings) /\ Len(req[c].strs) = 1
    BY <1>1, SessionFacts DEF GoodVersion
  <2>2. i \in DOMAIN log /\ log[i].str = s /\ Exists(b)
    BY <1>1, SessionFacts DEF GoodVersion
  <2> QED
    BY <2>1, <2>2
<1>3. b \in Rows /\ Filled(b) /\ copy[c] \in [Strings -> Rows]
  BY <1>2, SessionFacts
<1>4. log[i].after \in Rows /\ Filled(log[i].after) /\ Exists(log[i].after)
  <2>1. GoodEntry(log[i], rows) /\ log[i] \in Activities
    BY <1>2, SessionFacts DEF HistoryInv, GoodLog
  <2> QED
    BY <2>1, ActivityFields DEF GoodEntry
<1>5. Tame(b, a)
  BY <1>2, <1>3, <1>4, TameHandlers DEF VersionTarget
<1>6. a \in Rows /\ Filled(a) /\ Exists(a)
  BY <1>2, <1>5 DEF Tame
<1>7. WithVersion(c) = [copy[c] EXCEPT ![s] = a]
  BY DEF WithVersion
<1> HIDE DEF a
<1>8. /\ WithVersion(c) \in [Strings -> Rows] /\ WithVersion(c)[s] = a
      /\ \A t \in Strings \ {s} : WithVersion(c)[t] = copy[c][t]
  BY <1>2, <1>3, <1>6, <1>7
<1>9. /\ entry \in Activities /\ entry.revertOf = 0 /\ entry.revertedBy = 0
      /\ entry.str = s /\ entry.before = b /\ entry.after = a
  <2>1. 0 \in Nat
    OBVIOUS
  <2>2. /\ entry \in Activities /\ entry.revertOf = 0 /\ entry.revertedBy = 0
    BY <1>2, <1>3, <1>6, <2>1, EntryIsGood
  <2>3. Entry(s, b, a, 0) \in Activities
    BY <1>2, <1>3, <1>6, <2>1, EntryIsGood
  <2>4. Entry(s, b, a, 0).str = s /\ Entry(s, b, a, 0).before = b /\ Entry(s, b, a, 0).after = a
    BY DEF Entry
  <2>5. \A e \in Activities : /\ AsRestore(e).str = e.str /\ AsRestore(e).before = e.before
                              /\ AsRestore(e).after = e.after
    BY DEF AsRestore, Activities
  <2> QED
    BY <2>2, <2>3, <2>4, <2>5
<1> HIDE DEF entry
<1>10. /\ <<entry>> \in Seq(Activities) /\ DOMAIN <<entry>> = {1} /\ <<entry>>[1] = entry
  BY <1>9
<1> DEFINE entries == <<entry>>
<1>11. /\ entries \in Seq(Activities)
       /\ \A n \in DOMAIN entries : entries[n] = entry
       /\ Write(Merged(c, WithVersion(c)), entries, {s})
  BY <1>1, <1>10
<1> HIDE DEF entries
<1>12. \A n \in DOMAIN entries :
           /\ entries[n].revertOf = 0 /\ entries[n].revertedBy = 0
           /\ entries[n].str \in Strings /\ Exists(copy[c][entries[n].str])
           /\ Filled(entries[n].before) /\ Filled(entries[n].after)
           /\ Exists(entries[n].after) /\ Exists(entries[n].before)
  BY <1>2, <1>3, <1>6, <1>9, <1>11
<1>13. \A t \in {s} : Exists(copy[c][t]) /\ Tame(copy[c][t], WithVersion(c)[t])
  BY <1>2, <1>5, <1>8
<1>14. {s} \in SUBSET Strings
  BY <1>2
<1> QED
  BY <1>1, <1>8, <1>11, <1>12, <1>13, <1>14, TameWrite

\* What restore_last_history has done after some of its strings.
LastSound(c, done) ==
    /\ done.after \in [Strings -> Rows]
    /\ \A s \in Strings :
          \/ done.after[s] = copy[c][s]
          \/ Exists(copy[c][s]) /\ Tame(copy[c][s], done.after[s])
    /\ done.entries \in Seq(Activities)
    /\ \A n \in DOMAIN done.entries :
          LET e == done.entries[n] IN
          /\ e.revertOf = 0 /\ e.revertedBy = 0
          /\ e.str \in Strings /\ Exists(copy[c][e.str])
          /\ Filled(e.before) /\ Filled(e.after) /\ Exists(e.after) /\ Exists(e.before)

\* The last restorable entry of a string, if there is one.
LEMMA LastEntryIs ==
    ASSUME HistoryInv, NEW s \in Strings, LastEntry(s) # 0
    PROVE  /\ LastEntry(s) \in DOMAIN log
           /\ Exists(log[LastEntry(s)].before)
<1>0. /\ log \in Seq(Activities) /\ DOMAIN log = 1..Len(log) /\ Len(log) \in Nat
      /\ pruned \in 0..Len(log)
  BY DEF HistoryInv, Typed
<1> DEFINE found == {i \in Live : /\ log[i].str = s
                                  /\ Exists(log[i].before) /\ IsHistoryRestorable(log[i])}
<1>1. LastEntry(s) = IF found = {} THEN 0 ELSE CHOOSE i \in found : \A j \in found : j <= i
  BY DEF LastEntry
<1>2. found \in SUBSET (0..Len(log)) /\ found \in SUBSET (1..Len(log))
  BY <1>0 DEF Live
<1>3. \A i \in found : Exists(log[i].before)
  OBVIOUS
<1> HIDE DEF found
<1>4. found # {}
  BY <1>1
<1>5. \E i \in found : \A j \in found : j <= i
  BY <1>0, <1>2, <1>4, GreatestNumber
<1>6. LastEntry(s) \in found
  BY <1>1, <1>4, <1>5
<1> QED
  BY <1>0, <1>2, <1>3, <1>6

LEMMA LastStepSound ==
    ASSUME HistoryInv, NEW c \in Clients, pc[c] = "read", NEW done, LastSound(c, done),
           NEW s \in Strings
    PROVE  LastSound(c, LastStep(c, done, s))
<1> DEFINE i == LastEntry(s)
           b == copy[c][s]
           a == HistoryTarget(b, log[i].before)
           entry == AsRestore(Entry(s, b, a, NextBatch))
           next == [ok |-> done.ok /\ KeyFree(Merged(c, done.after), s, a.key),
                    after |-> [done.after EXCEPT ![s] = a],
                    entries |-> Append(done.entries, entry)]
<1>1. CASE i = 0 \/ ~Alive(b) \/ a = b
  <2>1. LastStep(c, done, s) = done
    BY <1>1 DEF LastStep
  <2> QED
    BY <2>1
<1>2. CASE ~(i = 0 \/ ~Alive(b) \/ a = b)
  <2>1. LastStep(c, done, s) = next
    BY <1>2 DEF LastStep
  <2>2. b \in Rows /\ Filled(b) /\ Exists(b)
    BY <1>2, SessionFacts DEF Alive
  <2>3. log[i].before \in Rows /\ Filled(log[i].before) /\ Exists(log[i].before)
    <3>1. i \in DOMAIN log /\ Exists(log[i].before)
      BY <1>2, LastEntryIs
    <3>2. GoodEntry(log[i], rows) /\ log[i] \in Activities
      BY <3>1, SessionFacts DEF HistoryInv, GoodLog
    <3> QED
      BY <3>1, <3>2, ActivityFields DEF GoodEntry
  <2>4. Tame(b, a)
    BY <2>2, <2>3, TameHandlers
  <2> HIDE DEF a
  <2>5. a \in Rows /\ Filled(a) /\ Exists(a)
    BY <2>2, <2>4 DEF Tame
  <2>6. /\ entry \in Activities /\ entry.revertOf = 0 /\ entry.revertedBy = 0
        /\ entry.str = s /\ entry.before = b /\ entry.after = a
    <3>1. /\ entry \in Activities /\ entry.revertOf = 0 /\ entry.revertedBy = 0
          /\ Entry(s, b, a, NextBatch) \in Activities
      BY <2>2, <2>5, BatchIsNumber, EntryIsGood
    <3>2. /\ Entry(s, b, a, NextBatch).str = s /\ Entry(s, b, a, NextBatch).before = b
          /\ Entry(s, b, a, NextBatch).after = a
      BY DEF Entry
    <3>3. \A e \in Activities : /\ AsRestore(e).str = e.str /\ AsRestore(e).before = e.before
                                /\ AsRestore(e).after = e.after
      BY DEF AsRestore, Activities
    <3> QED
      BY <3>1, <3>2, <3>3
  <2> HIDE DEF entry, i
  <2>7. /\ next.after = [done.after EXCEPT ![s] = a]
        /\ next.entries = Append(done.entries, entry)
    OBVIOUS
  <2> HIDE DEF next
  <2>8. /\ next.after \in [Strings -> Rows]
        /\ \A t \in Strings :
              \/ next.after[t] = copy[c][t]
              \/ Exists(copy[c][t]) /\ Tame(copy[c][t], next.after[t])
    <3>1. /\ next.after \in [Strings -> Rows] /\ next.after[s] = a
          /\ \A t \in Strings \ {s} : next.after[t] = done.after[t]
      BY <2>5, <2>7 DEF LastSound
    <3> QED
      BY <2>2, <2>4, <3>1 DEF LastSound
  <2>9. /\ next.entries \in Seq(Activities)
        /\ \A n \in DOMAIN next.entries :
              \/ n \in DOMAIN done.entries /\ next.entries[n] = done.entries[n]
              \/ next.entries[n] = entry
    BY <2>6, <2>7 DEF LastSound
  <2>10. LastSound(c, next)
    <3> SUFFICES ASSUME NEW n \in DOMAIN next.entries
                 PROVE  LET e == next.entries[n] IN
                        /\ e.revertOf = 0 /\ e.revertedBy = 0
                        /\ e.str \in Strings /\ Exists(copy[c][e.str])
                        /\ Filled(e.before) /\ Filled(e.after)
                        /\ Exists(e.after) /\ Exists(e.before)
      BY <2>8, <2>9 DEF LastSound
    <3>1. CASE next.entries[n] = entry
      BY <2>2, <2>5, <2>6, <3>1
    <3>2. CASE n \in DOMAIN done.entries /\ next.entries[n] = done.entries[n]
      BY <3>2 DEF LastSound
    <3> QED
      BY <2>9, <3>1, <3>2
  <2> QED
    BY <2>1, <2>10
<1> QED
  BY <1>1, <1>2

LEMMA LastPlanSound ==
    ASSUME HistoryInv, NEW c \in Clients, pc[c] = "read"
    PROVE  LastSound(c, LastPlan(c))
<1> DEFINE seq == req[c].strs
<1>1. seq \in Seq(Strings) /\ Len(seq) \in Nat /\ DOMAIN seq = 1..Len(seq)
  BY SessionFacts
<1>2. PICK f : IsRun("last", c, LastStart(c), seq, LastPlan(c), f)
  BY <1>1, LastIsRun
<1> HIDE DEF seq
<1> DEFINE T == {k \in Nat : k <= Len(seq) => LastSound(c, f[k])}
<1>3. 0 \in T
  <2>1. f[0] = LastStart(c)
    BY <1>2 DEF IsRun
  <2>2. LastStart(c).after = copy[c] /\ LastStart(c).entries = <<>>
    BY DEF LastStart
  <2>3. copy[c] \in [Strings -> Rows] /\ <<>> \in Seq(Activities) /\ DOMAIN <<>> = {}
    BY SessionFacts
  <2>4. LastSound(c, LastStart(c))
    BY <2>2, <2>3 DEF LastSound
  <2> QED
    BY <2>1, <2>4
<1>4. ASSUME NEW k \in T
      PROVE  k + 1 \in T
  <2>1. k \in Nat /\ k + 1 \in Nat
    OBVIOUS
  <2>2. ASSUME k + 1 <= Len(seq)
        PROVE  LastSound(c, f[k + 1])
    <3>1. LastSound(c, f[k]) /\ k < Len(seq) /\ k + 1 \in DOMAIN seq
      BY <1>1, <2>1, <2>2
    <3>2. seq[k + 1] \in Strings
      BY <1>1, <3>1
    <3>3. f[k + 1] = FoldStep("last", c, f[k], seq[k + 1])
      BY <1>2, <2>1, <3>1 DEF IsRun
    <3>4. f[k + 1] = LastStep(c, f[k], seq[k + 1])
      BY <3>3 DEF FoldStep
    <3> QED
      BY <3>1, <3>2, <3>4, LastStepSound
  <2> QED
    BY <2>1, <2>2
<1>5. T = Nat
  <2>1. T \in SUBSET Nat
    OBVIOUS
  <2> HIDE DEF T
  <2> QED
    BY <1>3, <1>4, <2>1, Induction
<1>6. LastSound(c, f[Len(seq)])
  BY <1>1, <1>5
<1> QED
  BY <1>2, <1>6 DEF IsRun

LEMMA RestoreLastKeeps ==
    ASSUME HistoryInv, NEW c \in Clients, pc[c] = "read", RestoreLast(c), FreshStep(c),
           pruned' = pruned
    PROVE  WriteKeeps
<1> DEFINE done == LastPlan(c)
           S == {s \in Strings : done.after[s] # copy[c][s]}
<1>1. req[c].kind = "last" /\ Write(Merged(c, done.after), done.entries, S)
  BY DEF RestoreLast
<1>2. LastSound(c, done)
  BY LastPlanSound
<1> HIDE DEF done
<1>3. \A s \in S : Exists(copy[c][s]) /\ Tame(copy[c][s], done.after[s])
  BY <1>2 DEF LastSound
<1>4. S \in SUBSET Strings /\ \A s \in Strings \ S : done.after[s] = copy[c][s]
  OBVIOUS
<1> HIDE DEF S
<1> QED
  BY <1>1, <1>2, <1>3, <1>4, TameWrite DEF LastSound

-----------------------------------------------------------------------------
(* Undo: the rows that its entries put back, one after the other.          *)

InverseForms == [act: Nat, before: Rows, after: Rows]

\* The table after each entry of an undo, and what it writes over the row it finds.
Undoing(acts, force, tables, inverses) ==
    /\ \A n \in 0..Len(acts) :
          /\ tables[n] \in [Strings -> Rows]
          /\ \A s \in Strings : Filled(tables[n][s])
    /\ inverses \in Seq(InverseForms)
    /\ Len(inverses) = Len(acts)
    /\ \A n \in 1..Len(acts) :
          LET s == log[acts[n]].str IN
          /\ inverses[n].act = acts[n]
          /\ inverses[n].before = tables[n - 1][s]
          /\ inverses[n].after = RevertTarget(log[acts[n]], tables[n - 1][s])
          /\ inverses[n].after = tables[n][s]
          /\ Exists(inverses[n].before) /\ Exists(inverses[n].after)
          /\ \A t \in Strings \ {s} : tables[n][t] = tables[n - 1][t]
          /\ force \/ tables[n - 1][s] = log[acts[n]].after

\* What the undo of a session commits.
Undo(c, tables, inverses) ==
    LET acts == req[c].acts IN
    /\ tables[0] = copy[c]
    /\ Undoing(acts, req[c].force, tables, inverses)
    /\ Undone(c, StringsOf(acts), inverses,
              [s \in Strings |-> IF s \in StringsOf(acts) THEN tables[Len(acts)][s] ELSE rows[s]])

\* An inverse, on a row that exists.
LEMMA InverseFields ==
    ASSUME HistoryInv, NEW table \in [Strings -> Rows], NEW i \in DOMAIN log,
           Filled(table[log[i].str]), Exists(table[log[i].str])
    PROVE  LET s == log[i].str
               inverse == InverseOf(table, i)
           IN  /\ s \in Strings
               /\ inverse \in InverseForms
               /\ inverse.act = i /\ inverse.before = table[s]
               /\ inverse.after = RevertTarget(log[i], table[s])
               /\ Filled(inverse.after) /\ Exists(inverse.after)
<1>1. /\ log \in Seq(Activities) /\ DOMAIN log = 1..Len(log) /\ Len(log) \in Nat
      /\ GoodEntry(log[i], rows)
  BY DEF HistoryInv, Typed, GoodLog
<1>2. log[i] \in Activities /\ log[i].str \in Strings /\ log[i].before \in Rows
  BY <1>1, ActivityFields
<1> DEFINE s == log[i].str
           r == table[s]
           a == RevertTarget(log[i], r)
<1>3. r \in Rows /\ Filled(r) /\ Exists(r)
  BY <1>2
<1>4. a \in Rows /\ Filled(a) /\ Exists(a)
  <2> HIDE DEF r
  <2> QED
    BY <1>1, <1>2, <1>3, RevertedRow DEF GoodEntry
<1>5. InverseOf(table, i) = [act |-> i, before |-> r, after |-> a]
  BY DEF InverseOf
<1> HIDE DEF r, a
<1>6. i \in Nat
  BY <1>1
<1>7. /\ InverseOf(table, i) \in InverseForms
      /\ InverseOf(table, i).act = i /\ InverseOf(table, i).before = r
      /\ InverseOf(table, i).after = a
  BY <1>3, <1>4, <1>5, <1>6 DEF InverseForms
<1> QED
  BY <1>2, <1>4, <1>7 DEF r, a

\* The undo of one entry.
LEMMA UndoEntryIs ==
    ASSUME HistoryInv, NEW c \in Clients, pc[c] = "read", UndoEntry(c)
    PROVE  \E tables, inverses : Undo(c, tables, inverses)
<1> DEFINE acts == req[c].acts
           i == acts[1]
           s == log[i].str
           inverse == InverseOf(copy[c], i)
           table == [copy[c] EXCEPT ![s] = inverse.after]
           tables == [n \in 0..1 |-> IF n = 0 THEN copy[c] ELSE table]
           inverses == <<inverse>>
<1>1. /\ req[c].kind = "undo" /\ EntryUndoable(copy[c], i, req[c].force)
      /\ Undone(c, {s}, inverses, [rows EXCEPT ![s] = inverse.after])
  BY DEF UndoEntry
<1>2. acts \in Seq(Nat) /\ Len(acts) = 1 /\ DOMAIN acts = {1}
  <2>1. acts \in Seq(Nat) /\ Len(acts) = 1
    BY <1>1, SessionFacts DEF GoodUndo, IsUndo
  <2> QED
    BY <2>1
<1>3. i \in DOMAIN log /\ Exists(copy[c][s])
  BY <1>1, <1>2, SessionFacts DEF GoodUndo, IsUndo
<1>4. /\ copy[c] \in [Strings -> Rows] /\ rows \in [Strings -> Rows]
      /\ \A t \in Strings : Filled(copy[c][t])
  BY SessionFacts
<1>5. s \in Strings
  BY <1>3, ActivityFields, SessionFacts
<1>6. /\ inverse \in InverseForms
      /\ inverse.act = i /\ inverse.before = copy[c][s]
      /\ inverse.after = RevertTarget(log[i], copy[c][s])
      /\ Filled(inverse.after) /\ Exists(inverse.after)
  BY <1>3, <1>4, <1>5, InverseFields
<1>7. req[c].force \/ copy[c][s] = log[i].after
  BY <1>1, <1>6 DEF EntryUndoable, SnapshotsMatch
<1>8. StringsOf(acts) = {s}
  BY <1>2 DEF StringsOf
<1> HIDE DEF inverse
<1>9. /\ table \in [Strings -> Rows] /\ table[s] = inverse.after
      /\ \A t \in Strings \ {s} : table[t] = copy[c][t]
  BY <1>4, <1>5, <1>6 DEF InverseForms
<1>10. /\ tables[0] = copy[c] /\ tables[1] = table
  OBVIOUS
<1>11. /\ inverses \in Seq(InverseForms) /\ Len(inverses) = 1
       /\ inverses[1] = inverse
  <2>1. \A x \in InverseForms : <<x>> \in Seq(InverseForms) /\ Len(<<x>>) = 1 /\ <<x>>[1] = x
    OBVIOUS
  <2> HIDE DEF table, tables
  <2> QED
    BY <1>6, <2>1
<1> HIDE DEF table, tables, inverses
<1>12. \A n \in 0..Len(acts) : n = 0 \/ n = 1
  BY <1>2
<1>13. \A t \in Strings : Filled(table[t])
  BY <1>4, <1>6, <1>9
<1>14. \A n \in 0..Len(acts) :
          /\ tables[n] \in [Strings -> Rows]
          /\ \A t \in Strings : Filled(tables[n][t])
  BY <1>4, <1>9, <1>10, <1>12, <1>13
<1>15. \A n \in 1..Len(acts) :
          LET t == log[acts[n]].str IN
          /\ inverses[n].act = acts[n]
          /\ inverses[n].before = tables[n - 1][t]
          /\ inverses[n].after = RevertTarget(log[acts[n]], tables[n - 1][t])
          /\ inverses[n].after = tables[n][t]
          /\ Exists(inverses[n].before) /\ Exists(inverses[n].after)
          /\ \A u \in Strings \ {t} : tables[n][u] = tables[n - 1][u]
          /\ req[c].force \/ tables[n - 1][t] = log[acts[n]].after
  <2> SUFFICES ASSUME NEW n \in 1..Len(acts)
               PROVE  LET t == log[acts[n]].str IN
                      /\ inverses[n].act = acts[n]
                      /\ inverses[n].before = tables[n - 1][t]
                      /\ inverses[n].after = RevertTarget(log[acts[n]], tables[n - 1][t])
                      /\ inverses[n].after = tables[n][t]
                      /\ Exists(inverses[n].before) /\ Exists(inverses[n].after)
                      /\ \A u \in Strings \ {t} : tables[n][u] = tables[n - 1][u]
                      /\ req[c].force \/ tables[n - 1][t] = log[acts[n]].after
    OBVIOUS
  <2>1. n = 1 /\ n - 1 = 0
    BY <1>2
  <2> QED
    BY <1>3, <1>6, <1>7, <1>9, <1>10, <1>11, <2>1
<1>16. Undoing(acts, req[c].force, tables, inverses)
  BY <1>2, <1>11, <1>14, <1>15 DEF Undoing
<1>17. [rows EXCEPT ![s] = inverse.after]
         = [t \in Strings |-> IF t \in StringsOf(acts) THEN tables[Len(acts)][t] ELSE rows[t]]
  BY <1>2, <1>4, <1>8, <1>9, <1>10
<1>18. Undone(c, StringsOf(acts), inverses,
              [t \in Strings |-> IF t \in StringsOf(acts) THEN tables[Len(acts)][t] ELSE rows[t]])
  BY <1>1, <1>8, <1>17
<1> QED
  BY <1>10, <1>16, <1>18 DEF Undo

\* What a plan has after k entries.
PlanState(table, acts, force, f, k) ==
    /\ f[k].rows \in [Strings -> Rows]
    /\ \A s \in Strings : Filled(f[k].rows[s]) /\ (Exists(table[s]) => Exists(f[k].rows[s]))
    /\ f[k].inverses \in Seq(InverseForms) /\ Len(f[k].inverses) = k
    /\ \A n \in 1..k : f[k].inverses[n] = InverseOf(f[n - 1].rows, acts[n])
    /\ f[k].ok => \A n \in 1..k :
                     force \/ f[n - 1].rows[log[acts[n]].str] = log[acts[n]].after

\* The entries of a plan are about rows that there are.
Plannable(table, acts) ==
    /\ table \in [Strings -> Rows] /\ \A s \in Strings : Filled(table[s])
    /\ acts \in Seq(Nat)
    /\ \A n \in DOMAIN acts : acts[n] \in DOMAIN log /\ Exists(table[log[acts[n]].str])

LEMMA PlanStepState ==
    ASSUME HistoryInv, NEW table, NEW acts, Plannable(table, acts), NEW force, NEW f,
           NEW k \in Nat, k < Len(acts), PlanState(table, acts, force, f, k),
           f[k + 1] = PlanStep(f[k], acts[k + 1], force)
    PROVE  LET i == acts[k + 1]
               s == log[i].str
           IN  /\ PlanState(table, acts, force, f, k + 1)
               /\ s \in Strings
               /\ f[k + 1].rows[s] = RevertTarget(log[i], f[k].rows[s])
               /\ \A t \in Strings \ {s} : f[k + 1].rows[t] = f[k].rows[t]
               /\ Exists(f[k].rows[s]) /\ Exists(f[k + 1].rows[s])
<1> DEFINE i == acts[k + 1]
           s == log[i].str
           r == f[k].rows[s]
           inverse == InverseOf(f[k].rows, i)
<1>0. acts \in Seq(Nat) /\ DOMAIN acts = 1..Len(acts) /\ Len(acts) \in Nat
  BY DEF Plannable
<1>1. k + 1 \in DOMAIN acts /\ i \in DOMAIN log /\ Exists(table[s])
  BY <1>0 DEF Plannable
<1>2. s \in Strings
  <2>1. log \in Seq(Activities)
    BY DEF HistoryInv, Typed
  <2> QED
    BY <1>1, <2>1, ActivityFields
<1>3. f[k].rows \in [Strings -> Rows] /\ Filled(r) /\ Exists(r)
  BY <1>1, <1>2 DEF PlanState
<1>4. /\ inverse \in InverseForms
      /\ inverse.act = i /\ inverse.before = r
      /\ inverse.after = RevertTarget(log[i], r)
      /\ Filled(inverse.after) /\ Exists(inverse.after)
  BY <1>1, <1>2, <1>3, InverseFields
<1>5. /\ f[k + 1].rows = [f[k].rows EXCEPT ![s] = inverse.after]
      /\ f[k + 1].inverses = Append(f[k].inverses, inverse)
      /\ f[k + 1].ok => f[k].ok /\ (force \/ r = log[i].after)
  <2>1. SnapshotsMatch(inverse.before, log[i].after) <=> r = log[i].after
    BY <1>4 DEF SnapshotsMatch
  <2>2. f[k + 1] =
          [ok |-> /\ f[k].ok
                  /\ ~Taken(f[k].owners, s, inverse.after)
                  /\ force \/ SnapshotsMatch(inverse.before, log[i].after),
           rows |-> [f[k].rows EXCEPT ![s] = inverse.after],
           owners |-> Handover(f[k].owners, s, inverse.before, inverse.after),
           inverses |-> Append(f[k].inverses, inverse)]
    BY DEF PlanStep
  <2>3. /\ f[k + 1].rows = [f[k].rows EXCEPT ![s] = inverse.after]
        /\ f[k + 1].inverses = Append(f[k].inverses, inverse)
    BY <2>2
  <2>4. f[k + 1].ok <=> (/\ f[k].ok
                         /\ ~Taken(f[k].owners, s, inverse.after)
                         /\ force \/ SnapshotsMatch(inverse.before, log[i].after))
    BY <2>2
  <2> QED
    BY <2>1, <2>3, <2>4
<1>6. inverse.after \in Rows
  BY <1>4 DEF InverseForms
<1> HIDE DEF inverse
<1>7. /\ f[k + 1].rows \in [Strings -> Rows]
      /\ f[k + 1].rows[s] = inverse.after
      /\ \A t \in Strings \ {s} : f[k + 1].rows[t] = f[k].rows[t]
  BY <1>2, <1>3, <1>5, <1>6
<1>8. \A t \in Strings :
         Filled(f[k + 1].rows[t]) /\ (Exists(table[t]) => Exists(f[k + 1].rows[t]))
  BY <1>4, <1>7 DEF PlanState
<1>9. /\ f[k].inverses \in Seq(InverseForms) /\ Len(f[k].inverses) = k
  BY DEF PlanState
<1>10. /\ f[k + 1].inverses \in Seq(InverseForms) /\ Len(f[k + 1].inverses) = k + 1
       /\ \A n \in 1..k : f[k + 1].inverses[n] = f[k].inverses[n]
       /\ f[k + 1].inverses[k + 1] = inverse
  BY <1>4, <1>5, <1>9
<1>11. \A n \in 1..(k + 1) : n \in 1..k \/ n = k + 1
  OBVIOUS
<1>12. ASSUME NEW n \in 1..(k + 1)
       PROVE  f[k + 1].inverses[n] = InverseOf(f[n - 1].rows, acts[n])
  <2>1. CASE n \in 1..k
    BY <1>10, <2>1 DEF PlanState
  <2>2. CASE n = k + 1
    <3>1. n - 1 = k
      BY <2>2
    <3> QED
      BY <1>10, <2>2, <3>1 DEF inverse
  <2> QED
    BY <1>11, <2>1, <2>2
<1>13. ASSUME f[k + 1].ok, NEW n \in 1..(k + 1)
       PROVE  force \/ f[n - 1].rows[log[acts[n]].str] = log[acts[n]].after
  <2>1. CASE n \in 1..k
    BY <1>5, <1>13, <2>1 DEF PlanState
  <2>2. CASE n = k + 1
    <3>1. n - 1 = k
      BY <2>2
    <3> QED
      BY <1>5, <1>13, <2>2, <3>1
  <2> QED
    BY <1>11, <2>1, <2>2
<1>14. PlanState(table, acts, force, f, k + 1)
  BY <1>7, <1>8, <1>10, <1>12, <1>13 DEF PlanState
<1> QED
  BY <1>2, <1>3, <1>4, <1>7, <1>14

LEMMA PlanStates ==
    ASSUME HistoryInv, NEW table, NEW acts, Plannable(table, acts), NEW force, NEW plan, NEW f,
           IsRun("plan", force, PlanStart(table), acts, plan, f)
    PROVE  /\ \A k \in 0..Len(acts) : PlanState(table, acts, force, f, k)
           /\ \A k \in 0..Len(acts) :
                 k < Len(acts) => f[k + 1] = PlanStep(f[k], acts[k + 1], force)
<1>0. acts \in Seq(Nat) /\ Len(acts) \in Nat
  BY DEF Plannable
<1>1. \A k \in Nat : k < Len(acts) => f[k + 1] = PlanStep(f[k], acts[k + 1], force)
  BY DEF IsRun, FoldStep
<1> DEFINE T == {k \in Nat : k <= Len(acts) => PlanState(table, acts, force, f, k)}
<1>2. 0 \in T
  <2>1. f[0] = PlanStart(table)
    BY DEF IsRun
  <2>2. f[0].rows = table /\ f[0].inverses = <<>>
    BY <2>1 DEF PlanStart
  <2>3. <<>> \in Seq(InverseForms) /\ Len(<<>>) = 0
    OBVIOUS
  <2>4. PlanState(table, acts, force, f, 0)
    BY <2>2, <2>3 DEF PlanState, Plannable
  <2> QED
    BY <2>4
<1>3. ASSUME NEW k \in T
      PROVE  k + 1 \in T
  <2>1. k \in Nat /\ k + 1 \in Nat
    OBVIOUS
  <2>2. ASSUME k + 1 <= Len(acts)
        PROVE  PlanState(table, acts, force, f, k + 1)
    <3>1. k < Len(acts) /\ PlanState(table, acts, force, f, k)
      BY <1>0, <2>1, <2>2
    <3>2. f[k + 1] = PlanStep(f[k], acts[k + 1], force)
      BY <1>1, <2>1, <3>1
    <3> QED
      BY <2>1, <3>1, <3>2, PlanStepState
  <2> QED
    BY <2>1, <2>2
<1>4. T = Nat
  <2>1. T \in SUBSET Nat
    OBVIOUS
  <2> HIDE DEF T
  <2> QED
    BY <1>2, <1>3, <2>1, Induction
<1>5. ASSUME NEW k \in 0..Len(acts)
      PROVE  PlanState(table, acts, force, f, k)
  BY <1>0, <1>4
<1> QED
  BY <1>1, <1>5

\* The undo of a batch.
LEMMA UndoBatchIs ==
    ASSUME HistoryInv, NEW c \in Clients, pc[c] = "read", UndoBatch(c)
    PROVE  \E tables, inverses : Undo(c, tables, inverses)
<1> DEFINE acts == req[c].acts
           force == req[c].force
           plan == Plan(copy[c], acts, force)
           undone == StringsOf(acts)
<1>1. /\ req[c].kind = "undo batch" /\ plan.ok
      /\ Undone(c, undone, plan.inverses, PlannedRows(plan, undone))
  BY DEF UndoBatch
<1>2. acts \in Seq(Nat) /\ Len(acts) \in Nat /\ DOMAIN acts = 1..Len(acts)
  BY SessionFacts
<1>3. Plannable(copy[c], acts)
  <2>1. \A n \in DOMAIN acts : acts[n] \in DOMAIN log /\ Exists(copy[c][log[acts[n]].str])
    BY <1>1, SessionFacts DEF GoodUndo, IsUndo
  <2> QED
    BY <1>2, <2>1, SessionFacts DEF Plannable
<1>4. PICK f : IsRun("plan", force, PlanStart(copy[c]), acts, plan, f)
  BY <1>2, PlanIsRun
<1> HIDE DEF plan, acts, force
<1>5. /\ \A k \in 0..Len(acts) : PlanState(copy[c], acts, force, f, k)
      /\ \A k \in 0..Len(acts) :
            k < Len(acts) => f[k + 1] = PlanStep(f[k], acts[k + 1], force)
  BY <1>3, <1>4, PlanStates
<1>6. f[0].rows = copy[c] /\ plan = f[Len(acts)]
  <2>1. PlanStart(copy[c]).rows = copy[c]
    BY DEF PlanStart
  <2> QED
    BY <1>4, <2>1 DEF IsRun
<1> DEFINE tables == [n \in 0..Len(acts) |-> f[n].rows]
           inverses == plan.inverses
<1>7. \A n \in 0..Len(acts) : tables[n] = f[n].rows
  OBVIOUS
<1> HIDE DEF tables
<1>8. \A n \in 0..Len(acts) :
         /\ tables[n] \in [Strings -> Rows]
         /\ \A s \in Strings : Filled(tables[n][s])
  BY <1>5, <1>7 DEF PlanState
<1>9. /\ inverses \in Seq(InverseForms) /\ Len(inverses) = Len(acts)
      /\ \A n \in 1..Len(acts) : inverses[n] = InverseOf(f[n - 1].rows, acts[n])
      /\ \A n \in 1..Len(acts) :
            force \/ f[n - 1].rows[log[acts[n]].str] = log[acts[n]].after
  <2>1. PlanState(copy[c], acts, force, f, Len(acts))
    BY <1>2, <1>5
  <2> QED
    BY <1>1, <1>6, <2>1 DEF PlanState
<1>10. ASSUME NEW n \in 1..Len(acts)
       PROVE  LET s == log[acts[n]].str IN
              /\ inverses[n].act = acts[n]
              /\ inverses[n].before = tables[n - 1][s]
              /\ inverses[n].after = RevertTarget(log[acts[n]], tables[n - 1][s])
              /\ inverses[n].after = tables[n][s]
              /\ Exists(inverses[n].before) /\ Exists(inverses[n].after)
              /\ \A t \in Strings \ {s} : tables[n][t] = tables[n - 1][t]
              /\ force \/ tables[n - 1][s] = log[acts[n]].after
  <2>1. PICK k \in Nat : n = k + 1 /\ k < Len(acts) /\ k \in 0..Len(acts) /\ n - 1 = k
    <3>1. n - 1 \in Nat /\ n = (n - 1) + 1 /\ n - 1 < Len(acts) /\ n - 1 \in 0..Len(acts)
      BY <1>2
    <3> QED
      BY <3>1
  <2> DEFINE i == acts[n]
             s == log[i].str
  <2>2. /\ s \in Strings
        /\ f[n].rows[s] = RevertTarget(log[i], f[k].rows[s])
        /\ \A t \in Strings \ {s} : f[n].rows[t] = f[k].rows[t]
        /\ Exists(f[k].rows[s]) /\ Exists(f[n].rows[s])
    BY <1>3, <1>5, <2>1, PlanStepState
  <2>3. tables[n] = f[n].rows /\ tables[n - 1] = f[k].rows
    BY <1>2, <1>7, <2>1
  <2>4. inverses[n] = InverseOf(f[k].rows, i)
    BY <1>9, <2>1
  <2>5. /\ inverses[n].act = i /\ inverses[n].before = f[k].rows[s]
        /\ inverses[n].after = RevertTarget(log[i], f[k].rows[s])
    BY <2>4 DEF InverseOf
  <2>6. force \/ f[k].rows[s] = log[i].after
    BY <1>9, <2>1
  <2> HIDE DEF inverses, s
  <2>7. /\ inverses[n].act = acts[n]
        /\ inverses[n].before = tables[n - 1][s]
        /\ inverses[n].after = RevertTarget(log[acts[n]], tables[n - 1][s])
        /\ inverses[n].after = tables[n][s]
        /\ Exists(inverses[n].before) /\ Exists(inverses[n].after)
        /\ \A t \in Strings \ {s} : tables[n][t] = tables[n - 1][t]
        /\ force \/ tables[n - 1][s] = log[acts[n]].after
    BY <2>2, <2>3, <2>5, <2>6
  <2> QED
    BY <2>7 DEF s
<1>11. Undoing(acts, force, tables, inverses)
  BY <1>8, <1>9, <1>10 DEF Undoing
<1>12. tables[0] = copy[c] /\ tables[Len(acts)] = plan.rows
  BY <1>2, <1>6, <1>7
<1>13. PlannedRows(plan, undone)
         = [s \in Strings |-> IF s \in undone THEN tables[Len(acts)][s] ELSE rows[s]]
  BY <1>12 DEF PlannedRows
<1>14. Undone(c, undone, inverses,
              [s \in Strings |-> IF s \in undone THEN tables[Len(acts)][s] ELSE rows[s]])
  BY <1>1, <1>13
<1> QED
  BY <1>11, <1>12, <1>14 DEF Undo, acts, force

\* A row stays as it is while no entry is about its string.
LEMMA RowStays ==
    ASSUME NEW acts \in Seq(Nat), NEW force, NEW tables, NEW inverses,
           Undoing(acts, force, tables, inverses), NEW s \in Strings,
           NEW j \in 0..Len(acts),
           \A m \in 1..Len(acts) : m > j => log[acts[m]].str # s
    PROVE  tables[Len(acts)][s] = tables[j][s]
<1>0. Len(acts) \in Nat
  OBVIOUS
<1> DEFINE T == {d \in Nat : j + d <= Len(acts) => tables[j + d][s] = tables[j][s]}
<1>1. 0 \in T
  BY <1>0
<1>2. ASSUME NEW d \in T
      PROVE  d + 1 \in T
  <2>1. d \in Nat /\ d + 1 \in Nat
    OBVIOUS
  <2>2. ASSUME j + (d + 1) <= Len(acts)
        PROVE  tables[j + (d + 1)][s] = tables[j][s]
    <3> DEFINE n == j + (d + 1)
    <3>1. /\ n \in 1..Len(acts) /\ n > j /\ n - 1 = j + d /\ j + d <= Len(acts)
      BY <1>0, <2>1, <2>2
    <3>2. tables[j + d][s] = tables[j][s]
      BY <3>1
    <3> HIDE DEF n
    <3>3. tables[n][s] = tables[n - 1][s]
      BY <3>1 DEF Undoing
    <3> QED
      BY <3>1, <3>2, <3>3 DEF n
  <2> QED
    BY <2>1, <2>2
<1>3. T = Nat
  <2>1. T \in SUBSET Nat
    OBVIOUS
  <2> HIDE DEF T
  <2> QED
    BY <1>1, <1>2, <2>1, Induction
<1>4. PICK d \in Nat : j + d = Len(acts)
  <2>1. Len(acts) - j \in Nat /\ j + (Len(acts) - j) = Len(acts)
    BY <1>0
  <2> QED
    BY <2>1
<1>5. d \in T
  BY <1>3
<1> QED
  BY <1>0, <1>4, <1>5

\* Nor has an entry changed it before the first one that is about its string.
LEMMA RowStaysSoFar ==
    ASSUME NEW acts \in Seq(Nat), NEW force, NEW tables, NEW inverses,
           Undoing(acts, force, tables, inverses), NEW s \in Strings,
           NEW k \in 0..Len(acts),
           \A m \in 1..Len(acts) : m <= k => log[acts[m]].str # s
    PROVE  tables[k][s] = tables[0][s]
<1>0. Len(acts) \in Nat
  OBVIOUS
<1> DEFINE T == {d \in Nat : d <= k => tables[d][s] = tables[0][s]}
<1>1. 0 \in T
  OBVIOUS
<1>2. ASSUME NEW d \in T
      PROVE  d + 1 \in T
  <2>1. d \in Nat /\ d + 1 \in Nat
    OBVIOUS
  <2>2. ASSUME d + 1 <= k
        PROVE  tables[d + 1][s] = tables[0][s]
    <3> DEFINE n == d + 1
    <3>1. n \in 1..Len(acts) /\ n <= k /\ n - 1 = d /\ d <= k
      BY <1>0, <2>1, <2>2
    <3>2. tables[d][s] = tables[0][s]
      BY <3>1
    <3> HIDE DEF n
    <3>3. tables[n][s] = tables[n - 1][s]
      BY <3>1 DEF Undoing
    <3> QED
      BY <3>1, <3>2, <3>3 DEF n
  <2> QED
    BY <2>1, <2>2
<1>3. T = Nat
  <2>1. T \in SUBSET Nat
    OBVIOUS
  <2> HIDE DEF T
  <2> QED
    BY <1>1, <1>2, <2>1, Induction
<1> QED
  BY <1>3

\* The newest and the oldest of the entries about a string are at the ends.
LEMMA EndsOf ==
    ASSUME NEW acts \in Seq(Nat), NEW s, s \in StringsOf(acts)
    PROVE  /\ \E n \in On(acts, s) : \A m \in On(acts, s) : n <= m
           /\ \E n \in On(acts, s) : \A m \in On(acts, s) : m <= n
<1>1. Len(acts) \in Nat /\ DOMAIN acts = 1..Len(acts)
  OBVIOUS
<1>2. On(acts, s) \subseteq 1..Len(acts) /\ On(acts, s) # {}
  BY <1>1 DEF On, StringsOf
<1> DEFINE T == On(acts, s)
<1>3. T \subseteq Nat /\ T # {} /\ T \in SUBSET (0..Len(acts))
  BY <1>1, <1>2
<1> HIDE DEF T
<1>4. \E n \in T : \A m \in T : n <= m
  BY <1>3, LeastNumber
<1>5. \E n \in T : \A m \in T : m <= n
  BY <1>1, <1>3, GreatestNumber
<1> QED
  BY <1>4, <1>5 DEF T

\* What an undo finds before its newest entry about a string and leaves after its oldest.
LEMMA RowAtTheEnds ==
    ASSUME NEW acts \in Seq(Nat), NEW force, NEW tables, NEW inverses,
           Undoing(acts, force, tables, inverses), NEW s \in Strings, NEW n \in On(acts, s)
    PROVE  /\ n \in 1..Len(acts) /\ log[acts[n]].str = s
           /\ (\A m \in On(acts, s) : n <= m) => inverses[n].before = tables[0][s]
           /\ (\A m \in On(acts, s) : m <= n) => inverses[n].after = tables[Len(acts)][s]
<1>1. Len(acts) \in Nat /\ DOMAIN acts = 1..Len(acts)
  OBVIOUS
<1>2. /\ n \in 1..Len(acts) /\ log[acts[n]].str = s
      /\ \A m \in 1..Len(acts) : log[acts[m]].str = s => m \in On(acts, s)
  BY <1>1 DEF On
<1>3. ASSUME \A m \in On(acts, s) : n <= m
      PROVE  inverses[n].before = tables[0][s]
  <2>1. n - 1 \in 0..Len(acts)
    BY <1>1, <1>2
  <2>2. \A m \in 1..Len(acts) : m <= n - 1 => log[acts[m]].str # s
    <3> SUFFICES ASSUME NEW m \in 1..Len(acts), m <= n - 1, log[acts[m]].str = s
                 PROVE  FALSE
      OBVIOUS
    <3>1. n <= m
      BY <1>2, <1>3
    <3> QED
      BY <1>2, <3>1
  <2>3. tables[n - 1][s] = tables[0][s]
    BY <2>1, <2>2, RowStaysSoFar
  <2> QED
    BY <1>2, <2>3 DEF Undoing
<1>4. ASSUME \A m \in On(acts, s) : m <= n
      PROVE  inverses[n].after = tables[Len(acts)][s]
  <2>1. \A m \in 1..Len(acts) : m > n => log[acts[m]].str # s
    <3> SUFFICES ASSUME NEW m \in 1..Len(acts), m > n, log[acts[m]].str = s
                 PROVE  FALSE
      OBVIOUS
    <3>1. m <= n
      BY <1>2, <1>4
    <3> QED
      BY <1>2, <3>1
  <2>2. n \in 0..Len(acts)
    BY <1>1, <1>2
  <2>3. tables[Len(acts)][s] = tables[n][s]
    BY <2>1, <2>2, RowStays
  <2> QED
    BY <1>2, <2>3 DEF Undoing
<1> QED
  BY <1>2, <1>3, <1>4

\* What an undo relies on: both locks, entries that there are, each once.
LEMMA UndoFacts ==
    ASSUME HistoryInv, NEW c \in Clients, pc[c] = "read", IsUndo(req[c])
    PROVE  LET acts == req[c].acts
           IN  /\ acts \in Seq(Nat) /\ Len(acts) \in Nat /\ DOMAIN acts = 1..Len(acts)
               /\ importer = c /\ publisher = c
               /\ req[c].kind \notin RowKinds
               /\ \A n \in 1..Len(acts) :
                     /\ acts[n] \in DOMAIN log /\ log[acts[n]].str \in Strings
                     /\ Exists(copy[c][log[acts[n]].str])
                     /\ \A o \in 1..Len(acts) : acts[o] = acts[n] => o = n
                     /\ req[c].kind = "undo batch" \/ ~req[c].force =>
                           \A j \in DOMAIN log : log[j].revertOf # acts[n]
<1>1. /\ req[c].acts \in Seq(Nat) /\ Len(req[c].acts) \in Nat
      /\ DOMAIN req[c].acts = 1..Len(req[c].acts)
      /\ log \in Seq(Activities) /\ GoodUndo(c)
  BY SessionFacts
<1>2. \A i \in DOMAIN log : log[i].str \in Strings
  BY <1>1, ActivityFields
<1>3. req[c].kind \notin RowKinds
  BY DEF RowKinds, IsUndo
<1> QED
  BY <1>1, <1>2, <1>3 DEF GoodUndo

\* What an undo commits to the table.
LEMMA UndoTable ==
    ASSUME HistoryInv, NEW c \in Clients, pc[c] = "read", IsUndo(req[c]),
           NEW tables, NEW inverses, Undo(c, tables, inverses)
    PROVE  LET acts == req[c].acts
           IN  /\ RowsMove /\ KeysAlive(rows')
               /\ StringsOf(acts) \in SUBSET Strings
               /\ \A s \in StringsOf(acts) :
                     copy[c][s] = rows[s] /\ rows'[s] = tables[Len(acts)][s]
               /\ \A s \in Strings \ StringsOf(acts) : rows'[s] = rows[s]
<1> DEFINE acts == req[c].acts
           S == StringsOf(acts)
           table == [s \in Strings |-> IF s \in S THEN tables[Len(acts)][s] ELSE rows[s]]
<1>1. /\ acts \in Seq(Nat) /\ Len(acts) \in Nat /\ DOMAIN acts = 1..Len(acts)
      /\ \A n \in 1..Len(acts) : log[acts[n]].str \in Strings
  BY UndoFacts
<1>2. /\ Undoing(acts, req[c].force, tables, inverses)
      /\ Claimed(c, S) /\ KeysAlive(table) /\ rows' = table /\ ver' = Stamped(S)
  BY DEF Undo, Undone
<1>3. S \in SUBSET Strings
  BY <1>1 DEF StringsOf
<1>4. \A s \in S : copy[c][s] = rows[s]
  BY <1>2, <1>3, SessionFacts DEF Claimed
<1> HIDE DEF S, acts
<1>5. /\ \A s \in S : table[s] = tables[Len(acts)][s]
      /\ \A s \in Strings \ S : table[s] = rows[s]
  BY <1>3
<1>6. ASSUME NEW s \in S
      PROVE  Follows(rows[s], tables[Len(acts)][s])
  <2>1. /\ tables[Len(acts)] \in [Strings -> Rows] /\ Filled(tables[Len(acts)][s])
    BY <1>1, <1>2, <1>3 DEF Undoing
  <2>2. PICK n \in On(acts, s) : \A m \in On(acts, s) : m <= n
    BY <1>1, EndsOf DEF S
  <2>3. n \in 1..Len(acts) /\ inverses[n].after = tables[Len(acts)][s]
    BY <1>1, <1>2, <1>3, <2>2, RowAtTheEnds
  <2>4. Exists(inverses[n].after)
    BY <1>2, <2>3 DEF Undoing
  <2> QED
    BY <1>3, <2>1, <2>3, <2>4 DEF Follows
<1>7. \A s \in Strings \ S : Follows(rows[s], rows[s])
  BY SessionFacts DEF Follows
<1>8. \A s \in Strings : Follows(rows[s], table[s])
  BY <1>5, <1>6, <1>7
<1>9. table \in [Strings -> Rows]
  <2>1. table = [s \in Strings |-> table[s]]
    OBVIOUS
  <2> HIDE DEF table
  <2> QED
    BY <1>8, <2>1 DEF Follows
<1> HIDE DEF table
<1>10. RowsMove
  BY <1>2, <1>3, <1>5, <1>8, <1>9, StampedMoves
<1> QED
  BY <1>2, <1>3, <1>4, <1>5, <1>10 DEF S, acts

\* No string that an undo puts on another export key shares it with a public one.
LEMMA UndoExport ==
    ASSUME HistoryInv, NEW c \in Clients, pc[c] = "read", IsUndo(req[c]),
           NEW tables, NEW inverses, Undo(c, tables, inverses), KeysPublic(rows)
    PROVE  KeysPublic(rows')
<1> DEFINE acts == req[c].acts
           S == StringsOf(acts)
<1>1. /\ acts \in Seq(Nat) /\ Len(acts) \in Nat /\ DOMAIN acts = 1..Len(acts)
      /\ \A n \in 1..Len(acts) : log[acts[n]].str \in Strings
  BY UndoFacts
<1>2. /\ RowsMove /\ S \in SUBSET Strings
      /\ \A s \in S : copy[c][s] = rows[s] /\ rows'[s] = tables[Len(acts)][s]
      /\ \A s \in Strings \ S : rows'[s] = rows[s]
  BY UndoTable
<1>3. /\ Undoing(acts, req[c].force, tables, inverses) /\ tables[0] = copy[c]
      /\ RestoredPublicationOK(inverses, rows')
  BY DEF Undo, Undone
<1> HIDE DEF acts, S
<1>4. \A r \in Rows : /\ Filled(r) /\ Exported(r) => PublicHold(r) = ExportKey(r) /\ ExportKey(r) # None
                      /\ ~Exported(r) => PublicHold(r) = None
  <2> SUFFICES ASSUME NEW r \in Rows, Filled(r), Exported(r)
               PROVE  ExportKey(r) # None
    BY DEF PublicHold
  <2>1. r.pub # None /\ r.pub \in Contents
    BY RowFields DEF Filled, Exported
  <2>2. r.pub.key \in Keys
    BY <2>1 DEF Contents
  <2> QED
    BY <2>1, <2>2, HistoryAssumption DEF ExportKey
<1>5. \A s \in Strings : /\ rows[s] \in Rows /\ Filled(rows[s])
                         /\ rows'[s] \in Rows /\ Filled(rows'[s])
  BY <1>2, SessionFacts DEF RowsMove, Follows
<1>6. ASSUME NEW s \in Strings, Exported(rows'[s]),
             PublicHold(rows'[s]) # PublicHold(rows[s])
      PROVE  \A t \in Strings \ {s} :
                Exported(rows'[t]) => ExportKey(rows'[t]) # ExportKey(rows'[s])
  <2>1. s \in S
    BY <1>2, <1>6
  <2> DEFINE hold == PublicHold(rows'[s])
             T == {k \in 0..Len(acts) : PublicHold(tables[k][s]) # hold}
  <2>2. T # {}
    <3>1. 0 \in 0..Len(acts)
      BY <1>1
    <3>2. tables[0][s] = rows[s]
      BY <1>2, <1>3, <2>1
    <3> QED
      BY <1>6, <3>1, <3>2
  <2>3. hold # None
    BY <1>4, <1>5, <1>6
  <2>4. PublicHold(tables[Len(acts)][s]) = hold
    BY <1>2, <2>1
  <2> HIDE DEF hold
  <2>5. PICK k \in T : \A j \in T : j <= k
    <3>1. T \in SUBSET (0..Len(acts))
      OBVIOUS
    <3> HIDE DEF T
    <3> QED
      BY <1>1, <2>2, <3>1, GreatestNumber
  <2>6. k \in 0..Len(acts) /\ PublicHold(tables[k][s]) # hold
    BY <2>5
  <2>7. k # Len(acts)
    BY <2>4, <2>6
  <2> DEFINE n == k + 1
  <2>8. /\ n \in 1..Len(acts) /\ n - 1 = k /\ n \in 0..Len(acts) /\ ~(n <= k)
    BY <1>1, <2>6, <2>7
  <2>9. PublicHold(tables[n][s]) = hold
    BY <2>5, <2>8
  <2> HIDE DEF n, T
  <2>10. log[acts[n]].str = s
    BY <1>3, <2>6, <2>8, <2>9 DEF Undoing
  <2>11. /\ inverses[n].act = acts[n]
         /\ inverses[n].before = tables[k][s] /\ inverses[n].after = tables[n][s]
         /\ n \in DOMAIN inverses
    BY <1>1, <1>3, <2>8, <2>10 DEF Undoing
  <2>12. /\ PublicHold(inverses[n].after) # PublicHold(inverses[n].before)
         /\ PublicHold(inverses[n].after) # None
    BY <2>3, <2>6, <2>9, <2>11
  <2> QED
    BY <1>3, <1>6, <2>10, <2>11, <2>12 DEF RestoredPublicationOK
<1>7. ASSUME NEW s \in Strings, NEW t \in Strings, s # t,
             Exported(rows'[s]), Exported(rows'[t]), ExportKey(rows'[s]) = ExportKey(rows'[t])
      PROVE  FALSE
  <2>1. PublicHold(rows'[s]) = PublicHold(rows[s])
    BY <1>6, <1>7
  <2>2. PublicHold(rows'[t]) = PublicHold(rows[t])
    BY <1>6, <1>7
  <2>3. Exported(rows[s]) /\ Exported(rows[t])
    BY <1>4, <1>5, <1>7, <2>1, <2>2
  <2>4. ExportKey(rows[s]) = ExportKey(rows[t])
    BY <1>4, <1>5, <1>7, <2>1, <2>2, <2>3
  <2> QED
    BY <1>7, <2>3, <2>4 DEF KeysPublic
<1> QED
  BY <1>7 DEF KeysPublic

\* The log of an undo: the entries that were, and a marker for each inverse.
LEMMA UndoLog ==
    ASSUME HistoryInv, NEW c \in Clients, pc[c] = "read", IsUndo(req[c]),
           NEW tables, NEW inverses, Undo(c, tables, inverses)
    PROVE  LET acts == req[c].acts
               forced == req[c].kind = "undo" /\ req[c].force
           IN  /\ LogGrows /\ Len(log') = Len(log) + Len(acts)
               /\ \A i \in 1..Len(log) :
                     /\ log'[i].revertedBy \in 0..Len(log')
                     /\ log[i].revertedBy # 0 => log'[i].revertedBy # 0
                     /\ i \in Live /\ (\E n \in 1..Len(acts) : acts[n] = i)
                           => log'[i].revertedBy # 0
               /\ \A n \in 1..Len(acts) :
                     LET marker == log'[Len(log) + n] IN
                     /\ marker.str = log[acts[n]].str /\ marker.action = "update"
                     /\ marker.before = inverses[n].before /\ marker.after = inverses[n].after
                     /\ marker.revertOf = acts[n] /\ marker.revertedBy = 0
                     /\ marker.forced = forced
<1> DEFINE acts == req[c].acts
           forced == req[c].kind = "undo" /\ req[c].force
           position(i) == CHOOSE n \in DOMAIN inverses : inverses[n].act = i
           linked == {inverses[n].act : n \in DOMAIN inverses} \cap Live
           old == [i \in DOMAIN log |->
                     IF i \in linked THEN [log[i] EXCEPT !.revertedBy = Len(log) + position(i)]
                     ELSE log[i]]
           new == [n \in DOMAIN inverses |-> Marker(inverses[n], NextBatch, forced)]
<1>1. /\ acts \in Seq(Nat) /\ Len(acts) \in Nat /\ DOMAIN acts = 1..Len(acts)
      /\ \A n \in 1..Len(acts) : acts[n] \in DOMAIN log /\ log[acts[n]].str \in Strings
  BY UndoFacts
<1>2. /\ Undoing(acts, req[c].force, tables, inverses)
      /\ log' = WithMarkers(inverses, forced)
  BY DEF Undo, Undone
<1>3. log' = old \o new
  BY <1>2 DEF WithMarkers
<1>4. /\ inverses \in Seq(InverseForms) /\ Len(inverses) = Len(acts)
      /\ DOMAIN inverses = 1..Len(acts)
      /\ \A n \in 1..Len(acts) : inverses[n].act = acts[n] /\ inverses[n] \in InverseForms
  <2>1. inverses \in Seq(InverseForms) /\ Len(inverses) = Len(acts)
    BY <1>2 DEF Undoing
  <2> QED
    BY <1>1, <1>2, <2>1 DEF Undoing
<1>5. /\ log \in Seq(Activities) /\ DOMAIN log = 1..Len(log) /\ Len(log) \in Nat
      /\ NextBatch \in Nat
  BY SessionFacts, BatchIsNumber
<1>6. forced \in BOOLEAN
  BY SessionFacts
<1> HIDE DEF acts, forced
<1>7. \A i \in linked : position(i) \in 1..Len(acts)
  <2> TAKE i \in linked
  <2>1. \E n \in DOMAIN inverses : inverses[n].act = i
    OBVIOUS
  <2> QED
    BY <1>4, <2>1
<1>8. \A i \in Live : (\E n \in 1..Len(acts) : acts[n] = i) => i \in linked
  BY <1>4
<1> HIDE DEF position, linked
<1>9. ASSUME NEW i \in 1..Len(log)
      PROVE  /\ old[i] \in Activities /\ SameEntry(log[i], old[i])
             /\ i \in linked => old[i].revertedBy \in 1..(Len(log) + Len(acts))
             /\ i \notin linked => old[i].revertedBy = log[i].revertedBy
  <2>1. log[i] \in Activities
    BY <1>5
  <2>2. CASE i \notin linked
    <3>1. old[i] = log[i]
      BY <1>5, <2>2
    <3> HIDE DEF old
    <3> QED
      BY <2>1, <2>2, <3>1 DEF SameEntry
  <2>3. CASE i \in linked
    <3>1. PICK p \in 1..Len(acts) : p = position(i)
      BY <1>7, <2>3
    <3>2. old[i] = [log[i] EXCEPT !.revertedBy = Len(log) + p]
      BY <1>5, <2>3, <3>1
    <3>3. PICK q \in Nat : q = Len(log) + p
      BY <1>1, <1>5
    <3>4. q \in 1..(Len(log) + Len(acts))
      BY <1>1, <1>5, <3>3
    <3> DEFINE e == log[i]
    <3>5. old[i] = [e EXCEPT !.revertedBy = q]
      BY <3>2, <3>3
    <3>6. e \in Activities
      BY <2>1
    <3> HIDE DEF e, old
    <3>7. /\ old[i] \in Activities /\ SameEntry(e, old[i]) /\ old[i].revertedBy = q
      BY <3>5, <3>6 DEF Activities, SameEntry
    <3> QED
      BY <2>3, <3>4, <3>7 DEF e
  <2> QED
    BY <2>2, <2>3
<1>10. ASSUME NEW n \in 1..Len(acts)
       PROVE  /\ new[n] \in Activities
              /\ new[n].str = log[acts[n]].str /\ new[n].action = "update"
              /\ new[n].before = inverses[n].before /\ new[n].after = inverses[n].after
              /\ new[n].revertOf = acts[n] /\ new[n].revertedBy = 0
              /\ new[n].forced = forced
  <2>1. new[n] = Marker(inverses[n], NextBatch, forced)
    BY <1>4
  <2> HIDE DEF new
  <2> DEFINE s == log[acts[n]].str
             b == inverses[n].before
             a == inverses[n].after
  <2>2. new[n] = [str |-> s, action |-> "update", intent |-> "restore",
                  before |-> b, after |-> a, batch |-> NextBatch,
                  revertOf |-> acts[n], revertedBy |-> 0, forced |-> forced]
    BY <1>4, <2>1 DEF Marker
  <2>3. s \in Strings /\ b \in Rows /\ a \in Rows /\ acts[n] \in Nat
    BY <1>1, <1>4 DEF InverseForms
  <2> HIDE DEF s, b, a
  <2>4. new[n] \in Activities
    BY <1>5, <1>6, <2>2, <2>3 DEF Activities, Snapshots, Actions
  <2>5. /\ new[n].str = s /\ new[n].action = "update"
        /\ new[n].before = b /\ new[n].after = a
        /\ new[n].revertOf = acts[n] /\ new[n].revertedBy = 0
        /\ new[n].forced = forced
    BY <2>2
  <2> QED
    BY <2>4, <2>5 DEF s, b, a
<1>11. old = [i \in 1..Len(log) |-> old[i]] /\ new = [n \in 1..Len(acts) |-> new[n]]
  BY <1>4, <1>5
<1> HIDE DEF old, new
<1>12. old \in Seq(Activities) /\ Len(old) = Len(log)
  <2>1. old \in [1..Len(log) -> Activities]
    BY <1>9, <1>11
  <2> QED
    BY <1>5, <2>1
<1>13. new \in Seq(Activities) /\ Len(new) = Len(acts)
  <2>1. new \in [1..Len(acts) -> Activities]
    BY <1>10, <1>11
  <2> QED
    BY <1>1, <2>1
<1>14. /\ log' \in Seq(Activities) /\ Len(log') = Len(log) + Len(acts)
       /\ \A i \in 1..Len(log) : log'[i] = old[i]
       /\ \A n \in 1..Len(acts) : log'[Len(log) + n] = new[n]
  <2>1. old \in Seq(Activities) /\ new \in Seq(Activities)
    BY <1>12, <1>13
  <2>2. old \o new \in Seq(Activities) /\ Len(old \o new) = Len(old) + Len(new)
    BY <2>1, Joined
  <2>3. \A i \in 1..Len(old) : (old \o new)[i] = old[i]
    BY <2>1, Joined
  <2>4. \A n \in 1..Len(new) : (old \o new)[Len(old) + n] = new[n]
    BY <2>1, Joined
  <2>5. Len(old) = Len(log) /\ Len(new) = Len(acts)
    BY <1>12, <1>13
  <2> QED
    BY <1>3, <2>2, <2>3, <2>4, <2>5
<1>15. LogGrows
  BY <1>1, <1>5, <1>9, <1>14 DEF LogGrows
<1>16. ASSUME NEW i \in 1..Len(log)
       PROVE  /\ log'[i].revertedBy \in 0..Len(log')
              /\ log[i].revertedBy # 0 => log'[i].revertedBy # 0
              /\ i \in Live /\ (\E n \in 1..Len(acts) : acts[n] = i)
                    => log'[i].revertedBy # 0
  <2>1. log[i].revertedBy \in 0..Len(log)
    BY <1>5 DEF HistoryInv, GoodLog, GoodLink
  <2>2. CASE i \in linked
    <3>1. log'[i].revertedBy \in 1..(Len(log) + Len(acts))
      BY <1>9, <1>14, <2>2
    <3> QED
      BY <1>1, <1>5, <1>14, <3>1
  <2>3. CASE i \notin linked
    <3>1. log'[i].revertedBy = log[i].revertedBy
      BY <1>9, <1>14, <2>3
    <3> QED
      BY <1>1, <1>5, <1>8, <1>14, <2>1, <2>3, <3>1
  <2> QED
    BY <2>2, <2>3
<1> QED
  BY <1>10, <1>14, <1>15, <1>16 DEF acts, forced

LEMMA UndoKeeps ==
    ASSUME HistoryInv, NEW c \in Clients, pc[c] = "read", IsUndo(req[c]),
           NEW tables, NEW inverses, Undo(c, tables, inverses), FreshStep(c), pruned' = pruned
    PROVE  /\ RowsMove /\ LogGrows /\ GoodLog' /\ UndoneOnce' /\ KeysAlive(rows')
           /\ ExportStaysUnambiguous'
<1> DEFINE acts == req[c].acts
           forced == req[c].kind = "undo" /\ req[c].force
<1>1. /\ acts \in Seq(Nat) /\ Len(acts) \in Nat /\ DOMAIN acts = 1..Len(acts)
      /\ req[c].kind \notin RowKinds
      /\ \A n \in 1..Len(acts) :
            /\ acts[n] \in DOMAIN log /\ log[acts[n]].str \in Strings
            /\ Exists(copy[c][log[acts[n]].str])
            /\ \A o \in 1..Len(acts) : acts[o] = acts[n] => o = n
            /\ req[c].kind = "undo batch" \/ ~req[c].force =>
                  \A j \in DOMAIN log : log[j].revertOf # acts[n]
  BY UndoFacts
<1>2. /\ LogGrows /\ Len(log') = Len(log) + Len(acts)
      /\ \A i \in 1..Len(log) :
            /\ log'[i].revertedBy \in 0..Len(log')
            /\ log[i].revertedBy # 0 => log'[i].revertedBy # 0
            /\ i \in Live /\ (\E n \in 1..Len(acts) : acts[n] = i)
                  => log'[i].revertedBy # 0
      /\ \A n \in 1..Len(acts) :
            LET marker == log'[Len(log) + n] IN
            /\ marker.str = log[acts[n]].str /\ marker.action = "update"
            /\ marker.before = inverses[n].before /\ marker.after = inverses[n].after
            /\ marker.revertOf = acts[n] /\ marker.revertedBy = 0
            /\ marker.forced = forced
  BY UndoLog
<1>3. RowsMove /\ KeysAlive(rows')
  BY UndoTable
<1>4. /\ log \in Seq(Activities) /\ DOMAIN log = 1..Len(log) /\ Len(log) \in Nat
      /\ log' \in Seq(Activities) /\ DOMAIN log' = 1..Len(log') /\ pruned \in 0..Len(log)
      /\ \A s \in Strings : Exists(copy[c][s]) => Exists(rows'[s])
  BY <1>2, <1>3, SessionFacts DEF LogGrows, RowsMove, Follows
<1>5. Undoing(acts, req[c].force, tables, inverses)
  BY DEF Undo
<1> HIDE DEF acts, forced
<1>6. \A j \in DOMAIN log' : j \in 1..Len(log) \/ \E n \in 1..Len(acts) : j = Len(log) + n
  <2> DEFINE N == Len(log)
             K == Len(acts)
  <2>1. N \in Nat /\ K \in Nat /\ DOMAIN log' = 1..(N + K)
    BY <1>1, <1>2, <1>4
  <2> HIDE DEF N, K
  <2>2. \A j \in 1..(N + K) : j \notin 1..N => j - N \in 1..K /\ j = N + (j - N)
    BY <2>1
  <2> QED
    BY <2>1, <2>2 DEF N, K
<1>7. \A i \in 1..Len(log) : /\ SameEntry(log[i], log'[i]) /\ i \in DOMAIN log'
                             /\ log[i].revertOf \in Nat /\ log[i].str \in Strings
                             /\ GoodEntry(log[i], rows) /\ GoodLink(i)
  <2> TAKE i \in 1..Len(log)
  <2>1. SameEntry(log[i], log'[i]) /\ i \in DOMAIN log'
    BY <1>2, <1>4 DEF LogGrows
  <2>2. log[i] \in Activities /\ GoodEntry(log[i], rows) /\ GoodLink(i)
    BY <1>4 DEF HistoryInv, GoodLog
  <2> QED
    BY <2>1, <2>2, ActivityFields
<1>8. ASSUME NEW i \in 1..Len(log)
      PROVE  GoodEntry(log'[i], rows') /\ GoodLink(i)'
  <2>1. GoodEntry(log'[i], rows')
    BY <1>3, <1>7 DEF GoodEntry, SameEntry, RowsMove, Follows
  <2> DEFINE r == log[i].revertOf
  <2>2. log'[i].revertOf = r /\ r < i /\ r \in Nat /\ (r # 0 /\ r > pruned => log[r].revertedBy # 0)
    BY <1>7 DEF SameEntry, GoodLink
  <2>3. r # 0 => r \in 1..Len(log)
    BY <1>4, <2>2
  <2>4. r # 0 /\ r > pruned => log'[r].revertedBy # 0
    BY <1>2, <2>2, <2>3
  <2>5. log'[i].revertedBy \in 0..Len(log')
    BY <1>2
  <2> HIDE DEF r
  <2> QED
    BY <2>1, <2>2, <2>4, <2>5 DEF GoodLink
<1>9. ASSUME NEW n \in 1..Len(acts), NEW j \in DOMAIN log', j = Len(log) + n
      PROVE  GoodEntry(log'[j], rows') /\ GoodLink(j)'
  <2> DEFINE m == log'[j]
             s == log[acts[n]].str
  <2>1. /\ m.str = s /\ m.action = "update"
        /\ m.before = inverses[n].before /\ m.after = inverses[n].after
        /\ m.revertOf = acts[n] /\ m.revertedBy = 0
    BY <1>2, <1>9
  <2>2. acts[n] \in 1..Len(log) /\ acts[n] < j
    <3>1. acts[n] \in DOMAIN log
      BY <1>1
    <3>2. acts[n] \in 1..Len(log) /\ Len(log) \in Nat
      BY <1>4, <3>1
    <3>3. n \in Nat /\ n > 0
      OBVIOUS
    <3> QED
      BY <1>9, <3>2, <3>3
  <2>3. acts[n] > pruned => log'[acts[n]].revertedBy # 0
    <3>1. acts[n] > pruned => acts[n] \in Live
      BY <1>4, <2>2 DEF Live
    <3> QED
      BY <1>2, <2>2, <3>1
  <2>4. Exists(rows'[s])
    BY <1>1, <1>4
  <2>5. Filled(inverses[n].before) /\ Filled(inverses[n].after)
    <3>1. Len(acts) \in Nat /\ s \in Strings
      BY <1>1
    <3>2. n - 1 \in 0..Len(acts) /\ n \in 0..Len(acts)
      BY <3>1
    <3>3. Filled(tables[n - 1][s]) /\ Filled(tables[n][s])
      BY <1>5, <3>1, <3>2 DEF Undoing
    <3> QED
      BY <1>5, <3>3 DEF Undoing
  <2>6. Exists(inverses[n].before) /\ Exists(inverses[n].after)
    BY <1>5 DEF Undoing
  <2> HIDE DEF m, s
  <2>7. GoodEntry(m, rows')
    BY <2>1, <2>4, <2>5, <2>6 DEF GoodEntry
  <2>8. 0 \in 0..Len(log')
    BY <1>2, <1>4
  <2>9. m.revertOf < j /\ m.revertedBy \in 0..Len(log')
    BY <2>1, <2>2, <2>8
  <2>10. m.revertOf > pruned => log'[m.revertOf].revertedBy # 0
    BY <2>1, <2>3
  <2>11. pruned' = pruned
    OBVIOUS
  <2>12. GoodLink(j)'
    BY <2>9, <2>10, <2>11 DEF GoodLink, m
  <2> QED
    BY <2>7, <2>12 DEF m
<1>10. GoodLog'
  <2> SUFFICES ASSUME NEW j \in DOMAIN log'
               PROVE  GoodEntry(log'[j], rows') /\ GoodLink(j)'
    BY DEF GoodLog
  <2>1. CASE j \in 1..Len(log)
    BY <1>8, <2>1
  <2>2. CASE j \notin 1..Len(log)
    <3>1. PICK n \in 1..Len(acts) : j = Len(log) + n
      BY <1>6, <2>2
    <3> QED
      BY <1>9, <3>1
  <2> QED
    BY <2>1, <2>2
<1>11. \A n \in 1..Len(acts) : forced \/ \A j \in 1..Len(log) : log[j].revertOf # acts[n]
  <2>1. forced \/ req[c].kind = "undo batch" \/ ~req[c].force
    BY DEF forced, IsUndo
  <2> QED
    BY <1>1, <1>4, <2>1
<1>12. ASSUME NEW i \in DOMAIN log', NEW j \in DOMAIN log',
              log'[i].revertOf # 0, log'[i].revertOf = log'[j].revertOf,
              ~log'[i].forced, ~log'[j].forced
       PROVE  i = j
  <2>1. CASE i \in 1..Len(log) /\ j \in 1..Len(log)
    <3>1. SameEntry(log[i], log'[i]) /\ SameEntry(log[j], log'[j])
      BY <1>7, <2>1
    <3> QED
      BY <1>4, <1>12, <2>1, <3>1 DEF HistoryInv, UndoneOnce, SameEntry
  <2>2. ASSUME NEW x \in 1..Len(log), NEW n \in 1..Len(acts),
               log'[x].revertOf = log'[Len(log) + n].revertOf, ~log'[Len(log) + n].forced
        PROVE  FALSE
    <3>1. log[x].revertOf = acts[n]
      BY <1>2, <1>7, <2>2 DEF SameEntry
    <3>2. ~forced
      BY <1>2, <2>2
    <3> QED
      BY <1>11, <3>1, <3>2
  <2>3. ASSUME NEW n \in 1..Len(acts), NEW o \in 1..Len(acts),
               log'[Len(log) + n].revertOf = log'[Len(log) + o].revertOf
        PROVE  n = o
    <3>1. acts[n] = acts[o]
      BY <1>2, <2>3
    <3> QED
      BY <1>1, <3>1
  <2> QED
    BY <1>6, <1>12, <2>1, <2>2, <2>3
<1>13. UndoneOnce'
  BY <1>12 DEF UndoneOnce
<1>14. ExportStaysUnambiguous'
  <2> SUFFICES ASSUME fresh' PROVE KeysPublic(rows')
    BY DEF ExportStaysUnambiguous
  <2>1. KeysPublic(rows)
    BY DEF FreshStep, HistoryInv, ExportStaysUnambiguous
  <2> QED
    BY <2>1, UndoExport
<1> QED
  BY <1>2, <1>3, <1>10, <1>13, <1>14

LEMMA FinishKeeps ==
    ASSUME HistoryInv, NEW c \in Clients, Finish(c)
    PROVE  HistoryInv'
<1>1. /\ pc[c] = "read" /\ Done(c) /\ FreshStep(c) /\ pruned' = pruned
      /\ scene' = scene /\ sent' = sent
  BY DEF Finish, FreshStep
<1>2. fresh' \in BOOLEAN
  BY <1>1, SessionFacts DEF FreshStep
<1>3. CASE RowAction(c) \/ RestoreVersion(c) \/ RestoreLast(c)
  <2>1. WriteKeeps
    BY <1>1, <1>3, RowActionKeeps, RestoreVersionKeeps, RestoreLastKeeps
  <2> QED
    BY <1>1, <1>2, <2>1, DoneKeeps DEF WriteKeeps, PlainStep
<1>4. CASE UndoEntry(c) \/ UndoBatch(c)
  <2>1. IsUndo(req[c])
    BY <1>4 DEF UndoEntry, UndoBatch, IsUndo
  <2>2. PICK tables, inverses : Undo(c, tables, inverses)
    BY <1>1, <1>4, UndoEntryIs, UndoBatchIs
  <2>3. publisher = c /\ importer = c
    BY <1>1, <2>1, UndoFacts
  <2>4. /\ RowsMove /\ LogGrows /\ GoodLog' /\ UndoneOnce' /\ KeysAlive(rows')
        /\ ExportStaysUnambiguous'
    BY <1>1, <2>1, <2>2, UndoKeeps
  <2> QED
    BY <1>1, <1>2, <2>3, <2>4, DoneKeeps
<1> QED
  BY <1>3, <1>4 DEF Finish

-----------------------------------------------------------------------------
(* The inductive invariant.                                                *)

LEMMA InitInv == Init => HistoryInv
<1> SUFFICES ASSUME Init PROVE HistoryInv
  OBVIOUS
<1>1. /\ scene \in Scenes
      /\ rows \in [Strings -> {NoRow} \cup
                      {PublishedRow(x) : x \in [key: scene.keys, text: scene.texts]}]
      /\ KeysAlive(rows) /\ ver = [s \in Strings |-> 0] /\ log = <<>> /\ pruned = 0
      /\ importer = None /\ publisher = None
      /\ pc = [c \in Clients |-> "idle"] /\ req = [c \in Clients |-> NoRequest]
      /\ copy = [c \in Clients |-> NoRows] /\ cver = [c \in Clients |-> ver]
      /\ sent = 0 /\ fresh = TRUE
  BY DEF Init
<1>2. scene.requests \in Nat /\ scene.keys \subseteq Keys /\ scene.texts \subseteq Texts
  BY <1>1, HistoryAssumption
<1>3. NoRow \in Rows /\ Filled(NoRow) /\ ~Exported(NoRow)
  BY DEF NoRow, Rows, Filled, Exists, Exported
<1>4. ASSUME NEW x \in [key: scene.keys, text: scene.texts]
      PROVE  /\ PublishedRow(x) \in Rows /\ Filled(PublishedRow(x))
             /\ ExportKey(PublishedRow(x)) = PublishedRow(x).key
  <2>1. x \in Contents /\ x # None
    BY <1>2, HistoryAssumption DEF Contents
  <2>2. x.key \in Keys /\ x.text \in Texts /\ x.key # None /\ x.text # None
    BY <2>1, HistoryAssumption DEF Contents
  <2>3. PublishedRow(x) = [key |-> x.key, text |-> x.text, pub |-> x, status |-> "public",
                           pending |-> FALSE, deleted |-> FALSE]
    BY DEF PublishedRow
  <2>4. PublishedRow(x) \in Rows
    BY <2>1, <2>2, <2>3 DEF Rows
  <2>5. Filled(PublishedRow(x)) /\ ExportKey(PublishedRow(x)) = PublishedRow(x).key
    BY <2>1, <2>2, <2>3 DEF Filled, ExportKey
  <2> QED
    BY <2>4, <2>5
<1>5. \A s \in Strings : /\ rows[s] \in Rows /\ Filled(rows[s])
                         /\ Exported(rows[s]) => ExportKey(rows[s]) = rows[s].key
  <2> TAKE s \in Strings
  <2>1. rows[s] = NoRow \/ \E x \in [key: scene.keys, text: scene.texts] : rows[s] = PublishedRow(x)
    BY <1>1
  <2> QED
    BY <1>3, <1>4, <2>1
<1>6. KeysPublic(rows)
  BY <1>1, <1>5 DEF KeysPublic, KeysAlive, Exported
<1>7. Typed
  <2>1. /\ rows \in [Strings -> Rows] /\ ver \in [Strings -> Nat]
        /\ cver \in [Clients -> [Strings -> Nat]]
    BY <1>1, <1>5
  <2>2. NoRows \in [Strings -> Rows]
    BY <1>3 DEF NoRows
  <2>3. NoRequest \in RequestForms
    BY DEF NoRequest, RequestForms
  <2>4. log \in Seq(Activities) /\ pruned \in 0..Len(log) /\ sent \in 0..scene.requests
    BY <1>1, <1>2
  <2> QED
    BY <1>1, <2>1, <2>2, <2>3, <2>4 DEF Typed
<1>8. DOMAIN log = {}
  BY <1>1
<1> QED
  BY <1>1, <1>5, <1>6, <1>7, <1>8
  DEF HistoryInv, GoodLog, GoodSession, UndoneOnce, ExportStaysUnambiguous

LEMMA StutterKeeps == HistoryInv /\ UNCHANGED vars => HistoryInv'
<1> SUFFICES ASSUME HistoryInv, UNCHANGED vars PROVE HistoryInv'
  OBVIOUS
<1>1. UNCHANGED <<rows, ver, log, pruned, importer, publisher, pc, req, copy, cver, scene,
                  sent, fresh>>
  BY DEF vars, locks, session
<1>2. Typed'
  BY <1>1 DEF HistoryInv, Typed
<1>3. GoodLog' /\ UndoneOnce' /\ ExportStaysUnambiguous'
  BY <1>1 DEF HistoryInv, GoodLog, GoodLink, UndoneOnce, ExportStaysUnambiguous
<1>4. ASSUME NEW c \in Clients PROVE GoodSession(c)'
  <2>1. GoodSession(c)
    BY DEF HistoryInv
  <2> QED
    BY <1>1, <2>1 DEF GoodSession, Remembers, GoodRows, GoodVersion, GoodUndo, GoodPublish,
                      IsHistoryRestorable, EventType
<1> QED
  BY <1>1, <1>2, <1>3, <1>4 DEF HistoryInv

LEMMA NextKeeps == HistoryInv /\ [Next]_vars => HistoryInv'
<1> SUFFICES ASSUME HistoryInv, [Next]_vars PROVE HistoryInv'
  OBVIOUS
<1>1. CASE \E s \in Strings, key \in scene.keys, text \in scene.texts, publish \in BOOLEAN :
              Edit(s, key, text, publish)
  BY <1>1, EditKeeps
<1>2. CASE \E T \in SUBSET Strings \ {{}}, text \in scene.texts, key \in scene.keys :
              Import(T, text, key)
  BY <1>2, ImportKeeps
<1>3. CASE Prune
  BY <1>3, PruneKeeps
<1>4. CASE \E c \in Clients : (\E q \in Offered : Begin(c, q)) \/ Finish(c) \/ GiveUp(c)
  BY <1>4, BeginKeeps, FinishKeeps, GiveUpKeeps
<1>5. CASE UNCHANGED vars
  BY <1>5, StutterKeeps
<1> QED
  BY <1>1, <1>2, <1>3, <1>4, <1>5 DEF Next

LEMMA InvHolds == Spec => []HistoryInv
<1> QED
  BY InitInv, NextKeeps, PTL DEF Spec

\* The log is a log, an entry is undone once, and the export stays unambiguous, for any
\* strings, clients and scenes (reverted_by_id, _guard_restored_publication).
THEOREM HistoryStaysSound == Spec => []LogSound
<1>1. HistoryInv => LogSound
  <2> SUFFICES ASSUME HistoryInv PROVE LogSound
    OBVIOUS
  <2>1. Typed /\ GoodLog /\ UndoneOnce /\ ExportStaysUnambiguous
    BY DEF HistoryInv
  <2>2. \A i \in DOMAIN log : /\ log[i] \in Activities /\ log[i].revertOf < i
                              /\ log[i].revertedBy \in 0..Len(log)
    BY <2>1 DEF Typed, GoodLog, GoodLink
  <2>3. ASSUME NEW c \in Clients
        PROVE  /\ pc[c] = "idle" <=> req[c] = NoRequest
               /\ pc[c] \in {"idle", "read"}
               /\ req[c].kind \in RequestKinds \cup {"none"}
               /\ copy[c] \in [Strings -> Rows]
               /\ cver[c] \in [Strings -> Nat]
    <3>1. GoodSession(c)
      BY DEF HistoryInv
    <3>2. NoRequest.kind = "none"
      BY DEF NoRequest
    <3>3. req[c] \in RequestForms
      BY <2>1 DEF Typed
    <3> QED
      BY <2>1, <3>1, <3>2, <3>3 DEF Typed, GoodSession, RequestForms
  <2>4. TypeOK
    BY <2>1, <2>2, <2>3 DEF TypeOK, Typed
  <2> QED
    BY <2>1, <2>4 DEF LogSound
<1> QED
  BY <1>1, InvHolds, PTL

-----------------------------------------------------------------------------
(* What an undo promises.                                                  *)

\* A step that commits the undo of a session is that undo.
LEMMA UndoStep ==
    ASSUME HistoryInv, [Next]_vars, NEW c \in Clients, UndoCommits(c)
    PROVE  \E tables, inverses : Undo(c, tables, inverses)
<1>1. pc[c] = "read" /\ pc'[c] = "idle" /\ IsUndo(req[c]) /\ log' # log
  BY DEF UndoCommits
<1>2. pc \in [Clients -> {"idle", "read"}]
  BY DEF HistoryInv, Typed
<1>3. pc' # pc
  BY <1>1
<1>4. CASE \E s \in Strings, key \in scene.keys, text \in scene.texts, publish \in BOOLEAN :
              Edit(s, key, text, publish)
  BY <1>3, <1>4 DEF Edit, session
<1>5. CASE \E T \in SUBSET Strings \ {{}}, text \in scene.texts, key \in scene.keys :
              Import(T, text, key)
  BY <1>3, <1>5 DEF Import, session
<1>6. CASE Prune
  BY <1>3, <1>6 DEF Prune, session
<1>7. CASE UNCHANGED vars
  BY <1>3, <1>7 DEF vars, session
<1>8. ASSUME NEW d \in Clients, \E q \in Offered : Begin(d, q)
      PROVE  FALSE
  <2>1. pc' = [pc EXCEPT ![d] = "read"]
    BY <1>8 DEF Begin
  <2> QED
    BY <1>1, <1>2, <2>1
<1>9. ASSUME NEW d \in Clients, GiveUp(d)
      PROVE  FALSE
  BY <1>1, <1>9 DEF GiveUp
<1>10. ASSUME NEW d \in Clients, Finish(d)
       PROVE  \E tables, inverses : Undo(c, tables, inverses)
  <2>1. Done(d)
    BY <1>10 DEF Finish
  <2>2. d = c
    BY <1>1, <1>2, <2>1 DEF Done
  <2>3. UndoEntry(c) \/ UndoBatch(c)
    BY <1>1, <1>10, <2>2
    DEF Finish, IsUndo, RowAction, RestoreVersion, RestoreLast, RowKinds
  <2> QED
    BY <1>1, <2>3, UndoEntryIs, UndoBatchIs
<1> QED
  BY <1>4, <1>5, <1>6, <1>7, <1>8, <1>9, <1>10 DEF Next

LEMMA ExactStep ==
    ASSUME HistoryInv, [Next]_vars, NEW c \in Clients, UndoCommits(c), ~req[c].force,
           NEW s \in StringsOf(req[c].acts)
    PROVE  LET acts == req[c].acts
           IN  /\ rows[s] = Newest(acts, s).after
               /\ IF Oldest(acts, s).action = "create"
                  THEN rows'[s].deleted \/ rows'[s].pending
                  ELSE rows'[s] = Oldest(acts, s).before
<1> DEFINE acts == req[c].acts
<1>1. PICK tables, inverses : Undo(c, tables, inverses)
  BY UndoStep
<1>2. pc[c] = "read" /\ IsUndo(req[c])
  BY DEF UndoCommits
<1>3. /\ acts \in Seq(Nat) /\ Len(acts) \in Nat
      /\ Undoing(acts, req[c].force, tables, inverses) /\ tables[0] = copy[c]
  BY <1>1, <1>2, UndoFacts DEF Undo
<1>4. /\ s \in Strings /\ copy[c][s] = rows[s] /\ rows'[s] = tables[Len(acts)][s]
  BY <1>1, <1>2, UndoTable
<1> HIDE DEF acts
<1> DEFINE first == CHOOSE n \in On(acts, s) : \A m \in On(acts, s) : n <= m
           last == CHOOSE n \in On(acts, s) : \A m \in On(acts, s) : m <= n
<1>5. /\ first \in On(acts, s) /\ \A m \in On(acts, s) : first <= m
      /\ last \in On(acts, s) /\ \A m \in On(acts, s) : m <= last
  <2>1. s \in StringsOf(acts)
    BY DEF acts
  <2>2. \E n \in On(acts, s) : \A m \in On(acts, s) : n <= m
    BY <1>3, <2>1, EndsOf
  <2>3. \E n \in On(acts, s) : \A m \in On(acts, s) : m <= n
    BY <1>3, <2>1, EndsOf
  <2> QED
    BY <2>2, <2>3
<1>6. Newest(acts, s) = log[acts[first]] /\ Oldest(acts, s) = log[acts[last]]
  BY DEF Newest, Oldest
<1> HIDE DEF first, last
<1>7. rows[s] = log[acts[first]].after
  <2>1. first \in 1..Len(acts) /\ log[acts[first]].str = s /\ inverses[first].before = rows[s]
    BY <1>3, <1>4, <1>5, RowAtTheEnds
  <2>2. inverses[first].before = tables[first - 1][s] /\ tables[first - 1][s] = log[acts[first]].after
    BY <1>3, <2>1 DEF Undoing
  <2> QED
    BY <2>1, <2>2
<1>8. IF log[acts[last]].action = "create"
      THEN rows'[s].deleted \/ rows'[s].pending
      ELSE rows'[s] = log[acts[last]].before
  <2>1. last \in 1..Len(acts) /\ log[acts[last]].str = s /\ inverses[last].after = rows'[s]
    BY <1>3, <1>4, <1>5, RowAtTheEnds
  <2> DEFINE r == tables[last - 1][s]
  <2>2. inverses[last].after = RevertTarget(log[acts[last]], r)
    BY <1>3, <2>1 DEF Undoing
  <2>3. r \in Rows
    <3>1. last - 1 \in 0..Len(acts)
      BY <1>3, <2>1
    <3> QED
      BY <1>3, <1>4, <3>1 DEF Undoing
  <2> HIDE DEF r
  <2>4. CASE log[acts[last]].action = "create"
    BY <2>1, <2>2, <2>3, <2>4, RevertedCreation
  <2>5. CASE log[acts[last]].action # "create"
    BY <2>1, <2>2, <2>5 DEF RevertTarget
  <2> QED
    BY <2>4, <2>5
<1> QED
  BY <1>6, <1>7, <1>8 DEF acts

\* An undo that is not forced writes over exactly what its entries recorded, and leaves
\* the row before the oldest of them, or a removal (_plan_batch_revert, claim_rows).
THEOREM UndosAreExact == Spec => UndoIsExact
<1>1. HistoryInv /\ [Next]_vars =>
         [\A c \in Clients :
             UndoCommits(c) /\ ~req[c].force =>
                 LET acts == req[c].acts IN
                 \A s \in StringsOf(acts) :
                     /\ rows[s] = Newest(acts, s).after
                     /\ IF Oldest(acts, s).action = "create"
                        THEN rows'[s].deleted \/ rows'[s].pending
                        ELSE rows'[s] = Oldest(acts, s).before]_vars
  BY ExactStep
<1> QED
  BY <1>1, InvHolds, PTL DEF Spec, UndoIsExact

LEMMA MarkerStep ==
    ASSUME HistoryInv, [Next]_vars, NEW c \in Clients, UndoCommits(c),
           NEW n \in DOMAIN req[c].acts
    PROVE  LET acts == req[c].acts
               marker == log'[Len(log) + n]
               s == log[acts[n]].str
           IN  /\ (\A m \in On(acts, s) : n <= m) => marker.before = rows[s]
               /\ (\A m \in On(acts, s) : m <= n) => marker.after = rows'[s]
<1> DEFINE acts == req[c].acts
           s == log[acts[n]].str
<1>1. PICK tables, inverses : Undo(c, tables, inverses)
  BY UndoStep
<1>2. pc[c] = "read" /\ IsUndo(req[c])
  BY DEF UndoCommits
<1>3. /\ acts \in Seq(Nat) /\ n \in 1..Len(acts) /\ n \in On(acts, s)
      /\ Undoing(acts, req[c].force, tables, inverses) /\ tables[0] = copy[c]
  BY <1>1, <1>2, UndoFacts DEF Undo, On
<1>4. s \in StringsOf(acts)
  BY DEF StringsOf
<1>5. s \in Strings /\ copy[c][s] = rows[s] /\ rows'[s] = tables[Len(acts)][s]
  BY <1>1, <1>2, <1>4, UndoTable
<1>6. /\ log'[Len(log) + n].before = inverses[n].before
      /\ log'[Len(log) + n].after = inverses[n].after
  BY <1>1, <1>2, <1>3, UndoLog
<1> HIDE DEF acts, s
<1>7. /\ (\A m \in On(acts, s) : n <= m) => inverses[n].before = tables[0][s]
      /\ (\A m \in On(acts, s) : m <= n) => inverses[n].after = tables[Len(acts)][s]
  BY <1>3, <1>5, RowAtTheEnds
<1> QED
  BY <1>3, <1>5, <1>6, <1>7 DEF acts, s

\* The markers of an undo, forced or not, start from the row that was committed and end
\* with the row that is (_make_revert_marker, after the version check).
THEOREM MarkersAreTrue == Spec => MarkersTellTheTruth
<1>1. HistoryInv /\ [Next]_vars =>
         [\A c \in Clients :
             UndoCommits(c) =>
                 LET acts == req[c].acts
                     marker(n) == log'[Len(log) + n]
                 IN \A n \in DOMAIN acts :
                       LET s == log[acts[n]].str IN
                       /\ (\A m \in On(acts, s) : n <= m) => marker(n).before = rows[s]
                       /\ (\A m \in On(acts, s) : m <= n) => marker(n).after = rows'[s]]_vars
  BY MarkerStep
<1> QED
  BY <1>1, InvHolds, PTL DEF Spec, MarkersTellTheTruth

-----------------------------------------------------------------------------
(* What the previews promise.                                              *)

\* A key has another owner exactly where it is not free.
LEMMA TakenIsNotFree ==
    ASSUME NEW table \in [Strings -> Rows], \A s \in Strings : Filled(table[s]),
           KeysAlive(table), NEW s \in Strings, NEW target \in Rows, Filled(target)
    PROVE  Taken(Owners(table), s, target)
              <=> ~(Alive(target) => KeyFree(table, s, target.key))
<1>1. CASE ~Alive(target)
  BY <1>1 DEF Taken
<1>2. CASE Alive(target)
  <2> DEFINE k == target.key
             owner == Owners(table)[k]
             holds(t) == Alive(table[t]) /\ table[t].key = k
  <2>1. k \in Keys
    BY <1>2, RowFields DEF Filled, Alive
  <2>2. owner = IF \E t \in Strings : holds(t) THEN CHOOSE t \in Strings : holds(t) ELSE None
    BY <2>1 DEF Owners
  <2>3. Taken(Owners(table), s, target) <=> owner \notin {None, s}
    BY <1>2 DEF Taken
  <2>4. KeyFree(table, s, k) <=> \A t \in Strings : t # s => ~holds(t)
    BY DEF KeyFree
  <2>5. \A t, u \in Strings : holds(t) /\ holds(u) => t = u
    BY DEF KeysAlive
  <2> HIDE DEF owner, holds
  <2>6. CASE \E t \in Strings : holds(t)
    <3>1. owner \in Strings /\ holds(owner)
      BY <2>2, <2>6
    <3>2. owner # None
      BY <3>1, HistoryAssumption
    <3>3. KeyFree(table, s, k) <=> owner = s
      BY <2>4, <2>5, <3>1
    <3> QED
      BY <1>2, <2>3, <3>2, <3>3
  <2>7. CASE ~\E t \in Strings : holds(t)
    <3>1. owner = None
      BY <2>2, <2>7
    <3> QED
      BY <1>2, <2>3, <2>4, <2>7, <3>1
  <2> QED
    BY <2>6, <2>7
<1> QED
  BY <1>1, <1>2

\* A preview that has not met a refusal shows the rows that the plan has.
InStep(force, plan, view) ==
    /\ ~view.blocked => plan.rows = view.rows /\ plan.owners = view.owners
    /\ plan.ok <=> (~view.blocked /\ (force \/ ~view.conflict))

LEMMA StepsAgree ==
    ASSUME NEW force \in BOOLEAN, NEW plan, NEW view, InStep(force, plan, view), NEW i
    PROVE  InStep(force, PlanStep(plan, i, force), PreviewItem(view, i))
<1> DEFINE a == log[i]
           s == a.str
           current == view.rows[s]
           target == RevertTarget(a, current)
           blocked == Taken(view.owners, s, target)
           conflict == ~SnapshotsMatch(current, a.after)
           next == PreviewItem(view, i)
           then == PlanStep(plan, i, force)
           inverse == InverseOf(plan.rows, i)
<1>1. /\ next.blocked <=> (view.blocked \/ blocked)
      /\ next.conflict <=> (view.conflict \/ conflict)
      /\ next.rows = IF blocked THEN view.rows ELSE [view.rows EXCEPT ![s] = target]
      /\ next.owners = IF blocked THEN view.owners
                       ELSE Handover(view.owners, s, current, target)
  <2> HIDE DEF target, blocked, conflict, current, s
  <2>1. next = [blocked |-> view.blocked \/ blocked, conflict |-> view.conflict \/ conflict,
                rows |-> IF blocked THEN view.rows ELSE [view.rows EXCEPT ![s] = target],
                owners |-> IF blocked THEN view.owners
                           ELSE Handover(view.owners, s, current, target)]
    BY DEF PreviewItem, target, blocked, conflict, current, s
  <2> HIDE DEF next
  <2> QED
    BY <2>1
<1>2. /\ inverse.before = plan.rows[s] /\ inverse.after = RevertTarget(a, plan.rows[s])
  BY DEF InverseOf
<1>3. /\ then.ok <=> (/\ plan.ok
                      /\ ~Taken(plan.owners, s, inverse.after)
                      /\ force \/ SnapshotsMatch(inverse.before, a.after))
      /\ then.rows = [plan.rows EXCEPT ![s] = inverse.after]
      /\ then.owners = Handover(plan.owners, s, inverse.before, inverse.after)
  <2> HIDE DEF inverse
  <2>1. then = [ok |-> /\ plan.ok
                       /\ ~Taken(plan.owners, s, inverse.after)
                       /\ force \/ SnapshotsMatch(inverse.before, a.after),
                rows |-> [plan.rows EXCEPT ![s] = inverse.after],
                owners |-> Handover(plan.owners, s, inverse.before, inverse.after),
                inverses |-> Append(plan.inverses, inverse)]
    BY DEF PlanStep, inverse
  <2> HIDE DEF then
  <2> QED
    BY <2>1
<1> HIDE DEF next, then, inverse
<1>4. ASSUME view.blocked
      PROVE  ~then.ok /\ next.blocked
  <2> HIDE DEF blocked, conflict, target, current, s, a
  <2>1. ~plan.ok
    BY <1>4 DEF InStep
  <2>2. then.ok => plan.ok
    BY <1>3, Zenon
  <2>3. next.blocked
    BY <1>1, <1>4, Zenon
  <2> QED
    BY <2>1, <2>2, <2>3
<1>5. ASSUME ~view.blocked
      PROVE  /\ ~next.blocked => then.rows = next.rows /\ then.owners = next.owners
             /\ then.ok <=> (~next.blocked /\ (force \/ ~next.conflict))
  <2>1. plan.rows = view.rows /\ plan.owners = view.owners
    BY <1>5 DEF InStep
  <2>2. inverse.before = current /\ inverse.after = target
    BY <1>2, <2>1
  <2>3. Taken(plan.owners, s, inverse.after) <=> blocked
    BY <2>1, <2>2
  <2>4. SnapshotsMatch(inverse.before, a.after) <=> ~conflict
    BY <2>2
  <2> HIDE DEF blocked, conflict, target, current, s
  <2>5. ~blocked => then.rows = next.rows /\ then.owners = next.owners
    BY <1>1, <1>3, <2>1, <2>2
  <2>6. then.ok <=> (plan.ok /\ ~blocked /\ (force \/ ~conflict))
    BY <1>3, <2>3, <2>4
  <2>7. plan.ok <=> (force \/ ~view.conflict)
    BY <1>5 DEF InStep
  <2>8. next.blocked <=> blocked
    BY <1>1, <1>5, Zenon
  <2>9. next.conflict <=> (view.conflict \/ conflict)
    BY <1>1, Zenon
  <2>10. then.ok <=> (~next.blocked /\ (force \/ ~next.conflict))
    BY <2>6, <2>7, <2>8, <2>9, Zenon
  <2> QED
    BY <2>5, <2>8, <2>10
<1>6. InStep(force, then, next)
  <2> HIDE DEF blocked, conflict, target, current, s, a
  <2> QED
    BY <1>4, <1>5 DEF InStep
<1> QED
  BY <1>6 DEF next, then

\* The plan of a batch is refused where its preview shows a refusal or a conflict.
LEMMA BatchPreview ==
    ASSUME NEW force \in BOOLEAN, NEW table, NEW acts \in Seq(Nat)
    PROVE  Plan(table, acts, force).ok
              <=> (/\ ~Preview(table, acts).blocked
                   /\ force \/ ~Preview(table, acts).conflict)
<1>1. PICK f : IsRun("plan", force, PlanStart(table), acts, Plan(table, acts, force), f)
  BY PlanIsRun
<1>2. PICK g : IsRun("preview", TRUE, PreviewStart(table), acts, Preview(table, acts), g)
  BY PreviewIsRun
<1>3. Len(acts) \in Nat
  OBVIOUS
<1>4. f[0] = PlanStart(table) /\ g[0] = PreviewStart(table)
  BY <1>1, <1>2 DEF IsRun
<1>5. \A k \in Nat : k < Len(acts) => /\ f[k + 1] = PlanStep(f[k], acts[k + 1], force)
                                      /\ g[k + 1] = PreviewItem(g[k], acts[k + 1])
  BY <1>1, <1>2 DEF IsRun, FoldStep
<1> DEFINE T == {k \in Nat : k <= Len(acts) => InStep(force, f[k], g[k])}
<1>6. 0 \in T
  <2>1. InStep(force, f[0], g[0])
    BY <1>4 DEF InStep, PlanStart, PreviewStart
  <2> QED
    BY <2>1
<1>7. ASSUME NEW k \in T
      PROVE  k + 1 \in T
  <2>1. k \in Nat /\ k + 1 \in Nat
    OBVIOUS
  <2>2. ASSUME k + 1 <= Len(acts)
        PROVE  InStep(force, f[k + 1], g[k + 1])
    <3>1. k < Len(acts) /\ InStep(force, f[k], g[k])
      BY <1>3, <2>1, <2>2
    <3>2. InStep(force, PlanStep(f[k], acts[k + 1], force), PreviewItem(g[k], acts[k + 1]))
      BY <3>1, StepsAgree
    <3> QED
      BY <1>5, <2>1, <3>1, <3>2
  <2> QED
    BY <2>1, <2>2
<1>8. T = Nat
  <2>1. T \in SUBSET Nat
    OBVIOUS
  <2> HIDE DEF T
  <2> QED
    BY <1>6, <1>7, <2>1, Induction
<1>9. InStep(force, f[Len(acts)], g[Len(acts)])
  BY <1>3, <1>8
<1>10. f[Len(acts)] = Plan(table, acts, force) /\ g[Len(acts)] = Preview(table, acts)
  BY <1>1, <1>2 DEF IsRun
<1> QED
  BY <1>9, <1>10 DEF InStep

\* The preview of one entry.
LEMMA EntryPreview ==
    ASSUME HistoryInv, NEW acts \in Seq(Nat), Len(acts) = 1, acts[1] \in DOMAIN log,
           NEW force \in BOOLEAN
    PROVE  EntryUndoable(rows, acts[1], force)
              <=> (/\ ~Preview(rows, acts).blocked
                   /\ force \/ ~Preview(rows, acts).conflict)
<1> DEFINE i == acts[1]
           s == log[i].str
           target == RevertTarget(log[i], rows[s])
           view == Preview(rows, acts)
<1>1. /\ rows \in [Strings -> Rows] /\ \A t \in Strings : Filled(rows[t])
      /\ KeysAlive(rows) /\ log[i] \in Activities /\ GoodEntry(log[i], rows)
  BY DEF HistoryInv, Typed, GoodLog
<1>2. s \in Strings /\ Exists(rows[s])
  BY <1>1, ActivityFields DEF GoodEntry
<1>3. target \in Rows /\ Filled(target)
  BY <1>1, <1>2, ActivityFields, RevertedRow DEF GoodEntry
<1>4. PICK g : IsRun("preview", TRUE, PreviewStart(rows), acts, view, g)
  BY PreviewIsRun
<1>5. view = PreviewItem(PreviewStart(rows), i)
  <2>1. 0 < Len(acts) /\ 0 \in Nat /\ 0 + 1 = 1
    OBVIOUS
  <2>2. g[0] = PreviewStart(rows) /\ g[1] = FoldStep("preview", TRUE, g[0], acts[1])
    BY <1>4, <2>1 DEF IsRun
  <2>3. view = g[1]
    BY <1>4 DEF IsRun
  <2> QED
    BY <2>2, <2>3 DEF FoldStep
<1> HIDE DEF view
<1>6. /\ PreviewStart(rows).blocked = FALSE /\ PreviewStart(rows).conflict = FALSE
      /\ PreviewStart(rows).rows = rows /\ PreviewStart(rows).owners = Owners(rows)
  BY DEF PreviewStart
<1>7. /\ view.blocked <=> Taken(Owners(rows), s, target)
      /\ view.conflict <=> ~SnapshotsMatch(rows[s], log[i].after)
  BY <1>5, <1>6 DEF PreviewItem
<1>8. InverseOf(rows, i).before = rows[s] /\ InverseOf(rows, i).after = target
  BY DEF InverseOf
<1> HIDE DEF target
<1>9. EntryUndoable(rows, i, force)
         <=> (/\ Alive(target) => KeyFree(rows, s, target.key)
              /\ force \/ SnapshotsMatch(rows[s], log[i].after))
  BY <1>8 DEF EntryUndoable
<1>10. Taken(Owners(rows), s, target) <=> ~(Alive(target) => KeyFree(rows, s, target.key))
  BY <1>1, <1>2, <1>3, TakenIsNotFree
<1> QED
  BY <1>7, <1>9, <1>10 DEF view

LEMMA UndoPreviews == HistoryInv => PreviewAgrees
<1> SUFFICES ASSUME HistoryInv, NEW q \in UndosOffered, NEW force \in BOOLEAN
             PROVE  LET shown == Preview(rows, q.acts) IN
                    Accepts(rows, q, force) <=> (~shown.blocked /\ (force \/ ~shown.conflict))
  BY DEF PreviewAgrees
<1>1. Wellformed(q) /\ IsUndo(q)
  BY OfferedForms DEF UndosOffered
<1>2. q.acts \in Seq(Nat)
  BY <1>1 DEF Wellformed, RequestForms
<1>3. CASE q.kind = "undo"
  <2>1. Len(q.acts) = 1 /\ q.acts[1] \in Live
    BY <1>1, <1>3 DEF Wellformed
  <2>2. q.acts[1] \in DOMAIN log
    <3>1. log \in Seq(Activities) /\ pruned \in 0..Len(log)
      BY DEF HistoryInv, Typed
    <3> QED
      BY <2>1, <3>1 DEF Live
  <2> QED
    BY <1>2, <1>3, <2>1, <2>2, EntryPreview DEF Accepts
<1>4. CASE q.kind = "undo batch"
  BY <1>2, <1>4, BatchPreview DEF Accepts
<1> QED
  BY <1>1, <1>3, <1>4 DEF IsUndo

LEMMA VersionPreviews == HistoryInv => VersionPreviewAgrees
<1> SUFFICES ASSUME HistoryInv, NEW c \in Clients, req[c].kind = "version", copy[c] = rows
             PROVE  VersionPreview(rows, req[c].acts[1]) <=>
                       VersionAllowed(c) /\ KeysAlive(Merged(c, WithVersion(c)))
  BY DEF VersionPreviewAgrees
<1>1. pc[c] = "read"
  <2>1. GoodSession(c) /\ pc[c] \in {"idle", "read"}
    BY DEF HistoryInv, Typed
  <2>2. NoRequest.kind # "version"
    BY DEF NoRequest
  <2> QED
    BY <2>1, <2>2 DEF GoodSession
<1> DEFINE s == req[c].strs[1]
           i == req[c].acts[1]
           target == HistoryTarget(rows[s], log[i].after)
<1>2. /\ i \in DOMAIN log /\ log[i].str = s /\ IsHistoryRestorable(log[i])
      /\ Exists(rows[s]) /\ s \in Strings
  <2>1. GoodVersion(c) /\ log \in Seq(Activities)
    BY <1>1, SessionFacts
  <2> QED
    BY <2>1, ActivityFields DEF GoodVersion
<1>3. VersionTarget(c) = target /\ WithVersion(c) = [rows EXCEPT ![s] = target]
  BY DEF VersionTarget, WithVersion
<1>4. VersionPreview(rows, i) <=> VersionAllowed(c)
  BY <1>2, <1>3 DEF VersionPreview, VersionAllowed
<1>5. ASSUME VersionAllowed(c)
      PROVE  KeysAlive(Merged(c, WithVersion(c)))
  <2>1. KeyFree(rows, s, target.key)
    BY <1>3, <1>5 DEF VersionAllowed
  <2>2. /\ rows \in [Strings -> Rows] /\ rows[s] \in Rows /\ Filled(rows[s]) /\ KeysAlive(rows)
    BY <1>1, <1>2, SessionFacts DEF HistoryInv
  <2>3. log[i].after \in Rows /\ Filled(log[i].after) /\ Exists(log[i].after)
    <3>1. GoodEntry(log[i], rows) /\ log[i] \in Activities
      BY <1>1, <1>2, SessionFacts DEF HistoryInv, GoodLog
    <3> QED
      BY <3>1, ActivityFields DEF GoodEntry
  <2>4. target \in Rows
    BY <1>2, <2>2, <2>3, TameHandlers DEF Tame
  <2> HIDE DEF target
  <2>5. /\ WithVersion(c) \in [Strings -> Rows] /\ WithVersion(c)[s] = target
        /\ \A t \in Strings \ {s} : WithVersion(c)[t] = rows[t]
    BY <1>2, <1>3, <2>2, <2>4
  <2>6. /\ Merged(c, WithVersion(c))[s] = target
        /\ \A t \in Strings \ {s} : Merged(c, WithVersion(c))[t] = rows[t]
    <3>1. Changed(rows[s], target, rows[s]) = target
      BY <2>2, <2>4, ChangedFresh
    <3> QED
      BY <1>1, <1>2, <2>5, <3>1, MergedFields
  <2> DEFINE table == Merged(c, WithVersion(c))
  <2> HIDE DEF table
  <2>7. table[s] = target /\ \A t \in Strings \ {s} : table[t] = rows[t]
    BY <2>6 DEF table
  <2>8. KeysAlive(table)
    <3> SUFFICES ASSUME NEW t \in Strings, NEW u \in Strings,
                        Alive(table[t]), Alive(table[u]), table[t].key = table[u].key
                 PROVE  t = u
      BY DEF KeysAlive
    <3> QED
      BY <2>1, <2>2, <2>7 DEF KeysAlive, KeyFree
  <2> QED
    BY <2>8 DEF table
<1> QED
  BY <1>4, <1>5

\* The previews of an undo and of a version say what the write will do, for any log
\* (build_revert_preview, preview_restore_activity_version).
THEOREM PreviewsTellTheTruth == Spec => []PreviewsAgree
<1>1. HistoryInv => PreviewsAgree
  BY UndoPreviews, VersionPreviews DEF PreviewsAgree
<1> QED
  BY <1>1, InvHolds, PTL
=============================================================================
