-------------------------- MODULE Publication_proofs ---------------------------
(***************************************************************************)
(* Publication is safe for any strings, keys, texts, clients and scenes.   *)
(***************************************************************************)
EXTENDS Publication, TLAPS

\* A string that exists has a key and a text, and a snapshot once it is public; one that
\* does not is blank.
Whole(r) ==
    /\ r.status # "none" => r.key # None /\ r.text # None
    /\ r.status = "public" => r.pub # None
    /\ r.status = "none" => r.key = None /\ r.text = None /\ r.pub = None
                            /\ ~r.pending /\ ~r.deleted

\* What never goes away: existence, and having been published.
Grows(r, now) == (Exists(r) => Exists(now)) /\ (r.pub # None => now.pub # None)

-----------------------------------------------------------------------------
LEMMA RowFields ==
    ASSUME NEW r \in Rows
    PROVE  /\ r.key \in Keys \cup {None} /\ r.text \in Texts \cup {None}
           /\ r.pub \in Contents \cup {None} /\ r.status \in {"none", "draft", "public"}
           /\ r.pending \in BOOLEAN /\ r.deleted \in BOOLEAN
           /\ DOMAIN r = {"key", "text", "pub", "status", "pending", "deleted"}
  BY DEF Rows

LEMMA ChangedFields ==
    ASSUME NEW b \in Rows, NEW a \in Rows, NEW n \in Rows
    PROVE  /\ Changed(b, a, n).key = IF a.key # b.key THEN a.key ELSE n.key
           /\ Changed(b, a, n).text = IF a.text # b.text THEN a.text ELSE n.text
           /\ Changed(b, a, n).pub = IF a.pub # b.pub THEN a.pub ELSE n.pub
           /\ Changed(b, a, n).status = IF a.status # b.status THEN a.status ELSE n.status
           /\ Changed(b, a, n).pending = IF a.pending # b.pending THEN a.pending ELSE n.pending
           /\ Changed(b, a, n).deleted = IF a.deleted # b.deleted THEN a.deleted ELSE n.deleted
           /\ Changed(b, a, n) \in Rows
  BY DEF Changed, Rows

LEMMA ChangedNothing ==
    ASSUME NEW b \in Rows, NEW n \in Rows
    PROVE  Changed(b, b, n) = n
  BY DEF Changed, Rows

LEMMA ChangedWhole ==
    ASSUME NEW b \in Rows, NEW a \in Rows, NEW n \in Rows, Whole(b), Whole(a), Whole(n),
           Grows(b, a), Grows(b, n)
    PROVE  Whole(Changed(b, a, n)) /\ Grows(n, Changed(b, a, n))
  <1> DEFINE r == Changed(b, a, n)
  <1>1. r \in Rows
    BY ChangedFields
  <1>2. Grows(n, r)
    BY ChangedFields, RowFields DEF Grows, Whole, Exists
  <1>3. Whole(r)
    BY ChangedFields, RowFields DEF Grows, Whole, Exists
  <1>4. QED
    BY <1>2, <1>3

LEMMA RequestFields ==
    ASSUME NEW q \in Requests
    PROVE  /\ q.strs \subseteq Strings
           /\ q.kind \in {"create", "save", "guarded"} =>
                 q.key \in Keys \cup {None} /\ q.text \in Texts \cup {None}
                 /\ q.status \in {"draft", "public", None}
           /\ q.kind \in {"create", "save", "guarded", "none"} \cup BatchKinds
  BY DEF Requests, Edits, Batches, NoRequest, BatchKinds

LEMMA PromotedWhole ==
    ASSUME NEW r \in Rows, r.key # None, r.text # None
    PROVE  /\ Promoted(r) \in Rows /\ Whole(Promoted(r)) /\ Grows(r, Promoted(r))
           /\ Promoted(r).key = r.key /\ Promoted(r).text = r.text
           /\ Promoted(r).pub = Content(r) /\ Promoted(r).status = "public"
           /\ Promoted(r).deleted = r.deleted
  <1>1. Content(r) \in Contents /\ Content(r) # None
    BY RowFields, PublicationAssumption DEF Content, Contents
  <1> DEFINE x == Content(r)
  <1>2. x \in Contents /\ x # None
    BY <1>1
  <1>3. Promoted(r) = [r EXCEPT !.pub = x, !.status = "public", !.pending = FALSE]
    BY DEF Promoted
  <1> HIDE DEF x
  <1>4. /\ Promoted(r) \in Rows
        /\ Promoted(r).key = r.key /\ Promoted(r).text = r.text
        /\ Promoted(r).pub = x /\ Promoted(r).status = "public"
        /\ Promoted(r).deleted = r.deleted
    BY <1>2, <1>3 DEF Rows
  <1>5. QED
    BY <1>2, <1>4 DEF Whole, Grows, Exists, x

LEMMA EditedRow ==
    ASSUME NEW q \in Edits, NEW r \in Rows
    PROVE  /\ Edited(q, r) \in Rows
           /\ Edited(q, r).key = IF q.key = None THEN r.key ELSE q.key
           /\ Edited(q, r).text = IF q.text = None THEN r.text ELSE q.text
           /\ Edited(q, r).pub = r.pub /\ Edited(q, r).status = r.status
           /\ Edited(q, r).pending = r.pending /\ Edited(q, r).deleted = r.deleted
  BY DEF Edited, Edits, Rows

LEMMA SavedWhole ==
    ASSUME NEW q \in Edits, NEW r \in Rows, Exists(r), 
           r.key # None \/ q.key # None, r.text # None \/ q.text # None,
           r.status = "public" => r.pub # None
    PROVE  /\ Saved(q, r) \in Rows /\ Whole(Saved(q, r)) /\ Grows(r, Saved(q, r))
           /\ Saved(q, r).key = IF q.key = None THEN r.key ELSE q.key
           /\ Saved(q, r).text = IF q.text = None THEN r.text ELSE q.text
           /\ Saved(q, r).status = IF q.status = None THEN r.status ELSE q.status
           /\ Saved(q, r).deleted = r.deleted
           /\ q.status # "public" => Saved(q, r).pub = r.pub
  <1> DEFINE e == Edited(q, r)
  <1>1. /\ e \in Rows /\ e.key # None /\ e.text # None /\ Exists(e)
        /\ e.pub = r.pub /\ e.status = r.status /\ e.deleted = r.deleted
        /\ e.key = IF q.key = None THEN r.key ELSE q.key
        /\ e.text = IF q.text = None THEN r.text ELSE q.text
    BY EditedRow DEF Exists
  <1>2. q.status \in {"draft", "public", None}
    BY DEF Edits
  <1> HIDE DEF e
  <1>3. CASE q.status = "public"
    <2>1. Saved(q, r) = Promoted(e)
      BY <1>3 DEF Saved, e
    <2>2. Grows(e, Promoted(e)) => Grows(r, Promoted(e))
      BY <1>1 DEF Grows, Exists
    <2>3. q.status # None
      BY <1>3, PublicationAssumption
    <2> DEFINE d == Promoted(e)
    <2>4. /\ d \in Rows /\ Whole(d) /\ Grows(r, d) /\ d.key = e.key /\ d.text = e.text
          /\ d.status = "public" /\ d.deleted = e.deleted
      BY <1>1, <2>2, PromotedWhole
    <2> HIDE DEF d
    <2>5. Saved(q, r) = d
      BY <2>1 DEF d
    <2>6. QED
      BY <1>1, <1>3, <2>3, <2>4, <2>5
  <1>4. CASE q.status = "draft"
    <2>1. Saved(q, r) = [e EXCEPT !.status = "draft"]
      BY <1>4 DEF Saved, e
    <2> DEFINE d == Saved(q, r)
    <2>2. /\ d \in Rows /\ d.key = e.key /\ d.text = e.text /\ d.pub = e.pub
          /\ d.status = "draft" /\ d.deleted = e.deleted
      BY <1>1, <2>1 DEF Rows
    <2> HIDE DEF d
    <2>3. Whole(d) /\ Grows(r, d)
      BY <1>1, <2>2 DEF Whole, Grows, Exists
    <2>4. q.status # None
      BY <1>4, PublicationAssumption
    <2>5. QED
      BY <1>1, <1>4, <2>2, <2>3, <2>4 DEF d
  <1>5. CASE q.status \notin {"draft", "public"}
    <2>1. Saved(q, r) = e
      BY <1>5 DEF Saved, e
    <2>2. QED
      BY <1>1, <1>2, <1>5, <2>1 DEF Whole, Grows, Exists
  <1>6. QED
    BY <1>2, <1>3, <1>4, <1>5

LEMMA RemovalWhole ==
    ASSUME NEW r \in Rows, Whole(r), Exists(r)
    PROVE  /\ Tombstone(r) \in Rows /\ Whole(Tombstone(r)) /\ Grows(r, Tombstone(r))
           /\ QueuedOrDeleted(r) \in Rows /\ Whole(QueuedOrDeleted(r))
           /\ Grows(r, QueuedOrDeleted(r))
  <1>1. Tombstone(r) \in Rows /\ Whole(Tombstone(r)) /\ Grows(r, Tombstone(r))
    BY DEF Tombstone, Rows, Whole, Grows, Exists
  <1> DEFINE p == [r EXCEPT !.pending = TRUE]
  <1>2. p \in Rows /\ Whole(p) /\ Grows(r, p)
    BY DEF Rows, Whole, Grows, Exists
  <1>3. Whole(r) /\ Grows(r, r)
    BY DEF Grows
  <1>4. QueuedOrDeleted(r) \in {r, p, Tombstone(r)}
    BY DEF QueuedOrDeleted
  <1>5. QED
    BY <1>1, <1>2, <1>3, <1>4

LEMMA DiscardedWhole ==
    ASSUME NEW r \in Rows, Whole(r), Exists(r)
    PROVE  Discarded(r) \in Rows /\ Whole(Discarded(r)) /\ Grows(r, Discarded(r))
  <1>1. CASE r.pub = None
    BY <1>1 DEF Discarded, Grows
  <1>2. CASE r.pub # None
    <2>1. r.pub \in Contents
      BY <1>2 DEF Rows
    <2>2. PICK k \in Keys, x \in Texts : r.pub = [key |-> k, text |-> x]
      BY <2>1 DEF Contents
    <2>3. r.pub.key = k /\ r.pub.text = x /\ k # None /\ x # None
      BY <2>2, PublicationAssumption
    <2>4. Discarded(r) = [r EXCEPT !.key = k, !.text = x, !.pending = FALSE]
      BY <1>2, <2>3 DEF Discarded
    <2>5. QED
      BY <1>2, <2>3, <2>4 DEF Rows, Whole, Grows, Exists
  <1>3. QED
    BY <1>1, <1>2

LEMMA RestoredWhole ==
    ASSUME NEW r \in Rows, Whole(r), Exists(r)
    PROVE  Restored(r) \in Rows /\ Whole(Restored(r)) /\ Grows(r, Restored(r))
  BY DEF Restored, Rows, Whole, Grows, Exists

LEMMA HandledWhole ==
    ASSUME NEW q \in Requests, Sensible(q), NEW r \in Rows, Whole(r)
    PROVE  Handled(q, r) \in Rows /\ Whole(Handled(q, r)) /\ Grows(r, Handled(q, r))
  <1>1. CASE q.kind = "create"
    <2> DEFINE d == [r EXCEPT !.status = "draft"]
    <2>1. q \in Edits /\ None \notin {q.key, q.text, q.status}
      BY <1>1, RequestFields DEF Sensible, BatchKinds, Requests, Batches, NoRequest
    <2>2. d \in Rows /\ Exists(d) /\ d.status = "draft" /\ d.pub = r.pub
      BY DEF Rows, Exists
    <2>3. Handled(q, r) = Saved(q, d)
      BY <1>1 DEF Handled
    <2> HIDE DEF d
    <2>4. Saved(q, d) \in Rows /\ Whole(Saved(q, d)) /\ Grows(d, Saved(q, d))
      BY <2>1, <2>2, SavedWhole
    <2>5. QED
      BY <2>2, <2>3, <2>4 DEF Grows
  <1>2. CASE q.kind # "create" /\ (~Exists(r)
              \/ (r.deleted /\ q.kind \in {"publish", "unpublish", "keep"}))
    BY <1>2 DEF Handled, Grows
  <1>3. CASE Exists(r) /\ q.kind \in {"save", "guarded"}
    <2>1. q \in Edits
      BY <1>3 DEF BatchKinds, Requests, Batches, NoRequest
    <2>2. Handled(q, r) = Saved(q, r)
      BY <1>3 DEF Handled
    <2>3. QED
      BY <1>3, <2>1, <2>2, SavedWhole DEF Whole, Exists
  <1>4. CASE Exists(r) /\ q.kind \in {"delete", "discard", "restore"}
    <2>1. Handled(q, r) \in {QueuedOrDeleted(r), Discarded(r), Restored(r)}
      BY <1>4 DEF Handled
    <2>2. QED
      BY <1>4, <2>1, RemovalWhole, DiscardedWhole, RestoredWhole
  <1>5. CASE Exists(r) /\ ~r.deleted /\ q.kind = "publish"
    <2>1. Handled(q, r) \in {Tombstone(r), Promoted(r)}
      BY <1>5 DEF Handled
    <2>2. QED
      BY <1>5, <2>1, RemovalWhole, PromotedWhole DEF Whole, Exists
  <1>6. CASE Exists(r) /\ ~r.deleted /\ q.kind = "unpublish"
    <2>1. Handled(q, r) = [r EXCEPT !.status = "draft"]
      BY <1>6 DEF Handled
    <2>2. QED
      BY <1>6, <2>1 DEF Rows, Whole, Grows, Exists
  <1>7. CASE Exists(r) /\ ~r.deleted /\ q.kind = "keep"
    <2>1. Handled(q, r) = [r EXCEPT !.pending = FALSE]
      BY <1>7 DEF Handled
    <2>2. QED
      BY <1>7, <2>1 DEF Rows, Whole, Grows, Exists
  <1>8. QED
    BY <1>1, <1>2, <1>3, <1>4, <1>5, <1>6, <1>7 DEF Sensible, BatchKinds

\* What a handler may do to a row, column by column.
LEMMA HandledFields ==
    ASSUME NEW q \in Requests, Sensible(q), NEW r \in Rows, Whole(r), NEW h,
           h = Handled(q, r)
    PROVE  /\ h.pub # r.pub => Publishes(q)
           /\ ~Publishes(q) /\ h.status # r.status => h.status = "draft"
           /\ h.deleted # r.deleted =>
                 \/ q.kind = "publish" /\ r.pending /\ Alive(r) /\ h.deleted
                 \/ q.kind = "delete" /\ r.pub = None /\ h.deleted
                 \/ q.kind = "restore" /\ h.status = "draft" /\ ~h.deleted
           /\ h.status = "draft" /\ h.status # r.status =>
                 \/ q.kind \in {"create", "unpublish"}
                 \/ IsEdit(q) /\ q.status = "draft"
                 \/ q.kind = "restore" /\ r.deleted
           /\ q.kind \in BatchKinds \ {"discard"} => h.key = r.key /\ h.text = r.text
           /\ q.kind = "publish" /\ h.pub # r.pub => h.pub = Content(r) /\ Alive(r)
           /\ q.kind = "create" => h.status # "none"
           /\ IsEdit(q) => /\ h.key # r.key => q.key # None /\ h.key = q.key
                           /\ h.text # r.text => q.text # None /\ h.text = q.text
  <1>1. CASE q.kind = "create"
    <2> DEFINE d == [r EXCEPT !.status = "draft"]
    <2>1. q \in Edits /\ None \notin {q.key, q.text, q.status}
      BY <1>1, RequestFields DEF Sensible, BatchKinds, Requests, Batches, NoRequest
    <2>2. d \in Rows /\ Exists(d) /\ d.status = "draft" /\ d.pub = r.pub
          /\ d.deleted = r.deleted
      BY DEF Rows, Exists
    <2>3. h = Saved(q, d)
      BY <1>1 DEF Handled
    <2> HIDE DEF d
    <2>4. /\ h.status = q.status /\ h.deleted = r.deleted
          /\ q.status # "public" => h.pub = r.pub
      BY <2>1, <2>2, <2>3, SavedWhole
    <2>5. q.status \in {"draft", "public"}
      BY <2>1 DEF Edits
    <2>6. QED
      BY <1>1, <2>4, <2>5 DEF Publishes, IsEdit, BatchKinds
  <1>2. CASE q.kind # "create" /\ (~Exists(r)
              \/ (r.deleted /\ q.kind \in {"publish", "unpublish", "keep"}))
    <2>1. h = r
      BY <1>2 DEF Handled
    <2>2. QED
      BY <1>2, <2>1
  <1>3. CASE Exists(r) /\ q.kind \in {"save", "guarded"}
    <2>1. q \in Edits
      BY <1>3 DEF BatchKinds, Requests, Batches, NoRequest
    <2>2. h = Saved(q, r)
      BY <1>3 DEF Handled
    <2>3. /\ h.key = IF q.key = None THEN r.key ELSE q.key
          /\ h.text = IF q.text = None THEN r.text ELSE q.text
          /\ h.status = IF q.status = None THEN r.status ELSE q.status
          /\ h.deleted = r.deleted
          /\ q.status # "public" => h.pub = r.pub
      BY <1>3, <2>1, <2>2, SavedWhole DEF Whole, Exists
    <2>4. q.status \in {"draft", "public", None}
      BY <2>1 DEF Edits
    <2>5. QED
      BY <1>3, <2>3, <2>4 DEF Publishes, IsEdit, BatchKinds
  <1>4. CASE Exists(r) /\ q.kind = "delete"
    <2>1. h = QueuedOrDeleted(r)
      BY <1>4 DEF Handled
    <2>2. /\ h.key = r.key /\ h.text = r.text /\ h.pub = r.pub /\ h.status = r.status
          /\ h.deleted # r.deleted => r.pub = None /\ h.deleted
      BY <2>1 DEF QueuedOrDeleted, Tombstone, Rows
    <2>3. QED
      BY <1>4, <2>2 DEF IsEdit
  <1>5. CASE Exists(r) /\ q.kind = "discard"
    <2>1. h = Discarded(r)
      BY <1>5 DEF Handled
    <2>2. h.pub = r.pub /\ h.status = r.status /\ h.deleted = r.deleted
      BY <2>1 DEF Discarded, Rows
    <2>3. QED
      BY <1>5, <2>2 DEF IsEdit
  <1>6. CASE Exists(r) /\ q.kind = "restore"
    <2>1. h = Restored(r)
      BY <1>6 DEF Handled
    <2>2. /\ h.key = r.key /\ h.text = r.text /\ h.pub = r.pub /\ h.deleted = FALSE
          /\ h.status = IF r.deleted THEN "draft" ELSE r.status
      BY <2>1 DEF Restored, Rows
    <2>3. r.deleted \in BOOLEAN
      BY RowFields
    <2>4. QED
      BY <1>6, <2>2, <2>3 DEF IsEdit
  <1>7. CASE Exists(r) /\ ~r.deleted /\ q.kind = "publish"
    <2>1. r.key # None /\ r.text # None /\ Alive(r)
      BY <1>7 DEF Whole, Exists, Alive
    <2>2. CASE r.pending
      <3>1. h = Tombstone(r)
        BY <1>7, <2>2 DEF Handled
      <3>2. /\ h.key = r.key /\ h.text = r.text /\ h.pub = r.pub
            /\ h.status = r.status /\ h.deleted
        BY <3>1 DEF Tombstone, Rows
      <3>3. QED
        BY <1>7, <2>1, <2>2, <3>2 DEF IsEdit
    <2>3. CASE ~r.pending
      <3>1. h = Promoted(r)
        BY <1>7, <2>3 DEF Handled
      <3>2. /\ h.key = r.key /\ h.text = r.text /\ h.pub = Content(r)
            /\ h.status = "public" /\ h.deleted = r.deleted
        BY <2>1, <3>1, PromotedWhole
      <3>3. QED
        BY <1>7, <2>1, <2>3, <3>2 DEF IsEdit, Publishes
    <2>4. QED
      BY <2>2, <2>3
  <1>8. CASE Exists(r) /\ ~r.deleted /\ q.kind \in {"unpublish", "keep"}
    <2>1. h = IF q.kind = "keep" THEN [r EXCEPT !.pending = FALSE]
                                 ELSE [r EXCEPT !.status = "draft"]
      BY <1>8 DEF Handled
    <2>2. /\ h.key = r.key /\ h.text = r.text /\ h.pub = r.pub /\ h.deleted = r.deleted
          /\ h.status # r.status => q.kind = "unpublish" /\ h.status = "draft"
      <3>1. CASE q.kind = "keep"
        <4>1. h = [r EXCEPT !.pending = FALSE]
          BY <2>1, <3>1
        <4>2. QED
          BY <4>1 DEF Rows
      <3>2. CASE q.kind # "keep"
        <4>1. h = [r EXCEPT !.status = "draft"]
          BY <2>1, <3>2
        <4>2. QED
          BY <1>8, <3>2, <4>1 DEF Rows
      <3>3. QED
        BY <3>1, <3>2
    <2>3. QED
      BY <1>8, <2>2 DEF IsEdit
  <1>9. QED
    BY <1>1, <1>2, <1>3, <1>4, <1>5, <1>6, <1>7, <1>8 DEF Sensible, BatchKinds

\* Whoever does not publish adds nothing to the export and changes no snapshot.
LEMMA Shrinks ==
    ASSUME NEW q \in Requests, Sensible(q), ~Publishes(q), NEW b \in Rows, NEW n \in Rows,
           Whole(b), NEW r, r = Changed(b, Handled(q, b), n)
    PROVE  /\ r.pub = n.pub
           /\ (q.kind = "restore" => b = n) /\ Exported(r) => Exported(n)
  <1> DEFINE h == Handled(q, b)
  <1>1. /\ r.pub = IF h.pub # b.pub THEN h.pub ELSE n.pub
        /\ r.status = IF h.status # b.status THEN h.status ELSE n.status
        /\ r.deleted = IF h.deleted # b.deleted THEN h.deleted ELSE n.deleted
    BY HandledWhole, ChangedFields
  <1>2. /\ h.pub = b.pub
        /\ h.status # b.status => h.status = "draft"
        /\ h.deleted # b.deleted => h.deleted \/ (q.kind = "restore" /\ h.status = "draft")
    BY HandledFields
  <1>3. h.deleted \in BOOLEAN /\ b.deleted \in BOOLEAN /\ n.deleted \in BOOLEAN
    BY HandledWhole, RowFields
  <1>4. b = n => b.status = n.status /\ b.deleted = n.deleted
    OBVIOUS
  <1> HIDE DEF h
  <1>5. r.pub = n.pub
    BY <1>1, <1>2
  <1>6. ASSUME q.kind = "restore" => b = n, r.status = "public", ~r.deleted
        PROVE  n.status = "public" /\ ~n.deleted
    <2>1. h.status = b.status /\ n.status = "public"
      BY <1>1, <1>2, <1>6
    <2>2. CASE h.deleted # b.deleted
      <3>1. r.deleted = h.deleted
        BY <1>1, <2>2
      <3>2. ~h.deleted
        BY <1>6, <3>1, Zenon
      <3>3. q.kind = "restore" /\ h.status = "draft"
        BY <1>2, <2>2, <3>2, Zenon
      <3>4. QED
        BY <1>4, <1>6, <2>1, <3>3
    <2>3. CASE h.deleted = b.deleted
      <3>1. r.deleted = n.deleted
        BY <1>1, <2>3
      <3>2. ~n.deleted
        BY <1>6, <3>1, Zenon
      <3>3. QED
        BY <2>1, <3>2
    <2>4. QED
      BY <2>1, <2>2, <2>3
  <1>7. QED
    BY <1>5, <1>6 DEF Exported, Alive, Exists

\* What makes an exported row leave the export.
LEMMA Stays ==
    ASSUME NEW q \in Requests, Sensible(q), NEW b \in Rows, NEW n \in Rows,
           Whole(b), Whole(n), q.kind \in {"restore", "save", "guarded"} => b = n,
           q.kind = "delete" => b.pub = n.pub, q.kind # "create",
           NEW r, r = Changed(b, Handled(q, b), n), Exported(n), ~Exported(r)
    PROVE  \/ q.kind = "unpublish"
           \/ q.kind = "publish" /\ b.pending /\ Alive(b)
           \/ IsEdit(q) /\ q.status = "draft"
  <1> DEFINE h == Handled(q, b)
  <1>1. /\ r.status = IF h.status # b.status THEN h.status ELSE n.status
        /\ r.deleted = IF h.deleted # b.deleted THEN h.deleted ELSE n.deleted
    BY HandledWhole, ChangedFields
  <1>2. /\ ~Publishes(q) /\ h.status # b.status => h.status = "draft"
        /\ h.deleted # b.deleted =>
                 \/ q.kind = "publish" /\ b.pending /\ Alive(b) /\ h.deleted
                 \/ q.kind = "delete" /\ b.pub = None /\ h.deleted
                 \/ q.kind = "restore" /\ h.status = "draft" /\ ~h.deleted
        /\ h.status = "draft" /\ h.status # b.status =>
                 \/ q.kind \in {"create", "unpublish"}
                 \/ IsEdit(q) /\ q.status = "draft"
                 \/ q.kind = "restore" /\ b.deleted
    BY HandledFields
  <1>3. h \in Rows /\ Grows(b, h)
    BY HandledWhole
  <1>4. n.pub # None /\ n.status = "public" /\ ~n.deleted
    BY DEF Whole, Exported, Alive
  <1>5. b.status = "none" => h.status = b.status
    BY DEF h, Handled, Exists, Exported, Alive
  <1>6. h.status \in {"none", "draft", "public"} /\ (b.status # "none" => h.status # "none")
    BY <1>3 DEF Rows, Grows, Exists
  <1> HIDE DEF h
  <1>7. CASE r.deleted
    BY <1>1, <1>2, <1>4, <1>7
  <1>8. CASE ~r.deleted
    <2>1. r.status # "public"
      BY <1>8 DEF Exported, Alive, Exists
    <2>2. h.status # b.status /\ h.status = "draft"
      BY <1>1, <1>4, <1>5, <1>6, <2>1
    <2>3. QED
      BY <1>2, <1>4, <2>2
  <1>9. QED
    BY <1>7, <1>8

-----------------------------------------------------------------------------
(* The inductive invariant.                                                *)

Wholes == \A s \in Strings : Whole(rows[s])

\* A request that takes the publication lock has it from its start.
Started(c) ==
    pc[c] \in {"started", "read", "flushed"} =>
        Sensible(req[c]) /\ (TakesLock(req[c]) => publisher = c)

\* The table has only grown since the request read it; the snapshots are still the same
\* under the publication lock, and the whole row under the editor's.
Copied(c) ==
    pc[c] \in {"read", "flushed"} => \A s \in req[c].strs :
        /\ Whole(copy[c][s]) /\ Grows(copy[c][s], rows[s])
        /\ TakesLock(req[c]) => copy[c][s].pub = rows[s].pub
        /\ IsEdit(req[c]) => rowLock[s] = c /\ copy[c][s] = rows[s]

\* What Flush has checked still holds.
Checked(c) ==
    pc[c] = "flushed" =>
        /\ \A s \in Touched(c) : rowLock[s] = c
        /\ req[c].kind = "create" => \A s \in req[c].strs : ~Exists(rows[s])
        /\ req[c].kind = "publish" => AsReviewed(c)
        /\ req[c].kind = "guarded" => NoConflict(c)
        /\ Publishes(req[c]) /\ fresh => KeysPublic(Result(c))

Going(c) == Started(c) /\ Copied(c) /\ Checked(c)

Safe == TypeOK /\ Wholes /\ PublicKeysUnique /\ \A c \in Clients : Going(c)

\* A step that writes no row leaves a request alone that keeps its own state and locks.
LEMMA Undisturbed ==
    ASSUME NEW c \in Clients, Going(c), UNCHANGED <<rows, fresh>>,
           pc'[c] = pc[c], req'[c] = req[c], copy'[c] = copy[c], seen'[c] = seen[c],
           publisher = c => publisher' = c, 
           \A s \in Strings : rowLock[s] = c => rowLock'[s] = c,
           req[c] \in Requests
    PROVE  Going(c)'
  <1>1. req[c].strs \subseteq Strings
    BY RequestFields
  <1>2. Started(c)'
    BY DEF Going, Started
  <1>3. Copied(c)'
    BY <1>1 DEF Going, Copied
  <1>4. Touched(c)' = Touched(c) /\ Result(c)' = Result(c)
    BY DEF Touched, Result
  <1>5. AsReviewed(c)' = AsReviewed(c)
    BY DEF AsReviewed, Fingerprint
  <1>6. NoConflict(c)' = NoConflict(c)
    BY DEF NoConflict
  <1>7. Touched(c) \subseteq Strings
    BY <1>1 DEF Touched
  <1>8. KeysPublic(Result(c))' = KeysPublic(Result(c))
    BY <1>4 DEF KeysPublic
  <1>9. Checked(c)'
    BY <1>1, <1>4, <1>5, <1>6, <1>7, <1>8 DEF Going, Checked
  <1>10. QED
    BY <1>2, <1>3, <1>9 DEF Going

\* A client that is between requests, or is only looking, has nothing to keep.
LEMMA NothingGoing ==
    ASSUME NEW c \in Clients, pc[c] \in {"idle", "looked"}
    PROVE  Going(c)
  BY DEF Going, Started, Copied, Checked

THEOREM InitSafe == Init => Safe
  <1> SUFFICES ASSUME Init PROVE Safe
    OBVIOUS
  <1>1. rows \in [Strings -> Rows]
    <2>1. NoRow \in Rows
      BY DEF NoRow, Rows
    <2>2. \A x \in Contents : PublishedRow(x) \in Rows
      BY DEF PublishedRow, Rows, Contents
    <2>3. QED
      BY <2>1, <2>2 DEF Init
  <1>2. NoRequest \in Requests /\ NoRows \in [Strings -> Rows]
    BY DEF Requests, NoRows, NoRow, Rows
  <1>3. TypeOK
    BY <1>1, <1>2, PublicationAssumption DEF Init, TypeOK, Steps
  <1>4. \A s \in Strings : /\ rows[s] = NoRow \/ \E x \in Contents : rows[s] = PublishedRow(x)
    BY DEF Init
  <1>5. Wholes
    <2>1. Whole(NoRow)
      BY DEF Whole, NoRow
    <2>2. \A x \in Contents : Whole(PublishedRow(x))
      BY PublicationAssumption DEF Whole, PublishedRow, Contents
    <2>3. QED
      BY <1>4, <2>1, <2>2 DEF Wholes
  <1>6. PublicKeysUnique
    <2>1. ~Exported(NoRow)
      BY DEF Exported, NoRow
    <2>2. \A x \in Contents : ExportKey(PublishedRow(x)) = PublishedRow(x).key
      BY PublicationAssumption DEF ExportKey, PublishedRow
    <2>3. \A s \in Strings : Exported(rows[s]) => Alive(rows[s]) /\ ExportKey(rows[s]) = rows[s].key
      BY <1>4, <2>1, <2>2 DEF Exported
    <2>4. QED
      BY <2>3 DEF Init, KeysAlive, PublicKeysUnique, KeysPublic
  <1>7. \A c \in Clients : Going(c)
    BY NothingGoing DEF Init
  <1>8. QED
    BY <1>3, <1>5, <1>6, <1>7 DEF Safe

\* The end of a request keeps the types and disturbs no other one.
LEMMA DoneTypes ==
    ASSUME TypeOK, NEW c \in Clients, Done(c)
    PROVE  /\ publisher' \in Clients \cup {None}
           /\ rowLock' \in [Strings -> Clients \cup {None}]
           /\ pc' \in [Clients -> Steps] /\ req' \in [Clients -> Requests]
           /\ copy' \in [Clients -> [Strings -> Rows]]
           /\ seen' \in [Clients -> [Strings -> Rows]] /\ sent' = sent
           /\ pc'[c] = "idle"
           /\ \A d \in Clients \ {c} :
                 /\ pc'[d] = pc[d] /\ req'[d] = req[d] /\ copy'[d] = copy[d]
                 /\ seen'[d] = seen[d] /\ (publisher = d => publisher' = d)
                 /\ \A s \in Strings : rowLock[s] = d => rowLock'[s] = d
  <1>1. NoRequest \in Requests /\ NoRows \in [Strings -> Rows] /\ "idle" \in Steps
    BY DEF Requests, NoRows, NoRow, Rows, Steps
  <1>2. QED
    BY <1>1 DEF TypeOK, Done

LEMMA LookSafe ==
    ASSUME Safe, NEW c \in Clients, Look(c)
    PROVE  Safe'
  <1>1. TypeOK'
    BY DEF Safe, TypeOK, Look, lockVars, Steps
  <1>2. Wholes' /\ PublicKeysUnique'
    BY DEF Safe, Wholes, PublicKeysUnique, Look, KeysPublic
  <1>3. Going(c)'
    BY DEF Safe, TypeOK, Look, Going, Started, Copied, Checked
  <1>4. ASSUME NEW d \in Clients \ {c} PROVE Going(d)'
    BY <1>4, Undisturbed DEF Safe, TypeOK, Look, lockVars
  <1>5. QED
    BY <1>1, <1>2, <1>3, <1>4 DEF Safe

LEMMA StartSafe ==
    ASSUME Safe, NEW c \in Clients, NEW q \in Edits \cup Batches, Start(c, q)
    PROVE  Safe'
  <1>1. q \in Requests
    BY DEF Requests
  <1>2. publisher' \in {publisher, c} /\ (publisher # None => publisher' = publisher)
        /\ (TakesLock(q) => publisher' = c)
    BY DEF Start
  <1>3. scene.requests \in Nat
    BY PublicationAssumption DEF Safe, TypeOK
  <1>4. TypeOK'
    BY <1>1, <1>2, <1>3 DEF Safe, TypeOK, Start, Steps
  <1>5. Wholes' /\ PublicKeysUnique'
    BY DEF Safe, Wholes, PublicKeysUnique, Start, KeysPublic
  <1>6. Going(c)'
    BY <1>2 DEF Safe, TypeOK, Start, Going, Started, Copied, Checked
  <1>7. ASSUME NEW d \in Clients \ {c} PROVE Going(d)'
    <2>1. d # None
      BY PublicationAssumption
    <2>2. QED
      BY <1>2, <2>1, Undisturbed DEF Safe, TypeOK, Start
  <1>8. QED
    BY <1>4, <1>5, <1>6, <1>7 DEF Safe

LEMMA GiveUpSafe ==
    ASSUME Safe, NEW c \in Clients, GiveUp(c)
    PROVE  Safe'
  <1>1. TypeOK'
    BY DoneTypes DEF Safe, TypeOK, GiveUp
  <1>2. Wholes' /\ PublicKeysUnique'
    BY DEF Safe, Wholes, PublicKeysUnique, GiveUp, KeysPublic
  <1>3. Going(c)'
    BY DoneTypes DEF Safe, GiveUp, Going, Started, Copied, Checked
  <1>4. ASSUME NEW d \in Clients \ {c} PROVE Going(d)'
    BY DoneTypes, Undisturbed DEF Safe, TypeOK, GiveUp
  <1>5. QED
    BY <1>1, <1>2, <1>3, <1>4 DEF Safe

LEMMA ReadSafe ==
    ASSUME Safe, NEW c \in Clients, Read(c)
    PROVE  Safe'
  <1>1. req[c] \in Requests /\ req[c].strs \subseteq Strings
    BY RequestFields DEF Safe, TypeOK
  <1>2. NoRow \in Rows
    BY DEF NoRow, Rows
  <1>3. /\ rowLock' \in [Strings -> Clients \cup {None}]
        /\ \A d \in Clients \ {c}, s \in Strings : rowLock[s] = d => rowLock'[s] = d
        /\ IsEdit(req[c]) => \A s \in req[c].strs : rowLock'[s] = c
    BY <1>1, PublicationAssumption DEF Safe, TypeOK, Read
  <1>4. copy' \in [Clients -> [Strings -> Rows]]
        /\ \A s \in req[c].strs : copy'[c][s] = rows[s]
    BY <1>1, <1>2 DEF Safe, TypeOK, Read
  <1>5. TypeOK'
    BY <1>3, <1>4 DEF Safe, TypeOK, Read, Steps
  <1>6. Wholes' /\ PublicKeysUnique'
    BY DEF Safe, Wholes, PublicKeysUnique, Read, KeysPublic
  <1>7. Going(c)'
    <2>1. Started(c)'
      BY DEF Safe, TypeOK, Read, Going, Started
    <2>2. Copied(c)'
      BY <1>1, <1>3, <1>4 DEF Safe, TypeOK, Read, Copied, Wholes, Grows
    <2>3. Checked(c)'
      BY DEF Safe, TypeOK, Read, Checked
    <2>4. QED
      BY <2>1, <2>2, <2>3 DEF Going
  <1>8. ASSUME NEW d \in Clients \ {c} PROVE Going(d)'
    BY <1>3, Undisturbed DEF Safe, TypeOK, Read
  <1>9. QED
    BY <1>5, <1>6, <1>7, <1>8 DEF Safe

LEMMA FlushSafe ==
    ASSUME Safe, NEW c \in Clients, Flush(c)
    PROVE  Safe'
  <1>1. req[c] \in Requests /\ req[c].strs \subseteq Strings
    BY RequestFields DEF Safe, TypeOK
  <1>2. Touched(c) \subseteq Strings
    BY <1>1 DEF Touched
  <1>3. /\ rowLock' \in [Strings -> Clients \cup {None}]
        /\ \A d \in Clients \ {c}, s \in Strings : rowLock[s] = d => rowLock'[s] = d
        /\ \A s \in Strings : rowLock[s] = c => rowLock'[s] = c
        /\ \A s \in Touched(c) : rowLock'[s] = c
    BY <1>2, PublicationAssumption DEF Safe, TypeOK, Flush
  <1>4. TypeOK'
    BY <1>3 DEF Safe, TypeOK, Flush, Steps
  <1>5. Wholes' /\ PublicKeysUnique'
    BY DEF Safe, Wholes, PublicKeysUnique, Flush, KeysPublic
  <1>6. Going(c)'
    <2>1. Started(c)'
      BY DEF Safe, TypeOK, Flush, Going, Started
    <2>2. Copied(c)'
      BY <1>1, <1>3 DEF Safe, TypeOK, Flush, Going, Copied
    <2>3. Touched(c)' = Touched(c) /\ Result(c)' = Result(c)
      BY DEF Touched, Result, Flush
    <2>4. AsReviewed(c)' = AsReviewed(c)
      BY DEF AsReviewed, Fingerprint, Flush
    <2>5. NoConflict(c)' = NoConflict(c)
      BY DEF NoConflict, Flush
    <2>6. KeysPublic(Result(c))' = KeysPublic(Result(c))
      BY <2>3 DEF KeysPublic
    <2>7. Checked(c)'
      BY <1>3, <2>3, <2>4, <2>5, <2>6 DEF Checked, Flush, Accepted
    <2>8. QED
      BY <2>1, <2>2, <2>7 DEF Going
  <1>7. ASSUME NEW d \in Clients \ {c} PROVE Going(d)'
    BY <1>3, Undisturbed DEF Safe, TypeOK, Flush
  <1>8. QED
    BY <1>4, <1>5, <1>6, <1>7 DEF Safe

-----------------------------------------------------------------------------
(* Commit.                                                                 *)

\* What a commit writes to one row.
LEMMA Written ==
    ASSUME Safe, NEW c \in Clients, pc[c] = "flushed", NEW s \in Strings
    PROVE  /\ Result(c)[s] \in Rows /\ Whole(Result(c)[s]) /\ Grows(rows[s], Result(c)[s])
           /\ s \in req[c].strs => Result(c)[s] =
                                     Changed(copy[c][s], Handled(req[c], copy[c][s]), rows[s])
           /\ s \notin Touched(c) => Result(c)[s] = rows[s]
           /\ ~Publishes(req[c]) => Result(c)[s].pub = rows[s].pub
           /\ ~Publishes(req[c]) /\ Exported(Result(c)[s]) =>
                 \/ Exported(rows[s])
                 \/ /\ req[c].kind = "restore" /\ s \in req[c].strs
                    /\ copy[c][s] # rows[s]
  <1>1. req[c] \in Requests /\ Sensible(req[c]) /\ rows[s] \in Rows /\ Whole(rows[s])
        /\ copy[c][s] \in Rows
    BY DEF Safe, TypeOK, Going, Started, Wholes
  <1>2. CASE s \notin req[c].strs
    <2>1. Result(c)[s] = rows[s] /\ s \notin Touched(c)
      BY <1>2 DEF Result, Touched
    <2>2. QED
      BY <1>1, <1>2, <2>1 DEF Grows
  <1>3. CASE s \in req[c].strs
    <2> DEFINE q == req[c] 
               b == copy[c][s] 
               n == rows[s]
    <2>1. Result(c)[s] = Changed(b, Handled(q, b), n)
      BY <1>3 DEF Result
    <2>2. Whole(b) /\ Grows(b, n)
      BY <1>3 DEF Safe, Going, Copied
    <2>3. s \notin Touched(c) => Handled(q, b) = b
      BY <1>3 DEF Touched
    <2>4. q \in Requests /\ Sensible(q) /\ n \in Rows /\ Whole(n) /\ b \in Rows
      BY <1>1
    <2> HIDE DEF q, b, n
    <2>5. Handled(q, b) \in Rows /\ Whole(Handled(q, b)) /\ Grows(b, Handled(q, b))
      BY <2>2, <2>4, HandledWhole
    <2>6. /\ Changed(b, Handled(q, b), n) \in Rows /\ Whole(Changed(b, Handled(q, b), n))
          /\ Grows(n, Changed(b, Handled(q, b), n))
      BY <2>2, <2>4, <2>5, ChangedWhole, ChangedFields
    <2>7. s \notin Touched(c) => Result(c)[s] = n
      BY <2>1, <2>3, <2>4, ChangedNothing
    <2>8. ~Publishes(q) =>
             /\ Result(c)[s].pub = n.pub
             /\ (q.kind = "restore" => b = n) /\ Exported(Result(c)[s]) => Exported(n)
      BY <2>1, <2>2, <2>4, Shrinks
    <2>9. QED
      BY <1>3, <2>1, <2>6, <2>7, <2>8 DEF q, b, n
  <1>4. QED
    BY <1>2, <1>3

\* An export whose rows keep their snapshots and only lose members stays unambiguous.
LEMMA FewerPublic ==
    ASSUME NEW old, NEW new, KeysPublic(old),
           \A s \in Strings : /\ Exported(new[s]) => Exported(old[s]) /\ new[s].pub # None
                              /\ new[s].pub = old[s].pub
    PROVE  KeysPublic(new)
  BY DEF KeysPublic, ExportKey

LEMMA OtherCommits ==
    ASSUME Safe, NEW c \in Clients, Commit(c), NEW d \in Clients \ {c},
           rows' \in [Strings -> Rows], \A s \in Strings : Whole(rows'[s])
    PROVE  Going(d)'
  <1>1. /\ pc'[d] = pc[d] /\ req'[d] = req[d] /\ copy'[d] = copy[d] /\ seen'[d] = seen[d]
        /\ publisher = d => publisher' = d
        /\ \A s \in Strings : rowLock[s] = d => rowLock'[s] = d
    BY DoneTypes DEF Safe, Commit
  <1>2. /\ req[d] \in Requests /\ req[d].strs \subseteq Strings /\ Touched(d) \subseteq Strings
        /\ Going(d) /\ Going(c) /\ pc[c] = "flushed" /\ rows' = Result(c)
    BY RequestFields DEF Safe, TypeOK, Touched, Commit
  <1>3. \A s \in Strings : Grows(rows[s], rows'[s])
    BY <1>2, Written
  <1>4. \A s \in Strings : rowLock[s] = d => rows'[s] = rows[s]
    <2>1. \A s \in Touched(c) : rowLock[s] = c
      BY <1>2 DEF Going, Checked
    <2>2. QED
      BY <1>2, <2>1, Written
  <1>5. TakesLock(req[d]) /\ pc[d] \in {"read", "flushed"} => ~Publishes(req[c])
    BY <1>2 DEF Going, Started, TakesLock
  <1>6. Started(d)'
    BY <1>1, <1>2 DEF Going, Started
  <1>7. Copied(d)'
    <2> SUFFICES ASSUME pc[d] \in {"read", "flushed"}, NEW s \in req[d].strs
                 PROVE  /\ Whole(copy[d][s]) /\ Grows(copy[d][s], rows'[s])
                        /\ TakesLock(req[d]) => copy[d][s].pub = rows'[s].pub
                        /\ IsEdit(req[d]) => rowLock'[s] = d /\ copy[d][s] = rows'[s]
      BY <1>1 DEF Copied
    <2>1. /\ Whole(copy[d][s]) /\ Grows(copy[d][s], rows[s])
          /\ TakesLock(req[d]) => copy[d][s].pub = rows[s].pub
          /\ IsEdit(req[d]) => rowLock[s] = d /\ copy[d][s] = rows[s]
      BY <1>2 DEF Going, Copied
    <2>2. Grows(copy[d][s], rows'[s])
      BY <1>2, <1>3, <2>1 DEF Grows
    <2>3. TakesLock(req[d]) => rows'[s].pub = rows[s].pub
      BY <1>2, <1>5, Written
    <2>4. QED
      BY <1>1, <1>2, <1>4, <2>1, <2>2, <2>3
  <1>8. Checked(d)'
    <2> SUFFICES ASSUME pc[d] = "flushed" PROVE Checked(d)'
      BY <1>1 DEF Checked
    <2>1. /\ \A s \in Touched(d) : rowLock[s] = d
          /\ req[d].kind = "create" => \A s \in req[d].strs : ~Exists(rows[s])
          /\ req[d].kind = "publish" => AsReviewed(d)
          /\ req[d].kind = "guarded" => NoConflict(d)
          /\ Publishes(req[d]) /\ fresh => KeysPublic(Result(d))
      BY <1>2 DEF Going, Checked
    <2>2. Touched(d)' = Touched(d)
      BY <1>1 DEF Touched
    <2>3. AsReviewed(d)' = AsReviewed(d)
      BY <1>1 DEF AsReviewed, Fingerprint
    <2>4. NoConflict(d)' = NoConflict(d)
      BY <1>1 DEF NoConflict
    <2>5. ASSUME req[d].kind = "create", NEW s \in req[d].strs PROVE ~Exists(rows'[s])
      <3>1. ~Exists(copy[d][s]) /\ copy[d][s] \in Rows /\ Whole(copy[d][s])
            /\ Sensible(req[d])
        BY <1>2, <2>1, <2>5 DEF Going, Copied, Started, Grows, Safe, TypeOK
      <3>2. Handled(req[d], copy[d][s]).status # "none"
        BY <1>2, <2>5, <3>1, HandledFields
      <3>3. s \in Touched(d)
        BY <3>1, <3>2 DEF Touched, Exists
      <3>4. QED
        BY <1>2, <1>4, <2>1, <2>5, <3>3
    <2>6. ASSUME Publishes(req[d]), fresh' PROVE KeysPublic(Result(d)')
      <3>1. fresh /\ (req[c].kind = "restore" => \A s \in req[c].strs : copy[c][s] = rows[s])
        BY <2>6 DEF Commit
      <3>2. ~Publishes(req[c])
        BY <1>5, <2>6 DEF TakesLock
      <3>3. ASSUME NEW s \in Strings
            PROVE  /\ Exported(Result(d)'[s]) => Exported(Result(d)[s]) /\ Result(d)'[s].pub # None
                   /\ Result(d)'[s].pub = Result(d)[s].pub
        <4>1. Whole(Result(d)[s])
          BY Written
        <4>2. CASE s \in Touched(d)
          <5>1. rows'[s] = rows[s]
            BY <1>4, <2>1, <4>2
          <5>2. Result(d)'[s] = Result(d)[s]
            BY <1>1, <5>1 DEF Result
          <5>3. QED
            BY <4>1, <5>2 DEF Whole, Exported
        <4>3. CASE s \notin Touched(d)
          <5>1. Result(d)[s] = rows[s]
            BY <4>3, Written
          <5>2. s \in req[d].strs => Handled(req[d], copy[d][s]) = copy[d][s]
            BY <4>3 DEF Touched
          <5>3. copy[d][s] \in Rows /\ rows'[s] \in Rows
            BY DEF Safe, TypeOK
          <5>4. Result(d)'[s] = rows'[s]
            BY <1>1, <5>2, <5>3, ChangedNothing DEF Result
          <5>5. rows'[s].pub = rows[s].pub /\ (Exported(rows'[s]) => Exported(rows[s]))
            BY <1>2, <3>1, <3>2, Written
          <5>6. QED
            BY <5>1, <5>4, <5>5 DEF Whole, Exported
        <4>4. QED
          BY <4>2, <4>3
      <3>4. KeysPublic(Result(d))
        BY <2>1, <2>6, <3>1
      <3> DEFINE old == Result(d)
                 new == Result(d)'
      <3>5. QED
        BY <3>3, <3>4, FewerPublic
    <2>7. KeysPublic(Result(d))' = KeysPublic(Result(d)')
      BY DEF KeysPublic
    <2>8. QED
      BY <1>1, <1>2, <2>1, <2>2, <2>3, <2>4, <2>5, <2>6, <2>7 DEF Checked
  <1>9. QED
    BY <1>6, <1>7, <1>8 DEF Going

LEMMA CommitSafe ==
    ASSUME Safe, NEW c \in Clients, Commit(c)
    PROVE  Safe'
  <1>1. pc[c] = "flushed" /\ rows' = Result(c) /\ Done(c)
    BY DEF Commit
  <1>2. rows' \in [Strings -> Rows]
    <2>1. \A s \in Strings : Result(c)[s] \in Rows
      BY <1>1, Written
    <2>2. Result(c) = [s \in Strings |-> Result(c)[s]]
      BY DEF Result
    <2>3. QED
      BY <1>1, <2>1, <2>2
  <1>3. \A s \in Strings : Whole(rows'[s])
    BY <1>1, Written
  <1>4. TypeOK'
    BY <1>1, <1>2, DoneTypes DEF Safe, TypeOK, Commit
  <1>5. PublicKeysUnique'
    <2> SUFFICES ASSUME fresh' PROVE KeysPublic(rows')
      BY DEF PublicKeysUnique, KeysPublic
    <2>1. fresh /\ (req[c].kind = "restore" => \A s \in req[c].strs : copy[c][s] = rows[s])
      BY DEF Commit
    <2>2. CASE Publishes(req[c])
      BY <1>1, <2>1, <2>2 DEF Safe, Going, Checked
    <2>3. CASE ~Publishes(req[c])
      <3>1. KeysPublic(rows)
        BY <2>1 DEF Safe, PublicKeysUnique
      <3>2. \A s \in Strings : /\ rows'[s].pub = rows[s].pub
                               /\ Exported(rows'[s]) => Exported(rows[s])
        BY <1>1, <2>1, <2>3, Written
      <3>3. \A s \in Strings : Exported(rows'[s]) => rows'[s].pub # None
        BY <1>3 DEF Whole, Exported
      <3>4. QED
        BY <3>1, <3>2, <3>3, FewerPublic
    <2>4. QED
      BY <2>2, <2>3
  <1>6. Going(c)'
    BY <1>1, DoneTypes DEF Safe, Going, Started, Copied, Checked
  <1>7. \A d \in Clients \ {c} : Going(d)'
    BY <1>2, <1>3, OtherCommits
  <1>8. QED
    BY <1>3, <1>4, <1>5, <1>6, <1>7 DEF Safe, Wholes

THEOREM NextSafe == Safe /\ [Next]_vars => Safe'
  <1> SUFFICES ASSUME Safe, [Next]_vars PROVE Safe'
    OBVIOUS
  <1>1. CASE UNCHANGED vars
    <2>1. UNCHANGED <<scene, rows, publisher, rowLock, pc, req, copy, seen, sent, fresh>>
      BY <1>1 DEF vars, lockVars
    <2>2. TypeOK' /\ Wholes' /\ PublicKeysUnique'
      BY <2>1 DEF Safe, TypeOK, Wholes, PublicKeysUnique, KeysPublic
    <2>3. ASSUME NEW c \in Clients PROVE Going(c)'
      BY <2>1, Undisturbed DEF Safe, TypeOK
    <2>4. QED
      BY <2>2, <2>3 DEF Safe
  <1>2. ASSUME NEW c \in Clients, Look(c) PROVE Safe'
    BY <1>2, LookSafe
  <1>3. ASSUME NEW c \in Clients, NEW q \in Edits \cup Batches, Start(c, q) PROVE Safe'
    BY <1>3, StartSafe
  <1>4. ASSUME NEW c \in Clients, ClientStep(c) PROVE Safe'
    BY <1>4, ReadSafe, FlushSafe, CommitSafe, GiveUpSafe DEF ClientStep
  <1>5. QED
    BY <1>1, <1>2, <1>3, <1>4 DEF Next

THEOREM Invariance == Spec => []Safe
  BY InitSafe, NextSafe, PTL DEF Spec

\* The export is unambiguous and the table has its types, for any strings, clients and
\* situations (lock_publication, guard_published_keys).
THEOREM ExportIsSound == Spec => []ExportSound
  <1>1. Safe => ExportSound
    BY DEF Safe, ExportSound
  <1>2. QED
    BY <1>1, Invariance, PTL

-----------------------------------------------------------------------------
(* What a commit may do.                                                   *)

\* Only a commit writes rows, and it ends its client's request.
LEMMA OnlyCommitsWrite ==
    ASSUME Safe, [Next]_vars, rows' # rows
    PROVE  \E c \in Clients : Commit(c) /\ pc[c] = "flushed" /\ pc'[c] = "idle"
                              /\ rows' = Result(c)
  <1>1. rows' # rows => \E c \in Clients : Commit(c)
    BY DEF Next, vars, Look, Start, ClientStep, Read, Flush, GiveUp
  <1>2. QED
    BY <1>1, DoneTypes DEF Commit, Safe

\* Only the client that commits is seen to end a flushed request while rows change.
LEMMA OneEnds ==
    ASSUME Safe, NEW c \in Clients, Commit(c), NEW d \in Clients, pc[d] = "flushed",
           pc'[d] = "idle"
    PROVE  d = c
  BY DoneTypes DEF Commit, Safe

\* A row that a publishing commit changes in the export is the row its client reviewed.
LEMMA Reviews ==
    ASSUME Safe, NEW c \in Clients, pc[c] = "flushed", req[c].kind = "publish",
           NEW s \in req[c].strs, Publishable(copy[c][s])
    PROVE  copy[c][s] = seen[c][s]
  <1> DEFINE P(table) == {t \in req[c].strs : Publishable(table[t])}
             F(table) == [t \in P(table) |-> table[t]]
  <1>1. F(copy[c]) = F(seen[c])
    BY DEF Safe, Going, Checked, AsReviewed, Fingerprint
  <1>2. s \in P(copy[c]) /\ P(copy[c]) = DOMAIN F(copy[c]) /\ P(seen[c]) = DOMAIN F(seen[c])
    OBVIOUS
  <1>3. s \in P(seen[c])
    BY <1>1, <1>2
  <1>4. F(copy[c])[s] = copy[c][s] /\ F(seen[c])[s] = seen[c][s]
    BY <1>2, <1>3
  <1>5. QED
    BY <1>1, <1>4

\* For any strings and clients, deleting, editing, discarding and fresh restores leave
\* the public export alone (queue_or_soft_delete).
THEOREM ExportLeftOnPurpose == Spec => LeavesOnPurpose
  <1> DEFINE Kept ==
       \A s \in Strings :
          fresh' /\ Exported(rows[s]) /\ ~Exported(rows'[s]) =>
              \E c \in Clients :
                  /\ pc[c] = "flushed" /\ pc'[c] = "idle"
                  /\ s \in req[c].strs
                  /\ \/ req[c].kind = "unpublish"
                     \/ req[c].kind = "publish" /\ seen[c][s].pending
                     \/ IsEdit(req[c]) /\ req[c].status = "draft"
  <1>1. ASSUME Safe, [Next]_vars, NEW s \in Strings, fresh', Exported(rows[s]),
               ~Exported(rows'[s])
        PROVE  \E c \in Clients :
                  /\ pc[c] = "flushed" /\ pc'[c] = "idle"
                  /\ s \in req[c].strs
                  /\ \/ req[c].kind = "unpublish"
                     \/ req[c].kind = "publish" /\ seen[c][s].pending
                     \/ IsEdit(req[c]) /\ req[c].status = "draft"
    <2>1. rows' # rows
      BY <1>1
    <2>2. PICK c \in Clients : Commit(c) /\ pc[c] = "flushed" /\ pc'[c] = "idle"
                               /\ rows' = Result(c)
      BY <1>1, <2>1, OnlyCommitsWrite
    <2>3. s \in req[c].strs
      BY <1>1, <2>2 DEF Result
    <2> DEFINE q == req[c]
               b == copy[c][s]
               n == rows[s]
    <2>4. /\ q \in Requests /\ Sensible(q) /\ b \in Rows /\ n \in Rows /\ Whole(b) /\ Whole(n)
          /\ TakesLock(q) => b.pub = n.pub
          /\ IsEdit(q) => b = n
          /\ q.kind = "create" => ~Exists(n)
      BY <1>1, <2>2, <2>3 DEF Safe, TypeOK, Wholes, Going, Started, Copied, Checked
    <2>5. q.kind = "restore" => b = n
      BY <1>1, <2>2, <2>3 DEF Commit
    <2>6. rows'[s] = Changed(b, Handled(q, b), n)
      BY <2>2, <2>3 DEF Result
    <2>7. q.kind # "create"
      BY <1>1, <2>4 DEF Exported, Alive
    <2>8. /\ q.kind \in {"restore", "save", "guarded"} => b = n
          /\ q.kind = "delete" => b.pub = n.pub
      BY <2>4, <2>5 DEF TakesLock, IsEdit
    <2>9. Exported(n) /\ ~Exported(rows'[s])
      BY <1>1
    <2>10. q.kind = "publish" /\ b.pending /\ Alive(b) => seen[c][s].pending
      BY <1>1, <2>2, <2>3, Reviews DEF Publishable
    <2> HIDE DEF q, b, n
    <2>11. \/ q.kind = "unpublish"
           \/ q.kind = "publish" /\ b.pending /\ Alive(b)
           \/ IsEdit(q) /\ q.status = "draft"
      BY <2>4, <2>6, <2>7, <2>8, <2>9, Stays
    <2>12. QED
      BY <2>2, <2>3, <2>10, <2>11 DEF q
  <1>2. ASSUME Safe, [Next]_vars PROVE Kept
    BY <1>1, <1>2
  <1>3. Safe /\ [Next]_vars => Kept
    BY <1>2
  <1> HIDE DEF Kept
  <1>4. Spec => [][Kept]_vars
    BY <1>3, Invariance, PTL DEF Spec
  <1>5. QED
    BY <1>4 DEF Kept, LeavesOnPurpose

\* For any clients and values, a guarded save never overwrites what its editor did not
\* show (_check_editor_expected under the row's lock).
THEOREM EditsNotLost == Spec => NoLostEdit
  <1> DEFINE Kept ==
       \A c \in Clients, s \in Strings :
          /\ pc[c] = "flushed" /\ pc'[c] = "idle"
          /\ req[c].kind = "guarded" /\ s \in req[c].strs
          => \A f \in {"key", "text"} :
                rows'[s][f] # rows[s][f] => rows[s][f] = seen[c][s][f]
  <1>1. ASSUME Safe, [Next]_vars, NEW c \in Clients, NEW s \in Strings, pc[c] = "flushed",
               pc'[c] = "idle", req[c].kind = "guarded", s \in req[c].strs,
               NEW f \in {"key", "text"}, rows'[s][f] # rows[s][f]
        PROVE  rows[s][f] = seen[c][s][f]
    <2>1. PICK e \in Clients : Commit(e) /\ rows' = Result(e)
      BY <1>1, OnlyCommitsWrite
    <2>2. rows' = Result(c)
      BY <1>1, <2>1, OneEnds
    <2> DEFINE q == req[c]
               b == copy[c][s]
    <2>3. q \in Requests /\ Sensible(q) /\ b \in Rows /\ Whole(b) /\ b = rows[s]
      BY <1>1 DEF Safe, TypeOK, Going, Started, Copied, IsEdit
    <2>4. q[f] # None => b[f] \in {seen[c][s][f], q[f]}
      BY <1>1 DEF Safe, Going, Checked, NoConflict
    <2>5. rows'[s] = Changed(b, Handled(q, b), b)
      BY <1>1, <2>2, <2>3 DEF Result
    <2>6. IsEdit(q)
      BY <1>1 DEF IsEdit
    <2> HIDE DEF q, b
    <2> DEFINE h == Handled(q, b)
    <2>7. /\ h \in Rows
          /\ h.key # b.key => q.key # None /\ h.key = q.key
          /\ h.text # b.text => q.text # None /\ h.text = q.text
      BY <2>3, <2>6, HandledWhole, HandledFields
    <2>8. /\ rows'[s].key = h.key /\ rows'[s].text = h.text
      BY <2>3, <2>5, <2>7, ChangedFields
    <2> HIDE DEF h
    <2>9. CASE f = "key"
      BY <1>1, <2>3, <2>4, <2>7, <2>8, <2>9
    <2>10. CASE f = "text"
      BY <1>1, <2>3, <2>4, <2>7, <2>8, <2>10
    <2>11. QED
      BY <2>9, <2>10
  <1>2. ASSUME Safe, [Next]_vars PROVE Kept
    BY <1>1, <1>2
  <1>3. Safe /\ [Next]_vars => Kept
    BY <1>2
  <1> HIDE DEF Kept
  <1>4. Spec => [][Kept]_vars
    BY <1>3, Invariance, PTL DEF Spec
  <1>5. QED
    BY <1>4 DEF Kept, NoLostEdit

\* For any clients, publishing, unpublishing and deleting never undo an edit of the
\* working copy.
THEOREM EditsKept == Spec => EditsSurvive
  <1> DEFINE Kept ==
       \A c \in Clients, s \in Strings :
          /\ pc[c] = "flushed" /\ pc'[c] = "idle"
          /\ req[c].kind \in BatchKinds \ {"discard"}
          /\ Exists(rows[s])
          => Content(rows'[s]) = Content(rows[s])
  <1>1. ASSUME Safe, [Next]_vars, NEW c \in Clients, NEW s \in Strings, pc[c] = "flushed",
               pc'[c] = "idle", req[c].kind \in BatchKinds \ {"discard"}
        PROVE  Content(rows'[s]) = Content(rows[s])
    <2>1. CASE rows' = rows
      BY <2>1
    <2>2. CASE rows' # rows
      <3>1. rows' = Result(c)
        BY <1>1, <2>2, OnlyCommitsWrite, OneEnds
      <3>2. CASE s \notin req[c].strs
        BY <3>1, <3>2 DEF Result
      <3>3. CASE s \in req[c].strs
        <4> DEFINE q == req[c]
                   b == copy[c][s]
        <4>1. /\ q \in Requests /\ Sensible(q) /\ b \in Rows /\ Whole(b) /\ rows[s] \in Rows
              /\ q.kind \in BatchKinds \ {"discard"}
          BY <1>1, <3>3 DEF Safe, TypeOK, Going, Started, Copied
        <4>2. rows'[s] = Changed(b, Handled(q, b), rows[s])
          BY <3>1, <3>3 DEF Result
        <4> HIDE DEF q, b
        <4>3. /\ Handled(q, b) \in Rows
              /\ Handled(q, b).key = b.key /\ Handled(q, b).text = b.text
          BY <4>1, HandledWhole, HandledFields
        <4>4. rows'[s].key = rows[s].key /\ rows'[s].text = rows[s].text
          BY <4>1, <4>2, <4>3, ChangedFields
        <4>5. QED
          BY <4>4 DEF Content
      <3>4. QED
        BY <3>2, <3>3
    <2>3. QED
      BY <2>1, <2>2
  <1>2. ASSUME Safe, [Next]_vars PROVE Kept
    BY <1>1, <1>2
  <1>3. Safe /\ [Next]_vars => Kept
    BY <1>2
  <1> HIDE DEF Kept
  <1>4. Spec => [][Kept]_vars
    BY <1>3, Invariance, PTL DEF Spec
  <1>5. QED
    BY <1>4 DEF Kept, EditsSurvive

\* For any clients, a batch publish ships exactly what its client reviewed
\* (compute_publish_fingerprint under the publication lock).
THEOREM ShipsWhatWasReviewed == Spec => PublishedAsReviewed
  <1> DEFINE Kept ==
       \A c \in Clients, s \in Strings :
          /\ pc[c] = "flushed" /\ pc'[c] = "idle" /\ req[c].kind = "publish"
          /\ rows'[s].pub # rows[s].pub
          => rows'[s].pub = Content(seen[c][s])
  <1>1. ASSUME Safe, [Next]_vars, NEW c \in Clients, NEW s \in Strings, pc[c] = "flushed",
               pc'[c] = "idle", req[c].kind = "publish", rows'[s].pub # rows[s].pub
        PROVE  rows'[s].pub = Content(seen[c][s])
    <2>1. rows' = Result(c)
      BY <1>1, OnlyCommitsWrite, OneEnds
    <2>2. s \in req[c].strs
      BY <1>1, <2>1 DEF Result
    <2> DEFINE q == req[c]
               b == copy[c][s]
    <2>3. q \in Requests /\ Sensible(q) /\ b \in Rows /\ Whole(b) /\ rows[s] \in Rows
          /\ q.kind = "publish" /\ b.pub = rows[s].pub
      BY <1>1, <2>2 DEF Safe, TypeOK, Going, Started, Copied, TakesLock, Publishes
    <2>4. rows'[s] = Changed(b, Handled(q, b), rows[s])
      BY <2>1, <2>2 DEF Result
    <2>5. Publishable(b) => b = seen[c][s]
      BY <1>1, <2>2, Reviews
    <2>6. rows'[s].pub # b.pub
      BY <1>1, <2>3
    <2> HIDE DEF q, b
    <2>7. rows'[s].pub = Handled(q, b).pub /\ Handled(q, b).pub # b.pub
      BY <2>3, <2>4, <2>6, HandledWhole, ChangedFields
    <2>8. Handled(q, b).pub = Content(b) /\ Alive(b)
      BY <2>3, <2>7, HandledFields
    <2>9. Publishable(b)
      BY <2>3, <2>7, <2>8 DEF Publishable, HasUnpublishedChanges, Whole
    <2>10. QED
      BY <2>5, <2>7, <2>8, <2>9
  <1>2. ASSUME Safe, [Next]_vars PROVE Kept
    BY <1>1, <1>2
  <1>3. Safe /\ [Next]_vars => Kept
    BY <1>2
  <1> HIDE DEF Kept
  <1>4. Spec => [][Kept]_vars
    BY <1>3, Invariance, PTL DEF Spec
  <1>5. QED
    BY <1>4 DEF Kept, PublishedAsReviewed
=============================================================================
