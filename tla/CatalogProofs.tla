---------------------------- MODULE CatalogProofs ----------------------------
(***************************************************************************)
(* Cache and deletions of the catalog for any numbers of products, slugs,  *)
(* readers and writers.                                                    *)
(***************************************************************************)
EXTENDS Catalog, TLAPS

\* A writer in progress has a product there is, or a fresh one to itself; nobody
\* wrote a committed row that is not done.
WriterFits(w) ==
    /\ wpc[w] = "idle" => task[w].kind = "delete"
    /\ wpc[w] = "saved" => task[w].kind = "update"
    /\ wpc[w] = "invalidated" => task[w].kind = "delete"
    /\ Busy(w) =>
         /\ task[w].row.state # "absent"
         /\ task[w].kind = "delete" /\ wpc[w] = "commit" => task[w].row.state = "deleted"
         /\ IF task[w].kind = "create" THEN rows[task[w].id].state = "absent"
                                       ELSE rows[task[w].id].state # "absent"
         /\ task[w].kind = "create" => task[w].row.by = w
         /\ task[w].row.by \in {w, Seed} \/ wpc[task[w].row.by] = "done"
FreshIds ==
    \A w, x \in Writers : w # x /\ Busy(w) /\ Busy(x) /\ task[w].kind = "create"
                              => task[w].id # task[x].id
RowsByDone == \A p \in Products : rows[p].by # Seed => wpc[rows[p].by] = "done"
WritersFit == (\A w \in Writers : WriterFits(w)) /\ FreshIds /\ RowsByDone

\* What was found once is there still, deleted or not.
ThereStill == /\ \A k \in Keys : \A e \in cache[k] : rows[e.id].state # "absent"
              /\ \A r \in Readers : \A e \in page[r].found : rows[e.id].state # "absent"

\* A query that no write overlapped is current until it is stored.
AloneCurrent == \A r \in alone : /\ rpc[r] = "fill" /\ page[r].found = Found(page[r].key)
                                 /\ \A w \in Writers : ~Busy(w)

\* After its invalidation a writer finds the keys it cleared empty, or filled by
\* readers that overlapped it; and so does a deletion whose product was renamed
\* by somebody else.
Cleared(k) == k \in clean => cache[k] = {}
KeysCleared ==
    \A w \in Writers :
        /\ wpc[w] = "commit" /\ task[w].kind # "create" =>
               Cleared(task[w].row.slug) /\ Cleared("featured")
        /\ wpc[w] = "invalidated" => Cleared(rows[task[w].id].slug) /\ Cleared("featured")
        /\ wpc[w] = "loaded" /\ task[w].kind = "delete" =>
               rows[task[w].id] = task[w].row \/ Cleared(rows[task[w].id].slug)

\* No write that could revive a sealed product is under way.
NoneHeld == \A w \in Writers : Busy(w) /\ task[w].kind # "delete" => task[w].id \notin sealed

CatalogInv == /\ TypeOK /\ WritersFit /\ ThereStill /\ AloneCurrent /\ KeysCleared
              /\ CleanEntriesCurrent /\ SealedStaysDeleted /\ NoneHeld

------------------------------------------------------------------------------
LEMMA NoRowType == NoRow \in Row /\ NoTask \in Task /\ NoPage \in Page
<1>1. (CHOOSE s \in Slugs : TRUE) \in Slugs /\ (CHOOSE p \in Products : TRUE) \in Products
  BY NamesAssumption
<1>2. NoRow \in Row
  BY <1>1, ShownAssumption DEF NoRow, Row
<1> QED BY <1>1, <1>2 DEF NoTask, Task, NoPage, Page, Keys

\* What a query returns are entries of committed rows.
LEMMA FoundType == ASSUME rows \in [Products -> Row], NEW k \in Keys
                   PROVE  Found(k) \in SUBSET Entry
BY DEF Found, Entry

LEMMA FoundIsVisible == ASSUME NEW k, NEW e \in Found(k)
                        PROVE  /\ e.id \in Products /\ e.row = rows[e.id]
                               /\ rows[e.id].state = "live"
BY DEF Found, Matches, Visible

LEMMA InitInv == Init => CatalogInv
<1> SUFFICES ASSUME Init PROVE CatalogInv
  OBVIOUS
<1>1. rows \in [Products -> Row] /\ \A p \in Products : rows[p].by = Seed
  BY NoRowType DEF Init, Row, NoRow
<1>2. TypeOK
  BY <1>1, NoRowType DEF Init, TypeOK
<1>3. WritersFit /\ NoneHeld /\ KeysCleared
  BY <1>1 DEF Init, WritersFit, WriterFits, FreshIds, RowsByDone, NoneHeld, KeysCleared, NoTask, Busy
<1>4. ThereStill /\ AloneCurrent /\ CleanEntriesCurrent /\ SealedStaysDeleted
  BY DEF Init, ThereStill, AloneCurrent, CleanEntriesCurrent, SealedStaysDeleted, NoPage
<1> QED BY <1>2, <1>3, <1>4 DEF CatalogInv

------------------------------------------------------------------------------
(* Readers and the clock: rows and writers stay as they are. *)

\* What is said of rows and writers alone.
LEMMA RowsFrame == ASSUME CatalogInv, UNCHANGED <<rows, writer, sealed>>
                   PROVE  /\ WritersFit' /\ SealedStaysDeleted' /\ NoneHeld'
                          /\ \A k : Found(k)' = Found(k)
                          /\ \A w : Busy(w)' = Busy(w)
<1> USE DEF CatalogInv, writer
<1>1. WritersFit'
  BY DEF WritersFit, WriterFits, FreshIds, RowsByDone, Busy
<1>2. SealedStaysDeleted' /\ NoneHeld'
  BY DEF SealedStaysDeleted, NoneHeld, Busy
<1>3. \A k : Found(k)' = Found(k)
  BY DEF Found, Matches, Visible
<1>4. \A w : Busy(w)' = Busy(w)
  BY DEF Busy
<1> QED BY <1>1, <1>2, <1>3, <1>4

\* A cache that only loses entries or cleanness keeps what is said of it.
LEMMA CacheShrinks ==
    ASSUME CatalogInv, UNCHANGED <<rows, writer, sealed>>,
           cache' \in [Keys -> SUBSET Entry], clean' \subseteq clean,
           \A k \in Keys : cache'[k] = {} \/ cache'[k] = cache[k] \/ k \notin clean'
    PROVE  KeysCleared' /\ CleanEntriesCurrent'
<1> USE DEF CatalogInv
<1>1. \A k \in Keys : Cleared(k) => Cleared(k)'
  BY DEF Cleared
<1>2. KeysCleared'
  <2>1. \A w \in Writers : task[w].row.slug \in Keys /\ rows[task[w].id].slug \in Keys
    BY DEF TypeOK, Task, Row, Keys
  <2> QED BY <1>1, <2>1 DEF KeysCleared, writer, Keys
<1>3. CleanEntriesCurrent'
  <2> SUFFICES ASSUME NEW k \in clean'
               PROVE  IF k = "featured" THEN CleanListCurrent' ELSE CleanPageCurrent(k)'
    BY DEF CleanEntriesCurrent
  <2>1. k \in clean /\ k \in Keys /\ (cache'[k] = {} \/ cache'[k] = cache[k])
    BY DEF TypeOK
  <2>2. CASE k = "featured"
    BY <2>1, <2>2, RowsFrame DEF CleanEntriesCurrent, CleanListCurrent, writer
  <2>3. CASE k # "featured"
    BY <2>1, <2>3 DEF CleanEntriesCurrent, CleanPageCurrent
  <2> QED BY <2>2, <2>3
<1> QED BY <1>2, <1>3

LEMMA MissKeeps == ASSUME NEW r \in Readers, NEW k \in Keys, CatalogInv, Miss(r, k)
                   PROVE  CatalogInv'
<1> USE DEF Miss, history
<1>1. UNCHANGED <<rows, writer, sealed>> /\ r \notin alone
  BY DEF CatalogInv, AloneCurrent
<1>2. page[r] \in Page /\ page' = [page EXCEPT ![r] = [page[r] EXCEPT !.key = k]]
  BY DEF CatalogInv, TypeOK
<1>3. [page[r] EXCEPT !.key = k] \in Page /\ [page[r] EXCEPT !.key = k].found = page[r].found
  BY <1>2 DEF Page
<1> DEFINE new == [page[r] EXCEPT !.key = k]
<1> HIDE DEF new
<1>4. TypeOK'
  BY <1>2, <1>3 DEF CatalogInv, TypeOK, writer, new
<1>5. KeysCleared' /\ CleanEntriesCurrent'
  BY <1>1, CacheShrinks DEF CatalogInv, TypeOK
<1>6. ThereStill'
  BY <1>2, <1>3 DEF CatalogInv, TypeOK, ThereStill, new
<1>7. AloneCurrent'
  BY <1>1, RowsFrame DEF CatalogInv, TypeOK, AloneCurrent
<1> QED BY <1>1, <1>4, <1>5, <1>6, <1>7, RowsFrame DEF CatalogInv

LEMMA QueryKeeps == ASSUME NEW r \in Readers, CatalogInv, Query(r)
                    PROVE  CatalogInv'
<1> USE DEF Query
<1> DEFINE found == Found(page[r].key)
           new == [page[r] EXCEPT !.found = found]
<1>1. UNCHANGED <<rows, writer, sealed>>
  OBVIOUS
<1>2. page[r] \in Page /\ page[r].key \in Keys /\ page' = [page EXCEPT ![r] = new]
  BY DEF CatalogInv, TypeOK, Page
<1>3. new \in Page /\ new.key = page[r].key /\ new.found = found
  BY <1>2, FoundType DEF CatalogInv, TypeOK, Page
<1>4. \A e \in found : rows[e.id].state # "absent"
  BY FoundIsVisible
<1> HIDE DEF found, new
<1>5. TypeOK'
  BY <1>2, <1>3 DEF CatalogInv, TypeOK, writer
<1>6. KeysCleared' /\ CleanEntriesCurrent'
  BY <1>1, CacheShrinks DEF CatalogInv, TypeOK
<1>7. ThereStill'
  BY <1>2, <1>3, <1>4 DEF CatalogInv, TypeOK, ThereStill
<1>8. AloneCurrent'
  <2> SUFFICES ASSUME NEW x \in alone'
               PROVE  /\ rpc'[x] = "fill" /\ page'[x].found = Found(page[x].key)'
                      /\ \A w \in Writers : ~Busy(w)'
    BY DEF AloneCurrent
  <2>1. Found(page[x].key)' = Found(page'[x].key)
    BY <1>1 DEF Found, Matches, Visible
  <2>2. \A w : Busy(w)' = Busy(w)
    BY <1>1, RowsFrame
  <2>3. CASE x = r
    <3>1. \A w \in Writers : ~Busy(w)
      BY <2>3
    <3> QED BY <1>2, <1>3, <2>1, <2>2, <2>3, <3>1 DEF CatalogInv, TypeOK, found
  <2>4. CASE x # r
    BY <2>1, <2>2, <2>4 DEF CatalogInv, TypeOK, AloneCurrent
  <2> QED BY <2>3, <2>4
<1> QED BY <1>1, <1>5, <1>6, <1>7, <1>8, RowsFrame DEF CatalogInv

\* A reader that leaves takes its page with it.
LEMMA LeaveFrame == ASSUME NEW r \in Readers, CatalogInv, Leave(r),
                           UNCHANGED <<rows, writer, sealed>>
                    PROVE  /\ rpc' \in [Readers -> {"idle", "query", "fill"}]
                           /\ page' \in [Readers -> Page]
                           /\ alone' \subseteq Readers
                           /\ AloneCurrent'
                           /\ \A x \in Readers : page'[x].found \subseteq page[x].found
<1> USE DEF CatalogInv, TypeOK, Leave
<1>1. AloneCurrent'
  BY RowsFrame DEF AloneCurrent
<1> QED BY <1>1, NoRowType DEF NoPage

LEMMA FillKeeps == ASSUME NEW r \in Readers, CatalogInv, Fill(r)
                   PROVE  CatalogInv'
<1> DEFINE k == page[r].key
<1>1. /\ k \in Keys /\ page[r].found \in SUBSET Entry /\ Leave(r)
      /\ UNCHANGED <<rows, writer, sealed>>
      /\ cache' = [cache EXCEPT ![k] = page[r].found]
  BY DEF CatalogInv, TypeOK, Page, Fill
<1>2. TypeOK'
  BY <1>1, LeaveFrame DEF CatalogInv, TypeOK, Fill, writer
<1>3. ThereStill'
  BY <1>1, LeaveFrame DEF CatalogInv, TypeOK, ThereStill
<1>4. KeysCleared' /\ CleanEntriesCurrent'
  <2>1. CASE r \notin alone
    <3>1. clean' = clean \ {k} /\ cache' \in [Keys -> SUBSET Entry]
      BY <1>1, <2>1 DEF Fill, CatalogInv, TypeOK
    <3>2. \A x \in Keys : cache'[x] = {} \/ cache'[x] = cache[x] \/ x \notin clean'
      BY <1>1, <3>1 DEF CatalogInv, TypeOK
    <3> HIDE DEF k
    <3> QED BY <1>1, <3>1, <3>2, CacheShrinks
  <2>2. CASE r \in alone
    <3>1. /\ page[r].found = Found(k) /\ \A w \in Writers : ~Busy(w)
          /\ clean' = clean \cup {k}
      BY <2>2 DEF CatalogInv, AloneCurrent, Fill
    <3>2. KeysCleared'
      BY <1>1, <3>1 DEF KeysCleared, Busy, writer
    <3>3. CleanEntriesCurrent'
      <4> SUFFICES ASSUME NEW x \in clean'
                   PROVE  IF x = "featured" THEN CleanListCurrent' ELSE CleanPageCurrent(x)'
        BY DEF CleanEntriesCurrent
      <4>1. \A y : Found(y)' = Found(y)
        BY <1>1, RowsFrame
      <4>2. CASE x = k
        <5>1. cache'[x] = Found(x) /\ rows' = rows
          BY <1>1, <3>1, <4>2 DEF CatalogInv, TypeOK
        <5>2. \A e \in cache'[x] : rows'[e.id] = e.row
          BY <5>1, FoundIsVisible
        <5> QED BY <4>1, <5>1, <5>2 DEF CleanListCurrent, CleanPageCurrent
      <4>3. CASE x # k
        <5>1. x \in clean /\ x \in Keys /\ cache'[x] = cache[x]
          BY <1>1, <3>1, <4>3 DEF CatalogInv, TypeOK
        <5>2. CASE x = "featured"
          BY <1>1, <4>1, <5>1, <5>2
             DEF CatalogInv, CleanEntriesCurrent, CleanListCurrent, writer
        <5>3. CASE x # "featured"
          BY <1>1, <5>1, <5>3 DEF CatalogInv, CleanEntriesCurrent, CleanPageCurrent
        <5> QED BY <5>2, <5>3
      <4> QED BY <4>2, <4>3
    <3> QED BY <3>2, <3>3
  <2> QED BY <2>1, <2>2
<1> QED BY <1>1, <1>2, <1>3, <1>4, RowsFrame, LeaveFrame DEF CatalogInv

LEMMA LeaveUnservedKeeps == ASSUME NEW r \in Readers, CatalogInv, LeaveUnserved(r)
                            PROVE  CatalogInv'
<1>1. Leave(r) /\ UNCHANGED <<rows, cache, writer, clean, sealed>>
  BY DEF LeaveUnserved
<1>2. TypeOK'
  BY <1>1, LeaveFrame DEF CatalogInv, TypeOK, writer
<1>3. ThereStill'
  BY <1>1, LeaveFrame DEF CatalogInv, TypeOK, ThereStill
<1>4. KeysCleared' /\ CleanEntriesCurrent'
  BY <1>1, CacheShrinks DEF CatalogInv, TypeOK
<1> QED BY <1>1, <1>2, <1>3, <1>4, RowsFrame, LeaveFrame DEF CatalogInv

LEMMA ExpireKeeps == ASSUME NEW k \in Keys, CatalogInv, Expire(k)
                     PROVE  CatalogInv'
<1>1. /\ UNCHANGED <<rows, writer, reader, history, sealed>>
      /\ cache' = [cache EXCEPT ![k] = {}]
  BY DEF Expire, history
<1>2. cache' \in [Keys -> SUBSET Entry] /\ TypeOK'
  BY <1>1 DEF CatalogInv, TypeOK, writer, reader, history
<1>3. ThereStill'
  BY <1>1 DEF CatalogInv, TypeOK, ThereStill, reader
<1>4. AloneCurrent'
  BY <1>1, RowsFrame DEF CatalogInv, AloneCurrent, reader, history
<1>5. KeysCleared' /\ CleanEntriesCurrent'
  BY <1>1, <1>2, CacheShrinks DEF CatalogInv, TypeOK, history
<1> QED BY <1>1, <1>2, <1>3, <1>4, <1>5, RowsFrame DEF CatalogInv

------------------------------------------------------------------------------
(* Writers. *)

\* A writer that starts holds the row there is, or a fresh one.
LEMMA StartKeeps ==
    ASSUME NEW w \in Writers, NEW t \in Task, CatalogInv, Start(w, t),
           t.row.state # "absent",
           t.row.by \in {w, Seed} \/ wpc[t.row.by] = "done",
           IF t.kind = "create"
           THEN /\ rows[t.id].state = "absent"
                /\ \A x \in Writers : ~(Busy(x) /\ task[x].id = t.id)
           ELSE rows[t.id].state = "live",
           t.kind = "delete" => rows[t.id] = t.row,
           t.kind = "create" => t.row.by = w
    PROVE  CatalogInv'
<1>1. /\ wpc[w] = "idle" /\ wpc' = [wpc EXCEPT ![w] = "loaded"]
      /\ task' = [task EXCEPT ![w] = t] /\ alone' = {}
      /\ UNCHANGED <<rows, cache, rpc, page, clean, sealed>>
  BY DEF Start, Goto, reader
<1>2. /\ wpc'[w] = "loaded" /\ task'[w] = t /\ w \in Writers
      /\ \A x \in Writers : x # w => wpc'[x] = wpc[x] /\ task'[x] = task[x]
  BY <1>1 DEF CatalogInv, TypeOK
<1>3. TypeOK'
  BY <1>1 DEF CatalogInv, TypeOK
<1>4. RowsByDone'
  <2>1. \A p \in Products : rows[p].by \in Writers \cup {Seed}
    BY DEF CatalogInv, TypeOK, Row
  <2> QED BY <1>1, <1>2, <2>1 DEF CatalogInv, WritersFit, RowsByDone
<1>5. ASSUME NEW x \in Writers PROVE WriterFits(x)'
  <2>1. CASE x = w
    <3>1. t.row.by \in {w, Seed} \/ (t.row.by \in Writers /\ wpc'[t.row.by] = "done")
      <4>1. t.row.by \in Writers \cup {Seed}
        BY DEF Task, Row
      <4> QED BY <1>1, <1>2, <4>1
    <3> QED BY <1>1, <1>2, <2>1, <3>1 DEF WriterFits, Busy
  <2>2. CASE x # w
    <3>1. wpc'[x] = wpc[x] /\ task'[x] = task[x] /\ WriterFits(x) /\ Busy(x)' = Busy(x)
      BY <1>2, <2>2 DEF CatalogInv, WritersFit, Busy
    <3>2. task[x].row.by \in Writers \cup {Seed}
      BY DEF CatalogInv, TypeOK, Task, Row
    <3>3. task[x].row.by \in Writers /\ wpc[task[x].row.by] = "done"
              => wpc'[task[x].row.by] = "done"
      BY <1>1, <1>2
    <3> QED BY <1>1, <3>1, <3>2, <3>3 DEF WriterFits
  <2> QED BY <2>1, <2>2
<1>6. FreshIds'
  <2> SUFFICES ASSUME NEW x \in Writers, NEW y \in Writers, x # y, Busy(x)', Busy(y)',
                      task'[x].kind = "create"
               PROVE  task'[x].id # task'[y].id
    BY DEF FreshIds
  <2>1. CASE x = w
    <3>1. Busy(y) /\ task'[y] = task[y]
      BY <1>2, <2>1 DEF Busy
    <3> QED BY <1>2, <2>1, <3>1
  <2>2. CASE y = w
    <3>1. Busy(x) /\ task'[x] = task[x]
      BY <1>2, <2>2 DEF Busy
    <3>2. rows[task[x].id].state = "absent"
      BY <1>2, <2>2, <3>1 DEF CatalogInv, WritersFit, WriterFits
    <3>3. CASE t.kind = "create"
      BY <1>2, <2>2, <3>1, <3>3
    <3>4. CASE t.kind # "create"
      BY <1>2, <2>2, <3>1, <3>2, <3>4
    <3> QED BY <3>3, <3>4
  <2>3. CASE x # w /\ y # w
    BY <1>2, <2>3 DEF CatalogInv, WritersFit, FreshIds, Busy
  <2> QED BY <2>1, <2>2, <2>3
<1>7. ThereStill' /\ AloneCurrent' /\ SealedStaysDeleted'
  BY <1>1 DEF CatalogInv, ThereStill, AloneCurrent, SealedStaysDeleted
<1>8. KeysCleared'
  <2>1. \A k : Cleared(k)' = Cleared(k)
    BY <1>1 DEF Cleared
  <2>2. \A x \in Writers : wpc'[x] # "idle" /\ x # w => wpc'[x] = wpc[x] /\ task'[x] = task[x]
    BY <1>2
  <2> QED BY <1>1, <1>2, <2>1, <2>2 DEF CatalogInv, KeysCleared
<1>9. NoneHeld'
  BY <1>1, <1>2 DEF CatalogInv, NoneHeld, SealedStaysDeleted, Busy
<1>10. CleanEntriesCurrent'
  <2> SUFFICES ASSUME NEW k \in clean
               PROVE  IF k = "featured" THEN CleanListCurrent' ELSE CleanPageCurrent(k)'
    BY <1>1 DEF CleanEntriesCurrent
  <2>1. CASE k = "featured"
    <3>1. Found("featured")' = Found("featured")
      BY <1>1 DEF Found, Matches, Visible
    <3>2. ASSUME NEW e \in Found("featured"), NEW x \in Writers,
                 e.row.by = x, task[x].kind = "create"
          PROVE  task'[x].kind = "create"
      <4>1. wpc[x] = "done"
        BY <3>2, FoundIsVisible, SeedAssumption DEF CatalogInv, WritersFit, RowsByDone
      <4> QED BY <1>1, <1>2, <3>2, <4>1
    <3> QED BY <1>1, <2>1, <3>1, <3>2 DEF CatalogInv, CleanEntriesCurrent, CleanListCurrent
  <2>2. CASE k # "featured"
    BY <1>1, <2>2 DEF CatalogInv, CleanEntriesCurrent, CleanPageCurrent
  <2> QED BY <2>1, <2>2
<1> QED BY <1>3, <1>4, <1>5, <1>6, <1>7, <1>8, <1>9, <1>10 DEF CatalogInv, WritersFit

LEMMA StartCreateKeeps == ASSUME NEW w \in Writers, NEW p \in Products, CatalogInv,
                                 StartCreate(w, p)
                          PROVE  CatalogInv'
<1>1. PICK s \in FreeSlugs, v \in Shown :
          Start(w, [kind |-> "create", id |-> p,
                    row |-> [state |-> "live", slug |-> s, shown |-> v, by |-> w]])
  BY DEF StartCreate
<1>2. /\ rows[p].state = "absent"
      /\ \A x \in Writers : ~(Busy(x) /\ task[x].id = p)
  BY DEF StartCreate
<1> DEFINE t == [kind |-> "create", id |-> p,
                 row |-> [state |-> "live", slug |-> s, shown |-> v, by |-> w]]
<1>3. /\ t \in Task /\ t.kind = "create" /\ t.id = p
      /\ t.row.state = "live" /\ t.row.by = w /\ Start(w, t)
  BY <1>1 DEF Task, Row, FreeSlugs
<1> HIDE DEF t
<1> QED BY <1>2, <1>3, StartKeeps

LEMMA StartUpdateKeeps == ASSUME NEW w \in Writers, NEW p \in Products, CatalogInv,
                                 StartUpdate(w, p)
                          PROVE  CatalogInv'
<1>0. PICK old \in Loaded(p), v \in Shown :
          \E s \in FreeSlugs \cup {old.slug} :
              Start(w, [kind |-> "update", id |-> p,
                        row |-> [old EXCEPT !.slug = s, !.shown = v, !.by = w]])
  BY DEF StartUpdate
<1>1. PICK s \in FreeSlugs \cup {old.slug} :
          Start(w, [kind |-> "update", id |-> p,
                    row |-> [old EXCEPT !.slug = s, !.shown = v, !.by = w]])
  BY <1>0
<1>2. old = rows[p] /\ rows[p] \in Row /\ rows[p].state = "live" /\ s \in Slugs
  BY <1>0, <1>1 DEF Loaded, Visible, FreeSlugs, CatalogInv, TypeOK, Row
<1> DEFINE t == [kind |-> "update", id |-> p,
                 row |-> [old EXCEPT !.slug = s, !.shown = v, !.by = w]]
<1>3. /\ t \in Task /\ t.kind = "update" /\ t.id = p
      /\ t.row.state = "live" /\ t.row.by = w /\ Start(w, t)
  BY <1>1, <1>2 DEF Task, Row
<1> HIDE DEF t
<1> QED BY <1>2, <1>3, StartKeeps

LEMMA StartDeleteKeeps == ASSUME NEW w \in Writers, NEW p \in Products, CatalogInv,
                                 StartDelete(w, p)
                          PROVE  CatalogInv'
<1>1. /\ Start(w, [kind |-> "delete", id |-> p, row |-> rows[p]])
      /\ rows[p] \in Row /\ rows[p].state = "live"
  BY DEF StartDelete, Loaded, Visible, CatalogInv, TypeOK
<1>2. rows[p].by \in {Seed} \/ wpc[rows[p].by] = "done"
  BY DEF CatalogInv, WritersFit, RowsByDone
<1> DEFINE t == [kind |-> "delete", id |-> p, row |-> rows[p]]
<1>3. /\ t \in Task /\ t.kind = "delete" /\ t.id = p /\ t.row = rows[p] /\ Start(w, t)
  BY <1>1 DEF Task
<1> HIDE DEF t
<1> QED BY <1>1, <1>2, <1>3, StartKeeps

------------------------------------------------------------------------------
(* Steps of a writer that leave the rows alone. *)

\* A writer moves on, with the same product, and the cache loses at most entries.
LEMMA WriterFrame ==
    ASSUME NEW w \in Writers, NEW there, CatalogInv, Busy(w), there # "idle",
           Goto(w, there), there \in {"saved", "invalidated", "commit", "done"},
           UNCHANGED <<rows, reader, history>>,
           task' \in [Writers -> Task],
           \A x \in Writers : x # w => task'[x] = task[x],
           task'[w].kind = task[w].kind,
           there # "done" => task'[w].id = task[w].id,
           WriterFits(w)',
           cache' \in [Keys -> SUBSET Entry],
           \A k \in Keys : cache'[k] = {} \/ cache'[k] = cache[k]
    PROVE  /\ TypeOK' /\ WritersFit' /\ ThereStill' /\ AloneCurrent'
           /\ CleanEntriesCurrent' /\ SealedStaysDeleted' /\ NoneHeld'
<1>1. /\ wpc' = [wpc EXCEPT ![w] = there] /\ wpc'[w] = there
      /\ \A x \in Writers : x # w => wpc'[x] = wpc[x]
      /\ UNCHANGED <<rows, rpc, page, alone, clean, sealed>>
  BY DEF CatalogInv, TypeOK, Goto, reader, history
<1>2. TypeOK'
  BY <1>1 DEF CatalogInv, TypeOK
<1>3. WritersFit'
  <2>1. \A x \in Writers : wpc[x] = "done" => wpc'[x] = "done"
    BY <1>1 DEF Busy
  <2>2. RowsByDone'
    <3>1. \A p \in Products : rows[p].by \in Writers \cup {Seed}
      BY DEF CatalogInv, TypeOK, Row
    <3> QED BY <1>1, <2>1, <3>1 DEF CatalogInv, WritersFit, RowsByDone
  <2>3. ASSUME NEW x \in Writers, x # w PROVE WriterFits(x)'
    <3>1. wpc'[x] = wpc[x] /\ task'[x] = task[x] /\ WriterFits(x) /\ Busy(x)' = Busy(x)
      BY <1>1, <2>3 DEF CatalogInv, WritersFit, Busy
    <3>2. task[x].row.by \in Writers \cup {Seed}
      BY DEF CatalogInv, TypeOK, Task, Row
    <3> QED BY <1>1, <2>1, <3>1, <3>2 DEF WriterFits
  <2>4. FreshIds'
    <3> SUFFICES ASSUME NEW x \in Writers, NEW y \in Writers, x # y, Busy(x)', Busy(y)',
                        task'[x].kind = "create"
                 PROVE  task'[x].id # task'[y].id
      BY DEF FreshIds
    <3>1. Busy(x) /\ Busy(y) /\ task[x].kind = "create"
          /\ task'[x].id = task[x].id /\ task'[y].id = task[y].id
      BY <1>1 DEF Busy
    <3> QED BY <3>1 DEF CatalogInv, WritersFit, FreshIds
  <2> QED BY <2>2, <2>3, <2>4 DEF WritersFit
<1>4. ThereStill'
  BY <1>1 DEF CatalogInv, ThereStill
<1>5. AloneCurrent'
  BY <1>1 DEF CatalogInv, AloneCurrent
<1>6. SealedStaysDeleted' /\ NoneHeld'
  BY <1>1 DEF CatalogInv, SealedStaysDeleted, NoneHeld, Busy
<1>7. CleanEntriesCurrent'
  <2> SUFFICES ASSUME NEW k \in clean
               PROVE  IF k = "featured" THEN CleanListCurrent' ELSE CleanPageCurrent(k)'
    BY <1>1 DEF CleanEntriesCurrent
  <2>1. k \in Keys
    BY DEF CatalogInv, TypeOK
  <2>2. CASE k = "featured"
    <3>1. Found("featured")' = Found("featured")
      BY <1>1 DEF Found, Matches, Visible
    <3>2. \A x \in Writers : task'[x].kind = task[x].kind
      OBVIOUS
    <3> QED BY <1>1, <2>1, <2>2, <3>1, <3>2 DEF CatalogInv, CleanEntriesCurrent, CleanListCurrent
  <2>3. CASE k # "featured"
    BY <1>1, <2>1, <2>3 DEF CatalogInv, CleanEntriesCurrent, CleanPageCurrent
  <2> QED BY <2>2, <2>3
<1> QED BY <1>2, <1>3, <1>4, <1>5, <1>6, <1>7

\* Keys that are cleared for the other writers stay so.
LEMMA OthersCleared ==
    ASSUME NEW w \in Writers, CatalogInv, UNCHANGED <<rows, clean>>,
           \A x \in Writers : x # w => wpc'[x] = wpc[x] /\ task'[x] = task[x],
           \A k \in Keys : cache'[k] = {} \/ cache'[k] = cache[k],
           NEW x \in Writers, x # w
    PROVE  /\ wpc'[x] = "commit" /\ task'[x].kind # "create" =>
                   Cleared(task[x].row.slug)' /\ Cleared("featured")'
           /\ wpc'[x] = "invalidated" => Cleared(rows[task[x].id].slug)' /\ Cleared("featured")'
           /\ wpc'[x] = "loaded" /\ task'[x].kind = "delete" =>
                   rows'[task'[x].id] = task'[x].row \/ Cleared(rows[task[x].id].slug)'
<1>1. \A k \in Keys : Cleared(k) => Cleared(k)'
  BY DEF Cleared
<1> QED BY <1>1 DEF CatalogInv, KeysCleared, TypeOK, Task, Row, Keys

LEMMA SaveAllKeeps == ASSUME NEW w \in Writers, CatalogInv, SaveAll(w)
                      PROVE  CatalogInv'
<1> DEFINE there == IF task[w].kind = "create" THEN "commit" ELSE "saved"
<1>1. /\ wpc[w] = "loaded" /\ task[w].kind # "delete" /\ Goto(w, there)
      /\ UNCHANGED <<rows, cache, task, reader, history>>
      /\ task[w].kind \in {"create", "update"}
  BY DEF SaveAll, CatalogInv, TypeOK, Task
<1>2. /\ wpc' = [wpc EXCEPT ![w] = there] /\ wpc'[w] = there /\ Busy(w)
      /\ \A x \in Writers : x # w => wpc'[x] = wpc[x]
      /\ task[w].row.by \in Writers \cup {Seed}
  BY <1>1 DEF CatalogInv, TypeOK, Goto, Busy, Task, Row
<1>3. WriterFits(w)'
  BY <1>1, <1>2 DEF CatalogInv, WritersFit, WriterFits, Busy
<1>4. KeysCleared'
  BY <1>1, <1>2, OthersCleared DEF KeysCleared, history
<1>5. task' \in [Writers -> Task] /\ cache' \in [Keys -> SUBSET Entry]
  BY <1>1 DEF CatalogInv, TypeOK
<1>6. there \in {"saved", "commit"}
  OBVIOUS
<1> HIDE DEF there
<1> QED BY <1>1, <1>2, <1>3, <1>4, <1>5, <1>6, WriterFrame DEF CatalogInv

LEMMA SaveDeletedKeeps == ASSUME NEW w \in Writers, CatalogInv, SaveDeleted(w)
                          PROVE  CatalogInv'
<1> DEFINE row == [rows[task[w].id] EXCEPT !.state = "deleted"]
           t == [task[w] EXCEPT !.row = row]
<1>1. /\ wpc[w] = "invalidated" /\ Goto(w, "commit") /\ task[w] \in Task
      /\ UNCHANGED <<rows, cache, reader, history>>
      /\ task' = [task EXCEPT ![w] = t] /\ rows[task[w].id] \in Row
  BY DEF SaveDeleted, CatalogInv, TypeOK, Task
<1>2. /\ row \in Row /\ row.state = "deleted" /\ row.slug = rows[task[w].id].slug
      /\ row.by = rows[task[w].id].by
  BY <1>1 DEF Row
<1> HIDE DEF row
<1>3. t \in Task /\ t.row = row /\ t.kind = task[w].kind /\ t.id = task[w].id
  BY <1>1, <1>2 DEF Task
<1> HIDE DEF t
<1>4. /\ wpc' = [wpc EXCEPT ![w] = "commit"] /\ wpc'[w] = "commit" /\ Busy(w)
      /\ task' \in [Writers -> Task] /\ task'[w] = t
      /\ \A x \in Writers : x # w => wpc'[x] = wpc[x] /\ task'[x] = task[x]
  BY <1>1, <1>3 DEF CatalogInv, TypeOK, Goto, Busy
<1>5. row.by \in Writers \cup {Seed} /\ (row.by # Seed => wpc'[row.by] = "done")
  <2>1. row.by # Seed => wpc[row.by] = "done"
    BY <1>2, <1>3 DEF CatalogInv, WritersFit, RowsByDone, Task
  <2> QED BY <1>1, <1>2, <1>4, <2>1 DEF Row
<1>6. WriterFits(w)'
  BY <1>1, <1>2, <1>3, <1>4, <1>5 DEF CatalogInv, WritersFit, WriterFits, Busy
<1>7. KeysCleared'
  <2>1. \A k : Cleared(k)' = Cleared(k)
    BY <1>1 DEF Cleared, history
  <2>2. Cleared(rows[task[w].id].slug) /\ Cleared("featured")
    BY <1>1 DEF CatalogInv, KeysCleared
  <2>3. task'[w].row.slug = rows[task[w].id].slug
    BY <1>2, <1>3, <1>4
  <2>4. UNCHANGED <<rows, clean>> /\ \A k \in Keys : cache'[k] = cache[k]
    BY <1>1 DEF history
  <2> QED BY <1>4, <2>1, <2>2, <2>3, <2>4, OthersCleared DEF KeysCleared
<1>8. cache' \in [Keys -> SUBSET Entry]
  BY <1>1 DEF CatalogInv, TypeOK
<1> QED BY <1>1, <1>3, <1>4, <1>6, <1>7, <1>8, WriterFrame DEF CatalogInv

LEMMA InvalidateKeeps == ASSUME NEW w \in Writers, CatalogInv, Invalidate(w)
                         PROVE  CatalogInv'
<1> DEFINE there == IF wpc[w] = "saved" THEN "commit" ELSE "invalidated"
<1>1. /\ wpc[w] = "saved" \/ (wpc[w] = "loaded" /\ task[w].kind = "delete")
      /\ Goto(w, there)
      /\ UNCHANGED <<rows, task, reader, history>>
      /\ cache' = [k \in Keys |-> IF k \in KeysOf(task[w].row) THEN {} ELSE cache[k]]
  BY DEF Invalidate
<1>2. /\ wpc' = [wpc EXCEPT ![w] = there] /\ wpc'[w] = there /\ Busy(w)
      /\ \A x \in Writers : x # w => wpc'[x] = wpc[x]
      /\ task[w].row.by \in Writers \cup {Seed} /\ task[w].row.slug \in Slugs
      /\ rows[task[w].id].slug \in Slugs
  BY <1>1 DEF CatalogInv, TypeOK, Goto, Busy, Task, Row
<1>3. WriterFits(w)'
  BY <1>1, <1>2 DEF CatalogInv, WritersFit, WriterFits, Busy
<1>4. \A k \in Keys : cache'[k] = {} \/ cache'[k] = cache[k]
  BY <1>1
<1>5. KeysCleared'
  <2>1. cache'[task[w].row.slug] = {} /\ cache'["featured"] = {}
    BY <1>1, <1>2 DEF KeysOf, Keys
  <2>2. Cleared(task[w].row.slug)' /\ Cleared("featured")'
    BY <1>1, <2>1 DEF Cleared
  <2>3. wpc'[w] = "invalidated" => Cleared(rows[task[w].id].slug)'
    <3> SUFFICES ASSUME wpc'[w] = "invalidated" PROVE Cleared(rows[task[w].id].slug)'
      OBVIOUS
    <3>1. wpc[w] = "loaded" /\ task[w].kind = "delete"
      BY <1>1, <1>2
    <3>2. CASE rows[task[w].id] = task[w].row
      BY <1>1, <2>2, <3>2
    <3>3. CASE Cleared(rows[task[w].id].slug)
      BY <1>1, <1>2, <1>4, <3>3 DEF Cleared, Keys, history
    <3> QED BY <3>1, <3>2, <3>3 DEF CatalogInv, KeysCleared
  <2> QED BY <1>1, <1>2, <1>4, <2>2, <2>3, OthersCleared DEF KeysCleared, history
<1>6. task' \in [Writers -> Task] /\ cache' \in [Keys -> SUBSET Entry]
  BY <1>1 DEF CatalogInv, TypeOK
<1>7. there \in {"invalidated", "commit"}
  OBVIOUS
<1> HIDE DEF there
<1> QED BY <1>1, <1>2, <1>3, <1>4, <1>5, <1>6, <1>7, WriterFrame DEF CatalogInv

LEMMA AbortKeeps == ASSUME NEW w \in Writers, CatalogInv, Abort(w)
                    PROVE  CatalogInv'
<1> DEFINE t == [NoTask EXCEPT !.kind = task[w].kind]
<1>1. /\ Busy(w) /\ Goto(w, "done") /\ task' = [task EXCEPT ![w] = t]
      /\ UNCHANGED <<rows, cache, reader, history>>
  BY DEF Abort, Leaves
<1>2. t \in Task /\ t.kind = task[w].kind
  BY NoRowType DEF CatalogInv, TypeOK, Task
<1> HIDE DEF t
<1>3. /\ wpc' = [wpc EXCEPT ![w] = "done"] /\ wpc'[w] = "done" /\ task'[w] = t
      /\ task' \in [Writers -> Task] /\ cache' \in [Keys -> SUBSET Entry]
      /\ \A x \in Writers : x # w => wpc'[x] = wpc[x] /\ task'[x] = task[x]
  BY <1>1, <1>2 DEF CatalogInv, TypeOK, Goto
<1>4. WriterFits(w)'
  BY <1>3 DEF WriterFits, Busy
<1>5. KeysCleared'
  BY <1>1, <1>3, OthersCleared DEF KeysCleared, history
<1> QED BY <1>1, <1>2, <1>3, <1>4, <1>5, WriterFrame DEF CatalogInv

------------------------------------------------------------------------------
\* A commit: the one step that changes a row.
LEMMA CommitKeeps == ASSUME NEW w \in Writers, CatalogInv, Commit(w)
                     PROVE  CatalogInv'
<1> DEFINE p == task[w].id
           row == task[w].row
           t == [NoTask EXCEPT !.kind = task[w].kind]
<1>1. /\ wpc[w] = "commit" /\ rows' = [rows EXCEPT ![p] = row]
      /\ wpc' = [wpc EXCEPT ![w] = "done"] /\ task' = [task EXCEPT ![w] = t]
      /\ UNCHANGED <<cache, rpc, page, alone, clean>>
  BY DEF Commit, Leaves, Goto, reader
<1>2. p \in Products /\ row \in Row /\ t \in Task /\ t.kind = task[w].kind
  BY NoRowType DEF CatalogInv, TypeOK, Task
<1> HIDE DEF t
<1>3. /\ wpc'[w] = "done" /\ task'[w] = t /\ Busy(w) /\ WriterFits(w)
      /\ \A x \in Writers : x # w => wpc'[x] = wpc[x] /\ task'[x] = task[x]
      /\ rows'[p] = row /\ \A q \in Products : q # p => rows'[q] = rows[q]
  BY <1>1, <1>2 DEF CatalogInv, TypeOK, WritersFit, Busy
<1>4. row.state # "absent" /\ (task[w].kind = "delete" => row.state = "deleted")
  BY <1>1, <1>3 DEF WriterFits
<1>5. \A x \in Writers : wpc[x] = "done" \/ x = w => wpc'[x] = "done"
  BY <1>3
<1>6. row.slug \in Slugs /\ row.by \in Writers \cup {Seed}
      /\ (row.by # Seed => wpc'[row.by] = "done")
  BY <1>2, <1>3, <1>5 DEF WriterFits, Row
<1>7. TypeOK'
  <2>1. sealed' \subseteq Products
    BY <1>2 DEF Commit, CatalogInv, TypeOK
  <2> QED BY <1>1, <1>2, <2>1 DEF CatalogInv, TypeOK
<1>8. \A q \in Products : rows[q].state # "absent" => rows'[q].state # "absent"
  BY <1>3, <1>4
<1>9. \A x \in Writers : Busy(x)' => x # w /\ Busy(x) /\ wpc'[x] = wpc[x]
                                            /\ task'[x] = task[x]
  BY <1>3 DEF Busy
<1>10. WritersFit'
  <2>1. RowsByDone'
    <3>1. \A q \in Products : rows[q].by \in Writers \cup {Seed}
      BY DEF CatalogInv, TypeOK, Row
    <3> QED BY <1>3, <1>5, <1>6, <3>1 DEF CatalogInv, WritersFit, RowsByDone
  <2>2. FreshIds'
    BY <1>9 DEF CatalogInv, WritersFit, FreshIds
  <2>3. ASSUME NEW x \in Writers PROVE WriterFits(x)'
    <3>1. CASE x = w
      BY <1>3, <3>1 DEF WriterFits, Busy
    <3>2. CASE x # w
      <4>1. wpc'[x] = wpc[x] /\ task'[x] = task[x] /\ WriterFits(x) /\ Busy(x)' = Busy(x)
        BY <1>3, <3>2 DEF CatalogInv, WritersFit, Busy
      <4>2. task[x].row.by \in Writers \cup {Seed} /\ task[x].id \in Products
        BY DEF CatalogInv, TypeOK, Task, Row
      <4>3. Busy(x) /\ task[x].kind = "create" => task[x].id # p
        BY <1>3, <3>2 DEF CatalogInv, WritersFit, FreshIds
      <4>4. Busy(x) /\ task[x].kind = "create" => rows'[task[x].id].state = "absent"
        BY <1>3, <4>1, <4>2, <4>3 DEF WriterFits
      <4>5. Busy(x) /\ task[x].kind # "create" => rows'[task[x].id].state # "absent"
        BY <1>8, <4>1, <4>2 DEF WriterFits
      <4> QED BY <1>5, <4>1, <4>2, <4>4, <4>5 DEF WriterFits
    <3> QED BY <3>1, <3>2
  <2> QED BY <2>1, <2>2, <2>3 DEF WritersFit
<1>11. ThereStill'
  <2>1. \A k \in Keys : \A e \in cache[k] : e.id \in Products
    BY DEF CatalogInv, TypeOK, Entry
  <2>2. \A r \in Readers : \A e \in page[r].found : e.id \in Products
    BY DEF CatalogInv, TypeOK, Entry, Page
  <2> QED BY <1>1, <1>8, <2>1, <2>2 DEF CatalogInv, ThereStill
<1>12. AloneCurrent'
  BY <1>1, <1>3 DEF CatalogInv, AloneCurrent
<1>13. task[w].kind # "create" => Cleared(row.slug) /\ Cleared("featured")
  BY <1>1 DEF CatalogInv, KeysCleared
<1>14. KeysCleared'
  <2>1. \A k : Cleared(k)' = Cleared(k)
    BY <1>1 DEF Cleared
  <2> DEFINE Fits(x) ==
        /\ wpc[x] = "commit" /\ task[x].kind # "create" =>
               Cleared(task[x].row.slug) /\ Cleared("featured")
        /\ wpc[x] = "invalidated" => Cleared(rows'[task[x].id].slug) /\ Cleared("featured")
        /\ wpc[x] = "loaded" /\ task[x].kind = "delete" =>
               rows'[task[x].id] = task[x].row \/ Cleared(rows'[task[x].id].slug)
  <2>2. ASSUME NEW x \in Writers, Busy(x), x # w PROVE Fits(x)
    <3>1. task[x].id \in Products /\ task[x].kind \in {"create", "update", "delete"}
      BY DEF CatalogInv, TypeOK, Task
    <3>2. CASE task[x].id = p
      <4>1. task[w].kind # "create"
        BY <1>3, <2>2, <3>2 DEF CatalogInv, WritersFit, FreshIds
      <4> QED BY <1>3, <1>13, <3>2, <4>1 DEF CatalogInv, KeysCleared
    <3>3. CASE task[x].id # p
      BY <1>3, <3>1, <3>3 DEF CatalogInv, KeysCleared
    <3> QED BY <3>2, <3>3
  <2>3. \A x \in Writers : wpc'[x] \in {"commit", "invalidated", "loaded"} =>
            /\ x # w /\ Busy(x) /\ wpc'[x] = wpc[x] /\ task'[x] = task[x]
    BY <1>9 DEF Busy
  <2> QED BY <2>1, <2>2, <2>3 DEF KeysCleared
<1>15. CleanEntriesCurrent'
  <2> SUFFICES ASSUME NEW k \in clean
               PROVE  IF k = "featured" THEN CleanListCurrent' ELSE CleanPageCurrent(k)'
    BY <1>1 DEF CleanEntriesCurrent
  <2>0. k \in Keys /\ \A e \in cache[k] : e.id \in Products /\ rows[e.id].state # "absent"
    BY DEF CatalogInv, TypeOK, Entry, ThereStill
  <2>1. CASE k # "featured"
    <3> SUFFICES ASSUME NEW e \in cache[k]
                 PROVE  rows'[e.id] = e.row \/ rows'[e.id].slug # k
      BY <1>1, <2>1 DEF CleanPageCurrent
    <3>1. CASE e.id # p
      BY <1>3, <2>0, <2>1, <3>1 DEF CatalogInv, CleanEntriesCurrent, CleanPageCurrent
    <3>2. CASE e.id = p
      <4>1. task[w].kind # "create"
        BY <1>3, <2>0, <3>2 DEF WriterFits
      <4>2. row.slug # k
        BY <1>13, <4>1 DEF Cleared
      <4> QED BY <1>3, <3>2, <4>2
    <3> QED BY <3>1, <3>2
  <2>2. CASE k = "featured" /\ task[w].kind # "create"
    <3>1. cache'["featured"] = {}
      BY <1>1, <1>13, <2>2 DEF Cleared
    <3> QED BY <2>2, <3>1 DEF CleanListCurrent
  <2>3. CASE k = "featured" /\ task[w].kind = "create"
    <3>1. rows[p].state = "absent" /\ row.by = w
      BY <1>3, <2>3 DEF WriterFits
    <3>2. \A e \in cache["featured"] : rows'[e.id] = e.row
      BY <1>3, <2>0, <2>3 DEF CatalogInv, CleanEntriesCurrent, CleanListCurrent, WriterFits
    <3>3. ASSUME NEW e \in Found("featured")', e \notin cache["featured"],
                 cache["featured"] # {}
          PROVE  \E x \in Writers : e.row.by = x /\ task'[x].kind = "create"
      <4>1. e.id \in Products /\ e.row = rows'[e.id] /\ e \in Found("featured")'
        BY <3>3 DEF Found
      <4>2. CASE e.id = p
        <5>1. e.row.by = w
          BY <1>3, <3>1, <4>1, <4>2
        <5> QED BY <1>2, <1>3, <2>3, <5>1
      <4>3. CASE e.id # p
        <5>1. e \in Found("featured")
          BY <1>3, <3>3, <4>3 DEF Found, Matches, Visible
        <5>2. \E x \in Writers : e.row.by = x /\ task[x].kind = "create"
          BY <2>3, <3>3, <5>1 DEF CatalogInv, CleanEntriesCurrent, CleanListCurrent
        <5> QED BY <1>2, <1>3, <5>2
      <4> QED BY <4>2, <4>3
    <3> QED BY <1>1, <2>3, <3>2, <3>3 DEF CleanListCurrent
  <2> QED BY <2>1, <2>2, <2>3
<1>16. SealedStaysDeleted' /\ NoneHeld'
  <2>1. task[w].kind # "delete" => p \notin sealed /\ sealed' = sealed
    BY <1>3 DEF CatalogInv, NoneHeld, Commit
  <2>2. SealedStaysDeleted'
    BY <1>2, <1>3, <1>4, <2>1 DEF CatalogInv, TypeOK, SealedStaysDeleted, Commit
  <2>3. NoneHeld'
    <3> SUFFICES ASSUME NEW x \in Writers, Busy(x)', task'[x].kind # "delete"
                 PROVE  task'[x].id \notin sealed'
      BY DEF NoneHeld
    <3>1. x # w /\ Busy(x) /\ task'[x] = task[x] /\ task[x].id \notin sealed
      BY <1>9 DEF CatalogInv, NoneHeld
    <3>2. CASE sealed' = sealed
      BY <3>1, <3>2
    <3>3. CASE task[w].kind = "delete" /\ ~HeldByUpdate(p) /\ sealed' = sealed \cup {p}
      <4>1. task[x].kind = "update" => task[x].id # p
        BY <3>1, <3>3 DEF HeldByUpdate
      <4>2. task[x].kind = "create" => task[x].id # p
        BY <1>3, <3>1 DEF CatalogInv, WritersFit, FreshIds
      <4> QED BY <3>1, <3>3, <4>1, <4>2 DEF CatalogInv, TypeOK, Task
    <3> QED BY <3>2, <3>3 DEF Commit
  <2> QED BY <2>2, <2>3
<1> QED BY <1>7, <1>10, <1>11, <1>12, <1>14, <1>15, <1>16 DEF CatalogInv

------------------------------------------------------------------------------
LEMMA StutterKeeps == ASSUME CatalogInv, UNCHANGED vars PROVE CatalogInv'
<1>1. UNCHANGED <<rows, cache, writer, reader, history, sealed, clean, alone>>
  BY DEF vars, history
<1>2. TypeOK' /\ ThereStill'
  BY <1>1 DEF CatalogInv, TypeOK, ThereStill, writer, reader
<1>3. AloneCurrent'
  BY <1>1, RowsFrame DEF CatalogInv, AloneCurrent, reader
<1>4. KeysCleared' /\ CleanEntriesCurrent'
  BY <1>1, <1>2, CacheShrinks DEF TypeOK
<1> QED BY <1>1, <1>2, <1>3, <1>4, RowsFrame DEF CatalogInv

LEMMA NextKeeps == CatalogInv /\ [Next]_vars => CatalogInv'
<1> SUFFICES ASSUME CatalogInv, [Next]_vars PROVE CatalogInv'
  OBVIOUS
<1>1. CASE UNCHANGED vars
  BY <1>1, StutterKeeps
<1>2. CASE \E r \in Readers : Read(r)
  BY <1>2, MissKeeps, QueryKeeps, FillKeeps, LeaveUnservedKeeps DEF Read
<1>3. CASE \E w \in Writers : Write(w)
  BY <1>3, StartCreateKeeps, StartUpdateKeeps, StartDeleteKeeps, SaveAllKeeps,
     SaveDeletedKeeps, InvalidateKeeps, CommitKeeps, AbortKeeps DEF Write
<1>4. CASE \E k \in Keys : Expire(k)
  BY <1>4, ExpireKeeps
<1> QED BY <1>1, <1>2, <1>3, <1>4 DEF Next

\* The inductive invariant of the catalog.
THEOREM CatalogInvariant == Spec => []CatalogInv
BY InitInv, NextKeeps, PTL DEF Spec

\* Rows, cache, tasks and pages keep their types.
THEOREM CatalogTypeCorrect == Spec => []TypeOK
BY CatalogInvariant, PTL DEF CatalogInv

\* get_product_by_slug, get_featured_products and _invalidate_product_cache: what a
\* reader stored while nobody wrote is current, or under a slug that was given up,
\* or lacks products that were only created.
THEOREM CatalogCleanEntriesCurrent == Spec => []CleanEntriesCurrent
BY CatalogInvariant, PTL DEF CatalogInv

\* delete_product beside update_product: a deletion that no update overlapped is final.
THEOREM CatalogSealedStaysDeleted == Spec => []SealedStaysDeleted
BY CatalogInvariant, PTL DEF CatalogInv
==============================================================================
