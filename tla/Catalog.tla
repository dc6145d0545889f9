------------------------------- MODULE Catalog -------------------------------
(***************************************************************************)
(* ProductService of apps/products/services.py: products read through a    *)
(* Redis cache, and written by transactions that invalidate it before they *)
(* commit.  Products are deleted softly (core/models.py).                  *)
(*                                                                         *)
(* update_product writes every column of an instance it loaded without a   *)
(* lock, delete_product the deletion columns only.  A product is reduced   *)
(* to its slug, whether it is shown, and who wrote the rest of it last.    *)
(***************************************************************************)
CONSTANTS
    Products,
    Slugs,
    Shown,       \* how a product is shown: not at all, on its page, in the list too
    Readers,     \* threads that serve product pages and the featured list
    Writers,     \* bound: one create, update or delete each
    Seed         \* who wrote the products there are at first

ASSUME ShownAssumption == Shown \subseteq {"no", "yes", "featured"} /\ "no" \in Shown
ASSUME SeedAssumption == Seed \notin Writers
ASSUME NamesAssumption == /\ Products # {} /\ Slugs # {}
                          /\ "featured" \notin Slugs

VARIABLES
    rows,        \* the committed products
    cache,       \* what each key holds; nothing and an empty list are both a miss
    wpc, task,   \* where a writer is, and its request with its Product instance
    rpc, page,   \* where a reader is, and its key with what the query returned
    alone,       \* history: readers whose query no write transaction has overlapped
    clean,       \* history: keys last filled by such a reader
    sealed       \* history: products deleted while no update held an instance

writer  == <<wpc, task>>
reader  == <<rpc, page>>
history == <<alone, clean, sealed>>
vars    == <<rows, cache, writer, reader, history>>

Keys    == Slugs \cup {"featured"}
Row     == [state : {"absent", "live", "deleted"}, slug : Slugs,
            shown : Shown, by : Writers \cup {Seed}]
Entry   == [id : Products, row : Row]
Task    == [kind : {"create", "update", "delete"}, id : Products, row : Row]
Page    == [key : Keys, found : SUBSET Entry]

------------------------------------------------------------------------------
\* SoftDeleteManager: deleted rows are not there.
Visible == {p \in Products : rows[p].state = "live"}

\* The two queries: an active product by its slug, and the featured ones.
Matches(p, key) == /\ p \in Visible
                   /\ IF key = "featured" THEN rows[p].shown = "featured"
                      ELSE rows[p].slug = key /\ rows[p].shown # "no"
Found(key) == {[id |-> p, row |-> rows[p]] : p \in {q \in Products : Matches(q, key)}}

\* slug is unique among all rows, the deleted ones too.
Taken(p, slug) == \E q \in Products \ {p} : rows[q].state # "absent" /\ rows[q].slug = slug

NoRow  == [state |-> "absent", slug |-> CHOOSE s \in Slugs : TRUE, shown |-> "no", by |-> Seed]
NoTask == [kind |-> "delete", id |-> CHOOSE p \in Products : TRUE, row |-> NoRow]
NoPage == [key |-> "featured", found |-> {}]

Init == /\ rows \in [Products -> {NoRow} \cup [state : {"live"}, slug : Slugs, by : {Seed},
                                              shown : Shown]]
        /\ \A p \in Visible : ~Taken(p, rows[p].slug)
        /\ cache = [k \in Keys |-> {}]
        /\ wpc = [w \in Writers |-> "idle"]
        /\ task = [w \in Writers |-> NoTask]
        /\ rpc = [r \in Readers |-> "idle"]
        /\ page = [r \in Readers |-> NoPage]
        /\ alone = {} /\ clean = {} /\ sealed = {}

------------------------------------------------------------------------------
(* Readers: get_product_by_slug and get_featured_products. *)

\* cache.get finds nothing; a hit changes nothing and is not a step.
Miss(r, key) == /\ rpc[r] = "idle" /\ cache[key] = {}
                /\ rpc' = [rpc EXCEPT ![r] = "query"]
                /\ page' = [page EXCEPT ![r].key = key]
                /\ UNCHANGED <<rows, cache, writer, history>>

Busy(w) == wpc[w] \notin {"idle", "done"}

Query(r) == /\ rpc[r] = "query"
            /\ rpc' = [rpc EXCEPT ![r] = "fill"]
            /\ page' = [page EXCEPT ![r].found = Found(page[r].key)]
            /\ alone' = IF \E w \in Writers : Busy(w) THEN alone \ {r} ELSE alone \cup {r}
            /\ UNCHANGED <<rows, cache, writer, clean, sealed>>

Leave(r) == /\ rpc' = [rpc EXCEPT ![r] = "idle"]
            /\ page' = [page EXCEPT ![r] = NoPage]
            /\ alone' = alone \ {r}

\* cache.set; a page that was not found is not stored, an empty list is.
Fill(r) == /\ rpc[r] = "fill"
           /\ page[r].found # {} \/ page[r].key = "featured"
           /\ cache' = [cache EXCEPT ![page[r].key] = page[r].found]
           /\ clean' = IF r \in alone THEN clean \cup {page[r].key}
                                      ELSE clean \ {page[r].key}
           /\ Leave(r)
           /\ UNCHANGED <<rows, writer, sealed>>

\* Not found, or the request dies.
LeaveUnserved(r) == /\ rpc[r] # "idle"
                    /\ Leave(r)
                    /\ UNCHANGED <<rows, cache, writer, clean, sealed>>

------------------------------------------------------------------------------
(* Writers: one transaction each. *)

Goto(w, there) == wpc' = [wpc EXCEPT ![w] = there]

\* Loads its instance, and no query is alone any more.
Start(w, t) == /\ wpc[w] = "idle"
               /\ task' = [task EXCEPT ![w] = t]
               /\ Goto(w, "loaded")
               /\ alone' = {}
               /\ UNCHANGED <<rows, cache, reader, clean, sealed>>

\* Mutant: a blank slug is let through.
FreeOrBlank == {""} \cup (Slugs \ {rows[p].slug : p \in Visible})

\* ProductWriteSerializer, whose UniqueValidator sees visible rows only.
FreeSlugs == Slugs \ {rows[p].slug : p \in Visible}

\* The id is a fresh one.
StartCreate(w, p) ==
    /\ rows[p].state = "absent"
    /\ \A x \in Writers : ~(Busy(x) /\ task[x].id = p)
    /\ \E s \in FreeSlugs, v \in Shown :
          Start(w, [kind |-> "create", id |-> p,
                    row |-> [state |-> "live", slug |-> s, shown |-> v, by |-> w]])

\* Mutant: get_product_by_slug instead of get_product_by_id.
LoadedFromCache(p) == LET hits == {e \in cache[rows[p].slug] : e.id = p}
                      IN IF hits # {} THEN {e.row : e \in hits}
                         ELSE {rows[q] : q \in {p} \cap Visible}

\* get_product_by_id: what it finds for the id.
Loaded(p) == {rows[q] : q \in {p} \cap Visible}

\* The serializer knows no instance, so a slug in the request must be free, be it
\* the product's own.
StartUpdate(w, p) ==
    \E old \in Loaded(p), v \in Shown :
        \E s \in FreeSlugs \cup {old.slug} :
            Start(w, [kind |-> "update", id |-> p,
                      row |-> [old EXCEPT !.slug = s, !.shown = v, !.by = w]])

StartDelete(w, p) ==
    \E old \in Loaded(p) : Start(w, [kind |-> "delete", id |-> p, row |-> old])

\* A writer that has written its row and not committed: PostgreSQL lets nobody else
\* write that row, or a row with a slug that is in question, until it has.
Holds(w)      == wpc[w] \in {"saved", "commit"}
Locked(p)     == \E w \in Writers : Holds(w) /\ task[w].id = p
InQuestion(s) == \E w \in Writers : Holds(w) /\ s \in {task[w].row.slug, rows[task[w].id].slug}

\* save(): every column of the instance.
SaveAll(w) == /\ wpc[w] = "loaded" /\ task[w].kind # "delete"
              /\ ~Locked(task[w].id) /\ ~InQuestion(task[w].row.slug)
              /\ ~Taken(task[w].id, task[w].row.slug)
              /\ Goto(w, IF task[w].kind = "create" THEN "commit" ELSE "saved")
              /\ UNCHANGED <<rows, cache, task, reader, history>>

\* SoftDeleteModel.delete: the deletion columns, over the row as it is by now.
SaveDeleted(w) == /\ wpc[w] = "invalidated"
                  /\ ~Locked(task[w].id)
                  /\ task' = [task EXCEPT ![w].row = [rows[task[w].id] EXCEPT !.state = "deleted"]]
                  /\ Goto(w, "commit")
                  /\ UNCHANGED <<rows, cache, reader, history>>

\* Mutant: the featured list is forgotten.
KeysOfPage(row) == {row.slug}

\* _invalidate_product_cache: the slug is the instance's, after the update.
KeysOf(row) == {row.slug, "featured"}

\* After the save of an update, before that of a delete; a creation has none.
Invalidate(w) ==
    /\ \/ wpc[w] = "saved" /\ Goto(w, "commit")
       \/ wpc[w] = "loaded" /\ task[w].kind = "delete" /\ Goto(w, "invalidated")
    /\ cache' = [k \in Keys |-> IF k \in KeysOf(task[w].row) THEN {} ELSE cache[k]]
    /\ UNCHANGED <<rows, task, reader, history>>

\* A writer that is done keeps nothing but what it was.
Leaves(w) == Goto(w, "done") /\ task' = [task EXCEPT ![w] = [NoTask EXCEPT !.kind = task[w].kind]]

HeldByUpdate(p) == \E w \in Writers : Busy(w) /\ task[w].kind = "update" /\ task[w].id = p

Commit(w) == /\ wpc[w] = "commit"
             /\ rows' = [rows EXCEPT ![task[w].id] = task[w].row]
             /\ sealed' = IF task[w].kind = "delete" /\ ~HeldByUpdate(task[w].id)
                          THEN sealed \cup {task[w].id} ELSE sealed
             /\ Leaves(w)
             /\ UNCHANGED <<cache, reader, alone, clean>>

\* The slug is taken, Redis does not answer, the worker is killed: rolled back.
Abort(w) == /\ Busy(w)
            /\ Leaves(w)
            /\ UNCHANGED <<rows, cache, reader, history>>

\* Mutant: the featured list is stored without a timeout.
ExpirePage(key) == /\ key # "featured" /\ cache[key] # {}
                   /\ cache' = [cache EXCEPT ![key] = {}]
                   /\ UNCHANGED <<rows, writer, reader, history>>

\* The timeout of an entry runs out, or Redis evicts it.
Expire(key) == /\ cache[key] # {}
               /\ cache' = [cache EXCEPT ![key] = {}]
               /\ UNCHANGED <<rows, writer, reader, history>>

Read(r)  == (\E k \in Keys : Miss(r, k)) \/ Query(r) \/ Fill(r) \/ LeaveUnserved(r)
Write(w) == \/ \E p \in Products : StartCreate(w, p) \/ StartUpdate(w, p) \/ StartDelete(w, p)
            \/ SaveAll(w) \/ SaveDeleted(w) \/ Invalidate(w) \/ Commit(w) \/ Abort(w)

Next == \/ \E r \in Readers : Read(r)
        \/ \E w \in Writers : Write(w)
        \/ \E k \in Keys : Expire(k)

Spec     == Init /\ [][Next]_vars
FairSpec == Spec /\ \A k \in Keys : WF_vars(Expire(k))

------------------------------------------------------------------------------
TypeOK == /\ rows \in [Products -> Row]
          /\ cache \in [Keys -> SUBSET Entry]
          /\ wpc \in [Writers -> {"idle", "loaded", "saved", "invalidated", "commit", "done"}]
          /\ task \in [Writers -> Task]
          /\ rpc \in [Readers -> {"idle", "query", "fill"}]
          /\ page \in [Readers -> Page]
          /\ alone \subseteq Readers /\ clean \subseteq Keys /\ sealed \subseteq Products

\* What the invalidation is worth.  A key filled by a reader that overlapped no write
\* holds what the database says, however the writes after it interleave and fail, but
\* for two gaps: the page under a slug that its product has given up, and products
\* that were created and not updated since, which the list may lack.
CleanPageCurrent(s) ==
    \A e \in cache[s] : rows[e.id] = e.row \/ rows[e.id].slug # s
CleanListCurrent ==
    /\ \A e \in cache["featured"] : rows[e.id] = e.row
    /\ cache["featured"] # {} =>
          \A e \in Found("featured") \ cache["featured"] :
              \E w \in Writers : e.row.by = w /\ task[w].kind = "create"
CleanEntriesCurrent ==
    \A k \in clean : IF k = "featured" THEN CleanListCurrent ELSE CleanPageCurrent(k)

\* Full saves of stale instances can revive a deleted product; a deletion that no
\* update overlapped is final.
SealedStaysDeleted == \A p \in sealed : rows[p].state = "deleted"

\* When the writes are over, stale entries go with their timeouts and no reader that
\* was on its way brings them back for good: pages and list agree with the database.
Coherent == \A k \in Keys : cache[k] # {} => cache[k] = Found(k)
EventuallyCoherent == <>[]Coherent
==============================================================================
