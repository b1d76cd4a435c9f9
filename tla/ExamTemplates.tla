--------------------------- MODULE ExamTemplates ---------------------------
(***************************************************************************)
(* The shared exam templates of src/app/routers/templates.py and the       *)
(* handlers that read and write them.                                      *)
(*                                                                         *)
(* Every endpoint is a synchronous function that FastAPI runs on a thread  *)
(* of its own, with a database session of its own (db.py), so the SQL      *)
(* statements of two requests interleave.  The database runs at READ       *)
(* COMMITTED: each SELECT sees what is committed when it runs, an UPDATE   *)
(* or DELETE waits for the lock of a row another transaction has changed,  *)
(* and an ORM UPDATE sets the columns whose loaded value it changed, by    *)
(* primary key, whatever has become of the row in between.                 *)
(*                                                                         *)
(* Data is reduced to its origin: every write request has a number, and a  *)
(* stored name or page is the number of the request that wrote it, so two  *)
(* values are equal exactly when one write produced both.  exam_name,      *)
(* grade and subject are handled alike and are one column, `name'.         *)
(***************************************************************************)
EXTENDS Naturals, FiniteSets

CONSTANTS
    Templates,     \* primary keys of exam_templates
    Editors,       \* template managers; each has one request in flight at most
    PageIndexes,   \* page numbers of a template
    Overlap,       \* TRUE: write handlers overlap, as they do in the thread pool
    MaxRequests,   \* bound: how many write requests are ever started
    None           \* SQL NULL, Python's None, "no such row"

ASSUME ConstantsAssumption ==
    /\ Overlap \in BOOLEAN
    /\ MaxRequests \in Nat
    /\ None \notin Templates \cup Editors

VARIABLES
    row,       \* exam_templates: the committed row of each template, or None
    pages,     \* template_pages: the committed page rows of each template
    tx,        \* the handler each editor's request runs in
    held,      \* the copy of a template each editor works from, or None
    clock,     \* time, as the number of calls of utcnow() so far
    requests   \* the number of write requests started so far

vars == <<row, pages, tx, held, clock, requests>>

-----------------------------------------------------------------------------
(* Rows, views and handlers *)

Row == [name: Nat, revision: Nat, updatedAt: Nat, deleted: BOOLEAN,
        updatedBy: Editors \cup {None}]

\* A template_pages row with its boxes: one write creates all of it at once.
PageRow == [index: PageIndexes, by: Nat]

\* What a TemplateDetail body and its ETag tell an editor.
View == [t: Templates, revision: Nat, name: Nat, pages: SUBSET PageRow]

\* NULL is not a row and not a view.
ASSUME NoneAssumption == None \notin Row /\ None \notin View

Steps == {"idle", "selectPages", "flush", "deletePages", "stamp", "commit"}
Kinds == {"none", "get", "patch", "delete", "create"}

(* The Session of a request: the row and pages it loaded, what the payload  *)
(* asks for (ifMatch = 0: no header; newPages = None: no pages), and its    *)
(* uncommitted work: the template row it locked, the page rows it deleted,  *)
(* the updated_at its pending UPDATE or INSERT carries.                     *)
Handler == [pc: Steps, kind: Kinds, t: Templates \cup {None}, req: Nat,
            ifMatch: Nat, setName: BOOLEAN,
            newPages: (SUBSET PageIndexes) \cup {None},
            row: Row \cup {None}, pages: SUBSET PageRow,
            rowLocked: BOOLEAN, gone: SUBSET PageRow, stamp: Nat]

Idle == [pc |-> "idle", kind |-> "none", t |-> None, req |-> 0, ifMatch |-> 0,
         setName |-> FALSE, newPages |-> None, row |-> None, pages |-> {},
         rowLocked |-> FALSE, gone |-> {}, stamp |-> 0]

IsWriter(e) == tx[e].kind \in {"patch", "delete", "create"}

\* A thread of the pool takes a write request.
WriterMayStart(e) ==
    /\ tx[e] = Idle
    /\ requests < MaxRequests
    /\ Overlap \/ \A f \in Editors : ~IsWriter(f)

\* The row lock of template t is free or already e's.
RowFree(e) == \A f \in Editors \ {e} : ~(tx[f].t = tx[e].t /\ tx[f].rowLocked)

\* No other transaction has deleted, uncommitted, a page row e is to delete.
PagesFree(e) == \A f \in Editors \ {e} :
                    tx[f].t = tx[e].t => tx[f].gone \cap tx[e].pages = {}

PageRows(indexes, req) == {[index |-> i, by |-> req] : i \in indexes}

\* Mutant: a session that is not closed keeps its transaction's row lock.
LeakedSession(e) == [tx EXCEPT ![e] = [Idle EXCEPT !.t = tx[e].t,
                                          !.rowLocked = tx[e].rowLocked]]

\* get_db closes the session of a request however it ends: an open transaction
\* is rolled back and its locks are released.
Closed(e) == [tx EXCEPT ![e] = Idle]

Init ==
    /\ row = [t \in Templates |-> None]
    /\ pages = [t \in Templates |-> {}]
    /\ tx = [e \in Editors |-> Idle]
    /\ held = [e \in Editors |-> None]
    /\ clock = 0
    /\ requests = 0

-----------------------------------------------------------------------------
(* _get_or_404: the SELECT of the row; the pages follow in a SELECT of their *)
(* own (selectinload).                                                       *)

Found(t) == row[t] # None /\ ~row[t].deleted

GetTemplate(e, t) ==
    /\ tx[e] = Idle
    /\ Found(t)
    /\ tx' = [tx EXCEPT ![e] = [Idle EXCEPT !.pc = "selectPages", !.kind = "get",
                                            !.t = t, !.row = row[t]]]
    /\ UNCHANGED <<row, pages, held, clock, requests>>

AnswerGet(e) ==
    /\ tx[e].pc = "selectPages" /\ tx[e].kind = "get"
    /\ held' = [held EXCEPT ![e] = [t |-> tx[e].t, revision |-> tx[e].row.revision,
                                    name |-> tx[e].row.name,
                                    pages |-> pages[tx[e].t]]]
    /\ tx' = Closed(e)
    /\ UNCHANGED <<row, pages, clock, requests>>

-----------------------------------------------------------------------------
(* PATCH /templates/{id} *)

UpdateTemplate(e) ==
    /\ WriterMayStart(e)
    /\ held[e] # None /\ Found(held[e].t)
    /\ \E ifMatch \in {0, held[e].revision}, setName \in BOOLEAN,
          newPages \in (SUBSET PageIndexes) \cup {None} :
         tx' = [tx EXCEPT ![e] = [Idle EXCEPT
                   !.pc = "selectPages", !.kind = "patch", !.t = held[e].t,
                   !.req = requests + 1, !.ifMatch = ifMatch,
                   !.setName = setName, !.newPages = newPages,
                   !.row = row[held[e].t]]]
    /\ requests' = requests + 1
    /\ UNCHANGED <<row, pages, held, clock>>

\* What a PATCH does after the If-Match check: the flush in _apply_pages, which
\* starts with an UPDATE of the template row if a column of it has changed.
AfterCheck(e) ==
    IF tx[e].newPages = None THEN "stamp"
    ELSE IF tx[e].setName THEN "flush" ELSE "deletePages"

\* Mutant: only an edit of the pages is checked.
MatchesForPages(e) == tx[e].newPages = None \/ tx[e].ifMatch \in {0, tx[e].row.revision}

Matches(e) == tx[e].ifMatch \in {0, tx[e].row.revision}

CheckIfMatch(e) ==
    /\ tx[e].pc = "selectPages" /\ tx[e].kind = "patch"
    /\ Matches(e)
    /\ tx' = [tx EXCEPT ![e].pc = AfterCheck(e), ![e].pages = pages[tx[e].t]]
    /\ UNCHANGED <<row, pages, held, clock, requests>>

PreconditionFailed(e) ==
    /\ tx[e].pc = "selectPages" /\ tx[e].kind = "patch"
    /\ ~Matches(e)
    /\ tx' = Closed(e)
    /\ UNCHANGED <<row, pages, held, clock, requests>>

FlushRow(e) ==
    /\ tx[e].pc = "flush"
    /\ RowFree(e)
    /\ tx' = [tx EXCEPT ![e].pc = "deletePages", ![e].rowLocked = TRUE]
    /\ UNCHANGED <<row, pages, held, clock, requests>>

\* Mutant: only the pages the payload replaces are deleted.
DoomedByDiff(e) == {p \in tx[e].pages \cap pages[tx[e].t] : p.index \in tx[e].newPages}

\* Mutant: pages are deleted by template and page_index.
DoomedByIndex(e) == {p \in pages[tx[e].t] : \E q \in tx[e].pages : p.index = q.index}

\* pages.clear() deletes the rows this session loaded, by primary key; one
\* that is already gone is skipped.
Doomed(e) == tx[e].pages \cap pages[tx[e].t]

DeletePages(e) ==
    /\ tx[e].pc = "deletePages"
    /\ PagesFree(e)
    /\ tx' = [tx EXCEPT ![e].pc = "stamp", ![e].gone = Doomed(e)]
    /\ UNCHANGED <<row, pages, held, clock, requests>>

-----------------------------------------------------------------------------
(* The flush of db.commit(): utcnow() stamps the UPDATE before it is sent,    *)
(* the UPDATE waits for the row lock, the new pages are inserted, and the     *)
(* transaction commits.  Nothing the handler does in between can wait again.  *)

Stamp(e) ==
    /\ tx[e].pc = "stamp"
    /\ clock' = clock + 1
    /\ tx' = [tx EXCEPT ![e].pc = "commit", ![e].stamp = clock + 1]
    /\ UNCHANGED <<row, pages, held, requests>>

\* Mutant: an edit of the pages alone keeps the revision.
BumpedForRow(e) == IF tx[e].newPages = None \/ tx[e].setName
                   THEN tx[e].row.revision + 1 ELSE tx[e].row.revision

\* revision is assigned from the value loaded, not incremented in the database.
Bumped(e) == tx[e].row.revision + 1

\* Mutant: every column is written back as it was loaded.
UpdatedWhole(e) == [tx[e].row EXCEPT !.revision = Bumped(e),
                                     !.updatedAt = tx[e].stamp, !.updatedBy = e]

\* The UPDATE sets updated_by only if that changes the value loaded.
Updated(e) ==
    [row[tx[e].t] EXCEPT
        !.revision = Bumped(e),
        !.updatedAt = tx[e].stamp,
        !.updatedBy = IF tx[e].row.updatedBy = e THEN @ ELSE e]

Inserted(e) == IF tx[e].newPages = None THEN {}
               ELSE PageRows(tx[e].newPages, tx[e].req)

\* uq_page_index: page rows that stay and an inserted one have the same index.
\* One that another transaction has deleted and not committed stays: that
\* transaction waits for the template row this one has, the database fails one
\* of the two, and either way this INSERT fails.
PageConflict(e) == \E p \in pages[tx[e].t] \ tx[e].gone, q \in Inserted(e) :
                       p.index = q.index

\* The answer is built from the session: commit expires nothing, and the final
\* _get_or_404 finds the session's own copies in its identity map.
Answer(e) == [t |-> tx[e].t, revision |-> Bumped(e),
              name |-> IF tx[e].setName THEN tx[e].req ELSE tx[e].row.name,
              pages |-> IF tx[e].newPages = None THEN tx[e].pages
                        ELSE Inserted(e)]

CommitUpdate(e) ==
    /\ tx[e].pc = "commit" /\ tx[e].kind = "patch"
    /\ RowFree(e) /\ ~PageConflict(e)
    /\ row' = [row EXCEPT ![tx[e].t] =
                  [Updated(e) EXCEPT !.name = IF tx[e].setName THEN tx[e].req ELSE @]]
    /\ pages' = [pages EXCEPT ![tx[e].t] = (@ \ tx[e].gone) \cup Inserted(e)]
    /\ held' \in {held, [held EXCEPT ![e] = Answer(e)]}   \* the answer may be lost
    /\ tx' = Closed(e)
    /\ UNCHANGED <<clock, requests>>

\* IntegrityError on uq_page_index: nobody catches it, the request ends in 500.
PageIndexTaken(e) ==
    /\ tx[e].pc = "commit" /\ tx[e].kind = "patch"
    /\ RowFree(e) /\ PageConflict(e)
    /\ tx' = Closed(e)
    /\ UNCHANGED <<row, pages, held, clock, requests>>

-----------------------------------------------------------------------------
(* DELETE /templates/{id} *)

DeleteTemplate(e, t) ==
    /\ WriterMayStart(e)
    /\ Found(t)
    /\ tx' = [tx EXCEPT ![e] = [Idle EXCEPT !.pc = "stamp", !.kind = "delete",
                                   !.t = t, !.req = requests + 1, !.row = row[t]]]
    /\ requests' = requests + 1
    /\ UNCHANGED <<row, pages, held, clock>>

CommitDelete(e) ==
    /\ tx[e].pc = "commit" /\ tx[e].kind = "delete"
    /\ RowFree(e)
    /\ row' = [row EXCEPT ![tx[e].t] = [Updated(e) EXCEPT !.deleted = TRUE]]
    /\ tx' = Closed(e)
    /\ UNCHANGED <<pages, held, clock, requests>>

-----------------------------------------------------------------------------
(* POST /templates: the INSERT of the row is flushed, and stamped, before the *)
(* pages are looked at; nobody sees it before the commit.                     *)

\* Mutant: updated_at has an onupdate and no default.
NoDefault == 0

\* default=utcnow of updated_at.
InsertStamp == clock + 1

CreateTemplate(e, t) ==
    /\ WriterMayStart(e)
    /\ row[t] = None
    /\ \A f \in Editors : tx[f].kind = "create" => tx[f].t # t
    /\ \E newPages \in (SUBSET PageIndexes) \ {{}} :
         tx' = [tx EXCEPT ![e] = [Idle EXCEPT
                   !.pc = "commit", !.kind = "create", !.t = t,
                   !.req = requests + 1, !.setName = TRUE, !.newPages = newPages,
                   !.stamp = InsertStamp]]
    /\ clock' = clock + 1
    /\ requests' = requests + 1
    /\ UNCHANGED <<row, pages, held>>

CommitCreate(e) ==
    /\ tx[e].pc = "commit" /\ tx[e].kind = "create"
    /\ row' = [row EXCEPT ![tx[e].t] =
                  [name |-> tx[e].req, revision |-> 1, updatedAt |-> tx[e].stamp,
                   deleted |-> FALSE, updatedBy |-> None]]
    /\ pages' = [pages EXCEPT ![tx[e].t] = Inserted(e)]
    /\ held' \in {held, [held EXCEPT ![e] =
                     [t |-> tx[e].t, revision |-> 1, name |-> tx[e].req,
                      pages |-> Inserted(e)]]}
    /\ tx' = Closed(e)
    /\ UNCHANGED <<clock, requests>>

-----------------------------------------------------------------------------
(* Endings no handler chooses *)

\* e waits for the template row that f has locked while f waits for page rows
\* that e has deleted.
Deadlocked(e, f) ==
    /\ tx[e].t = tx[f].t /\ tx[e].t # None
    /\ tx[e].pc = "commit" /\ tx[f].rowLocked
    /\ tx[f].pc = "deletePages" /\ tx[e].gone \cap tx[f].pages # {}

\* The database breaks the deadlock by failing one of the two; it answers 500.
DeadlockVictim(e) ==
    /\ \E f \in Editors \ {e} : Deadlocked(e, f) \/ Deadlocked(f, e)
    /\ tx' = Closed(e)
    /\ UNCHANGED <<row, pages, held, clock, requests>>

\* A payload names an unknown image (400) or repeats a page index (only
\* TemplateCreate has a validator for that), the connection drops, the server
\* process dies: the request ends and its transaction is rolled back.
Abandon(e) ==
    /\ tx[e] # Idle
    /\ tx' = Closed(e)
    /\ UNCHANGED <<row, pages, held, clock, requests>>

-----------------------------------------------------------------------------
\* The steps a started handler takes; all but the waits are always possible.
Step(e) ==
    \/ AnswerGet(e)
    \/ CheckIfMatch(e) \/ PreconditionFailed(e)
    \/ FlushRow(e) \/ DeletePages(e) \/ Stamp(e)
    \/ CommitUpdate(e) \/ PageIndexTaken(e)
    \/ CommitDelete(e) \/ CommitCreate(e)
    \/ DeadlockVictim(e)

Start(e) ==
    \/ UpdateTemplate(e)
    \/ \E t \in Templates : GetTemplate(e, t) \/ DeleteTemplate(e, t)
                            \/ CreateTemplate(e, t)

Next == \E e \in Editors : Start(e) \/ Step(e) \/ Abandon(e)

Spec == Init /\ [][Next]_vars

\* Threads are scheduled, and the database grants locks and resolves deadlocks.
FairSpec == Spec /\ \A e \in Editors : WF_vars(Step(e))

-----------------------------------------------------------------------------
(* What must hold *)

\* Every variable has its type, a handler that runs has loaded what its kind
\* needs, and no stored or pending timestamp lies in the future.
TypeOK ==
    /\ row \in [Templates -> Row \cup {None}]
    /\ pages \in [Templates -> SUBSET PageRow]
    /\ tx \in [Editors -> Handler]
    /\ held \in [Editors -> View \cup {None}]
    /\ clock \in Nat /\ requests \in 0..MaxRequests
    /\ \A t \in Templates : row[t] # None => row[t].updatedAt \in 1..clock
    /\ \A e \in Editors : tx[e] # Idle => tx[e].t # None

\* Whoever works from a copy that carries the stored revision works from what
\* is stored: the ETag of GET, and the revision in an answer to a save, name
\* one content (models.py, "did this change?").  GET reads the row before the
\* pages, so a copy torn by a save in between carries the older revision.
CurrentRevisionIsCurrentContent ==
    \A e \in Editors :
        LET h == held[e] IN
        h # None /\ h.revision = row[h.t].revision
            => h.name = row[h.t].name /\ h.pages = pages[h.t]

\* This step commits e's PATCH.
Commits(e) == tx[e].kind = "patch" /\ row' # row /\ tx[e] # tx'[e]

\* If-Match stops two editors silently overwriting each other: a conditional
\* save that commits replaces exactly the name and pages its editor had open.
NoSilentOverwrite ==
    [][\A e \in Editors :
          Commits(e) /\ tx[e].ifMatch # 0
              => /\ held[e].name = row[tx[e].t].name
                 /\ held[e].pages = pages[tx[e].t]]_vars

\* A template deleted once stays deleted, so that the tombstone reaches every
\* phone: a PATCH that loaded the row before a DELETE committed does not bring
\* it back.
TombstoneIsFinal ==
    [][\A t \in Templates :
          row[t] # None /\ row[t].deleted => row'[t] # None /\ row'[t].deleted]_vars

\* "Replace a template's pages wholesale": no page that was stored when a PATCH
\* with pages loaded the template is stored once the PATCH has committed.
NoOldPageSurvives ==
    [][\A e \in Editors :
          Commits(e) /\ tx[e].newPages # None
              => pages'[tx[e].t] \cap tx[e].pages = {}]_vars

\* "Replace a template's pages wholesale": what one save stored leaves together,
\* even for a save that loaded something else before it.  So a template never
\* shows a part of somebody's pages, though two saves with other page numbers
\* may both be stored.
PagesGoTogether ==
    [][\A t \in Templates : \A p, q \in pages[t] :
          p.by = q.by => (p \in pages'[t] <=> q \in pages'[t])]_vars

\* What a register holds, and what an editor knows of it; neither is NULL.
Content == Nat \X SUBSET PageRow

ASSUME RegisterAssumption ==
    /\ None \notin [content: Content, revision: Nat, deleted: BOOLEAN]
    /\ None \notin [t: Templates, content: Content, revision: Nat]

\* The register a template is for its editors: name and pages are its content.
Register == INSTANCE TemplateRegister WITH
    register <- [t \in Templates |->
                    IF row[t] = None THEN None
                    ELSE [content |-> <<row[t].name, pages[t]>>,
                          revision |-> row[t].revision, deleted |-> row[t].deleted]],
    copy <- [e \in Editors |->
                IF held[e] = None THEN None
                ELSE [t |-> held[e].t, content |-> <<held[e].name, held[e].pages>>,
                      revision |-> held[e].revision]],
    asked <- [e \in Editors |-> IF tx[e].kind # "patch" THEN "none"
                                 ELSE IF tx[e].ifMatch = 0 THEN "any" ELSE "checked"]

\* The handlers of templates.py, with all their statements, implement the
\* register as long as no two write handlers overlap.
ImplementsRegister == Register!Spec

\* Every request is answered: the waits of overlapping saves for each other's
\* row and pages end, if need be by the failure of one.
RequestsEnd == \A e \in Editors : tx[e] # Idle ~> tx[e] = Idle
=============================================================================
