---------------------------- MODULE LegacyImport ----------------------------
(***************************************************************************)
(* The import of the templates of the old service                          *)
(* (src/scripts/import_legacy.py), a process of its own beside the API:    *)
(* passes over the old rows, each one transaction, and a second one that   *)
(* moves the sequence of ids past the imported ones.  A pass may die or    *)
(* run into a constraint at any step.                                      *)
(*                                                                         *)
(* The API is reduced to what it does to templates as a whole: a POST in   *)
(* two steps (the id of a sequence, then the commit), a PATCH that         *)
(* replaces the pages and a DELETE in one.  What they do in detail is in   *)
(* ExamTemplates.                                                          *)
(***************************************************************************)
EXTENDS Coords, FiniteSets

CONSTANTS
    Legacy,        \* the old exam_templates: the image's size of each id, and
                   \* the boxes of its pages, None where a bbox is not complete
    Clients,       \* teachers, each with a template to create
    MaxPasses,     \* bound: passes of the import
    MaxEdits,      \* bound: PATCHes
    None           \* no row

ASSUME ImportAssumption ==
    /\ DOMAIN Legacy \subseteq Nat \ {0} /\ DOMAIN Legacy # {} /\ IsFiniteSet(DOMAIN Legacy)
    /\ \A i \in DOMAIN Legacy :
        /\ {Legacy[i].width, Legacy[i].height} \subseteq Nat \ {0}
        /\ \A p \in DOMAIN Legacy[i].pages : \A n \in DOMAIN Legacy[i].pages[p] :
               LET b == Legacy[i].pages[p][n] IN
               b # None => {b.x, b.y, b.w, b.h} \subseteq Int
    /\ IsFiniteSet(Clients) /\ MaxPasses \in Nat /\ MaxEdits \in Nat

VARIABLES
    rows,       \* the committed exam_templates with their pages
    sequence,   \* the last id given out; no rollback takes it back
    readable,   \* the old rows whose image file is there and whose pages are JSON
    pass,       \* the pass under way: its step, the old rows before it, the row
                \* it has loaded, and what it has written but not committed
    post,       \* the POST of each client and, for the properties alone, whether
                \* it was under way when a pass moved the sequence
    passes,     \* passes begun
    edits,      \* PATCHes so far
    api         \* in use at any time; or waiting until a pass has ended that
                \* brought in the last old row, and open from then on

importVars == <<rows, sequence, readable, pass, post, passes, edits, api>>

OldIds == DOMAIN Legacy
Largest(S) == CHOOSE i \in S : \A j \in S : j <= i
LastOld == Largest(OldIds)
Ids == 1..LastOld + Cardinality(Clients)

\* The answer_boxes made of page p of old row i, numbered from one on each page;
\* an incomplete one leaves its number out.
ConvertedPage(i, p) ==
    LET boxes == Legacy[i].pages[p] IN
    {[page |-> p, question_no |-> n,
      box |-> canvas_to_normalized(boxes[n], Legacy[i].width, Legacy[i].height)] :
     n \in {m \in DOMAIN boxes : boxes[m] # None}}

Converted(i) == UNION {ConvertedPage(i, p) : p \in DOMAIN Legacy[i].pages}

\* A template: who made it, its imported boxes, the PATCH that replaced its
\* pages (0: none) and whether its pages have an index of the old ones,
\* deleted_at.
Row == [by: {"import", "api"}, boxes: {{}} \cup {Converted(i) : i \in OldIds},
        edit: 0..MaxEdits, clash: BOOLEAN, deleted: BOOLEAN]

ASSUME ImportNoneAssumption == None \notin Row

Off == [at |-> "off", todo |-> {}, loaded |-> None, pending |-> {}]

Init ==
    /\ rows = [i \in Ids |-> None]
    /\ sequence = 0
    /\ readable \in SUBSET OldIds
    /\ pass = Off
    /\ post = [c \in Clients |-> [at |-> "new", id |-> 0, crossed |-> FALSE]]
    /\ passes = 0 /\ edits = 0
    /\ api \in {"anytime", "waiting"}

-----------------------------------------------------------------------------
(* The import *)

Importing == pass.at \notin {"off", "done"}
Posting(c) == post[c].at \in {"insert", "commit"}

\* `SELECT ... FROM exam_templates ORDER BY id' of the old database.
Begin ==
    /\ ~Importing /\ passes < MaxPasses
    /\ pass' = [Off EXCEPT !.at = "row", !.todo = OldIds]
    /\ passes' = passes + 1
    /\ UNCHANGED <<rows, sequence, readable, post, edits, api>>

NextOld == CHOOSE i \in pass.todo : \A j \in pass.todo : i <= j

\* No image file, or no JSON: reported and skipped.
SkipRow ==
    /\ pass.at = "row" /\ pass.todo # {} /\ NextOld \notin readable
    /\ pass' = [pass EXCEPT !.todo = @ \ {NextOld}]
    /\ UNCHANGED <<rows, sequence, readable, post, passes, edits, api>>

\* db.get(ExamTemplate, row["id"]), and its pages for clear().
LoadRow ==
    /\ pass.at = "row" /\ pass.todo # {} /\ NextOld \in readable
    /\ pass' = [pass EXCEPT !.at = "write", !.loaded = rows[NextOld]]
    /\ UNCHANGED <<rows, sequence, readable, post, passes, edits, api>>

\* The INSERT of the template under its old id, or the DELETE of its pages, and
\* the INSERT of the new ones.  It waits for a POST that has the id, and fails
\* (Dies) if there is a row or are pages with its indexes now that it has not loaded.
WriteRow ==
    /\ pass.at = "write"
    /\ IF pass.loaded = None THEN rows[NextOld] = None
       ELSE rows[NextOld].edit = pass.loaded.edit \/ ~rows[NextOld].clash
    /\ \A c \in Clients : ~(post[c].at = "commit" /\ post[c].id = NextOld)
    /\ pass' = [pass EXCEPT !.at = "row", !.todo = @ \ {NextOld}, !.loaded = None,
                            !.pending = @ \cup {NextOld}]
    /\ UNCHANGED <<rows, sequence, readable, post, passes, edits, api>>

\* Mutant: every row is committed by itself.
RowWritten == TRUE

AllWritten == pass.todo = {}

\* One commit for all.  Of a template that was there only the pages are written.
CommitPass ==
    /\ pass.at = "row" /\ AllWritten
    /\ rows' = [i \in Ids |->
            IF i \notin pass.pending THEN rows[i]
            ELSE IF rows[i] = None
            THEN [by |-> "import", boxes |-> Converted(i), edit |-> 0,
                  clash |-> FALSE, deleted |-> FALSE]
            ELSE [rows[i] EXCEPT !.boxes = Converted(i), !.edit = 0, !.clash = FALSE]]
    /\ pass' = [Off EXCEPT !.at = "nudge"]
    /\ UNCHANGED <<sequence, readable, post, passes, edits, api>>

\* Mutant: COUNT for MAX.
HowMany == Cardinality({i \in Ids : rows[i] # None})

\* Mutant: past the imported ids only.
LargestOld == LastOld

\* Mutant: one more than the largest, which setval takes for given out.
OnePast == Largest({1} \cup {i \in Ids : rows[i] # None}) + 1

\* SELECT COALESCE(MAX(id), 1) FROM exam_templates.
LargestId == Largest({1} \cup {i \in Ids : rows[i] # None})

\* setval, in a transaction of its own, takes effect at once.
Nudge ==
    /\ pass.at = "nudge"
    /\ sequence' = LargestId
    /\ pass' = [Off EXCEPT !.at = "done"]
    /\ post' = [c \in Clients |-> IF Posting(c) THEN [post[c] EXCEPT !.crossed = TRUE]
                                               ELSE post[c]]
    /\ api' = IF api = "waiting" /\ rows[LastOld] # None THEN "open" ELSE api
    /\ UNCHANGED <<rows, readable, passes, edits>>

\* Mutant: the connection outlives the process and keeps its transaction.
LeftOpen == [pass EXCEPT !.at = "off"]

RolledBack == Off

\* The process is killed, or a constraint fails and the exception ends it.
Dies ==
    /\ Importing
    /\ pass' = RolledBack
    /\ UNCHANGED <<rows, sequence, readable, post, passes, edits, api>>

\* Somebody finds a lost image or mends a row before the next pass.
Mend(i) ==
    /\ ~Importing /\ i \notin readable
    /\ readable' = readable \cup {i}
    /\ UNCHANGED <<rows, sequence, pass, post, passes, edits, api>>

-----------------------------------------------------------------------------
(* The API *)

InUse == api # "waiting"

\* POST, or the retry of one that collided: nextval.
Post(c) ==
    /\ InUse /\ post[c].at = "new"
    /\ sequence' = sequence + 1
    /\ post' = [post EXCEPT ![c] = [at |-> "insert", id |-> sequence + 1, crossed |-> FALSE]]
    /\ UNCHANGED <<rows, readable, pass, passes, edits, api>>

Taken(i) == rows[i] # None

\* The INSERT waits for another one of the same id; 500 if the id is taken.
Insert(c) ==
    /\ post[c].at = "insert"
    /\ post[c].id \notin pass.pending
    /\ \A d \in Clients \ {c} : ~(post[d].at = "commit" /\ post[d].id = post[c].id)
    /\ post' = [post EXCEPT ![c].at = IF Taken(post[c].id) THEN "new" ELSE "commit"]
    /\ UNCHANGED <<rows, sequence, readable, pass, passes, edits, api>>

CommitPost(c) ==
    /\ post[c].at = "commit"
    /\ rows' = [rows EXCEPT ![post[c].id] =
                    [by |-> "api", boxes |-> {}, edit |-> 0, clash |-> FALSE,
                     deleted |-> FALSE]]
    /\ post' = [post EXCEPT ![c].at = "done"]
    /\ UNCHANGED <<sequence, readable, pass, passes, edits, api>>

\* PATCH with pages, perhaps none; one that meets the import's on its way fails.
Patch(i) ==
    /\ InUse /\ edits < MaxEdits /\ i \notin pass.pending
    /\ rows[i] # None /\ ~rows[i].deleted
    /\ edits' = edits + 1
    /\ \E clash \in BOOLEAN :
         rows' = [rows EXCEPT ![i].boxes = {}, ![i].edit = edits', ![i].clash = clash]
    /\ UNCHANGED <<sequence, readable, pass, post, passes, api>>

\* DELETE sets a column that the import does not write.
Delete(i) ==
    /\ InUse /\ rows[i] # None /\ ~rows[i].deleted
    /\ rows' = [rows EXCEPT ![i].deleted = TRUE]
    /\ UNCHANGED <<sequence, readable, pass, post, passes, edits, api>>

-----------------------------------------------------------------------------
Work == SkipRow \/ LoadRow \/ WriteRow \/ CommitPass \/ Nudge

Next ==
    \/ Begin \/ Work \/ Dies \/ \E i \in OldIds : Mend(i)
    \/ \E c \in Clients : Post(c) \/ Insert(c) \/ CommitPost(c)
    \/ \E i \in Ids : Patch(i) \/ Delete(i)

Spec == Init /\ [][Next]_importVars

\* The import runs or dies, threads run, and a client whose POST collided tries
\* again.
FairSpec ==
    /\ Spec
    /\ WF_importVars(Work \/ Dies)
    /\ \A c \in Clients : WF_importVars(Insert(c) \/ CommitPost(c)
                                        \/ (post[c].id # 0 /\ Post(c)))

-----------------------------------------------------------------------------
(* What must hold *)

\* Types, and an id that is given out is one of Ids.
ImportTypeOK ==
    /\ rows \in [Ids -> Row \cup {None}]
    /\ sequence \in 0..Largest(Ids)
    /\ pass \in [at: {"off", "row", "write", "nudge", "done"}, todo: SUBSET OldIds,
                 loaded: Row \cup {None}, pending: SUBSET OldIds]
    /\ post \in [Clients -> [at: {"new", "insert", "commit", "done"},
                             id: 0..Largest(Ids), crossed: BOOLEAN]]

\* "What matters most is that boxes land in the same place": each stored box is
\* the box of its page and number in the old row of its template's id, converted
\* back.
BoxesInPlace ==
    \A i \in OldIds : rows[i] # None => \A b \in rows[i].boxes :
        LET old == Legacy[i] IN
        /\ b.page \in DOMAIN old.pages /\ b.question_no \in DOMAIN old.pages[b.page]
        /\ old.pages[b.page][b.question_no] # None
        /\ SameBox(normalized_to_canvas(b.box, old.width, old.height),
                   old.pages[b.page][b.question_no])

\* No template has the name of one exam and the boxes of another, if the API was
\* first used after a pass that ended and brought in the last old row: other old
\* rows may have been skipped and be mended while the API goes on, even during
\* later passes, and find their ids free.
NoMixUp ==
    api # "anytime" =>
        \A i \in Ids : rows[i] # None /\ rows[i].boxes # {} => rows[i].by = "import"

\* "The next create collides" is what the second transaction prevents: after it
\* every id in use has been given out, but for a template whose POST was under
\* way when setval looked.
NudgeIsEnough ==
    pass.at = "done" => \A i \in Ids : rows[i] # None /\ i > sequence =>
        \E c \in Clients : post[c].at = "done" /\ post[c].id = i /\ post[c].crossed

\* "A half-migrated database is worse than a reported gap": the first row that
\* appears brings all that can be read with it.
WholePasses ==
    [][(\E i \in OldIds : rows[i] = None /\ rows'[i] # None /\ rows'[i].by = "import")
        => \A i \in readable : rows'[i] # None]_importVars

\* Whatever becomes of the import, a client that goes on trying creates its
\* template: a collision uses up an id.
CreatesGetThrough ==
    \A c \in Clients : post[c].id # 0 ~> post[c].at = "done"
=============================================================================
