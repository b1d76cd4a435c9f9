-------------------------- MODULE GradingSessions --------------------------
(***************************************************************************)
(* Uploading a graded paper: PUT and DELETE /grading-sessions/{client_uuid}*)
(* (src/app/routers/sessions.py) as a phone on bad Wi-Fi calls them.       *)
(*                                                                         *)
(* Papers do not interact, so there is one: one UUID, minted on one        *)
(* device, graded against one template.  A call is a request on its way,   *)
(* then a handler on a thread of its own, then an answer on its way back.  *)
(* The phone waits for one call at a time, may give up waiting, and then   *)
(* calls again; an abandoned call may still run (orderly = FALSE) or has   *)
(* come to its end (orderly = TRUE).  Another teacher may sign in on the   *)
(* device.  Rows carry the number of the call that wrote them as their     *)
(* primary key.  Locks and READ COMMITTED are as in ExamTemplates.         *)
(***************************************************************************)
EXTENDS Naturals, FiniteSets, Functions

CONSTANTS
    Teachers,
    Slots,         \* calls under way at the same time
    Papers,        \* contents of an upload: teacher_value by question number
    Empty,         \* the empty string, a mark that Python takes for false
    MaxVersion,    \* bound: edits of the paper on the phone
    MaxLosses,     \* bound: calls that fail or whose answer never arrives
    MaxAttempts,   \* bound: calls; MaxVersion and MaxLosses keep them below it
    None           \* NULL, nobody, nothing

ASSUME ConstantsAssumption ==
    /\ \A p \in Papers : IsFiniteSet(DOMAIN p) /\ DOMAIN p \subseteq Nat
    /\ MaxVersion \in Nat /\ MaxLosses \in Nat /\ MaxAttempts \in Nat
    /\ None \notin Teachers \cup Slots \cup Papers \cup Nat

VARIABLES
    templateLive,  \* the paper's template is not soft-deleted
    session,       \* the committed grading_sessions row, or None
    answers,       \* the committed graded_answers rows
    call,          \* the call in each slot
    phone,         \* what the device knows
    attempts,      \* calls made so far
    losses,        \* calls lost so far
    orderly        \* an abandoned call never outlives the phone's patience

vars == <<templateLive, session, answers, call, phone, attempts, losses, orderly>>

-----------------------------------------------------------------------------
(* Data *)

Questions == UNION {DOMAIN p : p \in Papers}
Marks == UNION {Range(p) : p \in Papers}

SessionRow == [id: Nat, teacher: Teachers, version: Nat, total: Nat]
AnswerRow == [q: Questions, mark: Marks, correctedAt: Nat \cup {None},
              by: Nat]

ASSUME NoneIsNoRow == None \notin SessionRow

Steps == {"free", "queued", "selectAnswers", "flush", "deleteAnswers",
          "insertAnswers", "deleteRow", "answered"}
Replies == {"none", "done", "refused", "failed"}

(* A call: what was asked (content = None: a DELETE), by whom, and the       *)
(* Session of its handler: the row and answers it loaded, the row it locked  *)
(* or inserted and the answers it deleted, uncommitted.                      *)
Call == [pc: Steps, id: Nat, teacher: Teachers \cup {None}, version: Nat,
         content: Papers \cup {None},
         row: SessionRow \cup {None}, answers: SUBSET AnswerRow,
         rowLocked: BOOLEAN, gone: SUBSET AnswerRow, reply: Replies]

Free == [pc |-> "free", id |-> 0, teacher |-> None, version |-> 0,
         content |-> None, row |-> None, answers |-> {},
         rowLocked |-> FALSE, gone |-> {}, reply |-> "none"]

(* The device: who is signed in, the paper as edited last (content = None:   *)
(* deleted), the version the server has acknowledged and to which teacher,   *)
(* the call it waits for.                                                    *)
Phone == [teacher: Teachers, version: 0..MaxVersion, content: Papers \cup {None},
          synced: 0..MaxVersion, syncedAs: Teachers, refused: BOOLEAN, waiting: Slots \cup {None}]

Init ==
    /\ templateLive = TRUE
    /\ session = None
    /\ answers = {}
    /\ call = [s \in Slots |-> Free]
    /\ \E t \in Teachers :
         phone = [teacher |-> t, version |-> 0, content |-> None, synced |-> 0, syncedAs |-> t,
                  refused |-> FALSE, waiting |-> None]
    /\ attempts = 0
    /\ losses = 0
    /\ orderly \in BOOLEAN

-----------------------------------------------------------------------------
(* The phone *)

\* A paper is graded or corrected.
Edit ==
    /\ phone.version < MaxVersion
    /\ \E content \in Papers :
         phone' = [phone EXCEPT !.version = @ + 1, !.content = content,
                                !.refused = FALSE]
    /\ UNCHANGED <<templateLive, session, answers, call, attempts, losses, orderly>>

\* The record of a paper that has been uploaded is deleted.
Discard ==
    /\ phone.version < MaxVersion /\ phone.content # None
    /\ phone' = [phone EXCEPT !.version = @ + 1, !.content = None, !.refused = FALSE]
    /\ UNCHANGED <<templateLive, session, answers, call, attempts, losses, orderly>>

\* The device changes hands, its queue with it.
SignIn(t) ==
    /\ t # phone.teacher
    /\ phone' = [phone EXCEPT !.teacher = t]
    /\ UNCHANGED <<templateLive, session, answers, call, attempts, losses, orderly>>

\* The call, or a retry of it.
Send(s) ==
    /\ phone.waiting = None /\ phone.synced # phone.version /\ ~phone.refused
    /\ call[s] = Free /\ attempts < MaxAttempts
    /\ call' = [call EXCEPT ![s] = [Free EXCEPT
                    !.pc = "queued", !.id = attempts + 1, !.teacher = phone.teacher,
                    !.version = phone.version, !.content = phone.content]]
    /\ phone' = [phone EXCEPT !.waiting = s]
    /\ attempts' = attempts + 1
    /\ UNCHANGED <<templateLive, session, answers, losses, orderly>>

\* The answer arrives; one for an older version settles nothing.
Receive(s) ==
    /\ phone.waiting = s /\ call[s].pc = "answered"
    /\ phone' = [phone EXCEPT
                    !.waiting = None,
                    !.synced = IF call[s].reply = "done" THEN call[s].version ELSE @,
                    !.syncedAs = IF call[s].reply = "done" THEN call[s].teacher ELSE @,
                    !.refused = call[s].reply = "refused"
                                /\ call[s].version = phone.version]
    /\ call' = [call EXCEPT ![s] = Free]
    /\ UNCHANGED <<templateLive, session, answers, attempts, losses, orderly>>

\* The phone stops waiting; if calls are orderly, for one that is over.
GiveUp ==
    /\ phone.waiting # None /\ losses < MaxLosses
    /\ orderly => call[phone.waiting].pc = "answered"
    /\ losses' = losses + 1
    /\ phone' = [phone EXCEPT !.waiting = None]
    /\ UNCHANGED <<templateLive, session, answers, call, attempts, orderly>>

\* Nobody waits for this answer.
Dropped(s) ==
    /\ phone.waiting # s /\ call[s].pc = "answered"
    /\ call' = [call EXCEPT ![s] = Free]
    /\ UNCHANGED <<templateLive, session, answers, phone, attempts, losses, orderly>>

-----------------------------------------------------------------------------
(* The handlers *)

\* Mutant: a session that is not closed keeps its transaction's locks.
Leaked(s, reply) == [call[s] EXCEPT !.pc = "answered", !.reply = reply]

\* A handler at its end, without its locks: it committed or was rolled back.
Ended(s, reply) == [call[s] EXCEPT !.pc = "answered", !.reply = reply, !.row = None,
                                   !.answers = {}, !.rowLocked = FALSE, !.gone = {}]

Answered(s, reply) == call' = [call EXCEPT ![s] = Ended(s, reply)]

RowFree(s) == \A r \in Slots \ {s} : ~call[r].rowLocked
AnswersFree(s, rows) == \A r \in Slots \ {s} : call[r].gone \cap rows = {}

\* db.get of the template, then the SELECT of the row by UUID, and the check of
\* its owner.  Reading the template first or last makes no difference to the
\* outcomes: a template deleted in between is one deleted just after.
\* Mutant: the owner is not checked.
NobodyElses(s) == FALSE

SomeoneElses(s) == session # None /\ session.teacher # call[s].teacher

PutRefused(s) ==
    /\ call[s].pc = "queued" /\ call[s].content # None
    /\ ~templateLive \/ SomeoneElses(s)
    /\ Answered(s, "refused")
    /\ UNCHANGED <<templateLive, session, answers, phone, attempts, losses, orderly>>

SelectSession(s) ==
    /\ call[s].pc = "queued" /\ call[s].content # None
    /\ templateLive /\ ~SomeoneElses(s)
    /\ call' = [call EXCEPT ![s].row = session,
                            ![s].pc = IF session = None THEN "flush"
                                      ELSE "selectAnswers"]
    /\ UNCHANGED <<templateLive, session, answers, phone, attempts, losses, orderly>>

\* selectinload(GradingSession.answers): `previous'.
SelectAnswers(s) ==
    /\ call[s].pc = "selectAnswers"
    /\ call' = [call EXCEPT ![s].answers = answers, ![s].pc = "flush"]
    /\ UNCHANGED <<templateLive, session, answers, phone, attempts, losses, orderly>>

\* The row this handler loaded is still there.
StillThere(s) == session # None /\ session.id = call[s].row.id

\* db.flush(): the INSERT or UPDATE of the row, then the DELETE of the answers.
Flush(s) ==
    /\ call[s].pc = "flush" /\ RowFree(s)
    /\ IF call[s].row = None THEN session = None ELSE StillThere(s)
    /\ call' = [call EXCEPT ![s].rowLocked = TRUE, ![s].pc = "deleteAnswers"]
    /\ UNCHANGED <<templateLive, session, answers, phone, attempts, losses, orderly>>

\* IntegrityError on client_uuid, or StaleDataError: the UPDATE found no row.
FlushFails(s) ==
    /\ call[s].pc = "flush" /\ RowFree(s)
    /\ IF call[s].row = None THEN session # None ELSE ~StillThere(s)
    /\ Answered(s, "failed")
    /\ UNCHANGED <<templateLive, session, answers, phone, attempts, losses, orderly>>

\* Mutant: only the answers the payload replaces are deleted.
ClearedByDiff(s) == {a \in call[s].answers \cap answers : a.q \in DOMAIN call[s].content}

\* Mutant: without the flush the INSERTs go first, as the ORM orders them.
NotYetCleared(s) == {}

\* answers.clear() deletes the rows loaded, by primary key.
Cleared(s) == call[s].answers \cap answers

DeleteAnswers(s) ==
    /\ call[s].pc = "deleteAnswers"
    /\ AnswersFree(s, call[s].answers)
    /\ call' = [call EXCEPT ![s].gone = Cleared(s),
                            ![s].pc = "insertAnswers"]
    /\ UNCHANGED <<templateLive, session, answers, phone, attempts, losses, orderly>>

\* Mutant: every upload of a mark is a correction made now.
CorrectedNow(s, q) ==
    IF call[s].content[q] \in {None, Empty} THEN None ELSE call[s].id

\* The time of a correction is kept while the mark is; an empty one has none.
CorrectedAt(s, q) ==
    LET prior == {a \in call[s].answers : a.q = q /\ a.mark = call[s].content[q]} IN
    IF call[s].content[q] \in {None, Empty} THEN None
    ELSE IF prior # {} THEN (CHOOSE a \in prior : TRUE).correctedAt
    ELSE call[s].id

Uploaded(s) == {[q |-> q, mark |-> call[s].content[q],
                 correctedAt |-> CorrectedAt(s, q), by |-> call[s].id] :
                q \in DOMAIN call[s].content}

\* Mutant: no unique constraint on (session_id, question_no).
NoConflict(s) == FALSE

\* uq_answer_question_no: another handler's answer to a question is there.  One
\* that a DELETE under way has deleted is: the DELETE waits for the row this
\* handler has, and whichever of the two the database fails, the INSERT fails.
AnswerConflict(s) ==
    \E a \in answers \ call[s].gone : a.q \in DOMAIN call[s].content

\* The row an INSERT makes, or an UPDATE of the columns that differ from those
\* loaded.
StoredRow(s) ==
    LET new == [id |-> call[s].id, teacher |-> call[s].teacher,
                version |-> call[s].version,
                total |-> Cardinality(DOMAIN call[s].content)]
        old == call[s].row IN
    IF old = None THEN new
    ELSE [c \in DOMAIN new |-> IF c = "id" \/ new[c] = old[c] THEN session[c] ELSE new[c]]

\* The INSERT of the answers and the commit.  The refresh that follows may
\* fail, but by then the upload is stored: as good as a lost answer.
CommitPut(s) ==
    /\ call[s].pc = "insertAnswers" /\ ~AnswerConflict(s)
    /\ session' = StoredRow(s)
    /\ answers' = (answers \ call[s].gone) \cup Uploaded(s)
    /\ \E reply \in {"done", "failed"} :
         /\ reply = "failed" => losses < MaxLosses
         /\ losses' = IF reply = "failed" THEN losses + 1 ELSE losses
         /\ Answered(s, reply)
    /\ UNCHANGED <<templateLive, phone, attempts, orderly>>

PutConflicts(s) ==
    /\ call[s].pc = "insertAnswers" /\ AnswerConflict(s)
    /\ Answered(s, "failed")
    /\ UNCHANGED <<templateLive, session, answers, phone, attempts, losses, orderly>>

\* DELETE: 404 for a row that is not there or not the caller's, and the phone
\* has what it wanted; else the flush of the commit loads the answers and
\* deletes them first, the row last.
DeleteNotFound(s) ==
    /\ call[s].pc = "queued" /\ call[s].content = None
    /\ session = None \/ SomeoneElses(s)
    /\ Answered(s, "done")
    /\ UNCHANGED <<templateLive, session, answers, phone, attempts, losses, orderly>>

DeleteSelects(s) ==
    /\ call[s].pc = "queued" /\ call[s].content = None
    /\ session # None /\ ~SomeoneElses(s)
    /\ AnswersFree(s, answers)
    /\ call' = [call EXCEPT ![s].row = session, ![s].gone = answers,
                            ![s].pc = "deleteRow"]
    /\ UNCHANGED <<templateLive, session, answers, phone, attempts, losses, orderly>>

\* ON DELETE CASCADE takes the answers committed in between.
CommitDelete(s) ==
    /\ call[s].pc = "deleteRow" /\ RowFree(s)
    /\ IF StillThere(s)
       THEN session' = None /\ answers' = {}
       ELSE UNCHANGED <<session, answers>>
    /\ Answered(s, "done")
    /\ UNCHANGED <<templateLive, phone, attempts, losses, orderly>>

\* put has the row and waits for answers that del has deleted, which waits for
\* the row.
Deadlocked(put, del) ==
    /\ call[put].pc = "deleteAnswers" /\ call[del].pc = "deleteRow"
    /\ ~call[del].rowLocked /\ call[put].answers \cap call[del].gone # {}

\* The database fails one of the two and the other has what it waited for.
DeadlockVictim(s) ==
    /\ \E r \in Slots \ {s} :
         \/ /\ Deadlocked(s, r)
            /\ call' = [call EXCEPT ![s] = Ended(s, "failed"), ![r].rowLocked = TRUE]
         \/ /\ Deadlocked(r, s)
            /\ call' = [call EXCEPT ![s] = Ended(s, "failed"),
                                    ![r].pc = "insertAnswers", ![r].gone = Cleared(r)]
    /\ UNCHANGED <<templateLive, session, answers, phone, attempts, losses, orderly>>

\* The process or the connection dies under a handler, or before there is one.
Crash(s) ==
    /\ call[s].pc \notin {"free", "answered"} /\ losses < MaxLosses
    /\ Answered(s, "failed")
    /\ losses' = losses + 1
    /\ UNCHANGED <<templateLive, session, answers, phone, attempts, orderly>>

\* DELETE /templates/{id}, in ExamTemplates.
RetireTemplate ==
    /\ templateLive
    /\ templateLive' = FALSE
    /\ UNCHANGED <<session, answers, call, phone, attempts, losses, orderly>>

-----------------------------------------------------------------------------
Handle(s) ==
    \/ PutRefused(s) \/ SelectSession(s) \/ SelectAnswers(s)
    \/ Flush(s) \/ FlushFails(s) \/ DeleteAnswers(s)
    \/ CommitPut(s) \/ PutConflicts(s)
    \/ DeleteNotFound(s) \/ DeleteSelects(s) \/ CommitDelete(s)
    \/ DeadlockVictim(s)

Next ==
    \/ Edit \/ Discard \/ \E t \in Teachers : SignIn(t)
    \/ \E s \in Slots : Send(s) \/ Receive(s) \/ Dropped(s)
    \/ GiveUp
    \/ \E s \in Slots : Handle(s) \/ Crash(s)
    \/ RetireTemplate

Spec == Init /\ [][Next]_vars

\* The phone retries while it is on; threads run; answers that are not lost
\* arrive.
FairSpec ==
    /\ Spec
    /\ \A s \in Slots : WF_vars(Handle(s)) /\ WF_vars(Receive(s) \/ Dropped(s))
    /\ WF_vars(\E s \in Slots : Send(s))

-----------------------------------------------------------------------------
(* What must hold *)

\* Every variable has its type, and only a handler under way holds locks.
TypeOK ==
    /\ templateLive \in BOOLEAN /\ orderly \in BOOLEAN
    /\ session \in SessionRow \cup {None}
    /\ answers \in SUBSET AnswerRow
    /\ call \in [Slots -> Call]
    /\ \A s \in Slots : call[s].pc \in {"free", "queued", "answered"}
                           => ~call[s].rowLocked /\ call[s].gone = {}
    /\ phone \in Phone
    /\ attempts \in 0..MaxAttempts /\ losses \in 0..MaxLosses

\* The stored answers all come from one upload, in spite of overlapping calls
\* that delete and insert row by row, as long as any two uploads of the paper
\* share a question (uq_answer_question_no).
AnswersOfOneUpload == \A a, b \in answers : a.by = b.by

\* What the server has acknowledged and the phone has not edited since is what
\* is stored: the upload, its count and its answers and no other, or after a
\* DELETE nothing of the teacher who made it.
Stored ==
    phone.version > 0 /\ phone.synced = phone.version =>
        IF phone.content = None
        THEN session = None \/ session.teacher # phone.syncedAs
        ELSE /\ session # None /\ session.version = phone.version
             /\ session.total = Cardinality(answers)
             /\ {<<a.q, a.mark>> : a \in answers}
                   = {<<q, phone.content[q]>> : q \in DOMAIN phone.content}

\* "Retrying is always safe", when no abandoned call outlives the phone's
\* patience.
OrderlyRetryIsSafe == orderly => Stored

\* "Retrying is always safe", as the docstring has it.
RetryIsSafe == Stored

\* A record never changes hands: two teachers on one device, each with a call
\* under way, cannot take it from each other.
OwnerNeverChanges ==
    [][session # None /\ session' # None /\ session'.id = session.id
          => session'.teacher = session.teacher]_vars

\* "Keep the first correction's timestamp": while a cell keeps its mark it keeps
\* the time a human looked at it, through retries, late calls and races.
CorrectionTimeKept ==
    [][\A a \in answers, b \in answers' :
          session # None /\ session' # None /\ session'.id = session.id
          /\ a.q = b.q /\ a.mark = b.mark
              => a.correctedAt = b.correctedAt]_vars

\* Whatever is lost, the phone comes to an end with its paper: uploaded, or
\* refused.
UploadsSettle ==
    phone.version # phone.synced ~> phone.version = phone.synced \/ phone.refused

\* The record the rows are, with one cell for each question, the paper, what is
\* acknowledged, and the call the phone waits for.
Cell(q) == CHOOSE a \in answers : a.q = q

RecordNow ==
    IF session = None
    THEN [owner |-> None, version |-> 0, count |-> 0, cells |-> <<>>]
    ELSE [owner |-> session.teacher, version |-> session.version, count |-> session.total,
          cells |-> [q \in {a.q : a \in answers} |->
                        [mark |-> Cell(q).mark, correctedAt |-> Cell(q).correctedAt]]]

PaperNow == [teacher |-> phone.teacher, version |-> phone.version,
             content |-> phone.content, refused |-> phone.refused]

AckedNow == [version |-> phone.synced, teacher |-> phone.syncedAs]

Asking(s) == [at |-> call[s].id, teacher |-> call[s].teacher, version |-> call[s].version,
              content |-> call[s].content, reply |-> call[s].reply]

AskedNow ==
    IF phone.waiting = None
    THEN [at |-> 0, teacher |-> None, version |-> 0, content |-> None, reply |-> "quiet"]
    ELSE Asking(phone.waiting)

Record == INSTANCE PaperRecord WITH
    patient <- orderly, live <- templateLive, record <- RecordNow, paper <- PaperNow,
    acked <- AckedNow, asked <- AskedNow, asks <- attempts

\* To a phone whose calls are over when it makes the next one, the handlers with
\* all their statements are one record that is replaced or removed in one step.
ImplementsRecord == Record!Spec
=============================================================================
