----------------------- MODULE GradingSessionsProofs -----------------------
(***************************************************************************)
(* Proofs about GradingSessions: who owns a paper, when it was corrected,  *)
(* and what retries leave stored, for any papers, calls and losses.        *)
(***************************************************************************)
EXTENDS GradingSessions, TLAPS, FiniteSetTheorems

-----------------------------------------------------------------------------
(* The inductive invariants *)

Saving == {"selectAnswers", "flush", "deleteAnswers", "insertAnswers"}
Writing == {"deleteAnswers", "insertAnswers"}

\* What a call holds at each of its steps.
CallOK(s) ==
    LET c == call[s] IN
    /\ c.version <= MaxVersion /\ c.id <= attempts
    /\ c.pc # "free" => c.teacher \in Teachers
    /\ c.pc \in Saving =>
          /\ c.content \in Papers
          /\ c.row # None => c.row.teacher = c.teacher
    /\ c.pc \in {"selectAnswers", "deleteRow"} => c.row # None
    /\ c.pc \in {"free", "queued", "answered"} => ~c.rowLocked /\ c.row = None
    /\ c.row = None => c.answers = {}
    /\ c.pc \notin {"insertAnswers", "deleteRow"} => c.gone = {}

TypeInv ==
    /\ templateLive \in BOOLEAN /\ orderly \in BOOLEAN
    /\ session \in SessionRow \cup {None}
    /\ answers \in SUBSET AnswerRow
    /\ call \in [Slots -> Call] /\ \A s \in Slots : CallOK(s)
    /\ phone \in Phone
    /\ attempts \in 0..MaxAttempts /\ losses \in 0..MaxLosses

\* Who writes has the lock of the row, and the row is as it was found: there, or
\* not there.
LockOK(s) ==
    LET c == call[s] IN
    /\ c.pc \in Writing =>
          c.rowLocked /\ (IF c.row = None THEN session = None ELSE StillThere(s))
    /\ c.rowLocked => c.pc \in Writing \cup {"deleteRow"}
    /\ c.pc = "insertAnswers" => c.gone = Cleared(s)

LockInv ==
    /\ \A s \in Slots : LockOK(s)
    /\ \A r, s \in Slots : call[r].rowLocked /\ call[s].rowLocked => r = s
    /\ session = None => answers = {}

-----------------------------------------------------------------------------
(* What steps do to calls *)

\* Only the call in s is another one.
OnlyCall(s) == call' \in [Slots -> Call] /\ \A r \in Slots \ {s} : call'[r] = call[r]

LEMMA ConstantFacts ==
    /\ MaxVersion \in Nat /\ MaxLosses \in Nat /\ MaxAttempts \in Nat
    /\ None \notin Teachers /\ None \notin Slots /\ None \notin Papers /\ None \notin Nat
    /\ None \notin SessionRow
    /\ \A p \in Papers : IsFiniteSet(DOMAIN p) /\ DOMAIN p \subseteq Nat
BY ConstantsAssumption, NoneIsNoRow

\* A handler that ends has nothing left but its answer.
LEMMA Ending ==
    ASSUME TypeInv, NEW s \in Slots, NEW reply \in Replies, call[s].pc # "free",
           NEW new, new = Ended(s, reply)
    PROVE  /\ new \in Call
           /\ new.pc = "answered" /\ new.reply = reply
           /\ ~new.rowLocked /\ new.row = None /\ new.answers = {} /\ new.gone = {}
           /\ new.version = call[s].version /\ new.id = call[s].id
           /\ new.teacher = call[s].teacher /\ new.content = call[s].content
<1>1. call[s] \in Call
    BY DEF TypeInv
<1>2. "answered" \in Steps
    BY DEF Steps
<1>3. new = [pc |-> "answered", id |-> call[s].id, teacher |-> call[s].teacher,
             version |-> call[s].version, content |-> call[s].content, row |-> None,
             answers |-> {}, rowLocked |-> FALSE, gone |-> {}, reply |-> reply]
    BY <1>1 DEF Ended, Call
<1> HIDE DEF Steps, Replies, SessionRow, AnswerRow
<1> QED BY <1>1, <1>2, <1>3 DEF Call

LEMMA EndedCall ==
    ASSUME TypeInv, NEW s \in Slots, NEW reply \in Replies, call[s].pc # "free",
           Answered(s, reply)
    PROVE  /\ OnlyCall(s) /\ call'[s] = Ended(s, reply)
           /\ attempts' = attempts => CallOK(s)'
<1>1. call'[s] = Ended(s, reply) /\ \A r \in Slots \ {s} : call'[r] = call[r]
    BY DEF Answered, TypeInv
<1>2. Ended(s, reply) \in Call
    BY Ending
<1>3. OnlyCall(s)
    BY <1>1, <1>2 DEF Answered, TypeInv, OnlyCall
<1>4. call[s] \in Call /\ CallOK(s)
    BY DEF TypeInv
<1>5. attempts' = attempts => CallOK(s)'
    BY <1>1, <1>4, Ending DEF CallOK, Saving
<1> QED BY <1>1, <1>3, <1>5

\* A handler's step that writes nothing: s goes on with what it has read, locked
\* or deleted, or ends.
LocalStep(s) ==
    \/ PutRefused(s) \/ SelectSession(s) \/ SelectAnswers(s) \/ Flush(s) \/ FlushFails(s)
    \/ DeleteAnswers(s) \/ PutConflicts(s) \/ DeleteNotFound(s) \/ DeleteSelects(s) \/ Crash(s)

LEMMA LocalUnchanged ==
    ASSUME NEW s, LocalStep(s)
    PROVE  /\ UNCHANGED <<templateLive, session, answers, phone, attempts, orderly>>
           /\ losses' = losses \/ (losses < MaxLosses /\ losses' = losses + 1)
BY DEF LocalStep, PutRefused, SelectSession, SelectAnswers, Flush, FlushFails, DeleteAnswers,
       PutConflicts, DeleteNotFound, DeleteSelects, Crash

\* The steps of LocalStep that end a handler.
LEMMA LocalEnds ==
    ASSUME TypeInv, NEW s \in Slots,
           PutRefused(s) \/ FlushFails(s) \/ PutConflicts(s) \/ DeleteNotFound(s) \/ Crash(s)
    PROVE  /\ call[s].pc \notin {"free", "answered"}
           /\ \E reply \in {"done", "refused", "failed"} :
                /\ Answered(s, reply)
                /\ reply = "done" => DeleteNotFound(s)
<1>1. PutRefused(s) => call[s].pc = "queued" /\ Answered(s, "refused")
    BY DEF PutRefused
<1>2. FlushFails(s) => call[s].pc = "flush" /\ Answered(s, "failed")
    BY DEF FlushFails
<1>3. PutConflicts(s) => call[s].pc = "insertAnswers" /\ Answered(s, "failed")
    BY DEF PutConflicts
<1>4. DeleteNotFound(s) => call[s].pc = "queued" /\ Answered(s, "done")
    BY DEF DeleteNotFound
<1>5. Crash(s) => call[s].pc \notin {"free", "answered"} /\ Answered(s, "failed")
    BY DEF Crash
<1> QED BY <1>1, <1>2, <1>3, <1>4, <1>5

LEMMA LocalSelect ==
    ASSUME TypeInv, NEW s \in Slots, SelectSession(s)
    PROVE  /\ OnlyCall(s) /\ CallOK(s)'
           /\ call'[s] = [call[s] EXCEPT !.row = session,
                             !.pc = IF session = None THEN "flush" ELSE "selectAnswers"]
<1> DEFINE new == [call[s] EXCEPT !.row = session,
                      !.pc = IF session = None THEN "flush" ELSE "selectAnswers"]
<1>1. /\ call[s].pc = "queued" /\ call[s].content # None
      /\ session = None \/ session.teacher = call[s].teacher
      /\ attempts' = attempts
    BY DEF SelectSession, SomeoneElses
<1>2. call[s] \in Call /\ CallOK(s)
    BY DEF TypeInv
<1>3. call' = [call EXCEPT ![s] = new]
    BY DEF SelectSession
<1>4. new \in Call
    BY <1>2 DEF TypeInv, Call, Steps
<1>5. OnlyCall(s) /\ call'[s] = new
    BY <1>3, <1>4 DEF OnlyCall, TypeInv
<1>6. call[s].content \in Papers
    BY <1>1, <1>2 DEF Call
<1>7. CallOK(s)'
    BY <1>1, <1>2, <1>5, <1>6 DEF CallOK, Saving, Call
<1> QED BY <1>5, <1>7

LEMMA LocalSelectAnswers ==
    ASSUME TypeInv, NEW s \in Slots, SelectAnswers(s)
    PROVE  /\ OnlyCall(s) /\ CallOK(s)'
           /\ call'[s] = [call[s] EXCEPT !.answers = answers, !.pc = "flush"]
<1>1. call[s] \in Call /\ CallOK(s) /\ call[s].pc = "selectAnswers" /\ attempts' = attempts
    BY DEF TypeInv, SelectAnswers
<1>2. call' = [call EXCEPT ![s] = [call[s] EXCEPT !.answers = answers, !.pc = "flush"]]
    BY DEF SelectAnswers
<1>3. [call[s] EXCEPT !.answers = answers, !.pc = "flush"] \in Call
    BY <1>1 DEF TypeInv, Call, Steps
<1>4. /\ OnlyCall(s)
      /\ call'[s] = [call[s] EXCEPT !.answers = answers, !.pc = "flush"]
    BY <1>2, <1>3 DEF OnlyCall, TypeInv
<1>5. CallOK(s)'
    BY <1>1, <1>4 DEF CallOK, Saving, Call
<1> QED BY <1>4, <1>5

LEMMA LocalFlush ==
    ASSUME TypeInv, NEW s \in Slots, Flush(s)
    PROVE  /\ OnlyCall(s) /\ CallOK(s)'
           /\ call'[s] = [call[s] EXCEPT !.rowLocked = TRUE, !.pc = "deleteAnswers"]
<1>1. call[s] \in Call /\ CallOK(s) /\ call[s].pc = "flush" /\ attempts' = attempts
    BY DEF TypeInv, Flush
<1>2. call' = [call EXCEPT ![s] = [call[s] EXCEPT !.rowLocked = TRUE, !.pc = "deleteAnswers"]]
    BY DEF Flush
<1>3. [call[s] EXCEPT !.rowLocked = TRUE, !.pc = "deleteAnswers"] \in Call
    BY <1>1 DEF Call, Steps
<1>4. /\ OnlyCall(s)
      /\ call'[s] = [call[s] EXCEPT !.rowLocked = TRUE, !.pc = "deleteAnswers"]
    BY <1>2, <1>3 DEF OnlyCall, TypeInv
<1>5. CallOK(s)'
    BY <1>1, <1>4 DEF CallOK, Saving, Call
<1> QED BY <1>4, <1>5

LEMMA LocalDeleteAnswers ==
    ASSUME TypeInv, NEW s \in Slots, DeleteAnswers(s)
    PROVE  /\ OnlyCall(s) /\ CallOK(s)'
           /\ call'[s] = [call[s] EXCEPT !.gone = Cleared(s), !.pc = "insertAnswers"]
<1>1. call[s] \in Call /\ CallOK(s) /\ call[s].pc = "deleteAnswers" /\ attempts' = attempts
    BY DEF TypeInv, DeleteAnswers
<1>2. call' = [call EXCEPT ![s] = [call[s] EXCEPT !.gone = Cleared(s), !.pc = "insertAnswers"]]
    BY DEF DeleteAnswers
<1>3. Cleared(s) \in SUBSET AnswerRow
    BY <1>1 DEF Cleared, TypeInv
<1>4. [call[s] EXCEPT !.gone = Cleared(s), !.pc = "insertAnswers"] \in Call
    BY <1>1, <1>3 DEF Call, Steps
<1>5. /\ OnlyCall(s)
      /\ call'[s] = [call[s] EXCEPT !.gone = Cleared(s), !.pc = "insertAnswers"]
    BY <1>2, <1>4 DEF OnlyCall, TypeInv
<1>6. CallOK(s)'
    BY <1>1, <1>5 DEF CallOK, Saving, Call
<1> QED BY <1>5, <1>6

LEMMA LocalDelete ==
    ASSUME TypeInv, NEW s \in Slots, DeleteSelects(s)
    PROVE  /\ OnlyCall(s) /\ CallOK(s)'
           /\ call'[s] = [call[s] EXCEPT !.row = session, !.gone = answers, !.pc = "deleteRow"]
<1>1. /\ call[s] \in Call /\ CallOK(s) /\ call[s].pc = "queued" /\ attempts' = attempts
      /\ session # None
    BY DEF TypeInv, DeleteSelects
<1>2. call' = [call EXCEPT ![s] = [call[s] EXCEPT !.row = session, !.gone = answers,
                                                  !.pc = "deleteRow"]]
    BY DEF DeleteSelects
<1>3. [call[s] EXCEPT !.row = session, !.gone = answers, !.pc = "deleteRow"] \in Call
    BY <1>1 DEF TypeInv, Call, Steps
<1>4. /\ OnlyCall(s)
      /\ call'[s] = [call[s] EXCEPT !.row = session, !.gone = answers, !.pc = "deleteRow"]
    BY <1>2, <1>3 DEF OnlyCall, TypeInv
<1>5. CallOK(s)'
    BY <1>1, <1>4 DEF CallOK, Saving, Call
<1> QED BY <1>4, <1>5

\* What every such step leaves of s.
LEMMA LocalOK ==
    ASSUME TypeInv, LockInv, NEW s \in Slots, LocalStep(s)
    PROVE  /\ OnlyCall(s) /\ CallOK(s)' /\ LockOK(s)'
           /\ call'[s].rowLocked => call[s].rowLocked \/ RowFree(s)
<1> DEFINE Goal == /\ OnlyCall(s) /\ CallOK(s)' /\ LockOK(s)'
                   /\ call'[s].rowLocked => call[s].rowLocked \/ RowFree(s)
<1>1. session' = session /\ answers' = answers /\ attempts' = attempts
    BY LocalUnchanged
<1>2. call[s] \in Call /\ CallOK(s) /\ LockOK(s)
    BY DEF TypeInv, LockInv
<1>3. CASE PutRefused(s) \/ FlushFails(s) \/ PutConflicts(s) \/ DeleteNotFound(s) \/ Crash(s)
  <2>1. PICK reply \in Replies : Answered(s, reply)
      BY <1>3, LocalEnds DEF Replies
  <2>2. OnlyCall(s) /\ call'[s] = Ended(s, reply) /\ CallOK(s)' /\ call[s].pc # "free"
      BY <1>1, <1>3, <2>1, EndedCall, LocalEnds
  <2>3. call'[s].pc = "answered" /\ ~call'[s].rowLocked
      BY <2>2, Ending
  <2> QED BY <2>2, <2>3 DEF LockOK, Writing
<1>4. CASE SelectSession(s)
  <2>1. ~call[s].rowLocked
      BY <1>2, <1>4 DEF SelectSession, CallOK
  <2>2. call'[s].pc \in {"flush", "selectAnswers"} /\ ~call'[s].rowLocked
      BY <1>2, <1>4, <2>1, LocalSelect DEF Call
  <2> QED BY <1>4, <2>2, LocalSelect DEF LockOK, Writing
<1>5. CASE SelectAnswers(s)
  <2>1. call[s].pc = "selectAnswers"
      BY <1>5 DEF SelectAnswers
  <2>2. ~call[s].rowLocked
      BY <1>2, <2>1 DEF LockOK, Writing
  <2>3. call'[s].pc = "flush" /\ ~call'[s].rowLocked
      BY <1>2, <1>5, <2>2, LocalSelectAnswers DEF Call
  <2> QED BY <1>5, <2>3, LocalSelectAnswers DEF LockOK, Writing
<1>6. CASE Flush(s)
  <2>1. RowFree(s) /\ IF call[s].row = None THEN session = None ELSE StillThere(s)
      BY <1>6 DEF Flush
  <2>2. /\ call'[s].pc = "deleteAnswers" /\ call'[s].rowLocked
        /\ call'[s].row = call[s].row
      BY <1>2, <1>6, LocalFlush DEF Call
  <2>3. LockOK(s)'
      BY <1>1, <2>1, <2>2 DEF LockOK, Writing, StillThere
  <2> QED BY <1>6, <2>1, <2>3, LocalFlush
<1>7. CASE DeleteAnswers(s)
  <2>1. call[s].pc = "deleteAnswers"
      BY <1>7 DEF DeleteAnswers
  <2>2. call[s].rowLocked /\ IF call[s].row = None THEN session = None ELSE StillThere(s)
      BY <1>2, <2>1 DEF LockOK, Writing
  <2>3. /\ call'[s].pc = "insertAnswers" /\ call'[s].rowLocked = call[s].rowLocked
        /\ call'[s].row = call[s].row /\ call'[s].gone = Cleared(s)
        /\ call'[s].answers = call[s].answers
      BY <1>2, <1>7, LocalDeleteAnswers DEF Call
  <2>4. LockOK(s)'
      BY <1>1, <2>2, <2>3 DEF LockOK, Writing, StillThere, Cleared
  <2> QED BY <1>7, <2>2, <2>4, LocalDeleteAnswers
<1>8. CASE DeleteSelects(s)
  <2>1. ~call[s].rowLocked
      BY <1>2, <1>8 DEF DeleteSelects, CallOK
  <2>2. call'[s].pc = "deleteRow" /\ ~call'[s].rowLocked
      BY <1>2, <1>8, <2>1, LocalDelete DEF Call
  <2> QED BY <1>8, <2>2, LocalDelete DEF LockOK, Writing
<1> QED BY <1>3, <1>4, <1>5, <1>6, <1>7, <1>8 DEF LocalStep

-----------------------------------------------------------------------------
(* Commits *)

\* The writer holds the row, and nobody else does.
LEMMA WriterAlone ==
    ASSUME LockInv, NEW s \in Slots, call[s].pc \in Writing
    PROVE  /\ call[s].rowLocked
           /\ \A r \in Slots \ {s} : ~call[r].rowLocked /\ call[r].pc \notin Writing
           /\ IF call[s].row = None THEN session = None ELSE StillThere(s)
BY DEF LockInv, LockOK

\* The time of a correction is one, or nothing.
LEMMA CorrectedAtType ==
    ASSUME TypeInv, NEW s \in Slots, call[s].content \in Papers, NEW q \in DOMAIN call[s].content
    PROVE  CorrectedAt(s, q) \in Nat \cup {None}
<1> DEFINE prior == {a \in call[s].answers : a.q = q /\ a.mark = call[s].content[q]}
<1>1. call[s].id \in Nat /\ call[s].answers \in SUBSET AnswerRow
    BY DEF TypeInv, Call
<1>2. prior # {} => (CHOOSE a \in prior : TRUE) \in prior
    OBVIOUS
<1>3. prior # {} => (CHOOSE a \in prior : TRUE).correctedAt \in Nat \cup {None}
    BY <1>1, <1>2 DEF AnswerRow
<1> QED BY <1>1, <1>3 DEF CorrectedAt

LEMMA UploadedType ==
    ASSUME TypeInv, NEW s \in Slots, call[s].content \in Papers
    PROVE  Uploaded(s) \in SUBSET AnswerRow
<1> SUFFICES ASSUME NEW q \in DOMAIN call[s].content
             PROVE  [q |-> q, mark |-> call[s].content[q],
                     correctedAt |-> CorrectedAt(s, q), by |-> call[s].id] \in AnswerRow
    BY DEF Uploaded
<1>1. q \in Questions /\ call[s].content[q] \in Marks
    BY DEF Questions, Marks, Range
<1>2. CorrectedAt(s, q) \in Nat \cup {None}
    BY CorrectedAtType
<1>3. call[s].id \in Nat
    BY DEF TypeInv, Call
<1> QED BY <1>1, <1>2, <1>3 DEF AnswerRow

\* The row an UPDATE leaves is the one it found, with the upload's columns where
\* they differ from those loaded.
LEMMA StoredRowType ==
    ASSUME TypeInv, LockInv, NEW s \in Slots, call[s].pc = "insertAnswers"
    PROVE  /\ StoredRow(s) \in SessionRow
           /\ call[s].row # None =>
                /\ StoredRow(s).id = session.id
                /\ StoredRow(s).teacher = session.teacher
                /\ StoredRow(s).version = IF call[s].version = call[s].row.version
                                          THEN session.version ELSE call[s].version
                /\ StoredRow(s).total =
                     LET total == Cardinality(DOMAIN call[s].content) IN
                     IF total = call[s].row.total THEN session.total ELSE total
           /\ call[s].row = None =>
                StoredRow(s) = [id |-> call[s].id, teacher |-> call[s].teacher,
                                version |-> call[s].version,
                                total |-> Cardinality(DOMAIN call[s].content)]
<1> DEFINE total == Cardinality(DOMAIN call[s].content)
           new == [id |-> call[s].id, teacher |-> call[s].teacher,
                   version |-> call[s].version, total |-> total]
           old == call[s].row
           value(c) == IF c = "id" \/ new[c] = old[c] THEN session[c] ELSE new[c]
<1>1. /\ call[s] \in Call /\ call[s].content \in Papers /\ call[s].teacher \in Teachers
      /\ old # None => old.teacher = call[s].teacher
    BY DEF TypeInv, CallOK, Saving
<1>2. total \in Nat
    BY <1>1, ConstantFacts, FS_CardinalityType
<1>3. call[s].id \in Nat /\ call[s].version \in Nat
    BY <1>1 DEF Call
<1>4. old # None => session \in SessionRow /\ old \in SessionRow
    BY <1>1, WriterAlone DEF Writing, StillThere, TypeInv, Call
<1>5. CASE old = None
  <2>1. StoredRow(s) = new
      BY <1>5 DEF StoredRow
  <2> QED BY <1>1, <1>2, <1>3, <1>5, <2>1 DEF SessionRow
<1>6. CASE old # None
  <2>1. StoredRow(s) = [c \in DOMAIN new |-> value(c)]
      BY <1>6 DEF StoredRow
  <2>2. DOMAIN new = {"id", "teacher", "version", "total"}
      OBVIOUS
  <2>3. /\ value("id") = session.id
        /\ value("teacher") = session.teacher
        /\ value("version") = IF call[s].version = old.version
                              THEN session.version ELSE call[s].version
        /\ value("total") = IF total = old.total THEN session.total ELSE total
      BY <1>1, <1>6
  <2>4. StoredRow(s) = [id |-> value("id"), teacher |-> value("teacher"),
                        version |-> value("version"), total |-> value("total")]
      BY <2>1, <2>2
  <2> HIDE DEF value, new, total
  <2>5. StoredRow(s) \in SessionRow
      BY <1>2, <1>3, <1>4, <1>6, <2>3, <2>4 DEF SessionRow
  <2>6. /\ StoredRow(s).id = value("id") /\ StoredRow(s).teacher = value("teacher")
        /\ StoredRow(s).version = value("version") /\ StoredRow(s).total = value("total")
      BY <2>4
  <2> QED BY <1>6, <2>3, <2>5, <2>6 DEF total
<1> QED BY <1>5, <1>6

\* A commit ends its handler and disturbs nobody who writes: nobody else does.
LEMMA CommitFrame ==
    ASSUME TypeInv, LockInv, NEW s \in Slots, call[s].pc # "free",
           \A r \in Slots \ {s} : call[r].pc \notin Writing,
           NEW reply \in Replies, Answered(s, reply),
           session' = None => answers' = {}
    PROVE  LockInv'
<1>1. /\ \A r \in Slots \ {s} : call'[r] = call[r]
      /\ call'[s].pc = "answered" /\ ~call'[s].rowLocked
    BY EndedCall, Ending DEF OnlyCall
<1>2. LockOK(s)'
    BY <1>1 DEF LockOK, Writing
<1>3. ASSUME NEW r \in Slots \ {s} PROVE LockOK(r)'
  <2>1. call[r].pc \notin Writing /\ LockOK(r)
      BY DEF LockInv
  <2> QED BY <1>1, <2>1 DEF LockOK, Writing
<1>4. \A q, r \in Slots : call'[q].rowLocked /\ call'[r].rowLocked => q = r
    BY <1>1 DEF LockInv
<1> QED BY <1>2, <1>3, <1>4 DEF LockInv

LEMMA CommitPutOK ==
    ASSUME TypeInv, LockInv, NEW s \in Slots, CommitPut(s)
    PROVE  TypeInv' /\ LockInv'
<1>1. /\ call[s].pc = "insertAnswers"
      /\ session' = StoredRow(s) /\ answers' = (answers \ call[s].gone) \cup Uploaded(s)
      /\ UNCHANGED <<templateLive, phone, attempts, orderly>>
    BY DEF CommitPut
<1>2. PICK reply \in {"done", "failed"} :
         /\ reply = "failed" => losses < MaxLosses
         /\ losses' = IF reply = "failed" THEN losses + 1 ELSE losses
         /\ Answered(s, reply)
    BY DEF CommitPut
<1>3. reply \in Replies
    BY <1>2 DEF Replies
<1>4. call[s].content \in Papers
    BY <1>1 DEF TypeInv, CallOK, Saving
<1>5. session' \in SessionRow /\ answers' \in SUBSET AnswerRow
    BY <1>1, <1>4, StoredRowType, UploadedType DEF TypeInv
<1>6. losses' \in 0..MaxLosses
    BY <1>2, ConstantFacts DEF TypeInv
<1>7. OnlyCall(s) /\ CallOK(s)'
    BY <1>1, <1>2, <1>3, EndedCall
<1>8. \A r \in Slots \ {s} : CallOK(r)'
    BY <1>1, <1>7 DEF OnlyCall, TypeInv, CallOK
<1>9. TypeInv'
    BY <1>1, <1>5, <1>6, <1>7, <1>8 DEF TypeInv, OnlyCall
<1>10. \A r \in Slots \ {s} : call[r].pc \notin Writing
    BY <1>1, WriterAlone DEF Writing
<1>11. LockInv'
    BY <1>1, <1>2, <1>3, <1>5, <1>10, ConstantFacts, CommitFrame
<1> QED BY <1>9, <1>11

LEMMA CommitDeleteOK ==
    ASSUME TypeInv, LockInv, NEW s \in Slots, CommitDelete(s)
    PROVE  TypeInv' /\ LockInv'
<1>1. /\ call[s].pc = "deleteRow" /\ Answered(s, "done") /\ RowFree(s)
      /\ UNCHANGED <<templateLive, phone, attempts, losses, orderly>>
      /\ (session' = None /\ answers' = {}) \/ UNCHANGED <<session, answers>>
    BY DEF CommitDelete
<1>2. "done" \in Replies
    BY DEF Replies
<1>3. OnlyCall(s) /\ CallOK(s)'
    BY <1>1, <1>2, EndedCall
<1>4. \A r \in Slots \ {s} : CallOK(r)'
    BY <1>1, <1>3 DEF OnlyCall, TypeInv, CallOK
<1>5. TypeInv'
    BY <1>1, <1>3, <1>4 DEF TypeInv, OnlyCall
<1>6. \A r \in Slots \ {s} : call[r].pc \notin Writing
    BY <1>1 DEF RowFree, LockInv, LockOK
<1>7. session' = None => answers' = {}
    BY <1>1 DEF LockInv
<1>8. LockInv'
    BY <1>1, <1>2, <1>6, <1>7, CommitFrame
<1> QED BY <1>5, <1>8

-----------------------------------------------------------------------------
(* Type correctness and locks *)

\* A step of one call that writes nothing.
LEMMA QuietStep ==
    ASSUME TypeInv, LockInv, NEW s \in Slots, OnlyCall(s), CallOK(s)', LockOK(s)',
           call'[s].rowLocked => call[s].rowLocked \/ RowFree(s),
           session' = session, answers' = answers, attempts <= attempts', attempts' <= MaxAttempts,
           templateLive' \in BOOLEAN, orderly' \in BOOLEAN, phone' \in Phone,
           attempts' \in Nat, losses' \in 0..MaxLosses
    PROVE  TypeInv' /\ LockInv'
<1>1. ASSUME NEW r \in Slots \ {s} PROVE CallOK(r)' /\ LockOK(r)'
  <2>1. CallOK(r) /\ LockOK(r) /\ call'[r] = call[r] /\ call[r] \in Call
      BY DEF TypeInv, LockInv, OnlyCall
  <2>2. call[r].id <= attempts'
    <3>1. call[r].id \in Nat /\ call[r].id <= attempts /\ attempts \in Nat
        BY <2>1 DEF Call, CallOK, TypeInv
    <3> QED BY <3>1
  <2>3. CallOK(r)'
      BY <2>1, <2>2 DEF CallOK
  <2> QED BY <2>1, <2>3 DEF LockOK, StillThere, Cleared
<1>2. ASSUME NEW q \in Slots, NEW r \in Slots, call'[q].rowLocked, call'[r].rowLocked
      PROVE  q = r
    BY <1>2 DEF OnlyCall, LockInv, RowFree
<1>3. attempts' \in 0..MaxAttempts
    BY ConstantFacts
<1> QED BY <1>1, <1>2, <1>3 DEF TypeInv, LockInv, OnlyCall

LEMMA LocalStepOK ==
    ASSUME TypeInv, LockInv, NEW s \in Slots, LocalStep(s)
    PROVE  TypeInv' /\ LockInv'
<1>1. /\ UNCHANGED <<templateLive, session, answers, phone, attempts, orderly>>
      /\ losses' \in 0..MaxLosses
    BY LocalUnchanged, ConstantFacts DEF TypeInv
<1>2. /\ OnlyCall(s) /\ CallOK(s)' /\ LockOK(s)'
      /\ call'[s].rowLocked => call[s].rowLocked \/ RowFree(s)
    BY LocalOK
<1>3. attempts \in 0..MaxAttempts /\ attempts' \in 0..MaxAttempts /\ attempts' = attempts
      /\ templateLive' \in BOOLEAN /\ orderly' \in BOOLEAN /\ phone' \in Phone
    BY <1>1 DEF TypeInv
<1>4. attempts <= attempts' /\ attempts' <= MaxAttempts /\ attempts' \in Nat
    BY <1>3, ConstantFacts
<1> QED BY <1>1, <1>2, <1>3, <1>4, QuietStep

\* A call that comes or is over holds nothing.
LEMMA FreeCall == Free \in Call /\ Free.pc = "free" /\ ~Free.rowLocked /\ Free.row = None
                  /\ Free.gone = {} /\ Free.answers = {} /\ Free.version = 0 /\ Free.id = 0
                  /\ Free.reply = "none"
BY DEF Free, Call, Steps, Replies

LEMMA QueuedCall ==
    ASSUME NEW id \in Nat, NEW teacher \in Teachers, NEW version \in Nat,
           NEW content \in Papers \cup {None}
    PROVE  [Free EXCEPT !.pc = "queued", !.id = id, !.teacher = teacher,
               !.version = version, !.content = content] \in Call
BY FreeCall DEF Call, Steps

LEMMA SendCall ==
    ASSUME TypeInv, NEW s \in Slots, Send(s)
    PROVE  /\ OnlyCall(s) /\ CallOK(s)' /\ call[s] = Free
           /\ call'[s] = [Free EXCEPT !.pc = "queued", !.id = attempts + 1,
                             !.teacher = phone.teacher, !.version = phone.version,
                             !.content = phone.content]
           /\ phone' = [phone EXCEPT !.waiting = s] /\ phone' \in Phone
           /\ attempts' = attempts + 1 /\ attempts' \in 0..MaxAttempts
           /\ UNCHANGED <<templateLive, session, answers, losses, orderly>>
<1> DEFINE new == [Free EXCEPT !.pc = "queued", !.id = attempts + 1,
                      !.teacher = phone.teacher, !.version = phone.version,
                      !.content = phone.content]
<1>1. phone \in Phone /\ attempts \in Nat
    BY DEF TypeInv
<1>2. /\ call' = [call EXCEPT ![s] = new] /\ call[s] = Free
      /\ phone' = [phone EXCEPT !.waiting = s]
      /\ attempts' = attempts + 1 /\ attempts < MaxAttempts
      /\ UNCHANGED <<templateLive, session, answers, losses, orderly>>
    BY DEF Send
<1>3. /\ new.pc = "queued" /\ new.id = attempts + 1 /\ new.teacher = phone.teacher
      /\ new.version = phone.version /\ ~new.rowLocked /\ new.row = None
      /\ new.gone = {} /\ new.answers = {}
    BY DEF Free
<1>4. new \in Call
  <2>1. /\ phone.teacher \in Teachers /\ phone.version \in Nat
        /\ phone.content \in Papers \cup {None} /\ attempts + 1 \in Nat
      BY <1>1, ConstantFacts DEF Phone
  <2> QED BY <2>1, QueuedCall
<1>5. phone.teacher \in Teachers /\ phone.version <= MaxVersion
    BY <1>1, ConstantFacts DEF Phone
<1> HIDE DEF new
<1>6. OnlyCall(s) /\ call'[s] = new
    BY <1>2, <1>4 DEF OnlyCall, TypeInv
<1>7. CallOK(s)'
    BY <1>1, <1>2, <1>3, <1>5, <1>6 DEF CallOK, Saving
<1>8. phone' \in Phone
    BY <1>1, <1>2 DEF Phone
<1>9. attempts' \in 0..MaxAttempts
    BY <1>1, <1>2, ConstantFacts
<1> QED BY <1>2, <1>6, <1>7, <1>8, <1>9 DEF new

\* The steps of the phone that free a slot.
LEMMA FreedCall ==
    ASSUME TypeInv, NEW s \in Slots, Receive(s) \/ Dropped(s)
    PROVE  /\ OnlyCall(s) /\ CallOK(s)' /\ call'[s] = Free /\ call[s].pc = "answered"
           /\ UNCHANGED <<templateLive, session, answers, attempts, losses, orderly>>
<1>1. /\ call' = [call EXCEPT ![s] = Free] /\ call[s].pc = "answered"
      /\ UNCHANGED <<templateLive, session, answers, attempts, losses, orderly>>
    BY DEF Receive, Dropped
<1>2. OnlyCall(s) /\ call'[s] = Free
    BY <1>1, FreeCall DEF OnlyCall, TypeInv
<1>3. 0 <= MaxVersion /\ 0 <= attempts'
    BY <1>1, ConstantFacts DEF TypeInv
<1>4. CallOK(s)'
    BY <1>2, <1>3, FreeCall DEF CallOK, Saving
<1> QED BY <1>1, <1>2, <1>4

LEMMA ReceivedPhone ==
    ASSUME TypeInv, NEW s \in Slots, Receive(s)
    PROVE  phone' \in Phone
<1>1. call[s] \in Call /\ CallOK(s) /\ phone \in Phone /\ call[s].pc = "answered"
    BY DEF TypeInv, Receive
<1>2. call[s].version \in 0..MaxVersion /\ call[s].teacher \in Teachers
    BY <1>1, ConstantFacts DEF CallOK, Call
<1>3. phone' = [phone EXCEPT
                  !.waiting = None,
                  !.synced = IF call[s].reply = "done" THEN call[s].version ELSE @,
                  !.syncedAs = IF call[s].reply = "done" THEN call[s].teacher ELSE @,
                  !.refused = call[s].reply = "refused" /\ call[s].version = phone.version]
    BY DEF Receive
<1>4. (call[s].reply = "refused" /\ call[s].version = phone.version) \in BOOLEAN
    OBVIOUS
<1> QED BY <1>1, <1>2, <1>3, <1>4 DEF Phone

\* The steps of the phone by itself.
PhoneStep == Edit \/ Discard \/ GiveUp \/ \E t \in Teachers : SignIn(t)

LEMMA PhoneStepOK ==
    ASSUME TypeInv, PhoneStep
    PROVE  /\ UNCHANGED <<templateLive, session, answers, call, attempts, orderly>>
           /\ phone' \in Phone /\ losses' \in 0..MaxLosses
<1>1. phone \in Phone /\ losses \in 0..MaxLosses
    BY DEF TypeInv
<1>2. CASE Edit
  <2>1. PICK content \in Papers :
           phone' = [phone EXCEPT !.version = @ + 1, !.content = content, !.refused = FALSE]
      BY <1>2 DEF Edit
  <2>2. phone.version + 1 \in 0..MaxVersion
      BY <1>1, <1>2, ConstantFacts DEF Edit, Phone
  <2>3. phone' \in Phone
      BY <1>1, <2>1, <2>2 DEF Phone
  <2> QED BY <1>1, <1>2, <2>3 DEF Edit
<1>3. CASE Discard
  <2>1. phone' = [phone EXCEPT !.version = @ + 1, !.content = None, !.refused = FALSE]
      BY <1>3 DEF Discard
  <2>2. phone.version + 1 \in 0..MaxVersion
      BY <1>1, <1>3, ConstantFacts DEF Discard, Phone
  <2>3. phone' \in Phone
      BY <1>1, <2>1, <2>2 DEF Phone
  <2> QED BY <1>1, <1>3, <2>3 DEF Discard
<1>4. CASE GiveUp
    BY <1>1, <1>4, ConstantFacts DEF GiveUp, Phone
<1>5. ASSUME NEW t \in Teachers, SignIn(t)
      PROVE  /\ UNCHANGED <<templateLive, session, answers, call, attempts, orderly>>
             /\ phone' \in Phone /\ losses' \in 0..MaxLosses
    BY <1>1, <1>5 DEF SignIn, Phone
<1> QED BY <1>2, <1>3, <1>4, <1>5 DEF PhoneStep

\* A deadlock: one of the two ends, the other one goes on.
LEMMA DeadlockSteps ==
    ASSUME TypeInv, LockInv, NEW s \in Slots, DeadlockVictim(s)
    PROVE  /\ UNCHANGED <<templateLive, session, answers, phone, attempts, losses, orderly>>
           /\ call' \in [Slots -> Call]
           /\ call'[s] = Ended(s, "failed") /\ call[s].pc \in {"deleteAnswers", "deleteRow"}
           /\ \E r \in Slots \ {s} :
                /\ \A q \in Slots \ {r, s} : call'[q] = call[q]
                /\ \/ /\ call[s].pc = "deleteAnswers" /\ call[r].pc = "deleteRow"
                      /\ call'[r] = [call[r] EXCEPT !.rowLocked = TRUE]
                   \/ /\ call[s].pc = "deleteRow" /\ call[r].pc = "deleteAnswers"
                      /\ call'[r] = [call[r] EXCEPT !.pc = "insertAnswers", !.gone = Cleared(r)]
<1> USE DEF TypeInv
<1>0. UNCHANGED <<templateLive, session, answers, phone, attempts, losses, orderly>>
    BY DEF DeadlockVictim
<1>1. PICK r \in Slots \ {s} :
         \/ /\ Deadlocked(s, r)
            /\ call' = [call EXCEPT ![s] = Ended(s, "failed"), ![r].rowLocked = TRUE]
         \/ /\ Deadlocked(r, s)
            /\ call' = [call EXCEPT ![s] = Ended(s, "failed"),
                                    ![r].pc = "insertAnswers", ![r].gone = Cleared(r)]
    BY DEF DeadlockVictim
<1>2. call[r] \in Call
    OBVIOUS
<1>3. CASE /\ Deadlocked(s, r)
           /\ call' = [call EXCEPT ![s] = Ended(s, "failed"), ![r].rowLocked = TRUE]
  <2>1. call[s].pc = "deleteAnswers" /\ call[r].pc = "deleteRow"
      BY <1>3 DEF Deadlocked
  <2>2. Ended(s, "failed") \in Call
      BY <2>1, Ending DEF Replies
  <2>3. [call[r] EXCEPT !.rowLocked = TRUE] \in Call
      BY <1>2 DEF Call
  <2>4. /\ call'[s] = Ended(s, "failed") /\ call'[r] = [call[r] EXCEPT !.rowLocked = TRUE]
        /\ \A q \in Slots \ {r, s} : call'[q] = call[q]
      BY <1>3
  <2>5. call' \in [Slots -> Call]
      BY <1>3, <2>2, <2>3
  <2> QED BY <1>0, <2>1, <2>4, <2>5
<1>4. CASE /\ Deadlocked(r, s)
           /\ call' = [call EXCEPT ![s] = Ended(s, "failed"),
                                   ![r].pc = "insertAnswers", ![r].gone = Cleared(r)]
  <2>1. call[s].pc = "deleteRow" /\ call[r].pc = "deleteAnswers"
      BY <1>4 DEF Deadlocked
  <2>2. Ended(s, "failed") \in Call
      BY <2>1, Ending DEF Replies
  <2>3. [call[r] EXCEPT !.pc = "insertAnswers", !.gone = Cleared(r)] \in Call
      BY <1>2 DEF Call, Steps, Cleared
  <2>4. /\ call'[s] = Ended(s, "failed")
        /\ call'[r] = [call[r] EXCEPT !.pc = "insertAnswers", !.gone = Cleared(r)]
        /\ \A q \in Slots \ {r, s} : call'[q] = call[q]
      BY <1>4
  <2>5. call' \in [Slots -> Call]
      BY <1>4, <2>2, <2>3
  <2> QED BY <1>0, <2>1, <2>4, <2>5
<1> QED BY <1>1, <1>3, <1>4

LEMMA DeadlockOK ==
    ASSUME TypeInv, LockInv, NEW s \in Slots, DeadlockVictim(s)
    PROVE  TypeInv' /\ LockInv'
<1>1. /\ UNCHANGED <<templateLive, session, answers, phone, attempts, losses, orderly>>
      /\ call' \in [Slots -> Call]
      /\ call'[s] = Ended(s, "failed") /\ call[s].pc \in {"deleteAnswers", "deleteRow"}
    BY DeadlockSteps
<1>2. PICK r \in Slots \ {s} :
         /\ \A q \in Slots \ {r, s} : call'[q] = call[q]
         /\ \/ /\ call[s].pc = "deleteAnswers" /\ call[r].pc = "deleteRow"
               /\ call'[r] = [call[r] EXCEPT !.rowLocked = TRUE]
            \/ /\ call[s].pc = "deleteRow" /\ call[r].pc = "deleteAnswers"
               /\ call'[r] = [call[r] EXCEPT !.pc = "insertAnswers", !.gone = Cleared(r)]
    BY DeadlockSteps
<1>3. /\ call'[s].pc = "answered" /\ ~call'[s].rowLocked /\ call'[s].row = None
      /\ call'[s].answers = {} /\ call'[s].gone = {} /\ call'[s].version = call[s].version
      /\ call'[s].id = call[s].id /\ call'[s].teacher = call[s].teacher
    BY <1>1, Ending DEF Replies
<1>4. \A q \in Slots : call[q] \in Call /\ CallOK(q) /\ LockOK(q)
    BY DEF TypeInv, LockInv
<1>5. CallOK(s)' /\ LockOK(s)'
    BY <1>1, <1>3, <1>4 DEF CallOK, LockOK, Saving, Writing
<1>6. \A q \in Slots \ {r, s} : CallOK(q)' /\ LockOK(q)'
    BY <1>1, <1>2, <1>4 DEF CallOK, LockOK, StillThere, Cleared
<1>7. /\ CallOK(r)' /\ LockOK(r)'
      /\ call'[r].rowLocked => call[r].rowLocked \/ call[s].rowLocked
  <2>1. CASE /\ call[s].pc = "deleteAnswers" /\ call[r].pc = "deleteRow"
             /\ call'[r] = [call[r] EXCEPT !.rowLocked = TRUE]
    <3>1. call[s].rowLocked
        BY <1>4, <2>1 DEF LockOK, Writing
    <3>2. /\ call'[r].pc = "deleteRow" /\ call'[r].row = call[r].row
          /\ call'[r].answers = call[r].answers /\ call'[r].gone = call[r].gone
          /\ call'[r].version = call[r].version /\ call'[r].id = call[r].id
          /\ call'[r].teacher = call[r].teacher
        BY <1>4, <2>1 DEF Call
    <3>3. CallOK(r)'
        BY <1>1, <1>4, <2>1, <3>2 DEF CallOK, Saving
    <3>4. LockOK(r)'
        BY <3>2 DEF LockOK, Writing
    <3> QED BY <3>1, <3>3, <3>4
  <2>2. CASE /\ call[s].pc = "deleteRow" /\ call[r].pc = "deleteAnswers"
             /\ call'[r] = [call[r] EXCEPT !.pc = "insertAnswers", !.gone = Cleared(r)]
    <3>1. /\ call'[r].pc = "insertAnswers" /\ call'[r].row = call[r].row
          /\ call'[r].answers = call[r].answers /\ call'[r].gone = Cleared(r)
          /\ call'[r].version = call[r].version /\ call'[r].id = call[r].id
          /\ call'[r].teacher = call[r].teacher /\ call'[r].content = call[r].content
          /\ call'[r].rowLocked = call[r].rowLocked
        BY <1>4, <2>2 DEF Call
    <3>2. CallOK(r)'
        BY <1>1, <1>4, <2>2, <3>1 DEF CallOK, Saving
    <3>3. call[r].rowLocked /\ (IF call[r].row = None THEN session = None ELSE StillThere(r))
        BY <1>4, <2>2 DEF LockOK, Writing
    <3>4. LockOK(r)'
        BY <1>1, <3>1, <3>3 DEF LockOK, Writing, StillThere, Cleared
    <3> QED BY <3>1, <3>2, <3>4
  <2> QED BY <1>2, <2>1, <2>2
<1>8. TypeInv'
    BY <1>1, <1>5, <1>6, <1>7 DEF TypeInv
<1>9. \A p, q \in Slots : call'[p].rowLocked /\ call'[q].rowLocked => p = q
    BY <1>2, <1>3, <1>7 DEF LockInv
<1>10. LockInv'
    BY <1>1, <1>5, <1>6, <1>7, <1>9 DEF LockInv
<1> QED BY <1>8, <1>10

LEMMA TypeInit == Init => TypeInv /\ LockInv
<1> SUFFICES ASSUME Init PROVE TypeInv /\ LockInv
    OBVIOUS
<1>1. \A s \in Slots : CallOK(s) /\ LockOK(s) /\ ~call[s].rowLocked
    BY FreeCall, ConstantFacts DEF Init, CallOK, LockOK, Saving, Writing
<1>2. phone \in Phone /\ attempts \in 0..MaxAttempts /\ losses \in 0..MaxLosses
    BY ConstantFacts DEF Init, Phone
<1>3. call \in [Slots -> Call]
    BY FreeCall DEF Init
<1> QED BY <1>1, <1>2, <1>3 DEF Init, TypeInv, LockInv

\* A step of the server for the call in s.
HandlerStep(s) == LocalStep(s) \/ CommitPut(s) \/ CommitDelete(s) \/ DeadlockVictim(s)

LEMMA NextCases ==
    ASSUME [Next]_vars
    PROVE  \/ PhoneStep \/ RetireTemplate \/ UNCHANGED vars
           \/ \E s \in Slots : Send(s) \/ Receive(s) \/ Dropped(s) \/ HandlerStep(s)
BY DEF Next, PhoneStep, Handle, HandlerStep, LocalStep

LEMMA StillFrame ==
    ASSUME TypeInv, LockInv, UNCHANGED <<session, answers, call, attempts>>,
           templateLive' \in BOOLEAN, orderly' \in BOOLEAN, phone' \in Phone,
           losses' \in 0..MaxLosses
    PROVE  TypeInv' /\ LockInv'
<1>1. \A s \in Slots : CallOK(s)' /\ LockOK(s)'
    BY DEF TypeInv, LockInv, CallOK, LockOK, StillThere, Cleared
<1> QED BY <1>1 DEF TypeInv, LockInv

LEMMA TypeStep == TypeInv /\ LockInv /\ [Next]_vars => TypeInv' /\ LockInv'
<1> SUFFICES ASSUME TypeInv, LockInv, [Next]_vars PROVE TypeInv' /\ LockInv'
    OBVIOUS
<1>1. /\ templateLive \in BOOLEAN /\ orderly \in BOOLEAN /\ phone \in Phone
      /\ losses \in 0..MaxLosses /\ attempts \in 0..MaxAttempts
    BY DEF TypeInv
<1>2. CASE PhoneStep
    BY <1>1, <1>2, PhoneStepOK, StillFrame
<1>3. CASE RetireTemplate \/ UNCHANGED vars
    BY <1>1, <1>3, StillFrame DEF RetireTemplate, vars
<1>4. ASSUME NEW s \in Slots, Send(s) PROVE TypeInv' /\ LockInv'
  <2>1. /\ OnlyCall(s) /\ CallOK(s)' /\ ~call'[s].rowLocked /\ call'[s].pc = "queued"
        /\ phone' \in Phone /\ attempts' = attempts + 1 /\ attempts' \in 0..MaxAttempts
        /\ UNCHANGED <<templateLive, session, answers, losses, orderly>>
    <3> DEFINE new == [Free EXCEPT !.pc = "queued", !.id = attempts + 1,
                          !.teacher = phone.teacher, !.version = phone.version,
                          !.content = phone.content]
    <3>1. new.pc = "queued" /\ ~new.rowLocked
        BY DEF Free
    <3>2. call'[s] = new
        BY <1>4, SendCall
    <3> HIDE DEF new
    <3> QED BY <1>4, <3>1, <3>2, SendCall
  <2>2. LockOK(s)'
      BY <2>1 DEF LockOK, Writing
  <2>3. attempts <= attempts' /\ attempts' <= MaxAttempts /\ attempts' \in Nat
      BY <1>1, <2>1, ConstantFacts
  <2> QED BY <1>1, <2>1, <2>2, <2>3, QuietStep
<1>5. ASSUME NEW s \in Slots, Receive(s) \/ Dropped(s) PROVE TypeInv' /\ LockInv'
  <2>1. /\ OnlyCall(s) /\ CallOK(s)' /\ call'[s] = Free
        /\ UNCHANGED <<templateLive, session, answers, attempts, losses, orderly>>
      BY <1>5, FreedCall
  <2>2. LockOK(s)' /\ ~call'[s].rowLocked
      BY <2>1, FreeCall DEF LockOK, Writing
  <2>3. phone' \in Phone
      BY <1>1, <1>5, ReceivedPhone DEF Dropped
  <2>4. attempts <= attempts' /\ attempts' <= MaxAttempts /\ attempts' \in Nat
      BY <1>1, <2>1, ConstantFacts
  <2> QED BY <1>1, <2>1, <2>2, <2>3, <2>4, QuietStep
<1>6. ASSUME NEW s \in Slots, HandlerStep(s) PROVE TypeInv' /\ LockInv'
    BY <1>6, LocalStepOK, CommitPutOK, CommitDeleteOK, DeadlockOK DEF HandlerStep
<1> QED BY <1>2, <1>3, <1>4, <1>5, <1>6, NextCases

LEMMA TypeInvariant == Spec => [](TypeInv /\ LockInv)
BY TypeInit, TypeStep, PTL DEF Spec

\* Every variable has its type and only a handler under way holds locks, for any
\* number of calls, losses and deadlocks.
THEOREM SessionsTypeCorrect == Spec => []TypeOK
<1>1. TypeInv => TypeOK
  <2> SUFFICES ASSUME TypeInv PROVE TypeOK
      OBVIOUS
  <2>1. \A s \in Slots : call[s].pc \in {"free", "queued", "answered"}
                           => ~call[s].rowLocked /\ call[s].gone = {}
      BY DEF TypeInv, CallOK
  <2> QED BY <2>1 DEF TypeInv, TypeOK
<1> QED BY <1>1, TypeInvariant, PTL

-----------------------------------------------------------------------------
(* Owners and corrections *)

\* Only commits write.
LEMMA Writes ==
    ASSUME [Next]_vars
    PROVE  \/ session' = session /\ answers' = answers
           \/ \E s \in Slots : CommitPut(s) \/ CommitDelete(s)
<1>1. PhoneStep => session' = session /\ answers' = answers
    BY DEF PhoneStep, Edit, Discard, GiveUp, SignIn
<1>2. RetireTemplate \/ UNCHANGED vars => session' = session /\ answers' = answers
    BY DEF RetireTemplate, vars
<1>3. ASSUME NEW s \in Slots, Send(s) \/ Receive(s) \/ Dropped(s) \/ DeadlockVictim(s)
      PROVE  session' = session /\ answers' = answers
    BY <1>3 DEF Send, Receive, Dropped, DeadlockVictim
<1>4. ASSUME NEW s \in Slots, LocalStep(s) PROVE session' = session /\ answers' = answers
    BY <1>4, LocalUnchanged
<1> QED BY <1>1, <1>2, <1>3, <1>4, NextCases DEF HandlerStep

\* A call has the answers it had, none, or those of the moment it reads them.
LEMMA Snapshots ==
    ASSUME TypeInv, LockInv, [Next]_vars, NEW s \in Slots
    PROVE  \/ call'[s].answers = call[s].answers
           \/ call'[s].answers = {}
           \/ call'[s].answers = answers /\ SelectAnswers(s) /\ answers' = answers
<1> DEFINE Goal == \/ call'[s].answers = call[s].answers
                   \/ call'[s].answers = {}
                   \/ call'[s].answers = answers /\ SelectAnswers(s) /\ answers' = answers
<1>0. call[s] \in Call
    BY DEF TypeInv
<1>1. CASE PhoneStep
    BY <1>1, PhoneStepOK
<1>2. CASE RetireTemplate \/ UNCHANGED vars
    BY <1>2 DEF RetireTemplate, vars
<1>3. ASSUME NEW r \in Slots, Send(r) PROVE Goal
  <2>1. CASE r = s
    <3>1. call[s].answers = {}
        BY <1>3, <2>1, SendCall, FreeCall
    <3>2. CallOK(s)' /\ call'[s].row = None
      <4> DEFINE new == [Free EXCEPT !.pc = "queued", !.id = attempts + 1,
                            !.teacher = phone.teacher, !.version = phone.version,
                            !.content = phone.content]
      <4>1. new.row = None
          BY DEF Free
      <4>2. call'[s] = new /\ CallOK(s)'
          BY <1>3, <2>1, SendCall
      <4> HIDE DEF new
      <4> QED BY <4>1, <4>2
    <3> QED BY <3>2 DEF CallOK
  <2>2. CASE r # s
      BY <1>3, <2>2, SendCall DEF OnlyCall
  <2> QED BY <2>1, <2>2
<1>4. ASSUME NEW r \in Slots, Receive(r) \/ Dropped(r) PROVE Goal
    BY <1>4, FreedCall, FreeCall DEF OnlyCall
<1>5. ASSUME NEW r \in Slots, NEW reply \in Replies, call[r].pc # "free", Answered(r, reply)
      PROVE  Goal
    BY <1>5, EndedCall, Ending DEF OnlyCall
<1>6. ASSUME NEW r \in Slots, LocalStep(r) PROVE Goal
  <2>1. CASE PutRefused(r) \/ FlushFails(r) \/ PutConflicts(r) \/ DeleteNotFound(r) \/ Crash(r)
      BY <1>5, <2>1, LocalEnds DEF Replies
  <2>2. CASE SelectSession(r)
      BY <1>0, <2>2, LocalSelect DEF OnlyCall, Call
  <2>3. CASE SelectAnswers(r)
    <3>1. answers' = answers
        BY <2>3 DEF SelectAnswers
    <3> QED BY <1>0, <2>3, <3>1, LocalSelectAnswers DEF OnlyCall, Call
  <2>4. CASE Flush(r)
      BY <1>0, <2>4, LocalFlush DEF OnlyCall, Call
  <2>5. CASE DeleteAnswers(r)
      BY <1>0, <2>5, LocalDeleteAnswers DEF OnlyCall, Call
  <2>6. CASE DeleteSelects(r)
      BY <1>0, <2>6, LocalDelete DEF OnlyCall, Call
  <2> QED BY <1>6, <2>1, <2>2, <2>3, <2>4, <2>5, <2>6 DEF LocalStep
<1>7. ASSUME NEW r \in Slots, CommitPut(r) \/ CommitDelete(r) PROVE Goal
  <2>1. call[r].pc # "free" /\ \E reply \in Replies : Answered(r, reply)
      BY <1>7 DEF CommitPut, CommitDelete, Replies
  <2> QED BY <1>5, <2>1
<1>8. ASSUME NEW r \in Slots, DeadlockVictim(r) PROVE Goal
  <2>1. call'[r] = Ended(r, "failed") /\ call[r].pc # "free"
      BY <1>8, DeadlockSteps
  <2>2. PICK q \in Slots \ {r} :
          /\ \A p \in Slots \ {q, r} : call'[p] = call[p]
          /\ \/ call'[q] = [call[q] EXCEPT !.rowLocked = TRUE]
             \/ call'[q] = [call[q] EXCEPT !.pc = "insertAnswers", !.gone = Cleared(q)]
      BY <1>8, DeadlockSteps
  <2>3. CASE s = r
      BY <2>1, <2>3, Ending DEF Replies
  <2>4. CASE s = q
      BY <1>0, <2>2, <2>4 DEF Call
  <2>5. CASE s \notin {q, r}
      BY <2>2, <2>5
  <2> QED BY <2>3, <2>4, <2>5
<1> HIDE DEF Goal
<1>9. Goal
    BY <1>1, <1>2, <1>3, <1>4, <1>6, <1>7, <1>8, NextCases DEF HandlerStep, Goal
<1> QED BY <1>9 DEF Goal

\* The row an upload replaces keeps its owner.
THEOREM OwnersStay == Spec => OwnerNeverChanges
<1> DEFINE Kept == session # None /\ session' # None /\ session'.id = session.id
                     => session'.teacher = session.teacher
<1>1. TypeInv /\ LockInv /\ [Next]_vars => [Kept]_vars
  <2> SUFFICES ASSUME TypeInv, LockInv, [Next]_vars PROVE Kept
      OBVIOUS
  <2>1. ASSUME NEW s \in Slots, CommitPut(s) PROVE Kept
    <3>1. call[s].pc = "insertAnswers" /\ session' = StoredRow(s)
        BY <2>1 DEF CommitPut
    <3>2. session # None => call[s].row # None
        BY <3>1, WriterAlone DEF Writing
    <3> QED BY <3>1, <3>2, StoredRowType
  <2>2. ASSUME NEW s \in Slots, CommitDelete(s) PROVE Kept
      BY <2>2 DEF CommitDelete
  <2> QED BY <2>1, <2>2, Writes
<1> QED BY <1>1, TypeInvariant, PTL DEF Spec, OwnerNeverChanges

\* One answer to a question, and no time for a mark that is no correction.
Clean(S) ==
    /\ \A a, b \in S : a.q = b.q => a = b
    /\ \A a \in S : a.mark \in {None, Empty} => a.correctedAt = None

CleanInv == Clean(answers) /\ \A s \in Slots : Clean(call[s].answers)

LEMMA UploadedIs ==
    ASSUME NEW s \in Slots, NEW b \in Uploaded(s)
    PROVE  /\ b.q \in DOMAIN call[s].content /\ b.mark = call[s].content[b.q]
           /\ b.correctedAt = CorrectedAt(s, b.q) /\ b.by = call[s].id
BY DEF Uploaded

LEMMA UploadedClean ==
    ASSUME CleanInv, NEW s \in Slots
    PROVE  Clean(Uploaded(s))
<1>1. \A a, b \in Uploaded(s) : a.q = b.q => a = b
    BY DEF Uploaded
<1>2. ASSUME NEW a \in Uploaded(s), a.mark \in {None, Empty} PROVE a.correctedAt = None
    BY <1>2, UploadedIs DEF CorrectedAt
<1> QED BY <1>1, <1>2 DEF Clean

\* What an upload leaves: its own answers and those to questions it has not.
LEMMA PutLeaves ==
    ASSUME NEW s \in Slots, CommitPut(s)
    PROVE  /\ answers' = (answers \ call[s].gone) \cup Uploaded(s)
           /\ \A a \in answers \ call[s].gone : a.q \notin DOMAIN call[s].content
           /\ call[s].pc = "insertAnswers" /\ session' = StoredRow(s)
BY DEF CommitPut, AnswerConflict

LEMMA CleanStep == TypeInv /\ LockInv /\ CleanInv /\ [Next]_vars => CleanInv'
<1> SUFFICES ASSUME TypeInv, LockInv, CleanInv, [Next]_vars PROVE CleanInv'
    OBVIOUS
<1>1. Clean({})
    BY DEF Clean
<1>2. ASSUME NEW s \in Slots, CommitPut(s) PROVE Clean(answers')
  <2>1. Clean(Uploaded(s)) /\ Clean(answers)
      BY UploadedClean DEF CleanInv
  <2>2. \A b \in Uploaded(s) : b.q \in DOMAIN call[s].content
      BY UploadedIs
  <2>3. /\ answers' = (answers \ call[s].gone) \cup Uploaded(s)
        /\ \A a \in answers \ call[s].gone : a.q \notin DOMAIN call[s].content
      BY <1>2, PutLeaves
  <2> QED BY <2>1, <2>2, <2>3 DEF Clean
<1>3. ASSUME NEW s \in Slots, CommitDelete(s) PROVE Clean(answers')
    BY <1>1, <1>3 DEF CommitDelete, CleanInv
<1>4. Clean(answers')
    BY <1>2, <1>3, Writes DEF CleanInv
<1>5. ASSUME NEW s \in Slots PROVE Clean(call'[s].answers)
    BY <1>1, Snapshots DEF CleanInv
<1>6. Clean(answers)' /\ \A s \in Slots : Clean(call[s].answers)'
    BY <1>4, <1>5 DEF Clean
<1> QED BY <1>6 DEF CleanInv

\* "Keep the first correction's timestamp": an upload finds every answer it
\* replaces among those it loaded, and takes the time over while the mark is the
\* same.
THEOREM CorrectionTimesKept == Spec => CorrectionTimeKept
<1> DEFINE Kept ==
      \A a \in answers, b \in answers' :
          session # None /\ session' # None /\ session'.id = session.id
          /\ a.q = b.q /\ a.mark = b.mark
              => a.correctedAt = b.correctedAt
<1>1. Init => CleanInv
    BY FreeCall DEF Init, CleanInv, Clean
<1>2. TypeInv /\ LockInv /\ CleanInv /\ [Next]_vars => [Kept]_vars
  <2> SUFFICES ASSUME TypeInv, LockInv, CleanInv, [Next]_vars,
                      NEW a \in answers, NEW b \in answers', session' # None,
                      a.q = b.q, a.mark = b.mark
               PROVE  a.correctedAt = b.correctedAt
      OBVIOUS
  <2>1. b \in answers => a = b
      BY DEF CleanInv, Clean
  <2>2. ASSUME NEW s \in Slots, CommitPut(s), b \in Uploaded(s)
        PROVE  a.correctedAt = b.correctedAt
    <3> DEFINE prior == {x \in call[s].answers : x.q = b.q /\ x.mark = call[s].content[b.q]}
    <3>1. /\ b.q \in DOMAIN call[s].content /\ b.mark = call[s].content[b.q]
          /\ b.correctedAt = CorrectedAt(s, b.q)
        BY <2>2, UploadedIs
    <3>2. a \in call[s].gone /\ call[s].gone = Cleared(s)
        BY <2>2, <3>1, PutLeaves DEF LockInv, LockOK
    <3>3. a \in call[s].answers
        BY <3>2 DEF Cleared
    <3>4. CASE call[s].content[b.q] \in {None, Empty}
        BY <3>1, <3>4 DEF CorrectedAt, CleanInv, Clean
    <3>5. CASE call[s].content[b.q] \notin {None, Empty}
      <4>1. a \in prior
          BY <3>1, <3>3
      <4>2. (CHOOSE x \in prior : TRUE) \in prior
          BY <4>1
      <4>3. (CHOOSE x \in prior : TRUE) = a
          BY <4>1, <4>2 DEF CleanInv, Clean
      <4>4. CorrectedAt(s, b.q) = (CHOOSE x \in prior : TRUE).correctedAt
          BY <3>5, <4>1 DEF CorrectedAt
      <4> QED BY <3>1, <4>3, <4>4
    <3> QED BY <3>4, <3>5
  <2>3. ASSUME NEW s \in Slots, CommitPut(s) PROVE b \in answers \/ b \in Uploaded(s)
      BY <2>3, PutLeaves
  <2>4. ASSUME NEW s \in Slots, CommitDelete(s) PROVE b \in answers
      BY <2>4 DEF CommitDelete
  <2> QED BY <2>1, <2>2, <2>3, <2>4, Writes
<1>3. Spec => []CleanInv
    BY <1>1, CleanStep, TypeInvariant, PTL DEF Spec
<1> QED BY <1>2, <1>3, TypeInvariant, PTL DEF Spec, CorrectionTimeKept

-----------------------------------------------------------------------------
(* One upload's answers *)

\* What uq_answer_question_no needs in order to tell uploads apart.
PapersOverlap == \A p, r \in Papers : DOMAIN p \cap DOMAIN r # {}

Active(s) == call[s].pc \notin {"free", "answered"}

Copies == {answers} \cup {call[s].answers : s \in Slots}

\* All the answers of one upload, or none.
Whole(S) ==
    /\ \A a, b \in S : a.by = b.by
    /\ S # {} => \E p \in Papers : \A q \in DOMAIN p : \E a \in S : a.q = q

UploadInv ==
    /\ \A r, s \in Slots : Active(r) /\ Active(s) /\ call[r].id = call[s].id => r = s
    /\ \A S \in Copies : Whole(S)
    /\ \A S \in Copies : \A a \in S :
          a.by <= attempts /\ \A s \in Slots : Active(s) => a.by # call[s].id
    /\ \A S, T \in Copies : \A a \in S, b \in T : a.by = b.by => S = T

\* Handlers come from calls, and a call has a number of its own.
LEMMA Numbers ==
    ASSUME TypeInv, LockInv, [Next]_vars
    PROVE  /\ attempts' \in Nat /\ attempts <= attempts'
           /\ \A s \in Slots : Active(s)' =>
                \/ Active(s) /\ call'[s].id = call[s].id
                \/ /\ call'[s].id = attempts + 1 /\ attempts' = attempts + 1
                   /\ \A r \in Slots \ {s} : call'[r] = call[r]
<1> DEFINE Goal == \A s \in Slots : Active(s)' =>
                \/ Active(s) /\ call'[s].id = call[s].id
                \/ /\ call'[s].id = attempts + 1 /\ attempts' = attempts + 1
                   /\ \A r \in Slots \ {s} : call'[r] = call[r]
<1>0. attempts \in Nat /\ \A s \in Slots : call[s] \in Call
    BY DEF TypeInv
<1>1. attempts' = attempts \/ \E s \in Slots : Send(s) /\ attempts' = attempts + 1
  <2>1. PhoneStep \/ RetireTemplate \/ UNCHANGED vars => attempts' = attempts
      BY DEF PhoneStep, Edit, Discard, GiveUp, SignIn, RetireTemplate, vars
  <2>2. ASSUME NEW s \in Slots, Receive(s) \/ Dropped(s) \/ CommitPut(s) \/ CommitDelete(s)
               \/ DeadlockVictim(s) \/ LocalStep(s)
        PROVE  attempts' = attempts
      BY <2>2, LocalUnchanged DEF Receive, Dropped, CommitPut, CommitDelete, DeadlockVictim
  <2>3. ASSUME NEW s \in Slots, Send(s) PROVE attempts' = attempts + 1
      BY <2>3, SendCall
  <2> QED BY <2>1, <2>2, <2>3, NextCases DEF HandlerStep
<1>2. ASSUME PhoneStep \/ RetireTemplate \/ UNCHANGED vars PROVE Goal
  <2>1. call' = call
      BY <1>2, PhoneStepOK DEF RetireTemplate, vars
  <2> QED BY <2>1 DEF Active
<1>3. ASSUME NEW r \in Slots, Send(r) PROVE Goal
  <2>1. OnlyCall(r) /\ attempts' = attempts + 1
      BY <1>3, SendCall
  <2>2. call'[r].id = attempts + 1
    <3> DEFINE new == [Free EXCEPT !.pc = "queued", !.id = attempts + 1,
                          !.teacher = phone.teacher, !.version = phone.version,
                          !.content = phone.content]
    <3>1. new.id = attempts + 1
        BY DEF Free
    <3>2. call'[r] = new
        BY <1>3, SendCall
    <3> HIDE DEF new
    <3> QED BY <3>1, <3>2
  <2> QED BY <2>1, <2>2 DEF OnlyCall, Active
<1>4. ASSUME NEW r \in Slots, Receive(r) \/ Dropped(r) PROVE Goal
    BY <1>4, FreedCall, FreeCall DEF OnlyCall, Active
<1>5. ASSUME NEW r \in Slots, NEW reply \in Replies, call[r].pc # "free", Answered(r, reply)
      PROVE  Goal
    BY <1>5, EndedCall, Ending DEF OnlyCall, Active
<1>6. ASSUME NEW r \in Slots, LocalStep(r) PROVE Goal
  <2>1. CASE PutRefused(r) \/ FlushFails(r) \/ PutConflicts(r) \/ DeleteNotFound(r) \/ Crash(r)
      BY <1>5, <2>1, LocalEnds DEF Replies
  <2>2. ASSUME Active(r), call'[r].id = call[r].id, OnlyCall(r) PROVE Goal
      BY <2>2 DEF OnlyCall, Active
  <2>3. SelectSession(r) => Active(r) /\ call'[r].id = call[r].id /\ OnlyCall(r)
      BY <1>0, LocalSelect DEF SelectSession, Active, Call
  <2>4. SelectAnswers(r) => Active(r) /\ call'[r].id = call[r].id /\ OnlyCall(r)
      BY <1>0, LocalSelectAnswers DEF SelectAnswers, Active, Call
  <2>5. Flush(r) => Active(r) /\ call'[r].id = call[r].id /\ OnlyCall(r)
      BY <1>0, LocalFlush DEF Flush, Active, Call
  <2>6. DeleteAnswers(r) => Active(r) /\ call'[r].id = call[r].id /\ OnlyCall(r)
      BY <1>0, LocalDeleteAnswers DEF DeleteAnswers, Active, Call
  <2>7. DeleteSelects(r) => Active(r) /\ call'[r].id = call[r].id /\ OnlyCall(r)
      BY <1>0, LocalDelete, ZenonT(30) DEF DeleteSelects, Active, Call
  <2> HIDE DEF Goal
  <2>8. CASE Active(r) /\ call'[r].id = call[r].id /\ OnlyCall(r)
      BY <2>2, <2>8
  <2> QED BY <1>6, <2>1, <2>3, <2>4, <2>5, <2>6, <2>7, <2>8 DEF LocalStep
<1>7. ASSUME NEW r \in Slots, CommitPut(r) \/ CommitDelete(r) PROVE Goal
  <2>1. call[r].pc # "free" /\ \E reply \in Replies : Answered(r, reply)
      BY <1>7 DEF CommitPut, CommitDelete, Replies
  <2> QED BY <1>5, <2>1
<1>8. ASSUME NEW r \in Slots, DeadlockVictim(r) PROVE Goal
  <2>0. call'[r] = Ended(r, "failed") /\ call[r].pc # "free"
      BY <1>8, DeadlockSteps
  <2>1. call'[r].pc = "answered"
      BY <2>0, Ending DEF Replies
  <2>2. PICK q \in Slots \ {r} :
          /\ \A p \in Slots \ {q, r} : call'[p] = call[p]
          /\ call[q].pc \in {"deleteRow", "deleteAnswers"}
          /\ \/ call'[q] = [call[q] EXCEPT !.rowLocked = TRUE]
             \/ call'[q] = [call[q] EXCEPT !.pc = "insertAnswers", !.gone = Cleared(q)]
      BY <1>8, DeadlockSteps
  <2>3. call'[q].id = call[q].id
      BY <1>0, <2>2 DEF Call
  <2>4. Active(q)
      BY <2>2 DEF Active
  <2> QED BY <2>1, <2>2, <2>3, <2>4 DEF Active
<1> HIDE DEF Goal
<1>9. Goal
    BY <1>2, <1>3, <1>4, <1>6, <1>7, <1>8, NextCases DEF HandlerStep
<1> QED BY <1>0, <1>1, <1>9 DEF Goal

\* An upload that commits has replaced all there was.
LEMMA PutReplaces ==
    ASSUME PapersOverlap, TypeInv, LockInv, UploadInv, NEW s \in Slots, CommitPut(s)
    PROVE  answers' = Uploaded(s)
<1>1. /\ answers' = (answers \ call[s].gone) \cup Uploaded(s)
      /\ \A a \in answers \ call[s].gone : a.q \notin DOMAIN call[s].content
      /\ call[s].pc = "insertAnswers"
    BY PutLeaves
<1>2. call[s].content \in Papers /\ call[s].gone = call[s].answers \cap answers
    BY <1>1 DEF TypeInv, CallOK, Saving, LockInv, LockOK, Cleared
<1>3. CASE answers = {}
    BY <1>1, <1>3
<1>4. CASE answers # {}
  <2>1. answers \in Copies /\ call[s].answers \in Copies
      BY DEF Copies
  <2>2. PICK p \in Papers : \A q \in DOMAIN p : \E a \in answers : a.q = q
      BY <1>4, <2>1 DEF UploadInv, Whole
  <2>3. PICK q \in DOMAIN p : q \in DOMAIN call[s].content
      BY <1>2, <2>2 DEF PapersOverlap
  <2>4. PICK a \in answers : a.q = q
      BY <2>2, <2>3
  <2>5. a \in call[s].answers
      BY <1>1, <1>2, <2>3, <2>4
  <2>6. call[s].answers = answers
      BY <2>1, <2>4, <2>5 DEF UploadInv
  <2> QED BY <1>1, <1>2, <2>6
<1> QED BY <1>3, <1>4

LEMMA CopiesStep ==
    ASSUME PapersOverlap, TypeInv, LockInv, UploadInv, [Next]_vars
    PROVE  /\ \A S \in Copies' : S \in Copies \cup {{}, answers'}
           /\ \/ answers' \in Copies \cup {{}}
              \/ \E s \in Slots : CommitPut(s) /\ answers' = Uploaded(s)
<1>1. ASSUME NEW s \in Slots PROVE call'[s].answers \in Copies \cup {{}}
    BY Snapshots DEF Copies
<1>2. ASSUME NEW S \in Copies' PROVE S \in Copies \cup {{}, answers'}
    BY <1>1, <1>2 DEF Copies
<1>3. answers \in Copies
    BY DEF Copies
<1>4. ASSUME NEW s \in Slots, CommitPut(s) PROVE answers' = Uploaded(s)
    BY <1>4, PutReplaces
<1>5. ASSUME NEW s \in Slots, CommitDelete(s) PROVE answers' \in Copies \cup {{}}
    BY <1>3, <1>5 DEF CommitDelete
<1> QED BY <1>2, <1>3, <1>4, <1>5, Writes

LEMMA UploadStep ==
    PapersOverlap /\ TypeInv /\ LockInv /\ UploadInv /\ [Next]_vars => UploadInv'
<1> SUFFICES ASSUME PapersOverlap, TypeInv, LockInv, UploadInv, [Next]_vars
             PROVE  UploadInv'
    OBVIOUS
<1>1. /\ attempts \in Nat /\ attempts' \in Nat /\ attempts <= attempts'
      /\ \A s \in Slots : call[s].id \in Nat /\ call[s].id <= attempts
    BY Numbers DEF TypeInv, CallOK, Call
<1>2. \A s \in Slots : Active(s)' =>
         \/ Active(s) /\ call'[s].id = call[s].id
         \/ /\ call'[s].id = attempts + 1 /\ attempts' = attempts + 1
            /\ \A r \in Slots \ {s} : call'[r] = call[r]
    BY Numbers
<1>3. \A S \in Copies : \A a \in S : a.by \in Nat /\ a.by <= attempts
  <2>1. \A S \in Copies : S \in SUBSET AnswerRow
      BY DEF Copies, TypeInv, Call
  <2>2. \A S \in Copies : \A a \in S : a.by <= attempts
      BY DEF UploadInv
  <2> QED BY <2>1, <2>2 DEF AnswerRow
<1>4. \A S \in Copies' : S \in Copies \cup {{}, answers'}
    BY CopiesStep
\* What an upload that commits leaves.
<1>5. ASSUME NEW s \in Slots, CommitPut(s), answers' = Uploaded(s)
      PROVE  /\ Active(s) /\ ~Active(s)' /\ Whole(answers')
             /\ \A a \in answers' : a.by = call[s].id
  <2>1. call[s].pc = "insertAnswers" /\ \E reply \in Replies : Answered(s, reply)
      BY <1>5 DEF CommitPut, Replies
  <2>2. call'[s].pc = "answered"
      BY <2>1, EndedCall, Ending
  <2>3. call[s].content \in Papers
      BY <2>1 DEF TypeInv, CallOK, Saving
  <2>4. \A a \in Uploaded(s) : a.by = call[s].id
      BY UploadedIs
  <2>5. ASSUME NEW q \in DOMAIN call[s].content PROVE \E a \in Uploaded(s) : a.q = q
    <3> DEFINE row == [q |-> q, mark |-> call[s].content[q],
                       correctedAt |-> CorrectedAt(s, q), by |-> call[s].id]
    <3>1. row \in Uploaded(s) /\ row.q = q
        BY DEF Uploaded
    <3> QED BY <3>1
  <2>6. Whole(Uploaded(s))
      BY <2>3, <2>4, <2>5 DEF Whole
  <2> QED BY <1>5, <2>1, <2>2, <2>4, <2>6 DEF Active
<1>6. /\ Whole(answers') /\ \A a \in answers' : a.by \in Nat /\ a.by <= attempts
      /\ \A a \in answers', s \in Slots : Active(s)' => a.by # call'[s].id
      /\ answers' \in Copies \/ \A S \in Copies : \A a \in answers', b \in S : a.by # b.by
  <2>1. CASE answers' \in Copies
    <3>1. \A a \in answers', s \in Slots : Active(s) => a.by # call[s].id
        BY <2>1 DEF UploadInv
    <3>2. Whole(answers')
        BY <2>1 DEF UploadInv
    <3> QED BY <1>1, <1>2, <1>3, <2>1, <3>1, <3>2
  <2>2. CASE answers' = {}
      BY <2>2 DEF Whole
  <2>3. ASSUME NEW s \in Slots, CommitPut(s), answers' = Uploaded(s)
        PROVE  /\ Whole(answers') /\ \A a \in answers' : a.by \in Nat /\ a.by <= attempts
               /\ \A a \in answers', r \in Slots : Active(r)' => a.by # call'[r].id
               /\ \A S \in Copies : \A a \in answers', b \in S : a.by # b.by
    <3>1. /\ Active(s) /\ ~Active(s)' /\ Whole(answers')
          /\ \A a \in answers' : a.by = call[s].id
        BY <1>5, <2>3
    <3>2. \A r \in Slots : Active(r) /\ call[r].id = call[s].id => r = s
        BY <3>1 DEF UploadInv
    <3>3. ASSUME NEW r \in Slots, Active(r)' PROVE call[s].id # call'[r].id
      <4>1. CASE Active(r) /\ call'[r].id = call[r].id
          BY <3>1, <3>2, <3>3, <4>1
      <4>2. CASE call'[r].id = attempts + 1
          BY <1>1, <4>2
      <4> QED BY <1>2, <3>3, <4>1, <4>2
    <3>4. \A S \in Copies : \A b \in S : b.by # call[s].id
        BY <3>1 DEF UploadInv
    <3> QED BY <1>1, <3>1, <3>3, <3>4
  <2> QED BY <2>1, <2>2, <2>3, CopiesStep
<1>7. \A r, s \in Slots : Active(r)' /\ Active(s)' /\ call'[r].id = call'[s].id => r = s
  <2> SUFFICES ASSUME NEW r \in Slots, NEW s \in Slots, Active(r)', Active(s)',
                      call'[r].id = call'[s].id, r # s
               PROVE  FALSE
      OBVIOUS
  <2>1. CASE Active(r) /\ call'[r].id = call[r].id /\ Active(s) /\ call'[s].id = call[s].id
      BY <2>1 DEF UploadInv
  <2>0. call[r].id # attempts + 1 /\ call[s].id # attempts + 1
      BY <1>1
  <2>2. CASE call'[s].id = attempts + 1 /\ call'[r] = call[r]
      BY <2>0, <2>2
  <2>3. CASE call'[r].id = attempts + 1 /\ call'[s] = call[s]
      BY <2>0, <2>3
  <2> QED BY <1>2, <2>1, <2>2, <2>3
<1>8. \A S \in Copies' : Whole(S)'
  <2>1. \A S \in Copies' : Whole(S)
      BY <1>4, <1>6 DEF UploadInv, Whole
  <2> QED BY <2>1 DEF Whole
<1>9. ASSUME NEW S \in Copies', NEW a \in S
      PROVE  a.by <= attempts' /\ \A s \in Slots : Active(s)' => a.by # call'[s].id
  <2>1. CASE S \in Copies
    <3>1. a.by \in Nat /\ a.by <= attempts /\ \A s \in Slots : Active(s) => a.by # call[s].id
        BY <1>3, <2>1 DEF UploadInv
    <3> QED BY <1>1, <1>2, <3>1
  <2>2. CASE S = answers'
      BY <1>1, <1>6, <2>2
  <2> QED BY <1>4, <1>9, <2>1, <2>2
<1>10. ASSUME NEW S \in Copies', NEW T \in Copies', NEW a \in S, NEW b \in T, a.by = b.by
       PROVE  S = T
  <2>1. S # {} /\ T # {}
      BY <1>10
  <2>2. CASE S \in Copies /\ T \in Copies
      BY <1>10, <2>2 DEF UploadInv
  <2>3. CASE S = answers' /\ T = answers'
      BY <2>3
  <2>4. CASE answers' \notin Copies /\ S = answers' /\ T \in Copies
      BY <1>6, <1>10, <2>4
  <2>5. CASE answers' \notin Copies /\ T = answers' /\ S \in Copies
      BY <1>6, <1>10, <2>5
  <2> QED BY <1>4, <2>1, <2>2, <2>3, <2>4, <2>5
<1> QED BY <1>7, <1>8, <1>9, <1>10 DEF UploadInv

\* However calls overlap, the stored answers all come from one upload, given that
\* any two uploads of the paper have a question in common.
THEOREM AnswersComeFromOneUpload ==
    ASSUME PapersOverlap
    PROVE  Spec => []AnswersOfOneUpload
<1>1. Init => UploadInv
  <2> SUFFICES ASSUME Init PROVE UploadInv
      OBVIOUS
  <2>1. Copies \subseteq {{}} /\ \A s \in Slots : ~Active(s)
      BY FreeCall DEF Init, Copies, Active
  <2> QED BY <2>1 DEF UploadInv, Whole
<1>2. TypeInv /\ LockInv /\ UploadInv /\ [Next]_vars => UploadInv'
    BY UploadStep
<1>3. UploadInv => AnswersOfOneUpload
    BY DEF UploadInv, Copies, Whole, AnswersOfOneUpload
<1>4. Spec => []UploadInv
    BY <1>1, <1>2, TypeInvariant, PTL DEF Spec
<1> QED BY <1>3, <1>4, PTL

-----------------------------------------------------------------------------
(* Retries *)

\* What a call with this version and content, by teacher, leaves stored.
Matches(version, content, teacher) ==
    IF content = None
    THEN session = None \/ session.teacher # teacher
    ELSE /\ session # None /\ session.version = version
         /\ session.total = Cardinality(answers)
         /\ {<<a.q, a.mark>> : a \in answers} = {<<q, content[q]>> : q \in DOMAIN content}

\* A call nobody has overtaken works on what is stored, and its answer tells what
\* is stored.
Current(s) ==
    LET c == call[s] IN
    /\ c.pc \in Saving \cup {"deleteRow"} => c.row = session
    /\ c.pc \in {"flush"} \cup Writing => c.answers = answers
    /\ c.pc = "deleteRow" => c.content = None
    /\ c.pc = "answered" /\ c.reply = "done" => Matches(c.version, c.content, c.teacher)

Waited(s) ==
    /\ call[s].pc # "free" /\ phone.synced # phone.version
    /\ call[s].version <= phone.version
    /\ call[s].version = phone.version => call[s].content = phone.content
    /\ Current(s)

OrderlyInv ==
    orderly =>
        /\ phone.synced <= phone.version /\ Stored
        /\ \A s \in Slots : /\ Active(s) => phone.waiting = s
                            /\ phone.waiting = s => Waited(s)

LEMMA UploadedCount ==
    ASSUME NEW s \in Slots, call[s].content \in Papers
    PROVE  Cardinality(Uploaded(s)) = Cardinality(DOMAIN call[s].content)
<1> DEFINE D == DOMAIN call[s].content
           answer(q) == [q |-> q, mark |-> call[s].content[q],
                         correctedAt |-> CorrectedAt(s, q), by |-> call[s].id]
           f == [q \in D |-> answer(q)]
           g == [a \in Uploaded(s) |-> a.q]
<1>1. IsFiniteSet(D)
    BY ConstantFacts
<1>2. Uploaded(s) = {answer(q) : q \in D} /\ \A q \in D : answer(q).q = q
    BY DEF Uploaded
<1> HIDE DEF D, answer
<1>3. f \in Surjection(D, Uploaded(s))
    BY <1>2 DEF Surjection
<1>4. g \in Surjection(Uploaded(s), D)
  <2>1. \A a \in Uploaded(s) : a.q \in D
      BY <1>2
  <2>2. ASSUME NEW q \in D PROVE \E a \in Uploaded(s) : g[a] = q
    <3>1. answer(q) \in Uploaded(s) /\ g[answer(q)] = q
        BY <1>2
    <3> QED BY <3>1
  <2> QED BY <2>1, <2>2 DEF Surjection
<1> HIDE DEF f, g
<1>5. IsFiniteSet(Uploaded(s)) /\ Cardinality(Uploaded(s)) <= Cardinality(D)
    BY <1>1, <1>3, FS_Surjection
<1>6. Cardinality(D) <= Cardinality(Uploaded(s))
    BY <1>4, <1>5, FS_Surjection
<1>7. Cardinality(D) \in Nat /\ Cardinality(Uploaded(s)) \in Nat
    BY <1>1, <1>5, FS_CardinalityType
<1>8. Cardinality(Uploaded(s)) = Cardinality(D)
    BY <1>5, <1>6, <1>7
<1> QED BY <1>8 DEF D

\* The commit of an upload that nobody has overtaken.
LEMMA PutMatches ==
    ASSUME TypeInv, LockInv, NEW s \in Slots, Current(s), CommitPut(s),
           call'[s].version = call[s].version, call'[s].content = call[s].content,
           call'[s].teacher = call[s].teacher
    PROVE  Matches(call[s].version, call[s].content, call[s].teacher)'
<1>1. /\ call[s].pc = "insertAnswers" /\ session' = StoredRow(s)
      /\ answers' = (answers \ call[s].gone) \cup Uploaded(s)
    BY PutLeaves
<1>2. /\ call[s].content \in Papers /\ call[s].gone = call[s].answers \cap answers
      /\ call[s].row = session /\ call[s].answers = answers
    BY <1>1 DEF TypeInv, CallOK, Saving, LockInv, LockOK, Cleared, Current, Writing
<1>3. answers' = Uploaded(s)
    BY <1>1, <1>2
<1>4. call[s].content # None
    BY <1>2, ConstantFacts
<1>5. /\ session' # None /\ session'.version = call[s].version
      /\ session'.total = Cardinality(DOMAIN call[s].content)
    BY <1>1, <1>2, StoredRowType, ConstantFacts
<1>6. session'.total = Cardinality(answers')
    BY <1>2, <1>3, <1>5, UploadedCount
<1>7. {<<a.q, a.mark>> : a \in answers'}
        = {<<q, call[s].content[q]>> : q \in DOMAIN call[s].content}
  <2> DEFINE L == {<<a.q, a.mark>> : a \in answers'}
             R == {<<q, call[s].content[q]>> : q \in DOMAIN call[s].content}
  <2>1. ASSUME NEW x \in L PROVE x \in R
    <3>1. PICK a \in Uploaded(s) : x = <<a.q, a.mark>>
        BY <1>3
    <3>2. a.q \in DOMAIN call[s].content /\ a.mark = call[s].content[a.q]
        BY UploadedIs
    <3> QED BY <3>1, <3>2
  <2>2. ASSUME NEW x \in R PROVE x \in L
    <3>1. PICK q \in DOMAIN call[s].content : x = <<q, call[s].content[q]>>
        OBVIOUS
    <3> DEFINE a == [q |-> q, mark |-> call[s].content[q],
                     correctedAt |-> CorrectedAt(s, q), by |-> call[s].id]
    <3>2. a \in Uploaded(s) /\ a.q = q /\ a.mark = call[s].content[q]
        BY DEF Uploaded
    <3> HIDE DEF a
    <3> QED BY <1>3, <3>1, <3>2
  <2> QED BY <2>1, <2>2
<1> QED BY <1>4, <1>5, <1>6, <1>7 DEF Matches

\* A step of a handler, as far as retries are concerned.
LEMMA OrderlyHandler ==
    ASSUME TypeInv, LockInv, OrderlyInv, orderly, NEW s \in Slots, Active(s), OnlyCall(s),
           UNCHANGED <<phone, orderly>>, call'[s].pc # "free",
           call'[s].version = call[s].version, call'[s].content = call[s].content,
           Current(s)'
    PROVE  OrderlyInv'
<1>1. phone.waiting = s /\ Waited(s)
    BY DEF OrderlyInv
<1>2. Waited(s)'
    BY <1>1 DEF Waited
<1>3. Stored'
    BY <1>1 DEF Waited, Stored
<1>4. \A r \in Slots : Active(r)' => r = s
    BY <1>1 DEF OnlyCall, Active, OrderlyInv
<1> QED BY <1>1, <1>2, <1>3, <1>4 DEF OrderlyInv

\* One that ends without having done what it was asked.
LEMMA OrderlyEnd ==
    ASSUME TypeInv, LockInv, OrderlyInv, orderly, NEW s \in Slots, Active(s),
           UNCHANGED <<phone, orderly>>, NEW reply \in Replies, Answered(s, reply),
           reply = "done" => Matches(call[s].version, call[s].content, call[s].teacher)'
    PROVE  OrderlyInv'
<1>1. call[s].pc # "free"
    BY DEF Active
<1>2. OnlyCall(s) /\ call'[s] = Ended(s, reply)
    BY <1>1, EndedCall
<1>3. /\ call'[s].pc = "answered" /\ call'[s].reply = reply
      /\ call'[s].version = call[s].version /\ call'[s].content = call[s].content
      /\ call'[s].teacher = call[s].teacher
    BY <1>1, <1>2, Ending
<1>4. Current(s)'
    BY <1>3 DEF Current, Saving, Writing, Matches
<1> QED BY <1>2, <1>3, <1>4, OrderlyHandler

LEMMA OrderlyHandle ==
    ASSUME TypeInv, LockInv, OrderlyInv, orderly, NEW s \in Slots, HandlerStep(s)
    PROVE  OrderlyInv'
<1>1. Active(s)
    BY DEF HandlerStep, LocalStep, PutRefused, SelectSession, SelectAnswers, Flush, FlushFails,
           DeleteAnswers, PutConflicts, DeleteNotFound, DeleteSelects, Crash, CommitPut,
           CommitDelete, DeadlockVictim, Deadlocked, Active
<1>2. call[s] \in Call /\ Waited(s) /\ Current(s)
    BY <1>1 DEF OrderlyInv, TypeInv, Waited
<1>3. UNCHANGED <<phone, orderly>>
    BY LocalUnchanged DEF HandlerStep, CommitPut, CommitDelete, DeadlockVictim
<1>4. ~DeadlockVictim(s)
  <2> SUFFICES ASSUME DeadlockVictim(s) PROVE FALSE
      OBVIOUS
  <2>1. \E r \in Slots \ {s} : call[r].pc \in {"deleteRow", "deleteAnswers"}
      BY DEF DeadlockVictim, Deadlocked
  <2> QED BY <1>1, <2>1 DEF OrderlyInv, Active
<1>5. CASE PutRefused(s) \/ FlushFails(s) \/ PutConflicts(s) \/ DeleteNotFound(s) \/ Crash(s)
  <2>1. PICK reply \in {"done", "refused", "failed"} :
          Answered(s, reply) /\ (reply = "done" => DeleteNotFound(s))
      BY <1>5, LocalEnds
  <2>2. DeleteNotFound(s) => Matches(call[s].version, call[s].content, call[s].teacher)'
    <3> SUFFICES ASSUME DeleteNotFound(s)
                 PROVE  Matches(call[s].version, call[s].content, call[s].teacher)'
        OBVIOUS
    <3>1. /\ call[s].content = None /\ session' = session
          /\ session = None \/ session.teacher # call[s].teacher
        BY DEF DeleteNotFound, SomeoneElses
    <3>2. OnlyCall(s) /\ call'[s] = Ended(s, "done")
        BY <1>1, EndedCall DEF DeleteNotFound, Active, Replies
    <3>3. call'[s].content = call[s].content /\ call'[s].teacher = call[s].teacher
        BY <1>1, <3>2, Ending DEF Active, Replies
    <3> QED BY <3>1, <3>3 DEF Matches
  <2>3. reply \in Replies
      BY DEF Replies
  <2> QED BY <1>1, <1>3, <2>1, <2>2, <2>3, OrderlyEnd
<1>6. ASSUME OnlyCall(s), call'[s].pc \in {"selectAnswers", "flush"} \cup Writing \cup {"deleteRow"},
             call'[s].version = call[s].version, call'[s].content = call[s].content, Current(s)'
      PROVE  OrderlyInv'
    BY <1>1, <1>3, <1>6, OrderlyHandler DEF Writing
<1>0. LocalStep(s) => session' = session /\ answers' = answers
    BY LocalUnchanged
<1>7. CASE SelectSession(s)
  <2>0. session' = session /\ answers' = answers
      BY <1>7, <1>0 DEF LocalStep
  <2>1. /\ OnlyCall(s) /\ CallOK(s)' /\ call'[s].row = session /\ call'[s].version = call[s].version
        /\ call'[s].content = call[s].content
        /\ call'[s].pc = IF session = None THEN "flush" ELSE "selectAnswers"
      BY <1>2, <1>7, LocalSelect DEF Call
  <2>2. call'[s].pc = "flush" => call'[s].answers = answers'
      BY <2>0, <2>1 DEF CallOK, LockInv
  <2>3. Current(s)'
      BY <2>0, <2>1, <2>2 DEF Current, Saving, Writing
  <2> QED BY <1>6, <2>1, <2>3
<1>8. CASE SelectAnswers(s)
  <2>0. session' = session /\ answers' = answers /\ call[s].pc = "selectAnswers"
      BY <1>8, <1>0 DEF LocalStep, SelectAnswers
  <2>1. /\ OnlyCall(s) /\ call'[s].row = call[s].row /\ call'[s].version = call[s].version
        /\ call'[s].content = call[s].content /\ call'[s].answers = answers
        /\ call'[s].pc = "flush"
      BY <1>2, <1>8, LocalSelectAnswers DEF Call
  <2>2. Current(s)'
      BY <1>2, <2>0, <2>1 DEF Current, Saving, Writing
  <2> QED BY <1>6, <2>1, <2>2
<1>9. CASE Flush(s)
  <2>0. session' = session /\ answers' = answers /\ call[s].pc = "flush"
      BY <1>9, <1>0 DEF LocalStep, Flush
  <2>1. /\ OnlyCall(s) /\ call'[s].row = call[s].row /\ call'[s].version = call[s].version
        /\ call'[s].content = call[s].content /\ call'[s].answers = call[s].answers
        /\ call'[s].pc = "deleteAnswers"
      BY <1>2, <1>9, LocalFlush DEF Call
  <2>2. Current(s)'
      BY <1>2, <2>0, <2>1 DEF Current, Saving, Writing
  <2> QED BY <1>6, <2>1, <2>2 DEF Writing
<1>10. CASE DeleteAnswers(s)
  <2>0. session' = session /\ answers' = answers /\ call[s].pc = "deleteAnswers"
      BY <1>10, <1>0 DEF LocalStep, DeleteAnswers
  <2>1. /\ OnlyCall(s) /\ call'[s].row = call[s].row /\ call'[s].version = call[s].version
        /\ call'[s].content = call[s].content /\ call'[s].answers = call[s].answers
        /\ call'[s].pc = "insertAnswers"
      BY <1>2, <1>10, LocalDeleteAnswers DEF Call
  <2>2. Current(s)'
      BY <1>2, <2>0, <2>1 DEF Current, Saving, Writing
  <2> QED BY <1>6, <2>1, <2>2 DEF Writing
<1>11. CASE DeleteSelects(s)
  <2>0. session' = session /\ call[s].content = None
      BY <1>11 DEF DeleteSelects
  <2>1. /\ OnlyCall(s) /\ call'[s].version = call[s].version /\ call'[s].row = session
        /\ call'[s].content = call[s].content /\ call'[s].pc = "deleteRow"
      BY <1>2, <1>11, LocalDelete DEF Call
  <2>2. Current(s)'
      BY <2>0, <2>1 DEF Current, Saving, Writing
  <2> QED BY <1>6, <2>1, <2>2
<1>12. CASE CommitPut(s)
  <2>1. PICK reply \in Replies : Answered(s, reply)
      BY <1>12 DEF CommitPut, Replies
  <2>2. OnlyCall(s) /\ call'[s] = Ended(s, reply)
      BY <1>1, <2>1, EndedCall DEF Active
  <2>3. /\ call'[s].version = call[s].version /\ call'[s].content = call[s].content
        /\ call'[s].teacher = call[s].teacher
      BY <1>1, <2>2, Ending DEF Active
  <2>4. Matches(call[s].version, call[s].content, call[s].teacher)'
      BY <1>2, <1>12, <2>3, PutMatches
  <2> QED BY <1>1, <1>3, <2>1, <2>4, OrderlyEnd
<1>13. CASE CommitDelete(s)
  <2>1. /\ call[s].pc = "deleteRow" /\ Answered(s, "done") /\ "done" \in Replies
        /\ StillThere(s) => session' = None
        /\ ~StillThere(s) => session' = session
      BY <1>13 DEF CommitDelete, Replies
  <2>2. call[s].content = None
      BY <1>2, <2>1 DEF Current
  <2>3. OnlyCall(s) /\ call'[s] = Ended(s, "done")
      BY <1>1, <2>1, EndedCall DEF Active
  <2>4. call'[s].content = call[s].content /\ call'[s].teacher = call[s].teacher
      BY <1>1, <2>1, <2>3, Ending DEF Active
  <2>5. session' = None
      BY <1>2, <2>1 DEF Current, StillThere
  <2>6. Matches(call[s].version, call[s].content, call[s].teacher)'
      BY <2>2, <2>4, <2>5 DEF Matches
  <2> QED BY <1>1, <1>3, <2>1, <2>6, OrderlyEnd
<1> QED BY <1>4, <1>5, <1>7, <1>8, <1>9, <1>10, <1>11, <1>12, <1>13 DEF HandlerStep, LocalStep

\* The phone's own steps.
LEMMA OrderlyPhone ==
    ASSUME TypeInv, LockInv, OrderlyInv, orderly, PhoneStep
    PROVE  OrderlyInv'
<1>1. UNCHANGED <<session, answers, call, orderly>> /\ phone \in Phone
    BY PhoneStepOK DEF TypeInv
<1>2. phone.version \in Nat /\ phone.synced \in Nat /\ phone.synced <= phone.version
    BY <1>1, ConstantFacts DEF OrderlyInv, Phone
<1>3. \A s \in Slots : call[s] \in Call
    BY DEF TypeInv
\* The paper is another one and nothing of it is acknowledged.
<1>4. ASSUME phone'.version = phone.version + 1, phone'.synced = phone.synced,
             phone'.waiting = phone.waiting
      PROVE  OrderlyInv'
  <2>1. phone'.synced # phone'.version /\ phone'.synced <= phone'.version
      BY <1>2, <1>4
  <2>2. Stored'
      BY <2>1 DEF Stored
  <2>3. ASSUME NEW s \in Slots PROVE Active(s)' => phone'.waiting = s
      BY <1>1, <1>4 DEF OrderlyInv, Active
  <2>4. ASSUME NEW s \in Slots, phone'.waiting = s PROVE Waited(s)'
    <3>1. Waited(s) /\ Current(s)
        BY <1>4, <2>4 DEF OrderlyInv, Waited
    <3>2. call[s].version \in Nat /\ call[s].version <= phone.version
        BY <1>3, <3>1 DEF Call, Waited
    <3>3. call'[s].version < phone'.version
        BY <1>1, <1>2, <1>4, <3>2
    <3>4. Current(s)'
        BY <1>1, <3>1 DEF Current, Matches
    <3>5. call'[s].pc # "free"
        BY <1>1, <3>1 DEF Waited
    <3> QED BY <1>1, <1>2, <1>4, <2>1, <3>2, <3>3, <3>4, <3>5 DEF Waited
  <2> QED BY <2>1, <2>2, <2>3, <2>4 DEF OrderlyInv
<1>5. CASE Edit
  <2>1. PICK content \in Papers :
           phone' = [phone EXCEPT !.version = @ + 1, !.content = content, !.refused = FALSE]
      BY <1>5 DEF Edit
  <2> QED BY <1>1, <1>4, <2>1 DEF Phone
<1>6. CASE Discard
  <2>1. phone' = [phone EXCEPT !.version = @ + 1, !.content = None, !.refused = FALSE]
      BY <1>6 DEF Discard
  <2> QED BY <1>1, <1>4, <2>1 DEF Phone
\* The paper is the same one.
<1>7. ASSUME phone'.version = phone.version, phone'.synced = phone.synced,
             phone'.content = phone.content, phone'.syncedAs = phone.syncedAs
      PROVE  phone'.synced <= phone'.version /\ Stored'
    BY <1>1, <1>2, <1>7 DEF OrderlyInv, Stored
<1>8. CASE GiveUp
  <2>1. /\ phone' = [phone EXCEPT !.waiting = None]
        /\ phone.waiting # None /\ call[phone.waiting].pc = "answered"
      BY <1>8 DEF GiveUp
  <2>2. /\ phone'.version = phone.version /\ phone'.synced = phone.synced
        /\ phone'.content = phone.content /\ phone'.syncedAs = phone.syncedAs
        /\ phone'.waiting = None
      BY <1>1, <2>1 DEF Phone
  <2>3. \A s \in Slots : ~Active(s) /\ phone'.waiting # s
      BY <2>1, <2>2, ConstantFacts DEF OrderlyInv, Active
  <2>4. \A s \in Slots : ~Active(s)'
      BY <1>1, <2>3 DEF Active
  <2> QED BY <1>7, <2>2, <2>3, <2>4 DEF OrderlyInv
<1>9. ASSUME NEW t \in Teachers, SignIn(t) PROVE OrderlyInv'
  <2>1. phone' = [phone EXCEPT !.teacher = t]
      BY <1>9 DEF SignIn
  <2>2. /\ phone'.version = phone.version /\ phone'.synced = phone.synced
        /\ phone'.content = phone.content /\ phone'.syncedAs = phone.syncedAs
        /\ phone'.waiting = phone.waiting
      BY <1>1, <2>1 DEF Phone
  <2>3. ASSUME NEW s \in Slots
        PROVE  (Active(s)' => phone'.waiting = s) /\ (phone'.waiting = s => Waited(s)')
      BY <1>1, <2>2 DEF OrderlyInv, Active, Waited, Current, Matches
  <2> QED BY <1>7, <2>2, <2>3 DEF OrderlyInv
<1> QED BY <1>5, <1>6, <1>8, <1>9 DEF PhoneStep

LEMMA OrderlySend ==
    ASSUME TypeInv, LockInv, OrderlyInv, orderly, NEW s \in Slots, Send(s)
    PROVE  OrderlyInv'
<1>1. /\ OnlyCall(s) /\ phone' = [phone EXCEPT !.waiting = s]
      /\ UNCHANGED <<session, answers, orderly>> /\ phone \in Phone
    BY SendCall DEF TypeInv
<1>2. phone.waiting = None /\ phone.synced # phone.version
    BY DEF Send
<1>3. /\ phone'.version = phone.version /\ phone'.synced = phone.synced
      /\ phone'.content = phone.content /\ phone'.waiting = s
    BY <1>1 DEF Phone
<1>4. /\ call'[s].pc = "queued" /\ call'[s].version = phone.version
      /\ call'[s].content = phone.content
  <2> DEFINE new == [Free EXCEPT !.pc = "queued", !.id = attempts + 1,
                        !.teacher = phone.teacher, !.version = phone.version,
                        !.content = phone.content]
  <2>1. new.pc = "queued" /\ new.version = phone.version /\ new.content = phone.content
      BY DEF Free
  <2>2. call'[s] = new
      BY SendCall
  <2> HIDE DEF new
  <2> QED BY <2>1, <2>2
<1>5. phone'.synced <= phone'.version /\ Stored'
    BY <1>2, <1>3 DEF OrderlyInv, Stored
<1>6. \A r \in Slots \ {s} : ~Active(r)'
    BY <1>1, <1>2, ConstantFacts DEF OnlyCall, OrderlyInv, Active
<1>7. call'[s].version <= phone'.version
    BY <1>1, <1>3, <1>4, ConstantFacts DEF Phone
<1>8. Waited(s)'
    BY <1>2, <1>3, <1>4, <1>7 DEF Waited, Current, Saving, Writing
<1> QED BY <1>3, <1>5, <1>6, <1>8 DEF OrderlyInv

LEMMA OrderlyReceive ==
    ASSUME TypeInv, LockInv, OrderlyInv, orderly, NEW s \in Slots, Receive(s)
    PROVE  OrderlyInv'
<1>1. /\ OnlyCall(s) /\ call'[s] = Free /\ UNCHANGED <<session, answers, orderly>>
      /\ phone \in Phone /\ call[s] \in Call
    BY FreedCall DEF TypeInv
<1>2. /\ phone.waiting = s /\ call[s].pc = "answered"
      /\ phone' = [phone EXCEPT
                    !.waiting = None,
                    !.synced = IF call[s].reply = "done" THEN call[s].version ELSE @,
                    !.syncedAs = IF call[s].reply = "done" THEN call[s].teacher ELSE @,
                    !.refused = call[s].reply = "refused" /\ call[s].version = phone.version]
    BY DEF Receive
<1>3. /\ phone'.version = phone.version /\ phone'.content = phone.content
      /\ phone'.waiting = None
      /\ call[s].reply = "done" => /\ phone'.synced = call[s].version
                                   /\ phone'.syncedAs = call[s].teacher
      /\ call[s].reply # "done" => phone'.synced = phone.synced
    BY <1>1, <1>2 DEF Phone
<1>4. Waited(s) /\ Current(s) /\ phone.synced <= phone.version
    BY <1>2 DEF OrderlyInv, Waited
<1>5. phone'.synced <= phone'.version
    BY <1>3, <1>4 DEF Waited
<1>6. Stored'
  <2>1. CASE call[s].reply # "done"
      BY <1>3, <1>4, <2>1 DEF Waited, Stored
  <2>2. CASE call[s].reply = "done" /\ call[s].version = phone.version
    <3>1. Matches(call[s].version, call[s].content, call[s].teacher)
        BY <1>2, <1>4, <2>2 DEF Current
    <3>2. call[s].content = phone.content
        BY <1>4, <2>2 DEF Waited
    <3> QED BY <1>1, <1>3, <2>2, <3>1, <3>2 DEF Stored, Matches
  <2>3. CASE call[s].reply = "done" /\ call[s].version # phone.version
      BY <1>3, <2>3 DEF Stored
  <2> QED BY <2>1, <2>2, <2>3
<1>7. \A r \in Slots : ~Active(r)' /\ phone'.waiting # r
    BY <1>1, <1>2, <1>3, FreeCall, ConstantFacts DEF OnlyCall, OrderlyInv, Active
<1> QED BY <1>5, <1>6, <1>7 DEF OrderlyInv

LEMMA OrderlyDropped ==
    ASSUME TypeInv, LockInv, OrderlyInv, orderly, NEW s \in Slots, Dropped(s)
    PROVE  OrderlyInv'
<1>1. /\ OnlyCall(s) /\ call'[s] = Free /\ UNCHANGED <<session, answers, phone, orderly>>
      /\ phone.waiting # s
    BY FreedCall DEF Dropped
<1>2. ASSUME NEW r \in Slots
      PROVE  (Active(r)' => phone'.waiting = r) /\ (phone'.waiting = r => Waited(r)')
  <2>1. CASE r = s
      BY <1>1, <2>1, FreeCall DEF Active
  <2>2. CASE r # s
      BY <1>1, <2>2 DEF OnlyCall, OrderlyInv, Active, Waited, Current, Matches
  <2> QED BY <2>1, <2>2
<1>3. phone'.synced <= phone'.version /\ Stored'
    BY <1>1 DEF OrderlyInv, Stored
<1> QED BY <1>2, <1>3 DEF OrderlyInv

LEMMA OrderlyStep == TypeInv /\ LockInv /\ OrderlyInv /\ [Next]_vars => OrderlyInv'
<1> SUFFICES ASSUME TypeInv, LockInv, OrderlyInv, [Next]_vars PROVE OrderlyInv'
    OBVIOUS
<1>1. orderly' = orderly
  <2>1. PhoneStep \/ RetireTemplate \/ UNCHANGED vars => orderly' = orderly
      BY PhoneStepOK DEF RetireTemplate, vars
  <2>2. ASSUME NEW s \in Slots, Send(s) \/ Receive(s) \/ Dropped(s) \/ HandlerStep(s)
        PROVE  orderly' = orderly
      BY <2>2, LocalUnchanged
         DEF Send, Receive, Dropped, HandlerStep, CommitPut, CommitDelete, DeadlockVictim
  <2> QED BY <2>1, <2>2, NextCases
<1>2. CASE ~orderly
    BY <1>1, <1>2 DEF OrderlyInv
<1>3. CASE orderly
  <2>1. CASE RetireTemplate \/ UNCHANGED vars
    <3>1. UNCHANGED <<session, answers, call, phone, orderly>>
        BY <2>1 DEF RetireTemplate, vars
    <3> QED BY <3>1 DEF OrderlyInv, Stored, Active, Waited, Current, Matches
  <2> QED BY <1>3, <2>1, NextCases, OrderlyPhone, OrderlySend, OrderlyReceive, OrderlyDropped,
             OrderlyHandle
<1> QED BY <1>2, <1>3

\* "Retrying is always safe", as long as no abandoned call outlives the phone's
\* patience: what the phone takes for stored is stored.
THEOREM OrderlyRetriesAreSafe == Spec => []OrderlyRetryIsSafe
<1>1. Init => OrderlyInv
  <2> SUFFICES ASSUME Init PROVE OrderlyInv
      OBVIOUS
  <2>1. /\ phone.version = 0 /\ phone.synced = 0 /\ phone.waiting = None
        /\ \A s \in Slots : ~Active(s)
      BY FreeCall DEF Init, Active
  <2> QED BY <2>1, ConstantFacts DEF OrderlyInv, Stored
<1>2. OrderlyInv => OrderlyRetryIsSafe
    BY DEF OrderlyInv, OrderlyRetryIsSafe
<1> QED BY <1>1, <1>2, OrderlyStep, TypeInvariant, PTL DEF Spec
-----------------------------------------------------------------------------
(* The record *)

\* A call is over when it has an answer, and who deletes a row owns it.
AskOK(s) ==
    LET c == call[s] IN
    /\ c.pc # "answered" => c.reply = "none"
    /\ c.pc = "answered" => c.reply \in {"done", "refused", "failed"}
    /\ c.pc = "deleteRow" => c.row.teacher = c.teacher

AskInv == \A s \in Slots : AskOK(s)

\* A handler that ends, and one that goes on.
LEMMA AskEnd ==
    ASSUME TypeInv, AskInv, NEW s \in Slots, call[s].pc # "free",
           NEW reply \in {"done", "refused", "failed"}, Answered(s, reply)
    PROVE  AskInv'
<1>1. reply \in Replies
    BY DEF Replies
<1>2. OnlyCall(s) /\ call'[s].pc = "answered" /\ call'[s].reply = reply
    BY <1>1, EndedCall, Ending
<1> QED BY <1>2 DEF AskInv, AskOK, OnlyCall

LEMMA AskOn ==
    ASSUME AskInv, NEW s \in Slots, OnlyCall(s),
           call[s].pc # "answered", call'[s].pc # "answered",
           call'[s].reply = call[s].reply,
           call'[s].pc = "deleteRow" => call'[s].row.teacher = call'[s].teacher
    PROVE  AskInv'
BY DEF AskInv, AskOK, OnlyCall

LEMMA AskHandle ==
    ASSUME TypeInv, LockInv, AskInv, NEW s \in Slots, HandlerStep(s)
    PROVE  AskInv'
<1>1. call[s] \in Call /\ call \in [Slots -> Call]
    BY DEF TypeInv
<1>2. CASE PutRefused(s) \/ FlushFails(s) \/ PutConflicts(s) \/ DeleteNotFound(s) \/ Crash(s)
    BY <1>2, LocalEnds, AskEnd
<1>3. CASE SelectSession(s)
    BY <1>1, <1>3, LocalSelect, AskOn DEF Call, SelectSession
<1>4. CASE SelectAnswers(s)
    BY <1>1, <1>4, LocalSelectAnswers, AskOn DEF Call, SelectAnswers
<1>5. CASE Flush(s)
    BY <1>1, <1>5, LocalFlush, AskOn DEF Call, Flush
<1>6. CASE DeleteAnswers(s)
    BY <1>1, <1>6, LocalDeleteAnswers, AskOn DEF Call, DeleteAnswers
<1>7. CASE DeleteSelects(s)
  <2>1. /\ call[s].pc = "queued" /\ session.teacher = call[s].teacher
      BY <1>7 DEF DeleteSelects, SomeoneElses
  <2>2. /\ OnlyCall(s) /\ call'[s].pc = "deleteRow" /\ call'[s].reply = call[s].reply
        /\ call'[s].row = session /\ call'[s].teacher = call[s].teacher
      BY <1>1, <1>7, LocalDelete DEF Call
  <2> QED BY <2>1, <2>2, AskOn
<1>8. CASE CommitPut(s)
  <2>1. PICK reply \in {"done", "failed"} : Answered(s, reply)
      BY <1>8 DEF CommitPut
  <2>2. call[s].pc # "free"
      BY <1>8 DEF CommitPut
  <2> QED BY <2>1, <2>2, AskEnd
<1>9. CASE CommitDelete(s)
  <2>1. call[s].pc # "free" /\ Answered(s, "done")
      BY <1>9 DEF CommitDelete
  <2> QED BY <2>1, AskEnd
<1>10. CASE DeadlockVictim(s)
  <2>1. PICK r \in Slots \ {s} :
         \/ /\ Deadlocked(s, r)
            /\ call' = [call EXCEPT ![s] = Ended(s, "failed"), ![r].rowLocked = TRUE]
         \/ /\ Deadlocked(r, s)
            /\ call' = [call EXCEPT ![s] = Ended(s, "failed"),
                                    ![r].pc = "insertAnswers", ![r].gone = Cleared(r)]
      BY <1>10 DEF DeadlockVictim
  <2>2. /\ call[s].pc # "free" /\ call[r].pc \in {"deleteAnswers", "deleteRow"}
        /\ call'[s] = Ended(s, "failed") /\ \A q \in Slots \ {r, s} : call'[q] = call[q]
      BY <1>1, <2>1 DEF Deadlocked
  <2>3. call[r] \in Call /\ "failed" \in Replies
      BY DEF TypeInv, Replies
  <2>4. call'[s].pc = "answered" /\ call'[s].reply = "failed"
      BY <2>2, <2>3, Ending
  <2>5. /\ call'[r].reply = call[r].reply /\ call'[r].row = call[r].row
        /\ call'[r].teacher = call[r].teacher
        /\ call'[r].pc = call[r].pc \/ call'[r].pc = "insertAnswers"
      BY <1>1, <2>1, <2>3 DEF Call
  <2>6. \A q \in Slots : AskOK(q)'
      BY <2>2, <2>4, <2>5 DEF AskInv, AskOK
  <2> QED BY <2>6 DEF AskInv
<1> QED BY <1>2, <1>3, <1>4, <1>5, <1>6, <1>7, <1>8, <1>9, <1>10 DEF HandlerStep, LocalStep

LEMMA AskStep == TypeInv /\ LockInv /\ AskInv /\ [Next]_vars => AskInv'
<1> SUFFICES ASSUME TypeInv, LockInv, AskInv, [Next]_vars PROVE AskInv'
    OBVIOUS
<1>1. CASE PhoneStep \/ RetireTemplate \/ UNCHANGED vars
  <2>1. call' = call
      BY <1>1, PhoneStepOK DEF RetireTemplate, vars
  <2> QED BY <2>1 DEF AskInv, AskOK
<1>2. ASSUME NEW s \in Slots, Send(s) PROVE AskInv'
  <2>1. call'[s].pc = "queued" /\ call'[s].reply = "none"
    <3> DEFINE new == [Free EXCEPT !.pc = "queued", !.id = attempts + 1,
                          !.teacher = phone.teacher, !.version = phone.version,
                          !.content = phone.content]
    <3>1. new.pc = "queued" /\ new.reply = "none"
        BY DEF Free
    <3>2. call'[s] = new
        BY <1>2, SendCall
    <3> HIDE DEF new
    <3> QED BY <3>1, <3>2
  <2>2. OnlyCall(s) /\ call[s] = Free
      BY <1>2, SendCall
  <2> QED BY <2>1, <2>2 DEF AskInv, AskOK, OnlyCall
<1>3. ASSUME NEW s \in Slots, Receive(s) \/ Dropped(s) PROVE AskInv'
  <2>1. OnlyCall(s) /\ call'[s] = Free
      BY <1>3, FreedCall
  <2> QED BY <2>1, FreeCall DEF AskInv, AskOK, OnlyCall
<1>4. ASSUME NEW s \in Slots, HandlerStep(s) PROVE AskInv'
    BY <1>4, AskHandle
<1> QED BY <1>1, <1>2, <1>3, <1>4, NextCases

\* What the phone asks, and what the rows say, in the terms of the record.
LEMMA AskedIs ==
    ASSUME NEW s \in Slots
    PROVE  /\ phone.waiting = s => AskedNow = Asking(s)
           /\ phone'.waiting = s => AskedNow' = Asking(s)'
BY ConstantFacts DEF AskedNow

LEMMA QuietIs ==
    /\ phone.waiting = None => AskedNow = Record!Quiet
    /\ phone'.waiting = None => AskedNow' = Record!Quiet
BY DEF AskedNow, Record!Quiet

LEMMA AskingIs ==
    ASSUME NEW s \in Slots
    PROVE  /\ Asking(s).at = call[s].id /\ Asking(s).teacher = call[s].teacher
           /\ Asking(s).version = call[s].version /\ Asking(s).content = call[s].content
           /\ Asking(s).reply = call[s].reply
BY DEF Asking

LEMMA RecordIs ==
    /\ session = None => RecordNow = Record!Nothing
    /\ session # None =>
         /\ RecordNow.owner = session.teacher /\ RecordNow.version = session.version
         /\ RecordNow.count = session.total
         /\ RecordNow.cells = [q \in {a.q : a \in answers} |->
                                 [mark |-> Cell(q).mark, correctedAt |-> Cell(q).correctedAt]]
BY DEF RecordNow, Record!Nothing

LEMMA SameRecord ==
    ASSUME UNCHANGED <<session, answers>>
    PROVE  RecordNow' = RecordNow
BY DEF RecordNow, Cell

\* The phone's steps by itself are the record's phone's.
LEMMA PhoneMaps ==
    ASSUME TypeInv, OrderlyInv, AskInv, orderly, PhoneStep
    PROVE  Record!Next
<1>1. /\ UNCHANGED <<templateLive, session, answers, call, attempts, orderly>>
      /\ phone \in Phone /\ phone' \in Phone
    BY PhoneStepOK DEF TypeInv
<1>2. RecordNow' = RecordNow /\ \A s \in Slots : Asking(s)' = Asking(s)
    BY <1>1, SameRecord DEF Asking
<1>3. phone'.waiting = phone.waiting => AskedNow' = AskedNow
  <2>1. phone.waiting \in Slots \cup {None}
      BY <1>1 DEF Phone
  <2> QED BY <1>2, <2>1, AskedIs, QuietIs
<1>4. ASSUME NEW content \in Papers \cup {None},
             phone' = [phone EXCEPT !.version = @ + 1, !.content = content, !.refused = FALSE]
      PROVE  Record!Edit
  <2>1. /\ phone'.version = phone.version + 1 /\ phone'.content = content
        /\ phone'.refused = FALSE /\ phone'.teacher = phone.teacher
        /\ phone'.synced = phone.synced /\ phone'.syncedAs = phone.syncedAs
        /\ phone'.waiting = phone.waiting
      BY <1>1, <1>4 DEF Phone
  <2>2. PaperNow' = [teacher |-> PaperNow.teacher, version |-> PaperNow.version + 1,
                     content |-> content, refused |-> FALSE]
      BY <2>1 DEF PaperNow
  <2>3. AckedNow' = AckedNow
      BY <2>1 DEF AckedNow
  <2> QED BY <1>1, <1>2, <1>3, <2>1, <2>2, <2>3 DEF Record!Edit
<1>5. CASE Edit
    BY <1>4, <1>5 DEF Edit, Record!Next
<1>6. CASE Discard
    BY <1>4, <1>6 DEF Discard, Record!Next
<1>7. ASSUME NEW t \in Teachers, SignIn(t) PROVE Record!SignIn
  <2>1. phone' = [phone EXCEPT !.teacher = t]
      BY <1>7 DEF SignIn
  <2>2. /\ phone'.version = phone.version /\ phone'.content = phone.content
        /\ phone'.refused = phone.refused /\ phone'.teacher = t
        /\ phone'.synced = phone.synced /\ phone'.syncedAs = phone.syncedAs
        /\ phone'.waiting = phone.waiting
      BY <1>1, <2>1 DEF Phone
  <2>3. PaperNow' = [PaperNow EXCEPT !.teacher = t] /\ AckedNow' = AckedNow
      BY <2>2 DEF PaperNow, AckedNow
  <2> QED BY <1>1, <1>2, <1>3, <2>2, <2>3 DEF Record!SignIn
<1>8. CASE GiveUp
  <2>1. /\ phone' = [phone EXCEPT !.waiting = None]
        /\ phone.waiting # None /\ call[phone.waiting].pc = "answered"
      BY <1>8 DEF GiveUp
  <2>2. /\ phone'.version = phone.version /\ phone'.content = phone.content
        /\ phone'.refused = phone.refused /\ phone'.teacher = phone.teacher
        /\ phone'.synced = phone.synced /\ phone'.syncedAs = phone.syncedAs
        /\ phone'.waiting = None
      BY <1>1, <2>1 DEF Phone
  <2>3. PICK s \in Slots : phone.waiting = s
      BY <1>1, <2>1 DEF Phone
  <2>4. AskedNow.reply \in {"done", "refused", "failed"}
      BY <2>1, <2>3, AskedIs, AskingIs DEF AskInv, AskOK
  <2>5. AskedNow' = Record!Quiet
      BY <2>2, QuietIs
  <2>6. PaperNow' = PaperNow /\ AckedNow' = AckedNow
      BY <2>2 DEF PaperNow, AckedNow
  <2>7. Record!GiveUp
      BY <1>1, <1>2, <2>4, <2>5, <2>6 DEF Record!GiveUp, Record!Over
  <2> QED BY <2>7 DEF Record!Next
<1> QED BY <1>5, <1>6, <1>7, <1>8 DEF PhoneStep, Record!Next

LEMMA SendMaps ==
    ASSUME TypeInv, NEW s \in Slots, Send(s)
    PROVE  Record!Ask
<1>1. /\ phone.waiting = None /\ phone.synced # phone.version /\ ~phone.refused
      /\ attempts' = attempts + 1 /\ phone' = [phone EXCEPT !.waiting = s]
      /\ UNCHANGED <<templateLive, session, answers>> /\ phone \in Phone
    BY SendCall DEF Send, TypeInv
<1>2. /\ phone'.version = phone.version /\ phone'.content = phone.content
      /\ phone'.refused = phone.refused /\ phone'.teacher = phone.teacher
      /\ phone'.synced = phone.synced /\ phone'.syncedAs = phone.syncedAs
      /\ phone'.waiting = s
    BY <1>1 DEF Phone
<1>3. /\ call'[s].id = attempts + 1 /\ call'[s].teacher = phone.teacher
      /\ call'[s].version = phone.version /\ call'[s].content = phone.content
      /\ call'[s].reply = "none"
  <2> DEFINE new == [Free EXCEPT !.pc = "queued", !.id = attempts + 1,
                        !.teacher = phone.teacher, !.version = phone.version,
                        !.content = phone.content]
  <2>1. /\ new.id = attempts + 1 /\ new.teacher = phone.teacher
        /\ new.version = phone.version /\ new.content = phone.content /\ new.reply = "none"
      BY DEF Free
  <2>2. call'[s] = new
      BY SendCall
  <2> HIDE DEF new
  <2> QED BY <2>1, <2>2
<1>4. AskedNow = Record!Quiet /\ RecordNow' = RecordNow
    BY <1>1, QuietIs, SameRecord
<1>5. PaperNow' = PaperNow /\ AckedNow' = AckedNow
    BY <1>2 DEF PaperNow, AckedNow
<1>6. /\ AckedNow.version = phone.synced /\ PaperNow.version = phone.version
      /\ PaperNow.teacher = phone.teacher /\ PaperNow.content = phone.content
      /\ PaperNow.refused = phone.refused
    BY DEF AckedNow, PaperNow
<1>7. AskedNow' = [at |-> attempts + 1, teacher |-> PaperNow.teacher,
                   version |-> PaperNow.version, content |-> PaperNow.content, reply |-> "none"]
    BY <1>2, <1>3, <1>6, AskedIs DEF Asking
<1> QED BY <1>1, <1>4, <1>5, <1>6, <1>7 DEF Record!Ask

LEMMA ReceiveMaps ==
    ASSUME TypeInv, AskInv, NEW s \in Slots, Receive(s)
    PROVE  Record!Hear
<1>1. /\ UNCHANGED <<templateLive, session, answers, attempts>>
      /\ phone \in Phone /\ call[s].pc = "answered" /\ phone.waiting = s
    BY FreedCall DEF TypeInv, Receive
<1>2. phone' = [phone EXCEPT
                  !.waiting = None,
                  !.synced = IF call[s].reply = "done" THEN call[s].version ELSE @,
                  !.syncedAs = IF call[s].reply = "done" THEN call[s].teacher ELSE @,
                  !.refused = call[s].reply = "refused" /\ call[s].version = phone.version]
    BY DEF Receive
<1>3. /\ phone'.version = phone.version /\ phone'.content = phone.content
      /\ phone'.teacher = phone.teacher /\ phone'.waiting = None
      /\ phone'.refused = (call[s].reply = "refused" /\ call[s].version = phone.version)
      /\ phone'.synced = IF call[s].reply = "done" THEN call[s].version ELSE phone.synced
      /\ phone'.syncedAs = IF call[s].reply = "done" THEN call[s].teacher ELSE phone.syncedAs
    BY <1>1, <1>2 DEF Phone
<1>4. RecordNow' = RecordNow /\ AskedNow' = Record!Quiet
    BY <1>1, <1>3, QuietIs, SameRecord
<1>5. /\ AskedNow.version = call[s].version /\ AskedNow.teacher = call[s].teacher
      /\ AskedNow.reply = call[s].reply
    BY <1>1, AskedIs, AskingIs
<1>6. AskedNow.reply \in {"done", "refused", "failed"}
    BY <1>1, <1>5 DEF AskInv, AskOK
<1>7. AckedNow' = IF AskedNow.reply = "done"
                  THEN [version |-> AskedNow.version, teacher |-> AskedNow.teacher]
                  ELSE AckedNow
    BY <1>3, <1>5 DEF AckedNow
<1>8. PaperNow' = [PaperNow EXCEPT !.refused = AskedNow.reply = "refused"
                                               /\ AskedNow.version = PaperNow.version]
  <2>1. PaperNow.version = phone.version
      BY DEF PaperNow
  <2>2. phone'.refused = (AskedNow.reply = "refused" /\ AskedNow.version = PaperNow.version)
      BY <1>3, <1>5, <2>1
  <2> QED BY <1>3, <2>2 DEF PaperNow
<1> QED BY <1>1, <1>4, <1>6, <1>7, <1>8 DEF Record!Hear, Record!Over

\* An answer nobody waits for.
LEMMA DroppedMaps ==
    ASSUME TypeInv, NEW s \in Slots, Dropped(s)
    PROVE  UNCHANGED Record!vars
<1>1. /\ UNCHANGED <<templateLive, session, answers, attempts, orderly, phone>>
      /\ OnlyCall(s) /\ phone \in Phone /\ phone.waiting # s
    BY FreedCall DEF TypeInv, Dropped
<1>2. RecordNow' = RecordNow /\ PaperNow' = PaperNow /\ AckedNow' = AckedNow
    BY <1>1, SameRecord DEF PaperNow, AckedNow
<1>3. AskedNow' = AskedNow
  <2>1. CASE phone.waiting = None
      BY <1>1, <2>1, QuietIs
  <2>2. ASSUME NEW r \in Slots \ {s}, phone.waiting = r PROVE AskedNow' = AskedNow
    <3>1. Asking(r)' = Asking(r)
        BY <1>1 DEF OnlyCall, Asking
    <3> QED BY <1>1, <2>2, <3>1, AskedIs
  <2> QED BY <1>1, <2>1, <2>2 DEF Phone
<1> QED BY <1>1, <1>2, <1>3 DEF Record!vars

\* A handler that ends replies to what was asked.
LEMMA ReplyMaps ==
    ASSUME TypeInv, AskInv, NEW s \in Slots, Active(s), phone.waiting = s,
           NEW reply \in {"done", "refused", "failed"}, Answered(s, reply),
           UNCHANGED <<templateLive, phone, attempts>>
    PROVE  Record!Reply(reply)
<1>1. call[s].pc # "free" /\ call[s].reply = "none" /\ reply \in Replies
    BY DEF Active, AskInv, AskOK, Replies
<1>2. /\ call'[s].id = call[s].id /\ call'[s].teacher = call[s].teacher
      /\ call'[s].version = call[s].version /\ call'[s].content = call[s].content
      /\ call'[s].reply = reply
    BY <1>1, EndedCall, Ending
<1>3. AskedNow = Asking(s) /\ AskedNow' = Asking(s)'
    BY AskedIs
<1>4. Asking(s)' = [Asking(s) EXCEPT !.reply = reply]
    BY <1>2 DEF Asking
<1>5. AskedNow.reply = "none"
    BY <1>1, <1>3, AskingIs
<1>6. PaperNow' = PaperNow /\ AckedNow' = AckedNow
    BY DEF PaperNow, AckedNow
<1> QED BY <1>3, <1>4, <1>5, <1>6 DEF Record!Reply, Record!Pending

\* One that goes on is not noticed.
LEMMA SilentMaps ==
    ASSUME NEW s \in Slots, phone.waiting = s, call'[s].id = call[s].id,
           call'[s].teacher = call[s].teacher, call'[s].version = call[s].version,
           call'[s].content = call[s].content, call'[s].reply = call[s].reply,
           UNCHANGED <<templateLive, session, answers, phone, attempts, orderly>>
    PROVE  UNCHANGED Record!vars
<1>1. AskedNow' = AskedNow
    BY AskedIs DEF Asking
<1>2. RecordNow' = RecordNow /\ PaperNow' = PaperNow /\ AckedNow' = AckedNow
    BY SameRecord DEF PaperNow, AckedNow
<1> QED BY <1>1, <1>2 DEF Record!vars

\* What a handler is asked, in the record's terms.
LEMMA AskedOf ==
    ASSUME NEW s \in Slots, phone.waiting = s
    PROVE  /\ AskedNow.at = call[s].id /\ AskedNow.teacher = call[s].teacher
           /\ AskedNow.version = call[s].version /\ AskedNow.content = call[s].content
           /\ AskedNow.reply = call[s].reply
BY AskedIs, AskingIs

LEMMA OwnerIs ==
    ASSUME TypeInv
    PROVE  /\ session = None => RecordNow.owner = None /\ None \notin Teachers
           /\ session # None => /\ RecordNow.owner = session.teacher
                                /\ RecordNow.owner \in Teachers
BY RecordIs, ConstantFacts DEF TypeInv, SessionRow, Record!Nothing

\* The time a correction is given is the record's.
LEMMA TimesMap ==
    ASSUME TypeInv, LockInv, CleanInv, NEW s \in Slots, phone.waiting = s,
           call[s].answers = answers, NEW q \in DOMAIN call[s].content
    PROVE  CorrectedAt(s, q) = Record!Time(q)
<1> DEFINE mark == call[s].content[q]
           prior == {a \in call[s].answers : a.q = q /\ a.mark = mark}
<1>1. /\ AskedNow.content = call[s].content /\ AskedNow.at = call[s].id
    BY AskedOf
<1>2. CASE mark \in {None, Empty}
    BY <1>1, <1>2 DEF CorrectedAt, Record!Time
<1>3. CASE mark \notin {None, Empty} /\ prior # {}
  <2>1. PICK a \in answers : a.q = q /\ a.mark = mark
      BY <1>3
  <2>2. a \in prior /\ \A b \in answers : b.q = q => b = a
      BY <2>1 DEF CleanInv, Clean
  <2>3. (CHOOSE b \in prior : TRUE) \in prior
      BY <1>3
  <2>4. (CHOOSE b \in prior : TRUE) = a
      BY <2>2, <2>3
  <2>5. Cell(q) \in answers /\ Cell(q).q = q
      BY <2>1 DEF Cell
  <2>6. Cell(q) = a
      BY <2>2, <2>5
  <2>7. session # None
      BY <2>1 DEF LockInv
  <2>8. q \in {b.q : b \in answers}
      BY <2>1
  <2>9. /\ q \in DOMAIN RecordNow.cells /\ RecordNow.cells[q].mark = mark
        /\ RecordNow.cells[q].correctedAt = a.correctedAt
      BY <2>1, <2>6, <2>7, <2>8, RecordIs
  <2>10. CorrectedAt(s, q) = a.correctedAt
      BY <1>3, <2>4 DEF CorrectedAt
  <2> QED BY <1>1, <1>3, <2>9, <2>10 DEF Record!Time
<1>4. CASE mark \notin {None, Empty} /\ prior = {}
  <2>1. ~(q \in DOMAIN RecordNow.cells /\ RecordNow.cells[q].mark = mark)
    <3>1. CASE session = None
      <4>1. RecordNow.cells = <<>>
          BY <3>1, RecordIs DEF Record!Nothing
      <4> QED BY <4>1
    <3>2. ASSUME session # None, q \in DOMAIN RecordNow.cells PROVE RecordNow.cells[q].mark # mark
      <4>1. /\ RecordNow.cells = [c \in {b.q : b \in answers} |->
                                    [mark |-> Cell(c).mark, correctedAt |-> Cell(c).correctedAt]]
          BY <3>2, RecordIs
      <4>2. q \in {b.q : b \in answers}
          BY <3>2, <4>1
      <4>3. PICK b \in answers : b.q = q
          BY <4>2
      <4>4. Cell(q) \in answers /\ Cell(q).q = q
          BY <4>3 DEF Cell
      <4>5. Cell(q).mark # mark
          BY <1>4, <4>4
      <4> QED BY <4>1, <4>2, <4>5
    <3> QED BY <3>1, <3>2
  <2>2. CorrectedAt(s, q) = call[s].id
      BY <1>4 DEF CorrectedAt
  <2> QED BY <1>1, <1>4, <2>1, <2>2 DEF Record!Time
<1> QED BY <1>2, <1>3, <1>4

\* The commit of an upload replaces the record as a whole.
LEMMA UploadMaps ==
    ASSUME TypeInv, TypeInv', LockInv, CleanInv, AskInv, NEW s \in Slots, Active(s),
           phone.waiting = s, Current(s), CommitPut(s)
    PROVE  Record!Upload
<1>1. /\ call[s].pc = "insertAnswers" /\ session' = StoredRow(s)
      /\ answers' = (answers \ call[s].gone) \cup Uploaded(s)
    BY PutLeaves
<1>2. /\ call[s] \in Call /\ call[s].content \in Papers /\ call[s].content # None
      /\ call[s].gone = call[s].answers \cap answers
      /\ call[s].row = session /\ call[s].answers = answers
      /\ call[s].row # None => call[s].row.teacher = call[s].teacher
    BY <1>1, ConstantFacts DEF TypeInv, CallOK, Saving, LockInv, LockOK, Cleared, Current, Writing
<1>3. answers' = Uploaded(s)
    BY <1>1, <1>2
<1>4. /\ session' # None /\ session'.teacher = call[s].teacher
      /\ session'.version = call[s].version
      /\ session'.total = Cardinality(DOMAIN call[s].content)
    BY <1>1, <1>2, StoredRowType, ConstantFacts
<1>5. /\ AskedNow.teacher = call[s].teacher /\ AskedNow.version = call[s].version
      /\ AskedNow.content = call[s].content
    BY AskedOf
<1>6. AskedNow.content # None /\ Record!Mine
  <2>1. RecordNow.owner \in {AskedNow.teacher, None}
      BY <1>2, <1>5, OwnerIs
  <2> QED BY <1>2, <1>5, <2>1 DEF Record!Mine
<1>7. {a.q : a \in answers'} = DOMAIN call[s].content
  <2>1. ASSUME NEW a \in answers' PROVE a.q \in DOMAIN call[s].content
      BY <1>3, UploadedIs
  <2>2. ASSUME NEW q \in DOMAIN call[s].content PROVE \E a \in answers' : a.q = q
    <3> DEFINE a == [q |-> q, mark |-> call[s].content[q],
                     correctedAt |-> CorrectedAt(s, q), by |-> call[s].id]
    <3>1. a \in Uploaded(s) /\ a.q = q
        BY DEF Uploaded
    <3> HIDE DEF a
    <3> QED BY <1>3, <3>1
  <2> QED BY <2>1, <2>2
<1>8. ASSUME NEW q \in DOMAIN call[s].content
      PROVE  Cell(q)'.mark = call[s].content[q] /\ Cell(q)'.correctedAt = Record!Time(q)
  <2>1. \E a \in answers' : a.q = q
      BY <1>7
  <2>2. Cell(q)' \in answers' /\ Cell(q)'.q = q
      BY <2>1 DEF Cell
  <2>3. Cell(q)'.mark = call[s].content[q] /\ Cell(q)'.correctedAt = CorrectedAt(s, q)
      BY <1>3, <2>2, UploadedIs
  <2> QED BY <1>2, <2>3, TimesMap
<1>9. RecordNow' = Record!Replacement
  <2> DEFINE cells == [q \in {a.q : a \in answers'} |->
                         [mark |-> Cell(q)'.mark, correctedAt |-> Cell(q)'.correctedAt]]
             new == [q \in DOMAIN call[s].content |->
                         [mark |-> call[s].content[q], correctedAt |-> Record!Time(q)]]
  <2>1. cells = new
      BY <1>7, <1>8
  <2>2. RecordNow' = [owner |-> session'.teacher, version |-> session'.version,
                      count |-> session'.total, cells |-> cells]
      BY <1>4 DEF RecordNow
  <2>3. Record!Replacement = [owner |-> call[s].teacher, version |-> call[s].version,
                              count |-> Cardinality(DOMAIN call[s].content), cells |-> new]
    <3> DEFINE asked == [q \in DOMAIN AskedNow.content |->
                           [mark |-> AskedNow.content[q], correctedAt |-> Record!Time(q)]]
    <3>1. Record!Replacement = [owner |-> AskedNow.teacher, version |-> AskedNow.version,
                                count |-> Cardinality(DOMAIN AskedNow.content),
                                cells |-> asked]
        BY DEF Record!Replacement, Record!Cardinality, Cardinality
    <3>2. asked = new
        BY <1>5
    <3> HIDE DEF asked, new
    <3> QED BY <1>5, <3>1, <3>2
  <2> HIDE DEF cells, new
  <2> QED BY <1>4, <2>1, <2>2, <2>3
<1>10. PICK reply \in {"done", "failed"} : Answered(s, reply)
    BY DEF CommitPut
<1>11. UNCHANGED <<templateLive, phone, attempts>>
    BY DEF CommitPut
<1>12. Record!Reply(reply)
    BY <1>10, <1>11, ReplyMaps
<1>13. Record!Reply("done") \/ Record!Reply("failed")
    BY <1>10, <1>12
<1> QED BY <1>6, <1>9, <1>13 DEF Record!Upload

LEMMA RemoveMaps ==
    ASSUME TypeInv, AskInv, NEW s \in Slots, Active(s), phone.waiting = s, Current(s),
           CommitDelete(s)
    PROVE  Record!Remove
<1>1. /\ call[s].pc = "deleteRow" /\ Answered(s, "done")
      /\ StillThere(s) => session' = None /\ answers' = {}
      /\ UNCHANGED <<templateLive, phone, attempts>>
    BY DEF CommitDelete
<1>2. /\ call[s].row = session /\ call[s].content = None /\ session # None
      /\ session.teacher = call[s].teacher
    BY <1>1 DEF Current, AskInv, AskOK, TypeInv, CallOK
<1>3. session' = None
    BY <1>1, <1>2 DEF StillThere
<1>4. RecordNow' = Record!Nothing
    BY <1>3 DEF RecordNow, Record!Nothing
<1>5. AskedNow.content = None /\ RecordNow.owner = AskedNow.teacher
    BY <1>2, AskedOf, OwnerIs
<1>6. Record!Reply("done")
    BY <1>1, ReplyMaps
<1> QED BY <1>4, <1>5, <1>6 DEF Record!Remove

\* Every step of a handler is a step of the record, or none.
LEMMA HandlerMaps ==
    ASSUME TypeInv, TypeInv', LockInv, CleanInv, OrderlyInv, AskInv, orderly,
           NEW s \in Slots, HandlerStep(s)
    PROVE  Record!Next \/ UNCHANGED Record!vars
<1>1. Active(s)
    BY DEF HandlerStep, LocalStep, PutRefused, SelectSession, SelectAnswers, Flush, FlushFails,
           DeleteAnswers, PutConflicts, DeleteNotFound, DeleteSelects, Crash, CommitPut,
           CommitDelete, DeadlockVictim, Deadlocked, Active
<1>2. phone.waiting = s /\ call[s] \in Call /\ Current(s)
    BY <1>1 DEF OrderlyInv, TypeInv, Waited
<1>3. LocalStep(s) => /\ UNCHANGED <<templateLive, session, answers, phone, attempts, orderly>>
                      /\ RecordNow' = RecordNow
    BY LocalUnchanged, SameRecord
<1>4. /\ AskedNow.teacher = call[s].teacher /\ AskedNow.content = call[s].content
    BY <1>2, AskedOf
<1>5. ~DeadlockVictim(s)
  <2> SUFFICES ASSUME DeadlockVictim(s) PROVE FALSE
      OBVIOUS
  <2>1. \E r \in Slots \ {s} : call[r].pc \in {"deleteRow", "deleteAnswers"}
      BY DEF DeadlockVictim, Deadlocked
  <2> QED BY <1>2, <2>1 DEF OrderlyInv, Active
<1>6. CASE PutRefused(s)
  <2>1. /\ Answered(s, "refused") /\ call[s].content # None
        /\ ~templateLive \/ (session # None /\ session.teacher # call[s].teacher)
      BY <1>6 DEF PutRefused, SomeoneElses
  <2>2. ~templateLive \/ ~Record!Mine
      BY <1>4, <2>1, OwnerIs, ConstantFacts DEF Record!Mine
  <2>3. Record!Reply("refused")
      BY <1>1, <1>2, <1>3, <1>6, <2>1, ReplyMaps DEF LocalStep
  <2>4. Record!Refuse
      BY <1>3, <1>4, <1>6, <2>1, <2>2, <2>3 DEF Record!Refuse, LocalStep
  <2> QED BY <2>4 DEF Record!Next
<1>7. CASE DeleteNotFound(s)
  <2>1. /\ Answered(s, "done") /\ call[s].content = None /\ call[s].pc = "queued"
        /\ session = None \/ session.teacher # call[s].teacher
      BY <1>7 DEF DeleteNotFound, SomeoneElses
  <2>2. call[s].teacher \in Teachers
      BY <2>1 DEF TypeInv, CallOK
  <2>3. RecordNow.owner # AskedNow.teacher
      BY <1>4, <2>1, <2>2, OwnerIs
  <2>4. Record!Reply("done")
      BY <1>1, <1>2, <1>3, <1>7, <2>1, ReplyMaps DEF LocalStep
  <2>5. Record!NothingToRemove
      BY <1>3, <1>4, <1>7, <2>1, <2>3, <2>4 DEF Record!NothingToRemove, LocalStep
  <2> QED BY <2>5 DEF Record!Next
<1>8. CASE FlushFails(s) \/ PutConflicts(s) \/ Crash(s)
  <2>1. Answered(s, "failed")
      BY <1>8 DEF FlushFails, PutConflicts, Crash
  <2>2. Record!Reply("failed")
      BY <1>1, <1>2, <1>3, <1>8, <2>1, ReplyMaps DEF LocalStep
  <2>3. Record!Fail
      BY <1>3, <1>8, <2>2 DEF Record!Fail, LocalStep
  <2> QED BY <2>3 DEF Record!Next
<1>9. CASE SelectSession(s) \/ SelectAnswers(s) \/ Flush(s) \/ DeleteAnswers(s) \/ DeleteSelects(s)
  <2>1. /\ call'[s].id = call[s].id /\ call'[s].teacher = call[s].teacher
        /\ call'[s].version = call[s].version /\ call'[s].content = call[s].content
        /\ call'[s].reply = call[s].reply
    <3>1. CASE SelectSession(s)
        BY <1>2, <3>1, LocalSelect DEF Call
    <3>2. CASE SelectAnswers(s)
        BY <1>2, <3>2, LocalSelectAnswers DEF Call
    <3>3. CASE Flush(s)
        BY <1>2, <3>3, LocalFlush DEF Call
    <3>4. CASE DeleteAnswers(s)
        BY <1>2, <3>4, LocalDeleteAnswers DEF Call
    <3>5. CASE DeleteSelects(s)
        BY <1>2, <3>5, LocalDelete DEF Call
    <3> QED BY <1>9, <3>1, <3>2, <3>3, <3>4, <3>5
  <2> QED BY <1>2, <1>3, <1>9, <2>1, SilentMaps DEF LocalStep
<1>10. CASE CommitPut(s)
    BY <1>1, <1>2, <1>10, UploadMaps DEF Record!Next
<1>11. CASE CommitDelete(s)
    BY <1>1, <1>2, <1>11, RemoveMaps DEF Record!Next
<1> QED BY <1>5, <1>6, <1>7, <1>8, <1>9, <1>10, <1>11 DEF HandlerStep, LocalStep

\* Every step keeps the phone's patience, and a patient one's is a step of the
\* record, or none.
LEMMA RecordStep ==
    ASSUME TypeInv, TypeInv', LockInv, CleanInv, OrderlyInv, AskInv, [Next]_vars
    PROVE  orderly' = orderly /\ (orderly => Record!Next \/ UNCHANGED Record!vars)
<1>1. orderly' = orderly
  <2>1. PhoneStep \/ RetireTemplate \/ UNCHANGED vars => orderly' = orderly
      BY PhoneStepOK DEF RetireTemplate, vars
  <2>2. ASSUME NEW s \in Slots, Send(s) \/ Receive(s) \/ Dropped(s) \/ HandlerStep(s)
        PROVE  orderly' = orderly
      BY <2>2, LocalUnchanged
         DEF Send, Receive, Dropped, HandlerStep, CommitPut, CommitDelete, DeadlockVictim
  <2> QED BY <2>1, <2>2, NextCases
<1>2. ASSUME orderly PROVE Record!Next \/ UNCHANGED Record!vars
  <2>1. CASE PhoneStep
      BY <1>2, <2>1, PhoneMaps
  <2>2. CASE RetireTemplate
    <3>1. /\ templateLive' = FALSE
          /\ UNCHANGED <<session, answers, call, phone, attempts>>
        BY <2>2 DEF RetireTemplate
    <3>2. UNCHANGED <<RecordNow, PaperNow, AckedNow, AskedNow, attempts>>
        BY <3>1 DEF RecordNow, Cell, PaperNow, AckedNow, AskedNow, Asking
    <3>3. Record!Retire
        BY <3>1, <3>2 DEF Record!Retire
    <3> QED BY <3>3 DEF Record!Next
  <2>3. CASE UNCHANGED vars
      BY <2>3 DEF vars, Record!vars, RecordNow, Cell, PaperNow, AckedNow, AskedNow, Asking
  <2>4. ASSUME NEW s \in Slots, Send(s) \/ Receive(s) \/ Dropped(s) \/ HandlerStep(s)
        PROVE  Record!Next \/ UNCHANGED Record!vars
    <3>1. CASE Send(s)
        BY <3>1, SendMaps DEF Record!Next
    <3>2. CASE Receive(s)
        BY <3>2, ReceiveMaps DEF Record!Next
    <3> QED BY <1>2, <2>4, <3>1, <3>2, DroppedMaps, HandlerMaps
  <2> QED BY <2>1, <2>2, <2>3, <2>4, NextCases
<1> QED BY <1>1, <1>2

\* To a phone whose calls are over when it makes the next one, the handlers of
\* sessions.py, statement by statement, are one record of the paper (PaperRecord)
\* that each call replaces, removes or leaves alone in one step.
THEOREM HandlersImplementRecord == Spec => ImplementsRecord
<1>1. Init => Record!Init /\ CleanInv /\ OrderlyInv /\ AskInv
  <2> SUFFICES ASSUME Init PROVE Record!Init /\ CleanInv /\ OrderlyInv /\ AskInv
      OBVIOUS
  <2>1. PICK t \in Teachers :
          phone = [teacher |-> t, version |-> 0, content |-> None, synced |-> 0,
                   syncedAs |-> t, refused |-> FALSE, waiting |-> None]
      BY DEF Init
  <2>2. /\ PaperNow = [teacher |-> t, version |-> 0, content |-> None, refused |-> FALSE]
        /\ AckedNow = [version |-> 0, teacher |-> t]
      BY <2>1 DEF PaperNow, AckedNow
  <2>3. RecordNow = Record!Nothing /\ AskedNow = Record!Quiet
      BY <2>1, RecordIs, QuietIs DEF Init
  <2>4. Record!Init
      BY <2>2, <2>3 DEF Init, Record!Init
  <2>5. CleanInv
      BY FreeCall DEF Init, CleanInv, Clean
  <2>6. OrderlyInv
    <3>1. \A s \in Slots : ~Active(s)
        BY FreeCall DEF Init, Active
    <3> QED BY <2>1, <3>1, ConstantFacts DEF OrderlyInv, Stored
  <2>7. AskInv
      BY FreeCall DEF Init, AskInv, AskOK
  <2> QED BY <2>4, <2>5, <2>6, <2>7
<1>2. Spec => [](TypeInv /\ LockInv /\ CleanInv /\ OrderlyInv /\ AskInv)
    BY <1>1, CleanStep, OrderlyStep, AskStep, TypeInit, TypeStep, PTL DEF Spec
<1>3. TypeInv /\ TypeInv' /\ LockInv /\ CleanInv /\ OrderlyInv /\ AskInv /\ [Next]_vars
      => [orderly' = orderly /\ (orderly => Record!Next)]_Record!vars
  <2> SUFFICES ASSUME TypeInv, TypeInv', LockInv, CleanInv, OrderlyInv, AskInv, [Next]_vars
               PROVE  (orderly' = orderly /\ (orderly => Record!Next)) \/ UNCHANGED Record!vars
      OBVIOUS
  <2> QED BY RecordStep
<1> QED BY <1>1, <1>2, <1>3, PTL DEF Spec, ImplementsRecord, Record!Spec
=============================================================================
