---------------------------- MODULE PaperRecord ----------------------------
(***************************************************************************)
(* What the upload API promises a phone that is patient, that is, whose    *)
(* calls are over when it makes the next one.  A paper has one record,     *)
(* which belongs to the teacher who made it.  The phone has one call at a  *)
(* time, and the server carries it out in one step: a PUT replaces the     *)
(* record as a whole but for the times of corrections that stand, a DELETE *)
(* removes it, and a call that is refused or fails changes nothing.  What  *)
(* the phone cannot tell is whether a call that failed was carried out.    *)
(* GradingSessions implements this as long as calls are orderly.           *)
(***************************************************************************)
EXTENDS Naturals, FiniteSets

CONSTANTS Teachers, Papers, Empty, None

VARIABLES
    patient,  \* the phone outwaits its calls; nothing is promised to others
    live,     \* the paper's template is not deleted
    record,   \* [owner, version, count, cells]; nobody owns a record that is not there
    paper,    \* the phone's: [teacher, version, content, refused]
    acked,    \* [version, teacher] of the last call that was acknowledged
    asked,    \* the call: [at, teacher, version, content, reply]
    asks      \* calls made so far, which are the time

vars == <<patient, live, record, paper, acked, asked, asks>>

Nothing == [owner |-> None, version |-> 0, count |-> 0, cells |-> <<>>]
Quiet == [at |-> 0, teacher |-> None, version |-> 0, content |-> None, reply |-> "quiet"]

Init ==
    /\ patient \in BOOLEAN /\ live = TRUE
    /\ record = Nothing /\ asked = Quiet /\ asks = 0
    /\ \E t \in Teachers :
         /\ paper = [teacher |-> t, version |-> 0, content |-> None, refused |-> FALSE]
         /\ acked = [version |-> 0, teacher |-> t]

-----------------------------------------------------------------------------
(* The phone *)

Edit ==
    /\ \E content \in Papers \cup {None} :
         paper' = [teacher |-> paper.teacher, version |-> paper.version + 1,
                   content |-> content, refused |-> FALSE]
    /\ UNCHANGED <<live, record, acked, asked, asks>>

SignIn ==
    /\ \E t \in Teachers : paper' = [paper EXCEPT !.teacher = t]
    /\ UNCHANGED <<live, record, acked, asked, asks>>

Ask ==
    /\ asked = Quiet /\ acked.version # paper.version /\ ~paper.refused
    /\ asked' = [at |-> asks + 1, teacher |-> paper.teacher, version |-> paper.version,
                 content |-> paper.content, reply |-> "none"]
    /\ asks' = asks + 1
    /\ UNCHANGED <<live, record, paper, acked>>

Pending == asked.reply = "none"
Over == asked.reply \in {"done", "refused", "failed"}

Hear ==
    /\ Over
    /\ acked' = IF asked.reply = "done"
                THEN [version |-> asked.version, teacher |-> asked.teacher] ELSE acked
    /\ paper' = [paper EXCEPT !.refused = asked.reply = "refused" /\ asked.version = paper.version]
    /\ asked' = Quiet
    /\ UNCHANGED <<live, record, asks>>

\* The answer is lost.
GiveUp ==
    /\ Over
    /\ asked' = Quiet
    /\ UNCHANGED <<live, record, paper, acked, asks>>

-----------------------------------------------------------------------------
(* The server *)

Reply(reply) ==
    /\ Pending
    /\ asked' = [asked EXCEPT !.reply = reply]
    /\ UNCHANGED <<live, paper, acked, asks>>

Mine == record.owner \in {asked.teacher, None}

\* The time of a correction: of the first call with this mark since another one.
Time(q) ==
    IF asked.content[q] \in {None, Empty} THEN None
    ELSE IF q \in DOMAIN record.cells /\ record.cells[q].mark = asked.content[q]
    THEN record.cells[q].correctedAt
    ELSE asked.at

Replacement ==
    [owner |-> asked.teacher, version |-> asked.version,
     count |-> Cardinality(DOMAIN asked.content),
     cells |-> [q \in DOMAIN asked.content |->
                   [mark |-> asked.content[q], correctedAt |-> Time(q)]]]

\* The template was there when the call came, and need not be any more.
Upload ==
    /\ asked.content # None /\ Mine
    /\ record' = Replacement
    /\ Reply("done") \/ Reply("failed")

Remove ==
    /\ asked.content = None /\ record.owner = asked.teacher
    /\ record' = Nothing
    /\ Reply("done")

NothingToRemove ==
    /\ asked.content = None /\ record.owner # asked.teacher
    /\ record' = record
    /\ Reply("done")

Refuse ==
    /\ asked.content # None
    /\ ~live \/ ~Mine
    /\ record' = record
    /\ Reply("refused")

Fail == record' = record /\ Reply("failed")

Retire ==
    /\ live' = FALSE
    /\ UNCHANGED <<record, paper, acked, asked, asks>>

-----------------------------------------------------------------------------
Next ==
    \/ Edit \/ SignIn \/ Ask \/ Hear \/ GiveUp
    \/ Upload \/ Remove \/ NothingToRemove \/ Refuse \/ Fail
    \/ Retire

Spec == Init /\ [][patient' = patient /\ (patient => Next)]_vars
=============================================================================
