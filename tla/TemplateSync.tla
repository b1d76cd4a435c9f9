---------------------------- MODULE TemplateSync ----------------------------
(***************************************************************************)
(* Incremental sync of the template list: phones that poll                 *)
(* GET /templates?updated_since=<cursor> while editors write.              *)
(*                                                                         *)
(* The listing reads the rows in one SELECT.  A phone keeps the summaries  *)
(* it was sent, forgets a template whose tombstone arrives, and feeds the  *)
(* sync_cursor back as its next updated_since (schemas.py); an answer      *)
(* without a cursor leaves it with the one it had.                         *)
(***************************************************************************)
EXTENDS ExamTemplates

CONSTANTS
    Phones,   \* devices that sync
    Limit     \* the listing's `limit'

ASSUME SyncAssumption == Limit \in Nat \ {0}

VARIABLES
    cursor,   \* the updated_since of each phone's next poll; 0: a cold start
    local     \* the summary of each template each phone keeps, or None

syncVars == <<cursor, local>>

Summary == [name: Nat, revision: Nat, updatedAt: Nat]

SyncInit ==
    /\ Init
    /\ cursor = [p \in Phones |-> 0]
    /\ local = [p \in Phones |-> [t \in Templates |-> None]]

\* Mutant: tombstones are never listed.
MatchingLive(since) ==
    {t \in Templates : row[t] # None /\ ~row[t].deleted /\ row[t].updatedAt > since}

\* Without a cursor live templates only; with one everything changed since.
Matching(since) ==
    {t \in Templates : row[t] # None
                       /\ IF since = 0 THEN ~row[t].deleted
                          ELSE row[t].updatedAt > since}

\* ORDER BY updated_at DESC LIMIT limit.
Newest(ts) ==
    {t \in ts : Cardinality({u \in ts : row[u].updatedAt > row[t].updatedAt}) < Limit}

\* Mutant: the cursor is "now", the step the comment in list_templates warns of.
CursorNow(ts, since) == clock

\* The cursor is the newest row returned, and None if there is none.
SyncCursor(ts, since) ==
    IF ts = {} THEN since
    ELSE CHOOSE s \in {row[t].updatedAt : t \in ts} :
            \A t \in ts : row[t].updatedAt <= s

\* What a phone that has heard of t's last change keeps of it.
Known(t) == IF row[t] = None \/ row[t].deleted THEN None
            ELSE [name |-> row[t].name, revision |-> row[t].revision,
                  updatedAt |-> row[t].updatedAt]

ListTemplates(p) ==
    LET listed == Newest(Matching(cursor[p])) IN
    /\ cursor' = [cursor EXCEPT ![p] = SyncCursor(listed, @)]
    /\ local' = [local EXCEPT ![p] = [t \in Templates |->
                    IF t \in listed THEN Known(t) ELSE @[t]]]
    /\ UNCHANGED vars

SyncNext ==
    \/ Next /\ UNCHANGED syncVars
    \/ \E p \in Phones : ListTemplates(p)

SyncSpec == SyncInit /\ [][SyncNext]_<<vars, syncVars>>

\* Phones keep polling.
SyncFairSpec == SyncSpec /\ \A p \in Phones :
                    WF_<<vars, syncVars>>(ListTemplates(p))

-----------------------------------------------------------------------------
(* What must hold *)

\* Types, and no phone's cursor is ahead of the last timestamp issued.
SyncTypeOK ==
    /\ TypeOK
    /\ cursor \in [Phones -> 0..clock]
    /\ local \in [Phones -> [Templates -> Summary \cup {None}]]

\* The cursor never steps over a change: a phone whose cursor has passed the
\* last change of a template has been told of that change.  It holds for every
\* order of polls and writes as long as writers take turns and the listing is
\* not cut off by its limit.
NoChangeSkipped ==
    \A p \in Phones, t \in Templates :
        row[t] # None /\ row[t].updatedAt <= cursor[p] => local[p][t] = Known(t)

\* "A phone that was offline for a week has to learn that a template
\* disappeared": a phone that goes on polling loses a deleted template for good.
TombstonesArrive ==
    \A p \in Phones, t \in Templates :
        row[t] # None /\ row[t].deleted ~> [](local[p][t] = None)
=============================================================================
