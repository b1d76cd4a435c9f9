------------------------- MODULE TemplateSyncProofs -------------------------
(***************************************************************************)
(* Theorems about TemplateSync, for every set of phones and templates: the *)
(* listing and the cursor have their types whatever the handlers do, and   *)
(* as long as write handlers take turns and the limit does not cut the     *)
(* listing off, a cursor never steps over a change.                        *)
(***************************************************************************)
EXTENDS TemplateSync, SerialSavesProofs, FiniteSetTheorems, WellFoundedInduction

\* A bounded, nonempty set of numbers has a largest one.
LEMMA LargestExists ==
    ASSUME NEW n \in Nat, NEW S \in SUBSET (0..n), S # {}
    PROVE  \E m \in S : \A j \in S : j <= m
<1> DEFINE Above(i) == {j \in S : j > i}
           T == {Above(i) : i \in S}
<1>0. IsFiniteSet(S) /\ \A m \in S : m \in Nat
  <2>1. 0 \in Int /\ n \in Int
      OBVIOUS
  <2>2. IsFiniteSet(0..n)
      BY <2>1, FS_Interval
  <2>3. IsFiniteSet(S)
      BY <2>2, FS_Subset
  <2>4. \A m \in 0..n : m \in Nat
      OBVIOUS
  <2> QED BY <2>3, <2>4
<1>1. T \subseteq FiniteSubsetsOf(S)
  <2>1. \A i \in S : IsFiniteSet(Above(i))
      BY <1>0, FS_Subset
  <2> QED BY <2>1 DEF FiniteSubsetsOf
<1>2. IsWellFoundedOn(StrictSubsetOrdering(S), FiniteSubsetsOf(S))
    BY FS_StrictSubsetOrderingWellFounded
<1>3. T # {}
    OBVIOUS
<1>4. \E x \in T : \A y \in T : ~(<<y, x>> \in StrictSubsetOrdering(S))
  <2> HIDE DEF T
  <2> QED BY <1>1, <1>2, <1>3, WFMin
<1>5. PICK i \in S : \A j \in S : ~(<<Above(j), Above(i)>> \in StrictSubsetOrdering(S))
    BY <1>4
<1>6. \A j \in S : j <= i
  <2> SUFFICES ASSUME NEW j \in S, j > i  PROVE  FALSE
      OBVIOUS
  <2>1. j \in Above(i) /\ j \notin Above(j)
      BY <1>0
  <2>0. \A m \in S : m > j => m > i
      BY <1>0
  <2>2. Above(j) \subseteq Above(i) /\ Above(j) # Above(i)
      BY <2>0, <2>1
  <2>3. Above(j) \in SUBSET S /\ Above(i) \in SUBSET S
      OBVIOUS
  <2> HIDE DEF Above
  <2>4. <<Above(j), Above(i)>> \in StrictSubsetOrdering(S)
      BY <2>2, <2>3 DEF StrictSubsetOrdering
  <2> QED BY <1>5, <2>4
<1> QED BY <1>6

-----------------------------------------------------------------------------
(* Types *)

\* The columns of a stored row.
LEMMA RowFields ==
    ASSUME TypeInv, NEW t \in Templates, row[t] # None
    PROVE  /\ row[t] \in Row /\ row[t].deleted \in BOOLEAN
           /\ row[t].name \in Nat /\ row[t].revision \in Nat
           /\ row[t].updatedAt \in 1..clock /\ clock \in Nat
BY DEF TypeInv, TypeOK, Row

\* A listing holds stored rows, and only rows the request asks for.
LEMMA ListedAreStored ==
    ASSUME NEW since
    PROVE  /\ Newest(Matching(since)) \subseteq Templates
           /\ \A t \in Newest(Matching(since)) : row[t] # None
BY DEF Newest, Matching

\* The cursor of a listing is the last change among the rows it holds.
LEMMA CursorIsLast ==
    ASSUME TypeInv, NEW ts \in SUBSET Templates, \A t \in ts : row[t] # None,
           NEW since
    PROVE  /\ ts = {} => SyncCursor(ts, since) = since
           /\ ts # {} => /\ \E t \in ts : SyncCursor(ts, since) = row[t].updatedAt
                         /\ \A t \in ts : row[t].updatedAt <= SyncCursor(ts, since)
<1> DEFINE S == {row[t].updatedAt : t \in ts}
<1>1. CASE ts = {}
    BY <1>1 DEF SyncCursor
<1>2. CASE ts # {}
  <2>1. clock \in Nat /\ S \in SUBSET (0..clock) /\ S # {}
    <3>1. \A t \in ts : row[t].updatedAt \in 0..clock
        BY RowFields
    <3>2. clock \in Nat
        BY DEF TypeInv, TypeOK
    <3> QED BY <1>2, <3>1, <3>2
  <2>2. \E m \in S : \A j \in S : j <= m
    <3> HIDE DEF S
    <3> QED BY <2>1, LargestExists
  <2>3. \E s \in S : \A t \in ts : row[t].updatedAt <= s
      BY <2>2
  <2>4. SyncCursor(ts, since) = CHOOSE s \in S : \A t \in ts : row[t].updatedAt <= s
      BY <1>2 DEF SyncCursor
  <2>5. SyncCursor(ts, since) \in S /\ \A t \in ts : row[t].updatedAt <= SyncCursor(ts, since)
    <3> HIDE DEF S
    <3> QED BY <2>3, <2>4
  <2> QED BY <1>2, <2>5
<1> QED BY <1>1, <1>2

\* What a phone keeps, and a phone that has no cursor keeps nothing.
PhoneInv ==
    /\ cursor \in [Phones -> 0..clock]
    /\ local \in [Phones -> [Templates -> Summary \cup {None}]]
    /\ \A p \in Phones : cursor[p] = 0 => \A t \in Templates : local[p][t] = None

LEMMA InitPhone == SyncInit => PhoneInv
BY DEF SyncInit, Init, PhoneInv

LEMMA ListPhone ==
    ASSUME TypeInv, PhoneInv, NEW p \in Phones, ListTemplates(p)
    PROVE  PhoneInv'
<1> DEFINE listed == Newest(Matching(cursor[p]))
           c == SyncCursor(listed, cursor[p])
           kept == [t \in Templates |-> IF t \in listed THEN Known(t) ELSE local[p][t]]
<1>1. cursor' = [cursor EXCEPT ![p] = c] /\ local' = [local EXCEPT ![p] = kept]
      /\ clock' = clock
    BY DEF ListTemplates, vars
<1>2. listed \subseteq Templates /\ \A t \in listed : row[t] # None
    BY ListedAreStored
<1>3. /\ listed = {} => c = cursor[p]
      /\ listed # {} => \E t \in listed : c = row[t].updatedAt
    <2>1. listed \in SUBSET Templates
        BY <1>2
    <2> HIDE DEF listed
    <2> QED BY <1>2, <2>1, CursorIsLast
<1>4. c \in 0..clock /\ (c = 0 => listed = {} /\ cursor[p] = 0)
    <2>1. \A t \in listed : row[t].updatedAt \in 1..clock /\ clock \in Nat
        BY <1>2, RowFields
    <2>2. cursor[p] \in 0..clock
        BY DEF PhoneInv
    <2> HIDE DEF listed, c
    <2> QED BY <1>3, <2>1, <2>2
<1>5. \A t \in Templates : row[t] # None => Known(t) \in Summary \cup {None}
    BY RowFields DEF Known, Summary
<1>6. kept \in [Templates -> Summary \cup {None}]
    <2> HIDE DEF listed
    <2> QED BY <1>2, <1>5 DEF PhoneInv
<1>7. c = 0 => \A t \in Templates : kept[t] = None
    <2> HIDE DEF listed, c
    <2> QED BY <1>4 DEF PhoneInv
<1> HIDE DEF listed, c, kept
<1> QED BY <1>1, <1>4, <1>6, <1>7 DEF PhoneInv

\* Time does not go back.
LEMMA ClockGrows == ASSUME TypeInv, [Next]_vars PROVE clock' \in Nat /\ clock <= clock'
<1>1. clock \in Nat
    BY DEF TypeInv, TypeOK
<1>2. clock' = clock \/ clock' = clock + 1
  <2>1. ASSUME NEW e \in Editors, Start(e) PROVE clock' = clock \/ clock' = clock + 1
      BY <2>1 DEF Start, GetTemplate, UpdateTemplate, DeleteTemplate, CreateTemplate
  <2>2. ASSUME NEW e \in Editors, Step(e) PROVE clock' = clock \/ clock' = clock + 1
      BY <2>2 DEF Step, AnswerGet, CheckIfMatch, PreconditionFailed, FlushRow, DeletePages,
                  Stamp, CommitUpdate, PageIndexTaken, CommitDelete, CommitCreate,
                  DeadlockVictim
  <2>3. ASSUME NEW e \in Editors, Abandon(e) PROVE clock' = clock
      BY <2>3 DEF Abandon
  <2> QED BY <2>1, <2>2, <2>3 DEF Next, vars
<1> QED BY <1>1, <1>2

\* A step of the phones leaves the templates alone, a step of the editors the phones.
LEMMA StepsOfSync ==
    ASSUME [SyncNext]_<<vars, syncVars>>
    PROVE  \/ [Next]_vars /\ UNCHANGED syncVars
           \/ \E p \in Phones : ListTemplates(p) /\ [Next]_vars
BY DEF SyncNext, ListTemplates

LEMMA NextPhone ==
    TypeInv /\ PhoneInv /\ [SyncNext]_<<vars, syncVars>> => TypeInv' /\ PhoneInv'
<1> SUFFICES ASSUME TypeInv, PhoneInv, [SyncNext]_<<vars, syncVars>>
             PROVE  TypeInv' /\ PhoneInv'
    OBVIOUS
<1>1. TypeInv'
    BY StepsOfSync, NextType
<1>2. ASSUME [Next]_vars, UNCHANGED syncVars PROVE PhoneInv'
  <2>1. clock \in Nat /\ clock' \in Nat /\ clock <= clock'
      BY <1>2, ClockGrows DEF TypeInv, TypeOK
  <2>2. \A p \in Phones : cursor[p] \in 0..clock'
      BY <2>1 DEF PhoneInv
  <2> QED BY <1>2, <2>2 DEF PhoneInv, syncVars
<1> QED BY <1>1, <1>2, ListPhone, StepsOfSync

\* Every variable has its type and no cursor is ahead of the clock, however
\* write handlers and polls interleave (list_templates in routers/templates.py).
THEOREM SyncTypeCorrect == SyncSpec => []SyncTypeOK
<1>1. SyncInit => TypeInv /\ PhoneInv
    BY InitType, InitPhone DEF SyncInit
<1>2. TypeInv /\ PhoneInv => SyncTypeOK
    BY DEF TypeInv, PhoneInv, SyncTypeOK
<1> QED BY <1>1, <1>2, NextPhone, PTL DEF SyncSpec

-----------------------------------------------------------------------------
(* Nothing is skipped *)

\* A listing that the limit does not cut off holds every row it is asked for.
LEMMA ListingIsWhole ==
    ASSUME SyncAssumption, IsFiniteSet(Templates), Cardinality(Templates) <= Limit,
           TypeInv, NEW ts \in SUBSET Templates, \A t \in ts : row[t] # None
    PROVE  Newest(ts) = ts
<1> SUFFICES ASSUME NEW t \in ts
             PROVE  Cardinality({u \in ts : row[u].updatedAt > row[t].updatedAt}) < Limit
    BY DEF Newest
<1> DEFINE newer == {u \in ts : row[u].updatedAt > row[t].updatedAt}
           others == Templates \ {t}
<1>1. t \notin newer
  <2>1. row[t].updatedAt \in Nat
      BY RowFields
  <2> QED BY <2>1
<1>2. newer \in SUBSET others
    BY <1>1
<1>3. IsFiniteSet(others) /\ Cardinality(others) = Cardinality(Templates) - 1
    BY FS_RemoveElement
<1> HIDE DEF newer, others
<1>4. Cardinality(newer) <= Cardinality(others) /\ IsFiniteSet(newer)
    BY <1>2, <1>3, FS_Subset
<1>5. Cardinality(newer) \in Nat /\ Cardinality(Templates) \in Nat
    BY <1>4, FS_CardinalityType
<1>6. Cardinality(newer) < Limit
    BY <1>3, <1>4, <1>5 DEF SyncAssumption
<1> QED BY <1>6 DEF newer

\* A pending write is newer than everything stored and than every cursor: with
\* writers taking turns, nothing was stamped since.
PendingIsNewest ==
    \A e \in Editors : tx[e].pc = "commit" =>
        /\ \A p \in Phones : cursor[p] < tx[e].stamp
        /\ \A t \in Templates : row[t] # None => row[t].updatedAt < tx[e].stamp

SkipInv == PendingIsNewest /\ NoChangeSkipped

LEMMA InitSkip == SyncInit => SkipInv
BY DEF SyncInit, Init, SkipInv, PendingIsNewest, NoChangeSkipped, Idle

\* A poll: it lists every change behind the cursor, so nothing is left there.
LEMMA ListSkip ==
    ASSUME SyncAssumption, IsFiniteSet(Templates), Cardinality(Templates) <= Limit,
           TypeInv, PhoneInv, SkipInv, NEW p \in Phones, ListTemplates(p)
    PROVE  SkipInv'
<1> DEFINE listed == Newest(Matching(cursor[p]))
           c == SyncCursor(listed, cursor[p])
           kept == [t \in Templates |-> IF t \in listed THEN Known(t) ELSE local[p][t]]
<1>1. /\ cursor'[p] = c /\ \A q \in Phones \ {p} : cursor'[q] = cursor[q]
      /\ local'[p] = kept /\ \A q \in Phones \ {p} : local'[q] = local[q]
      /\ row' = row /\ tx' = tx
    BY DEF ListTemplates, vars, PhoneInv
<1>2. listed \in SUBSET Templates /\ \A t \in listed : row[t] # None
    BY ListedAreStored
<1>3. /\ listed = {} => c = cursor[p]
      /\ listed # {} => \E t \in listed : c = row[t].updatedAt
    <2> HIDE DEF listed
    <2> QED BY <1>2, CursorIsLast
<1>4. PendingIsNewest'
  <2>1. \A e \in Editors : tx[e].pc = "commit" => c < tx[e].stamp
      <3> HIDE DEF listed, c
      <3> QED BY <1>2, <1>3 DEF SkipInv, PendingIsNewest
  <2> HIDE DEF c
  <2> QED BY <1>1, <2>1 DEF SkipInv, PendingIsNewest
<1>5. ASSUME NEW t \in Templates, row[t] # None, row[t].updatedAt <= c
      PROVE  kept[t] = Known(t)
  <2>1. CASE t \in listed
      BY <2>1
  <2>2. CASE t \notin listed
    <3>1. /\ Matching(cursor[p]) \in SUBSET Templates
          /\ \A u \in Matching(cursor[p]) : row[u] # None
        BY DEF Matching
    <3>2. listed = Matching(cursor[p])
        BY <3>1, ListingIsWhole
    <3>3. row[t].updatedAt \in 1..clock /\ cursor[p] \in 0..clock /\ clock \in Nat
        BY <1>5, RowFields DEF PhoneInv
    <3>4. CASE cursor[p] = 0
      \* A cold start lists the live templates and the phone holds nothing.
      <4>1. row[t].deleted
          BY <1>5, <2>2, <3>2, <3>4 DEF Matching
      <4>2. local[p][t] = None
          BY <3>4 DEF PhoneInv
      <4> QED BY <2>2, <4>1, <4>2 DEF Known
    <3>5. CASE cursor[p] # 0
      <4>1. ~(row[t].updatedAt > cursor[p])
          BY <1>5, <2>2, <3>2, <3>5 DEF Matching
      <4>2. local[p][t] = Known(t)
          BY <1>5, <3>3, <4>1 DEF SkipInv, NoChangeSkipped
      <4> QED BY <2>2, <4>2
    <3> QED BY <3>4, <3>5
  <2> QED BY <2>1, <2>2
<1>6. \A t \in Templates : Known(t)' = Known(t)
    BY <1>1 DEF Known
<1> HIDE DEF listed, c, kept
<1>7. NoChangeSkipped'
  <2> SUFFICES ASSUME NEW q \in Phones, NEW t \in Templates,
                      row[t] # None, row[t].updatedAt <= cursor'[q]
               PROVE  local'[q][t] = Known(t)
      BY <1>1, <1>6 DEF NoChangeSkipped
  <2>1. CASE q = p
      BY <1>1, <1>5, <2>1
  <2>2. CASE q # p
      BY <1>1, <2>2 DEF SkipInv, NoChangeSkipped
  <2> QED BY <2>1, <2>2
<1> QED BY <1>4, <1>7 DEF SkipInv

\* A handler is stamped with the next moment, or was pending before.
LEMMA PendingSteps ==
    ASSUME TypeInv, [Next]_vars, NEW e \in Editors, tx'[e].pc = "commit"
    PROVE  \/ tx'[e].stamp = clock + 1 /\ UNCHANGED row
           \/ tx'[e] = tx[e]
<1>1. CASE UNCHANGED vars
    BY <1>1 DEF vars
<1>2. ASSUME NEW f \in Editors, Start(f) \/ Step(f) \/ Abandon(f), f # e
      PROVE  tx'[e] = tx[e]
    BY <1>2 DEF Start, GetTemplate, UpdateTemplate, DeleteTemplate, CreateTemplate,
                Step, AnswerGet, CheckIfMatch, PreconditionFailed, FlushRow, DeletePages,
                Stamp, CommitUpdate, PageIndexTaken, CommitDelete, CommitCreate,
                DeadlockVictim, Abandon, Closed, TypeInv, TypeOK
<1>3. CASE tx' = Closed(e)
    BY <1>3 DEF Closed, TypeInv, TypeOK, Idle
<1>4. CASE Stamp(e)
    BY <1>4 DEF Stamp, TypeInv, TypeOK, Handler
<1>5. CASE CheckIfMatch(e) \/ FlushRow(e) \/ DeletePages(e)
    BY <1>5 DEF CheckIfMatch, AfterCheck, FlushRow, DeletePages, TypeInv, TypeOK, Handler
<1>6. ASSUME Start(e) PROVE tx'[e].stamp = clock + 1 /\ UNCHANGED row
  <2>1. ASSUME NEW t \in Templates, CreateTemplate(e, t)
        PROVE  tx'[e].stamp = clock + 1 /\ UNCHANGED row
      BY <2>1 DEF CreateTemplate, InsertStamp, TypeInv, TypeOK, Idle
  <2>2. ASSUME NEW t \in Templates, GetTemplate(e, t) PROVE FALSE
      BY <2>2 DEF GetTemplate, TypeInv, TypeOK, Idle
  <2>3. ASSUME NEW t \in Templates, DeleteTemplate(e, t) PROVE FALSE
      BY <2>3 DEF DeleteTemplate, TypeInv, TypeOK, Idle
  <2>4. ASSUME UpdateTemplate(e) PROVE FALSE
      BY <2>4 DEF UpdateTemplate, TypeInv, TypeOK, Idle
  <2> QED BY <1>6, <2>1, <2>2, <2>3, <2>4 DEF Start
<1>7. CASE Step(e) \/ Abandon(e)
    BY <1>3, <1>4, <1>5, <1>7
    DEF Step, AnswerGet, PreconditionFailed, CommitUpdate, PageIndexTaken, CommitDelete,
        CommitCreate, DeadlockVictim, Abandon
<1> QED BY <1>1, <1>2, <1>6, <1>7 DEF Next

\* A commit writes one row, under the timestamp it was given, and ends its handler.
LEMMA CommitWrites ==
    ASSUME TypeInv, NEW e \in Editors, Commit(e)
    PROVE  /\ tx[e].pc = "commit" /\ tx[e].t \in Templates /\ tx'[e] = Idle
           /\ \A f \in Editors \ {e} : tx'[f] = tx[f]
           /\ row'[tx[e].t].updatedAt = tx[e].stamp
           /\ \A t \in Templates : t # tx[e].t => row'[t] = row[t]
<1>1. tx[e].pc = "commit" /\ tx[e].t \in Templates /\ tx' = Closed(e)
    BY DEF Commit, CommitUpdate, CommitDelete, CommitCreate, TypeInv, HandlerOK
<1>2. CASE CommitCreate(e)
    BY <1>1, <1>2 DEF CommitCreate, Closed, TypeInv, TypeOK
<1>3. CASE CommitUpdate(e) \/ CommitDelete(e)
  <2>1. row[tx[e].t] \in Row /\ tx[e].row \in Row
      BY <1>3 DEF CommitUpdate, CommitDelete, TypeInv, HandlerOK
  <2>2. Updated(e).updatedAt = tx[e].stamp /\ Updated(e) \in Row
      BY <1>1, <1>3, UpdatedIsRow DEF CommitUpdate, CommitDelete
  <2>3. row'[tx[e].t].updatedAt = tx[e].stamp
      BY <1>1, <1>3, <2>2 DEF CommitUpdate, CommitDelete, TypeInv, TypeOK, Row
  <2> QED BY <1>1, <1>3, <2>3 DEF CommitUpdate, CommitDelete, Closed, TypeInv, TypeOK
<1> QED BY <1>1, <1>2, <1>3 DEF Commit

\* A step of an editor: only its commit writes, and what it writes lies ahead of
\* every cursor.
LEMMA EditSkip ==
    ASSUME TypeInv, SerialInv, PhoneInv, SkipInv, [Next]_vars, UNCHANGED syncVars
    PROVE  SkipInv'
<1>1. cursor' = cursor /\ local' = local
    BY DEF syncVars
<1>2. CASE UNCHANGED <<row, pages>>
  <2>1. PendingIsNewest'
    <3> SUFFICES ASSUME NEW e \in Editors, tx'[e].pc = "commit"
                 PROVE  /\ \A p \in Phones : cursor[p] < tx'[e].stamp
                        /\ \A t \in Templates : row[t] # None
                                                => row[t].updatedAt < tx'[e].stamp
        BY <1>1, <1>2 DEF PendingIsNewest
    <3>1. CASE tx'[e] = tx[e]
        BY <3>1 DEF SkipInv, PendingIsNewest
    <3>2. CASE tx'[e].stamp = clock + 1
      <4>1. \A p \in Phones : cursor[p] \in 0..clock
          BY DEF PhoneInv
      <4>2. \A t \in Templates : row[t] # None => row[t].updatedAt \in 1..clock
          BY RowFields
      <4>3. clock \in Nat
          BY DEF TypeInv, TypeOK
      <4> QED BY <3>2, <4>1, <4>2, <4>3
    <3> QED BY <3>1, <3>2, PendingSteps
  <2>2. NoChangeSkipped'
      BY <1>1, <1>2 DEF SkipInv, NoChangeSkipped, Known
  <2> QED BY <2>1, <2>2 DEF SkipInv
<1>3. ASSUME NEW e \in Editors, Commit(e) PROVE SkipInv'
  <2>1. /\ tx[e].pc = "commit" /\ tx[e].t \in Templates /\ tx'[e] = Idle
        /\ \A f \in Editors \ {e} : tx'[f] = tx[f]
        /\ row'[tx[e].t].updatedAt = tx[e].stamp
        /\ \A t \in Templates : t # tx[e].t => row'[t] = row[t]
      BY <1>3, CommitWrites
  <2>2. \A f \in Editors \ {e} : tx[f].pc # "commit"
      BY <2>1 DEF SerialInv, OneWriter, IsWriter, TypeInv, HandlerOK
  <2>3. PendingIsNewest'
      BY <2>1, <2>2 DEF PendingIsNewest, Idle
  <2>4. \A p \in Phones : cursor[p] \in 0..clock /\ cursor[p] < tx[e].stamp
      BY <2>1 DEF SkipInv, PendingIsNewest, PhoneInv
  <2>5. tx[e].stamp \in Nat /\ clock \in Nat
      BY DEF TypeInv, TypeOK, Handler
  <2>6. NoChangeSkipped'
    <3> SUFFICES ASSUME NEW p \in Phones, NEW t \in Templates,
                        row'[t] # None, row'[t].updatedAt <= cursor[p]
                 PROVE  local[p][t] = Known(t)'
        BY <1>1 DEF NoChangeSkipped
    <3>1. t # tx[e].t
        BY <2>1, <2>4, <2>5
    <3>2. row'[t] = row[t]
        BY <2>1, <3>1
    <3> QED BY <3>2 DEF SkipInv, NoChangeSkipped, Known
  <2> QED BY <2>3, <2>6 DEF SkipInv
<1> QED BY <1>2, <1>3, OnlyCommitsWrite

LEMMA NextSkip ==
    ASSUME SyncAssumption, IsFiniteSet(Templates), Cardinality(Templates) <= Limit,
           TypeInv, SerialInv, PhoneInv, SkipInv, [SyncNext]_<<vars, syncVars>>
    PROVE  SkipInv'
BY StepsOfSync, EditSkip, ListSkip

\* A phone whose cursor has passed the last change of a template has been told
\* of it, if writers take turns (the stamp of a row is taken before its commit)
\* and the limit of the listing is not exceeded (templates.py, list_templates).
THEOREM NothingSkipped ==
    ~Overlap /\ IsFiniteSet(Templates) /\ Cardinality(Templates) <= Limit
    => (SyncSpec => []NoChangeSkipped)
<1> SUFFICES ASSUME ~Overlap, IsFiniteSet(Templates), Cardinality(Templates) <= Limit
             PROVE  SyncSpec => []NoChangeSkipped
    OBVIOUS
<1> DEFINE Inv == TypeInv /\ CreateOK /\ SerialInv /\ PhoneInv /\ SkipInv
<1>1. SyncInit => Inv
    BY InitType, InitCreate, InitSerial, InitPhone, InitSkip DEF SyncInit
<1>2. Inv /\ [SyncNext]_<<vars, syncVars>> => Inv'
  <2> SUFFICES ASSUME Inv, [SyncNext]_<<vars, syncVars>> PROVE Inv'
      OBVIOUS
  <2>1. [Next]_vars
      BY StepsOfSync
  <2>2. CreateOK' /\ SerialInv'
      BY <2>1, NextCreate, NextSerial
  <2> QED BY <2>2, NextPhone, NextSkip, SyncAssumption
<1>3. Inv => NoChangeSkipped
    BY DEF SkipInv
<1> HIDE DEF Inv
<1> QED BY <1>1, <1>2, <1>3, PTL DEF SyncSpec
=============================================================================
