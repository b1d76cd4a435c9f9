------------------------- MODULE SerialSavesProofs -------------------------
(***************************************************************************)
(* What If-Match is worth when write handlers take turns: a conditional    *)
(* save replaces exactly what its editor had open, and the handlers        *)
(* implement one register per template.  With overlapping handlers TLC     *)
(* shows the opposite.                                                     *)
(***************************************************************************)
EXTENDS ExamTemplatesProofs

OneWriter == \A e, f \in Editors : IsWriter(e) /\ IsWriter(f) => e = f

\* A writer works on what is stored, and a conditional one has been checked
\* against it; a reader on what was stored then.
LoadedOK(e) ==
    LET h == tx[e]  IN
    /\ h.kind \in {"patch", "delete"} => h.row = row[h.t]
    /\ h.kind = "patch" =>
         /\ held[e] # None /\ held[e].t = h.t /\ h.ifMatch \in {0, held[e].revision}
         /\ h.pc # "selectPages" => h.pages = pages[h.t]
                                    /\ h.ifMatch \in {0, h.row.revision}
         /\ h.pc \in {"flush", "deletePages"} => h.newPages # None
         /\ h.newPages = None \/ h.pc \notin {"stamp", "commit"} => h.gone = {}
         /\ h.newPages # None /\ h.pc \in {"stamp", "commit"} => h.gone = pages[h.t]
    /\ h.kind = "get" =>
         /\ h.row.revision <= row[h.t].revision
         /\ h.row.revision = row[h.t].revision => h.row.name = row[h.t].name

\* An editor's copy is of a template that is there, and older than what is
\* stored or equal to it.
CopyOK(e) ==
    LET h == held[e]  IN
    h # None =>
        /\ row[h.t] \in Row
        /\ h.revision <= row[h.t].revision
        /\ h.revision = row[h.t].revision
           => h.name = row[h.t].name /\ h.pages = pages[h.t]

SerialInv == OneWriter /\ \A e \in Editors : LoadedOK(e) /\ CopyOK(e)

LEMMA InitSerial == Init => SerialInv
BY DEF Init, SerialInv, OneWriter, LoadedOK, CopyOK, IsWriter, Idle

\* A step of e that changes nothing but its handler, and makes it no writer.
LEMMA OnlyHandler ==
    ASSUME TypeInv, SerialInv, NEW e \in Editors,
           UNCHANGED <<row, pages, held>>,
           \A f \in Editors \ {e} : tx'[f] = tx[f],
           IsWriter(e)' => IsWriter(e) \/ \A f \in Editors : ~IsWriter(f),
           LoadedOK(e)'
    PROVE  SerialInv'
<1>1. OneWriter'
  BY DEF SerialInv, OneWriter, IsWriter
<1>2. ASSUME NEW f \in Editors PROVE LoadedOK(f)' /\ CopyOK(f)'
  <2>1. CopyOK(f)'
    BY DEF SerialInv, CopyOK
  <2>2. CASE f # e
    BY <2>1, <2>2 DEF SerialInv, LoadedOK
  <2> QED
    BY <2>1, <2>2
<1> QED
  BY <1>1, <1>2 DEF SerialInv

LEMMA ClosedSerial ==
    ASSUME TypeInv, SerialInv, NEW e \in Editors, tx' = Closed(e),
           UNCHANGED <<row, pages, held>>
    PROVE  SerialInv'
<1>1. tx'[e] = Idle /\ \A f \in Editors \ {e} : tx'[f] = tx[f]
  BY DEF Closed, TypeInv, TypeOK
<1>2. LoadedOK(e)' /\ ~IsWriter(e)'
  BY <1>1 DEF LoadedOK, Idle, IsWriter
<1> QED
  BY <1>1, <1>2, OnlyHandler

LEMMA StartSerial ==
    ASSUME ~Overlap, TypeInv, SerialInv, NEW e \in Editors, Start(e)
    PROVE  SerialInv'
<1>1. ASSUME NEW t \in Templates, GetTemplate(e, t) PROVE SerialInv'
  <2>1. /\ tx'[e].kind = "get" /\ tx'[e].t = t /\ tx'[e].row = row[t]
        /\ \A f \in Editors \ {e} : tx'[f] = tx[f]
        /\ UNCHANGED <<row, pages, held>> /\ row[t] \in Row
    BY <1>1 DEF GetTemplate, Found, Idle, TypeInv, TypeOK
  <2>2. LoadedOK(e)' /\ ~IsWriter(e)'
    BY <2>1 DEF LoadedOK, IsWriter, Row
  <2> QED
    BY <2>1, <2>2, OnlyHandler
<1>2. ASSUME UpdateTemplate(e) PROVE SerialInv'
  <2>1. /\ tx'[e].kind = "patch" /\ tx'[e].pc = "selectPages"
        /\ tx'[e].t = held[e].t /\ tx'[e].row = row[held[e].t]
        /\ tx'[e].ifMatch \in {0, held[e].revision} /\ tx'[e].gone = {}
        /\ \A f \in Editors \ {e} : tx'[f] = tx[f]
        /\ UNCHANGED <<row, pages, held>> /\ held[e] # None
    BY <1>2 DEF UpdateTemplate, Idle, TypeInv, TypeOK
  <2>2. LoadedOK(e)'
    BY <2>1 DEF LoadedOK
  <2>3. \A f \in Editors : ~IsWriter(f)
    BY <1>2 DEF UpdateTemplate, WriterMayStart
  <2> QED
    BY <2>1, <2>2, <2>3, OnlyHandler
<1>3. ASSUME NEW t \in Templates, DeleteTemplate(e, t) PROVE SerialInv'
  <2>1. /\ tx'[e].kind = "delete" /\ tx'[e].t = t /\ tx'[e].row = row[t]
        /\ \A f \in Editors \ {e} : tx'[f] = tx[f]
        /\ UNCHANGED <<row, pages, held>>
    BY <1>3 DEF DeleteTemplate, Idle, TypeInv, TypeOK
  <2>2. LoadedOK(e)'
    BY <2>1 DEF LoadedOK
  <2>3. \A f \in Editors : ~IsWriter(f)
    BY <1>3 DEF DeleteTemplate, WriterMayStart
  <2> QED
    BY <2>1, <2>2, <2>3, OnlyHandler
<1>4. ASSUME NEW t \in Templates, CreateTemplate(e, t) PROVE SerialInv'
  <2>1. /\ tx'[e].kind = "create"
        /\ \A f \in Editors \ {e} : tx'[f] = tx[f]
        /\ UNCHANGED <<row, pages, held>>
    BY <1>4 DEF CreateTemplate, InsertStamp, Idle, TypeInv, TypeOK
  <2>2. LoadedOK(e)'
    BY <2>1 DEF LoadedOK
  <2>3. \A f \in Editors : ~IsWriter(f)
    BY <1>4 DEF CreateTemplate, InsertStamp, WriterMayStart
  <2> QED
    BY <2>1, <2>2, <2>3, OnlyHandler
<1> QED
  BY <1>1, <1>2, <1>3, <1>4 DEF Start

\* The steps of a PATCH or DELETE before its commit.
LEMMA ProgressSerial ==
    ASSUME TypeInv, SerialInv, NEW e \in Editors,
           CheckIfMatch(e) \/ FlushRow(e) \/ DeletePages(e) \/ Stamp(e)
    PROVE  SerialInv'
<1>1. /\ \A f \in Editors \ {e} : tx'[f] = tx[f]
      /\ UNCHANGED <<row, pages, held>>
      /\ tx[e] \in Handler /\ LoadedOK(e) /\ HandlerOK(e)
  BY DEF CheckIfMatch, FlushRow, DeletePages, Stamp, TypeInv, TypeOK, SerialInv
<1>2. tx'[e].kind = tx[e].kind
  BY <1>1 DEF CheckIfMatch, FlushRow, DeletePages, Stamp, TypeInv, TypeOK, Handler
<1>3. LoadedOK(e)'
  <2>1. CASE CheckIfMatch(e)
    <3>1. /\ tx'[e].pc = AfterCheck(e)
          /\ tx'[e].pages = pages[tx[e].t]
          /\ tx'[e].kind = tx[e].kind
          /\ tx'[e].t = tx[e].t
          /\ tx'[e].ifMatch = tx[e].ifMatch
          /\ tx'[e].newPages = tx[e].newPages
          /\ tx'[e].row = tx[e].row
          /\ tx'[e].gone = tx[e].gone
      BY <1>1, <2>1 DEF CheckIfMatch, Handler, TypeInv, TypeOK
    <3>2. /\ tx[e].kind = "patch" /\ tx[e].pc = "selectPages"
          /\ tx[e].ifMatch \in {0, tx[e].row.revision}
          /\ held' = held /\ row' = row /\ pages' = pages
      BY <2>1 DEF CheckIfMatch, Matches
    <3>3. /\ tx[e].newPages = None => AfterCheck(e) = "stamp"
          /\ tx[e].newPages # None => AfterCheck(e) \in {"flush", "deletePages"}
      BY DEF AfterCheck
    <3> QED
      BY <1>1, <3>1, <3>2, <3>3 DEF LoadedOK
  <2>2. CASE FlushRow(e)
    <3>1. /\ tx'[e].pc = "deletePages"
          /\ tx'[e].kind = tx[e].kind
          /\ tx'[e].t = tx[e].t
          /\ tx'[e].ifMatch = tx[e].ifMatch
          /\ tx'[e].newPages = tx[e].newPages
          /\ tx'[e].row = tx[e].row
          /\ tx'[e].pages = tx[e].pages
          /\ tx'[e].gone = tx[e].gone
      BY <1>1, <2>2 DEF FlushRow, Handler, TypeInv, TypeOK
    <3> QED
      BY <1>1, <2>2, <3>1 DEF LoadedOK, FlushRow, HandlerOK
  <2>3. CASE DeletePages(e)
    <3>1. /\ tx'[e].pc = "stamp"
          /\ tx'[e].gone = Doomed(e)
          /\ tx'[e].kind = tx[e].kind
          /\ tx'[e].t = tx[e].t
          /\ tx'[e].ifMatch = tx[e].ifMatch
          /\ tx'[e].newPages = tx[e].newPages
          /\ tx'[e].row = tx[e].row
          /\ tx'[e].pages = tx[e].pages
      BY <1>1, <2>3 DEF DeletePages, Handler, TypeInv, TypeOK
    <3> QED
      BY <1>1, <2>3, <3>1, ZenonT(30) DEF LoadedOK, DeletePages, HandlerOK, Doomed
  <2>4. CASE Stamp(e)
    <3>1. /\ tx'[e].pc = "commit"
          /\ tx'[e].kind = tx[e].kind
          /\ tx'[e].t = tx[e].t
          /\ tx'[e].ifMatch = tx[e].ifMatch
          /\ tx'[e].newPages = tx[e].newPages
          /\ tx'[e].row = tx[e].row
          /\ tx'[e].pages = tx[e].pages
          /\ tx'[e].gone = tx[e].gone
      BY <1>1, <2>4 DEF Stamp, Handler, TypeInv, TypeOK
    <3> QED
      BY <1>1, <2>4, <3>1 DEF LoadedOK, Stamp, HandlerOK
  <2> QED
    BY <2>1, <2>2, <2>3, <2>4
<1>4. IsWriter(e)' => IsWriter(e)
  BY <1>2 DEF IsWriter
<1> QED
  BY <1>1, <1>3, <1>4, OnlyHandler

LEMMA AnswerSerial ==
    ASSUME TypeInv, SerialInv, NEW e \in Editors, AnswerGet(e)
    PROVE  SerialInv'
<1> DEFINE t == tx[e].t
<1>1. /\ tx'[e] = Idle /\ \A f \in Editors \ {e} : tx'[f] = tx[f] /\ held'[f] = held[f]
      /\ UNCHANGED <<row, pages>> /\ tx[e].kind = "get"
  BY DEF AnswerGet, Closed, TypeInv, TypeOK
<1>2. /\ held'[e] = [t |-> t, revision |-> tx[e].row.revision,
                     name |-> tx[e].row.name, pages |-> pages[t]]
      /\ row[t] \in Row
      /\ tx[e].row.revision <= row[t].revision
      /\ tx[e].row.revision = row[t].revision => tx[e].row.name = row[t].name
  BY <1>1 DEF AnswerGet, TypeInv, TypeOK, HandlerOK, SerialInv, LoadedOK
<1>3. CopyOK(e)'
  BY <1>1, <1>2 DEF CopyOK
<1>4. LoadedOK(e)' /\ ~IsWriter(e)'
  BY <1>1 DEF LoadedOK, IsWriter, Idle
<1>5. \A f \in Editors \ {e} : LoadedOK(f)' /\ CopyOK(f)'
  BY <1>1 DEF SerialInv, LoadedOK, CopyOK
<1>6. OneWriter'
  BY <1>1, <1>4 DEF SerialInv, OneWriter, IsWriter
<1> QED
  BY <1>3, <1>4, <1>5, <1>6 DEF SerialInv

\* A commit by the only writer, under a higher revision: whoever holds or reads
\* the template now has something older.
LEMMA CommitSerial ==
    ASSUME TypeInv, SerialInv, NEW e \in Editors, IsWriter(e),
           tx' = Closed(e),
           \A t \in Templates : t # tx[e].t => row'[t] = row[t] /\ pages'[t] = pages[t],
           row'[tx[e].t] \in Row,
           row[tx[e].t] \in Row => row[tx[e].t].revision < row'[tx[e].t].revision,
           row[tx[e].t] \in Row \cup {None},
           \A f \in Editors : row[tx[e].t] = None /\ held[f] # None
                              => held[f].t # tx[e].t,
           \A f \in Editors \ {e} : held'[f] = held[f],
           held'[e] = held[e] \/ CopyOK(e)'
    PROVE  SerialInv'
<1> DEFINE t == tx[e].t
<1>1. tx'[e] = Idle /\ \A f \in Editors \ {e} : tx'[f] = tx[f]
  BY DEF Closed, TypeInv, TypeOK
<1>2. \A f \in Editors \ {e} : ~IsWriter(f)
  BY DEF SerialInv, OneWriter
<1>3. LoadedOK(e)' /\ ~IsWriter(e)'
  BY <1>1 DEF LoadedOK, IsWriter, Idle
<1>4. OneWriter'
  BY <1>1, <1>2, <1>3 DEF OneWriter, IsWriter
<1>5. ASSUME NEW f \in Editors, f # e PROVE LoadedOK(f)'
  <2>1. CASE tx[f].kind # "get"
    BY <1>1, <1>2, <1>5, <2>1 DEF LoadedOK, IsWriter
  <2>2. CASE tx[f].kind = "get"
    <3>1. /\ tx[f].t \in Templates /\ row[tx[f].t] \in Row /\ tx[f].row \in Row
          /\ tx[f].row.revision <= row[tx[f].t].revision
          /\ tx[f].row.revision = row[tx[f].t].revision
             => tx[f].row.name = row[tx[f].t].name
      BY <2>2 DEF TypeInv, HandlerOK, SerialInv, LoadedOK
    <3>2. tx[f].row.revision <= row'[tx[f].t].revision
          /\ (tx[f].row.revision = row'[tx[f].t].revision
              => tx[f].row.name = row'[tx[f].t].name)
      BY <3>1 DEF Row
    <3> QED
      BY <1>1, <1>5, <2>2, <3>2 DEF LoadedOK
  <2> QED
    BY <2>1, <2>2
<1>6. ASSUME NEW f \in Editors, held'[f] = held[f] PROVE CopyOK(f)'
  <2>1. CASE held[f] = None
    BY <1>6, <2>1 DEF CopyOK
  <2>2. CASE held[f] # None
    <3>1. /\ held[f] \in View /\ held[f].t \in Templates /\ row[held[f].t] \in Row
          /\ held[f].revision <= row[held[f].t].revision
          /\ held[f].revision = row[held[f].t].revision
             => held[f].name = row[held[f].t].name /\ held[f].pages = pages[held[f].t]
      BY <2>2 DEF TypeInv, TypeOK, View, SerialInv, CopyOK
    <3>2. CASE held[f].t = t
      BY <1>6, <2>2, <3>1, <3>2 DEF CopyOK, View, Row
    <3>3. CASE held[f].t # t
      BY <1>6, <2>2, <3>1, <3>3 DEF CopyOK
    <3> QED
      BY <3>2, <3>3
  <2> QED
    BY <2>1, <2>2
<1>7. \A f \in Editors : LoadedOK(f)' /\ CopyOK(f)'
  BY <1>3, <1>5, <1>6
<1> QED
  BY <1>4, <1>7 DEF SerialInv

LEMMA CommitUpdateSerial ==
    ASSUME TypeInv, SerialInv, NEW e \in Editors, CommitUpdate(e)
    PROVE  SerialInv'
<1> DEFINE t == tx[e].t
<1>1. /\ tx[e] \in Handler /\ t \in Templates /\ tx[e].row \in Row /\ row[t] \in Row
      /\ tx[e].kind = "patch" /\ tx[e].pc = "commit"
  BY DEF CommitUpdate, TypeInv, TypeOK, HandlerOK
<1>2. tx[e].row = row[t] /\ tx[e].pages = pages[t]
      /\ tx[e].gone = IF tx[e].newPages = None THEN {} ELSE pages[t]
  BY <1>1 DEF SerialInv, LoadedOK
<1>3. /\ Updated(e) \in Row /\ Updated(e).revision = row[t].revision + 1
      /\ Updated(e).name = row[t].name
  <2>1. Updated(e).name = row[t].name
    BY <1>1 DEF Updated, Row
  <2> QED
    BY <1>1, <1>2, <2>1, UpdatedIsRow DEF Bumped
<1>4. row'[t] = [Updated(e) EXCEPT !.name = IF tx[e].setName THEN tx[e].req ELSE @]
      /\ pages'[t] = (pages[t] \ tx[e].gone) \cup Inserted(e)
      /\ \A u \in Templates : u # t => row'[u] = row[u] /\ pages'[u] = pages[u]
  BY <1>1 DEF CommitUpdate, TypeInv, TypeOK
<1>5. /\ row'[t] \in Row /\ row'[t].revision = row[t].revision + 1
      /\ row'[t].name = IF tx[e].setName THEN tx[e].req ELSE row[t].name
  BY <1>1, <1>3, <1>4 DEF Row, Handler
<1>6. pages'[t] = IF tx[e].newPages = None THEN pages[t] ELSE Inserted(e)
  BY <1>1, <1>2, <1>4 DEF Inserted
<1>7. CASE held' = held
  BY <1>1, <1>4, <1>5, <1>7, CommitSerial, NoneAssumption, SMTT(20)
  DEF CommitUpdate, IsWriter, Row
<1>8. CASE held' = [held EXCEPT ![e] = Answer(e)]
  <2>1. held'[e] = Answer(e) /\ \A f \in Editors \ {e} : held'[f] = held[f]
    BY <1>8 DEF TypeInv, TypeOK
  <2>2. CopyOK(e)'
    BY <1>1, <1>2, <1>5, <1>6, <2>1 DEF CopyOK, Answer, Bumped, Row
  <2> QED
    BY <1>1, <1>4, <1>5, <2>1, <2>2, CommitSerial, NoneAssumption, SMTT(20)
    DEF CommitUpdate, IsWriter, Row
<1> QED
  BY <1>7, <1>8 DEF CommitUpdate

LEMMA CommitDeleteSerial ==
    ASSUME TypeInv, SerialInv, NEW e \in Editors, CommitDelete(e)
    PROVE  SerialInv'
<1> DEFINE t == tx[e].t
<1>1. /\ t \in Templates /\ tx[e].row \in Row /\ row[t] \in Row
      /\ tx[e].kind = "delete" /\ tx[e].pc = "commit" /\ tx[e].row = row[t]
  BY DEF CommitDelete, TypeInv, HandlerOK, SerialInv, LoadedOK
<1>2. Updated(e) \in Row /\ Updated(e).revision = row[t].revision + 1
  BY <1>1, UpdatedIsRow DEF Bumped
<1>3. row'[t] = [Updated(e) EXCEPT !.deleted = TRUE]
      /\ \A u \in Templates : u # t => row'[u] = row[u] /\ pages'[u] = pages[u]
  BY <1>1 DEF CommitDelete, TypeInv, TypeOK
<1>4. row'[t] \in Row /\ row'[t].revision = row[t].revision + 1
  BY <1>2, <1>3 DEF Row
<1>5. tx' = Closed(e) /\ held' = held /\ IsWriter(e)
  BY <1>1 DEF CommitDelete, IsWriter
<1>6. row[t].revision < row'[t].revision /\ row[t] # None
  BY <1>1, <1>4, NoneAssumption DEF Row
<1> QED
  BY <1>1, <1>3, <1>4, <1>5, <1>6, CommitSerial

LEMMA CommitCreateSerial ==
    ASSUME TypeInv, CreateOK, SerialInv, NEW e \in Editors, CommitCreate(e)
    PROVE  SerialInv'
<1> DEFINE t == tx[e].t
           r == [name |-> tx[e].req, revision |-> 1, updatedAt |-> tx[e].stamp,
                 deleted |-> FALSE, updatedBy |-> None]
           a == [t |-> tx[e].t, revision |-> 1, name |-> tx[e].req,
                 pages |-> Inserted(e)]
<1>1. /\ t \in Templates /\ tx[e] \in Handler
      /\ tx[e].kind = "create" /\ tx[e].pc = "commit" /\ row[t] = None
  BY DEF CommitCreate, TypeInv, TypeOK, HandlerOK, CreateOK
<1>2. /\ row'[t] = r /\ pages'[t] = Inserted(e)
      /\ \A u \in Templates : u # t => row'[u] = row[u] /\ pages'[u] = pages[u]
  BY <1>1 DEF CommitCreate, TypeInv, TypeOK
<1>3. r \in Row
  BY <1>1 DEF Row, Handler
<1>4. \A f \in Editors : held[f] # None => held[f].t # t
  BY <1>1, NoneAssumption DEF SerialInv, CopyOK
<1>5. /\ \A f \in Editors \ {e} : held'[f] = held[f]
      /\ held'[e] = held[e] \/ held'[e] = a
  BY DEF CommitCreate, TypeInv, TypeOK
<1>6. held'[e] = a => CopyOK(e)'
  BY <1>2, <1>3 DEF CopyOK
<1>7. row[t] \notin Row /\ row'[t] \in Row
  BY <1>1, <1>2, <1>3, NoneAssumption
<1>8. tx' = Closed(e) /\ IsWriter(e)
  BY <1>1 DEF CommitCreate, IsWriter
<1>9. \A f \in Editors : row[t] = None /\ held[f] # None => held[f].t # t
  BY <1>4
<1>10. held'[e] = held[e] \/ CopyOK(e)'
  BY <1>5, <1>6
<1>11. \A u \in Templates : u # t => row'[u] = row[u] /\ pages'[u] = pages[u]
  BY <1>2
<1>12. row[t] \in Row \cup {None} /\ (row[t] \in Row => row[t].revision < row'[t].revision)
  BY <1>1, <1>7
<1> HIDE DEF r, a
<1> QED
  BY <1>5, <1>7, <1>8, <1>9, <1>10, <1>11, <1>12, CommitSerial

LEMMA NextSerial ==
    ~Overlap /\ TypeInv /\ CreateOK /\ SerialInv /\ [Next]_vars => SerialInv'
<1> SUFFICES ASSUME ~Overlap, TypeInv, CreateOK, SerialInv, [Next]_vars
             PROVE  SerialInv'
  OBVIOUS
<1>1. ASSUME NEW e \in Editors, Step(e) PROVE SerialInv'
  <2>1. CASE \/ PreconditionFailed(e) \/ PageIndexTaken(e) \/ DeadlockVictim(e)
    BY <2>1, ClosedSerial DEF PreconditionFailed, PageIndexTaken, DeadlockVictim
  <2> QED
    BY <1>1, <2>1, AnswerSerial, ProgressSerial, CommitUpdateSerial,
       CommitDeleteSerial, CommitCreateSerial DEF Step
<1>2. ASSUME NEW e \in Editors, Abandon(e) PROVE SerialInv'
  BY <1>2, ClosedSerial DEF Abandon
<1>3. CASE UNCHANGED vars
  BY <1>3 DEF vars, SerialInv, OneWriter, LoadedOK, CopyOK, IsWriter
<1> QED
  BY <1>1, <1>2, <1>3, StartSerial DEF Next

\* The invariants that carry it, for a run of the handlers.
LEMMA SerialInvariant == ~Overlap => (Spec => [](TypeInv /\ CreateOK /\ SerialInv))
<1> SUFFICES ASSUME ~Overlap PROVE Spec => [](TypeInv /\ CreateOK /\ SerialInv)
  OBVIOUS
<1>1. TypeInv /\ CreateOK /\ SerialInv /\ [Next]_vars
      => (TypeInv /\ CreateOK /\ SerialInv)'
  BY NextType, NextCreate, NextSerial
<1> QED
  BY <1>1, InitType, InitCreate, InitSerial, PTL DEF Spec

\* Without overlap the stored revision identifies the stored content.
THEOREM RevisionIdentifiesContent ==
    ~Overlap => (Spec => []CurrentRevisionIsCurrentContent)
<1>1. SerialInv => CurrentRevisionIsCurrentContent
  BY DEF SerialInv, CopyOK, CurrentRevisionIsCurrentContent
<1> QED
  BY <1>1, SerialInvariant, PTL

\* Without overlap If-Match does what it is for.
THEOREM SerialSaves == ~Overlap => (Spec => NoSilentOverwrite)
<1>1. TypeInv /\ CreateOK /\ SerialInv /\ [Next]_vars
      => [\A e \in Editors :
            Commits(e) /\ tx[e].ifMatch # 0
                => /\ held[e].name = row[tx[e].t].name
                   /\ held[e].pages = pages[tx[e].t]]_vars
  <2> SUFFICES ASSUME TypeInv, CreateOK, SerialInv, [Next]_vars, NEW e \in Editors,
                      Commits(e), tx[e].ifMatch # 0
               PROVE  /\ held[e].name = row[tx[e].t].name
                      /\ held[e].pages = pages[tx[e].t]
    OBVIOUS
  <2>1. CommitUpdate(e)
    <3>1. PICK f \in Editors : Commit(f)
      BY OnlyCommitsWrite DEF Commits
    <3>2. \A g \in Editors \ {f} : tx'[g] = tx[g]
      BY <3>1 DEF Commit, CommitUpdate, CommitDelete, CommitCreate, Closed,
                  TypeInv, TypeOK
    <3> QED
      BY <3>1, <3>2 DEF Commits, Commit, CommitDelete, CommitCreate
  <2>2. /\ held[e] # None /\ held[e].t = tx[e].t
        /\ held[e].revision = row[tx[e].t].revision
    BY <2>1 DEF CommitUpdate, SerialInv, LoadedOK
  <2> QED
    BY <2>2 DEF SerialInv, CopyOK
<1> QED
  BY <1>1, SerialInvariant, PTL DEF Spec, NoSilentOverwrite

-----------------------------------------------------------------------------
(* The handlers implement the register.  Its three variables, as Register    *)
(* substitutes them:                                                        *)

reg == [t \in Templates |->
           IF row[t] = None THEN None
           ELSE [content |-> <<row[t].name, pages[t]>>,
                 revision |-> row[t].revision, deleted |-> row[t].deleted]]

cop == [e \in Editors |->
           IF held[e] = None THEN None
           ELSE [t |-> held[e].t, content |-> <<held[e].name, held[e].pages>>,
                 revision |-> held[e].revision]]

ask == [e \in Editors |-> IF tx[e].kind # "patch" THEN "none"
                          ELSE IF tx[e].ifMatch = 0 THEN "any" ELSE "checked"]

\* A PATCH or DELETE has loaded a template that was not deleted.
AliveOK == \A e \in Editors : tx[e].kind \in {"patch", "delete"} => ~tx[e].row.deleted

LEMMA InitAlive == Init => AliveOK
BY DEF Init, AliveOK, Idle

\* A handler keeps its kind and the row it loaded until it ends.
LEMMA HandlerSteps ==
    ASSUME TypeInv, [Next]_vars, NEW e \in Editors
    PROVE  \/ tx'[e].kind = tx[e].kind /\ tx'[e].row = tx[e].row
              /\ tx'[e].ifMatch = tx[e].ifMatch
           \/ tx[e] = Idle /\ (tx'[e].kind \in {"patch", "delete"} => ~tx'[e].row.deleted)
           \/ tx'[e] = Idle
<1>1. CASE UNCHANGED vars
    BY <1>1 DEF vars
<1>2. ASSUME NEW f \in Editors, Start(f) \/ Step(f) \/ Abandon(f), f # e
      PROVE  tx'[e] = tx[e]
    BY <1>2 DEF Start, GetTemplate, UpdateTemplate, DeleteTemplate, CreateTemplate,
                Step, AnswerGet, CheckIfMatch, PreconditionFailed, FlushRow, DeletePages,
                Stamp, CommitUpdate, PageIndexTaken, CommitDelete, CommitCreate,
                DeadlockVictim, Abandon, Closed, TypeInv, TypeOK
<1>3. CASE tx' = Closed(e)
    BY <1>3 DEF Closed, TypeInv, TypeOK
<1>4. CASE CheckIfMatch(e) \/ FlushRow(e) \/ DeletePages(e) \/ Stamp(e)
    BY <1>4 DEF CheckIfMatch, FlushRow, DeletePages, Stamp, TypeInv, TypeOK, Handler
<1>5. ASSUME Start(e)
      PROVE  tx[e] = Idle /\ (tx'[e].kind \in {"patch", "delete"} => ~tx'[e].row.deleted)
  <2>1. ASSUME NEW t \in Templates, CreateTemplate(e, t)
        PROVE  tx[e] = Idle /\ tx'[e].kind = "create"
      BY <2>1 DEF CreateTemplate, WriterMayStart, TypeInv, TypeOK, Idle
  <2>2. ASSUME NEW t \in Templates, GetTemplate(e, t)
        PROVE  tx[e] = Idle /\ tx'[e].kind = "get"
      BY <2>2 DEF GetTemplate, TypeInv, TypeOK, Idle
  <2>3. ASSUME NEW t \in Templates, DeleteTemplate(e, t)
        PROVE  tx[e] = Idle /\ ~tx'[e].row.deleted
      BY <2>3 DEF DeleteTemplate, WriterMayStart, Found, TypeInv, TypeOK, Idle
  <2>4. ASSUME UpdateTemplate(e) PROVE tx[e] = Idle /\ ~tx'[e].row.deleted
      BY <2>4 DEF UpdateTemplate, WriterMayStart, Found, TypeInv, TypeOK, Idle
  <2> QED BY <1>5, <2>1, <2>2, <2>3, <2>4 DEF Start
<1>6. CASE Step(e) \/ Abandon(e)
    BY <1>3, <1>4, <1>6
    DEF Step, AnswerGet, PreconditionFailed, CommitUpdate, PageIndexTaken, CommitDelete,
        CommitCreate, DeadlockVictim, Abandon
<1> QED BY <1>1, <1>2, <1>5, <1>6 DEF Next

LEMMA NextAlive == TypeInv /\ AliveOK /\ [Next]_vars => AliveOK'
BY HandlerSteps DEF AliveOK, Idle

\* Two functions that differ at one point.
LEMMA OnePoint ==
    ASSUME NEW S, NEW F, NEW G, F = [x \in S |-> F[x]], G = [x \in S |-> G[x]],
           NEW e \in S, \A x \in S \ {e} : G[x] = F[x]
    PROVE  G = [F EXCEPT ![e] = G[e]]
OBVIOUS

\* A step that writes nothing and leaves e as it was, or closes a session of e
\* that was no PATCH.
LEMMA Stutters ==
    ASSUME UNCHANGED <<row, pages, held>>, NEW e \in Editors,
           \A f \in Editors \ {e} : tx'[f] = tx[f],
           \/ tx'[e].kind = tx[e].kind /\ tx'[e].ifMatch = tx[e].ifMatch
           \/ tx[e].kind # "patch" /\ tx'[e].kind # "patch"
    PROVE  UNCHANGED <<reg, cop, ask>>
<1>1. reg' = reg /\ cop' = cop
    BY DEF reg, cop
<1>2. \A f \in Editors : ask'[f] = ask[f]
    BY DEF ask
<1>3. ask = [f \in Editors |-> ask[f]] /\ ask' = [f \in Editors |-> ask'[f]]
    BY DEF ask
<1> HIDE DEF ask
<1> QED BY <1>1, <1>2, <1>3

\* The three variables of the register, point by point.
LEMMA Images ==
    /\ reg = [t \in Templates |-> reg[t]] /\ reg' = [t \in Templates |-> reg'[t]]
    /\ cop = [e \in Editors |-> cop[e]] /\ cop' = [e \in Editors |-> cop'[e]]
    /\ ask = [e \in Editors |-> ask[e]] /\ ask' = [e \in Editors |-> ask'[e]]
BY DEF reg, cop, ask

\* A row's image, and a view's.
LEMMA ImageOfRow ==
    ASSUME TypeInv, NEW t \in Templates, row[t] # None
    PROVE  /\ reg[t] = [content |-> <<row[t].name, pages[t]>>,
                        revision |-> row[t].revision, deleted |-> row[t].deleted]
           /\ reg[t] # None
<1>1. reg[t] = [content |-> <<row[t].name, pages[t]>>,
                revision |-> row[t].revision, deleted |-> row[t].deleted]
    BY DEF reg
<1>2. row[t] \in Row /\ pages[t] \in SUBSET PageRow
    BY DEF TypeInv, TypeOK
<1>3. reg[t] \in [content: Content, revision: Nat, deleted: BOOLEAN]
    BY <1>1, <1>2 DEF Row, Content
<1> QED BY <1>1, <1>3, RegisterAssumption

LEMMA ImageOfCopy ==
    ASSUME TypeInv, NEW e \in Editors, held[e] # None
    PROVE  /\ cop[e] = [t |-> held[e].t, content |-> <<held[e].name, held[e].pages>>,
                        revision |-> held[e].revision]
           /\ cop[e] # None
<1>1. cop[e] = [t |-> held[e].t, content |-> <<held[e].name, held[e].pages>>,
                revision |-> held[e].revision]
    BY DEF cop
<1>2. held[e] \in View
    BY DEF TypeInv, TypeOK
<1>3. cop[e] \in [t: Templates, content: Content, revision: Nat]
    BY <1>1, <1>2 DEF View, Content
<1> QED BY <1>1, <1>3, RegisterAssumption

\* GET opens a copy that is current, or of an older revision.
LEMMA AnswerOpens ==
    ASSUME TypeInv, TypeInv', SerialInv, NEW e \in Editors, AnswerGet(e)
    PROVE  \E t \in Templates : Register!Open(e, t)
<1> DEFINE t == tx[e].t
<1>1. /\ t \in Templates /\ row[t] \in Row /\ row[t] # None /\ tx[e].row \in Row
      /\ tx[e].row.revision <= row[t].revision
      /\ tx[e].row.revision = row[t].revision => tx[e].row.name = row[t].name
      /\ row' = row /\ pages' = pages /\ tx' = Closed(e)
      /\ tx[e].kind = "get"
    BY NoneAssumption DEF AnswerGet, TypeInv, HandlerOK, SerialInv, LoadedOK
<1>2. /\ held'[e] = [t |-> t, revision |-> tx[e].row.revision,
                     name |-> tx[e].row.name, pages |-> pages[t]]
      /\ \A f \in Editors \ {e} : held'[f] = held[f]
      /\ tx'[e] = Idle /\ \A f \in Editors \ {e} : tx'[f] = tx[f]
    BY <1>1 DEF AnswerGet, Closed, TypeInv, TypeOK
<1>3. held'[e] # None
  <2>1. held'[e] \in View
      BY <1>1, <1>2 DEF View, TypeInv, TypeOK, Row
  <2> QED BY <2>1, NoneAssumption
<1>4. /\ cop'[e] = [t |-> t, content |-> <<tx[e].row.name, pages[t]>>,
                    revision |-> tx[e].row.revision]
      /\ cop'[e] # None
  <2>1. cop'[e] = [t |-> held'[e].t, content |-> <<held'[e].name, held'[e].pages>>,
                   revision |-> held'[e].revision]
      BY <1>3 DEF cop
  <2>2. cop'[e] \in [t: Templates, content: Content, revision: Nat]
      BY <1>1, <1>2, <2>1 DEF TypeInv, TypeOK, Row, Content
  <2> QED BY <1>2, <2>1, <2>2, RegisterAssumption
<1>5. cop' = [cop EXCEPT ![e] = cop'[e]]
  <2>1. \A f \in Editors \ {e} : cop'[f] = cop[f]
      BY <1>2 DEF cop
  <2> QED BY <2>1, Images, OnePoint
<1>6. reg' = reg /\ ask' = ask
  <2>1. reg' = reg
      BY <1>1 DEF reg
  <2>2. \A f \in Editors : ask'[f] = ask[f]
      BY <1>1, <1>2 DEF ask, Idle
  <2> QED BY <2>1, <2>2, Images
<1>7. /\ reg[t] = [content |-> <<row[t].name, pages[t]>>,
                   revision |-> row[t].revision, deleted |-> row[t].deleted]
      /\ reg[t] # None
    BY <1>1, ImageOfRow
<1>8. \/ cop'[e] = [t |-> t, content |-> reg[t].content, revision |-> reg[t].revision]
      \/ cop'[e].revision < reg[t].revision
  <2>1. CASE tx[e].row.revision = row[t].revision
      BY <1>1, <1>4, <1>7, <2>1
  <2>2. CASE tx[e].row.revision # row[t].revision
      BY <1>1, <1>4, <1>7, <2>2 DEF Row
  <2> QED BY <2>1, <2>2
<1>9. cop'[e].t = t
    BY <1>4
<1> HIDE DEF t
<1> QED BY <1>1, <1>4, <1>5, <1>6, <1>7, <1>8, <1>9
        DEF Register!Open, Register!Copy, reg, cop, ask

\* A PATCH is asked for, with or without the check.
LEMMA UpdateAsks ==
    ASSUME TypeInv, NEW e \in Editors, UpdateTemplate(e)
    PROVE  Register!Ask(e)
<1>1. /\ held[e] # None /\ tx[e] = Idle /\ tx'[e].kind = "patch"
      /\ \A f \in Editors \ {e} : tx'[f] = tx[f]
      /\ row' = row /\ pages' = pages /\ held' = held
    BY DEF UpdateTemplate, WriterMayStart, TypeInv, TypeOK, Idle
<1>2. ask[e] = "none" /\ ask'[e] \in {"any", "checked"}
    BY <1>1 DEF ask, Idle
<1>3. ask' = [ask EXCEPT ![e] = ask'[e]]
  <2>1. \A f \in Editors \ {e} : ask'[f] = ask[f]
      BY <1>1 DEF ask
  <2> QED BY <2>1, Images, OnePoint
<1>4. reg' = reg /\ cop' = cop
    BY <1>1 DEF reg, cop
<1>5. cop[e] # None
    BY <1>1, ImageOfCopy
<1> QED BY <1>2, <1>3, <1>4, <1>5 DEF Register!Ask, reg, cop, ask

\* A PATCH that ends without a commit is refused.
LEMMA ClosedRefuses ==
    ASSUME TypeInv, NEW e \in Editors, tx' = Closed(e), UNCHANGED <<row, pages, held>>
    PROVE  Register!Refuse(e) \/ UNCHANGED <<reg, cop, ask>>
<1>1. tx'[e] = Idle /\ \A f \in Editors \ {e} : tx'[f] = tx[f]
    BY DEF Closed, TypeInv, TypeOK
<1>2. CASE tx[e].kind # "patch"
    BY <1>1, <1>2, Stutters DEF Idle
<1>3. CASE tx[e].kind = "patch"
  <2>1. ask[e] # "none" /\ ask'[e] = "none"
      BY <1>1, <1>3 DEF ask, Idle
  <2>2. ask' = [ask EXCEPT ![e] = ask'[e]]
    <3>1. \A f \in Editors \ {e} : ask'[f] = ask[f]
        BY <1>1 DEF ask
    <3> QED BY <3>1, Images, OnePoint
  <2>3. reg' = reg /\ cop' = cop
      BY DEF reg, cop
  <2> QED BY <2>1, <2>2, <2>3 DEF Register!Refuse, reg, cop, ask
<1> QED BY <1>2, <1>3

\* What a commit that writes the row of t does to the image of the rows.
LEMMA RowWritten ==
    ASSUME TypeInv, TypeInv', NEW t \in Templates, row'[t] # None,
           \A u \in Templates \ {t} : row'[u] = row[u] /\ pages'[u] = pages[u]
    PROVE  /\ reg'[t] = [content |-> <<row'[t].name, pages'[t]>>,
                         revision |-> row'[t].revision, deleted |-> row'[t].deleted]
           /\ reg'[t] # None
           /\ reg' = [reg EXCEPT ![t] = reg'[t]]
<1>1. reg'[t] = [content |-> <<row'[t].name, pages'[t]>>,
                 revision |-> row'[t].revision, deleted |-> row'[t].deleted]
    BY DEF reg
<1>2. row'[t] \in Row /\ pages'[t] \in SUBSET PageRow
    BY DEF TypeInv, TypeOK
<1>3. reg'[t] \in [content: Content, revision: Nat, deleted: BOOLEAN]
    BY <1>1, <1>2 DEF Row, Content
<1>4. \A u \in Templates \ {t} : reg'[u] = reg[u]
    BY DEF reg
<1>5. reg'[t] # None
    BY <1>3, RegisterAssumption
<1>6. reg' = [reg EXCEPT ![t] = reg'[t]]
    BY <1>4, Images, OnePoint
<1> QED BY <1>1, <1>5, <1>6

\* The editor of a commit is left with what it had, or with what is stored now.
Told(e, t) ==
    cop' \in {cop, [cop EXCEPT ![e] = [t |-> t, content |-> reg'[t].content,
                                        revision |-> reg'[t].revision]]}

LEMMA AnswerHears ==
    ASSUME NEW e \in Editors, NEW t \in Templates, NEW a \in View, a.t = t,
           row'[t] # None, a.revision = row'[t].revision, a.name = row'[t].name,
           a.pages = pages'[t], held \in [Editors -> View \cup {None}],
           held' \in {held, [held EXCEPT ![e] = a]}
    PROVE  Told(e, t)
<1>1. reg'[t].content = <<a.name, a.pages>> /\ reg'[t].revision = a.revision
    BY DEF reg
<1>2. CASE held' = held
  <2>1. cop' = cop
      BY <1>2 DEF cop
  <2> QED BY <2>1 DEF Told
<1>3. CASE held' = [held EXCEPT ![e] = a]
  <2>1. held'[e] = a /\ a # None /\ \A f \in Editors \ {e} : held'[f] = held[f]
      BY <1>3, NoneAssumption
  <2>2. cop'[e] = [t |-> t, content |-> reg'[t].content, revision |-> reg'[t].revision]
      BY <1>1, <2>1 DEF cop
  <2>3. cop' = [cop EXCEPT ![e] = cop'[e]]
    <3>1. \A f \in Editors \ {e} : cop'[f] = cop[f]
        BY <2>1 DEF cop
    <3> QED BY <3>1, Images, OnePoint
  <2> QED BY <2>2, <2>3 DEF Told
<1> QED BY <1>2, <1>3

LEMMA CreateCreates ==
    ASSUME TypeInv, TypeInv', CreateOK, NEW e \in Editors, CommitCreate(e)
    PROVE  \E t \in Templates : Register!Create(e, t)
<1> DEFINE t == tx[e].t
           a == [t |-> t, revision |-> 1, name |-> tx[e].req, pages |-> Inserted(e)]
<1>1. /\ t \in Templates /\ tx[e] \in Handler /\ row[t] = None
      /\ tx[e].kind = "create" /\ tx' = Closed(e)
    BY DEF CommitCreate, TypeInv, TypeOK, HandlerOK, CreateOK
<1>2. /\ row'[t] = [name |-> tx[e].req, revision |-> 1, updatedAt |-> tx[e].stamp,
                    deleted |-> FALSE, updatedBy |-> None]
      /\ pages'[t] = Inserted(e)
      /\ \A u \in Templates \ {t} : row'[u] = row[u] /\ pages'[u] = pages[u]
    BY <1>1 DEF CommitCreate, TypeInv, TypeOK
<1>3. row'[t] # None
  <2>1. row'[t] \in Row
      BY <1>1, <1>2 DEF Row, Handler
  <2> QED BY <2>1, NoneAssumption
<1>4. /\ reg'[t].content = <<tx[e].req, Inserted(e)>> /\ reg'[t] # None
      /\ reg'[t] = [content |-> reg'[t].content, revision |-> 1, deleted |-> FALSE]
      /\ reg' = [reg EXCEPT ![t] = reg'[t]]
  <2>1. /\ reg'[t] = [content |-> <<row'[t].name, pages'[t]>>,
                      revision |-> row'[t].revision, deleted |-> row'[t].deleted]
        /\ reg'[t] # None /\ reg' = [reg EXCEPT ![t] = reg'[t]]
    <3> HIDE DEF t
    <3> QED BY <1>1, <1>2, <1>3, RowWritten
  <2> QED BY <1>2, <2>1
<1>5. reg[t] = None
    BY <1>1 DEF reg
<1>6. Told(e, t)
  <2>1. a \in View
    <3>1. Inserted(e) \in SUBSET PageRow
        BY <1>1 DEF Inserted, PageRows, PageRow, Handler
    <3> QED BY <1>1, <3>1 DEF View, Handler
  <2>2. held' \in {held, [held EXCEPT ![e] = a]} /\ held \in [Editors -> View \cup {None}]
      BY DEF CommitCreate, TypeInv, TypeOK
  <2>3. /\ a.t = t /\ a.revision = row'[t].revision
        /\ a.name = row'[t].name /\ a.pages = pages'[t]
      BY <1>2
  <2>4. t \in Templates
      BY <1>1
  <2> HIDE DEF a, t
  <2> QED BY <1>3, <2>1, <2>2, <2>3, <2>4, AnswerHears
<1>7. ask' = ask
  <2>1. \A f \in Editors : ask'[f] = ask[f]
      BY <1>1 DEF ask, Closed, TypeInv, TypeOK, Idle
  <2> QED BY <2>1, Images
<1>8. t \in Templates
    BY <1>1
<1> HIDE DEF t
<1>9. reg' = [reg EXCEPT ![t] = [content |-> reg'[t].content,
                                 revision |-> 1, deleted |-> FALSE]]
    BY <1>4
<1>10. reg'[t] # None
    BY <1>4
<1> QED BY <1>5, <1>6, <1>7, <1>8, <1>9, <1>10
        DEF Register!Create, Register!Hears, Register!Copy, Told, reg, cop, ask

\* A PATCH that commits is a save of the register: with the header it replaces
\* what its editor has.
LEMMA UpdateSaves ==
    ASSUME TypeInv, TypeInv', SerialInv, AliveOK, NEW e \in Editors, CommitUpdate(e)
    PROVE  Register!Save(e)
<1> DEFINE t == tx[e].t
           r == [Updated(e) EXCEPT !.name = IF tx[e].setName THEN tx[e].req ELSE @]
<1>1. /\ t \in Templates /\ tx[e] \in Handler /\ row[t] \in Row /\ row[t] # None
      /\ tx[e].kind = "patch" /\ tx[e].pc = "commit"
      /\ tx[e].row = row[t] /\ ~row[t].deleted /\ tx[e].pages = pages[t]
      /\ tx[e].gone = IF tx[e].newPages = None THEN {} ELSE pages[t]
      /\ held[e] # None /\ held[e].t = t
      /\ tx[e].ifMatch \in {0, held[e].revision} /\ tx[e].ifMatch \in {0, row[t].revision}
  <2>1. /\ t \in Templates /\ tx[e] \in Handler /\ row[t] \in Row /\ row[t] # None
        /\ tx[e].kind = "patch" /\ tx[e].pc = "commit"
      BY NoneAssumption DEF CommitUpdate, TypeInv, TypeOK, HandlerOK
  <2>2. /\ tx[e].row = row[t] /\ tx[e].pages = pages[t]
        /\ tx[e].gone = IF tx[e].newPages = None THEN {} ELSE pages[t]
        /\ held[e] # None /\ held[e].t = t
        /\ tx[e].ifMatch \in {0, held[e].revision}
        /\ tx[e].ifMatch \in {0, tx[e].row.revision}
      BY <2>1 DEF SerialInv, LoadedOK
  <2>3. ~tx[e].row.deleted
      BY <2>1 DEF AliveOK
  <2> QED BY <2>1, <2>2, <2>3
<1>2. tx[e].ifMatch # 0 => /\ held[e].revision = row[t].revision
                           /\ held[e].name = row[t].name /\ held[e].pages = pages[t]
    BY <1>1 DEF SerialInv, CopyOK
<1>3. /\ Updated(e) \in Row /\ Updated(e).revision = row[t].revision + 1
      /\ ~Updated(e).deleted /\ Updated(e).name = row[t].name
  <2>1. Updated(e).name = row[t].name
      BY <1>1 DEF Updated, Row
  <2> QED BY <1>1, <2>1, UpdatedIsRow DEF Bumped
<1>4. /\ row'[t] = r /\ pages'[t] = (pages[t] \ tx[e].gone) \cup Inserted(e)
      /\ \A u \in Templates \ {t} : row'[u] = row[u] /\ pages'[u] = pages[u]
      /\ tx'[e] = Idle /\ \A f \in Editors \ {e} : tx'[f] = tx[f]
    BY <1>1 DEF CommitUpdate, Closed, TypeInv, TypeOK
<1>5. /\ r \in Row /\ r.revision = row[t].revision + 1 /\ ~r.deleted
      /\ r.name = IF tx[e].setName THEN tx[e].req ELSE row[t].name
    BY <1>1, <1>3 DEF Row, Handler
<1>6. pages'[t] = IF tx[e].newPages = None THEN pages[t] ELSE Inserted(e)
    BY <1>1, <1>4 DEF Inserted
<1>7. row'[t] # None
    BY <1>4, <1>5, NoneAssumption
<1>8. /\ reg[t] = [content |-> <<row[t].name, pages[t]>>,
                   revision |-> row[t].revision, deleted |-> row[t].deleted]
      /\ reg[t] # None
  <2> HIDE DEF t
  <2> QED BY <1>1, ImageOfRow
<1>9. /\ reg'[t] = [content |-> <<row'[t].name, pages'[t]>>,
                    revision |-> row'[t].revision, deleted |-> row'[t].deleted]
      /\ reg' = [reg EXCEPT ![t] = reg'[t]]
  <2> HIDE DEF t, r
  <2> QED BY <1>1, <1>4, <1>7, RowWritten
<1>10. cop[e] = [t |-> held[e].t, content |-> <<held[e].name, held[e].pages>>,
                 revision |-> held[e].revision]
    BY <1>1, ImageOfCopy
<1>11. Told(e, t)
  <2>1. /\ Answer(e).t = t /\ Answer(e).revision = row'[t].revision
        /\ Answer(e).name = row'[t].name /\ Answer(e).pages = pages'[t]
      BY <1>1, <1>4, <1>5, <1>6 DEF Answer, Bumped
  <2>2. Answer(e) \in View
    <3>1. Answer(e) = [t |-> t, revision |-> row'[t].revision,
                       name |-> row'[t].name, pages |-> pages'[t]]
        BY <1>1, <1>4, <1>5, <1>6 DEF Answer, Bumped
    <3>2. row'[t] \in Row /\ pages'[t] \in SUBSET PageRow
        BY <1>1, <1>7 DEF TypeInv, TypeOK
    <3> QED BY <1>1, <3>1, <3>2 DEF View, Row
  <2>3. /\ held' \in {held, [held EXCEPT ![e] = Answer(e)]}
        /\ held \in [Editors -> View \cup {None}]
      BY DEF CommitUpdate, TypeInv, TypeOK
  <2>4. t \in Templates
      BY <1>1
  <2> HIDE DEF t, r
  <2> QED BY <1>7, <2>1, <2>2, <2>3, <2>4, AnswerHears
<1>12. /\ ask[e] # "none" /\ ask'[e] = "none"
       /\ ask[e] = "checked" => tx[e].ifMatch # 0
    BY <1>1, <1>4 DEF ask, Idle
<1>13. ask' = [ask EXCEPT ![e] = "none"]
  <2>1. \A f \in Editors \ {e} : ask'[f] = ask[f]
      BY <1>4 DEF ask
  <2> QED BY <1>12, <2>1, Images, OnePoint
<1>14. cop[e].t = t /\ ~reg[t].deleted
    BY <1>1, <1>8, <1>10
<1>15. ask[e] = "checked" => cop[e] = [t |-> t, content |-> reg[t].content,
                                       revision |-> reg[t].revision]
    BY <1>1, <1>2, <1>8, <1>10, <1>12
<1>16. reg' = [reg EXCEPT ![t] = [content |-> reg'[t].content,
                                  revision |-> reg[t].revision + 1, deleted |-> FALSE]]
  <2>1. row'[t].revision = row[t].revision + 1 /\ row'[t].deleted = FALSE
    <3>1. row'[t].deleted \in BOOLEAN
        BY <1>4, <1>5 DEF Row
    <3> QED BY <1>4, <1>5, <3>1
  <2> HIDE DEF t, r
  <2>2. row'[t].revision = reg[t].revision + 1
      BY <1>8, <2>1
  <2>3. reg'[t].content = <<row'[t].name, pages'[t]>>
      BY <1>9
  <2>4. reg'[t] = [content |-> reg'[t].content,
                   revision |-> reg[t].revision + 1, deleted |-> FALSE]
      BY <1>9, <2>1, <2>2, <2>3
  <2> QED BY <1>9, <2>4
<1> HIDE DEF t, r
<1>17. Told(e, cop[e].t) /\ ~reg[cop[e].t].deleted
    BY <1>11, <1>14
<1>18. ask[e] = "checked" => cop[e] = [t |-> cop[e].t, content |-> reg[cop[e].t].content,
                                       revision |-> reg[cop[e].t].revision]
    BY <1>14, <1>15
<1>19. reg' = [reg EXCEPT ![cop[e].t] = [content |-> reg'[cop[e].t].content,
                                         revision |-> reg[cop[e].t].revision + 1,
                                         deleted |-> FALSE]]
    BY <1>14, <1>16
<1> QED BY <1>12, <1>13, <1>17, <1>18, <1>19
        DEF Register!Save, Register!Write, Register!Hears, Register!Copy, Told, reg, cop, ask

LEMMA DeleteDeletes ==
    ASSUME TypeInv, TypeInv', SerialInv, AliveOK, NEW e \in Editors, CommitDelete(e)
    PROVE  \E t \in Templates : Register!Delete(t)
<1> DEFINE t == tx[e].t
           r == [Updated(e) EXCEPT !.deleted = TRUE]
<1>1. /\ t \in Templates /\ row[t] \in Row /\ row[t] # None /\ ~row[t].deleted
      /\ tx[e].row = row[t] /\ tx[e].kind = "delete" /\ tx[e].pc = "commit"
    BY NoneAssumption DEF CommitDelete, TypeInv, HandlerOK, SerialInv, LoadedOK, AliveOK
<1>2. /\ Updated(e) \in Row /\ Updated(e).revision = row[t].revision + 1
      /\ Updated(e).name = row[t].name
  <2>1. Updated(e).name = row[t].name
      BY <1>1 DEF Updated, Row
  <2> QED BY <1>1, <2>1, UpdatedIsRow DEF Bumped
<1>3. /\ row'[t] = r /\ pages' = pages /\ held' = held
      /\ \A u \in Templates \ {t} : row'[u] = row[u] /\ pages'[u] = pages[u]
      /\ tx'[e] = Idle /\ \A f \in Editors \ {e} : tx'[f] = tx[f]
    BY <1>1 DEF CommitDelete, Closed, TypeInv, TypeOK
<1>4. r \in Row /\ r.revision = row[t].revision + 1 /\ r.deleted = TRUE /\ r.name = row[t].name
    BY <1>2 DEF Row
<1>5. row'[t] # None
    BY <1>3, <1>4, NoneAssumption
<1>6. /\ reg[t] = [content |-> <<row[t].name, pages[t]>>,
                   revision |-> row[t].revision, deleted |-> row[t].deleted]
      /\ reg[t] # None
  <2> HIDE DEF t
  <2> QED BY <1>1, ImageOfRow
<1>7. /\ reg'[t] = [content |-> <<row'[t].name, pages'[t]>>,
                    revision |-> row'[t].revision, deleted |-> row'[t].deleted]
      /\ reg' = [reg EXCEPT ![t] = reg'[t]]
  <2> HIDE DEF t, r
  <2> QED BY <1>1, <1>3, <1>5, RowWritten
<1>8. row'[t].revision = row[t].revision + 1 /\ row'[t].deleted = TRUE
      /\ row'[t].name = row[t].name /\ pages'[t] = pages[t] /\ ~row[t].deleted
      /\ t \in Templates
    BY <1>1, <1>3, <1>4
<1>9. cop' = cop
    BY <1>3 DEF cop
<1>10. ask' = ask
  <2>1. \A f \in Editors : ask'[f] = ask[f]
      BY <1>1, <1>3 DEF ask, Idle
  <2> QED BY <2>1, Images
<1> HIDE DEF t, r
<1>11. /\ reg' = [reg EXCEPT ![t] = [content |-> reg'[t].content,
                                     revision |-> reg[t].revision + 1, deleted |-> TRUE]]
       /\ reg'[t].content = reg[t].content /\ ~reg[t].deleted
  <2>1. row'[t].revision = reg[t].revision + 1
      BY <1>6, <1>8
  <2>2. reg'[t].content = <<row'[t].name, pages'[t]>>
      BY <1>7
  <2>3. reg'[t] = [content |-> reg'[t].content,
                   revision |-> reg[t].revision + 1, deleted |-> TRUE]
      BY <1>7, <1>8, <2>1, <2>2
  <2>4. reg'[t].content = reg[t].content /\ ~reg[t].deleted
      BY <1>6, <1>8, <2>2
  <2> QED BY <1>7, <2>3, <2>4
<1> QED BY <1>6, <1>8, <1>9, <1>10, <1>11
        DEF Register!Delete, Register!Write, reg, cop, ask

\* Every step of the handlers is a step of the register, or none.
LEMMA StepsMap ==
    ASSUME TypeInv, TypeInv', CreateOK, SerialInv, AliveOK, [Next]_vars
    PROVE  [Register!Next]_<<reg, cop, ask>>
<1>1. ASSUME NEW e \in Editors, Start(e) PROVE [Register!Next]_<<reg, cop, ask>>
  <2>1. ASSUME UpdateTemplate(e) PROVE Register!Next
    <3>1. Register!Ask(e)
        BY <2>1, UpdateAsks
    <3> QED BY <3>1 DEF Register!Next
  <2>2. ASSUME NEW t \in Templates,
               GetTemplate(e, t) \/ DeleteTemplate(e, t) \/ CreateTemplate(e, t)
        PROVE  UNCHANGED <<reg, cop, ask>>
    <3>1. /\ tx[e].kind # "patch" /\ tx'[e].kind # "patch"
          /\ \A f \in Editors \ {e} : tx'[f] = tx[f]
          /\ UNCHANGED <<row, pages, held>>
      <4>1. CASE GetTemplate(e, t)
          BY <4>1 DEF GetTemplate, TypeInv, TypeOK, Idle
      <4>2. CASE DeleteTemplate(e, t)
          BY <4>2 DEF DeleteTemplate, WriterMayStart, TypeInv, TypeOK, Idle
      <4>3. CASE CreateTemplate(e, t)
          BY <4>3 DEF CreateTemplate, WriterMayStart, TypeInv, TypeOK, Idle
      <4> QED BY <2>2, <4>1, <4>2, <4>3
    <3> QED BY <3>1, Stutters
  <2> QED BY <1>1, <2>1, <2>2 DEF Start
<1>2. ASSUME NEW e \in Editors, Step(e) PROVE [Register!Next]_<<reg, cop, ask>>
  <2>1. ASSUME AnswerGet(e) PROVE Register!Next
    <3>1. \E t \in Templates : Register!Open(e, t)
        BY <2>1, AnswerOpens
    <3> QED BY <3>1 DEF Register!Next
  <2>2. ASSUME CommitUpdate(e) PROVE Register!Next
    <3>1. Register!Save(e)
        BY <2>2, UpdateSaves
    <3> QED BY <3>1 DEF Register!Next
  <2>3. ASSUME CommitCreate(e) PROVE Register!Next
    <3>1. \E t \in Templates : Register!Create(e, t)
        BY <2>3, CreateCreates
    <3> QED BY <3>1 DEF Register!Next
  <2>4. ASSUME CommitDelete(e) PROVE Register!Next
    <3>1. \E t \in Templates : Register!Delete(t)
        BY <2>4, DeleteDeletes
    <3> QED BY <3>1 DEF Register!Next
  <2>5. ASSUME PreconditionFailed(e) \/ PageIndexTaken(e) \/ DeadlockVictim(e)
        PROVE  [Register!Next]_<<reg, cop, ask>>
    <3>1. Register!Refuse(e) \/ UNCHANGED <<reg, cop, ask>>
        BY <2>5, ClosedRefuses DEF PreconditionFailed, PageIndexTaken, DeadlockVictim
    <3> QED BY <3>1 DEF Register!Next
  <2>6. ASSUME CheckIfMatch(e) \/ FlushRow(e) \/ DeletePages(e) \/ Stamp(e)
        PROVE  UNCHANGED <<reg, cop, ask>>
    <3>1. /\ tx'[e].kind = tx[e].kind /\ tx'[e].ifMatch = tx[e].ifMatch
          /\ \A f \in Editors \ {e} : tx'[f] = tx[f]
          /\ UNCHANGED <<row, pages, held>>
        BY <2>6 DEF CheckIfMatch, FlushRow, DeletePages, Stamp, TypeInv, TypeOK, Handler
    <3> QED BY <3>1, Stutters
  <2> QED BY <1>2, <2>1, <2>2, <2>3, <2>4, <2>5, <2>6 DEF Step
<1>3. ASSUME NEW e \in Editors, Abandon(e) PROVE [Register!Next]_<<reg, cop, ask>>
  <2>1. Register!Refuse(e) \/ UNCHANGED <<reg, cop, ask>>
      BY <1>3, ClosedRefuses DEF Abandon
  <2> QED BY <2>1 DEF Register!Next
<1>4. CASE UNCHANGED vars
    BY <1>4 DEF vars, reg, cop, ask
<1> QED BY <1>1, <1>2, <1>3, <1>4 DEF Next

\* The handlers of templates.py, statement by statement, implement one register
\* per template (TemplateRegister) as long as no two write handlers overlap.
THEOREM HandlersImplementRegister == ~Overlap => (Spec => ImplementsRegister)
<1> SUFFICES ASSUME ~Overlap PROVE Spec => ImplementsRegister
    OBVIOUS
<1>1. Init => Register!Init
    BY DEF Init, Register!Init, Idle
<1>2. TypeInv /\ TypeInv' /\ CreateOK /\ SerialInv /\ AliveOK /\ [Next]_vars
      => [Register!Next]_Register!vars
  <2> SUFFICES ASSUME TypeInv, TypeInv', CreateOK, SerialInv, AliveOK, [Next]_vars
               PROVE  [Register!Next]_Register!vars
      OBVIOUS
  <2>1. [Register!Next]_<<reg, cop, ask>>
      BY StepsMap
  <2> QED BY <2>1 DEF Register!vars, reg, cop, ask
<1>3. Spec => []AliveOK
  <2>1. Spec => []TypeInv
      BY InitType, NextType, PTL DEF Spec
  <2> QED BY <2>1, InitAlive, NextAlive, PTL DEF Spec
<1> QED BY <1>1, <1>2, <1>3, SerialInvariant, PTL
        DEF Spec, ImplementsRegister, Register!Spec
=============================================================================
