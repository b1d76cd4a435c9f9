------------------------ MODULE ExamTemplatesProofs ------------------------
(***************************************************************************)
(* Theorems about ExamTemplates, for every set of templates, editors and   *)
(* page indexes and every bound on the requests.                           *)
(***************************************************************************)
EXTENDS ExamTemplates, TLAPS

\* What a handler has loaded, and where its kind can take it.
HandlerOK(e) ==
    LET h == tx[e] IN
    /\ h.kind = "none" => h = Idle
    /\ h.kind # "none" => h.t \in Templates
    /\ h.kind \in {"get", "patch", "delete"} => h.row \in Row /\ row[h.t] \in Row
    /\ h.pc = "selectPages" => h.kind \in {"get", "patch"}
    /\ h.pc \in {"flush", "deletePages"} => h.kind = "patch"
    /\ h.pc = "stamp" => h.kind \in {"patch", "delete"}
    /\ h.pc = "commit" => h.kind \in {"patch", "delete", "create"}
                          /\ h.stamp \in 1..clock

TypeInv == TypeOK /\ \A e \in Editors : HandlerOK(e)

LEMMA IdleIsHandler == Idle \in Handler
BY DEF Idle, Handler, Steps, Kinds, PageRow

LEMMA InitType == Init => TypeInv
<1> SUFFICES ASSUME Init PROVE TypeInv
  OBVIOUS
<1>1. TypeOK
  BY IdleIsHandler, ConstantsAssumption DEF Init, TypeOK
<1>2. \A e \in Editors : HandlerOK(e)
  BY DEF Init, HandlerOK, Idle
<1> QED
  BY <1>1, <1>2 DEF TypeInv


\* A step that puts the handler h of e in the place of the one before.
LEMMA HandlerReplaced ==
    ASSUME TypeInv, NEW e \in Editors, NEW h \in Handler,
           h.t \in Templates,
           tx' = [tx EXCEPT ![e] = h]
    PROVE  /\ tx' \in [Editors -> Handler]
           /\ tx'[e] = h
           /\ \A f \in Editors \ {e} : tx'[f] = tx[f]
           /\ \A f \in Editors : tx'[f] # Idle => tx'[f].t # None
BY ConstantsAssumption DEF TypeInv, TypeOK

\* A step of e leaves the handlers of the others as good as they were.
LEMMA OthersKeep ==
    ASSUME TypeInv, NEW e \in Editors,
           \A f \in Editors \ {e} : tx'[f] = tx[f],
           \A t \in Templates : row[t] \in Row => row'[t] \in Row,
           clock' \in Nat, clock <= clock',
           HandlerOK(e)'
    PROVE  \A f \in Editors : HandlerOK(f)'
<1> TAKE f \in Editors
<1>1. CASE f = e
  BY <1>1
<1>2. CASE f # e
  BY <1>2 DEF TypeInv, TypeOK, HandlerOK, Handler
<1> QED
  BY <1>1, <1>2

\* The steps that only close a session.
LEMMA ClosedType ==
    ASSUME TypeInv, NEW e \in Editors, tx' = Closed(e),
           UNCHANGED <<row, pages, held, clock, requests>>
    PROVE  TypeInv'
<1>1. TypeOK'
  BY IdleIsHandler DEF TypeInv, TypeOK, Closed
<1>2. HandlerOK(e)'
  BY DEF TypeInv, TypeOK, Closed, HandlerOK, Idle
<1>3. \A f \in Editors \ {e} : tx'[f] = tx[f]
  BY DEF TypeInv, TypeOK, Closed
<1> QED
  BY <1>1, <1>2, <1>3, OthersKeep DEF TypeInv, TypeOK

LEMMA GetTemplateType ==
    ASSUME TypeInv, NEW e \in Editors, NEW t \in Templates, GetTemplate(e, t)
    PROVE  TypeInv'
<1> DEFINE h == [Idle EXCEPT !.pc = "selectPages", !.kind = "get",
                             !.t = t, !.row = row[t]]
<1>1. row[t] \in Row
  BY DEF TypeInv, TypeOK, GetTemplate, Found
<1>2. h \in Handler /\ h.t \in Templates
  BY <1>1 DEF Idle, Handler, Steps, Kinds
<1>3. tx' = [tx EXCEPT ![e] = h]
  BY DEF GetTemplate
<1>4. /\ tx' \in [Editors -> Handler] /\ tx'[e] = h
      /\ \A f \in Editors \ {e} : tx'[f] = tx[f]
      /\ \A f \in Editors : tx'[f] # Idle => tx'[f].t # None
  <2> HIDE DEF h
  <2> QED
    BY <1>2, <1>3, HandlerReplaced
<1>5. TypeOK'
  BY <1>4 DEF TypeInv, TypeOK, GetTemplate
<1>6. HandlerOK(e)'
  BY <1>1, <1>4 DEF GetTemplate, HandlerOK, Idle
<1> QED
  BY <1>4, <1>5, <1>6, OthersKeep DEF TypeInv, TypeOK, GetTemplate

LEMMA AnswerGetType ==
    ASSUME TypeInv, NEW e \in Editors, AnswerGet(e)
    PROVE  TypeInv'
<1>1. tx[e].row \in Row /\ tx[e].t \in Templates
  BY DEF TypeInv, HandlerOK, AnswerGet
<1>2. TypeOK'
  BY <1>1, IdleIsHandler DEF TypeInv, TypeOK, AnswerGet, Closed, View, Row
<1>3. HandlerOK(e)'
  BY DEF TypeInv, TypeOK, AnswerGet, Closed, HandlerOK, Idle
<1>4. \A f \in Editors \ {e} : tx'[f] = tx[f]
  BY DEF TypeInv, TypeOK, AnswerGet, Closed
<1> QED
  BY <1>2, <1>3, <1>4, OthersKeep DEF TypeInv, TypeOK, AnswerGet

LEMMA UpdateTemplateType ==
    ASSUME TypeInv, NEW e \in Editors, UpdateTemplate(e)
    PROVE  TypeInv'
<1>1. held[e] \in View /\ held[e].t \in Templates /\ row[held[e].t] \in Row
  BY DEF TypeInv, TypeOK, UpdateTemplate, Found, View
<1>2. PICK ifMatch \in {0, held[e].revision}, setName \in BOOLEAN,
           newPages \in (SUBSET PageIndexes) \cup {None} :
         tx' = [tx EXCEPT ![e] = [Idle EXCEPT
                   !.pc = "selectPages", !.kind = "patch", !.t = held[e].t,
                   !.req = requests + 1, !.ifMatch = ifMatch,
                   !.setName = setName, !.newPages = newPages,
                   !.row = row[held[e].t]]]
  BY DEF UpdateTemplate
<1> DEFINE h == [Idle EXCEPT
                   !.pc = "selectPages", !.kind = "patch", !.t = held[e].t,
                   !.req = requests + 1, !.ifMatch = ifMatch,
                   !.setName = setName, !.newPages = newPages,
                   !.row = row[held[e].t]]
<1>3. h \in Handler /\ h.t \in Templates
  <2>1. requests + 1 \in Nat /\ ifMatch \in Nat
    BY <1>1, ConstantsAssumption DEF TypeInv, TypeOK, View
  <2> QED
    BY <1>1, <2>1 DEF Idle, Handler, Steps, Kinds
<1>4. /\ tx' \in [Editors -> Handler] /\ tx'[e] = h
      /\ \A f \in Editors \ {e} : tx'[f] = tx[f]
      /\ \A f \in Editors : tx'[f] # Idle => tx'[f].t # None
  <2> HIDE DEF h
  <2> QED
    BY <1>2, <1>3, HandlerReplaced DEF h
<1>5. TypeOK'
  <2>1. requests' \in 0..MaxRequests
    BY ConstantsAssumption DEF TypeInv, TypeOK, UpdateTemplate, WriterMayStart
  <2> QED
    BY <1>4, <2>1 DEF TypeInv, TypeOK, UpdateTemplate
<1>6. HandlerOK(e)'
  BY <1>1, <1>4 DEF UpdateTemplate, HandlerOK, Idle
<1> QED
  BY <1>4, <1>5, <1>6, OthersKeep DEF TypeInv, TypeOK, UpdateTemplate

LEMMA CheckIfMatchType ==
    ASSUME TypeInv, NEW e \in Editors, CheckIfMatch(e)
    PROVE  TypeInv'
<1> DEFINE h == [tx[e] EXCEPT !.pc = AfterCheck(e), !.pages = pages[tx[e].t]]
<1>1. h \in Handler /\ h.t \in Templates
  <2>1. tx[e] \in Handler /\ tx[e].kind # "none"
    BY DEF TypeInv, TypeOK, HandlerOK, CheckIfMatch, Idle
  <2>2. tx[e].t \in Templates
    BY <2>1 DEF TypeInv, HandlerOK
  <2>3. AfterCheck(e) \in Steps /\ pages[tx[e].t] \in SUBSET PageRow
    BY <2>2 DEF TypeInv, TypeOK, AfterCheck, Steps
  <2> QED
    BY <2>1, <2>2, <2>3 DEF Handler, Steps
<1>2. tx' = [tx EXCEPT ![e] = h]
  BY DEF TypeInv, TypeOK, CheckIfMatch
<1>3. /\ tx' \in [Editors -> Handler] /\ tx'[e] = h
      /\ \A f \in Editors \ {e} : tx'[f] = tx[f]
      /\ \A f \in Editors : tx'[f] # Idle => tx'[f].t # None
  <2> HIDE DEF h
  <2> QED
    BY <1>1, <1>2, HandlerReplaced
<1>4. TypeOK'
  BY <1>3 DEF TypeInv, TypeOK, CheckIfMatch
<1>5. HandlerOK(e)'
  BY <1>3, ZenonT(30) DEF TypeInv, TypeOK, CheckIfMatch, HandlerOK, Handler, AfterCheck
<1> QED
  BY <1>3, <1>4, <1>5, OthersKeep DEF TypeInv, TypeOK, CheckIfMatch

LEMMA FlushRowType ==
    ASSUME TypeInv, NEW e \in Editors, FlushRow(e)
    PROVE  TypeInv'
<1> DEFINE h == [tx[e] EXCEPT !.pc = "deletePages", !.rowLocked = TRUE]
<1>1. h \in Handler /\ h.t \in Templates
  <2>1. tx[e] \in Handler /\ tx[e].kind # "none"
    BY DEF TypeInv, TypeOK, HandlerOK, FlushRow, Idle
  <2>2. tx[e].t \in Templates
    BY <2>1 DEF TypeInv, HandlerOK
  <2> QED
    BY <2>1, <2>2 DEF Handler, Steps
<1>2. tx' = [tx EXCEPT ![e] = h]
  BY DEF TypeInv, TypeOK, FlushRow
<1>3. /\ tx' \in [Editors -> Handler] /\ tx'[e] = h
      /\ \A f \in Editors \ {e} : tx'[f] = tx[f]
      /\ \A f \in Editors : tx'[f] # Idle => tx'[f].t # None
  <2> HIDE DEF h
  <2> QED
    BY <1>1, <1>2, HandlerReplaced
<1>4. TypeOK'
  BY <1>3 DEF TypeInv, TypeOK, FlushRow
<1>5. HandlerOK(e)'
  BY <1>3 DEF TypeInv, TypeOK, FlushRow, HandlerOK, Handler
<1> QED
  BY <1>3, <1>4, <1>5, OthersKeep DEF TypeInv, TypeOK, FlushRow

LEMMA DeletePagesType ==
    ASSUME TypeInv, NEW e \in Editors, DeletePages(e)
    PROVE  TypeInv'
<1> DEFINE h == [tx[e] EXCEPT !.pc = "stamp", !.gone = Doomed(e)]
<1>1. h \in Handler /\ h.t \in Templates
  <2>1. tx[e] \in Handler /\ tx[e].kind # "none"
    BY DEF TypeInv, TypeOK, HandlerOK, DeletePages, Idle
  <2>2. tx[e].t \in Templates
    BY <2>1 DEF TypeInv, HandlerOK
  <2>3. Doomed(e) \in SUBSET PageRow
    BY <2>2 DEF TypeInv, TypeOK, Doomed
  <2> QED
    BY <2>1, <2>2, <2>3 DEF Handler, Steps
<1>2. tx' = [tx EXCEPT ![e] = h]
  BY DEF TypeInv, TypeOK, DeletePages
<1>3. /\ tx' \in [Editors -> Handler] /\ tx'[e] = h
      /\ \A f \in Editors \ {e} : tx'[f] = tx[f]
      /\ \A f \in Editors : tx'[f] # Idle => tx'[f].t # None
  <2> HIDE DEF h
  <2> QED
    BY <1>1, <1>2, HandlerReplaced
<1>4. TypeOK'
  BY <1>3 DEF TypeInv, TypeOK, DeletePages
<1>5. HandlerOK(e)'
  BY <1>3 DEF TypeInv, TypeOK, DeletePages, HandlerOK, Handler, Doomed
<1> QED
  BY <1>3, <1>4, <1>5, OthersKeep DEF TypeInv, TypeOK, DeletePages

LEMMA StampType ==
    ASSUME TypeInv, NEW e \in Editors, Stamp(e)
    PROVE  TypeInv'
<1> DEFINE h == [tx[e] EXCEPT !.pc = "commit", !.stamp = clock + 1]
<1>1. h \in Handler /\ h.t \in Templates
  <2>1. tx[e] \in Handler /\ tx[e].kind # "none"
    BY DEF TypeInv, TypeOK, HandlerOK, Stamp, Idle
  <2>2. tx[e].t \in Templates
    BY <2>1 DEF TypeInv, HandlerOK
  <2>3. clock + 1 \in Nat
    BY <2>2 DEF TypeInv, TypeOK
  <2> QED
    BY <2>1, <2>2, <2>3 DEF Handler, Steps
<1>2. tx' = [tx EXCEPT ![e] = h]
  BY DEF TypeInv, TypeOK, Stamp
<1>3. /\ tx' \in [Editors -> Handler] /\ tx'[e] = h
      /\ \A f \in Editors \ {e} : tx'[f] = tx[f]
      /\ \A f \in Editors : tx'[f] # Idle => tx'[f].t # None
  <2> HIDE DEF h
  <2> QED
    BY <1>1, <1>2, HandlerReplaced
<1>4. TypeOK'
  BY <1>3 DEF TypeInv, TypeOK, Stamp
<1>5. HandlerOK(e)'
  BY <1>3 DEF TypeInv, TypeOK, Stamp, HandlerOK, Handler
<1> QED
  BY <1>3, <1>4, <1>5, OthersKeep DEF TypeInv, TypeOK, Stamp

\* The row an UPDATE of this handler leaves.
LEMMA UpdatedIsRow ==
    ASSUME TypeInv, NEW e \in Editors, tx[e].kind \in {"patch", "delete"},
           tx[e].pc = "commit"
    PROVE  /\ Updated(e) \in Row
           /\ Updated(e).updatedAt = tx[e].stamp
           /\ Updated(e).deleted = row[tx[e].t].deleted
           /\ Updated(e).revision = Bumped(e)
           /\ Bumped(e) \in Nat
<1>1. /\ tx[e] \in Handler /\ tx[e].row \in Row /\ row[tx[e].t] \in Row
  BY DEF TypeInv, TypeOK, HandlerOK
<1>2. Bumped(e) \in Nat
  BY <1>1 DEF Bumped, Row
<1> QED
  BY <1>1, <1>2 DEF Updated, Row, Handler

LEMMA CommitUpdateType ==
    ASSUME TypeInv, NEW e \in Editors, CommitUpdate(e)
    PROVE  TypeInv'
<1> DEFINE t == tx[e].t
<1>1. /\ tx[e] \in Handler /\ t \in Templates /\ tx[e].row \in Row
      /\ row[t] \in Row /\ tx[e].stamp \in 1..clock
  BY DEF TypeInv, TypeOK, HandlerOK, CommitUpdate
<1>2. Inserted(e) \in SUBSET PageRow
  BY <1>1 DEF Inserted, PageRows, PageRow, Handler
<1>3. Updated(e) \in Row /\ Updated(e).updatedAt = tx[e].stamp /\ Bumped(e) \in Nat
  BY UpdatedIsRow DEF CommitUpdate
<1>4. [Updated(e) EXCEPT !.name = IF tx[e].setName THEN tx[e].req ELSE @] \in Row
  BY <1>1, <1>3 DEF Row, Handler
<1>5. row' \in [Templates -> Row \cup {None}] /\ row'[t] \in Row
  BY <1>1, <1>4 DEF CommitUpdate, TypeInv, TypeOK
<1>6. pages' \in [Templates -> SUBSET PageRow]
  BY <1>1, <1>2 DEF CommitUpdate, TypeInv, TypeOK
<1>7. Answer(e) \in View
  BY <1>1, <1>2, <1>3 DEF Answer, View, Row, Handler
<1>8. held' \in [Editors -> View \cup {None}]
  BY <1>7 DEF CommitUpdate, TypeInv, TypeOK
<1>9. \A u \in Templates : row'[u] # None => row'[u].updatedAt \in 1..clock
  BY <1>1, <1>3 DEF CommitUpdate, TypeInv, TypeOK, Row
<1>10. \A f \in Editors \ {e} : tx'[f] = tx[f]
  BY DEF CommitUpdate, Closed, TypeInv, TypeOK
<1>11. tx' \in [Editors -> Handler] /\ tx'[e] = Idle
  BY IdleIsHandler DEF CommitUpdate, Closed, TypeInv, TypeOK
<1>12. TypeOK'
  BY <1>5, <1>6, <1>8, <1>9, <1>10, <1>11 DEF CommitUpdate, TypeInv, TypeOK
<1>13. HandlerOK(e)'
  BY <1>11 DEF HandlerOK, Idle
<1>14. \A u \in Templates : row[u] \in Row => row'[u] \in Row
  BY <1>1, <1>5 DEF CommitUpdate, TypeInv, TypeOK
<1> QED
  BY <1>10, <1>12, <1>13, <1>14, OthersKeep DEF CommitUpdate, TypeInv, TypeOK

LEMMA CommitDeleteType ==
    ASSUME TypeInv, NEW e \in Editors, CommitDelete(e)
    PROVE  TypeInv'
<1> DEFINE t == tx[e].t
<1>1. /\ tx[e] \in Handler /\ t \in Templates /\ tx[e].row \in Row
      /\ row[t] \in Row /\ tx[e].stamp \in 1..clock
  BY DEF TypeInv, TypeOK, HandlerOK, CommitDelete
<1>2. Updated(e) \in Row /\ Updated(e).updatedAt = tx[e].stamp
  BY UpdatedIsRow DEF CommitDelete
<1>3. row' \in [Templates -> Row \cup {None}] /\ row'[t] \in Row
  BY <1>1, <1>2 DEF CommitDelete, TypeInv, TypeOK, Row
<1>4. \A u \in Templates : row'[u] # None => row'[u].updatedAt \in 1..clock
  BY <1>1, <1>2 DEF CommitDelete, TypeInv, TypeOK, Row
<1>5. \A f \in Editors \ {e} : tx'[f] = tx[f]
  BY DEF CommitDelete, Closed, TypeInv, TypeOK
<1>6. tx' \in [Editors -> Handler] /\ tx'[e] = Idle
  BY IdleIsHandler DEF CommitDelete, Closed, TypeInv, TypeOK
<1>7. TypeOK'
  BY <1>3, <1>4, <1>5, <1>6 DEF CommitDelete, TypeInv, TypeOK
<1>8. HandlerOK(e)'
  BY <1>6 DEF HandlerOK, Idle
<1>9. \A u \in Templates : row[u] \in Row => row'[u] \in Row
  BY <1>1, <1>3 DEF CommitDelete, TypeInv, TypeOK
<1> QED
  <2>1. clock \in Nat /\ clock' = clock
    BY DEF CommitDelete, TypeInv, TypeOK
  <2> QED
    BY <1>5, <1>7, <1>8, <1>9, <2>1, OthersKeep DEF TypeInv

LEMMA CommitCreateType ==
    ASSUME TypeInv, NEW e \in Editors, CommitCreate(e)
    PROVE  TypeInv'
<1> DEFINE t == tx[e].t
           r == [name |-> tx[e].req, revision |-> 1, updatedAt |-> tx[e].stamp,
                 deleted |-> FALSE, updatedBy |-> None]
<1>1. tx[e] \in Handler /\ t \in Templates /\ tx[e].stamp \in 1..clock
  BY DEF TypeInv, TypeOK, HandlerOK, CommitCreate
<1>2. Inserted(e) \in SUBSET PageRow
  BY <1>1 DEF Inserted, PageRows, PageRow, Handler
<1>3. r \in Row /\ r.updatedAt \in 1..clock
  BY <1>1 DEF Row, Handler
<1>4. row' = [row EXCEPT ![t] = r]
  BY DEF CommitCreate
<1> HIDE DEF r
<1>5. row' \in [Templates -> Row \cup {None}] /\ row'[t] \in Row
  BY <1>1, <1>3, <1>4 DEF TypeInv, TypeOK
<1>6. pages' \in [Templates -> SUBSET PageRow]
  BY <1>1, <1>2 DEF CommitCreate, TypeInv, TypeOK
<1>7. [t |-> tx[e].t, revision |-> 1, name |-> tx[e].req,
       pages |-> Inserted(e)] \in View
  BY <1>1, <1>2 DEF View, Handler
<1>8. held' \in [Editors -> View \cup {None}]
  BY <1>7 DEF CommitCreate, TypeInv, TypeOK
<1>9. \A u \in Templates : row'[u] # None => row'[u].updatedAt \in 1..clock
  BY <1>1, <1>3, <1>4 DEF TypeInv, TypeOK
<1>10. \A f \in Editors \ {e} : tx'[f] = tx[f]
  BY DEF CommitCreate, Closed, TypeInv, TypeOK
<1>11. tx' \in [Editors -> Handler] /\ tx'[e] = Idle
  BY IdleIsHandler DEF CommitCreate, Closed, TypeInv, TypeOK
<1>12. TypeOK'
  BY <1>5, <1>6, <1>8, <1>9, <1>10, <1>11 DEF CommitCreate, TypeInv, TypeOK
<1>13. HandlerOK(e)'
  BY <1>11 DEF HandlerOK, Idle
<1>14. \A u \in Templates : row[u] \in Row => row'[u] \in Row
  BY <1>1, <1>3, <1>4 DEF TypeInv, TypeOK
<1> QED
  <2>1. clock \in Nat /\ clock' = clock
    BY DEF CommitCreate, TypeInv, TypeOK
  <2> QED
    BY <1>10, <1>12, <1>13, <1>14, <2>1, OthersKeep DEF TypeInv

LEMMA DeleteTemplateType ==
    ASSUME TypeInv, NEW e \in Editors, NEW t \in Templates, DeleteTemplate(e, t)
    PROVE  TypeInv'
<1> DEFINE h == [Idle EXCEPT !.pc = "stamp", !.kind = "delete", !.t = t,
                             !.req = requests + 1, !.row = row[t]]
<1>1. row[t] \in Row /\ requests + 1 \in Nat /\ requests' \in 0..MaxRequests
  BY ConstantsAssumption
  DEF TypeInv, TypeOK, DeleteTemplate, Found, WriterMayStart
<1>2. h \in Handler /\ h.t \in Templates
  BY <1>1 DEF Idle, Handler, Steps, Kinds
<1>3. tx' = [tx EXCEPT ![e] = h]
  BY DEF DeleteTemplate
<1>4. /\ tx' \in [Editors -> Handler] /\ tx'[e] = h
      /\ \A f \in Editors \ {e} : tx'[f] = tx[f]
      /\ \A f \in Editors : tx'[f] # Idle => tx'[f].t # None
  <2> HIDE DEF h
  <2> QED
    BY <1>2, <1>3, HandlerReplaced
<1>5. TypeOK'
  BY <1>1, <1>4 DEF TypeInv, TypeOK, DeleteTemplate
<1>6. HandlerOK(e)'
  BY <1>1, <1>4 DEF DeleteTemplate, HandlerOK, Idle
<1> QED
  BY <1>4, <1>5, <1>6, OthersKeep DEF TypeInv, TypeOK, DeleteTemplate

LEMMA CreateTemplateType ==
    ASSUME TypeInv, NEW e \in Editors, NEW t \in Templates, CreateTemplate(e, t)
    PROVE  TypeInv'
<1>1. PICK newPages \in (SUBSET PageIndexes) \ {{}} :
         tx' = [tx EXCEPT ![e] = [Idle EXCEPT
                   !.pc = "commit", !.kind = "create", !.t = t,
                   !.req = requests + 1, !.setName = TRUE, !.newPages = newPages,
                   !.stamp = clock + 1]]
  BY DEF CreateTemplate, InsertStamp
<1> DEFINE h == [Idle EXCEPT !.pc = "commit", !.kind = "create", !.t = t,
                             !.req = requests + 1, !.setName = TRUE,
                             !.newPages = newPages, !.stamp = clock + 1]
<1>2. /\ requests + 1 \in Nat /\ requests' \in 0..MaxRequests
      /\ clock + 1 \in Nat /\ clock' = clock + 1
  BY ConstantsAssumption DEF TypeInv, TypeOK, CreateTemplate, InsertStamp, WriterMayStart
<1>3. h \in Handler /\ h.t \in Templates
  BY <1>2 DEF Idle, Handler, Steps, Kinds
<1>4. /\ tx' \in [Editors -> Handler] /\ tx'[e] = h
      /\ \A f \in Editors \ {e} : tx'[f] = tx[f]
      /\ \A f \in Editors : tx'[f] # Idle => tx'[f].t # None
  <2>1. tx' = [tx EXCEPT ![e] = h]
    BY <1>1
  <2> HIDE DEF h
  <2> QED
    BY <1>3, <2>1, HandlerReplaced
<1>5. TypeOK'
  BY <1>2, <1>4 DEF TypeInv, TypeOK, CreateTemplate, InsertStamp
<1>6. HandlerOK(e)'
  BY <1>2, <1>4 DEF TypeInv, TypeOK, HandlerOK, Idle
<1> QED
  BY <1>2, <1>4, <1>5, <1>6, OthersKeep DEF TypeInv, TypeOK, CreateTemplate, InsertStamp

LEMMA NextType == TypeInv /\ [Next]_vars => TypeInv'
<1> SUFFICES ASSUME TypeInv, [Next]_vars PROVE TypeInv'
  OBVIOUS
<1>1. ASSUME NEW e \in Editors, Start(e) PROVE TypeInv'
  BY <1>1, GetTemplateType, UpdateTemplateType, DeleteTemplateType,
     CreateTemplateType DEF Start
<1>2. ASSUME NEW e \in Editors, Step(e) PROVE TypeInv'
  <2>1. CASE \/ PreconditionFailed(e) \/ PageIndexTaken(e) \/ DeadlockVictim(e)
    BY <2>1, ClosedType DEF PreconditionFailed, PageIndexTaken, DeadlockVictim
  <2> QED
    BY <1>2, <2>1, AnswerGetType, CheckIfMatchType, FlushRowType, DeletePagesType,
       StampType, CommitUpdateType, CommitDeleteType, CommitCreateType DEF Step
<1>3. ASSUME NEW e \in Editors, Abandon(e) PROVE TypeInv'
  BY <1>3, ClosedType DEF Abandon
<1>4. CASE UNCHANGED vars
  BY <1>4 DEF vars, TypeInv, TypeOK, HandlerOK
<1> QED
  BY <1>1, <1>2, <1>3, <1>4 DEF Next

\* Type correctness of templates.py's handlers, for all constants.
THEOREM TypeCorrect == Spec => []TypeOK
<1>1. TypeInv => TypeOK
  BY DEF TypeInv
<1> QED
  BY <1>1, InitType, NextType, PTL DEF Spec

-----------------------------------------------------------------------------
(* Only three steps write rows and pages. *)

Commit(e) == CommitUpdate(e) \/ CommitDelete(e) \/ CommitCreate(e)

LEMMA OnlyCommitsWrite ==
    ASSUME [Next]_vars
    PROVE  \/ \E e \in Editors : Commit(e)
           \/ UNCHANGED <<row, pages>>
<1>1. ASSUME NEW e \in Editors, Start(e) PROVE UNCHANGED <<row, pages>>
  BY <1>1 DEF Start, GetTemplate, UpdateTemplate, DeleteTemplate, CreateTemplate, InsertStamp
<1>2. ASSUME NEW e \in Editors, Step(e) PROVE Commit(e) \/ UNCHANGED <<row, pages>>
  BY <1>2 DEF Step, Commit, AnswerGet, CheckIfMatch, PreconditionFailed, FlushRow,
              DeletePages, Stamp, PageIndexTaken, DeadlockVictim
<1>3. ASSUME NEW e \in Editors, Abandon(e) PROVE UNCHANGED <<row, pages>>
  BY <1>3 DEF Abandon
<1>4. CASE UNCHANGED vars
  BY <1>4 DEF vars
<1> QED
  BY <1>1, <1>2, <1>3, <1>4 DEF Next

-----------------------------------------------------------------------------
(* Ids in the making: no handler inserts a template that is there already. *)

CreateOK ==
    \A e \in Editors : tx[e].kind = "create" =>
        /\ row[tx[e].t] = None
        /\ \A f \in Editors \ {e} : tx[f].kind = "create" => tx[f].t # tx[e].t

LEMMA InitCreate == Init => CreateOK
BY DEF Init, CreateOK, Idle

LEMMA NextCreate == TypeInv /\ CreateOK /\ [Next]_vars => CreateOK'
<1> SUFFICES ASSUME TypeInv, CreateOK, [Next]_vars PROVE CreateOK'
  OBVIOUS
\* A step that neither writes a row nor makes a handler a creating one.
<1>1. ASSUME UNCHANGED row,
             \A f \in Editors : tx'[f].kind = "create" =>
                                \/ tx'[f] = tx[f]
                                \/ tx[f].kind = "create" /\ tx'[f].t = tx[f].t
      PROVE  CreateOK'
  BY <1>1 DEF CreateOK
<1>2. ASSUME NEW e \in Editors, tx' = Closed(e), UNCHANGED row PROVE CreateOK'
  <2>1. \A f \in Editors : tx'[f] = Idle \/ tx'[f] = tx[f]
    BY <1>2 DEF Closed, TypeInv, TypeOK
  <2> QED
    BY <1>1, <1>2, <2>1 DEF Idle
<1>3. ASSUME NEW e \in Editors, NEW t \in Templates, CreateTemplate(e, t)
      PROVE  CreateOK'
  <2>1. tx'[e].kind = "create" /\ tx'[e].t = t /\ row' = row
        /\ \A f \in Editors \ {e} : tx'[f] = tx[f]
    BY <1>3 DEF CreateTemplate, InsertStamp, Idle, TypeInv, TypeOK
  <2>2. row[t] = None /\ \A f \in Editors : tx[f].kind = "create" => tx[f].t # t
    BY <1>3 DEF CreateTemplate, InsertStamp
  <2> QED
    BY <2>1, <2>2 DEF CreateOK
<1>4. ASSUME NEW e \in Editors, Start(e) PROVE CreateOK'
  <2>1. CASE UpdateTemplate(e)
    <3>1. tx'[e].kind = "patch" /\ row' = row
          /\ \A f \in Editors \ {e} : tx'[f] = tx[f]
      BY <2>1 DEF UpdateTemplate, Idle, TypeInv, TypeOK
    <3> QED
      BY <1>1, <3>1
  <2>2. ASSUME NEW t \in Templates, GetTemplate(e, t) PROVE CreateOK'
    <3>1. tx'[e].kind = "get" /\ row' = row
          /\ \A f \in Editors \ {e} : tx'[f] = tx[f]
      BY <2>2 DEF GetTemplate, Idle, TypeInv, TypeOK
    <3> QED
      BY <1>1, <3>1
  <2>3. ASSUME NEW t \in Templates, DeleteTemplate(e, t) PROVE CreateOK'
    <3>1. tx'[e].kind = "delete" /\ row' = row
          /\ \A f \in Editors \ {e} : tx'[f] = tx[f]
      BY <2>3 DEF DeleteTemplate, Idle, TypeInv, TypeOK
    <3> QED
      BY <1>1, <3>1
  <2> QED
    BY <1>3, <1>4, <2>1, <2>2, <2>3 DEF Start
<1>5. ASSUME NEW e \in Editors, Commit(e) PROVE CreateOK'
  <2>1. tx' = Closed(e) /\ tx[e].t \in Templates
        /\ \A t \in Templates : t # tx[e].t => row'[t] = row[t]
    BY <1>5 DEF Commit, CommitUpdate, CommitDelete, CommitCreate, TypeInv, TypeOK,
                HandlerOK
  <2>2. \A f \in Editors \ {e} : tx[f].kind = "create" => tx[f].t # tx[e].t
    <3>1. tx[e].kind = "create" \/ row[tx[e].t] # None
      BY <1>5, NoneAssumption DEF Commit, CommitUpdate, CommitDelete, CommitCreate,
                                  TypeInv, HandlerOK
    <3> QED
      BY <3>1 DEF CreateOK
  <2>3. tx'[e] = Idle /\ \A f \in Editors \ {e} : tx'[f] = tx[f]
    BY <2>1 DEF Closed, TypeInv, TypeOK
  <2>4. \A f \in Editors : tx[f].kind = "create" => tx[f].t \in Templates
    BY DEF TypeInv, HandlerOK
  <2> QED
    BY <2>1, <2>2, <2>3, <2>4 DEF CreateOK, Idle
<1>6. ASSUME NEW e \in Editors, Step(e) PROVE CreateOK'
  <2>1. CASE CheckIfMatch(e) \/ FlushRow(e) \/ DeletePages(e) \/ Stamp(e)
    BY <1>1, <2>1 DEF CheckIfMatch, FlushRow, DeletePages, Stamp, TypeInv, TypeOK,
                      Handler
  <2>2. CASE AnswerGet(e) \/ PreconditionFailed(e) \/ PageIndexTaken(e)
             \/ DeadlockVictim(e)
    BY <1>2, <2>2 DEF AnswerGet, PreconditionFailed, PageIndexTaken, DeadlockVictim
  <2> QED
    BY <1>5, <1>6, <2>1, <2>2 DEF Step, Commit
<1>7. ASSUME NEW e \in Editors, Abandon(e) PROVE CreateOK'
  BY <1>2, <1>7 DEF Abandon
<1>8. CASE UNCHANGED vars
  BY <1>8 DEF vars, CreateOK
<1> QED
  BY <1>4, <1>6, <1>7, <1>8 DEF Next

\* A deleted template stays deleted, whatever PATCH was under way.
THEOREM DeletionIsFinal == Spec => TombstoneIsFinal
<1>1. TypeInv /\ CreateOK /\ [Next]_vars
      => [\A t \in Templates :
            row[t] # None /\ row[t].deleted => row'[t] # None /\ row'[t].deleted]_vars
  <2> SUFFICES ASSUME TypeInv, CreateOK, [Next]_vars, NEW t \in Templates,
                      row[t] # None, row[t].deleted
               PROVE  row'[t] # None /\ row'[t].deleted
    OBVIOUS
  <2>1. row[t] \in Row
    BY DEF TypeInv, TypeOK
  <2>2. ASSUME NEW e \in Editors, CommitUpdate(e) \/ CommitDelete(e)
        PROVE  row'[t] # None /\ row'[t].deleted
    <3>1. tx[e].t \in Templates
      BY <2>2 DEF TypeInv, HandlerOK, CommitUpdate, CommitDelete
    <3>2. CASE t # tx[e].t
      BY <2>2, <3>1, <3>2 DEF CommitUpdate, CommitDelete, TypeInv, TypeOK
    <3>3. CASE t = tx[e].t
      <4>1. Updated(e) \in Row /\ Updated(e).deleted
        BY <2>2, <3>3, UpdatedIsRow DEF CommitUpdate, CommitDelete
      <4>2. row'[t] \in Row /\ row'[t].deleted
        <5>1. tx[e].req \in Nat
          BY DEF TypeInv, TypeOK, Handler
        <5>2. CASE CommitUpdate(e)
          <6>1. row'[t] = [Updated(e) EXCEPT
                              !.name = IF tx[e].setName THEN tx[e].req ELSE @]
            BY <3>3, <5>2 DEF CommitUpdate, TypeInv, TypeOK
          <6> QED
            BY <4>1, <5>1, <6>1 DEF Row
        <5>3. CASE CommitDelete(e)
          <6>1. row'[t] = [Updated(e) EXCEPT !.deleted = TRUE]
            BY <3>3, <5>3 DEF CommitDelete, TypeInv, TypeOK
          <6> QED
            BY <4>1, <6>1 DEF Row
        <5> QED
          BY <2>2, <5>2, <5>3
      <4> QED
        BY <4>2, NoneAssumption
    <3> QED
      BY <3>2, <3>3
  <2>3. ASSUME NEW e \in Editors, CommitCreate(e)
        PROVE  row'[t] # None /\ row'[t].deleted
    <3>1. tx[e].t \in Templates /\ tx[e].t # t
      BY <2>3 DEF CommitCreate, CreateOK, TypeInv, HandlerOK
    <3> QED
      BY <2>3, <3>1 DEF CommitCreate, TypeInv, TypeOK
  <2> QED
    BY <2>2, <2>3, OnlyCommitsWrite DEF Commit
<1> QED
  BY <1>1, InitType, NextType, InitCreate, NextCreate, PTL
  DEF Spec, TombstoneIsFinal

-----------------------------------------------------------------------------
(* Pages and the requests that wrote them *)

\* The request that wrote p is over.
Settled(p) == p.by <= requests /\ \A f \in Editors : IsWriter(f) => p.by # tx[f].req

\* Every write request has a number of its own, and what is stored or loaded
\* was written by one that is over.
NumbersOK ==
    /\ \A e \in Editors : IsWriter(e) => tx[e].req <= requests
    /\ \A e, f \in Editors : IsWriter(e) /\ IsWriter(f) /\ tx[e].req = tx[f].req => e = f
    /\ \A t \in Templates : \A p \in pages[t] : Settled(p)
    /\ \A e \in Editors : \A p \in tx[e].pages : Settled(p)

\* A PATCH that has deleted the pages it loaded: those of them that are stored
\* are the ones it deletes.
ClearedOK ==
    \A e \in Editors :
        tx[e].kind = "patch" /\ tx[e].newPages # None /\ tx[e].pc \in {"stamp", "commit"}
            => tx[e].pages \cap pages[tx[e].t] \subseteq tx[e].gone

ReplaceInv == NumbersOK /\ ClearedOK

LEMMA InitReplace == Init => ReplaceInv
BY DEF Init, ReplaceInv, NumbersOK, ClearedOK, IsWriter, Idle

\* Requests that end, or go on, leave settled what was.
LEMMA SettledStays ==
    ASSUME requests' = requests, NEW p, Settled(p),
           \A f \in Editors : IsWriter(f)' => IsWriter(f) /\ tx'[f].req = tx[f].req
    PROVE  Settled(p)'
BY DEF Settled

\* A step that neither stores nor loads a page.
LEMMA NumbersKeep ==
    ASSUME NumbersOK, UNCHANGED <<pages, requests>>,
           \A f \in Editors : IsWriter(f)' => IsWriter(f) /\ tx'[f].req = tx[f].req,
           \A f \in Editors : tx'[f].pages \subseteq tx[f].pages
    PROVE  NumbersOK'
<1>1. \A t \in Templates : \A p \in pages[t] : Settled(p)'
  BY SettledStays DEF NumbersOK
<1>2. \A e \in Editors : \A p \in tx'[e].pages : Settled(p)'
  BY SettledStays DEF NumbersOK
<1> QED
  BY <1>1, <1>2 DEF NumbersOK

\* A step that ends a request without a commit.
LEMMA ClosedReplace ==
    ASSUME TypeInv, ReplaceInv, NEW e \in Editors, tx' = Closed(e), UNCHANGED <<pages, requests>>
    PROVE  ReplaceInv'
<1>1. tx'[e] = Idle /\ \A f \in Editors \ {e} : tx'[f] = tx[f]
  BY DEF Closed, TypeInv, TypeOK
<1>2. NumbersOK'
  BY <1>1, NumbersKeep DEF ReplaceInv, IsWriter, Idle
<1>3. ClearedOK'
  BY <1>1 DEF ReplaceInv, ClearedOK, Idle
<1> QED
  BY <1>2, <1>3 DEF ReplaceInv

\* A request that starts has the next number and has loaded no pages.
LEMMA StartReplace ==
    ASSUME TypeInv, ReplaceInv, NEW e \in Editors, Start(e)
    PROVE  ReplaceInv'
<1>1. requests \in Nat
  BY ConstantsAssumption DEF TypeInv, TypeOK
<1>2. /\ pages' = pages /\ \A f \in Editors \ {e} : tx'[f] = tx[f]
      /\ tx'[e].pages = {}
      /\ ~(tx'[e].kind = "patch" /\ tx'[e].pc \in {"stamp", "commit"})
      /\ \/ requests' = requests + 1 /\ tx'[e].req = requests + 1
         \/ requests' = requests /\ ~IsWriter(e)'
  <2>1. CASE UpdateTemplate(e)
    BY <2>1 DEF UpdateTemplate, TypeInv, TypeOK, Idle
  <2>2. ASSUME NEW t \in Templates, GetTemplate(e, t)
        PROVE  /\ tx'[e].pages = {} /\ tx'[e].kind = "get" /\ UNCHANGED <<pages, requests>>
               /\ \A f \in Editors \ {e} : tx'[f] = tx[f]
    BY <2>2 DEF GetTemplate, TypeInv, TypeOK, Idle
  <2>3. ASSUME NEW t \in Templates, DeleteTemplate(e, t)
        PROVE  /\ tx'[e].pages = {} /\ tx'[e].kind = "delete" /\ pages' = pages
               /\ \A f \in Editors \ {e} : tx'[f] = tx[f]
               /\ requests' = requests + 1 /\ tx'[e].req = requests + 1
    BY <2>3 DEF DeleteTemplate, TypeInv, TypeOK, Idle
  <2>4. ASSUME NEW t \in Templates, CreateTemplate(e, t)
        PROVE  /\ tx'[e].pages = {} /\ tx'[e].kind = "create" /\ pages' = pages
               /\ \A f \in Editors \ {e} : tx'[f] = tx[f]
               /\ requests' = requests + 1 /\ tx'[e].req = requests + 1
    BY <2>4 DEF CreateTemplate, InsertStamp, TypeInv, TypeOK, Idle
  <2> QED
    BY <2>1, <2>2, <2>3, <2>4 DEF Start, IsWriter
<1>3. \A f \in Editors \ {e} : IsWriter(f)' <=> IsWriter(f)
  BY <1>2 DEF IsWriter
<1>4. \A t \in Templates : \A p \in pages[t] : p \in PageRow /\ p.by \in Nat
  BY DEF TypeInv, TypeOK, PageRow
<1>5. \A f \in Editors : tx[f].req \in Nat /\ \A p \in tx[f].pages : p \in PageRow /\ p.by \in Nat
  BY DEF TypeInv, TypeOK, Handler, PageRow
<1>6. ASSUME NEW p \in PageRow, p.by \in Nat, Settled(p)  PROVE Settled(p)'
  BY <1>1, <1>2, <1>3, <1>6 DEF Settled
<1>7. NumbersOK'
  <2>1. \A f \in Editors : IsWriter(f)' => tx'[f].req <= requests'
    BY <1>1, <1>2, <1>3, <1>5 DEF ReplaceInv, NumbersOK
  <2>2. \A f, g \in Editors : IsWriter(f)' /\ IsWriter(g)' /\ tx'[f].req = tx'[g].req => f = g
    BY <1>1, <1>2, <1>3, <1>5 DEF ReplaceInv, NumbersOK
  <2>3. \A t \in Templates : \A p \in pages[t] : Settled(p)'
    BY <1>4, <1>6 DEF ReplaceInv, NumbersOK
  <2>4. \A f \in Editors : \A p \in tx'[f].pages : Settled(p)'
    BY <1>2, <1>5, <1>6 DEF ReplaceInv, NumbersOK
  <2> QED
    BY <1>2, <2>1, <2>2, <2>3, <2>4 DEF NumbersOK
<1>8. ClearedOK'
  BY <1>2 DEF ReplaceInv, ClearedOK
<1> QED
  BY <1>7, <1>8 DEF ReplaceInv

\* A commit stores nothing but pages of its own request, which no other handler
\* has loaded.
LEMMA CommitReplace ==
    ASSUME TypeInv, ReplaceInv, NEW e \in Editors, Commit(e)
    PROVE  ReplaceInv'
<1>1. /\ tx' = Closed(e) /\ requests' = requests /\ IsWriter(e)
      /\ tx'[e] = Idle /\ \A f \in Editors \ {e} : tx'[f] = tx[f]
  BY DEF Commit, CommitUpdate, CommitDelete, CommitCreate, Closed, IsWriter, TypeInv, TypeOK
<1>2. \A t \in Templates : pages'[t] \subseteq pages[t] \cup Inserted(e)
  BY DEF Commit, CommitUpdate, CommitDelete, CommitCreate, TypeInv, TypeOK
<1>3. \A p \in Inserted(e) : p.by = tx[e].req
  BY DEF Inserted, PageRows
<1>4. \A f \in Editors : IsWriter(f)' => IsWriter(f) /\ tx'[f].req = tx[f].req /\ f # e
  BY <1>1 DEF IsWriter, Idle
<1>5. NumbersOK'
  <2>1. \A p \in Inserted(e) : Settled(p)'
    BY <1>1, <1>3, <1>4 DEF Settled, ReplaceInv, NumbersOK
  <2>2. \A t \in Templates : \A p \in pages[t] : Settled(p)'
    BY <1>1, <1>4, SettledStays DEF ReplaceInv, NumbersOK
  <2>3. \A t \in Templates : \A p \in pages'[t] : Settled(p)'
    BY <1>2, <2>1, <2>2
  <2>4. \A f \in Editors : \A p \in tx'[f].pages : Settled(p)'
    <3>1. \A f \in Editors : tx'[f].pages \subseteq tx[f].pages
      BY <1>1 DEF Idle
    <3> QED
      BY <1>1, <1>4, <3>1, SettledStays DEF ReplaceInv, NumbersOK
  <2> QED
    BY <1>1, <1>4, <2>3, <2>4 DEF ReplaceInv, NumbersOK
<1>6. ClearedOK'
  <2> SUFFICES ASSUME NEW f \in Editors, f # e, tx[f].kind = "patch", tx[f].newPages # None,
                      tx[f].pc \in {"stamp", "commit"}
               PROVE  tx[f].pages \cap pages'[tx[f].t] \subseteq tx[f].gone
    BY <1>1 DEF ClearedOK, Idle
  <2>1. tx[f].t \in Templates
    BY DEF TypeInv, HandlerOK
  <2>2. \A p \in tx[f].pages : p \notin Inserted(e)
    BY <1>1, <1>3 DEF ReplaceInv, NumbersOK, Settled
  <2> QED
    BY <1>2, <2>1, <2>2 DEF ReplaceInv, ClearedOK
<1> QED
  BY <1>5, <1>6 DEF ReplaceInv

LEMMA NextReplace == TypeInv /\ ReplaceInv /\ [Next]_vars => ReplaceInv'
<1> SUFFICES ASSUME TypeInv, ReplaceInv, [Next]_vars PROVE ReplaceInv'
  OBVIOUS
<1>1. ASSUME NEW e \in Editors, CheckIfMatch(e) PROVE ReplaceInv'
  <2>1. /\ tx'[e] = [tx[e] EXCEPT !.pc = AfterCheck(e), !.pages = pages[tx[e].t]]
        /\ \A f \in Editors \ {e} : tx'[f] = tx[f]
        /\ UNCHANGED <<pages, requests>> /\ tx[e] \in Handler /\ tx[e].kind = "patch"
    BY <1>1 DEF CheckIfMatch, TypeInv, TypeOK
  <2>2. /\ tx'[e].kind = tx[e].kind /\ tx'[e].req = tx[e].req /\ tx'[e].t = tx[e].t
        /\ tx'[e].newPages = tx[e].newPages
        /\ tx'[e].pages = pages[tx[e].t] /\ tx'[e].pc = AfterCheck(e)
    BY <2>1 DEF Handler
  <2>3. tx[e].t \in Templates
    BY <2>1 DEF TypeInv, HandlerOK
  <2>4. \A f \in Editors : IsWriter(f)' => IsWriter(f) /\ tx'[f].req = tx[f].req
    BY <2>1, <2>2 DEF IsWriter
  <2>5. NumbersOK'
    <3>1. \A t \in Templates : \A p \in pages[t] : Settled(p)'
      BY <2>1, <2>4, SettledStays DEF ReplaceInv, NumbersOK
    <3>2. \A f \in Editors : \A p \in tx'[f].pages : Settled(p)'
      BY <2>1, <2>2, <2>3, <2>4, <3>1, SettledStays DEF ReplaceInv, NumbersOK
    <3> QED
      BY <2>1, <2>4, <3>1, <3>2 DEF ReplaceInv, NumbersOK
  <2>6. ClearedOK'
    BY <2>1, <2>2, ZenonT(30) DEF ReplaceInv, ClearedOK, AfterCheck
  <2> QED
    BY <2>5, <2>6 DEF ReplaceInv
<1>2. ASSUME NEW e \in Editors, FlushRow(e) \/ DeletePages(e) \/ Stamp(e) PROVE ReplaceInv'
  <2>1. /\ \A f \in Editors \ {e} : tx'[f] = tx[f]
        /\ UNCHANGED <<pages, requests>> /\ tx[e] \in Handler
    BY <1>2 DEF FlushRow, DeletePages, Stamp, TypeInv, TypeOK
  <2>2. /\ tx'[e].kind = tx[e].kind /\ tx'[e].req = tx[e].req /\ tx'[e].t = tx[e].t
        /\ tx'[e].newPages = tx[e].newPages /\ tx'[e].pages = tx[e].pages
    BY <1>2, <2>1 DEF FlushRow, DeletePages, Stamp, TypeInv, TypeOK, Handler
  <2>3. NumbersOK'
    BY <2>1, <2>2, NumbersKeep DEF ReplaceInv, IsWriter
  <2>4. \/ tx'[e].pc = "deletePages"
        \/ tx'[e].gone = Doomed(e)
        \/ tx[e].pc = "stamp" /\ tx'[e].gone = tx[e].gone
    BY <1>2, <2>1 DEF FlushRow, DeletePages, Stamp, TypeInv, TypeOK, Handler
  <2>5. ClearedOK'
    BY <2>1, <2>2, <2>4 DEF ReplaceInv, ClearedOK, Doomed
  <2> QED
    BY <2>3, <2>5 DEF ReplaceInv
<1>3. ASSUME NEW e \in Editors, Step(e) PROVE ReplaceInv'
  <2>1. CASE AnswerGet(e) \/ PreconditionFailed(e) \/ PageIndexTaken(e) \/ DeadlockVictim(e)
    BY <2>1, ClosedReplace DEF AnswerGet, PreconditionFailed, PageIndexTaken, DeadlockVictim
  <2> QED
    BY <1>1, <1>2, <1>3, <2>1, CommitReplace DEF Step, Commit
<1>4. ASSUME NEW e \in Editors, Abandon(e) PROVE ReplaceInv'
  BY <1>4, ClosedReplace DEF Abandon
<1>5. CASE UNCHANGED vars
  BY <1>5 DEF vars, ReplaceInv, NumbersOK, ClearedOK, Settled, IsWriter
<1> QED
  BY <1>3, <1>4, <1>5, StartReplace DEF Next

\* A PATCH with pages replaces them wholesale, whatever other requests store and
\* delete while it runs: no page that it loaded is stored once it has committed.
THEOREM ReplacedWholesale == Spec => NoOldPageSurvives
<1>1. TypeInv /\ ReplaceInv /\ [Next]_vars
      => [\A e \in Editors :
            Commits(e) /\ tx[e].newPages # None
                => pages'[tx[e].t] \cap tx[e].pages = {}]_vars
  <2> SUFFICES ASSUME TypeInv, ReplaceInv, [Next]_vars,
                      NEW e \in Editors, Commits(e), tx[e].newPages # None
               PROVE  pages'[tx[e].t] \cap tx[e].pages = {}
    OBVIOUS
  <2>1. CommitUpdate(e)
    <3>1. PICK f \in Editors : Commit(f)
      BY OnlyCommitsWrite DEF Commits
    <3>2. \A g \in Editors \ {f} : tx'[g] = tx[g]
      BY <3>1 DEF Commit, CommitUpdate, CommitDelete, CommitCreate, Closed, TypeInv, TypeOK
    <3>3. f = e
      BY <3>2 DEF Commits
    <3> QED
      BY <3>1, <3>3 DEF Commits, Commit, CommitDelete, CommitCreate
  <2>2. tx[e].t \in Templates /\ tx[e].pc = "commit" /\ IsWriter(e) /\ tx[e].kind = "patch"
    BY <2>1 DEF CommitUpdate, IsWriter, TypeInv, HandlerOK
  <2>3. pages'[tx[e].t] = (pages[tx[e].t] \ tx[e].gone) \cup Inserted(e)
    BY <2>1, <2>2 DEF CommitUpdate, TypeInv, TypeOK
  <2>4. \A p \in tx[e].pages : p \notin Inserted(e)
    BY <2>2 DEF ReplaceInv, NumbersOK, Settled, Inserted, PageRows
  <2>5. tx[e].pages \cap pages[tx[e].t] \subseteq tx[e].gone
    BY <2>2 DEF ReplaceInv, ClearedOK
  <2> QED
    BY <2>3, <2>4, <2>5
<1> QED
  BY <1>1, InitType, NextType, InitReplace, NextReplace, PTL
  DEF Spec, NoOldPageSurvives

-----------------------------------------------------------------------------
(* The pages of one save *)

\* With a page of S, S has whatever the same save stored with it.
Whole(S, t) == \A p \in S, q \in pages[t] : p.by = q.by => q \in S

\* What a handler has loaded, and what it deletes, are the pages of whole saves.
TogetherInv ==
    \A e \in Editors :
        /\ tx[e].pc = "selectPages" => tx[e].gone = {}
        /\ tx[e].gone \subseteq tx[e].pages
        /\ Whole(tx[e].pages, tx[e].t) /\ Whole(tx[e].gone, tx[e].t)

LEMMA InitTogether == Init => TogetherInv
BY DEF Init, TogetherInv, Whole, Idle

\* A step that stores nothing, and of which no handler has more than before.
LEMMA TogetherKeeps ==
    ASSUME TogetherInv, UNCHANGED pages,
           \A f \in Editors :
               \/ tx'[f].pages = {} /\ tx'[f].gone = {}
               \/ /\ tx'[f].pages = tx[f].pages /\ tx'[f].t = tx[f].t
                  /\ tx'[f].gone = tx[f].gone /\ tx'[f].pc # "selectPages"
               \/ tx'[f] = tx[f]
    PROVE  TogetherInv'
BY DEF TogetherInv, Whole

LEMMA ClosedTogether ==
    ASSUME TypeInv, TogetherInv, NEW e \in Editors, tx' = Closed(e), UNCHANGED pages
    PROVE  TogetherInv'
<1>1. \A f \in Editors : tx'[f] = Idle \/ tx'[f] = tx[f]
  BY DEF Closed, TypeInv, TypeOK
<1> QED
  BY <1>1, TogetherKeeps DEF Idle

\* A handler begins with nothing loaded.
LEMMA StartTogether ==
    ASSUME TypeInv, TogetherInv, NEW e \in Editors, Start(e)
    PROVE  TogetherInv'
<1>1. UNCHANGED pages /\ \A f \in Editors \ {e} : tx'[f] = tx[f]
  BY DEF Start, UpdateTemplate, GetTemplate, DeleteTemplate, CreateTemplate, TypeInv, TypeOK
<1>2. tx'[e].pages = {} /\ tx'[e].gone = {}
  <2>1. CASE UpdateTemplate(e)
    BY <2>1 DEF UpdateTemplate, Idle, TypeInv, TypeOK
  <2>2. CASE \E t \in Templates : GetTemplate(e, t)
    BY <2>2 DEF GetTemplate, Idle, TypeInv, TypeOK
  <2>3. CASE \E t \in Templates : DeleteTemplate(e, t)
    BY <2>3 DEF DeleteTemplate, Idle, TypeInv, TypeOK
  <2>4. CASE \E t \in Templates : CreateTemplate(e, t)
    BY <2>4 DEF CreateTemplate, Idle, TypeInv, TypeOK
  <2> QED
    BY <2>1, <2>2, <2>3, <2>4 DEF Start
<1> QED
  BY <1>1, <1>2, TogetherKeeps

\* A commit adds pages of a save of which nobody has loaded any.
LEMMA CommitTogether ==
    ASSUME TypeInv, ReplaceInv, TogetherInv, NEW e \in Editors, Commit(e)
    PROVE  TogetherInv'
<1>1. IsWriter(e) /\ tx'[e] = Idle /\ \A f \in Editors \ {e} : tx'[f] = tx[f]
  BY DEF Commit, CommitUpdate, CommitDelete, CommitCreate, Closed, IsWriter, TypeInv, TypeOK
<1>2. \A t \in Templates : pages'[t] \subseteq pages[t] \cup Inserted(e)
  BY DEF Commit, CommitUpdate, CommitDelete, CommitCreate, TypeInv, TypeOK
<1>3. \A f \in Editors : \A p \in tx[f].pages, q \in Inserted(e) : p.by # q.by
  BY <1>1 DEF ReplaceInv, NumbersOK, Settled, Inserted, PageRows
<1>4. ASSUME NEW f \in Editors, f # e, tx[f].pages # {}
      PROVE  Whole(tx[f].pages, tx[f].t)' /\ Whole(tx[f].gone, tx[f].t)'
  <2>1. tx[f].t \in Templates
    BY <1>4 DEF TypeInv, HandlerOK, Idle
  <2>2. pages'[tx[f].t] \subseteq pages[tx[f].t] \cup Inserted(e)
    BY <1>2, <2>1
  <2> QED
    BY <1>1, <1>3, <1>4, <2>2 DEF TogetherInv, Whole
<1> QED
  BY <1>1, <1>4 DEF TogetherInv, Whole, Idle

LEMMA NextTogether == TypeInv /\ ReplaceInv /\ TogetherInv /\ [Next]_vars => TogetherInv'
<1> SUFFICES ASSUME TypeInv, ReplaceInv, TogetherInv, [Next]_vars PROVE TogetherInv'
  OBVIOUS
<1>1. ASSUME NEW e \in Editors, CheckIfMatch(e) PROVE TogetherInv'
  <2>1. /\ tx'[e] = [tx[e] EXCEPT !.pc = AfterCheck(e), !.pages = pages[tx[e].t]]
        /\ \A f \in Editors \ {e} : tx'[f] = tx[f]
        /\ UNCHANGED pages /\ tx[e] \in Handler /\ tx[e].pc = "selectPages"
    BY <1>1 DEF CheckIfMatch, TypeInv, TypeOK
  <2>2. /\ tx'[e].t = tx[e].t /\ tx'[e].gone = {}
        /\ tx'[e].pages = pages[tx[e].t]
    BY <2>1 DEF Handler, TogetherInv
  <2>3. Whole(tx[e].pages, tx[e].t)' /\ Whole(tx[e].gone, tx[e].t)'
    BY <2>1, <2>2 DEF Whole
  <2>4. ASSUME NEW f \in Editors, f # e
        PROVE  Whole(tx[f].pages, tx[f].t)' /\ Whole(tx[f].gone, tx[f].t)'
    BY <2>1, <2>4 DEF TogetherInv, Whole
  <2> QED
    BY <2>1, <2>2, <2>3, <2>4 DEF TogetherInv
<1>2. ASSUME NEW e \in Editors, FlushRow(e) \/ Stamp(e) PROVE TogetherInv'
  <2>1. /\ \A f \in Editors \ {e} : tx'[f] = tx[f]
        /\ UNCHANGED pages /\ tx[e] \in Handler
    BY <1>2 DEF FlushRow, Stamp, TypeInv, TypeOK
  <2>2. /\ tx'[e].pages = tx[e].pages /\ tx'[e].t = tx[e].t
        /\ tx'[e].gone = tx[e].gone /\ tx'[e].pc # "selectPages"
    BY <1>2, <2>1 DEF FlushRow, Stamp, TypeInv, TypeOK, Handler
  <2> QED
    BY <2>1, <2>2, TogetherKeeps
<1>3. ASSUME NEW e \in Editors, DeletePages(e) PROVE TogetherInv'
  <2>1. /\ \A f \in Editors \ {e} : tx'[f] = tx[f]
        /\ UNCHANGED pages /\ tx[e] \in Handler
    BY <1>3 DEF DeletePages, TypeInv, TypeOK
  <2>2. /\ tx'[e].pages = tx[e].pages /\ tx'[e].t = tx[e].t
        /\ tx'[e].gone = tx[e].pages \cap pages[tx[e].t] /\ tx'[e].pc = "stamp"
    BY <1>3, <2>1 DEF DeletePages, Doomed, TypeInv, TypeOK, Handler
  <2> QED
    BY <2>1, <2>2 DEF TogetherInv, Whole
<1>4. ASSUME NEW e \in Editors, Step(e) PROVE TogetherInv'
  <2>1. CASE AnswerGet(e) \/ PreconditionFailed(e) \/ PageIndexTaken(e) \/ DeadlockVictim(e)
    BY <2>1, ClosedTogether DEF AnswerGet, PreconditionFailed, PageIndexTaken, DeadlockVictim
  <2> QED
    BY <1>1, <1>2, <1>3, <1>4, <2>1, CommitTogether DEF Step, Commit
<1>5. ASSUME NEW e \in Editors, Abandon(e) PROVE TogetherInv'
  BY <1>5, ClosedTogether DEF Abandon
<1>6. CASE UNCHANGED vars
  BY <1>6 DEF vars, TogetherInv, Whole
<1> QED
  BY <1>4, <1>5, <1>6, StartTogether DEF Next

\* No save ever takes away a part of what another one has stored, however the
\* handlers that load and delete pages overlap.
THEOREM PagesStayTogether == Spec => PagesGoTogether
<1>1. TypeInv /\ ReplaceInv /\ TogetherInv /\ [Next]_vars
      => [\A t \in Templates : \A p, q \in pages[t] :
            p.by = q.by => (p \in pages'[t] <=> q \in pages'[t])]_vars
  <2> SUFFICES ASSUME TypeInv, ReplaceInv, TogetherInv, [Next]_vars, NEW t \in Templates,
                      NEW p \in pages[t], NEW q \in pages[t], p.by = q.by
               PROVE  p \in pages'[t] <=> q \in pages'[t]
    OBVIOUS
  <2>1. ASSUME NEW e \in Editors, Commit(e) PROVE p \in pages'[t] <=> q \in pages'[t]
    <3>1. p \notin Inserted(e) /\ q \notin Inserted(e)
      <4>1. IsWriter(e)
        BY <2>1 DEF Commit, CommitUpdate, CommitDelete, CommitCreate, IsWriter
      <4> QED
        BY <4>1 DEF ReplaceInv, NumbersOK, Settled, Inserted, PageRows
    <3>2. CASE tx[e].t # t
      BY <2>1, <3>2 DEF Commit, CommitUpdate, CommitDelete, CommitCreate, TypeInv, TypeOK
    <3>3. CASE CommitUpdate(e) /\ tx[e].t = t
      <4>1. pages'[t] = (pages[t] \ tx[e].gone) \cup Inserted(e)
        BY <3>3 DEF CommitUpdate, TypeInv, TypeOK
      <4>2. p \in tx[e].gone <=> q \in tx[e].gone
        BY <3>3 DEF TogetherInv, Whole
      <4> QED
        BY <3>1, <4>1, <4>2
    <3>4. CASE CommitCreate(e) /\ tx[e].t = t
      <4>1. pages'[t] = Inserted(e)
        BY <3>4 DEF CommitCreate, TypeInv, TypeOK
      <4> QED
        BY <3>1, <4>1
    <3> QED
      BY <2>1, <3>2, <3>3, <3>4 DEF Commit, CommitDelete
  <2> QED
    BY <2>1, OnlyCommitsWrite
<1> QED
  BY <1>1, InitType, NextType, InitReplace, NextReplace, InitTogether, NextTogether, PTL
  DEF Spec, PagesGoTogether
=============================================================================
