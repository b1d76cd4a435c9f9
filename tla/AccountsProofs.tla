--------------------------- MODULE AccountsProofs ---------------------------
(***************************************************************************)
(* Theorems about Accounts, for every set of teachers, people, addresses,  *)
(* invites and tokens and any number of requests.                          *)
(***************************************************************************)
EXTENDS Accounts, TLAPS

\* The unique keys of the teachers table.
TeachersOK ==
    /\ teacher \in [Teachers -> TeacherRow \cup {None}]
    /\ \A t, u \in Teachers :
         teacher[t] # None /\ teacher[u] # None /\ t # u
             => /\ teacher[t].oid # None => teacher[t].oid # teacher[u].oid
                /\ teacher[t].email # None => teacher[t].email # teacher[u].email

\* The foreign keys of invite_codes and api_tokens.
KeysOK ==
    /\ \A i \in Invites : invite[i] # None => teacher[invite[i].teacher] # None
    /\ \A k \in Tokens : token[k] # None => teacher[token[k].teacher] # None

TablesOK ==
    /\ TeachersOK
    /\ invite \in [Invites -> InviteRow \cup {None}]
    /\ token \in [Tokens -> TokenRow \cup {None}]
    /\ members \subseteq People
    /\ KeysOK

\* What a request has loaded when it gets where it is.
RequestOK(r) ==
    LET q == request[r] IN
    /\ q.pc = "loadInvitee" => q.kind = "redeem"
    /\ q.pc \in {"loadByEmail", "provision"} => q.kind = "signIn"
    /\ q.pc = "loadByEmail" => q.address \in Addresses
    /\ q.pc = "issue" => /\ q.kind \in {"redeem", "signIn"}
                         /\ q.t \in Teachers /\ teacher[q.t] # None
                         /\ q.kind = "signIn" => q.teacherRow \in TeacherRow
    /\ q.pc = "loadTeacher" => q.kind \in {"logout", "logoutAll"}
    /\ q.pc \in {"loadTeacher", "authorised", "revoke"}
         => q.t \in Teachers /\ teacher[q.t] # None
    /\ q.pc = "revoke" => \A k \in q.loaded : token[k] # None
    /\ q.kind = "redeem" => q.invite \in Invites /\ invite[q.invite] # None
    /\ q.kind = "signIn" => q.person \in People
    /\ q.kind \in {"logout", "logoutAll"} => q.token \in Tokens /\ token[q.token] # None

TypeInv == /\ TablesOK
           /\ request \in [Requests -> Request]
           /\ \A r \in Requests : RequestOK(r)

\* No row vanishes.
RowsStay ==
    /\ \A t \in Teachers : teacher[t] # None => teacher'[t] # None
    /\ \A i \in Invites : invite[i] # None => invite'[i] # None
    /\ \A k \in Tokens : token[k] # None => token'[k] # None

LEMMA IdleIsRequest == Idle \in Request
BY DEF Idle, Request, Kinds, Steps

LEMMA InitType == Init => TypeInv
<1> SUFFICES ASSUME Init PROVE TypeInv
  OBVIOUS
<1>1. TablesOK
  BY DEF Init, TablesOK, TeachersOK, KeysOK
<1>2. \A r \in Requests : request[r] = Idle
  BY DEF Init
<1>3. \A r \in Requests : RequestOK(r)
  BY <1>2 DEF RequestOK, Idle
<1> QED
  BY <1>1, <1>3, IdleIsRequest DEF Init, TypeInv

-----------------------------------------------------------------------------
(* Frames *)

\* Requests that do not move keep what they have loaded.
LEMMA OthersKeep ==
    ASSUME TypeInv, RowsStay, NEW s \in Requests, request'[s] = request[s]
    PROVE  RequestOK(s)'
BY DEF TypeInv, RowsStay, RequestOK, Request

\* One request moves.
LEMMA RequestMoves ==
    ASSUME TypeInv, TablesOK', RowsStay, NEW r \in Requests, NEW q \in Request,
           request' = [request EXCEPT ![r] = q], RequestOK(r)'
    PROVE  TypeInv'
<1>1. request' \in [Requests -> Request]
  BY DEF TypeInv
<1>2. \A s \in Requests : s # r => request'[s] = request[s]
  BY DEF TypeInv
<1> QED
  BY <1>1, <1>2, OthersKeep DEF TypeInv

LEMMA RequestEnds ==
    ASSUME TypeInv, TablesOK', RowsStay, NEW r \in Requests, Ended(r)
    PROVE  TypeInv'
<1>1. request'[r] = Idle
  BY DEF Ended, TypeInv
<1>2. RequestOK(r)'
  BY <1>1 DEF RequestOK, Idle
<1> QED
  BY <1>2, IdleIsRequest, RequestMoves DEF Ended

\* A step of a request that writes nothing.
LEMMA NothingWritten ==
    ASSUME TypeInv, UNCHANGED <<teacher, invite, token, members>>
    PROVE  TablesOK' /\ RowsStay
BY DEF TypeInv, TablesOK, TeachersOK, KeysOK, RowsStay

LEMMA TeacherWritten ==
    ASSUME TeachersOK, NEW t \in Teachers, NEW new \in TeacherRow, ~Taken(t, new),
           teacher' = [teacher EXCEPT ![t] = new]
    PROVE  /\ TeachersOK'
           /\ \A u \in Teachers : teacher[u] # None => teacher'[u] # None
<1>1. \A u \in Teachers : teacher'[u] = IF u = t THEN new ELSE teacher[u]
  BY DEF TeachersOK
<1>2. new # None
  BY NoneAssumption
<1> QED
  BY <1>1, <1>2 DEF TeachersOK, Taken

LEMMA TokenWritten ==
    ASSUME token \in [Tokens -> TokenRow \cup {None}], NEW k \in Tokens,
           NEW new \in TokenRow, token' = [token EXCEPT ![k] = new]
    PROVE  /\ token' \in [Tokens -> TokenRow \cup {None}]
           /\ \A j \in Tokens : token'[j] = IF j = k THEN new ELSE token[j]
           /\ \A j \in Tokens : token[j] # None => token'[j] # None
<1>1. new # None
  BY NoneAssumption
<1> QED
  BY <1>1

-----------------------------------------------------------------------------
(* Redeeming an invite *)

LEMMA RedeemInviteType ==
    ASSUME TypeInv, NEW r \in Requests, NEW i \in Invites, RedeemInvite(r, i)
    PROVE  TypeInv'
<1> DEFINE q == [Idle EXCEPT !.kind = "redeem", !.pc = "loadInvitee", !.invite = i]
<1>1. q \in Request
  BY DEF Idle, Request, Kinds, Steps
<1>2. request' = [request EXCEPT ![r] = q] /\ invite[i] # None
  BY DEF RedeemInvite, Redeemable
<1>3. UNCHANGED <<teacher, invite, token, members>>
  BY DEF RedeemInvite
<1>4. RequestOK(r)'
  BY <1>2, <1>3 DEF RequestOK, Idle, TypeInv
<1> HIDE DEF q
<1> QED
  BY <1>1, <1>2, <1>3, <1>4, NothingWritten, RequestMoves

LEMMA LoadInviteeType ==
    ASSUME TypeInv, NEW r \in Requests, LoadInvitee(r)
    PROVE  TypeInv'
<1> DEFINE t == invite[request[r].invite].teacher
           q == [request[r] EXCEPT !.t = t, !.pc = "issue"]
<1>1. UNCHANGED <<teacher, invite, token, members>>
  BY DEF LoadInvitee
<1>2. CASE Ended(r)
  BY <1>1, <1>2, NothingWritten, RequestEnds
<1>3. CASE request' = [request EXCEPT ![r].t = t, ![r].pc = "issue"]
  <2>1. request[r] \in Request /\ request[r].kind = "redeem"
        /\ request[r].invite \in Invites
        /\ t \in Teachers /\ teacher[t] # None
    BY DEF LoadInvitee, TypeInv, TablesOK, KeysOK, RequestOK, InviteRow
  <2>2. q \in Request
    BY <2>1 DEF Request, Steps
  <2>3. request' = [request EXCEPT ![r] = q]
    BY <1>3, <2>1 DEF Request, TypeInv
  <2>4. request'[r].pc = "issue" /\ request'[r].kind = "redeem"
        /\ request'[r].t = t /\ request'[r].invite = request[r].invite
    BY <2>1, <2>3 DEF Request, TypeInv
  <2>5. RequestOK(r)'
    BY <1>1, <2>1, <2>4 DEF RequestOK, TypeInv
  <2> HIDE DEF q
  <2> QED
    BY <1>1, <2>2, <2>3, <2>5, NothingWritten, RequestMoves
<1> QED
  BY <1>2, <1>3 DEF LoadInvitee

LEMMA CommitRedeemType ==
    ASSUME TypeInv, NEW r \in Requests, NEW k \in Tokens, CommitRedeem(r, k)
    PROVE  TypeInv'
<1> DEFINE new == [teacher |-> request[r].t, by |-> request[r].invite, lasting |-> TRUE,
                   expired |-> FALSE, revoked |-> FALSE]
<1>1. /\ request[r].invite \in Invites /\ invite[request[r].invite] \in InviteRow
      /\ request[r].t \in Teachers /\ teacher[request[r].t] # None
  BY DEF CommitRedeem, TypeInv, TablesOK, RequestOK
<1>2. new \in TokenRow /\ token' = [token EXCEPT ![k] = new]
  BY <1>1 DEF CommitRedeem, Issued, TokenRow
<1>3. /\ token' \in [Tokens -> TokenRow \cup {None}]
      /\ \A j \in Tokens : token'[j] = IF j = k THEN new ELSE token[j]
      /\ \A j \in Tokens : token[j] # None => token'[j] # None
  <2> HIDE DEF new
  <2> QED
    BY <1>2, TokenWritten DEF TypeInv, TablesOK
<1>4. /\ invite' \in [Invites -> InviteRow \cup {None}]
      /\ \A i \in Invites : invite[i] # None =>
             invite'[i] # None /\ invite'[i].teacher = invite[i].teacher
      /\ \A i \in Invites : invite[i] = None => invite'[i] = None
  BY <1>1, NoneAssumption DEF CommitRedeem, TypeInv, TablesOK, InviteRow
<1>5. UNCHANGED <<teacher, members>> /\ Ended(r)
  BY DEF CommitRedeem
<1>6. TablesOK'
  BY <1>1, <1>3, <1>4, <1>5 DEF TypeInv, TablesOK, TeachersOK, KeysOK
<1>7. RowsStay
  BY <1>3, <1>4, <1>5 DEF RowsStay
<1> QED
  BY <1>5, <1>6, <1>7, RequestEnds

-----------------------------------------------------------------------------
(* Signing in *)

\* What a request is after a SELECT has found a teacher, or has not.
LEMMA FoundOK ==
    ASSUME TypeInv, NEW r \in Requests, NEW start \in Request, start.kind = "signIn",
           start.person \in People,
           \/ start.pc = "loadByEmail" /\ start.address \in Addresses
              /\ request' = [request EXCEPT ![r] = start]
           \/ request' = [request EXCEPT ![r] = NotFound(start)]
           \/ \E t \in Teachers : teacher[t] # None
                 /\ request' = [request EXCEPT ![r] = Found(start, t)],
           UNCHANGED <<teacher, invite, token, members>>
    PROVE  TypeInv'
<1>1. CASE start.pc = "loadByEmail" /\ start.address \in Addresses
           /\ request' = [request EXCEPT ![r] = start]
  <2>1. RequestOK(r)'
    BY <1>1 DEF RequestOK, TypeInv
  <2> QED
    BY <1>1, <2>1, NothingWritten, RequestMoves
<1>2. CASE request' = [request EXCEPT ![r] = NotFound(start)]
  <2>1. CASE AutoProvision
    <3> DEFINE q == [start EXCEPT !.pc = "provision"]
    <3>1. q \in Request /\ q.pc = "provision" /\ q.kind = "signIn" /\ q.person \in People
      BY DEF Request, Steps
    <3>2. request' = [request EXCEPT ![r] = q]
      BY <1>2, <2>1 DEF NotFound
    <3> HIDE DEF q
    <3>3. RequestOK(r)'
      BY <3>1, <3>2 DEF RequestOK, TypeInv
    <3> QED
      BY <3>1, <3>2, <3>3, NothingWritten, RequestMoves
  <2>2. CASE ~AutoProvision
    BY <1>2, <2>2, NothingWritten, RequestEnds DEF NotFound, Ended
  <2> QED
    BY <2>1, <2>2
<1>3. ASSUME NEW t \in Teachers, teacher[t] # None,
             request' = [request EXCEPT ![r] = Found(start, t)]
      PROVE  TypeInv'
  <2>1. CASE teacher[t].active
    <3> DEFINE q == [start EXCEPT !.t = t, !.teacherRow = teacher[t], !.pc = "issue"]
    <3>1. teacher[t] \in TeacherRow
      BY <1>3 DEF TypeInv, TablesOK, TeachersOK
    <3>2. q \in Request /\ q.pc = "issue" /\ q.kind = "signIn" /\ q.person \in People
          /\ q.t = t /\ q.teacherRow = teacher[t]
      BY <3>1 DEF Request, Steps
    <3>3. request' = [request EXCEPT ![r] = q]
      BY <1>3, <2>1 DEF Found
    <3> HIDE DEF q
    <3>4. RequestOK(r)'
      BY <1>3, <3>1, <3>2, <3>3 DEF RequestOK, TypeInv
    <3> QED
      BY <3>2, <3>3, <3>4, NothingWritten, RequestMoves
  <2>2. CASE ~teacher[t].active
    BY <1>3, <2>2, NothingWritten, RequestEnds DEF Found, Ended
  <2> QED
    BY <2>1, <2>2
<1> QED
  BY <1>1, <1>2, <1>3

LEMMA SignInType ==
    ASSUME TypeInv, NEW r \in Requests, NEW p \in People, NEW e \in Addresses \cup {None},
           SignIn(r, p, e)
    PROVE  TypeInv'
<1> DEFINE start == [Idle EXCEPT !.kind = "signIn", !.pc = "loadByEmail",
                                 !.person = p, !.address = e]
<1>1. start \in Request /\ start.kind = "signIn" /\ start.person = p
      /\ start.pc = "loadByEmail" /\ start.address = e
  BY DEF Idle, Request, Kinds, Steps
<1>2. \/ e \in Addresses /\ request' = [request EXCEPT ![r] = start]
      \/ request' = [request EXCEPT ![r] = NotFound(start)]
      \/ \E t \in Teachers : teacher[t] # None
            /\ request' = [request EXCEPT ![r] = Found(start, t)]
  BY DEF SignIn, ByOid
<1>3. UNCHANGED <<teacher, invite, token, members>>
  BY DEF SignIn
<1> HIDE DEF start
<1> QED
  BY <1>1, <1>2, <1>3, FoundOK

LEMMA LoadByEmailType ==
    ASSUME TypeInv, NEW r \in Requests, LoadByEmail(r)
    PROVE  TypeInv'
<1>1. request[r] \in Request /\ request[r].kind = "signIn" /\ request[r].person \in People
  BY DEF LoadByEmail, TypeInv, RequestOK
<1>2. \/ request' = [request EXCEPT ![r] = NotFound(request[r])]
      \/ \E t \in Teachers : teacher[t] # None
            /\ request' = [request EXCEPT ![r] = Found(request[r], t)]
  BY DEF LoadByEmail, ByEmail, TypeInv
<1>3. UNCHANGED <<teacher, invite, token, members>>
  BY DEF LoadByEmail
<1> QED
  BY <1>1, <1>2, <1>3, FoundOK

\* The row a sign-in leaves.
LEMMA SignedInIsRow ==
    ASSUME TypeInv, NEW r \in Requests, request[r].pc = "issue", request[r].kind = "signIn"
    PROVE  /\ SignedIn(r) \in TeacherRow
           /\ SignedIn(r).active = teacher[request[r].t].active
<1>1. /\ request[r] \in Request /\ request[r].person \in People
      /\ request[r].t \in Teachers /\ request[r].teacherRow \in TeacherRow
      /\ teacher[request[r].t] \in TeacherRow
  BY DEF TypeInv, TablesOK, TeachersOK, RequestOK
<1> QED
  BY <1>1 DEF SignedIn, TeacherRow, Request

LEMMA CommitSignInType ==
    ASSUME TypeInv, NEW r \in Requests, NEW k \in Tokens, CommitSignIn(r, k)
    PROVE  TypeInv'
<1> DEFINE new == [teacher |-> request[r].t, by |-> request[r].person,
                   lasting |-> LastsAfterSignIn, expired |-> FALSE, revoked |-> FALSE]
<1>1. request[r].person \in People /\ request[r].t \in Teachers
  BY DEF CommitSignIn, TypeInv, RequestOK
<1>2. new \in TokenRow /\ token' = [token EXCEPT ![k] = new]
  BY <1>1 DEF CommitSignIn, Issued, TokenRow, LastsAfterSignIn
<1>3. /\ token' \in [Tokens -> TokenRow \cup {None}]
      /\ \A j \in Tokens : token'[j] = IF j = k THEN new ELSE token[j]
      /\ \A j \in Tokens : token[j] # None => token'[j] # None
  <2> HIDE DEF new
  <2> QED
    BY <1>2, TokenWritten DEF TypeInv, TablesOK
<1>4. /\ TeachersOK'
      /\ \A u \in Teachers : teacher[u] # None => teacher'[u] # None
  BY <1>1, SignedInIsRow, TeacherWritten DEF CommitSignIn, TypeInv, TablesOK
<1>5. UNCHANGED <<invite, members>> /\ Ended(r) /\ teacher[request[r].t] # None
  BY DEF CommitSignIn, TypeInv, RequestOK
<1>6. TablesOK'
  BY <1>1, <1>3, <1>4, <1>5 DEF TypeInv, TablesOK, KeysOK, InviteRow, TokenRow
<1>7. RowsStay
  BY <1>3, <1>4, <1>5 DEF RowsStay
<1> QED
  BY <1>5, <1>6, <1>7, RequestEnds

LEMMA ProvisionType ==
    ASSUME TypeInv, NEW r \in Requests, NEW t \in Teachers, Provision(r, t)
    PROVE  TypeInv'
<1>1. PICK k \in Tokens :
        token' = [token EXCEPT ![k] =
                     [teacher |-> t, by |-> request[r].person,
                      lasting |-> LastsAfterSignIn, expired |-> FALSE,
                      revoked |-> FALSE]]
  BY DEF Provision
<1> DEFINE new == [teacher |-> t, by |-> request[r].person,
                   lasting |-> LastsAfterSignIn, expired |-> FALSE, revoked |-> FALSE]
<1>2. request[r] \in Request /\ request[r].person \in People
  BY DEF Provision, TypeInv, RequestOK
<1>3. new \in TokenRow /\ new.teacher = t /\ token' = [token EXCEPT ![k] = new]
  BY <1>1, <1>2 DEF TokenRow, LastsAfterSignIn
<1>4. /\ token' \in [Tokens -> TokenRow \cup {None}]
      /\ \A j \in Tokens : token'[j] = IF j = k THEN new ELSE token[j]
      /\ \A j \in Tokens : token[j] # None => token'[j] # None
  <2> HIDE DEF new
  <2> QED
    BY <1>3, TokenWritten DEF TypeInv, TablesOK
<1>5. Provisioned(r) \in TeacherRow
  BY <1>2 DEF Provisioned, TeacherRow, Request
<1>6. /\ TeachersOK'
      /\ \A u \in Teachers : teacher[u] # None => teacher'[u] # None
  BY <1>5, TeacherWritten DEF Provision, TypeInv, TablesOK
<1>7. UNCHANGED <<invite, members>> /\ Ended(r)
  BY DEF Provision
<1>8. teacher'[t] # None
  BY <1>5, NoneAssumption DEF Provision, TypeInv, TablesOK, TeachersOK
<1>9. TablesOK'
  <2> HIDE DEF new
  <2> QED
    BY <1>3, <1>4, <1>6, <1>7, <1>8 DEF TypeInv, TablesOK, KeysOK, InviteRow, TokenRow
<1>10. RowsStay
  BY <1>4, <1>6, <1>7 DEF RowsStay
<1> QED
  BY <1>7, <1>9, <1>10, RequestEnds

LEMMA EndsType ==
    ASSUME TypeInv, NEW r \in Requests, SignInConflict(r) \/ Abandon(r)
    PROVE  TypeInv'
BY NothingWritten, RequestEnds DEF SignInConflict, Abandon

-----------------------------------------------------------------------------
(* Devices *)

\* Rows of api_tokens that stay whose they are leave the tables in order.
LEMMA TokensMarked ==
    ASSUME TypeInv, UNCHANGED <<teacher, invite, members>>,
           token' \in [Tokens -> TokenRow \cup {None}],
           \A k \in Tokens : /\ token'[k] = None <=> token[k] = None
                             /\ token[k] # None => token'[k].teacher = token[k].teacher
    PROVE  TablesOK' /\ RowsStay
BY DEF TypeInv, TablesOK, TeachersOK, KeysOK, RowsStay

\* What marking one row does.
LEMMA OneRevoked ==
    ASSUME token \in [Tokens -> TokenRow \cup {None}], NEW j \in Tokens, token[j] # None,
           token' = [token EXCEPT ![j].revoked = TRUE]
    PROVE  /\ token' \in [Tokens -> TokenRow \cup {None}]
           /\ \A k \in Tokens : /\ token'[k] = None <=> token[k] = None
                                /\ token[k] # None => token'[k].teacher = token[k].teacher
<1>1. token[j] \in TokenRow
  OBVIOUS
<1>2. [token[j] EXCEPT !.revoked = TRUE] \in TokenRow
  BY <1>1 DEF TokenRow
<1>3. [token[j] EXCEPT !.revoked = TRUE].teacher = token[j].teacher
  BY <1>1 DEF TokenRow
<1>4. \A k \in Tokens : token'[k] = IF k = j THEN [token[j] EXCEPT !.revoked = TRUE]
                                    ELSE token[k]
  OBVIOUS
<1> QED
  BY <1>2, <1>3, <1>4, NoneAssumption

LEMMA LoadTokenType ==
    ASSUME TypeInv, NEW r \in Requests, NEW k \in Tokens,
           NEW kind \in {"logout", "logoutAll"}, LoadToken(r, k, kind)
    PROVE  TypeInv'
<1> DEFINE q == [Idle EXCEPT !.kind = kind, !.pc = "loadTeacher", !.token = k,
                             !.tokenRow = token[k], !.t = token[k].teacher,
                             !.good = Good(k), !.had = TokensOf(token[k].teacher)]
<1>1. token[k] \in TokenRow /\ token[k] # None /\ token[k].teacher \in Teachers
      /\ teacher[token[k].teacher] \in TeacherRow
      /\ teacher[token[k].teacher] # None
  BY DEF LoadToken, TypeInv, TablesOK, TeachersOK, KeysOK, TokenRow
<1>2. Good(k) \in BOOLEAN /\ TokensOf(token[k].teacher) \subseteq Tokens
  BY DEF Good, TokensOf
<1>3. q \in Request /\ q.kind = kind /\ q.pc = "loadTeacher" /\ q.token = k
      /\ q.t = token[k].teacher
  BY <1>1, <1>2 DEF Idle, Request, Kinds, Steps
<1>4. request' = [request EXCEPT ![r] = q]
  BY DEF LoadToken
<1>5. UNCHANGED <<teacher, invite, token, members>>
  BY DEF LoadToken
<1> HIDE DEF q
<1>6. RequestOK(r)'
  BY <1>1, <1>3, <1>4, <1>5 DEF RequestOK, TypeInv
<1> QED
  BY <1>3, <1>4, <1>5, <1>6, NothingWritten, RequestMoves

LEMMA LoadTeacherType ==
    ASSUME TypeInv, NEW r \in Requests, LoadTeacher(r)
    PROVE  TypeInv' /\ UNCHANGED token
<1>1. request[r] \in Request /\ request[r].token \in Tokens /\ token[request[r].token] # None
      /\ request[r].t \in Teachers /\ teacher[request[r].t] # None
      /\ request[r].kind \in {"logout", "logoutAll"}
  BY DEF LoadTeacher, TypeInv, RequestOK
<1>2. UNCHANGED <<teacher, invite, token, members>>
  BY <1>1 DEF LoadTeacher, Touched, TypeInv, TablesOK
<1>3. CASE Ended(r)
  BY <1>2, <1>3, NothingWritten, RequestEnds
<1>4. CASE request' = [request EXCEPT ![r].pc = "authorised"]
  <2> DEFINE q == [request[r] EXCEPT !.pc = "authorised"]
  <2>1. q \in Request /\ q.pc = "authorised" /\ q.kind = request[r].kind
        /\ q.t = request[r].t /\ q.token = request[r].token
    BY <1>1 DEF Request, Steps
  <2>2. request' = [request EXCEPT ![r] = q]
    BY <1>4, <1>1 DEF Request, TypeInv
  <2> HIDE DEF q
  <2>3. RequestOK(r)'
    BY <1>1, <1>2, <2>1, <2>2 DEF RequestOK, TypeInv
  <2> QED
    BY <1>2, <2>1, <2>2, <2>3, NothingWritten, RequestMoves
<1> QED
  BY <1>2, <1>3, <1>4 DEF LoadTeacher

LEMMA LogoutType ==
    ASSUME TypeInv, NEW r \in Requests, Logout(r)
    PROVE  TypeInv'
<1>1. request[r].token \in Tokens /\ token[request[r].token] # None
  BY DEF Logout, TypeInv, RequestOK
<1> QED
  BY <1>1, OneRevoked, TokensMarked, RequestEnds DEF Logout, TypeInv, TablesOK

LEMMA LoadTokensType ==
    ASSUME TypeInv, NEW r \in Requests, LoadTokens(r)
    PROVE  TypeInv'
<1> DEFINE q == [request[r] EXCEPT !.loaded = AllTokens(r), !.pc = "revoke"]
<1>1. request[r] \in Request /\ request[r].kind \in {"logoutAll", "disable"}
      /\ request[r].t \in Teachers /\ teacher[request[r].t] # None
      /\ (request[r].kind = "logoutAll"
            => request[r].token \in Tokens /\ token[request[r].token] # None)
  BY DEF LoadTokens, TypeInv, RequestOK
<1>2. AllTokens(r) \subseteq Tokens /\ \A k \in AllTokens(r) : token[k] # None
  BY DEF AllTokens, TokensOf
<1>3. q \in Request /\ q.pc = "revoke" /\ q.kind = request[r].kind
      /\ q.t = request[r].t /\ q.token = request[r].token /\ q.loaded = AllTokens(r)
  BY <1>1, <1>2, ZenonT(30) DEF Request, Steps
<1>4. request' = [request EXCEPT ![r] = q]
  BY <1>1 DEF LoadTokens, Request, TypeInv
<1>5. UNCHANGED <<teacher, invite, token, members>>
  BY DEF LoadTokens
<1> HIDE DEF q
<1>6. RequestOK(r)'
  BY <1>1, <1>2, <1>3, <1>4, <1>5 DEF RequestOK, TypeInv
<1> QED
  BY <1>3, <1>4, <1>5, <1>6, NothingWritten, RequestMoves

\* What the UPDATEs of a revocation do to the tables.
LEMMA RevokedTables ==
    ASSUME TypeInv, NEW r \in Requests, CommitRevoke(r)
    PROVE  /\ teacher' \in [Teachers -> TeacherRow \cup {None}]
           /\ \A t \in Teachers :
                /\ teacher'[t] = None <=> teacher[t] = None
                /\ teacher[t] # None => /\ teacher'[t].oid = teacher[t].oid
                                        /\ teacher'[t].email = teacher[t].email
                                        /\ teacher'[t].active => teacher[t].active
           /\ token' \in [Tokens -> TokenRow \cup {None}]
           /\ \A k \in Tokens :
                /\ token'[k] = None <=> token[k] = None
                /\ token[k] # None => /\ token'[k].teacher = token[k].teacher
                                      /\ token'[k].by = token[k].by
                                      /\ token[k].revoked => token'[k].revoked
                /\ k \in request[r].loaded => token'[k].revoked
<1>1. /\ request[r] \in Request /\ request[r].t \in Teachers
      /\ teacher[request[r].t] # None /\ \A k \in request[r].loaded : token[k] # None
      /\ request[r].loaded \subseteq Tokens
  BY DEF CommitRevoke, TypeInv, RequestOK, Request
<1>2. /\ teacher \in [Teachers -> TeacherRow \cup {None}]
      /\ token \in [Tokens -> TokenRow \cup {None}]
  BY DEF TypeInv, TablesOK, TeachersOK
<1>3. ASSUME NEW row \in TokenRow
      PROVE  LET new == [row EXCEPT !.revoked = TRUE] IN
             /\ new \in TokenRow /\ new # None /\ new.revoked
             /\ new.teacher = row.teacher /\ new.by = row.by
  <2>1. [row EXCEPT !.revoked = TRUE] \in TokenRow
    BY DEF TokenRow
  <2> QED
    BY <2>1, NoneAssumption DEF TokenRow
<1>4. /\ token' \in [Tokens -> TokenRow \cup {None}]
      /\ \A k \in Tokens :
           /\ token'[k] = None <=> token[k] = None
           /\ token[k] # None => /\ token'[k].teacher = token[k].teacher
                                 /\ token'[k].by = token[k].by
                                 /\ token[k].revoked => token'[k].revoked
           /\ k \in request[r].loaded => token'[k].revoked
  <2>1. token' = [k \in Tokens |-> IF k \in request[r].loaded
                                   THEN [token[k] EXCEPT !.revoked = TRUE] ELSE token[k]]
    BY DEF CommitRevoke
  <2>2. ASSUME NEW k \in Tokens
        PROVE  /\ token'[k] \in TokenRow \cup {None}
               /\ token'[k] = None <=> token[k] = None
               /\ token[k] # None => /\ token'[k].teacher = token[k].teacher
                                     /\ token'[k].by = token[k].by
                                     /\ token[k].revoked => token'[k].revoked
               /\ k \in request[r].loaded => token'[k].revoked
    <3>1. CASE k \in request[r].loaded
      <4>1. token[k] \in TokenRow /\ token[k] # None
        BY <1>1, <1>2, <3>1
      <4>2. token'[k] = [token[k] EXCEPT !.revoked = TRUE]
        BY <2>1, <3>1
      <4> QED
        BY <4>1, <4>2, <1>3
    <3>2. CASE k \notin request[r].loaded
      BY <2>1, <3>2, <1>2
    <3> QED
      BY <3>1, <3>2
  <2> QED
    BY <2>1, <2>2
<1>5. /\ teacher' \in [Teachers -> TeacherRow \cup {None}]
      /\ \A t \in Teachers :
           /\ teacher'[t] = None <=> teacher[t] = None
           /\ teacher[t] # None => /\ teacher'[t].oid = teacher[t].oid
                                   /\ teacher'[t].email = teacher[t].email
                                   /\ teacher'[t].active => teacher[t].active
  <2>1. CASE request[r].kind = "disable"
    <3> DEFINE new == [teacher[request[r].t] EXCEPT !.active = FALSE]
    <3>1. teacher[request[r].t] \in TeacherRow
      BY <1>1, <1>2
    <3>2. new \in TeacherRow /\ new.oid = teacher[request[r].t].oid
          /\ new.email = teacher[request[r].t].email /\ new.active = FALSE
      BY <3>1 DEF TeacherRow
    <3>3. new # None
      BY <3>2, NoneAssumption
    <3>4. teacher' = [teacher EXCEPT ![request[r].t] = new]
      BY <2>1, <1>1, <1>2 DEF CommitRevoke
    <3> HIDE DEF new
    <3> QED
      BY <3>2, <3>3, <3>4, <1>1, <1>2
  <2>2. CASE request[r].kind # "disable"
    BY <2>2, <1>2 DEF CommitRevoke
  <2> QED
    BY <2>1, <2>2
<1> QED
  BY <1>4, <1>5

LEMMA CommitRevokeType ==
    ASSUME TypeInv, NEW r \in Requests, CommitRevoke(r)
    PROVE  TypeInv'
<1>1. UNCHANGED <<invite, members>> /\ Ended(r)
  BY DEF CommitRevoke
<1>2. TeachersOK'
  BY RevokedTables DEF TypeInv, TablesOK, TeachersOK
<1>3. KeysOK'
  BY RevokedTables, <1>1 DEF TypeInv, TablesOK, KeysOK, InviteRow, TokenRow
<1>4. TablesOK' /\ RowsStay
  BY RevokedTables, <1>1, <1>2, <1>3 DEF TypeInv, TablesOK, RowsStay
<1> QED
  BY <1>1, <1>4, RequestEnds

-----------------------------------------------------------------------------
(* The administrator's commands, time and the directory *)

\* A step that is no request's.
LEMMA NoRequestMoves ==
    ASSUME TypeInv, TablesOK', RowsStay, UNCHANGED request
    PROVE  TypeInv'
BY OthersKeep DEF TypeInv

LEMMA AddTeacherType ==
    ASSUME TypeInv, NEW t \in Teachers, NEW e \in Addresses \cup {None}, AddTeacher(t, e)
    PROVE  TypeInv'
<1> DEFINE row == [email |-> e, oid |-> None, active |-> TRUE]
<1>1. row \in TeacherRow /\ ~Taken(t, row) /\ teacher' = [teacher EXCEPT ![t] = row]
      /\ UNCHANGED <<invite, token, request, members>>
  BY DEF AddTeacher, TeacherRow
<1> HIDE DEF row
<1>2. /\ TeachersOK'
      /\ \A u \in Teachers : teacher[u] # None => teacher'[u] # None
  BY <1>1, TeacherWritten DEF TypeInv, TablesOK
<1>3. TablesOK' /\ RowsStay
  BY <1>1, <1>2 DEF TypeInv, TablesOK, KeysOK, RowsStay, InviteRow, TokenRow
<1> QED
  BY <1>1, <1>3, NoRequestMoves

LEMMA InviteTeacherType ==
    ASSUME TypeInv, NEW i \in Invites, NEW t \in Teachers, InviteTeacher(i, t)
    PROVE  TypeInv'
<1> DEFINE row == [teacher |-> t, redeemed |-> FALSE]
<1>1. row \in InviteRow /\ row.teacher = t /\ teacher[t] # None
      /\ invite' = [invite EXCEPT ![i] = row]
      /\ UNCHANGED <<teacher, token, request, members>>
  BY DEF InviteTeacher, InviteRow
<1>2. row # None
  BY <1>1, NoneAssumption
<1> HIDE DEF row
<1>3. TablesOK' /\ RowsStay
  BY <1>1, <1>2 DEF TypeInv, TablesOK, TeachersOK, KeysOK, RowsStay
<1> QED
  BY <1>1, <1>3, NoRequestMoves

LEMMA RevokeTokenType ==
    ASSUME TypeInv, NEW k \in Tokens, RevokeToken(k)
    PROVE  TypeInv'
BY OneRevoked, TokensMarked, NoRequestMoves DEF RevokeToken, TypeInv, TablesOK

LEMMA DisableTeacherType ==
    ASSUME TypeInv, NEW r \in Requests, NEW t \in Teachers, DisableTeacher(r, t)
    PROVE  TypeInv'
<1> DEFINE q == [Idle EXCEPT !.kind = "disable", !.pc = "authorised", !.t = t,
                             !.good = TRUE, !.had = TokensOf(t)]
<1>1. q \in Request /\ q.kind = "disable" /\ q.pc = "authorised" /\ q.t = t
  BY DEF Idle, Request, Kinds, Steps, TokensOf
<1>2. request' = [request EXCEPT ![r] = q] /\ teacher[t] # None
      /\ UNCHANGED <<teacher, invite, token, members>>
  BY DEF DisableTeacher
<1> HIDE DEF q
<1>3. RequestOK(r)'
  BY <1>1, <1>2 DEF RequestOK, TypeInv
<1> QED
  BY <1>1, <1>2, <1>3, NothingWritten, RequestMoves

LEMMA ExpireTokenType ==
    ASSUME TypeInv, NEW k \in Tokens, ExpireToken(k)
    PROVE  TypeInv'
<1> DEFINE row == [token[k] EXCEPT !.expired = TRUE]
<1>1. token[k] \in TokenRow /\ token[k] # None
  BY DEF ExpireToken, TypeInv, TablesOK
<1>2. row \in TokenRow /\ row.teacher = token[k].teacher
  BY <1>1 DEF TokenRow
<1>3. row # None
  BY <1>2, NoneAssumption
<1>4. token' = [token EXCEPT ![k] = row] /\ UNCHANGED <<teacher, invite, request, members>>
  BY DEF ExpireToken
<1> HIDE DEF row
<1>5. /\ token' \in [Tokens -> TokenRow \cup {None}]
      /\ \A j \in Tokens : /\ token'[j] = None <=> token[j] = None
                           /\ token[j] # None => token'[j].teacher = token[j].teacher
  BY <1>1, <1>2, <1>3, <1>4 DEF TypeInv, TablesOK
<1> QED
  BY <1>4, <1>5, TokensMarked, NoRequestMoves

LEMMA LeaveSchoolType ==
    ASSUME TypeInv, NEW p \in People, LeaveSchool(p)
    PROVE  TypeInv'
<1>1. TablesOK' /\ RowsStay
  BY DEF LeaveSchool, TypeInv, TablesOK, TeachersOK, KeysOK, RowsStay
<1> QED
  BY <1>1, NoRequestMoves DEF LeaveSchool

-----------------------------------------------------------------------------
LEMMA StepType ==
    ASSUME TypeInv, NEW r \in Requests, Step(r)
    PROVE  TypeInv'
BY LoadInviteeType, LoadByEmailType, EndsType, CommitRedeemType, CommitSignInType,
   ProvisionType, LoadTeacherType, LogoutType, LoadTokensType, CommitRevokeType DEF Step

LEMMA StartType ==
    ASSUME TypeInv, NEW r \in Requests, Start(r)
    PROVE  TypeInv'
BY RedeemInviteType, SignInType, LoadTokenType, DisableTeacherType DEF Start

LEMMA NextType == TypeInv /\ [Next]_vars => TypeInv'
<1> SUFFICES ASSUME TypeInv, [Next]_vars PROVE TypeInv'
  OBVIOUS
<1>1. CASE UNCHANGED vars
  BY <1>1, NothingWritten, NoRequestMoves DEF vars
<1>2. CASE Command
  BY <1>2, AddTeacherType, InviteTeacherType, RevokeTokenType DEF Command
<1>3. CASE World
  BY <1>3, ExpireTokenType, LeaveSchoolType DEF World
<1>4. CASE \E r \in Requests : Start(r) \/ Step(r) \/ Abandon(r)
  BY <1>4, StartType, StepType, EndsType
<1> QED
  BY <1>1, <1>2, <1>3, <1>4 DEF Next

\* The tables keep their types, unique keys and foreign keys, and a request has
\* loaded what it is about to use.
THEOREM TypeInvariant == Spec => []TypeInv
<1>1. Init => TypeInv
  BY InitType
<1>2. TypeInv /\ [Next]_vars => TypeInv'
  BY NextType
<1> QED
  BY <1>1, <1>2, PTL DEF Spec

\* Every variable has its type, and however many first sign-ins and commands
\* overlap no two teachers share an address or an object id.
THEOREM AccountsTypeCorrect == Spec => []TypeOK
<1>1. TypeInv => TypeOK
  BY DEF TypeInv, TablesOK, TeachersOK, TypeOK
<1> QED
  BY <1>1, TypeInvariant, PTL

-----------------------------------------------------------------------------
(* What a step leaves as it was *)

\* The devices that are there stay, stay whose they are, and stay revoked.
TokensKept ==
    \A k \in Tokens : token[k] # None =>
        /\ token'[k] # None
        /\ token'[k].teacher = token[k].teacher /\ token'[k].by = token[k].by
        /\ token[k].revoked => token'[k].revoked

\* Teachers stay, and a disabled one is not enabled again.
TeachersKept ==
    \A t \in Teachers : teacher[t] # None =>
        teacher'[t] # None /\ (teacher'[t].active => teacher[t].active)

LEMMA NewTokenKeeps ==
    ASSUME TypeInv, NEW k \in Tokens, token[k] = None, NEW row,
           token' = [token EXCEPT ![k] = row]
    PROVE  TokensKept
BY DEF TypeInv, TablesOK, TokensKept

LEMMA RevokingKeeps ==
    ASSUME TypeInv, NEW k \in Tokens, token[k] # None,
           token' = [token EXCEPT ![k].revoked = TRUE]
    PROVE  TokensKept
<1>1. token[k] \in TokenRow
  BY DEF TypeInv, TablesOK
<1>2. [token[k] EXCEPT !.revoked = TRUE] \in TokenRow
  BY <1>1 DEF TokenRow
<1>3. [token[k] EXCEPT !.revoked = TRUE] # None
  BY <1>2, NoneAssumption
<1> QED
  BY <1>1, <1>3 DEF TypeInv, TablesOK, TokensKept, TokenRow

LEMMA StepTokens ==
    ASSUME TypeInv, [Next]_vars
    PROVE  TokensKept
<1>1. CASE UNCHANGED token
  BY <1>1 DEF TokensKept
<1>2. ASSUME NEW r \in Requests, Step(r) PROVE TokensKept
  <2>1. ASSUME NEW k \in Tokens, CommitRedeem(r, k) \/ CommitSignIn(r, k)
        PROVE  TokensKept
    BY <2>1, NewTokenKeeps DEF CommitRedeem, CommitSignIn, Issued, NextKey
  <2>2. ASSUME NEW t \in Teachers, Provision(r, t) PROVE TokensKept
    BY <2>2, NewTokenKeeps DEF Provision, NextKey
  <2>3. CASE Logout(r)
    <3>1. request[r].token \in Tokens /\ token[request[r].token] # None
      BY <2>3 DEF Logout, TypeInv, RequestOK
    <3> QED
      BY <2>3, <3>1, RevokingKeeps DEF Logout
  <2>4. CASE CommitRevoke(r)
    BY <2>4, RevokedTables DEF TokensKept
  <2>5. CASE LoadTeacher(r)
    BY <2>5, <1>1, LoadTeacherType
  <2>6. CASE LoadInvitee(r) \/ LoadByEmail(r) \/ SignInConflict(r) \/ LoadTokens(r)
    BY <2>6, <1>1 DEF LoadInvitee, LoadByEmail, SignInConflict, LoadTokens
  <2> QED
    BY <1>2, <2>1, <2>2, <2>3, <2>4, <2>5, <2>6 DEF Step
<1>3. ASSUME NEW r \in Requests, Start(r) \/ Abandon(r) PROVE TokensKept
  BY <1>1, <1>3 DEF Start, Abandon, RedeemInvite, SignIn, LoadToken, DisableTeacher
<1>4. CASE Command
  BY <1>1, <1>4, RevokingKeeps DEF Command, AddTeacher, InviteTeacher, RevokeToken
<1>5. ASSUME NEW k \in Tokens, ExpireToken(k) PROVE TokensKept
  <2>1. token[k] \in TokenRow /\ token[k] # None
    BY <1>5 DEF ExpireToken, TypeInv, TablesOK
  <2>2. [token[k] EXCEPT !.expired = TRUE] \in TokenRow
    BY <2>1 DEF TokenRow
  <2>3. [token[k] EXCEPT !.expired = TRUE] # None
    BY <2>2, NoneAssumption
  <2> QED
    BY <1>5, <2>1, <2>3 DEF ExpireToken, TypeInv, TablesOK, TokensKept, TokenRow
<1>6. ASSUME NEW p \in People, LeaveSchool(p) PROVE TokensKept
  BY <1>1, <1>6 DEF LeaveSchool
<1>7. CASE UNCHANGED vars
  BY <1>1, <1>7 DEF vars
<1> QED
  BY <1>2, <1>3, <1>4, <1>5, <1>6, <1>7 DEF Next, World

LEMMA StepTeachers ==
    ASSUME TypeInv, [Next]_vars
    PROVE  TeachersKept
<1>1. CASE UNCHANGED teacher
  BY <1>1 DEF TeachersKept
<1>2. ASSUME NEW r \in Requests, Step(r) PROVE TeachersKept
  <2>1. ASSUME NEW k \in Tokens, CommitSignIn(r, k) PROVE TeachersKept
    <3>1. SignedIn(r) # None /\ SignedIn(r).active = teacher[request[r].t].active
      BY <2>1, SignedInIsRow, NoneAssumption DEF CommitSignIn
    <3> QED
      BY <2>1, <3>1 DEF CommitSignIn, TeachersKept, TypeInv, TablesOK, TeachersOK
  <2>2. ASSUME NEW t \in Teachers, Provision(r, t) PROVE TeachersKept
    BY <2>2 DEF Provision, NextKey, TeachersKept, TypeInv, TablesOK, TeachersOK
  <2>3. CASE CommitRevoke(r)
    BY <2>3, RevokedTables DEF TeachersKept
  <2>4. ASSUME NEW k \in Tokens, CommitRedeem(r, k) PROVE TeachersKept
    BY <2>4, <1>1 DEF CommitRedeem
  <2>5. CASE \/ LoadInvitee(r) \/ LoadByEmail(r) \/ SignInConflict(r)
             \/ LoadTeacher(r) \/ Logout(r) \/ LoadTokens(r)
    BY <2>5, <1>1 DEF LoadInvitee, LoadByEmail, SignInConflict, LoadTeacher, Logout, LoadTokens
  <2> QED
    BY <1>2, <2>1, <2>2, <2>3, <2>4, <2>5 DEF Step
<1>3. ASSUME NEW r \in Requests, Start(r) \/ Abandon(r) PROVE TeachersKept
  BY <1>1, <1>3 DEF Start, Abandon, RedeemInvite, SignIn, LoadToken, DisableTeacher
<1>4. ASSUME NEW t \in Teachers, NEW e \in Addresses \cup {None}, AddTeacher(t, e)
      PROVE  TeachersKept
  BY <1>4 DEF AddTeacher, NextKey, TeachersKept, TypeInv, TablesOK, TeachersOK
<1>5. CASE \/ \E i \in Invites, t \in Teachers : InviteTeacher(i, t)
           \/ \E k \in Tokens : RevokeToken(k)
  BY <1>1, <1>5 DEF InviteTeacher, RevokeToken
<1>6. CASE World
  BY <1>1, <1>6 DEF World, ExpireToken, LeaveSchool
<1>7. CASE UNCHANGED vars
  BY <1>1, <1>7 DEF vars
<1> QED
  BY <1>2, <1>3, <1>4, <1>5, <1>6, <1>7 DEF Next, Command

\* Revocation is final, whatever the requests write that were let in before.
THEOREM RevokedStaysRevoked == Spec => RevokedIsFinal
<1>1. TypeInv /\ [Next]_vars
        => [\A k \in Tokens : token[k] # None /\ token[k].revoked => token'[k].revoked]_vars
  BY StepTokens DEF TokensKept
<1> QED
  BY <1>1, TypeInvariant, PTL DEF Spec, RevokedIsFinal

-----------------------------------------------------------------------------
(* Devices that are cut off *)

(* A request that is past the token check was good when it came, one before  *)
(* it that was not is going to find its teacher disabled; and what a sign-   *)
(* out has loaded holds the devices there were when it was asked for.        *)
DeviceOK(r) ==
    LET q == request[r] IN
    /\ q.pc \in {"authorised", "revoke"} => q.good
    /\ q.pc = "loadTeacher" /\ ~q.good => ~teacher[q.t].active
    /\ q.pc \in {"loadTeacher", "authorised"} => q.had \subseteq TokensOf(q.t)
    /\ q.pc = "revoke" => q.had \subseteq q.loaded

DeviceInv == \A r \in Requests : DeviceOK(r)

LEMMA OtherDevicesKeep ==
    ASSUME TypeInv, [Next]_vars, NEW s \in Requests, DeviceOK(s), request'[s] = request[s]
    PROVE  DeviceOK(s)'
<1>1. request[s].pc = "loadTeacher" => request[s].t \in Teachers /\ teacher[request[s].t] # None
  BY DEF TypeInv, RequestOK
<1>2. \A t : TokensOf(t) \subseteq TokensOf(t)'
  BY StepTokens DEF TokensKept, TokensOf
<1> QED
  BY <1>1, <1>2, StepTeachers DEF TeachersKept, DeviceOK

\* A step of one request moves no other.
LEMMA OneRequestMoves ==
    ASSUME TypeInv, NEW r \in Requests, Start(r) \/ Step(r) \/ Abandon(r),
           NEW s \in Requests, s # r
    PROVE  request'[s] = request[s]
<1>1. CASE Step(r)
  BY <1>1 DEF Step, LoadInvitee, LoadByEmail, SignInConflict, CommitRedeem, CommitSignIn,
              Provision, LoadTeacher, Logout, LoadTokens, CommitRevoke, Ended, TypeInv
<1>2. CASE Start(r)
  BY <1>2 DEF Start, RedeemInvite, SignIn, LoadToken, DisableTeacher, TypeInv
<1>3. CASE Abandon(r)
  BY <1>3 DEF Abandon, Ended, TypeInv
<1> QED
  BY <1>1, <1>2, <1>3

LEMMA MovedDevice ==
    ASSUME TypeInv, NEW r \in Requests, DeviceOK(r), Start(r) \/ Step(r) \/ Abandon(r)
    PROVE  DeviceOK(r)'
<1>1. CASE request'[r] = Idle
  BY <1>1 DEF DeviceOK, Idle
<1>2. CASE request'[r].pc \in {"loadInvitee", "loadByEmail", "provision", "issue"}
  BY <1>2 DEF DeviceOK
<1>3. ASSUME NEW k \in Tokens, NEW kind \in {"logout", "logoutAll"}, LoadToken(r, k, kind)
      PROVE  DeviceOK(r)'
  <2>1. /\ request'[r].pc = "loadTeacher" /\ request'[r].good = Good(k)
        /\ request'[r].t = token[k].teacher
        /\ request'[r].had = TokensOf(token[k].teacher)
        /\ ~token[k].revoked /\ UNCHANGED <<teacher, token>>
    BY <1>3 DEF LoadToken, TypeInv, Idle
  <2> QED
    BY <2>1 DEF DeviceOK, Good, TokensOf
<1>4. ASSUME NEW t \in Teachers, DisableTeacher(r, t) PROVE DeviceOK(r)'
  <2>1. /\ request'[r].pc = "authorised" /\ request'[r].good = TRUE
        /\ request'[r].t = t /\ request'[r].had = TokensOf(t) /\ UNCHANGED token
    BY <1>4 DEF DisableTeacher, TypeInv, Idle
  <2> QED
    BY <2>1 DEF DeviceOK, TokensOf
<1>5. CASE LoadTeacher(r) /\ request'[r] # Idle
  <2>1. request[r] \in Request /\ UNCHANGED token
    BY <1>5, LoadTeacherType DEF TypeInv
  <2>2. teacher[request[r].t].active
        /\ request' = [request EXCEPT ![r].pc = "authorised"]
    BY <1>5 DEF LoadTeacher, Ended, AccountActive, TypeInv
  <2>3. /\ request'[r].pc = "authorised" /\ request'[r].good = request[r].good
        /\ request'[r].t = request[r].t /\ request'[r].had = request[r].had
    BY <2>1, <2>2 DEF Request, TypeInv
  <2> QED
    BY <1>5, <2>1, <2>2, <2>3 DEF LoadTeacher, DeviceOK, TokensOf
<1>6. CASE LoadTokens(r)
  <2>1. request[r] \in Request
    BY DEF TypeInv
  <2>2. /\ request'[r].pc = "revoke" /\ request'[r].good = request[r].good
        /\ request'[r].had = request[r].had
        /\ request'[r].loaded = TokensOf(request[r].t)
    BY <1>6, <2>1 DEF LoadTokens, AllTokens, Request, TypeInv
  <2> QED
    BY <1>6, <2>2 DEF LoadTokens, DeviceOK
<1>7. CASE LoadInvitee(r)
  BY <1>1, <1>2, <1>7 DEF LoadInvitee, Ended, TypeInv, Request
<1>8. CASE LoadByEmail(r)
  <2>1. request[r] \in Request
    BY DEF TypeInv
  <2>2. \/ request'[r] = NotFound(request[r])
        \/ \E t \in Teachers : request'[r] = Found(request[r], t)
    BY <1>8 DEF LoadByEmail, ByEmail, TypeInv
  <2> QED
    BY <1>1, <1>2, <2>1, <2>2 DEF Found, NotFound, Request
<1>9. ASSUME NEW p \in People, NEW e \in Addresses \cup {None}, SignIn(r, p, e)
      PROVE  DeviceOK(r)'
  <2> DEFINE start == [Idle EXCEPT !.kind = "signIn", !.pc = "loadByEmail",
                                   !.person = p, !.address = e]
  <2>1. \/ request'[r] = start
        \/ request'[r] = NotFound(start)
        \/ \E t \in Teachers : request'[r] = Found(start, t)
    BY <1>9 DEF SignIn, ByOid, TypeInv
  <2> QED
    BY <1>1, <1>2, <2>1, ZenonT(30) DEF Found, NotFound, Idle
<1>10. ASSUME NEW i \in Invites, RedeemInvite(r, i) PROVE DeviceOK(r)'
  BY <1>2, <1>10 DEF RedeemInvite, Idle, TypeInv
<1>11. CASE Start(r)
  BY <1>3, <1>4, <1>9, <1>10, <1>11 DEF Start
<1>12. CASE Abandon(r) \/ SignInConflict(r) \/ Logout(r) \/ CommitRevoke(r)
            \/ (\E k \in Tokens : CommitRedeem(r, k) \/ CommitSignIn(r, k))
            \/ (\E t \in Teachers : Provision(r, t))
  BY <1>1, <1>12 DEF Abandon, SignInConflict, Logout, CommitRevoke, CommitRedeem,
                     CommitSignIn, Provision, Ended, TypeInv
<1>13. CASE Step(r)
  BY <1>1, <1>5, <1>6, <1>7, <1>8, <1>12, <1>13 DEF Step
<1> QED
  BY <1>11, <1>12, <1>13

LEMMA NextDevice == TypeInv /\ DeviceInv /\ [Next]_vars => DeviceInv'
<1> SUFFICES ASSUME TypeInv, DeviceInv, [Next]_vars, NEW s \in Requests
             PROVE  DeviceOK(s)'
  BY DEF DeviceInv
<1>1. CASE request'[s] = request[s]
  BY <1>1, OtherDevicesKeep DEF DeviceInv
<1>2. CASE request'[s] # request[s]
  <2>1. PICK r \in Requests : Start(r) \/ Step(r) \/ Abandon(r)
    BY <1>2 DEF Next, Command, World, AddTeacher, InviteTeacher, RevokeToken,
                ExpireToken, LeaveSchool, vars
  <2>2. r = s
    BY <1>2, <2>1, OneRequestMoves
  <2> QED
    BY <2>1, <2>2, MovedDevice DEF DeviceInv
<1> QED
  BY <1>1, <1>2

LEMMA DeviceInvariant == Spec => []DeviceInv
<1>1. Init => DeviceInv
  BY DEF Init, DeviceInv, DeviceOK, Idle
<1>2. TypeInv /\ DeviceInv /\ [Next]_vars => DeviceInv'
  BY NextDevice
<1> QED
  BY <1>1, <1>2, TypeInvariant, PTL DEF Spec

\* A request from a device that was revoked, or whose teacher was disabled, when
\* it came does not get past the token check, although the check reads the
\* token and the teacher at two moments.
THEOREM CutOffIsRefused == Spec => []LockedOut
<1>1. DeviceInv => LockedOut
  BY DEF DeviceInv, DeviceOK, LockedOut
<1> QED
  BY <1>1, DeviceInvariant, PTL

\* A sign-out everywhere, or a disable, that commits has revoked every device
\* the account had when it was asked for, whatever came in between.
THEOREM EveryDeviceRevoked == Spec => AllDevicesRevoked
<1>1. TypeInv /\ DeviceInv /\ [Next]_vars
        => [\A r \in Requests :
              request[r].pc = "revoke" /\ request'[r] = Idle /\ token' # token
                  => \A k \in request[r].had : token'[k].revoked]_vars
  <2> SUFFICES ASSUME TypeInv, DeviceInv, [Next]_vars, NEW s \in Requests,
                      request[s].pc = "revoke", request'[s] = Idle, token' # token,
                      NEW k \in request[s].had
               PROVE  token'[k].revoked
    OBVIOUS
  <2>1. request'[s] # request[s]
    BY DEF Idle
  <2>2. PICK r \in Requests : Start(r) \/ Step(r) \/ Abandon(r)
    BY <2>1 DEF Next, Command, World, AddTeacher, InviteTeacher, RevokeToken,
                ExpireToken, LeaveSchool, vars
  <2>3. r = s
    BY <2>1, <2>2, OneRequestMoves
  <2>4. ~Start(s)
    BY DEF Start, RedeemInvite, SignIn, LoadToken, DisableTeacher, Idle
  <2>5. ~Abandon(s)
    BY DEF Abandon
  <2>6. Step(s) => CommitRevoke(s)
    BY DEF Step, LoadInvitee, LoadByEmail, SignInConflict, CommitRedeem, CommitSignIn,
           Provision, LoadTeacher, Logout, LoadTokens
  <2>7. request[s].had \subseteq request[s].loaded /\ request[s].had \subseteq Tokens
    BY DEF DeviceInv, DeviceOK, TypeInv, Request
  <2> QED
    BY <2>2, <2>3, <2>4, <2>5, <2>6, <2>7, RevokedTables
<1> QED
  BY <1>1, TypeInvariant, DeviceInvariant, PTL DEF Spec, AllDevicesRevoked

-----------------------------------------------------------------------------
(* Invites, when nobody redeems one while another request does *)

OneRedeems == \A r, s \in Requests :
    request[r].kind = "redeem" /\ request[s].kind = "redeem" => r = s

RedeemedOK == \A k \in Tokens : token[k] # None /\ token[k].by \in Invites
    => invite[token[k].by] # None /\ invite[token[k].by].redeemed

RedeemingOK == \A r \in Requests :
    request[r].kind = "redeem" => ~invite[request[r].invite].redeemed

InviteInv == OneRedeems /\ RedeemedOK /\ RedeemingOK /\ InviteIsSingleUse

\* A step that neither starts to redeem nor issues for an invite.
LEMMA OtherInviteSteps ==
    ASSUME TypeInv, InviteInv, TokensKept,
           \A i \in Invites : invite[i] # None => invite'[i] = invite[i],
           \A k \in Tokens : token[k] = None /\ token'[k] # None => token'[k].by \notin Invites,
           \A s \in Requests : \/ request'[s].kind # "redeem"
                               \/ /\ request[s].kind = "redeem"
                                  /\ request'[s].invite = request[s].invite
    PROVE  InviteInv'
<1>1. \A s \in Requests : request[s].kind = "redeem"
        => request[s].invite \in Invites /\ invite[request[s].invite] # None
  BY DEF TypeInv, RequestOK
<1>2. OneRedeems' /\ RedeemingOK'
  BY <1>1 DEF InviteInv, OneRedeems, RedeemingOK
<1>3. RedeemedOK'
  BY DEF InviteInv, RedeemedOK, TokensKept
<1>4. InviteIsSingleUse'
  BY DEF InviteInv, InviteIsSingleUse, TokensKept
<1> QED
  BY <1>2, <1>3, <1>4 DEF InviteInv

LEMMA RedeemInviteSingle ==
    ASSUME RedeemAlone, TypeInv, InviteInv, NEW r \in Requests, NEW i \in Invites,
           RedeemInvite(r, i)
    PROVE  InviteInv'
<1>1. \A s \in Requests : request[s].kind # "redeem"
  BY DEF RedeemInvite
<1>2. request'[r].kind = "redeem" /\ request'[r].invite = i
  BY DEF RedeemInvite, Idle, TypeInv
<1>3. \A s \in Requests : s # r => request'[s] = request[s]
  BY DEF RedeemInvite, TypeInv
<1>4. UNCHANGED <<invite, token>> /\ ~invite[i].redeemed
  BY DEF RedeemInvite, Redeemable
<1> QED
  BY <1>1, <1>2, <1>3, <1>4
     DEF InviteInv, OneRedeems, RedeemedOK, RedeemingOK, InviteIsSingleUse

LEMMA CommitRedeemSingle ==
    ASSUME TypeInv, InviteInv, NEW r \in Requests, NEW k \in Tokens, CommitRedeem(r, k)
    PROVE  InviteInv'
<1> DEFINE i == request[r].invite
<1>1. /\ request[r].kind = "redeem" /\ i \in Invites /\ invite[i] \in InviteRow
      /\ request[r].t \in Teachers
  BY DEF CommitRedeem, TypeInv, TablesOK, RequestOK
<1>2. request'[r] = Idle /\ \A s \in Requests : s # r => request'[s] = request[s]
  BY DEF CommitRedeem, Ended, TypeInv
<1>3. \A s \in Requests : request'[s].kind # "redeem"
  BY <1>1, <1>2 DEF Idle, InviteInv, OneRedeems
<1>4. /\ token[k] = None /\ token'[k] # None /\ token'[k].by = i
      /\ \A j \in Tokens : j # k => token'[j] = token[j]
  <2> DEFINE new == [teacher |-> request[r].t, by |-> i, lasting |-> TRUE,
                     expired |-> FALSE, revoked |-> FALSE]
  <2>1. new \in TokenRow
    BY <1>1 DEF TokenRow
  <2>2. new # None /\ new.by = i
    BY <2>1, NoneAssumption
  <2>3. token' = [token EXCEPT ![k] = new] /\ token[k] = None
    BY DEF CommitRedeem, Issued, NextKey
  <2> HIDE DEF new
  <2> QED
    BY <2>2, <2>3 DEF TypeInv, TablesOK
<1>5. /\ invite'[i] # None /\ invite'[i].redeemed
      /\ \A j \in Invites : j # i => invite'[j] = invite[j]
  <2>1. [invite[i] EXCEPT !.redeemed = TRUE] \in InviteRow
    BY <1>1 DEF InviteRow
  <2>2. [invite[i] EXCEPT !.redeemed = TRUE] # None
    BY <2>1, NoneAssumption
  <2>3. invite' = [invite EXCEPT ![i].redeemed = TRUE]
    BY DEF CommitRedeem
  <2> QED
    BY <1>1, <2>2, <2>3 DEF TypeInv, TablesOK, InviteRow
<1>6. \A j \in Tokens : token[j] # None => token[j].by # i
  BY <1>1 DEF InviteInv, RedeemedOK, RedeemingOK
<1>7. OneRedeems' /\ RedeemingOK'
  BY <1>3 DEF OneRedeems, RedeemingOK
<1>8. RedeemedOK'
  BY <1>4, <1>5 DEF InviteInv, RedeemedOK
<1>9. InviteIsSingleUse'
  BY <1>4, <1>6 DEF InviteInv, InviteIsSingleUse
<1> QED
  BY <1>7, <1>8, <1>9 DEF InviteInv

\* What a sign-in issues is no invite's.
LEMMA NewTokenIsPersons ==
    ASSUME TypeInv, NEW r \in Requests,
           \/ \E k \in Tokens : CommitSignIn(r, k)
           \/ \E t \in Teachers : Provision(r, t)
    PROVE  \E k \in Tokens :
             /\ token[k] = None /\ token'[k].by = request[r].person
             /\ request[r].person \in People
             /\ \A j \in Tokens : j # k => token'[j] = token[j]
<1>1. request[r].person \in People
  BY DEF CommitSignIn, Provision, TypeInv, RequestOK
<1>2. ASSUME NEW k \in Tokens, CommitSignIn(r, k)
      PROVE  /\ token[k] = None /\ token'[k].by = request[r].person
             /\ \A j \in Tokens : j # k => token'[j] = token[j]
  BY <1>2 DEF CommitSignIn, Issued, NextKey, TypeInv, TablesOK
<1>3. ASSUME NEW t \in Teachers, Provision(r, t)
      PROVE  \E k \in Tokens :
             /\ token[k] = None /\ token'[k].by = request[r].person
             /\ \A j \in Tokens : j # k => token'[j] = token[j]
  BY <1>3 DEF Provision, NextKey, TypeInv, TablesOK
<1> QED
  BY <1>1, <1>2, <1>3

\* Steps that do not start to redeem keep the kind of a request, or end it.
LEMMA KindsKept ==
    ASSUME TypeInv, NEW r \in Requests, Start(r) \/ Step(r) \/ Abandon(r),
           \A i \in Invites : ~RedeemInvite(r, i), request'[r].kind = "redeem"
    PROVE  request[r].kind = "redeem" /\ request'[r].invite = request[r].invite
<1>1. request[r] \in Request /\ Idle.kind # "redeem"
  BY DEF TypeInv, Idle
<1>2. CASE Start(r)
  <2>1. ASSUME NEW p \in People, NEW e \in Addresses \cup {None}, SignIn(r, p, e)
        PROVE  FALSE
    <3> DEFINE start == [Idle EXCEPT !.kind = "signIn", !.pc = "loadByEmail",
                                     !.person = p, !.address = e]
    <3>1. \/ request'[r] = start
          \/ request'[r] = NotFound(start)
          \/ \E t \in Teachers : request'[r] = Found(start, t)
      BY <2>1 DEF SignIn, ByOid, TypeInv
    <3>2. start \in Request /\ start.kind = "signIn"
      BY DEF Idle, Request, Kinds, Steps
    <3> HIDE DEF start
    <3> QED
      BY <1>1, <3>1, <3>2 DEF Found, NotFound, Request
  <2>2. ASSUME NEW k \in Tokens, NEW kind \in {"logout", "logoutAll"},
               LoadToken(r, k, kind)
        PROVE  FALSE
    BY <2>2 DEF LoadToken, Idle, TypeInv
  <2>3. ASSUME NEW t \in Teachers, DisableTeacher(r, t) PROVE FALSE
    BY <2>3 DEF DisableTeacher, Idle, TypeInv
  <2> QED
    BY <1>2, <2>1, <2>2, <2>3 DEF Start
<1>3. CASE Abandon(r) \/ SignInConflict(r) \/ Logout(r) \/ CommitRevoke(r)
           \/ (\E k \in Tokens : CommitRedeem(r, k) \/ CommitSignIn(r, k))
           \/ (\E t \in Teachers : Provision(r, t))
  BY <1>1, <1>3 DEF Abandon, SignInConflict, Logout, CommitRevoke, CommitRedeem,
                    CommitSignIn, Provision, Ended, TypeInv
<1>4. CASE LoadInvitee(r) \/ LoadTeacher(r) \/ LoadTokens(r)
  BY <1>1, <1>4 DEF LoadInvitee, LoadTeacher, LoadTokens, Ended, TypeInv, Request
<1>5. CASE LoadByEmail(r)
  <2>1. \/ request'[r] = NotFound(request[r])
        \/ \E t \in Teachers : request'[r] = Found(request[r], t)
    BY <1>5 DEF LoadByEmail, ByEmail, TypeInv
  <2> QED
    BY <1>1, <2>1 DEF Found, NotFound, Request
<1> QED
  BY <1>2, <1>3, <1>4, <1>5 DEF Step

LEMMA NextInvite == RedeemAlone /\ TypeInv /\ InviteInv /\ [Next]_vars => InviteInv'
<1> SUFFICES ASSUME RedeemAlone, TypeInv, InviteInv, [Next]_vars PROVE InviteInv'
  OBVIOUS
<1> USE StepTokens
<1>1. ASSUME NEW r \in Requests, Start(r) \/ Step(r) \/ Abandon(r) PROVE InviteInv'
  <2>1. CASE \E i \in Invites : RedeemInvite(r, i)
    BY <2>1, RedeemInviteSingle
  <2>2. CASE \E k \in Tokens : CommitRedeem(r, k)
    BY <2>2, CommitRedeemSingle
  <2>3. CASE /\ \A i \in Invites : ~RedeemInvite(r, i)
             /\ \A k \in Tokens : ~CommitRedeem(r, k)
    <3>1. \A s \in Requests : \/ request'[s].kind # "redeem"
                              \/ /\ request[s].kind = "redeem"
                                 /\ request'[s].invite = request[s].invite
      BY <1>1, <2>3, KindsKept, OneRequestMoves
    <3>2. UNCHANGED invite
      BY <1>1, <2>3 DEF Start, Step, Abandon, SignIn, LoadToken, DisableTeacher,
              LoadInvitee, LoadByEmail, SignInConflict, CommitSignIn, Provision,
              LoadTeacher, Logout, LoadTokens, CommitRevoke
    <3>3. \A k \in Tokens : token[k] = None /\ token'[k] # None => token'[k].by \notin Invites
      <4>1. CASE \/ \E k \in Tokens : CommitSignIn(r, k)
                 \/ \E t \in Teachers : Provision(r, t)
        BY <4>1, NewTokenIsPersons, ConstantsAssumption
      <4>2. CASE UNCHANGED token
        BY <4>2
      <4>3. CASE Logout(r)
        <5>1. request[r].token \in Tokens /\ token[request[r].token] # None
          BY <4>3 DEF Logout, TypeInv, RequestOK
        <5> QED
          BY <4>3, <5>1, OneRevoked DEF Logout, TypeInv, TablesOK
      <4>4. CASE CommitRevoke(r)
        BY <4>4, RevokedTables
      <4>5. LoadTeacher(r) => UNCHANGED token
        BY LoadTeacherType
      <4> QED
        BY <1>1, <2>3, <4>1, <4>2, <4>3, <4>4, <4>5
           DEF Start, Step, Abandon, SignIn, LoadToken, DisableTeacher, LoadInvitee,
               LoadByEmail, SignInConflict, LoadTokens
    <3> QED
      BY <3>1, <3>2, <3>3, OtherInviteSteps
  <2> QED
    BY <2>1, <2>2, <2>3
<1>2. ASSUME NEW i \in Invites, NEW t \in Teachers, InviteTeacher(i, t) PROVE InviteInv'
  BY <1>2, OtherInviteSteps DEF InviteTeacher, TypeInv, TablesOK
<1>3. ASSUME NEW k \in Tokens, RevokeToken(k) \/ ExpireToken(k) PROVE InviteInv'
  BY <1>3, OtherInviteSteps DEF RevokeToken, ExpireToken, TypeInv, TablesOK
<1>4. CASE \/ \E t \in Teachers, e \in Addresses \cup {None} : AddTeacher(t, e)
           \/ \E p \in People : LeaveSchool(p)
           \/ UNCHANGED vars
  BY <1>4, OtherInviteSteps DEF AddTeacher, LeaveSchool, vars
<1> QED
  BY <1>1, <1>2, <1>3, <1>4 DEF Next, Command, World

\* A code gives one token at most as long as no two requests redeem at a time:
\* nothing else that runs beside a redeem can make it give a second one.
THEOREM SingleUse == RedeemAlone => (Spec => []InviteIsSingleUse)
<1> SUFFICES ASSUME RedeemAlone PROVE Spec => []InviteIsSingleUse
  OBVIOUS
<1>1. Init => InviteInv
  BY DEF Init, InviteInv, OneRedeems, RedeemedOK, RedeemingOK, InviteIsSingleUse, Idle
<1>2. TypeInv /\ InviteInv /\ [Next]_vars => InviteInv'
  BY NextInvite
<1>3. InviteInv => InviteIsSingleUse
  BY DEF InviteInv
<1> QED
  BY <1>1, <1>2, <1>3, TypeInvariant, PTL DEF Spec

-----------------------------------------------------------------------------
(* A person and a teacher *)

\* A device of a person is on the teacher who has the person's object id.
OidOK == \A k \in Tokens : token[k] # None /\ token[k].by \in People
    => teacher[token[k].teacher].oid = token[k].by

\* The address of a teacher who has signed in is the person's.
MailOK == \A t \in Teachers :
    teacher[t] # None /\ teacher[t].oid # None /\ teacher[t].email # None
        => Owner[teacher[t].email] = teacher[t].oid

\* A sign-in that has found a teacher: the person's own, or one nobody has
\* claimed yet whose address is the person's.
SignInOK(r) ==
    LET q == request[r] IN
    q.kind = "signIn" =>
      /\ q.address # None => Owner[q.address] = q.person
      /\ q.pc = "issue" =>
           /\ q.teacherRow.oid = q.person => teacher[q.t].oid = q.person
           /\ \/ teacher[q.t].oid = q.person
              \/ /\ teacher[q.t].oid = None
                 /\ q.address # None /\ teacher[q.t].email = q.address

PersonInv == OidOK /\ MailOK /\ \A r \in Requests : SignInOK(r)

\* A teacher's object id is given once, to the owner of the address.
OidsKept ==
    \A t \in Teachers : teacher[t] # None =>
      \/ teacher'[t].oid = teacher[t].oid /\ teacher'[t].email = teacher[t].email
      \/ teacher[t].oid # None /\ teacher'[t].oid = teacher[t].oid
      \/ /\ teacher[t].oid = None /\ teacher[t].email # None
         /\ teacher'[t].oid = Owner[teacher[t].email]

LEMMA OthersSign ==
    ASSUME TypeInv, PersonInv, OidsKept, NEW s \in Requests, request'[s] = request[s]
    PROVE  SignInOK(s)'
<1>1. request[s].kind = "signIn" => request[s].person \in People
  BY DEF TypeInv, RequestOK
<1>2. request[s].pc = "issue" => request[s].t \in Teachers /\ teacher[request[s].t] # None
  BY DEF TypeInv, RequestOK
<1>3. SignInOK(s)
  BY DEF PersonInv
<1>4. None \notin People
  BY ConstantsAssumption
<1> QED
  BY <1>1, <1>2, <1>3, <1>4 DEF OidsKept, SignInOK

\* The devices that are there stay their persons'; so must the new ones be.
LEMMA TokensArePersons ==
    ASSUME TypeInv, PersonInv, TokensKept, OidsKept,
           \A k \in Tokens : token[k] = None /\ token'[k] # None /\ token'[k].by \in People
               => teacher'[token'[k].teacher].oid = token'[k].by
    PROVE  OidOK'
<1> SUFFICES ASSUME NEW k \in Tokens, token'[k] # None, token'[k].by \in People
             PROVE  teacher'[token'[k].teacher].oid = token'[k].by
  BY DEF OidOK
<1>1. CASE token[k] # None
  <2>1. token[k].teacher \in Teachers /\ teacher[token[k].teacher] # None
    BY <1>1 DEF TypeInv, TablesOK, KeysOK, TokenRow
  <2>2. token'[k].teacher = token[k].teacher /\ token'[k].by = token[k].by
    BY <1>1 DEF TokensKept
  <2>3. teacher[token[k].teacher].oid = token[k].by /\ token[k].by # None
    BY <1>1, <2>2, ConstantsAssumption DEF PersonInv, OidOK
  <2> QED
    BY <2>1, <2>2, <2>3 DEF OidsKept
<1> QED
  BY <1>1

LEMMA FoundIsPersons ==
    ASSUME TypeInv, PersonInv, NEW r \in Requests, NEW start \in Request,
           start.kind = "signIn", start.pc = "loadByEmail",
           start.address # None => Owner[start.address] = start.person,
           UNCHANGED teacher,
           \/ request'[r] = start
           \/ request'[r] = NotFound(start)
           \/ \E t \in Teachers :
                /\ request'[r] = Found(start, t) /\ teacher[t] # None
                /\ \/ teacher[t].oid = start.person
                   \/ start.address # None /\ teacher[t].email = start.address
    PROVE  SignInOK(r)'
<1>1. CASE request'[r] = start
  BY <1>1 DEF SignInOK
<1>2. CASE request'[r] = NotFound(start)
  <2>1. CASE AutoProvision
    <3>1. /\ request'[r].pc = "provision" /\ request'[r].address = start.address
          /\ request'[r].person = start.person
      BY <1>2, <2>1 DEF NotFound, Request
    <3> QED
      BY <3>1 DEF SignInOK
  <2>2. CASE ~AutoProvision
    BY <1>2, <2>2 DEF NotFound, SignInOK, Idle
  <2> QED
    BY <2>1, <2>2
<1>3. ASSUME NEW t \in Teachers, request'[r] = Found(start, t), teacher[t] # None,
             \/ teacher[t].oid = start.person
             \/ start.address # None /\ teacher[t].email = start.address
      PROVE  SignInOK(r)'
  <2>1. CASE teacher[t].active
    <3>1. /\ request'[r].address = start.address /\ request'[r].person = start.person
          /\ request'[r].t = t /\ request'[r].teacherRow = teacher[t]
      BY <1>3, <2>1 DEF Found, Request
    <3>2. \/ teacher[t].oid = start.person
          \/ /\ teacher[t].oid = None
             /\ start.address # None /\ teacher[t].email = start.address
      BY <1>3 DEF PersonInv, MailOK
    <3> QED
      BY <3>1, <3>2 DEF SignInOK
  <2>2. CASE ~teacher[t].active
    <3>1. request'[r] = Idle
      BY <1>3, <2>2 DEF Found
    <3>2. Idle.kind # "signIn"
      BY DEF Idle
    <3> QED
      BY <3>1, <3>2 DEF SignInOK
  <2> QED
    BY <2>1, <2>2
<1> QED
  BY <1>1, <1>2, <1>3

\* What a step makes of a sign-in.
LEMMA MovedSign ==
    ASSUME TypeInv, PersonInv, NEW r \in Requests, Start(r) \/ Step(r) \/ Abandon(r)
    PROVE  SignInOK(r)'
<1>1. request[r] \in Request /\ Idle.kind = "none"
  BY DEF TypeInv, Idle
<1>2. CASE request'[r].kind # "signIn"
  BY <1>2 DEF SignInOK
<1>3. ASSUME NEW p \in People, NEW e \in Addresses \cup {None}, SignIn(r, p, e)
      PROVE  SignInOK(r)'
  <2> DEFINE start == [Idle EXCEPT !.kind = "signIn", !.pc = "loadByEmail",
                                   !.person = p, !.address = e]
  <2>1. /\ start \in Request /\ start.kind = "signIn" /\ start.person = p
        /\ start.pc = "loadByEmail" /\ start.address = e
    BY DEF Idle, Request, Kinds, Steps
  <2>2. \/ request'[r] = start
        \/ request'[r] = NotFound(start)
        \/ \E t \in Teachers :
             request'[r] = Found(start, t) /\ teacher[t] # None /\ teacher[t].oid = p
    BY <1>3 DEF SignIn, ByOid, TypeInv
  <2>3. UNCHANGED teacher /\ (e # None => Owner[e] = p)
    BY <1>3 DEF SignIn
  <2> HIDE DEF start
  <2> QED
    BY <2>1, <2>2, <2>3, FoundIsPersons
<1>4. CASE LoadByEmail(r)
  <2>1. /\ request[r].kind = "signIn" /\ request[r].pc = "loadByEmail"
        /\ request[r].address \in Addresses /\ request[r].address # None
    BY <1>4, ConstantsAssumption DEF LoadByEmail, TypeInv, RequestOK
  <2>2. \/ request'[r] = NotFound(request[r])
        \/ \E t \in Teachers : /\ request'[r] = Found(request[r], t) /\ teacher[t] # None
                               /\ teacher[t].email = request[r].address
    BY <1>4 DEF LoadByEmail, ByEmail, TypeInv
  <2>3. Owner[request[r].address] = request[r].person
    BY <2>1 DEF PersonInv, SignInOK
  <2>4. UNCHANGED teacher
    BY <1>4 DEF LoadByEmail
  <2> QED
    BY <1>1, <2>1, <2>2, <2>3, <2>4, FoundIsPersons
<1>5. CASE LoadInvitee(r)
  <2>1. request[r].kind = "redeem"
    BY <1>5 DEF LoadInvitee, TypeInv, RequestOK
  <2>2. request'[r].kind \in {"redeem", "none"}
    BY <1>1, <1>5, <2>1 DEF LoadInvitee, Ended, TypeInv, Request
  <2> QED
    BY <1>2, <2>2
<1>6. CASE LoadTeacher(r) \/ LoadTokens(r)
  <2>1. request[r].kind # "signIn"
    BY <1>6 DEF LoadTeacher, LoadTokens, TypeInv, RequestOK
  <2>2. request'[r].kind \in {request[r].kind, "none"}
    BY <1>1, <1>6, <2>1 DEF LoadTeacher, LoadTokens, Ended, TypeInv, Request
  <2> QED
    BY <1>2, <2>1, <2>2
<1>7. CASE Abandon(r) \/ SignInConflict(r) \/ Logout(r) \/ CommitRevoke(r)
           \/ (\E k \in Tokens : CommitRedeem(r, k) \/ CommitSignIn(r, k))
           \/ (\E t \in Teachers : Provision(r, t))
  <2>1. request'[r] = Idle
    BY <1>7 DEF Abandon, SignInConflict, Logout, CommitRevoke, CommitRedeem,
                CommitSignIn, Provision, Ended, TypeInv
  <2> QED
    BY <1>1, <1>2, <2>1
<1>8. ASSUME NEW i \in Invites, RedeemInvite(r, i) PROVE SignInOK(r)'
  BY <1>2, <1>8 DEF RedeemInvite, Idle, TypeInv
<1>9. ASSUME NEW k \in Tokens, NEW kind \in {"logout", "logoutAll"}, LoadToken(r, k, kind)
      PROVE  SignInOK(r)'
  BY <1>2, <1>9 DEF LoadToken, Idle, TypeInv
<1>10. ASSUME NEW t \in Teachers, DisableTeacher(r, t) PROVE SignInOK(r)'
  BY <1>2, <1>10 DEF DisableTeacher, Idle, TypeInv
<1> QED
  BY <1>3, <1>4, <1>5, <1>6, <1>7, <1>8, <1>9, <1>10 DEF Start, Step

\* The first sign-in of a person claims a row, or makes one; later ones keep it.
LEMMA CommitSignInPerson ==
    ASSUME TypeInv, PersonInv, NEW r \in Requests, NEW k \in Tokens, CommitSignIn(r, k)
    PROVE  OidsKept /\ MailOK' /\ OidOK'
<1> DEFINE t == request[r].t
           p == request[r].person
           a == request[r].address
<1>1. /\ request[r] \in Request /\ request[r].kind = "signIn" /\ request[r].pc = "issue"
      /\ p \in People /\ p # None /\ a \in Addresses \cup {None}
      /\ t \in Teachers /\ teacher[t] \in TeacherRow /\ teacher[t] # None
      /\ request[r].teacherRow \in TeacherRow
  BY ConstantsAssumption, ZenonT(30) DEF CommitSignIn, TypeInv, TablesOK, TeachersOK, RequestOK, Request
<1>2. /\ a # None => Owner[a] = p
      /\ request[r].teacherRow.oid = p => teacher[t].oid = p
      /\ teacher[t].oid = p \/ (teacher[t].oid = None /\ a # None /\ teacher[t].email = a)
      /\ teacher[t].oid # None /\ teacher[t].email # None
           => Owner[teacher[t].email] = teacher[t].oid
  BY <1>1 DEF PersonInv, SignInOK, MailOK
<1>3. SignedIn(r).oid = p
  <2>1. SignedIn(r).oid = IF request[r].teacherRow.oid = p THEN teacher[t].oid ELSE p
    BY <1>1 DEF SignedIn, TeacherRow
  <2> QED
    BY <1>2, <2>1
<1>4. SignedIn(r).email # None => Owner[SignedIn(r).email] = p
  <2>1. SignedIn(r).email = IF \/ a = None
                               \/ request[r].teacherRow.email = a
                            THEN teacher[t].email ELSE a
    BY <1>1 DEF SignedIn, TeacherRow
  <2> QED
    BY <1>1, <1>2, <2>1
<1>5. \A u \in Teachers : teacher'[u] = IF u = t THEN SignedIn(r) ELSE teacher[u]
  BY DEF CommitSignIn, TypeInv, TablesOK, TeachersOK
<1>6. OidsKept
  BY <1>1, <1>2, <1>3, <1>5 DEF OidsKept
<1>7. MailOK'
  BY <1>3, <1>4, <1>5 DEF MailOK, PersonInv
<1>8. \A j \in Tokens : token[j] = None /\ token'[j] # None
        => token'[j].teacher = t /\ token'[j].by = p
  BY DEF CommitSignIn, Issued, TypeInv, TablesOK
<1>9. TokensKept
  BY NewTokenKeeps DEF CommitSignIn, Issued, NextKey
<1>10. OidOK'
  BY <1>1, <1>3, <1>5, <1>6, <1>8, <1>9, TokensArePersons
<1> QED
  BY <1>6, <1>7, <1>10

LEMMA ProvisionPerson ==
    ASSUME TypeInv, PersonInv, NEW r \in Requests, NEW t \in Teachers, Provision(r, t)
    PROVE  OidsKept /\ MailOK' /\ OidOK'
<1>1. request[r] \in Request /\ request[r].kind = "signIn"
  BY DEF Provision, TypeInv, RequestOK
<1>2. \A u \in Teachers : teacher'[u] = IF u = t THEN Provisioned(r) ELSE teacher[u]
  BY DEF Provision, TypeInv, TablesOK, TeachersOK
<1>3. teacher[t] = None
  BY DEF Provision, NextKey
<1>4. OidsKept
  BY <1>2, <1>3 DEF OidsKept
<1>5. Provisioned(r).oid = request[r].person /\ Provisioned(r).email = request[r].address
  BY DEF Provisioned
<1>6. MailOK'
  BY <1>1, <1>2, <1>5 DEF MailOK, PersonInv, SignInOK
<1>7. \A j \in Tokens : token[j] = None /\ token'[j] # None
        => token'[j].teacher = t /\ token'[j].by = request[r].person
  BY DEF Provision, TypeInv, TablesOK
<1>8. TokensKept
  BY NewTokenKeeps DEF Provision, NextKey
<1>9. OidOK'
  BY <1>2, <1>4, <1>5, <1>7, <1>8, TokensArePersons
<1> QED
  BY <1>4, <1>6, <1>9

\* Steps that issue nothing to a person and write no object id and no address.
LEMMA PersonsKept ==
    ASSUME TypeInv, PersonInv, TokensKept,
           \A t \in Teachers : teacher[t] # None =>
               teacher'[t].oid = teacher[t].oid /\ teacher'[t].email = teacher[t].email,
           \A t \in Teachers : teacher[t] = None /\ teacher'[t] # None
               => teacher'[t].oid = None,
           \A k \in Tokens : token[k] = None /\ token'[k] # None => token'[k].by \notin People
    PROVE  OidsKept /\ MailOK' /\ OidOK'
<1>1. OidsKept
  BY DEF OidsKept
<1>2. MailOK'
  BY DEF MailOK, PersonInv
<1> QED
  BY <1>1, <1>2, TokensArePersons

LEMMA RequestPersons ==
    ASSUME TypeInv, PersonInv, TokensKept, NEW r \in Requests,
           Start(r) \/ Step(r) \/ Abandon(r)
    PROVE  OidsKept /\ MailOK' /\ OidOK'
<1>1. CASE UNCHANGED <<teacher, token>>
  BY <1>1, PersonsKept
<1>2. ASSUME NEW k \in Tokens, CommitRedeem(r, k) PROVE OidsKept /\ MailOK' /\ OidOK'
  <2>1. request[r].invite \in Invites /\ UNCHANGED teacher
    BY <1>2 DEF CommitRedeem, TypeInv, RequestOK
  <2>2. \A j \in Tokens : token[j] = None /\ token'[j] # None
          => token'[j].by = request[r].invite
    BY <1>2 DEF CommitRedeem, Issued, TypeInv, TablesOK
  <2> QED
    BY <2>1, <2>2, PersonsKept, ConstantsAssumption
<1>3. CASE Logout(r)
  <2>1. request[r].token \in Tokens /\ token[request[r].token] # None
    BY <1>3 DEF Logout, TypeInv, RequestOK
  <2>2. \A k \in Tokens : token'[k] = None <=> token[k] = None
    BY <1>3, <2>1, OneRevoked DEF Logout, TypeInv, TablesOK
  <2> QED
    BY <1>3, <2>2, PersonsKept DEF Logout
<1>4. CASE CommitRevoke(r)
  BY <1>4, RevokedTables, PersonsKept
<1>5. LoadTeacher(r) => UNCHANGED <<teacher, token>>
  BY LoadTeacherType DEF LoadTeacher
<1> QED
  BY <1>1, <1>2, <1>3, <1>4, <1>5, CommitSignInPerson, ProvisionPerson
     DEF Start, Step, Abandon, RedeemInvite, SignIn, LoadToken, DisableTeacher,
         LoadInvitee, LoadByEmail, SignInConflict, LoadTokens

LEMMA NextPerson == TypeInv /\ PersonInv /\ [Next]_vars => PersonInv'
<1> SUFFICES ASSUME TypeInv, PersonInv, [Next]_vars PROVE PersonInv'
  OBVIOUS
<1>1. TokensKept
  BY StepTokens
<1>2. ASSUME NEW r \in Requests, Start(r) \/ Step(r) \/ Abandon(r) PROVE PersonInv'
  <2>1. OidsKept /\ MailOK' /\ OidOK'
    BY <1>1, <1>2, RequestPersons
  <2>2. \A s \in Requests : SignInOK(s)'
    BY <1>2, <2>1, MovedSign, OneRequestMoves, OthersSign
  <2> QED
    BY <2>1, <2>2 DEF PersonInv
<1>3. CASE Command \/ World \/ UNCHANGED vars
  <2>1. UNCHANGED request
    BY <1>3 DEF Command, World, AddTeacher, InviteTeacher, RevokeToken, ExpireToken,
                LeaveSchool, vars
  <2>2. ASSUME NEW t \in Teachers, NEW e \in Addresses \cup {None}, AddTeacher(t, e)
        PROVE  OidsKept /\ MailOK' /\ OidOK'
    <3>1. /\ teacher[t] = None /\ UNCHANGED token
          /\ \A u \in Teachers : u # t => teacher'[u] = teacher[u]
          /\ teacher'[t].oid = None
      BY <2>2 DEF AddTeacher, NextKey, TypeInv, TablesOK, TeachersOK
    <3> QED
      BY <1>1, <3>1, PersonsKept
  <2>3. ASSUME NEW k \in Tokens, RevokeToken(k) \/ ExpireToken(k)
        PROVE  OidsKept /\ MailOK' /\ OidOK'
    BY <1>1, <2>3, PersonsKept DEF RevokeToken, ExpireToken, TypeInv, TablesOK
  <2>4. ASSUME \/ \E i \in Invites, t \in Teachers : InviteTeacher(i, t)
               \/ \E p \in People : LeaveSchool(p)
               \/ UNCHANGED vars
        PROVE  OidsKept /\ MailOK' /\ OidOK'
    <3>1. UNCHANGED <<teacher, token>>
      BY <2>4 DEF InviteTeacher, LeaveSchool, vars
    <3> QED
      BY <1>1, <3>1, PersonsKept
  <2>5. OidsKept /\ MailOK' /\ OidOK'
    <3>1. CASE Command
      BY <3>1, <2>2, <2>3, <2>4 DEF Command
    <3>2. CASE World
      BY <3>2, <2>3, <2>4 DEF World
    <3> QED
      BY <1>3, <2>4, <3>1, <3>2
  <2> QED
    BY <2>1, <2>5, OthersSign DEF PersonInv
<1> QED
  BY <1>2, <1>3 DEF Next

\* A person who signs in is the same teacher every time, whatever addresses the
\* directory reports and whichever sign-ins and commands overlap.
THEOREM OnePersonOneTeacher == Spec => []SamePersonSameTeacher
<1>1. Init => PersonInv
  BY DEF Init, PersonInv, OidOK, MailOK, SignInOK, Idle
<1>2. TypeInv /\ PersonInv /\ [Next]_vars => PersonInv'
  BY NextPerson
<1>3. TypeInv /\ PersonInv => SamePersonSameTeacher
  <2> SUFFICES ASSUME TypeInv, PersonInv, NEW j \in Tokens, NEW k \in Tokens,
                      token[j] # None, token[k] # None, token[j].by = token[k].by,
                      token[j].by \in People
               PROVE  token[j].teacher = token[k].teacher
    BY DEF SamePersonSameTeacher
  <2>1. /\ token[j].teacher \in Teachers /\ teacher[token[j].teacher] # None
        /\ token[k].teacher \in Teachers /\ teacher[token[k].teacher] # None
    BY DEF TypeInv, TablesOK, KeysOK, TokenRow
  <2>2. /\ teacher[token[j].teacher].oid = teacher[token[k].teacher].oid
        /\ teacher[token[j].teacher].oid # None
    BY ConstantsAssumption DEF PersonInv, OidOK
  <2> QED
    BY <2>1, <2>2 DEF TypeInv, TablesOK, TeachersOK
<1> QED
  BY <1>1, <1>2, <1>3, TypeInvariant, PTL DEF Spec
=============================================================================
