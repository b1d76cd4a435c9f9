------------------------------ MODULE Accounts ------------------------------
(***************************************************************************)
(* Teachers, invite codes and device tokens: enrolment and sign-out        *)
(* (src/app/routers/auth.py), the token check every other endpoint starts  *)
(* with (src/app/security.py) and the administrator's commands             *)
(* (src/app/cli.py).                                                       *)
(*                                                                         *)
(* A request runs on a thread of its own and a command in a process of its *)
(* own, each with a database session; their SQL statements interleave at   *)
(* READ COMMITTED, and an UPDATE sets the columns whose loaded value       *)
(* changed.  Only statements whose order tells are steps.  A request that  *)
(* is refused changes nothing and is left out once that is certain.        *)
(*                                                                         *)
(* Time is one fact: a token that can expire does so some time.  Hashes,   *)
(* names and roles are left out.                                           *)
(***************************************************************************)
EXTENDS Naturals, FiniteSets

CONSTANTS
    Teachers,       \* primary keys of teachers
    People,         \* object ids (oid) of the Entra directory
    Addresses,      \* e-mail addresses
    Owner,          \* whose each address is: the directory never reuses one
    Invites,        \* primary keys of invite_codes
    Tokens,         \* primary keys of api_tokens
    Requests,       \* threads and administrator's processes
    AutoProvision,  \* settings.microsoft_auto_provision
    RedeemAlone,    \* TRUE: nobody redeems a code while another one is at it
    None

ASSUME ConstantsAssumption ==
    /\ Owner \in [Addresses -> People]
    /\ Teachers \subseteq Nat /\ Tokens \subseteq Nat
    /\ AutoProvision \in BOOLEAN /\ RedeemAlone \in BOOLEAN
    /\ Invites \cap People = {}
    /\ None \notin Teachers \cup People \cup Addresses \cup Invites \cup Tokens

VARIABLES
    teacher,    \* the committed row of each teacher, or None
    invite,     \* the committed row of each invite code, or None
    token,      \* the committed row of each device token, or None
    request,    \* what each thread or process is doing
    members     \* the people who have an account in the directory

vars == <<teacher, invite, token, request, members>>

-----------------------------------------------------------------------------
(* Rows and sessions *)

TeacherRow == [email: Addresses \cup {None}, oid: People \cup {None}, active: BOOLEAN]
InviteRow == [teacher: Teachers, redeemed: BOOLEAN]

\* How a token came about: the invite, or the person who signed in.
TokenRow == [teacher: Teachers, by: Invites \cup People, lasting: BOOLEAN,
             expired: BOOLEAN, revoked: BOOLEAN]

\* NULL is not a row.
ASSUME NoneAssumption == None \notin TeacherRow \cup InviteRow \cup TokenRow

Kinds == {"none", "redeem", "signIn", "logout", "logoutAll", "disable"}
Steps == {"idle", "loadInvitee", "loadByEmail", "provision", "issue",
          "loadTeacher", "authorised", "revoke"}

(* A request: the invite, person and address or token it came with, what its *)
(* Session has loaded since, and, for the properties alone, whether its      *)
(* device was good when it came and which tokens the account then had.       *)
Request == [kind: Kinds, pc: Steps,
            invite: Invites \cup {None}, person: People \cup {None},
            address: Addresses \cup {None}, token: Tokens \cup {None},
            t: Teachers \cup {None}, teacherRow: TeacherRow \cup {None},
            tokenRow: TokenRow \cup {None}, loaded: SUBSET Tokens,
            good: BOOLEAN, had: SUBSET Tokens]

Idle == [kind |-> "none", pc |-> "idle", invite |-> None, person |-> None,
         address |-> None, token |-> None, t |-> None, teacherRow |-> None,
         tokenRow |-> None, loaded |-> {}, good |-> FALSE, had |-> {}]

Ended(r) == request' = [request EXCEPT ![r] = Idle]

\* Primary keys are given in order.
NextKey(table, k) == table[k] = None /\ \A j \in DOMAIN table : j < k => table[j] # None

Issued(r, k, by, lasting) ==
    token' = [token EXCEPT ![k] =
                 [teacher |-> request[r].t, by |-> by, lasting |-> lasting,
                  expired |-> FALSE, revoked |-> FALSE]]

\* The tokens of an account: the SELECT behind teacher.tokens.
TokensOf(t) == {k \in Tokens : token[k] # None /\ token[k].teacher = t}

Init ==
    /\ teacher = [t \in Teachers |-> None]
    /\ invite = [i \in Invites |-> None]
    /\ token = [k \in Tokens |-> None]
    /\ request = [r \in Requests |-> Idle]
    /\ members = People

-----------------------------------------------------------------------------
(* POST /auth/token *)

\* Mutant: redeemed_at is not looked at.
StillOnFile(i) == invite[i] # None

Redeemable(i) == invite[i] # None /\ ~invite[i].redeemed

\* The SELECT of the code and its checks; one that has expired is refused.
RedeemInvite(r, i) ==
    /\ request[r] = Idle
    /\ Redeemable(i)
    /\ RedeemAlone => \A s \in Requests : request[s].kind # "redeem"
    /\ request' = [request EXCEPT ![r] = [Idle EXCEPT
                      !.kind = "redeem", !.pc = "loadInvitee", !.invite = i]]
    /\ UNCHANGED <<teacher, invite, token, members>>

\* invite.teacher, and whether the account is disabled.
LoadInvitee(r) ==
    /\ request[r].pc = "loadInvitee"
    /\ LET t == invite[request[r].invite].teacher IN
       IF teacher[t].active
       THEN request' = [request EXCEPT ![r].t = t, ![r].pc = "issue"]
       ELSE Ended(r)
    /\ UNCHANGED <<teacher, invite, token, members>>

CommitRedeem(r, k) ==
    /\ request[r].pc = "issue" /\ request[r].kind = "redeem"
    /\ NextKey(token, k)
    /\ Issued(r, k, request[r].invite, TRUE)
    /\ invite' = [invite EXCEPT ![request[r].invite].redeemed = TRUE]
    /\ Ended(r)
    /\ UNCHANGED <<teacher, members>>

-----------------------------------------------------------------------------
(* POST /auth/microsoft; the id_token is good *)

ByOid(p) == {t \in Teachers : teacher[t] # None /\ teacher[t].oid = p}
ByEmail(e) == {t \in Teachers : teacher[t] # None /\ teacher[t].email = e}

\* A SELECT found a teacher; a disabled account is refused.
Found(start, t) ==
    IF teacher[t].active
    THEN [start EXCEPT !.t = t, !.teacherRow = teacher[t], !.pc = "issue"]
    ELSE Idle

NotFound(start) == IF AutoProvision THEN [start EXCEPT !.pc = "provision"] ELSE Idle

\* "Addresses change": the token carries one the person has had, or none.
SignIn(r, p, e) ==
    /\ request[r] = Idle
    /\ p \in members /\ (e # None => Owner[e] = p)
    /\ LET start == [Idle EXCEPT !.kind = "signIn", !.pc = "loadByEmail",
                                 !.person = p, !.address = e] IN
       request' \in
         IF ByOid(p) # {} THEN {[request EXCEPT ![r] = Found(start, t)] : t \in ByOid(p)}
         ELSE {[request EXCEPT ![r] = IF e = None THEN NotFound(start) ELSE start]}
    /\ UNCHANGED <<teacher, invite, token, members>>

LoadByEmail(r) ==
    /\ request[r].pc = "loadByEmail"
    /\ request' \in
         IF ByEmail(request[r].address) # {}
         THEN {[request EXCEPT ![r] = Found(@, t)] : t \in ByEmail(request[r].address)}
         ELSE {[request EXCEPT ![r] = NotFound(@)]}
    /\ UNCHANGED <<teacher, invite, token, members>>

\* Mutant: no unique constraints.
NeverTaken(t, row) == FALSE

\* uq_teacher_microsoft_oid, and the unique index on email.
Taken(t, row) ==
    \E u \in Teachers \ {t} : /\ teacher[u] # None
                              /\ \/ row.oid # None /\ teacher[u].oid = row.oid
                                 \/ row.email # None /\ teacher[u].email = row.email

\* The row after the UPDATE: the oid, if this sign-in claims the row, and the
\* directory's address, where they differ from what was loaded.
SignedIn(r) ==
    LET old == request[r].teacherRow
        email == IF request[r].address = None THEN old.email ELSE request[r].address IN
    [teacher[request[r].t] EXCEPT
        !.oid = IF old.oid = request[r].person THEN @ ELSE request[r].person,
        !.email = IF old.email = email THEN @ ELSE email]

\* Mutant: a sign-in gives a token like an invite's.
LastingSignIn == TRUE

\* "Unlike that path, these tokens expire."
LastsAfterSignIn == FALSE

CommitSignIn(r, k) ==
    /\ request[r].pc = "issue" /\ request[r].kind = "signIn"
    /\ NextKey(token, k) /\ ~Taken(request[r].t, SignedIn(r))
    /\ teacher' = [teacher EXCEPT ![request[r].t] = SignedIn(r)]
    /\ Issued(r, k, request[r].person, LastsAfterSignIn)
    /\ Ended(r)
    /\ UNCHANGED <<invite, members>>

Provisioned(r) == [email |-> request[r].address, oid |-> request[r].person,
                   active |-> TRUE]

\* The flush of the INSERT; nothing looks at the database before the commit.
Provision(r, t) ==
    /\ request[r].pc = "provision"
    /\ NextKey(teacher, t) /\ ~Taken(t, Provisioned(r))
    /\ \E k \in Tokens :
         /\ NextKey(token, k)
         /\ token' = [token EXCEPT ![k] =
                         [teacher |-> t, by |-> request[r].person,
                          lasting |-> LastsAfterSignIn, expired |-> FALSE,
                          revoked |-> FALSE]]
    /\ teacher' = [teacher EXCEPT ![t] = Provisioned(r)]
    /\ Ended(r)
    /\ UNCHANGED <<invite, members>>

\* IntegrityError: nobody catches it, 500.
SignInConflict(r) ==
    /\ \/ request[r].pc = "issue" /\ request[r].kind = "signIn"
          /\ Taken(request[r].t, SignedIn(r))
       \/ request[r].pc = "provision" /\ Taken(None, Provisioned(r))
    /\ Ended(r)
    /\ UNCHANGED <<teacher, invite, token, members>>

-----------------------------------------------------------------------------
(* current_token: what every authenticated request starts with.  Two of them *)
(* are here, the others (ExamTemplates, GradingSessions) leave these tables   *)
(* alone once they are authorised.                                            *)

\* Neither the token nor its account has been cut off.
Good(k) == ~token[k].revoked /\ teacher[token[k].teacher].active

\* The SELECT of the token and its checks.
LoadToken(r, k, kind) ==
    /\ request[r] = Idle
    /\ token[k] # None /\ ~token[k].revoked /\ ~token[k].expired
    /\ request' = [request EXCEPT ![r] = [Idle EXCEPT
                      !.kind = kind, !.pc = "loadTeacher", !.token = k,
                      !.tokenRow = token[k], !.t = token[k].teacher,
                      !.good = Good(k), !.had = TokensOf(token[k].teacher)]]
    /\ UNCHANGED <<teacher, invite, token, members>>

\* Mutant: the account is not looked at, disabling has revoked its tokens.
TokenIsEnough(r) == TRUE

AccountActive(r) == teacher[request[r].t].active

\* Mutant: the row is written back as it was loaded.
TouchedWhole(r) == request[r].tokenRow

\* The UPDATE sets last_used_at, which is left out, and nothing else.
Touched(r) == token[request[r].token]

\* token.teacher; last_used_at is set and committed before the handler starts.
LoadTeacher(r) ==
    /\ request[r].pc = "loadTeacher"
    /\ IF AccountActive(r)
       THEN /\ token' = [token EXCEPT ![request[r].token] = Touched(r)]
            /\ request' = [request EXCEPT ![r].pc = "authorised"]
       ELSE Ended(r) /\ UNCHANGED token
    /\ UNCHANGED <<teacher, invite, members>>

\* POST /auth/logout: token.revoked_at was null when it was loaded.
Logout(r) ==
    /\ request[r].pc = "authorised" /\ request[r].kind = "logout"
    /\ token' = [token EXCEPT ![request[r].token].revoked = TRUE]
    /\ Ended(r)
    /\ UNCHANGED <<teacher, invite, members>>

\* Mutant: the device the request came from is spared.
OtherTokens(r) == TokensOf(request[r].t) \ {request[r].token}

AllTokens(r) == TokensOf(request[r].t)

\* POST /auth/logout/all, and cli disable: the SELECT of teacher.tokens.
LoadTokens(r) ==
    /\ request[r].pc = "authorised" /\ request[r].kind \in {"logoutAll", "disable"}
    /\ request' = [request EXCEPT ![r].loaded = AllTokens(r), ![r].pc = "revoke"]
    /\ UNCHANGED <<teacher, invite, token, members>>

\* The UPDATEs of the tokens loaded, and of the account that is disabled.
CommitRevoke(r) ==
    /\ request[r].pc = "revoke"
    /\ token' = [k \in Tokens |-> IF k \in request[r].loaded
                                  THEN [token[k] EXCEPT !.revoked = TRUE]
                                  ELSE token[k]]
    /\ teacher' = IF request[r].kind = "disable"
                  THEN [teacher EXCEPT ![request[r].t].active = FALSE]
                  ELSE teacher
    /\ Ended(r)
    /\ UNCHANGED <<invite, members>>

-----------------------------------------------------------------------------
(* The administrator's commands *)

AddTeacher(t, e) ==
    /\ NextKey(teacher, t)
    /\ LET row == [email |-> e, oid |-> None, active |-> TRUE] IN
       ~Taken(t, row) /\ teacher' = [teacher EXCEPT ![t] = row]
    /\ UNCHANGED <<invite, token, request, members>>

InviteTeacher(i, t) ==
    /\ invite[i] = None /\ teacher[t] # None
    /\ invite' = [invite EXCEPT ![i] = [teacher |-> t, redeemed |-> FALSE]]
    /\ UNCHANGED <<teacher, token, request, members>>

RevokeToken(k) ==
    /\ token[k] # None
    /\ token' = [token EXCEPT ![k].revoked = TRUE]
    /\ UNCHANGED <<teacher, invite, request, members>>

DisableTeacher(r, t) ==
    /\ request[r] = Idle /\ teacher[t] # None
    /\ request' = [request EXCEPT ![r] = [Idle EXCEPT
                      !.kind = "disable", !.pc = "authorised", !.t = t,
                      !.good = TRUE, !.had = TokensOf(t)]]
    /\ UNCHANGED <<teacher, invite, token, members>>

-----------------------------------------------------------------------------
(* Time, the directory, and failures *)

ExpireToken(k) ==
    /\ token[k] # None /\ ~token[k].lasting
    /\ token' = [token EXCEPT ![k].expired = TRUE]
    /\ UNCHANGED <<teacher, invite, request, members>>

LeaveSchool(p) ==
    /\ members' = members \ {p}
    /\ UNCHANGED <<teacher, invite, token, request>>

\* The connection or the process is lost before the commit.
Abandon(r) ==
    /\ request[r] # Idle
    /\ Ended(r)
    /\ UNCHANGED <<teacher, invite, token, members>>

-----------------------------------------------------------------------------
Step(r) ==
    \/ LoadInvitee(r) \/ LoadByEmail(r) \/ SignInConflict(r)
    \/ \E k \in Tokens : CommitRedeem(r, k) \/ CommitSignIn(r, k)
    \/ \E t \in Teachers : Provision(r, t)
    \/ LoadTeacher(r) \/ Logout(r) \/ LoadTokens(r) \/ CommitRevoke(r)

Start(r) ==
    \/ \E i \in Invites : RedeemInvite(r, i)
    \/ \E p \in People, e \in Addresses \cup {None} : SignIn(r, p, e)
    \/ \E k \in Tokens, kind \in {"logout", "logoutAll"} : LoadToken(r, k, kind)
    \/ \E t \in Teachers : DisableTeacher(r, t)

Command ==
    \/ \E t \in Teachers : \/ \E e \in Addresses \cup {None} : AddTeacher(t, e)
                           \/ \E i \in Invites : InviteTeacher(i, t)
    \/ \E k \in Tokens : RevokeToken(k)

World == (\E k \in Tokens : ExpireToken(k)) \/ (\E p \in People : LeaveSchool(p))

Next == Command \/ World \/ \E r \in Requests : Start(r) \/ Step(r) \/ Abandon(r)

Spec == Init /\ [][Next]_vars

\* Threads run, and the days pass that a sign-in's token lasts.
FairSpec ==
    /\ Spec
    /\ \A r \in Requests : WF_vars(Step(r))
    /\ \A k \in Tokens : WF_vars(ExpireToken(k))

-----------------------------------------------------------------------------
(* What must hold *)

\* Every variable has its type, and the teachers rows keep unique keys.
TypeOK ==
    /\ teacher \in [Teachers -> TeacherRow \cup {None}]
    /\ invite \in [Invites -> InviteRow \cup {None}]
    /\ token \in [Tokens -> TokenRow \cup {None}]
    /\ request \in [Requests -> Request]
    /\ members \subseteq People
    /\ \A t, u \in Teachers :
         teacher[t] # None /\ teacher[u] # None /\ t # u
             => /\ teacher[t].oid # None => teacher[t].oid # teacher[u].oid
                /\ teacher[t].email # None => teacher[t].email # teacher[u].email

\* A device that was revoked, or whose teacher was disabled, when its request
\* came is never authorised, not even with a token that was issued while the
\* account was being disabled.
LockedOut ==
    \A r \in Requests : request[r].pc \in {"authorised", "revoke"} => request[r].good

\* Revocation is one UPDATE and final: no request that was let in before it and
\* writes last_used_at after it brings the device back.
RevokedIsFinal ==
    [][\A k \in Tokens : token[k] # None /\ token[k].revoked => token'[k].revoked]_vars

\* "Every device on the account", "disabling revokes every device at once":
\* when sign-out everywhere or a disable commits, all devices the account had
\* when it was asked for are revoked.
AllDevicesRevoked ==
    [][\A r \in Requests :
          request[r].pc = "revoke" /\ request'[r] = Idle /\ token' # token
              => \A k \in request[r].had : token'[k].revoked]_vars

\* Invite codes are single-use: an invite yields one token at most.
InviteIsSingleUse ==
    \A j, k \in Tokens : token[j] # None /\ token[k] # None
                         /\ token[j].by = token[k].by /\ token[j].by \in Invites
                             => j = k

\* A person stays the same teacher, however often the address changes and however
\* many first sign-ins overlap, as long as the directory never gives one person's
\* address to another (Owner): a row found by its address is taken over unasked.
SamePersonSameTeacher ==
    \A j, k \in Tokens : token[j] # None /\ token[k] # None
                         /\ token[j].by = token[k].by /\ token[j].by \in People
                             => token[j].teacher = token[k].teacher

\* "Disabling someone in the directory has to eventually stop the iPad in their
\* bag."
LeaversAreStopped ==
    \A p \in People :
        p \notin members
            ~> [](\A k \in Tokens : token[k] # None /\ token[k].by = p
                                        => token[k].expired \/ token[k].revoked)
=============================================================================
