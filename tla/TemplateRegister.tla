-------------------------- MODULE TemplateRegister --------------------------
(***************************************************************************)
(* What optimistic locking promises the editors of the shared templates:   *)
(* each template is one register, read and written in one step, whose      *)
(* revision grows by one with every write, and a write that asked for the  *)
(* If-Match check happens only if its editor holds what is in the          *)
(* register.  ExamTemplates implements this as long as write handlers do   *)
(* not overlap.                                                            *)
(***************************************************************************)
EXTENDS Naturals

CONSTANTS Templates, Editors, None

VARIABLES
    register,   \* template -> [content, revision, deleted], or None
    copy,       \* editor -> [t, content, revision] it works from, or None
    asked       \* editor -> the save it has asked for: "none", "any", "checked"

vars == <<register, copy, asked>>

\* A copy of t, as the registers r hold it.
Copy(r, t) == [t |-> t, content |-> r[t].content, revision |-> r[t].revision]

Init ==
    /\ register = [t \in Templates |-> None]
    /\ copy = [e \in Editors |-> None]
    /\ asked = [e \in Editors |-> "none"]

\* The editor learns what the register holds now, or never hears of it.
Hears(e, t) == copy' \in {copy, [copy EXCEPT ![e] = Copy(register', t)]}

Create(e, t) ==
    /\ register[t] = None /\ register'[t] # None
    /\ register' = [register EXCEPT ![t] = [content |-> register'[t].content,
                                            revision |-> 1, deleted |-> FALSE]]
    /\ Hears(e, t)
    /\ UNCHANGED asked

\* A reader that a write has overtaken is left with an older revision.
Open(e, t) ==
    /\ register[t] # None
    /\ copy' = [copy EXCEPT ![e] = copy'[e]]
    /\ copy'[e] # None /\ copy'[e].t = t
    /\ copy'[e] = Copy(register, t) \/ copy'[e].revision < register[t].revision
    /\ UNCHANGED <<register, asked>>

Ask(e) ==
    /\ asked[e] = "none" /\ copy[e] # None
    /\ \E kind \in {"any", "checked"} : asked' = [asked EXCEPT ![e] = kind]
    /\ UNCHANGED <<register, copy>>

\* One content replaces another, under the next revision.
Write(t, deleted) ==
    register' = [register EXCEPT ![t] = [content |-> register'[t].content,
                                         revision |-> register[t].revision + 1,
                                         deleted |-> deleted]]

Save(e) ==
    LET t == copy[e].t IN
    /\ asked[e] # "none" /\ ~register[t].deleted
    /\ asked[e] = "checked" => copy[e] = Copy(register, t)
    /\ Write(t, FALSE)
    /\ Hears(e, t)
    /\ asked' = [asked EXCEPT ![e] = "none"]

\* 404, 412, or a failure: the register is as it was.
Refuse(e) ==
    /\ asked[e] # "none"
    /\ asked' = [asked EXCEPT ![e] = "none"]
    /\ UNCHANGED <<register, copy>>

Delete(t) ==
    /\ register[t] # None /\ ~register[t].deleted
    /\ Write(t, TRUE)
    /\ register'[t].content = register[t].content
    /\ UNCHANGED <<copy, asked>>

Next ==
    \/ \E e \in Editors : Ask(e) \/ Save(e) \/ Refuse(e)
    \/ \E e \in Editors, t \in Templates : Create(e, t) \/ Open(e, t)
    \/ \E t \in Templates : Delete(t)

Spec == Init /\ [][Next]_vars
=============================================================================
