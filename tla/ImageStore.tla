----------------------------- MODULE ImageStore -----------------------------
(***************************************************************************)
(* Images: the rows of the images table (src/app/routers/images.py) and    *)
(* the files of the content-addressed store (src/app/storage.py), which no *)
(* transaction spans.  Each request runs on a thread of its own.           *)
(*                                                                         *)
(* A digest stands for the bytes it is the SHA-256 of.  Files are named    *)
(* after a digest (a blob) or a digest and a width (a derivative); what    *)
(* matters of one is whether a reader finds all of it.  Temporary files    *)
(* have names nobody looks for and are left out.                           *)
(***************************************************************************)
EXTENDS Naturals, FiniteSets

CONSTANTS
    Digests,      \* readable images
    Widths,       \* settings.allowed_master_widths
    Clients,      \* phones and browsers; each waits for one request at a time
    MaxFailures,  \* bound: requests that die half-way
    None

Derivatives == Digests \X Widths
Files == Digests \cup Derivatives

ASSUME ConstantsAssumption ==
    /\ MaxFailures \in Nat /\ None \notin Files /\ IsFiniteSet(Digests)
    /\ Digests \cap Derivatives = {}

VARIABLES
    images,    \* the committed rows of the images table
    file,      \* the files of the store
    client,    \* each client's request
    failures   \* requests that died so far

imageVars == <<images, file, client, failures>>

-----------------------------------------------------------------------------
ImageRow == [id: Nat \ {0}, sha256: Digests]

\* A client wants the id of an image, or a page's master at some width (file).
Client == [pc: {"idle", "head", "put", "replace", "select", "insert", "answered",
                "derivative", "replaceDerivative"},
           digest: Digests \cup {None}, file: Files \cup {None}, id: Nat]

Resting == [pc |-> "idle", digest |-> None, file |-> None, id |-> 0]

RowsOf(d) == {i \in images : i.sha256 = d}
IdsOf(d) == {i.id : i \in RowsOf(d)}

InitImages ==
    /\ images = {}
    /\ file = [f \in Files |-> "absent"]
    /\ client = [c \in Clients |-> Resting]
    /\ failures = 0

Answered(c, id) == client' = [client EXCEPT ![c].pc = "answered", ![c].id = id]

-----------------------------------------------------------------------------
(* _atomic_write *)

\* Mutant: the file is written where readers look for it.
WrittenInPlace(f) == [file EXCEPT ![f] = "partial"]

\* The bytes go to a temporary file first and nobody sees them.
Written(f) == file

\* os.replace
Replaced(f) == [file EXCEPT ![f] = "whole"]

\* is_file(), exists(): whether there is a file, not whether it is whole.
Exists(f) == file[f] # "absent"

-----------------------------------------------------------------------------
(* HEAD and POST /images *)

\* A client that has an image hashes it and asks whether the server has it.
Want(c, d) ==
    /\ client[c] = Resting
    /\ client' = [client EXCEPT ![c] = [Resting EXCEPT !.pc = "head", !.digest = d]]
    /\ UNCHANGED <<images, file, failures>>

\* The row is the answer; the blob is not looked at.
HeadByDigest(c) ==
    /\ client[c].pc = "head"
    /\ IF RowsOf(client[c].digest) # {}
       THEN \E id \in IdsOf(client[c].digest) : Answered(c, id)
       ELSE client' = [client EXCEPT ![c].pc = "put"]
    /\ UNCHANGED <<images, file, failures>>

\* store.put, up to the end of the write.
Put(c) ==
    /\ client[c].pc = "put"
    /\ LET d == client[c].digest IN
       IF Exists(d)
       THEN client' = [client EXCEPT ![c].pc = "select"] /\ UNCHANGED file
       ELSE client' = [client EXCEPT ![c].pc = "replace"] /\ file' = Written(d)
    /\ UNCHANGED <<images, failures>>

Replace(c) ==
    /\ client[c].pc = "replace"
    /\ file' = Replaced(client[c].digest)
    /\ client' = [client EXCEPT ![c].pc = "select"]
    /\ UNCHANGED <<images, failures>>

\* Mutant: the row is always inserted.
NotLookedUp(d) == {}

Existing(d) == IdsOf(d)

SelectImage(c) ==
    /\ client[c].pc = "select"
    /\ IF Existing(client[c].digest) # {}
       THEN \E id \in Existing(client[c].digest) : Answered(c, id)
       ELSE client' = [client EXCEPT ![c].pc = "insert"]
    /\ UNCHANGED <<images, file, failures>>

\* Mutant: no unique constraint on sha256.
NeverDuplicate(d) == FALSE

\* images.sha256 is unique.
Duplicate(d) == RowsOf(d) # {}

InsertImage(c) ==
    /\ client[c].pc = "insert" /\ ~Duplicate(client[c].digest)
    /\ LET id == Cardinality(images) + 1 IN
       /\ images' = images \cup {[id |-> id, sha256 |-> client[c].digest]}
       /\ Answered(c, id)
    /\ UNCHANGED <<file, failures>>

\* IntegrityError, which nobody catches: 500, and the client tries again.
InsertConflict(c) ==
    /\ client[c].pc = "insert" /\ Duplicate(client[c].digest)
    /\ client' = [client EXCEPT ![c].pc = "put"]
    /\ UNCHANGED <<images, file, failures>>

-----------------------------------------------------------------------------
(* GET /templates/{id}/master?w= *)

\* The page's image has a row; its derivative may be cached.
WantMaster(c, d, w) ==
    /\ client[c] = Resting /\ RowsOf(d) # {}
    /\ client' = [client EXCEPT ![c] = [Resting EXCEPT
                      !.pc = "derivative", !.digest = d, !.file = <<d, w>>]]
    /\ UNCHANGED <<images, file, failures>>

\* A rendering is made from the blob and cached; a blob that is lost or cannot
\* be read fails the request.
Derivative(c) ==
    /\ client[c].pc = "derivative"
    /\ LET f == client[c].file IN
       IF Exists(f)
       THEN client' = [client EXCEPT ![c] = Resting] /\ UNCHANGED file
       ELSE IF file[client[c].digest] # "whole"
       THEN client' = [client EXCEPT ![c] = Resting] /\ UNCHANGED file
       ELSE client' = [client EXCEPT ![c].pc = "replaceDerivative"] /\ file' = Written(f)
    /\ UNCHANGED <<images, failures>>

ReplaceDerivative(c) ==
    /\ client[c].pc = "replaceDerivative"
    /\ file' = Replaced(client[c].file)
    /\ client' = [client EXCEPT ![c] = Resting]
    /\ UNCHANGED <<images, failures>>

\* Everything under the derivative directory can be deleted at any time.
Reclaim(f) ==
    /\ f \in Derivatives /\ Exists(f)
    /\ file' = [file EXCEPT ![f] = "absent"]
    /\ UNCHANGED <<images, client, failures>>

-----------------------------------------------------------------------------
\* The connection or the process dies; the client, if it uploads, tries again.
Fail(c) ==
    /\ client[c].pc \notin {"idle", "answered"} /\ failures < MaxFailures
    /\ client' = [client EXCEPT ![c] =
                     IF @.file = None THEN [@ EXCEPT !.pc = "put"] ELSE Resting]
    /\ failures' = failures + 1
    /\ UNCHANGED <<images, file>>

\* The client has the id, for its template or its graded paper.
Done(c) ==
    /\ client[c].pc = "answered"
    /\ client' = [client EXCEPT ![c] = Resting]
    /\ UNCHANGED <<images, file, failures>>

Handle(c) ==
    \/ HeadByDigest(c) \/ Put(c) \/ Replace(c)
    \/ SelectImage(c) \/ InsertImage(c) \/ InsertConflict(c)
    \/ Derivative(c) \/ ReplaceDerivative(c)

NextImages ==
    \/ \E c \in Clients : \/ \E d \in Digests : \/ Want(c, d)
                                                \/ \E w \in Widths : WantMaster(c, d, w)
                          \/ Handle(c) \/ Fail(c) \/ Done(c)
    \/ \E f \in Derivatives : Reclaim(f)

-----------------------------------------------------------------------------
(* What must hold *)

\* Every variable has its type, and a row has an id and a digest of its own.
ImagesTypeOK ==
    /\ images \subseteq ImageRow
    /\ \A i, j \in images : i.id = j.id \/ i.sha256 = j.sha256 => i = j
    /\ file \in [Files -> {"absent", "partial", "whole"}]
    /\ client \in [Clients -> Client]
    /\ failures \in 0..MaxFailures

\* Whatever dies half-way, and however uploads of one image overlap, a row is
\* only ever there with all of its bytes ("a half-written blob whose name claims
\* to be its own digest is a lie that survives restarts"), and the id a client is
\* given is that of its image's row.
RowsHaveBlobs ==
    /\ \A i \in images : file[i.sha256] = "whole"
    /\ \A c \in Clients : client[c].pc = "answered" =>
          [id |-> client[c].id, sha256 |-> client[c].digest] \in images

\* An upload ends with an id, though the first of two to insert the row makes
\* the other one fail.
UploadsSucceed ==
    \A c \in Clients : client[c].pc = "put" ~> client[c].pc = "answered"
=============================================================================
