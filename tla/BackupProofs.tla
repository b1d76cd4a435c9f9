---------------------------- MODULE BackupProofs ----------------------------
(***************************************************************************)
(* Proofs about ImageStore and Backup: no row without its bytes, in the    *)
(* store and in what a backup keeps, for any images, clients and failures. *)
(***************************************************************************)
EXTENDS Backup, TLAPS, FiniteSetTheorems

-----------------------------------------------------------------------------
(* The inductive invariants *)

\* A table of images as the database makes it: unique digests, ids counted up.
Sound(table) ==
    /\ table \in SUBSET ImageRow /\ IsFiniteSet(table)
    /\ \A i, j \in table : i.id = j.id \/ i.sha256 = j.sha256 => i = j
    /\ \A i \in table : i.id <= Cardinality(table)

TypeInv ==
    /\ Sound(images)
    /\ file \in [Files -> {"absent", "partial", "whole"}]
    /\ client \in [Clients -> Client]
    /\ \A c \in Clients : client[c].pc # "idle" => client[c].digest \in Digests
    /\ \A c \in Clients : client[c].pc \in {"derivative", "replaceDerivative"}
                            => client[c].file \in Derivatives
    /\ failures \in 0..MaxFailures
    /\ \A dump \in dumps : Sound(dump)
    /\ copied \in SUBSET Digests
    /\ backup \in Backup /\ Sound(backup.dump)
    /\ backups \in 0..MaxBackups

\* A row has its bytes, and so has one that is on its way.
BlobInv ==
    /\ \A d \in Digests : file[d] # "partial"
    /\ \A i \in images : file[i.sha256] = "whole"
    /\ \A c \in Clients :
        /\ client[c].pc \in {"select", "insert"} => file[client[c].digest] = "whole"
        /\ client[c].pc = "answered" =>
              [id |-> client[c].id, sha256 |-> client[c].digest] \in images

\* What the dumps need is in the store while it is the one they are of, and from
\* the archive on in the run's copy.
DumpInv ==
    /\ \A dump \in dumps \cup {backup.dump} : \A i \in dump : file[i.sha256] = "whole"
    /\ backup.pc \in {"tar", "rsync"} =>
          \A dump \in dumps : \A i \in dump : i.sha256 \in backup.staging
    /\ backup.complete =>
          backup.pc = "idle" /\ \A dump \in dumps : \A i \in dump : i.sha256 \in copied

\* A digest is no derivative.
LEMMA FileNames ==
    /\ Digests \subseteq Files /\ Derivatives \subseteq Files
    /\ Digests \cap Derivatives = {}
BY ConstantsAssumption DEF Files

\* Names of files are not None.
LEMMA NoneIsNoFile == None \notin Files
BY ConstantsAssumption

LEMMA EmptyIsSound == Sound({})
BY FS_EmptySet DEF Sound

\* An INSERT keeps a table sound.
LEMMA InsertIsSound ==
    ASSUME NEW table, Sound(table), NEW d \in Digests, \A i \in table : i.sha256 # d
    PROVE  Sound(table \cup {[id |-> Cardinality(table) + 1, sha256 |-> d]})
<1> DEFINE n == Cardinality(table)
           new == [id |-> n + 1, sha256 |-> d]
<1>1. n \in Nat
    BY FS_CardinalityType DEF Sound
<1>2. new \in ImageRow /\ new.id = n + 1 /\ new.sha256 = d
    BY <1>1 DEF ImageRow
<1>3. \A i \in table : i.id \in Nat /\ i.id <= n
    BY DEF Sound, ImageRow
<1>4. new \notin table
    BY <1>1, <1>2, <1>3
<1>5. IsFiniteSet(table \cup {new}) /\ Cardinality(table \cup {new}) = n + 1
    BY <1>4, FS_AddElement DEF Sound
<1> HIDE DEF n, new
<1>6. \A i, j \in table \cup {new} : i.id = j.id \/ i.sha256 = j.sha256 => i = j
    BY <1>1, <1>2, <1>3 DEF Sound
<1>7. \A i \in table \cup {new} : i.id <= Cardinality(table \cup {new})
    BY <1>1, <1>2, <1>3, <1>5
<1>8. Sound(table \cup {new})
    BY <1>2, <1>5, <1>6, <1>7 DEF Sound
<1> QED BY <1>8 DEF new, n

LEMMA TypeInit == Init => TypeInv
<1> SUFFICES ASSUME Init PROVE TypeInv
    OBVIOUS
<1>1. Sound(images) /\ Sound(backup.dump) /\ backup \in Backup
    BY EmptyIsSound DEF Init, InitImages, NoBackup, Backup
<1>2. client \in [Clients -> Client] /\ \A c \in Clients : client[c].pc = "idle"
    BY DEF Init, InitImages, Resting, Client
<1>3. failures \in 0..MaxFailures /\ backups \in 0..MaxBackups
    BY ConstantsAssumption, MaxBackupsAssumption DEF Init, InitImages
<1> QED BY <1>1, <1>2, <1>3 DEF Init, InitImages, TypeInv

\* What a request does to its own part of the state, of any client.
ClientStep(c) ==
    \/ \E d \in Digests : Want(c, d) \/ \E w \in Widths : WantMaster(c, d, w)
    \/ Handle(c) \/ Fail(c) \/ Done(c)

\* The images and their files keep their types.
LEMMA TypeClients ==
    ASSUME TypeInv, NEW c \in Clients, ClientStep(c), UNCHANGED backupVars
    PROVE  TypeInv'
<1> USE DEF TypeInv, backupVars
<1>0. client[c] \in Client /\ (client[c].pc # "idle" => client[c].digest \in Files)
    BY FileNames
<1>1. ASSUME NEW d \in Digests, Want(c, d) PROVE TypeInv'
    BY <1>1 DEF Want, Resting, Client
<1>2. ASSUME NEW d \in Digests, NEW w \in Widths, WantMaster(c, d, w) PROVE TypeInv'
  <2>1. <<d, w>> \in Derivatives
      BY DEF Derivatives
  <2> QED BY <1>2, <2>1, FileNames DEF WantMaster, Resting, Client
<1>3. ASSUME NEW id \in Nat, Answered(c, id), client[c].pc \in {"head", "select", "insert"}
      PROVE  /\ client' \in [Clients -> Client]
             /\ \A e \in Clients : client'[e].pc # "idle" => client'[e].digest \in Digests
             /\ \A e \in Clients : client'[e].pc \in {"derivative", "replaceDerivative"}
                                     => client'[e].file \in Derivatives
  <2>1. client' = [client EXCEPT ![c] = [client[c] EXCEPT !.pc = "answered", !.id = id]]
      BY <1>3 DEF Answered
  <2>2. [client[c] EXCEPT !.pc = "answered", !.id = id] \in Client
      BY <1>0 DEF Client
  <2> QED BY <1>3, <2>1, <2>2 DEF Client
<1>4. \A d : IdsOf(d) \subseteq Nat
    BY DEF IdsOf, RowsOf, Sound, ImageRow
<1>5. CASE HeadByDigest(c)
  <2>1. CASE client' = [client EXCEPT ![c].pc = "put"]
      BY <1>5, <2>1, <1>0 DEF HeadByDigest, Client
  <2>2. ASSUME NEW id \in IdsOf(client[c].digest), Answered(c, id) PROVE TypeInv'
    <3>1. id \in Nat
        BY <1>4
    <3> QED BY <1>5, <2>2, <1>3, <3>1 DEF HeadByDigest
  <2> QED BY <1>5, <2>1, <2>2 DEF HeadByDigest
<1>6. CASE Put(c)
    BY <1>6, <1>0 DEF Put, Client, Written
<1>7. CASE Replace(c)
    BY <1>7, <1>0 DEF Replace, Client, Replaced
<1>8. CASE SelectImage(c)
  <2>1. CASE client' = [client EXCEPT ![c].pc = "insert"]
      BY <1>8, <2>1, <1>0 DEF SelectImage, Client
  <2>2. ASSUME NEW id \in Existing(client[c].digest), Answered(c, id) PROVE TypeInv'
    <3>1. id \in Nat
        BY <1>4 DEF Existing
    <3> QED BY <1>8, <2>2, <1>3, <3>1 DEF SelectImage
  <2> QED BY <1>8, <2>1, <2>2 DEF SelectImage
<1>9. CASE InsertImage(c)
  <2>1. client[c].digest \in Digests /\ \A i \in images : i.sha256 # client[c].digest
      BY <1>9 DEF InsertImage, Duplicate, RowsOf
  <2>2. Sound(images')
      BY <1>9, <2>1, InsertIsSound DEF InsertImage
  <2>3. Cardinality(images) + 1 \in Nat
      BY FS_CardinalityType DEF Sound
  <2>4. Answered(c, Cardinality(images) + 1)
      BY <1>9 DEF InsertImage
  <2> QED BY <1>9, <1>3, <2>2, <2>3, <2>4 DEF InsertImage
<1>10. CASE InsertConflict(c)
    BY <1>10, <1>0 DEF InsertConflict, Client
<1>11. CASE Derivative(c)
  <2>1. client[c].file \in Files /\ Resting \in Client
      BY <1>11, FileNames DEF Derivative, Resting, Client
  <2> QED BY <1>11, <1>0, <2>1 DEF Derivative, Client, Written, Resting
<1>12. CASE ReplaceDerivative(c)
  <2>1. client[c].file \in Files
      BY <1>12, FileNames DEF ReplaceDerivative
  <2> QED BY <1>12, <1>0, <2>1 DEF ReplaceDerivative, Client, Replaced, Resting
<1>13. CASE Fail(c)
    BY <1>13, <1>0, ConstantsAssumption DEF Fail, Client, Resting
<1>14. CASE Done(c)
    BY <1>14, <1>0 DEF Done, Client, Resting
<1> QED BY <1>1, <1>2, <1>5, <1>6, <1>7, <1>8, <1>9, <1>10, <1>11, <1>12, <1>13, <1>14
           DEF ClientStep, Handle

LEMMA TypeStep == TypeInv /\ [Next]_vars => TypeInv'
<1> SUFFICES ASSUME TypeInv, [Next]_vars PROVE TypeInv'
    OBVIOUS
<1>1. ASSUME NEW c \in Clients, ClientStep(c), UNCHANGED backupVars PROVE TypeInv'
    BY <1>1, TypeClients
<1> USE DEF TypeInv
<1>2. ASSUME NEW f \in Derivatives, Reclaim(f), UNCHANGED backupVars PROVE TypeInv'
    BY <1>2, FileNames DEF Reclaim, backupVars
<1>3. CASE StartDump
  <2>1. backup' \in Backup /\ backup'.dump = images
      BY <1>3, EmptyIsSound DEF StartDump, NoBackup, Backup, Sound
  <2>2. backups' \in 0..MaxBackups
      BY <1>3, MaxBackupsAssumption DEF StartDump
  <2>3. Sound(backup'.dump) /\ Sound(images')
      BY <1>3, <2>1 DEF StartDump, imageVars
  <2>4. UNCHANGED <<imageVars, dumps, copied>>
      BY <1>3 DEF StartDump
  <2> QED BY <2>1, <2>2, <2>3, <2>4 DEF imageVars
<1>4. CASE FinishDump
  <2>1. Blobs \in SUBSET Digests
      BY DEF Blobs
  <2> QED BY <1>4, <2>1 DEF FinishDump, Backup, imageVars
<1>5. CASE FinishTar
  <2>1. PICK new \in SUBSET Blobs :
             backup' = [backup EXCEPT !.pc = "rsync", !.staging = @ \cup new]
      BY <1>5 DEF FinishTar
  <2>2. new \in SUBSET Digests
      BY <2>1 DEF Blobs
  <2>3. backup' \in Backup /\ backup'.dump = backup.dump
      BY <2>1, <2>2 DEF Backup
  <2>4. UNCHANGED <<imageVars, dumps, copied, backups>>
      BY <1>5 DEF FinishTar
  <2> QED BY <2>3, <2>4 DEF imageVars
<1>6. NoBackup \in Backup /\ Sound(NoBackup.dump)
    BY EmptyIsSound DEF NoBackup, Backup
<1>7. CASE FinishRsync
  <2>1. backup' \in Backup /\ Sound(backup'.dump)
      BY <1>6, <1>7 DEF FinishRsync, Backup
  <2>2. copied' \in SUBSET Digests /\ dumps' \subseteq dumps
      BY <1>7 DEF FinishRsync, Backup
  <2> QED BY <1>7, <2>1, <2>2 DEF FinishRsync, imageVars
<1>8. CASE DumpBreaks \/ TarBreaks
  <2>1. backup' = NoBackup /\ UNCHANGED <<imageVars, dumps, copied, backups>>
      BY <1>8 DEF DumpBreaks, TarBreaks, AfterBrokenTransfer
  <2> QED BY <1>6, <2>1 DEF imageVars
<1>9. CASE RsyncBreaks
  <2>1. copied' \in SUBSET Digests
      BY <1>9 DEF RsyncBreaks, Backup
  <2> QED BY <1>6, <1>9, <2>1 DEF RsyncBreaks, imageVars
<1>10. CASE Restore
  <2>1. Sound(images') /\ file' \in [Files -> {"absent", "partial", "whole"}]
      BY <1>10 DEF Restore
  <2>2. ASSUME NEW c \in Clients
        PROVE  /\ client'[c] \in Client
               /\ client'[c].pc # "idle" => client'[c].digest \in Digests
               /\ client'[c].pc \notin {"derivative", "replaceDerivative"}
    <3>1. client[c] \in Client /\ (client[c].pc # "idle" => client[c].digest \in Digests)
        OBVIOUS
    <3>2. CASE client'[c] = Resting
        BY <3>2 DEF Resting, Client
    <3>3. CASE client'[c] = [client[c] EXCEPT !.pc = "put"] /\ client[c].pc # "idle"
        BY <3>1, <3>3 DEF Client
    <3> QED BY <1>10, <3>2, <3>3 DEF Restore
  <2>3. client' \in [Clients -> Client]
      BY <1>10, <2>2 DEF Restore
  <2> QED BY <1>6, <1>10, <2>1, <2>2, <2>3 DEF Restore
<1>11. CASE UNCHANGED vars
    BY <1>11 DEF vars, imageVars, backupVars
<1>12. NextImages => (\E c \in Clients : ClientStep(c)) \/ (\E f \in Derivatives : Reclaim(f))
    BY DEF NextImages, ClientStep
<1> QED BY <1>1, <1>2, <1>3, <1>4, <1>5, <1>7, <1>8, <1>9, <1>10, <1>11, <1>12
           DEF Next, NextBackup

-----------------------------------------------------------------------------
(* Rows and their bytes *)

LEMMA BlobInit == Init => BlobInv
BY FileNames DEF Init, InitImages, BlobInv, Resting

LEMMA DumpInit == Init => DumpInv
BY DEF Init, NoBackup, DumpInv

\* A blob that is there stays, whatever a client does.
LEMMA BlobsStay ==
    ASSUME TypeInv, BlobInv, NEW c \in Clients, ClientStep(c)
    PROVE  \A d \in Digests :
             /\ file[d] = "whole" => file'[d] = "whole"
             /\ file'[d] # "partial"
<1> USE FileNames
<1>1. file \in [Files -> {"absent", "partial", "whole"}] /\ \A d \in Digests : file[d] # "partial"
    BY DEF TypeInv, BlobInv
<1>2. ClientStep(c) => file' = file \/ \E f \in Files : file' = [file EXCEPT ![f] = "whole"]
  <2>1. (\E d \in Digests : Want(c, d) \/ \E w \in Widths : WantMaster(c, d, w)) => file' = file
      BY DEF Want, WantMaster
  <2>2. HeadByDigest(c) \/ Put(c) \/ SelectImage(c) \/ InsertImage(c) \/ InsertConflict(c)
        \/ Derivative(c) \/ Fail(c) \/ Done(c) => file' = file
      BY DEF HeadByDigest, Put, SelectImage, InsertImage, InsertConflict, Derivative, Fail, Done, Written
  <2>3. Replace(c) => \E f \in Files : file' = [file EXCEPT ![f] = "whole"]
      BY DEF Replace, Replaced, TypeInv
  <2>4. ReplaceDerivative(c) => \E f \in Files : file' = [file EXCEPT ![f] = "whole"]
      BY DEF ReplaceDerivative, Replaced, TypeInv
  <2> QED BY <2>1, <2>2, <2>3, <2>4 DEF ClientStep, Handle
<1> QED BY <1>1, <1>2

\* What a client's step does to its own state and to the rows.
LEMMA BlobClients ==
    ASSUME TypeInv, BlobInv, NEW c \in Clients, ClientStep(c)
    PROVE  BlobInv'
<1> DEFINE Safe(e) ==
      /\ client'[e].pc \in {"select", "insert"} => file'[client'[e].digest] = "whole"
      /\ client'[e].pc = "answered" =>
            [id |-> client'[e].id, sha256 |-> client'[e].digest] \in images'
<1>1. \A d \in Digests : (file[d] = "whole" => file'[d] = "whole") /\ file'[d] # "partial"
    BY BlobsStay
<1>2. \A i \in images : i.sha256 \in Digests /\ file[i.sha256] = "whole"
    BY DEF TypeInv, Sound, ImageRow, BlobInv
<1>3. client[c] \in Client /\ (client[c].pc # "idle" => client[c].digest \in Digests)
    BY DEF TypeInv
<1>4. /\ \A e \in Clients \ {c} : client'[e] = client[e]
      /\ images \subseteq images'
      /\ InsertImage(c) \/ images' = images
    BY DEF TypeInv, ClientStep, Handle, Want, WantMaster, HeadByDigest, Put, Replace, SelectImage,
           InsertImage, InsertConflict, Derivative, ReplaceDerivative, Fail, Done, Answered
<1>5. \A e \in Clients \ {c} : Safe(e)
    BY <1>1, <1>4 DEF TypeInv, BlobInv
<1>6. \A d \in Digests : \A id \in IdsOf(d) : [id |-> id, sha256 |-> d] \in images
    BY DEF IdsOf, RowsOf, TypeInv, Sound, ImageRow
<1>7. ASSUME NEW id, Answered(c, id), [id |-> id, sha256 |-> client[c].digest] \in images'
      PROVE  Safe(c)
    BY <1>3, <1>7 DEF Answered, TypeInv, Client
<1>8. /\ \A i \in images' : file'[i.sha256] = "whole"
      /\ Safe(c)
  <2>1. ASSUME images' = images PROVE \A i \in images' : file'[i.sha256] = "whole"
      BY <1>1, <1>2, <2>1
  <2>2. ASSUME (\E d \in Digests : Want(c, d) \/ \E w \in Widths : WantMaster(c, d, w))
               \/ Replace(c) \/ InsertConflict(c) \/ Derivative(c) \/ ReplaceDerivative(c)
               \/ Fail(c) \/ Done(c)
        PROVE  images' = images
      BY <2>2 DEF Want, WantMaster, Replace, InsertConflict, Derivative, ReplaceDerivative, Fail, Done
  <2>3. CASE \E d \in Digests : Want(c, d) \/ \E w \in Widths : WantMaster(c, d, w)
    <3>1. client'[c].pc \in {"head", "derivative"}
        BY <2>3, <1>3 DEF Want, WantMaster, Resting, TypeInv
    <3> QED BY <2>1, <2>2, <2>3, <3>1
  <2>4. CASE HeadByDigest(c)
    <3>1. CASE client' = [client EXCEPT ![c].pc = "put"]
        BY <2>1, <2>4, <3>1, <1>3 DEF HeadByDigest, TypeInv, Client
    <3>2. ASSUME NEW id \in IdsOf(client[c].digest), Answered(c, id)
          PROVE  Safe(c) /\ images' = images
        BY <2>4, <3>2, <1>3, <1>6, <1>7 DEF HeadByDigest
    <3> QED BY <2>1, <2>4, <3>1, <3>2 DEF HeadByDigest
  <2>5. CASE Put(c)
    <3>1. images' = images /\ file' = file
        BY <2>5 DEF Put, Written
    <3>2. client'[c].pc = "select" => file[client[c].digest] = "whole"
        BY <2>5, <1>3, FileNames DEF Put, Exists, BlobInv, TypeInv, Client
    <3>3. client'[c].pc \in {"select", "replace"} /\ client'[c].digest = client[c].digest
        BY <2>5, <1>3 DEF Put, TypeInv, Client
    <3> QED BY <2>1, <3>1, <3>2, <3>3
  <2>6. CASE Replace(c)
    <3>1. client'[c].digest = client[c].digest /\ client'[c].pc = "select" /\ client[c].digest \in Files
        BY <2>6, <1>3, FileNames DEF Replace, TypeInv, Client
    <3>2. file'[client[c].digest] = "whole"
        BY <2>6, <3>1 DEF Replace, Replaced, TypeInv
    <3> QED BY <2>1, <2>2, <2>6, <3>1, <3>2
  <2>7. CASE SelectImage(c)
    <3>1. CASE client' = [client EXCEPT ![c].pc = "insert"]
        BY <2>1, <2>7, <3>1, <1>3 DEF SelectImage, BlobInv, TypeInv, Client
    <3>2. ASSUME NEW id \in Existing(client[c].digest), Answered(c, id)
          PROVE  Safe(c) /\ images' = images
        BY <2>7, <3>2, <1>3, <1>6, <1>7 DEF SelectImage, Existing
    <3> QED BY <2>1, <2>7, <3>1, <3>2 DEF SelectImage
  <2>8. CASE InsertImage(c)
    <3> DEFINE new == [id |-> Cardinality(images) + 1, sha256 |-> client[c].digest]
    <3>1. images' = images \cup {new} /\ file' = file /\ Answered(c, Cardinality(images) + 1)
        BY <2>8 DEF InsertImage
    <3>2. file[client[c].digest] = "whole"
        BY <2>8 DEF InsertImage, BlobInv
    <3>3. Safe(c)
        BY <3>1, <1>7
    <3> QED BY <1>2, <3>1, <3>2, <3>3
  <2>9. CASE InsertConflict(c)
    <3>1. client'[c].pc = "put"
        BY <2>9, <1>3 DEF InsertConflict, TypeInv, Client
    <3> QED BY <2>1, <2>2, <2>9, <3>1
  <2>10. CASE Derivative(c) \/ ReplaceDerivative(c) \/ Done(c)
    <3>1. client'[c].pc \in {"idle", "replaceDerivative"}
        BY <2>10, <1>3 DEF Derivative, ReplaceDerivative, Done, TypeInv, Client, Resting
    <3> QED BY <2>1, <2>2, <2>10, <3>1
  <2>11. CASE Fail(c)
    <3>1. client'[c].pc \in {"idle", "put"}
        BY <2>11, <1>3 DEF Fail, TypeInv, Client, Resting
    <3> QED BY <2>1, <2>2, <2>11, <3>1
  <2> QED BY <2>3, <2>4, <2>5, <2>6, <2>7, <2>8, <2>9, <2>10, <2>11 DEF ClientStep, Handle
<1> QED BY <1>1, <1>5, <1>8 DEF BlobInv

\* The whole blobs and the rows, in every step but a restore.
LEMMA BlobStep == TypeInv /\ BlobInv /\ DumpInv /\ [Next]_vars => BlobInv'
<1> SUFFICES ASSUME TypeInv, BlobInv, DumpInv, [Next]_vars PROVE BlobInv'
    OBVIOUS
<1>1. ASSUME NEW c \in Clients, ClientStep(c) PROVE BlobInv'
    BY <1>1, BlobClients
<1>2. ASSUME NEW f \in Derivatives, Reclaim(f) PROVE BlobInv'
  <2>1. \A d \in Digests : file'[d] = file[d]
      BY <1>2, FileNames DEF Reclaim, TypeInv
  <2>2. \A i \in images : i.sha256 \in Digests
      BY DEF TypeInv, Sound, ImageRow
  <2>3. \A c \in Clients : client[c].pc # "idle" => client[c].digest \in Digests
      BY DEF TypeInv
  <2>4. images' = images /\ client' = client
      BY <1>2 DEF Reclaim
  <2> QED BY <2>1, <2>2, <2>3, <2>4 DEF BlobInv
<1>3. CASE UNCHANGED imageVars
    BY <1>3 DEF imageVars, BlobInv
<1>4. CASE Restore
  <2>1. backup.complete /\ images' \in dumps
      BY <1>4 DEF Restore
  <2>2. \A f \in Files : file'[f] = IF f \in copied THEN "whole" ELSE "absent"
      BY <1>4 DEF Restore
  <2>3. \A i \in images' : i.sha256 \in copied /\ i.sha256 \in Files
      BY <2>1, FileNames DEF DumpInv, TypeInv, Sound, ImageRow
  <2>4. \A c \in Clients : client'[c].pc \in {"put", "idle"}
    <3> SUFFICES ASSUME NEW c \in Clients PROVE client'[c].pc \in {"put", "idle"}
        OBVIOUS
    <3>1. client[c] \in Client
        BY DEF TypeInv
    <3>2. client'[c] = [client[c] EXCEPT !.pc = "put"] \/ client'[c] = Resting
        BY <1>4 DEF Restore
    <3> QED BY <3>1, <3>2 DEF Client, Resting
  <2>5. \A d \in Digests : file'[d] # "partial"
      BY <2>2, FileNames
  <2>6. \A i \in images' : file'[i.sha256] = "whole"
      BY <2>2, <2>3
  <2> QED BY <2>4, <2>5, <2>6 DEF BlobInv
<1>5. NextImages => (\E c \in Clients : ClientStep(c)) \/ (\E f \in Derivatives : Reclaim(f))
    BY DEF NextImages, ClientStep
<1>6. StartDump \/ FinishDump \/ FinishTar \/ FinishRsync \/ DumpBreaks \/ TarBreaks \/ RsyncBreaks
        => UNCHANGED imageVars
    BY DEF StartDump, FinishDump, FinishTar, FinishRsync, DumpBreaks, TarBreaks, RsyncBreaks
<1> QED BY <1>1, <1>2, <1>3, <1>4, <1>5, <1>6 DEF Next, NextBackup, vars

\* Requests leave the dumps alone, and no whole blob is lost.
LEMMA DumpRequests ==
    ASSUME TypeInv, DumpInv, UNCHANGED backupVars,
           \A d \in Digests : file[d] = "whole" => file'[d] = "whole"
    PROVE  DumpInv'
<1>1. \A dump \in dumps \cup {backup.dump} : \A i \in dump : i.sha256 \in Digests
    BY DEF TypeInv, Sound, ImageRow
<1> QED BY <1>1 DEF DumpInv, backupVars

\* A run that breaks off leaves the dumps as they were, and is not complete.
LEMMA DumpBroken ==
    ASSUME DumpInv, backup' = NoBackup, file' = file, dumps' = dumps
    PROVE  DumpInv'
BY DEF DumpInv, NoBackup

LEMMA DumpStep == TypeInv /\ BlobInv /\ DumpInv /\ [Next]_vars => DumpInv'
<1> SUFFICES ASSUME TypeInv, BlobInv, DumpInv, [Next]_vars PROVE DumpInv'
    OBVIOUS
<1>1. ASSUME NEW c \in Clients, ClientStep(c), UNCHANGED backupVars PROVE DumpInv'
  <2>1. \A d \in Digests : file[d] = "whole" => file'[d] = "whole"
      BY <1>1, BlobsStay
  <2> QED BY <1>1, <2>1, DumpRequests
<1>2. ASSUME NEW f \in Derivatives, Reclaim(f), UNCHANGED backupVars PROVE DumpInv'
  <2>1. \A d \in Digests : file'[d] = file[d]
      BY <1>2, FileNames DEF Reclaim, TypeInv
  <2> QED BY <1>2, <2>1, DumpRequests
<1>3. CASE UNCHANGED vars
    BY <1>3, DumpRequests DEF vars, imageVars
<1>4. CASE StartDump
  <2>1. /\ backup'.pc = "dump" /\ backup'.dump = images /\ ~backup'.complete
        /\ dumps' = dumps /\ file' = file
      BY <1>4 DEF StartDump, NoBackup, imageVars
  <2> QED BY <2>1 DEF DumpInv, BlobInv
<1>5. CASE FinishDump
  <2>1. /\ backup'.pc = "tar" /\ backup'.dump = backup.dump /\ backup'.staging = Blobs
        /\ backup'.complete = backup.complete
        /\ dumps' = dumps \cup {backup.dump} /\ file' = file
      BY <1>5 DEF FinishDump, imageVars, TypeInv, Backup
  <2>2. ~backup.complete
      BY <1>5 DEF FinishDump, DumpInv
  <2>3. \A dump \in dumps' : \A i \in dump : i.sha256 \in Digests /\ file[i.sha256] = "whole"
      BY <2>1 DEF DumpInv, TypeInv, Sound, ImageRow
  <2>4. \A dump \in dumps' : \A i \in dump : i.sha256 \in Blobs
      BY <2>3 DEF Blobs, Exists
  <2> QED BY <2>1, <2>2, <2>3, <2>4 DEF DumpInv
<1>6. CASE FinishTar
  <2>1. PICK new \in SUBSET Blobs :
             backup' = [backup EXCEPT !.pc = "rsync", !.staging = @ \cup new]
      BY <1>6 DEF FinishTar
  <2>2. /\ backup'.dump = backup.dump /\ backup.staging \subseteq backup'.staging
        /\ backup'.pc = "rsync" /\ backup'.complete = backup.complete
      BY <2>1 DEF TypeInv, Backup
  <2>3. dumps' = dumps /\ file' = file /\ backup.pc = "tar"
      BY <1>6 DEF FinishTar, imageVars
  <2> QED BY <2>2, <2>3 DEF DumpInv
<1>7. CASE FinishRsync
  <2>1. /\ backup.pc = "rsync" /\ copied' = backup.staging
        /\ dumps' \subseteq dumps /\ file' = file
      BY <1>7 DEF FinishRsync, imageVars
  <2>2. backup'.pc = "idle" /\ backup'.dump = {}
      BY <1>7 DEF FinishRsync, NoBackup
  <2> QED BY <2>1, <2>2 DEF DumpInv
<1>8. CASE DumpBreaks \/ TarBreaks \/ RsyncBreaks
  <2>1. backup' = NoBackup /\ file' = file /\ dumps' = dumps
      BY <1>8 DEF DumpBreaks, TarBreaks, RsyncBreaks, AfterBrokenTransfer, imageVars
  <2> QED BY <2>1, DumpBroken
<1>9. CASE Restore
  <2>1. backup.complete /\ dumps' = dumps /\ backup' = NoBackup
      BY <1>9 DEF Restore
  <2>2. \A f \in Files : file'[f] = IF f \in copied THEN "whole" ELSE "absent"
      BY <1>9 DEF Restore
  <2>3. \A dump \in dumps : \A i \in dump : i.sha256 \in copied /\ i.sha256 \in Files
      BY <2>1, FileNames DEF DumpInv, TypeInv, Sound, ImageRow
  <2>4. \A dump \in dumps : \A i \in dump : file'[i.sha256] = "whole"
      BY <2>2, <2>3
  <2> QED BY <2>1, <2>4 DEF DumpInv, NoBackup
<1>10. NextImages => (\E c \in Clients : ClientStep(c)) \/ (\E f \in Derivatives : Reclaim(f))
    BY DEF NextImages, ClientStep
<1> QED BY <1>1, <1>2, <1>3, <1>4, <1>5, <1>6, <1>7, <1>8, <1>9, <1>10 DEF Next, NextBackup

-----------------------------------------------------------------------------
(* The theorems *)

Inv == TypeInv /\ BlobInv /\ DumpInv

LEMMA Invariant == Spec => []Inv
<1>1. Init => Inv
    BY TypeInit, BlobInit, DumpInit DEF Inv
<1>2. Inv /\ [Next]_vars => Inv'
    BY TypeStep, BlobStep, DumpStep DEF Inv
<1> QED BY <1>1, <1>2, PTL DEF Spec

\* Every variable of the image store and of the backup keeps its type, and a row
\* has an id and a digest of its own, though uploads of one image overlap, the
\* process dies half-way and the server is restored from a backup.
THEOREM StoreTypeCorrect == Spec => []TypeOK
<1>1. Inv => TypeOK
  <2> SUFFICES ASSUME Inv PROVE TypeOK
      OBVIOUS
  <2>1. ImagesTypeOK
      BY DEF Inv, TypeInv, Sound, ImagesTypeOK
  <2> QED BY <2>1 DEF Inv, TypeInv, Sound, TypeOK
<1> QED BY <1>1, Invariant, PTL

\* store.put before the INSERT, and os.replace after the write: no row without
\* all of its bytes, and no client with the id of another image.
THEOREM NoRowWithoutItsBytes == Spec => []RowsHaveBlobs
<1>1. Inv => RowsHaveBlobs
    BY DEF Inv, BlobInv, RowsHaveBlobs
<1> QED BY <1>1, Invariant, PTL

\* The dump before the blobs, and nothing kept of a run that broke off: every
\* dump kept by a run of backup.sh that came to its end has all of its blobs.
THEOREM CompleteBackupsAreWhole == Spec => []BackupsAreWhole
<1>1. Inv => BackupsAreWhole
    BY DEF Inv, DumpInv, BackupsAreWhole
<1> QED BY <1>1, Invariant, PTL
=============================================================================
