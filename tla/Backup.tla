------------------------------- MODULE Backup -------------------------------
(***************************************************************************)
(* deploy/backup.sh: the database is dumped, then the blobs are copied,    *)
(* while phones go on uploading; and a restore of what was kept.           *)
(*                                                                         *)
(* Of the database the images table matters: every row of it is one that   *)
(* some template or graded paper may point to.                             *)
(***************************************************************************)
EXTENDS ImageStore

CONSTANT MaxBackups   \* bound: runs of backup.sh

ASSUME MaxBackupsAssumption == MaxBackups \in Nat

VARIABLES
    dumps,     \* the finished dumps kept, each the images table of a moment
    copied,    \* the blobs under $DEST/blobs
    backup,    \* the run of backup.sh under way
    backups    \* runs so far

backupVars == <<dumps, copied, backup, backups>>
vars == <<imageVars, backupVars>>

-----------------------------------------------------------------------------
Backup == [pc: {"idle", "dump", "tar", "rsync"}, dump: SUBSET ImageRow,
           staging: SUBSET Digests, complete: BOOLEAN]

\* complete: the last run came to its end, and the server is the one it was of.
NoBackup == [pc |-> "idle", dump |-> {}, staging |-> {}, complete |-> FALSE]

Blobs == {d \in Digests : Exists(d)}

Init == InitImages /\ dumps = {} /\ copied = {} /\ backup = NoBackup /\ backups = 0

\* pg_dump has a snapshot of when it begins; the dump gets its name at the end.
StartDump ==
    /\ backup.pc = "idle" /\ backups < MaxBackups
    /\ backups' = backups + 1
    /\ backup' = [NoBackup EXCEPT !.pc = "dump", !.dump = images]
    /\ UNCHANGED <<imageVars, dumps, copied>>

FinishDump ==
    /\ backup.pc = "dump"
    /\ dumps' = dumps \cup {backup.dump}
    /\ backup' = [backup EXCEPT !.pc = "tar", !.staging = Blobs]
    /\ UNCHANGED <<imageVars, copied, backups>>

\* The archive has every blob that was there when tar began, and may have ones
\* that came since.
FinishTar ==
    /\ backup.pc = "tar"
    /\ \E new \in SUBSET Blobs :
         backup' = [backup EXCEPT !.pc = "rsync", !.staging = @ \cup new]
    /\ UNCHANGED <<imageVars, dumps, copied, backups>>

\* rsync --delete, and the dumps past KEEP_DAYS.
FinishRsync ==
    /\ backup.pc = "rsync"
    /\ copied' = backup.staging
    /\ \E old \in SUBSET (dumps \ {backup.dump}) : dumps' = dumps \ old
    /\ backup' = [NoBackup EXCEPT !.complete = TRUE]
    /\ UNCHANGED <<imageVars, backups>>

\* Mutant: no pipefail, a transfer that dies counts as one that ended.
Ignored(part) == [backup EXCEPT !.pc = "rsync", !.staging = part]

\* set -euo pipefail: the script stops, whatever part it has.
AfterBrokenTransfer(part) == NoBackup

DumpBreaks ==
    /\ backup.pc = "dump"
    /\ backup' = NoBackup
    /\ UNCHANGED <<imageVars, dumps, copied, backups>>

TarBreaks ==
    /\ backup.pc = "tar"
    /\ \E part \in SUBSET backup.staging : backup' = AfterBrokenTransfer(part)
    /\ UNCHANGED <<imageVars, dumps, copied, backups>>

\* Some of the new files are there, some of the doomed ones are gone.
RsyncBreaks ==
    /\ backup.pc = "rsync"
    /\ \E part \in SUBSET (copied \cup backup.staging) :
         /\ copied \cap backup.staging \subseteq part
         /\ copied' = part
    /\ backup' = NoBackup
    /\ UNCHANGED <<imageVars, dumps, backups>>

\* A dump and the blobs go back into an empty server; requests under way then
\* are lost, and uploads tried again.
Restore ==
    /\ backup.pc = "idle" /\ backup.complete
    /\ \E dump \in dumps : images' = dump
    /\ file' = [f \in Files |-> IF f \in copied THEN "whole" ELSE "absent"]
    /\ client' = [c \in Clients |->
                     IF client[c].file = None /\ client[c].pc \notin {"idle", "answered"}
                     THEN [client[c] EXCEPT !.pc = "put"] ELSE Resting]
    /\ backup' = NoBackup
    /\ UNCHANGED <<failures, dumps, copied, backups>>

NextBackup ==
    \/ StartDump \/ FinishDump \/ FinishTar \/ FinishRsync
    \/ DumpBreaks \/ TarBreaks \/ RsyncBreaks \/ Restore

Next == \/ NextImages /\ UNCHANGED backupVars
        \/ NextBackup

Spec == Init /\ [][Next]_vars

\* Threads run; nobody need ever make a backup.
FairSpec == Spec /\ \A c \in Clients : WF_vars(Handle(c) /\ UNCHANGED backupVars)

-----------------------------------------------------------------------------
(* What must hold *)

\* Every variable has its type.
TypeOK ==
    /\ ImagesTypeOK
    /\ dumps \subseteq SUBSET ImageRow /\ copied \subseteq Digests
    /\ backup \in Backup /\ backups \in 0..MaxBackups

\* "A backup is only a backup with both": once backup.sh has come to its end,
\* every dump it keeps has all of its blobs, whatever phones uploaded meanwhile
\* and however earlier runs broke off.
BackupsAreWhole ==
    backup.complete => \A dump \in dumps : {i.sha256 : i \in dump} \subseteq copied
=============================================================================
