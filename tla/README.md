# CramSchool_Backend in TLA+

TLA+ modules of the grading server in `src/`: a FastAPI application over
PostgreSQL and a directory of images, which teachers' phones use to share exam
templates and to upload graded papers. The modules model what the code does
when requests overlap, answers are lost and processes die; TLC checks them on
small instances, and TLAPS proves the safety of every part for all sizes.

    cd tla
    tlc -workers 2 -config TemplatesSerial.cfg MCTemplateSync    # a run, see PROJECT.json
    for m in ExamTemplates SerialSaves TemplateSync GradingSessions \
             Accounts Backup RateLimiter LegacyImport
    do tlapm ${m}Proofs.tla; done                                # the proofs

`PROJECT.json` lists the runs with their properties, a mutation of the code for
every property that the run detects, the source lines behind every definition,
the hazards, and the findings.

## 1. The system

| Part | State | Operations | Hard behaviour |
|---|---|---|---|
| Exam templates (`app/routers/templates.py`) | `exam_templates`, `template_pages`, `answer_boxes` | POST, GET, PATCH with `If-Match`, DELETE (soft) | saves that overlap, deadlocks, answers built from stale copies |
| Template sync (`list_templates`) | `updated_at`; a cursor on each phone | GET with `updated_since` | timestamps taken before the commit, tombstones, the limit |
| Grading sessions (`app/routers/sessions.py`) | `grading_sessions`, `graded_answers` | PUT and DELETE on a UUID the phone has minted; reads; export | retries, late calls, shared devices, derived counts |
| Accounts (`app/routers/auth.py`, `app/cli.py`) | `teachers`, `invite_codes`, `api_tokens` | redeem, Microsoft sign-in, logout, logout of all, the administrator's commands | check-then-set, first sign-ins that overlap, revocation during use |
| Token check (`app/security.py`) | `api_tokens.last_used_at` | `current_token`, in front of every other endpoint | writes the token's row while it may be revoked |
| Images (`app/routers/images.py`, `app/storage.py`) | `images`; files named by digest; cached derivatives | HEAD, POST, content, master | no transaction spans rows and files |
| Backup (`deploy/backup.sh`) | dumps and copied blobs | one run; a restore | two halves, three transfers, uploads meanwhile |
| Database sessions (`app/db.py`, `app/models.py`) | what a request has loaded | SELECT, flush, commit, close | READ COMMITTED, row locks, unique constraints |
| Rate limiter (`app/ratelimit.py`) | one sliding window for all, a table of windows by caller, in memory | `check`, in front of the two endpoints that need no token | threads without a lock, a table swept at its limit, times in whole seconds |
| Legacy import (`scripts/import_legacy.py`), coordinates (`app/coords.py`) | the rows it makes; the sequence of ids | passes over the old database, beside the API | a pass that dies, ids given out twice, boxes that land elsewhere |
| Microsoft token verification, request size limit, students, start-up and health check, configuration, migrations | | | not modelled, see section 7 |

The parts meet in the database. Every endpoint is a synchronous function: it
runs on a thread of its own, with a `Session` of its own, and its SQL statements
interleave with those of every other request. Authenticated requests begin with
the token check. A template page and a graded answer point to an image; an
upload points to a template that must not be deleted. Phones and the labeller
call the API and are known only through it.

Correctness, part by part:

- templates: no save silently overwrites another one; a revision names one
  content; a deleted template stays deleted; pages are replaced as a whole;
  waits end;
- sync: no change and no deletion is skipped;
- grading sessions: what the server has acknowledged is what it stores; a record
  keeps its owner; a correction keeps its time; counts and answers agree; the
  phone comes to an end with every paper;
- accounts: an invite yields one token; a revoked token and a disabled teacher
  are locked out for good; a person is one teacher; leavers are stopped;
- images and backup: a row has all of its bytes, always, in the store and in
  what a backup keeps; one image has one id;
- rate limiter: the work let through is bounded however threads interleave; a
  caller is never granted more by what it writes into a header; who waits as
  long as it was told gets in; the table is bounded;
- legacy import: boxes land where they were; nothing or everything is imported;
  no template takes the place of another; ids go on past the imported ones.

## 2. How the database is modelled

The modules share one view of SQLAlchemy and PostgreSQL, on which the order of
the actions rests:

- READ COMMITTED: a SELECT sees what is committed when it runs. Two SELECTs of
  one handler (a row, then its children by `selectinload`) are two actions.
- `SessionLocal` has `autoflush=False` and `expire_on_commit=False`, and a
  session keeps what it has loaded in its identity map: the `_get_or_404` after
  a commit returns the session's own view (`Answer` in `ExamTemplates`).
- An ORM UPDATE sets only the columns whose value differs from the loaded one,
  by primary key. So a PATCH that overlaps a DELETE leaves `deleted_at` alone
  (`Updated`), and a count equal to the loaded one is not written (`StoredRow`).
- A flush updates the parent row first, then deletes and inserts its children;
  deleting a child that is gone is not an error, updating a parent that is gone
  is (`FlushFails`).
- `onupdate=utcnow` is called when the UPDATE is issued, before it waits for the
  row lock (`Stamp`).
- A row another transaction has changed is waited for. Of a circle of waiting
  transactions PostgreSQL fails one (`DeadlockVictim`); the one that waited
  then has its lock.
- An INSERT that meets a unique key which another transaction has deleted, but not
  committed, waits for it. Here that transaction always needs, next, the row of the
  template or session that the inserting one has locked by then: a deadlock, of
  which the INSERT comes out failed whichever of the two is the victim. So it fails
  at once in the model (`PageConflict`, `AnswerConflict`).
- A violated unique constraint is caught nowhere but in `students.py`: the
  request ends in 500 and its transaction is rolled back.
- `get_db` closes the session however a request ends.

Statements whose order no property can tell apart are one action: what follows
the last wait of a handler and its commit, a SELECT of rows that do not change,
a request that is refused by its first check.

Data are reduced to their origin: a stored name, page or answer carries the
number of the request that wrote it, so that two values are equal exactly when
one write produced both. Histories are not kept as lists; the few history
components (`good` and `had` of a request in `Accounts`, `complete` of a backup)
say so where they are declared.

## 3. The modules

**ExamTemplates** (`templates.py`, `models.py`, `db.py`). Variables: `row` and
`pages` (the committed tables), `tx` (the handler each editor's request is in,
with its session), `held` (the copy an editor works from, from a GET or the
answer to a save), `clock`, `requests`. PATCH is `UpdateTemplate` (the SELECT of
the row), `CheckIfMatch` or `PreconditionFailed` (the SELECT of the pages, the
check), `FlushRow` and `DeletePages` (the flush in `_apply_pages`), `Stamp` and
`CommitUpdate` or `PageIndexTaken` (the flush of the commit). DELETE and POST
are shorter; GET is `GetTemplate`, `AnswerGet`. `DeadlockVictim` and `Abandon`
are the endings no handler chooses. The constant `Overlap` says whether write
handlers may overlap, as they do in the thread pool; reads always overlap.

**TemplateRegister** is the abstract specification: a template is one register,
read and written in one step, whose revision grows by one with every write; a
checked save happens only if its editor holds what the register holds; a copy
overtaken by a write carries an older revision. `ExamTemplates` maps `row` and
`pages` to `register`, `held` to `copy`, and the PATCHes under way to `asked`.

**TemplateSync** EXTENDS `ExamTemplates` with phones that poll: `cursor` and
`local`. `ListTemplates` is the one SELECT with its filter, order and limit, and
what the phone does with the answer.

**GradingSessions** (`sessions.py`). One paper, since papers do not interact:
`session` and `answers` are its rows, `call` the calls under way, `phone` the
device. A call is queued, handled and answered; the phone waits for one call at
a time and may give up on it. `orderly`, chosen at the start, says whether a call
the phone has given up on may still run. PUT is `SelectSession` or `PutRefused`,
`SelectAnswers`, `Flush` or `FlushFails`, `DeleteAnswers`, `CommitPut` or
`PutConflicts`; DELETE is `DeleteNotFound` or `DeleteSelects`, `CommitDelete`.
The phone's actions are external: they are how the API is meant to be used.

**PaperRecord** is the abstract specification for a phone that is patient, whose
calls are over when it makes the next one. A paper has one record with an owner,
a version, a count and one cell for each question; a call is carried out in one
step: a PUT replaces the record as a whole but for the times of corrections that
stand, a DELETE removes it, and a call that is refused or fails leaves it alone.
Only whether a call that failed was carried out does the phone not know.
`GradingSessions` maps `session` and `answers` to `record` (`RecordNow`), the call
the phone waits for to `asked`, and the phone to `paper` and `acked`; `orderly` is
`patient`.

**Accounts** (`auth.py`, `security.py`, `cli.py`). The rows of `teachers`,
`invite_codes` and `api_tokens`, and the threads and administrator's processes
(`request`). A commit that issues a token is one action with the UPDATE before
it. Expiry is a fact that comes true some time (`ExpireToken`), for the tokens
of sign-ins only. Microsoft's part is that the directory gives an identity to
its `members` and never gives an address to somebody else.

**ImageStore** (`images.py`, `storage.py`, `master_image`). Rows, files and
clients. A file is absent, partial or whole, and readers see which.
`_atomic_write` is `Written` (the temporary file) and `Replaced` (the rename).

**Backup** (`backup.sh`) EXTENDS `ImageStore`: a run is a dump, an archive and an
rsync, each of which may break, while clients go on. `Restore` is what an
operator does with the result.

**RateLimiter** (`ratelimit.py`, `rate_limited` in `auth.py`). `all`, `keys` and
`hits` are the two kinds of window and the table; `check` is the call of each
thread with its local variables. `check` takes no lock, and a thread can be
interrupted after each call it makes, so the actions are `CheckOverall`, `Get`,
`Size`, `Sweep` (one key at a time), `Drop`, `Room`, `Insert`, `CheckOwn`,
`RecordOwn` and `Record`. One step is a little larger than the code's: `_trim` and
the `len` after it; a hit appended between the two counts as if it had come
before. Windows are objects, since a thread may hold one that a sweep has
dropped. The proxy's word for a sender's address is believed, a sender's is not
(`TrustAssumption`). Time is in ticks of a fraction of a second: `Retry-After` is in whole
seconds, and `int()` cuts off. `alone`, chosen at the start, says that checks do
not overlap; then they decide as one sliding window would. `served` records who
was admitted, for the properties.

**Coords** (`coords.py`) has the letterbox and the two conversions over exact
fractions: the floats of the code are what they approximate.

**LegacyImport** (`import_legacy.py`) is a process beside the API. A pass is
`Begin`, for each old row `SkipRow` or `LoadRow` and `WriteRow`, then `CommitPass`,
and `Nudge`, the second transaction that moves the sequence. `Dies` ends it
anywhere; a constraint that fails ends it too. The API is reduced to what it
does to whole templates (`ExamTemplates` has the detail): POST in two steps, the id
of the sequence and the commit, PATCH and DELETE in one. `readable`, chosen at the
start, are the old rows that are not skipped; `Mend` adds to them. `api` is chosen
too: in use at any time, or `waiting` until a pass has ended that had the last old
row, and `open` from then on, through later passes as well. `crossed` is a history
component: this POST was under way when a pass moved the sequence.

**MC…** modules give TLC its constants, and each component has a module of
**…Proofs** with its theorems; those of `ExamTemplates` that need writers to take
turns are in **SerialSavesProofs**, those of `ImageStore` with `Backup`'s.

## 4. The runs

All pass runs are exhaustive for their instances. Deadlock checking is off
throughout: the numbers of requests, failures and backups are bounded, and a
server may be idle.

| Run | Instance | Shows |
|---|---|---|
| `TemplatesSerial` | 2 editors, 2 templates, 1 page index, 1 phone, limit 2, 3 write requests, no overlap of writers | `NoSilentOverwrite`, `CurrentRevisionIsCurrentContent`, `NoChangeSkipped`, `TombstonesArrive`, and that `ExamTemplates` implements `TemplateRegister` |
| `TemplatesOverlap` | 2 editors, 1 template, 2 page indexes, 3 write requests, overlap | `TombstoneIsFinal`, `NoOldPageSurvives`, `PagesGoTogether`, `RequestsEnd` |
| `Uploads` | 2 teachers, 2 calls at once, 3 contents, 2 versions, 1 loss | `OrderlyRetryIsSafe`, `AnswersOfOneUpload`, `OwnerNeverChanges`, `CorrectionTimeKept`, `UploadsSettle`, and that `GradingSessions` implements `PaperRecord` |
| `Devices` | 1 teacher, 2 invites, 2 tokens, 2 requests, redemptions one at a time | `LockedOut`, `RevokedIsFinal`, `AllDevicesRevoked`, `InviteIsSingleUse`, `LeaversAreStopped` |
| `SignIns` | 1 person with 2 addresses, 2 teachers, 2 tokens, 2 requests | `SamePersonSameTeacher` and the unique keys (`TypeOK`) |
| `Images` | 1 image, 1 width, 3 clients, 1 failure, 2 backups | `RowsHaveBlobs`, `BackupsAreWhole`, `UploadsSucceed` |
| `Limiter` | 2 threads, 3 senders behind or beside a trusted proxy, limits 1 and 2, a window of 3 ticks of half a second, tables of 1 and 5, 4 ticks | `WorkBounded`, `SenderBounded`, `TableBounded`, `AloneIsExact`, `WaitOnce` |
| `LegacyImport` | 2 old exams with the ids 2 and 4, one of two pages and with an incomplete box, any of them unreadable at first, 2 clients, 2 passes, 1 edit | `BoxesInPlace`, `NoMixUp`, `NudgeIsEnough`, `WholePasses`, `CreatesGetThrough` |

And four runs in which TLC finds the code doing something other than its
documentation says:

| Run | Property | What happens |
|---|---|---|
| `LostUpdate` | `NoSilentOverwrite` | Two conditional saves of one template overlap; both pass the `If-Match` check (`templates.py:217`), the second discards the first under the same new revision. `models.py:229-231` promises that they cannot. |
| `SyncOverlap` | `NoChangeSkipped` | A save takes its `updated_at` first and commits last; a poll in between moves the cursor past it (`templates.py:150`). The comment above the line describes this loss and means to exclude it. |
| `LateUpload` | `RetryIsSafe` | A PUT the phone gave up on runs after its newer PUT or its DELETE and undoes it (`sessions.py:96`). The docstring has "retrying is always safe". |
| `InviteTwice` | `InviteIsSingleUse` | Two redemptions of one code overlap (`auth.py:64`); each gets a token. |

Each of these properties is also checked, or has a counterpart that is, in a
passing run without the overlap that breaks it, and is proved under that
condition, so it is known which assumption it needs.

### Bounds

- `MaxRequests` = 3 overlapping writers are a creation and two more writes: every
  hazard of templates.py listed is a race of two handlers over one template.
  Templates do not interact except in the listing, so the serial run, which has
  the phone, has two of them.
- Two page indexes let a save keep one page and drop the other.
- `MaxVersion` = 2 is an upload and what replaces it, a correction or a deletion;
  `MaxLosses` = 1 lets one call be abandoned and overlap its successor.
  `MaxAttempts` = 6 is never reached. The three contents share question 1, as
  the uploads of one paper do, and differ in mark and number of answers.
- One teacher in `Devices`: accounts do not interact there. Two in `SignIns`,
  where the danger is a second account for one person.
- One image in `Images`: whether its row has its file, and a dump its blob, does
  not depend on other images. Three clients: one inserts the row, one fails on
  it, one asks. Two backups: one that breaks off, or is complete, and one after
  it.
- Two threads of the limiter: every hazard listed there is a race of two. A table
  of one entry is swept at the second caller, one of five never. Four ticks are
  one more than the window, so that hits leave it. Six window objects are one for
  each caller and one more for each thread, which `LimiterAssumption` asks for.
- Two passes of the import: one that dies, skips a row or is complete, and one
  after it. Ids 1 and 3 are free among the old ones: there the sequence can be
  behind an id in use, and a count of the rows is not their largest id. Either
  exam may be skipped by the first pass and mended for the second while the API
  is in use.

### Fairness

`FairSpec` of each module asks for weak fairness of the steps of a handler that
has started: its thread is scheduled, and the database grants a lock that is
free and breaks deadlocks. It does not ask that a request be made, except where
the property is about a client that goes on: phones poll (`SyncFairSpec`) and
retry while they are on (`Send` in `GradingSessions`). In `Accounts` a token that
can expire expires. The import goes on or dies, and a client whose POST has
collided tries again (`LegacyImport`). Nothing asks that a backup or a failure
happen, and the limiter, whose calls wait for nothing, has no liveness property.

## 5. What is proved

`ExamTemplatesProofs`, for any finite or infinite sets of templates, editors and
pages, with and without overlap:

- `TypeCorrect`: `Spec => []TypeOK`, with the timestamps below the clock, which
  is what makes the cursor of a phone meaningful. The inductive invariant is
  `TypeInv`: `TypeOK` and, for each handler, what it has loaded and where its
  kind can take it (`HandlerOK`). Without it the row a commit copies could be
  `None`.
- `DeletionIsFinal`: `Spec => TombstoneIsFinal`, from `TypeInv` and `CreateOK`
  (the key an INSERT is given has no row and is nobody else's), with a case for
  each commit: no UPDATE sets `deleted_at` but that of DELETE, and an INSERT
  never meets a row.
- `ReplacedWholesale`: `Spec => NoOldPageSurvives`, with overlap. `ReplaceInv` has
  two parts. `NumbersOK`: each write has a number of its own, and a stored or
  loaded page is of a request that is over, so that none of the pages a save
  inserts can be one it has loaded. `ClearedOK`: of the pages a PATCH has loaded,
  those still stored after its `DeletePages` are the ones it deletes; no other
  request can bring one of them back, because what others insert has their number.
- `PagesStayTogether`: `Spec => PagesGoTogether`, with overlap. `TogetherInv` says
  that what a PATCH has loaded, and what it has deleted of that, has with one page
  of a save all that are stored of it. It is so when the one SELECT of the pages
  runs; a commit in between adds only pages of its own number, of which by
  `NumbersOK` nobody has loaded any. A deletion by page number, instead of by
  primary key, breaks it.

`SerialSavesProofs`, for `~Overlap`:

- `RevisionIdentifiesContent`: `Spec => []CurrentRevisionIsCurrentContent`.
- `SerialSaves`: `Spec => NoSilentOverwrite`.

Neither is inductive. The strengthening `SerialInv` says that at most one
editor has a writer under way (`OneWriter`); that the row and pages a writer has
loaded are what is stored, because no other writer has committed since, and that
a conditional save past its check has loaded its editor's revision (`LoadedOK`);
and that the revision of a copy, or of the row a GET has loaded, is at most the
stored one, with equal content if it is equal (`CopyOK`, `LoadedOK`). A save raises the
revision, so every older copy falls behind it and the implication about current
copies holds for the one copy that the save hands out. `NoSilentOverwrite`
follows: a checked save that commits has the loaded revision, which is the
stored one, so its editor's copy is current.

- `HandlersImplementRegister`: `Spec => ImplementsRegister`, the refinement.
  `reg`, `cop` and `ask` are the images of the variables; a lemma for each
  statement that shows says which step of `TemplateRegister` it is
  (`AnswerOpens`, `UpdateAsks`, `UpdateSaves`, `DeleteDeletes`, `CreateCreates`,
  `ClosedRefuses`), and all other statements change none of the images
  (`Stutters`). It uses `SerialInv`, and `AliveOK`: a PATCH or DELETE has loaded
  a template that was not deleted.

`TemplateSyncProofs`, for any phones:

- `SyncTypeCorrect`: `SyncSpec => []SyncTypeOK`, with and without overlap. A
  cursor is the largest timestamp of a listing, which exists because timestamps
  are bounded by the clock.
- `NothingSkipped`: `SyncSpec => []NoChangeSkipped` for `~Overlap`, finitely many
  templates and a `Limit` that is no smaller than their number. Not inductive: the
  strengthening `PendingIsNewest` says that a handler about to commit carries a
  timestamp above every stored one and every cursor, which is where the turns
  come in; `PhoneInv`, that a phone without a cursor holds nothing, so that a cold
  start may leave tombstones out. `SyncOverlap` shows what happens without the
  first condition; a listing that is cut off skips the older changes.

`GradingSessionsProofs`, for any papers, teachers, calls and bounds:

- `SessionsTypeCorrect`: `Spec => []TypeOK`, from `TypeInv` (`CallOK`: what a call
  has loaded where it is).
- `OwnersStay`: `Spec => OwnerNeverChanges`. `LockInv` says that the one call that
  has the row's lock still finds the row it loaded.
- `CorrectionTimesKept`: `Spec => CorrectionTimeKept`, from `CleanInv`: answers, and
  copies of them, have one row for each question, and a cell without a mark no time.
- `AnswersComeFromOneUpload`: `Spec => []AnswersOfOneUpload`, if any two papers
  share a question (`PapersOverlap`). `UploadInv` says that the stored answers and
  every loaded copy of them are all of one upload's answers or none, and that two
  with a row in common are equal: an upload that has loaded others than are
  stored collides with them on the shared question.
- `OrderlyRetriesAreSafe`: `Spec => []OrderlyRetryIsSafe`. `OrderlyInv`: the phone
  waits for the one call there is (`Waited`), which works on what is stored, and
  whose answer tells what is stored (`Current`).
- `HandlersImplementRecord`: `Spec => ImplementsRecord`, the refinement. A PUT
  shows at its commit (`UploadMaps`): it has loaded what is stored, so its answers
  are the only ones it leaves, and each has the time that the record gives it
  (`TimesMap`, by `CleanInv`). A DELETE shows at its commit (`RemoveMaps`), an
  answer when it is made (`ReplyMaps`), and nothing else of a handler does
  (`SilentMaps`). It uses the four invariants above and `AskInv`: a call is over
  when it has an answer, and who deletes a row owns it.

`BackupProofs`, for `ImageStore` with `Backup`, any images, clients and bounds:

- `StoreTypeCorrect`: `Spec => []TypeOK`; `TypeInv` adds that tables and dumps have
  unique ids and digests and ids below their size (`Sound`), so that a new id is new.
- `NoRowWithoutItsBytes`: `Spec => []RowsHaveBlobs`. `BlobInv` adds that no blob is
  ever partial and that an upload gets to its SELECT and INSERT with its blob in
  place.
- `CompleteBackupsAreWhole`: `Spec => []BackupsAreWhole`. `DumpInv`: what a dump
  names is in the store when it is taken, stays there, and is in the archive and in
  the copy after it, because the dump comes first.

`RateLimiterProofs`, for any threads, senders, limits and windows:

- `LimiterTypeCorrect`: `Spec => []TypeOK`, with no window shared by two callers.
  `CallOK` says what a call has at each of its steps; that there is a window object
  left for `Insert` rests on their number in `LimiterAssumption`.
- `TableStaysBounded`: `Spec => []TableBounded`. Inductive with the calls that have
  found room and not yet taken it added to the table (`TableInv`).
- `WorkStaysBounded`: `Spec => []WorkBounded`. `WorkInv` counts the calls past the
  ceiling and not in its window yet, and says that the window still ends with all
  that was admitted in the last `Window` ticks: a trim by a late thread takes none
  of them.
- `SendersStayBounded`: `Spec => []SenderBounded`. `KeyInv` says that a call's key
  is who it comes from, which is where the forged headers are ruled out: it rests
  on `TrustAssumption`, that no sender is itself a trusted proxy. `AmpleInv` is for
  a table that is never swept: no call loses its window (`NoneDropped`); what
  was let through of a caller, with what is about to be, is in its window for as
  long as it counts (`NoneForgotten`), said of every moment from the clock on,
  since only then does it survive a trim and a tick; and the window is too
  long by no more than the threads that have passed its check (`NoneOverfull`).
- `AloneStaysExact`: `Spec => []AloneIsExact`, and `OneWaitIsEnough`:
  `Spec => []WaitOnce`, both from `AloneInv`, whose parts for `alone` are: `CountInv`,
  the reverse of `NoneForgotten`, that nothing is counted twice or for nobody;
  `OrderInv`, that there is one call, in one instant, that hits are in the order
  of time, and that what the call has seen of the table is still so, hence no
  KeyError; `FillInv`, that no window is longer than its limit, and that a caller's
  window whose first hit is due to go misses nothing, even if a sweep dropped an
  earlier window of that caller; and `OutcomeInv`, what a refusal or an admission means until
  it is answered. For `WaitOnce` the lemma `RetryWaits` is the integer division:
  `int(x) + 1` seconds are more than `x`, so the first hit has left.

`LegacyImportProofs`, for any old rows, clients and bounds:

- `BoxesRoundTrip`: for every image and every box in whole canvas units the two
  conversions of `Coords` are inverse.
- `BoxesStayInPlace`: `Spec => []BoxesInPlace`, from it and `BoxInv` (boxes are the
  converted ones of the old row of that id, or the API's).
- `NoTemplateTakenForAnother`: `Spec => []NoMixUp`, and `SequenceIsPastTheIds`:
  `Spec => []NudgeIsEnough`. The first is about an API that waits for a pass that
  had the last old row: `WaitInv` says that until then no POST is under way, that from
  then on the last old row stays, and the sequence, which a pass may move back but
  never behind it, with every POST is past it, and that a template under an old id is
  the import's. So the id of a row that was skipped is still free when it is mended. For the
  second, which needs no condition, `SequenceInv` says that after `Nudge` every id
  in use or on its way has been given out, but those of POSTs that `crossed` it.
- `ImportTypeCorrect`: `Spec => []ImportTypeOK`, with its bound on `sequence`, which
  a pass may move back so that ids are given out again. `HeldInv`: the ids past the
  old ones that were ever given out are held without a gap, each by a client of its
  own, so there are no more of them than clients.
- `PassesAreWhole`: `Spec => WholePasses`, from `PassInv`: a pass has every readable
  row before it or has written it.

`AccountsProofs`, for any sets of teachers, people, addresses, invites, tokens
and requests; `TypeInv` has the types, the unique keys of teachers, the foreign
keys of invites and tokens, and what a request has loaded when it gets where it
is. A request that does not move keeps what it has loaded because no row vanishes
(`RowsStay`); with that there is one lemma for each action.

- `AccountsTypeCorrect`: `Spec => []TypeOK`, which has the unique keys.
- `RevokedStaysRevoked`: `Spec => RevokedIsFinal`. `StepTokens` says of every step
  that a device stays, stays whose it is, and stays revoked.
- `CutOffIsRefused`: `Spec => []LockedOut`. Not inductive: the check reads the
  token, and the teacher in another statement. `DeviceInv` adds that a request in
  between that was not good when it came has a disabled teacher, and teachers are
  not enabled again (`StepTeachers`), so the second statement refuses it.
- `EveryDeviceRevoked`: `Spec => AllDevicesRevoked`, also from `DeviceInv`: what
  the account had when the request came it still has when the tokens are loaded.
- `SingleUse`: `RedeemAlone => (Spec => []InviteIsSingleUse)`. `InviteInv` says
  that a code with a token is redeemed, and that the code of the one request that
  redeems is not. `InviteTwice` shows that the condition is needed.
- `OnePersonOneTeacher`: `Spec => []SamePersonSameTeacher`. `PersonInv` says that
  a person's device is on the teacher with the person's object id, that the
  address of a teacher who has one is that person's, and that a sign-in which has
  found a teacher but not yet committed still has that person's row, or an
  unclaimed one with the person's address. Overlapping first sign-ins can only
  claim the row for its address's owner (`OidsKept`), and the unique keys do the
  rest. It rests on the directory: two people never have one address (`Owner`).

The proofs assume the named assumptions on the constants in each module (bounds
and keys are numbers, sets that are counted are finite, `None` is no key, row,
view or register), which TLC evaluates in every run of the module, and the
conditions stated in the theorems. They use SMT, Zenon and, for the temporal
steps, PTL.

Every safety invariant and every action property of the passing runs is a theorem,
under the condition that the run has. Model-checked only is liveness
(`RequestsEnd`, `TombstonesArrive`, `UploadsSettle`, `LeaversAreStopped`,
`UploadsSucceed`, `CreatesGetThrough`), which is out of the prover's reach.

## 6. Other disagreements met while modelling

These have no run of their own.

- `updated_by` is not written when it equals the value loaded, so after two
  overlapping saves it can name the editor who saved first (`templates.py:234`).
- Overlapping PATCHes with disjoint page indexes leave the pages of both
  (`templates.py:80-92` says "wholesale"); `NoOldPageSurvives` states what does
  hold.
- An empty or disjoint upload that overlaps another one leaves the answers of
  both (`sessions.py:104-111`): `PapersOverlap` in section 5 is what it takes.
- A PUT that reads the row before, and the answers after, another one commits does
  not write a count that equals the one it has loaded, which is then the other
  upload's (`sessions.py:104-107`).
- The PATCH of a page list that names an index twice ends in 500: only
  `TemplateCreate` has the validator (`schemas.py:136`, `schemas.py:143-147`).
- A listing filtered by grade or subject never tells of a template that has left
  the filter (`templates.py:141-143`).
- A code whose answer is lost is used up and its token known to nobody
  (`auth.py:88`); an administrator has to make another.
- Two sweeps that overlap can meet keys the other has deleted, or a table that
  changes under the iteration: KeyError or RuntimeError, and 500 where the
  docstring of `check` has "records one request, or raises 429"
  (`ratelimit.py:65-70`). `Retry-After` speaks for the limit that refused only;
  after it the other one can refuse.
- The import's second pass replaces the pages of a template that was edited since,
  where the test calls it "a no-op, not a mess" (`test_import_legacy.py:174`).
- The docstring of the import has "Safe to re-run" (`import_legacy.py:4-5`). If the
  first pass skips the *last* old row, `setval` leaves its id to be given out, a
  teacher's new template takes it, and when the row is mended and the import run
  again, `db.get` finds that template and its pages are replaced by the old exam's
  (`import_legacy.py:121`, `import_legacy.py:134-136`). TLC shows it in 15 steps
  when `NoMixUp` is asked of an API that is opened after any pass. The same happens
  if the API is used before the first pass. A skipped row below the last one is in
  no danger.
- `setval` can move the sequence back while a POST under a later id has not
  committed (`import_legacy.py:167-177`); a POST given that id again collides and is tried
  again with the next.
- A sign-in that overlaps `logout/all` and commits after the tokens were listed
  leaves a live device, where the docstring has "Every device on the account"
  (`auth.py:208`). `AllDevicesRevoked` promises the devices that the account had
  when the request came. After `disable` such a token is refused (`LockedOut`).
- A box that reaches further out of the page than the API allows is imported
  (`import_legacy.py:149`) and cannot be saved again by a PATCH.
- Of a backup that breaks after its dump has its name, the newest dump has no
  blobs until the next complete run (`backup.sh:41-61`).
- HEAD says that an image is there though its blob is lost (`images.py:88`), so a
  client never uploads it again.
- After a restore, image ids are given out again, which the `immutable` caching
  of `/images/{id}/content` does not expect (`images.py:164-176`).
- `KeyStore` is built for each request (`auth.py:114`), so its limit on refreshes
  (`auth_microsoft.py:88-94`) never takes effect.
- The legacy import rewrites the pages of an existing template without touching
  `revision` or `updated_at` (`import_legacy.py:134-136`; `models.py:229` says
  "bumped on every mutation").
- The export of corrections has cells whose `teacher_value` is empty
  (`sessions.py:119` takes them for uncorrected, `sessions.py:270` does not).

## 7. Not modelled, and the plan

Not modelled because nothing in them is for a model checker:

- Microsoft token verification: the object that fetches the keys is made for each
  request, so requests share nothing, and the rest is a library call and a few
  comparisons. `Accounts` starts from a verified identity.
- The request size limit: one count along one request. A body that turns out too
  large is raised while it is read, before the application has begun to answer.
- Students: four handlers of one statement each. Configuration, wiring, start-up,
  health check and notification, and the migrations, whose result is the schema.
- Of the components that are modelled: the reads of grading sessions, who may read
  an image, roles other than that an editor has the right one, the filters of the
  listing, the dry run and the guesses of column values of the import.

Order of work:

1. *Done*: templates, sync, grading sessions, accounts, images, backup, rate
   limiter, legacy import and coordinates; the refinements of the templates to a
   register and of a paper to a record; the safety of every module proved.
2. Refinement for the other components: an account as the set of its live tokens,
   for `Accounts`.
3. Roles in `Accounts` (`set-role` while a request passes `require_admin`).
