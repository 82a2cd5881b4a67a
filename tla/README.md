# TeleCollection in TLA+

TeleCollection is a Go daemon that turns a Telegram account into a drive: a
folder is a broadcast channel marked `[TC]`, a file is a message with a
document, and a SQL database caches the metadata.  These modules model the
parts of it that are concurrent, stateful and hard to test: the login state
machine, the drive service over its metadata index, the transfers with their
retries, the session file, and the marker in folder titles.

## 1. Inventory

| Component | State it keeps | Operations | Hard behaviour |
|---|---|---|---|
| Login flow, `internal/telegram/auth/flow.go` | `Flow`: `state`, `inProgress`, `gen`, `cancel`, `auth`, `done`, under `mu`; per attempt the channels `codeReq`, `codeCh`, `passReq`, `passCh`, `urlCh`, `done` | `StartLogin`, `SubmitCode`, `SubmitPassword`, `StartQR`, `Status`, `Logout`; the goroutine's `transition` and `finishAttempt` | HTTP requests and login goroutines meet on channels; preemption, client disconnects, superseded goroutines, gotd's non-reentrant `Run` |
| Login endpoints, `internal/httpapi/auth_routes.go` | none | one handler per method | the handler of `/auth/start` reads `Status` in a second critical section |
| Drive service, `internal/drive/drive.go` | none of its own | folder and file methods, `ensureFolder`, `reindexRenamedFile`, `reindexMovedFile` | Telegram calls and index statements with no transaction across them |
| Index and store, `internal/index`, `internal/store/sqlite` (and `postgres`) | tables `folders`, `files`, `chunk_manifests` | upserts by unique key, scans, delete by primary key | concurrent get-or-create; scan, then delete by key |
| Telegram operations, `internal/telegram/{folders,fileops,upload,dialogs}` | none; the account is external | create, rename, delete a folder; upload, rename, delete, move a file | a move is a forward and a delete |
| Drive endpoints, `internal/httpapi/drive_routes.go` | none | one handler per method | a streamed download that fails half way |
| Transfer, retry, download, `internal/transfer`, `internal/telegram/{retry,download}` | progress and byte counters | retried upload and download | retry of a half-consumed stream, backoff arithmetic |
| Client wrapper, `internal/telegram/client` | gotd client | flood-wait middleware | bounded retries |
| Session store, `internal/telegram/session`, `internal/crypto` | an encrypted file | load, atomic store | crash between two file operations |
| Folder titles, `dialogs.DisplayName`, `folders.FolderName` | none | add and strip the marker | case folding changes byte lengths |
| Router, API key, configuration, migrations, main | none | start-up and stateless checks | none |

How they interact: a handler calls `auth.Service` or `drive.Service` in the
request's own goroutine.  `Flow` launches one goroutine per login attempt,
which outlives the request and runs gotd's blocking login; request and
goroutine talk over channels, and `Flow`'s fields are guarded by one mutex.
`drive` runs every Telegram operation in `Conn.WithAPI` and then updates the
index through `store.Store`.  Telegram is the source of truth, the index a
cache that survives restarts.  In this version of the repository `main` mounts
neither service yet, so both are modelled from their contracts: several HTTP
requests at once, any of which may be cut off.

What makes the parts correct:

* login: the published state follows the real flow whatever is preempted or cut
  off; a superseded goroutine changes nothing; a submitted code never meets a nil
  authenticator or the channel of another attempt; no two runs overlap; no
  goroutine leaks; every request is answered (but for findings 2 and 3);
* drive: one row per channel and per message whatever interleaves; a prune
  removes the row it is meant to remove; a move never loses a file; a deleted file is
  not listed again; drift between index and account is reported to the client
  that caused it;
* transfer: a document that is posted is the whole file and is posted once; a
  download reported complete is complete (but for finding 9); no call begins after
  the client has left; every transfer ends;
* session: whatever stores overlap, fail or crash, the file is an atomic register, and
  no single failure leaves a copy of the session behind;
* titles: every title made is found again; the marker is stripped from every name
  and added once (but for findings 6 to 8).

## 2. Modules

| Module | What it is |
|---|---|
| `LoginLifecycle` | the abstract specification of the login: one state, at most one attempt |
| `AuthFlow` | `flow.go` and `auth_routes.go` in full, and the inductive invariant |
| `AuthFlowProofs` | theorems about `AuthFlow`: the state, the attempts and the refinement |
| `AuthFlowOrderProofs` | more of them: in which order answers are given and attempts run |
| `MCAuthFlow` | symmetry and the ordered requests of the liveness runs |
| `FolderTitle` | the marker algorithm of `dialogs` and `folders` on the bytes of a title, and facts about every title up to a length |
| `FolderTitleProofs` | theorems about `FolderTitle`: the same facts for titles of any length |
| `Drive` | `drive.go` over the index, the SQLite or PostgreSQL store and the Telegram RPCs; extends `FolderTitle` |
| `DriveProofs` | theorems about `Drive`: what holds however requests interleave |
| `DriveSequentialProofs` | more of them: what holds if calls do not overlap |
| `DriveTitleProofs` | more of them: the titles and names of folders; extends `FolderTitleProofs` |
| `MCDrive` | symmetry, folder names and titles |
| `Transfer` | one upload or download: `transfer`, `retry`, the flood-wait middleware, `download.File`, the end of `upload.File`, the response |
| `TransferProofs` | theorems about `Transfer` |
| `AtomicSession` | the abstract specification of the session store: a register |
| `SessionStore` | `session.go`, one action per file-system call, over a file system that may lose power |
| `SessionStoreProofs` | theorems about `SessionStore` |
| `MCSessionStore` | symmetry |

Definitions whose names begin with `Bug_` are seeded faults: variants of the
definition that follows them, with a plausible bug, used to show that each property
can fail.  No specification refers to them.

### AuthFlow

* A *request* is one HTTP call.  Its `pc` is the select it is blocked in, `att`
  the attempt whose authenticator (or `gen`) it copied under `mu`, `chan` the
  attempt whose `done` channel it copied, `answer` what the handler wrote.
* An *attempt* is the goroutine `StartLogin` / `StartQR` launches, identified by
  its generation number, which also stands for the cancel func, authenticator
  and channels created with it.  `run` says where it is inside `RunAuth` / `RunQR`
  or after it.
* Each critical section under `mu` is one action, and so is each channel
  operation.  A handover on the unbuffered `codeCh` / `passCh` is a joint step of
  request and attempt (`Deliver`); `done` and `urlCh` are one-place buffers;
  `codeReq` / `passReq` are closed once.  `onCode(); close(codeReq)` is two actions,
  as are `finishAttempt(gen, err); done <- err`, since requests act in between.
* `resetLocked` is `ResetLocked`; `StartLogin` and `StartQR` make it a part of
  `Begin`, since the code registers the new attempt in the same critical section.
* gotd is external: `RunSucceeds`, `RunFails`, `ScanSucceeds`,
  `RefreshToken` and `ConnectionLost` are what it can do between two callbacks.
  `Unwind` is a blocked callback noticing its cancelled context; a run in the
  middle of an RPC may still succeed after it was cancelled.

### Drive

* A *request* is one call of `drive.Service`, one action per RPC or SQL
  statement.  The two reads after an upsert in SQLite (id by key, row by id) are one
  action: both fail alike if the row is gone.
* `dialect` is the database.  PostgreSQL's upserts return the row, so there
  is no `ReadBack`, and take an id from the sequence even when the row exists
  (`Conflict`).  Everything else is the same statement in both.
* Telegram is a set of messages per channel.  Ids grow per channel.  Deleting a
  message that is gone succeeds, editing or forwarding one fails.
* `Fail` stops a request in `MayFail` at any step: a failing RPC or statement, a
  cancelled context, a crash of the daemon.  `FailAfter` is a statement that took effect
  and is reported as failed.  Both stores survive a crash; a
  restart has no step of its own, since the service keeps nothing in memory.
* A folder is addressed by its channel.  The title the client sends along is not checked:
  it may be that of any folder or, in `SentTitles`, one that this program did not make, and
  `InsertFolder` writes the name of any.
* A name or title is a sequence of bytes, made by `FolderTitle`.  To compute one may
  panic (`PanicOnName`, the last branch of `InsertFolder`); net/http then drops the
  request, and what it did before stays.  Should the `Conn` of a later phase run
  the function in a goroutine of its own, the panic ends the daemon and with it the other
  requests, each of which `Fail` can stop as well.
* Not in the model: sizes, MIME types, creation times, accounts (the code
  uses one), chunk manifests (nothing writes them).

### FolderTitle

Go strings are bytes and `strings.ToLower` may change their number, so
titles are sequences of bytes, written with six symbols: the two halves of the
marker, a space, a letter, a letter that grows in lower case (U+023A) and one that
shrinks (U+0130).  A cut may leave half a letter; `LowerAt` puts for it what Go does, the
three bytes of U+FFFD.  `Cut` is one turn of `DisplayName`'s loop; `panics` is a slice index
past the end.  `EveryNameIsMarked` is evaluated over every name of up to `MaxTitle` symbols
as a part of `FoldersListed`.

What else `DisplayName` and `FolderName` promise does not hold of every title.  A letter that
changes its width before a marker shifts the cut (finding 6); of a marker nested in a marker,
`[T[TC]C]`, one pass makes a new marker (findings 7 and 8).  A name with neither is
*ordinary* (`Ordinary`), and of ordinary ones the promises are proved.

### Transfer

* A file is the sequence of its parts; a part takes one RPC.  `pc`
  is the loop or select the transfer is in: Do's backoff, the middleware's wait, the RPC, the
  stream, gotd's wait between two requests for one part.
* There are three retry layers.  `Invoke` and `Reply` are one turn of the middleware's loop;
  gotd's uploader or downloader may ask for a failed part again, as often as it likes
  (`PartFailed`, `PartWait`); `AttemptFailed` is what Do does with an error.  Only the parts
  are under gotd and Do; the fetch of the message and the final send are under the middleware
  alone.  gotd is taken to have one part under way at a time, and in order.
* A check of the context and the call it guards are two steps (`Invoke` and `Reply`, `Read`
  and `ReadPart`, `Write` and `WritePart`), and the client may disconnect in between: the
  call then still ends, and a document may still be posted.
* The reader of an upload is at its start when it is handed over: `drive_routes.go` passes
  the file of a multipart form that nobody has read.
* Jitter is not modelled: no caller uses it.  `Width` bits stand for the 64 of a
  Duration.
* `UnrepeatedIsWhole` is what the length check of `download.File` gives; with a second attempt
  it is not enough (finding 9).  A failed rewind is retried by Do like any other error,
  although the comment of `reset` says that the caller aborts; no partial body results from it.

### SessionStore

* A *process* is a call of `StoreSession` or `LoadSession`, one action per
  file-system call; any of them may fail, the deferred removal included, whose error the
  code ignores (`refused` are the files of failed removals).  Writes are not split: nobody reads
  a temporary file, and one not written whole is `"torn"`.
* The file system is external.  Contents survive a power failure once synced; names
  do once the file system has flushed the directory, at a time of its own, since the code
  does not sync the directory: a power failure may go back to the session before the
  last one, as `AtomicSession` says.
* Temporary names are taken to be fresh.  If the random name of a finished store were
  given to another one, the deferred removal could take the wrong file.
* Files left behind are never swept.  `LeakNeedsTwoFailures` says when there are any: after a
  crash, or when a call of a store fails and the removal of its file fails as well.

## 3. Runs

| Run | Bounds | Question |
|---|---|---|
| `login_safety` | 3 requests in flight, all endpoints, all may be cut off, 6 generations | every safety property, the inductive invariant `FullInv`, the refinement of `LoginLifecycle` |
| `login_liveness` | 3 requests, one after another, all endpoints, two may be cut off | `EveryOtherRequestReturns` for a client that calls one at a time, `NoGoroutineLeak` |
| `login_logout_reenters` | 3 requests, one after another | violated: finding 1 |
| `login_qr_hangs` | 2 requests in flight | violated: finding 2 |
| `login_code_retry_hangs` | 3 requests, the second cut off | violated: finding 3 |
| `drive_concurrent` | 3 requests in flight on the file methods, `ListFiles` and `DeleteFolder`, 2 folders with a file each, one of them not in the index, both databases | index well formed, prunes hit their own row, `NoFileLost`, the inductive invariant |
| `drive_sequential` | 3 requests, one after another, all ten methods, all may stop, both databases, 4 folder names, a title of the client's own, names of up to 5 symbols | drift is reported, deleted files are not served, folders are recognised by their titles and indexed under their names |
| `drive_overlapping_deletes` | 3 requests in flight on one file | violated: findings 4, 5 |
| `drive_folder_title` | 2 requests, one after another | violated: findings 6 to 8 |
| `transfer` | files of 0 to 3 parts, 3 attempts, 3 flood retries, waits of 1 and 40, 7 bits | what is posted is the file, and so is what is accepted at the first attempt; the inductive invariant; every transfer ends |
| `transfer_masked_download` | downloads of 0 to 2 parts | violated: finding 9 |
| `session` | 2 stores and a load, repeated, 2 sessions, 4 files | `NeverTorn`, `LeakNeedsTwoFailures`, the inductive invariant, the refinement of `AtomicSession` |

Why the bounds are enough.  Login: three requests let one attempt be preempted
while a second request is in a select on its channels and a third one acts; every
request makes at most two generations (its own and its abandon), so 6 is no
bound at all for three of them, and `ResetLocked`'s guard `gen < MaxGen` never
blocks.  The runs where no request may be cut off need three.  In `login_liveness` two
requests may be cut off, so that a login is begun, a code of it is submitted, and a third
request meets what both have left behind.  It may then be left waiting in one way only, that of
finding 3, which `EveryOtherRequestReturns` names (`CodeUnread`); what follows the
cut-off of the last of three is what follows that of the second of two.  Drive: a race on a row needs the
request that read it, the one that removes it and one that creates another; a
folder that exists on Telegram and not in the index (the index is disposable) makes
requests race to insert it.  Requests
are used once, so their number also bounds messages and rows, and `TypeOK` states no bound on
them.  `MayFail` is empty in `drive_concurrent`: its properties are safety
properties of what is in the index and on Telegram, and a request that fails at a
step leaves there what one leaves that takes no further step, which any request may
do; with as many places in flight as requests, returning lets nobody else in.  What a
failure tells the client is a question of `drive_sequential`, where every step may
fail.  Five symbols hold a
marker with a symbol on either side and one nested in another, and two markers.  The names of
`drive_sequential` are a plain one, the marker, and two that panic, when the title is read
and when it is made, and the client sends along a title that nests a marker in a marker;
names that do so, or that shrink, are left to `drive_folder_title`, since `NamedAsGiven` fails
of them.  `DeletePromises` and `TitlePromises` are disjunctions of what the code's comments
promise: a trace that violates one breaks each of the promises in it.  Transfer: the
limits are the code's own (`transferPolicy`, `defaultFloodRetries`); three parts give a
first, a middle and a last one, and an attempt can fail after each.  7 bits leave room for
every base and every maximum up to a quarter of the range, with more doublings than
there are bits; the code's maximum of 30 s is far below.  Session: two stores hold a file each, the path and the disk
one each, so four files are what can be referred to at once.  Symmetry is used in
the runs without liveness only; the liveness runs number the requests and issue
them in order.  `CHECK_DEADLOCK FALSE` is set everywhere because a run ends when
its requests are used up; the login runs may also stop in a state where every request
waits for the user.

Fairness of the login (`FairSpec`, and `OrderedFairSpec` for ordered requests): weak fairness
of every request's and every attempt's own steps.  Go schedules runnable goroutines
and a select with a ready case proceeds; gotd ends every RPC it has begun, because
it times out, and a blocked callback whose context is cancelled returns.  Nothing
is assumed of users: no code, password, scan, disconnect or further request ever
has to come.

Fairness of `Transfer`: weak fairness of `Step`, and strong fairness of `PartSettled`.  A timer
that is set fires, an RPC is answered or fails (gotd times out), and the goroutine runs; nobody
has to disconnect.  How often gotd asks for a part again is not limited by this code, and
`EveryTransferEnds` is violated without the second conjunct: that a part asked for again and
again is in the end taken, given out or given up is an assumption about gotd and Telegram,
not a fact of this repository.  Given that, termination rests on the limits of
Do and of the middleware.

## 4. Proofs

The theorems hold for every value of the constants that the named assumption of the
module (`AuthFlowAssumption`, `DriveAssumption`, `FolderTitleAssumption`,
`TransferAssumption`, `SessionStoreAssumption`) allows.  Some theorems about `Drive` assume
besides that calls do not overlap, or that folders have ordinary names and titles; they say so,
and nothing else is assumed.  The proofs about a state machine have one shape: an invariant
`Inv` that every step preserves, shown action by action, of which
the safety properties are consequences, and which action properties and refinements
use in the state before the step.  TLC checks the same `Inv` in a run of each
module; of `SeqInv`, `NamesInv` and `CreateInv`, below, it checks the properties that
follow from them.

### AuthFlow

For any set of requests, any endpoints, any set of requests that may be cut off, any
number of them in flight and any bound on generations.

`Inv` is the types and four parts.  `HandlesInv`: `Flow`'s cancel func,
authenticator and `done` are those of the current generation while a login is in
progress and cleared otherwise.  `AttemptInv`: what an attempt's position says of its
kind, error and channels, and that an attempt `Flow` does not track is cancelled.
`StateInv`: what the published state says of the current attempt.  `RequestInv`: what
requests hold exists, and an attempt still waiting to be launched belongs to one
request.  The safety properties are not inductive by themselves: that a superseded
goroutine leaves the state alone needs `cancel`, `auth` and `done` to move together
with `gen`, and that `wait_code` implies a live authenticator needs to know where
the goroutine is.  From `Inv` follow `TypeCorrect`, `LiveHandleAlways`,
`StateFollowsFlowAlways`, `OnlyCurrentRunsFreeAlways`, `LoggedInEarnedAlways`, the
action properties `SupersededWritesIgnoredAlways` and `SoleWriterAlways`, and
`LifecycleImplemented`: `AuthFlow` implements `LoginLifecycle` with `live` the kind of
the attempt in progress.

`FullInv` adds what the order of events rests on (`AuthFlowOrderProofs`).

* `AskInv`: `codeReq` and `passReq` are closed by an attempt that has published the
  state first.  `AnswerInv`: the answer a request got, and the one it is about to get,
  agree with the attempt it holds, for as long as that is the current one.  The two give
  `AnswersPublishedStateAlways`.  The property alone says nothing of a request
  that has received from `done` or seen `codeReq` closed and has not answered yet.
* `PreemptionInv`: while nobody has logged out or was cut off, whatever was launched
  finds every earlier attempt past its run (`OneAfterAnother`), and a `StartQR` in front of
  `prevDone` waits for the attempt just before its own.  With three `StartQR` in a row that
  is not obvious: each waits for its predecessor only, and the middle one may be
  launched although it was preempted before it ran.  It gives `PreemptionWaitsAlways`.
  Without the condition it is false: finding 1.

### Drive

For any number of requests in flight, channels, files and names, for all methods,
either database, and any set of requests that may fail.  `DriveAssumption` asks
for a name of a file, and for a name of a folder of which a title can be
made and read, so that the existing folders and files have one; folders' names are
sequences of symbols, of any length.

* `IndexInv`: rows are unique and real, and no row has an id that is yet to be given.
  `MessageInv`: the same of messages.
* `RequestInv` says what is left of a look-up when it is used: `ArgOK`, that what a
  request names is or was on Telegram; `LocalOK`, that the id of a folder still is
  the id of that folder's row, since folder rows are never deleted, and that the id of
  a file row found earlier is still that of the same message or of none, since
  ids are not reused.  Without the last clause `PrunesOwnRow` could not be
  proved: the row may be pruned and written again between the scan and the delete.
* `KeptInv` makes `NoFileLost` inductive.  That a file has a copy is not enough, for
  two moves may be about to delete one copy each; that it has a copy nobody is
  about to delete is enough, and holds because a move forwards first and the copy it
  makes is too young for any other request to have asked for.

Theorems: `InvAlways`, `TypeCorrect`, `RowsUniqueAlways`, `RowsAreRealAlways`,
`NoFileLostAlways`, and `PrunesOwnRowAlways` as an action property.

Two promises of the index are broken by calls that overlap (finding 4) and hold of
calls that do not: `DeletedNotServed` and `DriftIsReported`.  `DriveSequentialProofs` proves them from `MaxInFlight = 1`, the second
also from `NumIndexed = NumExisting`, that the account was indexed at first; with these
values `drive_sequential` checks them too.  Their invariant `SeqInv` adds to `Inv`:

* `AccountOK`, what a request did to Telegram is still so until it has told the index:
  the message it posted is there under its name, the one it deleted is gone, the row
  it is about to prune is there.  A message a request was told was deleted is gone from
  both sides, and no step brings it back, since message ids are not reused and the
  index is only written for a message that is there.
* `AgreeInv`, as long as nobody was told of an error: index and account agree on
  every message of every live channel, but for the one message the open request has posted,
  renamed or deleted (`Behind`).  `CacheOK` carries this through a move, which
  writes the name of the row it found and not that of the message it forwarded: both
  are the same name as long as the two agreed when the move began.

The frame lemma `SeqFrom` reduces both to the one request that takes the step;
`SeqQuiet` and `SeqTelegram` are its forms for steps that leave the account alone, and for
steps that change one message.

Theorems: `SeqInvAlways`, `DeletedNotServedAlways`, `DriftIsReportedAlways`.

`DriveTitleProofs` brings in the facts about titles of the next section.

* `FoldersListed` and `MarkedOnce` follow from the types, since every channel has a title
  that was made of some name.  They rest on no order of events, all on `FolderName`.
* `NamesInv`: the index has folders under names that were read off a title that can be
  made and read without a panic, or off one that a client sent along.  It holds however
  requests interleave and gives `NamesStripped`.
* `CreateInv` gives `NamedAsGiven`.  It adds `FreshInv`, that a channel about to be inserted
  is not in the index and that nobody speaks of a channel before it is created, without
  which the upsert of one request could rename the folder another one has created.
  Here calls must not overlap: `InsertFolder` writes the title the client sent along, so
  of a channel that is on Telegram and not yet in the index it may write any name.

All but `FoldersListed` are violated by the trace of `drive_folder_title` and hold under a hypothesis:
`OrdinaryNames`, that names of which a title can be made and read are ordinary, and, for
`NamesStripped`, `OrdinaryTitles`, that so are the titles clients send along.
The names of `drive_sequential` satisfy the first.

Theorems: `FoldersListedAlways`, `OrdinaryMarkedOnce`, `OrdinaryNamesStripped`,
`NamedAsGivenAlways`.

### FolderTitle

For names and titles of any length, in the six symbols.

* A text is taken apart into its symbols: `Bytes` and `ToLower` are flattened sequences of
  pieces, of which `FlattenAppend` and `FlattenConcat` say what they do to a longer
  one.  `StartsAre`: the marker starts in the lower-cased bytes of a title where the
  title has its two symbols and nowhere else; no two other symbols have a marker in their
  bytes.
* The loop of `DisplayName` has an invariant over its turns.  `rest`, `lower` and `kept` are
  the bytes of a title `u`, its lower case, and the bytes of a title `v`; the stripped title
  is `v` and the stripped `u`; and after `k` turns `u` has no marker or is at least `k` symbols
  shorter than the title, so that the loop has turns enough.  `CutTurn` is one turn, and it is here that a
  letter of another width before a marker must be excluded.  This is `MarkersStripped`.
* `TrimBytes`: to trim the bytes of a title trims its symbols.
* `NameIsMarked` has no hypothesis but that the name does not panic: what a cut
  has left of a name may be any bytes, and the marker behind them is still found.
* `OrdinaryFolder`: of an ordinary name the title `FolderName` makes is its trimmed symbols, a
  space and the marker, where that marker is the only one; reading it takes
  it out again, and marking it again puts it back.

Induction over the length or over the turns is by least counterexample (`NaturalSet`: a set
with 0 and the successor of each of its members has all naturals).

Theorems: `MarkersStripped`, `NameIsMarked`, `OrdinaryStripped`, `OrdinaryFolder`, and the fact
that TLC evaluates, `EveryNameIsMarkedAlways`, for every `MaxTitle`.

### Transfer

For files of any size, any number of attempts, flood retries and waits, any base, any
maximum up to a quarter of the range, and integers of any width of two bits or more.

`CallInv` and `RetryInv` say which layer drives which RPC and how many tries are
left; `UploadInv` that Telegram holds the parts read in this attempt, but for the one
under way; `DownloadInv` that what is in
the response and what was counted agree with this attempt's position unless an earlier
attempt left something behind; `ProgressInv` that the counters are this attempt's;
`DelayInv` what Do waits for.  None of the properties is inductive without them: that a posted
document is whole, for one, rests on what every earlier read, rewind and retry left in `body`.
These parts are `StageInv`; `LateInv` adds that a call which is past its check of the context
is the first to end since the disconnect, and gives `LateCallsBounded`.

Theorems: `InvAlways`, `TypeCorrect`, `PostedWhole`, `PostedOnceAlways`,
`UnrepeatedWhole`, `EnvelopesAlone`, `ProgressRight`, `DelaysCapped` and `LateCallsBounded`.  `DelaysCapped` contains that the doubling loop
of `Backoff` is the smaller of `base * 2^i` and the maximum for every `i` (`BackoffCaps`).
Where that would take an induction, the proof takes a least counterexample
(`LeastNatural`: a set of naturals with a member has a least one), since the
induction theorems of the library are out of reach.

### SessionStore

For any number of stores, loads, sessions and files.

`DiskInv`: what the path names, in memory and on disk, is whole and synced, and no
temporary file.  `FileInv`: a temporary file is of one store.  `StoreInv`: how far each
store has brought its file.  `LoadInv`: what a load has opened stays what it was.
`NeverTorn` needs all of them: a torn file in place would come from a store
that renames a file another one still writes, or before it is on disk.

Theorems: `InvAlways`, `TypeCorrect`, `NeverTornAlways`, the action property
`LeaksNeedTwoFailures`, and `RegisterImplemented`: `SessionStore` implements
`AtomicSession`, the rename being the store and the open the load; every other call
maps to a stutter or to the call's return.

### Model-checked only

Liveness (`EveryOtherRequestReturns`, `NoGoroutineLeak`, `EveryTransferEnds`, and
`EveryRequestReturns` and `SubmitCodeReturns`, which fail): the prover has no rule for fairness.  Every other property
that a run finds to hold is proved.

## 5. Findings

1. `Logout` and `abandon` forget the attempt at once, so the next login enters
   gotd's `Run` while the old one is still inside it (`login_logout_reenters`).
2. A preempting `StartQR` and the request of the preempted attempt wait for the
   same single value of `done`; one of them is left hanging (`login_qr_hangs`).
3. A retried `SubmitCode` blocks on a channel nobody reads, even when a password
   is being asked for (`login_code_retry_hangs`).
4. A rename that overlaps a delete writes the deleted row back
   (`drive_overlapping_deletes`).
5. Of two overlapping deletes one fails with `ErrNotFound` although pruning is
   meant to be idempotent (the same trace).
6. `DisplayName` cuts a title at indices of its lower-cased copy: a folder titled
   "[TC]İ [TC]" is indexed as "İ]" (`drive_folder_title`).  With a letter that grows the cut
   panics, in `CreateFolder` after the channel was created.
7. `DisplayName` strips markers in one pass: a client that sends the title `[T[TC]C]` along
   has the folder indexed as `[TC]` (the same trace).
8. `FolderName` is not idempotent and marks twice: the folder "[T[TC]C]İ" is titled
   "[TC]İ [TC]" (the same trace).
9. A download that repeats a part and ends a part early is accepted: what a failed
   attempt wrote stays in the response, and only the number of bytes is compared
   (`transfer_masked_download`).  Without a second attempt it is found out.

Besides, the comment of `RenameFolder` leaves the folder's name in the index to the next
`ListFolders`, which returns the row it finds and never writes the name again; no run states it.

`PROJECT.json` quotes the lines each of them contradicts.

## 6. Plan

Done: `AuthFlow` with its abstract specification; `Drive` with `FolderTitle`;
`Transfer`; `SessionStore` with its abstract specification; every safety and action
property that holds of theirs proved.

Left: `DriveCache`, an abstract specification of what the index promises about the account,
implemented by `Drive` for one client at a time.  What it would promise of a state is
`DriftIsReported` and `DeletedNotServed`, which are proved; it would add what each answer
says.

### Not modelled

* Router, API key check, health endpoint: stateless checks of one request.
* Configuration, migrations, version, `main`: run once at start-up; `main`
  wires nothing yet.
* The construction of the Telegram client and its proxy check: no state after start-up.
* Paging through dialogs: gotd's; here `ListDialogs` is one RPC.
* Chunk manifests: both stores can keep them, nothing writes or reads them.
* Key derivation and the contents of ciphertexts: pure functions; the model uses only
  that nothing but the whole ciphertext decrypts.
* JSON bodies, headers and wording of responses, except which of them is sent.
* gotd, Telegram, the databases and the file system themselves, beyond what the code relies on.
