# A verification project for tftpcpd

tftpcpd is a TFTP server (and a small client) that keeps every uploaded file as
a *version*: uploads go to a new file, downloads read the newest completed one,
and a SQLite table counts who uses what so that replaced versions can be removed.
This directory holds TLA+ models of it, TLC configurations that check them, and
proofs checked by TLAPS. Line numbers refer to `internal/*.go` and
`cmd/tftpcpd/main.go` of the repository.

## The system

| part | state | operations | talks to |
|---|---|---|---|
| **version store** (`session.go`, `database.go`, statements in `server.go`) | table `files(filename, uploadStarted, uploadCompleted, consumers)`, the directory, one SQLite transaction per goroutine | `Reserve`, `Release`, `Prepare`, `OverwriteSuccess`, `OverwriteFailure`, `DatabaseInit`, `deleteOutOfDateGlobally` | SQLite locks; the file system; the context of the sessions |
| **transfer loops** (`session.go`) | block number, buffers, last message | `SendDataLoop`, `ReceiveDataLoop`, `Receive`, `Send` | UDP; the version store before and after |
| **session opening** (`server.go`, `session.go`) | operation, file name, options | `sessionRoutine`, `Accept`, `UpdateOptions`, `ReadAsServer`, `WriteAsServer` | codec, store, loops, `Log` |
| **supervisor** (`main.go`, `server.go`, `database.go`, `logger.go`, `signal.go`) | six signal channels with two places, `Log` with 150, the wait groups | `main`'s select, `ServerRoutine`, `DatabaseRoutine`, `LoggerRoutine` | each other |
| **client** (`client.go`, `cmd/tftpcpc`) | one session, a temporary and a connected socket, the exit code | `DoReadAsClient`, `DoWriteAsClient`, `ClientRoutine` | UDP, codec, the same loops, its own `Log` |
| **codec** (`bytes.go`) | none | `MessageAsBytes`, `BytesAsMessage` | sessions and client |

What makes it hard:

* sessions, the clean-up at shutdown and a kill interleave at every statement,
  and a transaction of SQLite is not atomic with the file operations inside it;
* `Reserve` and `Prepare` commit before they open their file, `Release` and
  `OverwriteSuccess` unlink files before they commit, and each of these calls
  can fail between its steps;
* a context that is cancelled, a busy lock, or a failing `Remove` turns a commit
  into a rollback, and errors of deferred calls are dropped;
* UDP loses, duplicates, delays and reorders, and block numbers wrap around;
* a request that arrives twice starts two sessions; the client changes its socket
  in the middle of the opening; each end sizes its buffers at a time of its own;
* `main` and its routines stop each other over bounded channels, while the
  sessions still write to a channel that `main` closes.

What makes each part correct:

* store: no file is removed while somebody needs it; the newest completed upload
  is what a download gets; replaced versions go away; a restart cleans up;
* loops: the copy is always a prefix of the file, success means a whole copy, and
  every transfer ends;
* supervisor: once asked to, the process ends, without a deadlock and without a
  send on the closed `Log`;
* opening, codec and client: what was acknowledged is what both ends use,
  buffers are as long as the block size says, nothing is misread, success is
  reported of nothing but a whole copy, and one request leaves one version.

`PROJECT.json` lists the hazards line by line, with the property for each.

## Modules

| module | contents |
|---|---|
| `VersionLibrary` | what the store promises its clients, without table, locks or files |
| `VersionStore` | the table, the directory, sessions, database routine, stop, crash |
| `VersionStoreProps` | its properties, how it is a `VersionLibrary`, and the parts of its inductive invariant |
| `MCVersionStore` | instance for TLC (sessions are symmetric) |
| `VersionStoreProofs` | lemmas on tables; `TypeCorrect` |
| `VersionStoreSafetyProofs` | the inductive invariant `StoreInv`; `FilesInUse`, `ConsumersCounted` |
| `VersionStoreTableProofs` | what steps do to the table; `ReplacedVersionsGo`, `LatestStays`, `StartCleans`, `StoreIsLibrary` (the refinement) |
| `VersionStoreDiskProofs` | what clean-up leaves of table and disk; `FilesHaveRows`, `ServedVersionOnDisk` |
| `FileCopy` | what a transfer promises, without messages |
| `Transfer`, `MCTransfer` | the two loops over UDP; implements `FileCopy` |
| `TransferProofs` | `TransferIsCopy` (the refinement), `LoopsInLockstep`, `SuccessIsWhole`, `NoneFailsUndisturbed`, `StepsAreLimited`, `TypeCorrect` |
| `Codec` | messages, their encoding, and what is made of a datagram, cut or not |
| `Dialogue`, `MCDialogue` | client, sessions, options, buffers, exit code; extends `Codec` |
| `CodecProofs` | what is read of a datagram, cut or not, whatever order its options are in; `RequestRead`, `MessageRead` |
| `DialogueProofs` | the inductive invariants `DialogueInv` and `WordsInv`; `BlocksAgree`, `RedialIsSafe`, `OnlyTheseEndIt`, `SuccessIsTrue`, `OneVersion`, `NothingIsMisread`, `TypeCorrect` |
| `Supervisor`, `MCSupervisor` | goroutines, signal channels, `Log` |
| `SupervisorProofs` | `LogClosedLast`, `SignalsFit`, `TypeCorrect` |

Operators named `Wrong...` are not part of a model. Each is the definition that
follows it with a plausible mistake, used to see that a property notices it.

### VersionStore

A version is `<<name, uploadStarted>>`, which is its row and its path
(`fileModel.Path`). `rows` is the committed table, `disk` the existing paths,
`clock` the time in microseconds. A session is `idle` or at one of the points
where its code can be interrupted:

    download:  reserved -> reading -> releasing -> idle
    upload:    prepared -> writing -> uploaded -> overwriting -> idle

`Reserve` and `Prepare` are one transaction each (a SELECT or INSERT, an UPDATE,
COMMIT), followed by a step that opens or creates the file and may fail.
`Release` and `OverwriteSuccess` are three: `...Begin` takes the write lock with
its UPDATE and computes what to unlink, `DeleteFile` is one round of
`deleteFiles`, `...Commit` deletes rows and commits. `Rollback` ends them for a
cancelled context, a commit that a reader keeps busy, or an error. The database
routine runs `DatabaseInit` (`Boot`, `ClearCommit`, `PruneSelect`,
`PruneCommit`), and `deleteOutOfDateGlobally` once more when it is told to stop,
during which the connection may be busy (`PruneBusy`) or unlinking may fail and
leave the transaction open until its deadline (`PruneFails`, `LeftOpenExpires`).

SQLite is external. What is assumed of it: rollback journal, deferred
transactions (a transaction that only reads holds a shared lock, the first write
takes the only reserved lock, a commit needs that nobody else holds a lock), a
reader that wants to write while another holds the reserved lock is refused at
once, `MAX()` takes its bare columns from the first row in rowid order that
reaches the maximum, and a committed transaction survives a kill. Within these
rules nothing a transaction has read can change before it ends, so a
transaction's view is computed from `rows` and needs no variable. Rowids are
taken to be in the order of `uploadStarted`. The clock does not go backwards,
and two uploads do not begin in the same microsecond (UNIQUE would end one of
them with an error), but may complete in the same one. A kill loses no file
system operation that has returned; loss of power is not modelled. A `Remove` that
is past its check of the context when the context is cancelled counts as having
happened before.

`LibrarySpec` states that `VersionStore` implements `VersionLibrary`, in which
there are only versions on a shelf and readers who have been lent one. The shelf
(`Shelf`) holds the completed rows; what is lent (`Lent`) is the path of a session
between the commit of its `Reserve` and the end of its `Release`. `Reserve` is
`Lend`, the end of a download in whatever way is `Return`, the commit of
`OverwriteSuccess` is `Publish`, the pruning `Tidy`, the end of the process
`Restart`; everything else is not seen. `Lend` has to give out the newest complete
version, and `Settles` forbids that a version leaves the shelf while it is lent or
unless one as new of its name stays.

### Transfer

`pc`, `sent`, `bad` and `written` are the state of the two loops, `net` the
datagrams on their way. A message carries the block number modulo `Modulus`
(2^16 in the code); the loops compare only that number. Either end may be the
server (`server`), whose failure sends an ERROR and whose context may be
cancelled. `Timeout` is a read deadline: it passes when no datagram is on its way
to an end that waits, which is what a loss amounts to; a port that is closed ends
the read in the same way, with another error. `MaxAge` bounds how many
blocks a datagram may arrive late; with `MaxAge + 1 < Modulus` a number is never
confused with that of the previous round, which for the code says that no
datagram is delayed by 65534 blocks. The opening of a session is represented by
a duplicate of its last message only.

Every return with an error is `Break`, or in `Await` that of a context that has been
cancelled: a read deadline, a message that is not
expected, a file that cannot be read or written, and, under the fault `io` too, a
message that cannot be sent. A DATA message that is not sent leaves the copy as
it was (`ReadError`); an acknowledgement that is not sent leaves it one block
longer (`WriteBlock`). If that is the last block the receiver fails with the whole
file, and the daemon discards such an upload. A transfer begins with its first
DATA message on its way.

`CopySpec` states that `Transfer` implements `FileCopy` under the mapping
`copy <- written`, `outcome <- pc`. In `FileCopy` the receiver is done with the last
block or fails, with the copy whole or not; the sender is done only after the
receiver is, never after a receiver that failed. `Remaining` counts what a transfer has still
before it; `EveryStepCounts` says that each step makes it less.

### Codec

A datagram is a sequence of items that know their number of bytes: numbers of
two bytes, strings with their null byte, and file contents, of which only the
length counts. `Encodings` is `MessageAsBytes`: a set, because a map of options
is written in any order. `Decode` is `BytesAsMessage` with the minimal lengths
and null bytes it asks for; `Invalid` stands for its errors. `Cut` is what
`ReadFromUDP` leaves of a datagram longer than the buffer. `strings.ToLower`
and `filepath.Split` are tables (`Lower`, `Base`) over the texts that occur.

### Dialogue

One client and the sessions its request starts, one per copy of the request that
reaches the daemon's port. Every message crosses `net`, a bag, as an encoded
datagram that the receiver's buffer may cut. `at[x]` holds where an end is, its
`BlockSize`, the length of its buffers (`room`) and the bytes it has copied:

    client:    idle -> opening -> redialling -> copying (-> closing) -> over
    download:  unused -> (awaiting ->) copying -> closing -> over
    upload:    unused -> preparing -> copying -> saving -> over

`redialling` is the time between the close of the client's first socket and the
dial of the one connected to the session: what arrives then is missed. A failure
in the opening sends its reasons as often as `Accept`, `ReadAsServer` and
`sessionRoutine` together do (`Rejects`). The copy goes block by block, as
`Transfer` shows of the loops (`Lockstep`), and may fail at any block (fault
`transfer`); what it adds is the size of blocks and buffers and the last, short
block. A session that cannot acknowledge the last block of an upload is one that
gives up before it: it records nothing either way. `SaveUpload` is `OverwriteSuccess` reduced to whether it commits.
`exit` is what `ClientRoutine` passes to `os.Exit`, or 2 for a panic on the
`Log` that ^C has closed. Requests are those of `tftpcpc`, and some of another
client that follows the RFCs, takes an ERROR for a failure and has buffers of the
size it asked for.

What is assumed of a request (`RequestsAssumption`): it fits a UDP datagram; as
RFC 2347 has it, it names no option twice; and the answer to its options fits the
516 bytes that a client's first buffer has and parses (an option of one letter
with an empty value would be shorter than `BytesAsMessage` accepts). `tftpcpc`
asks for no block size, and only for an upload of a file it has opened.
The texts of file names, modes and option keys are model strings, of which the
codec needs the length: `IsMessage` asks that a request consists of texts as long as
the code's checks of minimal lengths take for granted (a mode of five letters, a
key of two), and `ReasonsAssumption` the same of the texts of ERROR messages.
`SessionsAssumption` says that a session has not the name of the client or of
the port.

A session's first use of the negotiated size is `Overruns`: the slice that
`Receive` takes is longer than its buffer, and the panic ends the daemon.
`DaemonSurvives` states the only two ways in which a request has that effect.

### Supervisor

`main` is the list of statements `main` has still to execute: its select, then
the case it took. `up` and `down` are the channels `childToParent` and
`parentToChild`. `IsResponse` compares the *kind* of a signal with the two
*message* values and is never true, so the model does not tell a request from an
answer, as the code does not. Sessions write two events to `Log`; `Logs` waits
while it is full and panics once it is closed. The database routine sends nothing
but answers, so the last case of `main`'s select has no sender and is left out.

## What the runs show

Passing:

| run | bounds | shows |
|---|---|---|
| `store_faults` | 3 sessions, 1 name, clock 3, 1 fault out of crash, stop, I/O | `ConsumersCover`, `FilesInUseKept`, `NoUnusedOutOfDate`, `LatestNeverRegresses`, `StartsClean`; `NewestOnDisk`: without a fault, the version the next download gets has its file; `RowsOutliveFiles`: no completed version leaves the table before its file is gone; `LibrarySpec`: the store is a `VersionLibrary` |
| `store_shutdown` | 2 sessions, 1 name, clock 3, stop and I/O error | `ShutdownEnds`: no lock, cancellation or failing clean-up blocks the end |
| `transfer` | 6 blocks, modulus 4, limit 2, age 2, 3 faults | `Lockstep`, `CopySpec`, `FailureHasCause`, `EveryStepCounts`, `UndisturbedCompletes`, `TransferEnds` |
| `dialogue` | 23 requests, 2 sessions, 2 faults out of lose, duplicate, I/O, transfer, ^C, kill | `BlockSizesAgree`, `RedialLosesNoData`, `DaemonSurvives`, `NothingMisread`, `WholeOrReported`, `OneVersionPerUpload`, `DialogueEnds`, `UndisturbedSucceeds` |
| `supervisor` | 2 sessions, `Log` with 3 places, every failure | `RoutinesDoneWithLog`, `SignalsNeverBlock`, `TerminationEnds` |

Violated, each by what the code does and against what the repository says (the
quoted lines are in `PROJECT.json`):

| run | property | the code |
|---|---|---|
| `partial_download` | `ReadsOnlyCompleted` | `Reserve` accepts a row whose upload is not complete |
| `stale_upload` | `NoStaleUploads` | after `OverwriteSuccess` failed, `OverwriteFailure` finds the file closed and keeps the row |
| `kill_loses_upload` | `UploadsSurviveKill` | files are unlinked before the commit |
| `lost_datagram` | `LossRepaired` | the first read deadline ends the transfer, nothing is resent |
| `interrupt_panics` | `InterruptExitsCleanly` | `main` closes `Log` while sessions run |
| `empty_download` | `EmptyFileDownloads` | the client refuses the size 0 it has asked for |
| `refused_exits_zero` | `ExitZeroMeansCopied` | a refused request returns a nil error and exits with 0 |

What `kill_loses_upload` shows of a kill, a rollback of `OverwriteSuccess` after its
first `Remove` does too (`Rollback` under the fault `io`): the old row stays the
newest version and its file is gone. The repository says nothing about that case,
so it has no run; it is why `NewestOnDisk` is restricted to behaviours without a
fault.

Two smaller disagreements were met and have no run: a failing `Open` in
`Reserve` leaves its consumer counted until the next start (`ConsumersCover` still
holds), and after the block numbers have wrapped a duplicated acknowledgement of
a greater number ends a transfer.

Why the bounds are enough. Rows of different names meet only in the locks, so
one name suffices. Three sessions give two uploads and a reader, or two readers
and an upload; three or four ticks give three versions, completed in the same
microsecond or in the other order than they began. With one fault per behaviour
a crash or a failed step meets every interleaving; `store_shutdown` combines the
stop with one more. Six blocks modulo four wrap the number around, and a message
may be two blocks late across the wrap. A `Log` of three places is full with two
sessions and a logger that does not read. The requests of `dialogue` reach every
branch of `UpdateOptions` that changes something, block sizes below, at and above
the first buffer, files that are absent, empty, shorter than a block, a whole
block and several blocks; two sessions are what one duplicate can start, and two
faults let a duplicate meet a loss, a failure or a kill. `MaxClock`, `MaxFaults` and
`MaxConsumers` are the only bounds in guards, besides `MaxAge`.
No run checks for deadlock: an idle daemon, a finished transfer and an exited
process rightly do nothing.

Fairness. Sessions and the database routine proceed because each of their waits
has a deadline (`Receive`, the busy timeout, the contexts of three minutes), and
goroutines that can run are scheduled. A client's request, a start, a stop and
every fault carry no fairness. A datagram that is not lost arrives, and read
deadlines pass; in `Dialogue` weak fairness on the steps that are no faults says
that, and as these have no cycle it asks only that the goroutines run.
`TerminationEnds` assumes that the database routine has announced itself: with a
logger that cannot open its files and 150 events in `Log` before that, it would
wait for ever.

## What is proved

Every theorem holds for every value of the constants its module declares, from
the assumptions named there, which TLC evaluates on the instances of the runs.

### The version store

For every finite set of sessions, every set of names and choice of faults, and
every bound:

* `TypeCorrect`: `Spec => []TypeOK`. In particular `consumers` never becomes
  negative, although `Unconsumed` may run on rows that were cleaned. It rests on
  lemmas on what each SQL statement does to a table, and on `BestIsNewest`: a
  name with rows has a newest one, so that what `Reserve` selects is a row.
* `FilesInUse`: `Spec => []FilesInUseKept`, and `ConsumersCounted`:
  `Spec => []ConsumersCover`.

Neither of the last two is inductive. `StoreInv` adds: who holds which lock and
that only a holder has files to remove (`LocksOK`), that no session runs while
the table is cleared (`PhasesOK`), that the clock has passed every stamp, so
that an upload's row is new (`StampsOK`), that an unfinished upload has its row
and is alone on it (`UploadsOK`), and that no file due for removal is needed
(`DoomedUnused`). The argument: a file is selected for removal when its row is
completed and has no consumers in the view of the transaction. A reader's row has
a consumer, and two when the releasing session reads the same version
(`ReleaseSelects`); an upload's row is not completed (`OverwriteSelects`). Between
the selection and the removal nobody can reserve or prepare anything, because a
commit needs the locks the selecting transaction holds (`DoomedStep`).

On the same invariant rest four theorems on the table (`VersionStoreTableProofs`):

* `ReplacedVersionsGo`: `Spec => []NoUnusedOutOfDate`. A step keeps the completed
  rows and adds none (`Keeps`), or settles one name (`Settles`): it commits what
  `Release` or `OverwriteSuccess` left of the view of its transaction. What the
  looser comparison of the deletes leaves unused is as new as the newest
  (`DroppedRows`), so the property is inductive next to `StoreInv`. At start-up it
  is established by the pruning, where `rowid` tells ties apart (`PrunedRows`).
* `LatestStays`: `Spec => LatestNeverRegresses`. The witness is the newest row of
  the view, which no delete drops. An upload that fails, or finishes, changes a row
  that was not completed before (`UploadsOK`).
* `StartCleans`: `Spec => StartsClean`, from `ClearedUnused`: between the two
  transactions of `DatabaseInit` no row is unfinished or consumed.
* `StoreIsLibrary`: `Spec => LibrarySpec`, the refinement. `BestIsLatest` makes what
  `Reserve` picks the newest complete version. What a commit drops had no consumers
  in the view of its transaction, so nobody has been lent it (`UnusedUnlent`); for
  `Release`, which counts down first, another reader of the same version makes the
  count two (`LentCounted`). What replaces it is the newest row of the view
  (`DroppedReplaced`). An upload whose version is dropped in the commit that
  completes it, because a newer one committed before, only tidies.

Two on table and disk (`VersionStoreDiskProofs`):

* `FilesHaveRows`: `Spec => RowsOutliveFiles`. `StoreInv` is not enough, since it
  only bounds `doomed` from above. `DueInv` adds that what a clean-up has still to
  remove is every file on the disk of the rows its commit will drop. The only
  files that appear meanwhile are those of uploads that are not complete
  (`PreparedNotDue`), so when nothing is left to remove, the rows that go have no
  file.
* `ServedVersionOnDisk`: `Spec => []NewestOnDisk`, by `QuietInv`, which speaks of
  behaviours without a fault: the newest completed version of a name is on the disk
  (`Served`), unless an upload that is newer is just being completed (`Wins`),
  whose own file is. `kill_loses_upload` shows why the restriction is needed.

### The transfer

For every length of the file, modulus, limit of bad messages and number of
faults, provided that `MaxAge + 1 < Modulus`:

* `LoopsInLockstep`: `Spec => []Lockstep`, and `SuccessIsWhole`: a sender that
  reports success has all blocks written, each in its place.
* `TransferIsCopy`: `Spec => CopySpec`. Every step writes the next block or decides an
  outcome as `FileCopy` has it, or is a stutter. That the sender is done only after
  the receiver needs `LastAckInv`: an acknowledgement of the last block that is on
  its way was sent by a receiver that is done, since one that could not send it
  has left none.
* `NoneFailsUndisturbed`: `Spec => []FailureHasCause`, the safety half of
  `UndisturbedCompletes`: without a fault neither end fails, however often the
  block numbers come round. By `CauseInv`: until the first fault there is one
  datagram on its way, the block or the acknowledgement that is due (`Undisturbed`).
* `StepsAreLimited`: `Spec => [](Remaining \in Nat) /\ EveryStepCounts`, the half
  of `TransferEnds` that needs no fairness: every behaviour is finite, so the loops
  never keep each other busy without getting on. A block sent or written, an outcome
  and a fault count twice, a datagram once, because each of the former adds at most
  one datagram. What TLC adds is that a transfer does not stop before its end.

`Lockstep` is not inductive: it needs that no datagram on its way is so old
that its number has come round (`NetInv`), in which an ACK may be one block older
than DATA because that of the opening was sent before block 1, and that the
receiver's outcome follows what it has written (`OutcomeInv`).

### The supervisor

For every set of sessions, every capacity of `Log`, and every choice of what may
fail:

* `LogClosedLast`: `Spec => []RoutinesDoneWithLog`. The invariant (`LogInv`) looks
  ahead in what `main` has still to execute: before it closes `Log` it awaits
  every routine that has not yet said anything.
* `SignalsFit`: `Spec => []SignalsNeverBlock`, because a child speaks once in its
  life (`UpInv`) and `main` signals a child once (`DownInv`).

### The dialogue

For every set of requests, sessions and faults, any number of faults included:

* `BlocksAgree`: `Spec => []BlockSizesAgree`; `RedialIsSafe`:
  `Spec => []RedialLosesNoData`; `OnlyTheseEndIt`: `Spec => []DaemonSurvives`;
  `SuccessIsTrue`: `Spec => []WholeOrReported`; `OneVersion`:
  `Spec => []OneVersionPerUpload`.

They rest on one invariant, `DialogueInv`. Its core is that a session has one
`Greeting`, which depends on the request alone: every session that has taken a
copy of the request says the same (`NetInv`, `Opened`), so it does not matter
which of them the client meets, and what it misses while it redials is what it
has. From the greeting both ends compute the block size `BlockOf(Asked)`
(`AnswerKeepsBlock`: answering `tsize` does not touch it). `CopyInv` says that the
client and the session it is connected to have copied equally much and no other
session anything, from which follow `WholeOrReported` and `OneVersionPerUpload`.
Most actions only end something; these are instances of one lemma
(`WithdrawStep`), the openings of one (`SessionMoves`), the client's steps of one
(`ClientMoves`); `CopyBlock` is on its own (`Copies`).

Between what is sent and what is understood stands the codec. `CodecProofs` shows,
for every map of options and every order it is written in, that reading gives
back the map with its keys in lower case (`OptionsRead`, `RequestRead`,
`OptionAckRead`), that an ERROR which the buffer cuts reads as an ERROR or not at
all (`ErrorRead`, `ErrorCut`), and that decoding undoes encoding:

* `MessageRead`: whatever message is sent whole, what is read of it is what was meant
  (`Canonical`); only a request without a name may be too short to be read. That a
  datagram is long enough is a sum over its items (`SizeOfMany`). The provers have no
  induction over sequences; these lemmas take the shortest prefix for which the claim
  fails, which exists because the numbers are well-ordered (`LeastNumber`).
* `NothingIsMisread`: `Spec => []NothingMisread`, for datagrams on their way and the
  buffers they will meet. Besides `DialogueInv` it needs `WordsInv`: a session is told
  nothing but an acknowledgement of block 0 or a reason, and an ERROR carries one of
  the reasons of the code, which are long enough to be parsed.

### What is only model-checked

* Liveness (`ShutdownEnds`, `UndisturbedCompletes`, `TransferEnds`,
  `TerminationEnds`, `DialogueEnds`, `UndisturbedSucceeds`): it needs fairness,
  hence ENABLED. Of `UndisturbedCompletes` and `TransferEnds` the parts that are
  safety are proved (`NoneFailsUndisturbed`, `StepsAreLimited`).
* The runs that expect a violation.

## What is not modelled

* The files and the format of the log, the debug events, flags, and the choice of
  an address (`FindEnclosingAddress`): wording and I/O; in `Dialogue` failing to
  find an address is `CannotStart`.
* Datagrams that neither program sends: unknown opcodes, a first reply that
  acknowledges another block than 0. Of the options, `timeout` (it only sets a
  deadline) and `windowsize` and `multicast` (acknowledged but ignored) are
  treated as what they are to the rest, options that go back as they came.
* A session that cannot dial its client (it ends with a log entry).
* `Reserve` is atomic up to its commit, which hides only failures that change
  nothing. Uploads that begin in the same microsecond, and the numeric affinity of
  the column `filename`, are in the hazards with a note.
* A stop of the daemon in the middle of a dialogue: to the client it is a session
  that fails (fault `transfer`); what it does to the store and to `Log` is in
  `VersionStore` and `Supervisor`.
