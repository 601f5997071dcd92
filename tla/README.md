# Specifications of the cloud handlers

This directory holds TLA+ specifications of the AmigaOS file system handlers in
`src/source`: a handler mounts a Dropbox or a Google Drive account as an
AmigaDOS volume.  The code has no documentation of its own beyond its comments
(`src/README.md` has three lines), so every definition here is read from the
code, and `PROJECT.json` gives the lines of each.

    tlc -config namespace.cfg MCNamespace      # a model-checking run
    tlapm TaskExchange_proofs.tla              # the proofs of a module

## 1. The system

### Components, their state and their operations

| component | state | operations | hard because | correct when |
|---|---|---|---|---|
| Packet exchange (`main`, `taskFunc`, `doTask`, `returnPacket`, `ReallyRemoveDosEntry`) | the message port, `gTask`, two signal bits, `gHandlerIsRunning`, `gWorkerIsRunning`, the DOS list | take a packet, hand it over as tasks, answer it, start, shut down | two processes share a global without a lock; a shutdown races with queued packets; globals survive a restart | `gTask` has one owner, an answer goes once to its own sender, the worker never ends under a lock, every packet is answered |
| Locks and open files (`__lock`, `__unlock`, `__duplock`, `__parent`, `__open`, `__close`, ...) | `_locks` and `_opens` of each object, `_lockCount` | lock, copy, free, open, close, delete | a lock moves from a client to a handle; objects are deleted under locks; the count is kept apart | the count is right, each lock has one holder, an upload is alone, a zero count means nobody comes back |
| Chunk cache (`__storeData`, `__readData`, `purgeCache`) | `_cache`, `_openCursor`, `_cachedFileSize` | store, rewind, read, purge | arithmetic at the borders of chunks of 65536 bytes (`NETWORK_BUF_LEN`) | what comes back is what was stored, in memory that was allocated |
| Upload (`__write`, `__close`, `beginUpload`, `uploadFile`) | the handle's cache, the session or file in the cloud, `_fileSize` | write, send a part, commit | requests or answers are lost, the service refuses, memory runs out halfway | the file in the cloud is whole or absent, its length is true |
| Namespace (`__getObject`, `__checkFolder`, `__createObject`, `__rename`, `__deleteObject`, `__examine`, `getFileList`, `processFile`) | `_fileList`, `_contentDownloaded` | look up, list, make, rename, delete, examine | a partial copy of a tree somebody else keeps; ids that are paths; a scan over many packets | the copy mirrors the cloud, a scan is complete, only what is gone is erased |
| Reading and export (`__seek`, `__read`, `downloadFile`, `exportFile`) | `_openCursor`, `_cache`, `_cachedFileSize`, `_fileSize` | seek, read, export | an `int` cursor; the cloud answers short or with something else; an export breaks off and is repeated; the file changes meanwhile | a program sees a plain file with a position, in memory that is there |
| Authorisation (`auth`, `isAuthed`) | two token files, `_accessToken`, `_refreshToken`, `_authed`, `_tokenExpiresAt` | authorise, renew, ask before each request | time passes between request, answer and use; files are written one after the other; the client code is good for one login | no request goes out with a token known to be bad; what is used is saved; the refresh token survives |
| Dates (`__makeDateStamp`) | none | | leap years, in `float` arithmetic | a file is shown on its day, the older of two as older |
| Other pure functions (`__repairName`, code pages, JSON, ciphers) | none | | borders of ranges | not modelled |

### How they interact

A program sends a `DosPacket` to the port of the *handler process*.  `main`
takes one at a time and turns it into one or two tasks.  A task is a global,
`gTask`; `doTask` fills it, signals the *worker process* and waits.  The worker
runs the action on its `cDosHandler` object, which owns the locks, the open
files, the list of objects and the caches, and calls libcurl synchronously.  It
then signals back, and the handler reads the result from `gTask` and answers.
The worker runs one action at a time, so in all modules but the exchange an
action of the code is one step of the specification, with all requests it makes.

## 2. The modules

| module | models | state: variable -> code |
|---|---|---|
| `TaskExchange` | both processes, step by step: each `PutMsg`, `Signal` and `Wait` is a step, so that the two interleave | `task` is `gTask`, `hpc`/`wpc` the program counters, `handlerSignal`/`workerSignal` the signal bits, `port` the message port, `replyTo` is `dp_Port`, `volume` and `deviceTask` the entries in the DOS list |
| `PacketService` | abstract: what a program may expect of the volume | |
| `LockTable` | every operation that makes, moves or frees a lock or a handle | `locks`, `opens` per object, `lockCount` is `_lockCount`; `lent`, `stale`, `leaked`, `lost` are history |
| `ChunkCache` | the arithmetic of the chunks; a byte is its position | `cache`, `cursor`, `size` |
| `Upload` | a file written from the first write to the close, for both services | `cached`, `cachedSize`, `userData`; `session`, `remote`, `content` are the cloud |
| `CloudTree` | external: the tree in the cloud, and which requests a service obeys | |
| `Namespace` | the objects and the actions that change them, over `CloudTree` | `obj` the `cDosFile` objects by address, `list` is `_fileList`, `scan` a client between two `ACTION_EXAMINE_NEXT`; `misread` says that the last request was answered by a page that passes for a result |
| `FileService` | abstract: a file with a size and a position, as a program sees it | |
| `Reading` | a file or a document open for reading: `__seek`, `__read`, `downloadFile`, `exportFile`, and a rename that learns another size | `cursor`, `cache`, `cachedSize`, `fileSize`; `exports` is whether `_exportURLs` has entries; `remoteLen`, `changes` are the cloud; `spoiled`, `undefined` are history |
| `Account` | `auth` request by request, the token files write by write, `isAuthed`, and the start of the worker up to `getAccountInfo` | `accessFile`/`refreshFile` on the disk, `accessToken`, `refreshToken`, `authed`, `expiresAt` in memory; `pc` where the worker is; `now` the clock; `faults` is history |
| `DateStamp` | `__makeDateStamp`, from the numbers `sscanf` finds to a `DateStamp` | none: a function |
| `MC*` | values for the constants | |
| `*_proofs` | theorems | |

`TaskExchange` composes with the others through its tasks: its `locks` is what
`lockCount` counts in `LockTable`, and `ShutdownIsSafe` of `LockTable` is the
reason why `IsShutdownPossible` may rely on the count.  `Upload` treats as a
piece what `ChunkCache` stores and gives back, and `Namespace` sees an upload
as the one request that makes the file known.  `Reading` sees of the cache the
bytes that `ChunkCache` gives back.  Its refinement is `FileService`, as
`PacketService` is that of `TaskExchange`: the one is what a program may expect
of a packet, the other of the bytes behind `ACTION_READ` and `ACTION_SEEK`.
`Account` stands in front of every request of `Namespace`, `Upload` and
`Reading`: its `send` is the moment their requests go out, and its failing
`isAuthed` is one of the ways in which theirs are lost.  A worker that ends in
`Account` is the `WorkerCanFail` of `TaskExchange`.

Abstractions worth knowing when reading the code beside the modules:

* Names are model values in lower case.  Paths are sequences of names; `Up` is
  the sign that `__getObject` puts for a second slash.
* An object is its address.  What the handler does with memory that is freed is
  undefined and not followed: locks freed with their object are counted (`lost`)
  and remembered for the clients that hold them (`stale`), and a scan is noticed
  (`astray`).  Once `malloc` has handed the address of such a lock out again the
  packet of its old client is followed: to `__unlock` and the others it names the
  new lock.  The address of an object deleted under locks is not used again,
  which is a bound.
* A failing request is lost (`"down"`, `"lost"`), obeyed without being heard
  (`"unheard"`), refused with an error of the service (`"refusing"`,
  `"refused"`), or answered by something without such an error, such as the page
  of a proxy (`"unparsed"`, and `"garbled"` when the service has obeyed all the
  same).  libcurl reports the first two as errors and, since
  `CURLOPT_FAILONERROR` is never set, none of the others; `updateFile` tells a
  refusal by its `"error":` and takes a page for success.  `auth` that cannot
  renew the token looks to the caller like a request that was lost.
* The licence check is left out.  It refuses writes at their first line, and
  makes the first read of a document answer zero.
* A byte of a file is its position, from 1; a byte that is none of the file's is
  0.  An `int` has the range of `IntMax` and wraps.
* A token is named by the second until which the service takes it.
* On AmigaOS 4 the shutdown does not wait for locks: it hands the port to
  `dos_lock_handler_port`.  `TaskExchange` has both platforms (`Platforms`).

## 3. The runs

| run | question | bounds, and why they do |
|---|---|---|
| `exchange_safety` | `TaskOwnership`, `LocksHaveOneOwner`, `LocksAreCounted`, `AnsweredOnce`, `ImplementsService` | 2 clients and 2 locks: two programs are enough to mix up answers, two locks to free one and keep one; 2 tries of `ReallyRemoveDosEntry` for 100: no try, one that fails and the last; 2 starts: one restart with the globals of the first |
| `exchange_liveness` | `AnsweredWhileUp`, `ShutdownCompletes`, on both platforms | 1 lock, 1 start, no symmetry (unsound for liveness) |
| `locks_safety` | `LocksAccounted`, `OneHolder`, `HandleKeepsLock`, `ShutdownIsSafe`, `UploadAlone` | 3 locks, 2 handles, a root, a document and an address for one new object, which is a folder, or a file that its upload makes an exact one: a lock, its copy and one of a handle on one object; an address that is freed with its object, handed out again, and named by its old client |
| `locks_exclusive` | the comment at `dos_handler.h:395` | found false |
| `chunks` | `ReadsBackWhatWasStored`, `ChunksFollowCursor` | chunks of 4 bytes, 22 bytes: five borders, transfers of every length up to a chunk, from every offset |
| `chunks_boundary` | the same with stores that end at the end of a chunk that is there already | found false |
| `upload` | `NothingIsForgotten`, `WholeOrNothing`, `LengthIsCommitted` | parts of 3 pieces, files of 8, writes of up to 3: parts that fill exactly, that overshoot, and a rest; 2 failed writes |
| `upload_refused` | the comment at `dos_handler.cpp:1782` | found false |
| `namespace` | `Mirror`, `ScanIsComplete`, `ErasedIsTrashed`, `EmptyFolderIsTrashed`, both services | a folder with a file in it, and a file beside it with the same name; 2 names, paths up to two deep and one that goes up; one node made, one failure of any of the five kinds.  `MaxObjects = 5` leaves room for the root, three entries and one more, new or listed twice |
| `reading` | `CacheIsDocument`, `PositionInFile`, `DefinedUnlessSpoiled`, `ImplementsFileService` | files of 0 to 4 bytes, a network buffer of 3 and an `int` up to 7: reads that are shorter and longer than the buffer and the file, and that overflow with the cursor; wrong answers of up to 3 bytes, a cache of 6: an export that breaks off and is repeated; 2 changes of the file |
| `account` | `RequestsCarryAToken`, `AuthorisedUnlessFault`, `TokenInUseIsSaved`, `RefreshTokenIsKept`, `RequestEnds`, both services | tokens that live 3 seconds and 8 seconds of time: several expire; a clock that turns at 7, so that it is passed; an answer 1 second late; 2 starts: one crash at any step and what the next start finds |
| `namespace_empty` | the comment `// if dir, empty?` at `dos_handler.cpp:1276` | found false |

A `pass` run finishes without an error.  Deadlock is not checked where the
system may stop: a handler that is gone with nobody to start it, a closed file,
an exhausted bound.

What `namespace` shows needs its conditions.  `Mirror` and
`EmptyFolderIsTrashed` speak of histories in which every request succeeded;
`ErasedIsTrashed` of every history and every step of it, but for one: the step
in which a page was believed to be the answer (`misread`).  That step does erase
an object whose file stays, or may (section 6); the ones before and after it
are not excused.  `ErasedIsTrashed` is the one property of the run that is about
failures: the lost answer, the lost request, the refusal and the stale id.  A rename of a Dropbox folder with contents counts as
a failure (section 6), and so does the deletion of a file that others, not yet
uploaded, have for their parent.  A scan is followed only while no request
fails.

### Fairness

`Spec` of `TaskExchange` has weak fairness of `Handler` and of `Worker`: Exec
schedules both, `Wait()` returns when the bit is set and `Delay()` loops look
again.  Clients have none: no program needs to send anything or to fetch an
answer.  `exchange_liveness` assumes a worker that starts (`WorkerCanFail =
FALSE`), because `main` waits for ever for one that does not.  It also assumes
that a task comes to an end, which is to say that libcurl returns.

`Spec` of `Account` has weak fairness of `Worker`, for the same two reasons.
`NewRequest`, `Start`, `Tick` and `Crash` have none: nobody needs to use the
volume, and `RequestEnds` holds whether time passes or stands.  The other modules
state safety only.

## 4. The proofs

| theorem | says, for every value of the constants | argument |
|---|---|---|
| `TaskExchange_proofs!TypeCorrect` | `TypeOK` | `TypeInv` adds that a handler past its startup packet has a packet (`cur`) and one inside `doTask` has a task left (`todo`): without it `Head(todo)` and `request[cur]` have no type |
| `TaskExchange_proofs!TaskIsOwned` | `TaskOwnership`: `gTask` is never touched by both processes | `Rendezvous`: control of `gTask` is a token that the handler has, or that lies in the worker's signal, or that the worker has, or that lies in the handler's signal |
| `TaskExchange_proofs!AnswersAreSingle` | `AnsweredOnce` | `PacketInv`: the port holds the packets of waiting clients once each, and the one being served is not among them; `PhaseInv` says where the two processes can be together |
| `TaskExchange_proofs!OwnersAreApart`, `CountIsTrue` | `LocksHaveOneOwner`, `LocksAreCounted` | `TaskInv` ties `gTask` to the packet it is for; `LocksInv` follows a lock from the worker (granted, not yet answered) to its client and back (asked to be freed, not yet freed): no two senders use one, and all in use are counted unless the handler of OS4 was told to abandon them |
| `TaskExchange_proofs!ServiceIsImplemented` | `ImplementsService`, where the handler does not end under locks | `ResultInv`: what the worker has done for the packet served still holds when it is answered.  Each step of a client or of `Reply`, `AcceptDie`, `LastReply`, `RefuseQueued` maps to a step of `PacketService`, all others to none |
| `LockTable_proofs!TypeCorrect`, `LocksAreAccounted`, `LocksHaveOneHolder`, `HandlesKeepTheirLocks`, `ShutdownFindsNothing`, `UploadsAreAlone` | `TypeOK`, `LocksAccounted`, `OneHolder`, `HandleKeepsLock`, `ShutdownIsSafe`, `UploadAlone` | `LocksInv` (a lock stands in one list, once), `OpensInv` (a handle stands once, with a lock on its own file or a stale one), `HoldersInv` (live locks are lent, or a handle's, or leaked, or named by a client whose own was freed, and only the last may be more than one of these), `UploadsInv`.  A stale address means a lost lock, and lost locks are counted for ever: so a count of zero excludes both.  Lemmas say what adding, freeing, opening, closing and deleting do to these four |
| `ChunkCache_proofs!MemoryIsAllocated` | `ChunksFollowCursor`: every copy stays in allocated chunks | `MemoryInv`; position arithmetic in `PositionParts`, `Advance`, `Below`.  It holds even for the stores that are misplaced |
| `ChunkCache_proofs!ContentIsKept` | `ReadsBackWhatWasStored`, for stores that do not fill an allocated chunk | `ContentInv`: the byte at position p is in chunk p div `ChunkLen` at p mod `ChunkLen`, and `got` is a prefix |
| `ChunkCache_proofs!TypeCorrect` | `TypeOK` | from `MemoryInv` |
| `Upload_proofs!TypeCorrect`, `DataIsKept`, `FileIsWhole`, `LengthIsTrue` | `TypeOK`, `NothingIsForgotten`, `WholeOrNothing`, `LengthIsCommitted`; all but the first for a Google Drive that refuses nothing (`Trusted`) | `SessionInv`: the offset of the next part is that of the session, or ahead of it for good; `OpenInv`: nothing is committed before the close |
| `Reading_proofs!TypeCorrect`, `CachedWhole`, `PositionStays`, `StaysDefined` | `TypeOK`, `CacheIsDocument`, `PositionInFile`, `DefinedUnlessSpoiled` | `FileInv`: a file has a size and no cache, a document a cache and no size, and until it is exported the cursor is where the next byte is stored.  `ClippedIs` has the arithmetic of `int` in one place |
| `Reading_proofs!FileServiceIsImplemented` | `ImplementsFileService` | from the same invariant and `MeasuredInv` (a cached length is one the document may have): a read is a read of `FileService`, a refused one `Fail`, a rename `Resize`; whatever spoils the file is `Spoil` |
| `Account_proofs!TypeCorrect`, `TokensAreGood`, `StaysAuthorised`, `TokenIsSaved`, `RefreshTokenStays` | `TypeOK`, `RequestsCarryAToken`, `AuthorisedUnlessFault`, `TokenInUseIsSaved`, `RefreshTokenIsKept` | `ReplyInv` (what an answer on its way says and how old it is), `ServiceInv` (what each service leaves out), `CodeInv` (the code is spent before the refresh token is saved), `GoodInv` (the expiry that is believed is not later than the true one but for the delay), `UndisturbedInv` |
| `Namespace_proofs!TypeCorrect`, `MirrorHolds`, `ScanComplete` | `TypeOK`, `Mirror`, `ScanIsComplete`, for every tree the cloud may start with, every set of paths and both services | `MirrorInv`: an object with a name is a node of the cloud, and no two are the same; a folder marked as listed has an object for each of its nodes; every object names a folder that was listed; an object without a name is a file not yet in the cloud.  `ScanInv`: in the order of the list, what was reported stands before the key, and what is owed is the key or stands behind it |
| `Namespace_proofs!ErasedAreTrashed`, `EmptyFoldersAreTrashed` | `ErasedIsTrashed`, `EmptyFolderIsTrashed` | of the same invariant, action by action (`Good`): a lookup adds objects and changes none (`GetObjectIs`), a folder it stops in was listed, so one in which nothing is seen is empty (`EmptyIsEmpty`); an object is erased when the deletion was accepted, by which its file is trashed, or when a page was believed, which `misread` excuses |
| `DateStamp_proofs!CalendarIsCounted`, `DayIsShown`, `OrderIsKept`, `OrderTurns` | how the days `__makeDateStamp` counts compare with the calendar's, for dates of 1978 to 2099 (no century without a leap year is among them) | years in fours of 1461 days, with the leap year third (`YearIs`); of these the late ones begin with day 790 (`LateIs`) |

Each proof has one step per action and under it one per conjunct that the action
can disturb.  They use the named assumptions of the modules and nothing else,
each as weak as the code allows: that names are distinct and none of the fixed
ones (`NamesAssumption`, `RootAssumption`), that there are finitely many locks
(`FiniteAssumption`, for their number), that what is in the cloud at the start
is not the root (`RemoteAssumption`), that
lengths and bounds are numbers and the sizes of files fit an `int`.  TLC
evaluates them in each run.  `TreeAssumption` says that what `Namespace` starts
with is a tree: every node lies in a folder, and no set of nodes has all their
parents within it, which in a finite tree is to say that every way up ends at the
topmost folder.

Where a path leads, and what lies below a folder, are recursive functions of the
path and of the tree (`walk`, `above`, `Paths`).  What they compute is proved by
induction in the form of sets.  The library's induction takes a predicate, which
the provers cannot be given; `NaturalsAreReached` and `NodesAreReached` take the
set of the things that have the property instead, and follow from the least
member of a set (`WFMin`).  `TreeRecursion` shows that a function defined from a
folder down to what lies in it exists, and so that `Paths` and `Under` are what
they say; `WalkIs` does the same for a walk along a path: a set that has the
start, and with each state the next, has the end.  The requests to the cloud keep
a tree a tree, and the ids of the nodes they leave alone (`TreeMade`,
`TreeMoved`, `TreeTrashed`).

The proof of `Mirror` found a case that the run is too small for, and in which
the code does show a file twice (section 6, the file under a deleted object): the
statement now leaves it out, as it does the renamed folder of Dropbox.

Only model-checked: the liveness of the exchange
(`AnsweredWhileUp`, `ShutdownCompletes`) and of `Account` (`RequestEnds`), for
fairness is outside the prover's reach; `ImplementsService` together with
processes that end under locks is not claimed at all, since on OS4 a program's
locks outlive the handler.  No module with a theorem declares a `RECURSIVE`
operator; recursion over paths is by recursive functions.  Every safety property
and action property of a passing run is stated by a theorem.

## 5. Mutants

Each property of a passing run comes with a mutant: a definition that replaces
one of the model by what a plausible mistake in the code would make of it, and
that the property must catch.  They stand beside the definition they replace,
marked `mutant of`.  `StaleTask`, for one, is `sTask::set` without its reset of
`_result`: a packet that locates nothing is then answered with another
program's lock.

## 6. Where code and comments part, and what is known to fail

Shown by a run, listed under `findings`: a shared lock on an exclusively locked
object is granted; a store that ends exactly at the end of a chunk goes to the
next one; a refused upload on Google Drive is shown with its length; a folder
whose listing broke off is trashed as empty.

Seen in the models and listed under `hazards`, most with no text of the
repository to set against it:

* A worker that cannot authorise ends, and the handler waits for it for ever.
* Packets queued behind an accepted `ACTION_DIE` are answered only if
  `AttemptLockDosList` fails once; a handler without a volume entry answers its
  startup packet with success and nothing after.
* A createdir that the cloud refuses leaves a lock nobody has, and the handler
  can no longer be shut down.
* An answer without `"error":` in it, such as the page of a proxy, is a success to
  `updateFile`.  `__deleteObject` then erases an object whose file is still in the
  cloud; `__rename` and `__createdir` take name and id from the page, and the
  object is left without them.
* A client that goes on with a lock freed with its object can, once `malloc` has
  handed out the address again, free, copy or open the lock of another.
* `__openFromLock` opens a document for download, though `omDownload` is "only for
  exact files!" (`dos_handler.h:255`): the test for one export at a time then
  lets another begin.
* A creation on Google Drive whose answer is lost leaves an empty file in the
  cloud, and the next write makes another.
* A refused rename keeps its new name and parent; a rename of an object to its
  own name in another case puts it under itself.
* A renamed Dropbox folder leaves the old paths in everything listed below it.
* A file opened for writing under an object of Dropbox that is deleted or renamed
  before the file is uploaded keeps the old path for its parent.  When a new
  folder takes that path, the upload goes there, and the listing of the folder
  adds the same file once more.
* When a folder of the path is missing the file is made in the last one found.
* A folder listing refused at a later page is repeated, with duplicates.
* A scan holds the address of its next entry while others may delete it.
* The seconds since 1978 are kept in an `int`.  From 19 January 2046 on the
  clock is behind every expiry and no token is renewed any more.
* A renewal that fails leaves `_authed` false and is not tried again: every
  later request fails until the handler is started anew.
* A first login that is cut off between its two files works until its access
  token expires, and never after, for the code is spent.  Dropbox is authorised
  even when its token could not be saved or read back, and then has none.
* An answer that is shorter than what was asked for, or the page of an error,
  reads as data of the file, with the full length.
* An export that breaks off after its first byte leaves its part in the cache,
  and the next one is stored behind it.
* A program under one of the file managers' names that reads a document in
  pieces of 480, 4 or 512 bytes is told each time that it has them, and never
  comes to the export.
* A file that was emptied by somebody else, and noticed in a rename while it is
  open, is exported from `_exportURLs[0]`, which is not there.
* The cursor and a length are added as `int`; a read of the largest length
  behind the first byte asks for a range that ends before it starts.
* A file of 1 March of a leap year, or of any date from there to the end of the
  next year, is shown on the day before; one of 29 February may be shown as newer
  than one of 1 March.  A folder of Dropbox has no date, and `fib_Date` is left
  as the program gave it (`MakeDateStamp`).
* `__repairName` stops at half of its pairs: `*`, `?`, `:` and `|` stay in
  Dropbox names.

## 7. Not modelled

* *Names, code pages, JSON, escapes.*  Pure functions over strings.  The
  properties tell names apart and no more, so names are model values; what
  `__repairName` and the code pages do to them would have to be modelled
  character by character.  `processFile` and the answers of `auth` appear as the
  fields they find.
* *Volume facts* (`__info`, `__samelock`): they read and change nothing.
* *Licence check*: it refuses, and changes nothing.
* *Logging, message boxes, the benchmark*: output.  That the logs are closed
  through a port where packets may lie is listed as a hazard.
* *Start-up code* and the *bundled libraries* (AmiSSL, OpenSSL, libcurl, zlib):
  they are over nine tenths of the lines of the repository, in headers for the
  most part.  What a request may come to is part of the modules that send it.

## 8. Plan

Done: the exchange, the locks, the chunks, uploads, the copy of the tree,
reading, the account, and proofs of the safety of them all.  Left:

1. `Account` composed with `Namespace`: a listing that breaks off because the
   token expired between two pages.
2. The hazards without a property: the closing of the logs
   (`dos_handler.cpp:3466`), the page that is asked for without pause
   (`dropbox_handler.cpp:313`), the object that is missing in `__open`
   (`dos_handler.cpp:1738`), the pairs of `__repairName`
   (`dos_handler.cpp:1009`).
