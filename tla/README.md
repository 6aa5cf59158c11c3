# A TLA+ verification of the cloud disk server

The program is a C++ file-hosting server: one process accepts HTTP connections,
a pool of threads serves one request per connection, user data is kept in MySQL
and in files under `uploads/`, and login sessions in memory. This directory
holds TLA+ modules of its concurrent parts, the TLC configurations that check
them on small instances, and proofs that `tlapm` checks for instances of any size.
Paths without a directory below are those of `src/` of the repository.

To repeat: `tlc -config MCServer.cfg MCServer.tla` (and so on for each
configuration), `tlapm SharedTransactionProofs.tla` (and likewise `ChunkedUploadProofs`,
`FileStoreProofs`, `ServerProofs`, `SessionsProofs`, `UserManagerProofs`,
`RequestReaderProofs` and `SumTheorems`).

## 1. The system

| Component | State | Operations | Used by |
|---|---|---|---|
| `CloudDiskServer` (server.cpp, main.cpp) | listening socket, `running` | `run`, `handle_client`, signal handler, cleanup thread | the clients |
| `ThreadPool` (thread_pool.h/.cpp) | queue of tasks, stop flag | `enqueue`, worker loop | `run` |
| `ClientManager` (client_manager.cpp) | map from descriptors to addresses | `add_client`, `remove_client` | `run`, `handle_client` |
| `SessionManager` (session_manager.cpp) | map from tokens to user and `last_access` | `create_session`, `get_user_id`, `delete_session`, `cleanup_expired_sessions` | login, logout, every authenticated request, the cleanup thread |
| `DBConnectionPool` (database.cpp) | connections and their `available` flags | `get_connection`, `return_connection`, deleter of the handle | `FileManager`, `UserManager` |
| `Database` (database.cpp) | one MySQL connection | query, prepared statement, transaction | the borrower of the connection |
| `FileManager`, chunked uploads | `upload_sessions`, `upload_chunks`, `files`, `users.storage_used`, temporary directories, merged files | init, chunk, progress, complete, cancel | `HttpHandler` |
| `FileManager`, files and shares | `files`, `users.storage_used`, files on disk | upload, delete, download, stream, share, rename, search, list | `HttpHandler`, `handle_client` |
| `UserManager` | `users`, `messages` | register, login, profile, messages | `HttpHandler` |
| `HttpHandler`, `HttpParser`, `json_helper`, `utils` | none | routing, parsing, encoding | `handle_client` |
| `Logger` | one log file and its mutex | `log` | everybody, the signal handler too |
| front end (app.js, large_file_uploader.js) | the uploader's queue and resume state | sends the chunks, three at a time | the server |

How they interact. The main thread accepts a connection, enters its descriptor
into the table of clients and queues a task for it. A worker reads the request,
calls a handler, writes the answer, and closes the connection. Handlers keep no
state between two requests but for the session table; what they share are the
connections to MySQL, the tables and the directories. The threads meet at five
mutexes: queue, client table, session table, connection pool, log. *No* mutex
covers the tables and the directories: there, requests interleave statement by
statement and file operation by file operation.

What is hard about it:

* the same connection is returned by hand and again by the handle's deleter;
* the browser resumes an upload while requests of its first attempt are still
  being handled, and sends chunks and completions a second time;
* an upload lives in two tables, a temporary directory and the directory of the
  merged files, which chunk, complete and cancel requests change side by side,
  with failing statements, a full disk, or a crash in between;
* uploads and deletes of files keep row, file and quota in step in separate
  statements without a transaction;
* descriptors are reused as soon as they are closed, while tables and tasks
  name connections by their descriptor;
* sessions are dated by a clock that may be set back or forward, collected by a
  thread that sleeps by another, and logged out in two calls;
* a transaction and its last inserted id belong to a connection, so that threads
  that share one share them too, and a connection may die under a statement;
* registrations and changes of profile check in one statement and write in
  another; only the unique keys of `users` order them;
* the browser asks for messages by a timer, its requests overtake each other,
  and a message is marked as read before anybody has received it;
* a request arrives in pieces that end anywhere, or ends in the middle; two
  hand-written codecs must agree with the browser's;
* a signal is handled on top of whatever its thread is doing, with locks that
  this thread may hold.

## 2. The modules

Each module models one component: its state as variables, one action per
critical section, SQL statement, transaction or file operation, in the order in
which the code has them. In every module the operators whose comment says "a
mutation" are plausible bugs; none is part of the specification. They serve to
show that each property notices the bug it is there for.

### ConnectionPool

`get_connection`, `return_connection` and the pattern of every caller: borrow,
use, return by hand (`HandReturn`), leave the scope, where the deleter returns
the connection again (`ScopeExit`), or leave by an exception, where only the
deleter does (`Unwind`). A call runs under `pool_mutex` and is one step.
`cv.wait` is the state "asleep", a notification chooses any sleeper, spurious
wakeups are an action. `stale` remembers whether a second return has ever freed a
connection that was lent to somebody else.

### ChunkedUpload and UploadLedger

`ChunkedUpload` has the requests init, chunk, complete and cancel of one user.
The tables `upload_sessions`, `upload_chunks`, `files` and
`users.storage_used` are `status`, `expired`, `rows`, `files` and `used`; the
temporary directories `dir` and `chunk`; the merged files `disk`. `Faults` says
what may fail, so that each property is checked under the weakest conditions under which
it holds. Any chunk may be sent at any time, also one that is recorded or being
saved: app.js does so when it resumes (section 5). `rewritten` is the set of
uploads of which a save has opened, and so truncated, such a chunk. `Overlapping` says
whether a completion may be sent while an earlier one of the same upload is under
way, as app.js may after a lost answer. `UploadLedger` is what the tables
promise: one step publishes the file, charges the user and completes the session.
`ChunkedUpload` is shown to implement it.

Abstractions. The transaction of `complete_upload` is one step: InnoDB locks the
rows it updates and shows none of its writes before COMMIT. Reads of one row that
follow each other without a write in between (the handler's check and the one in
`FileManager`) are one step: the last one decides, as no session becomes active
again. Chunk contents are "whole" or "torn". Connections are taken to be
exclusive here; `SharedTransaction` shows what holds when they are not.

### SharedTransaction

`SharedTransaction` extends `ConnectionPool` with what a borrower does between
borrowing and returning: the transaction of `complete_upload`, statement by
statement (`Begin`, `Execute`, `ReadId`, `Commit`, `Undo`), or the single INSERT
of `save_chunk`, `register_user` and `send_message`. As in `Database`, the open
transaction `tx`, its pending writes and `lastId` belong to the connection, and
`Works` (one per loan) meet on it: BEGIN commits what another thread left
open, COMMIT commits what both have written. A connection may die at any
statement or between two (`Lose`, bounded by `Losses`); the pool keeps it.
`mixed` remembers the works that had their connection together with another one.
The steps of the pool are those of `ConnectionPool`, conjoined with the
borrower's place `at`, so that the pool's properties are checked under its real
borrowers, and `SharedTransactionProofs` shows that these refine the pool.

### FileStore

`upload_file`, `delete_file`, `download_file`, streaming by id and by share code,
and the creation of share codes, for one user. A file is a row (`listed`), an
amount charged (`used`), and a file on disk (`disk`). An open file keeps its
content when it is unlinked (POSIX), so reading an open file is one step; opening
it is another, and the answer's status is sent before the second open. The fault
"answer" is a statement that MySQL executes and whose answer is lost with the connection:
the code takes it for failed.

### Server

`run` (`Accept`, `AddClient`, `Enqueue`), the worker loop (`Take`) and
`handle_client` (`Read`, `Handle`, `Write`, `RemoveClient`, `Close`), with the
kernel's descriptor table (lowest free descriptor first), clients that hang up,
handlers that throw, and signals. The bytes of a request are left out.

### Sessions

The table of `SessionManager` under the system clock, which may be set back by
`Back` ticks at any time and forward by `Ahead` ticks, `MaxAhead` in all, and the cleanup
thread under the steady one, which may be up to `Lag` ticks late. `forward` counts
the ticks that the clock was set forward, `since` its value at each login. `logout` is two calls, as in the code. Tokens are
taken to be fresh. `validate_session` is never called and not modelled.

### Accounts and Registry

`Accounts` has `register_user`, `login`, `update_profile` and the reload of the
profile for the answer, with the checks of their handlers, one step per
statement. Two rows clash when name or email are equal; the unique keys of
`users` (init.sql) are the guard of `Insert` and `Update`.
Every statement may fail, and a write whose connection dies may have been applied.
A SELECT that fails is an empty result to `register_user` and the end of the
request to `update_profile`, as in the code. `Registry` is what the accounts
promise: every request takes place at one instant between its arrival and its
answer, and is refused only if a name is taken then, a password is wrong, or
one of its own statements failed. `Accounts` implements it under the identity on
`users`, `ask`, `result` and `failed`. `Init` starts from every table of at most two rows.

### MessageTable and Messages

`MessageTable` is the server's part: the table, and `send_message`, `get_messages` and
`mark_messages_read` for the requests under way (`polls`). `LatestWith` is the query with
its limit, `Marked` the UPDATE, which marks more than the answer contains. `Messages`
composes it with the browser of one user: a timer asks for the open
conversation (`Tick`), so do opening one (`SelectUser`) and sending (`Send`). A request
goes through the SELECT, the UPDATE and the answer; requests overtake each other, and
every step may fail or lose its answer, at most `MaxFaults` times in all.

### Codecs and RequestReader

`Codecs` has the conversions as functions on sequences of characters:
`escape_json`, `JsonBuilder::build`, the string tokens and the lenient parser of
`json_helper.cpp`, `url_encode_utf8`, `url_decode` and the query string of
`HttpParser::parse`. One newline stands for all characters whose escape is a letter,
`Hex` for the bytes that must be encoded. `RequestReader` is the read loop of
`handle_client` on such a request: query, header with the length, header
with the token, empty line, body. The body is an object of fields, or the bytes
of a file or of a chunk (`kind`, `raw`). Pieces end at any unit. `Enough` is the
condition under which the loop stops, `Parsed(n)` what the parser makes of the first
`n` units, `Seen` what the handler makes of that: parameters, fields, and the content
that it stores (`Stored`; a chunk is refused unless it has its hash, a file is
taken as it is). The loop looks for `Content-Length:` in one spelling and in all that it
has read, so that with another spelling it may find the text in the body: `Says` are the
units that read so, `Announced` the length that the loop finds. The parser takes
any spelling, and `stoi` refuses lengths above `IntMax`; both are modelled.
`FormsAssumption` is what the browser's code ensures: the keys of a request differ, those
of its parameters are names without `&` and `=`, and a value that is not in quotes is a
number, `true`, `false` or `null`, hence not empty and free of whitespace, quotes, commas
and braces. Every other text over `Chars` may be a key or a value; `Chars` may be
any set, and a character for which no codec has a case stands for itself in all of them.

### Shutdown

`signal_handler` runs on the stack of the thread it interrupts: `stack[t]` is the
sequence of frames of `t`, the thread's own code at the bottom. Code that logs or
allocates is a script of lock operations (`Script`), of which `Lock` does the next:
the mutex of `Logger::log`, and the locks of the C library around the heap, the streams
and `exit`, which count as one. Tasks and the main loop allocate as well as log (`Call`),
the handler and `stop` log. A handler logs, stops the server and calls `exit`; a
second signal may come on top of the first or on another thread; the main loop
may notice that `running` is false and wait for the workers. `trapped` remembers whether a
signal has interrupted a thread that held one of the locks.

## 3. What the runs show

| Run | Instance | Shows |
|---|---|---|
| `pool` | 3 threads, at most 2 connections, 1 request each; two complete an upload, one inserts a row; one connection dies | no connection lost, no wakeup lost, every waiter served, no sharing but through a stale return; a work that did not share is atomic and answered truly; no transaction is left open on a returned connection |
| `pool_exclusive` | 3 threads, 1 connection | **violated**: two threads use one connection (database.cpp:240, 258) |
| `upload_faults` | 3 threads, 1 upload of 2 chunks, every fault, chunks sent again, overlapping completions | usage and status agree with the table of files at every step; only full uploads are published; an answered upload keeps its file |
| `upload_regular` | 3 threads, 1 upload of 2 chunks sent at any time and again, failing statements and crashes, one completion at a time | published files are intact but for uploads that had a chunk truncated by a second save; chunks the client is told to skip exist; no row without file; the ledger is implemented |
| `files_faults` | 3 threads, 2 files, every fault, executed statements without an answer too, early and double deletes | deleted files are gone, uploaded files stay, no download of a file still being written (it may be empty, of a file deleted meanwhile) |
| `files_regular` | 2 threads, 3 files | exact usage at every step, a row without its file is being deleted, the quota is exceeded by at most one largest file per other thread |
| `server` | 3 connections, 3 descriptors, 2 workers, queue of 2, every event | one owner per descriptor, table follows descriptors, no task forgotten, every connection served |
| `sessions` | 2 tokens, 2 threads, 8 ticks, clock set back and forward | refused once means refused for ever, nobody is refused earlier than by the ticks that the clock was set forward, nor collected later than by those it was set back |
| `accounts` | 3 threads, 2 names, emails and passwords, tables of 0 to 2 rows, 1 request each | no two accounts share a name or an email; every request takes place at one instant |
| `messages` | 2 conversations, limit 2, 2 polls at a time, 3 messages, 1 fault | a message is marked as read only while its receiver asks for it; the browser ends up showing the open conversation; no deadlock |
| `requests` | every value of up to 2 special characters, files and chunks, every cut into pieces, stops and resets, both spellings, a text like the header in a body, one length that `stoi` refuses | the handler sees what the browser meant; it never acts on a part of a parameter, a field or a chunk, but `file/upload` stores a beginning of its file; a complete request is served without waiting, unless its body announces more |
| `shutdown` | main and 2 workers, 2 signals, 2 calls to log or to allocate besides the handlers' | a signal ends the process unless it interrupted a thread that held the logger's mutex or a lock of the C library |

Why the bounds are enough to be of use. Sharing a connection takes three threads:
one that returns twice, one that is lent the connection in between, one that is
lent it afterwards; with two connections the woken and the lending compete. One
loan each suffices for that, and two completers with one inserter share a
connection in every pair of roles; a dead connection leaves the other one alive.
An upload needs two chunks so that "some" and "all" differ and a merge is
interrupted between two files; the races are between a completion, a cancel
or second completion, and a chunk in flight, hence three threads, and two paths so
that a second publication has a place to go. Three threads also let a late save, the
chunk that was sent again and a completion meet. Three descriptors let the
server hold one connection per thread, and the third connection meets descriptors
that were used before; a queue of two is filled by three. A session lives for four
ticks of eight, the cleanup comes every two or three, so that a session may
expire before, at and after a cleanup, with the clock set back or forward, by half
of that life, in between.
Two registrations and a rename that frees, or takes, the name in between are three
requests, on tables where the name is taken, free, or the renamer's. Three
messages exceed the limit of two; two polls overtake each other. Two characters
make an escape and what follows it, or an escape that is cut off. Two signals
are all that `main` installs handlers for; the second one can interrupt the handler
of the first, on the same thread.
All counters are bounded: `Requests` (loans per thread), `MaxTime` (ticks),
`Losses`, `MaxAhead`, `MaxMessages`, `MaxFaults`, `MaxCalls`, the sets of uploads, files, tokens
and connections (each used once). Deadlock is checked in `messages`, where
the timer goes on for ever, and nowhere else: the other instances end when their
requests are used up, and the server also by a signal.
Threads, paths, tokens, codes, names, emails and passwords are permuted only in
runs without liveness.

Faults left out of a run are those under which its properties do not hold in
the code: `upload_regular` has neither "cancel" nor "commit" nor "disk" nor
overlapping completions, `files_regular` has no fault and clients that delete once.
`PublishedFileIntact`, `NotRefusedEarly`, `NoTornValue`, `CompleteIsServed`,
`SignalEnds` and `Isolated` name their exceptions in the property. Section 5 says what
happens then.

Fairness. `pool`: weak fairness of each thread's next step once it has asked for a
connection. The scheduler runs every thread and statements end; nobody is
obliged to ask, and spurious wakeups are not relied upon. `server`: weak fairness
of the main loop and of each worker; this includes that reads end, which is the
client's doing (the code has no timeout), and that handlers and writes end.
Clients, events and spurious wakeups get no fairness. `Served` is about
executions in which the server goes on and no handler that threw has kept a descriptor.
In `pool` the fairness of a thread includes its statements (`Proceed`); nobody is
obliged to lose a connection. `messages`: the timer goes on while a conversation is
open and a request slot is free (`setInterval`), and a request that is under way is handled
or lost; nobody is obliged to send or to select. `requests`: a worker that has
input reads it (`Serve`); the client need not send anything. `shutdown`: a thread
that can take a step does, and the kernel delivers a signal that is pending to
some thread; nobody is obliged to send one.

## 4. What is proved

For any number of threads, connections, requests, lost connections, uploads,
chunks, paths, files, descriptors, workers, messages, tokens, ticks, names, emails and
passwords, and for requests of any length over any alphabet, from the named assumptions in the modules (types of the constants,
sentinels that are not among the values).

| Theorem | Module | Says |
|---|---|---|
| `TypeCorrect`, `NothingLost`, `ExclusiveLending`, `WakeupsSuffice` | SharedTransactionProofs | the pool's four invariants of the run `pool` |
| `BorrowersRefinePool`, `PoolSafe` | SharedTransactionProofs | the transactions of the real borrowers implement the pool, so these invariants hold under them |
| `NothingLeftOpen` | SharedTransactionProofs | `NoTransactionLeftOpen`, whatever fails and whoever shares a connection |
| `AloneIsIsolated` | SharedTransactionProofs | `Isolated`: a transaction that never shared its connection is atomic and answered truly |
| `TypeCorrect`, `TablesAgree`, `UploadsFull`, `AcknowledgedStays`, `ChargesExact` | ChunkedUploadProofs | `TypeOK`, `CompletedIffFile`, `OnlyFullUploads`, `AcknowledgedFileStays`, `Accounting`, under every fault, resend and overlapping completion |
| `LedgerImplemented` | ChunkedUploadProofs | every step of a request is a step of `UploadLedger` or a stutter |
| `OneFile` | ChunkedUploadProofs | while no two completions of an upload overlap, it has at most one file |
| `RowsHaveFiles` | ChunkedUploadProofs | `RowHasFile`, if no COMMIT loses its answer |
| `RecordedChunksStay` | ChunkedUploadProofs | `RecordedChunkOnDisk`, if the UPDATE of a cancel does not fail |
| `PublishedIntact` | ChunkedUploadProofs | `PublishedFileIntact`, if the disk does not fill up: a published file is whole, unless a save truncated a chunk of its upload that was recorded or that another save had open |
| `RequestsConsistent`, `PathsKeptApart`, `SingleCompletion` | ChunkedUploadProofs | the strengthenings below |
| `TypeCorrect`, `DeletesFinal`, `UploadsStay`, `DownloadsIntact` | FileStoreProofs | the four invariants of the run `files_faults`, under every fault and whatever clients delete |
| `QuotaBounded` | FileStoreProofs | `OverrunBounded`, likewise |
| `RowsOnDisk` | FileStoreProofs | `ListedOnDisk`, if no statement fails and nothing crashes (`Calm`) |
| `StorageCounted` | FileStoreProofs | `StorageExact`, if besides a file is deleted once, after its upload was answered (`Regular`) |
| `TypeCorrect`, `OwnersAlone`, `TableComplete`, `NoLostWakeup` | ServerProofs | the four invariants of the run `server` |
| `TypeCorrect`, `NeverAcceptedAgain`, `RefusedOnlyAfterTimeout`, `ExpiredCollected` | SessionsProofs | the four invariants of the run `sessions`, with the clock set back and forward any number of times and by any amount |
| `NamesUnique` | UserManagerProofs | `OneAccountPerName` |
| `AccountsLinearizable` | UserManagerProofs | `Accounts` implements `Registry` |
| `ReadOnlyByReceiver` | UserManagerProofs | the action property `ReadByReceiver` |
| `ReaderSafe` | RequestReaderProofs | the loop hands over what it takes for complete, or all that was sent by a client that stopped |
| `DecodeReads`, `ParamsRead` | RequestReaderProofs | `UrlDecode` undoes `UrlEncode`, and `Params` undoes `Query`, for texts and lists of any length |
| `ParseReads` | RequestReaderProofs | `Parse` finds in every beginning of `Build(fields)` only fields that are there, in the whole all of them |
| `WholeFormSeen`, `NothingTorn` | RequestReaderProofs | `HandlerSeesForm` and `NoTornValue`, for all forms, files and chunks: with the one exception of `file/upload` |

The conditions are those under which the code has the property: section 5 names
the behaviour that breaks it without. Each of these theorems needs less than the
run that checks its property excludes: all three allow overlapping completions,
`RowsHaveFiles` and `RecordedChunksStay` a full disk, `RecordedChunksStay` and
`PublishedIntact` a COMMIT without an answer; `QuotaBounded` allows every fault,
`RowsOnDisk` clients that delete twice.

The arguments. *Pool*: `NoConnectionLost` is inductive with the types, because
whoever is lent a connection is a user until it returns it, whether that return
frees it or not. `NoLostWakeup` counts: a return that adds a free
connection wakes one sleeper if there is one, and a waiter goes to sleep only
when nothing is free. `ExclusiveUntilStaleReturn` is inductive as it stands,
since while `stale` is false a second return finds the connection available and
changes nothing.

*Transactions*: `PoolStep` shows that each step of a borrower is a step of the pool or
leaves it alone. An open transaction is accounted for by `OpenInv`: its
connection is alive and has a user that is between its BEGIN and the end of its
COMMIT or ROLLBACK. This holds although BEGIN and COMMIT act on whatever is
pending: when two completers share, the first COMMIT closes for both. That a
completer returns only after one of the two calls is why the last user of a
connection leaves none open. `Isolated` rests on `IsoInv`, about the works that are
not in `mixed`: their thread is the only user of its connection (`Alone`), which
lasts because whoever joins marks both; pending writes belong to the current work
of the thread that holds the connection (`PendingOwn`), so that a BEGIN finds none of
them to commit and a COMMIT commits none of another's; and `UnderWay`
says at each call what has been written so far, exactly, and whose the last id is. What a
COMMIT makes permanent is then the whole work, what a ROLLBACK undoes all of it.
The exception for dead connections is the COMMIT whose answer is lost.

*Uploads*: the properties are not inductive alone. `RequestInv` adds what
threads know: a completion under way has seen all chunks recorded, a session
about to be inserted has no row and one thread. `PathInv` keeps the files apart:
the paths of two merges differ, and differ from every published path, so that an
error path unlinks only its own file. `SingleInv` says, for clients that send
one completion at a time, that a completion past its check belongs to an
upload that is not published; it gives "published once" in the ledger, and `OneFile`.
`Accounting` is proved of the ledger, whose only step that changes the sum adds one row
and its size, and carries over by the refinement. For `RowHasFile`, a new row is
that of a Publish, whose file was just written, and `PathInv` keeps every unlink away
from it. For `RecordedChunkOnDisk`, `ResumeInv`: a thread that clears a directory
belongs to an upload that is over (`ClearedOver`), so that the file of a chunk
exists from its opening on while the upload is active (`ChunkThere`); this is also where a
failing cancel breaks it. For `PublishedFileIntact`, `WriterInv` is about the uploads that are not in `rewritten`:
a chunk that a save has open is unrecorded and no other save has it open (`OneWriter`),
as whoever opens one against this rule puts the upload into `rewritten`, for good; and
it is no longer torn when it is recorded (`WrittenChunks`). Merging, which starts with all
chunks recorded, then reads whole ones only, and `MergedInv` follows the merged file into the
table.

*Files*: `PlacesInv` says what a request knows of its file at each statement. A file
that nobody has written is known to its upload alone (`NewUntouched`), an upload
is alone with its file until the INSERT (`OneUpload`), the UNLINK of a delete comes before
its DELETE (`DeletePlaces`), rows are about files written to their end (`WrittenFirst`).
The quota needs sums: `QuotaInv` adds to the usage the sizes of all uploads that are
not charged yet (`Uncharged`).
A check that passes saw a usage within the limit with its own file included, and at
most one upload for each other thread is under way, none larger than the largest file; a
charge moves a size from one side to the other, with or without an answer, a failure
drops one. For the exact usage,
`DeleteAlone` and `RowsInPlace` say that no second request changes the row that
is being charged or deleted, so that each file enters and leaves `Charged` once.

*Sums*: `SumFunction` of the community modules is a recursive function over the
subsets of the domain. `SumTheorems` shows what it does when one index is added,
removed or changed. The induction behind it is done without the library's
theorems that take a predicate: the subsets for which the claim holds are a set, and a
smallest one outside it is contradictory, as the subset order is well-founded.

*Server*: `OneOwner` and `TableMatches` are inductive together with the types. The types
say where a descriptor is held: by main between accept and enqueue, by a worker
between dequeue and close. `accept` gives a descriptor that is not open,
hence held by nobody; the entry of the table is removed before the
descriptor is closed, hence before it can be given out again. `NoTaskForgotten`
counts: a worker goes to sleep only when the queue is empty, `enqueue` wakes one
sleeper if there is any, and a worker that comes back looks at the queue before it sleeps.

*Messages*: `TableType`: the sender and receiver of a message are users and the open
conversation is one with a partner, so that a poll never asks for the user's own name;
`Marked` then changes only messages to the user from that partner.

*Sessions*: four facts strengthen the properties. `Erased`: a token whose end was
told is not in the table, which is stronger than refused (the clock may go
back and make an old entry valid again, an erased one never). `LeavingStarted`: a
thread deletes only tokens that were started. `Ages`: an entry is dated by the
clock of its login, so its age on the system clock is at most its age on the steady
one and the ticks set forward since (`NoOlder`). `Stamped` and `Swept`: the dates are bounded by the clock, and what was
expired at the last cleanup is gone.

*Accounts*: `AccInv` relates a thread's place to its request: at "insert" it has a
registration with a name, at "change" and "reload" a change of an existing
row, and an open result until "reload". Uniqueness then is the guard of the two
writes. For linearizability each write or refusal is the instant of its
request; a check that found a clash is a refusal at the SELECT, a check that
found none is a stutter, and every failing statement is a failure in `Registry`.

*Requests*: `ReaderInv` says why a request was handed over, and the lengths of its
parts then say what was read of it: with a token the whole query, and of the body
a beginning. `StoredIs` and `SeenIs` reduce what the handler sees to this: a chunk
that has its hash is the chunk that was sent, a file any beginning of it, and all of
it when the body was read as a whole. The rest is about the codecs. They are recursive functions on texts of any
length, and the library's induction theorems are of no use here, as they take a predicate.
Three devices replace them:

* *Positions.* A flattened sequence of pieces is known by the place where each piece begins
  (`FlattenPieces`): piece `i` stands right after the first `i - 1`. Escapes in
  a string, codes in a query, parameters between `&` and fields between commas are all
  pieces, so that what a text holds at each position is a fact without recursion
  (`QuotedShape`, `EncodedShape`, `JoinShape`).
* *Equations.* Each reader is a function on positions defined by itself further right.
  That such a function exists is not taken from its definition: `TokenRecursion`,
  `FieldsRecursion`, `DecodeRecursion` and `ParamsRecursion` build it from the end of the text.
* *Sets.* The positions at which the reader returns what it should are a set. It has all of
  them, from the last one back (`Backwards`): `TokenReads` for a string, `DecodeReads` for a
  value, `FieldsRead` and `ParamsRead` for lists.

That an object of fields may be cut off makes the object the hard case. The parser looks for the outer
braces with a trim at both ends, so a beginning of the body passes as an object when the
last character that was read is a brace or whitespace after one, wherever it stood
(`InnerOf`). `FieldsRead` is therefore about every beginning of the fields that
is followed by a brace: either it ends with a whole field, or the brace stood
inside a string, and then this string has no end in what was read and is
refused (`ValueRead`, `KeyRead`). A brace cannot follow the beginning of a number,
as a number has none. This is why no handler sees a part of a field.

Only model-checked: the liveness properties (`WaiterServed`, `Served`,
`ShownInTheEnd`, `CompleteIsServed`, `SignalEnds`), out of the provers' reach, and the
violation of `Exclusive`.

## 5. Disagreements seen

One run is kept that refutes something the repository says of itself; it is
listed under `findings` in PROJECT.json with the line it quotes. TLC also
showed, by the same models with other constants or by hand-written properties:

* two threads that share a connection mix their transactions: one's COMMIT
  publishes half of the other's writes, `last_insert_id` may be that of the other
  one's row, and a ROLLBACK undoes what was answered (file_manager.cpp:476-545);
  `Isolated` fails without its exception for `mixed`;
* a cancelled session becomes completed when the completion has read it before
  the cancel (file_manager.cpp:514; docs/LARGE_FILE_UPLOAD_PLAN.md:189);
* two deletes of one file subtract its size twice (file_manager.cpp:775;
  include/user_manager.h:15);
* a full queue ends the process, as nobody catches the exception of `enqueue`
  (server.cpp:305, include/thread_pool.h:52);
* a session in use times out, as a lookup does not refresh it
  (session_manager.cpp:71-88; include/session_manager.h:21 has a timeout "without access");
  only `validate_session` would, which nobody calls;
* a session is refused early by as much as the system clock is set forward
  (session_manager.cpp:42): `NotRefusedEarly` fails without these ticks;
* a connection that died stays in the pool with `connected` true: its borrowers
  are refused until a restart (database.cpp:79);
* a SELECT of messages that fails is answered as an empty list with status 200, and
  the messages are marked as read all the same (http_handler.cpp:1020-1021);
  so are messages beyond the limit of the query, which nobody has seen;
* an older answer, or that of the conversation left before, replaces newer
  messages until the next poll (static/app.js:1609); it heals;
* when the SELECT of a registration fails, the INSERT is tried all the same, and
  the unique key alone decides (user_manager.cpp:130);
* a change of profile is answered with 500 although it was made, when the profile
  cannot be read again afterwards;
* a request with `content-length` in lower case, or with a length beyond `int`, is
  dispatched without waiting for its body (server.cpp:172-190); when its body contains the
  text `Content-Length:` and a number, the loop waits for that many bytes instead;
* `file/upload` stores whatever body it is given as the whole file and answers "Upload
  success" (http_handler.cpp:665): a beginning of it when the client stops in the
  middle (server.cpp:209), no bytes or a beginning when the length is in lower case, none when
  it is beyond `int`; `NoTornValue` fails without its exception for `kind = "file"`;
* a signal that interrupts a thread inside the logger, or while it allocates,
  hangs in the handler: the handler logs, allocates the message and calls `exit`, and the
  mutex or the lock of the C library is held by the code under it (main.cpp:15-20,
  logger.cpp:54; main allocates at server.cpp:302-305): `SignalEnds` fails without `trapped`;
* a chunk in flight creates the temporary directory again after a cancel
  (file_manager.cpp:250; docs/LARGE_FILE_UPLOAD_PLAN.md:328 wants it gone);
* a cancel that updates no row is answered "Upload cancelled" although the
  upload is complete (file_manager.cpp:561, http_handler.cpp:629-633);
* a cancel whose UPDATE fails removes the chunks all the same, and a resuming
  client skips them (file_manager.cpp:568; include/file_manager.h:66);
* a late save truncates a chunk under the merge, and the published file is torn:
  `PublishedFileIntact` fails without its exception for `rewritten`. app.js does this by
  itself: when one of three chunks fails, `Promise.all` rejects while the others are in
  flight, the upload id is kept (static/app.js:1281-1292), and the next attempt sends
  every index that is not recorded yet (static/app.js:1184-1232). The second
  save of an index may be recorded, and the completion start to merge, before the first one
  reaches its truncating `ofstream` (file_manager.cpp:252);
* two overlapping completions both pass the check of the status (file_manager.cpp:420), both
  read the session as "uploading", merge to two paths and commit: the file is published twice
  and charged twice. `OneFilePerUpload` fails with `Overlapping`, and the ledger promises
  one publication (`Once`) only without it.
  app.js reaches this too: after a lost answer it resumes, progress does not tell that a
  completion is under way, and it completes again (static/app.js:1184-1202, 1295);
* a COMMIT that is applied and whose answer is lost makes `complete_upload`
  unlink the file under its row (file_manager.cpp:525): `RowHasFile` fails with "commit";
* the quota is checked when a session is created, and charged when it is
  completed (file_manager.cpp:141, 503): several sessions exceed it together, and
  nothing bounds their number, so that no property about chunked uploads states a quota;
* a crash between the INSERT and the UPDATE of `upload_file` leaves a file that
  is never charged (file_manager.cpp:612-625), and a charge that fails before its
  DELETE fails leaves a row without a file;
* a charge that MySQL executes and whose answer is lost stays although the upload is
  undone (database.cpp:79, file_manager.cpp:625); likewise a delete whose row is gone but
  whose answer was lost never gives the storage back (file_manager.cpp:775);
* a delete whose DELETE fails has unlinked the file already: the row stays without it
  (file_manager.cpp:765-775);
* a download of a file that is deleted after its header was sent is a status 200
  with the announced length and no body (server.cpp:237-241);
* a handler that throws leaves its descriptor and its client entry behind
  (server.cpp:210; include/client_manager.h:83);
* `exit(0)` in the signal handler drops the connections under way
  (main.cpp:20, the comment at main.cpp:10 says "graceful").

## 6. Not modelled, and the plan

Not modelled: rename, search and list (columns and reads that no property tells
apart); the operations that nothing calls (`validate_session`, `update_password`,
`delete_user`, `get_user_by_username`, the quota functions of `UserManager`, prepared
statements); control characters that `JSON.stringify` writes as `\u00XX`, an escape the
token reader takes for the letter `u` and four digits (json_helper.cpp:38); the lines of
a header other than the length and the token, and cuts inside a line of it (the loop
looks for the empty line after it); so also `X-Filename`, which `file/upload` looks up in this
spelling (http_handler.cpp:658) after the parser has lowered the names (http_parser.cpp:71),
and thus never finds; the destructors of statics that `exit` runs while other threads
still log, and the difference between the locks of the C library, which `Shutdown` counts as one;
the route table and the handlers that only read; `build_response`, the conversions to numbers, time
formatting; SIGPIPE; the socket set-up; the
destruction of the server's members, which main can only begin while a handler on
a worker is about to call `exit`; the getters of the client table and of the queue;
the deployment scripts. PROJECT.json lists each component with its status.

Hazards without a property carry a note with the reason. Most are what the code does, listed
in section 5: there is nothing to show but the absence of anything else, which the
properties with a named exception do. A pool without any connection and a client that
sends nothing block for ever, a dead connection stays in the pool, and nothing bounds the open
sessions of chunked uploads: the code promises nothing else. The uploader's resume is the plan
below.

What is left: `Uploader`, the front end's queue, its three chunks in flight, the shared abort
controller and resume, composed with ChunkedUpload in place of its free
requests. Hazard: static/app.js:1192.

Runs are few and each holds several properties: related questions share an
instance, chosen as above.
