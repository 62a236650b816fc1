# WatDFS in TLA+

WatDFS is a file system in user space: each client caches whole files of one
server, checks their freshness by modification time, and guards transfers with a
reader-writer lock that lives on the server. These modules model the lock
(`rw_lock.cpp`), the server (`watdfs_server.cpp`) and the client
(`watdfs_client.cpp`), from the code; TLC checks them on small instances and
TLAPS proves nearly all of the safety properties that TLC checks, for every instance.

## The system

| Component | State | Operations | What makes it correct |
|---|---|---|---|
| `rw_lock` | mutex, condition variable, `num_readers_`, `num_writers_`, `num_waiting_writers_` | init, lock, unlock, destroy | writers exclude everybody, no lost wakeup, writers are not starved by readers, misuse never breaks the counters |
| server, open table | `openFilesStatus_s`: path -> (`serverMode`, `openNum`, `lock`); descriptors; files; one `errno` per thread | `watdfs_open`, `watdfs_release`, and `getattr`, `mknod`, `read`, `write`, `truncate`, `fsync`, `utimensat` | one writer per file; nobody who has the file open drops out of the table |
| server, lock calls | the locks of the table, threads sleeping in them | `watdfs_lock`, `watdfs_unlock` | a lock is not taken away under those who use it |
| client, operations | `openFilesStatus`: path -> (`clientMode`, `tc`, `serverDesc`, `clientDesc`); cached copies | the nine `watdfs_cli_*` calls of FUSE | what is open stays open; a reader sees a copy no older than the interval; a write reaches the server |
| client, freshness | `tc`, `cacheInterval` | `cli_freshness_check` | compares the times when the interval has passed |
| client, transfers | local variables over eight remote calls | `cli_downloadFile`, `cli_write_back` | atomic; unlocks whatever happens; carries the bytes and the time; what is found fresh afterwards is current |
| client, chunks | loop variables, two buffers | `copy_read`, `copy_write` | all bytes, once, in order; an answer that says how many; no copy outside of the buffers |
| remote calls | marshalled arguments | `copy_*`, `watdfs_cli_lock`, `watdfs_cli_unlock` | a call that is not answered is an error, whether or not the server handled it |
| start and stop | userdata, registration | `watdfs_cli_init`, `_destroy`, `main` | a client that is mounted again takes its old copies for what they are |
| FUSE, kernel | open handles of applications | | external: which call may follow which |

Clients call the server; the server answers and never calls back. Clients meet in
the server's table, in its locks and in the files. A client runs one call at a
time (it is started with `-s`); the server has a thread per client. What is hard
is that an operation is up to a dozen remote calls, between which other clients
run; that the lock guarding a transfer is created by the first open and destroyed
by the last release; that the table is used by several threads without a lock; that
failures, and calls without an answer, return early in the middle of a transfer; and
that the maps are read with `operator[]`, which inserts what it does not find.

## Modules

| Module | Models | Role |
|---|---|---|
| `RWLockAbs` | what `rw_lock.h` promises | abstract specification |
| `RWLock` | `rw_lock.cpp` | a step is what a thread does between two points where another can run; `pc` names them |
| `RWLockProofs` | | inductive invariant, refinement |
| `WatDFSServer` | `watdfs_server.cpp` | one operator per handler; `ServerSpec` is the server among clients of any kind |
| `WatDFSServerProofs` | | inductive invariants of the table and of the files |
| `ServerTable` | `watdfs_open`, `watdfs_release` | a step is one expression that uses the table, or one system call |
| `ServerTableRaces` | | `ServerTable` with history variables, to say what the table is worth while calls overlap, and when the handlers are as good as atomic |
| `ServerTableProofs` | | inductive invariant of the table under overlapping calls, path by path |
| `Transfer` | `copy_read`, `copy_write`, `watdfs_read`, `watdfs_write` | a step is one remote call of a loop |
| `TransferProofs` | | loop invariant |
| `WatDFS` | `watdfs_client.cpp`, on top of `WatDFSServer` | a step is one remote call with its handler and what the client does with the answer |
| `WatDFSProofs` | | inductive invariant of clients and server together; `WatDFS` implements `ServerSpec` |
| `ExclusionProofs`, `ContentsProofs`, `OpenersProofs` | | on top of it: who transfers, what a transfer leaves behind, who has the file open |
| `WatDFSFresh` | | `WatDFS` with history variables, to say what a freshness check is worth |
| `MCRWLock`, `MCWatDFSServer`, `MCServerTableRaces`, `MCWatDFS`, `MCWatDFSFresh` | | symmetry and data for TLC |

**State.** `WatDFSServer`: `files` is the server's directory, `openFilesStatus_s`
the table, `lk` the counters of each lock object, `waiting` the threads inside
`rw_lock_lock`, `errno` the variable of each client's thread (nothing clears it,
and three handlers answer with it although no call failed), `fds` the descriptors
and the client that was told of each. `WatDFS`: `cache` is the cached copy of each
client, `openFilesStatus` its map, `fi` the handle its application holds, `pc` and
`frame` the remote call it is about to make and the local variables of its
operation.

**Handlers** are relations `watdfs_open(c, p, flag, ret, fh)`: the last arguments
are the answer. `ServerNext` hides it; a client's step in `WatDFS` uses it. This
is why the same definitions serve both modules, and why `ServerSpec` can be
checked as a property of `WatDFS`.

**The lock in two grains.** `RWLock` has the mutex, the sleepers and the spurious
wakeups. `WatDFSServer` uses what it implements: a request, and later a grant,
whose guard `MayHold` is the guard of `GrantRead` or `GrantWrite` in `RWLockAbs`.
`rw_lock_destroy` is modelled with the C library the code is built for: glibc counts a
thread in `pthread_cond_wait` as a user of the mutex, so while somebody sleeps
`pthread_mutex_destroy` answers `EBUSY` and the condition variable is not reached (rw_lock.cpp:48).

**The table in two grains.** In `WatDFSServer` a handler is one step. `ServerTable`
runs open and release label by label, one for each expression of the code that uses
`openFilesStatus_s` (debug messages too: they use `operator[]`), so that threads
interleave. The refinement mapping is `SettledTable`: an open has its effect at
`open(2)`, a release at `close(2)`, so the entry of a path whose call is under way
is the one before, or after, what the call still has to do. It is kinder than C++:
one expression is several accesses, and two threads in the map at once may break
the tree itself. `AtomicWhenAlone` (in `table_races`) says what the grain of `WatDFSServer`
is worth: with this mapping every step is the whole call or nothing, while no two calls are on
one path, whatever overlapped before. The server does nothing to keep them apart; what is
true of the table when calls do overlap is the question of the other properties of
`table_races`, and of the proofs.

**Calls without an answer.** `rpcCall` may fail (`rpc.h`), and every `copy_*` function
then returns `-EINVAL`. In `WatDFS` the request or the answer is lost: the handler
has run, or has not, and the client gets `-EINVAL` and no output arguments.
`MaxLost` bounds how often; a lost answer also uses up one of the `MaxCalls`, so that
runs with losses are not longer than those without. A client whose lock request was
granted without its learning of it is where `LockLeaked` comes from.

**Mounting again.** `Remount` is `watdfs_cli_destroy` and a later `watdfs_cli_init`: an
empty map, the old files in the cache directory, and a server that still counts
what failed operations left open.

**Chunks.** `Transfer` names a byte after where it comes from, so that one that arrives
twice, or in the wrong place, is seen. `int` arithmetic that overflows has either
outcome a build can give it (wrapped, or computed in a wider register); a copy whose
length is negative or leaves a buffer ends the model (`pc = "undefined"`).

**One file.** Every table of the program is keyed by path and no operation uses two
paths, so `WatDFS` follows one file; `WatDFSServer` keeps paths as a parameter and
the proofs are for any number of them.

**Clients.** `op_*`, `mk_*`, `dl_*` and `wb_*` labels are the remote calls of the
operations, of `mknod`, of `cli_downloadFile` and of `cli_write_back`, in the order
of the code. `check` is `cli_freshness_check`, a remote call only when the interval
has passed. Waiting for the server's lock (`dl_wait`, `wb_wait`) is a step of its
own. With `ViaKernel`, calls come as the kernel makes them: a path is looked up
before it is opened, made or truncated, and reads, writes, fsync and release need
an open handle. Without it any call comes at any time, which reaches the branches
for files that are not cached.

## Runs

| Run | Question | Bounds, and why they are enough |
|---|---|---|
| `lock` | exclusion, exact counters, no lost wakeup, implements `RWLockAbs`, readers do not starve the writers | two readers and two writers: each kind can wait for its own kind and for the other |
| `lock_misuse` | do the counters survive threads that unlock what they do not hold | the same |
| `server_table` | one writer, counts, locks and types, for clients that make any call of the server at any time | two clients; two descriptors, so that two opens, or one and a leak, exhaust them; two locks, one in the table and one that a sleeper still uses; counts up to 2; a file that may not exist. `WithoutTimes` merges states that differ in modification times only, on which no handler depends |
| `table_races` | does `openNum` count everybody, is there one writer, while opens and releases of one file overlap in any way; are the three windows the only ways to break that; are the handlers as good as atomic while they do not overlap | three clients on one path, so that a call can be overtaken by a whole other call while a third joins or leaves; three descriptors, so that each can have one and opens fail; nothing is looked for behind a state in which a call was caught in a window. One path is enough: entries of different paths have nothing in common but descriptors, locks and threads |
| `chunks` | does an answer of `copy_read` or `copy_write` say what was moved; do the copies stay in the buffers | chunks of 2 bytes, sizes and files of 0 to 7: none, one, two and three chunks, exact and with a rest, files shorter and longer than asked for; `INT_MAX` 5, so that some sizes exceed it |
| `transfer` | are transfers atomic, do they carry the right bytes and time, through the right descriptor; does an open file stay open; is a copy that is found fresh current; does the server count what is open | two clients, six calls, one of which may be a lost remote call: both can look up, open and transfer, one of them after the other's upload; files of 0 or 1 byte of two values, so that sizes and contents can differ; three seconds and t = 1, so that copies become stale and are stamped later than what they copy; four descriptors |
| `all_calls` | does what was opened stay open; is the server used only as `ServerSpec` allows | any three calls of any kind or remounts, one remote call lost, two descriptors so that open fails |
| `calls_return` | does every call return | t = 0 (every access asks the server), four calls, one remote call lost |
| `doc_upload`, `doc_unlock`, `doc_map`, `doc_races` | four statements of `MANUAL.md` that do not hold | see below |

The largest, `transfer`, has about 1.1 million states; no run takes much more than three minutes.

Deadlock is not checked where the system may stop: when the clients of `ServerSpec`
wait for locks that they never give back, and when the calls of `WatDFS` are used
up. `MaxCalls`, `MaxCount`, `MaxLen` and `MaxTime` are bounds of the models only,
each named in its module. `MaxCount` is out of reach in the runs of `WatDFS`.

`transfer` leaves out `truncate` of a file that is not open, and `mknod`. With the
first, `TransferExclusion` is false: the upload of `watdfs_cli_truncate`
(client:2320) asks for the lock of a file it has not opened; if nobody else has it
open there is no lock, `rw_lock_lock` fails, and `watdfs_lock` answers the thread's
old `errno`, 0 at best, so the upload goes on beside a transfer that starts
meanwhile. With `mknod`, `UploadPublishes` is false: `mknod` stamps the new file
with a second call (client:1808), and another client may have opened and uploaded
the file in between.

### What a freshness check is worth

`FreshIsCurrent` (in `transfer`): when a check has compared the modification times and
found the copy fresh, the copy has the contents of the server's file, in whatever order
the file was stated, uploaded and downloaded and whatever failed. The history variable
`clear` names what the code cannot promise, and the property needs it:

* two contents with the same time, in seconds (client:1156): a change within the second
  of the last one is taken for fresh. This includes the empty copy that a failed
  download leaves, stamped with the present second (client:1287);
* a download whose stat (client:1236, before the lock) falls in the middle of another
  client's upload: the old time or the time of truncation is then stored with other
  contents;
* a check in the middle of an upload, whose file is empty or has not its time yet.

### What `openNum` counts

The life of a file's lock depends on `openNum`. In the server alone `TableCountsExactly`
(in `table_races`) says what it is made of: descriptors, calls on their way to or from one,
and opens that failed unnoticed. `OpenNumExact` (in `transfer`) says that it is
the number of the applications' handles and of the downloads between their open and their
release, as long as nothing has failed (`smooth`); then the last release does take the
file out of the table. After a failure it is an upper bound (`OpenNumCovers`); both are
proved. What is counted and never given back: an open that the client refuses (client:2021), a download that returns early
(client:1260-1320) and an `open(2)` that fails unnoticed (server:243) stay counted for ever.

### What the table is worth while calls overlap

Nothing keeps the calls on one path apart. `ServerTableRaces` runs them in any
interleaving and remembers in `raced` on which paths a call was caught in one of three
windows, acting on a test that no longer held:

* `watdfs_open` puts a new entry (server:239) that replaces one that by now counts
  somebody, or that another call has found and will come back to (`Discards`);
* `watdfs_release` erases such an entry (server:335);
* `watdfs_open` sets write mode (server:182) after another one has (`SetsTwice`).

On all other paths `TableCountsExactly` and `OneWriterUnlessRaced` hold, however the calls
overlap otherwise: joins and leaves in any order, a release that closes while an open is
between `openNum` and `open(2)`, entries inserted by `operator[]` in a debug message.
A server that ruled these three out would need nothing else for the two properties. Nor is
any window named too wide: with one of the three taken out of the history, or one of the
labels of `Found`, or either half of `Discards`, TLC finds one of the properties violated.
One such case is a release that an opener has overtaken: between its `openNum -= 1` and
its look at the mode the opener replaces the entry by one of its own, and the release
then resets `serverMode` (server:327) of that one, so that a second writer gets in.

### What an answer of a transfer is worth

`ReadDelivers` and `WriteDelivers` hold for every answer that is not negative, up to
`INT_MAX` bytes. Around them:

* `CopiesInside` exempts a loop in which a call is answered by an error or not at all:
  `mempcpy` gets the negative answer, or that of the chunk before once more, before
  anybody looks (client:494). A negative length is undefined, whatever the buffer. A chunk
  copied once more is harmless while the buffer has room for it, and the error is then
  returned; at the end of the buffer the copy writes beyond it.
* `SuccessReported` exempts sizes that are multiples of `MAX_ARRAY_LEN`: the last call is
  for no bytes, `pread` and `pwrite` return 0, and the server answers `-errno`
  (server:388, 441) with whatever an earlier call left there. Where that is an error, a
  write that is done is taken for failed; a read is worse off, the negative answer is the
  length of the `mempcpy` that follows: one of the cases that `CopiesInside` exempts.
* a `pwrite` that falls short ends `copy_write` without an error, and `cli_write_back`
  looks only at the sign (client:1447): the rest of the file is lost. `WatDFS` leaves
  short writes out; `WriteDelivers` says that the answer itself is right.

### Fairness

`lock`: a thread that owns the mutex goes on (weak fairness); the mutex is granted
to a thread that asks again and again (strong fairness, what a mutex of any
scheduler that is not adversarial gives); whoever holds the lock gives it back, as
the server's clients do after a transfer. That a writer gets the lock is shown for the
writers together: `pthread_cond_broadcast` hands nothing over, so a writer that calls
again at once can be ahead of one that was woken, and with two writers one of them can
stay behind for ever. `calls_return`: each client's thread goes
on when it can; applications need not call, time need not pass. `CallsReturn` has
an escape, `LockLeaked`: after a failed transfer the lock is never given back, and
nothing could make others return.

### What the documents say and the code does not do

* `doc_upload`: `cli_downloadFile` leaves `serverDesc` 0 in the map (client:1326).
  A writer whose copy was stale when it opened the file uploads to the server's
  descriptor 0: the server's file is truncated and stays empty, or the write is
  refused with the lock held.
* `doc_unlock`: a transfer that fails returns with the file locked (client:1299,
  1427-1470). The run shows it with the download of an empty file: the server
  answers `-errno` at its end (server:388), an error if an earlier call failed.
* `doc_races`: two opens for writing that overlap both find no entry (server:170), both
  make one, and both get a descriptor; MANUAL.md:85 promises `-EACCES`. The comment at
  server:37 asks for the lock that the handlers do not take. Overlapping calls
  also lose an entry when an open joins between a
  release's test (server:332) and its erase (server:335); a release whose entry was
  erased under it finds the null lock of a new one, which `rw_lock_destroy` refuses
  with an error that is ignored.
* `doc_map`: `watdfs_cli_utimensat` inserts the path it asks about (client:2389),
  answers `-EMFILE`, and the file can never be opened again on this client.

Others that were read in the code and have no run of their own: getattr sets `tc` after
a check that the interval alone has passed (client:1650), so that lookups more often than
every t seconds keep a reader from asking the server at all, and the freshness check sets
it although the times differ (client:1216), so that after a failed download the stale copy
is fresh for t seconds (MANUAL.md:66); a write sets `tc`
before it tests the interval, so that with t > 0 it never uploads (client:2202,
MANUAL.md:67); a write that uploads returns 0 (client:2213); an open that the
client refuses with `-EMFILE` stays open and counted on the server (client:2021,
MANUAL.md:59), and a second open for writing is answered `-EACCES` by the server
before the client can answer `-EMFILE` (MANUAL.md:84); the size of a download is
asked for before the lock is taken (client:1236), so that `DownloadMatches` holds
only when the size is still right.

## Proofs

`PROJECT.json` lists the theorems. Everything below is for any number of clients, paths,
descriptors and locks, for contents of any length and for any number of calls. The
assumptions on the constants are in the modules that declare them: descriptors are
finitely many, a file can hold a byte (`MaxLen` is not 0), what applications write fits
in a file (`WriteData`), names are distinct (`NamesAssumption`).

### The lock

`RWLockProofs`. The invariant of the counters is not inductive by itself: that
`num_writers_` excludes readers needs to know who is between the test and the
`cond_wait`, so `TypeOK` and `CountersExclude` are proved together, and under
`OwnersOnly` the counters are tied to the callers: `CountersCount` and
`MutualExclusion` follow from one inductive invariant that also says that the mutex
has one owner and which labels own it. `WakeupsReach` adds that nobody can change
the condition of a sleeper to false without `Broadcast`. `Implements` maps each
step of the code to a step of `RWLockAbs` or to none; `Rewake`, `Wait` and the
calls that only take the mutex are stutters.

### The server

`WatDFSServerProofs`. The inductive invariant `TableInv` has six parts: the types of
the table, `OpenNumCovers`, `ModeCovers` (an open writer shows in `serverMode`),
`OneWriter`, `NotOrphaned` and `LocksExclude`. `OneWriter` is not inductive alone:
a release by one of several openers must not end write mode while a writer remains,
which takes `ModeCovers`; and that the entry is still there takes `OpenNumCovers`,
because only the last closer erases it. `OpenNumCovers` is an inequality: a failed
`open(2)` and an open that the client refuses are counted and never released, so
equality does not hold. A client releases what it opened, as it opened it (a guard of
`ReleaseCall`); that the clients of `WatDFS` do is `ClientsImplementServer`, below.
`FilesInv` adds that contents fit, that `errno` is one that a call has set, and that an
open descriptor is on a file that exists; with `TableInv` it gives `ServerTypeOK`.

`ServerTableProofs` is about `RaceSpec`: calls on one path overlap in any way.
`RaceInv` is about one path at a time, and about those on which no call
was caught in a window. `Exact` is the equation of `TableCountsExactly`; each step moves
one client in or out of `InFlight`, or one descriptor in or out of `Opens`, and `openNum`
with it. It is not inductive alone: that `watdfs_open` never joins an entry without a
lock takes `Locked`, that a debug message inserts none takes `Logged`, that an entry which
counts nobody is on its way out is `Swept`. `OneWrites` counts a writer from the
assignment of `serverMode` to its reset, as a descriptor or as a call, which is longer
than it has the descriptor. The three windows are used in three places only: `NoWriter`
(both kinds of `Discards`: nobody is left in the entry that goes away) and `SetKeeps`.

### The chunks

`TransferProofs`. What an answer says is the work of many calls, so no property is
inductive. `TransferInv` holds at the head of the loop: every chunk so far was answered
and full, so that `pos`, `rpcCount` and `filesize` agree (`InLoop`), the first `pos` bytes
have arrived (`ReadSoFar`), or are in the file and nothing else of it has changed
(`WrittenSoFar`). It is proved for any `MAX_ARRAY_LEN`, any `INT_MAX` not below it and any
size; that the counters agree is claimed up to `INT_MAX` bytes only, as it must be.
`LoopTypeOK`, `CopiesInside`, `ReadDelivers`, `WriteDelivers` and `SuccessReported` follow.

### Clients and server

`WatDFSProofs`. `HandlesBacked` and `OpenedHere` say nothing of a call under way, and are
not inductive: that a failed download leaves the descriptor of an open file alone depends
on where the download's own descriptor came from, a dozen steps earlier. `ProtocolInv` is
`TableInv`, `FilesInv` and, client by client, what its frame and its map contain at each
label: `Backed` (which descriptor is open for whom), `Placed` (what an operation has made
sure of before it gets to a label) and `Kept` (what the map and the cache have to do with
the application's handle while an operation runs). It holds whatever is called, through the
kernel or not, whatever is not answered, and through `Remount`. Each step is first shown
to be a call that the server handles (`Served`) and to leave the other clients'
descriptors alone (`Calm`, `Steady`). Three results for readers follow: the two properties;
`ServerAmongClients`, what is proved of the server under `ServerSpec`, for `Spec`; and
`ClientsImplementServer`, that `Spec` implements `ServerSpec`. The last one has a hypothesis:
`ServerSpec` stops counting at `MaxCount`, and `WatDFS` does not, so it is stated for
behaviours that stay below (`BelowMaxCount`); those of the runs do.

`ExclusionProofs`. `TransferExclusion` is not only a matter of the lock: the entry, and the
lock with it, is destroyed when `openNum` is 0, whoever uses it. `ExclusionInv` therefore
counts. `openNum` is at least the number of clients that have the file open, or whose map
says that they may write it, plus the number of downloads that have it open; the reader
and writer counters of the entry's lock are at least the numbers of those who download and
upload. With `LocksExclude` this gives `TransferExclusion`. Hypothesis: `mknod` and
`truncate` are not called (`Operations`). They upload a file that they have not opened, and
`TransferExclusion` is false with them, as told under Runs.

`ContentsProofs`. A transfer is several remote calls. `ContentsInv` says what each of them
has made of the file or of the copy (`Sent`, `Received`), and that it is still so at the
next one is due to `TransferExclusion`. `UploadPublishes` and `DownloadMatches` are its
last steps. Same hypothesis; with `mknod`, `UploadPublishes` is false.

`OpenersProofs`. `WriterInv`: whoever has the file open for writing is alone, and the
server's entry is in write mode; an operation that uploads, or asks whether it must,
belongs to such a client. `OnlyWriterUploads` follows. Hypotheses: calls come through the
kernel, and none of them is `mknod`, `truncate` (as above) or `utimensat`: that one uploads
whenever the map says that the client writes, and the map still says so after a release
whose write-back failed. `SmoothInv`: while nothing has failed `openNum` is exactly the
number of handles and downloads (`OpenNumExact`), whatever is called.
`FreshImplements` says that the history variables of `WatDFSFresh` change nothing of
`WatDFS`, so that its invariants carry over.

### What is model-checked only

* Liveness: `WriterGetsLock`, `CallsReturn`. Fairness and ENABLED are out of the prover's
  reach.
* `AtomicWhenAlone`.
* `FreshIsCurrent`. It needs an invariant about times that do not come back, for the whole
  history of the file, its copies and every stat on its way.
* What `DownloadMatches`, `UploadPublishes`, `OnlyWriterUploads` and `TransferExclusion` say
  of applications that call what the theorems exclude: partly false, as told above.

## Not modelled

* Handlers other than open and release are atomic: they use the table once or not at
  all. `ServerTable` has no lock calls, and no map that is broken by two threads in it.
* `WatDFS` sends contents in one call. What the loop of calls adds (`Transfer`: a
  transfer that ends in an error after some chunks, a short write, an exact multiple
  that fails) is not composed with it: a failing call in `WatDFS` stands for the first
  two only where nothing of the file has arrived, or all of it.
* Remote calls are not duplicated or reordered, and the server does not crash: its
  library is not in the repository. A client stops only between calls.
* `copy_fsync`: nothing calls it, `watdfs_cli_fsync` writes back instead. The server's
  handler is in `WatDFSServer`.
* Local system calls of the client succeed; its local descriptors are left out.
* The clocks of client and server are one clock. `pthread` calls do not fail.
* A read is only its effect on the client's state; what it returns is left out.
* Build files, scripts and logging, except a message that changes the map
  (client:2025).

## Plan

1. done: the lock, the server, their proofs; the client protocol and its runs.
2. done: transfers in chunks; opens and releases in the grain of the table; calls
   without an answer; mounting again; what a freshness check is worth.
3. done: proofs about `Transfer`, about both grains of the table (the finer one with calls
   that overlap), and about `WatDFS`:
   types, descriptors, exclusion, contents, openers, and that it implements `ServerSpec`.
4. `FreshIsCurrent`; hypotheses that exclude less (what still holds of `mknod` and
   `truncate`); `BelowMaxCount` from `MaxCalls`.
