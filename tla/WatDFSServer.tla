------------------------------- MODULE WatDFSServer -------------------------------
(***************************************************************************)
(* The server of watdfs_server.cpp: the files in its directory, the table  *)
(* of open files (openFilesStatus_s) with one reader-writer lock per open  *)
(* file, and the handlers of the remote calls.                             *)
(*                                                                         *)
(* A handler is one operator over the step it takes.  Its first arguments  *)
(* are what the client sent (client, path, ...), the last ones what it is  *)
(* answered: ret, and fh, st or data where the handler fills them in.      *)
(* ret is 0 or a count when the call succeeded and -errno when it failed.  *)
(* watdfs_lock alone can block: it is a request and, later, a grant.       *)
(***************************************************************************)
EXTENDS Integers, Sequences, FiniteSets

CONSTANTS
    Clients,      \* each has one connection, served by one thread
    Paths,        \* the short paths
    FD,           \* the descriptors the server process may have open
    Locks,        \* rw_lock_t objects
    Data,         \* what a byte of a file can be
    Zero,         \* the byte that fills a file truncated to a larger size
    MaxLen,       \* bound: the longest file
    MaxTime,      \* bound: the last second of the clock
    MaxCount,     \* bound: openNum and num_readers_, which failures can grow for ever
    Calls         \* bound: which of the remote calls the clients of ServerSpec make

ASSUME ServerAssumption ==
    /\ IsFiniteSet(FD)
    /\ Zero \in Data
    /\ MaxLen \in Nat \ {0} /\ MaxTime \in Nat /\ MaxCount \in Nat

EPERM == 1   ENOENT == 2   EBADF == 9   EACCES == 13   EEXIST == 17   EMFILE == 24   ESPIPE == 29

Errnos == {EPERM, ENOENT, EBADF, EACCES, EEXIST, EMFILE, ESPIPE}

O_RDONLY == "O_RDONLY"
O_RDWR == "O_RDWR"
OpenFlags == {O_RDONLY, O_RDWR}

RW_READ_LOCK == "RW_READ_LOCK"
RW_WRITE_LOCK == "RW_WRITE_LOCK"
LockModes == {RW_READ_LOCK, RW_WRITE_LOCK}

NULL == "NULL"            \* a null rw_lock_t pointer
Nobody == "nobody"        \* no client
Leaked == "leaked"        \* the owner of a descriptor that no reply ever named
BadFd == -1               \* what open(2) returns when it fails
StdIn == 0                \* a descriptor of the server process that is no file of ours

ASSUME NamesAssumption ==
    /\ {Nobody, Leaked} \cap Clients = {}
    /\ NULL \notin Locks
    /\ {BadFd, StdIn} \cap FD = {}

VARIABLES
    files,                \* the server's directory: path -> [data, mtime]
    openFilesStatus_s,    \* the std::map: path -> [serverMode, openNum, lock]
    lk,                   \* the counters of each lock object
    waiting,              \* what each client's thread waits for in rw_lock_lock
    errno,                \* errno of each client's thread: nothing ever clears it
    fds,                  \* what each descriptor is open on, and for whom
    now                   \* the clock, in seconds as st_mtime counts them

serverVars == <<files, openFilesStatus_s, lk, waiting, errno, fds, now>>

Times == 0..MaxTime
Contents == UNION {[1..n -> Data] : n \in 0..MaxLen}

FileStatus == [serverMode : {0, 1}, openNum : Int, lock : Locks \cup {NULL}]

\* What operator[] of std::map inserts for a path it does not find.
Phantom == [serverMode |-> 0, openNum |-> 0, lock |-> NULL]

NoHolders == [num_readers_ |-> 0, num_writers_ |-> 0]

NotWaiting == [path |-> Nobody, lock |-> NULL, mode |-> RW_READ_LOCK]

FreeFd == [owner |-> Nobody, path |-> Nobody, flag |-> O_RDONLY]

Put(f, k, v) == [x \in DOMAIN f \cup {k} |-> IF x = k THEN v ELSE f[x]]
Erase(f, k) == [x \in DOMAIN f \ {k} |-> f[x]]

\* openFilesStatus_s[p], and the table after operator[] was called.
Lookup(p) == IF p \in DOMAIN openFilesStatus_s THEN openFilesStatus_s[p] ELSE Phantom
Touched(p) == Put(openFilesStatus_s, p, Lookup(p))

FreeFds == {fd \in FD : fds[fd].owner = Nobody}

IsOpen(fd) == fd \in FD /\ fds[fd].owner # Nobody

\* The descriptors that clients have got for p and not yet released.
Opens(p) == {fd \in FD : fds[fd].owner \in Clients /\ fds[fd].path = p}
WriteOpens(p) == {fd \in Opens(p) : fds[fd].flag # O_RDONLY}

Fails(c, e) == errno' = [errno EXCEPT ![c] = e]

ServerInit ==
    /\ files \in {<<>>} \cup [Paths -> [data : {<<>>, <<Zero>>}, mtime : {0}]]
    /\ openFilesStatus_s = <<>>
    /\ lk = [l \in Locks |-> NoHolders]
    /\ waiting = [c \in Clients |-> NotWaiting]
    /\ errno = [c \in Clients |-> 0]
    /\ fds = [fd \in FD |-> FreeFd]
    /\ now = 0

-----------------------------------------------------------------------------
(* watdfs_open *)

\* The path has an entry that counts somebody.
Counted(p) == p \in DOMAIN openFilesStatus_s /\ openFilesStatus_s[p].openNum > 0

\* A mutant of WriteConflict: the second writer is not refused.
WriteConflictIgnored(p, flag) == FALSE

\* A second open for writing is refused.
WriteConflict(p, flag) ==
    Counted(p) /\ openFilesStatus_s[p].serverMode = 1 /\ flag # O_RDONLY

\* Nothing refers to the lock object any more.
FreshLock(l) ==
    /\ \A p \in DOMAIN openFilesStatus_s : openFilesStatus_s[p].lock # l
    /\ \A c \in Clients : waiting[c].lock # l

\* A mutant of JoinEntry: the opener is not counted.
JoinEntryUncounted(p, flag) ==
    /\ openFilesStatus_s' =
         [openFilesStatus_s EXCEPT ![p].serverMode = IF flag # O_RDONLY THEN 1 ELSE @]
    /\ UNCHANGED lk

\* The path is open: the opener is counted in its entry.
JoinEntry(p, flag) ==
    /\ openFilesStatus_s' =
         [openFilesStatus_s EXCEPT ![p].serverMode = IF flag # O_RDONLY THEN 1 ELSE @,
                                   ![p].openNum = @ + 1]
    /\ UNCHANGED lk

\* The path is not open: it gets an entry with a lock of its own, which
\* replaces an entry that counts nobody.
NewEntry(p, flag) ==
    \E l \in Locks :
        /\ FreshLock(l)
        /\ lk' = [lk EXCEPT ![l] = NoHolders]
        /\ openFilesStatus_s' =
             Put(openFilesStatus_s, p,
                 [serverMode |-> IF flag = O_RDONLY THEN 0 ELSE 1, openNum |-> 1, lock |-> l])

\* open(2) on the server's file.  The test that follows it reads fi->fh before
\* it is assigned, and an unsigned fi->fh is never negative: a failed open(2)
\* is answered 0, with the -1 it returned as the handle.
OpenFile(c, p, flag, fh) ==
    \/ /\ p \notin DOMAIN files
       /\ fh = BadFd /\ Fails(c, ENOENT) /\ UNCHANGED fds
    \/ /\ p \in DOMAIN files /\ FreeFds = {}
       /\ fh = BadFd /\ Fails(c, EMFILE) /\ UNCHANGED fds
    \/ /\ p \in DOMAIN files /\ fh \in FreeFds
       /\ fds' = [fds EXCEPT ![fh] = [owner |-> c, path |-> p, flag |-> flag]]
       /\ UNCHANGED errno

watdfs_open(c, p, flag, ret, fh) ==
    /\ \/ /\ WriteConflict(p, flag)
          /\ ret = -EACCES /\ fh = StdIn
          /\ UNCHANGED <<openFilesStatus_s, lk, fds, errno>>
       \/ /\ ~WriteConflict(p, flag)
          /\ ret = 0
          /\ IF Counted(p) THEN JoinEntry(p, flag) ELSE NewEntry(p, flag)
          /\ OpenFile(c, p, flag, fh)
    /\ UNCHANGED <<files, waiting, now>>

-----------------------------------------------------------------------------
(* watdfs_release *)

\* The entry without the closer; its writer takes write mode away.
Uncounted(p, flag) ==
    [Lookup(p) EXCEPT !.openNum = @ - 1, !.serverMode = IF flag # O_RDONLY THEN 0 ELSE @]

\* A mutant of LastCloser: off by one, an opener is still there.
LastCloserEarly(e) == e.openNum <= 1

LastCloser(e) == e.openNum = 0

\* The last closer destroys the lock and erases the entry.  While somebody sleeps
\* on the lock, rw_lock_destroy fails: glibc counts who sleeps in pthread_cond_wait
\* as a user of the mutex, pthread_mutex_destroy answers EBUSY, and RETURN_IF_ERR
\* leaves before the condition variable is touched.  Nobody looks at the answer:
\* the sleeper keeps a lock that no entry names any more.
CloseEntry(p, flag) ==
    LET e == Uncounted(p, flag)
    IN  IF LastCloser(e)
          THEN /\ openFilesStatus_s' = Erase(openFilesStatus_s, p)
               /\ IF e.lock = NULL \/ \E c \in Clients : waiting[c].lock = e.lock
                    THEN UNCHANGED lk
                    ELSE lk' = [lk EXCEPT ![e.lock] = NoHolders]
          ELSE /\ openFilesStatus_s' = Put(openFilesStatus_s, p, e)
               /\ UNCHANGED lk

watdfs_release(c, p, flag, fh, ret) ==
    /\ \/ /\ ~IsOpen(fh)
          /\ ret = -EBADF /\ Fails(c, EBADF)
          /\ UNCHANGED <<openFilesStatus_s, lk, fds>>
       \/ /\ IsOpen(fh)
          /\ ret = 0 /\ UNCHANGED errno
          /\ fds' = [fds EXCEPT ![fh] = FreeFd]
          /\ CloseEntry(p, flag)
    /\ UNCHANGED <<files, waiting, now>>

-----------------------------------------------------------------------------
(* The calls on the file *)

Stats == [size : 0..MaxLen, mtime : Times]
NoStat == [size |-> 0, mtime |-> 0]

StatOf(f) == [size |-> Len(f.data), mtime |-> f.mtime]

watdfs_getattr(c, p, ret, st) ==
    /\ \/ /\ p \in DOMAIN files
          /\ ret = 0 /\ st = StatOf(files[p]) /\ UNCHANGED errno
       \/ /\ p \notin DOMAIN files
          /\ ret = -ENOENT /\ st = NoStat /\ Fails(c, ENOENT)
    /\ UNCHANGED <<files, openFilesStatus_s, lk, waiting, fds, now>>

watdfs_mknod(c, p, ret) ==
    /\ \/ /\ p \notin DOMAIN files
          /\ ret = 0 /\ UNCHANGED errno
          /\ files' = Put(files, p, [data |-> <<>>, mtime |-> now])
       \/ /\ p \in DOMAIN files
          /\ ret = -EEXIST /\ Fails(c, EEXIST)
          /\ UNCHANGED files
    /\ UNCHANGED <<openFilesStatus_s, lk, waiting, fds, now>>

\* A mutant of FirstBytes: the last byte is lost.
FirstBytesButOne(data, n) == SubSeq(data, 1, IF n < Len(data) THEN n - 1 ELSE Len(data) - 1)

FirstBytes(data, n) == SubSeq(data, 1, IF n < Len(data) THEN n ELSE Len(data))

\* pread(2) of size bytes from the start.  At the end of the file it returns 0
\* and leaves errno alone, and the answer is whatever errno this thread has.
watdfs_read(c, fh, size, ret, data) ==
    /\ \/ /\ IsOpen(fh)
          /\ data = FirstBytes(files[fds[fh].path].data, size)
          /\ ret = IF data # <<>> THEN Len(data) ELSE -errno[c]
          /\ UNCHANGED errno
       \/ /\ ~IsOpen(fh)
          /\ \E e \in IF fh = StdIn THEN {EBADF, ESPIPE} ELSE {EBADF} : ret = -e /\ Fails(c, e)
          /\ data = <<>>
    /\ UNCHANGED <<files, openFilesStatus_s, lk, waiting, fds, now>>

\* A mutant of Overlaid: the offset is ignored.
OverlaidAtEnd(old, data) == old \o data

\* pwrite(2) of data at the start.
Overlaid(old, data) == data \o SubSeq(old, Len(data) + 1, Len(old))

\* Descriptor 0 is the server's standard input: a terminal or a pipe refuses
\* pwrite, a device such as /dev/null takes it and keeps nothing.
watdfs_write(c, fh, data, ret) ==
    /\ \/ /\ IsOpen(fh) /\ fds[fh].flag # O_RDONLY
          /\ ret = Len(data) /\ UNCHANGED errno
          /\ LET p == fds[fh].path
             IN  files' = [files EXCEPT ![p] = [data |-> Overlaid(@.data, data), mtime |-> now]]
       \/ /\ fh = StdIn
          /\ ret = Len(data) /\ UNCHANGED <<files, errno>>
       \/ /\ ~(IsOpen(fh) /\ fds[fh].flag # O_RDONLY)
          /\ \E e \in IF fh = StdIn THEN {EBADF, ESPIPE} ELSE {EBADF} : ret = -e /\ Fails(c, e)
          /\ UNCHANGED files
    /\ UNCHANGED <<openFilesStatus_s, lk, waiting, fds, now>>

Resized(data, n) == [i \in 1..n |-> IF i <= Len(data) THEN data[i] ELSE Zero]

\* truncate(2) moves the modification time only when the size changes.
Truncated(f, n) ==
    [data |-> Resized(f.data, n), mtime |-> IF n = Len(f.data) THEN f.mtime ELSE now]

watdfs_truncate(c, p, n, ret) ==
    /\ \/ /\ p \in DOMAIN files
          /\ ret = 0 /\ UNCHANGED errno
          /\ files' = [files EXCEPT ![p] = Truncated(@, n)]
       \/ /\ p \notin DOMAIN files
          /\ ret = -ENOENT /\ Fails(c, ENOENT)
          /\ UNCHANGED files
    /\ UNCHANGED <<openFilesStatus_s, lk, waiting, fds, now>>

watdfs_fsync(c, fh, ret) ==
    /\ \/ IsOpen(fh) /\ ret = 0 /\ UNCHANGED errno
       \/ ~IsOpen(fh) /\ ret = -EBADF /\ Fails(c, EBADF)
    /\ UNCHANGED <<files, openFilesStatus_s, lk, waiting, fds, now>>

\* The file is opened first, and that descriptor is never closed.  utimensat(2)
\* gets an absolute path and ignores it: it works even when open(2) failed for
\* want of descriptors, but then the answer is open's error.
watdfs_utimensat(c, p, t, ret) ==
    /\ \/ /\ p \notin DOMAIN files
          /\ ret = -ENOENT /\ Fails(c, ENOENT)
          /\ UNCHANGED <<files, fds>>
       \/ /\ p \in DOMAIN files
          /\ files' = [files EXCEPT ![p].mtime = t]
          /\ \/ /\ FreeFds = {}
                /\ ret = -EMFILE /\ Fails(c, EMFILE) /\ UNCHANGED fds
             \/ /\ ret = 0 /\ UNCHANGED errno
                /\ \E fd \in FreeFds :
                     fds' = [fds EXCEPT ![fd] = [owner |-> Leaked, path |-> p, flag |-> O_RDWR]]
    /\ UNCHANGED <<openFilesStatus_s, lk, waiting, now>>

-----------------------------------------------------------------------------
(* watdfs_lock and watdfs_unlock: both use operator[], which inserts an entry
   without a lock for a path that is not open.  When rw_lock_lock or _unlock
   fails they answer -errno, which those functions do not set. *)

\* rw_lock_lock refuses the null lock of an entry that counts nobody.
watdfs_lock_fails(c, p, m, ret) ==
    /\ Lookup(p).lock = NULL
    /\ ret = -errno[c]
    /\ openFilesStatus_s' = Touched(p)
    /\ UNCHANGED <<files, lk, waiting, errno, fds, now>>

\* The thread is in rw_lock_lock, with the lock it found.
watdfs_lock_enters(c, p, m) ==
    /\ Lookup(p).lock # NULL
    /\ waiting' = [waiting EXCEPT ![c] = [path |-> p, lock |-> Lookup(p).lock, mode |-> m]]
    /\ UNCHANGED <<files, openFilesStatus_s, lk, errno, fds, now>>

WaitingWriter(l) == \E c \in Clients : waiting[c].lock = l /\ waiting[c].mode = RW_WRITE_LOCK

\* A mutant of MayHold: a writer does not wait for the readers.
MayHoldWithReaders(l, m) ==
    IF m = RW_READ_LOCK THEN lk[l].num_writers_ = 0 /\ ~WaitingWriter(l)
                        ELSE lk[l].num_writers_ = 0

\* A mutant of MayHold: waiting readers and waiting writers give way to each other.
MayHoldAfterYou(l, m) ==
    /\ \A c \in Clients : waiting[c].lock = l => waiting[c].mode = m
    /\ lk[l].num_writers_ = 0
    /\ m = RW_WRITE_LOCK => lk[l].num_readers_ = 0

\* The loop condition of rw_lock_lock: see RWLock, which RWLockAbs abstracts.
MayHold(l, m) ==
    IF m = RW_READ_LOCK THEN lk[l].num_writers_ = 0 /\ ~WaitingWriter(l)
                        ELSE lk[l].num_writers_ = 0 /\ lk[l].num_readers_ = 0

\* rw_lock_lock returns, and watdfs_lock answers 0.
watdfs_lock_granted(c) ==
    LET l == waiting[c].lock
        m == waiting[c].mode
    IN  /\ l # NULL /\ MayHold(l, m)
        /\ lk' = IF m = RW_READ_LOCK THEN [lk EXCEPT ![l].num_readers_ = @ + 1]
                                     ELSE [lk EXCEPT ![l].num_writers_ = @ + 1]
        /\ waiting' = [waiting EXCEPT ![c] = NotWaiting]
        /\ UNCHANGED <<files, openFilesStatus_s, errno, fds, now>>

\* A mutant of IsHeld: the counters are not tested before they are decremented.
IsHeldUnchecked(l, m) == l # NULL

\* What rw_lock_unlock asks for: a lock, and somebody who holds it in mode m.
IsHeld(l, m) ==
    l # NULL /\ IF m = RW_READ_LOCK THEN lk[l].num_readers_ > 0 ELSE lk[l].num_writers_ > 0

watdfs_unlock(c, p, m, ret) ==
    LET l == Lookup(p).lock
    IN  /\ openFilesStatus_s' = Touched(p)
        /\ \/ /\ ~IsHeld(l, m)
              /\ ret = -errno[c] /\ UNCHANGED lk
           \/ /\ IsHeld(l, m)
              /\ ret = 0
              /\ lk' = IF m = RW_READ_LOCK THEN [lk EXCEPT ![l].num_readers_ = @ - 1]
                                           ELSE [lk EXCEPT ![l].num_writers_ = @ - 1]
        /\ UNCHANGED <<files, waiting, errno, fds, now>>

-----------------------------------------------------------------------------
(* The server among clients of any kind: they call what they like, but they
   release what they opened, as they opened it, or the handle -1. *)

Codes == {0} \cup 1..MaxLen \cup {-e : e \in Errnos}

Handles == FD \cup {BadFd, StdIn}

Own(c, fd) == fd \in FD /\ fds[fd].owner = c

OpenCall(c, p) ==
    /\ "open" \in Calls /\ Lookup(p).openNum < MaxCount
    /\ \E flag \in OpenFlags, ret \in Codes, fh \in Handles : watdfs_open(c, p, flag, ret, fh)

ReleaseCall(c) ==
    /\ "release" \in Calls
    /\ \/ \E fd \in FD, ret \in Codes :
             Own(c, fd) /\ watdfs_release(c, fds[fd].path, fds[fd].flag, fd, ret)
       \/ \E p \in Paths, flag \in OpenFlags, ret \in Codes : watdfs_release(c, p, flag, BadFd, ret)

FileCall(c, p) ==
    \E ret \in Codes :
        \/ "getattr" \in Calls /\ \E st \in Stats : watdfs_getattr(c, p, ret, st)
        \/ "mknod" \in Calls /\ watdfs_mknod(c, p, ret)
        \/ "truncate" \in Calls /\ \E n \in 0..MaxLen : watdfs_truncate(c, p, n, ret)
        \/ "utimensat" \in Calls /\ \E t \in Times : watdfs_utimensat(c, p, t, ret)

HandleCall(c) ==
    \E fh \in {fd \in FD : Own(c, fd)} \cup {BadFd, StdIn}, ret \in Codes :
        \/ /\ "read" \in Calls
           /\ \E n \in 0..MaxLen, data \in Contents : watdfs_read(c, fh, n, ret, data)
        \/ /\ "write" \in Calls
           /\ \E data \in Contents \ {<<>>} : watdfs_write(c, fh, data, ret)
        \/ "fsync" \in Calls /\ watdfs_fsync(c, fh, ret)

LockCall(c, p) ==
    \E m \in LockModes :
        \/ /\ "lock" \in Calls
           /\ Lookup(p).lock # NULL => lk[Lookup(p).lock].num_readers_ < MaxCount
           /\ watdfs_lock_enters(c, p, m)
        \/ \E ret \in Codes :
              \/ "lock" \in Calls /\ watdfs_lock_fails(c, p, m, ret)
              \/ "unlock" \in Calls /\ watdfs_unlock(c, p, m, ret)

Tick == now < MaxTime /\ now' = now + 1
        /\ UNCHANGED <<files, openFilesStatus_s, lk, waiting, errno, fds>>

ServerNext ==
    \/ \E c \in Clients :
          \/ watdfs_lock_granted(c)
          \/ /\ waiting[c] = NotWaiting
             /\ \/ \E p \in Paths : OpenCall(c, p) \/ FileCall(c, p) \/ LockCall(c, p)
                \/ ReleaseCall(c) \/ HandleCall(c)
    \/ Tick

ServerSpec == ServerInit /\ [][ServerNext]_serverVars

-----------------------------------------------------------------------------
(* Properties *)

\* The table, the locks, the waiting threads and the descriptors.
TableTypeOK ==
    /\ DOMAIN openFilesStatus_s \subseteq Paths
    /\ \A p \in DOMAIN openFilesStatus_s : openFilesStatus_s[p] \in FileStatus
    /\ lk \in [Locks -> [num_readers_ : Nat, num_writers_ : Nat]]
    /\ waiting \in [Clients -> [path : Paths, lock : Locks, mode : LockModes] \cup {NotWaiting}]
    /\ fds \in [FD -> {FreeFd} \cup [owner : Clients \cup {Leaked}, path : Paths, flag : OpenFlags]]

\* The variables hold what their declarations say; in particular unlocking what
\* nobody holds takes no counter of a lock below zero.
ServerTypeOK ==
    /\ TableTypeOK
    /\ DOMAIN files \subseteq Paths
    /\ \A p \in DOMAIN files : files[p].data \in Seq(Data) /\ files[p].mtime \in Nat
    /\ errno \in [Clients -> Errnos \cup {0}]
    /\ now \in Nat

\* watdfs_open's write conflict test: at most one client has a file open for
\* writing, whatever was opened, released or failed before.
OneWriter ==
    \A p \in Paths : \A f, g \in WriteOpens(p) : f = g

\* No client's open file drops out of the table: openNum covers every
\* descriptor that clients still have, so that the last closer really is.
OpenNumCovers ==
    \A p \in Paths :
        IF p \in DOMAIN openFilesStatus_s
          THEN openFilesStatus_s[p].openNum >= Cardinality(Opens(p))
          ELSE Opens(p) = {}

\* A client that has the file open and waits for its lock waits for the lock
\* in the table, which later unlocks will signal; watdfs_release never takes
\* the lock away under it, nor does watdfs_open put another in its place.
NotOrphaned ==
    \A c \in Clients, fd \in FD :
        waiting[c].lock # NULL /\ fds[fd].owner = c /\ fds[fd].path = waiting[c].path =>
            /\ waiting[c].path \in DOMAIN openFilesStatus_s
            /\ openFilesStatus_s[waiting[c].path].lock = waiting[c].lock

\* A lock object is never held by a writer and somebody else, whatever entry
\* named it before.
LocksExclude ==
    \A l \in Locks :
        /\ lk[l].num_writers_ \in {0, 1}
        /\ lk[l].num_writers_ = 1 => lk[l].num_readers_ = 0
================================================================================
