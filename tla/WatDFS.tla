--------------------------------- MODULE WatDFS ---------------------------------
(***************************************************************************)
(* WatDFS: clients that cache a file of the server (watdfs_client.cpp),    *)
(* together with the server (WatDFSServer).                                *)
(*                                                                         *)
(* Every table of the program is keyed by the path, so one file, File, is  *)
(* followed.  Each client handles one call at a time.  A step is one       *)
(* remote call, its handler on the server, and what the client does from   *)
(* the answer up to its next remote call: local work that nobody else can  *)
(* see.  The name of a step in pc is the remote call it is about to make;  *)
(* waiting in watdfs_lock is a step of its own.                            *)
(*                                                                         *)
(* Local system calls on the client's own cache directory do not fail.     *)
(***************************************************************************)
EXTENDS WatDFSServer

CONSTANTS
    File,             \* the path that is followed
    cacheInterval,    \* t, in seconds
    WriteData,        \* bound: what applications write
    Operations,       \* bound: which calls applications make
    ViaKernel,        \* TRUE: calls come as the kernel makes them, after a lookup
    MaxCalls,         \* bound: how many calls are made, and remote calls not answered
    MaxLost           \* bound: how many remote calls are not answered

ASSUME ClientAssumption ==
    /\ File \in Paths
    /\ cacheInterval \in Nat
    /\ WriteData \subseteq Contents
    /\ MaxCalls \in Nat /\ MaxLost \in Nat
    /\ ViaKernel \in BOOLEAN

VARIABLES
    cache,            \* the cached copies: client -> [data, mtime]
    openFilesStatus,  \* the clients' maps: client -> [clientMode, tc, serverDesc]
    fi,               \* the applications' open handles: client -> [flag, fh]
    pc,               \* what each client does next
    frame,            \* the local variables of its current call
    calls,            \* how many calls were made
    lost              \* how many remote calls were not answered

clientVars == <<cache, openFilesStatus, fi, pc, frame>>
allVars == <<serverVars, clientVars, calls, lost>>

Labels ==
    {"idle", "probe", "check", "op_open", "op_release", "mk_probe", "mk_node", "mk_utime",
     "dl_stat", "dl_open", "dl_lock", "dl_wait", "dl_read", "dl_unlock", "dl_release",
     "wb_lock", "wb_wait", "wb_trunc", "wb_write", "wb_utime", "wb_unlock"}

\* ftruncate is a truncate that the kernel makes for an open handle.
Ops == {"getattr", "mknod", "open", "release", "read", "write", "truncate", "ftruncate", "fsync",
        "utimensat", "remount"}

\* The operation; was the file in the map, and in the cache, when it began; the
\* flag of the open call or of the download; truncate's size; the stat taken,
\* the bytes to send and the server descriptor of a transfer; the result so far.
Blank == [op |-> "none", open |-> FALSE, cached |-> FALSE, flag |-> O_RDONLY, n |-> 0,
          st |-> NoStat, buf |-> <<>>, fh |-> StdIn, ret |-> 0]

\* time(0) is far from 0: what operator[] leaves in tc has long expired.
Epoch == -cacheInterval

PhantomMeta == [clientMode |-> O_RDONLY, tc |-> Epoch, serverDesc |-> StdIn]

\* cli_file_is_open
IsOpenHere(c) == c \in DOMAIN openFilesStatus

\* A mutant of IsWriter: the mode is not looked at.
IsWriterAnyMode(c) == IsOpenHere(c)

IsWriter(c) == IsOpenHere(c) /\ openFilesStatus[c].clientMode # O_RDONLY

\* A mutant of MetaTouched: an entry is made anew although there is one.
MetaTouchedAnew(c) == Put(openFilesStatus, c, PhantomMeta)

\* The map after operator[] was called in client c.
MetaTouched(c) == IF IsOpenHere(c) THEN openFilesStatus ELSE Put(openFilesStatus, c, PhantomMeta)

\* cli_close_file
Closed(c) == Erase(openFilesStatus, c)

Cached(c) == c \in DOMAIN cache

Goto(c, label, f) ==
    pc' = [pc EXCEPT ![c] = label] /\ frame' = [frame EXCEPT ![c] = f]

Step(c, label) == Goto(c, label, frame[c])

\* The call returns; its name and its result are kept.
Return(c, ret) == Goto(c, "idle", [Blank EXCEPT !.op = frame[c].op, !.ret = ret])

LocalUnchanged == UNCHANGED <<cache, openFilesStatus, fi>>

Init ==
    /\ ServerInit
    /\ cache = <<>>
    /\ openFilesStatus = <<>>
    /\ fi = <<>>
    /\ pc = [c \in Clients |-> "idle"]
    /\ frame = [c \in Clients |-> Blank]
    /\ calls = 0
    /\ lost = 0

-----------------------------------------------------------------------------
(* The remote calls: the copy_ functions, watdfs_cli_lock and watdfs_cli_unlock.
   They return what the handler answered, or -EINVAL when rpcCall failed (rpc.h:
   TERMINATED, FAILED_TO_SEND, ...): the request was lost, or the answer was. *)

EINVAL == 22

Answers == Codes \cup {-EINVAL}

Answered == UNCHANGED lost

AnswerLost(ret) ==
    /\ ret = -EINVAL
    /\ lost < MaxLost /\ calls + lost < MaxCalls
    /\ lost' = lost + 1

Unanswered(ret, handled) == AnswerLost(ret) /\ (handled \/ UNCHANGED serverVars)

copy_getattr(c, ret, st) ==
    \/ watdfs_getattr(c, File, ret, st) /\ Answered
    \/ /\ st = NoStat
       /\ Unanswered(ret, \E r \in Codes, s \in Stats : watdfs_getattr(c, File, r, s))

copy_mknod(c, ret) ==
    \/ watdfs_mknod(c, File, ret) /\ Answered
    \/ Unanswered(ret, \E r \in Codes : watdfs_mknod(c, File, r))

copy_open(c, flag, ret, fh) ==
    \/ watdfs_open(c, File, flag, ret, fh) /\ Answered
    \/ /\ fh = StdIn
       /\ Unanswered(ret, \E r \in Codes, h \in Handles : watdfs_open(c, File, flag, r, h))

copy_release(c, flag, fh, ret) ==
    \/ watdfs_release(c, File, flag, fh, ret) /\ Answered
    \/ Unanswered(ret, \E r \in Codes : watdfs_release(c, File, flag, fh, r))

\* Transfer shows what the calls of a transfer in chunks come to.
copy_read(c, fh, size, ret, data) ==
    \/ watdfs_read(c, fh, size, ret, data) /\ Answered
    \/ /\ data = <<>>
       /\ Unanswered(ret, \E r \in Codes, d \in Contents : watdfs_read(c, fh, size, r, d))

copy_write(c, fh, data, ret) ==
    \/ watdfs_write(c, fh, data, ret) /\ Answered
    \/ Unanswered(ret, \E r \in Codes : watdfs_write(c, fh, data, r))

copy_truncate(c, n, ret) ==
    \/ watdfs_truncate(c, File, n, ret) /\ Answered
    \/ Unanswered(ret, \E r \in Codes : watdfs_truncate(c, File, n, r))

copy_utimensat(c, t, ret) ==
    \/ watdfs_utimensat(c, File, t, ret) /\ Answered
    \/ Unanswered(ret, \E r \in Codes : watdfs_utimensat(c, File, t, r))

\* watdfs_cli_lock sends its request: the server's thread waits, or fails.
LockSent(c, m) == watdfs_lock_enters(c, File, m) /\ Answered

LockFailed(c, m, ret) ==
    \/ watdfs_lock_fails(c, File, m, ret) /\ Answered
    \/ Unanswered(ret, \E r \in Codes : watdfs_lock_fails(c, File, m, r))

\* It gets its answer, or the client never learns that it has the lock.
LockReturned(c, ret) ==
    /\ watdfs_lock_granted(c)
    /\ (ret = 0 /\ Answered) \/ AnswerLost(ret)

watdfs_cli_unlock(c, m, ret) ==
    \/ watdfs_unlock(c, File, m, ret) /\ Answered
    \/ Unanswered(ret, \E r \in Codes : watdfs_unlock(c, File, m, r))

-----------------------------------------------------------------------------
(* cli_freshness_check, and what each caller does with its answer *)

\* Not fresh: watdfs_cli_open, _read and _getattr download, the others upload.
\* A download for read or getattr opens the file as it is open already.
WhenStale(c, m) ==
    /\ openFilesStatus' = m
    /\ UNCHANGED <<cache, fi>>
    /\ Step(c, IF frame[c].op \in {"open", "read", "getattr"} THEN "dl_stat" ELSE "wb_lock")

\* Fresh: the cached copy is opened, or read, or nothing more is done.
WhenFresh(c, m) ==
    /\ UNCHANGED <<cache, fi>>
    /\ Return(c, frame[c].ret)
    /\ openFilesStatus' =
         CASE frame[c].op = "open" ->
                Put(m, c, [clientMode |-> frame[c].flag, tc |-> now, serverDesc |-> fi[c].fh])
           [] frame[c].op = "getattr" /\ frame[c].open -> [m EXCEPT ![c].tc = now]
           [] OTHER -> m

\* The interval in which an open file is taken to be fresh has passed.
Expired(c) == IsOpenHere(c) => now - openFilesStatus[c].tc >= cacheInterval

CheckInterval(c) ==
    /\ pc[c] = "check" /\ ~Expired(c)
    /\ WhenFresh(c, openFilesStatus)
    /\ UNCHANGED <<serverVars, lost>>

\* The modification times, in seconds, are compared.  An open file counts as
\* checked now, even when the times differ, but not when getattr fails.
CheckServer(c) ==
    /\ pc[c] = "check" /\ Expired(c)
    /\ \E ret \in Answers, st \in Stats :
         /\ copy_getattr(c, ret, st)
         /\ LET m == IF IsOpenHere(c) /\ ret >= 0
                       THEN [openFilesStatus EXCEPT ![c].tc = now] ELSE openFilesStatus
            IN  IF ret >= 0 /\ Cached(c) /\ cache[c].mtime = st.mtime
                  THEN WhenFresh(c, m) ELSE WhenStale(c, m)

-----------------------------------------------------------------------------
(* cli_downloadFile *)

\* The caller gives up.  When the file was not cached a debug message at the end
\* of watdfs_cli_open looks the path up, which inserts it.
DownloadFailed(c, ret) ==
    /\ UNCHANGED cache
    /\ IF frame[c].op = "open"
         THEN /\ fi' = Erase(fi, c)
              /\ openFilesStatus' = IF frame[c].cached THEN openFilesStatus ELSE MetaTouched(c)
         ELSE UNCHANGED <<fi, openFilesStatus>>
    /\ Return(c, ret)

\* A mutant of StaysOpen: getattr closes a file that was open before.
StaysOpenForAccess(c) == frame[c].op \in {"open", "read"}

\* Only a file that is, or was, open stays in the map.
StaysOpen(c) == frame[c].op \in {"open", "read"} \/ frame[c].open

\* A file that is not to be open is closed again, and the caller goes on.
Downloaded(c) ==
    /\ UNCHANGED fi
    /\ openFilesStatus' = IF StaysOpen(c) THEN openFilesStatus ELSE Closed(c)
    /\ cache' = IF frame[c].op = "truncate"
                  THEN [cache EXCEPT ![c] = Truncated(@, frame[c].n)] ELSE cache
    /\ CASE frame[c].op = "mknod" -> Goto(c, "check", [frame[c] EXCEPT !.ret = -1])
         [] frame[c].op = "truncate" -> Step(c, "check")
         [] OTHER -> Return(c, 0)

DlStat(c) ==
    /\ pc[c] = "dl_stat"
    /\ \E ret \in Answers, st \in Stats :
         /\ copy_getattr(c, ret, st)
         /\ IF ret < 0 THEN DownloadFailed(c, ret)
                       ELSE Goto(c, "dl_open", [frame[c] EXCEPT !.st = st]) /\ LocalUnchanged

DlOpen(c) ==
    /\ pc[c] = "dl_open"
    /\ \E ret \in Answers, fh \in Handles :
         /\ copy_open(c, O_RDONLY, ret, fh)
         /\ IF ret < 0 THEN DownloadFailed(c, ret)
                       ELSE Goto(c, "dl_lock", [frame[c] EXCEPT !.fh = fh]) /\ LocalUnchanged

\* watdfs_cli_lock succeeded: the local file is created and emptied.
EmptyCache(c) ==
    /\ cache' = Put(cache, c, IF Cached(c) THEN Truncated(cache[c], 0)
                                           ELSE [data |-> <<>>, mtime |-> now])
    /\ UNCHANGED <<openFilesStatus, fi>>
    /\ Step(c, "dl_read")

DlLock(c) ==
    /\ pc[c] = "dl_lock"
    /\ \/ LockSent(c, RW_READ_LOCK) /\ Step(c, "dl_wait") /\ LocalUnchanged
       \/ \E ret \in Answers :
            /\ LockFailed(c, RW_READ_LOCK, ret)
            /\ IF ret < 0 THEN DownloadFailed(c, ret) ELSE EmptyCache(c)

DlGranted(c) ==
    /\ pc[c] = "dl_wait"
    /\ \E ret \in Answers :
         /\ LockReturned(c, ret)
         /\ IF ret < 0 THEN DownloadFailed(c, ret) ELSE EmptyCache(c)

\* A mutant of DownloadTime: the copy keeps the time at which it was written.
DownloadTimeNow(c) == now

\* The modification time that the server's file had goes to the copy.
DownloadTime(c) == frame[c].st.mtime

\* size bytes of a malloc'ed buffer are written, whatever part of it was read.
\* The map gets the file; its serverDesc is not the descriptor of any open call.
DlRead(c) ==
    /\ pc[c] = "dl_read"
    /\ \E ret \in Answers, data \in Contents :
         /\ copy_read(c, frame[c].fh, frame[c].st.size, ret, data)
         /\ \/ ret < 0 /\ DownloadFailed(c, ret)
            \/ /\ ret >= 0
               /\ \E garbage \in [1..(frame[c].st.size - Len(data)) -> Data] :
                    cache' = Put(cache, c, [data |-> data \o garbage, mtime |-> DownloadTime(c)])
               /\ openFilesStatus' =
                    Put(openFilesStatus, c,
                        [clientMode |-> frame[c].flag, tc |-> now, serverDesc |-> StdIn])
               /\ UNCHANGED fi
               /\ Step(c, "dl_unlock")

\* A mutant of DlUnlock: the file is not released after it.
DlUnlockOnly(c) ==
    /\ pc[c] = "dl_unlock"
    /\ \E ret \in Answers :
         /\ watdfs_cli_unlock(c, RW_READ_LOCK, ret)
         /\ IF ret < 0 THEN DownloadFailed(c, ret) ELSE Downloaded(c)

DlUnlock(c) ==
    /\ pc[c] = "dl_unlock"
    /\ \E ret \in Answers :
         /\ watdfs_cli_unlock(c, RW_READ_LOCK, ret)
         /\ IF ret < 0 THEN DownloadFailed(c, ret) ELSE Step(c, "dl_release") /\ LocalUnchanged

DlRelease(c) ==
    /\ pc[c] = "dl_release"
    /\ \E ret \in Answers :
         /\ copy_release(c, O_RDONLY, frame[c].fh, ret)
         /\ IF ret < 0 THEN DownloadFailed(c, ret) ELSE Downloaded(c)

-----------------------------------------------------------------------------
(* cli_write_back.  The file is in the cache whenever it is called. *)

\* What the caller does with the result.  A release that could not write back
\* returns early: the file stays open in the map and on the server.
WriteBackDone(c, ret) ==
    /\ UNCHANGED cache
    /\ IF frame[c].op = "release" /\ ret >= 0 THEN Step(c, "op_release") ELSE Return(c, ret)
    /\ fi' = IF frame[c].op = "release" /\ ret < 0 THEN Erase(fi, c) ELSE fi
    /\ openFilesStatus' = IF frame[c].op = "fsync" /\ ret >= 0
                            THEN [openFilesStatus EXCEPT ![c].tc = now] ELSE openFilesStatus

\* watdfs_cli_lock succeeded: the local file is read.
TakeCopy(c) ==
    /\ LocalUnchanged
    /\ Goto(c, "wb_trunc", [frame[c] EXCEPT !.buf = cache[c].data, !.st = StatOf(cache[c])])

WbLock(c) ==
    /\ pc[c] = "wb_lock"
    /\ \/ LockSent(c, RW_WRITE_LOCK) /\ Step(c, "wb_wait") /\ LocalUnchanged
       \/ \E ret \in Answers :
            /\ LockFailed(c, RW_WRITE_LOCK, ret)
            /\ IF ret < 0 THEN WriteBackDone(c, ret) ELSE TakeCopy(c)

WbGranted(c) ==
    /\ pc[c] = "wb_wait"
    /\ \E ret \in Answers :
         /\ LockReturned(c, ret)
         /\ IF ret < 0 THEN WriteBackDone(c, ret) ELSE TakeCopy(c)

\* After the server's file is emptied, operator[] gives the descriptor.
WbTrunc(c) ==
    /\ pc[c] = "wb_trunc"
    /\ \E ret \in Answers :
         /\ copy_truncate(c, 0, ret)
         /\ \/ ret < 0 /\ WriteBackDone(c, ret)
            \/ /\ ret >= 0
               /\ openFilesStatus' = MetaTouched(c)
               /\ UNCHANGED <<cache, fi>>
               /\ Goto(c, IF frame[c].st.size > 0 THEN "wb_write" ELSE "wb_utime",
                       [frame[c] EXCEPT !.fh = MetaTouched(c)[c].serverDesc])

WbWrite(c) ==
    /\ pc[c] = "wb_write"
    /\ \E ret \in Answers :
         /\ copy_write(c, frame[c].fh, frame[c].buf, ret)
         /\ IF ret < 0 THEN WriteBackDone(c, ret) ELSE Step(c, "wb_utime") /\ LocalUnchanged

\* A mutant of UploadTime: the server's file is stamped with the time of the upload.
UploadTimeNow(c) == now

\* The modification time of the local file goes to the server's.
UploadTime(c) == frame[c].st.mtime

WbUtime(c) ==
    /\ pc[c] = "wb_utime"
    /\ \E ret \in Answers :
         /\ copy_utimensat(c, UploadTime(c), ret)
         /\ IF ret < 0 THEN WriteBackDone(c, ret) ELSE Step(c, "wb_unlock") /\ LocalUnchanged

WbUnlock(c) ==
    /\ pc[c] = "wb_unlock"
    /\ \E ret \in Answers :
         /\ watdfs_cli_unlock(c, RW_WRITE_LOCK, ret)
         /\ WriteBackDone(c, ret)

-----------------------------------------------------------------------------
(* The operations.  A call begins with the local work up to its first remote
   call, or to its end.  Through the kernel, a path is looked up (getattr) before
   it is opened, made or truncated, and only an open file is read, written,
   synchronised or released. *)

\* A call of op begins, with a new frame.
Begins(c, op) ==
    /\ pc[c] = "idle" /\ op \in Operations /\ calls + lost < MaxCalls
    /\ calls' = calls + 1
    /\ UNCHANGED <<serverVars, lost>>

New(c, op) == [Blank EXCEPT !.op = op, !.open = IsOpenHere(c), !.cached = Cached(c)]

\* It ends at once.
Ends(c, op, ret) == Goto(c, "idle", [Blank EXCEPT !.op = op, !.ret = ret])

Has(c) == c \in DOMAIN fi

watdfs_cli_getattr(c) ==
    /\ Begins(c, "getattr")
    /\ Goto(c, "probe", New(c, "getattr"))
    /\ LocalUnchanged

\* The file must exist on the server; one that is open for writing is current.
Probe(c) ==
    /\ pc[c] = "probe"
    /\ \E ret \in Answers, st \in Stats :
         /\ copy_getattr(c, ret, st)
         /\ IF ret < 0 \/ IsWriter(c) THEN Return(c, ret) ELSE Step(c, "check")
    /\ LocalUnchanged

watdfs_cli_open(c) ==
    \E flag \in OpenFlags :
        /\ ViaKernel => Cached(c)
        /\ Begins(c, "open")
        /\ Goto(c, "op_open", [New(c, "open") EXCEPT !.flag = flag])
        /\ LocalUnchanged

\* The server opens the file before the client looks whether it has it open.
OpOpen(c) ==
    /\ pc[c] = "op_open"
    /\ UNCHANGED <<cache, openFilesStatus>>
    /\ \E ret \in Answers, fh \in Handles :
         /\ copy_open(c, frame[c].flag, ret, fh)
         /\ IF ret < 0 \/ IsOpenHere(c)
              THEN Return(c, IF ret < 0 THEN ret ELSE -EMFILE) /\ UNCHANGED fi
              ELSE /\ fi' = Put(fi, c, [flag |-> frame[c].flag, fh |-> fh])
                   /\ Step(c, IF Cached(c) THEN "check" ELSE "dl_stat")

watdfs_cli_release(c) ==
    /\ Has(c)
    /\ Begins(c, "release")
    /\ Goto(c, IF fi[c].flag # O_RDONLY THEN "wb_lock" ELSE "op_release", New(c, "release"))
    /\ LocalUnchanged

\* A mutant of ReleaseFlag: the server is told that a reader leaves.
ReleaseFlagRead(c) == O_RDONLY

ReleaseFlag(c) == fi[c].flag

\* A mutant of OpRelease: the file stays in the map.
OpReleaseKeeps(c) ==
    /\ pc[c] = "op_release"
    /\ \E ret \in Answers : copy_release(c, ReleaseFlag(c), fi[c].fh, ret)
    /\ fi' = Erase(fi, c)
    /\ UNCHANGED <<cache, openFilesStatus>>
    /\ Return(c, 0)

\* An error of the server is overwritten by the result of the local close.
OpRelease(c) ==
    /\ pc[c] = "op_release"
    /\ \E ret \in Answers : copy_release(c, ReleaseFlag(c), fi[c].fh, ret)
    /\ fi' = Erase(fi, c)
    /\ openFilesStatus' = Closed(c)
    /\ UNCHANGED cache
    /\ Return(c, 0)

\* A file that is open for reading, or that is not known here, cannot be made.
watdfs_cli_mknod(c) ==
    /\ ViaKernel => frame[c].op = "getattr" /\ frame[c].ret = -ENOENT
    /\ Begins(c, "mknod")
    /\ LocalUnchanged
    /\ CASE IsOpenHere(c) /\ ~IsWriter(c) -> Ends(c, "mknod", -EPERM)
         [] ~IsOpenHere(c) /\ ~Cached(c) -> Goto(c, "mk_probe", New(c, "mknod"))
         [] OTHER -> Goto(c, "check", [New(c, "mknod") EXCEPT !.ret = -1])

MkProbe(c) ==
    /\ pc[c] = "mk_probe"
    /\ UNCHANGED <<openFilesStatus, fi>>
    /\ \E ret \in Answers, st \in Stats :
         /\ copy_getattr(c, ret, st)
         /\ IF ret = -ENOENT
              THEN /\ cache' = Put(cache, c, [data |-> <<>>, mtime |-> now])
                   /\ Step(c, "mk_node")
              ELSE /\ UNCHANGED cache
                   /\ IF ret < 0 THEN Return(c, ret)
                                 ELSE Goto(c, "dl_stat", [frame[c] EXCEPT !.flag = O_RDWR])

MkNode(c) ==
    /\ pc[c] = "mk_node"
    /\ LocalUnchanged
    /\ \E ret \in Answers :
         /\ copy_mknod(c, ret)
         /\ IF ret < 0 THEN Return(c, ret) ELSE Step(c, "mk_utime")

MkUtime(c) ==
    /\ pc[c] = "mk_utime"
    /\ LocalUnchanged
    /\ \E ret \in Answers :
         /\ copy_utimensat(c, cache[c].mtime, ret)
         /\ IF ret < 0 THEN Return(c, ret) ELSE Step(c, "check")

\* operator[] precedes the test whether the file is open, which always succeeds.
\* How much a read returns is left out.
watdfs_cli_read(c) ==
    /\ ViaKernel => Has(c)
    /\ Begins(c, "read")
    /\ openFilesStatus' = MetaTouched(c)
    /\ UNCHANGED <<cache, fi>>
    /\ IF IsWriter(c) THEN Ends(c, "read", 0) ELSE Goto(c, "check", New(c, "read"))

\* tc is the time of the write already when the freshness check looks at it.
watdfs_cli_write(c) ==
    \E data \in WriteData :
        /\ ViaKernel => Has(c) /\ fi[c].flag # O_RDONLY
        /\ Begins(c, "write")
        /\ UNCHANGED fi
        /\ IF IsWriter(c)
             THEN /\ cache' = [cache EXCEPT ![c] = [data |-> Overlaid(@.data, data), mtime |-> now]]
                  /\ openFilesStatus' = [openFilesStatus EXCEPT ![c].tc = now]
                  /\ Goto(c, "check", [New(c, "write") EXCEPT !.ret = Len(data)])
             ELSE /\ openFilesStatus' = MetaTouched(c)
                  /\ UNCHANGED cache
                  /\ Ends(c, "write", -EMFILE)

watdfs_cli_truncate(c) ==
    \E n \in 0..MaxLen, op \in {"truncate", "ftruncate"} :
        /\ ViaKernel => Cached(c)
        /\ op = "ftruncate" => Has(c) /\ fi[c].flag # O_RDONLY
        /\ Begins(c, op)
        /\ UNCHANGED <<openFilesStatus, fi>>
        /\ \/ /\ IsOpenHere(c) /\ ~IsWriter(c)
              /\ UNCHANGED cache /\ Ends(c, op, -EMFILE)
           \/ /\ ~IsOpenHere(c) /\ ~Cached(c)
              /\ UNCHANGED cache /\ Goto(c, "dl_stat", [New(c, op) EXCEPT !.flag = O_RDWR, !.n = n])
           \/ /\ IF IsOpenHere(c) THEN IsWriter(c) ELSE Cached(c)
              /\ cache' = [cache EXCEPT ![c] = Truncated(@, n)]
              /\ Goto(c, "check", New(c, op))

watdfs_cli_fsync(c) ==
    /\ ViaKernel => Has(c)
    /\ Begins(c, "fsync")
    /\ openFilesStatus' = MetaTouched(c)
    /\ UNCHANGED <<cache, fi>>
    /\ IF IsWriter(c) THEN Goto(c, "wb_lock", New(c, "fsync")) ELSE Ends(c, "fsync", -EPERM)

\* As in watdfs_cli_read, operator[] comes first: a file that is not open is
\* taken for one that is open for reading.
watdfs_cli_utimensat(c) ==
    \E t \in Times :
        /\ ViaKernel => Cached(c)
        /\ Begins(c, "utimensat")
        /\ openFilesStatus' = MetaTouched(c)
        /\ UNCHANGED fi
        /\ IF IsWriter(c)
             THEN /\ cache' = [cache EXCEPT ![c].mtime = t]
                  /\ Goto(c, "check", New(c, "utimensat"))
             ELSE UNCHANGED cache /\ Ends(c, "utimensat", -EMFILE)

\* watdfs_cli_destroy and, later, watdfs_cli_init: the map is a new one, the files
\* in the cache directory are the old ones.  It takes a client without open files.
Remount(c) ==
    /\ ~Has(c)
    /\ Begins(c, "remount")
    /\ openFilesStatus' = Closed(c)
    /\ UNCHANGED <<cache, fi>>
    /\ Ends(c, "remount", 0)

-----------------------------------------------------------------------------
Call(c) ==
    \/ watdfs_cli_getattr(c) \/ watdfs_cli_mknod(c) \/ watdfs_cli_open(c)
    \/ watdfs_cli_release(c) \/ watdfs_cli_read(c) \/ watdfs_cli_write(c)
    \/ watdfs_cli_truncate(c) \/ watdfs_cli_fsync(c) \/ watdfs_cli_utimensat(c)
    \/ Remount(c)

\* A call goes on to its next remote call.
Continue(c) ==
    /\ \/ CheckInterval(c) \/ CheckServer(c) \/ Probe(c) \/ OpOpen(c) \/ OpRelease(c)
       \/ MkProbe(c) \/ MkNode(c) \/ MkUtime(c)
       \/ DlStat(c) \/ DlOpen(c) \/ DlLock(c) \/ DlGranted(c) \/ DlRead(c) \/ DlUnlock(c)
       \/ DlRelease(c)
       \/ WbLock(c) \/ WbGranted(c) \/ WbTrunc(c) \/ WbWrite(c) \/ WbUtime(c) \/ WbUnlock(c)
    /\ UNCHANGED calls

Next ==
    \/ \E c \in Clients : Call(c) \/ Continue(c)
    \/ Tick /\ UNCHANGED <<clientVars, calls, lost>>

Spec == Init /\ [][Next]_allVars

\* Every client's thread goes on when it can; applications need not call.
FairSpec == Spec /\ \A c \in Clients : WF_allVars(Continue(c))

-----------------------------------------------------------------------------
(* Properties *)

\* The clients' variables hold what their declarations say, and no cached copy is
\* longer than anything that was written or truncated.
ClientTypeOK ==
    /\ DOMAIN cache \subseteq Clients
    /\ \A c \in DOMAIN cache : cache[c].data \in Contents /\ cache[c].mtime \in Nat
    /\ DOMAIN openFilesStatus \subseteq Clients
    /\ \A c \in DOMAIN openFilesStatus :
         openFilesStatus[c] \in [clientMode : OpenFlags, tc : Nat \cup {Epoch}, serverDesc : Handles]
    /\ DOMAIN fi \subseteq Clients
    /\ \A c \in DOMAIN fi : fi[c] \in [flag : OpenFlags, fh : Handles]
    /\ pc \in [Clients -> Labels]
    /\ \A c \in Clients : frame[c].op \in Ops \cup {"none"}

Uploading(c) == pc[c] \in {"wb_trunc", "wb_write", "wb_utime", "wb_unlock"}
Downloading(c) == pc[c] \in {"dl_read", "dl_unlock"}

\* Atomic transfer: while one client uploads the file nobody else uploads or
\* reads it, although the lock is an object that opening and releasing the file
\* create and destroy.
TransferExclusion ==
    \A c, d \in Clients : c # d /\ Uploading(c) => ~Uploading(d) /\ ~Downloading(d)

\* A client that is about to unlock the file after an upload through a
\* descriptor of the file has put its copy there, with its modification time.
UploadPublishes ==
    \A c \in Clients :
        pc[c] = "wb_unlock" /\ (frame[c].fh \in FD \/ frame[c].buf = <<>>) =>
            files[File] = [data |-> frame[c].buf, mtime |-> frame[c].st.mtime]

\* A client that is about to unlock the file after a download has the server's
\* contents, if the file still has the size it was stated to have.
DownloadMatches ==
    \A c \in Clients :
        pc[c] = "dl_unlock" /\ IsOpen(frame[c].fh) /\ frame[c].st.size = Len(files[File].data) =>
            cache[c].data = files[File].data

\* A descriptor that a client keeps for uploads, or that an application has as
\* its handle, is open on the server, on the file, for that client and as it was
\* opened: no failure lets it be closed, or given to another client, before.
HandlesBacked ==
    /\ \A c \in DOMAIN openFilesStatus :
         openFilesStatus[c].serverDesc \in FD =>
             fds[openFilesStatus[c].serverDesc] =
                 [owner |-> c, path |-> File, flag |-> openFilesStatus[c].clientMode]
    /\ \A c \in DOMAIN fi :
         fi[c].fh \in FD => fds[fi[c].fh] = [owner |-> c, path |-> File, flag |-> fi[c].flag]

\* What open answered 0 for stays open in the map, and cached, as it was opened,
\* whatever other calls look the file up, download it again or fail, until the
\* release of the application's handle.
OpenedHere ==
    \A c \in DOMAIN fi : pc[c] = "idle" =>
        /\ IsOpenHere(c) /\ openFilesStatus[c].clientMode = fi[c].flag
        /\ Cached(c)

\* The contents of the server's file are changed by the upload of a client whose
\* application has it open for writing and by nobody else: no other application
\* has, and the server refuses the next one.
OnlyWriterUploads ==
    [][(File \in DOMAIN files /\ files'[File].data # files[File].data) =>
         \E c \in DOMAIN fi :
            /\ Uploading(c) /\ fi[c].flag # O_RDONLY /\ Lookup(File).serverMode = 1
            /\ \A d \in DOMAIN fi \ {c} : fi[d].flag = O_RDONLY]_allVars

\* Somebody who is not transferring the file is counted as a holder of its lock.
LockLeaked ==
    \E l \in Locks :
        lk[l].num_readers_ + lk[l].num_writers_ >
            Cardinality({c \in Clients : Uploading(c) \/ Downloading(c)})

\* Every call returns, unless a failed transfer left the file locked: nobody
\* waits for ever for a lock that was destroyed, or for one another.
CallsReturn == \A c \in Clients : pc[c] # "idle" ~> (pc[c] = "idle" \/ LockLeaked)

-----------------------------------------------------------------------------
(* What the documents say, and the code does not do *)

\* MANUAL.md, Upload: the client's copy is written to the server's file.  (After
\* a download the map has no descriptor of it.)
UploadIsExact ==
    \A c \in Clients :
        pc[c] = "wb_unlock" =>
            files[File] = [data |-> frame[c].buf, mtime |-> frame[c].st.mtime]

\* MANUAL.md, Atomic Transfer: when the transfer finishes the file is unlocked.
\* (Not when it fails.)
UnlockedWhenFinished == ~LockLeaked

\* MANUAL.md, Mutual Exclusion on Client: the map tells whether the file is open.
\* (operator[] inserts what is not.)
MapTellsOpen == \A c \in Clients : pc[c] = "idle" => (IsOpenHere(c) <=> Has(c))
==================================================================================
