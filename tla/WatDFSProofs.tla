------------------------------- MODULE WatDFSProofs -------------------------------
(***************************************************************************)
(* Proofs about WatDFS, for any clients, file and descriptors, whatever    *)
(* the applications call and whichever remote calls are not answered.      *)
(*                                                                         *)
(* HandlesBacked and OpenedHere are not inductive: they say nothing of a   *)
(* call under way.  The invariant says, client by client, where every      *)
(* local variable comes from: which descriptor a download holds (Backed),  *)
(* which calls have been checked for what before they reach a label        *)
(* (Placed), and when the map agrees with the application's handle (Kept). *)
(***************************************************************************)
EXTENDS WatDFS, WatDFSServerProofs

Frames ==
    [op : Ops \cup {"none"}, open : BOOLEAN, cached : BOOLEAN, flag : OpenFlags, n : 0..MaxLen,
     st : Stats, buf : Contents, fh : Handles, ret : Int]

Copies == [data : Contents, mtime : Times]
Metas == [clientMode : OpenFlags, tc : Nat \cup {Epoch}, serverDesc : Handles]

\* The labels of a download, and those at which it has the file open.
DownloadLabels ==
    {"dl_stat", "dl_open", "dl_lock", "dl_wait", "dl_read", "dl_unlock", "dl_release"}
FetchLabels == {"dl_lock", "dl_wait", "dl_read", "dl_unlock", "dl_release"}

UploadLabels == {"wb_lock", "wb_wait", "wb_trunc", "wb_write", "wb_utime", "wb_unlock"}

\* What the client keeps has its type, and its thread waits only in watdfs_lock.
Typed(c) ==
    /\ Cached(c) => cache[c] \in Copies
    /\ IsOpenHere(c) => openFilesStatus[c] \in Metas
    /\ Has(c) => fi[c] \in [flag : OpenFlags, fh : FD \cup {BadFd}]
    /\ waiting[c] = NotWaiting \/ pc[c] \in {"dl_wait", "wb_wait"}

\* If fd is a descriptor, the server has it open on the file for c as flag says.
Backs(c, fd, flag) == fd \in FD => fds[fd] = [owner |-> c, path |-> File, flag |-> flag]

\* What the client calls its descriptors is open for it, and a download has a
\* descriptor of its own.
Backed(c) ==
    /\ IsOpenHere(c) => Backs(c, openFilesStatus[c].serverDesc, openFilesStatus[c].clientMode)
    /\ Has(c) => Backs(c, fi[c].fh, fi[c].flag)
    /\ pc[c] \in FetchLabels =>
         /\ frame[c].fh \in FD \cup {BadFd}
         /\ Backs(c, frame[c].fh, O_RDONLY)
         /\ frame[c].fh \in FD =>
              /\ Has(c) => fi[c].fh # frame[c].fh
              /\ IsOpenHere(c) => openFilesStatus[c].serverDesc # frame[c].fh
    /\ pc[c] = "wb_write" /\ frame[c].fh \in FD => fds[frame[c].fh].owner = c

\* What an operation has made sure of when it is at a label: f is its frame, and
\* cached says whether the file is in the cache.
CallPlaced(label, f, cached) ==
    /\ label = "probe" => f.op = "getattr"
    /\ label = "op_open" => f.op = "open"
    /\ label = "op_release" => f.op = "release"
    /\ label \in {"mk_probe", "mk_node", "mk_utime"} => f.op = "mknod"
    /\ label \in UploadLabels => f.op # "open"
    /\ f.op \in {"getattr", "read"} => f.flag = O_RDONLY
    /\ label = "check" /\ f.op \notin {"getattr", "read"} => cached
    /\ label \in {"mk_node", "mk_utime", "dl_read", "dl_unlock", "dl_release"} \cup UploadLabels =>
         cached
    /\ label = "wb_trunc" => f.st.size = Len(f.buf)
    /\ label = "wb_write" => f.buf # <<>>

Placed(c) == CallPlaced(pc[c], frame[c], Cached(c))

\* What the handle of the application has to do with an operation at a label: only
\* an open, or an operation that found the file open for reading, downloads it.
CallKept(c, label, f) ==
    /\ f.op = "open" /\ label \in {"check"} \cup DownloadLabels => Has(c) /\ fi[c].flag = f.flag
    /\ f.op = "release" /\ label # "idle" => Has(c)
    /\ f.op \in {"getattr", "read"} /\ label \in {"check"} \cup DownloadLabels /\ Has(c) =>
         fi[c].flag = O_RDONLY
    /\ f.op \notin {"open", "getattr", "read"} /\ label \in {"mk_probe"} \cup DownloadLabels =>
         ~Has(c)
    /\ f.op # "open" /\ label # "idle" /\ Has(c) => f.open

\* The map agrees with what the application has open.
Opened(c) == IsOpenHere(c) /\ openFilesStatus[c].clientMode = fi[c].flag /\ Cached(c)

\* An open that has its answer and has not finished.
StillOpening(label, f) ==
    f.op = "open" /\ label \in {"check", "dl_stat", "dl_open", "dl_lock", "dl_wait", "dl_read"}

Kept(c) ==
    /\ IsWriter(c) => Cached(c)
    /\ Has(c) => Opened(c) \/ StillOpening(pc[c], frame[c])
    /\ CallKept(c, pc[c], frame[c])

ClientInv ==
    /\ DOMAIN cache \subseteq Clients
    /\ DOMAIN openFilesStatus \subseteq Clients
    /\ DOMAIN fi \subseteq Clients
    /\ pc \in [Clients -> Labels]
    /\ frame \in [Clients -> Frames]
    /\ \A c \in Clients : Typed(c) /\ Backed(c) /\ Placed(c) /\ Kept(c)

ProtocolInv == TableInv /\ FilesInv /\ ClientInv

-----------------------------------------------------------------------------
(* What a remote call of client c does to the server's variables. *)

Served(c) == Handled(c) \/ UNCHANGED serverVars

\* The descriptors, and the wait, of everybody but c.
OthersKept(c) ==
    \A d \in Clients \ {c} :
        /\ waiting'[d] = waiting[d]
        /\ \A fd \in FD : fds[fd].owner = d => fds'[fd] = fds[fd]

\* The descriptors of c, but fh.
OwnKept(c, fh) == \A fd \in FD : fds[fd].owner = c /\ fd # fh => fds'[fd] = fds[fd]

\* c's thread on the server is idle afterwards, and c's descriptors are as before.
Calm(c) ==
    /\ waiting'[c] = NotWaiting /\ now' = now
    /\ OthersKept(c) /\ OwnKept(c, BadFd)

LEMMA UnchangedCalm ==
    ASSUME NEW c \in Clients, waiting[c] = NotWaiting, UNCHANGED <<waiting, fds, now>>
    PROVE  Calm(c)
BY DEF Calm, OthersKept, OwnKept

LEMMA UnchangedServer == UNCHANGED serverVars => UNCHANGED <<waiting, fds, now>>
BY DEF serverVars

\* Descriptors that are given out were free.
LEMMA FreshCalm ==
    ASSUME TableTypeOK, NEW c \in Clients, waiting[c] = NotWaiting, UNCHANGED <<waiting, now>>,
           NEW fd \in FreeFds, NEW v, fds' = [fds EXCEPT ![fd] = v]
    PROVE  Calm(c)
<1>1. fds[fd].owner \notin Clients /\ \A g \in FD : g # fd => fds'[g] = fds[g]
  BY NamesAssumption DEF FreeFds, TableTypeOK
<1> QED  BY <1>1 DEF Calm, OthersKept, OwnKept

LEMMA GetattrServed ==
    ASSUME NEW c \in Clients, waiting[c] = NotWaiting, NEW ret, NEW st, copy_getattr(c, ret, st)
    PROVE  Served(c) /\ Calm(c)
<1>1. UNCHANGED serverVars \/ \E r, s : watdfs_getattr(c, File, r, s)
  BY DEF copy_getattr, Unanswered
<1>2. UNCHANGED <<waiting, fds, now>>
  BY <1>1, UnchangedServer DEF watdfs_getattr
<1> QED  BY <1>1, <1>2, UnchangedCalm, ClientAssumption DEF Served, Handled

LEMMA MknodServed ==
    ASSUME NEW c \in Clients, waiting[c] = NotWaiting, NEW ret, copy_mknod(c, ret)
    PROVE  Served(c) /\ Calm(c)
<1>1. UNCHANGED serverVars \/ \E r : watdfs_mknod(c, File, r)
  BY DEF copy_mknod, Unanswered
<1>2. UNCHANGED <<waiting, fds, now>>
  BY <1>1, UnchangedServer DEF watdfs_mknod
<1> QED  BY <1>1, <1>2, UnchangedCalm, ClientAssumption DEF Served, Handled

LEMMA ReadServed ==
    ASSUME NEW c \in Clients, waiting[c] = NotWaiting, NEW fh \in OwnHandles(c), NEW n \in 0..MaxLen,
           NEW ret, NEW data, copy_read(c, fh, n, ret, data)
    PROVE  Served(c) /\ Calm(c)
<1>1. UNCHANGED serverVars \/ \E r, d : watdfs_read(c, fh, n, r, d)
  BY DEF copy_read, Unanswered
<1>2. UNCHANGED <<waiting, fds, now>>
  BY <1>1, UnchangedServer DEF watdfs_read
<1> QED  BY <1>1, <1>2, UnchangedCalm DEF Served, Handled

LEMMA WriteServed ==
    ASSUME NEW c \in Clients, waiting[c] = NotWaiting, NEW fh \in OwnHandles(c),
           NEW data \in Contents \ {<<>>}, NEW ret, copy_write(c, fh, data, ret)
    PROVE  Served(c) /\ Calm(c)
<1>1. UNCHANGED serverVars \/ \E r : watdfs_write(c, fh, data, r)
  BY DEF copy_write, Unanswered
<1>2. UNCHANGED <<waiting, fds, now>>
  BY <1>1, UnchangedServer DEF watdfs_write
<1> QED  BY <1>1, <1>2, UnchangedCalm DEF Served, Handled

LEMMA TruncateServed ==
    ASSUME NEW c \in Clients, waiting[c] = NotWaiting, NEW n \in 0..MaxLen, NEW ret,
           copy_truncate(c, n, ret)
    PROVE  Served(c) /\ Calm(c)
<1>1. UNCHANGED serverVars \/ \E r : watdfs_truncate(c, File, n, r)
  BY DEF copy_truncate, Unanswered
<1>2. UNCHANGED <<waiting, fds, now>>
  BY <1>1, UnchangedServer DEF watdfs_truncate
<1> QED  BY <1>1, <1>2, UnchangedCalm, ClientAssumption DEF Served, Handled

LEMMA UtimensatServed ==
    ASSUME TableTypeOK, NEW c \in Clients, waiting[c] = NotWaiting, NEW t \in Times, NEW ret,
           copy_utimensat(c, t, ret)
    PROVE  Served(c) /\ Calm(c)
<1>1. UNCHANGED serverVars \/ \E r : watdfs_utimensat(c, File, t, r)
  BY DEF copy_utimensat, Unanswered
<1>2. UNCHANGED <<waiting, now>>
  BY <1>1, UnchangedServer DEF watdfs_utimensat
<1>3. Calm(c)
  <2>1. CASE UNCHANGED fds
    BY <1>2, <2>1, UnchangedCalm
  <2>2. CASE \E fd \in FreeFds :
               fds' = [fds EXCEPT ![fd] = [owner |-> Leaked, path |-> File, flag |-> O_RDWR]]
    BY <1>2, <2>2, FreshCalm
  <2> QED  BY <1>1, <2>1, <2>2, UnchangedServer DEF watdfs_utimensat
<1> QED  BY <1>1, <1>3, ClientAssumption DEF Served, Handled

LEMMA UnlockServed ==
    ASSUME NEW c \in Clients, waiting[c] = NotWaiting, NEW m \in LockModes, NEW ret,
           watdfs_cli_unlock(c, m, ret)
    PROVE  Served(c) /\ Calm(c)
<1>1. UNCHANGED serverVars \/ \E r : watdfs_unlock(c, File, m, r)
  BY DEF watdfs_cli_unlock, Unanswered
<1>2. UNCHANGED <<waiting, fds, now>>
  BY <1>1, UnchangedServer DEF watdfs_unlock
<1> QED  BY <1>1, <1>2, UnchangedCalm, ClientAssumption DEF Served, Handled

LEMMA LockFailedServed ==
    ASSUME NEW c \in Clients, waiting[c] = NotWaiting, NEW m \in LockModes, NEW ret,
           LockFailed(c, m, ret)
    PROVE  Served(c) /\ Calm(c)
<1>1. UNCHANGED serverVars \/ \E r : watdfs_lock_fails(c, File, m, r)
  BY DEF LockFailed, Unanswered
<1>2. UNCHANGED <<waiting, fds, now>>
  BY <1>1, UnchangedServer DEF watdfs_lock_fails
<1> QED  BY <1>1, <1>2, UnchangedCalm, ClientAssumption DEF Served, Handled

\* A lock request that is taken leaves the thread waiting.
LEMMA LockSentServed ==
    ASSUME TableTypeOK, NEW c \in Clients, waiting[c] = NotWaiting, NEW m \in LockModes, LockSent(c, m)
    PROVE  Served(c) /\ now' = now /\ OthersKept(c) /\ OwnKept(c, BadFd)
<1>1. watdfs_lock_enters(c, File, m)
  BY DEF LockSent
<1>2. Served(c)
  BY <1>1, ClientAssumption DEF Served, Handled
<1>3. UNCHANGED <<fds, now>> /\ \A d \in Clients \ {c} : waiting'[d] = waiting[d]
  BY <1>1 DEF watdfs_lock_enters, TableTypeOK
<1> QED  BY <1>2, <1>3 DEF OthersKept, OwnKept

LEMMA LockReturnedServed ==
    ASSUME TableTypeOK, NEW c \in Clients, NEW ret, LockReturned(c, ret)
    PROVE  Served(c) /\ Calm(c)
<1>1. watdfs_lock_granted(c)
  BY DEF LockReturned
<1>2. UNCHANGED <<fds, now>> /\ waiting' = [waiting EXCEPT ![c] = NotWaiting]
  BY <1>1 DEF watdfs_lock_granted
<1>3. Calm(c)
  BY <1>2 DEF Calm, OthersKept, OwnKept, TableTypeOK
<1> QED  BY <1>1, <1>3 DEF Served, Handled

\* An open that is answered 0 comes with -1 or with a descriptor that was free.
LEMMA OpenServed ==
    ASSUME TableTypeOK, NEW c \in Clients, waiting[c] = NotWaiting, NEW flag \in OpenFlags,
           NEW ret, NEW fh, copy_open(c, flag, ret, fh)
    PROVE  /\ Served(c) /\ Calm(c)
           /\ ret >= 0 =>
                /\ fh \in FD \cup {BadFd}
                /\ Backs(c, fh, flag)'
                /\ fh \in FD => fds[fh].owner \notin Clients
<1>1. UNCHANGED serverVars \/ \E r, h : watdfs_open(c, File, flag, r, h)
  BY DEF copy_open, Unanswered
<1>2. UNCHANGED <<waiting, now>>
  BY <1>1, UnchangedServer DEF watdfs_open
<1>3. Calm(c)
  <2>1. CASE UNCHANGED fds
    BY <1>2, <2>1, UnchangedCalm
  <2>2. ASSUME NEW h \in FreeFds,
               fds' = [fds EXCEPT ![h] = [owner |-> c, path |-> File, flag |-> flag]]
        PROVE  Calm(c)
    BY <1>2, <2>2, FreshCalm
  <2> QED  BY <1>1, <2>1, <2>2, UnchangedServer DEF watdfs_open, OpenFile
<1>4. ASSUME ret >= 0
      PROVE  /\ fh \in FD \cup {BadFd}
             /\ Backs(c, fh, flag)'
             /\ fh \in FD => fds[fh].owner \notin Clients
  <2>1. ret # -EINVAL /\ ret # -EACCES
    BY <1>4 DEF EINVAL, EACCES
  <2>2. OpenFile(c, File, flag, fh)
    BY <2>1 DEF copy_open, Unanswered, AnswerLost, watdfs_open
  <2>3. CASE fh = BadFd
    BY <2>3, NamesAssumption DEF Backs
  <2>4. CASE fh \in FreeFds /\ fds' = [fds EXCEPT ![fh] = [owner |-> c, path |-> File, flag |-> flag]]
    <3>1. fh \in FD /\ fds[fh].owner = Nobody
      BY <2>4 DEF FreeFds
    <3>2. fds'[fh] = [owner |-> c, path |-> File, flag |-> flag]
      BY <2>4, <3>1 DEF TableTypeOK
    <3> QED  BY <3>1, <3>2, NamesAssumption DEF Backs
  <2> QED  BY <2>2, <2>3, <2>4 DEF OpenFile
<1> QED  BY <1>1, <1>3, <1>4, ClientAssumption DEF Served, Handled

\* A release of a descriptor that is backed takes that one and no other.
LEMMA ReleaseServed ==
    ASSUME TableTypeOK, NEW c \in Clients, waiting[c] = NotWaiting, NEW flag \in OpenFlags,
           NEW fh \in FD \cup {BadFd}, Backs(c, fh, flag), NEW ret, copy_release(c, flag, fh, ret)
    PROVE  /\ Served(c)
           /\ waiting'[c] = NotWaiting /\ now' = now /\ OthersKept(c) /\ OwnKept(c, fh)
<1>1. UNCHANGED serverVars \/ \E r : watdfs_release(c, File, flag, fh, r)
  BY DEF copy_release, Unanswered
<1>2. UNCHANGED <<waiting, now>>
  BY <1>1, UnchangedServer DEF watdfs_release
<1>3. fh \in FD => fds[fh].owner = c /\ fds[fh].path = File /\ fds[fh].flag = flag
  BY DEF Backs
<1>4. Served(c)
  BY <1>1, <1>3, ClientAssumption DEF Served, Handled, Own
<1>5. UNCHANGED fds \/ (fh \in FD /\ fds' = [fds EXCEPT ![fh] = FreeFd])
  BY <1>1, UnchangedServer DEF watdfs_release, IsOpen
<1>6. OthersKept(c) /\ OwnKept(c, fh)
  BY <1>2, <1>3, <1>5 DEF OthersKept, OwnKept, TableTypeOK
<1> QED  BY <1>2, <1>4, <1>6

LEMMA ServedInv ==
    ASSUME TableInv, FilesInv, NEW c \in Clients, Served(c)
    PROVE  TableInv' /\ FilesInv'
<1>1. CASE Handled(c)
  BY <1>1, HandledTable, HandledFiles DEF TableInv
<1>2. CASE UNCHANGED serverVars
  BY <1>2, TableUnchanged DEF serverVars, tableVars, FilesInv
<1> QED  BY <1>1, <1>2 DEF Served

-----------------------------------------------------------------------------
(* What a step of client c does to the clients' variables. *)

\* A call of the same operation, on a file that is as open and as cached.
SameCall(g, f) == g.op = f.op /\ g.open = f.open /\ g.cached = f.cached /\ g.flag = f.flag

LEMMA FrameFields ==
    ASSUME NEW f \in Frames
    PROVE  /\ f.op \in Ops \cup {"none"} /\ f.open \in BOOLEAN /\ f.cached \in BOOLEAN
           /\ f.flag \in OpenFlags /\ f.n \in 0..MaxLen /\ f.st \in Stats /\ f.buf \in Contents
           /\ f.fh \in Handles /\ f.ret \in Int
BY DEF Frames

FrameOf(f) ==
    [op |-> f.op, open |-> f.open, cached |-> f.cached, flag |-> f.flag, n |-> f.n,
     st |-> f.st, buf |-> f.buf, fh |-> f.fh, ret |-> f.ret]

LEMMA FrameWith ==
    ASSUME NEW f \in Frames
    PROVE  /\ \A x \in Stats :
                LET g == [f EXCEPT !.st = x]
                IN  g \in Frames /\ SameCall(g, f) /\ g.fh = f.fh /\ g.st = x
           /\ \A x \in Handles :
                LET g == [f EXCEPT !.fh = x]
                IN  g \in Frames /\ SameCall(g, f) /\ g.fh = x /\ g.buf = f.buf
           /\ \A x \in Int :
                LET g == [f EXCEPT !.ret = x]
                IN  g \in Frames /\ SameCall(g, f)
           /\ \A x \in Contents, y \in Stats :
                LET g == [f EXCEPT !.buf = x, !.st = y]
                IN  g \in Frames /\ SameCall(g, f) /\ g.st = y /\ g.buf = x
           /\ \A x \in OpenFlags :
                LET g == [f EXCEPT !.flag = x]
                IN  g \in Frames /\ g.op = f.op /\ g.open = f.open /\ g.flag = x
<1>1. f = FrameOf(f)
  BY DEF Frames, FrameOf
<1>2. \A x \in Stats :
         LET g == [f EXCEPT !.st = x]
         IN  g \in Frames /\ SameCall(g, f) /\ g.fh = f.fh /\ g.st = x
  BY <1>1, FrameFields DEF Frames, FrameOf, SameCall
<1>3. \A x \in Handles :
         LET g == [f EXCEPT !.fh = x]
         IN  g \in Frames /\ SameCall(g, f) /\ g.fh = x /\ g.buf = f.buf
  BY <1>1, FrameFields DEF Frames, FrameOf, SameCall
<1>4. \A x \in Int :
         LET g == [f EXCEPT !.ret = x]
         IN  g \in Frames /\ SameCall(g, f)
  BY <1>1, FrameFields DEF Frames, FrameOf, SameCall
<1>5. \A x \in Contents, y \in Stats :
         LET g == [f EXCEPT !.buf = x, !.st = y]
         IN  g \in Frames /\ SameCall(g, f) /\ g.st = y /\ g.buf = x
  BY <1>1, FrameFields DEF Frames, FrameOf, SameCall
<1>6. \A x \in OpenFlags :
         LET g == [f EXCEPT !.flag = x]
         IN  g \in Frames /\ g.op = f.op /\ g.open = f.open /\ g.flag = x
  BY <1>1, FrameFields DEF Frames, FrameOf
<1> QED  BY <1>2, <1>3, <1>4, <1>5, <1>6

LEMMA BlankFrames ==
    /\ Blank \in Frames
    /\ <<>> \in Contents /\ NoStat \in Stats
    /\ \A op \in Ops \cup {"none"}, ret \in Int :
         LET g == [Blank EXCEPT !.op = op, !.ret = ret]
         IN  g \in Frames /\ g.op = op /\ g.flag = O_RDONLY
<1>1. 0 \in 0..MaxLen /\ 0 \in Times
  BY ServerAssumption DEF Times
<1>2. <<>> \in Contents
  <2>1. <<>> \in [1..0 -> Data]
    OBVIOUS
  <2> QED  BY <1>1, <2>1 DEF Contents
<1>3. NoStat \in Stats
  BY <1>1 DEF NoStat, Stats
<1>4. StdIn \in Handles /\ O_RDONLY \in OpenFlags
  BY DEF Handles, OpenFlags
<1>5. Blank \in Frames
  BY <1>1, <1>2, <1>3, <1>4 DEF Blank, Frames
<1>6. \A op \in Ops \cup {"none"}, ret \in Int :
         LET g == [Blank EXCEPT !.op = op, !.ret = ret]
         IN  g \in Frames /\ g.op = op /\ g.flag = O_RDONLY
  BY <1>1, <1>2, <1>3, <1>4 DEF Blank, Frames
<1> QED  BY <1>2, <1>3, <1>5, <1>6

\* The functions f and g differ at most in c.
SameBut(f, g, c) ==
    /\ DOMAIN f \ {c} = DOMAIN g \ {c}
    /\ \A d \in DOMAIN f \ {c} : g[d] = f[d]

LEMMA SameButs ==
    ASSUME NEW f, NEW c
    PROVE  /\ SameBut(f, f, c)
           /\ \A v : /\ SameBut(f, Put(f, c, v), c)
                     /\ c \in DOMAIN Put(f, c, v) /\ Put(f, c, v)[c] = v
           /\ SameBut(f, Erase(f, c), c) /\ c \notin DOMAIN Erase(f, c)
           /\ \A v : /\ SameBut(f, [f EXCEPT ![c] = v], c)
                     /\ DOMAIN [f EXCEPT ![c] = v] = DOMAIN f
                     /\ c \in DOMAIN f => [f EXCEPT ![c] = v][c] = v
BY DEF SameBut, Put, Erase

LEMMA MetaFields ==
    ASSUME NEW m \in Metas
    PROVE  /\ m.clientMode \in OpenFlags /\ m.serverDesc \in Handles
           /\ \A t \in Nat : LET n == [m EXCEPT !.tc = t]
                             IN  /\ n \in Metas
                                 /\ n.clientMode = m.clientMode /\ n.serverDesc = m.serverDesc
<1>1. m = [clientMode |-> m.clientMode, tc |-> m.tc, serverDesc |-> m.serverDesc]
  BY DEF Metas
<1>2. m.clientMode \in OpenFlags /\ m.serverDesc \in Handles /\ m.tc \in Nat \cup {Epoch}
  BY DEF Metas
<1> QED  BY <1>1, <1>2 DEF Metas

LEMMA PhantomMetaType ==
    /\ PhantomMeta \in Metas /\ PhantomMeta.clientMode = O_RDONLY /\ PhantomMeta.serverDesc = StdIn
    /\ StdIn \notin FD
BY NamesAssumption DEF PhantomMeta, Metas, Handles, OpenFlags

\* A step of client c gives ClientInv if it leaves the others alone.
LEMMA Moved ==
    ASSUME ClientInv, NEW c \in Clients, OthersKept(c),
           NEW label \in Labels, NEW f \in Frames, Goto(c, label, f),
           SameBut(cache, cache', c), SameBut(openFilesStatus, openFilesStatus', c),
           SameBut(fi, fi', c),
           Typed(c)', Backed(c)', Placed(c)', Kept(c)'
    PROVE  ClientInv'
<1> USE DEF ClientInv
<1>1. /\ pc' \in [Clients -> Labels] /\ frame' \in [Clients -> Frames]
      /\ \A d \in Clients \ {c} : pc'[d] = pc[d] /\ frame'[d] = frame[d]
  BY DEF Goto
<1>2. /\ DOMAIN cache' \subseteq Clients /\ DOMAIN openFilesStatus' \subseteq Clients
      /\ DOMAIN fi' \subseteq Clients
  BY DEF SameBut
<1>3. ASSUME NEW d \in Clients \ {c}
      PROVE  Typed(d)' /\ Backed(d)' /\ Placed(d)' /\ Kept(d)'
  <2>1. /\ pc'[d] = pc[d] /\ frame'[d] = frame[d] /\ waiting'[d] = waiting[d]
        /\ Cached(d)' <=> Cached(d)
        /\ IsOpenHere(d)' <=> IsOpenHere(d)
        /\ Has(d)' <=> Has(d)
        /\ Cached(d) => cache'[d] = cache[d]
        /\ IsOpenHere(d) => openFilesStatus'[d] = openFilesStatus[d]
        /\ Has(d) => fi'[d] = fi[d]
    BY <1>1, <1>3 DEF SameBut, Cached, IsOpenHere, Has, OthersKept
  <2>2. \A fd \in FD : fds[fd].owner = d => fds'[fd] = fds[fd]
    BY <1>3 DEF OthersKept
  <2>3. \A fd, flag : Backs(d, fd, flag) /\ fd \in FD =>
                        fds'[fd] = [owner |-> d, path |-> File, flag |-> flag]
    BY <2>2 DEF Backs
  <2>4. Typed(d)'
    BY <1>3, <2>1 DEF Typed
  <2>5. Backed(d)'
    <3>1. pc[d] = "wb_write" /\ frame[d].fh \in FD => fds'[frame[d].fh].owner = d
      BY <1>3, <2>2 DEF Backed
    <3>2. Backed(d)
      BY <1>3
    <3>3. IsOpenHere(d) => Backs(d, openFilesStatus[d].serverDesc, openFilesStatus[d].clientMode)
      BY <3>2 DEF Backed
    <3>4. Has(d) => Backs(d, fi[d].fh, fi[d].flag)
      BY <3>2 DEF Backed
    <3>5. IsOpenHere(d)' => Backs(d, openFilesStatus[d].serverDesc, openFilesStatus[d].clientMode)'
      BY <2>1, <2>3, <3>3 DEF Backs
    <3>6. Has(d)' => Backs(d, fi[d].fh, fi[d].flag)'
      BY <2>1, <2>3, <3>4 DEF Backs
    <3>7. pc[d] \in FetchLabels => Backs(d, frame[d].fh, O_RDONLY)'
      BY <2>1, <2>3, <3>2 DEF Backed, Backs
    <3>8. pc[d] \in FetchLabels =>
            /\ frame[d].fh \in FD \cup {BadFd}
            /\ frame[d].fh \in FD =>
                 /\ Has(d) => fi[d].fh # frame[d].fh
                 /\ IsOpenHere(d) => openFilesStatus[d].serverDesc # frame[d].fh
      BY <3>2 DEF Backed
    <3> QED  BY <2>1, <3>1, <3>5, <3>6, <3>7, <3>8 DEF Backed
  <2>6. Placed(d)'
    BY <1>3, <2>1 DEF Placed, CallPlaced
  <2>7. Kept(d)'
    BY <1>3, <2>1 DEF Kept, CallKept, Opened, IsWriter
  <2> QED  BY <2>4, <2>5, <2>6, <2>7
<1> QED  BY <1>1, <1>2, <1>3

\* A call that returns: all that is left to say is what the client keeps.
LEMMA Settles ==
    ASSUME ClientInv, NEW c \in Clients, OthersKept(c), waiting'[c] = NotWaiting,
           NEW op \in Ops \cup {"none"}, NEW ret \in Int,
           Goto(c, "idle", [Blank EXCEPT !.op = op, !.ret = ret]),
           SameBut(cache, cache', c), SameBut(openFilesStatus, openFilesStatus', c),
           SameBut(fi, fi', c),
           Cached(c)' => cache'[c] \in Copies,
           IsOpenHere(c)' =>
             /\ openFilesStatus'[c] \in Metas
             /\ Backs(c, openFilesStatus[c].serverDesc, openFilesStatus[c].clientMode)',
           IsWriter(c)' => Cached(c)',
           Has(c)' => /\ fi'[c] \in [flag : OpenFlags, fh : FD \cup {BadFd}]
                      /\ Backs(c, fi[c].fh, fi[c].flag)' /\ Opened(c)'
    PROVE  ClientInv'
<1> DEFINE f == [Blank EXCEPT !.op = op, !.ret = ret]
<1>1. f \in Frames /\ f.op = op /\ f.flag = O_RDONLY
  BY BlankFrames
<1>2. "idle" \in Labels
  BY DEF Labels
<1>3. pc'[c] = "idle" /\ frame'[c] = f
  BY DEF Goto, ClientInv
<1> HIDE DEF f
<1>4. Typed(c)'
  BY <1>3 DEF Typed
<1>5. Backed(c)'
  BY <1>3 DEF Backed, FetchLabels
<1>6. Placed(c)'
  BY <1>1, <1>3 DEF Placed, CallPlaced, UploadLabels
<1>7. Kept(c)'
  BY <1>3 DEF Kept, CallKept, DownloadLabels
<1>8. Goto(c, "idle", f)
  BY DEF f
<1> QED  BY <1>1, <1>2, <1>4, <1>5, <1>6, <1>7, <1>8, Moved

\* What the client calls its descriptors is still open for it.
StillBacked(c) ==
    /\ IsOpenHere(c) /\ openFilesStatus[c].serverDesc \in FD =>
         fds'[openFilesStatus[c].serverDesc] =
           [owner |-> c, path |-> File, flag |-> openFilesStatus[c].clientMode]
    /\ Has(c) /\ fi[c].fh \in FD =>
         fds'[fi[c].fh] = [owner |-> c, path |-> File, flag |-> fi[c].flag]

Steady(c) == waiting'[c] = NotWaiting /\ now' = now /\ OthersKept(c) /\ StillBacked(c)

LEMMA KeptBacked ==
    ASSUME ClientInv, NEW c \in Clients, NEW h, OwnKept(c, h),
           h \in FD => /\ Has(c) => fi[c].fh # h
                       /\ IsOpenHere(c) => openFilesStatus[c].serverDesc # h
    PROVE  StillBacked(c)
<1>1. Backed(c)
  BY DEF ClientInv
<1>2. ASSUME IsOpenHere(c), openFilesStatus[c].serverDesc \in FD
      PROVE  fds'[openFilesStatus[c].serverDesc] =
               [owner |-> c, path |-> File, flag |-> openFilesStatus[c].clientMode]
  <2>1. fds[openFilesStatus[c].serverDesc] =
          [owner |-> c, path |-> File, flag |-> openFilesStatus[c].clientMode]
    BY <1>1, <1>2 DEF Backed, Backs
  <2>2. fds[openFilesStatus[c].serverDesc].owner = c
    BY <2>1
  <2> QED  BY <1>2, <2>1, <2>2 DEF OwnKept
<1>3. ASSUME Has(c), fi[c].fh \in FD
      PROVE  fds'[fi[c].fh] = [owner |-> c, path |-> File, flag |-> fi[c].flag]
  <2>1. fds[fi[c].fh] = [owner |-> c, path |-> File, flag |-> fi[c].flag]
    BY <1>1, <1>3 DEF Backed, Backs
  <2>2. fds[fi[c].fh].owner = c
    BY <2>1
  <2> QED  BY <1>3, <2>1, <2>2 DEF OwnKept
<1> QED  BY <1>2, <1>3 DEF StillBacked

LEMMA CalmSteady ==
    ASSUME ClientInv, NEW c \in Clients, Calm(c)
    PROVE  Steady(c)
BY KeptBacked, NamesAssumption DEF Calm, Steady

\* What the client keeps, when it keeps the map and the handle as they are.
LEMMA MapKept ==
    ASSUME ClientInv, NEW c \in Clients, StillBacked(c)
    PROVE  /\ UNCHANGED openFilesStatus /\ IsOpenHere(c) =>
                /\ openFilesStatus'[c] \in Metas
                /\ Backs(c, openFilesStatus[c].serverDesc, openFilesStatus[c].clientMode)'
           /\ UNCHANGED fi /\ Has(c) =>
                /\ fi'[c] \in [flag : OpenFlags, fh : FD \cup {BadFd}]
                /\ Backs(c, fi[c].fh, fi[c].flag)'
BY DEF ClientInv, Typed, StillBacked, Backs

\* The map is m: c's entry is as it was, or was inserted by operator[], but for the
\* time of the last check.
Retimed(m, c) ==
    /\ SameBut(openFilesStatus, m, c)
    /\ IsOpenHere(c) => c \in DOMAIN m
    /\ c \in DOMAIN m =>
         /\ m[c] \in Metas
         /\ IF IsOpenHere(c) THEN /\ m[c].clientMode = openFilesStatus[c].clientMode
                                  /\ m[c].serverDesc = openFilesStatus[c].serverDesc
                             ELSE m[c].clientMode = O_RDONLY /\ m[c].serverDesc = StdIn

LEMMA Retimes ==
    ASSUME ClientInv, now \in Times, NEW c \in Clients
    PROVE  /\ Retimed(openFilesStatus, c)
           /\ Retimed(MetaTouched(c), c)
           /\ \A m : Retimed(m, c) => Retimed([m EXCEPT ![c].tc = now], c)
<1>1. IsOpenHere(c) => openFilesStatus[c] \in Metas
  BY DEF ClientInv, Typed
<1>2. now \in Nat
  BY ServerAssumption DEF Times
<1>3. Retimed(openFilesStatus, c)
  BY <1>1, SameButs DEF Retimed, IsOpenHere
<1>4. Retimed(MetaTouched(c), c)
  <2>1. CASE IsOpenHere(c)
    BY <1>3, <2>1 DEF MetaTouched
  <2>2. CASE ~IsOpenHere(c)
    <3>1. MetaTouched(c) = Put(openFilesStatus, c, PhantomMeta)
      BY <2>2 DEF MetaTouched
    <3> DEFINE m == Put(openFilesStatus, c, PhantomMeta)
    <3>2. SameBut(openFilesStatus, m, c) /\ c \in DOMAIN m /\ m[c] = PhantomMeta
      BY DEF SameBut, Put
    <3> HIDE DEF m
    <3>3. Retimed(m, c)
      BY <2>2, <3>2, PhantomMetaType DEF Retimed
    <3> QED  BY <3>1, <3>3 DEF m
  <2> QED  BY <2>1, <2>2
<1>5. ASSUME NEW m, Retimed(m, c)
      PROVE  Retimed([m EXCEPT ![c].tc = now], c)
  <2> DEFINE v == [m[c] EXCEPT !.tc = now]
             n == [m EXCEPT ![c] = v]
  <2>1. [m EXCEPT ![c].tc = now] = n
    OBVIOUS
  <2>2. c \in DOMAIN m => /\ v \in Metas /\ v.clientMode = m[c].clientMode
                          /\ v.serverDesc = m[c].serverDesc
    BY <1>2, <1>5, MetaFields DEF Retimed
  <2> HIDE DEF v
  <2>3. SameBut(m, n, c) /\ DOMAIN n = DOMAIN m /\ (c \in DOMAIN m => n[c] = v)
    BY SameButs
  <2> HIDE DEF n
  <2>4. SameBut(openFilesStatus, n, c)
    BY <1>5, <2>3 DEF Retimed, SameBut
  <2> QED  BY <1>5, <2>1, <2>2, <2>3, <2>4 DEF Retimed
<1> QED  BY <1>3, <1>4, <1>5

LEMMA MapRetimed ==
    ASSUME ClientInv, NEW c \in Clients, StillBacked(c), NEW m, Retimed(m, c)
    PROVE  /\ SameBut(openFilesStatus, m, c)
           /\ IsOpenHere(c) => c \in DOMAIN m
           /\ c \in DOMAIN m =>
                /\ m[c] \in Metas
                /\ m[c].serverDesc \in FD =>
                     fds'[m[c].serverDesc] = [owner |-> c, path |-> File, flag |-> m[c].clientMode]
                /\ IF IsOpenHere(c) THEN /\ m[c].clientMode = openFilesStatus[c].clientMode
                                         /\ m[c].serverDesc = openFilesStatus[c].serverDesc
                                    ELSE m[c].clientMode = O_RDONLY /\ m[c].serverDesc = StdIn
BY PhantomMetaType DEF Retimed, StillBacked

\* A step of client c to a label: it keeps its handle, and its map but for the
\* time of the last check.
LEMMA Landed ==
    ASSUME ClientInv, NEW c \in Clients, OthersKept(c), StillBacked(c),
           NEW label \in Labels, NEW f \in Frames, Goto(c, label, f),
           waiting'[c] = NotWaiting \/ label \in {"dl_wait", "wb_wait"},
           SameBut(cache, cache', c), Cached(c) => Cached(c)', Cached(c)' => cache'[c] \in Copies,
           UNCHANGED fi, Retimed(openFilesStatus', c),
           label \in FetchLabels =>
             /\ f.fh \in FD \cup {BadFd}
             /\ f.fh \in FD =>
                  /\ fds'[f.fh] = [owner |-> c, path |-> File, flag |-> O_RDONLY]
                  /\ Has(c) => fi[c].fh # f.fh
                  /\ IsOpenHere(c) => openFilesStatus[c].serverDesc # f.fh,
           label = "wb_write" /\ f.fh \in FD => fds'[f.fh].owner = c,
           CallPlaced(label, f, Cached(c)'),
           Has(c) => Opened(c) \/ StillOpening(label, f),
           CallKept(c, label, f)
    PROVE  ClientInv'
<1>1. pc'[c] = label /\ frame'[c] = f
  BY DEF Goto, ClientInv
<1>2. /\ SameBut(openFilesStatus, openFilesStatus', c)
      /\ IsOpenHere(c) => IsOpenHere(c)'
      /\ IsOpenHere(c)' =>
           /\ openFilesStatus'[c] \in Metas
           /\ openFilesStatus'[c].serverDesc \in FD =>
                fds'[openFilesStatus'[c].serverDesc] =
                  [owner |-> c, path |-> File, flag |-> openFilesStatus'[c].clientMode]
           /\ IF IsOpenHere(c)
                THEN /\ openFilesStatus'[c].clientMode = openFilesStatus[c].clientMode
                     /\ openFilesStatus'[c].serverDesc = openFilesStatus[c].serverDesc
                ELSE /\ openFilesStatus'[c].clientMode = O_RDONLY
                     /\ openFilesStatus'[c].serverDesc = StdIn
  BY MapRetimed DEF IsOpenHere
<1>3. Has(c)' <=> Has(c)
  BY DEF Has
<1>4. Typed(c) /\ Kept(c)
  BY DEF ClientInv
<1>5. Typed(c)'
  BY <1>1, <1>2, <1>3, <1>4 DEF Typed
<1>6. Backed(c)'
  <2>1. Has(c)' => Backs(c, fi[c].fh, fi[c].flag)'
    BY <1>3 DEF StillBacked, Backs
  <2>2. IsOpenHere(c)' => Backs(c, openFilesStatus[c].serverDesc, openFilesStatus[c].clientMode)'
    BY <1>2 DEF Backs
  <2>3. label \in FetchLabels =>
          /\ f.fh \in FD \cup {BadFd}
          /\ f.fh \in FD => /\ Has(c)' => fi'[c].fh # f.fh
                            /\ IsOpenHere(c)' => openFilesStatus'[c].serverDesc # f.fh
    BY <1>2, <1>3, NamesAssumption
  <2>4. label \in FetchLabels => Backs(c, frame[c].fh, O_RDONLY)'
    BY <1>1 DEF Backs
  <2> QED  BY <1>1, <2>1, <2>2, <2>3, <2>4 DEF Backed
<1>7. Placed(c)'
  BY <1>1 DEF Placed
<1>8. Kept(c)'
  <2>1. IsWriter(c)' => Cached(c)'
    BY <1>2, <1>4 DEF Kept, IsWriter
  <2>2. Has(c)' => Opened(c)' \/ StillOpening(label, f)
    BY <1>2, <1>3 DEF Opened
  <2>3. CallKept(c, pc[c], frame[c])'
    BY <1>1, <1>3 DEF CallKept
  <2> QED  BY <1>1, <2>1, <2>2, <2>3 DEF Kept
<1> QED  BY <1>2, <1>5, <1>6, <1>7, <1>8, SameButs, Moved

\* A call that ends, with the map as it was but for the time of the last check.
LEMMA EndsInv ==
    ASSUME ClientInv, NEW c \in Clients, Steady(c),
           NEW op \in Ops \cup {"none"}, NEW ret \in Int,
           Goto(c, "idle", [Blank EXCEPT !.op = op, !.ret = ret]),
           UNCHANGED cache, Retimed(openFilesStatus', c),
           (UNCHANGED fi /\ (Has(c) => Opened(c))) \/ fi' = Erase(fi, c)
    PROVE  ClientInv'
<1>1. StillBacked(c) /\ OthersKept(c) /\ waiting'[c] = NotWaiting
  BY DEF Steady
<1>2. /\ SameBut(openFilesStatus, openFilesStatus', c)
      /\ IsOpenHere(c) => IsOpenHere(c)'
      /\ IsOpenHere(c)' =>
           /\ openFilesStatus'[c] \in Metas
           /\ openFilesStatus'[c].serverDesc \in FD =>
                fds'[openFilesStatus'[c].serverDesc] =
                  [owner |-> c, path |-> File, flag |-> openFilesStatus'[c].clientMode]
           /\ IF IsOpenHere(c)
                THEN openFilesStatus'[c].clientMode = openFilesStatus[c].clientMode
                ELSE openFilesStatus'[c].clientMode = O_RDONLY
  BY <1>1, MapRetimed DEF IsOpenHere
<1>3. Typed(c) /\ Kept(c)
  BY DEF ClientInv
<1>4. IsOpenHere(c)' => Backs(c, openFilesStatus[c].serverDesc, openFilesStatus[c].clientMode)'
  BY <1>2 DEF Backs
<1>5. IsWriter(c)' => Cached(c)'
  BY <1>2, <1>3 DEF Kept, IsWriter, Cached
<1>6. Has(c)' => /\ fi'[c] \in [flag : OpenFlags, fh : FD \cup {BadFd}]
                 /\ Backs(c, fi[c].fh, fi[c].flag)' /\ Opened(c)'
  <2>1. CASE UNCHANGED fi /\ (Has(c) => Opened(c))
    BY <1>1, <1>2, <1>3, <2>1, MapKept DEF Opened, Has, Cached
  <2>2. CASE fi' = Erase(fi, c)
    BY <2>2, SameButs DEF Has
  <2> QED  BY <2>1, <2>2
<1>7. SameBut(fi, fi', c) /\ SameBut(cache, cache', c)
  BY SameButs
<1>8. Cached(c)' => cache'[c] \in Copies
  BY <1>3 DEF Typed, Cached
<1> QED  BY <1>1, <1>2, <1>4, <1>5, <1>6, <1>7, <1>8, Settles

-----------------------------------------------------------------------------
(* The ends of an operation, and of a transfer *)

\* What is known of a client before its step.
LEMMA Known ==
    ASSUME ProtocolInv, NEW c \in Clients
    PROVE  /\ ClientInv /\ TableInv /\ TableTypeOK /\ FilesInv /\ now \in Times /\ now \in Nat
           /\ pc[c] \in Labels /\ frame[c] \in Frames
           /\ Typed(c) /\ Backed(c) /\ Placed(c) /\ Kept(c)
           /\ pc[c] \notin {"dl_wait", "wb_wait"} => waiting[c] = NotWaiting
BY ServerAssumption DEF ProtocolInv, ClientInv, Typed, TableInv, FilesInv, Times

\* The descriptors of a transfer are the client's own, or none.
LEMMA TransferHandles ==
    ASSUME ClientInv, NEW c \in Clients, pc[c] \in FetchLabels \cup {"wb_write"}
    PROVE  frame[c].fh \in OwnHandles(c)
<1>1. frame[c].fh \in Handles /\ Backed(c)
  BY FrameFields DEF ClientInv
<1> QED  BY <1>1 DEF Backed, Backs, Handles, OwnHandles, Own

LEMMA AnswersInt == Answers \subseteq Int /\ Codes \subseteq Int
BY ServerAssumption
   DEF Answers, Codes, Errnos, EINVAL, EPERM, ENOENT, EBADF, EACCES, EEXIST, EMFILE, ESPIPE

LEMMA CopyFields ==
    /\ \A x \in Copies : x.data \in Contents /\ x.mtime \in Times /\ StatOf(x) \in Stats
    /\ \A data \in Contents, t \in Times : [data |-> data, mtime |-> t] \in Copies
    /\ \A x \in Copies, n \in 0..MaxLen : now \in Times => Truncated(x, n) \in Copies
<1>1. \A data \in Contents : Len(data) \in 0..MaxLen
  BY ContentsLength
<1>2. \A x \in Copies : x.data \in Contents /\ x.mtime \in Times /\ StatOf(x) \in Stats
  BY <1>1 DEF Copies, StatOf, Stats
<1>3. \A data \in Contents, t \in Times : [data |-> data, mtime |-> t] \in Copies
  BY DEF Copies
<1>4. ASSUME NEW x \in Copies, NEW n \in 0..MaxLen, now \in Times
      PROVE  Truncated(x, n) \in Copies
  <2>1. n \in Nat /\ x.data \in Seq(Data)
    BY <1>2, ContentsAreSeq, ServerAssumption
  <2>2. Resized(x.data, n) \in Contents
    BY <2>1, ResizedType DEF Contents
  <2>3. (IF n = Len(x.data) THEN x.mtime ELSE now) \in Times
    BY <1>2, <1>4
  <2> QED  BY <1>3, <2>2, <2>3 DEF Truncated
<1> QED  BY <1>2, <1>3, <1>4

\* A call that ends in an error or with nothing to do.
LEMMA ReturnsInv ==
    ASSUME ClientInv, now \in Times, NEW c \in Clients, Steady(c), NEW ret \in Int, Return(c, ret),
           LocalUnchanged, Has(c) => Opened(c)
    PROVE  ClientInv'
<1>1. frame[c] \in Frames
  BY DEF ClientInv
<1>2. frame[c].op \in Ops \cup {"none"}
  BY <1>1, FrameFields
<1>3. Retimed(openFilesStatus', c)
  BY Retimes DEF LocalUnchanged
<1> QED  BY <1>2, <1>3, EndsInv DEF Return, LocalUnchanged

LEMMA DownloadFailedInv ==
    ASSUME ClientInv, now \in Times, NEW c \in Clients, Steady(c), NEW ret \in Int,
           pc[c] \in DownloadLabels, DownloadFailed(c, ret)
    PROVE  ClientInv'
<1>1. frame[c] \in Frames /\ Kept(c)
  BY DEF ClientInv
<1>2. frame[c].op \in Ops \cup {"none"}
  BY <1>1, FrameFields
<1>3. Retimed(openFilesStatus', c)
  <2>1. openFilesStatus' = openFilesStatus \/ openFilesStatus' = MetaTouched(c)
    BY DEF DownloadFailed
  <2> QED  BY <2>1, Retimes
<1>4. (UNCHANGED fi /\ (Has(c) => Opened(c))) \/ fi' = Erase(fi, c)
  BY <1>1 DEF DownloadFailed, Kept, StillOpening
<1> QED  BY <1>2, <1>3, <1>4, EndsInv DEF DownloadFailed, Return

\* The download that a release ends.
LEMMA DownloadedInv ==
    ASSUME ClientInv, now \in Times, NEW c \in Clients, Steady(c), pc[c] = "dl_release", Downloaded(c)
    PROVE  ClientInv'
<1>1. frame[c] \in Frames /\ Kept(c) /\ Placed(c) /\ Typed(c)
  BY DEF ClientInv
<1>2. Cached(c) /\ (Has(c) => Opened(c)) /\ (~StaysOpen(c) => ~Has(c))
  BY <1>1 DEF Placed, CallPlaced, Kept, StillOpening, CallKept, StaysOpen
<1>3. StillBacked(c) /\ OthersKept(c) /\ waiting'[c] = NotWaiting
  BY DEF Steady
<1>4. SameBut(cache, cache', c) /\ Cached(c)' /\ cache'[c] \in Copies
  <2>1. cache[c] \in Copies /\ frame[c].n \in 0..MaxLen
    BY <1>1, <1>2, FrameFields DEF Typed
  <2>2. CASE cache' = cache
    BY <1>2, <2>1, <2>2, SameButs DEF Cached
  <2>3. CASE cache' = [cache EXCEPT ![c] = Truncated(@, frame[c].n)]
    <3>1. Truncated(cache[c], frame[c].n) \in Copies
      BY <2>1, CopyFields
    <3> QED  BY <1>2, <2>3, <3>1, SameButs DEF Cached
  <2> QED  BY <2>2, <2>3 DEF Downloaded
<1>5. UNCHANGED fi /\ SameBut(fi, fi', c) /\ (Has(c)' <=> Has(c))
  BY SameButs DEF Downloaded, Has
<1>6. openFilesStatus' = openFilesStatus \/ (openFilesStatus' = Closed(c) /\ ~StaysOpen(c))
  BY DEF Downloaded
<1>7. ASSUME openFilesStatus' = Closed(c), ~StaysOpen(c)
      PROVE  /\ SameBut(openFilesStatus, openFilesStatus', c) /\ ~IsOpenHere(c)' /\ ~Has(c)'
             /\ ~IsWriter(c)'
  BY <1>2, <1>5, <1>7, SameButs DEF Closed, IsOpenHere, IsWriter
<1>8. CASE frame[c].op \in {"mknod", "truncate"}
  <2>1. PICK f \in Frames : Goto(c, "check", f) /\ SameCall(f, frame[c])
    <3>1. CASE frame[c].op = "mknod"
      <4>1. \A x \in Int : /\ [frame[c] EXCEPT !.ret = x] \in Frames
                           /\ SameCall([frame[c] EXCEPT !.ret = x], frame[c])
        BY <1>1, FrameWith
      <4> QED  BY <3>1, <4>1 DEF Downloaded
    <3>2. CASE frame[c].op = "truncate"
      BY <1>1, <3>2 DEF Downloaded, Step, SameCall
    <3> QED  BY <1>8, <3>1, <3>2
  <2>2. "check" \in Labels /\ "check" \notin FetchLabels /\ "check" \notin UploadLabels
    BY DEF Labels, FetchLabels, UploadLabels
  <2>3. f.op \in {"mknod", "truncate"} /\ ~Has(c)
    BY <1>1, <1>8, <2>1 DEF SameCall, Kept, CallKept, DownloadLabels
  <2>4. CallPlaced("check", f, TRUE)
    BY <2>3 DEF CallPlaced, UploadLabels
  <2>5. CallKept(c, "check", f)
    BY <2>3 DEF CallKept, DownloadLabels
  <2>6. CASE openFilesStatus' = openFilesStatus
    <3>1. Retimed(openFilesStatus', c)
      BY <2>6, Retimes
    <3>2. CallPlaced("check", f, Cached(c)')
      BY <1>4, <2>4
    <3> QED  BY <1>3, <1>4, <1>5, <2>1, <2>2, <2>3, <2>5, <3>1, <3>2, Landed
  <2>7. CASE openFilesStatus' = Closed(c) /\ ~StaysOpen(c)
    <3>1. pc'[c] = "check" /\ frame'[c] = f
      BY <2>1 DEF Goto, ClientInv
    <3>2. Typed(c)'
      BY <1>3, <1>4, <1>7, <2>7 DEF Typed
    <3>3. Backed(c)'
      BY <1>7, <2>2, <2>7, <3>1 DEF Backed
    <3>4. Placed(c)'
      BY <1>4, <2>3, <3>1 DEF Placed, CallPlaced, UploadLabels
    <3>5. Kept(c)'
      BY <1>7, <2>3, <2>7, <3>1 DEF Kept, CallKept
    <3> QED  BY <1>3, <1>4, <1>5, <1>7, <2>1, <2>2, <2>7, <3>2, <3>3, <3>4, <3>5, Moved
  <2> QED  BY <1>6, <2>6, <2>7
<1>9. CASE frame[c].op \notin {"mknod", "truncate"}
  <2>1. Return(c, 0) /\ UNCHANGED cache /\ frame[c].op \in Ops \cup {"none"}
    BY <1>1, <1>9, FrameFields DEF Downloaded
  <2>2. CASE openFilesStatus' = openFilesStatus
    BY <1>2, <1>5, <2>1, <2>2, ReturnsInv DEF LocalUnchanged
  <2>3. CASE openFilesStatus' = Closed(c) /\ ~StaysOpen(c)
    <3>1. 0 \in Int /\ Goto(c, "idle", [Blank EXCEPT !.op = frame[c].op, !.ret = 0])
      BY <2>1 DEF Return
    <3>2. /\ IsOpenHere(c)' => /\ openFilesStatus'[c] \in Metas
                               /\ Backs(c, openFilesStatus[c].serverDesc, openFilesStatus[c].clientMode)'
          /\ IsWriter(c)' => Cached(c)'
          /\ Has(c)' => /\ fi'[c] \in [flag : OpenFlags, fh : FD \cup {BadFd}]
                        /\ Backs(c, fi[c].fh, fi[c].flag)' /\ Opened(c)'
      BY <1>4, <1>7, <2>3
    <3>3. SameBut(openFilesStatus, openFilesStatus', c)
      BY <1>7, <2>3
    <3> QED  BY <1>3, <1>4, <1>5, <2>1, <3>1, <3>2, <3>3, Settles
  <2> QED  BY <1>6, <2>2, <2>3
<1> QED  BY <1>8, <1>9

LEMMA WriteBackDoneInv ==
    ASSUME ClientInv, now \in Times, NEW c \in Clients, Steady(c), NEW ret \in Int,
           pc[c] \in UploadLabels, WriteBackDone(c, ret)
    PROVE  ClientInv'
<1>1. frame[c] \in Frames /\ Kept(c) /\ Placed(c) /\ Typed(c)
  BY DEF ClientInv
<1>2. Cached(c) /\ frame[c].op # "open" /\ (Has(c) => Opened(c)) /\ UNCHANGED cache
  BY <1>1 DEF Placed, CallPlaced, Kept, StillOpening, WriteBackDone
<1>3. StillBacked(c) /\ OthersKept(c) /\ waiting'[c] = NotWaiting
  BY DEF Steady
<1>4. Retimed(openFilesStatus', c)
  <2>1. openFilesStatus' = openFilesStatus \/ openFilesStatus' = [openFilesStatus EXCEPT ![c].tc = now]
    BY DEF WriteBackDone
  <2> QED  BY <2>1, Retimes
<1>5. frame[c].op \in Ops \cup {"none"}
  BY <1>1, FrameFields
<1>6. CASE frame[c].op = "release" /\ ret >= 0
  <2>1. Goto(c, "op_release", frame[c]) /\ UNCHANGED fi
    BY <1>6 DEF WriteBackDone, Step
  <2>2. "op_release" \in Labels /\ "op_release" \notin FetchLabels
    BY DEF Labels, FetchLabels
  <2>3. CallPlaced("op_release", frame[c], Cached(c)')
    BY <1>6 DEF CallPlaced, UploadLabels
  <2>4. CallKept(c, "op_release", frame[c])
    BY <1>1, <1>6 DEF Kept, CallKept, DownloadLabels, UploadLabels
  <2>5. SameBut(cache, cache', c) /\ (Cached(c) => Cached(c)') /\ (Cached(c)' => cache'[c] \in Copies)
    BY <1>1, <1>2, SameButs DEF Typed, Cached
  <2> QED  BY <1>1, <1>2, <1>3, <1>4, <2>1, <2>2, <2>3, <2>4, <2>5, Landed
<1>7. CASE ~(frame[c].op = "release" /\ ret >= 0)
  <2>1. Goto(c, "idle", [Blank EXCEPT !.op = frame[c].op, !.ret = ret])
    BY <1>7 DEF WriteBackDone, Return
  <2>2. (UNCHANGED fi /\ (Has(c) => Opened(c))) \/ fi' = Erase(fi, c)
    BY <1>2 DEF WriteBackDone
  <2> QED  BY <1>2, <1>4, <1>5, <2>1, <2>2, EndsInv
<1> QED  BY <1>6, <1>7

LEMMA TakeCopyInv ==
    ASSUME ClientInv, now \in Times, NEW c \in Clients, Steady(c), pc[c] \in {"wb_lock", "wb_wait"},
           TakeCopy(c)
    PROVE  ClientInv'
<1>1. frame[c] \in Frames /\ Kept(c) /\ Placed(c) /\ Typed(c)
  BY DEF ClientInv
<1>2. Cached(c) /\ frame[c].op # "open" /\ (Has(c) => Opened(c)) /\ cache[c] \in Copies
  BY <1>1 DEF Placed, CallPlaced, Kept, StillOpening, Typed, UploadLabels
<1>3. StillBacked(c) /\ OthersKept(c) /\ waiting'[c] = NotWaiting
  BY DEF Steady
<1>4. PICK f \in Frames : Goto(c, "wb_trunc", f) /\ SameCall(f, frame[c]) /\ f.st.size = Len(f.buf)
  <2>1. cache[c].data \in Contents /\ StatOf(cache[c]) \in Stats
    BY <1>2, CopyFields
  <2>2. PICK x \in Contents, y \in Stats, f0 \in Frames :
           x = cache[c].data /\ y = StatOf(cache[c]) /\ f0 = frame[c]
    BY <1>1, <2>1
  <2>3. PICK g : g = [f0 EXCEPT !.buf = x, !.st = y]
    OBVIOUS
  <2>4. g \in Frames /\ SameCall(g, f0) /\ g.st = y /\ g.buf = x
    <3>1. \A a \in Contents, b \in Stats :
             LET h == [f0 EXCEPT !.buf = a, !.st = b]
             IN  h \in Frames /\ SameCall(h, f0) /\ h.st = b /\ h.buf = a
      BY FrameWith
    <3> QED  BY <2>3, <3>1
  <2>5. Goto(c, "wb_trunc", g)
    BY <2>2, <2>3 DEF TakeCopy
  <2>6. y.size = Len(x)
    BY <2>2 DEF StatOf
  <2> QED  BY <2>2, <2>4, <2>5, <2>6
<1>5. UNCHANGED <<cache, openFilesStatus, fi>>
  BY DEF TakeCopy, LocalUnchanged
<1>6. Retimed(openFilesStatus', c)
  BY <1>5, Retimes
<1>7. "wb_trunc" \in Labels /\ "wb_trunc" \notin FetchLabels
  BY DEF Labels, FetchLabels
<1>8. CallPlaced("wb_trunc", f, Cached(c)')
  BY <1>1, <1>2, <1>4, <1>5 DEF CallPlaced, SameCall, Cached, Placed
<1>9. CallKept(c, "wb_trunc", f)
  BY <1>1, <1>2, <1>4 DEF Kept, CallKept, SameCall, DownloadLabels
<1>10. SameBut(cache, cache', c) /\ (Cached(c) => Cached(c)') /\ (Cached(c)' => cache'[c] \in Copies)
  BY <1>2, <1>5, SameButs DEF Cached
<1> QED  BY <1>2, <1>3, <1>4, <1>5, <1>6, <1>7, <1>8, <1>9, <1>10, Landed

\* What a download has open stays open while nothing is released.
LEMMA FetchKept ==
    ASSUME ClientInv, NEW c \in Clients, OwnKept(c, BadFd), pc[c] \in FetchLabels
    PROVE  /\ frame[c].fh \in FD \cup {BadFd}
           /\ frame[c].fh \in FD =>
                /\ fds'[frame[c].fh] = [owner |-> c, path |-> File, flag |-> O_RDONLY]
                /\ Has(c) => fi[c].fh # frame[c].fh
                /\ IsOpenHere(c) => openFilesStatus[c].serverDesc # frame[c].fh
<1>1. Backed(c)
  BY DEF ClientInv
<1>2. ASSUME frame[c].fh \in FD
      PROVE  fds'[frame[c].fh] = [owner |-> c, path |-> File, flag |-> O_RDONLY]
  <2>1. fds[frame[c].fh] = [owner |-> c, path |-> File, flag |-> O_RDONLY]
    BY <1>1, <1>2 DEF Backed, Backs
  <2>2. fds[frame[c].fh].owner = c /\ frame[c].fh # BadFd
    BY <1>2, <2>1, NamesAssumption
  <2> QED  BY <1>2, <2>1, <2>2 DEF OwnKept
<1> QED  BY <1>1, <1>2 DEF Backed

LEMMA EmptyCacheInv ==
    ASSUME ClientInv, now \in Times, NEW c \in Clients, Calm(c), pc[c] \in {"dl_lock", "dl_wait"},
           EmptyCache(c)
    PROVE  ClientInv'
<1>1. frame[c] \in Frames /\ Kept(c) /\ Placed(c) /\ Typed(c)
  BY DEF ClientInv
<1>2. StillBacked(c) /\ OthersKept(c) /\ waiting'[c] = NotWaiting /\ OwnKept(c, BadFd)
  BY CalmSteady DEF Steady, Calm
<1>3. SameBut(cache, cache', c) /\ Cached(c)' /\ cache'[c] \in Copies
  <2>1. 0 \in 0..MaxLen
    BY ServerAssumption
  <2>2. <<>> \in Contents
    BY BlankFrames
  <2>3. Cached(c) => Truncated(cache[c], 0) \in Copies
    BY <1>1, <2>1, CopyFields DEF Typed
  <2>4. [data |-> <<>>, mtime |-> now] \in Copies
    BY <2>2, CopyFields
  <2>5. PICK v \in Copies : cache' = Put(cache, c, v)
    BY <2>3, <2>4 DEF EmptyCache
  <2> QED  BY <2>5 DEF SameBut, Put, Cached
<1>4. UNCHANGED <<openFilesStatus, fi>> /\ Goto(c, "dl_read", frame[c])
  BY DEF EmptyCache, Step
<1>5. Retimed(openFilesStatus', c)
  BY <1>4, Retimes
<1>6. "dl_read" \in Labels /\ pc[c] \in FetchLabels
  BY DEF Labels, FetchLabels
<1>7. CallPlaced("dl_read", frame[c], Cached(c)')
  BY <1>1, <1>3 DEF CallPlaced, Placed, UploadLabels
<1>8. CallKept(c, "dl_read", frame[c]) /\ (Has(c) => Opened(c) \/ StillOpening("dl_read", frame[c]))
  BY <1>1 DEF Kept, CallKept, DownloadLabels, StillOpening
<1>9. Goto(c, "dl_read", frame[c]) /\ UNCHANGED fi /\ (Cached(c) => Cached(c)')
  BY <1>3, <1>4
<1> QED  BY <1>1, <1>2, <1>3, <1>5, <1>6, <1>7, <1>8, <1>9, FetchKept, Landed

LEMMA WhenStaleInv ==
    ASSUME ClientInv, now \in Times, NEW c \in Clients, Steady(c), pc[c] = "check",
           NEW m, Retimed(m, c), WhenStale(c, m)
    PROVE  ClientInv'
<1>1. frame[c] \in Frames /\ Kept(c) /\ Placed(c) /\ Typed(c)
  BY DEF ClientInv
<1>2. StillBacked(c) /\ OthersKept(c) /\ waiting'[c] = NotWaiting
  BY DEF Steady
<1>3. UNCHANGED <<cache, fi>> /\ openFilesStatus' = m
  BY DEF WhenStale
<1>4. PICK label \in {"dl_stat", "wb_lock"} :
        /\ Goto(c, label, frame[c])
        /\ label = "dl_stat" <=> frame[c].op \in {"open", "read", "getattr"}
  BY DEF WhenStale, Step
<1>5. label \in Labels /\ label \notin FetchLabels
  BY DEF Labels, FetchLabels
<1>6. CallPlaced(label, frame[c], Cached(c)')
  BY <1>1, <1>3, <1>4 DEF CallPlaced, Placed, Cached, UploadLabels
<1>7. CallKept(c, label, frame[c]) /\ (Has(c) => Opened(c) \/ StillOpening(label, frame[c]))
  BY <1>1, <1>4 DEF Kept, CallKept, DownloadLabels, StillOpening
<1>8. SameBut(cache, cache', c) /\ (Cached(c) => Cached(c)') /\ (Cached(c)' => cache'[c] \in Copies)
  BY <1>1, <1>3, SameButs DEF Cached, Typed
<1>9. label # "wb_write" /\ UNCHANGED fi /\ Retimed(openFilesStatus', c)
  BY <1>3, <1>4
<1> QED  BY <1>1, <1>2, <1>4, <1>5, <1>6, <1>7, <1>8, <1>9, Landed

\* An open that finds its copy fresh keeps the descriptor that the server gave it.
LEMMA WhenFreshInv ==
    ASSUME ClientInv, now \in Times, NEW c \in Clients, Steady(c), pc[c] = "check",
           NEW m, Retimed(m, c), WhenFresh(c, m)
    PROVE  ClientInv'
<1>1. frame[c] \in Frames /\ Kept(c) /\ Placed(c) /\ Typed(c)
  BY DEF ClientInv
<1>2. StillBacked(c) /\ OthersKept(c) /\ waiting'[c] = NotWaiting
  BY DEF Steady
<1>3. UNCHANGED <<cache, fi>> /\ Return(c, frame[c].ret)
  BY DEF WhenFresh
<1>4. frame[c].op \in Ops \cup {"none"} /\ frame[c].ret \in Int /\ frame[c].flag \in OpenFlags
  BY <1>1, FrameFields
<1>5. CASE frame[c].op = "open"
  <2> DEFINE v == [clientMode |-> frame[c].flag, tc |-> now, serverDesc |-> fi[c].fh]
  <2>1. openFilesStatus' = Put(m, c, v)
    BY <1>5 DEF WhenFresh
  <2>2. Has(c) /\ fi[c].flag = frame[c].flag /\ fi[c] \in [flag : OpenFlags, fh : FD \cup {BadFd}]
        /\ Cached(c)
    BY <1>1, <1>5 DEF Kept, CallKept, Placed, CallPlaced, Typed
  <2>3. v \in Metas /\ v.clientMode = frame[c].flag /\ v.serverDesc = fi[c].fh
    BY <1>4, <2>2, ServerAssumption DEF Metas, Handles, Times
  <2> HIDE DEF v
  <2>4. SameBut(m, openFilesStatus', c) /\ IsOpenHere(c)' /\ openFilesStatus'[c] = v
    BY <2>1 DEF SameBut, Put, IsOpenHere
  <2>5. SameBut(openFilesStatus, openFilesStatus', c)
    BY <2>4 DEF Retimed, SameBut
  <2>6. /\ Backs(c, fi[c].fh, fi[c].flag)'
        /\ Backs(c, openFilesStatus[c].serverDesc, openFilesStatus[c].clientMode)'
    BY <1>2, <1>3, <2>2, <2>3, <2>4 DEF StillBacked, Backs
  <2>7. Opened(c)' /\ Cached(c)' /\ fi'[c] = fi[c]
    BY <1>3, <2>2, <2>3, <2>4 DEF Opened, Cached, IsOpenHere
  <2>8. SameBut(cache, cache', c) /\ SameBut(fi, fi', c) /\ cache'[c] \in Copies
    BY <1>1, <1>3, <2>2, SameButs DEF Typed
  <2>9. Goto(c, "idle", [Blank EXCEPT !.op = frame[c].op, !.ret = frame[c].ret])
    BY <1>3 DEF Return
  <2> QED  BY <1>2, <1>4, <2>2, <2>3, <2>4, <2>5, <2>6, <2>7, <2>8, <2>9, Settles
<1>6. CASE frame[c].op # "open"
  <2>1. Retimed(openFilesStatus', c)
    <3>1. openFilesStatus' = m \/ openFilesStatus' = [m EXCEPT ![c].tc = now]
      BY <1>6 DEF WhenFresh
    <3> QED  BY <3>1, Retimes
  <2>2. Has(c) => Opened(c)
    BY <1>1, <1>6 DEF Kept, StillOpening
  <2>3. Goto(c, "idle", [Blank EXCEPT !.op = frame[c].op, !.ret = frame[c].ret])
    BY <1>3 DEF Return
  <2> QED  BY <1>3, <1>4, <2>1, <2>2, <2>3, EndsInv
<1> QED  BY <1>5, <1>6

-----------------------------------------------------------------------------
(* One lemma per action: its remote call is one that the server may be sent, and
   the client keeps its invariant. *)

\* A step that changes nothing that the client keeps between calls.
LEMMA GoesInv ==
    ASSUME ClientInv, now \in Times, NEW c \in Clients, OthersKept(c), StillBacked(c),
           NEW label \in Labels \ (FetchLabels \cup {"wb_write"}), NEW f \in Frames, Goto(c, label, f),
           waiting'[c] = NotWaiting \/ label = "wb_wait", LocalUnchanged,
           CallPlaced(label, f, Cached(c)), CallKept(c, label, f),
           Has(c) => Opened(c) \/ StillOpening(label, f)
    PROVE  ClientInv'
<1>1. UNCHANGED <<cache, openFilesStatus, fi>>
  BY DEF LocalUnchanged
<1>2. Retimed(openFilesStatus', c)
  BY <1>1, Retimes
<1>3. SameBut(cache, cache', c) /\ (Cached(c) => Cached(c)') /\ (Cached(c)' => cache'[c] \in Copies)
  BY <1>1, SameButs DEF ClientInv, Typed, Cached
<1>4. CallPlaced(label, f, Cached(c)')
  BY <1>1 DEF Cached
<1>5. waiting'[c] = NotWaiting \/ label \in {"dl_wait", "wb_wait"}
  OBVIOUS
<1>6. label \notin FetchLabels /\ label # "wb_write" /\ label \in Labels
  OBVIOUS
<1>7. UNCHANGED fi
  BY <1>1
<1> QED  BY <1>2, <1>3, <1>4, <1>5, <1>6, <1>7, Landed

LEMMA CheckIntervalInv ==
    ASSUME ProtocolInv, NEW c \in Clients, CheckInterval(c)
    PROVE  Served(c) /\ ClientInv'
<1>1. pc[c] = "check" /\ WhenFresh(c, openFilesStatus) /\ UNCHANGED serverVars
  BY DEF CheckInterval
<1>2. ClientInv /\ now \in Times /\ waiting[c] = NotWaiting
  BY <1>1, Known
<1>3. Calm(c)
  BY <1>1, <1>2, UnchangedServer, UnchangedCalm
<1>4. Steady(c) /\ Retimed(openFilesStatus, c)
  BY <1>2, <1>3, CalmSteady, Retimes
<1> QED  BY <1>1, <1>2, <1>4, WhenFreshInv DEF Served

LEMMA CheckServerInv ==
    ASSUME ProtocolInv, NEW c \in Clients, CheckServer(c)
    PROVE  Served(c) /\ ClientInv'
<1>1. pc[c] = "check"
  BY DEF CheckServer
<1>2. ClientInv /\ now \in Times /\ waiting[c] = NotWaiting
  BY <1>1, Known
<1>3. PICK ret \in Answers, st \in Stats :
        /\ copy_getattr(c, ret, st)
        /\ \E m : /\ m = openFilesStatus \/ m = [openFilesStatus EXCEPT ![c].tc = now]
                  /\ WhenFresh(c, m) \/ WhenStale(c, m)
  BY DEF CheckServer
<1>6. PICK m : /\ m = openFilesStatus \/ m = [openFilesStatus EXCEPT ![c].tc = now]
               /\ WhenFresh(c, m) \/ WhenStale(c, m)
  BY <1>3
<1>4. Served(c) /\ Calm(c)
  BY <1>2, <1>3, GetattrServed
<1>5. Steady(c) /\ Retimed(m, c)
  <2>1. Retimed(openFilesStatus, c)
    BY <1>2, Retimes
  <2>2. Retimed([openFilesStatus EXCEPT ![c].tc = now], c)
    BY <1>2, <2>1, Retimes
  <2> QED  BY <1>2, <1>4, <1>6, <2>1, <2>2, CalmSteady
<1> QED  BY <1>1, <1>2, <1>4, <1>5, <1>6, WhenFreshInv, WhenStaleInv

LEMMA ProbeInv ==
    ASSUME ProtocolInv, NEW c \in Clients, Probe(c)
    PROVE  Served(c) /\ ClientInv'
<1>1. pc[c] = "probe" /\ LocalUnchanged
  BY DEF Probe
<1>2. /\ ClientInv /\ now \in Times /\ waiting[c] = NotWaiting /\ frame[c] \in Frames
      /\ Placed(c) /\ Kept(c)
  BY <1>1, Known
<1>3. PICK ret \in Answers, st \in Stats :
        /\ copy_getattr(c, ret, st)
        /\ IF ret < 0 \/ IsWriter(c) THEN Return(c, ret) ELSE Step(c, "check")
  BY DEF Probe
<1>4. Served(c) /\ Calm(c) /\ Steady(c) /\ ret \in Int
  BY <1>2, <1>3, GetattrServed, CalmSteady, AnswersInt
<1>5. frame[c].op = "getattr" /\ frame[c].flag = O_RDONLY
  BY <1>1, <1>2 DEF Placed, CallPlaced
<1>6. (Has(c) => Opened(c)) /\ (Has(c) => frame[c].open)
  BY <1>1, <1>2, <1>5 DEF Kept, StillOpening, CallKept
<1>7. CASE ret < 0 \/ IsWriter(c)
  BY <1>1, <1>2, <1>3, <1>4, <1>6, <1>7, ReturnsInv
<1>8. CASE ~(ret < 0 \/ IsWriter(c))
  <2>1. Goto(c, "check", frame[c]) /\ "check" \in Labels \ (FetchLabels \cup {"wb_write"})
    BY <1>3, <1>8 DEF Step, Labels, FetchLabels
  <2>2. CallPlaced("check", frame[c], Cached(c))
    BY <1>5 DEF CallPlaced, UploadLabels
  <2>3. Has(c) => fi[c].flag = O_RDONLY
    BY <1>6, <1>8 DEF Opened, IsWriter
  <2>4. CallKept(c, "check", frame[c])
    BY <1>5, <1>6, <2>3 DEF CallKept, DownloadLabels
  <2> QED  BY <1>1, <1>2, <1>4, <1>6, <2>1, <2>2, <2>4, GoesInv DEF Steady
<1> QED  BY <1>4, <1>7, <1>8

LEMMA OpOpenInv ==
    ASSUME ProtocolInv, NEW c \in Clients, OpOpen(c)
    PROVE  Served(c) /\ ClientInv'
<1>1. pc[c] = "op_open" /\ UNCHANGED <<cache, openFilesStatus>>
  BY DEF OpOpen
<1>2. /\ ClientInv /\ now \in Times /\ waiting[c] = NotWaiting /\ frame[c] \in Frames /\ TableTypeOK
      /\ Placed(c) /\ Kept(c) /\ Typed(c)
  BY <1>1, Known
<1>3. PICK f \in Frames : f = frame[c]
  BY <1>2
<1>4. PICK ret \in Answers, fh \in Handles :
        /\ copy_open(c, f.flag, ret, fh)
        /\ IF ret < 0 \/ IsOpenHere(c)
             THEN Return(c, IF ret < 0 THEN ret ELSE -EMFILE) /\ UNCHANGED fi
             ELSE /\ fi' = Put(fi, c, [flag |-> f.flag, fh |-> fh])
                  /\ Step(c, IF Cached(c) THEN "check" ELSE "dl_stat")
  BY <1>3 DEF OpOpen
<1>5. f.flag \in OpenFlags /\ f.op = "open" /\ (Has(c) => Opened(c))
  BY <1>1, <1>2, <1>3, FrameFields DEF Placed, CallPlaced, Kept, StillOpening
<1>6. /\ Served(c) /\ Calm(c)
      /\ ret >= 0 => fh \in FD \cup {BadFd} /\ Backs(c, fh, f.flag)'
  BY <1>2, <1>4, <1>5, OpenServed
<1>7. Steady(c) /\ ret \in Int /\ (ret < 0 \/ ret >= 0)
  BY <1>2, <1>6, CalmSteady, AnswersInt
<1>8. CASE ret < 0 \/ IsOpenHere(c)
  <2>1. PICK r \in Int : Return(c, r)
    BY <1>4, <1>7, <1>8 DEF EMFILE
  <2>2. LocalUnchanged
    BY <1>1, <1>4, <1>8 DEF LocalUnchanged
  <2> QED  BY <1>2, <1>5, <1>6, <1>7, <2>1, <2>2, ReturnsInv
<1>9. CASE ~(ret < 0 \/ IsOpenHere(c))
  <2>1. PICK v \in [flag : OpenFlags, fh : FD \cup {BadFd}] :
          fi' = Put(fi, c, v) /\ v.flag = f.flag /\ Backs(c, v.fh, v.flag)'
    BY <1>4, <1>5, <1>6, <1>7, <1>9
  <2>2. SameBut(fi, fi', c) /\ Has(c)' /\ fi'[c] = v
    BY <2>1 DEF SameBut, Put, Has
  <2>3. PICK label \in {"check", "dl_stat"} : Goto(c, label, f) /\ (label = "check" => Cached(c))
    BY <1>3, <1>4, <1>9 DEF Step
  <2>4. label \in Labels \ (FetchLabels \cup UploadLabels) /\ label \in Labels
    BY DEF Labels, FetchLabels, UploadLabels
  <2>5. pc'[c] = label /\ frame'[c] = f /\ ~IsOpenHere(c)' /\ (Cached(c)' <=> Cached(c))
    BY <1>1, <1>2, <1>9, <2>3 DEF Goto, ClientInv, IsOpenHere, Cached
  <2>6. waiting'[c] = NotWaiting /\ OthersKept(c)
    BY <1>7 DEF Steady
  <2>7. Typed(c)'
    BY <1>1, <1>2, <2>2, <2>5, <2>6 DEF Typed
  <2>8. Backed(c)'
    BY <2>1, <2>2, <2>4, <2>5 DEF Backed, Backs, UploadLabels
  <2>9. Placed(c)'
    BY <1>5, <2>3, <2>4, <2>5 DEF Placed, CallPlaced
  <2>10. Kept(c)'
    BY <1>5, <2>1, <2>2, <2>5 DEF Kept, IsWriter, StillOpening, CallKept
  <2>11. SameBut(cache, cache', c) /\ SameBut(openFilesStatus, openFilesStatus', c)
    BY <1>1, SameButs
  <2>12. ClientInv'
    BY <1>2, <2>2, <2>3, <2>4, <2>6, <2>7, <2>8, <2>9, <2>10, <2>11, Moved
  <2> QED  BY <1>6, <2>12
<1> QED  BY <1>6, <1>8, <1>9

LEMMA OpReleaseInv ==
    ASSUME ProtocolInv, NEW c \in Clients, OpRelease(c)
    PROVE  Served(c) /\ ClientInv'
<1>1. /\ pc[c] = "op_release" /\ fi' = Erase(fi, c) /\ openFilesStatus' = Closed(c) /\ UNCHANGED cache
      /\ Goto(c, "idle", [Blank EXCEPT !.op = frame[c].op, !.ret = 0])
  BY DEF OpRelease, Return
<1>2. /\ ClientInv /\ now \in Times /\ waiting[c] = NotWaiting /\ frame[c] \in Frames /\ TableTypeOK
      /\ Placed(c) /\ Kept(c) /\ Typed(c) /\ Backed(c)
  BY <1>1, Known
<1>3. frame[c].op = "release" /\ Has(c)
  BY <1>1, <1>2 DEF Placed, CallPlaced, Kept, CallKept
<1>4. fi[c].flag \in OpenFlags /\ fi[c].fh \in FD \cup {BadFd} /\ Backs(c, fi[c].fh, fi[c].flag)
  BY <1>2, <1>3 DEF Typed, Backed
<1>5. PICK ret \in Answers : copy_release(c, fi[c].flag, fi[c].fh, ret)
  BY DEF OpRelease, ReleaseFlag
<1>6. Served(c) /\ waiting'[c] = NotWaiting /\ OthersKept(c)
  BY <1>2, <1>4, <1>5, ReleaseServed
<1>7. /\ SameBut(fi, fi', c) /\ SameBut(cache, cache', c) /\ SameBut(openFilesStatus, openFilesStatus', c)
      /\ ~Has(c)' /\ ~IsOpenHere(c)' /\ ~IsWriter(c)'
  BY <1>1, SameButs DEF Has, IsOpenHere, IsWriter, Closed
<1>8. Cached(c)' => cache'[c] \in Copies
  BY <1>1, <1>2 DEF Cached, Typed
<1>9. frame[c].op \in Ops \cup {"none"} /\ 0 \in Int
  BY <1>2, FrameFields
<1> QED  BY <1>1, <1>2, <1>6, <1>7, <1>8, <1>9, Settles

LEMMA MkProbeInv ==
    ASSUME ProtocolInv, NEW c \in Clients, MkProbe(c)
    PROVE  Served(c) /\ ClientInv'
<1>1. pc[c] = "mk_probe" /\ UNCHANGED <<openFilesStatus, fi>>
  BY DEF MkProbe
<1>2. /\ ClientInv /\ now \in Times /\ waiting[c] = NotWaiting /\ frame[c] \in Frames
      /\ Placed(c) /\ Kept(c) /\ Typed(c)
  BY <1>1, Known
<1>3. PICK ret \in Answers, st \in Stats :
        /\ copy_getattr(c, ret, st)
        /\ IF ret = -ENOENT
             THEN /\ cache' = Put(cache, c, [data |-> <<>>, mtime |-> now])
                  /\ Step(c, "mk_node")
             ELSE /\ UNCHANGED cache
                  /\ IF ret < 0 THEN Return(c, ret)
                                ELSE Goto(c, "dl_stat", [frame[c] EXCEPT !.flag = O_RDWR])
  BY DEF MkProbe
<1>4. Served(c) /\ Calm(c) /\ Steady(c) /\ ret \in Int
  BY <1>2, <1>3, GetattrServed, CalmSteady, AnswersInt
<1>5. StillBacked(c) /\ OthersKept(c) /\ waiting'[c] = NotWaiting
  BY <1>4 DEF Steady
<1>6. frame[c].op = "mknod" /\ ~Has(c)
  BY <1>1, <1>2 DEF Placed, CallPlaced, Kept, CallKept
<1>7. Retimed(openFilesStatus', c)
  BY <1>1, <1>2, Retimes
<1>8. CASE ret = -ENOENT
  <2>1. PICK v \in Copies : cache' = Put(cache, c, v)
    BY <1>2, <1>3, <1>8, BlankFrames, CopyFields
  <2>2. SameBut(cache, cache', c) /\ Cached(c)' /\ cache'[c] \in Copies
    BY <2>1 DEF SameBut, Put, Cached
  <2>3. Goto(c, "mk_node", frame[c]) /\ "mk_node" \in Labels /\ "mk_node" \notin FetchLabels
    BY <1>3, <1>8 DEF Step, Labels, FetchLabels
  <2>4. CallPlaced("mk_node", frame[c], Cached(c)')
    BY <1>6, <2>2 DEF CallPlaced, UploadLabels
  <2>5. CallKept(c, "mk_node", frame[c])
    BY <1>6 DEF CallKept
  <2> QED  BY <1>1, <1>2, <1>4, <1>5, <1>6, <1>7, <2>2, <2>3, <2>4, <2>5, Landed
<1>9. CASE ret # -ENOENT /\ ret < 0
  BY <1>1, <1>2, <1>3, <1>4, <1>6, <1>9, ReturnsInv DEF LocalUnchanged
<1>10. CASE ret # -ENOENT /\ ~(ret < 0)
  <2>1. O_RDWR \in OpenFlags /\ "dl_stat" \in Labels \ (FetchLabels \cup {"wb_write"})
    BY DEF OpenFlags, Labels, FetchLabels
  <2>2. PICK f \in Frames : Goto(c, "dl_stat", f) /\ f.op = frame[c].op
    <3>1. \A x \in OpenFlags : /\ [frame[c] EXCEPT !.flag = x] \in Frames
                               /\ [frame[c] EXCEPT !.flag = x].op = frame[c].op
      BY <1>2, FrameWith
    <3> QED  BY <1>3, <1>10, <2>1, <3>1
  <2>3. LocalUnchanged
    BY <1>1, <1>3, <1>10 DEF LocalUnchanged
  <2>4. CallPlaced("dl_stat", f, Cached(c))
    BY <1>6, <2>2 DEF CallPlaced, UploadLabels
  <2>5. CallKept(c, "dl_stat", f)
    BY <1>6, <2>2 DEF CallKept
  <2> QED  BY <1>2, <1>4, <1>5, <1>6, <2>1, <2>2, <2>3, <2>4, <2>5, GoesInv
<1> QED  BY <1>4, <1>8, <1>9, <1>10

\* An operation that makes a remote call for what it answers alone: it returns, or
\* goes on to a label with the same frame.
LEMMA AsksInv ==
    ASSUME ClientInv, now \in Times, NEW c \in Clients, Steady(c), LocalUnchanged,
           Has(c) => Opened(c), NEW ret \in Int,
           NEW label \in Labels \ (FetchLabels \cup {"wb_write"}),
           Return(c, ret) \/ Step(c, label),
           CallPlaced(label, frame[c], Cached(c)), CallKept(c, label, frame[c])
    PROVE  ClientInv'
<1>1. CASE Return(c, ret)
  BY <1>1, ReturnsInv
<1>2. CASE Step(c, label)
  <2>1. frame[c] \in Frames /\ Goto(c, label, frame[c])
    BY <1>2 DEF ClientInv, Step
  <2> QED  BY <2>1, GoesInv DEF Steady
<1> QED  BY <1>1, <1>2

LEMMA MkNodeInv ==
    ASSUME ProtocolInv, NEW c \in Clients, MkNode(c)
    PROVE  Served(c) /\ ClientInv'
<1>1. pc[c] = "mk_node" /\ LocalUnchanged
  BY DEF MkNode
<1>2. ClientInv /\ now \in Times /\ waiting[c] = NotWaiting /\ Placed(c) /\ Kept(c)
  BY <1>1, Known
<1>3. PICK ret \in Answers :
        copy_mknod(c, ret) /\ IF ret < 0 THEN Return(c, ret) ELSE Step(c, "mk_utime")
  BY DEF MkNode
<1>4. Served(c) /\ Steady(c) /\ ret \in Int
  BY <1>2, <1>3, MknodServed, CalmSteady, AnswersInt
<1>5. frame[c].op = "mknod" /\ Cached(c) /\ (Has(c) => Opened(c) /\ frame[c].open)
  BY <1>1, <1>2 DEF Placed, CallPlaced, Kept, StillOpening, CallKept
<1>6. "mk_utime" \in Labels \ (FetchLabels \cup {"wb_write"})
  BY DEF Labels, FetchLabels
<1>7. CallPlaced("mk_utime", frame[c], Cached(c))
  BY <1>5 DEF CallPlaced, UploadLabels
<1>8. CallKept(c, "mk_utime", frame[c])
  BY <1>5 DEF CallKept, DownloadLabels
<1> QED  BY <1>1, <1>2, <1>3, <1>4, <1>5, <1>6, <1>7, <1>8, AsksInv

LEMMA MkUtimeInv ==
    ASSUME ProtocolInv, NEW c \in Clients, MkUtime(c)
    PROVE  Served(c) /\ ClientInv'
<1>1. pc[c] = "mk_utime" /\ LocalUnchanged
  BY DEF MkUtime
<1>2. /\ ClientInv /\ now \in Times /\ waiting[c] = NotWaiting /\ TableTypeOK
      /\ Placed(c) /\ Kept(c) /\ Typed(c)
  BY <1>1, Known
<1>3. PICK ret \in Answers :
        /\ copy_utimensat(c, cache[c].mtime, ret)
        /\ IF ret < 0 THEN Return(c, ret) ELSE Step(c, "check")
  BY DEF MkUtime
<1>4. frame[c].op = "mknod" /\ Cached(c) /\ (Has(c) => Opened(c) /\ frame[c].open)
  BY <1>1, <1>2 DEF Placed, CallPlaced, Kept, StillOpening, CallKept
<1>5. cache[c].mtime \in Times
  BY <1>2, <1>4, CopyFields DEF Typed
<1>6. Served(c) /\ Steady(c) /\ ret \in Int
  BY <1>2, <1>3, <1>5, UtimensatServed, CalmSteady, AnswersInt
<1>7. "check" \in Labels \ (FetchLabels \cup {"wb_write"})
  BY DEF Labels, FetchLabels
<1>8. CallPlaced("check", frame[c], Cached(c))
  BY <1>4 DEF CallPlaced, UploadLabels
<1>9. CallKept(c, "check", frame[c])
  BY <1>4 DEF CallKept, DownloadLabels
<1> QED  BY <1>1, <1>2, <1>3, <1>4, <1>6, <1>7, <1>8, <1>9, AsksInv

-----------------------------------------------------------------------------
(* A download *)

\* A download goes on with the same call: what was made sure of still holds.
LEMMA DownloadGoesOn ==
    ASSUME ClientInv, NEW c \in Clients, pc[c] \in DownloadLabels,
           NEW label \in DownloadLabels, NEW f, SameCall(f, frame[c])
    PROVE  /\ CallKept(c, label, f)
           /\ pc[c] \notin {"dl_unlock", "dl_release"} => CallPlaced(label, f, TRUE)
           /\ (Cached(c) \/ label \notin {"dl_read", "dl_unlock", "dl_release"}) =>
                CallPlaced(label, f, Cached(c))
           /\ label \notin {"dl_unlock", "dl_release"} /\ Has(c) => Opened(c) \/ StillOpening(label, f)
           /\ pc[c] \in {"dl_unlock", "dl_release"} /\ Has(c) => Opened(c)
           /\ label \in Labels
<1>1. Placed(c) /\ Kept(c)
  BY DEF ClientInv
<1>2. CallKept(c, label, f)
  BY <1>1 DEF Kept, CallKept, SameCall, DownloadLabels
<1>3. \A cached \in BOOLEAN :
         (cached \/ label \notin {"dl_read", "dl_unlock", "dl_release"}) => CallPlaced(label, f, cached)
  BY <1>1 DEF Placed, CallPlaced, SameCall, DownloadLabels, UploadLabels
<1>4. Cached(c) \in BOOLEAN
  BY DEF Cached
<1>5. Has(c) => Opened(c) \/ StillOpening(pc[c], frame[c])
  BY <1>1 DEF Kept
<1>6. label \notin {"dl_unlock", "dl_release"} /\ Has(c) => Opened(c) \/ StillOpening(label, f)
  BY <1>5 DEF StillOpening, SameCall, DownloadLabels
<1>7. pc[c] \in {"dl_unlock", "dl_release"} /\ Has(c) => Opened(c)
  BY <1>5 DEF StillOpening
<1>8. label \in Labels
  BY DEF DownloadLabels, Labels
<1> QED  BY <1>2, <1>3, <1>4, <1>6, <1>7, <1>8

LEMMA DlStatInv ==
    ASSUME ProtocolInv, NEW c \in Clients, DlStat(c)
    PROVE  Served(c) /\ ClientInv'
<1>1. pc[c] = "dl_stat" /\ pc[c] \in DownloadLabels
  BY DEF DlStat, DownloadLabels
<1>2. ClientInv /\ now \in Times /\ waiting[c] = NotWaiting /\ frame[c] \in Frames
  BY <1>1, Known
<1>3. PICK ret \in Answers, st \in Stats :
        /\ copy_getattr(c, ret, st)
        /\ IF ret < 0 THEN DownloadFailed(c, ret)
                      ELSE Goto(c, "dl_open", [frame[c] EXCEPT !.st = st]) /\ LocalUnchanged
  BY DEF DlStat
<1>4. Served(c) /\ Steady(c) /\ ret \in Int
  BY <1>2, <1>3, GetattrServed, CalmSteady, AnswersInt
<1>5. CASE ret < 0
  BY <1>1, <1>2, <1>3, <1>4, <1>5, DownloadFailedInv
<1>6. CASE ~(ret < 0)
  <2>1. PICK f \in Frames : f = [frame[c] EXCEPT !.st = st] /\ SameCall(f, frame[c])
    BY <1>2, FrameWith
  <2>2. Goto(c, "dl_open", f) /\ LocalUnchanged
    BY <1>3, <1>6, <2>1
  <2>3. "dl_open" \in DownloadLabels /\ "dl_open" \in Labels \ (FetchLabels \cup {"wb_write"})
    BY DEF DownloadLabels, Labels, FetchLabels
  <2>4. /\ CallPlaced("dl_open", f, Cached(c)) /\ CallKept(c, "dl_open", f)
        /\ Has(c) => Opened(c) \/ StillOpening("dl_open", f)
    BY <1>1, <1>2, <2>1, <2>3, DownloadGoesOn
  <2> QED  BY <1>2, <1>4, <2>2, <2>3, <2>4, GoesInv DEF Steady
<1> QED  BY <1>4, <1>5, <1>6

LEMMA DlOpenInv ==
    ASSUME ProtocolInv, NEW c \in Clients, DlOpen(c)
    PROVE  Served(c) /\ ClientInv'
<1>1. pc[c] = "dl_open" /\ pc[c] \in DownloadLabels
  BY DEF DlOpen, DownloadLabels
<1>2. /\ ClientInv /\ now \in Times /\ waiting[c] = NotWaiting /\ frame[c] \in Frames /\ TableTypeOK
      /\ Typed(c) /\ Backed(c)
  BY <1>1, Known
<1>3. PICK ret \in Answers, fh \in Handles :
        /\ copy_open(c, O_RDONLY, ret, fh)
        /\ IF ret < 0 THEN DownloadFailed(c, ret)
                      ELSE Goto(c, "dl_lock", [frame[c] EXCEPT !.fh = fh]) /\ LocalUnchanged
  BY DEF DlOpen
<1>4. O_RDONLY \in OpenFlags
  BY DEF OpenFlags
<1>5. /\ Served(c) /\ Calm(c)
      /\ ret >= 0 => /\ fh \in FD \cup {BadFd} /\ Backs(c, fh, O_RDONLY)'
                     /\ fh \in FD => fds[fh].owner \notin Clients
  BY <1>2, <1>3, <1>4, OpenServed
<1>6. Steady(c) /\ ret \in Int /\ (ret < 0 \/ ret >= 0)
  BY <1>2, <1>5, CalmSteady, AnswersInt
<1>7. CASE ret < 0
  BY <1>1, <1>2, <1>3, <1>5, <1>6, <1>7, DownloadFailedInv
<1>8. CASE ~(ret < 0)
  <2>1. PICK f \in Frames : f = [frame[c] EXCEPT !.fh = fh] /\ SameCall(f, frame[c]) /\ f.fh = fh
    <3>1. PICK f0 \in Frames : f0 = frame[c]
      BY <1>2
    <3>2. \A x \in Handles :
             LET g == [f0 EXCEPT !.fh = x]
             IN  g \in Frames /\ SameCall(g, f0) /\ g.fh = x /\ g.buf = f0.buf
      BY FrameWith
    <3> QED  BY <3>1, <3>2
  <2>2. Goto(c, "dl_lock", f) /\ LocalUnchanged
    BY <1>3, <1>8, <2>1
  <2>3. "dl_lock" \in DownloadLabels
    BY DEF DownloadLabels
  <2>4. /\ CallPlaced("dl_lock", f, Cached(c)) /\ CallKept(c, "dl_lock", f)
        /\ Has(c) => Opened(c) \/ StillOpening("dl_lock", f)
        /\ "dl_lock" \in Labels
    BY <1>1, <1>2, <2>1, <2>3, DownloadGoesOn
  <2>5. UNCHANGED <<cache, openFilesStatus, fi>>
    BY <2>2 DEF LocalUnchanged
  <2>6. Retimed(openFilesStatus', c) /\ CallPlaced("dl_lock", f, Cached(c)')
    BY <1>2, <2>4, <2>5, Retimes DEF Cached
  <2>7. SameBut(cache, cache', c) /\ (Cached(c) => Cached(c)') /\ (Cached(c)' => cache'[c] \in Copies)
    BY <1>2, <2>5, SameButs DEF Typed, Cached
  <2>8. f.fh \in FD => fds[f.fh].owner \notin Clients
                       /\ fds'[f.fh] = [owner |-> c, path |-> File, flag |-> O_RDONLY]
    BY <1>5, <1>6, <1>8, <2>1 DEF Backs
  <2>9. f.fh \in FD => /\ Has(c) => fi[c].fh # f.fh
                       /\ IsOpenHere(c) => openFilesStatus[c].serverDesc # f.fh
    <3>1. ASSUME f.fh \in FD, Has(c), fi[c].fh = f.fh PROVE FALSE
      <4>1. fds[f.fh] = [owner |-> c, path |-> File, flag |-> fi[c].flag]
        BY <1>2, <3>1 DEF Backed, Backs
      <4>2. fds[f.fh].owner = c
        BY <4>1
      <4> QED  BY <2>8, <3>1, <4>2
    <3>2. ASSUME f.fh \in FD, IsOpenHere(c), openFilesStatus[c].serverDesc = f.fh PROVE FALSE
      <4>1. fds[f.fh] = [owner |-> c, path |-> File, flag |-> openFilesStatus[c].clientMode]
        BY <1>2, <3>2 DEF Backed, Backs
      <4>2. fds[f.fh].owner = c
        BY <4>1
      <4> QED  BY <2>8, <3>2, <4>2
    <3> QED  BY <3>1, <3>2
  <2>10. f.fh \in FD \cup {BadFd}
    BY <1>5, <1>6, <1>8, <2>1
  <2>11. StillBacked(c) /\ OthersKept(c) /\ waiting'[c] = NotWaiting /\ UNCHANGED fi
    BY <1>6, <2>5 DEF Steady
  <2>12. ClientInv'
    BY <1>2, <2>2, <2>4, <2>6, <2>7, <2>8, <2>9, <2>10, <2>11, Landed
  <2> QED  BY <1>5, <2>12
<1> QED  BY <1>5, <1>7, <1>8

\* A download that goes on with its descriptor, and leaves the rest alone.
LEMMA FetchGoesOn ==
    ASSUME ClientInv, now \in Times, NEW c \in Clients, OthersKept(c), OwnKept(c, BadFd),
           pc[c] \in FetchLabels, NEW label \in FetchLabels, Step(c, label), LocalUnchanged,
           waiting'[c] = NotWaiting \/ label = "dl_wait",
           Cached(c) \/ label = "dl_wait",
           label = "dl_wait" \/ pc[c] \in {"dl_unlock", "dl_release"}
    PROVE  ClientInv'
<1>1. pc[c] \in DownloadLabels /\ label \in DownloadLabels /\ label # "wb_write"
  BY DEF FetchLabels, DownloadLabels
<1>2. frame[c] \in Frames /\ SameCall(frame[c], frame[c]) /\ Typed(c)
  BY DEF ClientInv, SameCall
<1>3. /\ CallPlaced(label, frame[c], Cached(c)) /\ CallKept(c, label, frame[c])
      /\ Has(c) => Opened(c) \/ StillOpening(label, frame[c])
      /\ label \in Labels
  BY <1>1, <1>2, DownloadGoesOn
<1>4. UNCHANGED <<cache, openFilesStatus, fi>> /\ UNCHANGED fi
  BY DEF LocalUnchanged
<1>5. Retimed(openFilesStatus', c) /\ CallPlaced(label, frame[c], Cached(c)')
  BY <1>3, <1>4, Retimes DEF Cached
<1>6. SameBut(cache, cache', c) /\ (Cached(c) => Cached(c)') /\ (Cached(c)' => cache'[c] \in Copies)
  BY <1>2, <1>4, SameButs DEF Typed, Cached
<1>7. StillBacked(c)
  BY KeptBacked, NamesAssumption
<1>8. Goto(c, label, frame[c]) /\ (waiting'[c] = NotWaiting \/ label \in {"dl_wait", "wb_wait"})
  BY DEF Step
<1> QED  BY <1>1, <1>2, <1>3, <1>4, <1>5, <1>6, <1>7, <1>8, FetchKept, Landed

LEMMA DlLockInv ==
    ASSUME ProtocolInv, NEW c \in Clients, DlLock(c)
    PROVE  Served(c) /\ ClientInv'
<1>1. pc[c] = "dl_lock" /\ pc[c] \in DownloadLabels /\ pc[c] \in FetchLabels /\ "dl_wait" \in FetchLabels
  BY DEF DlLock, DownloadLabels, FetchLabels
<1>2. ClientInv /\ now \in Times /\ waiting[c] = NotWaiting /\ TableTypeOK
  BY <1>1, Known
<1>3. RW_READ_LOCK \in LockModes
  BY DEF LockModes
<1>4. CASE LockSent(c, RW_READ_LOCK) /\ Step(c, "dl_wait") /\ LocalUnchanged
  <2>1. Served(c) /\ OthersKept(c) /\ OwnKept(c, BadFd)
    BY <1>2, <1>3, <1>4, LockSentServed
  <2>2. Step(c, "dl_wait") /\ LocalUnchanged
    BY <1>4
  <2> QED  BY <1>1, <1>2, <2>1, <2>2, FetchGoesOn
<1>5. ASSUME NEW ret \in Answers, LockFailed(c, RW_READ_LOCK, ret),
             IF ret < 0 THEN DownloadFailed(c, ret) ELSE EmptyCache(c)
      PROVE  Served(c) /\ ClientInv'
  <2>1. Served(c) /\ Calm(c) /\ Steady(c) /\ ret \in Int
    BY <1>2, <1>3, <1>5, LockFailedServed, CalmSteady, AnswersInt
  <2> QED  BY <1>1, <1>2, <1>5, <2>1, DownloadFailedInv, EmptyCacheInv
<1> QED  BY <1>4, <1>5 DEF DlLock

LEMMA DlGrantedInv ==
    ASSUME ProtocolInv, NEW c \in Clients, DlGranted(c)
    PROVE  Served(c) /\ ClientInv'
<1>1. pc[c] = "dl_wait" /\ pc[c] \in DownloadLabels
  BY DEF DlGranted, DownloadLabels
<1>2. ClientInv /\ now \in Times /\ TableTypeOK
  BY Known
<1>3. PICK ret \in Answers :
        LockReturned(c, ret) /\ IF ret < 0 THEN DownloadFailed(c, ret) ELSE EmptyCache(c)
  BY DEF DlGranted
<1>4. Served(c) /\ Calm(c) /\ Steady(c) /\ ret \in Int
  BY <1>2, <1>3, LockReturnedServed, CalmSteady, AnswersInt
<1> QED  BY <1>1, <1>2, <1>3, <1>4, DownloadFailedInv, EmptyCacheInv

\* What was read, and the rest of the buffer, have the size of the stat.
LEMMA PaddedType ==
    ASSUME NEW data \in Contents, NEW n \in 0..MaxLen, NEW garbage \in [1..(n - Len(data)) -> Data]
    PROVE  data \o garbage \in Contents
<1>1. n \in Nat /\ n <= MaxLen /\ data \in Seq(Data) /\ Len(data) \in Nat
  BY ContentsLength, ServerAssumption, LenProperties
<1>2. CASE n > Len(data)
  <2>1. n - Len(data) \in Nat /\ garbage \in Seq(Data) /\ Len(garbage) = n - Len(data)
    <3>1. n - Len(data) \in Nat
      BY <1>1, <1>2
    <3>2. garbage \in Seq(Data) /\ DOMAIN garbage = 1..(n - Len(data))
      BY <3>1
    <3> QED  BY <3>1, <3>2, LenProperties
  <2>2. data \o garbage \in Seq(Data) /\ Len(data \o garbage) = n
    BY <1>1, <2>1, ConcatProperties
  <2> QED  BY <1>1, <2>2, ContentsLength
<1>3. CASE ~(n > Len(data))
  <2>1. 1..(n - Len(data)) = {}
    BY <1>1, <1>3
  <2>2. garbage \in [{} -> Data]
    BY <2>1
  <2>3. garbage = <<>>
    BY <2>2
  <2>4. data \o garbage = data
    BY <1>1, <2>3
  <2> QED  BY <2>4
<1> QED  BY <1>2, <1>3

LEMMA DlReadInv ==
    ASSUME ProtocolInv, NEW c \in Clients, DlRead(c)
    PROVE  Served(c) /\ ClientInv'
<1>1. pc[c] = "dl_read" /\ pc[c] \in DownloadLabels /\ pc[c] \in FetchLabels
  BY DEF DlRead, DownloadLabels, FetchLabels
<1>2. /\ ClientInv /\ now \in Times /\ waiting[c] = NotWaiting /\ Typed(c) /\ Placed(c) /\ Kept(c)
      /\ frame[c] \in Frames
  BY <1>1, Known
<1>3. PICK f \in Frames : f = frame[c]
  BY <1>2
<1>4. PICK ret \in Answers, data \in Contents :
        /\ copy_read(c, f.fh, f.st.size, ret, data)
        /\ \/ ret < 0 /\ DownloadFailed(c, ret)
           \/ /\ \E garbage \in [1..(f.st.size - Len(data)) -> Data] :
                   cache' = Put(cache, c, [data |-> data \o garbage, mtime |-> f.st.mtime])
              /\ openFilesStatus' =
                   Put(openFilesStatus, c, [clientMode |-> f.flag, tc |-> now, serverDesc |-> StdIn])
              /\ UNCHANGED fi
              /\ Goto(c, "dl_unlock", f)
  BY <1>3 DEF DlRead, DownloadTime, Step
<1>5. Served(c) /\ Calm(c) /\ Steady(c) /\ ret \in Int
  <2>1. f.fh \in OwnHandles(c) /\ f.st.size \in 0..MaxLen
    BY <1>1, <1>2, <1>3, TransferHandles, FrameFields DEF Stats
  <2> QED  BY <1>2, <1>4, <2>1, ReadServed, CalmSteady, AnswersInt
<1>6. CASE ret < 0 /\ DownloadFailed(c, ret)
  BY <1>1, <1>2, <1>5, <1>6, DownloadFailedInv
<1>7. ASSUME NEW garbage \in [1..(f.st.size - Len(data)) -> Data],
             cache' = Put(cache, c, [data |-> data \o garbage, mtime |-> f.st.mtime]),
             openFilesStatus' =
               Put(openFilesStatus, c, [clientMode |-> f.flag, tc |-> now, serverDesc |-> StdIn]),
             UNCHANGED fi, Goto(c, "dl_unlock", f)
      PROVE  ClientInv'
  <2>1. f.st.size \in 0..MaxLen /\ f.st.mtime \in Times /\ f.flag \in OpenFlags /\ f.st \in Stats
    BY FrameFields DEF Stats
  <2>2. PICK v \in Copies : cache' = Put(cache, c, v)
    BY <1>7, <2>1, PaddedType, CopyFields
  <2>3. SameBut(cache, cache', c) /\ Cached(c)' /\ cache'[c] \in Copies
    BY <2>2 DEF SameBut, Put, Cached
  <2>4. PICK m \in Metas : /\ openFilesStatus' = Put(openFilesStatus, c, m)
                           /\ m.clientMode = f.flag /\ m.serverDesc = StdIn
    <3>1. PICK m : m = [clientMode |-> f.flag, tc |-> now, serverDesc |-> StdIn]
      OBVIOUS
    <3>2. now \in Nat /\ StdIn \in Handles
      BY <1>2, ServerAssumption DEF Handles, Times
    <3>3. m \in Metas /\ m.clientMode = f.flag /\ m.serverDesc = StdIn
      BY <2>1, <3>1, <3>2 DEF Metas
    <3> QED  BY <1>7, <3>1, <3>3
  <2>5. SameBut(openFilesStatus, openFilesStatus', c) /\ IsOpenHere(c)' /\ openFilesStatus'[c] = m
    BY <2>4 DEF SameBut, Put, IsOpenHere
  <2>6. pc'[c] = "dl_unlock" /\ frame'[c] = f /\ fi' = fi /\ (Has(c)' <=> Has(c))
    BY <1>2, <1>7 DEF Goto, ClientInv, Has
  <2>7. StillBacked(c) /\ OthersKept(c) /\ OwnKept(c, BadFd) /\ waiting'[c] = NotWaiting
    BY <1>5 DEF Steady, Calm
  <2>8. Typed(c)'
    BY <1>2, <2>3, <2>5, <2>6, <2>7 DEF Typed, Has
  <2>9. Backed(c)'
    <3>1. /\ f.fh \in FD \cup {BadFd}
          /\ f.fh \in FD => /\ fds'[f.fh] = [owner |-> c, path |-> File, flag |-> O_RDONLY]
                            /\ Has(c) => fi[c].fh # f.fh
      BY <1>1, <1>2, <1>3, <2>7, FetchKept
    <3>2. Has(c)' => Backs(c, fi[c].fh, fi[c].flag)'
      BY <2>6, <2>7 DEF StillBacked, Backs
    <3>3. Backs(c, frame[c].fh, O_RDONLY)'
      BY <2>6, <3>1 DEF Backs
    <3>4. StdIn \notin FD
      BY NamesAssumption
    <3>5. IsOpenHere(c)' => Backs(c, openFilesStatus[c].serverDesc, openFilesStatus[c].clientMode)'
      BY <2>4, <2>5, <3>4 DEF Backs
    <3>6. f.fh \in FD => openFilesStatus'[c].serverDesc # f.fh
      BY <2>4, <2>5, <3>4
    <3> QED  BY <2>6, <3>1, <3>2, <3>3, <3>5, <3>6 DEF Backed
  <2>10. "dl_unlock" \in DownloadLabels /\ SameCall(f, frame[c])
    BY <1>3 DEF DownloadLabels, SameCall
  <2>11. CallPlaced("dl_unlock", f, TRUE) /\ CallKept(c, "dl_unlock", f) /\ "dl_unlock" \in Labels
    BY <1>1, <1>2, <2>10, DownloadGoesOn
  <2>12. Placed(c)'
    BY <2>3, <2>6, <2>11 DEF Placed
  <2>13. Kept(c)'
    <3>1. Has(c) => fi[c].flag = f.flag
      BY <1>1, <1>2, <1>3 DEF Kept, CallKept, Placed, CallPlaced
    <3>2. Has(c)' => Opened(c)'
      BY <2>3, <2>4, <2>5, <2>6, <3>1 DEF Opened
    <3>3. CallKept(c, pc[c], frame[c])'
      BY <2>6, <2>11 DEF CallKept
    <3> QED  BY <2>3, <3>2, <3>3 DEF Kept
  <2>14. SameBut(fi, fi', c)
    BY <2>6, SameButs
  <2> QED  BY <1>2, <1>7, <2>3, <2>5, <2>7, <2>8, <2>9, <2>11, <2>12, <2>13, <2>14, Moved
<1> QED  BY <1>4, <1>5, <1>6, <1>7

LEMMA DlUnlockInv ==
    ASSUME ProtocolInv, NEW c \in Clients, DlUnlock(c)
    PROVE  Served(c) /\ ClientInv'
<1>1. /\ pc[c] = "dl_unlock" /\ pc[c] \in DownloadLabels /\ pc[c] \in FetchLabels
      /\ "dl_release" \in FetchLabels
  BY DEF DlUnlock, DownloadLabels, FetchLabels
<1>2. ClientInv /\ now \in Times /\ waiting[c] = NotWaiting /\ Placed(c)
  BY <1>1, Known
<1>3. PICK ret \in Answers :
        /\ watdfs_cli_unlock(c, RW_READ_LOCK, ret)
        /\ IF ret < 0 THEN DownloadFailed(c, ret) ELSE Step(c, "dl_release") /\ LocalUnchanged
  BY DEF DlUnlock
<1>4. RW_READ_LOCK \in LockModes
  BY DEF LockModes
<1>5. Served(c) /\ Calm(c) /\ Steady(c) /\ ret \in Int
  BY <1>2, <1>3, <1>4, UnlockServed, CalmSteady, AnswersInt
<1>6. CASE ret < 0
  BY <1>1, <1>2, <1>3, <1>5, <1>6, DownloadFailedInv
<1>7. CASE ~(ret < 0)
  <2>1. Cached(c)
    BY <1>1, <1>2 DEF Placed, CallPlaced
  <2>2. waiting'[c] = NotWaiting /\ OthersKept(c) /\ OwnKept(c, BadFd)
    BY <1>5 DEF Calm
  <2>3. Step(c, "dl_release") /\ LocalUnchanged
    BY <1>3, <1>7
  <2> QED  BY <1>1, <1>2, <1>5, <2>1, <2>2, <2>3, FetchGoesOn
<1> QED  BY <1>5, <1>6, <1>7

\* The descriptor that is released is the download's own.
LEMMA DlReleaseInv ==
    ASSUME ProtocolInv, NEW c \in Clients, DlRelease(c)
    PROVE  Served(c) /\ ClientInv'
<1>1. pc[c] = "dl_release" /\ pc[c] \in DownloadLabels /\ pc[c] \in FetchLabels
  BY DEF DlRelease, DownloadLabels, FetchLabels
<1>2. ClientInv /\ now \in Times /\ waiting[c] = NotWaiting /\ TableTypeOK /\ Backed(c)
  BY <1>1, Known
<1>3. PICK fh : fh = frame[c].fh
  OBVIOUS
<1>4. PICK ret \in Answers :
        /\ copy_release(c, O_RDONLY, fh, ret)
        /\ IF ret < 0 THEN DownloadFailed(c, ret) ELSE Downloaded(c)
  BY <1>3 DEF DlRelease
<1>5. /\ O_RDONLY \in OpenFlags /\ fh \in FD \cup {BadFd} /\ Backs(c, fh, O_RDONLY)
      /\ fh \in FD => /\ Has(c) => fi[c].fh # fh
                      /\ IsOpenHere(c) => openFilesStatus[c].serverDesc # fh
  BY <1>1, <1>2, <1>3 DEF OpenFlags, Backed
<1>6. Served(c) /\ waiting'[c] = NotWaiting /\ now' = now /\ OthersKept(c) /\ OwnKept(c, fh)
  BY <1>2, <1>4, <1>5, ReleaseServed
<1>7. StillBacked(c)
  BY <1>2, <1>5, <1>6, KeptBacked
<1>8. Steady(c) /\ ret \in Int
  BY <1>6, <1>7, AnswersInt DEF Steady
<1> QED  BY <1>1, <1>2, <1>4, <1>6, <1>8, DownloadFailedInv, DownloadedInv

-----------------------------------------------------------------------------
(* An upload *)

\* An upload goes on with the same call.
LEMMA UploadGoesOn ==
    ASSUME ClientInv, NEW c \in Clients, pc[c] \in UploadLabels,
           NEW label \in UploadLabels \ {"wb_trunc"}, NEW f, SameCall(f, frame[c]),
           label = "wb_write" => f.buf # <<>>
    PROVE  /\ CallPlaced(label, f, TRUE) /\ CallKept(c, label, f) /\ Cached(c)
           /\ Has(c) => Opened(c)
           /\ label \in Labels \ FetchLabels
<1>1. Placed(c) /\ Kept(c)
  BY DEF ClientInv
<1>2. CallKept(c, label, f)
  BY <1>1 DEF Kept, CallKept, SameCall, DownloadLabels, UploadLabels
<1>3. CallPlaced(label, f, TRUE) /\ Cached(c)
  BY <1>1 DEF Placed, CallPlaced, SameCall, UploadLabels
<1>4. Has(c) => Opened(c)
  BY <1>1 DEF Kept, StillOpening, UploadLabels
<1>5. label \in Labels \ FetchLabels
  BY DEF UploadLabels, Labels, FetchLabels
<1> QED  BY <1>2, <1>3, <1>4, <1>5

LEMMA WbLockInv ==
    ASSUME ProtocolInv, NEW c \in Clients, WbLock(c)
    PROVE  Served(c) /\ ClientInv'
<1>1. pc[c] = "wb_lock" /\ pc[c] \in UploadLabels /\ "wb_wait" \in UploadLabels \ {"wb_trunc"}
  BY DEF WbLock, UploadLabels
<1>2. ClientInv /\ now \in Times /\ waiting[c] = NotWaiting /\ TableTypeOK /\ frame[c] \in Frames
  BY <1>1, Known
<1>3. RW_WRITE_LOCK \in LockModes
  BY DEF LockModes
<1>4. CASE LockSent(c, RW_WRITE_LOCK) /\ Step(c, "wb_wait") /\ LocalUnchanged
  <2>1. Served(c) /\ OthersKept(c) /\ OwnKept(c, BadFd)
    BY <1>2, <1>3, <1>4, LockSentServed
  <2>2. StillBacked(c)
    BY <1>2, <2>1, KeptBacked, NamesAssumption
  <2>3. Goto(c, "wb_wait", frame[c]) /\ LocalUnchanged /\ SameCall(frame[c], frame[c])
    BY <1>4 DEF Step, SameCall
  <2>4. /\ CallPlaced("wb_wait", frame[c], TRUE) /\ CallKept(c, "wb_wait", frame[c]) /\ Cached(c)
        /\ Has(c) => Opened(c)
        /\ "wb_wait" \in Labels \ FetchLabels
    BY <1>1, <1>2, <2>3, UploadGoesOn
  <2>5. CallPlaced("wb_wait", frame[c], Cached(c)) /\ "wb_wait" \in Labels \ (FetchLabels \cup {"wb_write"})
    BY <2>4 DEF Cached
  <2> QED  BY <1>2, <2>1, <2>2, <2>3, <2>4, <2>5, GoesInv
<1>5. ASSUME NEW ret \in Answers, LockFailed(c, RW_WRITE_LOCK, ret),
             IF ret < 0 THEN WriteBackDone(c, ret) ELSE TakeCopy(c)
      PROVE  Served(c) /\ ClientInv'
  <2>1. Served(c) /\ Steady(c) /\ ret \in Int
    BY <1>2, <1>3, <1>5, LockFailedServed, CalmSteady, AnswersInt
  <2> QED  BY <1>1, <1>2, <1>5, <2>1, WriteBackDoneInv, TakeCopyInv
<1> QED  BY <1>4, <1>5 DEF WbLock

LEMMA WbGrantedInv ==
    ASSUME ProtocolInv, NEW c \in Clients, WbGranted(c)
    PROVE  Served(c) /\ ClientInv'
<1>1. pc[c] = "wb_wait" /\ pc[c] \in UploadLabels
  BY DEF WbGranted, UploadLabels
<1>2. ClientInv /\ now \in Times /\ TableTypeOK
  BY Known
<1>3. PICK ret \in Answers :
        LockReturned(c, ret) /\ IF ret < 0 THEN WriteBackDone(c, ret) ELSE TakeCopy(c)
  BY DEF WbGranted
<1>4. Served(c) /\ Steady(c) /\ ret \in Int
  BY <1>2, <1>3, LockReturnedServed, CalmSteady, AnswersInt
<1> QED  BY <1>1, <1>2, <1>3, <1>4, WriteBackDoneInv, TakeCopyInv

\* operator[] gives the descriptor of the map, or standard input.
LEMMA WbTruncInv ==
    ASSUME ProtocolInv, NEW c \in Clients, WbTrunc(c)
    PROVE  Served(c) /\ ClientInv'
<1>1. pc[c] = "wb_trunc" /\ pc[c] \in UploadLabels
  BY DEF WbTrunc, UploadLabels
<1>2. /\ ClientInv /\ now \in Times /\ waiting[c] = NotWaiting /\ frame[c] \in Frames /\ Typed(c)
      /\ frame[c].st.size = Len(frame[c].buf)
  BY <1>1, Known DEF Placed, CallPlaced
<1>3. PICK m : m = MetaTouched(c)
  OBVIOUS
<1>4. PICK ret \in Answers :
        /\ copy_truncate(c, 0, ret)
        /\ \/ ret < 0 /\ WriteBackDone(c, ret)
           \/ /\ openFilesStatus' = m
              /\ UNCHANGED <<cache, fi>>
              /\ Goto(c, IF frame[c].st.size > 0 THEN "wb_write" ELSE "wb_utime",
                      [frame[c] EXCEPT !.fh = m[c].serverDesc])
  BY <1>3 DEF WbTrunc
<1>5. Served(c) /\ Steady(c) /\ ret \in Int
  <2>1. 0 \in 0..MaxLen
    BY ServerAssumption
  <2> QED  BY <1>2, <1>4, <2>1, TruncateServed, CalmSteady, AnswersInt
<1>6. CASE ret < 0 /\ WriteBackDone(c, ret)
  BY <1>1, <1>2, <1>5, <1>6, WriteBackDoneInv
<1>7. ASSUME openFilesStatus' = m, UNCHANGED <<cache, fi>>,
             Goto(c, IF frame[c].st.size > 0 THEN "wb_write" ELSE "wb_utime",
                  [frame[c] EXCEPT !.fh = m[c].serverDesc])
      PROVE  ClientInv'
  <2>1. StillBacked(c) /\ OthersKept(c) /\ waiting'[c] = NotWaiting
    BY <1>5 DEF Steady
  <2>2. Retimed(m, c)
    BY <1>2, <1>3, Retimes
  <2>3. c \in DOMAIN m
    BY <1>3 DEF MetaTouched, Put, IsOpenHere
  <2>4. /\ m[c] \in Metas
        /\ m[c].serverDesc \in FD =>
             fds'[m[c].serverDesc] = [owner |-> c, path |-> File, flag |-> m[c].clientMode]
    BY <1>2, <2>1, <2>2, <2>3, MapRetimed
  <2>5. m[c].serverDesc \in Handles
    BY <2>4, MetaFields
  <2>6. PICK f \in Frames : /\ f = [frame[c] EXCEPT !.fh = m[c].serverDesc]
                            /\ SameCall(f, frame[c]) /\ f.fh = m[c].serverDesc
                            /\ f.buf = frame[c].buf
    <3>1. \A x \in Handles :
             LET g == [frame[c] EXCEPT !.fh = x]
             IN  g \in Frames /\ SameCall(g, frame[c]) /\ g.fh = x /\ g.buf = frame[c].buf
      BY <1>2, FrameWith
    <3> QED  BY <2>5, <3>1
  <2>7. PICK label \in {"wb_write", "wb_utime"} :
           Goto(c, label, f) /\ (label = "wb_write" => frame[c].st.size > 0)
    BY <1>7, <2>6
  <2>8. label \in UploadLabels \ {"wb_trunc"} /\ (label = "wb_write" => f.buf # <<>>)
    <3>1. Len(<<>>) = 0
      OBVIOUS
    <3> QED  BY <1>2, <2>6, <2>7, <3>1 DEF UploadLabels
  <2>9. /\ CallPlaced(label, f, TRUE) /\ CallKept(c, label, f) /\ Cached(c)
        /\ Has(c) => Opened(c)
        /\ label \in Labels \ FetchLabels
    BY <1>1, <1>2, <2>6, <2>8, UploadGoesOn
  <2>10. SameBut(cache, cache', c) /\ Cached(c)' /\ cache'[c] \in Copies
    BY <1>2, <1>7, <2>9, SameButs DEF Typed, Cached
  <2>11. CallPlaced(label, f, Cached(c)')
    BY <2>9, <2>10
  <2>12. f.fh \in FD => fds'[f.fh].owner = c
    BY <2>4, <2>6
  <2>13. UNCHANGED fi /\ Retimed(openFilesStatus', c)
    BY <1>7, <2>2
  <2>14. label \in Labels /\ label \notin FetchLabels
    BY <2>9
  <2> QED  BY <1>2, <2>1, <2>7, <2>9, <2>10, <2>11, <2>12, <2>13, <2>14, Landed
<1> QED  BY <1>4, <1>5, <1>6, <1>7

LEMMA UploadStepInv ==
    ASSUME ClientInv, now \in Times, NEW c \in Clients, Steady(c), NEW ret \in Int,
           pc[c] \in UploadLabels, NEW label \in UploadLabels \ {"wb_trunc", "wb_write"},
           IF ret < 0 THEN WriteBackDone(c, ret) ELSE Step(c, label) /\ LocalUnchanged
    PROVE  ClientInv'
<1>1. CASE ret < 0
  BY <1>1, WriteBackDoneInv
<1>2. CASE ~(ret < 0)
  <2>1. Goto(c, label, frame[c]) /\ LocalUnchanged /\ SameCall(frame[c], frame[c]) /\ frame[c] \in Frames
    BY <1>2 DEF Step, SameCall, ClientInv
  <2>2. /\ CallPlaced(label, frame[c], TRUE) /\ CallKept(c, label, frame[c]) /\ Cached(c)
        /\ Has(c) => Opened(c)
        /\ label \in Labels \ FetchLabels
    BY <2>1, UploadGoesOn
  <2>3. CallPlaced(label, frame[c], Cached(c)) /\ label \in Labels \ (FetchLabels \cup {"wb_write"})
    BY <2>2 DEF Cached
  <2>4. StillBacked(c) /\ OthersKept(c) /\ waiting'[c] = NotWaiting
    BY DEF Steady
  <2> QED  BY <2>1, <2>2, <2>3, <2>4, GoesInv
<1> QED  BY <1>1, <1>2

LEMMA WbWriteInv ==
    ASSUME ProtocolInv, NEW c \in Clients, WbWrite(c)
    PROVE  Served(c) /\ ClientInv'
<1>1. pc[c] = "wb_write" /\ pc[c] \in UploadLabels /\ "wb_utime" \in UploadLabels \ {"wb_trunc", "wb_write"}
  BY DEF WbWrite, UploadLabels
<1>2. /\ ClientInv /\ now \in Times /\ waiting[c] = NotWaiting
      /\ frame[c].buf \in Contents \ {<<>>} /\ frame[c].fh \in OwnHandles(c)
  BY <1>1, Known, FrameFields, TransferHandles DEF Placed, CallPlaced
<1>3. PICK ret \in Answers :
        /\ copy_write(c, frame[c].fh, frame[c].buf, ret)
        /\ IF ret < 0 THEN WriteBackDone(c, ret) ELSE Step(c, "wb_utime") /\ LocalUnchanged
  BY DEF WbWrite
<1>4. Served(c) /\ Steady(c) /\ ret \in Int
  BY <1>2, <1>3, WriteServed, CalmSteady, AnswersInt
<1> QED  BY <1>1, <1>2, <1>3, <1>4, UploadStepInv

LEMMA WbUtimeInv ==
    ASSUME ProtocolInv, NEW c \in Clients, WbUtime(c)
    PROVE  Served(c) /\ ClientInv'
<1>1. pc[c] = "wb_utime" /\ pc[c] \in UploadLabels /\ "wb_unlock" \in UploadLabels \ {"wb_trunc", "wb_write"}
  BY DEF WbUtime, UploadLabels
<1>2. ClientInv /\ now \in Times /\ waiting[c] = NotWaiting /\ TableTypeOK /\ frame[c].st.mtime \in Times
  BY <1>1, Known, FrameFields DEF Stats
<1>3. PICK ret \in Answers :
        /\ copy_utimensat(c, frame[c].st.mtime, ret)
        /\ IF ret < 0 THEN WriteBackDone(c, ret) ELSE Step(c, "wb_unlock") /\ LocalUnchanged
  BY DEF WbUtime, UploadTime
<1>4. Served(c) /\ Steady(c) /\ ret \in Int
  BY <1>2, <1>3, UtimensatServed, CalmSteady, AnswersInt
<1> QED  BY <1>1, <1>2, <1>3, <1>4, UploadStepInv

LEMMA WbUnlockInv ==
    ASSUME ProtocolInv, NEW c \in Clients, WbUnlock(c)
    PROVE  Served(c) /\ ClientInv'
<1>1. pc[c] = "wb_unlock" /\ pc[c] \in UploadLabels
  BY DEF WbUnlock, UploadLabels
<1>2. ClientInv /\ now \in Times /\ waiting[c] = NotWaiting
  BY <1>1, Known
<1>3. PICK ret \in Answers : watdfs_cli_unlock(c, RW_WRITE_LOCK, ret) /\ WriteBackDone(c, ret)
  BY DEF WbUnlock
<1>4. RW_WRITE_LOCK \in LockModes
  BY DEF LockModes
<1>5. Served(c) /\ Steady(c) /\ ret \in Int
  BY <1>2, <1>3, <1>4, UnlockServed, CalmSteady, AnswersInt
<1> QED  BY <1>1, <1>2, <1>3, <1>5, WriteBackDoneInv

-----------------------------------------------------------------------------
(* The calls *)

LEMMA NewFrame ==
    ASSUME NEW c \in Clients, NEW op \in Ops
    PROVE  /\ New(c, op) \in Frames
           /\ New(c, op).op = op /\ New(c, op).open = IsOpenHere(c) /\ New(c, op).flag = O_RDONLY
           /\ \A x \in OpenFlags, n \in 0..MaxLen :
                LET g == [New(c, op) EXCEPT !.flag = x, !.n = n]
                IN  g \in Frames /\ g.op = op /\ g.open = IsOpenHere(c)
<1>0. IsOpenHere(c) \in BOOLEAN /\ Cached(c) \in BOOLEAN
  BY DEF IsOpenHere, Cached
<1>1. PICK o \in BOOLEAN, k \in BOOLEAN : o = IsOpenHere(c) /\ k = Cached(c)
  BY <1>0, Zenon
<1> DEFINE r == [op |-> op, open |-> o, cached |-> k, flag |-> O_RDONLY, n |-> 0,
                 st |-> NoStat, buf |-> <<>>, fh |-> StdIn, ret |-> 0]
<1>2. New(c, op) = [Blank EXCEPT !.op = op, !.open = o, !.cached = k]
  BY <1>1, Zenon DEF New
<1>3. New(c, op) = r
  BY <1>2 DEF Blank
<1>4. O_RDONLY \in OpenFlags /\ StdIn \in Handles
  BY DEF OpenFlags, Handles
<1>5. 0 \in 0..MaxLen
  BY ServerAssumption
<1>6. <<>> \in Contents /\ NoStat \in Stats
  BY BlankFrames
<1>7. r \in Frames /\ r.op = op /\ r.open = o /\ r.flag = O_RDONLY
  BY <1>4, <1>5, <1>6 DEF Frames
<1>8. ASSUME NEW x \in OpenFlags, NEW n \in 0..MaxLen, NEW g, g = [r EXCEPT !.flag = x, !.n = n]
      PROVE  g \in Frames /\ g.op = op /\ g.open = o
  <2>1. g = [op |-> op, open |-> o, cached |-> k, flag |-> x, n |-> n,
             st |-> NoStat, buf |-> <<>>, fh |-> StdIn, ret |-> 0]
    BY <1>8
  <2> QED  BY <1>4, <1>6, <2>1 DEF Frames
<1> QED  BY <1>1, <1>3, <1>7, <1>8, Zenon

\* What is known when a call begins.
LEMMA CallBegins ==
    ASSUME ProtocolInv, NEW c \in Clients, NEW op, Begins(c, op)
    PROVE  /\ Served(c) /\ Steady(c) /\ StillBacked(c) /\ OthersKept(c) /\ waiting'[c] = NotWaiting
           /\ ClientInv /\ now \in Times /\ Typed(c)
           /\ Has(c) => Opened(c) /\ IsOpenHere(c) /\ Cached(c)
           /\ IsWriter(c) => IsOpenHere(c) /\ Cached(c)
<1>1. pc[c] = "idle" /\ UNCHANGED serverVars
  BY DEF Begins
<1>2. ClientInv /\ now \in Times /\ waiting[c] = NotWaiting /\ Kept(c) /\ Typed(c)
  BY <1>1, Known
<1>3. Calm(c)
  BY <1>1, <1>2, UnchangedServer, UnchangedCalm
<1>4. Steady(c)
  BY <1>2, <1>3, CalmSteady
<1>5. Has(c) => Opened(c)
  BY <1>1, <1>2 DEF Kept, StillOpening
<1> QED  BY <1>1, <1>2, <1>4, <1>5 DEF Served, Steady, Kept, Opened, IsWriter

\* A call that ends at once.
LEMMA EndsAtOnce ==
    ASSUME ProtocolInv, NEW c \in Clients, NEW op \in Ops, Begins(c, op),
           NEW ret \in Int, Ends(c, op, ret), UNCHANGED <<cache, fi>>,
           openFilesStatus' = openFilesStatus \/ openFilesStatus' = MetaTouched(c)
    PROVE  ClientInv'
<1>1. ClientInv /\ now \in Times /\ Steady(c) /\ (Has(c) => Opened(c))
  BY CallBegins
<1>2. Retimed(openFilesStatus', c)
  BY <1>1, Retimes
<1>3. op \in Ops \cup {"none"} /\ Goto(c, "idle", [Blank EXCEPT !.op = op, !.ret = ret])
  BY DEF Ends
<1> QED  BY <1>1, <1>2, <1>3, EndsInv

\* A call that goes to a label, with the map as it was but for operator[] and the
\* time of the last check.
LEMMA GoesOn ==
    ASSUME ProtocolInv, NEW c \in Clients, NEW op \in Ops, Begins(c, op),
           NEW label \in Labels \ (FetchLabels \cup {"wb_write"}),
           NEW f \in Frames, Goto(c, label, f), f.op = op, f.open = IsOpenHere(c),
           UNCHANGED fi, Retimed(openFilesStatus', c),
           cache' = cache \/ (Cached(c) /\ \E v \in Copies : cache' = [cache EXCEPT ![c] = v]),
           CallPlaced(label, f, Cached(c)), CallKept(c, label, f)
    PROVE  ClientInv'
<1>1. /\ ClientInv /\ now \in Times /\ StillBacked(c) /\ OthersKept(c) /\ waiting'[c] = NotWaiting
      /\ Typed(c) /\ (Has(c) => Opened(c))
  BY CallBegins
<1>2. /\ SameBut(cache, cache', c) /\ (Cached(c)' <=> Cached(c)) /\ (Cached(c)' => cache'[c] \in Copies)
  <2>1. CASE cache' = cache
    BY <1>1, <2>1, SameButs DEF Cached, Typed
  <2>2. ASSUME NEW v \in Copies, Cached(c), cache' = [cache EXCEPT ![c] = v]
        PROVE  SameBut(cache, cache', c) /\ Cached(c)' /\ cache'[c] \in Copies
    BY <2>2 DEF Cached, SameBut
  <2> QED  BY <2>1, <2>2
<1>3. CallPlaced(label, f, Cached(c)')
  <2>1. Cached(c)' = Cached(c)
    BY <1>2 DEF Cached
  <2> QED  BY <2>1
<1>4. label \in Labels /\ label \notin FetchLabels /\ label # "wb_write"
  OBVIOUS
<1> QED  BY <1>1, <1>2, <1>3, <1>4, Landed

LEMMA GetattrInv ==
    ASSUME ProtocolInv, NEW c \in Clients, watdfs_cli_getattr(c)
    PROVE  Served(c) /\ ClientInv'
<1>1. Begins(c, "getattr") /\ Goto(c, "probe", New(c, "getattr")) /\ UNCHANGED <<cache, openFilesStatus, fi>>
  BY DEF watdfs_cli_getattr, LocalUnchanged
<1>2. "getattr" \in Ops /\ "probe" \in Labels \ (FetchLabels \cup {"wb_write"})
  BY DEF Ops, Labels, FetchLabels
<1>3. /\ Served(c) /\ ClientInv /\ now \in Times
      /\ Has(c) => IsOpenHere(c)
  BY <1>1, CallBegins
<1>4. PICK f \in Frames : f = New(c, "getattr") /\ f.op = "getattr" /\ f.open = IsOpenHere(c)
                          /\ f.flag = O_RDONLY
  BY <1>2, NewFrame
<1>5. CallPlaced("probe", f, Cached(c))
  BY <1>4 DEF CallPlaced, UploadLabels
<1>6. CallKept(c, "probe", f)
  BY <1>3, <1>4 DEF CallKept, DownloadLabels
<1>7. Retimed(openFilesStatus', c)
  BY <1>1, <1>3, Retimes
<1>8. Goto(c, "probe", f) /\ UNCHANGED fi /\ cache' = cache
  BY <1>1, <1>4
<1> QED  BY <1>1, <1>2, <1>3, <1>4, <1>5, <1>6, <1>7, <1>8, GoesOn

LEMMA OpenInv ==
    ASSUME ProtocolInv, NEW c \in Clients, watdfs_cli_open(c)
    PROVE  Served(c) /\ ClientInv'
<1>1. PICK flag \in OpenFlags :
        /\ Begins(c, "open") /\ Goto(c, "op_open", [New(c, "open") EXCEPT !.flag = flag])
        /\ UNCHANGED <<cache, openFilesStatus, fi>>
  BY DEF watdfs_cli_open, LocalUnchanged
<1>2. "open" \in Ops /\ "op_open" \in Labels \ (FetchLabels \cup {"wb_write"})
  BY DEF Ops, Labels, FetchLabels
<1>3. Served(c) /\ ClientInv /\ now \in Times
  BY <1>1, CallBegins
<1>4. PICK f : f = [New(c, "open") EXCEPT !.flag = flag]
  OBVIOUS
<1>5. f \in Frames /\ f.op = "open" /\ f.open = IsOpenHere(c)
  <2> DEFINE g == New(c, "open")
  <2>1. g \in Frames /\ g.op = "open" /\ g.open = IsOpenHere(c) /\ f = [g EXCEPT !.flag = flag]
    BY <1>2, <1>4, NewFrame
  <2> HIDE DEF g
  <2>2. \A x \in OpenFlags : /\ [g EXCEPT !.flag = x] \in Frames
                             /\ [g EXCEPT !.flag = x].op = g.op /\ [g EXCEPT !.flag = x].open = g.open
    BY <2>1, FrameWith
  <2> QED  BY <2>1, <2>2
<1>6. CallPlaced("op_open", f, Cached(c))
  BY <1>5 DEF CallPlaced, UploadLabels
<1>7. CallKept(c, "op_open", f)
  BY <1>5 DEF CallKept, DownloadLabels
<1>8. Retimed(openFilesStatus', c)
  BY <1>1, <1>3, Retimes
<1>9. Goto(c, "op_open", f) /\ UNCHANGED fi /\ cache' = cache
  BY <1>1, <1>4
<1> QED  BY <1>1, <1>2, <1>3, <1>5, <1>6, <1>7, <1>8, <1>9, GoesOn

LEMMA ReleaseInv ==
    ASSUME ProtocolInv, NEW c \in Clients, watdfs_cli_release(c)
    PROVE  Served(c) /\ ClientInv'
<1>1. PICK label \in {"wb_lock", "op_release"} :
        /\ Has(c) /\ Begins(c, "release") /\ Goto(c, label, New(c, "release"))
        /\ UNCHANGED <<cache, openFilesStatus, fi>>
  BY DEF watdfs_cli_release, LocalUnchanged
<1>2. "release" \in Ops /\ label \in Labels \ (FetchLabels \cup {"wb_write"})
  BY DEF Ops, Labels, FetchLabels
<1>3. Served(c) /\ ClientInv /\ now \in Times /\ IsOpenHere(c) /\ Cached(c)
  BY <1>1, CallBegins
<1>4. PICK f \in Frames : f = New(c, "release") /\ f.op = "release" /\ f.open = IsOpenHere(c)
  BY <1>2, NewFrame
<1>5. CallPlaced(label, f, Cached(c))
  BY <1>3, <1>4 DEF CallPlaced, UploadLabels
<1>6. CallKept(c, label, f)
  BY <1>1, <1>3, <1>4 DEF CallKept, DownloadLabels
<1>7. Retimed(openFilesStatus', c)
  BY <1>1, <1>3, Retimes
<1>8. Goto(c, label, f) /\ UNCHANGED fi /\ cache' = cache
  BY <1>1, <1>4
<1> QED  BY <1>1, <1>2, <1>3, <1>4, <1>5, <1>6, <1>7, <1>8, GoesOn

LEMMA MknodInv ==
    ASSUME ProtocolInv, NEW c \in Clients, watdfs_cli_mknod(c)
    PROVE  Served(c) /\ ClientInv'
<1>1. Begins(c, "mknod") /\ UNCHANGED <<cache, openFilesStatus, fi>> /\ "mknod" \in Ops
  BY DEF watdfs_cli_mknod, LocalUnchanged, Ops
<1>2. /\ Served(c) /\ ClientInv /\ now \in Times
      /\ Has(c) => IsOpenHere(c)
      /\ IsWriter(c) => Cached(c)
  BY <1>1, CallBegins
<1>3. PICK f \in Frames : f = New(c, "mknod") /\ f.op = "mknod" /\ f.open = IsOpenHere(c)
  BY <1>1, NewFrame
<1>4. Retimed(openFilesStatus', c)
  BY <1>1, <1>2, Retimes
<1>5. "mk_probe" \in Labels \ (FetchLabels \cup {"wb_write"}) /\ "check" \in Labels \ (FetchLabels \cup {"wb_write"})
  BY DEF Labels, FetchLabels
<1>6. CASE Ends(c, "mknod", -EPERM)
  BY <1>1, <1>2, <1>6, EndsAtOnce DEF EPERM
<1>7. CASE ~IsOpenHere(c) /\ Goto(c, "mk_probe", f)
  <2>1. CallPlaced("mk_probe", f, Cached(c)) /\ CallKept(c, "mk_probe", f)
    BY <1>2, <1>3, <1>7 DEF CallPlaced, UploadLabels, CallKept, DownloadLabels
  <2> QED  BY <1>1, <1>2, <1>3, <1>4, <1>5, <1>7, <2>1, GoesOn
<1>8. CASE Cached(c) /\ Goto(c, "check", [f EXCEPT !.ret = -1])
  <2>1. PICK g \in Frames : Goto(c, "check", g) /\ SameCall(g, f)
    <3>1. \A x \in Int : [f EXCEPT !.ret = x] \in Frames /\ SameCall([f EXCEPT !.ret = x], f)
      BY FrameWith
    <3> QED  BY <1>8, <3>1
  <2>2. g.op = "mknod" /\ g.open = IsOpenHere(c)
    BY <1>3, <2>1 DEF SameCall
  <2>3. CallPlaced("check", g, Cached(c)) /\ CallKept(c, "check", g)
    BY <1>2, <1>8, <2>2 DEF CallPlaced, UploadLabels, CallKept, DownloadLabels
  <2> QED  BY <1>1, <1>2, <1>4, <1>5, <2>1, <2>2, <2>3, GoesOn
<1> QED  BY <1>2, <1>3, <1>6, <1>7, <1>8 DEF watdfs_cli_mknod

LEMMA ReadInv ==
    ASSUME ProtocolInv, NEW c \in Clients, watdfs_cli_read(c)
    PROVE  Served(c) /\ ClientInv'
<1>1. /\ Begins(c, "read") /\ UNCHANGED <<cache, fi>> /\ openFilesStatus' = MetaTouched(c)
      /\ "read" \in Ops /\ "check" \in Labels \ (FetchLabels \cup {"wb_write"})
  BY DEF watdfs_cli_read, Ops, Labels, FetchLabels
<1>2. /\ Served(c) /\ ClientInv /\ now \in Times
      /\ Has(c) => Opened(c) /\ IsOpenHere(c)
  BY <1>1, CallBegins
<1>3. PICK f \in Frames : f = New(c, "read") /\ f.op = "read" /\ f.open = IsOpenHere(c)
                          /\ f.flag = O_RDONLY
  BY <1>1, NewFrame
<1>4. Retimed(openFilesStatus', c)
  BY <1>1, <1>2, Retimes
<1>5. CASE Ends(c, "read", 0)
  BY <1>1, <1>2, <1>5, EndsAtOnce
<1>6. CASE ~IsWriter(c) /\ Goto(c, "check", f)
  <2>1. CallPlaced("check", f, Cached(c))
    BY <1>3 DEF CallPlaced, UploadLabels
  <2>2. Has(c) => fi[c].flag = O_RDONLY
    BY <1>2, <1>6 DEF Opened, IsWriter
  <2>3. CallKept(c, "check", f)
    BY <1>2, <1>3, <2>2 DEF CallKept, DownloadLabels
  <2> QED  BY <1>1, <1>2, <1>3, <1>4, <1>6, <2>1, <2>3, GoesOn
<1> QED  BY <1>2, <1>3, <1>5, <1>6 DEF watdfs_cli_read

\* A call on a file that is open for writing goes on to a freshness check, or to
\* the upload, with the copy that it changed.
LEMMA WriterGoesOn ==
    ASSUME ProtocolInv, NEW c \in Clients, NEW op \in Ops \ {"open", "getattr", "read", "release"},
           Begins(c, op), Cached(c),
           NEW label \in {"check", "wb_lock"}, NEW f \in Frames, Goto(c, label, f),
           f.op = op, f.open = IsOpenHere(c),
           UNCHANGED fi, Retimed(openFilesStatus', c),
           cache' = cache \/ \E v \in Copies : cache' = [cache EXCEPT ![c] = v]
    PROVE  ClientInv'
<1>1. Has(c) => IsOpenHere(c)
  BY CallBegins
<1>2. label \in Labels \ (FetchLabels \cup {"wb_write"})
  BY DEF Labels, FetchLabels
<1>3. CallPlaced(label, f, Cached(c))
  BY DEF CallPlaced, UploadLabels
<1>4. CallKept(c, label, f)
  BY <1>1 DEF CallKept, DownloadLabels
<1>5. op \in Ops
  OBVIOUS
<1> QED  BY <1>2, <1>3, <1>4, <1>5, GoesOn

LEMMA WriteInv ==
    ASSUME ProtocolInv, NEW c \in Clients, watdfs_cli_write(c)
    PROVE  Served(c) /\ ClientInv'
<1>1. PICK data \in WriteData :
        /\ Begins(c, "write") /\ UNCHANGED fi
        /\ IF IsWriter(c)
             THEN /\ cache' = [cache EXCEPT ![c] = [data |-> Overlaid(@.data, data), mtime |-> now]]
                  /\ openFilesStatus' = [openFilesStatus EXCEPT ![c].tc = now]
                  /\ Goto(c, "check", [New(c, "write") EXCEPT !.ret = Len(data)])
             ELSE /\ openFilesStatus' = MetaTouched(c)
                  /\ UNCHANGED cache
                  /\ Ends(c, "write", -EMFILE)
  BY DEF watdfs_cli_write
<1>2. /\ Served(c) /\ ClientInv /\ now \in Times /\ Typed(c)
      /\ IsWriter(c) => Cached(c)
  BY <1>1, CallBegins
<1>3. "write" \in Ops /\ "write" \in Ops \ {"open", "getattr", "read", "release"}
  BY DEF Ops
<1>4. CASE IsWriter(c)
  <2>1. data \in Contents /\ cache[c].data \in Contents /\ Len(data) \in Int
    BY <1>2, <1>4, ClientAssumption, CopyFields, ContentsLength DEF Typed
  <2>2. Overlaid(cache[c].data, data) \in Contents
    BY <2>1, OverlaidContents
  <2>3. PICK v \in Copies : cache' = [cache EXCEPT ![c] = v]
    BY <1>1, <1>2, <1>4, <2>2, CopyFields
  <2>4. PICK g \in Frames : g = New(c, "write") /\ g.op = "write" /\ g.open = IsOpenHere(c)
    BY <1>3, NewFrame
  <2>5. PICK f \in Frames : Goto(c, "check", f) /\ SameCall(f, g)
    <3>1. \A x \in Int : [g EXCEPT !.ret = x] \in Frames /\ SameCall([g EXCEPT !.ret = x], g)
      BY FrameWith
    <3> QED  BY <1>1, <1>4, <2>1, <2>4, <3>1
  <2>6. f.op = "write" /\ f.open = IsOpenHere(c)
    BY <2>4, <2>5 DEF SameCall
  <2>7. Retimed(openFilesStatus', c)
    <3>1. Retimed(openFilesStatus, c)
      BY <1>2, Retimes
    <3> QED  BY <1>1, <1>2, <1>4, <3>1, Retimes
  <2> QED  BY <1>1, <1>2, <1>3, <1>4, <2>3, <2>5, <2>6, <2>7, WriterGoesOn
<1>5. CASE ~IsWriter(c)
  BY <1>1, <1>2, <1>3, <1>5, EndsAtOnce DEF EMFILE
<1> QED  BY <1>4, <1>5

LEMMA TruncateInv ==
    ASSUME ProtocolInv, NEW c \in Clients, watdfs_cli_truncate(c)
    PROVE  Served(c) /\ ClientInv'
<1>1. PICK n \in 0..MaxLen, op \in {"truncate", "ftruncate"} :
        /\ Begins(c, op) /\ UNCHANGED <<openFilesStatus, fi>>
        /\ \/ UNCHANGED cache /\ Ends(c, op, -EMFILE)
           \/ /\ ~IsOpenHere(c)
              /\ UNCHANGED cache
              /\ Goto(c, "dl_stat", [New(c, op) EXCEPT !.flag = O_RDWR, !.n = n])
           \/ /\ IF IsOpenHere(c) THEN IsWriter(c) ELSE Cached(c)
              /\ cache' = [cache EXCEPT ![c] = Truncated(@, n)]
              /\ Goto(c, "check", New(c, op))
  BY DEF watdfs_cli_truncate
<1>2. /\ Served(c) /\ ClientInv /\ now \in Times /\ Typed(c)
      /\ Has(c) => IsOpenHere(c)
      /\ IsWriter(c) => Cached(c)
  BY <1>1, CallBegins
<1>3. /\ op \in Ops /\ op \in Ops \ {"open", "getattr", "read", "release"}
      /\ "dl_stat" \in Labels \ (FetchLabels \cup {"wb_write"}) /\ O_RDWR \in OpenFlags
  BY DEF Ops, Labels, FetchLabels, OpenFlags
<1>4. Retimed(openFilesStatus', c)
  BY <1>1, <1>2, Retimes
<1>5. CASE UNCHANGED cache /\ Ends(c, op, -EMFILE)
  BY <1>1, <1>2, <1>3, <1>5, EndsAtOnce DEF EMFILE
<1>6. ASSUME ~IsOpenHere(c), UNCHANGED cache,
             Goto(c, "dl_stat", [New(c, op) EXCEPT !.flag = O_RDWR, !.n = n])
      PROVE  ClientInv'
  <2>1. PICK f \in Frames : Goto(c, "dl_stat", f) /\ f.op = op /\ f.open = IsOpenHere(c)
    <3>1. \A x \in OpenFlags, k \in 0..MaxLen :
             LET g == [New(c, op) EXCEPT !.flag = x, !.n = k]
             IN  g \in Frames /\ g.op = op /\ g.open = IsOpenHere(c)
      BY <1>3, NewFrame
    <3>2. PICK f : f = [New(c, op) EXCEPT !.flag = O_RDWR, !.n = n]
      OBVIOUS
    <3>3. f \in Frames /\ f.op = op /\ f.open = IsOpenHere(c)
      BY <1>3, <3>1, <3>2
    <3> QED  BY <1>6, <3>2, <3>3
  <2>2. CallPlaced("dl_stat", f, Cached(c))
    BY <2>1 DEF CallPlaced, UploadLabels
  <2>3. CallKept(c, "dl_stat", f)
    BY <1>2, <1>6, <2>1 DEF CallKept
  <2> QED  BY <1>1, <1>3, <1>4, <1>6, <2>1, <2>2, <2>3, GoesOn
<1>7. ASSUME IF IsOpenHere(c) THEN IsWriter(c) ELSE Cached(c),
             cache' = [cache EXCEPT ![c] = Truncated(@, n)], Goto(c, "check", New(c, op))
      PROVE  ClientInv'
  <2>1. Cached(c) /\ cache[c] \in Copies
    BY <1>2, <1>7 DEF Typed
  <2>2. PICK v \in Copies : cache' = [cache EXCEPT ![c] = v]
    BY <1>2, <1>7, <2>1, CopyFields
  <2>3. PICK f \in Frames : Goto(c, "check", f) /\ f.op = op /\ f.open = IsOpenHere(c)
    BY <1>3, <1>7, NewFrame
  <2> QED  BY <1>1, <1>3, <1>4, <2>1, <2>2, <2>3, WriterGoesOn
<1> QED  BY <1>1, <1>2, <1>5, <1>6, <1>7

LEMMA FsyncInv ==
    ASSUME ProtocolInv, NEW c \in Clients, watdfs_cli_fsync(c)
    PROVE  Served(c) /\ ClientInv'
<1>1. /\ Begins(c, "fsync") /\ UNCHANGED <<cache, fi>> /\ openFilesStatus' = MetaTouched(c)
      /\ IF IsWriter(c) THEN Goto(c, "wb_lock", New(c, "fsync")) ELSE Ends(c, "fsync", -EPERM)
  BY DEF watdfs_cli_fsync
<1>2. /\ Served(c) /\ ClientInv /\ now \in Times
      /\ IsWriter(c) => Cached(c)
  BY <1>1, CallBegins
<1>3. "fsync" \in Ops /\ "fsync" \in Ops \ {"open", "getattr", "read", "release"}
  BY DEF Ops
<1>4. Retimed(openFilesStatus', c)
  BY <1>1, <1>2, Retimes
<1>5. CASE IsWriter(c)
  <2>1. PICK f \in Frames : Goto(c, "wb_lock", f) /\ f.op = "fsync" /\ f.open = IsOpenHere(c)
    BY <1>1, <1>3, <1>5, NewFrame
  <2> QED  BY <1>1, <1>2, <1>3, <1>4, <1>5, <2>1, WriterGoesOn
<1>6. CASE ~IsWriter(c)
  BY <1>1, <1>2, <1>3, <1>6, EndsAtOnce DEF EPERM
<1> QED  BY <1>5, <1>6

LEMMA UtimensatInv ==
    ASSUME ProtocolInv, NEW c \in Clients, watdfs_cli_utimensat(c)
    PROVE  Served(c) /\ ClientInv'
<1>1. PICK t \in Times :
        /\ Begins(c, "utimensat") /\ UNCHANGED fi /\ openFilesStatus' = MetaTouched(c)
        /\ IF IsWriter(c)
             THEN /\ cache' = [cache EXCEPT ![c].mtime = t]
                  /\ Goto(c, "check", New(c, "utimensat"))
             ELSE UNCHANGED cache /\ Ends(c, "utimensat", -EMFILE)
  BY DEF watdfs_cli_utimensat
<1>2. /\ Served(c) /\ ClientInv /\ now \in Times /\ Typed(c)
      /\ IsWriter(c) => Cached(c)
  BY <1>1, CallBegins
<1>3. "utimensat" \in Ops /\ "utimensat" \in Ops \ {"open", "getattr", "read", "release"}
  BY DEF Ops
<1>4. Retimed(openFilesStatus', c)
  BY <1>1, <1>2, Retimes
<1>5. CASE IsWriter(c)
  <2>1. cache[c] \in Copies
    BY <1>2, <1>5 DEF Typed
  <2>2. [cache[c] EXCEPT !.mtime = t] \in Copies
    BY <2>1 DEF Copies
  <2>3. PICK v \in Copies : cache' = [cache EXCEPT ![c] = v]
    BY <1>1, <1>5, <2>2
  <2>4. PICK f \in Frames : Goto(c, "check", f) /\ f.op = "utimensat" /\ f.open = IsOpenHere(c)
    BY <1>1, <1>3, <1>5, NewFrame
  <2> QED  BY <1>1, <1>2, <1>3, <1>4, <1>5, <2>3, <2>4, WriterGoesOn
<1>6. CASE ~IsWriter(c)
  BY <1>1, <1>2, <1>3, <1>6, EndsAtOnce DEF EMFILE
<1> QED  BY <1>2, <1>5, <1>6

LEMMA RemountInv ==
    ASSUME ProtocolInv, NEW c \in Clients, Remount(c)
    PROVE  Served(c) /\ ClientInv'
<1>1. /\ ~Has(c) /\ Begins(c, "remount") /\ openFilesStatus' = Closed(c) /\ UNCHANGED <<cache, fi>>
      /\ Goto(c, "idle", [Blank EXCEPT !.op = "remount", !.ret = 0]) /\ "remount" \in Ops
  BY DEF Remount, Ends, Ops
<1>2. Served(c) /\ ClientInv /\ OthersKept(c) /\ waiting'[c] = NotWaiting /\ Typed(c)
  BY <1>1, CallBegins
<1>3. /\ SameBut(fi, fi', c) /\ SameBut(cache, cache', c) /\ SameBut(openFilesStatus, openFilesStatus', c)
      /\ ~Has(c)' /\ ~IsOpenHere(c)' /\ ~IsWriter(c)'
  BY <1>1, SameButs DEF Has, IsOpenHere, IsWriter, Closed
<1>4. Cached(c)' => cache'[c] \in Copies
  BY <1>1, <1>2 DEF Cached, Typed
<1>5. "remount" \in Ops \cup {"none"} /\ 0 \in Int
  BY <1>1
<1> QED  BY <1>1, <1>2, <1>3, <1>4, <1>5, Settles

-----------------------------------------------------------------------------
(* The invariant, and what follows from it. *)

\* Whatever a client does, the server is sent a call that it may be sent.
LEMMA CallInv ==
    ASSUME ProtocolInv, NEW c \in Clients, Call(c)
    PROVE  Served(c) /\ ClientInv'
BY GetattrInv, MknodInv, OpenInv, ReleaseInv, ReadInv, WriteInv, TruncateInv, FsyncInv,
   UtimensatInv, RemountInv DEF Call

LEMMA ContinueInv ==
    ASSUME ProtocolInv, NEW c \in Clients, Continue(c)
    PROVE  Served(c) /\ ClientInv'
BY CheckIntervalInv, CheckServerInv, ProbeInv, OpOpenInv, OpReleaseInv,
   MkProbeInv, MkNodeInv, MkUtimeInv,
   DlStatInv, DlOpenInv, DlLockInv, DlGrantedInv, DlReadInv, DlUnlockInv, DlReleaseInv,
   WbLockInv, WbGrantedInv, WbTruncInv, WbWriteInv, WbUtimeInv, WbUnlockInv DEF Continue

LEMMA ClientsUnchanged == ClientInv /\ UNCHANGED <<clientVars, waiting, fds>> => ClientInv'
<1> SUFFICES ASSUME ClientInv, UNCHANGED <<clientVars, waiting, fds>> PROVE ClientInv'
  OBVIOUS
<1>1. UNCHANGED <<cache, openFilesStatus, fi, pc, frame, waiting, fds>>
  BY DEF clientVars
<1>2. ASSUME NEW c \in Clients PROVE Typed(c)' /\ Backed(c)' /\ Placed(c)' /\ Kept(c)'
  <2>1. Typed(c) /\ Backed(c) /\ Placed(c) /\ Kept(c)
    BY DEF ClientInv
  <2>2. Typed(c)' /\ Backed(c)'
    BY <1>1, <2>1 DEF Typed, Backed, Backs, Cached, IsOpenHere, Has
  <2>3. Placed(c)'
    BY <1>1, <2>1 DEF Placed, CallPlaced, Cached
  <2>4. Kept(c)'
    BY <1>1, <2>1 DEF Kept, CallKept, Opened, IsWriter, Cached, IsOpenHere, Has
  <2> QED  BY <2>2, <2>3, <2>4
<1> QED  BY <1>1, <1>2 DEF ClientInv

LEMMA NextInv ==
    ASSUME ProtocolInv, [Next]_allVars
    PROVE  ProtocolInv'
<1>1. TableInv /\ FilesInv /\ ClientInv
  BY DEF ProtocolInv
<1>2. ASSUME NEW c \in Clients, Call(c) \/ Continue(c)
      PROVE  ProtocolInv'
  <2>1. Served(c) /\ ClientInv'
    BY <1>2, CallInv, ContinueInv
  <2> QED  BY <1>1, <2>1, ServedInv DEF ProtocolInv
<1>3. CASE Tick /\ UNCHANGED <<clientVars, calls, lost>>
  <2>1. UNCHANGED <<openFilesStatus_s, lk, waiting, fds>>
    BY <1>3 DEF Tick
  <2>2. TableInv'
    BY <1>1, <2>1, TableUnchanged DEF tableVars
  <2>3. FilesInv'
    BY <1>1, <1>3, TickFiles
  <2>4. ClientInv'
    BY <1>1, <1>3, <2>1, ClientsUnchanged
  <2> QED  BY <2>2, <2>3, <2>4 DEF ProtocolInv
<1>4. CASE UNCHANGED allVars
  <2>1. UNCHANGED serverVars /\ UNCHANGED clientVars
    BY <1>4 DEF allVars
  <2>2. TableInv' /\ FilesInv'
    BY <1>1, <2>1, TableUnchanged DEF serverVars, tableVars, FilesInv
  <2>3. ClientInv'
    BY <1>1, <2>1, ClientsUnchanged DEF serverVars
  <2> QED  BY <2>2, <2>3 DEF ProtocolInv
<1> QED  BY <1>2, <1>3, <1>4 DEF Next

LEMMA InitInv == Init => ProtocolInv
<1> SUFFICES ASSUME Init PROVE ProtocolInv
  OBVIOUS
<1>1. TableInv /\ FilesInv
  BY InitTable, InitFiles DEF Init
<1>2. /\ \A c \in Clients : pc[c] = "idle" /\ frame[c] = Blank /\ waiting[c] = NotWaiting
      /\ pc \in [Clients -> Labels] /\ frame \in [Clients -> Frames]
      /\ DOMAIN cache = {} /\ DOMAIN openFilesStatus = {} /\ DOMAIN fi = {}
      /\ \A c \in Clients : ~Cached(c) /\ ~IsOpenHere(c) /\ ~Has(c)
  <2>1. DOMAIN cache = {} /\ DOMAIN openFilesStatus = {} /\ DOMAIN fi = {}
    BY DEF Init
  <2>2. "idle" \in Labels /\ Blank \in Frames
    BY BlankFrames DEF Labels
  <2>3. /\ \A c \in Clients : pc[c] = "idle" /\ frame[c] = Blank /\ waiting[c] = NotWaiting
        /\ pc \in [Clients -> Labels] /\ frame \in [Clients -> Frames]
    BY <2>2 DEF Init, ServerInit
  <2> QED  BY <2>1, <2>3 DEF Cached, IsOpenHere, Has
<1>3. ASSUME NEW c \in Clients PROVE Typed(c) /\ Backed(c) /\ Placed(c) /\ Kept(c)
  <2>1. Blank.op = "none"
    BY DEF Blank
  <2>2. Typed(c) /\ Backed(c)
    BY <1>2 DEF Typed, Backed, FetchLabels
  <2>3. Placed(c)
    BY <1>2, <2>1 DEF Placed, CallPlaced, UploadLabels
  <2>4. Kept(c)
    BY <1>2 DEF Kept, CallKept, IsWriter, DownloadLabels
  <2> QED  BY <2>2, <2>3, <2>4
<1> QED  BY <1>1, <1>2, <1>3 DEF ProtocolInv, ClientInv

\* The server's table, the files and every client keep their invariants together,
\* through every interleaving of the clients' remote calls, answered or not.
THEOREM ProtocolInvariant == Spec => []ProtocolInv
<1>1. Init => ProtocolInv
  BY InitInv
<1>2. ProtocolInv /\ [Next]_allVars => ProtocolInv'
  BY NextInv
<1> QED  BY <1>1, <1>2, PTL DEF Spec

\* The variables of the clients hold what their declarations say.
THEOREM ClientTypeCorrect == Spec => []ClientTypeOK
<1>1. ProtocolInv => ClientTypeOK
  <2> SUFFICES ASSUME ProtocolInv PROVE ClientTypeOK
    OBVIOUS
  <2>1. ClientInv
    BY DEF ProtocolInv
  <2>2. \A c \in DOMAIN cache : cache[c].data \in Contents /\ cache[c].mtime \in Nat
    BY <2>1, CopyFields, ServerAssumption DEF ClientInv, Typed, Cached, Times
  <2>3. \A c \in DOMAIN openFilesStatus :
          openFilesStatus[c] \in [clientMode : OpenFlags, tc : Nat \cup {Epoch}, serverDesc : Handles]
    BY <2>1 DEF ClientInv, Typed, IsOpenHere, Metas
  <2>4. \A c \in DOMAIN fi : fi[c] \in [flag : OpenFlags, fh : Handles]
    BY <2>1 DEF ClientInv, Typed, Has, Handles
  <2>5. \A c \in Clients : frame[c].op \in Ops \cup {"none"}
    BY <2>1, FrameFields DEF ClientInv
  <2> QED  BY <2>1, <2>2, <2>3, <2>4, <2>5 DEF ClientTypeOK, ClientInv
<1> QED  BY <1>1, ProtocolInvariant, PTL

\* A descriptor that a client keeps for uploads, or that an application has, is
\* open on the server for it, whatever failed before (cli_open, cli_release and
\* cli_downloadFile).
THEOREM HandlesBackedHolds == Spec => []HandlesBacked
<1>1. ProtocolInv => HandlesBacked
  BY DEF ProtocolInv, ClientInv, Backed, Backs, HandlesBacked, IsOpenHere, Has
<1> QED  BY <1>1, ProtocolInvariant, PTL

\* What an application has open is in the map of its client, in its mode, and in
\* the cache, whenever no call is under way.
THEOREM OpenedHereHolds == Spec => []OpenedHere
<1>1. ProtocolInv => OpenedHere
  <2> SUFFICES ASSUME ProtocolInv, NEW c \in DOMAIN fi, pc[c] = "idle" PROVE Opened(c)
    BY DEF OpenedHere, Opened
  <2>1. Has(c) /\ c \in Clients
    BY DEF ProtocolInv, ClientInv, Has
  <2> QED  BY <2>1 DEF ProtocolInv, ClientInv, Kept, StillOpening
<1> QED  BY <1>1, ProtocolInvariant, PTL

\* What ServerSpec promises of the server is true of it among these clients, whose
\* calls have no bound: they never make a call that ServerSpec does not allow.
THEOREM ServerAmongClients ==
    Spec => [](ServerTypeOK /\ OneWriter /\ OpenNumCovers /\ NotOrphaned /\ LocksExclude)
<1>1. ProtocolInv => ServerTypeOK /\ OneWriter /\ OpenNumCovers /\ NotOrphaned /\ LocksExclude
  <2> SUFFICES ASSUME ProtocolInv
               PROVE  ServerTypeOK /\ OneWriter /\ OpenNumCovers /\ NotOrphaned /\ LocksExclude
    OBVIOUS
  <2>1. TableInv /\ FilesInv
    BY DEF ProtocolInv
  <2>2. ServerTypeOK
    BY <2>1, ServerAssumption, ContentsAreSeq DEF TableInv, FilesInv, ServerTypeOK, Times
  <2> QED  BY <2>1, <2>2 DEF TableInv
<1> QED  BY <1>1, ProtocolInvariant, PTL

-----------------------------------------------------------------------------
(* WatDFS implements the server among clients of any kind.  MaxCount bounds the
   counters of ServerSpec only, so it is so as long as they stay below it. *)

BelowMaxCount == \A p \in Paths : CountsBelowMax(p)

\* Each step of a client is one call of the server, or none, and it is a call that
\* ServerSpec allows: of a descriptor that the client has open, of contents that
\* fit, and no second call while one waits in watdfs_lock.
THEOREM ClientsImplementServer ==
    ASSUME RemoteCalls \subseteq Calls
    PROVE  Spec /\ []BelowMaxCount => ServerSpec
<1>1. Init => ServerInit
  BY DEF Init
<1>2. ProtocolInv /\ BelowMaxCount /\ [Next]_allVars => [ServerNext]_serverVars
  <2> SUFFICES ASSUME ProtocolInv, BelowMaxCount, [Next]_allVars PROVE [ServerNext]_serverVars
    OBVIOUS
  <2>1. ASSUME NEW c \in Clients, Call(c) \/ Continue(c) PROVE [ServerNext]_serverVars
    <3>1. Served(c) /\ TableTypeOK /\ FilesInv
      BY <2>1, CallInv, ContinueInv DEF ProtocolInv, TableInv
    <3>2. Handled(c) => ServerNext
      BY <3>1, HandledNext DEF BelowMaxCount
    <3> QED  BY <3>1, <3>2 DEF Served
  <2>2. CASE UNCHANGED allVars
    BY <2>2 DEF allVars
  <2> QED  BY <2>1, <2>2 DEF Next, ServerNext
<1> QED  BY <1>1, <1>2, ProtocolInvariant, PTL DEF Spec, ServerSpec
====================================================================================
