------------------------------- MODULE ContentsProofs -------------------------------
(***************************************************************************)
(* Proofs about what a transfer leaves behind: an upload has put the copy  *)
(* into the server's file before the client unlocks it (UploadPublishes),  *)
(* and a download has got the file's contents (DownloadMatches).           *)
(*                                                                         *)
(* A transfer is three calls, or five.  What one of them has made of the   *)
(* file is still so at the next one because nobody else uploads meanwhile  *)
(* (TransferExclusion), so these theorems are about the same applications. *)
(***************************************************************************)
EXTENDS ExclusionProofs

\* The descriptors of the server are open on the file, and on no other one.
OneFile == \A fd \in FD : fds[fd] = FreeFd \/ fds[fd].path = File

\* What the directory has of the file is its contents and its time.
FileRecord ==
    File \in DOMAIN files => files[File] = [data |-> files[File].data, mtime |-> files[File].mtime]

\* What an upload has done so far: it took the copy, emptied the file, wrote the
\* copy to it if it has a descriptor for that, and set the time.
Sent(c) ==
    /\ Uploading(c) => frame[c].st.size = Len(frame[c].buf)
    /\ pc[c] \in {"wb_write", "wb_utime", "wb_unlock"} => File \in DOMAIN files
    /\ pc[c] = "wb_write" => files[File].data = <<>>
    /\ pc[c] \in {"wb_utime", "wb_unlock"} /\ (frame[c].fh \in FD \/ frame[c].buf = <<>>) =>
         files[File].data = frame[c].buf
    /\ pc[c] = "wb_unlock" => files[File].mtime = frame[c].st.mtime

\* What a download has got, if its descriptor is one.
Received(c) ==
    pc[c] = "dl_unlock" /\ frame[c].fh \in FD =>
        /\ File \in DOMAIN files
        /\ frame[c].st.size = Len(files[File].data) => cache[c].data = files[File].data

ContentsInv ==
    /\ OneFile /\ FileRecord
    /\ \A c \in Clients : Sent(c) /\ Received(c)

-----------------------------------------------------------------------------
(* What the calls do to the files and to the descriptors *)

\* A call that changes no file, and opens no other one.
Harmless == UNCHANGED files /\ OneFile'

LEMMA ServerHarmless == OneFile /\ UNCHANGED serverVars => Harmless
BY DEF Harmless, OneFile, serverVars

LEMMA FdsHarmless == OneFile /\ UNCHANGED <<files, fds>> => Harmless
BY DEF Harmless, OneFile

LEMMA OpenedFile ==
    ASSUME OneFile, TableTypeOK, NEW fd \in FD, NEW v, v.path = File,
           fds' = [fds EXCEPT ![fd] = v]
    PROVE  OneFile'
BY DEF OneFile, TableTypeOK

LEMMA HarmlessCalls ==
    ASSUME OneFile, TableTypeOK, NEW c \in Clients, NEW ret
    PROVE  /\ \A st : copy_getattr(c, ret, st) => Harmless
           /\ \A flag, fh : copy_open(c, flag, ret, fh) => Harmless
           /\ \A flag, fh : copy_release(c, flag, fh, ret) => Harmless
           /\ \A fh, n, data : copy_read(c, fh, n, ret, data) => Harmless
           /\ \A m : LockSent(c, m) => Harmless
           /\ \A m : LockFailed(c, m, ret) => Harmless
           /\ LockReturned(c, ret) => Harmless
           /\ \A m : watdfs_cli_unlock(c, m, ret) => Harmless
<1>1. ASSUME NEW st, copy_getattr(c, ret, st) PROVE Harmless
  BY <1>1, ServerHarmless, FdsHarmless DEF copy_getattr, Unanswered, watdfs_getattr
<1>2. ASSUME NEW flag, NEW fh, copy_open(c, flag, ret, fh) PROVE Harmless
  <2>1. CASE UNCHANGED serverVars
    BY <2>1, ServerHarmless
  <2>2. ASSUME NEW r, NEW h, watdfs_open(c, File, flag, r, h) PROVE Harmless
    <3>1. UNCHANGED files
      BY <2>2 DEF watdfs_open
    <3>2. CASE UNCHANGED fds
      BY <3>1, <3>2, FdsHarmless
    <3>3. CASE h \in FreeFds /\ fds' = [fds EXCEPT ![h] = [owner |-> c, path |-> File, flag |-> flag]]
      <4>1. h \in FD
        BY <3>3 DEF FreeFds
      <4>2. PICK v : v.path = File /\ fds' = [fds EXCEPT ![h] = v]
        BY <3>3
      <4> QED  BY <3>1, <4>1, <4>2, OpenedFile DEF Harmless
    <3> QED  BY <2>2, <3>2, <3>3 DEF watdfs_open, OpenFile
  <2> QED  BY <1>2, <2>1, <2>2 DEF copy_open, Unanswered
<1>3. ASSUME NEW flag, NEW fh, copy_release(c, flag, fh, ret) PROVE Harmless
  <2>1. CASE UNCHANGED serverVars
    BY <2>1, ServerHarmless
  <2>2. ASSUME NEW r, watdfs_release(c, File, flag, fh, r) PROVE Harmless
    <3>1. UNCHANGED files /\ (UNCHANGED fds \/ fds' = [fds EXCEPT ![fh] = FreeFd])
      BY <2>2 DEF watdfs_release
    <3> QED  BY <3>1 DEF Harmless, OneFile, TableTypeOK
  <2> QED  BY <1>3, <2>1, <2>2 DEF copy_release, Unanswered
<1>4. ASSUME NEW fh, NEW n, NEW data, copy_read(c, fh, n, ret, data) PROVE Harmless
  BY <1>4, ServerHarmless, FdsHarmless DEF copy_read, Unanswered, watdfs_read
<1>5. ASSUME NEW m, LockSent(c, m) PROVE Harmless
  BY <1>5, FdsHarmless DEF LockSent, watdfs_lock_enters
<1>6. ASSUME NEW m, LockFailed(c, m, ret) PROVE Harmless
  BY <1>6, ServerHarmless, FdsHarmless DEF LockFailed, Unanswered, watdfs_lock_fails
<1>7. ASSUME LockReturned(c, ret) PROVE Harmless
  BY <1>7, FdsHarmless DEF LockReturned, watdfs_lock_granted
<1>8. ASSUME NEW m, watdfs_cli_unlock(c, m, ret) PROVE Harmless
  BY <1>8, ServerHarmless, FdsHarmless DEF watdfs_cli_unlock, Unanswered, watdfs_unlock
<1> QED  BY <1>1, <1>2, <1>3, <1>4, <1>5, <1>6, <1>7, <1>8

\* What is written over nothing, and what is cut to nothing.
LEMMA Rewritten ==
    /\ \A data \in Contents : Overlaid(<<>>, data) = data
    /\ \A data : Resized(data, 0) = <<>>
    /\ \A data \in Seq(Data) : FirstBytes(data, Len(data)) = data
<1>1. ASSUME NEW data \in Contents PROVE Overlaid(<<>>, data) = data
  <2>1. data \in Seq(Data) /\ Len(data) \in Nat /\ Len(<<>>) = 0
    BY ContentsLength, LenProperties, EmptySeq
  <2>2. SubSeq(<<>>, Len(data) + 1, Len(<<>>)) = <<>>
    BY <2>1, SubSeqEmpty
  <2> QED  BY <2>1, <2>2, ConcatEmptySeq DEF Overlaid
<1>2. ASSUME NEW data PROVE Resized(data, 0) = <<>>
  <2>1. 1..0 = {}
    OBVIOUS
  <2> QED  BY <2>1 DEF Resized
<1>3. ASSUME NEW data \in Seq(Data) PROVE FirstBytes(data, Len(data)) = data
  <2>1. Len(data) \in Nat
    BY LenProperties
  <2>2. (IF Len(data) < Len(data) THEN Len(data) ELSE Len(data)) = Len(data)
    OBVIOUS
  <2> QED  BY <2>2, SubSeqFull DEF FirstBytes
<1> QED  BY <1>1, <1>2, <1>3

\* A change of the file that is answered has been made.
LEMMA FileChanged ==
    ASSUME OneFile, FileRecord, TableTypeOK, NEW c \in Clients, NEW ret
    PROVE  /\ copy_truncate(c, 0, ret) =>
                /\ OneFile' /\ FileRecord'
                /\ ret >= 0 => /\ File \in DOMAIN files'
                               /\ files'[File].data = <<>>
           /\ \A fh \in Handles, data \in Contents :
                copy_write(c, fh, data, ret) =>
                  /\ OneFile' /\ FileRecord'
                  /\ DOMAIN files' = DOMAIN files
                  /\ ret >= 0 /\ fh \notin FD => UNCHANGED files
                  /\ ret >= 0 /\ File \in DOMAIN files /\ files[File].data = <<>> /\ fh \in FD =>
                       files'[File].data = data
           /\ \A t : copy_utimensat(c, t, ret) =>
                /\ OneFile' /\ FileRecord'
                /\ ret >= 0 => /\ File \in DOMAIN files /\ DOMAIN files' = DOMAIN files
                               /\ files'[File].data = files[File].data
                               /\ files'[File].mtime = t
<1>1. ~(-EINVAL >= 0) /\ \A e \in Errnos : ~(-e >= 0)
  BY DEF EINVAL, Errnos, EPERM, ENOENT, EBADF, EACCES, EEXIST, EMFILE, ESPIPE
<1>2. {ENOENT, EBADF, ESPIPE, EMFILE} \subseteq Errnos
  BY DEF Errnos
<1>3. ASSUME copy_truncate(c, 0, ret)
      PROVE  /\ OneFile' /\ FileRecord'
             /\ ret >= 0 => /\ File \in DOMAIN files'
                            /\ files'[File].data = <<>>
  <2>1. OneFile' /\ FileRecord'
    <3>1. UNCHANGED files \/ (File \in DOMAIN files /\ files' = [files EXCEPT ![File] = Truncated(@, 0)])
      BY <1>3 DEF copy_truncate, Unanswered, serverVars, watdfs_truncate
    <3>2. FileRecord'
      BY <3>1 DEF FileRecord, Truncated
    <3> QED  BY <1>3, <3>2 DEF copy_truncate, Unanswered, serverVars, watdfs_truncate, OneFile
  <2>2. ASSUME ret >= 0
        PROVE  /\ File \in DOMAIN files'
               /\ files'[File].data = <<>>
    <3>1. File \in DOMAIN files /\ files' = [files EXCEPT ![File] = Truncated(@, 0)]
      BY <1>1, <1>2, <1>3, <2>2 DEF copy_truncate, Unanswered, AnswerLost, watdfs_truncate
    <3>2. Truncated(files[File], 0).data = <<>>
      BY Rewritten DEF Truncated
    <3> QED  BY <3>1, <3>2
  <2> QED  BY <2>1, <2>2
<1>4. ASSUME NEW fh \in Handles, NEW data \in Contents, copy_write(c, fh, data, ret)
      PROVE  /\ OneFile' /\ FileRecord'
             /\ DOMAIN files' = DOMAIN files
             /\ ret >= 0 /\ fh \notin FD => UNCHANGED files
             /\ ret >= 0 /\ File \in DOMAIN files /\ files[File].data = <<>> /\ fh \in FD =>
                  files'[File].data = data
  <2>1. OneFile' /\ FileRecord' /\ DOMAIN files' = DOMAIN files
    <3>1. \/ UNCHANGED files
          \/ \E p : files' = [files EXCEPT ![p] = [data |-> Overlaid(@.data, data), mtime |-> now]]
      BY <1>4 DEF copy_write, Unanswered, serverVars, watdfs_write
    <3>2. FileRecord'
      BY <3>1 DEF FileRecord
    <3> QED  BY <1>4, <3>1, <3>2 DEF copy_write, Unanswered, serverVars, watdfs_write, OneFile
  <2>2. ret >= 0 => watdfs_write(c, fh, data, ret)
    BY <1>1, <1>4 DEF copy_write, Unanswered, AnswerLost
  <2>3. ret >= 0 /\ fh \notin FD => UNCHANGED files
    BY <2>2 DEF watdfs_write, IsOpen
  <2>4. ASSUME ret >= 0, File \in DOMAIN files, files[File].data = <<>>, fh \in FD
        PROVE  files'[File].data = data
    <3>1. fh # StdIn
      BY <2>4, NamesAssumption
    <3>2. IsOpen(fh)
      BY <1>1, <1>2, <2>2, <2>4, <3>1 DEF watdfs_write
    <3>3. fds[fh].path = File
      <4>1. FreeFd.owner = Nobody
        BY DEF FreeFd
      <4> QED  BY <2>4, <3>2, <4>1 DEF IsOpen, OneFile
    <3>4. files' = [files EXCEPT ![File] = [data |-> Overlaid(@.data, data), mtime |-> now]]
      BY <1>1, <1>2, <2>2, <2>4, <3>1, <3>3 DEF watdfs_write
    <3>5. files'[File].data = Overlaid(<<>>, data)
      BY <2>4, <3>4
    <3> QED  BY <3>5, Rewritten
  <2> QED  BY <2>1, <2>3, <2>4
<1>5. ASSUME NEW t, copy_utimensat(c, t, ret)
      PROVE  /\ OneFile' /\ FileRecord'
             /\ ret >= 0 => /\ File \in DOMAIN files /\ DOMAIN files' = DOMAIN files
                            /\ files'[File].data = files[File].data
                            /\ files'[File].mtime = t
  <2>0. FileRecord'
    <3>1. UNCHANGED files \/ (File \in DOMAIN files /\ files' = [files EXCEPT ![File].mtime = t])
      BY <1>5 DEF copy_utimensat, Unanswered, serverVars, watdfs_utimensat
    <3> QED  BY <3>1 DEF FileRecord
  <2>1. OneFile'
    <3>1. CASE UNCHANGED serverVars
      BY <3>1, ServerHarmless DEF Harmless
    <3>2. ASSUME NEW r, watdfs_utimensat(c, File, t, r) PROVE OneFile'
      <4>1. CASE UNCHANGED fds
        BY <4>1 DEF OneFile
      <4>2. ASSUME NEW fd \in FreeFds, fds' = [fds EXCEPT ![fd] = [owner |-> Leaked, path |-> File, flag |-> O_RDWR]]
            PROVE  OneFile'
        <5>1. PICK v : v.path = File /\ fds' = [fds EXCEPT ![fd] = v]
          BY <4>2
        <5> QED  BY <5>1, OpenedFile DEF FreeFds
      <4> QED  BY <3>2, <4>1, <4>2 DEF watdfs_utimensat
    <3> QED  BY <1>5, <3>1, <3>2 DEF copy_utimensat, Unanswered
  <2>2. ASSUME ret >= 0
        PROVE  /\ File \in DOMAIN files /\ DOMAIN files' = DOMAIN files
               /\ files'[File].data = files[File].data
               /\ files'[File].mtime = t
    <3>1. watdfs_utimensat(c, File, t, ret)
      BY <1>1, <1>5, <2>2 DEF copy_utimensat, Unanswered, AnswerLost
    <3>2. File \in DOMAIN files /\ files' = [files EXCEPT ![File].mtime = t]
      BY <1>1, <1>2, <2>2, <3>1 DEF watdfs_utimensat
    <3> QED  BY <3>2 DEF FileRecord
  <2> QED  BY <2>0, <2>1, <2>2
<1> QED  BY <1>3, <1>4, <1>5

-----------------------------------------------------------------------------
(* Whose step it is *)

Sending == {"wb_trunc", "wb_write", "wb_utime", "wb_unlock", "dl_unlock"}

\* The step is c's: nobody else's call, or copy, is touched.
OnlyBy(c) ==
    /\ \A d \in Clients \ {c} : pc'[d] = pc[d] /\ frame'[d] = frame[d]
    /\ SameBut(cache, cache', c)

\* And c does not end it in a transfer.
LeavesOff(c) ==
    /\ \E label \in Labels \ Sending : \E f : Goto(c, label, f)
    /\ SameBut(cache, cache', c)

LEMMA GoesOnlyBy ==
    ASSUME ClientInv, NEW c \in Clients, NEW label, NEW f, Goto(c, label, f), SameBut(cache, cache', c)
    PROVE  OnlyBy(c) /\ pc'[c] = label /\ frame'[c] = f
BY DEF ClientInv, Goto, OnlyBy

\* What the others have sent or received is there, unless it is an upload.
LEMMA OthersSent ==
    ASSUME ProtocolInv, ContentsInv, NEW c \in Clients, OnlyBy(c),
           UNCHANGED files \/ (Uploading(c) /\ TransferExclusion)
    PROVE  \A d \in Clients \ {c} : Sent(d)' /\ Received(d)'
<1> SUFFICES ASSUME NEW d \in Clients \ {c} PROVE Sent(d)' /\ Received(d)'
  OBVIOUS
<1>1. pc'[d] = pc[d] /\ frame'[d] = frame[d] /\ Sent(d) /\ Received(d)
  BY DEF OnlyBy, ContentsInv
<1>2. pc[d] = "dl_unlock" => cache'[d] = cache[d]
  <2>1. Placed(d)
    BY Known
  <2> QED  BY <2>1 DEF Placed, CallPlaced, Cached, OnlyBy, SameBut
<1>3. CASE UNCHANGED files
  BY <1>1, <1>2, <1>3 DEF Sent, Received, Uploading
<1>4. CASE Uploading(c) /\ TransferExclusion
  <2>1. ~Uploading(d) /\ ~Downloading(d)
    BY <1>4 DEF TransferExclusion
  <2> QED  BY <1>1, <2>1 DEF Sent, Received, Uploading, Downloading
<1> QED  BY <1>3, <1>4

\* A step after which c is in no transfer.
LEMMA LeavesContents ==
    ASSUME ProtocolInv, ContentsInv, NEW c \in Clients, LeavesOff(c), OneFile', FileRecord',
           UNCHANGED files \/ (Uploading(c) /\ TransferExclusion)
    PROVE  ContentsInv'
<1>1. OnlyBy(c) /\ pc'[c] \notin Sending
  BY GoesOnlyBy DEF LeavesOff, ProtocolInv
<1>2. Sent(c)' /\ Received(c)'
  BY <1>1 DEF Sent, Received, Uploading, Sending
<1> QED  BY <1>1, <1>2, OthersSent DEF ContentsInv

LEMMA HarmlessContents ==
    ASSUME ProtocolInv, ContentsInv, NEW c \in Clients, LeavesOff(c), Harmless
    PROVE  ContentsInv'
BY LeavesContents DEF Harmless, ContentsInv, FileRecord

LEMMA IdleLabels == {"idle", "probe", "check", "op_open", "op_release", "mk_probe", "mk_node", "mk_utime", "dl_stat",
                     "dl_open", "dl_lock", "dl_wait", "dl_read", "dl_release", "wb_lock", "wb_wait"}
                      \subseteq Labels \ Sending
BY DEF Labels, Sending

LEMMA EndsLeave ==
    ASSUME NEW c \in Clients, NEW ret
    PROVE  /\ Return(c, ret) /\ UNCHANGED cache => LeavesOff(c)
           /\ DownloadFailed(c, ret) => LeavesOff(c)
           /\ WriteBackDone(c, ret) => LeavesOff(c)
           /\ EmptyCache(c) => LeavesOff(c)
           /\ Downloaded(c) => LeavesOff(c)
           /\ \A m : WhenFresh(c, m) \/ WhenStale(c, m) => LeavesOff(c)
<1>1. Return(c, ret) /\ UNCHANGED cache => LeavesOff(c)
  BY IdleLabels, SameButs DEF Return, LeavesOff
<1>2. \A r : Return(c, r) /\ UNCHANGED cache => LeavesOff(c)
  BY IdleLabels, SameButs DEF Return, LeavesOff
<1>3. DownloadFailed(c, ret) => LeavesOff(c)
  BY <1>1 DEF DownloadFailed
<1>4. WriteBackDone(c, ret) => LeavesOff(c)
  BY <1>1, IdleLabels, SameButs DEF WriteBackDone, Step, LeavesOff
<1>5. EmptyCache(c) => LeavesOff(c)
  <2> SUFFICES ASSUME EmptyCache(c) PROVE LeavesOff(c)
    OBVIOUS
  <2>1. PICK v : cache' = Put(cache, c, v)
    BY DEF EmptyCache
  <2>2. SameBut(cache, cache', c)
    BY <2>1 DEF SameBut, Put
  <2> QED  BY <2>2, IdleLabels DEF EmptyCache, Step, LeavesOff
<1>6. Downloaded(c) => LeavesOff(c)
  <2> SUFFICES ASSUME Downloaded(c) PROVE LeavesOff(c)
    OBVIOUS
  <2>1. SameBut(cache, cache', c)
    BY SameButs DEF Downloaded
  <2>2. \E label \in {"idle", "check"} : \E f : Goto(c, label, f)
    BY DEF Downloaded, Return, Step
  <2> QED  BY <2>1, <2>2, IdleLabels DEF LeavesOff
<1>7. ASSUME NEW m, WhenFresh(c, m) \/ WhenStale(c, m) PROVE LeavesOff(c)
  BY <1>2, <1>7, IdleLabels, SameButs DEF WhenFresh, WhenStale, Step, LeavesOff
<1> QED  BY <1>1, <1>3, <1>4, <1>5, <1>6, <1>7

-----------------------------------------------------------------------------
(* The actions that change no file *)

\* A call begins with local work.
LEMMA CallContents ==
    ASSUME ProtocolInv, ContentsInv, NEW c \in Clients, Call(c)
    PROVE  ContentsInv'
<1>1. UNCHANGED serverVars
  BY DEF Call, Begins, watdfs_cli_getattr, watdfs_cli_mknod, watdfs_cli_open, watdfs_cli_release,
         watdfs_cli_read, watdfs_cli_write, watdfs_cli_truncate, watdfs_cli_fsync,
         watdfs_cli_utimensat, Remount
<1>2. Harmless
  BY <1>1, ServerHarmless DEF ContentsInv
<1>3. SameBut(cache, cache', c)
  <2>1. UNCHANGED cache \/ \E v : cache' = [cache EXCEPT ![c] = v]
    BY DEF Call, LocalUnchanged, watdfs_cli_getattr, watdfs_cli_mknod, watdfs_cli_open,
           watdfs_cli_release, watdfs_cli_read, watdfs_cli_write, watdfs_cli_truncate,
           watdfs_cli_fsync, watdfs_cli_utimensat, Remount
  <2>2. ASSUME NEW v, cache' = [cache EXCEPT ![c] = v] PROVE SameBut(cache, cache', c)
    BY <2>2, SameButs
  <2> QED  BY <2>1, <2>2, SameButs
<1>4. \E label \in {"idle", "probe", "op_open", "op_release", "mk_probe", "check", "dl_stat", "wb_lock"} :
        \E f : Goto(c, label, f)
  <2>1. (watdfs_cli_getattr(c) \/ watdfs_cli_open(c)) \/ (watdfs_cli_release(c) \/ watdfs_cli_mknod(c)) =>
          \E label \in {"probe", "op_open", "op_release", "mk_probe", "check", "wb_lock", "idle"} :
            \E f : Goto(c, label, f)
    BY DEF watdfs_cli_getattr, watdfs_cli_open, watdfs_cli_release, watdfs_cli_mknod, Ends
  <2>2. (watdfs_cli_read(c) \/ watdfs_cli_write(c)) \/ watdfs_cli_utimensat(c) =>
          \E label \in {"check", "idle"} : \E f : Goto(c, label, f)
    BY DEF watdfs_cli_read, watdfs_cli_write, watdfs_cli_utimensat, Ends
  <2>3. watdfs_cli_truncate(c) => \E label \in {"check", "dl_stat", "idle"} : \E f : Goto(c, label, f)
    BY DEF watdfs_cli_truncate, Ends
  <2>4. watdfs_cli_fsync(c) \/ Remount(c) => \E label \in {"wb_lock", "idle"} : \E f : Goto(c, label, f)
    BY DEF watdfs_cli_fsync, Remount, Ends
  <2> QED  BY <2>1, <2>2, <2>3, <2>4 DEF Call
<1>5. LeavesOff(c)
  BY <1>3, <1>4, IdleLabels DEF LeavesOff
<1> QED  BY <1>2, <1>5, HarmlessContents

LEMMA GoesOff ==
    ASSUME NEW c \in Clients, NEW label \in Labels \ Sending, UNCHANGED cache
    PROVE  /\ \A f : Goto(c, label, f) => LeavesOff(c)
           /\ Step(c, label) => LeavesOff(c)
BY SameButs DEF LeavesOff, Step

\* A step that asks, opens, closes, locks or unlocks, and after which the client is
\* in no transfer.
LEMMA PlainSteps ==
    ASSUME ProtocolInv, ContentsInv, NEW c \in Clients,
           \/ CheckInterval(c) \/ CheckServer(c) \/ Probe(c) \/ OpOpen(c) \/ OpRelease(c)
           \/ DlStat(c) \/ DlOpen(c) \/ DlLock(c) \/ DlGranted(c) \/ DlUnlock(c) \/ DlRelease(c)
           \/ WbUnlock(c)
    PROVE  LeavesOff(c) /\ Harmless
<1> USE DEF LocalUnchanged
<1>0. OneFile /\ TableTypeOK
  BY Known DEF ContentsInv
<1>1. ASSUME CheckInterval(c) PROVE LeavesOff(c) /\ Harmless
  BY <1>0, <1>1, EndsLeave, ServerHarmless DEF CheckInterval
<1>2. ASSUME CheckServer(c) PROVE LeavesOff(c) /\ Harmless
  BY <1>0, <1>2, EndsLeave, HarmlessCalls DEF CheckServer
<1>3. ASSUME Probe(c) PROVE LeavesOff(c) /\ Harmless
  BY <1>0, <1>3, EndsLeave, GoesOff, IdleLabels, HarmlessCalls DEF Probe
<1>4. ASSUME OpOpen(c) PROVE LeavesOff(c) /\ Harmless
  <2>1. Harmless
    BY <1>0, <1>4, HarmlessCalls DEF OpOpen
  <2>2. \/ \E ret : Return(c, ret)
        \/ \E label \in {"check", "dl_stat"} : Step(c, label)
    BY <1>4 DEF OpOpen
  <2> QED  BY <1>4, <2>1, <2>2, EndsLeave, GoesOff, IdleLabels DEF OpOpen
<1>5. ASSUME OpRelease(c) PROVE LeavesOff(c) /\ Harmless
  BY <1>0, <1>5, EndsLeave, HarmlessCalls DEF OpRelease
<1>6. ASSUME DlStat(c) PROVE LeavesOff(c) /\ Harmless
  BY <1>0, <1>6, EndsLeave, GoesOff, IdleLabels, HarmlessCalls DEF DlStat
<1>7. ASSUME DlOpen(c) PROVE LeavesOff(c) /\ Harmless
  BY <1>0, <1>7, EndsLeave, GoesOff, IdleLabels, HarmlessCalls DEF DlOpen
<1>8. ASSUME DlLock(c) PROVE LeavesOff(c) /\ Harmless
  BY <1>0, <1>8, EndsLeave, GoesOff, IdleLabels, HarmlessCalls DEF DlLock
<1>9. ASSUME DlGranted(c) PROVE LeavesOff(c) /\ Harmless
  BY <1>0, <1>9, EndsLeave, HarmlessCalls DEF DlGranted
<1>10. ASSUME DlUnlock(c) PROVE LeavesOff(c) /\ Harmless
  BY <1>0, <1>10, EndsLeave, GoesOff, IdleLabels, HarmlessCalls DEF DlUnlock
<1>11. ASSUME DlRelease(c) PROVE LeavesOff(c) /\ Harmless
  BY <1>0, <1>11, EndsLeave, HarmlessCalls DEF DlRelease
<1>12. ASSUME WbUnlock(c) PROVE LeavesOff(c) /\ Harmless
  BY <1>0, <1>12, EndsLeave, HarmlessCalls DEF WbUnlock
<1> QED  BY <1>1, <1>2, <1>3, <1>4, <1>5, <1>6, <1>7, <1>8, <1>9, <1>10, <1>11, <1>12

\* A lock is got, and the copy read.
LEMMA TakenContents ==
    ASSUME ProtocolInv, ContentsInv, NEW c \in Clients, WbLock(c) \/ WbGranted(c)
    PROVE  ContentsInv'
<1>1. pc[c] \in {"wb_lock", "wb_wait"} /\ pc[c] \in UploadLabels
  BY DEF WbLock, WbGranted, UploadLabels
<1>2. /\ OneFile /\ TableTypeOK /\ ClientInv /\ frame[c] \in Frames /\ cache[c] \in Copies
  BY <1>1, Known DEF ContentsInv, Placed, CallPlaced, Typed
<1>3. Harmless
  BY <1>2, HarmlessCalls DEF WbLock, WbGranted
<1>4. \/ \E ret : WriteBackDone(c, ret)
      \/ Step(c, "wb_wait") /\ LocalUnchanged
      \/ TakeCopy(c)
  BY DEF WbLock, WbGranted
<1>5. CASE \E ret : WriteBackDone(c, ret)
  BY <1>3, <1>5, EndsLeave, HarmlessContents
<1>6. CASE Step(c, "wb_wait") /\ LocalUnchanged
  BY <1>3, <1>6, GoesOff, IdleLabels, HarmlessContents DEF LocalUnchanged
<1>7. CASE TakeCopy(c)
  <2>1. PICK data \in Contents, st \in Stats :
          data = cache[c].data /\ st = StatOf(cache[c]) /\ st.size = Len(data)
    BY <1>2, CopyFields DEF StatOf
  <2>0. PICK e \in Frames : e = frame[c]
    BY <1>2
  <2> DEFINE f == [e EXCEPT !.buf = data, !.st = st]
  <2>2. f.buf = data /\ f.st = st /\ Goto(c, "wb_trunc", f)
    BY <1>7, <2>0, <2>1 DEF TakeCopy, Frames
  <2> HIDE DEF f
  <2>3. OnlyBy(c) /\ pc'[c] = "wb_trunc" /\ frame'[c] = f
    BY <1>2, <1>7, <2>1, <2>2, GoesOnlyBy, SameButs DEF TakeCopy, LocalUnchanged
  <2>4. Sent(c)' /\ Received(c)'
    BY <2>1, <2>2, <2>3 DEF Sent, Received
  <2>5. FileRecord'
    BY <1>3 DEF Harmless, ContentsInv, FileRecord
  <2> QED  BY <1>3, <2>3, <2>4, <2>5, OthersSent DEF Harmless, ContentsInv
<1> QED  BY <1>4, <1>5, <1>6, <1>7

-----------------------------------------------------------------------------
(* The actions of a transfer *)

\* The file is read: what was read is all of it, if it has the size of the stat.
LEMMA DlReadContents ==
    ASSUME ProtocolInv, ContentsInv, NEW c \in Clients, DlRead(c)
    PROVE  ContentsInv'
<1>1. pc[c] = "dl_read" /\ pc[c] \in FetchLabels
  BY DEF DlRead, FetchLabels
<1>2. /\ OneFile /\ TableTypeOK /\ ClientInv /\ FilesInv /\ frame[c] \in Frames /\ Backed(c)
      /\ frame[c].st.size \in 0..MaxLen
  BY <1>1, Known, FrameFields DEF ContentsInv, Stats
<1>3. PICK ret \in Answers, data \in Contents :
        /\ copy_read(c, frame[c].fh, frame[c].st.size, ret, data)
        /\ \/ DownloadFailed(c, ret)
           \/ /\ ret >= 0
              /\ \E garbage \in [1..(frame[c].st.size - Len(data)) -> Data] :
                   cache' = Put(cache, c, [data |-> data \o garbage, mtime |-> DownloadTime(c)])
              /\ Step(c, "dl_unlock")
  BY DEF DlRead
<1>4. Harmless /\ FileRecord'
  BY <1>2, <1>3, HarmlessCalls DEF Harmless, ContentsInv, FileRecord
<1>5. CASE DownloadFailed(c, ret)
  BY <1>4, <1>5, EndsLeave, HarmlessContents
<1>6. ASSUME ret >= 0, Step(c, "dl_unlock"),
             NEW garbage \in [1..(frame[c].st.size - Len(data)) -> Data],
             cache' = Put(cache, c, [data |-> data \o garbage, mtime |-> DownloadTime(c)])
      PROVE  ContentsInv'
  <2>1. PICK v : cache' = Put(cache, c, v) /\ v.data = data \o garbage
    BY <1>6
  <2>2. SameBut(cache, cache', c) /\ cache'[c].data = data \o garbage
    BY <2>1 DEF SameBut, Put
  <2>3. OnlyBy(c) /\ pc'[c] = "dl_unlock" /\ frame'[c] = frame[c]
    BY <1>2, <1>6, <2>2, GoesOnlyBy DEF Step
  <2>4. ASSUME frame[c].fh \in FD
        PROVE  /\ File \in DOMAIN files
               /\ frame[c].st.size = Len(files[File].data) => data \o garbage = files[File].data
    <3>1. IsOpen(frame[c].fh) /\ fds[frame[c].fh].path = File
      BY <1>1, <1>2, <2>4, NamesAssumption DEF Backed, Backs, IsOpen
    <3>2. File \in DOMAIN files /\ files[File].data \in Seq(Data)
      BY <1>2, <2>4, <3>1, ContentsAreSeq DEF FilesInv, IsOpen, FreeFd
    <3>3. data = FirstBytes(files[File].data, frame[c].st.size)
      <4>1. ret # -EINVAL
        BY <1>6 DEF EINVAL
      <4> QED  BY <1>3, <3>1, <4>1 DEF copy_read, Unanswered, AnswerLost, watdfs_read
    <3>4. ASSUME frame[c].st.size = Len(files[File].data)
          PROVE  data \o garbage = files[File].data
      <4>1. files[File].data \in Seq(Data) /\ Len(files[File].data) \in Nat
        BY <3>2, LenProperties
      <4>2. data = files[File].data
        BY <3>3, <3>4, <4>1, Rewritten
      <4>3. garbage \in [1..0 -> Data]
        BY <3>4, <4>1, <4>2
      <4>4. garbage = <<>>
        BY <4>3
      <4> QED  BY <4>1, <4>2, <4>4, ConcatEmptySeq
    <3> QED  BY <3>2, <3>4
  <2>5. Sent(c)' /\ Received(c)'
    BY <1>4, <2>2, <2>3, <2>4 DEF Sent, Received, Uploading, Harmless
  <2> QED  BY <1>4, <2>3, <2>5, OthersSent DEF Harmless, ContentsInv
<1> QED  BY <1>3, <1>5, <1>6

\* The server's file is emptied.
LEMMA WbTruncContents ==
    ASSUME ProtocolInv, TransferExclusion, ContentsInv, NEW c \in Clients, WbTrunc(c)
    PROVE  ContentsInv'
<1>1. pc[c] = "wb_trunc" /\ Uploading(c)
  BY DEF WbTrunc, Uploading
<1>2. /\ OneFile /\ FileRecord /\ TableTypeOK /\ ClientInv /\ frame[c] \in Frames
      /\ frame[c].st.size = Len(frame[c].buf) /\ frame[c].buf \in Contents
  BY <1>1, Known, FrameFields DEF ContentsInv, Sent
<1>3. PICK f \in Frames : f = frame[c]
  BY <1>2
<1>4. PICK ret \in Answers :
        /\ copy_truncate(c, 0, ret)
        /\ \/ WriteBackDone(c, ret)
           \/ /\ ret >= 0 /\ UNCHANGED cache
              /\ Goto(c, IF f.st.size > 0 THEN "wb_write" ELSE "wb_utime",
                      [f EXCEPT !.fh = MetaTouched(c)[c].serverDesc])
  BY <1>3 DEF WbTrunc
<1>5. /\ OneFile' /\ FileRecord'
      /\ ret >= 0 => File \in DOMAIN files' /\ files'[File].data = <<>>
  BY <1>2, <1>4, FileChanged
<1>6. CASE WriteBackDone(c, ret)
  BY <1>1, <1>5, <1>6, EndsLeave, LeavesContents
<1>7. CASE /\ ret >= 0 /\ UNCHANGED cache
           /\ Goto(c, IF f.st.size > 0 THEN "wb_write" ELSE "wb_utime",
                   [f EXCEPT !.fh = MetaTouched(c)[c].serverDesc])
  <2>0. PICK h : h = MetaTouched(c)[c].serverDesc
    OBVIOUS
  <2> DEFINE g == [f EXCEPT !.fh = h]
  <2>1. g = [f EXCEPT !.fh = MetaTouched(c)[c].serverDesc] /\ g.st = f.st /\ g.buf = f.buf
    BY <2>0 DEF Frames
  <2> HIDE DEF g
  <2>2. PICK label \in {"wb_write", "wb_utime"} :
          Goto(c, label, g) /\ (label = "wb_utime" => ~(f.st.size > 0))
    BY <1>7, <2>1
  <2>3. OnlyBy(c) /\ pc'[c] = label /\ frame'[c] = g
    BY <1>2, <1>7, <2>2, GoesOnlyBy, SameButs
  <2>4. label = "wb_utime" => f.buf = <<>>
    <3>1. Len(f.buf) \in Nat /\ f.buf \in Seq(Data)
      BY <1>2, <1>3, ContentsLength, LenProperties
    <3> QED  BY <1>2, <1>3, <2>2, <3>1, EmptySeq
  <2>5. Sent(c)' /\ Received(c)'
    BY <1>2, <1>3, <1>5, <1>7, <2>1, <2>3, <2>4 DEF Sent, Received
  <2> QED  BY <1>1, <1>5, <2>3, <2>5, OthersSent DEF ContentsInv
<1> QED  BY <1>4, <1>6, <1>7

\* The copy is written to it.
LEMMA WbWriteContents ==
    ASSUME ProtocolInv, TransferExclusion, ContentsInv, NEW c \in Clients, WbWrite(c)
    PROVE  ContentsInv'
<1>1. pc[c] = "wb_write" /\ Uploading(c)
  BY DEF WbWrite, Uploading
<1>2. /\ OneFile /\ FileRecord /\ TableTypeOK /\ ClientInv /\ Sent(c)
      /\ frame[c].buf \in Contents /\ frame[c].fh \in Handles
  BY <1>1, Known, FrameFields DEF ContentsInv
<1>3. PICK ret \in Answers :
        /\ copy_write(c, frame[c].fh, frame[c].buf, ret)
        /\ WriteBackDone(c, ret) \/ (ret >= 0 /\ Step(c, "wb_utime") /\ UNCHANGED cache)
  BY AnswersInt DEF WbWrite, LocalUnchanged
<1>4. /\ OneFile' /\ FileRecord' /\ DOMAIN files' = DOMAIN files
      /\ ret >= 0 /\ frame[c].fh \notin FD => UNCHANGED files
      /\ ret >= 0 /\ File \in DOMAIN files /\ files[File].data = <<>> /\ frame[c].fh \in FD =>
           files'[File].data = frame[c].buf
  BY <1>2, <1>3, FileChanged
<1>5. CASE WriteBackDone(c, ret)
  BY <1>1, <1>4, <1>5, EndsLeave, LeavesContents
<1>6. CASE ret >= 0 /\ Step(c, "wb_utime") /\ UNCHANGED cache
  <2>1. OnlyBy(c) /\ pc'[c] = "wb_utime" /\ frame'[c] = frame[c]
    BY <1>2, <1>6, GoesOnlyBy, SameButs DEF Step
  <2>2. Sent(c)' /\ Received(c)'
    BY <1>1, <1>2, <1>4, <1>6, <2>1 DEF Sent, Received, Uploading
  <2> QED  BY <1>1, <1>4, <2>1, <2>2, OthersSent DEF ContentsInv
<1> QED  BY <1>3, <1>5, <1>6

\* Its time is set.
LEMMA WbUtimeContents ==
    ASSUME ProtocolInv, TransferExclusion, ContentsInv, NEW c \in Clients, WbUtime(c)
    PROVE  ContentsInv'
<1>1. pc[c] = "wb_utime" /\ Uploading(c)
  BY DEF WbUtime, Uploading
<1>2. OneFile /\ FileRecord /\ TableTypeOK /\ ClientInv /\ Sent(c)
  BY <1>1, Known DEF ContentsInv
<1>3. PICK ret \in Answers :
        /\ copy_utimensat(c, frame[c].st.mtime, ret)
        /\ WriteBackDone(c, ret) \/ (ret >= 0 /\ Step(c, "wb_unlock") /\ UNCHANGED cache)
  BY AnswersInt DEF WbUtime, UploadTime, LocalUnchanged
<1>4. /\ OneFile' /\ FileRecord'
      /\ ret >= 0 => /\ File \in DOMAIN files /\ DOMAIN files' = DOMAIN files
                     /\ files'[File].data = files[File].data
                     /\ files'[File].mtime = frame[c].st.mtime
  BY <1>2, <1>3, FileChanged
<1>5. CASE WriteBackDone(c, ret)
  BY <1>1, <1>4, <1>5, EndsLeave, LeavesContents
<1>6. CASE ret >= 0 /\ Step(c, "wb_unlock") /\ UNCHANGED cache
  <2>1. OnlyBy(c) /\ pc'[c] = "wb_unlock" /\ frame'[c] = frame[c]
    BY <1>2, <1>6, GoesOnlyBy, SameButs DEF Step
  <2>2. Sent(c)' /\ Received(c)'
    BY <1>1, <1>2, <1>4, <1>6, <2>1 DEF Sent, Received, Uploading
  <2> QED  BY <1>1, <1>4, <2>1, <2>2, OthersSent DEF ContentsInv
<1> QED  BY <1>3, <1>5, <1>6

-----------------------------------------------------------------------------
(* The invariant *)

LEMMA ContentsUnchanged == ContentsInv /\ UNCHANGED <<files, fds, clientVars>> => ContentsInv'
BY DEF ContentsInv, OneFile, FileRecord, Sent, Received, Uploading, clientVars

LEMMA NextContents ==
    ASSUME ProtocolInv, TransferExclusion, ExclusionInv, ContentsInv, [Next]_allVars
    PROVE  ContentsInv'
<1>1. ASSUME NEW c \in Clients, Call(c) PROVE ContentsInv'
  BY <1>1, CallContents
<1>2. ASSUME NEW c \in Clients, Continue(c) PROVE ContentsInv'
  BY <1>2, NobodyMakes, PlainSteps, HarmlessContents, TakenContents, DlReadContents,
     WbTruncContents, WbWriteContents, WbUtimeContents DEF Continue
<1>3. CASE Tick /\ UNCHANGED <<clientVars, calls, lost>>
  BY <1>3, ContentsUnchanged DEF Tick
<1>4. CASE UNCHANGED allVars
  BY <1>4, ContentsUnchanged DEF allVars, serverVars
<1> QED  BY <1>1, <1>2, <1>3, <1>4 DEF Next

LEMMA InitContents == Init => ContentsInv
<1> SUFFICES ASSUME Init PROVE ContentsInv
  OBVIOUS
<1>1. OneFile
  BY DEF Init, ServerInit, OneFile
<1>2. FileRecord
  <2>1. CASE files = <<>>
    BY <2>1 DEF FileRecord
  <2>2. CASE files \in [Paths -> [data : {<<>>, <<Zero>>}, mtime : {0}]]
    <3>1. files[File] \in [data : {<<>>, <<Zero>>}, mtime : {0}]
      BY <2>2, ClientAssumption
    <3> QED  BY <3>1 DEF FileRecord
  <2> QED  BY <2>1, <2>2 DEF Init, ServerInit
<1>3. \A c \in Clients : Sent(c) /\ Received(c)
  BY DEF Init, Sent, Received, Uploading
<1> QED  BY <1>1, <1>2, <1>3 DEF ContentsInv

\* What each step of a transfer leaves behind is there at the next one: the file as
\* an upload has made it so far, and the copy that a download has read, through
\* every interleaving with other clients and every call that is not answered
\* (cli_downloadFile and cli_write_back).
THEOREM ContentsInvariant ==
    ASSUME Operations \cap {"mknod", "truncate"} = {}
    PROVE  Spec => []ContentsInv
<1>1. Init => ContentsInv
  BY InitContents
<1>2. ProtocolInv /\ ExclusionInv /\ ContentsInv /\ [Next]_allVars => ContentsInv'
  BY NextContents, Excludes
<1> QED  BY <1>1, <1>2, ProtocolInvariant, ExclusionInvariant, PTL DEF Spec

\* cli_write_back: when it unlocks the file, the server has the copy, with its time,
\* if the upload had a descriptor of the file.
THEOREM UploadPublishesHolds ==
    ASSUME Operations \cap {"mknod", "truncate"} = {}
    PROVE  Spec => []UploadPublishes
<1>1. ContentsInv => UploadPublishes
  BY DEF ContentsInv, FileRecord, Sent, UploadPublishes
<1> QED  BY <1>1, ContentsInvariant, PTL

\* cli_downloadFile: when it unlocks the file, the copy is the server's file, if that
\* still has the size it was stated to have.
THEOREM DownloadMatchesHolds ==
    ASSUME Operations \cap {"mknod", "truncate"} = {}
    PROVE  Spec => []DownloadMatches
<1>1. ContentsInv => DownloadMatches
  BY DEF ContentsInv, Received, DownloadMatches, IsOpen
<1> QED  BY <1>1, ContentsInvariant, PTL
====================================================================================
