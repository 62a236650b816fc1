------------------------------- MODULE OpenersProofs -------------------------------
(***************************************************************************)
(* Proofs about those who have the file open: who may change its contents  *)
(* (OnlyWriterUploads), and how many the server counts (OpenNumExact).     *)
(*                                                                         *)
(* That only the application that has the file open for writing changes    *)
(* it is so for calls that come through the kernel, and without mknod,     *)
(* truncate and utimensat: the first two upload a file that they do not    *)
(* open, and the last one a file that a release which could not write it   *)
(* back has left in the map.                                               *)
(***************************************************************************)
EXTENDS ContentsProofs, WatDFSFresh

\* The application of c has the file open for writing.
Writes(c) == Has(c) /\ fi[c].flag # O_RDONLY

\* An operation that uploads, or is about to find out whether it must.
NeedsWriter(label, f) == label \in UploadLabels \/ (label = "check" /\ f.op \notin Reads)

\* Writers are known to the server, one at a time, and they alone upload.
WriterInv ==
    \A c \in Clients :
        /\ Writes(c) => Lookup(File).serverMode = 1 /\ \A d \in Clients \ {c} : ~Writes(d)
        /\ NeedsWriter(pc[c], frame[c]) => Writes(c)

-----------------------------------------------------------------------------
(* A step that makes no writer *)

\* A writer that stays one is still known to the server.
ModeStays == \A d \in Clients : Writes(d) /\ Writes(d)' => Lookup(File)'.serverMode = 1

LEMMA WriterGoes ==
    ASSUME ClientInv, WriterInv, NEW c \in Clients, NEW label, NEW f, Goto(c, label, f),
           SameBut(fi, fi', c), Writes(c)' => Writes(c), NeedsWriter(label, f) => Writes(c)',
           ModeStays
    PROVE  WriterInv'
<1>1. /\ pc'[c] = label /\ frame'[c] = f
      /\ \A d \in Clients \ {c} : pc'[d] = pc[d] /\ frame'[d] = frame[d]
  BY DEF ClientInv, Goto
<1>2. \A d \in Clients \ {c} : Writes(d)' <=> Writes(d)
  BY DEF SameBut, Writes, Has
<1>3. \A d \in Clients : Writes(d)' => Writes(d)
  BY <1>2
<1>4. ASSUME NEW d \in Clients, Writes(d)'
      PROVE  Lookup(File)'.serverMode = 1 /\ \A e \in Clients \ {d} : ~Writes(e)'
  <2>1. Writes(d) /\ \A e \in Clients \ {d} : ~Writes(e)
    BY <1>3, <1>4 DEF WriterInv
  <2> QED  BY <1>3, <1>4, <2>1 DEF ModeStays
<1>5. ASSUME NEW d \in Clients, NeedsWriter(pc[d], frame[d])' PROVE Writes(d)'
  <2>1. CASE d = c
    BY <1>1, <1>5, <2>1 DEF NeedsWriter
  <2>2. CASE d # c
    BY <1>1, <1>2, <1>5, <2>2 DEF NeedsWriter, WriterInv
  <2> QED  BY <2>1, <2>2
<1> QED  BY <1>4, <1>5 DEF WriterInv

\* A step of an operation that has its handle, or lets go of it.
Follows(c) ==
    /\ \E label \in Labels : \E f :
         Goto(c, label, f) /\ (NeedsWriter(label, f) => NeedsWriter(pc[c], frame[c]) /\ UNCHANGED fi)
    /\ UNCHANGED fi \/ fi' = Erase(fi, c)

LEMMA FollowsWriter ==
    ASSUME ClientInv, WriterInv, NEW c \in Clients, Follows(c), ModeStays
    PROVE  WriterInv'
<1>1. PICK label, f :
        Goto(c, label, f) /\ (NeedsWriter(label, f) => NeedsWriter(pc[c], frame[c]) /\ UNCHANGED fi)
  BY DEF Follows
<1>2. SameBut(fi, fi', c) /\ (Writes(c)' => Writes(c)) /\ (UNCHANGED fi => (Writes(c)' <=> Writes(c)))
  BY SameButs DEF Follows, Writes, Has
<1>3. NeedsWriter(label, f) => Writes(c)'
  BY <1>1, <1>2 DEF WriterInv
<1> QED  BY <1>1, <1>2, <1>3, WriterGoes

\* Labels that an operation may reach whatever it has open.
LEMMA FreeLabels ==
    ASSUME NEW label \in Labels \ (UploadLabels \cup {"check"})
    PROVE  \A f : ~NeedsWriter(label, f)
BY DEF NeedsWriter

LEMMA EndsFollow ==
    ASSUME NEW c \in Clients, NEW ret \in Int
    PROVE  /\ Return(c, ret) /\ (UNCHANGED fi \/ fi' = Erase(fi, c)) => Follows(c)
           /\ DownloadFailed(c, ret) => Follows(c)
           /\ WriteBackDone(c, ret) => Follows(c)
           /\ EmptyCache(c) => Follows(c)
           /\ Downloaded(c) /\ frame[c].op \in Reads => Follows(c)
           /\ TakeCopy(c) /\ pc[c] \in UploadLabels => Follows(c)
           /\ \A m : WhenFresh(c, m) \/ (WhenStale(c, m) /\ pc[c] = "check") => Follows(c)
           /\ \A label \in Labels \ (UploadLabels \cup {"check"}) :
                Step(c, label) /\ UNCHANGED fi => Follows(c)
           /\ \A label \in UploadLabels : pc[c] \in UploadLabels =>
                \A f : Goto(c, label, f) /\ UNCHANGED fi => Follows(c)
<1>0. /\ "idle" \in Labels \ (UploadLabels \cup {"check"})
      /\ "op_release" \in Labels \ (UploadLabels \cup {"check"})
      /\ {"dl_read", "dl_stat"} \subseteq Labels \ (UploadLabels \cup {"check"})
      /\ UploadLabels \subseteq Labels /\ "wb_trunc" \in UploadLabels /\ "wb_lock" \in UploadLabels
  BY DEF Labels, UploadLabels
<1>1. \A r : Return(c, r) /\ (UNCHANGED fi \/ fi' = Erase(fi, c)) => Follows(c)
  BY <1>0, FreeLabels DEF Return, Follows
<1>2. \A label \in Labels \ (UploadLabels \cup {"check"}) : Step(c, label) /\ UNCHANGED fi => Follows(c)
  BY FreeLabels DEF Step, Follows
<1>3. DownloadFailed(c, ret) => Follows(c)
  BY <1>1 DEF DownloadFailed
<1>4. WriteBackDone(c, ret) => Follows(c)
  <2> SUFFICES ASSUME WriteBackDone(c, ret) PROVE Follows(c)
    OBVIOUS
  <2>1. CASE frame[c].op = "release" /\ ret >= 0
    <3>1. Step(c, "op_release") /\ UNCHANGED fi
      BY <2>1 DEF WriteBackDone
    <3> QED  BY <1>0, <1>2, <3>1
  <2>2. CASE ~(frame[c].op = "release" /\ ret >= 0)
    BY <1>1, <2>2 DEF WriteBackDone
  <2> QED  BY <2>1, <2>2
<1>5. EmptyCache(c) => Follows(c)
  BY <1>0, <1>2 DEF EmptyCache
<1>6. Downloaded(c) /\ frame[c].op \in Reads => Follows(c)
  BY <1>1 DEF Downloaded, Reads
<1>7. \A label \in UploadLabels : pc[c] \in UploadLabels =>
        \A f : Goto(c, label, f) /\ UNCHANGED fi => Follows(c)
  BY <1>0 DEF NeedsWriter, Follows
<1>8. TakeCopy(c) /\ pc[c] \in UploadLabels => Follows(c)
  BY <1>0, <1>7 DEF TakeCopy, LocalUnchanged
<1>9. ASSUME NEW m, WhenFresh(c, m) \/ (WhenStale(c, m) /\ pc[c] = "check") PROVE Follows(c)
  <2>1. CASE WhenFresh(c, m)
    BY <1>1, <2>1 DEF WhenFresh
  <2>2. CASE WhenStale(c, m) /\ pc[c] = "check" /\ frame[c].op \in Reads
    BY <1>0, <1>2, <2>2 DEF WhenStale, Reads
  <2>3. CASE WhenStale(c, m) /\ pc[c] = "check" /\ frame[c].op \notin Reads
    <3>1. Goto(c, "wb_lock", frame[c]) /\ UNCHANGED fi /\ NeedsWriter(pc[c], frame[c])
      BY <2>3 DEF WhenStale, Reads, Step, NeedsWriter
    <3> QED  BY <1>0, <3>1 DEF Follows
  <2> QED  BY <1>9, <2>1, <2>2, <2>3
<1> QED  BY <1>1, <1>2, <1>3, <1>4, <1>5, <1>6, <1>7, <1>8, <1>9

-----------------------------------------------------------------------------
(* What the server knows of the writer *)

\* The entry is changed by those who open and close the file.
SameEntry == Lookup(File)' = Lookup(File)

LEMMA EntryStays == WriterInv /\ SameEntry => ModeStays
BY DEF WriterInv, SameEntry, ModeStays

LEMMA EntryCalls ==
    ASSUME TableTypeOK, NEW c \in Clients, NEW ret
    PROVE  /\ UNCHANGED serverVars => SameEntry
           /\ \A st : copy_getattr(c, ret, st) => SameEntry
           /\ copy_mknod(c, ret) => SameEntry
           /\ \A fh, n, data : copy_read(c, fh, n, ret, data) => SameEntry
           /\ \A fh, data : copy_write(c, fh, data, ret) => SameEntry
           /\ \A n : copy_truncate(c, n, ret) => SameEntry
           /\ \A t : copy_utimensat(c, t, ret) => SameEntry
           /\ \A m : LockSent(c, m) => SameEntry
           /\ \A m : LockFailed(c, m, ret) => SameEntry
           /\ LockReturned(c, ret) => SameEntry
           /\ \A m : watdfs_cli_unlock(c, m, ret) => SameEntry
<1>1. \A r, w : HoldersMove(r, w) => SameEntry
  BY DEF HoldersMove, SameEntry
<1>2. EntryKept => SameEntry
  BY <1>1 DEF EntryKept
<1>3. ASSUME LockReturned(c, ret) PROVE SameEntry
  BY <1>3 DEF LockReturned, watdfs_lock_granted, Lookup, SameEntry
<1>4. ASSUME NEW m, watdfs_cli_unlock(c, m, ret) PROVE SameEntry
  BY <1>1, <1>2, <1>4, UnlockEntry
<1> QED  BY <1>2, <1>3, <1>4, ServerKeepsEntry, FileCallsKeepEntry, LockSentEntry, LockFailedEntry

\* Whoever has the file open is counted.
LEMMA WriterCounted ==
    ASSUME ProtocolInv, ExclusionInv, NEW d \in Clients, Writes(d)
    PROVE  Lookup(File).openNum > 0
<1>1. d \in Claimants
  BY DEF Claimants, Claims, Writes
<1>2. Lookup(File).openNum \in Int
  BY EntryType DEF ProtocolInv, TableInv, FileStatus
<1> QED  BY <1>1, <1>2, NobodyCounted DEF ExclusionInv

\* A writer is refused while there is one, and a reader changes nothing.
LEMMA OpenedMode ==
    ASSUME ProtocolInv, ExclusionInv, WriterInv, NEW flag, EntryOpened(flag)
    PROVE  /\ ModeStays
           /\ flag # O_RDONLY => Lookup(File)'.serverMode = 1 /\ \A d \in Clients : ~Writes(d)
<1>1. flag # O_RDONLY => \A d \in Clients : ~Writes(d)
  BY WriterCounted DEF EntryOpened, WriterInv
<1>2. ModeStays
  BY WriterCounted DEF EntryOpened, WriterInv, ModeStays
<1> QED  BY <1>1, <1>2 DEF EntryOpened

\* The entry outlives a closer that does not write as long as there is a writer.
LEMMA ClosedMode ==
    ASSUME ProtocolInv', ExclusionInv', WriterInv, NEW flag, EntryKept \/ EntryClosed(flag),
           flag # O_RDONLY => \A d \in Clients : Writes(d) => ~Writes(d)'
    PROVE  ModeStays
<1> SUFFICES ASSUME NEW d \in Clients, Writes(d), Writes(d)'
             PROVE  Lookup(File)'.serverMode = 1
  BY DEF ModeStays
<1>1. flag = O_RDONLY /\ Lookup(File).serverMode = 1
  BY DEF WriterInv
<1>2. CASE EntryKept
  BY <1>1, <1>2 DEF EntryKept, HoldersMove
<1>3. CASE EntryClosed(flag)
  <2>1. (ProtocolInv /\ ExclusionInv /\ Writes(d))' => (Lookup(File).openNum > 0)'
    BY WriterCounted, PTL
  <2>2. Lookup(File)'.openNum # 0
    BY <2>1
  <2> QED  BY <1>1, <1>3, <2>2 DEF EntryClosed
<1> QED  BY <1>2, <1>3

-----------------------------------------------------------------------------
(* The actions *)

\* A step in which nobody opens or closes the file.
LEMMA SteadyWriter ==
    ASSUME ProtocolInv, ExclusionInv, WriterInv, NEW c \in Clients,
           \/ CheckInterval(c) \/ CheckServer(c) \/ Probe(c)
           \/ DlStat(c) \/ DlLock(c) \/ DlGranted(c) \/ DlRead(c) \/ DlUnlock(c)
           \/ WbLock(c) \/ WbGranted(c) \/ WbTrunc(c) \/ WbWrite(c) \/ WbUtime(c) \/ WbUnlock(c)
    PROVE  Follows(c) /\ SameEntry
<1> USE DEF LocalUnchanged
<1>0. /\ TableTypeOK /\ Placed(c) /\ Answers \subseteq Int
      /\ {"dl_open", "dl_wait", "dl_read", "dl_release", "dl_unlock"}
           \subseteq Labels \ (UploadLabels \cup {"check"})
      /\ {"wb_lock", "wb_wait", "wb_trunc", "wb_write", "wb_utime", "wb_unlock"} = UploadLabels
  BY Knowing, AnswersInt DEF Labels, UploadLabels
<1>1. ASSUME CheckInterval(c) PROVE Follows(c) /\ SameEntry
  <2>1. UNCHANGED serverVars
    BY <1>1 DEF CheckInterval
  <2> QED  BY <1>0, <1>1, <2>1, EndsFollow, EntryCalls DEF CheckInterval
<1>2. ASSUME CheckServer(c) PROVE Follows(c) /\ SameEntry
  BY <1>0, <1>2, EndsFollow, EntryCalls DEF CheckServer
<1>3. ASSUME Probe(c) PROVE Follows(c) /\ SameEntry
  <2>1. PICK ret \in Answers :
          /\ SameEntry /\ UNCHANGED fi
          /\ Return(c, ret) \/ Step(c, "check")
    BY <1>0, <1>3, EntryCalls DEF Probe
  <2>2. CASE Return(c, ret)
    BY <1>0, <2>1, <2>2, EndsFollow
  <2>3. CASE Step(c, "check")
    <3>1. ~NeedsWriter("check", frame[c]) /\ "check" \in Labels
      BY <1>0, <1>3 DEF Probe, Placed, CallPlaced, NeedsWriter, Reads, UploadLabels, Labels
    <3> QED  BY <2>1, <2>3, <3>1 DEF Step, Follows
  <2> QED  BY <2>1, <2>2, <2>3
<1>4. ASSUME DlStat(c) PROVE Follows(c) /\ SameEntry
  <2>1. PICK ret \in Answers, st \in Stats :
          /\ SameEntry
          /\ \/ DownloadFailed(c, ret)
             \/ Goto(c, "dl_open", [frame[c] EXCEPT !.st = st]) /\ UNCHANGED fi
    BY <1>0, <1>4, EntryCalls DEF DlStat
  <2>2. \A f : ~NeedsWriter("dl_open", f)
    BY <1>0, FreeLabels
  <2>3. Goto(c, "dl_open", [frame[c] EXCEPT !.st = st]) /\ UNCHANGED fi => Follows(c)
    BY <1>0, <2>2 DEF Follows
  <2> QED  BY <1>0, <2>1, <2>3, EndsFollow
<1>5. ASSUME DlLock(c) PROVE Follows(c) /\ SameEntry
  <2>1. PICK ret \in Int :
          DownloadFailed(c, ret) \/ EmptyCache(c) \/ (Step(c, "dl_wait") /\ UNCHANGED fi)
    <3>1. 0 \in Int
      OBVIOUS
    <3> QED  BY <1>0, <1>5, <3>1 DEF DlLock
  <2>2. SameEntry
    BY <1>0, <1>5, EntryCalls DEF DlLock
  <2> QED  BY <1>0, <2>1, <2>2, EndsFollow
<1>6. ASSUME DlGranted(c) PROVE Follows(c) /\ SameEntry
  BY <1>0, <1>6, EndsFollow, EntryCalls DEF DlGranted
<1>7. ASSUME DlRead(c) PROVE Follows(c) /\ SameEntry
  BY <1>0, <1>7, EndsFollow, EntryCalls DEF DlRead
<1>8. ASSUME DlUnlock(c) PROVE Follows(c) /\ SameEntry
  BY <1>0, <1>8, EndsFollow, EntryCalls DEF DlUnlock
<1>9. ASSUME WbLock(c) \/ WbGranted(c) PROVE Follows(c) /\ SameEntry
  <2>1. pc[c] \in UploadLabels
    BY <1>0, <1>9 DEF WbLock, WbGranted
  <2>2. PICK ret \in Int :
          /\ SameEntry
          /\ WriteBackDone(c, ret) \/ TakeCopy(c) \/ (Goto(c, "wb_wait", frame[c]) /\ UNCHANGED fi)
    <3>1. \E ret \in Int :
            WriteBackDone(c, ret) \/ TakeCopy(c) \/ (Goto(c, "wb_wait", frame[c]) /\ UNCHANGED fi)
      <4>1. 0 \in Int
        OBVIOUS
      <4> QED  BY <1>0, <1>9, <4>1 DEF WbLock, WbGranted, Step
    <3>2. SameEntry
      BY <1>0, <1>9, EntryCalls DEF WbLock, WbGranted
    <3> QED  BY <3>1, <3>2
  <2> QED  BY <1>0, <2>1, <2>2, EndsFollow
<1>10. ASSUME WbTrunc(c) PROVE Follows(c) /\ SameEntry
  <2>1. pc[c] \in UploadLabels
    BY <1>0, <1>10 DEF WbTrunc
  <2>2. PICK ret \in Answers :
          /\ SameEntry
          /\ \/ WriteBackDone(c, ret)
             \/ UNCHANGED fi /\ \E label \in {"wb_write", "wb_utime"} : \E f : Goto(c, label, f)
    BY <1>0, <1>10, EntryCalls DEF WbTrunc
  <2> QED  BY <1>0, <2>1, <2>2, EndsFollow
<1>11. ASSUME WbWrite(c) PROVE Follows(c) /\ SameEntry
  BY <1>0, <1>11, EndsFollow, EntryCalls DEF WbWrite, Step
<1>12. ASSUME WbUtime(c) PROVE Follows(c) /\ SameEntry
  BY <1>0, <1>12, EndsFollow, EntryCalls DEF WbUtime, Step
<1>13. ASSUME WbUnlock(c) PROVE Follows(c) /\ SameEntry
  BY <1>0, <1>13, EndsFollow, EntryCalls DEF WbUnlock
<1> QED
  BY <1>1, <1>2, <1>3, <1>4, <1>5, <1>6, <1>7, <1>8, <1>9, <1>10, <1>11, <1>12, <1>13

\* A download opens the file, or releases it.
LEMMA FetchWriter ==
    ASSUME ProtocolInv, ProtocolInv', ExclusionInv, ExclusionInv', WriterInv, NEW c \in Clients,
           DlOpen(c) \/ DlRelease(c)
    PROVE  WriterInv'
<1>0. /\ ClientInv /\ TableTypeOK /\ Entitled(pc[c], frame[c], Claims(c)) /\ Answers \subseteq Int
      /\ O_RDONLY \in OpenFlags
  BY Knowing, AnswersInt DEF OpenFlags
<1>1. ASSUME DlOpen(c) PROVE Follows(c) /\ ModeStays
  <2>1. PICK ret \in Answers, fh \in Handles :
          /\ copy_open(c, O_RDONLY, ret, fh)
          /\ \/ DownloadFailed(c, ret)
             \/ Goto(c, "dl_lock", [frame[c] EXCEPT !.fh = fh]) /\ UNCHANGED fi
    BY <1>1 DEF DlOpen, LocalUnchanged
  <2>2. EntryKept \/ EntryOpened(O_RDONLY)
    BY <1>0, <2>1, OpenEntry
  <2>3. ModeStays
    BY <2>2, OpenedMode, EntryStays DEF EntryKept, HoldersMove, SameEntry
  <2>4. CASE Goto(c, "dl_lock", [frame[c] EXCEPT !.fh = fh]) /\ UNCHANGED fi
    <3>1. "dl_lock" \in Labels \ (UploadLabels \cup {"check"})
      BY DEF Labels, UploadLabels
    <3>2. \A f : ~NeedsWriter("dl_lock", f)
      BY <3>1, FreeLabels
    <3> QED  BY <2>3, <2>4, <3>1, <3>2 DEF Follows
  <2> QED  BY <1>0, <2>1, <2>3, <2>4, EndsFollow
<1>2. ASSUME DlRelease(c) PROVE Follows(c) /\ ModeStays
  <2>1. PICK ret \in Answers :
          /\ copy_release(c, O_RDONLY, frame[c].fh, ret)
          /\ DownloadFailed(c, ret) \/ Downloaded(c)
    BY <1>2 DEF DlRelease
  <2>2. EntryKept \/ EntryClosed(O_RDONLY)
    BY <1>0, <2>1, ReleaseEntry
  <2>3. ModeStays
    BY <2>2, ClosedMode
  <2>4. frame[c].op \in Reads
    BY <1>0, <1>2 DEF DlRelease, Entitled, DownloadLabels
  <2> QED  BY <1>0, <2>1, <2>3, <2>4, EndsFollow
<1> QED  BY <1>0, <1>1, <1>2, FollowsWriter

\* The application's release: the writer's takes write mode away.
LEMMA OpReleaseWriter ==
    ASSUME ProtocolInv, ProtocolInv', ExclusionInv, ExclusionInv', WriterInv, NEW c \in Clients,
           OpRelease(c)
    PROVE  WriterInv'
<1>0. /\ ClientInv /\ TableTypeOK /\ Typed(c) /\ Placed(c) /\ Kept(c)
  BY Knowing
<1>1. Has(c) /\ fi[c].flag \in OpenFlags
  BY <1>0 DEF OpRelease, Placed, CallPlaced, Kept, CallKept, Typed
<1>2. EntryKept \/ EntryClosed(fi[c].flag)
  BY <1>0, <1>1, ReleaseEntry DEF OpRelease, ReleaseFlag
<1>3. fi' = Erase(fi, c) /\ Return(c, 0)
  BY DEF OpRelease
<1>4. ~Writes(c)'
  BY <1>3, SameButs DEF Writes, Has
<1>5. fi[c].flag # O_RDONLY => \A d \in Clients : Writes(d) => ~Writes(d)'
  BY <1>1, <1>4 DEF WriterInv, Writes
<1>6. ModeStays
  BY <1>2, <1>5, ClosedMode
<1>7. Follows(c)
  <2>1. PICK r \in Int : r = 0
    OBVIOUS
  <2> QED  BY <1>3, <2>1, EndsFollow
<1> QED  BY <1>0, <1>6, <1>7, FollowsWriter

\* The application's open: it makes a writer if there is none.
LEMMA OpOpenWriter ==
    ASSUME ProtocolInv, ExclusionInv, WriterInv, NEW c \in Clients, OpOpen(c)
    PROVE  WriterInv'
<1>0. /\ ClientInv /\ TableTypeOK /\ frame[c] \in Frames /\ Placed(c) /\ Answers \subseteq Int
      /\ frame[c].flag \in OpenFlags
  BY Knowing, AnswersInt, FrameFields
<1>1. PICK ret \in Answers, fh \in Handles :
        /\ copy_open(c, frame[c].flag, ret, fh)
        /\ \/ /\ Return(c, IF ret < 0 THEN ret ELSE -EMFILE) /\ UNCHANGED fi
           \/ /\ ret >= 0 /\ fi' = Put(fi, c, [flag |-> frame[c].flag, fh |-> fh])
              /\ \E label \in {"check", "dl_stat"} : Step(c, label)
  BY <1>0 DEF OpOpen
<1>2. (ret < 0 /\ EntryKept) \/ EntryOpened(frame[c].flag)
  BY <1>0, <1>1, OpenEntry
<1>3. ModeStays
  BY <1>2, OpenedMode, EntryStays DEF EntryKept, HoldersMove, SameEntry
<1>4. CASE Return(c, IF ret < 0 THEN ret ELSE -EMFILE) /\ UNCHANGED fi
  <2>1. PICK r \in Int : r = IF ret < 0 THEN ret ELSE -EMFILE
    BY <1>0 DEF EMFILE
  <2> QED  BY <1>0, <1>3, <1>4, <2>1, EndsFollow, FollowsWriter
<1>5. ASSUME ret >= 0, NEW label \in {"check", "dl_stat"}, Step(c, label),
             fi' = Put(fi, c, [flag |-> frame[c].flag, fh |-> fh])
      PROVE  WriterInv'
  <2>1. PICK v : fi' = Put(fi, c, v) /\ v.flag = frame[c].flag
    BY <1>5
  <2>2. SameBut(fi, fi', c) /\ fi'[c].flag = frame[c].flag /\ c \in DOMAIN fi'
    BY <2>1 DEF SameBut, Put
  <2>3. /\ pc'[c] = label /\ frame'[c] = frame[c]
        /\ \A d \in Clients \ {c} : pc'[d] = pc[d] /\ frame'[d] = frame[d]
    BY <1>0, <1>5 DEF Step, Goto, ClientInv
  <2>4. \A d \in Clients \ {c} : Writes(d)' <=> Writes(d)
    BY <2>2 DEF SameBut, Writes, Has
  <2>5. EntryOpened(frame[c].flag)
    BY <1>0, <1>1, <1>2, <1>5
  <2>6. \A d \in Clients : Writes(d)' =>
          Lookup(File)'.serverMode = 1 /\ \A e \in Clients \ {d} : ~Writes(e)'
    <3>1. CASE frame[c].flag # O_RDONLY
      BY <2>4, <2>5, <3>1, OpenedMode
    <3>2. CASE frame[c].flag = O_RDONLY
      <4>1. ~Writes(c)'
        BY <2>2, <3>2 DEF Writes
      <4> QED  BY <1>3, <2>4, <4>1 DEF ModeStays, WriterInv
    <3> QED  BY <3>1, <3>2
  <2>7. ~NeedsWriter(label, frame[c])
    BY <1>0, <1>5 DEF OpOpen, Placed, CallPlaced, NeedsWriter, UploadLabels, Reads
  <2>8. \A d \in Clients : NeedsWriter(pc[d], frame[d])' => Writes(d)'
    <3> SUFFICES ASSUME NEW d \in Clients, NeedsWriter(pc'[d], frame'[d]) PROVE Writes(d)'
      BY DEF NeedsWriter
    <3>1. d # c
      BY <2>3, <2>7
    <3> QED  BY <2>3, <2>4, <3>1 DEF WriterInv
  <2> QED  BY <2>6, <2>8 DEF WriterInv
<1> QED  BY <1>1, <1>4, <1>5

\* A call begins with local work: it uploads only if the application is the writer.
LEMMA CallWriter ==
    ASSUME ViaKernel, Operations \cap {"mknod", "truncate", "utimensat"} = {},
           ProtocolInv, ExclusionInv, WriterInv, NEW c \in Clients, Call(c)
    PROVE  WriterInv'
<1> DEFINE Fits(label, f) == Goto(c, label, f) /\ (NeedsWriter(label, f) => Writes(c))
<1>0. /\ ClientInv /\ TableTypeOK /\ Kept(c)
      /\ \A label \in {"idle", "probe", "op_open", "op_release"} : \A f : ~NeedsWriter(label, f)
  BY Knowing, FreeLabels DEF NeedsWriter, UploadLabels
<1>1. UNCHANGED serverVars /\ UNCHANGED fi
  BY DEF Call, Begins, watdfs_cli_getattr, watdfs_cli_mknod, watdfs_cli_open, watdfs_cli_release,
         watdfs_cli_read, watdfs_cli_write, watdfs_cli_truncate, watdfs_cli_fsync,
         watdfs_cli_utimensat, Remount, LocalUnchanged
<1>2. \A op, ret : Ends(c, op, ret) => \E label, f : Fits(label, f)
  BY <1>0 DEF Ends
<1>3. \A label \in {"idle", "probe", "op_open", "op_release"} : \A f :
        Goto(c, label, f) => \E l, g : Fits(l, g)
  BY <1>0
<1>4. \A label, f : Goto(c, label, f) /\ Writes(c) => \E l, g : Fits(l, g)
  OBVIOUS
<1> HIDE DEF Fits
<1>5. ASSUME watdfs_cli_getattr(c) \/ watdfs_cli_open(c) PROVE \E label, f : Fits(label, f)
  BY <1>3, <1>5 DEF watdfs_cli_getattr, watdfs_cli_open
<1>6. ASSUME watdfs_cli_release(c) PROVE \E label, f : Fits(label, f)
  <2>1. CASE fi[c].flag # O_RDONLY
    BY <1>4, <1>6, <2>1 DEF watdfs_cli_release, Writes
  <2>2. CASE fi[c].flag = O_RDONLY
    BY <1>3, <1>6, <2>2 DEF watdfs_cli_release
  <2> QED  BY <2>1, <2>2
<1>7. ASSUME watdfs_cli_read(c) PROVE \E label, f : Fits(label, f)
  <2>1. ~NeedsWriter("check", New(c, "read"))
    <3>1. New(c, "read").op = "read"
      BY NewOp DEF Ops
    <3> QED  BY <3>1 DEF NeedsWriter, UploadLabels, Reads
  <2> QED  BY <1>2, <1>7, <2>1 DEF watdfs_cli_read, Fits
<1>8. ASSUME watdfs_cli_write(c) PROVE \E label, f : Fits(label, f)
  <2>1. Writes(c)
    BY <1>8 DEF watdfs_cli_write, Writes
  <2>2. \E label, f : Goto(c, label, f)
    BY <1>8 DEF watdfs_cli_write, Ends
  <2> QED  BY <1>4, <2>1, <2>2
<1>9. ASSUME watdfs_cli_truncate(c) PROVE \E label, f : Fits(label, f)
  <2>1. PICK op \in {"truncate", "ftruncate"} :
          /\ op \in Operations
          /\ op = "ftruncate" => Has(c) /\ fi[c].flag # O_RDONLY
    BY <1>9 DEF watdfs_cli_truncate, Begins
  <2>2. Writes(c)
    BY <2>1 DEF Writes
  <2>3. \E label, f : Goto(c, label, f)
    BY <1>9 DEF watdfs_cli_truncate, Ends
  <2> QED  BY <1>4, <2>2, <2>3
<1>10. ASSUME watdfs_cli_fsync(c) PROVE \E label, f : Fits(label, f)
  <2>1. CASE IsWriter(c)
    <3>1. Has(c) /\ Opened(c)
      BY <1>10, CallBegins DEF watdfs_cli_fsync
    <3>2. Writes(c)
      BY <2>1, <3>1 DEF Opened, IsWriter, Writes
    <3> QED  BY <1>4, <1>10, <2>1, <3>2 DEF watdfs_cli_fsync
  <2>2. CASE ~IsWriter(c)
    BY <1>2, <1>10, <2>2 DEF watdfs_cli_fsync
  <2> QED  BY <2>1, <2>2
<1>11. ASSUME Remount(c) PROVE \E label, f : Fits(label, f)
  BY <1>2, <1>11 DEF Remount
<1>12. ~watdfs_cli_mknod(c) /\ ~watdfs_cli_utimensat(c)
  BY DEF watdfs_cli_mknod, watdfs_cli_utimensat, Begins
<1>13. PICK label, f : Fits(label, f)
  BY <1>5, <1>6, <1>7, <1>8, <1>9, <1>10, <1>11, <1>12 DEF Call
<1>14. Writes(c)' <=> Writes(c)
  BY <1>1 DEF Writes, Has
<1>15. ModeStays /\ SameBut(fi, fi', c)
  <2>1. PICK r : r = 0
    OBVIOUS
  <2> QED  BY <1>0, <1>1, EntryCalls, EntryStays, SameButs
<1> QED  BY <1>0, <1>13, <1>14, <1>15, WriterGoes DEF Fits

LEMMA NextWriter ==
    ASSUME ViaKernel, Operations \cap {"mknod", "truncate", "utimensat"} = {},
           ProtocolInv, ProtocolInv', ExclusionInv, ExclusionInv', WriterInv, [Next]_allVars
    PROVE  WriterInv'
<1>1. ASSUME NEW c \in Clients, Call(c) PROVE WriterInv'
  BY <1>1, CallWriter
<1>2. ASSUME NEW c \in Clients, Continue(c) PROVE WriterInv'
  <2>1. CASE OpOpen(c) \/ OpRelease(c) \/ DlOpen(c) \/ DlRelease(c)
    BY <2>1, OpOpenWriter, OpReleaseWriter, FetchWriter
  <2>2. CASE ~(OpOpen(c) \/ OpRelease(c) \/ DlOpen(c) \/ DlRelease(c))
    <3>1. Follows(c) /\ SameEntry
      BY <1>2, <2>2, NobodyMakes, SteadyWriter DEF Continue
    <3> QED  BY <3>1, EntryStays, FollowsWriter DEF ProtocolInv
  <2> QED  BY <2>1, <2>2
<1>3. CASE UNCHANGED <<openFilesStatus_s, clientVars>>
  BY <1>3 DEF WriterInv, Writes, Has, NeedsWriter, Lookup, clientVars
<1> QED  BY <1>1, <1>2, <1>3 DEF Next, Tick, allVars, serverVars

LEMMA InitWriter == Init => WriterInv
BY DEF Init, WriterInv, Writes, Has, NeedsWriter, UploadLabels

-----------------------------------------------------------------------------
(* Who changes the file *)

\* Whoever changes a file is uploading it.
LEMMA UploaderChanges ==
    ASSUME ProtocolInv, ExclusionInv, ContentsInv, NEW c \in Clients, Continue(c)
    PROVE  UNCHANGED files \/ Uploading(c)
<1>0. OneFile /\ TableTypeOK
  BY Known DEF ContentsInv
<1>1. CASE WbLock(c) \/ WbGranted(c) \/ DlRead(c)
  <2>1. Harmless
    BY <1>0, <1>1, HarmlessCalls DEF WbLock, WbGranted, DlRead
  <2> QED  BY <2>1 DEF Harmless
<1>2. CASE WbTrunc(c) \/ WbWrite(c) \/ WbUtime(c)
  BY <1>2 DEF WbTrunc, WbWrite, WbUtime, Uploading
<1> QED  BY <1>1, <1>2, NobodyMakes, PlainSteps DEF Continue, Harmless

LEMMA NextUploads ==
    ASSUME ProtocolInv, ExclusionInv, ContentsInv, [Next]_allVars
    PROVE  UNCHANGED files \/ \E c \in Clients : Uploading(c)
<1>1. ASSUME NEW c \in Clients, Call(c) PROVE UNCHANGED files
  BY <1>1 DEF Call, Begins, serverVars, watdfs_cli_getattr, watdfs_cli_mknod, watdfs_cli_open,
              watdfs_cli_release, watdfs_cli_read, watdfs_cli_write, watdfs_cli_truncate,
              watdfs_cli_fsync, watdfs_cli_utimensat, Remount
<1>2. ASSUME NEW c \in Clients, Continue(c) PROVE UNCHANGED files \/ Uploading(c)
  BY <1>2, UploaderChanges
<1> QED  BY <1>1, <1>2 DEF Next, Tick, allVars, serverVars

\* An upload runs in a client whose application has the file open for writing; the
\* server knows of it and has let nobody else open it for writing (watdfs_open's
\* write conflict test and cli_write_back).
THEOREM WriterInvariant ==
    ASSUME ViaKernel, Operations \cap {"mknod", "truncate", "utimensat"} = {}
    PROVE  Spec => []WriterInv
<1>0. Operations \cap {"mknod", "truncate"} = {}
  OBVIOUS
<1>1. Init => WriterInv
  BY InitWriter
<1>2. /\ ProtocolInv /\ ExclusionInv /\ WriterInv /\ [Next]_allVars
      /\ ProtocolInv' /\ ExclusionInv'
      => WriterInv'
  BY NextWriter
<1> QED  BY <1>0, <1>1, <1>2, ProtocolInvariant, ExclusionInvariant, PTL DEF Spec

\* The contents of the server's file are changed by the upload of the one client
\* whose application has it open for writing, and in no other step of anybody.
THEOREM OnlyWriterUploadsHolds ==
    ASSUME ViaKernel, Operations \cap {"mknod", "truncate", "utimensat"} = {}
    PROVE  Spec => OnlyWriterUploads
<1>0. Operations \cap {"mknod", "truncate"} = {}
  OBVIOUS
<1>1. ASSUME ProtocolInv, ExclusionInv, ContentsInv, WriterInv, [Next]_allVars,
             File \in DOMAIN files /\ files'[File].data # files[File].data
      PROVE  \E c \in DOMAIN fi :
                /\ Uploading(c) /\ fi[c].flag # O_RDONLY /\ Lookup(File).serverMode = 1
                /\ \A d \in DOMAIN fi \ {c} : fi[d].flag = O_RDONLY
  <2>1. PICK c \in Clients : Uploading(c)
    BY <1>1, NextUploads
  <2>2. Writes(c)
    BY <1>1, <2>1 DEF WriterInv, Uploading, NeedsWriter, UploadLabels
  <2>3. Lookup(File).serverMode = 1 /\ \A d \in Clients \ {c} : ~Writes(d)
    BY <1>1, <2>2 DEF WriterInv
  <2>4. DOMAIN fi \subseteq Clients
    BY <1>1 DEF ProtocolInv, ClientInv
  <2> QED  BY <2>1, <2>2, <2>3, <2>4 DEF Writes, Has
<1>2. ProtocolInv /\ ExclusionInv /\ ContentsInv /\ WriterInv /\ [Next]_allVars =>
        [(File \in DOMAIN files /\ files'[File].data # files[File].data) =>
           \E c \in DOMAIN fi :
              /\ Uploading(c) /\ fi[c].flag # O_RDONLY /\ Lookup(File).serverMode = 1
              /\ \A d \in DOMAIN fi \ {c} : fi[d].flag = O_RDONLY]_allVars
  BY <1>1
<1> QED
  BY <1>0, <1>2, ProtocolInvariant, ExclusionInvariant, ContentsInvariant, WriterInvariant, PTL
     DEF Spec, OnlyWriterUploads

-----------------------------------------------------------------------------
(* How many have it open *)

\* As long as nothing has failed the server counts exactly those that have the file
\* open: every handle of an application, and every download, has its descriptor.
SmoothInv ==
    smooth =>
        /\ lost = 0
        /\ \A c \in Clients : ~Failing(c)
        /\ IsFiniteSet(Opening) /\ IsFiniteSet(Fetching)
        /\ Lookup(File).openNum = Cardinality(Opening) + Cardinality(Fetching)

\* The count of the entry changes as what c has open does.
Exact(c) ==
    Lookup(File)'.openNum - Mark(Has(c)') - Mark(Fetches(c)')
        = Lookup(File).openNum - Mark(Has(c)) - Mark(Fetches(c))

\* The step is c's, and it has not failed.
Succeeds(c) == lost' = 0 /\ ~Failing(c)'

LEMMA ExactCount ==
    ASSUME ProtocolInv, ProtocolInv', smooth, SmoothInv, NEW c \in Clients, NEW label, NEW f, Goto(c, label, f),
           SameBut(fi, fi', c), Exact(c)
    PROVE  /\ IsFiniteSet(Opening)' /\ IsFiniteSet(Fetching)'
           /\ Lookup(File)'.openNum = Cardinality(Opening)' + Cardinality(Fetching)'
<1>0. Fetching = Fetchers /\ Fetching' = Fetchers'
  BY DEF Fetching, Fetchers, FetchLabels
<1>1. \A d \in Clients \ {c} : pc'[d] = pc[d] /\ (Has(d)' <=> Has(d))
  BY DEF ProtocolInv, ClientInv, Goto, SameBut, Has
<1>2. Opening' \ {c} = Opening \ {c} /\ Fetching' \ {c} = Fetching \ {c}
  BY <1>1 DEF Opening, Fetching
<1>3. /\ IsFiniteSet(Opening') /\ Cardinality(Opening) \in Nat /\ Cardinality(Opening') \in Nat
      /\ Cardinality(Opening') - Mark(c \in Opening') = Cardinality(Opening) - Mark(c \in Opening)
  BY <1>2, Recount DEF SmoothInv
<1>4. /\ IsFiniteSet(Fetching') /\ Cardinality(Fetching) \in Nat /\ Cardinality(Fetching') \in Nat
      /\ Cardinality(Fetching') - Mark(c \in Fetching') = Cardinality(Fetching) - Mark(c \in Fetching)
  BY <1>2, Recount DEF SmoothInv
<1>5. /\ Mark(c \in Opening) = Mark(Has(c)) /\ Mark(c \in Opening') = Mark(Has(c)')
      /\ Mark(c \in Fetching) = Mark(Fetches(c)) /\ Mark(c \in Fetching') = Mark(Fetches(c)')
  BY DEF Opening, Fetching, Fetches, FetchLabels, Mark
<1>6. /\ Lookup(File).openNum = Cardinality(Opening) + Cardinality(Fetching)
      /\ Mark(Has(c)) \in Int /\ Mark(Has(c)') \in Int
      /\ Mark(Fetches(c)) \in Int /\ Mark(Fetches(c)') \in Int
  BY DEF SmoothInv, Mark
<1>7. Lookup(File)'.openNum \in Int
  <2>1. (TableTypeOK)' => (Lookup(File) \in FileStatus)'
    BY EntryType, PTL
  <2> QED  BY <2>1 DEF ProtocolInv, TableInv, FileStatus
<1>8. Lookup(File)'.openNum - Mark(Has(c)') - Mark(Fetches(c)')
        = Lookup(File).openNum - Mark(Has(c)) - Mark(Fetches(c))
  BY DEF Exact
<1>9. Lookup(File)'.openNum = Cardinality(Opening') + Cardinality(Fetching')
  BY <1>3, <1>4, <1>5, <1>6, <1>7, <1>8
<1> QED  BY <1>3, <1>4, <1>9

\* What a step that has not failed leaves: c is at label, and the calls were answered.
LEMMA SucceedsEnds ==
    ASSUME ClientInv, NEW c \in Clients, Succeeds(c), NEW ret \in Int
    PROVE  /\ Return(c, ret) => ~(ret < 0)
           /\ DownloadFailed(c, ret) => ~(ret < 0)
           /\ WriteBackDone(c, ret) => ~(ret < 0)
<1>1. ASSUME Return(c, ret) PROVE ~(ret < 0)
  <2>1. frame'[c].ret = ret
    BY <1>1 DEF ClientInv, Return, Goto, Blank
  <2> QED  BY <2>1 DEF Succeeds, Failing
<1> QED  BY <1>1 DEF DownloadFailed, WriteBackDone

\* A step that leaves the entry and the handle alone, and neither begins nor ends a
\* download's use of the file.
Leaves(c) ==
    /\ UNCHANGED fi
    /\ \E label \in Labels : \E f :
         Goto(c, label, f) /\ (label \in FetchLabels <=> pc[c] \in FetchLabels)

LEMMA LeavesExact ==
    ASSUME ClientInv, TableTypeOK, NEW c \in Clients, Leaves(c), SameEntry
    PROVE  Exact(c) /\ SameBut(fi, fi', c) /\ \E label, f : Goto(c, label, f)
<1>1. PICK label, f : Goto(c, label, f) /\ (label \in FetchLabels <=> pc[c] \in FetchLabels)
  BY DEF Leaves
<1>2. pc'[c] = label
  BY <1>1 DEF ClientInv, Goto
<1>3. Lookup(File).openNum \in Int
  BY EntryType DEF FileStatus
<1> QED  BY <1>1, <1>2, <1>3, SameButs DEF Leaves, SameEntry, Exact, Has, Fetches, Mark

LEMMA SucceedsLeaves ==
    ASSUME ClientInv, NEW c \in Clients, Succeeds(c), pc[c] \notin FetchLabels, NEW ret \in Int
    PROVE  /\ Return(c, ret) /\ UNCHANGED fi => Leaves(c)
           /\ WriteBackDone(c, ret) => Leaves(c)
           /\ TakeCopy(c) => Leaves(c)
           /\ \A m : WhenFresh(c, m) \/ WhenStale(c, m) => Leaves(c)
           /\ \A label \in Labels \ FetchLabels : UNCHANGED fi =>
                /\ Step(c, label) => Leaves(c)
                /\ \A f : Goto(c, label, f) => Leaves(c)
<1>0. {"idle", "op_release", "dl_stat", "wb_lock", "wb_trunc"} \subseteq Labels \ FetchLabels
  BY DEF Labels, FetchLabels
<1>1. \A label \in Labels \ FetchLabels : UNCHANGED fi =>
        /\ Step(c, label) => Leaves(c)
        /\ \A f : Goto(c, label, f) => Leaves(c)
  BY DEF Step, Leaves
<1>2. \A r : Return(c, r) /\ UNCHANGED fi => Leaves(c)
  BY <1>0, <1>1 DEF Return
<1>3. WriteBackDone(c, ret) => Leaves(c)
  BY <1>0, <1>1, <1>2, SucceedsEnds DEF WriteBackDone
<1>4. TakeCopy(c) => Leaves(c)
  BY <1>0, <1>1 DEF TakeCopy, LocalUnchanged
<1>5. \A m : WhenFresh(c, m) \/ WhenStale(c, m) => Leaves(c)
  BY <1>0, <1>1, <1>2 DEF WhenFresh, WhenStale
<1> QED  BY <1>1, <1>2, <1>3, <1>4, <1>5

\* A step in which nobody opens or closes the file.
LEMMA SteadyExact ==
    ASSUME ProtocolInv, NEW c \in Clients, Succeeds(c),
           \/ CheckInterval(c) \/ CheckServer(c) \/ Probe(c) \/ MkProbe(c) \/ MkNode(c) \/ MkUtime(c)
           \/ DlStat(c) \/ DlLock(c) \/ DlGranted(c) \/ DlRead(c) \/ DlUnlock(c)
           \/ WbLock(c) \/ WbGranted(c) \/ WbTrunc(c) \/ WbWrite(c) \/ WbUtime(c) \/ WbUnlock(c)
    PROVE  Leaves(c) /\ SameEntry
<1> USE DEF LocalUnchanged
<1>0. /\ ClientInv /\ TableTypeOK /\ Answers \subseteq Int
      /\ {"check", "mk_node", "mk_utime", "dl_stat", "dl_open", "wb_wait", "wb_write", "wb_utime",
          "wb_unlock"} \subseteq Labels \ FetchLabels
      /\ FetchLabels \subseteq Labels
      /\ {"dl_lock", "dl_wait", "dl_read", "dl_unlock", "dl_release"} = FetchLabels
  BY Known, AnswersInt DEF Labels, FetchLabels
<1>1. ASSUME CheckInterval(c) PROVE Leaves(c) /\ SameEntry
  <2>1. UNCHANGED serverVars /\ pc[c] \notin FetchLabels
    BY <1>0, <1>1 DEF CheckInterval
  <2>2. PICK r \in Int : r = 0
    OBVIOUS
  <2> QED  BY <1>0, <1>1, <2>1, <2>2, SucceedsLeaves, EntryCalls DEF CheckInterval
<1>2. ASSUME CheckServer(c) PROVE Leaves(c) /\ SameEntry
  <2>1. pc[c] \notin FetchLabels
    BY <1>0, <1>2 DEF CheckServer
  <2> QED  BY <1>0, <1>2, <2>1, SucceedsLeaves, EntryCalls DEF CheckServer
<1>3. ASSUME Probe(c) PROVE Leaves(c) /\ SameEntry
  <2>1. pc[c] \notin FetchLabels
    BY <1>0, <1>3 DEF Probe
  <2> QED  BY <1>0, <1>3, <2>1, SucceedsLeaves, EntryCalls DEF Probe
<1>4. ASSUME MkProbe(c) PROVE Leaves(c) /\ SameEntry
  <2>1. pc[c] \notin FetchLabels
    BY <1>0, <1>4 DEF MkProbe
  <2>2. PICK ret \in Answers :
          /\ SameEntry /\ UNCHANGED fi
          /\ Return(c, ret) \/ \E label \in {"mk_node", "dl_stat"} : \E f : Goto(c, label, f)
    BY <1>0, <1>4, EntryCalls DEF MkProbe, Step
  <2> QED  BY <1>0, <2>1, <2>2, SucceedsLeaves
<1>5. ASSUME MkNode(c) \/ MkUtime(c) PROVE Leaves(c) /\ SameEntry
  <2>1. pc[c] \notin FetchLabels
    BY <1>0, <1>5 DEF MkNode, MkUtime
  <2> QED  BY <1>0, <1>5, <2>1, SucceedsLeaves, EntryCalls DEF MkNode, MkUtime
<1>6. ASSUME DlStat(c) PROVE Leaves(c) /\ SameEntry
  <2>1. pc[c] \notin FetchLabels
    BY <1>0, <1>6 DEF DlStat
  <2>2. PICK ret \in Answers : SameEntry /\ UNCHANGED fi /\ \E f : Goto(c, "dl_open", f)
    BY <1>0, <1>6, EntryCalls, SucceedsEnds DEF DlStat
  <2> QED  BY <1>0, <2>1, <2>2, SucceedsLeaves
<1>7. \A label \in FetchLabels : Step(c, label) /\ UNCHANGED fi /\ pc[c] \in FetchLabels => Leaves(c)
  BY <1>0 DEF Leaves, Step
<1>8. EmptyCache(c) /\ pc[c] \in FetchLabels => Leaves(c)
  BY <1>0, <1>7 DEF EmptyCache
<1>9. ASSUME DlLock(c) \/ DlGranted(c) PROVE Leaves(c) /\ SameEntry
  BY <1>0, <1>7, <1>8, <1>9, SucceedsEnds, EntryCalls DEF DlLock, DlGranted
<1>10. ASSUME DlRead(c) \/ DlUnlock(c) PROVE Leaves(c) /\ SameEntry
  BY <1>0, <1>7, <1>10, SucceedsEnds, EntryCalls DEF DlRead, DlUnlock
<1>11. ASSUME WbLock(c) \/ WbGranted(c) PROVE Leaves(c) /\ SameEntry
  <2>1. pc[c] \notin FetchLabels
    BY <1>0, <1>11 DEF WbLock, WbGranted
  <2>2. \E ret \in Int : WriteBackDone(c, ret) \/ TakeCopy(c) \/ (Step(c, "wb_wait") /\ UNCHANGED fi)
    <3>1. 0 \in Int
      OBVIOUS
    <3> QED  BY <1>0, <1>11, <3>1 DEF WbLock, WbGranted
  <2>3. SameEntry
    BY <1>0, <1>11, EntryCalls DEF WbLock, WbGranted
  <2> QED  BY <1>0, <2>1, <2>2, <2>3, SucceedsLeaves
<1>12. ASSUME WbTrunc(c) PROVE Leaves(c) /\ SameEntry
  <2>1. pc[c] \notin FetchLabels
    BY <1>0, <1>12 DEF WbTrunc
  <2>2. PICK ret \in Answers :
          /\ SameEntry
          /\ \/ WriteBackDone(c, ret)
             \/ UNCHANGED fi /\ \E label \in {"wb_write", "wb_utime"} : \E f : Goto(c, label, f)
    BY <1>0, <1>12, EntryCalls DEF WbTrunc
  <2> QED  BY <1>0, <2>1, <2>2, SucceedsLeaves
<1>13. ASSUME WbWrite(c) \/ WbUtime(c) PROVE Leaves(c) /\ SameEntry
  <2>1. pc[c] \notin FetchLabels
    BY <1>0, <1>13 DEF WbWrite, WbUtime
  <2> QED  BY <1>0, <1>13, <2>1, SucceedsLeaves, EntryCalls DEF WbWrite, WbUtime
<1>14. ASSUME WbUnlock(c) PROVE Leaves(c) /\ SameEntry
  <2>1. pc[c] \notin FetchLabels
    BY <1>0, <1>14 DEF WbUnlock
  <2> QED  BY <1>0, <1>14, <2>1, SucceedsLeaves, EntryCalls DEF WbUnlock
<1> QED
  BY <1>1, <1>2, <1>3, <1>4, <1>5, <1>6, <1>9, <1>10, <1>11, <1>12, <1>13, <1>14

\* Counting one that comes, and one that goes.
LEMMA Counts ==
    ASSUME TableTypeOK, Lookup(File).openNum >= 0
    PROVE  /\ \A flag : EntryOpened(flag) => Lookup(File)'.openNum = Lookup(File).openNum + 1
           /\ \A flag : EntryClosed(flag) => Lookup(File)'.openNum = Lookup(File).openNum - 1
           /\ Lookup(File).openNum \in Int
<1>1. Lookup(File).openNum \in Int
  BY EntryType DEF FileStatus
<1> QED  BY <1>1 DEF EntryOpened, EntryClosed

\* A release of a handle that is a descriptor of the server's is counted, if answered.
LEMMA ReleaseCounted ==
    ASSUME TableTypeOK, NEW c \in Clients, NEW flag \in OpenFlags, NEW fh \in FD \cup {BadFd},
           Backs(c, fh, flag), fh # BadFd, NEW ret, copy_release(c, flag, fh, ret),
           lost = 0, lost' = 0
    PROVE  EntryClosed(flag)
<1>1. IsOpen(fh)
  <2>1. fh \in FD /\ fds[fh].owner = c /\ c # Nobody
    BY NamesAssumption DEF Backs
  <2> QED  BY <2>1 DEF IsOpen
<1>2. ~AnswerLost(ret)
  BY DEF AnswerLost
<1> QED  BY <1>1, <1>2, ReleaseEntry

LEMMA OpensExact ==
    ASSUME ProtocolInv, Lookup(File).openNum >= 0, NEW c \in Clients, Succeeds(c),
           ~Failing(c), lost = 0, OpOpen(c) \/ OpRelease(c) \/ DlOpen(c) \/ DlRelease(c)
    PROVE  Exact(c) /\ SameBut(fi, fi', c) /\ \E label, f : Goto(c, label, f)
<1>0. /\ ClientInv /\ TableTypeOK /\ frame[c] \in Frames /\ Placed(c) /\ Typed(c) /\ Kept(c)
      /\ Backed(c) /\ Answers \subseteq Int /\ frame[c].flag \in OpenFlags /\ O_RDONLY \in OpenFlags
  BY Known, AnswersInt, FrameFields DEF OpenFlags
<1>1. CASE OpOpen(c)
  <2>1. PICK ret \in Answers, fh \in Handles :
          /\ copy_open(c, frame[c].flag, ret, fh)
          /\ \/ Return(c, IF ret < 0 THEN ret ELSE -EMFILE)
             \/ /\ ret >= 0 /\ ~IsOpenHere(c) /\ fi' = Put(fi, c, [flag |-> frame[c].flag, fh |-> fh])
                /\ \E label \in {"check", "dl_stat"} : Step(c, label)
    BY <1>0, <1>1 DEF OpOpen
  <2>2. ~Return(c, IF ret < 0 THEN ret ELSE -EMFILE)
    <3>1. PICK r \in Int : r = (IF ret < 0 THEN ret ELSE -EMFILE) /\ r < 0
      BY <1>0 DEF EMFILE
    <3> QED  BY <1>0, <3>1, SucceedsEnds
  <2>3. EntryOpened(frame[c].flag)
    BY <1>0, <2>1, <2>2, OpenEntry
  <2>4. ~Has(c)
    BY <1>0, <1>1, <2>1, <2>2 DEF OpOpen, Kept, Opened, StillOpening
  <2>5. PICK v : fi' = Put(fi, c, v)
    BY <2>1, <2>2
  <2>6. Has(c)' /\ SameBut(fi, fi', c)
    BY <2>5, SameButs DEF Has, SameBut, Put
  <2>7. PICK label \in {"check", "dl_stat"} : Step(c, label)
    BY <2>1, <2>2
  <2>8. ~Fetches(c)' /\ ~Fetches(c)
    BY <1>0, <1>1, <2>7 DEF OpOpen, Fetches, FetchLabels, Step, Goto, ClientInv
  <2> QED  BY <1>0, <2>3, <2>4, <2>6, <2>7, <2>8, Counts DEF Exact, Mark, Step
<1>2. CASE OpRelease(c)
  <2>1. Has(c) /\ fi[c].flag \in OpenFlags /\ fi[c].fh \in FD \cup {BadFd} /\ Backs(c, fi[c].fh, fi[c].flag)
    BY <1>0, <1>2 DEF OpRelease, Placed, CallPlaced, Kept, CallKept, Typed, Backed
  <2>2. PICK ret \in Answers : copy_release(c, fi[c].flag, fi[c].fh, ret)
    BY <1>2 DEF OpRelease, ReleaseFlag
  <2>3. EntryClosed(fi[c].flag)
    BY <1>0, <2>1, <2>2, ReleaseCounted DEF Failing, Succeeds
  <2>4. fi' = Erase(fi, c) /\ Return(c, 0)
    BY <1>2 DEF OpRelease
  <2>5. ~Has(c)' /\ SameBut(fi, fi', c)
    BY <2>4, SameButs DEF Has
  <2>6. ~Fetches(c)' /\ ~Fetches(c)
    BY <1>0, <1>2, <2>4 DEF OpRelease, Fetches, FetchLabels, Return, Goto, ClientInv
  <2> QED  BY <1>0, <2>1, <2>3, <2>4, <2>5, <2>6, Counts DEF Exact, Mark, Return
<1>3. CASE DlOpen(c)
  <2>1. PICK ret \in Answers, fh \in Handles :
          /\ copy_open(c, O_RDONLY, ret, fh)
          /\ IF ret < 0 THEN DownloadFailed(c, ret)
                        ELSE Goto(c, "dl_lock", [frame[c] EXCEPT !.fh = fh]) /\ UNCHANGED fi
    BY <1>3 DEF DlOpen, LocalUnchanged
  <2>2. ~(ret < 0)
    BY <1>0, <2>1, SucceedsEnds
  <2>3. EntryOpened(O_RDONLY)
    BY <1>0, <2>1, <2>2, OpenEntry
  <2>4. SameBut(fi, fi', c) /\ (Has(c)' <=> Has(c))
    BY <2>1, <2>2, SameButs DEF Has
  <2>5. Fetches(c)' /\ ~Fetches(c)
    BY <1>0, <1>3, <2>1, <2>2 DEF DlOpen, Fetches, FetchLabels, Goto, ClientInv
  <2> QED  BY <1>0, <2>1, <2>2, <2>3, <2>4, <2>5, Counts DEF Exact, Mark
<1>4. CASE DlRelease(c)
  <2>1. PICK ret \in Answers :
          /\ copy_release(c, O_RDONLY, frame[c].fh, ret)
          /\ IF ret < 0 THEN DownloadFailed(c, ret) ELSE Downloaded(c)
    BY <1>4 DEF DlRelease
  <2>2. Downloaded(c)
    BY <1>0, <2>1, SucceedsEnds
  <2>3. frame[c].fh \in FD \cup {BadFd} /\ Backs(c, frame[c].fh, O_RDONLY) /\ Fetches(c)
    BY <1>0, <1>4 DEF DlRelease, Backed, Fetches, FetchLabels
  <2>4. EntryClosed(O_RDONLY)
    BY <1>0, <2>1, <2>3, ReleaseCounted DEF Failing, Succeeds
  <2>5. SameBut(fi, fi', c) /\ (Has(c)' <=> Has(c))
    BY <2>2, SameButs DEF Downloaded, Has
  <2>6. PICK label \in {"idle", "check"} : \E f : Goto(c, label, f)
    BY <2>2 DEF Downloaded, Return, Step
  <2>7. ~Fetches(c)'
    BY <1>0, <2>6 DEF Fetches, FetchLabels, Goto, ClientInv
  <2> QED  BY <1>0, <2>3, <2>4, <2>5, <2>6, <2>7, Counts DEF Exact, Mark
<1> QED  BY <1>1, <1>2, <1>3, <1>4

-----------------------------------------------------------------------------
(* The count *)

LEMMA CallExact ==
    ASSUME ProtocolInv, NEW c \in Clients, Call(c)
    PROVE  Leaves(c) /\ SameEntry
<1>1. UNCHANGED serverVars /\ UNCHANGED fi /\ pc[c] = "idle"
  BY DEF Call, Begins, watdfs_cli_getattr, watdfs_cli_mknod, watdfs_cli_open, watdfs_cli_release,
         watdfs_cli_read, watdfs_cli_write, watdfs_cli_truncate, watdfs_cli_fsync,
         watdfs_cli_utimensat, Remount, LocalUnchanged
<1>2. \E label \in Labels \ FetchLabels : \E f : Goto(c, label, f)
  <2>1. (watdfs_cli_getattr(c) \/ watdfs_cli_open(c)) \/ (watdfs_cli_release(c) \/ watdfs_cli_mknod(c)) =>
          \E label \in {"probe", "op_open", "op_release", "mk_probe", "check", "wb_lock", "idle"} :
            \E f : Goto(c, label, f)
    BY DEF watdfs_cli_getattr, watdfs_cli_open, watdfs_cli_release, watdfs_cli_mknod, Ends
  <2>2. (watdfs_cli_read(c) \/ watdfs_cli_write(c)) \/ watdfs_cli_utimensat(c) =>
          \E label \in {"check", "idle"} : \E f : Goto(c, label, f)
    BY DEF watdfs_cli_read, watdfs_cli_write, watdfs_cli_utimensat, Ends
  <2>3. watdfs_cli_truncate(c) => \E label \in {"check", "dl_stat", "idle"} : \E f : Goto(c, label, f)
    BY DEF watdfs_cli_truncate, Ends
  <2>4. watdfs_cli_fsync(c) \/ Remount(c) => \E label \in {"wb_lock", "idle"} : \E f : Goto(c, label, f)
    BY DEF watdfs_cli_fsync, Remount, Ends
  <2>5. {"probe", "op_open", "op_release", "mk_probe", "check", "wb_lock", "idle", "dl_stat"}
          \subseteq Labels \ FetchLabels
    BY DEF Labels, FetchLabels
  <2> QED  BY <2>1, <2>2, <2>3, <2>4, <2>5 DEF Call
<1>3. SameEntry
  <2>1. PICK r : r = 0
    OBVIOUS
  <2> QED  BY <1>1, EntryCalls, Known
<1> QED  BY <1>1, <1>2, <1>3 DEF Leaves, FetchLabels

LEMMA NextSmooth ==
    ASSUME ProtocolInv, ProtocolInv', SmoothInv, [FreshNext]_freshVars
    PROVE  SmoothInv'
<1> SUFFICES ASSUME smooth' PROVE SmoothInv'
  BY DEF SmoothInv
<1>1. CASE UNCHANGED freshVars
  BY <1>1 DEF freshVars, allVars, serverVars, clientVars, SmoothInv, Failing, Has, Opening, Fetching, Lookup
<1>2. CASE FreshNext
  <2>0. smooth /\ lost = 0 /\ lost' = 0 /\ \A c \in Clients : ~Failing(c) /\ ~Failing(c)'
    BY <1>2 DEF FreshNext, SmoothInv
  <2>1. Lookup(File).openNum >= 0 /\ ClientInv /\ TableTypeOK
    <3>1. Cardinality(Opening) \in Nat /\ Cardinality(Fetching) \in Nat
      BY <2>0, FS_CardinalityType DEF SmoothInv
    <3> QED  BY <2>0, <3>1 DEF SmoothInv, ProtocolInv, TableInv
  <2>2. ASSUME NEW c \in Clients, Leaves(c), SameEntry PROVE SmoothInv'
    BY <2>0, <2>1, <2>2, LeavesExact, ExactCount DEF SmoothInv
  <2>3. ASSUME NEW c \in Clients, Call(c) PROVE SmoothInv'
    BY <2>2, <2>3, CallExact
  <2>4. ASSUME NEW c \in Clients, Continue(c) PROVE SmoothInv'
    <3>1. Succeeds(c)
      BY <2>0 DEF Succeeds
    <3>2. CASE OpOpen(c) \/ OpRelease(c) \/ DlOpen(c) \/ DlRelease(c)
      BY <2>0, <2>1, <3>1, <3>2, OpensExact, ExactCount DEF SmoothInv
    <3>3. CASE ~(OpOpen(c) \/ OpRelease(c) \/ DlOpen(c) \/ DlRelease(c))
      BY <2>2, <2>4, <3>1, <3>3, SteadyExact DEF Continue
    <3> QED  BY <3>2, <3>3
  <2>5. CASE Tick /\ UNCHANGED <<clientVars, calls, lost>>
    BY <2>0, <2>5 DEF Tick, clientVars, SmoothInv, Failing, Has, Opening, Fetching, Lookup
  <2> QED  BY <1>2, <2>3, <2>4, <2>5 DEF FreshNext, Next
<1> QED  BY <1>1, <1>2

LEMMA InitSmooth == FreshInit => SmoothInv
<1> SUFFICES ASSUME FreshInit PROVE SmoothInv
  OBVIOUS
<1>1. /\ lost = 0 /\ fi = <<>> /\ openFilesStatus_s = <<>>
      /\ \A c \in Clients : pc[c] = "idle" /\ frame[c] = Blank
  BY DEF FreshInit, Init, ServerInit
<1>2. Opening = {} /\ Fetching = {}
  BY <1>1 DEF Opening, Fetching, Has
<1>3. \A c \in Clients : ~Failing(c)
  BY <1>1 DEF Failing, Has, Blank, StdIn, BadFd
<1>4. Lookup(File).openNum = 0
  BY <1>1 DEF Lookup, Phantom
<1> QED  BY <1>1, <1>2, <1>3, <1>4, FS_EmptySet DEF SmoothInv

\* The history variables watch WatDFS and do not change what it does.
LEMMA FreshImplements == FreshSpec => Spec
<1>1. FreshInit => Init
  BY DEF FreshInit
<1>2. [FreshNext]_freshVars => [Next]_allVars
  BY DEF FreshNext, freshVars
<1> QED  BY <1>1, <1>2, PTL DEF FreshSpec, Spec

\* As long as nothing has failed openNum counts the handles of applications and the
\* downloads that have the file open, no more and no less, whatever the clients
\* call and however their calls interleave (watdfs_open and watdfs_release).
THEOREM OpenNumExactHolds == FreshSpec => []OpenNumExact
<1>1. FreshInit => SmoothInv
  BY InitSmooth
<1>2. ProtocolInv /\ ProtocolInv' /\ SmoothInv /\ [FreshNext]_freshVars => SmoothInv'
  BY NextSmooth
<1>3. SmoothInv => OpenNumExact
  BY DEF SmoothInv, OpenNumExact
<1> QED  BY <1>1, <1>2, <1>3, FreshImplements, ProtocolInvariant, PTL DEF FreshSpec
====================================================================================
