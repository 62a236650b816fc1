------------------------------ MODULE ExclusionProofs ------------------------------
(***************************************************************************)
(* Proofs that one client uploads at a time and nobody reads meanwhile     *)
(* (TransferExclusion), and what that makes of a transfer: the server has  *)
(* what was uploaded, and the client what it downloaded.                   *)
(*                                                                         *)
(* The lock excludes its holders, but it lives no longer than openNum says *)
(* that the file is open.  So the invariant counts: openNum covers every   *)
(* client that may still transfer the file, and the counters of the lock   *)
(* cover every client that transfers it.                                   *)
(*                                                                         *)
(* It is not so for mknod and truncate, which upload a file that they do   *)
(* not open: the theorems are about applications that do not call them.    *)
(***************************************************************************)
EXTENDS WatDFSProofs

\* A client that has the file open, or whose map says that it may write it: it
\* has opened it on the server, and has not released it.
Claims(c) == Has(c) \/ IsWriter(c)

Claimants == {c \in Clients : Claims(c)}
Fetchers == {c \in Clients : pc[c] \in FetchLabels}
Downloaders == {c \in Clients : Downloading(c)}
Uploaders == {c \in Clients : Uploading(c)}

Reads == {"open", "read", "getattr"}

\* An operation that transfers the file has opened it.
Entitled(label, f, claims) ==
    /\ f.op \notin {"mknod", "truncate"}
    /\ label \in DownloadLabels => f.op \in Reads
    /\ label \in UploadLabels => claims
    /\ label = "check" /\ f.op \notin Reads => claims

AllEntitled == \A c \in Clients : Entitled(pc[c], frame[c], Claims(c))

\* openNum covers the claimants, and the downloads, which open the file too.
OpenNumCoversClients ==
    /\ IsFiniteSet(Claimants) /\ IsFiniteSet(Fetchers)
    /\ Lookup(File).openNum >= Cardinality(Claimants) + Cardinality(Fetchers)

\* The counters of the lock cover those that transfer the file.
HoldersCovered ==
    Lookup(File).lock \in Locks =>
        /\ lk[Lookup(File).lock].num_readers_ >= Cardinality(Downloaders)
        /\ lk[Lookup(File).lock].num_writers_ >= Cardinality(Uploaders)

\* A thread waits for the lock in the table, in the mode of its transfer.
WaitsRightly(c) ==
    waiting[c] # NotWaiting =>
        /\ waiting[c].lock = Lookup(File).lock
        /\ waiting[c].mode = IF pc[c] = "dl_wait" THEN RW_READ_LOCK ELSE RW_WRITE_LOCK

ExclusionInv ==
    /\ OpenNumCoversClients
    /\ Lookup(File).openNum > 0 => Lookup(File).lock \in Locks
    /\ HoldersCovered
    /\ AllEntitled
    /\ \A c \in Clients : WaitsRightly(c)

-----------------------------------------------------------------------------
(* Lemmas *)

Mark(b) == IF b THEN 1 ELSE 0

\* How the size of a set changes when one member comes or goes.
LEMMA Recount ==
    ASSUME NEW S, NEW T, NEW c, IsFiniteSet(S), T \ {c} = S \ {c}
    PROVE  /\ IsFiniteSet(T)
           /\ Cardinality(S) \in Nat /\ Cardinality(T) \in Nat
           /\ Cardinality(T) - Mark(c \in T) = Cardinality(S) - Mark(c \in S)
<1> DEFINE R == S \ {c}
<1>1. IsFiniteSet(R) /\ Cardinality(S) = Cardinality(R) + Mark(c \in S)
  <2>1. /\ IsFiniteSet(R)
        /\ Cardinality(R) = IF c \in S THEN Cardinality(S) - 1 ELSE Cardinality(S)
    BY FS_RemoveElement
  <2>2. Cardinality(S) \in Nat
    BY FS_CardinalityType
  <2> QED  BY <2>1, <2>2 DEF Mark
<1>2. Cardinality(S) \in Nat /\ Cardinality(R) \in Nat
  BY <1>1, FS_CardinalityType
<1>3. CASE c \in T
  <2>1. T = R \cup {c} /\ c \notin R
    BY <1>3
  <2>2. IsFiniteSet(T) /\ Cardinality(T) = Cardinality(R) + 1
    BY <1>1, <2>1, FS_AddElement
  <2> QED  BY <1>1, <1>2, <1>3, <2>2 DEF Mark
<1>4. CASE c \notin T
  <2>1. T = R
    BY <1>4
  <2> QED  BY <1>1, <1>2, <1>4, <2>1 DEF Mark
<1> QED  BY <1>3, <1>4

LEMMA EntryType == TableTypeOK => Lookup(File) \in FileStatus
BY DEF TableTypeOK, Lookup, Phantom, FileStatus

LEMMA LockType ==
    TableTypeOK => \A l \in Locks : lk[l].num_readers_ \in Nat /\ lk[l].num_writers_ \in Nat
BY DEF TableTypeOK

-----------------------------------------------------------------------------
(* What a remote call does to the entry of the file and to its lock. *)

\* The entry stays; r readers and w writers of its lock come, or go.
HoldersMove(r, w) ==
    /\ Lookup(File)' = Lookup(File)
    /\ Lookup(File).lock \in Locks =>
         /\ lk'[Lookup(File).lock].num_readers_ = lk[Lookup(File).lock].num_readers_ + r
         /\ lk'[Lookup(File).lock].num_writers_ = lk[Lookup(File).lock].num_writers_ + w

EntryKept == HoldersMove(0, 0)

\* watdfs_open: another one joins the entry, or a new one is made.
EntryOpened(flag) ==
    LET e == Lookup(File)
        f == Lookup(File)'
    IN  /\ f.serverMode = IF flag # O_RDONLY THEN 1 ELSE IF e.openNum > 0 THEN e.serverMode ELSE 0
        /\ e.openNum > 0 =>
             /\ flag # O_RDONLY => e.serverMode = 0
             /\ f.openNum = e.openNum + 1 /\ f.lock = e.lock
             /\ e.lock \in Locks => lk'[e.lock] = lk[e.lock]
        /\ e.openNum <= 0 => f.openNum = 1 /\ f.lock \in Locks

\* watdfs_release: the entry without the closer, or none.
EntryClosed(flag) ==
    LET e == Lookup(File)
        f == Lookup(File)'
    IN  /\ f.openNum = e.openNum - 1
        /\ e.openNum # 1 =>
             /\ f.lock = e.lock
             /\ f.serverMode = IF flag # O_RDONLY THEN 0 ELSE e.serverMode
             /\ e.lock \in Locks => lk'[e.lock] = lk[e.lock]

LEMMA KeptEntry ==
    ASSUME TableTypeOK, Lookup(File)' = Lookup(File), UNCHANGED lk
    PROVE  EntryKept
BY LockType DEF EntryKept, HoldersMove

LEMMA TouchedEntry ==
    ASSUME openFilesStatus_s' = openFilesStatus_s \/ openFilesStatus_s' = Touched(File)
    PROVE  Lookup(File)' = Lookup(File)
BY DEF Touched, Put, Lookup

LEMMA ServerKeepsEntry ==
    ASSUME TableTypeOK, UNCHANGED serverVars
    PROVE  EntryKept
BY KeptEntry, TouchedEntry DEF serverVars

\* The calls on the file leave the table alone.
LEMMA FileCallsKeepEntry ==
    ASSUME TableTypeOK, NEW c \in Clients, NEW ret
    PROVE  /\ \A st : copy_getattr(c, ret, st) => EntryKept
           /\ copy_mknod(c, ret) => EntryKept
           /\ \A fh, n, data : copy_read(c, fh, n, ret, data) => EntryKept
           /\ \A fh, data : copy_write(c, fh, data, ret) => EntryKept
           /\ \A n : copy_truncate(c, n, ret) => EntryKept
           /\ \A t : copy_utimensat(c, t, ret) => EntryKept
<1>1. UNCHANGED <<openFilesStatus_s, lk>> => EntryKept
  BY KeptEntry, TouchedEntry
<1>2. ASSUME NEW st, copy_getattr(c, ret, st) PROVE EntryKept
  BY <1>1, <1>2 DEF copy_getattr, Unanswered, serverVars, watdfs_getattr
<1>3. ASSUME copy_mknod(c, ret) PROVE EntryKept
  BY <1>1, <1>3 DEF copy_mknod, Unanswered, serverVars, watdfs_mknod
<1>4. ASSUME NEW fh, NEW n, NEW data, copy_read(c, fh, n, ret, data) PROVE EntryKept
  BY <1>1, <1>4 DEF copy_read, Unanswered, serverVars, watdfs_read
<1>5. ASSUME NEW fh, NEW data, copy_write(c, fh, data, ret) PROVE EntryKept
  BY <1>1, <1>5 DEF copy_write, Unanswered, serverVars, watdfs_write
<1>6. ASSUME NEW n, copy_truncate(c, n, ret) PROVE EntryKept
  BY <1>1, <1>6 DEF copy_truncate, Unanswered, serverVars, watdfs_truncate
<1>7. ASSUME NEW t, copy_utimensat(c, t, ret) PROVE EntryKept
  BY <1>1, <1>7 DEF copy_utimensat, Unanswered, serverVars, watdfs_utimensat
<1> QED  BY <1>2, <1>3, <1>4, <1>5, <1>6, <1>7

LEMMA LockSentEntry ==
    ASSUME TableTypeOK, NEW c \in Clients, NEW m, LockSent(c, m)
    PROVE  /\ EntryKept
           /\ waiting'[c].lock = Lookup(File).lock /\ waiting'[c].mode = m
BY KeptEntry, TouchedEntry DEF LockSent, watdfs_lock_enters, TableTypeOK

\* A lock that is there is never refused.
LEMMA LockFailedEntry ==
    ASSUME TableTypeOK, NEW c \in Clients, NEW m, NEW ret, LockFailed(c, m, ret)
    PROVE  EntryKept /\ (Lookup(File).lock \in Locks => ret < 0)
<1>1. EntryKept
  BY KeptEntry, TouchedEntry DEF LockFailed, Unanswered, watdfs_lock_fails, serverVars
<1>2. Lookup(File).lock \in Locks => ret < 0
  BY NamesAssumption DEF LockFailed, Unanswered, AnswerLost, watdfs_lock_fails, EINVAL
<1> QED  BY <1>1, <1>2

LEMMA LockReturnedEntry ==
    ASSUME TableTypeOK, NEW c \in Clients, NEW ret, LockReturned(c, ret),
           waiting[c].lock = Lookup(File).lock
    PROVE  HoldersMove(Mark(waiting[c].mode = RW_READ_LOCK), Mark(waiting[c].mode # RW_READ_LOCK))
<1> DEFINE l == Lookup(File).lock
<1>1. /\ Lookup(File)' = Lookup(File)
      /\ lk' = IF waiting[c].mode = RW_READ_LOCK THEN [lk EXCEPT ![l].num_readers_ = @ + 1]
                                                 ELSE [lk EXCEPT ![l].num_writers_ = @ + 1]
  BY TouchedEntry DEF LockReturned, watdfs_lock_granted
<1> HIDE DEF l
<1>2. l \in Locks =>
        /\ lk'[l].num_readers_ = lk[l].num_readers_ + Mark(waiting[c].mode = RW_READ_LOCK)
        /\ lk'[l].num_writers_ = lk[l].num_writers_ + Mark(waiting[c].mode # RW_READ_LOCK)
  BY <1>1 DEF TableTypeOK, Mark
<1> QED  BY <1>1, <1>2 DEF HoldersMove, l

LEMMA UnlockEntry ==
    ASSUME TableTypeOK, NEW c \in Clients, NEW m, NEW ret, watdfs_cli_unlock(c, m, ret)
    PROVE  EntryKept \/ HoldersMove(-Mark(m = RW_READ_LOCK), -Mark(m # RW_READ_LOCK))
<1> DEFINE l == Lookup(File).lock
<1>1. CASE UNCHANGED serverVars
  BY <1>1, ServerKeepsEntry
<1>2. ASSUME NEW r, watdfs_unlock(c, File, m, r)
      PROVE  EntryKept \/ HoldersMove(-Mark(m = RW_READ_LOCK), -Mark(m # RW_READ_LOCK))
  <2>1. Lookup(File)' = Lookup(File)
    BY <1>2, TouchedEntry DEF watdfs_unlock
  <2>2. CASE UNCHANGED lk
    BY <2>1, <2>2, KeptEntry
  <2>3. CASE lk' = IF m = RW_READ_LOCK THEN [lk EXCEPT ![l].num_readers_ = @ - 1]
                                       ELSE [lk EXCEPT ![l].num_writers_ = @ - 1]
    <3> HIDE DEF l
    <3>1. l \in Locks => /\ lk'[l].num_readers_ = lk[l].num_readers_ + (-Mark(m = RW_READ_LOCK))
                         /\ lk'[l].num_writers_ = lk[l].num_writers_ + (-Mark(m # RW_READ_LOCK))
      BY <2>3 DEF TableTypeOK, Mark
    <3> QED  BY <2>1, <3>1 DEF HoldersMove, l
  <2> QED  BY <1>2, <2>2, <2>3 DEF watdfs_unlock
<1> QED  BY <1>1, <1>2 DEF watdfs_cli_unlock, Unanswered

-----------------------------------------------------------------------------
(* The invariant survives a step of client c that keeps the balance. *)

\* Only c does something, and it goes to label.
Lands(c, label) ==
    /\ pc' = [pc EXCEPT ![c] = label]
    /\ \A d \in Clients \ {c} : frame'[d] = frame[d]
    /\ SameBut(openFilesStatus, openFilesStatus', c) /\ SameBut(fi, fi', c)
    /\ Entitled(label, frame'[c], Claims(c)')

WaitsKept(c) == \A d \in Clients \ {c} : waiting'[d] = waiting[d]

Fetches(c) == pc[c] \in FetchLabels

\* No more clients count on openNum than it counts.
Balanced(c) ==
    Lookup(File)'.openNum - Mark(Claims(c)') - Mark(Fetches(c)')
        >= Lookup(File).openNum - Mark(Claims(c)) - Mark(Fetches(c))

\* Nor on the lock than it knows of.
LockBalanced(c) ==
    LET e == Lookup(File)
    IN  /\ Lookup(File)'.lock = e.lock
        /\ Lookup(File)'.openNum > 0 => e.openNum > 0
        /\ e.lock \in Locks =>
             /\ lk'[e.lock].num_readers_ - Mark(Downloading(c)')
                    >= lk[e.lock].num_readers_ - Mark(Downloading(c))
             /\ lk'[e.lock].num_writers_ - Mark(Uploading(c)')
                    >= lk[e.lock].num_writers_ - Mark(Uploading(c))

\* Those that transfer the file, or wait to, are among those that have it open.
LEMMA HoldersHaveOpen ==
    ProtocolInv /\ AllEntitled =>
        /\ Downloaders \subseteq Fetchers /\ Uploaders \subseteq Claimants
        /\ \A d \in Clients : waiting[d] # NotWaiting => d \in Fetchers \cup Claimants
<1>1. ProtocolInv => \A c \in Clients : waiting[c] # NotWaiting => pc[c] \in {"dl_wait", "wb_wait"}
  BY Known
<1> QED  BY <1>1 DEF Downloaders, Fetchers, Uploaders, Claimants, Downloading, Uploading, Fetches,
                     FetchLabels, AllEntitled, Entitled, UploadLabels

\* When openNum counts nobody, nobody has the file open.
LEMMA NobodyCounted ==
    ProtocolInv /\ OpenNumCoversClients /\ Lookup(File).openNum <= 0 =>
        Claimants = {} /\ Fetchers = {}
<1> SUFFICES ASSUME ProtocolInv, OpenNumCoversClients, Lookup(File).openNum <= 0
             PROVE  Claimants = {} /\ Fetchers = {}
  OBVIOUS
<1>1. Cardinality(Claimants) \in Nat /\ Cardinality(Fetchers) \in Nat
  BY FS_CardinalityType DEF OpenNumCoversClients
<1>2. Lookup(File).openNum \in Int
  BY EntryType DEF ProtocolInv, TableInv, FileStatus
<1>3. Cardinality(Claimants) = 0 /\ Cardinality(Fetchers) = 0
  BY <1>1, <1>2 DEF OpenNumCoversClients
<1> QED  BY <1>3, FS_EmptySet DEF OpenNumCoversClients

LEMMA OthersStand ==
    ASSUME ProtocolInv, NEW c \in Clients, NEW label, Lands(c, label)
    PROVE  /\ pc'[c] = label
           /\ \A d \in Clients \ {c} :
                /\ pc'[d] = pc[d] /\ frame'[d] = frame[d]
                /\ Claims(d)' <=> Claims(d)
           /\ Claimants' \ {c} = Claimants \ {c} /\ Fetchers' \ {c} = Fetchers \ {c}
           /\ Downloaders' \ {c} = Downloaders \ {c} /\ Uploaders' \ {c} = Uploaders \ {c}
           /\ c \in Claimants <=> Claims(c)
           /\ c \in Claimants' <=> Claims(c)'
<1>1. pc'[c] = label /\ \A d \in Clients \ {c} : pc'[d] = pc[d]
  BY DEF Lands, ProtocolInv, ClientInv
<1>2. \A d \in Clients \ {c} : /\ Has(d)' <=> Has(d)
                               /\ IsWriter(d)' <=> IsWriter(d)
  BY DEF Lands, SameBut, Has, IsWriter, IsOpenHere
<1>3. \A d \in Clients \ {c} : Claims(d)' <=> Claims(d)
  BY <1>2 DEF Claims
<1>4. Claimants' \ {c} = Claimants \ {c} /\ (c \in Claimants <=> Claims(c)) /\ (c \in Claimants' <=> Claims(c)')
  BY <1>3 DEF Claimants
<1>5. /\ Fetchers' \ {c} = Fetchers \ {c}
      /\ Downloaders' \ {c} = Downloaders \ {c} /\ Uploaders' \ {c} = Uploaders \ {c}
  BY <1>1 DEF Fetchers, Downloaders, Uploaders, Downloading, Uploading
<1> QED  BY <1>1, <1>3, <1>4, <1>5 DEF Lands

LEMMA BalancedStep ==
    ASSUME ProtocolInv, ProtocolInv', ExclusionInv, NEW c \in Clients, NEW label, Lands(c, label),
           WaitsKept(c), WaitsRightly(c)', Balanced(c),
           \/ LockBalanced(c)
           \/ Lookup(File)'.openNum <= 0
           \/ /\ Lookup(File).openNum <= 0 /\ Lookup(File)'.lock \in Locks
              /\ ~Downloading(c)' /\ ~Uploading(c)'
    PROVE  ExclusionInv'
<1> DEFINE e == Lookup(File)
           g == Lookup(File)'
<1>1. e.openNum \in Int /\ g.openNum \in Int
  <2>1. TableTypeOK /\ TableTypeOK'
    BY DEF ProtocolInv, TableInv
  <2>2. TableTypeOK' => (Lookup(File) \in FileStatus)'
    BY EntryType, PTL
  <2> QED  BY <2>1, <2>2, EntryType DEF FileStatus
<1>0. \A l \in Locks : /\ lk[l].num_readers_ \in Nat /\ lk[l].num_writers_ \in Nat
                      /\ lk'[l].num_readers_ \in Nat /\ lk'[l].num_writers_ \in Nat
  BY DEF ProtocolInv, TableInv, TableTypeOK
<1>2. AllEntitled'
  <2>1. ASSUME NEW d \in Clients \ {c} PROVE Entitled(pc[d], frame[d], Claims(d))'
    BY OthersStand DEF ExclusionInv, AllEntitled, Entitled
  <2>2. Entitled(pc[c], frame[c], Claims(c))'
    BY OthersStand DEF Lands, Entitled
  <2> QED  BY <2>1, <2>2 DEF AllEntitled
<1>3. OpenNumCoversClients'
  <2>1. /\ IsFiniteSet(Claimants') /\ Cardinality(Claimants) \in Nat /\ Cardinality(Claimants') \in Nat
        /\ Cardinality(Claimants') - Mark(Claims(c)') = Cardinality(Claimants) - Mark(Claims(c))
    BY OthersStand, Recount DEF ExclusionInv, OpenNumCoversClients, Mark
  <2>2. /\ IsFiniteSet(Fetchers') /\ Cardinality(Fetchers) \in Nat /\ Cardinality(Fetchers') \in Nat
        /\ Cardinality(Fetchers') - Mark(Fetches(c)') = Cardinality(Fetchers) - Mark(Fetches(c))
    <3>1. (c \in Fetchers <=> Fetches(c)) /\ (c \in Fetchers' <=> Fetches(c)')
      BY DEF Fetchers, Fetches
    <3> QED  BY <3>1, OthersStand, Recount DEF ExclusionInv, OpenNumCoversClients, Mark
  <2>3. e.openNum >= Cardinality(Claimants) + Cardinality(Fetchers)
    BY DEF ExclusionInv, OpenNumCoversClients
  <2>4. \A b : Mark(b) \in Int
    BY DEF Mark
  <2>5. g.openNum - Mark(Claims(c)') - Mark(Fetches(c)')
            >= e.openNum - Mark(Claims(c)) - Mark(Fetches(c))
    BY DEF Balanced
  <2>6. g.openNum >= Cardinality(Claimants') + Cardinality(Fetchers')
    <3> HIDE DEF e, g
    <3> QED  BY <1>1, <2>1, <2>2, <2>3, <2>4, <2>5
  <2> QED  BY <2>1, <2>2, <2>6 DEF OpenNumCoversClients
<1> HIDE DEF e, g
<1>4. g.openNum <= 0 => Claimants' = {} /\ Fetchers' = {}
  <2>1. (ProtocolInv /\ OpenNumCoversClients /\ Lookup(File).openNum <= 0)' =>
          (Claimants = {} /\ Fetchers = {})'
    BY NobodyCounted, PTL
  <2> QED  BY <1>3, <2>1 DEF g
<1>5. e.openNum <= 0 => Claimants = {} /\ Fetchers = {}
  BY NobodyCounted DEF ExclusionInv, e
<1>6. /\ Downloaders \subseteq Fetchers /\ Uploaders \subseteq Claimants
      /\ \A d \in Clients : waiting[d] # NotWaiting => d \in Fetchers \cup Claimants
      /\ Downloaders' \subseteq Fetchers' /\ Uploaders' \subseteq Claimants'
      /\ \A d \in Clients : waiting'[d] # NotWaiting => d \in Fetchers' \cup Claimants'
  <2>1. (ProtocolInv /\ AllEntitled)' =>
          (/\ Downloaders \subseteq Fetchers /\ Uploaders \subseteq Claimants
           /\ \A d \in Clients : waiting[d] # NotWaiting => d \in Fetchers \cup Claimants)'
    BY HoldersHaveOpen, PTL
  <2> QED  BY <1>2, <2>1, HoldersHaveOpen DEF ExclusionInv
<1>7. CASE g.openNum <= 0
  <2>1. Downloaders' = {} /\ Uploaders' = {} /\ \A d \in Clients : waiting'[d] = NotWaiting
    BY <1>4, <1>6, <1>7
  <2>2. HoldersCovered'
    BY <1>0, <2>1, FS_EmptySet DEF HoldersCovered
  <2>3. ~(Lookup(File)'.openNum > 0)
    BY <1>1, <1>7 DEF g
  <2> QED  BY <1>2, <1>3, <2>1, <2>2, <2>3 DEF ExclusionInv, WaitsRightly
<1>8. CASE e.openNum <= 0 /\ g.lock \in Locks /\ ~Downloading(c)' /\ ~Uploading(c)'
  <2>1. Downloaders' = {} /\ Uploaders' = {}
    <3>1. Downloaders' \ {c} = {} /\ Uploaders' \ {c} = {}
      BY <1>5, <1>6, <1>8, OthersStand
    <3> QED  BY <1>8, <3>1 DEF Downloaders, Uploaders
  <2>2. HoldersCovered'
    BY <1>0, <2>1, FS_EmptySet DEF HoldersCovered
  <2>3. \A d \in Clients \ {c} : waiting'[d] = NotWaiting
    BY <1>5, <1>6, <1>8 DEF WaitsKept
  <2> QED  BY <1>2, <1>3, <1>8, <2>2, <2>3 DEF ExclusionInv, WaitsRightly, g
<1>9. CASE LockBalanced(c)
  <2>1. g.lock = e.lock
    BY <1>9 DEF LockBalanced, e, g
  <2>2. Lookup(File)'.openNum > 0 => Lookup(File)'.lock \in Locks
    BY <1>9, <2>1 DEF LockBalanced, ExclusionInv, e, g
  <2>3. HoldersCovered'
    <3>1. SUFFICES ASSUME e.lock \in Locks
                   PROVE  /\ lk'[e.lock].num_readers_ >= Cardinality(Downloaders')
                          /\ lk'[e.lock].num_writers_ >= Cardinality(Uploaders')
      BY <2>1 DEF HoldersCovered, e, g
    <3>2. /\ Cardinality(Downloaders) \in Nat /\ Cardinality(Downloaders') \in Nat
          /\ Cardinality(Downloaders') - Mark(Downloading(c)') = Cardinality(Downloaders) - Mark(Downloading(c))
      <4>1. IsFiniteSet(Downloaders)
        BY <1>6, FS_Subset DEF ExclusionInv, OpenNumCoversClients
      <4>2. (c \in Downloaders <=> Downloading(c)) /\ (c \in Downloaders' <=> Downloading(c)')
        BY DEF Downloaders
      <4> QED  BY <4>1, <4>2, OthersStand, Recount DEF Mark
    <3>3. /\ Cardinality(Uploaders) \in Nat /\ Cardinality(Uploaders') \in Nat
          /\ Cardinality(Uploaders') - Mark(Uploading(c)') = Cardinality(Uploaders) - Mark(Uploading(c))
      <4>1. IsFiniteSet(Uploaders)
        BY <1>6, FS_Subset DEF ExclusionInv, OpenNumCoversClients
      <4>2. (c \in Uploaders <=> Uploading(c)) /\ (c \in Uploaders' <=> Uploading(c)')
        BY DEF Uploaders
      <4> QED  BY <4>1, <4>2, OthersStand, Recount DEF Mark
    <3>4. /\ lk'[e.lock].num_readers_ - Mark(Downloading(c)')
                >= lk[e.lock].num_readers_ - Mark(Downloading(c))
          /\ lk'[e.lock].num_writers_ - Mark(Uploading(c)')
                >= lk[e.lock].num_writers_ - Mark(Uploading(c))
          /\ lk[e.lock].num_readers_ >= Cardinality(Downloaders)
          /\ lk[e.lock].num_writers_ >= Cardinality(Uploaders)
      BY <1>9, <3>1 DEF LockBalanced, ExclusionInv, HoldersCovered, e
    <3>5. /\ lk[e.lock].num_readers_ \in Nat /\ lk[e.lock].num_writers_ \in Nat
          /\ lk'[e.lock].num_readers_ \in Nat /\ lk'[e.lock].num_writers_ \in Nat
      BY <1>0, <3>1
    <3>6. \A b : Mark(b) \in Int
      BY DEF Mark
    <3> QED  BY <3>2, <3>3, <3>4, <3>5, <3>6
  <2>4. \A d \in Clients : WaitsRightly(d)'
    <3>1. ASSUME NEW d \in Clients \ {c} PROVE WaitsRightly(d)'
      BY <2>1, OthersStand DEF WaitsRightly, WaitsKept, ExclusionInv, e, g
    <3> QED  BY <3>1
  <2> QED  BY <1>2, <1>3, <2>2, <2>3, <2>4 DEF ExclusionInv
<1> QED  BY <1>7, <1>8, <1>9 DEF e, g

\* A step in which readers and writers come, or go, as many as there are grants and
\* unlocks, and nobody opens or closes the file on the server.
LEMMA HoldersStep ==
    ASSUME ProtocolInv, ProtocolInv', ExclusionInv, NEW c \in Clients, NEW label, Lands(c, label),
           WaitsKept(c), WaitsRightly(c)', NEW r \in Int, NEW w \in Int, HoldersMove(r, w),
           Claims(c)' => Claims(c), Fetches(c)' => Fetches(c),
           r >= Mark(Downloading(c)') - Mark(Downloading(c)),
           w >= Mark(Uploading(c)') - Mark(Uploading(c))
    PROVE  ExclusionInv'
<1>1. Lookup(File).openNum \in Int
  BY EntryType DEF ProtocolInv, TableInv, FileStatus
<1>2. Balanced(c)
  BY <1>1 DEF HoldersMove, Balanced, Mark
<1>3. LockBalanced(c)
  <2>1. SUFFICES ASSUME Lookup(File).lock \in Locks
                 PROVE  LET l == Lookup(File).lock
                        IN  /\ lk'[l].num_readers_ - Mark(Downloading(c)')
                                    >= lk[l].num_readers_ - Mark(Downloading(c))
                            /\ lk'[l].num_writers_ - Mark(Uploading(c)')
                                    >= lk[l].num_writers_ - Mark(Uploading(c))
    BY DEF LockBalanced, HoldersMove
  <2>2. lk[Lookup(File).lock].num_readers_ \in Nat /\ lk[Lookup(File).lock].num_writers_ \in Nat
    BY <2>1, LockType DEF ProtocolInv, TableInv
  <2>3. \A b : Mark(b) \in Int
    BY DEF Mark
  <2> QED  BY <2>1, <2>2, <2>3 DEF HoldersMove
<1> QED  BY <1>2, <1>3, BalancedStep

\* A step that nobody opens, closes, locks or unlocks the file in.
LEMMA QuietStep ==
    ASSUME ProtocolInv, ProtocolInv', ExclusionInv, NEW c \in Clients, NEW label, Lands(c, label),
           WaitsKept(c), WaitsRightly(c)', EntryKept,
           Claims(c)' => Claims(c),
           label \in FetchLabels => pc[c] \in FetchLabels,
           label \in {"dl_read", "dl_unlock"} => Downloading(c),
           label \in {"wb_trunc", "wb_write", "wb_utime", "wb_unlock"} => Uploading(c)
    PROVE  ExclusionInv'
<1>1. pc'[c] = label
  BY OthersStand
<1>2. Fetches(c)' => Fetches(c)
  BY <1>1 DEF Fetches
<1>3. 0 >= Mark(Downloading(c)') - Mark(Downloading(c))
  BY <1>1 DEF Downloading, Mark
<1>4. 0 >= Mark(Uploading(c)') - Mark(Uploading(c))
  BY <1>1 DEF Uploading, Mark
<1> QED  BY <1>2, <1>3, <1>4, HoldersStep DEF EntryKept

LEMMA CalmWaits ==
    ASSUME NEW c \in Clients, Calm(c)
    PROVE  WaitsKept(c) /\ WaitsRightly(c)'
BY DEF Calm, OthersKept, WaitsKept, WaitsRightly

-----------------------------------------------------------------------------
(* What the client does with an answer *)

\* What is known of a client before its step.
LEMMA Knowing ==
    ASSUME ProtocolInv, ExclusionInv, NEW c \in Clients
    PROVE  /\ ClientInv /\ TableTypeOK /\ now \in Times /\ frame[c] \in Frames
           /\ Typed(c) /\ Backed(c) /\ Placed(c) /\ Kept(c)
           /\ Entitled(pc[c], frame[c], Claims(c)) /\ WaitsRightly(c)
           /\ pc[c] \notin {"dl_wait", "wb_wait"} => waiting[c] = NotWaiting
BY Known DEF ExclusionInv, AllEntitled

LEMMA Arrives ==
    ASSUME ClientInv, NEW c \in Clients, NEW label, NEW f, Goto(c, label, f),
           SameBut(openFilesStatus, openFilesStatus', c), SameBut(fi, fi', c),
           Entitled(label, f, Claims(c)')
    PROVE  Lands(c, label)
BY DEF ClientInv, Goto, Lands

\* The map is as it was, but for operator[] and the time of the last check.
LEMMA RetimedClaims ==
    ASSUME NEW c \in Clients, Retimed(openFilesStatus', c)
    PROVE  /\ SameBut(openFilesStatus, openFilesStatus', c)
           /\ IsWriter(c)' <=> IsWriter(c)
           /\ UNCHANGED fi => (Claims(c)' <=> Claims(c)) /\ SameBut(fi, fi', c)
           /\ fi' = Erase(fi, c) => (Claims(c)' => Claims(c)) /\ SameBut(fi, fi', c)
<1>1. SameBut(openFilesStatus, openFilesStatus', c)
  BY DEF Retimed
<1>2. IsWriter(c)' <=> IsWriter(c)
  BY DEF Retimed, IsWriter, IsOpenHere
<1> QED  BY <1>1, <1>2, SameButs DEF Claims, Has

LEMMA ReturnArrives ==
    ASSUME ClientInv, NEW c \in Clients, Entitled(pc[c], frame[c], Claims(c)),
           NEW ret \in Int, Return(c, ret),
           SameBut(openFilesStatus, openFilesStatus', c), SameBut(fi, fi', c)
    PROVE  Lands(c, "idle")
<1>1. frame[c].op \in Ops \cup {"none"}
  BY FrameFields DEF ClientInv
<1> DEFINE f == [Blank EXCEPT !.op = frame[c].op, !.ret = ret]
<1>2. f.op = frame[c].op
  BY <1>1, BlankFrames
<1>3. Goto(c, "idle", f)
  BY DEF Return
<1> HIDE DEF f
<1>4. Entitled("idle", f, Claims(c)')
  BY <1>2 DEF Entitled, DownloadLabels, UploadLabels
<1> QED  BY <1>3, <1>4, Arrives

LEMMA DownloadFailedArrives ==
    ASSUME ClientInv, now \in Times, NEW c \in Clients, Entitled(pc[c], frame[c], Claims(c)),
           NEW ret \in Int, DownloadFailed(c, ret)
    PROVE  Lands(c, "idle") /\ (Claims(c)' => Claims(c))
<1>1. Retimed(openFilesStatus', c)
  <2>1. openFilesStatus' = openFilesStatus \/ openFilesStatus' = MetaTouched(c)
    BY DEF DownloadFailed
  <2> QED  BY <2>1, Retimes
<1>2. UNCHANGED fi \/ fi' = Erase(fi, c)
  BY DEF DownloadFailed
<1>3. /\ SameBut(openFilesStatus, openFilesStatus', c) /\ SameBut(fi, fi', c)
      /\ Claims(c)' => Claims(c)
  BY <1>1, <1>2, RetimedClaims
<1> QED  BY <1>3, ReturnArrives DEF DownloadFailed

LEMMA DownloadedArrives ==
    ASSUME ClientInv, NEW c \in Clients, Entitled(pc[c], frame[c], Claims(c)),
           pc[c] \in DownloadLabels, Downloaded(c)
    PROVE  Lands(c, "idle") /\ (Claims(c)' => Claims(c))
<1>1. frame[c].op \in Reads
  BY DEF Entitled
<1>2. Return(c, 0) /\ UNCHANGED fi
  BY <1>1 DEF Downloaded, Reads
<1>3. openFilesStatus' = openFilesStatus \/ openFilesStatus' = Erase(openFilesStatus, c)
  BY DEF Downloaded, Closed
<1>4. /\ SameBut(openFilesStatus, openFilesStatus', c) /\ SameBut(fi, fi', c)
      /\ IsWriter(c)' => IsWriter(c)
  BY <1>2, <1>3, SameButs DEF IsWriter, IsOpenHere
<1>5. Claims(c)' => Claims(c)
  BY <1>2, <1>4 DEF Claims, Has
<1> QED  BY <1>2, <1>4, <1>5, ReturnArrives

LEMMA WriteBackDoneArrives ==
    ASSUME ClientInv, now \in Times, NEW c \in Clients, Entitled(pc[c], frame[c], Claims(c)),
           NEW ret \in Int, WriteBackDone(c, ret)
    PROVE  \E label \in {"idle", "op_release"} : Lands(c, label) /\ (Claims(c)' => Claims(c))
<1>1. Retimed(openFilesStatus', c)
  <2>1. openFilesStatus' = openFilesStatus \/ openFilesStatus' = [openFilesStatus EXCEPT ![c].tc = now]
    BY DEF WriteBackDone
  <2>2. /\ Retimed(openFilesStatus, c)
        /\ \A m : Retimed(m, c) => Retimed([m EXCEPT ![c].tc = now], c)
    BY Retimes
  <2> QED  BY <2>1, <2>2
<1>2. UNCHANGED fi \/ fi' = Erase(fi, c)
  BY DEF WriteBackDone
<1>3. /\ SameBut(openFilesStatus, openFilesStatus', c) /\ SameBut(fi, fi', c)
      /\ Claims(c)' => Claims(c)
  BY <1>1, <1>2, RetimedClaims
<1>4. CASE Return(c, ret)
  BY <1>3, <1>4, ReturnArrives
<1>5. CASE Step(c, "op_release")
  <2>1. Entitled("op_release", frame[c], Claims(c)')
    BY DEF Entitled, DownloadLabels, FetchLabels, UploadLabels
  <2> QED  BY <1>3, <1>5, <2>1, Arrives DEF Step
<1> QED  BY <1>4, <1>5 DEF WriteBackDone

LEMMA WhenFreshArrives ==
    ASSUME ClientInv, now \in Times, NEW c \in Clients, Entitled(pc[c], frame[c], Claims(c)),
           pc[c] = "check", NEW m, Retimed(m, c), WhenFresh(c, m)
    PROVE  Lands(c, "idle") /\ (Claims(c)' => Claims(c))
<1>1. Kept(c) /\ frame[c].ret \in Int
  BY FrameFields DEF ClientInv
<1>2. Return(c, frame[c].ret) /\ UNCHANGED fi
  BY DEF WhenFresh
<1>3. CASE frame[c].op = "open"
  <2>1. Has(c)
    BY <1>1, <1>3 DEF Kept, CallKept
  <2>2. openFilesStatus' = Put(m, c, [clientMode |-> frame[c].flag, tc |-> now, serverDesc |-> fi[c].fh])
    BY <1>3 DEF WhenFresh
  <2>3. SameBut(openFilesStatus, openFilesStatus', c) /\ SameBut(fi, fi', c)
    BY <1>2, <2>2, SameButs DEF Retimed, SameBut, Put
  <2> QED  BY <1>1, <1>2, <2>1, <2>3, ReturnArrives DEF Claims
<1>4. CASE frame[c].op # "open"
  <2>1. openFilesStatus' = m \/ openFilesStatus' = [m EXCEPT ![c].tc = now]
    BY <1>4 DEF WhenFresh
  <2>2. Retimed(openFilesStatus', c)
    <3>1. \A k : Retimed(k, c) => Retimed([k EXCEPT ![c].tc = now], c)
      BY Retimes
    <3> QED  BY <2>1, <3>1
  <2> QED  BY <1>1, <1>2, <2>2, RetimedClaims, ReturnArrives
<1> QED  BY <1>3, <1>4

LEMMA WhenStaleArrives ==
    ASSUME ClientInv, now \in Times, NEW c \in Clients, Entitled(pc[c], frame[c], Claims(c)),
           pc[c] = "check", NEW m, Retimed(m, c), WhenStale(c, m)
    PROVE  \E label \in {"dl_stat", "wb_lock"} : Lands(c, label) /\ (Claims(c)' => Claims(c))
<1>1. Retimed(openFilesStatus', c) /\ UNCHANGED fi
  BY DEF WhenStale
<1>2. /\ SameBut(openFilesStatus, openFilesStatus', c) /\ SameBut(fi, fi', c)
      /\ Claims(c)' <=> Claims(c)
  BY <1>1, RetimedClaims
<1>3. PICK label \in {"dl_stat", "wb_lock"} :
        Goto(c, label, frame[c]) /\ (label = "dl_stat" <=> frame[c].op \in Reads)
  BY DEF WhenStale, Step, Reads
<1>4. Entitled(label, frame[c], Claims(c)')
  BY <1>2, <1>3 DEF Entitled, DownloadLabels, FetchLabels, UploadLabels
<1> QED  BY <1>2, <1>3, <1>4, Arrives

-----------------------------------------------------------------------------
(* Opening and releasing the file *)

LEMMA OpenEntry ==
    ASSUME TableTypeOK, NEW c \in Clients, NEW flag \in OpenFlags, NEW ret, NEW fh,
           copy_open(c, flag, ret, fh)
    PROVE  (ret < 0 /\ EntryKept) \/ EntryOpened(flag)
<1>1. CASE UNCHANGED serverVars /\ ret < 0
  BY <1>1, ServerKeepsEntry
<1>2. ASSUME NEW r, NEW h, watdfs_open(c, File, flag, r, h), ret < 0 \/ r = ret
      PROVE  (ret < 0 /\ EntryKept) \/ EntryOpened(flag)
  <2> DEFINE e == Lookup(File)
             g == Lookup(File)'
  <2>1. e \in FileStatus /\ e.openNum \in Int /\ e = Fields(e)
    BY EntryType DEF FileStatus, Fields
  <2>2. Counted(File) <=> e.openNum > 0
    BY DEF Counted, Lookup, Phantom
  <2>3. CASE WriteConflict(File, flag)
    <3>1. r = -EACCES /\ UNCHANGED <<openFilesStatus_s, lk>>
      BY <1>2, <2>3 DEF watdfs_open
    <3>2. EntryKept
      BY <3>1, TouchedEntry, KeptEntry
    <3> QED  BY <1>2, <3>1, <3>2 DEF EACCES
  <2>4. CASE ~WriteConflict(File, flag) /\ Counted(File)
    <3>1. JoinEntry(File, flag) /\ File \in DOMAIN openFilesStatus_s /\ e = openFilesStatus_s[File]
      BY <1>2, <2>4 DEF watdfs_open, Counted, Lookup
    <3>2. g = [e EXCEPT !.serverMode = IF flag # O_RDONLY THEN 1 ELSE @, !.openNum = @ + 1]
      BY <3>1 DEF JoinEntry, Lookup
    <3>3. UNCHANGED lk /\ (flag # O_RDONLY => e.serverMode # 1)
      BY <2>4, <3>1 DEF JoinEntry, WriteConflict
    <3>4. e.serverMode \in {0, 1}
      BY <2>1 DEF FileStatus
    <3>5. EntryOpened(flag)
      <4> HIDE DEF e, g
      <4>1. g = [serverMode |-> IF flag # O_RDONLY THEN 1 ELSE e.serverMode,
                 openNum |-> e.openNum + 1, lock |-> e.lock]
        BY <2>1, <3>2 DEF Fields
      <4> QED  BY <2>1, <2>2, <2>4, <3>3, <3>4, <4>1 DEF EntryOpened, e, g
    <3> QED  BY <3>5
  <2>5. CASE ~WriteConflict(File, flag) /\ ~Counted(File)
    <3>1. NewEntry(File, flag)
      BY <1>2, <2>5 DEF watdfs_open
    <3>2. PICK l \in Locks :
            g = [serverMode |-> IF flag = O_RDONLY THEN 0 ELSE 1, openNum |-> 1, lock |-> l]
      BY <3>1 DEF NewEntry, Put, Lookup
    <3>3. EntryOpened(flag)
      <4> HIDE DEF e, g
      <4> QED  BY <2>1, <2>2, <2>5, <3>2 DEF EntryOpened, e, g
    <3> QED  BY <3>3
  <2> QED  BY <2>3, <2>4, <2>5
<1> QED  BY <1>1, <1>2 DEF copy_open, Unanswered, AnswerLost, EINVAL

\* A release changes the entry only if the handle is open, and then unless it was lost.
LEMMA ReleaseEntry ==
    ASSUME TableTypeOK, NEW c \in Clients, NEW flag \in OpenFlags, NEW fh, NEW ret,
           copy_release(c, flag, fh, ret)
    PROVE  /\ EntryKept \/ EntryClosed(flag)
           /\ IsOpen(fh) => EntryClosed(flag) \/ AnswerLost(ret)
<1>1. CASE UNCHANGED serverVars /\ AnswerLost(ret)
  BY <1>1, ServerKeepsEntry
<1>2. ASSUME NEW r, watdfs_release(c, File, flag, fh, r)
      PROVE  /\ EntryKept \/ EntryClosed(flag)
             /\ IsOpen(fh) => EntryClosed(flag)
  <2> DEFINE e == Lookup(File)
             g == Lookup(File)'
  <2>1. e \in FileStatus /\ e.openNum \in Int /\ e = Fields(e)
    BY EntryType DEF FileStatus, Fields
  <2>2. CASE ~IsOpen(fh)
    <3>1. UNCHANGED <<openFilesStatus_s, lk>>
      BY <1>2, <2>2 DEF watdfs_release
    <3> QED  BY <2>2, <3>1, TouchedEntry, KeptEntry
  <2>3. CASE IsOpen(fh)
    <3> DEFINE u == Uncounted(File, flag)
    <3>1. CloseEntry(File, flag)
      BY <1>2, <2>3 DEF watdfs_release
    <3>2. u = [serverMode |-> IF flag # O_RDONLY THEN 0 ELSE e.serverMode,
               openNum |-> e.openNum - 1, lock |-> e.lock]
      <4>1. u = [e EXCEPT !.openNum = @ - 1, !.serverMode = IF flag # O_RDONLY THEN 0 ELSE @]
        BY DEF Uncounted
      <4> HIDE DEF e, u
      <4> QED  BY <2>1, <4>1 DEF Fields
    <3>3. CASE u.openNum = 0
      <4>1. g = Phantom
        BY <3>1, <3>3 DEF CloseEntry, LastCloser, Erase, Lookup
      <4> HIDE DEF e, g, u
      <4> QED  BY <2>1, <3>2, <3>3, <4>1 DEF EntryClosed, Phantom, e, g
    <3>4. CASE u.openNum # 0
      <4>1. g = u /\ UNCHANGED lk
        BY <3>1, <3>4 DEF CloseEntry, LastCloser, Put, Lookup
      <4> HIDE DEF e, g, u
      <4> QED  BY <2>1, <3>2, <3>4, <4>1 DEF EntryClosed, e, g
    <3> QED  BY <3>3, <3>4
  <2> QED  BY <2>2, <2>3
<1> QED  BY <1>1, <1>2 DEF copy_release, Unanswered

\* A client that opens the file on the server, for itself or for a download.
LEMMA OpenStep ==
    ASSUME ProtocolInv, ProtocolInv', ExclusionInv, NEW c \in Clients, NEW label, Lands(c, label),
           Calm(c), NEW flag, EntryOpened(flag),
           Mark(Claims(c)') + Mark(Fetches(c)') <= Mark(Claims(c)) + Mark(Fetches(c)) + 1,
           label \notin {"dl_read", "dl_unlock", "wb_trunc", "wb_write", "wb_utime", "wb_unlock"}
    PROVE  ExclusionInv'
<1>1. WaitsKept(c) /\ WaitsRightly(c)'
  BY CalmWaits
<1>2. Lookup(File).openNum \in Int
  BY EntryType DEF ProtocolInv, TableInv, FileStatus
<1>3. Lookup(File)'.openNum >= Lookup(File).openNum + 1
  BY <1>2 DEF EntryOpened
<1>4. Lookup(File)'.openNum \in Int
  BY <1>2 DEF EntryOpened
<1>5. Balanced(c)
  <2>1. \A b : Mark(b) \in Int
    BY DEF Mark
  <2> QED  BY <1>2, <1>3, <1>4, <2>1 DEF Balanced
<1>6. ~Downloading(c)' /\ ~Uploading(c)'
  BY OthersStand DEF Downloading, Uploading
<1>7. CASE Lookup(File).openNum <= 0
  BY <1>1, <1>5, <1>6, <1>7, BalancedStep DEF EntryOpened
<1>8. CASE Lookup(File).openNum > 0
  <2>1. LockBalanced(c)
    BY <1>6, <1>8, LockType DEF EntryOpened, LockBalanced, Mark, ProtocolInv, TableInv
  <2> QED  BY <1>1, <1>5, <2>1, BalancedStep
<1> QED  BY <1>2, <1>7, <1>8

\* A client that releases the file has one thing less to do with it.
LEMMA CloseStep ==
    ASSUME ProtocolInv, ProtocolInv', ExclusionInv, NEW c \in Clients, NEW label, Lands(c, label),
           WaitsKept(c), WaitsRightly(c)', NEW flag, EntryKept \/ EntryClosed(flag),
           Mark(Claims(c)') + Mark(Fetches(c)') <= Mark(Claims(c)) + Mark(Fetches(c)) - 1,
           ~Downloading(c)', ~Uploading(c)'
    PROVE  ExclusionInv'
<1>1. Lookup(File).openNum \in Int /\ \A b : Mark(b) \in Int
  BY EntryType DEF ProtocolInv, TableInv, FileStatus, Mark
<1>2. Lookup(File)'.openNum \in Int /\ Lookup(File)'.openNum >= Lookup(File).openNum - 1
  BY <1>1 DEF EntryClosed, EntryKept, HoldersMove
<1>3. Balanced(c)
  BY <1>1, <1>2 DEF Balanced
<1>4. CASE EntryKept
  <2>1. LockBalanced(c)
    BY <1>4, LockType DEF EntryKept, HoldersMove, LockBalanced, Mark, ProtocolInv, TableInv
  <2> QED  BY <1>3, <2>1, BalancedStep
<1>5. CASE EntryClosed(flag) /\ Lookup(File).openNum <= 1
  <2>1. Lookup(File)'.openNum <= 0
    BY <1>1, <1>5 DEF EntryClosed
  <2> QED  BY <1>3, <2>1, BalancedStep
<1>6. CASE EntryClosed(flag) /\ Lookup(File).openNum > 1
  <2>1. LockBalanced(c)
    BY <1>1, <1>6, LockType DEF EntryClosed, LockBalanced, Mark, ProtocolInv, TableInv
  <2> QED  BY <1>3, <2>1, BalancedStep
<1> QED  BY <1>1, <1>4, <1>5, <1>6

-----------------------------------------------------------------------------
(* One lemma per action *)

LEMMA CheckIntervalExcl ==
    ASSUME ProtocolInv, ProtocolInv', ExclusionInv, NEW c \in Clients, CheckInterval(c)
    PROVE  ExclusionInv'
<1>1. pc[c] = "check" /\ WhenFresh(c, openFilesStatus) /\ UNCHANGED serverVars
  BY DEF CheckInterval
<1>2. /\ ClientInv /\ TableTypeOK /\ now \in Times /\ Entitled(pc[c], frame[c], Claims(c))
      /\ waiting[c] = NotWaiting
  BY <1>1, Knowing
<1>3. EntryKept /\ Calm(c)
  BY <1>1, <1>2, ServerKeepsEntry, UnchangedServer, UnchangedCalm
<1>4. Lands(c, "idle") /\ (Claims(c)' => Claims(c))
  BY <1>1, <1>2, Retimes, WhenFreshArrives
<1> QED  BY <1>3, <1>4, CalmWaits, QuietStep DEF FetchLabels

LEMMA CheckServerExcl ==
    ASSUME ProtocolInv, ProtocolInv', ExclusionInv, NEW c \in Clients, CheckServer(c)
    PROVE  ExclusionInv'
<1>1. pc[c] = "check"
  BY DEF CheckServer
<1>2. /\ ClientInv /\ TableTypeOK /\ now \in Times /\ Entitled(pc[c], frame[c], Claims(c))
      /\ waiting[c] = NotWaiting
  BY <1>1, Knowing
<1>3. PICK ret \in Answers, st \in Stats :
        /\ copy_getattr(c, ret, st)
        /\ \E m : /\ m = openFilesStatus \/ m = [openFilesStatus EXCEPT ![c].tc = now]
                  /\ WhenFresh(c, m) \/ WhenStale(c, m)
  BY DEF CheckServer
<1>4. PICK m : /\ m = openFilesStatus \/ m = [openFilesStatus EXCEPT ![c].tc = now]
               /\ WhenFresh(c, m) \/ WhenStale(c, m)
  BY <1>3
<1>5. EntryKept /\ Calm(c)
  BY <1>2, <1>3, FileCallsKeepEntry, GetattrServed
<1>6. Retimed(m, c)
  <2>1. /\ Retimed(openFilesStatus, c)
        /\ \A k : Retimed(k, c) => Retimed([k EXCEPT ![c].tc = now], c)
    BY <1>2, Retimes
  <2> QED  BY <1>4, <2>1
<1>7. \E label \in {"idle", "dl_stat", "wb_lock"} : Lands(c, label) /\ (Claims(c)' => Claims(c))
  BY <1>1, <1>2, <1>4, <1>6, WhenFreshArrives, WhenStaleArrives
<1> QED  BY <1>5, <1>7, CalmWaits, QuietStep DEF FetchLabels

LEMMA ProbeExcl ==
    ASSUME ProtocolInv, ProtocolInv', ExclusionInv, NEW c \in Clients, Probe(c)
    PROVE  ExclusionInv'
<1>1. pc[c] = "probe" /\ LocalUnchanged
  BY DEF Probe
<1>2. /\ ClientInv /\ TableTypeOK /\ now \in Times /\ Entitled(pc[c], frame[c], Claims(c))
      /\ waiting[c] = NotWaiting /\ Placed(c)
  BY <1>1, Knowing
<1>3. PICK ret \in Answers, st \in Stats :
        copy_getattr(c, ret, st) /\ (Return(c, ret) \/ Step(c, "check"))
  BY DEF Probe
<1>4. EntryKept /\ Calm(c) /\ ret \in Int
  BY <1>2, <1>3, FileCallsKeepEntry, GetattrServed, AnswersInt
<1>5. /\ SameBut(openFilesStatus, openFilesStatus', c) /\ SameBut(fi, fi', c)
      /\ Claims(c)' => Claims(c)
  BY <1>1, <1>2, Retimes, RetimedClaims DEF LocalUnchanged
<1>6. \E label \in {"idle", "check"} : Lands(c, label)
  <2>1. frame[c].op = "getattr"
    BY <1>1, <1>2 DEF Placed, CallPlaced
  <2>2. Entitled("check", frame[c], Claims(c)')
    BY <2>1 DEF Entitled, DownloadLabels, FetchLabels, UploadLabels, Reads
  <2> QED  BY <1>2, <1>3, <1>4, <1>5, <2>2, ReturnArrives, Arrives DEF Step
<1> QED  BY <1>4, <1>5, <1>6, CalmWaits, QuietStep DEF FetchLabels

\* Nobody is making the file.
LEMMA NobodyMakes ==
    ASSUME ProtocolInv, ExclusionInv, NEW c \in Clients
    PROVE  ~MkProbe(c) /\ ~MkNode(c) /\ ~MkUtime(c)
BY Knowing DEF MkProbe, MkNode, MkUtime, Entitled, Placed, CallPlaced

LEMMA DlStatExcl ==
    ASSUME ProtocolInv, ProtocolInv', ExclusionInv, NEW c \in Clients, DlStat(c)
    PROVE  ExclusionInv'
<1>1. pc[c] = "dl_stat" /\ pc[c] \in DownloadLabels
  BY DEF DlStat, DownloadLabels
<1>2. /\ ClientInv /\ TableTypeOK /\ now \in Times /\ Entitled(pc[c], frame[c], Claims(c))
      /\ waiting[c] = NotWaiting /\ frame[c] \in Frames
  BY <1>1, Knowing
<1>3. PICK f \in Frames : f = frame[c]
  BY <1>2
<1>4. PICK ret \in Answers, st \in Stats :
        /\ copy_getattr(c, ret, st)
        /\ \/ DownloadFailed(c, ret)
           \/ Goto(c, "dl_open", [f EXCEPT !.st = st]) /\ LocalUnchanged
  BY <1>3 DEF DlStat
<1>5. EntryKept /\ Calm(c) /\ ret \in Int
  BY <1>2, <1>4, FileCallsKeepEntry, GetattrServed, AnswersInt
<1>6. CASE DownloadFailed(c, ret)
  <2>1. Lands(c, "idle") /\ (Claims(c)' => Claims(c))
    BY <1>2, <1>5, <1>6, DownloadFailedArrives
  <2> QED  BY <1>5, <2>1, CalmWaits, QuietStep DEF FetchLabels
<1>7. CASE Goto(c, "dl_open", [f EXCEPT !.st = st]) /\ LocalUnchanged
  <2>1. /\ SameBut(openFilesStatus, openFilesStatus', c) /\ SameBut(fi, fi', c)
        /\ Claims(c)' => Claims(c)
    BY <1>2, <1>7, Retimes, RetimedClaims DEF LocalUnchanged
  <2> DEFINE g == [f EXCEPT !.st = st]
  <2>2. g.op = f.op
    BY FrameWith DEF SameCall
  <2>3. Goto(c, "dl_open", g)
    BY <1>7
  <2> HIDE DEF g
  <2>4. Entitled("dl_open", g, Claims(c)')
    BY <1>1, <1>2, <1>3, <2>2 DEF Entitled, DownloadLabels, FetchLabels, UploadLabels
  <2>5. Lands(c, "dl_open")
    BY <1>2, <2>1, <2>3, <2>4, Arrives
  <2> QED  BY <1>5, <2>1, <2>5, CalmWaits, QuietStep DEF FetchLabels
<1> QED  BY <1>4, <1>6, <1>7

LEMMA DlReadExcl ==
    ASSUME ProtocolInv, ProtocolInv', ExclusionInv, NEW c \in Clients, DlRead(c)
    PROVE  ExclusionInv'
<1>1. pc[c] = "dl_read" /\ pc[c] \in DownloadLabels
  BY DEF DlRead, DownloadLabels, FetchLabels
<1>2. /\ ClientInv /\ TableTypeOK /\ now \in Times /\ Entitled(pc[c], frame[c], Claims(c))
      /\ waiting[c] = NotWaiting /\ frame[c] \in Frames /\ Kept(c) /\ Placed(c)
  BY <1>1, Knowing
<1>3. PICK ret \in Answers, data \in Contents :
        /\ copy_read(c, frame[c].fh, frame[c].st.size, ret, data)
        /\ \/ DownloadFailed(c, ret)
           \/ /\ openFilesStatus' = Put(openFilesStatus, c, [clientMode |-> frame[c].flag, tc |-> now,
                                                             serverDesc |-> StdIn])
              /\ UNCHANGED fi /\ Step(c, "dl_unlock")
  BY DEF DlRead
<1>4. EntryKept /\ Calm(c) /\ ret \in Int
  <2>1. frame[c].fh \in OwnHandles(c) /\ frame[c].st.size \in 0..MaxLen
    BY <1>1, <1>2, TransferHandles, FrameFields DEF Stats, FetchLabels
  <2> QED  BY <1>2, <1>3, <2>1, FileCallsKeepEntry, ReadServed, AnswersInt
<1>5. CASE DownloadFailed(c, ret)
  <2>1. Lands(c, "idle") /\ (Claims(c)' => Claims(c))
    BY <1>2, <1>4, <1>5, DownloadFailedArrives
  <2> QED  BY <1>4, <2>1, CalmWaits, QuietStep DEF FetchLabels
<1>6. CASE /\ openFilesStatus' = Put(openFilesStatus, c, [clientMode |-> frame[c].flag, tc |-> now,
                                                          serverDesc |-> StdIn])
           /\ UNCHANGED fi /\ Step(c, "dl_unlock")
  <2>1. /\ SameBut(openFilesStatus, openFilesStatus', c) /\ SameBut(fi, fi', c)
        /\ openFilesStatus'[c].clientMode = frame[c].flag
    <3>1. PICK v : openFilesStatus' = Put(openFilesStatus, c, v) /\ v.clientMode = frame[c].flag
      BY <1>6
    <3>2. SameBut(openFilesStatus, openFilesStatus', c) /\ openFilesStatus'[c] = v
      BY <3>1 DEF SameBut, Put
    <3> QED  BY <1>6, <3>1, <3>2, SameButs
  <2>2. frame[c].op = "open" => Has(c)
    BY <1>1, <1>2 DEF Kept, CallKept
  <2>3. frame[c].op # "open" => frame[c].flag = O_RDONLY
    BY <1>1, <1>2 DEF Entitled, Reads, Placed, CallPlaced
  <2>4. Claims(c)' => Claims(c)
    BY <1>6, <2>1, <2>2, <2>3 DEF Claims, Has, IsWriter
  <2>5. Entitled("dl_unlock", frame[c], Claims(c)')
    BY <1>1, <1>2 DEF Entitled, DownloadLabels, FetchLabels, UploadLabels
  <2>6. Lands(c, "dl_unlock")
    BY <1>2, <1>6, <2>1, <2>5, Arrives DEF Step
  <2> QED  BY <1>1, <1>4, <2>4, <2>6, CalmWaits, QuietStep DEF FetchLabels, Downloading
<1> QED  BY <1>3, <1>5, <1>6

\* One more step of an upload, that keeps the map but for operator[].
LEMMA UploadsExcl ==
    ASSUME ProtocolInv, ProtocolInv', ExclusionInv, NEW c \in Clients, Uploading(c), Calm(c), EntryKept,
           NEW label \in {"wb_write", "wb_utime", "wb_unlock"}, NEW f, f.op = frame[c].op,
           Goto(c, label, f), UNCHANGED fi, Retimed(openFilesStatus', c)
    PROVE  ExclusionInv'
<1>1. ClientInv /\ Entitled(pc[c], frame[c], Claims(c)) /\ pc[c] \in UploadLabels
  BY Knowing DEF Uploading, UploadLabels
<1>2. /\ SameBut(openFilesStatus, openFilesStatus', c) /\ SameBut(fi, fi', c)
      /\ Claims(c)' <=> Claims(c)
  BY RetimedClaims
<1>3. Entitled(label, f, Claims(c)')
  BY <1>1, <1>2 DEF Entitled, DownloadLabels, FetchLabels, UploadLabels
<1>4. Lands(c, label)
  BY <1>1, <1>2, <1>3, Arrives
<1> QED  BY <1>2, <1>4, CalmWaits, QuietStep DEF FetchLabels

LEMMA WriteBackDoneExcl ==
    ASSUME ProtocolInv, ProtocolInv', ExclusionInv, NEW c \in Clients, Calm(c), EntryKept,
           NEW ret \in Int, WriteBackDone(c, ret)
    PROVE  ExclusionInv'
<1>1. \E label \in {"idle", "op_release"} : Lands(c, label) /\ (Claims(c)' => Claims(c))
  BY Knowing, WriteBackDoneArrives
<1> QED  BY <1>1, CalmWaits, QuietStep DEF FetchLabels

LEMMA WbTruncExcl ==
    ASSUME ProtocolInv, ProtocolInv', ExclusionInv, NEW c \in Clients, WbTrunc(c)
    PROVE  ExclusionInv'
<1>1. pc[c] = "wb_trunc" /\ Uploading(c)
  BY DEF WbTrunc, Uploading
<1>2. ClientInv /\ TableTypeOK /\ now \in Times /\ waiting[c] = NotWaiting /\ frame[c] \in Frames
  BY <1>1, Knowing
<1>3. PICK f \in Frames : f = frame[c]
  BY <1>2
<1>4. PICK ret \in Answers :
        /\ copy_truncate(c, 0, ret)
        /\ \/ WriteBackDone(c, ret)
           \/ /\ openFilesStatus' = MetaTouched(c)
              /\ UNCHANGED fi
              /\ Goto(c, IF f.st.size > 0 THEN "wb_write" ELSE "wb_utime",
                      [f EXCEPT !.fh = MetaTouched(c)[c].serverDesc])
  BY <1>3 DEF WbTrunc
<1>5. 0 \in 0..MaxLen
  BY ServerAssumption
<1>6. EntryKept /\ Calm(c) /\ ret \in Int
  BY <1>2, <1>4, <1>5, FileCallsKeepEntry, TruncateServed, AnswersInt
<1>7. CASE WriteBackDone(c, ret)
  BY <1>6, <1>7, WriteBackDoneExcl
<1>8. CASE /\ openFilesStatus' = MetaTouched(c)
           /\ UNCHANGED fi
           /\ Goto(c, IF f.st.size > 0 THEN "wb_write" ELSE "wb_utime",
                   [f EXCEPT !.fh = MetaTouched(c)[c].serverDesc])
  <2>1. Retimed(openFilesStatus', c)
    BY <1>2, <1>8, Retimes
  <2>2. PICK h : h = MetaTouched(c)[c].serverDesc
    OBVIOUS
  <2> DEFINE g == [f EXCEPT !.fh = h]
  <2>3. g.op = f.op
    BY <1>3 DEF Frames
  <2>4. PICK label \in {"wb_write", "wb_utime"} : Goto(c, label, g)
    BY <1>8, <2>2
  <2> HIDE DEF g
  <2> QED  BY <1>1, <1>3, <1>6, <1>8, <2>1, <2>3, <2>4, UploadsExcl
<1> QED  BY <1>4, <1>7, <1>8

LEMMA WbWriteExcl ==
    ASSUME ProtocolInv, ProtocolInv', ExclusionInv, NEW c \in Clients, WbWrite(c)
    PROVE  ExclusionInv'
<1>1. pc[c] = "wb_write" /\ Uploading(c)
  BY DEF WbWrite, Uploading
<1>2. ClientInv /\ TableTypeOK /\ now \in Times /\ waiting[c] = NotWaiting /\ frame[c] \in Frames
  BY <1>1, Knowing
<1>3. PICK ret \in Answers :
        /\ copy_write(c, frame[c].fh, frame[c].buf, ret)
        /\ WriteBackDone(c, ret) \/ (Step(c, "wb_utime") /\ LocalUnchanged)
  BY DEF WbWrite
<1>4. frame[c].buf \in Contents \ {<<>>} /\ frame[c].fh \in OwnHandles(c)
  BY <1>1, <1>2, Knowing, FrameFields, TransferHandles DEF Placed, CallPlaced
<1>5. EntryKept /\ Calm(c) /\ ret \in Int
  BY <1>2, <1>3, <1>4, FileCallsKeepEntry, WriteServed, AnswersInt
<1>6. Step(c, "wb_utime") /\ LocalUnchanged => ExclusionInv'
  BY <1>1, <1>2, <1>5, Retimes, UploadsExcl DEF Step, LocalUnchanged
<1> QED  BY <1>3, <1>5, <1>6, WriteBackDoneExcl

LEMMA WbUtimeExcl ==
    ASSUME ProtocolInv, ProtocolInv', ExclusionInv, NEW c \in Clients, WbUtime(c)
    PROVE  ExclusionInv'
<1>1. pc[c] = "wb_utime" /\ Uploading(c)
  BY DEF WbUtime, Uploading
<1>2. ClientInv /\ TableTypeOK /\ now \in Times /\ waiting[c] = NotWaiting /\ frame[c] \in Frames
  BY <1>1, Knowing
<1>3. PICK ret \in Answers :
        /\ copy_utimensat(c, UploadTime(c), ret)
        /\ WriteBackDone(c, ret) \/ (Step(c, "wb_unlock") /\ LocalUnchanged)
  BY DEF WbUtime
<1>4. UploadTime(c) \in Times
  BY <1>2, FrameFields DEF UploadTime, Stats
<1>5. EntryKept /\ Calm(c) /\ ret \in Int
  BY <1>2, <1>3, <1>4, FileCallsKeepEntry, UtimensatServed, AnswersInt
<1>6. Step(c, "wb_unlock") /\ LocalUnchanged => ExclusionInv'
  BY <1>1, <1>2, <1>5, Retimes, UploadsExcl DEF Step, LocalUnchanged
<1> QED  BY <1>3, <1>5, <1>6, WriteBackDoneExcl

-----------------------------------------------------------------------------
(* The actions that open, close, lock or unlock the file *)

LEMMA OpOpenExcl ==
    ASSUME ProtocolInv, ProtocolInv', ExclusionInv, NEW c \in Clients, OpOpen(c)
    PROVE  ExclusionInv'
<1>1. pc[c] = "op_open" /\ UNCHANGED openFilesStatus
  BY DEF OpOpen
<1>2. /\ ClientInv /\ TableTypeOK /\ now \in Times /\ Entitled(pc[c], frame[c], Claims(c))
      /\ waiting[c] = NotWaiting /\ frame[c] \in Frames /\ Placed(c) /\ Kept(c)
  BY <1>1, Knowing
<1>3. PICK f \in Frames : f = frame[c]
  BY <1>2
<1>4. PICK ret \in Answers, fh \in Handles :
        /\ copy_open(c, f.flag, ret, fh)
        /\ \/ \E r \in Int : Return(c, r) /\ UNCHANGED fi
           \/ /\ ~(ret < 0) /\ ~IsOpenHere(c)
              /\ fi' = Put(fi, c, [flag |-> f.flag, fh |-> fh])
              /\ Step(c, "check") \/ Step(c, "dl_stat")
  <2>1. Answers \subseteq Int /\ -EMFILE \in Int
    BY AnswersInt DEF EMFILE
  <2> QED  BY <1>3, <2>1 DEF OpOpen
<1>5. f.flag \in OpenFlags /\ f.op = "open"
  BY <1>1, <1>2, <1>3, FrameFields DEF Placed, CallPlaced
<1>6. Calm(c) /\ ((ret < 0 /\ EntryKept) \/ EntryOpened(f.flag))
  BY <1>2, <1>4, <1>5, OpenServed, OpenEntry
<1>7. SameBut(openFilesStatus, openFilesStatus', c) /\ (IsWriter(c)' <=> IsWriter(c))
  BY <1>1, SameButs DEF IsWriter, IsOpenHere
<1>8. ~Fetches(c)
  BY <1>1 DEF Fetches, FetchLabels
<1>9. ASSUME NEW r \in Int, Return(c, r), UNCHANGED fi
      PROVE  ExclusionInv'
  <2>1. SameBut(fi, fi', c) /\ (Claims(c)' => Claims(c))
    BY <1>7, <1>9, SameButs DEF Claims, Has
  <2>2. Lands(c, "idle")
    BY <1>2, <1>7, <1>9, <2>1, ReturnArrives
  <2>3. CASE EntryKept
    BY <1>6, <2>1, <2>2, <2>3, CalmWaits, QuietStep DEF FetchLabels
  <2>4. CASE EntryOpened(f.flag)
    <3>1. ~Fetches(c)'
      BY <2>2, OthersStand DEF Fetches, FetchLabels
    <3>2. Mark(Claims(c)') + Mark(Fetches(c)') <= Mark(Claims(c)) + Mark(Fetches(c)) + 1
      BY <1>8, <2>1, <3>1 DEF Mark
    <3> QED  BY <1>6, <2>2, <2>4, <3>2, OpenStep
  <2> QED  BY <1>6, <2>3, <2>4
<1>10. CASE /\ ~(ret < 0) /\ ~IsOpenHere(c)
            /\ fi' = Put(fi, c, [flag |-> f.flag, fh |-> fh])
            /\ Step(c, "check") \/ Step(c, "dl_stat")
  <2>1. SameBut(fi, fi', c) /\ Claims(c)'
    BY <1>10, SameButs DEF Claims, Has
  <2>2. PICK label \in {"check", "dl_stat"} : Goto(c, label, frame[c])
    BY <1>10 DEF Step
  <2>3. Entitled(label, frame[c], Claims(c)')
    BY <1>3, <1>5, <2>1 DEF Entitled, Reads
  <2>4. Lands(c, label)
    BY <1>2, <1>7, <2>1, <2>2, <2>3, Arrives
  <2>5. ~Fetches(c)'
    BY <2>4, OthersStand DEF Fetches, FetchLabels
  <2>6. Mark(Claims(c)') + Mark(Fetches(c)') <= Mark(Claims(c)) + Mark(Fetches(c)) + 1
    BY <1>8, <2>5 DEF Mark
  <2>7. EntryOpened(f.flag)
    BY <1>6, <1>10
  <2> QED  BY <1>6, <2>4, <2>6, <2>7, OpenStep
<1> QED  BY <1>4, <1>9, <1>10

LEMMA OpReleaseExcl ==
    ASSUME ProtocolInv, ProtocolInv', ExclusionInv, NEW c \in Clients, OpRelease(c)
    PROVE  ExclusionInv'
<1>1. /\ pc[c] = "op_release" /\ fi' = Erase(fi, c) /\ openFilesStatus' = Erase(openFilesStatus, c)
      /\ Return(c, 0)
  BY DEF OpRelease, Closed
<1>2. /\ ClientInv /\ TableTypeOK /\ now \in Times /\ Entitled(pc[c], frame[c], Claims(c))
      /\ waiting[c] = NotWaiting /\ Placed(c) /\ Kept(c) /\ Typed(c) /\ Backed(c)
  BY <1>1, Knowing
<1>3. Has(c)
  BY <1>1, <1>2 DEF Placed, CallPlaced, Kept, CallKept
<1>4. fi[c].flag \in OpenFlags /\ fi[c].fh \in FD \cup {BadFd} /\ Backs(c, fi[c].fh, fi[c].flag)
  BY <1>2, <1>3 DEF Typed, Backed
<1>5. PICK ret \in Answers : copy_release(c, fi[c].flag, fi[c].fh, ret)
  BY DEF OpRelease, ReleaseFlag
<1>6. WaitsKept(c) /\ WaitsRightly(c)'
  BY <1>2, <1>4, <1>5, ReleaseServed DEF OthersKept, WaitsKept, WaitsRightly
<1>7. EntryKept \/ EntryClosed(fi[c].flag)
  BY <1>2, <1>4, <1>5, ReleaseEntry
<1>8. /\ SameBut(fi, fi', c) /\ SameBut(openFilesStatus, openFilesStatus', c)
      /\ Claims(c) /\ ~Claims(c)'
  BY <1>1, <1>3, SameButs DEF Claims, Has, IsOpenHere, IsWriter
<1>9. Lands(c, "idle")
  <2>1. PICK r \in Int : Return(c, r)
    BY <1>1
  <2> QED  BY <1>2, <1>8, <2>1, ReturnArrives
<1>10. ~Fetches(c) /\ ~Fetches(c)' /\ ~Downloading(c)' /\ ~Uploading(c)'
  BY <1>1, <1>9, OthersStand DEF Fetches, FetchLabels, Downloading, Uploading
<1>11. Mark(Claims(c)') + Mark(Fetches(c)') <= Mark(Claims(c)) + Mark(Fetches(c)) - 1
  BY <1>8, <1>10 DEF Mark
<1>12. PICK flag : flag = fi[c].flag
  OBVIOUS
<1> QED  BY <1>6, <1>7, <1>9, <1>10, <1>11, <1>12, CloseStep

LEMMA DlOpenExcl ==
    ASSUME ProtocolInv, ProtocolInv', ExclusionInv, NEW c \in Clients, DlOpen(c)
    PROVE  ExclusionInv'
<1>1. pc[c] = "dl_open" /\ pc[c] \in DownloadLabels
  BY DEF DlOpen, DownloadLabels
<1>2. /\ ClientInv /\ TableTypeOK /\ now \in Times /\ Entitled(pc[c], frame[c], Claims(c))
      /\ waiting[c] = NotWaiting /\ frame[c] \in Frames
  BY <1>1, Knowing
<1>3. PICK f \in Frames : f = frame[c]
  BY <1>2
<1>4. PICK ret \in Answers, fh \in Handles :
        /\ copy_open(c, O_RDONLY, ret, fh)
        /\ \/ DownloadFailed(c, ret)
           \/ ~(ret < 0) /\ Goto(c, "dl_lock", [f EXCEPT !.fh = fh]) /\ LocalUnchanged
  BY <1>3 DEF DlOpen
<1>5. O_RDONLY \in OpenFlags
  BY DEF OpenFlags
<1>6. Calm(c) /\ ((ret < 0 /\ EntryKept) \/ EntryOpened(O_RDONLY)) /\ ret \in Int
  BY <1>2, <1>4, <1>5, OpenServed, OpenEntry, AnswersInt
<1>7. ~Fetches(c)
  BY <1>1 DEF Fetches, FetchLabels
<1>8. CASE DownloadFailed(c, ret)
  <2>1. Lands(c, "idle") /\ (Claims(c)' => Claims(c))
    BY <1>2, <1>6, <1>8, DownloadFailedArrives
  <2>2. CASE EntryKept
    BY <1>6, <2>1, <2>2, CalmWaits, QuietStep DEF FetchLabels
  <2>3. CASE EntryOpened(O_RDONLY)
    <3>1. ~Fetches(c)'
      BY <2>1, OthersStand DEF Fetches, FetchLabels
    <3>2. Mark(Claims(c)') + Mark(Fetches(c)') <= Mark(Claims(c)) + Mark(Fetches(c)) + 1
      BY <1>7, <2>1, <3>1 DEF Mark
    <3> QED  BY <1>6, <2>1, <2>3, <3>2, OpenStep
  <2> QED  BY <1>6, <2>2, <2>3
<1>9. CASE ~(ret < 0) /\ Goto(c, "dl_lock", [f EXCEPT !.fh = fh]) /\ LocalUnchanged
  <2>1. /\ SameBut(openFilesStatus, openFilesStatus', c) /\ SameBut(fi, fi', c)
        /\ Claims(c)' => Claims(c)
    BY <1>2, <1>9, Retimes, RetimedClaims DEF LocalUnchanged
  <2> DEFINE g == [f EXCEPT !.fh = fh]
  <2>2. g.op = f.op
    BY FrameWith DEF SameCall
  <2>3. Goto(c, "dl_lock", g)
    BY <1>9
  <2> HIDE DEF g
  <2>4. Entitled("dl_lock", g, Claims(c)')
    BY <1>1, <1>2, <1>3, <2>2 DEF Entitled, DownloadLabels, FetchLabels, UploadLabels
  <2>5. Lands(c, "dl_lock")
    BY <1>2, <2>1, <2>3, <2>4, Arrives
  <2>6. Mark(Claims(c)') + Mark(Fetches(c)') <= Mark(Claims(c)) + Mark(Fetches(c)) + 1
    BY <1>7, <2>1 DEF Mark
  <2> QED  BY <1>6, <1>9, <2>5, <2>6, OpenStep
<1> QED  BY <1>4, <1>8, <1>9

LEMMA DlReleaseExcl ==
    ASSUME ProtocolInv, ProtocolInv', ExclusionInv, NEW c \in Clients, DlRelease(c)
    PROVE  ExclusionInv'
<1>1. pc[c] = "dl_release" /\ pc[c] \in FetchLabels /\ pc[c] \in DownloadLabels
  BY DEF DlRelease, DownloadLabels, FetchLabels
<1>2. /\ ClientInv /\ TableTypeOK /\ now \in Times /\ Entitled(pc[c], frame[c], Claims(c))
      /\ waiting[c] = NotWaiting /\ Backed(c)
  BY <1>1, Knowing
<1>3. frame[c].fh \in FD \cup {BadFd} /\ Backs(c, frame[c].fh, O_RDONLY) /\ O_RDONLY \in OpenFlags
  BY <1>1, <1>2 DEF Backed, OpenFlags
<1>4. PICK ret \in Answers :
        copy_release(c, O_RDONLY, frame[c].fh, ret) /\ (DownloadFailed(c, ret) \/ Downloaded(c))
  BY DEF DlRelease
<1>5. WaitsKept(c) /\ WaitsRightly(c)'
  BY <1>2, <1>3, <1>4, ReleaseServed DEF OthersKept, WaitsKept, WaitsRightly
<1>6. (EntryKept \/ EntryClosed(O_RDONLY)) /\ ret \in Int
  BY <1>2, <1>3, <1>4, ReleaseEntry, AnswersInt
<1>7. Lands(c, "idle") /\ (Claims(c)' => Claims(c))
  BY <1>1, <1>2, <1>4, <1>6, DownloadFailedArrives, DownloadedArrives
<1>8. Fetches(c) /\ ~Fetches(c)' /\ ~Downloading(c)' /\ ~Uploading(c)'
  BY <1>1, <1>7, OthersStand DEF Fetches, FetchLabels, Downloading, Uploading
<1>9. Mark(Claims(c)') + Mark(Fetches(c)') <= Mark(Claims(c)) + Mark(Fetches(c)) - 1
  BY <1>7, <1>8 DEF Mark
<1> QED  BY <1>5, <1>6, <1>7, <1>8, <1>9, CloseStep

\* A client that has the file open finds a lock in the table.
LEMMA LockThere ==
    ASSUME ProtocolInv, ExclusionInv, NEW c \in Clients, Claims(c) \/ Fetches(c)
    PROVE  Lookup(File).lock \in Locks
<1>1. c \in Claimants \/ c \in Fetchers
  BY DEF Claimants, Fetchers, Fetches
<1>2. Lookup(File).openNum \in Int
  BY EntryType DEF ProtocolInv, TableInv, FileStatus
<1>3. Lookup(File).openNum > 0
  BY <1>1, <1>2, NobodyCounted DEF ExclusionInv
<1> QED  BY <1>3 DEF ExclusionInv

LEMMA GrantedWaits ==
    ASSUME NEW c \in Clients, NEW ret, LockReturned(c, ret)
    PROVE  waiting[c] # NotWaiting
BY DEF LockReturned, watdfs_lock_granted, NotWaiting

LEMMA DlLockExcl ==
    ASSUME ProtocolInv, ProtocolInv', ExclusionInv, NEW c \in Clients, DlLock(c)
    PROVE  ExclusionInv'
<1>1. pc[c] = "dl_lock" /\ pc[c] \in FetchLabels /\ pc[c] \in DownloadLabels
  BY DEF DlLock, DownloadLabels, FetchLabels
<1>2. /\ ClientInv /\ TableTypeOK /\ now \in Times /\ Entitled(pc[c], frame[c], Claims(c))
      /\ waiting[c] = NotWaiting
  BY <1>1, Knowing
<1>3. Lookup(File).lock \in Locks
  BY <1>1, LockThere DEF Fetches
<1>4. RW_READ_LOCK \in LockModes
  BY DEF LockModes
<1>5. CASE LockSent(c, RW_READ_LOCK) /\ Step(c, "dl_wait") /\ LocalUnchanged
  <2>1. /\ EntryKept /\ WaitsKept(c)
        /\ waiting'[c].lock = Lookup(File).lock /\ waiting'[c].mode = RW_READ_LOCK
    BY <1>2, <1>4, <1>5, LockSentEntry, LockSentServed DEF OthersKept, WaitsKept
  <2>2. /\ SameBut(openFilesStatus, openFilesStatus', c) /\ SameBut(fi, fi', c)
        /\ Claims(c)' => Claims(c)
    BY <1>2, <1>5, Retimes, RetimedClaims DEF LocalUnchanged
  <2>3. Entitled("dl_wait", frame[c], Claims(c)')
    BY <1>1, <1>2 DEF Entitled, DownloadLabels, FetchLabels, UploadLabels
  <2>4. Lands(c, "dl_wait")
    BY <1>2, <1>5, <2>2, <2>3, Arrives DEF Step
  <2>5. pc'[c] = "dl_wait"
    BY <2>4, OthersStand
  <2>6. WaitsRightly(c)'
    BY <2>1, <2>5 DEF WaitsRightly, EntryKept, HoldersMove
  <2> QED  BY <1>1, <2>1, <2>2, <2>4, <2>6, QuietStep
<1>6. ASSUME NEW ret \in Answers, LockFailed(c, RW_READ_LOCK, ret),
             IF ret < 0 THEN DownloadFailed(c, ret) ELSE EmptyCache(c)
      PROVE  ExclusionInv'
  <2>1. ret < 0 /\ EntryKept /\ Calm(c) /\ ret \in Int
    BY <1>2, <1>3, <1>4, <1>6, LockFailedEntry, LockFailedServed, AnswersInt
  <2>2. Lands(c, "idle") /\ (Claims(c)' => Claims(c))
    BY <1>2, <1>6, <2>1, DownloadFailedArrives
  <2> QED  BY <2>1, <2>2, CalmWaits, QuietStep DEF FetchLabels
<1> QED  BY <1>5, <1>6 DEF DlLock

LEMMA DlGrantedExcl ==
    ASSUME ProtocolInv, ProtocolInv', ExclusionInv, NEW c \in Clients, DlGranted(c)
    PROVE  ExclusionInv'
<1>1. pc[c] = "dl_wait" /\ pc[c] \in FetchLabels /\ pc[c] \in DownloadLabels
  BY DEF DlGranted, DownloadLabels, FetchLabels
<1>2. /\ ClientInv /\ TableTypeOK /\ now \in Times /\ Entitled(pc[c], frame[c], Claims(c))
      /\ WaitsRightly(c)
  BY Knowing
<1>3. PICK ret \in Answers : LockReturned(c, ret) /\ (DownloadFailed(c, ret) \/ EmptyCache(c))
  BY DEF DlGranted
<1>4. waiting[c].lock = Lookup(File).lock /\ waiting[c].mode = RW_READ_LOCK
  BY <1>1, <1>2, <1>3, GrantedWaits DEF WaitsRightly
<1>5. HoldersMove(1, 0)
  BY <1>2, <1>3, <1>4, LockReturnedEntry DEF Mark
<1>6. Calm(c) /\ ret \in Int
  BY <1>2, <1>3, LockReturnedServed, AnswersInt
<1>7. PICK label \in {"idle", "dl_read"} : Lands(c, label) /\ (Claims(c)' => Claims(c))
  <2>1. CASE DownloadFailed(c, ret)
    BY <1>2, <1>6, <2>1, DownloadFailedArrives
  <2>2. CASE EmptyCache(c)
    <3>1. /\ SameBut(openFilesStatus, openFilesStatus', c) /\ SameBut(fi, fi', c)
          /\ Claims(c)' => Claims(c)
      BY <1>2, <2>2, Retimes, RetimedClaims DEF EmptyCache
    <3>2. Entitled("dl_read", frame[c], Claims(c)')
      BY <1>1, <1>2 DEF Entitled, DownloadLabels, FetchLabels, UploadLabels
    <3> QED  BY <1>2, <2>2, <3>1, <3>2, Arrives DEF EmptyCache, Step
  <2> QED  BY <1>3, <2>1, <2>2
<1>8. pc'[c] = label
  BY <1>7, OthersStand
<1>9. /\ Fetches(c)' => Fetches(c)
      /\ 1 >= Mark(Downloading(c)') - Mark(Downloading(c))
      /\ 0 >= Mark(Uploading(c)') - Mark(Uploading(c))
  BY <1>1, <1>7, <1>8 DEF Fetches, Downloading, Uploading, Mark
<1> QED  BY <1>5, <1>6, <1>7, <1>9, CalmWaits, HoldersStep

LEMMA DlUnlockExcl ==
    ASSUME ProtocolInv, ProtocolInv', ExclusionInv, NEW c \in Clients, DlUnlock(c)
    PROVE  ExclusionInv'
<1>1. pc[c] = "dl_unlock" /\ pc[c] \in FetchLabels /\ pc[c] \in DownloadLabels
  BY DEF DlUnlock, DownloadLabels, FetchLabels
<1>2. /\ ClientInv /\ TableTypeOK /\ now \in Times /\ Entitled(pc[c], frame[c], Claims(c))
      /\ waiting[c] = NotWaiting
  BY <1>1, Knowing
<1>3. PICK ret \in Answers :
        /\ watdfs_cli_unlock(c, RW_READ_LOCK, ret)
        /\ DownloadFailed(c, ret) \/ (Step(c, "dl_release") /\ LocalUnchanged)
  BY DEF DlUnlock
<1>4. RW_READ_LOCK \in LockModes
  BY DEF LockModes
<1>5. Calm(c) /\ (EntryKept \/ HoldersMove(-1, 0)) /\ ret \in Int
  BY <1>2, <1>3, <1>4, UnlockServed, UnlockEntry, AnswersInt DEF Mark
<1>6. PICK label \in {"idle", "dl_release"} : Lands(c, label) /\ (Claims(c)' => Claims(c))
  <2>1. CASE DownloadFailed(c, ret)
    BY <1>2, <1>5, <2>1, DownloadFailedArrives
  <2>2. CASE Step(c, "dl_release") /\ LocalUnchanged
    <3>1. /\ SameBut(openFilesStatus, openFilesStatus', c) /\ SameBut(fi, fi', c)
          /\ Claims(c)' => Claims(c)
      BY <1>2, <2>2, Retimes, RetimedClaims DEF LocalUnchanged
    <3>2. Entitled("dl_release", frame[c], Claims(c)')
      BY <1>1, <1>2 DEF Entitled, DownloadLabels, FetchLabels, UploadLabels
    <3> QED  BY <1>2, <2>2, <3>1, <3>2, Arrives DEF Step
  <2> QED  BY <1>3, <2>1, <2>2
<1>7. pc'[c] = label
  BY <1>6, OthersStand
<1>8. /\ Fetches(c)' => Fetches(c)
      /\ -1 >= Mark(Downloading(c)') - Mark(Downloading(c))
      /\ 0 >= Mark(Uploading(c)') - Mark(Uploading(c))
  BY <1>1, <1>6, <1>7 DEF Fetches, Downloading, Uploading, Mark
<1>9. CASE EntryKept
  BY <1>1, <1>5, <1>6, <1>9, CalmWaits, QuietStep
<1>10. CASE HoldersMove(-1, 0)
  BY <1>5, <1>6, <1>8, <1>10, CalmWaits, HoldersStep
<1> QED  BY <1>5, <1>9, <1>10

LEMMA WbLockExcl ==
    ASSUME ProtocolInv, ProtocolInv', ExclusionInv, NEW c \in Clients, WbLock(c)
    PROVE  ExclusionInv'
<1>1. pc[c] = "wb_lock" /\ pc[c] \in UploadLabels
  BY DEF WbLock, UploadLabels
<1>2. /\ ClientInv /\ TableTypeOK /\ now \in Times /\ Entitled(pc[c], frame[c], Claims(c))
      /\ waiting[c] = NotWaiting
  BY <1>1, Knowing
<1>3. Lookup(File).lock \in Locks
  BY <1>1, <1>2, LockThere DEF Entitled
<1>4. RW_WRITE_LOCK \in LockModes
  BY DEF LockModes
<1>5. CASE LockSent(c, RW_WRITE_LOCK) /\ Step(c, "wb_wait") /\ LocalUnchanged
  <2>1. /\ EntryKept /\ WaitsKept(c)
        /\ waiting'[c].lock = Lookup(File).lock /\ waiting'[c].mode = RW_WRITE_LOCK
    BY <1>2, <1>4, <1>5, LockSentEntry, LockSentServed DEF OthersKept, WaitsKept
  <2>2. /\ SameBut(openFilesStatus, openFilesStatus', c) /\ SameBut(fi, fi', c)
        /\ Claims(c)' <=> Claims(c)
    BY <1>2, <1>5, Retimes, RetimedClaims DEF LocalUnchanged
  <2>3. Entitled("wb_wait", frame[c], Claims(c)')
    BY <1>1, <1>2, <2>2 DEF Entitled, DownloadLabels, FetchLabels, UploadLabels
  <2>4. Lands(c, "wb_wait")
    BY <1>2, <1>5, <2>2, <2>3, Arrives DEF Step
  <2>5. pc'[c] = "wb_wait"
    BY <2>4, OthersStand
  <2>6. WaitsRightly(c)'
    BY <2>1, <2>5 DEF WaitsRightly, EntryKept, HoldersMove
  <2> QED  BY <2>1, <2>2, <2>4, <2>6, QuietStep DEF FetchLabels
<1>6. ASSUME NEW ret \in Answers, LockFailed(c, RW_WRITE_LOCK, ret),
             IF ret < 0 THEN WriteBackDone(c, ret) ELSE TakeCopy(c)
      PROVE  ExclusionInv'
  <2>1. ret < 0 /\ EntryKept /\ Calm(c) /\ ret \in Int
    BY <1>2, <1>3, <1>4, <1>6, LockFailedEntry, LockFailedServed, AnswersInt
  <2> QED  BY <1>6, <2>1, WriteBackDoneExcl
<1> QED  BY <1>5, <1>6 DEF WbLock

LEMMA WbGrantedExcl ==
    ASSUME ProtocolInv, ProtocolInv', ExclusionInv, NEW c \in Clients, WbGranted(c)
    PROVE  ExclusionInv'
<1>1. pc[c] = "wb_wait" /\ pc[c] \in UploadLabels
  BY DEF WbGranted, UploadLabels
<1>2. /\ ClientInv /\ TableTypeOK /\ now \in Times /\ Entitled(pc[c], frame[c], Claims(c))
      /\ WaitsRightly(c) /\ frame[c] \in Frames /\ Typed(c) /\ Placed(c)
  BY Knowing
<1>3. PICK f \in Frames : f = frame[c]
  BY <1>2
<1>4. PICK ret \in Answers : LockReturned(c, ret) /\ (WriteBackDone(c, ret) \/ TakeCopy(c))
  BY DEF WbGranted
<1>5. waiting[c].lock = Lookup(File).lock /\ waiting[c].mode # RW_READ_LOCK
  BY <1>1, <1>2, <1>4, GrantedWaits DEF WaitsRightly, RW_READ_LOCK, RW_WRITE_LOCK
<1>6. HoldersMove(0, 1)
  BY <1>2, <1>4, <1>5, LockReturnedEntry DEF Mark
<1>7. Calm(c) /\ ret \in Int
  BY <1>2, <1>4, LockReturnedServed, AnswersInt
<1>8. PICK label \in {"idle", "op_release", "wb_trunc"} : Lands(c, label) /\ (Claims(c)' => Claims(c))
  <2>1. CASE WriteBackDone(c, ret)
    BY <1>2, <1>7, <2>1, WriteBackDoneArrives
  <2>2. CASE TakeCopy(c)
    <3>1. /\ SameBut(openFilesStatus, openFilesStatus', c) /\ SameBut(fi, fi', c)
          /\ Claims(c)' <=> Claims(c)
      BY <1>2, <2>2, Retimes, RetimedClaims DEF TakeCopy, LocalUnchanged
    <3>2. PICK b, s : Goto(c, "wb_trunc", [f EXCEPT !.buf = b, !.st = s])
      BY <1>3, <2>2 DEF TakeCopy
    <3> DEFINE g == [f EXCEPT !.buf = b, !.st = s]
    <3>3. g.op = f.op
      BY <1>3 DEF Frames
    <3>4. Goto(c, "wb_trunc", g)
      BY <3>2
    <3> HIDE DEF g
    <3>5. Entitled("wb_trunc", g, Claims(c)')
      BY <1>1, <1>2, <1>3, <3>1, <3>3 DEF Entitled, DownloadLabels, FetchLabels, UploadLabels
    <3> QED  BY <1>2, <3>1, <3>4, <3>5, Arrives
  <2> QED  BY <1>4, <2>1, <2>2
<1>9. pc'[c] = label
  BY <1>8, OthersStand
<1>10. /\ Fetches(c)' => Fetches(c)
       /\ 0 >= Mark(Downloading(c)') - Mark(Downloading(c))
       /\ 1 >= Mark(Uploading(c)') - Mark(Uploading(c))
  BY <1>1, <1>8, <1>9 DEF Fetches, FetchLabels, Downloading, Uploading, Mark
<1> QED  BY <1>6, <1>7, <1>8, <1>10, CalmWaits, HoldersStep

LEMMA WbUnlockExcl ==
    ASSUME ProtocolInv, ProtocolInv', ExclusionInv, NEW c \in Clients, WbUnlock(c)
    PROVE  ExclusionInv'
<1>1. pc[c] = "wb_unlock" /\ Uploading(c)
  BY DEF WbUnlock, Uploading
<1>2. /\ ClientInv /\ TableTypeOK /\ now \in Times /\ Entitled(pc[c], frame[c], Claims(c))
      /\ waiting[c] = NotWaiting
  BY <1>1, Knowing
<1>3. PICK ret \in Answers : watdfs_cli_unlock(c, RW_WRITE_LOCK, ret) /\ WriteBackDone(c, ret)
  BY DEF WbUnlock
<1>4. RW_WRITE_LOCK \in LockModes /\ RW_WRITE_LOCK # RW_READ_LOCK
  BY DEF LockModes, RW_READ_LOCK, RW_WRITE_LOCK
<1>5. Calm(c) /\ (EntryKept \/ HoldersMove(0, -1)) /\ ret \in Int
  BY <1>2, <1>3, <1>4, UnlockServed, UnlockEntry, AnswersInt DEF Mark
<1>6. PICK label \in {"idle", "op_release"} : Lands(c, label) /\ (Claims(c)' => Claims(c))
  BY <1>2, <1>3, <1>5, WriteBackDoneArrives
<1>7. pc'[c] = label
  BY <1>6, OthersStand
<1>8. /\ Fetches(c)' => Fetches(c)
      /\ 0 >= Mark(Downloading(c)') - Mark(Downloading(c))
      /\ -1 >= Mark(Uploading(c)') - Mark(Uploading(c))
  BY <1>1, <1>6, <1>7 DEF Fetches, FetchLabels, Downloading, Uploading, Mark
<1>9. CASE EntryKept
  BY <1>3, <1>5, <1>9, WriteBackDoneExcl
<1>10. CASE HoldersMove(0, -1)
  BY <1>5, <1>6, <1>8, <1>10, CalmWaits, HoldersStep
<1> QED  BY <1>5, <1>9, <1>10


-----------------------------------------------------------------------------
(* The calls *)

\* A call begins; the server does nothing yet.
LEMMA BeginsExcl ==
    ASSUME ProtocolInv, ProtocolInv', ExclusionInv, NEW c \in Clients, NEW op, Begins(c, op),
           NEW label \in {"idle", "probe", "check", "op_open", "op_release", "wb_lock"},
           Lands(c, label), Claims(c)' => Claims(c)
    PROVE  ExclusionInv'
<1>1. pc[c] = "idle" /\ UNCHANGED serverVars
  BY DEF Begins
<1>2. TableTypeOK /\ waiting[c] = NotWaiting
  BY <1>1, Knowing
<1>3. EntryKept /\ Calm(c)
  BY <1>1, <1>2, ServerKeepsEntry, UnchangedServer, UnchangedCalm
<1> QED  BY <1>3, CalmWaits, QuietStep DEF FetchLabels

\* It does to the map what operator[] does, and sets the time of the last check.
LEMMA GoesExcl ==
    ASSUME ProtocolInv, ProtocolInv', ExclusionInv, NEW c \in Clients, NEW op, Begins(c, op),
           op \notin {"mknod", "truncate"},
           NEW label \in {"idle", "probe", "check", "op_open", "op_release", "wb_lock"},
           NEW f, Goto(c, label, f), f.op = op,
           UNCHANGED fi, Retimed(openFilesStatus', c),
           label = "wb_lock" => Claims(c),
           label = "check" => op \in Reads \/ Claims(c)
    PROVE  ExclusionInv'
<1>1. ClientInv
  BY DEF ProtocolInv
<1>2. /\ SameBut(openFilesStatus, openFilesStatus', c) /\ SameBut(fi, fi', c)
      /\ Claims(c)' <=> Claims(c)
  BY RetimedClaims
<1>3. Entitled(label, f, Claims(c)')
  BY <1>2 DEF Entitled, DownloadLabels, FetchLabels, UploadLabels
<1>4. Lands(c, label)
  BY <1>1, <1>2, <1>3, Arrives
<1> QED  BY <1>2, <1>4, BeginsExcl

LEMMA EndsExcl ==
    ASSUME ProtocolInv, ProtocolInv', ExclusionInv, NEW c \in Clients, NEW op \in Ops, Begins(c, op),
           op \notin {"mknod", "truncate"}, NEW ret \in Int, Ends(c, op, ret),
           UNCHANGED fi, Retimed(openFilesStatus', c)
    PROVE  ExclusionInv'
<1>1. PICK f : Goto(c, "idle", f) /\ f.op = op
  <2>1. op \in Ops \cup {"none"}
    OBVIOUS
  <2> DEFINE g == [Blank EXCEPT !.op = op, !.ret = ret]
  <2>2. Goto(c, "idle", g) /\ g.op = op
    BY <2>1, BlankFrames DEF Ends
  <2> HIDE DEF g
  <2> QED  BY <2>2
<1> QED  BY <1>1, GoesExcl

\* The map as operator[] leaves it, or as it was.
LEMMA BeginsRetimed ==
    ASSUME ProtocolInv, NEW c \in Clients, NEW op, Begins(c, op)
    PROVE  /\ Retimed(openFilesStatus, c) /\ Retimed(MetaTouched(c), c)
           /\ Retimed([openFilesStatus EXCEPT ![c].tc = now], c)
<1>1. ClientInv /\ now \in Times
  BY CallBegins
<1>2. /\ Retimed(openFilesStatus, c) /\ Retimed(MetaTouched(c), c)
      /\ \A m : Retimed(m, c) => Retimed([m EXCEPT ![c].tc = now], c)
  BY <1>1, Retimes
<1> QED  BY <1>2

\* The frame of a new call says which call it is.
LEMMA NewOp ==
    ASSUME NEW c \in Clients, NEW op \in Ops
    PROVE  /\ New(c, op).op = op
           /\ \A flag \in OpenFlags : [New(c, op) EXCEPT !.flag = flag].op = op
           /\ \A ret \in Int : [New(c, op) EXCEPT !.ret = ret].op = op
<1>1. PICK f \in Frames : f = New(c, op) /\ f.op = op
  BY NewFrame
<1> QED  BY <1>1 DEF Frames

LEMMA LooksExcl ==
    ASSUME ProtocolInv, ProtocolInv', ExclusionInv, NEW c \in Clients,
           watdfs_cli_getattr(c) \/ watdfs_cli_open(c) \/ watdfs_cli_read(c)
    PROVE  ExclusionInv'
<1>1. "getattr" \in Ops /\ "open" \in Ops /\ "read" \in Ops
  BY DEF Ops
<1>2. CASE watdfs_cli_getattr(c)
  <2>1. /\ Begins(c, "getattr") /\ Goto(c, "probe", New(c, "getattr"))
        /\ openFilesStatus' = openFilesStatus /\ UNCHANGED fi
    BY <1>2 DEF watdfs_cli_getattr, LocalUnchanged
  <2>2. New(c, "getattr").op = "getattr" /\ Retimed(openFilesStatus', c)
    <3>1. New(c, "getattr").op = "getattr"
      BY <1>1, NewOp
    <3>2. Retimed(openFilesStatus', c)
      BY <1>1, <2>1, BeginsRetimed
    <3> QED  BY <3>1, <3>2
  <2>3. PICK f : f = New(c, "getattr")
    OBVIOUS
  <2> QED  BY <2>1, <2>2, <2>3, GoesExcl
<1>3. CASE watdfs_cli_open(c)
  <2>1. PICK flag \in OpenFlags :
          /\ Begins(c, "open") /\ Goto(c, "op_open", [New(c, "open") EXCEPT !.flag = flag])
          /\ openFilesStatus' = openFilesStatus /\ UNCHANGED fi
    BY <1>3 DEF watdfs_cli_open, LocalUnchanged
  <2>2. [New(c, "open") EXCEPT !.flag = flag].op = "open" /\ Retimed(openFilesStatus', c)
    <3>1. [New(c, "open") EXCEPT !.flag = flag].op = "open"
      BY <1>1, NewOp
    <3>2. Retimed(openFilesStatus', c)
      BY <1>1, <2>1, BeginsRetimed
    <3> QED  BY <3>1, <3>2
  <2>3. PICK f : f = [New(c, "open") EXCEPT !.flag = flag]
    OBVIOUS
  <2> QED  BY <2>1, <2>2, <2>3, GoesExcl
<1>4. CASE watdfs_cli_read(c)
  <2>1. /\ Begins(c, "read") /\ openFilesStatus' = MetaTouched(c) /\ UNCHANGED fi
        /\ Ends(c, "read", 0) \/ Goto(c, "check", New(c, "read"))
    BY <1>4 DEF watdfs_cli_read
  <2>2. New(c, "read").op = "read" /\ Retimed(openFilesStatus', c)
    <3>1. New(c, "read").op = "read"
      BY <1>1, NewOp
    <3>2. Retimed(openFilesStatus', c)
      BY <1>1, <2>1, BeginsRetimed
    <3> QED  BY <3>1, <3>2
  <2>3. PICK f : f = New(c, "read")
    OBVIOUS
  <2>4. CASE Ends(c, "read", 0)
    BY <1>1, <2>1, <2>2, <2>4, EndsExcl
  <2>5. CASE Goto(c, "check", f)
    BY <2>1, <2>2, <2>3, <2>5, GoesExcl DEF Reads
  <2> QED  BY <2>1, <2>3, <2>4, <2>5
<1> QED  BY <1>2, <1>3, <1>4

LEMMA ReleaseCallExcl ==
    ASSUME ProtocolInv, ProtocolInv', ExclusionInv, NEW c \in Clients, watdfs_cli_release(c)
    PROVE  ExclusionInv'
<1>1. PICK label \in {"wb_lock", "op_release"} :
        /\ Has(c) /\ Begins(c, "release") /\ Goto(c, label, New(c, "release"))
        /\ openFilesStatus' = openFilesStatus /\ UNCHANGED fi
  BY DEF watdfs_cli_release, LocalUnchanged
<1>2. New(c, "release").op = "release" /\ Retimed(openFilesStatus', c)
  BY <1>1, NewOp, BeginsRetimed DEF Ops
<1>3. PICK f : f = New(c, "release")
  OBVIOUS
<1> QED  BY <1>1, <1>2, <1>3, GoesExcl DEF Claims

\* Only a client that has the file open for writing goes on with a change of it.
LEMMA ChangesExcl ==
    ASSUME ProtocolInv, ProtocolInv', ExclusionInv, NEW c \in Clients,
           \/ watdfs_cli_write(c) \/ watdfs_cli_fsync(c) \/ watdfs_cli_utimensat(c)
           \/ watdfs_cli_truncate(c) /\ "truncate" \notin Operations
    PROVE  ExclusionInv'
<1>1. PICK op \in Ops \ {"mknod", "truncate"} :
        /\ Begins(c, op) /\ UNCHANGED fi
        /\ \/ openFilesStatus' = openFilesStatus \/ openFilesStatus' = MetaTouched(c)
           \/ openFilesStatus' = [openFilesStatus EXCEPT ![c].tc = now]
        /\ \/ \E ret \in Int : Ends(c, op, ret)
           \/ /\ Claims(c)
              /\ \E label \in {"check", "wb_lock"} :
                    \/ Goto(c, label, New(c, op))
                    \/ \E ret \in Int : Goto(c, label, [New(c, op) EXCEPT !.ret = ret])
  <2>1. CASE watdfs_cli_write(c)
    <3>1. "write" \in Ops \ {"mknod", "truncate"} /\ -EMFILE \in Int
      BY DEF Ops, EMFILE
    <3>2. \A data \in WriteData : Len(data) \in Int
      BY ClientAssumption, ContentsLength
    <3>3. Begins(c, "write") /\ UNCHANGED fi
      BY <2>1 DEF watdfs_cli_write
    <3>4. CASE IsWriter(c)
      <4>1. PICK data \in WriteData :
              /\ openFilesStatus' = [openFilesStatus EXCEPT ![c].tc = now]
              /\ Goto(c, "check", [New(c, "write") EXCEPT !.ret = Len(data)])
        BY <2>1, <3>4 DEF watdfs_cli_write
      <4>2. PICK ret \in Int : ret = Len(data)
        BY <3>2
      <4>3. Goto(c, "check", [New(c, "write") EXCEPT !.ret = ret])
        BY <4>1, <4>2
      <4> QED  BY <3>1, <3>3, <3>4, <4>1, <4>3 DEF Claims
    <3>5. CASE ~IsWriter(c)
      BY <2>1, <3>1, <3>3, <3>5 DEF watdfs_cli_write
    <3> QED  BY <3>4, <3>5
  <2>2. CASE watdfs_cli_fsync(c)
    <3>1. "fsync" \in Ops \ {"mknod", "truncate"} /\ -EPERM \in Int
      BY DEF Ops, EPERM
    <3> QED  BY <2>2, <3>1 DEF watdfs_cli_fsync, Claims
  <2>3. CASE watdfs_cli_utimensat(c)
    <3>1. "utimensat" \in Ops \ {"mknod", "truncate"} /\ -EMFILE \in Int
      BY DEF Ops, EMFILE
    <3> QED  BY <2>3, <3>1 DEF watdfs_cli_utimensat, Claims
  <2>4. CASE watdfs_cli_truncate(c) /\ "truncate" \notin Operations
    <3>1. "ftruncate" \in Ops \ {"mknod", "truncate"} /\ -EMFILE \in Int
      BY DEF Ops, EMFILE
    <3>2. PICK n \in 0..MaxLen, op \in {"truncate", "ftruncate"} :
            /\ op = "ftruncate" => Has(c)
            /\ Begins(c, op) /\ UNCHANGED <<openFilesStatus, fi>>
            /\ \/ Ends(c, op, -EMFILE)
               \/ ~IsOpenHere(c)
               \/ Goto(c, "check", New(c, op))
      BY <2>4 DEF watdfs_cli_truncate
    <3>3. op = "ftruncate"
      BY <2>4, <3>2 DEF Begins
    <3>4. Has(c) /\ IsOpenHere(c)
      BY <3>2, <3>3, CallBegins
    <3> QED  BY <3>1, <3>2, <3>3, <3>4 DEF Claims
  <2> QED  BY <2>1, <2>2, <2>3, <2>4
<1>2. op \in Ops /\ op \notin {"mknod", "truncate"} /\ Retimed(openFilesStatus', c)
  BY <1>1, BeginsRetimed
<1>3. ASSUME NEW ret \in Int, Ends(c, op, ret)
      PROVE  ExclusionInv'
  BY <1>1, <1>2, <1>3, EndsExcl
<1>4. ASSUME Claims(c), NEW label \in {"check", "wb_lock"}, NEW f, Goto(c, label, f), f.op = op
      PROVE  ExclusionInv'
  BY <1>1, <1>2, <1>4, GoesExcl
<1>5. /\ New(c, op).op = op
      /\ \A ret \in Int : [New(c, op) EXCEPT !.ret = ret].op = op
  BY <1>2, NewOp
<1> QED  BY <1>1, <1>3, <1>4, <1>5

LEMMA RemountExcl ==
    ASSUME ProtocolInv, ProtocolInv', ExclusionInv, NEW c \in Clients, Remount(c)
    PROVE  ExclusionInv'
<1>1. /\ Begins(c, "remount") /\ openFilesStatus' = Erase(openFilesStatus, c) /\ UNCHANGED fi
      /\ Goto(c, "idle", [Blank EXCEPT !.op = "remount", !.ret = 0]) /\ "remount" \in Ops \cup {"none"}
  BY DEF Remount, Ends, Closed, Ops
<1>2. /\ SameBut(openFilesStatus, openFilesStatus', c) /\ SameBut(fi, fi', c)
      /\ Claims(c)' => Claims(c)
  BY <1>1, SameButs DEF Claims, Has, IsWriter, IsOpenHere
<1>3. PICK f : f.op = "remount" /\ Goto(c, "idle", f)
  <2>1. \A ret \in Int : [Blank EXCEPT !.op = "remount", !.ret = ret].op = "remount"
    BY <1>1, BlankFrames
  <2>2. PICK f : f = [Blank EXCEPT !.op = "remount", !.ret = 0]
    OBVIOUS
  <2>3. PICK r \in Int : r = 0
    OBVIOUS
  <2>4. f = [Blank EXCEPT !.op = "remount", !.ret = r]
    BY <2>2, <2>3
  <2>5. f.op = "remount"
    BY <2>1, <2>4
  <2> QED  BY <1>1, <2>2, <2>5
<1>4. Entitled("idle", f, Claims(c)')
  BY <1>3 DEF Entitled, DownloadLabels, FetchLabels, UploadLabels
<1>5. Lands(c, "idle")
  BY <1>2, <1>3, <1>4, Arrives DEF ProtocolInv
<1> QED  BY <1>1, <1>2, <1>5, BeginsExcl

-----------------------------------------------------------------------------
(* The invariant, and what follows from it. *)

LEMMA CallExcl ==
    ASSUME Operations \cap {"mknod", "truncate"} = {},
           ProtocolInv, ProtocolInv', ExclusionInv, NEW c \in Clients, Call(c)
    PROVE  ExclusionInv'
<1>1. ~watdfs_cli_mknod(c)
  BY DEF watdfs_cli_mknod, Begins
<1> QED  BY <1>1, LooksExcl, ReleaseCallExcl, ChangesExcl, RemountExcl DEF Call

LEMMA ContinueExcl ==
    ASSUME ProtocolInv, ProtocolInv', ExclusionInv, NEW c \in Clients, Continue(c)
    PROVE  ExclusionInv'
BY NobodyMakes, CheckIntervalExcl, CheckServerExcl, ProbeExcl, OpOpenExcl, OpReleaseExcl,
   DlStatExcl, DlOpenExcl, DlLockExcl, DlGrantedExcl, DlReadExcl, DlUnlockExcl, DlReleaseExcl,
   WbLockExcl, WbGrantedExcl, WbTruncExcl, WbWriteExcl, WbUtimeExcl, WbUnlockExcl DEF Continue

\* Nothing that the invariant speaks of changes.
LEMMA ExclUnchanged ==
    ASSUME ExclusionInv, UNCHANGED <<openFilesStatus_s, lk, waiting, clientVars>>
    PROVE  ExclusionInv'
<1>1. UNCHANGED <<openFilesStatus, fi, pc, frame>>
  BY DEF clientVars
<1>2. Lookup(File)' = Lookup(File)
  BY TouchedEntry
<1>3. Claimants' = Claimants /\ Fetchers' = Fetchers /\ Downloaders' = Downloaders /\ Uploaders' = Uploaders
  BY <1>1 DEF Claimants, Fetchers, Downloaders, Uploaders, Claims, Has, IsWriter, IsOpenHere,
              Downloading, Uploading
<1>4. OpenNumCoversClients' /\ HoldersCovered'
  BY <1>2, <1>3 DEF ExclusionInv, OpenNumCoversClients, HoldersCovered
<1>5. AllEntitled'
  BY <1>1 DEF ExclusionInv, AllEntitled, Entitled, Claims, Has, IsWriter, IsOpenHere
<1>6. \A c \in Clients : WaitsRightly(c)'
  BY <1>1, <1>2 DEF ExclusionInv, WaitsRightly
<1> QED  BY <1>2, <1>4, <1>5, <1>6 DEF ExclusionInv

LEMMA NextExcl ==
    ASSUME Operations \cap {"mknod", "truncate"} = {},
           ProtocolInv, ProtocolInv', ExclusionInv, [Next]_allVars
    PROVE  ExclusionInv'
<1>1. CASE \E c \in Clients : Call(c) \/ Continue(c)
  BY <1>1, CallExcl, ContinueExcl
<1>2. CASE Tick /\ UNCHANGED <<clientVars, calls, lost>>
  BY <1>2, ExclUnchanged DEF Tick
<1>3. CASE UNCHANGED allVars
  BY <1>3, ExclUnchanged DEF allVars, serverVars
<1> QED  BY <1>1, <1>2, <1>3 DEF Next

LEMMA InitExcl == Init => ExclusionInv
<1> SUFFICES ASSUME Init PROVE ExclusionInv
  OBVIOUS
<1>1. /\ \A c \in Clients : pc[c] = "idle" /\ frame[c] = Blank /\ waiting[c] = NotWaiting
      /\ \A c \in Clients : ~Has(c) /\ ~IsWriter(c)
      /\ Lookup(File) = Phantom
  <2>1. DOMAIN openFilesStatus = {} /\ DOMAIN fi = {} /\ DOMAIN openFilesStatus_s = {}
    BY DEF Init, ServerInit
  <2> QED  BY <2>1 DEF Init, ServerInit, Has, IsWriter, IsOpenHere, Lookup
<1>2. Claimants = {} /\ Fetchers = {} /\ Downloaders = {} /\ Uploaders = {}
  BY <1>1 DEF Claimants, Fetchers, Downloaders, Uploaders, Claims, FetchLabels, Downloading, Uploading
<1>3. Phantom.openNum = 0 /\ Phantom.lock \notin Locks
  BY NamesAssumption DEF Phantom
<1>4. OpenNumCoversClients /\ HoldersCovered
  BY <1>1, <1>2, <1>3, FS_EmptySet DEF OpenNumCoversClients, HoldersCovered
<1>5. AllEntitled
  <2>1. Blank.op = "none"
    BY DEF Blank
  <2> QED  BY <1>1, <2>1 DEF AllEntitled, Entitled, DownloadLabels, FetchLabels, UploadLabels
<1>6. \A c \in Clients : WaitsRightly(c)
  BY <1>1 DEF WaitsRightly
<1> QED  BY <1>1, <1>3, <1>4, <1>5, <1>6 DEF ExclusionInv

\* openNum keeps counting every client that has the file open or downloads it, and
\* the lock every client that transfers it, whatever is opened, released, refused
\* or not answered: no entry, and no lock, is destroyed under a client that uses it
\* (watdfs_open, watdfs_release, watdfs_lock and watdfs_unlock).
THEOREM ExclusionInvariant ==
    ASSUME Operations \cap {"mknod", "truncate"} = {}
    PROVE  Spec => []ExclusionInv
<1>1. Init => ExclusionInv
  BY InitExcl
<1>2. ProtocolInv /\ ProtocolInv' /\ ExclusionInv /\ [Next]_allVars => ExclusionInv'
  BY NextExcl
<1> QED  BY <1>1, <1>2, ProtocolInvariant, PTL DEF Spec

\* The counters leave room for one uploading client and nobody else.
LEMMA Excludes == ProtocolInv /\ ExclusionInv => TransferExclusion
<1> SUFFICES ASSUME ProtocolInv, ExclusionInv, NEW c \in Clients, NEW d \in Clients, c # d, Uploading(c)
             PROVE  ~Uploading(d) /\ ~Downloading(d)
  BY DEF TransferExclusion
<1> DEFINE e == Lookup(File)
<1>1. Downloaders \subseteq Fetchers /\ Uploaders \subseteq Claimants
  BY HoldersHaveOpen DEF ExclusionInv
<1>2. IsFiniteSet(Downloaders) /\ IsFiniteSet(Uploaders)
  BY <1>1, FS_Subset DEF ExclusionInv, OpenNumCoversClients
<1>3. e.lock \in Locks
  <2>1. c \in Claimants
    BY <1>1 DEF Uploaders
  <2>2. ~(e.openNum <= 0)
    BY <2>1, NobodyCounted DEF ExclusionInv
  <2>3. e.openNum \in Int
    BY EntryType DEF ProtocolInv, TableInv, FileStatus
  <2> QED  BY <2>2, <2>3 DEF ExclusionInv
<1>4. /\ lk[e.lock].num_readers_ \in Nat /\ lk[e.lock].num_writers_ \in Nat
      /\ lk[e.lock].num_readers_ >= Cardinality(Downloaders)
      /\ lk[e.lock].num_writers_ >= Cardinality(Uploaders)
  BY <1>3, LockType DEF ExclusionInv, HoldersCovered, ProtocolInv, TableInv
<1>5. /\ lk[e.lock].num_writers_ <= 1
      /\ lk[e.lock].num_writers_ = 1 => lk[e.lock].num_readers_ = 0
  BY <1>3, <1>4 DEF ProtocolInv, TableInv, LocksExclude
<1>6. /\ Cardinality(Downloaders) \in Nat /\ Cardinality(Uploaders) \in Nat
      /\ Cardinality(Uploaders) # 0
  BY <1>2, FS_CardinalityType, FS_EmptySet DEF Uploaders
<1> HIDE DEF e
<1>7. Cardinality(Uploaders) = 1 /\ Cardinality(Downloaders) = 0
  BY <1>4, <1>5, <1>6
<1>8. d \notin Downloaders
  BY <1>2, <1>7, FS_EmptySet
<1>9. d \notin Uploaders
  <2>1. PICK x : Uploaders = {x}
    BY <1>2, <1>7, FS_Singleton
  <2> QED  BY <2>1 DEF Uploaders
<1> QED  BY <1>8, <1>9 DEF Downloaders, Uploaders

\* Atomic transfer (watdfs_cli_lock and watdfs_cli_unlock around the transfers of
\* cli_downloadFile and cli_write_back): while one client uploads the file nobody
\* else uploads or reads it, for any number of clients, opens and failures.
THEOREM TransferExclusionHolds ==
    ASSUME Operations \cap {"mknod", "truncate"} = {}
    PROVE  Spec => []TransferExclusion
BY ExclusionInvariant, ProtocolInvariant, Excludes, PTL
====================================================================================
