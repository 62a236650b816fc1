---------------------------- MODULE WatDFSServerProofs ----------------------------
(***************************************************************************)
(* Proofs about WatDFSServer, for any clients, paths, descriptors and      *)
(* locks, and whatever calls the clients make in whatever order.           *)
(*                                                                         *)
(* OneWriter is not inductive: watdfs_open does not look at descriptors    *)
(* but at the entry of the table.  The invariant says how the entry stands *)
(* for the descriptors: openNum covers them (OpenNumCovers), and an entry  *)
(* in write mode stands behind every descriptor open for writing           *)
(* (ModeCovers).                                                           *)
(***************************************************************************)
EXTENDS WatDFSServer, FiniteSetTheorems, SequenceTheorems, TLAPS

\* Whoever writes, the entry is in write mode.
ModeCovers ==
    \A p \in Paths :
        WriteOpens(p) # {} =>
            p \in DOMAIN openFilesStatus_s /\ openFilesStatus_s[p].serverMode = 1

TableInv ==
    /\ TableTypeOK
    /\ OpenNumCovers
    /\ ModeCovers
    /\ OneWriter
    /\ NotOrphaned
    /\ LocksExclude

tableVars == <<openFilesStatus_s, lk, waiting, fds>>

-----------------------------------------------------------------------------
(* Lemmas *)

LEMMA FiniteOpens == \A p : IsFiniteSet(Opens(p))
<1>1. \A p : Opens(p) \subseteq FD
  BY DEF Opens
<1> QED  BY <1>1, ServerAssumption, FS_Subset

\* Nobody has an uncounted path open.
LEMMA UncountedUnopened ==
    ASSUME TableInv, NEW p \in Paths, ~Counted(p)
    PROVE  Opens(p) = {}
<1>1. CASE p \notin DOMAIN openFilesStatus_s
  BY <1>1 DEF TableInv, OpenNumCovers
<1>2. CASE p \in DOMAIN openFilesStatus_s
  <2>1. openFilesStatus_s[p].openNum \in Int
    BY <1>2 DEF TableInv, TableTypeOK, FileStatus
  <2>2. Cardinality(Opens(p)) \in Nat
    BY FiniteOpens, FS_CardinalityType
  <2>3. Cardinality(Opens(p)) = 0
    BY <1>2, <2>1, <2>2 DEF TableInv, OpenNumCovers, Counted
  <2> QED  BY <2>3, FiniteOpens, FS_EmptySet
<1> QED  BY <1>1, <1>2

\* A call that leaves the table, the locks and the descriptors alone.
LEMMA TableUnchanged == TableInv /\ UNCHANGED tableVars => TableInv'
BY DEF TableInv, tableVars, TableTypeOK, OpenNumCovers, ModeCovers, OneWriter, NotOrphaned,
       LocksExclude, Opens, WriteOpens

\* operator[] on a path without an entry adds one that counts nobody, and
\* nobody has that path open.
LEMMA TouchKeeps ==
    ASSUME TableInv, NEW p \in Paths, UNCHANGED <<waiting, fds>>,
           openFilesStatus_s' = Touched(p)
    PROVE  /\ DOMAIN openFilesStatus_s' \subseteq Paths
           /\ \A q \in DOMAIN openFilesStatus_s' : openFilesStatus_s'[q] \in FileStatus
           /\ OpenNumCovers'
           /\ ModeCovers'
           /\ OneWriter'
           /\ NotOrphaned'
<1> USE DEF TableInv
<1>1. /\ DOMAIN openFilesStatus_s' = DOMAIN openFilesStatus_s \cup {p}
      /\ \A q \in DOMAIN openFilesStatus_s : openFilesStatus_s'[q] = openFilesStatus_s[q]
      /\ p \notin DOMAIN openFilesStatus_s => openFilesStatus_s'[p] = Phantom
  BY DEF Touched, Put, Lookup
<1>2. \A q : Opens(q)' = Opens(q) /\ WriteOpens(q)' = WriteOpens(q)
  BY DEF Opens, WriteOpens
<1>3. Phantom \in FileStatus /\ Phantom.openNum = 0
  BY DEF Phantom, FileStatus
<1>4. DOMAIN openFilesStatus_s' \subseteq Paths
      /\ \A q \in DOMAIN openFilesStatus_s' : openFilesStatus_s'[q] \in FileStatus
  BY <1>1, <1>3 DEF TableTypeOK
<1>5. OpenNumCovers'
  <2>1. Cardinality({}) = 0
    BY FS_EmptySet
  <2>2. p \notin DOMAIN openFilesStatus_s => Opens(p) = {}
    BY DEF OpenNumCovers
  <2> QED  BY <1>1, <1>2, <1>3, <2>1, <2>2 DEF OpenNumCovers
<1>6. ModeCovers' /\ OneWriter' /\ NotOrphaned'
  BY <1>1, <1>2 DEF ModeCovers, OneWriter, NotOrphaned
<1> QED  BY <1>4, <1>5, <1>6

\* A record spelt out.
Fields(s) == [serverMode |-> s.serverMode, openNum |-> s.openNum, lock |-> s.lock]

\* What watdfs_release makes of an entry.
LEMMA UncountedEntry ==
    ASSUME NEW p \in DOMAIN openFilesStatus_s, openFilesStatus_s[p] \in FileStatus, NEW flag
    PROVE  /\ Uncounted(p, flag) \in FileStatus
           /\ Uncounted(p, flag).openNum = openFilesStatus_s[p].openNum - 1
           /\ Uncounted(p, flag).lock = openFilesStatus_s[p].lock
           /\ Uncounted(p, flag).serverMode =
                IF flag # O_RDONLY THEN 0 ELSE openFilesStatus_s[p].serverMode
<1>1. openFilesStatus_s[p] = Fields(openFilesStatus_s[p])
  BY DEF FileStatus, Fields
<1>2. /\ openFilesStatus_s[p].serverMode \in {0, 1}
      /\ openFilesStatus_s[p].openNum \in Int
      /\ openFilesStatus_s[p].lock \in Locks \cup {NULL}
  BY DEF FileStatus
<1>3. Uncounted(p, flag) =
        [serverMode |-> IF flag # O_RDONLY THEN 0 ELSE openFilesStatus_s[p].serverMode,
         openNum |-> openFilesStatus_s[p].openNum - 1,
         lock |-> openFilesStatus_s[p].lock]
  <2>1. Uncounted(p, flag) =
          [openFilesStatus_s[p] EXCEPT !.openNum = @ - 1,
                                       !.serverMode = IF flag # O_RDONLY THEN 0 ELSE @]
    BY DEF Uncounted, Lookup
  <2> QED  BY <1>1, <2>1 DEF Fields
<1> QED  BY <1>2, <1>3 DEF FileStatus

-----------------------------------------------------------------------------
(* One lemma for each kind of call that changes the table. *)

LEMMA InitTable == ServerInit => TableInv
<1> SUFFICES ASSUME ServerInit PROVE TableInv  OBVIOUS
<1>1. \A p : Opens(p) = {} /\ WriteOpens(p) = {}
  BY NamesAssumption DEF ServerInit, Opens, WriteOpens, FreeFd
<1>2. TableTypeOK
  BY DEF ServerInit, TableTypeOK, NoHolders, FreeFd
<1>3. OpenNumCovers /\ ModeCovers /\ OneWriter
  BY <1>1 DEF ServerInit, OpenNumCovers, ModeCovers, OneWriter
<1>4. NotOrphaned /\ LocksExclude
  BY DEF ServerInit, NotOrphaned, LocksExclude, NoHolders, NotWaiting
<1> QED  BY <1>2, <1>3, <1>4 DEF TableInv

LEMMA OpenTable ==
    ASSUME TableInv, NEW c \in Clients, waiting[c] = NotWaiting,
           NEW p \in Paths, NEW flag \in OpenFlags, NEW ret, NEW fh,
           watdfs_open(c, p, flag, ret, fh)
    PROVE  TableInv'
<1> USE DEF TableInv
<1>1. CASE WriteConflict(p, flag)
  BY <1>1, TableUnchanged DEF watdfs_open, tableVars
<1>2. CASE ~WriteConflict(p, flag)
  <2> DEFINE e == openFilesStatus_s'[p]
  <2>1. /\ DOMAIN openFilesStatus_s' = DOMAIN openFilesStatus_s \cup {p}
        /\ \A q \in DOMAIN openFilesStatus_s : q # p => openFilesStatus_s'[q] = openFilesStatus_s[q]
        /\ e \in FileStatus
        /\ flag # O_RDONLY => e.serverMode = 1
        /\ Counted(p) => /\ e.openNum = openFilesStatus_s[p].openNum + 1
                         /\ e.lock = openFilesStatus_s[p].lock
                         /\ openFilesStatus_s[p].serverMode = 1 => e.serverMode = 1
        /\ ~Counted(p) => e.openNum = 1
        /\ lk' = lk \/ \E l \in Locks : lk' = [lk EXCEPT ![l] = NoHolders]
        /\ UNCHANGED waiting
    <3>1. CASE Counted(p)
      <4>1. JoinEntry(p, flag) /\ UNCHANGED waiting
        BY <1>2, <3>1 DEF watdfs_open
      <4>2. p \in DOMAIN openFilesStatus_s /\ openFilesStatus_s[p] \in FileStatus
        BY <3>1 DEF Counted, TableTypeOK
      <4>3. /\ DOMAIN openFilesStatus_s' = DOMAIN openFilesStatus_s
            /\ \A q \in DOMAIN openFilesStatus_s : q # p => openFilesStatus_s'[q] = openFilesStatus_s[q]
            /\ e = [openFilesStatus_s[p] EXCEPT !.serverMode = IF flag # O_RDONLY THEN 1 ELSE @,
                                                !.openNum = @ + 1]
        BY <4>1, <4>2 DEF JoinEntry
      <4>4. /\ e \in FileStatus
            /\ e.openNum = openFilesStatus_s[p].openNum + 1
            /\ e.lock = openFilesStatus_s[p].lock
            /\ flag # O_RDONLY => e.serverMode = 1
            /\ openFilesStatus_s[p].serverMode = 1 => e.serverMode = 1
        <5>1. openFilesStatus_s[p] = Fields(openFilesStatus_s[p])
          BY <4>2 DEF FileStatus, Fields
        <5>2. /\ openFilesStatus_s[p].serverMode \in {0, 1}
              /\ openFilesStatus_s[p].openNum \in Int
              /\ openFilesStatus_s[p].lock \in Locks \cup {NULL}
          BY <4>2 DEF FileStatus
        <5>3. e = [serverMode |-> IF flag # O_RDONLY THEN 1 ELSE openFilesStatus_s[p].serverMode,
                   openNum |-> openFilesStatus_s[p].openNum + 1,
                   lock |-> openFilesStatus_s[p].lock]
          BY <4>3, <5>1 DEF Fields
        <5> HIDE DEF e
        <5> QED  BY <5>2, <5>3 DEF FileStatus
      <4>5. lk' = lk
        BY <4>1 DEF JoinEntry
      <4> QED  BY <3>1, <4>1, <4>2, <4>3, <4>4, <4>5
    <3>2. CASE ~Counted(p)
      <4>1. NewEntry(p, flag) /\ UNCHANGED waiting
        BY <1>2, <3>2 DEF watdfs_open
      <4>2. PICK l \in Locks :
               /\ lk' = [lk EXCEPT ![l] = NoHolders]
               /\ openFilesStatus_s' =
                    Put(openFilesStatus_s, p,
                        [serverMode |-> IF flag = O_RDONLY THEN 0 ELSE 1, openNum |-> 1, lock |-> l])
        BY <4>1 DEF NewEntry
      <4>3. /\ DOMAIN openFilesStatus_s' = DOMAIN openFilesStatus_s \cup {p}
            /\ \A q \in DOMAIN openFilesStatus_s : q # p => openFilesStatus_s'[q] = openFilesStatus_s[q]
            /\ e = [serverMode |-> IF flag = O_RDONLY THEN 0 ELSE 1, openNum |-> 1, lock |-> l]
        BY <4>2 DEF Put
      <4>4. e \in FileStatus /\ e.openNum = 1 /\ (flag # O_RDONLY => e.serverMode = 1)
        BY <4>3 DEF FileStatus
      <4> QED  BY <3>2, <4>1, <4>2, <4>3, <4>4
    <3> QED  BY <3>1, <3>2
  <2>2. \/ UNCHANGED fds
        \/ /\ fh \in FreeFds
           /\ fds' = [fds EXCEPT ![fh] = [owner |-> c, path |-> p, flag |-> flag]]
    BY <1>2 DEF watdfs_open, OpenFile
  <2>3. TableTypeOK'
    <3>1. fds' \in [FD -> {FreeFd} \cup [owner : Clients \cup {Leaked}, path : Paths, flag : OpenFlags]]
      BY <2>2 DEF TableTypeOK, FreeFds
    <3>2. lk' \in [Locks -> [num_readers_ : Nat, num_writers_ : Nat]]
      BY <2>1 DEF TableTypeOK, NoHolders
    <3> QED  BY <2>1, <3>1, <3>2 DEF TableTypeOK
  <2>4. \A q : q # p => Opens(q)' = Opens(q) /\ WriteOpens(q)' = WriteOpens(q)
    BY <2>2, NamesAssumption DEF Opens, WriteOpens, FreeFds, TableTypeOK
  <2>5. \/ Opens(p)' = Opens(p) /\ WriteOpens(p)' = WriteOpens(p)
        \/ /\ Opens(p)' = Opens(p) \cup {fh} /\ fh \notin Opens(p)
           /\ WriteOpens(p)' = IF flag = O_RDONLY THEN WriteOpens(p) ELSE WriteOpens(p) \cup {fh}
    BY <2>2, NamesAssumption DEF Opens, WriteOpens, FreeFds, TableTypeOK
  <2>6. OpenNumCovers'
    <3>1. Cardinality(Opens(p)) \in Nat /\ Cardinality({}) = 0
      BY FiniteOpens, FS_CardinalityType, FS_EmptySet
    <3>2. Cardinality(Opens(p)') \in Nat /\ Cardinality(Opens(p)') <= Cardinality(Opens(p)) + 1
      BY <2>5, <3>1, FiniteOpens, FS_AddElement
    <3>3. e.openNum >= Cardinality(Opens(p)')
      <4>1. CASE Counted(p)
        <5>1. /\ openFilesStatus_s[p].openNum \in Int
              /\ openFilesStatus_s[p].openNum >= Cardinality(Opens(p))
          BY <4>1 DEF Counted, OpenNumCovers, TableTypeOK, FileStatus
        <5> QED  BY <2>1, <3>1, <3>2, <4>1, <5>1
      <4>2. CASE ~Counted(p)
        <5>1. Opens(p) = {} /\ e.openNum = 1
          BY <2>1, <4>2, UncountedUnopened
        <5>2. Cardinality(Opens(p)) = 0
          BY <3>1, <5>1
        <5> QED  BY <3>2, <5>1, <5>2
      <4> QED  BY <4>1, <4>2
    <3> QED  BY <2>1, <2>4, <3>3 DEF OpenNumCovers
  <2>7. flag # O_RDONLY => WriteOpens(p) = {}
    <3>1. ~Counted(p) => WriteOpens(p) = {}
      BY UncountedUnopened DEF WriteOpens
    <3>2. Counted(p) /\ flag # O_RDONLY => openFilesStatus_s[p].serverMode # 1
      BY <1>2 DEF WriteConflict, Counted, TableTypeOK, FileStatus
    <3> QED  BY <3>1, <3>2 DEF ModeCovers
  <2>8. ModeCovers'
    <3>1. WriteOpens(p)' # {} => e.serverMode = 1
      <4>1. CASE flag # O_RDONLY
        BY <2>1, <4>1
      <4>2. CASE flag = O_RDONLY
        <5>1. WriteOpens(p)' = WriteOpens(p)
          BY <2>5, <4>2
        <5>2. ~Counted(p) => WriteOpens(p) = {}
          BY UncountedUnopened DEF WriteOpens
        <5> QED  BY <2>1, <5>1, <5>2 DEF ModeCovers, Counted
      <4> QED  BY <4>1, <4>2
    <3> QED  BY <2>1, <2>4, <3>1 DEF ModeCovers
  <2>9. OneWriter'
    <3>1. \A f, g \in WriteOpens(p)' : f = g
      BY <2>5, <2>7 DEF OneWriter
    <3> QED  BY <2>4, <3>1 DEF OneWriter
  <2>10. NotOrphaned'
    <3> SUFFICES ASSUME NEW d \in Clients, NEW fd \in FD, waiting[d].lock # NULL,
                        fds'[fd].owner = d, fds'[fd].path = waiting[d].path
                 PROVE  /\ waiting[d].path \in DOMAIN openFilesStatus_s'
                        /\ openFilesStatus_s'[waiting[d].path].lock = waiting[d].lock
      BY <2>1 DEF NotOrphaned
    <3>1. d # c
      BY DEF NotWaiting
    <3>2. fds'[fd] = fds[fd]
      BY <2>2, <3>1 DEF TableTypeOK, FreeFds
    <3>3. /\ waiting[d].path \in DOMAIN openFilesStatus_s
          /\ openFilesStatus_s[waiting[d].path].lock = waiting[d].lock
      BY <3>2 DEF NotOrphaned
    <3>4. CASE waiting[d].path = p
      <4>1. fd \in Opens(p)
        BY <3>2, <3>4 DEF Opens
      <4> QED  BY <2>1, <3>3, <3>4, <4>1, UncountedUnopened
    <3>5. CASE waiting[d].path # p
      BY <2>1, <3>3, <3>5
    <3> QED  BY <3>4, <3>5
  <2>11. LocksExclude'
    BY <2>1 DEF LocksExclude, NoHolders, TableTypeOK
  <2> QED  BY <2>3, <2>6, <2>8, <2>9, <2>10, <2>11
<1> QED  BY <1>1, <1>2

LEMMA ReleaseTable ==
    ASSUME TableInv, NEW c \in Clients, waiting[c] = NotWaiting,
           NEW fd \in FD, Own(c, fd), NEW ret,
           NEW p, p = fds[fd].path, NEW flag, flag = fds[fd].flag,
           watdfs_release(c, p, flag, fd, ret)
    PROVE  TableInv'
<1> USE DEF TableInv
<1> DEFINE e == Uncounted(p, flag)
<1>1. /\ IsOpen(fd) /\ p \in Paths /\ flag \in OpenFlags /\ fds[fd].owner \in Clients
      /\ fd \in Opens(p)
  BY NamesAssumption DEF Own, IsOpen, Opens, TableTypeOK, FreeFd
<1>2. fds' = [fds EXCEPT ![fd] = FreeFd] /\ CloseEntry(p, flag) /\ UNCHANGED waiting
  BY <1>1 DEF watdfs_release
<1>3. p \in DOMAIN openFilesStatus_s /\ openFilesStatus_s[p] \in FileStatus
  BY <1>1 DEF OpenNumCovers, TableTypeOK
<1>4. /\ e \in FileStatus
      /\ e.openNum = openFilesStatus_s[p].openNum - 1
      /\ e.lock = openFilesStatus_s[p].lock
      /\ e.serverMode = IF flag # O_RDONLY THEN 0 ELSE openFilesStatus_s[p].serverMode
  <2> HIDE DEF TableInv
  <2> QED  BY <1>3, UncountedEntry
<1>5. /\ \A q : q # p => Opens(q)' = Opens(q) /\ WriteOpens(q)' = WriteOpens(q)
      /\ Opens(p)' = Opens(p) \ {fd}
      /\ WriteOpens(p)' = WriteOpens(p) \ {fd}
  BY <1>1, <1>2, NamesAssumption DEF Opens, WriteOpens, FreeFd, TableTypeOK
<1>6. /\ Cardinality(Opens(p)') \in Nat
      /\ openFilesStatus_s[p].openNum \in Int
      /\ e.openNum >= Cardinality(Opens(p)')
  <2>1. Cardinality(Opens(p)) \in Nat /\ Cardinality(Opens(p) \ {fd}) = Cardinality(Opens(p)) - 1
    BY <1>1, FiniteOpens, FS_CardinalityType, FS_RemoveElement
  <2>2. Cardinality(Opens(p) \ {fd}) \in Nat
    BY FiniteOpens, FS_Subset, FS_CardinalityType
  <2>3. openFilesStatus_s[p].openNum \in Int /\ openFilesStatus_s[p].openNum >= Cardinality(Opens(p))
    BY <1>1, <1>3 DEF OpenNumCovers, FileStatus
  <2> QED  BY <1>4, <1>5, <2>1, <2>2, <2>3
<1>7. lk' = lk \/ \E l \in Locks : lk' = [lk EXCEPT ![l] = NoHolders]
  BY <1>2, <1>4 DEF CloseEntry, FileStatus
<1>8. CASE LastCloser(e)
  <2>1. /\ openFilesStatus_s' = Erase(openFilesStatus_s, p)
        /\ DOMAIN openFilesStatus_s' = DOMAIN openFilesStatus_s \ {p}
        /\ \A q \in DOMAIN openFilesStatus_s' : openFilesStatus_s'[q] = openFilesStatus_s[q]
    BY <1>2, <1>8 DEF CloseEntry, Erase
  <2>2. Opens(p)' = {} /\ WriteOpens(p)' = {}
    <3>1. Cardinality(Opens(p) \ {fd}) = 0 /\ IsFiniteSet(Opens(p) \ {fd})
      BY <1>4, <1>5, <1>6, <1>8, FiniteOpens, FS_Subset DEF LastCloser
    <3>2. Opens(p) \ {fd} = {}
      BY <3>1, FS_EmptySet
    <3> QED  BY <1>5, <3>2 DEF WriteOpens
  <2>3. TableTypeOK'
    BY <1>1, <1>2, <1>7, <2>1 DEF TableTypeOK, NoHolders
  <2>4. OpenNumCovers' /\ ModeCovers' /\ OneWriter'
    BY <1>5, <2>1, <2>2 DEF OpenNumCovers, ModeCovers, OneWriter
  <2>5. NotOrphaned'
    <3> SUFFICES ASSUME NEW d \in Clients, NEW g \in FD, waiting[d].lock # NULL,
                        fds'[g].owner = d, fds'[g].path = waiting[d].path
                 PROVE  /\ waiting[d].path \in DOMAIN openFilesStatus_s'
                        /\ openFilesStatus_s'[waiting[d].path].lock = waiting[d].lock
      BY <1>2 DEF NotOrphaned
    <3>1. g # fd /\ fds'[g] = fds[g]
      BY <1>2, NamesAssumption DEF FreeFd, TableTypeOK
    <3>2. waiting[d].path # p
      BY <2>2, <3>1 DEF Opens
    <3> QED  BY <2>1, <3>1, <3>2 DEF NotOrphaned
  <2>6. LocksExclude'
    BY <1>7 DEF LocksExclude, NoHolders, TableTypeOK
  <2> QED  BY <2>3, <2>4, <2>5, <2>6
<1>9. CASE ~LastCloser(e)
  <2>1. /\ DOMAIN openFilesStatus_s' = DOMAIN openFilesStatus_s
        /\ \A q \in DOMAIN openFilesStatus_s : q # p => openFilesStatus_s'[q] = openFilesStatus_s[q]
        /\ openFilesStatus_s'[p] = e
    BY <1>2, <1>3, <1>9 DEF CloseEntry, Put
  <2>2. TableTypeOK'
    BY <1>1, <1>2, <1>4, <1>7, <2>1 DEF TableTypeOK, NoHolders
  <2>3. OpenNumCovers'
    BY <1>5, <1>6, <2>1 DEF OpenNumCovers
  <2>4. ModeCovers'
    <3>1. WriteOpens(p)' # {} => e.serverMode = 1
      <4>1. CASE flag # O_RDONLY
        <5>1. fd \in WriteOpens(p)
          BY <1>1, <4>1 DEF WriteOpens
        <5> QED  BY <1>1, <1>5, <5>1 DEF OneWriter
      <4>2. CASE flag = O_RDONLY
        BY <1>1, <1>4, <1>5, <4>2 DEF ModeCovers
      <4> QED  BY <4>1, <4>2
    <3> QED  BY <1>5, <2>1, <3>1 DEF ModeCovers
  <2>5. OneWriter'
    BY <1>5 DEF OneWriter
  <2>6. NotOrphaned'
    <3> SUFFICES ASSUME NEW d \in Clients, NEW g \in FD, waiting[d].lock # NULL,
                        fds'[g].owner = d, fds'[g].path = waiting[d].path
                 PROVE  /\ waiting[d].path \in DOMAIN openFilesStatus_s'
                        /\ openFilesStatus_s'[waiting[d].path].lock = waiting[d].lock
      BY <1>2 DEF NotOrphaned
    <3>1. g # fd /\ fds'[g] = fds[g]
      BY <1>2, NamesAssumption DEF FreeFd, TableTypeOK
    <3>2. /\ waiting[d].path \in DOMAIN openFilesStatus_s
          /\ openFilesStatus_s[waiting[d].path].lock = waiting[d].lock
      BY <3>1 DEF NotOrphaned
    <3> QED  BY <1>4, <2>1, <3>2
  <2>7. LocksExclude'
    BY <1>7 DEF LocksExclude, NoHolders, TableTypeOK
  <2> QED  BY <2>2, <2>3, <2>4, <2>5, <2>6, <2>7
<1> QED  BY <1>8, <1>9

LEMMA UtimensatTable ==
    ASSUME TableInv, NEW c \in Clients, NEW p \in Paths, NEW t, NEW ret,
           watdfs_utimensat(c, p, t, ret)
    PROVE  TableInv'
<1> USE DEF TableInv
<1>1. CASE UNCHANGED fds
  BY <1>1, TableUnchanged DEF watdfs_utimensat, tableVars
<1>2. ASSUME NEW fd \in FreeFds,
             fds' = [fds EXCEPT ![fd] = [owner |-> Leaked, path |-> p, flag |-> O_RDWR]]
      PROVE  TableInv'
  <2>1. UNCHANGED <<openFilesStatus_s, lk, waiting>>
    BY DEF watdfs_utimensat
  <2>2. \A q : Opens(q)' = Opens(q) /\ WriteOpens(q)' = WriteOpens(q)
    BY <1>2, NamesAssumption DEF Opens, WriteOpens, FreeFds, TableTypeOK
  <2>3. TableTypeOK'
    BY <1>2, <2>1 DEF TableTypeOK, FreeFds, OpenFlags
  <2>4. OpenNumCovers' /\ ModeCovers' /\ OneWriter' /\ LocksExclude'
    BY <2>1, <2>2 DEF OpenNumCovers, ModeCovers, OneWriter, LocksExclude
  <2>5. NotOrphaned'
    BY <1>2, <2>1, NamesAssumption DEF NotOrphaned, FreeFds, TableTypeOK
  <2> QED  BY <2>3, <2>4, <2>5
<1> QED  BY <1>1, <1>2 DEF watdfs_utimensat

LEMMA LockTable ==
    ASSUME TableInv, NEW c \in Clients, waiting[c] = NotWaiting,
           NEW p \in Paths, NEW m \in LockModes, NEW ret,
           \/ watdfs_lock_fails(c, p, m, ret)
           \/ watdfs_lock_enters(c, p, m)
           \/ watdfs_unlock(c, p, m, ret)
    PROVE  TableInv'
<1> USE DEF TableInv
<1>1. CASE watdfs_lock_fails(c, p, m, ret)
  <2>1. openFilesStatus_s' = Touched(p) /\ UNCHANGED <<lk, waiting, fds>>
    BY <1>1 DEF watdfs_lock_fails
  <2>2. TableTypeOK' /\ LocksExclude'
    BY <2>1, TouchKeeps DEF TableTypeOK, LocksExclude
  <2> QED  BY <2>1, <2>2, TouchKeeps
<1>2. CASE watdfs_lock_enters(c, p, m)
  <2>1. /\ waiting' = [waiting EXCEPT ![c] = [path |-> p, lock |-> Lookup(p).lock, mode |-> m]]
        /\ Lookup(p).lock # NULL
        /\ UNCHANGED <<openFilesStatus_s, lk, fds>>
    BY <1>2 DEF watdfs_lock_enters
  <2>2. /\ p \in DOMAIN openFilesStatus_s
        /\ Lookup(p).lock = openFilesStatus_s[p].lock
        /\ Lookup(p).lock \in Locks
    BY <2>1 DEF Lookup, Phantom, TableTypeOK, FileStatus
  <2>3. TableTypeOK'
    BY <2>1, <2>2 DEF TableTypeOK
  <2>4. OpenNumCovers' /\ ModeCovers' /\ OneWriter' /\ LocksExclude'
    BY <2>1 DEF OpenNumCovers, ModeCovers, OneWriter, LocksExclude, Opens, WriteOpens
  <2>5. NotOrphaned'
    BY <2>1, <2>2 DEF NotOrphaned, TableTypeOK
  <2> QED  BY <2>3, <2>4, <2>5
<1>3. CASE watdfs_unlock(c, p, m, ret)
  <2> DEFINE l == Lookup(p).lock
  <2>1. openFilesStatus_s' = Touched(p) /\ UNCHANGED <<waiting, fds>>
    BY <1>3 DEF watdfs_unlock
  <2>2. l # NULL => l \in Locks
    BY DEF Lookup, Phantom, TableTypeOK, FileStatus
  <2>3. CASE UNCHANGED lk
    BY <2>1, <2>3, TouchKeeps DEF TableTypeOK, LocksExclude
  <2>4. CASE IsHeld(l, m) /\ m = RW_READ_LOCK /\ lk' = [lk EXCEPT ![l].num_readers_ = @ - 1]
    <3>1. lk' \in [Locks -> [num_readers_ : Nat, num_writers_ : Nat]] /\ LocksExclude'
      BY <2>2, <2>4 DEF IsHeld, TableTypeOK, LocksExclude
    <3> QED  BY <2>1, <3>1, TouchKeeps DEF TableTypeOK
  <2>5. CASE IsHeld(l, m) /\ m # RW_READ_LOCK /\ lk' = [lk EXCEPT ![l].num_writers_ = @ - 1]
    <3>1. lk' \in [Locks -> [num_readers_ : Nat, num_writers_ : Nat]] /\ LocksExclude'
      BY <2>2, <2>5 DEF IsHeld, TableTypeOK, LocksExclude
    <3> QED  BY <2>1, <3>1, TouchKeeps DEF TableTypeOK
  <2> QED  BY <1>3, <2>3, <2>4, <2>5 DEF watdfs_unlock
<1> QED  BY <1>1, <1>2, <1>3

LEMMA GrantTable ==
    ASSUME TableInv, NEW c \in Clients, watdfs_lock_granted(c)
    PROVE  TableInv'
<1> USE DEF TableInv
<1> DEFINE l == waiting[c].lock
           m == waiting[c].mode
<1>1. l \in Locks /\ MayHold(l, m)
  BY DEF watdfs_lock_granted, TableTypeOK, NotWaiting
<1>2. /\ lk' = IF m = RW_READ_LOCK THEN [lk EXCEPT ![l].num_readers_ = @ + 1]
                                    ELSE [lk EXCEPT ![l].num_writers_ = @ + 1]
      /\ waiting' = [waiting EXCEPT ![c] = NotWaiting]
      /\ UNCHANGED <<openFilesStatus_s, fds>>
  BY DEF watdfs_lock_granted
<1>3. TableTypeOK'
  BY <1>1, <1>2 DEF TableTypeOK
<1>4. LocksExclude'
  BY <1>1, <1>2 DEF LocksExclude, MayHold, TableTypeOK
<1>5. OpenNumCovers' /\ ModeCovers' /\ OneWriter'
  BY <1>2 DEF OpenNumCovers, ModeCovers, OneWriter, Opens, WriteOpens
<1>6. NotOrphaned'
  BY <1>2 DEF NotOrphaned, NotWaiting, TableTypeOK
<1> QED  BY <1>3, <1>4, <1>5, <1>6

-----------------------------------------------------------------------------
(* A call of any client, without the bounds that ServerSpec needs for TLC. *)

\* The handles that a client may send.
OwnHandles(c) == {fd \in FD : Own(c, fd)} \cup {BadFd, StdIn}

Handled(c) ==
    \/ watdfs_lock_granted(c)
    \/ /\ waiting[c] = NotWaiting
       /\ \/ \E p \in Paths, flag \in OpenFlags : \E ret, fh : watdfs_open(c, p, flag, ret, fh)
          \/ \E fd \in FD : \E ret :
               Own(c, fd) /\ watdfs_release(c, fds[fd].path, fds[fd].flag, fd, ret)
          \/ \E p \in Paths, flag \in OpenFlags : \E ret : watdfs_release(c, p, flag, BadFd, ret)
          \/ \E p \in Paths : \E ret, st : watdfs_getattr(c, p, ret, st)
          \/ \E p \in Paths : \E ret : watdfs_mknod(c, p, ret)
          \/ \E p \in Paths, n \in 0..MaxLen : \E ret : watdfs_truncate(c, p, n, ret)
          \/ \E p \in Paths, t \in Times : \E ret : watdfs_utimensat(c, p, t, ret)
          \/ \E fh \in OwnHandles(c), n \in 0..MaxLen : \E ret, data : watdfs_read(c, fh, n, ret, data)
          \/ \E fh \in OwnHandles(c), data \in Contents \ {<<>>} : \E ret : watdfs_write(c, fh, data, ret)
          \/ \E fh \in OwnHandles(c) : \E ret : watdfs_fsync(c, fh, ret)
          \/ \E p \in Paths, m \in LockModes : \E ret :
               \/ watdfs_lock_fails(c, p, m, ret)
               \/ watdfs_lock_enters(c, p, m)
               \/ watdfs_unlock(c, p, m, ret)

LEMMA HandledTable ==
    ASSUME TableInv, NEW c \in Clients, Handled(c)
    PROVE  TableInv'
<1>1. CASE watdfs_lock_granted(c)
  BY <1>1, GrantTable
<1>2. CASE waiting[c] = NotWaiting
           /\ \E p \in Paths, flag \in OpenFlags : \E ret, fh : watdfs_open(c, p, flag, ret, fh)
  BY <1>2, OpenTable
<1>3. CASE waiting[c] = NotWaiting
           /\ \E fd \in FD : \E ret :
                Own(c, fd) /\ watdfs_release(c, fds[fd].path, fds[fd].flag, fd, ret)
  BY <1>3, ReleaseTable
<1>4. CASE \E p \in Paths, flag \in OpenFlags : \E ret : watdfs_release(c, p, flag, BadFd, ret)
  BY <1>4, TableUnchanged, NamesAssumption DEF watdfs_release, IsOpen, tableVars
<1>5. CASE \E p \in Paths, t \in Times : \E ret : watdfs_utimensat(c, p, t, ret)
  BY <1>5, UtimensatTable
<1>6. CASE waiting[c] = NotWaiting
           /\ \E p \in Paths, m \in LockModes : \E ret :
                \/ watdfs_lock_fails(c, p, m, ret)
                \/ watdfs_lock_enters(c, p, m)
                \/ watdfs_unlock(c, p, m, ret)
  BY <1>6, LockTable
<1>7. CASE \/ \E p \in Paths : \E ret, st : watdfs_getattr(c, p, ret, st)
           \/ \E p \in Paths : \E ret : watdfs_mknod(c, p, ret)
           \/ \E p \in Paths, n \in 0..MaxLen : \E ret : watdfs_truncate(c, p, n, ret)
           \/ \E fh \in OwnHandles(c), n \in 0..MaxLen : \E ret, data : watdfs_read(c, fh, n, ret, data)
           \/ \E fh \in OwnHandles(c), data \in Contents \ {<<>>} : \E ret :
                watdfs_write(c, fh, data, ret)
           \/ \E fh \in OwnHandles(c) : \E ret : watdfs_fsync(c, fh, ret)
  <2>1. UNCHANGED tableVars
    BY <1>7 DEF watdfs_getattr, watdfs_mknod, watdfs_truncate, watdfs_read, watdfs_write,
                watdfs_fsync, tableVars
  <2> QED  BY <2>1, TableUnchanged
<1> QED  BY <1>1, <1>2, <1>3, <1>4, <1>5, <1>6, <1>7 DEF Handled

\* The calls of ServerNext are calls of this kind.
LEMMA NextHandled ==
    ASSUME ServerNext
    PROVE  (\E c \in Clients : Handled(c)) \/ Tick
<1>1. ASSUME NEW c \in Clients, NEW p \in Paths, waiting[c] = NotWaiting,
             OpenCall(c, p) \/ FileCall(c, p) \/ LockCall(c, p)
      PROVE  Handled(c)
  <2>1. CASE OpenCall(c, p)
    BY <1>1, <2>1 DEF OpenCall, Handled
  <2>2. CASE FileCall(c, p)
    BY <1>1, <2>2 DEF FileCall, Handled
  <2>3. CASE LockCall(c, p)
    BY <1>1, <2>3 DEF LockCall, Handled
  <2> QED  BY <1>1, <2>1, <2>2, <2>3
<1>2. ASSUME NEW c \in Clients, waiting[c] = NotWaiting, ReleaseCall(c)
      PROVE  Handled(c)
  BY <1>2 DEF ReleaseCall, Handled
<1>3. ASSUME NEW c \in Clients, waiting[c] = NotWaiting, HandleCall(c)
      PROVE  Handled(c)
  <2>1. PICK fh \in OwnHandles(c) : \E ret :
           \/ \E n \in 0..MaxLen, data \in Contents : watdfs_read(c, fh, n, ret, data)
           \/ \E data \in Contents \ {<<>>} : watdfs_write(c, fh, data, ret)
           \/ watdfs_fsync(c, fh, ret)
    BY <1>3 DEF HandleCall, OwnHandles
  <2> QED  BY <1>3, <2>1 DEF Handled
<1>4. ASSUME NEW c \in Clients, watdfs_lock_granted(c) PROVE Handled(c)
  BY <1>4 DEF Handled
<1> QED  BY <1>1, <1>2, <1>3, <1>4 DEF ServerNext

LEMMA NextTable == TableInv /\ [ServerNext]_serverVars => TableInv'
<1> SUFFICES ASSUME TableInv, [ServerNext]_serverVars PROVE TableInv'  OBVIOUS
<1>1. ASSUME NEW c \in Clients, Handled(c) PROVE TableInv'
  BY <1>1, HandledTable
<1>2. CASE Tick
  BY <1>2, TableUnchanged DEF Tick, tableVars
<1>3. CASE UNCHANGED serverVars
  BY <1>3, TableUnchanged DEF serverVars, tableVars
<1> QED  BY <1>1, <1>2, <1>3, NextHandled

-----------------------------------------------------------------------------
(* The files.  A descriptor that is open is open on a file that exists: nothing
   removes one. *)

FilesInv ==
    /\ DOMAIN files \subseteq Paths
    /\ \A p \in DOMAIN files : files[p].data \in Contents /\ files[p].mtime \in Times
    /\ errno \in [Clients -> Errnos \cup {0}]
    /\ now \in Times
    /\ \A fd \in FD : fds[fd] = FreeFd \/ fds[fd].path \in DOMAIN files

\* A sequence of bytes is a possible content if it is short enough.
LEMMA ContentsLength ==
    /\ \A data \in Contents : data \in Seq(Data) /\ Len(data) \in 0..MaxLen
    /\ \A data \in Seq(Data) : Len(data) <= MaxLen => data \in Contents
<1>1. ASSUME NEW data \in Contents PROVE data \in Seq(Data) /\ Len(data) \in 0..MaxLen
  <2>1. PICK n \in 0..MaxLen : data \in [1..n -> Data]
    BY DEF Contents
  <2>2. n \in Nat
    BY ServerAssumption
  <2>3. data \in Seq(Data) /\ DOMAIN data = 1..n
    BY <2>1, <2>2
  <2> QED  BY <2>1, <2>2, <2>3, LenProperties
<1>2. ASSUME NEW data \in Seq(Data), Len(data) <= MaxLen PROVE data \in Contents
  <2>1. Len(data) \in 0..MaxLen /\ data \in [1..Len(data) -> Data]
    BY <1>2, LenProperties, ServerAssumption
  <2> QED  BY <2>1 DEF Contents
<1> QED  BY <1>1, <1>2

LEMMA ShortContents == <<>> \in Contents /\ <<Zero>> \in Contents
<1>1. <<>> \in [1..0 -> Data] /\ 0 \in 0..MaxLen
  BY ServerAssumption
<1>2. <<Zero>> \in [1..1 -> Data] /\ 1 \in 0..MaxLen
  BY ServerAssumption
<1> QED  BY <1>1, <1>2 DEF Contents

LEMMA ContentsAreSeq == Contents \subseteq Seq(Data)
BY ContentsLength

\* What pwrite(2) and truncate(2) make of a file.
LEMMA OverlaidType ==
    ASSUME NEW old \in Seq(Data), NEW data \in Seq(Data)
    PROVE  /\ Overlaid(old, data) \in Seq(Data)
           /\ Len(Overlaid(old, data)) = IF Len(data) <= Len(old) THEN Len(old) ELSE Len(data)
<1> DEFINE rest == SubSeq(old, Len(data) + 1, Len(old))
<1>1. Len(old) \in Nat /\ Len(data) \in Nat
  BY LenProperties
<1>2. \A i \in (Len(data) + 1)..Len(old) : old[i] \in Data
  BY <1>1, ElementOfSeq
<1>3. /\ rest \in Seq(Data)
      /\ Len(rest) = IF Len(data) + 1 <= Len(old) THEN Len(old) - (Len(data) + 1) + 1 ELSE 0
  BY <1>1, <1>2, SubSeqProperties
<1> HIDE DEF rest
<1>4. data \o rest \in Seq(Data) /\ Len(data \o rest) = Len(data) + Len(rest)
  BY <1>3, ConcatProperties
<1> QED  BY <1>1, <1>3, <1>4 DEF Overlaid, rest

LEMMA OverlaidContents == \A old, data \in Contents : Overlaid(old, data) \in Contents
<1> SUFFICES ASSUME NEW old \in Contents, NEW data \in Contents PROVE Overlaid(old, data) \in Contents
  OBVIOUS
<1>1. old \in Seq(Data) /\ data \in Seq(Data) /\ Len(old) <= MaxLen /\ Len(data) <= MaxLen
  BY ContentsLength, ServerAssumption
<1>2. Overlaid(old, data) \in Seq(Data) /\ Len(Overlaid(old, data)) <= MaxLen
  BY <1>1, OverlaidType
<1> QED  BY <1>2, ContentsLength

LEMMA ResizedType ==
    ASSUME NEW old \in Seq(Data), NEW n \in Nat
    PROVE  Resized(old, n) \in [1..n -> Data] /\ Resized(old, n) \in Seq(Data)
<1>1. \A i \in 1..n : i <= Len(old) => old[i] \in Data
  <2>1. Len(old) \in Nat
    BY LenProperties
  <2> QED  BY <2>1, ElementOfSeq
<1>2. Resized(old, n) \in [1..n -> Data]
  BY <1>1, ServerAssumption DEF Resized
<1> QED  BY <1>2

LEMMA FailsType ==
    ASSUME errno \in [Clients -> Errnos \cup {0}], NEW c \in Clients, NEW e \in Errnos, Fails(c, e)
    PROVE  errno' \in [Clients -> Errnos \cup {0}]
BY DEF Fails

LEMMA InitFiles == ServerInit => FilesInv
<1> SUFFICES ASSUME ServerInit PROVE FilesInv  OBVIOUS
<1>1. <<>> \in Contents /\ <<Zero>> \in Contents
  BY ShortContents
<1>2. DOMAIN files \subseteq Paths
      /\ \A p \in DOMAIN files : files[p].data \in Contents /\ files[p].mtime \in Times
  <2>1. CASE files = <<>>
    BY <2>1
  <2>2. CASE files \in [Paths -> [data : {<<>>, <<Zero>>}, mtime : {0}]]
    <3>1. DOMAIN files = Paths /\ \A p \in Paths : files[p] \in [data : {<<>>, <<Zero>>}, mtime : {0}]
      BY <2>2
    <3>2. \A p \in Paths : files[p].data \in {<<>>, <<Zero>>} /\ files[p].mtime = 0
      BY <3>1
    <3>3. \A p \in Paths : files[p].data \in Contents
      BY <1>1, <3>2, Zenon
    <3> QED  BY <3>1, <3>2, <3>3, ServerAssumption DEF Times
  <2> QED  BY <2>1, <2>2 DEF ServerInit
<1>3. now \in Times
  BY ServerAssumption DEF ServerInit, Times
<1> QED  BY <1>2, <1>3 DEF ServerInit, FilesInv

LEMMA HandledFiles ==
    ASSUME TableTypeOK, FilesInv, NEW c \in Clients, Handled(c)
    PROVE  FilesInv'
<1> USE DEF FilesInv
<1>1. now \in Nat /\ {EPERM, ENOENT, EBADF, EACCES, EEXIST, EMFILE, ESPIPE} \subseteq Errnos
  BY ServerAssumption DEF Times, Errnos
<1>2. \A fd \in FD : IsOpen(fd) => fds[fd].path \in DOMAIN files
  BY DEF IsOpen, FreeFd
<1>3. CASE UNCHANGED <<files, errno, fds, now>>
  BY <1>3
<1>4. ASSUME NEW p \in Paths, NEW flag, NEW ret, NEW fh, watdfs_open(c, p, flag, ret, fh)
      PROVE  FilesInv'
  <2>1. CASE UNCHANGED <<fds, errno>>
    BY <1>4, <2>1 DEF watdfs_open
  <2>2. CASE OpenFile(c, p, flag, fh)
    <3>1. UNCHANGED <<files, now>>
      BY <1>4 DEF watdfs_open
    <3>2. errno' \in [Clients -> Errnos \cup {0}]
      BY <1>1, <2>2, FailsType DEF OpenFile
    <3>3. \A fd \in FD : fds'[fd] = FreeFd \/ fds'[fd].path \in DOMAIN files
      BY <2>2 DEF OpenFile, FreeFds, TableTypeOK
    <3> QED  BY <3>1, <3>2, <3>3
  <2> QED  BY <1>4, <2>1, <2>2 DEF watdfs_open
<1>5. ASSUME NEW p, NEW flag, NEW fd \in FD \cup {BadFd}, NEW ret, watdfs_release(c, p, flag, fd, ret)
      PROVE  FilesInv'
  <2>1. UNCHANGED <<files, now>>
    BY <1>5 DEF watdfs_release
  <2>2. errno' \in [Clients -> Errnos \cup {0}]
    BY <1>1, <1>5, FailsType DEF watdfs_release
  <2>3. \A g \in FD : fds'[g] = FreeFd \/ fds'[g].path \in DOMAIN files
    BY <1>5 DEF watdfs_release, TableTypeOK, IsOpen
  <2> QED  BY <2>1, <2>2, <2>3
<1>6. ASSUME NEW p \in Paths, NEW ret, NEW st, watdfs_getattr(c, p, ret, st)
      PROVE  FilesInv'
  <2>1. UNCHANGED <<files, fds, now>>
    BY <1>6 DEF watdfs_getattr
  <2>2. errno' \in [Clients -> Errnos \cup {0}]
    BY <1>1, <1>6, FailsType DEF watdfs_getattr
  <2> QED  BY <2>1, <2>2
<1>7. ASSUME NEW p \in Paths, NEW ret, watdfs_mknod(c, p, ret)
      PROVE  FilesInv'
  <2>1. UNCHANGED <<fds, now>> /\ errno' \in [Clients -> Errnos \cup {0}]
    BY <1>1, <1>7, FailsType DEF watdfs_mknod
  <2>2. files' = files \/ files' = Put(files, p, [data |-> <<>>, mtime |-> now])
    BY <1>7 DEF watdfs_mknod
  <2>3. <<>> \in Contents
    BY ShortContents
  <2>4. DOMAIN files' \subseteq Paths /\ DOMAIN files \subseteq DOMAIN files'
        /\ \A q \in DOMAIN files' : files'[q].data \in Contents /\ files'[q].mtime \in Times
    <3>1. CASE files' = Put(files, p, [data |-> <<>>, mtime |-> now])
      <4> DEFINE new == [data |-> <<>>, mtime |-> now]
      <4>1. new.data \in Contents /\ new.mtime \in Times
        BY <2>3
      <4> HIDE DEF new
      <4>2. DOMAIN files' = DOMAIN files \cup {p}
            /\ \A q \in DOMAIN files' : files'[q] = IF q = p THEN new ELSE files[q]
        BY <3>1 DEF Put, new
      <4> QED  BY <4>1, <4>2
    <3> QED  BY <2>2, <3>1
  <2> QED  BY <2>1, <2>4
<1>8. ASSUME NEW p \in Paths, NEW n \in 0..MaxLen, NEW ret, watdfs_truncate(c, p, n, ret)
      PROVE  FilesInv'
  <2>1. UNCHANGED <<fds, now>> /\ errno' \in [Clients -> Errnos \cup {0}]
    BY <1>1, <1>8, FailsType DEF watdfs_truncate
  <2>2. files' = files \/ (p \in DOMAIN files /\ files' = [files EXCEPT ![p] = Truncated(@, n)])
    BY <1>8 DEF watdfs_truncate
  <2>3. ASSUME p \in DOMAIN files
        PROVE  Truncated(files[p], n).data \in Contents /\ Truncated(files[p], n).mtime \in Times
    <3>1. n \in Nat /\ files[p].data \in Seq(Data)
      BY <2>3, ContentsAreSeq, ServerAssumption
    <3>2. Resized(files[p].data, n) \in Contents
      BY <3>1, ResizedType DEF Contents
    <3> QED  BY <2>3, <3>2 DEF Truncated
  <2> QED  BY <2>1, <2>2, <2>3
<1>9. ASSUME NEW p \in Paths, NEW t \in Times, NEW ret, watdfs_utimensat(c, p, t, ret)
      PROVE  FilesInv'
  <2>1. UNCHANGED now /\ errno' \in [Clients -> Errnos \cup {0}]
    BY <1>1, <1>9, FailsType DEF watdfs_utimensat
  <2>2. files' = files \/ (p \in DOMAIN files /\ files' = [files EXCEPT ![p].mtime = t])
    BY <1>9 DEF watdfs_utimensat
  <2>3. DOMAIN files' = DOMAIN files
        /\ \A q \in DOMAIN files : files'[q].data \in Contents /\ files'[q].mtime \in Times
    <3>1. CASE files' = files
      BY <3>1
    <3>2. CASE p \in DOMAIN files /\ files' = [files EXCEPT ![p].mtime = t]
      <4>1. files'[p] = [files[p] EXCEPT !.mtime = t]
        BY <3>2
      <4> QED  BY <3>2, <4>1
    <3> QED  BY <2>2, <3>1, <3>2
  <2>4. \A g \in FD : fds'[g] = FreeFd \/ fds'[g].path \in DOMAIN files
    BY <1>9 DEF watdfs_utimensat, FreeFds, TableTypeOK
  <2> QED  BY <2>1, <2>3, <2>4
<1>10. ASSUME NEW fh, NEW n, NEW ret, NEW data, watdfs_read(c, fh, n, ret, data)
       PROVE  FilesInv'
  <2>1. UNCHANGED <<files, fds, now>>
    BY <1>10 DEF watdfs_read
  <2>2. errno' \in [Clients -> Errnos \cup {0}]
    BY <1>1, <1>10, FailsType DEF watdfs_read
  <2> QED  BY <2>1, <2>2
<1>11. ASSUME NEW fh, NEW data \in Contents, NEW ret, watdfs_write(c, fh, data, ret)
       PROVE  FilesInv'
  <2>1. UNCHANGED <<fds, now>>
    BY <1>11 DEF watdfs_write
  <2>2. errno' \in [Clients -> Errnos \cup {0}]
    BY <1>1, <1>11, FailsType DEF watdfs_write
  <2>3. CASE UNCHANGED files
    BY <2>1, <2>2, <2>3
  <2>4. ASSUME NEW p \in DOMAIN files,
               files' = [files EXCEPT ![p] = [data |-> Overlaid(@.data, data), mtime |-> now]]
        PROVE  FilesInv'
    <3>1. Overlaid(files[p].data, data) \in Contents
      <4>1. files[p].data \in Contents
        OBVIOUS
      <4> QED  BY <4>1, OverlaidContents
    <3> QED  BY <1>1, <2>1, <2>2, <2>4, <3>1
  <2> QED  BY <1>2, <1>11, <2>3, <2>4 DEF watdfs_write, IsOpen
<1>12. ASSUME NEW fh, NEW ret, watdfs_fsync(c, fh, ret)
       PROVE  FilesInv'
  <2>1. UNCHANGED <<files, fds, now>>
    BY <1>12 DEF watdfs_fsync
  <2>2. errno' \in [Clients -> Errnos \cup {0}]
    BY <1>1, <1>12, FailsType DEF watdfs_fsync
  <2> QED  BY <2>1, <2>2
<1>13. ASSUME \/ watdfs_lock_granted(c)
              \/ \E p \in Paths, m \in LockModes : \E ret :
                   \/ watdfs_lock_fails(c, p, m, ret)
                   \/ watdfs_lock_enters(c, p, m)
                   \/ watdfs_unlock(c, p, m, ret)
       PROVE  UNCHANGED <<files, errno, fds, now>>
  BY <1>13 DEF watdfs_lock_granted, watdfs_lock_fails, watdfs_lock_enters, watdfs_unlock
<1> HIDE DEF FilesInv
<1> QED  BY <1>3, <1>4, <1>5, <1>6, <1>7, <1>8, <1>9, <1>10, <1>11, <1>12, <1>13 DEF Handled

LEMMA TickFiles ==
    ASSUME FilesInv, Tick
    PROVE  FilesInv'
BY ServerAssumption DEF FilesInv, Tick, Times

LEMMA NextFiles == TableInv /\ FilesInv /\ [ServerNext]_serverVars => FilesInv'
<1> SUFFICES ASSUME TableInv, FilesInv, [ServerNext]_serverVars PROVE FilesInv'  OBVIOUS
<1>1. ASSUME NEW c \in Clients, Handled(c) PROVE FilesInv'
  BY <1>1, HandledFiles DEF TableInv
<1>2. CASE UNCHANGED serverVars
  BY <1>2 DEF FilesInv, serverVars
<1> QED  BY <1>1, <1>2, TickFiles, NextHandled

-----------------------------------------------------------------------------
(* Calls of this kind are calls of ServerNext, as long as its bounds are not
   reached: what a handler answers is a code, a stat, or contents that fit. *)

CountsBelowMax(p) ==
    /\ Lookup(p).openNum < MaxCount
    /\ Lookup(p).lock # NULL => lk[Lookup(p).lock].num_readers_ < MaxCount

LEMMA ErrorCodes ==
    /\ 0 \in Codes
    /\ \A e \in Errnos \cup {0} : -e \in Codes
    /\ \A data \in Contents : Len(data) \in Codes
    /\ {EBADF, EACCES, ENOENT, EEXIST, EMFILE, ESPIPE} \subseteq Errnos
<1>1. \A data \in Contents : Len(data) \in Codes
  <2>1. \A n \in 0..MaxLen : n \in Codes
    BY ServerAssumption DEF Codes
  <2> QED  BY <2>1, ContentsLength
<1>2. \A e \in Errnos \cup {0} : -e \in Codes
  BY DEF Codes
<1> QED  BY <1>1, <1>2 DEF Codes, Errnos

LEMMA FirstBytesFit == \A data \in Contents, n \in 0..MaxLen : FirstBytes(data, n) \in Contents
<1> SUFFICES ASSUME NEW data \in Contents, NEW n \in 0..MaxLen
             PROVE  FirstBytes(data, n) \in Contents
  OBVIOUS
<1> DEFINE m == IF n < Len(data) THEN n ELSE Len(data)
<1>1. data \in Seq(Data) /\ Len(data) \in 0..MaxLen
  BY ContentsLength
<1>2. m \in 0..Len(data) /\ m <= MaxLen
  BY <1>1, ServerAssumption
<1> HIDE DEF m
<1>3. \A i \in 1..m : data[i] \in Data
  BY <1>1, <1>2, ElementOfSeq
<1>4. SubSeq(data, 1, m) \in Seq(Data) /\ Len(SubSeq(data, 1, m)) <= MaxLen
  BY <1>1, <1>2, <1>3, SubSeqProperties
<1> QED  BY <1>4, ContentsLength DEF FirstBytes, m

RemoteCalls ==
    {"open", "release", "getattr", "mknod", "read", "write", "truncate", "fsync", "utimensat",
     "lock", "unlock"}

LEMMA HandledNext ==
    ASSUME TableTypeOK, FilesInv, NEW c \in Clients, Handled(c),
           \A p \in Paths : CountsBelowMax(p),
           RemoteCalls \subseteq Calls
    PROVE  ServerNext
<1> USE DEF RemoteCalls
<1>0. errno[c] \in Errnos \cup {0}
  BY DEF FilesInv
<1>1. CASE watdfs_lock_granted(c)
  BY <1>1 DEF ServerNext
<1>2. ASSUME waiting[c] = NotWaiting, NEW p \in Paths, OpenCall(c, p) \/ FileCall(c, p) \/ LockCall(c, p)
      PROVE  ServerNext
  BY <1>2 DEF ServerNext
<1>3. ASSUME waiting[c] = NotWaiting, ReleaseCall(c) \/ HandleCall(c)
      PROVE  ServerNext
  BY <1>3 DEF ServerNext
<1>4. ASSUME NEW p \in Paths, NEW flag \in OpenFlags, NEW ret, NEW fh, watdfs_open(c, p, flag, ret, fh)
      PROVE  OpenCall(c, p)
  <2>1. ret \in Codes
    BY <1>4, ErrorCodes DEF watdfs_open
  <2>2. fh \in Handles
    BY <1>4 DEF watdfs_open, OpenFile, FreeFds, Handles
  <2> QED  BY <1>4, <2>1, <2>2 DEF OpenCall, CountsBelowMax
<1>5. ASSUME NEW fd \in FD, NEW ret, Own(c, fd), watdfs_release(c, fds[fd].path, fds[fd].flag, fd, ret)
      PROVE  ReleaseCall(c)
  <2>1. ret \in Codes
    BY <1>5, ErrorCodes DEF watdfs_release
  <2> QED  BY <1>5, <2>1 DEF ReleaseCall
<1>6. ASSUME NEW p \in Paths, NEW flag \in OpenFlags, NEW ret, watdfs_release(c, p, flag, BadFd, ret)
      PROVE  ReleaseCall(c)
  <2>1. ret \in Codes
    BY <1>6, ErrorCodes DEF watdfs_release
  <2> QED  BY <1>6, <2>1 DEF ReleaseCall
<1>7. ASSUME NEW p \in Paths, NEW ret, NEW st, watdfs_getattr(c, p, ret, st)
      PROVE  FileCall(c, p)
  <2>1. ret \in Codes
    BY <1>7, ErrorCodes DEF watdfs_getattr
  <2>2. st \in Stats
    <3>1. NoStat \in Stats
      BY ServerAssumption DEF NoStat, Stats, Times
    <3>2. p \in DOMAIN files => StatOf(files[p]) \in Stats
      BY ContentsLength DEF FilesInv, StatOf, Stats
    <3> QED  BY <1>7, <3>1, <3>2 DEF watdfs_getattr
  <2> QED  BY <1>7, <2>1, <2>2 DEF FileCall
<1>8. ASSUME NEW p \in Paths, NEW ret,
             \/ watdfs_mknod(c, p, ret)
             \/ \E n \in 0..MaxLen : watdfs_truncate(c, p, n, ret)
             \/ \E t \in Times : watdfs_utimensat(c, p, t, ret)
      PROVE  FileCall(c, p)
  <2>1. ret \in Codes
    BY <1>8, ErrorCodes DEF watdfs_mknod, watdfs_truncate, watdfs_utimensat
  <2> QED  BY <1>8, <2>1 DEF FileCall
<1>9. ASSUME NEW fh \in OwnHandles(c), NEW n \in 0..MaxLen, NEW ret, NEW data, watdfs_read(c, fh, n, ret, data)
      PROVE  HandleCall(c)
  <2>1. data \in Contents
    <3>1. \A fd \in FD : IsOpen(fd) => files[fds[fd].path].data \in Contents
      BY DEF FilesInv, IsOpen, FreeFd
    <3>2. IsOpen(fh) => fh \in FD
      BY DEF IsOpen
    <3> QED  BY <1>9, <3>1, <3>2, FirstBytesFit, ShortContents DEF watdfs_read
  <2>2. ret \in Codes
    BY <1>0, <1>9, <2>1, ErrorCodes DEF watdfs_read
  <2> QED  BY <1>9, <2>1, <2>2 DEF HandleCall, OwnHandles
<1>10. ASSUME NEW fh \in OwnHandles(c), NEW data \in Contents \ {<<>>}, NEW ret, watdfs_write(c, fh, data, ret)
       PROVE  HandleCall(c)
  <2>1. ret \in Codes
    BY <1>10, ErrorCodes DEF watdfs_write
  <2> QED  BY <1>10, <2>1 DEF HandleCall, OwnHandles
<1>11. ASSUME NEW fh \in OwnHandles(c), NEW ret, watdfs_fsync(c, fh, ret)
       PROVE  HandleCall(c)
  <2>1. ret \in Codes
    BY <1>11, ErrorCodes DEF watdfs_fsync
  <2> QED  BY <1>11, <2>1 DEF HandleCall, OwnHandles
<1>12. ASSUME NEW p \in Paths, NEW m \in LockModes, NEW ret,
              \/ watdfs_lock_fails(c, p, m, ret)
              \/ watdfs_lock_enters(c, p, m)
              \/ watdfs_unlock(c, p, m, ret)
       PROVE  LockCall(c, p)
  <2>1. CASE watdfs_lock_enters(c, p, m)
    BY <2>1 DEF LockCall, CountsBelowMax
  <2>2. CASE watdfs_lock_fails(c, p, m, ret) \/ watdfs_unlock(c, p, m, ret)
    <3>1. ret \in Codes
      BY <1>0, <2>2, ErrorCodes DEF watdfs_lock_fails, watdfs_unlock
    <3> QED  BY <2>2, <3>1 DEF LockCall
  <2> QED  BY <1>12, <2>1, <2>2
<1> QED  BY <1>1, <1>2, <1>3, <1>4, <1>5, <1>6, <1>7, <1>8, <1>9, <1>10, <1>11, <1>12 DEF Handled

-----------------------------------------------------------------------------

\* TableInv is an invariant of the server, whatever its clients call.
THEOREM TableInvariant == ServerSpec => []TableInv
BY InitTable, NextTable, PTL DEF ServerSpec

\* At most one client has a file open for writing.
THEOREM OneWriterHolds == ServerSpec => []OneWriter
<1>1. TableInv => OneWriter  BY DEF TableInv
<1> QED  BY <1>1, TableInvariant, PTL

\* The table covers every descriptor that a client still has.
THEOREM OpenNumCoversHolds == ServerSpec => []OpenNumCovers
<1>1. TableInv => OpenNumCovers  BY DEF TableInv
<1> QED  BY <1>1, TableInvariant, PTL

\* An opener that waits for the lock waits for the lock in the table.
THEOREM NotOrphanedHolds == ServerSpec => []NotOrphaned
<1>1. TableInv => NotOrphaned  BY DEF TableInv
<1> QED  BY <1>1, TableInvariant, PTL

\* No lock object is held by a writer and by somebody else.
THEOREM LocksExcludeHolds == ServerSpec => []LocksExclude
<1>1. TableInv => LocksExclude  BY DEF TableInv
<1> QED  BY <1>1, TableInvariant, PTL

\* The server's variables keep their types: no counter of a lock goes below
\* zero, errno is always one that a call has set.
THEOREM ServerTypeCorrect == ServerSpec => []ServerTypeOK
<1>1. ServerSpec => []FilesInv
  BY InitTable, InitFiles, NextTable, NextFiles, PTL DEF ServerSpec
<1>2. TableInv /\ FilesInv => ServerTypeOK
  BY ServerAssumption, ContentsAreSeq DEF TableInv, FilesInv, ServerTypeOK, Times
<1> QED  BY <1>1, <1>2, TableInvariant, PTL
==================================================================================
