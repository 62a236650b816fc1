----------------------------- MODULE ServerTableProofs -----------------------------
(***************************************************************************)
(* Proofs about ServerTableRaces: however the calls on one path overlap,   *)
(* watdfs_open and watdfs_release keep exact count of who uses the table   *)
(* (TableCountsExactly) and let one writer in (OneWriterUnlessRaced),      *)
(* until a call is caught in one of the three windows that the module      *)
(* names; for any number of clients, paths and descriptors.                *)
(*                                                                         *)
(* The invariant is about one path at a time.  A step of a call changes    *)
(* the entry of its own path only (OthersKept); what is to be shown of each *)
(* expression of the two handlers is what it does to that path.            *)
(***************************************************************************)
EXTENDS ServerTableRaces, FiniteSetTheorems, TLAPS

\* What calls on their way to or from a descriptor are at, what calls that will
\* erase or replace an entry that counts nobody are at, and what calls are at for
\* which a writer is still in the entry's mode.
Flying == {"open_file", "rel_log", "rel_find", "rel_leave"}
Sweeping == {"rel_mode", "rel_last", "rel_destroy", "rel_erase", "open_new"}
Writing == {"open_join", "open_file", "rel_log", "rel_find", "rel_leave", "rel_mode"}

WriterCalls(p) == {c \in Clients : path(c) = p /\ Writes(c) /\ pc[c] \in Writing}

CallRecords == [path : Paths, flag : OpenFlags, fh : FD \cup {BadFd}] \cup {NoCall}

Descriptors == {FreeFd} \cup [owner : Clients, path : Paths, flag : OpenFlags]

\* A call is on a path; a release closes a descriptor that its client has.
CallFits(c) ==
    /\ pc[c] # "idle" => path(c) \in Paths
    /\ pc[c] \in {"open_set", "rel_mode"} => Writes(c)
    /\ pc[c] = "rel_close" =>
         \/ call[c].fh = BadFd
         \/ call[c].fh \in FD /\ fds[call[c].fh] = [owner |-> c, path |-> path(c), flag |-> call[c].flag]

Typed ==
    /\ DOMAIN openFilesStatus_s \subseteq Paths
    /\ \A p \in DOMAIN openFilesStatus_s : openFilesStatus_s[p] \in FileStatus
    /\ pc \in [Clients -> Labels] /\ call \in [Clients -> CallRecords]
    /\ fds \in [FD -> Descriptors]
    /\ failed \in [Paths -> Nat]
    /\ \A c \in Clients : CallFits(c)

\* Everybody is counted, once.
Exact(p) ==
    /\ IsFiniteSet(InFlight(p))
    /\ Lookup(p).openNum = Cardinality(Opens(p)) + Cardinality(InFlight(p)) + failed[p]

\* An entry that counts somebody, or that a call will come back to, has a lock.
Locked(p) ==
    Lookup(p).openNum > 0 \/ (\E c \in Clients : path(c) = p /\ Found(c)) => Lookup(p).lock \in Locks

\* An entry that counts nobody is on its way out.
Swept(p) ==
    p \in DOMAIN openFilesStatus_s /\ Lookup(p).openNum = 0 =>
        \E c \in Clients : path(c) = p /\ pc[c] \in Sweeping

\* What watdfs_open writes to the log is in the table: it has a descriptor that is
\* counted, or did not get one and is counted all the same.
Logged(p) ==
    \A c \in Clients : path(c) = p /\ pc[c] = "open_log" =>
        failed[p] > 0 \/ \E fd \in Opens(p) : fds[fd].owner = c

\* There is one writer, a descriptor or a call, and the entry says so.
OneWrites(p) ==
    /\ \A f, g \in WriteOpens(p) : f = g
    /\ \A c, d \in WriterCalls(p) : c = d
    /\ WriteOpens(p) = {} \/ WriterCalls(p) = {}
    /\ WriteOpens(p) # {} \/ WriterCalls(p) # {} => Lookup(p).serverMode = 1

PathInv(p) == Exact(p) /\ Locked(p) /\ Swept(p) /\ Logged(p) /\ OneWrites(p)

RaceInv == Typed /\ \A p \in Paths \ raced : PathInv(p)

\* A step of the call of c on p: what it leaves alone.
Moves(c, p) ==
    /\ pc' \in [Clients -> Labels] /\ call' \in [Clients -> CallRecords]
    /\ \A d \in Clients : d # c => pc'[d] = pc[d] /\ call'[d] = call[d]
    /\ pc[c] # "idle" => call[c].path = p
    /\ pc'[c] # "idle" => call'[c].path = p
    /\ pc[c] # "idle" /\ pc'[c] # "idle" => call'[c] = call[c]

\* What it does to the table is done to the entry of p.
TableAt(p) ==
    /\ DOMAIN openFilesStatus_s' \subseteq Paths
    /\ \A q \in DOMAIN openFilesStatus_s' : openFilesStatus_s'[q] \in FileStatus
    /\ \A q \in Paths \ {p} :
         /\ q \in DOMAIN openFilesStatus_s' <=> q \in DOMAIN openFilesStatus_s
         /\ q \in DOMAIN openFilesStatus_s => openFilesStatus_s'[q] = openFilesStatus_s[q]

\* What it does to the descriptors is done to those that c has for p.
FdsAt(c, p) ==
    /\ fds' \in [FD -> Descriptors]
    /\ \A fd \in FD : fds'[fd] # fds[fd] =>
         /\ fds[fd] = FreeFd \/ (fds[fd].owner = c /\ fds[fd].path = p)
         /\ fds'[fd] = FreeFd \/ (fds'[fd].owner = c /\ fds'[fd].path = p)

\* So is what it does to the history.
HistoryAt(p) ==
    /\ raced \subseteq raced'
    /\ failed' \in [Paths -> Nat]
    /\ \A q \in Paths \ raced' : q # p => failed'[q] = failed[q]

StepAt(c, p) == Moves(c, p) /\ TableAt(p) /\ FdsAt(c, p) /\ HistoryAt(p)

-----------------------------------------------------------------------------
(* Lemmas *)

LEMMA FiniteOpens == \A p : IsFiniteSet(Opens(p)) /\ Cardinality(Opens(p)) \in Nat
<1>1. \A p : Opens(p) \subseteq FD
  BY DEF Opens
<1> QED  BY <1>1, ServerAssumption, FS_Subset, FS_CardinalityType

\* Entries are records, the one that operator[] inserts included.
LEMMA Entries ==
    ASSUME Typed, NEW p
    PROVE  /\ Lookup(p) \in FileStatus /\ Lookup(p).openNum \in Int
           /\ Lookup(p).serverMode \in {0, 1} /\ Lookup(p).lock \in Locks \cup {NULL}
<1>1. Lookup(p) \in FileStatus
  BY DEF Typed, Lookup, Phantom, FileStatus
<1> QED  BY <1>1 DEF FileStatus

\* A path on which nobody was caught in a window is exact.
LEMMA Exactly ==
    ASSUME RaceInv, NEW p \in Paths \ raced
    PROVE  /\ IsFiniteSet(InFlight(p)) /\ Cardinality(InFlight(p)) \in Nat /\ failed[p] \in Nat
           /\ Lookup(p).openNum = Cardinality(Opens(p)) + Cardinality(InFlight(p)) + failed[p]
           /\ Lookup(p).openNum >= 0
<1>1. /\ IsFiniteSet(InFlight(p)) /\ failed[p] \in Nat
      /\ Lookup(p).openNum = Cardinality(Opens(p)) + Cardinality(InFlight(p)) + failed[p]
  BY DEF RaceInv, PathInv, Exact, Typed
<1> QED  BY <1>1, FiniteOpens, FS_CardinalityType

\* Who is in flight, has a descriptor or is written to the log is counted.
LEMMA SomebodyCounts ==
    ASSUME RaceInv, NEW p \in Paths \ raced,
           InFlight(p) # {} \/ Opens(p) # {} \/ failed[p] > 0
    PROVE  /\ Lookup(p).openNum > 0 /\ p \in DOMAIN openFilesStatus_s /\ Lookup(p).lock \in Locks
<1>1. InFlight(p) # {} => Cardinality(InFlight(p)) > 0
  BY Exactly, FS_EmptySet
<1>2. Opens(p) # {} => Cardinality(Opens(p)) > 0
  BY FiniteOpens, FS_EmptySet
<1>3. Lookup(p).openNum > 0
  BY <1>1, <1>2, Exactly, FiniteOpens
<1>4. p \in DOMAIN openFilesStatus_s
  BY <1>3 DEF Lookup, Phantom
<1> QED  BY <1>3, <1>4 DEF RaceInv, PathInv, Locked

\* On an entry that counts nobody, nobody is in flight or has a descriptor.
LEMMA NobodyCounts ==
    ASSUME RaceInv, NEW p \in Paths \ raced, ~(Lookup(p).openNum > 0)
    PROVE  InFlight(p) = {} /\ Opens(p) = {} /\ failed[p] = 0 /\ Lookup(p).openNum = 0
<1>1. InFlight(p) = {} /\ Opens(p) = {} /\ ~(failed[p] > 0)
  BY SomebodyCounts
<1>2. failed[p] = 0
  BY <1>1, Exactly
<1>3. Cardinality(InFlight(p)) = 0 /\ Cardinality(Opens(p)) = 0
  BY <1>1, FS_EmptySet
<1>4. Lookup(p).openNum = 0
  BY <1>2, <1>3, Exactly
<1> QED  BY <1>1, <1>2, <1>4

\* The step of a call moves nobody but itself in or out of flight.
LEMMA FlightCounts ==
    ASSUME NEW c \in Clients, NEW p, Moves(c, p), IsFiniteSet(InFlight(p))
    PROVE  /\ IsFiniteSet(InFlight(p)')
           /\ pc[c] \in Flying /\ pc'[c] \notin Flying =>
                Cardinality(InFlight(p)') = Cardinality(InFlight(p)) - 1
           /\ pc[c] \notin Flying /\ pc'[c] \in Flying =>
                Cardinality(InFlight(p)') = Cardinality(InFlight(p)) + 1
           /\ (pc[c] \in Flying <=> pc'[c] \in Flying) =>
                Cardinality(InFlight(p)') = Cardinality(InFlight(p))
<1> USE DEF InFlight, Flying, Moves, path
<1>1. c \in InFlight(p) <=> pc[c] \in Flying
  OBVIOUS
<1>2. c \in InFlight(p)' <=> pc'[c] \in Flying
  OBVIOUS
<1>3. \A d \in Clients : d # c => (d \in InFlight(p)' <=> d \in InFlight(p))
  OBVIOUS
<1>4. CASE pc'[c] \in Flying
  <2>1. InFlight(p)' = InFlight(p) \cup {c}
    BY <1>2, <1>3, <1>4
  <2> HIDE DEF InFlight, Flying, Moves, path
  <2> QED  BY <1>1, <1>4, <2>1, FS_AddElement
<1>5. CASE pc'[c] \notin Flying
  <2>1. InFlight(p)' = InFlight(p) \ {c}
    BY <1>2, <1>3, <1>5
  <2> HIDE DEF InFlight, Flying, Moves, path
  <2> QED  BY <1>1, <1>5, <2>1, FS_RemoveElement
<1> QED  BY <1>4, <1>5

\* Other paths, and other calls, find everything as they left it.
LEMMA OthersKept ==
    ASSUME RaceInv, NEW c \in Clients, NEW p \in Paths, StepAt(c, p)
    PROVE  /\ \A q \in Paths \ raced' : q # p => PathInv(q)'
           /\ \A d \in Clients : d # c => CallFits(d)'
<1>1. ASSUME NEW q \in Paths \ raced', q # p PROVE PathInv(q)'
  <2>1. q \in Paths \ raced /\ PathInv(q) /\ failed'[q] = failed[q]
    BY <1>1 DEF StepAt, HistoryAt, RaceInv
  <2>2. Lookup(q)' = Lookup(q) /\ (q \in DOMAIN openFilesStatus_s' <=> q \in DOMAIN openFilesStatus_s)
    BY <1>1 DEF StepAt, TableAt, Lookup
  <2>3. /\ Opens(q)' = Opens(q) /\ WriteOpens(q)' = WriteOpens(q)
        /\ \A fd \in Opens(q) : fds'[fd] = fds[fd]
    <3>1. ASSUME NEW fd \in FD, fds'[fd] # fds[fd]
          PROVE  fd \notin Opens(q) /\ fd \notin Opens(q)'
      BY <1>1, <3>1, NamesAssumption DEF StepAt, FdsAt, FreeFd, Opens
    <3>2. Opens(q)' = Opens(q) /\ \A fd \in Opens(q) : fds'[fd] = fds[fd]
      BY <3>1 DEF Opens
    <3> QED  BY <3>2 DEF WriteOpens
  <2>4. \A d \in Clients :
           d # c => pc'[d] = pc[d] /\ path(d)' = path(d) /\ (Writes(d)' <=> Writes(d))
    BY DEF StepAt, Moves, path, Writes
  <2>5. /\ pc[c] # "idle" => path(c) # q
        /\ pc'[c] # "idle" => path(c)' # q
    BY <1>1 DEF StepAt, Moves, path
  <2>6. InFlight(q)' = InFlight(q) /\ WriterCalls(q)' = WriterCalls(q)
    BY <2>4, <2>5 DEF InFlight, WriterCalls, Writing
  <2>7. Exact(q)' /\ OneWrites(q)'
    BY <2>1, <2>2, <2>3, <2>6 DEF PathInv, Exact, OneWrites
  <2>8. Locked(q)'
    BY <2>1, <2>2, <2>4, <2>5 DEF PathInv, Locked, Found
  <2>9. Swept(q)'
    BY <2>1, <2>2, <2>4, <2>5 DEF PathInv, Swept, Sweeping
  <2>10. Logged(q)'
    BY <2>1, <2>3, <2>4, <2>5 DEF PathInv, Logged
  <2> QED  BY <2>7, <2>8, <2>9, <2>10 DEF PathInv
<1>2. ASSUME NEW d \in Clients, d # c PROVE CallFits(d)'
  <2>1. CallFits(d) /\ pc'[d] = pc[d] /\ call'[d] = call[d]
        /\ path(d)' = path(d) /\ (Writes(d)' <=> Writes(d))
    BY <1>2 DEF RaceInv, Typed, StepAt, Moves, path, Writes
  <2>2. ASSUME call[d].fh \in FD, fds[call[d].fh] = [owner |-> d, path |-> path(d), flag |-> call[d].flag]
        PROVE  fds'[call[d].fh] = fds[call[d].fh]
    BY <1>2, <2>2, NamesAssumption DEF StepAt, FdsAt, FreeFd
  <2> QED  BY <2>1, <2>2 DEF CallFits
<1> QED  BY <1>1, <1>2

\* A step keeps the invariant when it keeps it on its own path.
LEMMA StepKeeps ==
    ASSUME RaceInv, NEW c \in Clients, NEW p \in Paths, StepAt(c, p), CallFits(c)',
           p \notin raced' => PathInv(p)'
    PROVE  RaceInv'
<1>1. Typed'
  <2>1. \A d \in Clients : CallFits(d)'
    BY OthersKept
  <2> QED  BY <2>1 DEF Typed, StepAt, Moves, TableAt, FdsAt, HistoryAt
<1>2. \A q \in Paths \ raced' : PathInv(q)'
  BY OthersKept
<1> QED  BY <1>1, <1>2 DEF RaceInv

\* Counting somebody, or setting the mode, changes one field of an entry.
LEMMA EntryFields ==
    ASSUME NEW e \in FileStatus
    PROVE  /\ \A n \in Int : /\ [e EXCEPT !.openNum = n] \in FileStatus
                             /\ [e EXCEPT !.openNum = n].openNum = n
                             /\ [e EXCEPT !.openNum = n].serverMode = e.serverMode
                             /\ [e EXCEPT !.openNum = n].lock = e.lock
           /\ \A w \in {0, 1} : /\ [e EXCEPT !.serverMode = w] \in FileStatus
                                /\ [e EXCEPT !.serverMode = w].openNum = e.openNum
                                /\ [e EXCEPT !.serverMode = w].serverMode = w
                                /\ [e EXCEPT !.serverMode = w].lock = e.lock
BY DEF FileStatus

LEMMA GotoMoves ==
    ASSUME Typed, NEW c \in Clients, pc[c] # "idle", NEW label \in Labels \ {"idle"}, Goto(c, label)
    PROVE  Moves(c, path(c)) /\ pc'[c] = label /\ call' = call /\ path(c)' = path(c)
BY DEF Goto, Moves, Typed, path

LEMMA ReturnMoves ==
    ASSUME Typed, NEW c \in Clients, pc[c] # "idle", Return(c)
    PROVE  Moves(c, path(c)) /\ pc'[c] = "idle"
BY DEF Return, Moves, Typed, path, CallRecords, Labels

\* operator[] and an assignment to the entry of p, or to a field of it.
LEMMA PutAt ==
    ASSUME Typed, NEW p \in Paths, NEW e \in FileStatus, openFilesStatus_s' = Put(openFilesStatus_s, p, e)
    PROVE  /\ TableAt(p) /\ p \in DOMAIN openFilesStatus_s' /\ Lookup(p)' = e
<1>1. /\ DOMAIN openFilesStatus_s' = DOMAIN openFilesStatus_s \cup {p}
      /\ openFilesStatus_s'[p] = e
      /\ \A q \in DOMAIN openFilesStatus_s : q # p => openFilesStatus_s'[q] = openFilesStatus_s[q]
  BY DEF Put
<1> QED  BY <1>1 DEF TableAt, Typed, Lookup

LEMMA TableIdle ==
    ASSUME Typed, NEW p \in Paths, UNCHANGED openFilesStatus_s
    PROVE  TableAt(p) /\ Lookup(p)' = Lookup(p)
BY DEF TableAt, Typed, Lookup

LEMMA FdsIdle ==
    ASSUME Typed, NEW c \in Clients, NEW p \in Paths, UNCHANGED fds
    PROVE  FdsAt(c, p) /\ Opens(p)' = Opens(p) /\ WriteOpens(p)' = WriteOpens(p)
BY DEF FdsAt, Typed, Opens, WriteOpens

-----------------------------------------------------------------------------
(* What keeps the parts of the invariant on the path of a step *)

LEMMA SweptKept ==
    ASSUME RaceInv, NEW c \in Clients, NEW p \in Paths \ raced, StepAt(c, p),
           \/ pc'[c] \in Sweeping
           \/ p \in DOMAIN openFilesStatus_s' /\ Lookup(p)'.openNum = 0 =>
                p \in DOMAIN openFilesStatus_s /\ Lookup(p).openNum = 0 /\ pc[c] \notin Sweeping
    PROVE  Swept(p)'
<1>1. pc'[c] \in Sweeping => path(c)' = p
  BY DEF Sweeping, StepAt, Moves, path
<1>2. \A d \in Clients : d # c => pc'[d] = pc[d] /\ path(d)' = path(d)
  BY DEF StepAt, Moves, path
<1> QED  BY <1>1, <1>2 DEF RaceInv, PathInv, Swept

LEMMA LockedKept ==
    ASSUME RaceInv, NEW c \in Clients, NEW p \in Paths \ raced, StepAt(c, p),
           \/ Lookup(p)'.lock \in Locks
           \/ /\ Lookup(p)'.lock = Lookup(p).lock
              /\ Lookup(p)'.openNum > 0 => Lookup(p).openNum > 0
              /\ Found(c)' => Found(c)
    PROVE  Locked(p)'
<1>1. Found(c)' => path(c)' = p
  BY DEF Found, StepAt, Moves, path
<1>2. Found(c) => path(c) = p
  BY DEF Found, StepAt, Moves, path
<1>3. \A d \in Clients : d # c => (Found(d)' <=> Found(d)) /\ path(d)' = path(d)
  BY DEF Found, StepAt, Moves, path
<1> QED  BY <1>1, <1>2, <1>3 DEF RaceInv, PathInv, Locked

LEMMA LoggedKept ==
    ASSUME RaceInv, NEW c \in Clients, NEW p \in Paths \ raced, StepAt(c, p),
           pc'[c] = "open_log" => failed'[p] > 0 \/ \E fd \in Opens(p)' : fds'[fd].owner = c,
           failed'[p] >= failed[p]
    PROVE  Logged(p)'
<1> SUFFICES ASSUME NEW d \in Clients, d # c, path(d)' = p, pc'[d] = "open_log"
             PROVE  failed'[p] > 0 \/ \E fd \in Opens(p)' : fds'[fd].owner = d
  BY DEF Logged
<1>1. failed[p] > 0 \/ \E fd \in Opens(p) : fds[fd].owner = d
  BY DEF StepAt, Moves, path, RaceInv, PathInv, Logged
<1>2. failed[p] \in Nat /\ failed'[p] \in Nat
  BY DEF RaceInv, Typed, StepAt, HistoryAt
<1>3. ASSUME NEW fd \in Opens(p), fds[fd].owner = d PROVE fd \in Opens(p)' /\ fds'[fd].owner = d
  BY <1>3, NamesAssumption DEF StepAt, FdsAt, Opens, FreeFd
<1> QED  BY <1>1, <1>2, <1>3

LEMMA OneWritesKept ==
    ASSUME RaceInv, NEW c \in Clients, NEW p \in Paths \ raced, StepAt(c, p), UNCHANGED fds,
           (Writes(c) /\ pc[c] \in Writing)' => Writes(c) /\ pc[c] \in Writing,
           Lookup(p)'.serverMode = Lookup(p).serverMode
    PROVE  OneWrites(p)'
<1>1. WriteOpens(p)' = WriteOpens(p)
  BY DEF WriteOpens, Opens
<1>2. WriterCalls(p)' \subseteq WriterCalls(p)
  BY DEF WriterCalls, Writing, StepAt, Moves, path, Writes
<1> QED  BY <1>1, <1>2 DEF RaceInv, PathInv, OneWrites

\* The entry still counts everybody, when it counts c for what c has gone to.
LEMMA ExactKept ==
    ASSUME RaceInv, NEW c \in Clients, NEW p \in Paths \ raced, StepAt(c, p), UNCHANGED fds,
           failed'[p] = failed[p],
           \/ /\ pc[c] \in Flying <=> pc'[c] \in Flying
              /\ Lookup(p)'.openNum = Lookup(p).openNum
           \/ /\ pc[c] \notin Flying /\ pc'[c] \in Flying
              /\ Lookup(p)'.openNum = Lookup(p).openNum + 1
           \/ /\ pc[c] \in Flying /\ pc'[c] \notin Flying
              /\ Lookup(p)'.openNum = Lookup(p).openNum - 1
    PROVE  Exact(p)'
<1>1. Opens(p)' = Opens(p)
  BY DEF Opens
<1>2. /\ IsFiniteSet(InFlight(p)) /\ Cardinality(InFlight(p)) \in Nat
      /\ failed[p] \in Nat /\ Cardinality(Opens(p)) \in Nat
      /\ Lookup(p).openNum = Cardinality(Opens(p)) + Cardinality(InFlight(p)) + failed[p]
  BY Exactly, FiniteOpens
<1>3. Moves(c, p)
  BY DEF StepAt
<1>4. Lookup(p)'.openNum = Cardinality(Opens(p)) + Cardinality(InFlight(p)') + failed[p]
  BY <1>2, <1>3, FlightCounts
<1> QED  BY <1>1, <1>2, <1>3, <1>4, FlightCounts DEF Exact

\* A step that changes neither entry nor descriptors.
LEMMA QuietKeeps ==
    ASSUME RaceInv, NEW c \in Clients, NEW p \in Paths \ raced, StepAt(c, p), UNCHANGED fds,
           failed'[p] = failed[p], Lookup(p)' = Lookup(p),
           pc[c] \in Flying <=> pc'[c] \in Flying,
           (Writes(c) /\ pc[c] \in Writing)' => Writes(c) /\ pc[c] \in Writing,
           Found(c)' => Found(c) \/ Lookup(p).lock \in Locks,
           \/ pc'[c] \in Sweeping
           \/ p \in DOMAIN openFilesStatus_s' /\ Lookup(p).openNum = 0 =>
                p \in DOMAIN openFilesStatus_s /\ pc[c] \notin Sweeping,
           pc'[c] # "open_log"
    PROVE  PathInv(p)'
<1>1. Exact(p)'
  BY ExactKept
<1>2. Locked(p)'
  BY LockedKept
<1>3. Swept(p)'
  BY SweptKept
<1>4. Logged(p)'
  BY LoggedKept, Exactly
<1>5. OneWrites(p)'
  BY OneWritesKept
<1> QED  BY <1>1, <1>2, <1>3, <1>4, <1>5 DEF PathInv

-----------------------------------------------------------------------------
(* The steps that change neither entry nor descriptors *)

\* What the history makes of a step of c on p.
Recorded(c, p) ==
    /\ HistoryAt(p)
    /\ p \notin raced' =>
         /\ p \notin raced /\ ~Discards(c) /\ ~SetsTwice(c)
         /\ failed'[p] = IF pc[c] = "open_file" /\ UNCHANGED fds THEN failed[p] + 1 ELSE failed[p]

\* A request arrives.
LEMMA ArrivalKeeps ==
    ASSUME RaceInv, NEW c \in Clients, NEW p \in Paths, Recorded(c, p),
           NEW flag \in OpenFlags, NEW fh \in FD \cup {BadFd}, NEW label \in {"open_find", "rel_close"},
           Arrives(c, p, flag, fh, label),
           fh = BadFd \/ (fh \in FD /\ fds[fh] = [owner |-> c, path |-> p, flag |-> flag])
    PROVE  RaceInv'
<1> USE DEF RaceInv
<1>1. /\ pc[c] = "idle" /\ pc' = [pc EXCEPT ![c] = label]
      /\ call' = [call EXCEPT ![c] = [path |-> p, flag |-> flag, fh |-> fh]]
      /\ UNCHANGED <<openFilesStatus_s, fds>>
  BY DEF Arrives, serverVars
<1>2. Moves(c, p) /\ pc'[c] = label /\ call'[c] = [path |-> p, flag |-> flag, fh |-> fh]
  BY <1>1 DEF Moves, Typed, CallRecords, Labels
<1>3. StepAt(c, p) /\ Lookup(p)' = Lookup(p)
  BY <1>1, <1>2, TableIdle, FdsIdle DEF StepAt, Recorded
<1>4. CallFits(c)'
  BY <1>1, <1>2 DEF CallFits, path
<1>5. p \notin raced' => PathInv(p)'
  BY <1>1, <1>2, <1>3, QuietKeeps DEF Recorded, Flying, Writing, Found, Sweeping
<1> QED  BY <1>3, <1>4, <1>5, StepKeeps

\* A call of a handler goes on, without a change of the entry.
LEMMA GoesOn ==
    ASSUME RaceInv, NEW c \in Clients, NEW p \in Paths, p = path(c), Recorded(c, p), pc[c] # "idle",
           \/ UNCHANGED openFilesStatus_s
           \/ openFilesStatus_s' = Put(openFilesStatus_s, p, Entry(c)),
           UNCHANGED fds
    PROVE  /\ TableAt(p) /\ FdsAt(c, p) /\ HistoryAt(p) /\ Lookup(p)' = Lookup(p)
           /\ p \in DOMAIN openFilesStatus_s => p \in DOMAIN openFilesStatus_s'
<1>1. Entry(c) = Lookup(p) /\ Entry(c) \in FileStatus
  BY Entries DEF Entry, RaceInv
<1> QED  BY <1>1, PutAt, TableIdle, FdsIdle DEF RaceInv, Recorded

\* What is left to show when it goes on to a label, or is answered.
LEMMA QuietGoto ==
    ASSUME RaceInv, NEW c \in Clients, NEW p \in Paths, p = path(c), Recorded(c, p), pc[c] # "idle",
           \/ UNCHANGED openFilesStatus_s
           \/ openFilesStatus_s' = Put(openFilesStatus_s, p, Entry(c)),
           UNCHANGED fds, NEW label \in Labels \ {"idle", "open_log", "rel_close"}, Goto(c, label),
           label \in {"open_set", "rel_mode"} => Writes(c),
           p \notin raced' =>
             /\ pc[c] # "open_file"
             /\ pc[c] \in Flying <=> label \in Flying
             /\ Writes(c) /\ label \in Writing => pc[c] \in Writing
             /\ label \in {"open_mode", "open_set", "open_join", "rel_mode"} => Lookup(p).lock \in Locks
             /\ \/ label \in Sweeping
                \/ p \in DOMAIN openFilesStatus_s /\ pc[c] \notin Sweeping
                \/ UNCHANGED openFilesStatus_s /\ pc[c] \notin Sweeping
                \/ Lookup(p).openNum # 0
    PROVE  RaceInv'
<1>1. Moves(c, p) /\ pc'[c] = label /\ call' = call /\ path(c)' = path(c)
  BY GotoMoves DEF RaceInv
<1>2. StepAt(c, p) /\ Lookup(p)' = Lookup(p)
  BY <1>1, GoesOn DEF StepAt
<1>3. CallFits(c)'
  BY <1>1 DEF CallFits, Writes
<1>4. ASSUME p \notin raced' PROVE PathInv(p)'
  BY <1>1, <1>2, <1>4, QuietKeeps DEF Recorded, Found, Writes
<1> QED  BY <1>2, <1>3, <1>4, StepKeeps

LEMMA QuietReturn ==
    ASSUME RaceInv, NEW c \in Clients, NEW p \in Paths, p = path(c), Recorded(c, p), pc[c] # "idle",
           \/ UNCHANGED openFilesStatus_s
           \/ openFilesStatus_s' = Put(openFilesStatus_s, p, Entry(c)),
           UNCHANGED fds, Return(c),
           p \notin raced' =>
             /\ pc[c] \notin Flying
             /\ \/ p \in DOMAIN openFilesStatus_s /\ pc[c] \notin Sweeping
                \/ UNCHANGED openFilesStatus_s /\ pc[c] \notin Sweeping
                \/ Lookup(p).openNum # 0
    PROVE  RaceInv'
<1>1. Moves(c, p) /\ pc'[c] = "idle"
  BY ReturnMoves DEF RaceInv
<1>2. StepAt(c, p) /\ Lookup(p)' = Lookup(p)
  BY <1>1, GoesOn DEF StepAt
<1>3. CallFits(c)'
  BY <1>1 DEF CallFits
<1>4. ASSUME p \notin raced' PROVE PathInv(p)'
  BY <1>1, <1>2, <1>4, QuietKeeps DEF Recorded, Found, Writing, Flying
<1> QED  BY <1>2, <1>3, <1>4, StepKeeps

\* A call that is in flight, or will come back to the entry, finds it.
LEMMA FindsEntry ==
    ASSUME RaceInv, NEW c \in Clients, NEW p \in Paths \ raced, p = path(c)
    PROVE  /\ pc[c] \in Flying \cup {"open_log"} =>
                /\ Lookup(p).openNum > 0 /\ p \in DOMAIN openFilesStatus_s /\ Lookup(p).lock \in Locks
           /\ Found(c) => Lookup(p).lock \in Locks /\ p \in DOMAIN openFilesStatus_s
<1>1. pc[c] \in Flying => c \in InFlight(p)
  BY DEF Flying, InFlight
<1>2. pc[c] = "open_log" => failed[p] > 0 \/ Opens(p) # {}
  BY DEF RaceInv, PathInv, Logged
<1>3. Found(c) => Lookup(p).lock \in Locks
  BY DEF RaceInv, PathInv, Locked
<1>4. Lookup(p).lock \in Locks => p \in DOMAIN openFilesStatus_s
  BY NamesAssumption DEF Lookup, Phantom
<1> QED  BY <1>1, <1>2, <1>3, <1>4, SomebodyCounts

LEMMA OpenQuiet ==
    ASSUME RaceInv, NEW c \in Clients, NEW p \in Paths, p = path(c), Recorded(c, p),
           OpenFind(c) \/ OpenCount(c) \/ OpenMode(c) \/ OpenLog(c)
    PROVE  RaceInv'
<1>0. p \notin raced' => p \in Paths \ raced
  BY DEF Recorded
<1>1. CASE OpenFind(c)
  <2>1. PICK label \in {"open_count", "open_new"} : Goto(c, label)
    BY <1>1 DEF OpenFind
  <2>2. pc[c] = "open_find" /\ UNCHANGED <<openFilesStatus_s, fds>>
    BY <1>1 DEF OpenFind, NoFile
  <2> QED  BY <2>1, <2>2, QuietGoto DEF Labels, Flying, Writing, Sweeping
<1>2. CASE OpenCount(c)
  <2>1. /\ pc[c] = "open_count" /\ UNCHANGED fds
        /\ openFilesStatus_s' = Put(openFilesStatus_s, p, Entry(c))
        /\ Goto(c, IF Lookup(p).openNum > 0 THEN "open_mode" ELSE "open_new")
    BY <1>2 DEF OpenCount, Uses, NoFile, Entry
  <2>2. CASE Lookup(p).openNum > 0
    <3>1. Goto(c, "open_mode")
      BY <2>1, <2>2
    <3>2. p \notin raced' => Lookup(p).lock \in Locks
      BY <1>0, <2>2 DEF RaceInv, PathInv, Locked
    <3> QED  BY <2>1, <2>2, <3>1, <3>2, QuietGoto DEF Labels, Flying, Writing
  <2>3. CASE ~(Lookup(p).openNum > 0)
    <3>1. Goto(c, "open_new")
      BY <2>1, <2>3
    <3> QED  BY <2>1, <3>1, QuietGoto DEF Labels, Flying, Writing, Sweeping
  <2> QED  BY <2>2, <2>3
<1>3. CASE OpenMode(c)
  <2>1. /\ pc[c] = "open_mode" /\ UNCHANGED fds
        /\ openFilesStatus_s' = Put(openFilesStatus_s, p, Entry(c))
    BY <1>3 DEF OpenMode, Uses, NoFile
  <2>2. p \notin raced' => p \in DOMAIN openFilesStatus_s /\ Lookup(p).lock \in Locks
    BY <1>0, <2>1, FindsEntry DEF Found
  <2>3. CASE Goto(c, "open_join") /\ ~Writes(c)
    BY <2>1, <2>2, <2>3, QuietGoto DEF Labels, Flying, Sweeping
  <2>4. CASE Goto(c, "open_set") /\ Writes(c)
    BY <2>1, <2>2, <2>4, QuietGoto DEF Labels, Flying, Writing, Sweeping
  <2>5. CASE Return(c)
    BY <2>1, <2>2, <2>5, QuietReturn DEF Flying, Sweeping
  <2> QED  BY <1>3, <2>3, <2>4, <2>5 DEF OpenMode
<1>4. CASE OpenLog(c)
  <2>1. /\ pc[c] = "open_log" /\ UNCHANGED fds /\ Return(c)
        /\ openFilesStatus_s' = Put(openFilesStatus_s, p, Entry(c))
    BY <1>4 DEF OpenLog, Uses, NoFile
  <2>2. p \notin raced' => Lookup(p).openNum > 0
    BY <1>0, <2>1, FindsEntry
  <2> QED  BY <2>1, <2>2, QuietReturn DEF Flying
<1> QED  BY <1>1, <1>2, <1>3, <1>4

LEMMA ReleaseQuiet ==
    ASSUME RaceInv, NEW c \in Clients, NEW p \in Paths, p = path(c), Recorded(c, p),
           RelLog(c) \/ RelFind(c) \/ RelLast(c) \/ RelDestroy(c)
    PROVE  RaceInv'
<1>0. p \notin raced' => p \in Paths \ raced
  BY DEF Recorded
<1>1. CASE RelLog(c)
  <2>1. /\ pc[c] = "rel_log" /\ UNCHANGED fds /\ Goto(c, "rel_find")
        /\ openFilesStatus_s' = Put(openFilesStatus_s, p, Entry(c))
    BY <1>1 DEF RelLog, Uses, NoFile
  <2>2. p \notin raced' => Lookup(p).openNum > 0
    BY <1>0, <2>1, FindsEntry DEF Flying
  <2> QED  BY <2>1, <2>2, QuietGoto DEF Labels, Flying, Writing
<1>2. CASE RelFind(c)
  <2>1. pc[c] = "rel_find" /\ UNCHANGED <<fds, openFilesStatus_s>>
    BY <1>2 DEF RelFind, NoFile
  <2>2. p \notin raced' => Lookup(p).openNum > 0 /\ p \in DOMAIN openFilesStatus_s
    BY <1>0, <2>1, FindsEntry DEF Flying
  <2>3. CASE Goto(c, "rel_leave")
    BY <2>1, <2>2, <2>3, QuietGoto DEF Labels, Flying, Writing
  <2>4. CASE Return(c) /\ p \notin DOMAIN openFilesStatus_s
    BY <2>1, <2>2, <2>4, QuietReturn
  <2> QED  BY <1>2, <2>3, <2>4 DEF RelFind
<1>3. CASE RelLast(c)
  <2>1. /\ pc[c] = "rel_last" /\ UNCHANGED fds
        /\ openFilesStatus_s' = Put(openFilesStatus_s, p, Entry(c))
    BY <1>3 DEF RelLast, Uses, NoFile
  <2>2. CASE Goto(c, "rel_destroy")
    BY <2>1, <2>2, QuietGoto DEF Labels, Flying, Writing, Sweeping
  <2>3. CASE Return(c) /\ Lookup(p).openNum # 0
    BY <2>1, <2>3, QuietReturn DEF Flying
  <2> QED  BY <1>3, <2>2, <2>3 DEF RelLast, NobodyLeft, Entry
<1>4. CASE RelDestroy(c)
  <2>1. /\ pc[c] = "rel_destroy" /\ UNCHANGED fds /\ Goto(c, "rel_erase")
        /\ openFilesStatus_s' = Put(openFilesStatus_s, p, Entry(c))
    BY <1>4 DEF RelDestroy, Uses, NoFile
  <2> QED  BY <2>1, QuietGoto DEF Labels, Flying, Writing, Sweeping
<1> QED  BY <1>1, <1>2, <1>3, <1>4

-----------------------------------------------------------------------------
(* The steps that change the entry *)

LEMMA ChangesEntry ==
    ASSUME RaceInv, NEW c \in Clients, NEW p \in Paths, p = path(c), Recorded(c, p), pc[c] # "idle",
           NEW e \in FileStatus, openFilesStatus_s' = Put(openFilesStatus_s, p, e), UNCHANGED fds,
           NEW label \in Labels \ {"idle", "open_log", "rel_close", "open_set"}, Goto(c, label),
           label = "rel_mode" => Writes(c)
    PROVE  /\ StepAt(c, p) /\ CallFits(c)' /\ Lookup(p)' = e
           /\ pc'[c] = label /\ (Writes(c)' <=> Writes(c))
           /\ p \notin raced' /\ pc[c] # "open_file" => Logged(p)'
<1>1. Moves(c, p) /\ pc'[c] = label /\ call' = call /\ path(c)' = path(c)
  BY GotoMoves DEF RaceInv
<1>2. StepAt(c, p) /\ Lookup(p)' = e
  BY <1>1, PutAt, FdsIdle DEF StepAt, Recorded, RaceInv
<1>3. CallFits(c)' /\ (Writes(c)' <=> Writes(c))
  BY <1>1 DEF CallFits, Writes
<1>4. p \notin raced' /\ pc[c] # "open_file" => Logged(p)'
  BY <1>1, <1>2, LoggedKept, Exactly DEF Recorded
<1> QED  BY <1>1, <1>2, <1>3, <1>4

LEMMA SetKeeps ==
    ASSUME RaceInv, NEW c \in Clients, NEW p \in Paths, p = path(c), Recorded(c, p), OpenSet(c)
    PROVE  RaceInv'
<1>1. PICK e \in FileStatus :
        /\ e = [Lookup(p) EXCEPT !.serverMode = 1]
        /\ e.openNum = Lookup(p).openNum /\ e.serverMode = 1 /\ e.lock = Lookup(p).lock
  BY Entries, EntryFields DEF RaceInv
<1>2. /\ pc[c] = "open_set" /\ UNCHANGED fds /\ Goto(c, "open_join")
      /\ openFilesStatus_s' = Put(openFilesStatus_s, p, e)
  BY <1>1 DEF OpenSet, Uses, NoFile, Entry
<1>3. /\ StepAt(c, p) /\ CallFits(c)' /\ Lookup(p)' = e /\ pc'[c] = "open_join"
      /\ p \notin raced' => Logged(p)'
  BY <1>2, ChangesEntry DEF Labels
<1>4. ASSUME p \notin raced' PROVE PathInv(p)'
  <2>1. /\ p \in Paths \ raced /\ failed'[p] = failed[p]
        /\ Lookup(p).serverMode = 0 /\ Lookup(p).lock \in Locks /\ p \in DOMAIN openFilesStatus_s
    BY <1>2, <1>4, FindsEntry, Entries DEF Recorded, SetsTwice, Entry, Found, RaceInv
  <2>2. Exact(p)'
    BY <1>1, <1>2, <1>3, <2>1, ExactKept DEF Flying
  <2>3. Locked(p)'
    BY <1>1, <1>3, <2>1, LockedKept
  <2>4. Swept(p)'
    <3>1. pc[c] \notin Sweeping
      BY <1>2 DEF Sweeping
    <3> QED  BY <1>1, <1>3, <2>1, <3>1, SweptKept
  <2>5. OneWrites(p)'
    <3>1. WriteOpens(p) = {} /\ WriterCalls(p) = {}
      BY <2>1 DEF RaceInv, PathInv, OneWrites
    <3>2. WriteOpens(p)' = {}
      BY <1>2, <3>1 DEF WriteOpens, Opens
    <3>3. WriterCalls(p)' \subseteq {c}
      BY <1>3, <3>1 DEF WriterCalls, StepAt, Moves, path, Writes
    <3> QED  BY <1>1, <1>3, <3>2, <3>3 DEF OneWrites
  <2> QED  BY <1>3, <1>4, <2>2, <2>3, <2>4, <2>5 DEF PathInv
<1> QED  BY <1>3, <1>4, StepKeeps

LEMMA JoinKeeps ==
    ASSUME RaceInv, NEW c \in Clients, NEW p \in Paths, p = path(c), Recorded(c, p), OpenJoin(c)
    PROVE  RaceInv'
<1>1. PICK e \in FileStatus :
        /\ e = [Lookup(p) EXCEPT !.openNum = Lookup(p).openNum + 1]
        /\ e.openNum = Lookup(p).openNum + 1 /\ e.serverMode = Lookup(p).serverMode
        /\ e.lock = Lookup(p).lock
  <2>1. Lookup(p).openNum + 1 \in Int
    BY Entries DEF RaceInv
  <2> QED  BY <2>1, Entries, EntryFields DEF RaceInv
<1>2. /\ pc[c] = "open_join" /\ UNCHANGED fds /\ Goto(c, "open_file")
      /\ openFilesStatus_s' = Put(openFilesStatus_s, p, e)
  BY <1>1 DEF OpenJoin, Uses, NoFile, Entry
<1>3. /\ StepAt(c, p) /\ CallFits(c)' /\ Lookup(p)' = e /\ pc'[c] = "open_file"
      /\ (Writes(c)' <=> Writes(c))
      /\ p \notin raced' => Logged(p)'
  BY <1>2, ChangesEntry DEF Labels
<1>4. ASSUME p \notin raced' PROVE PathInv(p)'
  <2>1. /\ p \in Paths \ raced /\ failed'[p] = failed[p] /\ Lookup(p).lock \in Locks
    BY <1>2, <1>4, FindsEntry DEF Recorded, Found
  <2>2. Exact(p)'
    BY <1>1, <1>2, <1>3, <2>1, ExactKept DEF Flying
  <2>3. Locked(p)'
    BY <1>1, <1>3, <2>1, LockedKept
  <2>4. Swept(p)'
    <3>1. Lookup(p).openNum >= 0 /\ Lookup(p).openNum \in Int
      BY <2>1, Exactly, Entries DEF RaceInv
    <3>2. e.openNum # 0
      BY <1>1, <3>1
    <3> QED  BY <1>3, <3>2 DEF Swept
  <2>5. OneWrites(p)'
    BY <1>1, <1>2, <1>3, <2>1, OneWritesKept DEF Writing
  <2> QED  BY <1>3, <1>4, <2>2, <2>3, <2>4, <2>5 DEF PathInv
<1> QED  BY <1>3, <1>4, StepKeeps

\* Of an entry that counts nobody and that no call has found, no writer is left.
LEMMA NoWriter ==
    ASSUME RaceInv, NEW c \in Clients, NEW p \in Paths \ raced, p = path(c),
           pc[c] \in {"open_new", "rel_erase"}, ~Discards(c)
    PROVE  /\ Lookup(p).openNum = 0 /\ WriteOpens(p) = {} /\ WriterCalls(p) = {}
           /\ \A d \in Clients : ~(Found(d) /\ path(d) = p)
<1>1. /\ ~(Lookup(p).openNum > 0)
      /\ \A d \in Clients \ {c} : ~(Found(d) /\ path(d) = p)
  BY DEF Discards, Counted, Lookup, Phantom
<1>2. ~Found(c)
  BY DEF Found
<1>3. InFlight(p) = {} /\ Opens(p) = {} /\ Lookup(p).openNum = 0
  BY <1>1, NobodyCounts
<1>4. ASSUME NEW d \in WriterCalls(p) PROVE FALSE
  BY <1>1, <1>2, <1>3, <1>4 DEF WriterCalls, Writing, InFlight, Found
<1> QED  BY <1>1, <1>2, <1>3, <1>4 DEF WriteOpens

LEMMA NewKeeps ==
    ASSUME RaceInv, NEW c \in Clients, NEW p \in Paths, p = path(c), Recorded(c, p), OpenNew(c)
    PROVE  RaceInv'
<1>1. PICK l \in Locks :
        Uses(c, [serverMode |-> IF Writes(c) THEN 1 ELSE 0, openNum |-> 1, lock |-> l])
  BY DEF OpenNew
<1>2. PICK e \in FileStatus :
        /\ e = [serverMode |-> IF Writes(c) THEN 1 ELSE 0, openNum |-> 1, lock |-> l]
        /\ e.openNum = 1 /\ e.lock = l /\ (Writes(c) => e.serverMode = 1)
  <2>1. \A w \in {0, 1} : [serverMode |-> w, openNum |-> 1, lock |-> l] \in FileStatus
    BY DEF FileStatus
  <2>2. (IF Writes(c) THEN 1 ELSE 0) \in {0, 1}
    OBVIOUS
  <2> QED  BY <2>1, <2>2
<1>3. /\ pc[c] = "open_new" /\ UNCHANGED fds /\ Goto(c, "open_file")
      /\ openFilesStatus_s' = Put(openFilesStatus_s, p, e)
  BY <1>1, <1>2 DEF OpenNew, Uses, NoFile
<1>4. /\ StepAt(c, p) /\ CallFits(c)' /\ Lookup(p)' = e /\ pc'[c] = "open_file"
      /\ (Writes(c)' <=> Writes(c))
      /\ p \notin raced' => Logged(p)'
  BY <1>3, ChangesEntry DEF Labels
<1>5. ASSUME p \notin raced' PROVE PathInv(p)'
  <2>1. /\ p \in Paths \ raced /\ failed'[p] = failed[p]
        /\ Lookup(p).openNum = 0 /\ WriteOpens(p) = {} /\ WriterCalls(p) = {}
    BY <1>3, <1>5, NoWriter DEF Recorded
  <2>2. Exact(p)'
    BY <1>2, <1>3, <1>4, <2>1, ExactKept DEF Flying
  <2>3. Locked(p)' /\ Swept(p)'
    BY <1>2, <1>4, <2>1, LockedKept DEF Swept
  <2>4. OneWrites(p)'
    <3>1. WriteOpens(p)' = {}
      BY <1>3, <2>1 DEF WriteOpens, Opens
    <3>2. WriterCalls(p)' \subseteq {c}
      BY <1>4, <2>1 DEF WriterCalls, StepAt, Moves, path, Writes
    <3>3. WriterCalls(p)' # {} => Writes(c)
      BY <1>4, <3>2 DEF WriterCalls
    <3> QED  BY <1>2, <1>4, <3>1, <3>2, <3>3 DEF OneWrites
  <2> QED  BY <1>4, <1>5, <2>2, <2>3, <2>4 DEF PathInv
<1> QED  BY <1>4, <1>5, StepKeeps

LEMMA LeaveKeeps ==
    ASSUME RaceInv, NEW c \in Clients, NEW p \in Paths, p = path(c), Recorded(c, p), RelLeave(c)
    PROVE  RaceInv'
<1>1. PICK e \in FileStatus :
        /\ e = [Lookup(p) EXCEPT !.openNum = Lookup(p).openNum - 1]
        /\ e.openNum = Lookup(p).openNum - 1 /\ e.serverMode = Lookup(p).serverMode
        /\ e.lock = Lookup(p).lock
  <2>1. Lookup(p).openNum - 1 \in Int
    BY Entries DEF RaceInv
  <2> QED  BY <2>1, Entries, EntryFields DEF RaceInv
<1>2. PICK label \in {"rel_mode", "rel_last"} :
        /\ pc[c] = "rel_leave" /\ UNCHANGED fds /\ Goto(c, label)
        /\ openFilesStatus_s' = Put(openFilesStatus_s, p, e)
        /\ label = "rel_mode" => Writes(c)
  BY <1>1 DEF RelLeave, Uses, NoFile, Entry
<1>3. /\ StepAt(c, p) /\ CallFits(c)' /\ Lookup(p)' = e /\ pc'[c] = label
      /\ (Writes(c)' <=> Writes(c))
      /\ p \notin raced' => Logged(p)'
  BY <1>2, ChangesEntry DEF Labels
<1>4. ASSUME p \notin raced' PROVE PathInv(p)'
  <2>1. /\ p \in Paths \ raced /\ failed'[p] = failed[p] /\ Lookup(p).lock \in Locks
    BY <1>2, <1>4, FindsEntry DEF Recorded, Flying
  <2>2. Exact(p)'
    BY <1>1, <1>2, <1>3, <2>1, ExactKept DEF Flying
  <2>3. Locked(p)' /\ Swept(p)'
    BY <1>1, <1>2, <1>3, <2>1, LockedKept, SweptKept DEF Sweeping
  <2>4. OneWrites(p)'
    BY <1>1, <1>2, <1>3, <2>1, OneWritesKept DEF Writing
  <2> QED  BY <1>3, <1>4, <2>2, <2>3, <2>4 DEF PathInv
<1> QED  BY <1>3, <1>4, StepKeeps

LEMMA ModeKeeps ==
    ASSUME RaceInv, NEW c \in Clients, NEW p \in Paths, p = path(c), Recorded(c, p), RelMode(c)
    PROVE  RaceInv'
<1>1. PICK e \in FileStatus :
        /\ e = [Lookup(p) EXCEPT !.serverMode = 0]
        /\ e.openNum = Lookup(p).openNum /\ e.lock = Lookup(p).lock
  BY Entries, EntryFields DEF RaceInv
<1>2. /\ pc[c] = "rel_mode" /\ UNCHANGED fds /\ Goto(c, "rel_last")
      /\ openFilesStatus_s' = Put(openFilesStatus_s, p, e)
  BY <1>1 DEF RelMode, Uses, NoFile, Entry
<1>3. /\ StepAt(c, p) /\ CallFits(c)' /\ Lookup(p)' = e /\ pc'[c] = "rel_last"
      /\ p \notin raced' => Logged(p)'
  BY <1>2, ChangesEntry DEF Labels
<1>4. ASSUME p \notin raced' PROVE PathInv(p)'
  <2>1. /\ p \in Paths \ raced /\ failed'[p] = failed[p] /\ Lookup(p).lock \in Locks
    BY <1>2, <1>4, FindsEntry DEF Recorded, Found
  <2>2. Exact(p)'
    BY <1>1, <1>2, <1>3, <2>1, ExactKept DEF Flying
  <2>3. Locked(p)' /\ Swept(p)'
    BY <1>1, <1>2, <1>3, <2>1, LockedKept, SweptKept DEF Sweeping
  <2>4. OneWrites(p)'
    <3>1. c \in WriterCalls(p)
      BY <1>2 DEF WriterCalls, Writing, RaceInv, Typed, CallFits
    <3>2. WriteOpens(p) = {} /\ WriterCalls(p) = {c}
      BY <2>1, <3>1 DEF RaceInv, PathInv, OneWrites
    <3>3. WriteOpens(p)' = {}
      BY <1>2, <3>2 DEF WriteOpens, Opens
    <3>4. WriterCalls(p)' = {}
      BY <1>3, <3>2 DEF WriterCalls, Writing, StepAt, Moves, path, Writes
    <3> QED  BY <3>3, <3>4 DEF OneWrites
  <2> QED  BY <1>3, <1>4, <2>2, <2>3, <2>4 DEF PathInv
<1> QED  BY <1>3, <1>4, StepKeeps

LEMMA EraseKeeps ==
    ASSUME RaceInv, NEW c \in Clients, NEW p \in Paths, p = path(c), Recorded(c, p), RelErase(c)
    PROVE  RaceInv'
<1>1. /\ pc[c] = "rel_erase" /\ UNCHANGED fds /\ Return(c)
      /\ openFilesStatus_s' = Erase(openFilesStatus_s, p)
  BY DEF RelErase, NoFile
<1>2. TableAt(p) /\ p \notin DOMAIN openFilesStatus_s' /\ Lookup(p)' = Phantom
  <2>1. /\ DOMAIN openFilesStatus_s' = DOMAIN openFilesStatus_s \ {p}
        /\ \A q \in DOMAIN openFilesStatus_s' : openFilesStatus_s'[q] = openFilesStatus_s[q]
    BY <1>1 DEF Erase
  <2> QED  BY <2>1 DEF TableAt, RaceInv, Typed, Lookup
<1>3. Moves(c, p) /\ pc'[c] = "idle"
  BY <1>1, ReturnMoves DEF RaceInv
<1>4. StepAt(c, p) /\ CallFits(c)'
  BY <1>1, <1>2, <1>3, FdsIdle DEF StepAt, Recorded, RaceInv, CallFits
<1>5. ASSUME p \notin raced' PROVE PathInv(p)'
  <2>1. /\ p \in Paths \ raced /\ failed'[p] = failed[p]
        /\ Lookup(p).openNum = 0 /\ WriteOpens(p) = {} /\ WriterCalls(p) = {}
        /\ \A d \in Clients : ~(Found(d) /\ path(d) = p)
    BY <1>1, <1>5, NoWriter DEF Recorded
  <2>2. Exact(p)'
    BY <1>1, <1>2, <1>3, <1>4, <2>1, ExactKept DEF Flying, Phantom
  <2>3. Locked(p)'
    <3>1. \A d \in Clients : ~(Found(d)' /\ path(d)' = p)
      BY <1>3, <2>1 DEF Moves, Found, path
    <3> QED  BY <1>2, <3>1 DEF Locked, Phantom
  <2>4. Swept(p)'
    BY <1>2 DEF Swept
  <2>5. Logged(p)'
    BY <1>3, <1>4, <2>1, LoggedKept, Exactly
  <2>6. OneWrites(p)'
    <3>1. WriteOpens(p)' = {}
      BY <1>1, <2>1 DEF WriteOpens, Opens
    <3>2. WriterCalls(p)' = {}
      BY <1>3, <2>1 DEF WriterCalls, Writing, Moves, path, Writes
    <3> QED  BY <3>1, <3>2 DEF OneWrites
  <2> QED  BY <2>2, <2>3, <2>4, <2>5, <2>6 DEF PathInv
<1> QED  BY <1>4, <1>5, StepKeeps

-----------------------------------------------------------------------------
(* open(2) and close(2) *)

\* Neither of them changes the entry.
LEMMA CallsSystem ==
    ASSUME RaceInv, NEW c \in Clients, NEW p \in Paths, p = path(c), Recorded(c, p), pc[c] # "idle",
           UNCHANGED openFilesStatus_s, FdsAt(c, p),
           NEW label \in {"open_log", "rel_log"}, Goto(c, label)
    PROVE  /\ StepAt(c, p) /\ CallFits(c)' /\ Lookup(p)' = Lookup(p) /\ pc'[c] = label
           /\ (Writes(c)' <=> Writes(c))
           /\ p \notin raced' => Locked(p)'
           /\ p \notin raced' /\ pc[c] \in {"open_file", "rel_close"} => Swept(p)'
<1>1. Moves(c, p) /\ pc'[c] = label /\ call' = call /\ path(c)' = path(c)
  BY GotoMoves DEF RaceInv, Labels
<1>2. StepAt(c, p) /\ Lookup(p)' = Lookup(p)
  BY <1>1, TableIdle DEF StepAt, Recorded, RaceInv
<1>3. CallFits(c)' /\ (Writes(c)' <=> Writes(c))
  BY <1>1 DEF CallFits, Writes
<1>4. ASSUME p \notin raced' PROVE Locked(p)'
  BY <1>1, <1>2, <1>4, LockedKept DEF Recorded, Found
<1>5. ASSUME p \notin raced', pc[c] \in {"open_file", "rel_close"} PROVE Swept(p)'
  BY <1>1, <1>2, <1>5, SweptKept DEF Recorded, Sweeping
<1> QED  BY <1>1, <1>2, <1>3, <1>4, <1>5

LEMMA FailedOpenKeeps ==
    ASSUME RaceInv, NEW c \in Clients, NEW p \in Paths, p = path(c), Recorded(c, p), OpenSystem(c),
           UNCHANGED fds
    PROVE  RaceInv'
<1>1. pc[c] = "open_file" /\ UNCHANGED openFilesStatus_s /\ Goto(c, "open_log")
  BY DEF OpenSystem
<1>2. /\ StepAt(c, p) /\ CallFits(c)' /\ Lookup(p)' = Lookup(p) /\ pc'[c] = "open_log"
      /\ (Writes(c)' <=> Writes(c))
      /\ p \notin raced' => Locked(p)' /\ Swept(p)'
  BY <1>1, FdsIdle, CallsSystem DEF RaceInv
<1>3. ASSUME p \notin raced' PROVE PathInv(p)'
  <2>1. p \in Paths \ raced /\ failed'[p] = failed[p] + 1
    BY <1>1, <1>3 DEF Recorded
  <2>2. /\ IsFiniteSet(InFlight(p)) /\ Cardinality(InFlight(p)) \in Nat
        /\ failed[p] \in Nat /\ Cardinality(Opens(p)) \in Nat
        /\ Lookup(p).openNum = Cardinality(Opens(p)) + Cardinality(InFlight(p)) + failed[p]
    BY <2>1, Exactly, FiniteOpens
  <2>3. Exact(p)'
    <3>1. /\ IsFiniteSet(InFlight(p)')
          /\ Cardinality(InFlight(p)') = Cardinality(InFlight(p)) - 1
      BY <1>1, <1>2, <2>2, FlightCounts DEF StepAt, Flying
    <3>2. Opens(p)' = Opens(p)
      BY DEF Opens
    <3>3. Lookup(p)'.openNum = Cardinality(Opens(p)') + Cardinality(InFlight(p)') + failed'[p]
      BY <1>2, <2>1, <2>2, <3>1, <3>2
    <3> QED  BY <3>1, <3>3 DEF Exact
  <2>4. Logged(p)'
    BY <1>2, <2>1, <2>2, LoggedKept
  <2>5. OneWrites(p)'
    BY <1>2, <2>1, OneWritesKept DEF Writing
  <2> QED  BY <1>2, <1>3, <2>3, <2>4, <2>5 DEF PathInv
<1> QED  BY <1>2, <1>3, StepKeeps

LEMMA OpenedKeeps ==
    ASSUME RaceInv, NEW c \in Clients, NEW p \in Paths, p = path(c), Recorded(c, p), OpenSystem(c),
           ~UNCHANGED fds
    PROVE  RaceInv'
<1>1. pc[c] = "open_file" /\ UNCHANGED openFilesStatus_s /\ Goto(c, "open_log")
  BY DEF OpenSystem
<1>2. PICK fh \in FD :
        /\ fds[fh].owner = Nobody
        /\ fds' = [fds EXCEPT ![fh] = [owner |-> c, path |-> p, flag |-> call[c].flag]]
  BY DEF OpenSystem, OpenFile, FreeFds
<1>3. /\ fds'[fh].owner = c /\ fds'[fh].path = p /\ (fds'[fh].flag # O_RDONLY <=> Writes(c))
      /\ \A fd \in FD : fd # fh => fds'[fd] = fds[fd]
      /\ fds[fh] = FreeFd /\ fds' \in [FD -> Descriptors]
  <2>1. call[c].flag \in OpenFlags
    BY DEF RaceInv, Typed, CallRecords, NoCall, OpenFlags
  <2>2. [owner |-> c, path |-> p, flag |-> call[c].flag] \in Descriptors
    BY <2>1 DEF Descriptors
  <2>3. fds[fh] = FreeFd
    BY <1>2, NamesAssumption DEF RaceInv, Typed, Descriptors
  <2> QED  BY <1>2, <2>2, <2>3 DEF RaceInv, Typed, Writes
<1>4. FdsAt(c, p)
  BY <1>3 DEF FdsAt
<1>5. /\ StepAt(c, p) /\ CallFits(c)' /\ Lookup(p)' = Lookup(p) /\ pc'[c] = "open_log"
      /\ (Writes(c)' <=> Writes(c))
      /\ p \notin raced' => Locked(p)' /\ Swept(p)'
  BY <1>1, <1>4, CallsSystem
<1>6. /\ fh \notin Opens(p) /\ Opens(p)' = Opens(p) \cup {fh}
      /\ WriteOpens(p)' = IF Writes(c) THEN WriteOpens(p) \cup {fh} ELSE WriteOpens(p)
  <2>1. fh \notin Opens(p) /\ Opens(p)' = Opens(p) \cup {fh}
    BY <1>3, NamesAssumption DEF Opens, FreeFd
  <2> QED  BY <1>3, <2>1 DEF WriteOpens, Opens
<1>7. ASSUME p \notin raced' PROVE PathInv(p)'
  <2>1. p \in Paths \ raced /\ failed'[p] = failed[p]
    BY <1>7 DEF Recorded
  <2>2. /\ IsFiniteSet(InFlight(p)) /\ Cardinality(InFlight(p)) \in Nat
        /\ failed[p] \in Nat /\ Cardinality(Opens(p)) \in Nat /\ IsFiniteSet(Opens(p))
        /\ Lookup(p).openNum = Cardinality(Opens(p)) + Cardinality(InFlight(p)) + failed[p]
    BY <2>1, Exactly, FiniteOpens
  <2>3. Exact(p)'
    <3>1. /\ IsFiniteSet(InFlight(p)')
          /\ Cardinality(InFlight(p)') = Cardinality(InFlight(p)) - 1
      BY <1>1, <1>5, <2>2, FlightCounts DEF StepAt, Flying
    <3>2. Cardinality(Opens(p)') = Cardinality(Opens(p)) + 1
      BY <1>6, <2>2, FS_AddElement
    <3>3. Lookup(p)'.openNum = Cardinality(Opens(p)') + Cardinality(InFlight(p)') + failed'[p]
      BY <1>5, <2>1, <2>2, <3>1, <3>2
    <3> QED  BY <3>1, <3>3 DEF Exact
  <2>4. Logged(p)'
    BY <1>3, <1>5, <1>6, <2>1, <2>2, LoggedKept
  <2>5. OneWrites(p)'
    <3>1. WriterCalls(p)' \subseteq WriterCalls(p) \ {c}
      BY <1>5 DEF WriterCalls, Writing, StepAt, Moves, path, Writes
    <3>2. Writes(c) => c \in WriterCalls(p)
      BY <1>1 DEF WriterCalls, Writing
    <3>3. OneWrites(p)
      BY <2>1 DEF RaceInv, PathInv
    <3> QED  BY <1>5, <1>6, <3>1, <3>2, <3>3 DEF OneWrites
  <2> QED  BY <1>5, <1>7, <2>3, <2>4, <2>5 DEF PathInv
<1> QED  BY <1>5, <1>7, StepKeeps

LEMMA CloseKeeps ==
    ASSUME RaceInv, NEW c \in Clients, NEW p \in Paths, p = path(c), Recorded(c, p), RelClose(c)
    PROVE  RaceInv'
<1>0. pc[c] = "rel_close" /\ UNCHANGED openFilesStatus_s
  BY DEF RelClose
<1>1. CASE ~IsOpen(call[c].fh)
  <2>1. UNCHANGED fds /\ Return(c)
    BY <1>1 DEF RelClose
  <2> QED  BY <1>0, <2>1, QuietReturn DEF Flying, Sweeping
<1>2. CASE IsOpen(call[c].fh)
  <2>1. PICK fh \in FD :
          /\ fh = call[c].fh /\ fds[fh] = [owner |-> c, path |-> p, flag |-> call[c].flag]
          /\ fds' = [fds EXCEPT ![fh] = FreeFd] /\ Goto(c, "rel_log")
    BY <1>0, <1>2, NamesAssumption DEF RelClose, IsOpen, RaceInv, Typed, CallFits
  <2>2. /\ fds'[fh] = FreeFd /\ \A fd \in FD : fd # fh => fds'[fd] = fds[fd]
        /\ fds[fh].owner = c /\ fds[fh].path = p /\ (fds[fh].flag # O_RDONLY <=> Writes(c))
        /\ fds' \in [FD -> Descriptors]
    BY <2>1 DEF RaceInv, Typed, Descriptors, Writes
  <2>3. FdsAt(c, p)
    BY <2>2 DEF FdsAt
  <2>4. /\ StepAt(c, p) /\ CallFits(c)' /\ Lookup(p)' = Lookup(p) /\ pc'[c] = "rel_log"
        /\ (Writes(c)' <=> Writes(c))
        /\ p \notin raced' => Locked(p)' /\ Swept(p)'
    BY <1>0, <2>1, <2>3, CallsSystem
  <2>5. /\ fh \in Opens(p) /\ Opens(p)' = Opens(p) \ {fh}
        /\ WriteOpens(p)' = WriteOpens(p) \ {fh} /\ (Writes(c) => fh \in WriteOpens(p))
    <3>1. fh \in Opens(p) /\ Opens(p)' = Opens(p) \ {fh}
      BY <2>2, NamesAssumption DEF Opens, FreeFd
    <3> QED  BY <2>2, <3>1 DEF WriteOpens, Opens
  <2>6. ASSUME p \notin raced' PROVE PathInv(p)'
    <3>1. p \in Paths \ raced /\ failed'[p] = failed[p]
      BY <1>0, <2>6 DEF Recorded
    <3>2. /\ IsFiniteSet(InFlight(p)) /\ Cardinality(InFlight(p)) \in Nat
          /\ failed[p] \in Nat /\ Cardinality(Opens(p)) \in Nat /\ IsFiniteSet(Opens(p))
          /\ Lookup(p).openNum = Cardinality(Opens(p)) + Cardinality(InFlight(p)) + failed[p]
      BY <3>1, Exactly, FiniteOpens
    <3>3. Exact(p)'
      <4>1. /\ IsFiniteSet(InFlight(p)')
            /\ Cardinality(InFlight(p)') = Cardinality(InFlight(p)) + 1
        BY <1>0, <2>4, <3>2, FlightCounts DEF StepAt, Flying
      <4>2. Cardinality(Opens(p)') = Cardinality(Opens(p)) - 1
        <5>1. Cardinality(Opens(p) \ {fh}) = Cardinality(Opens(p)) - 1
          BY <2>5, <3>2, FS_RemoveElement
        <5> QED  BY <2>5, <5>1
      <4>3. Lookup(p)'.openNum = Cardinality(Opens(p)') + Cardinality(InFlight(p)') + failed'[p]
        BY <2>4, <3>1, <3>2, <4>1, <4>2
      <4> QED  BY <4>1, <4>3 DEF Exact
    <3>4. Logged(p)'
      BY <2>4, <3>1, <3>2, LoggedKept
    <3>5. OneWrites(p)'
      <4>1. WriterCalls(p)' \subseteq WriterCalls(p) \cup {c}
        BY <2>4 DEF WriterCalls, Writing, StepAt, Moves, path, Writes
      <4>2. c \in WriterCalls(p)' => Writes(c)
        BY <2>4 DEF WriterCalls
      <4>3. c \notin WriterCalls(p)
        BY <1>0 DEF WriterCalls, Writing
      <4>4. OneWrites(p)
        BY <3>1 DEF RaceInv, PathInv
      <4> QED  BY <2>4, <2>5, <4>1, <4>2, <4>3, <4>4 DEF OneWrites
    <3> QED  BY <2>4, <2>6, <3>3, <3>4, <3>5 DEF PathInv
  <2> QED  BY <2>4, <2>6, StepKeeps
<1> QED  BY <1>1, <1>2

-----------------------------------------------------------------------------
(* Theorems *)

LEMMA InitFits == RaceInit => RaceInv
<1> SUFFICES ASSUME RaceInit PROVE RaceInv
  OBVIOUS
<1>1. /\ openFilesStatus_s = <<>> /\ fds = [fd \in FD |-> FreeFd]
      /\ pc = [c \in Clients |-> "idle"] /\ call = [c \in Clients |-> NoCall]
      /\ raced = {} /\ failed = [p \in Paths |-> 0]
  BY DEF RaceInit, TableInit, ServerInit
<1>2. Typed
  BY <1>1 DEF Typed, Labels, CallRecords, Descriptors, CallFits
<1>3. ASSUME NEW p \in Paths PROVE PathInv(p)
  <2>1. Opens(p) = {} /\ WriteOpens(p) = {}
    BY <1>1, NamesAssumption DEF Opens, WriteOpens, FreeFd
  <2>2. InFlight(p) = {} /\ WriterCalls(p) = {}
    BY <1>1 DEF InFlight, WriterCalls, Writing
  <2>3. Lookup(p) = Phantom /\ p \notin DOMAIN openFilesStatus_s
    BY <1>1 DEF Lookup
  <2>4. Exact(p)
    BY <1>1, <2>1, <2>2, <2>3, FS_EmptySet DEF Exact, Phantom
  <2>5. Locked(p) /\ Swept(p) /\ Logged(p) /\ OneWrites(p)
    BY <1>1, <2>1, <2>2, <2>3 DEF Locked, Swept, Logged, OneWrites, Phantom, Found
  <2> QED  BY <2>4, <2>5 DEF PathInv
<1> QED  BY <1>2, <1>3 DEF RaceInv

\* What the history makes of a step is Recorded, for the path of the call.
LEMMA StepRecorded ==
    ASSUME Typed, NEW c \in Clients, NEW p \in Paths, RaceStep(c), pc[c] # "idle" => p = path(c)
    PROVE  Recorded(c, p)
<1>1. /\ raced' = IF Discards(c) \/ SetsTwice(c) THEN raced \cup {path(c)} ELSE raced
      /\ DOMAIN failed' = Paths
      /\ \A q \in Paths :
           /\ failed'[q] \in {0, failed[q], failed[q] + 1}
           /\ q \notin raced' =>
                failed'[q] = IF pc[c] = "open_file" /\ q = path(c) /\ UNCHANGED fds
                               THEN failed[q] + 1 ELSE failed[q]
  BY DEF RaceStep
<1>2. failed' = [q \in Paths |-> failed'[q]]
  BY DEF RaceStep
<1>3. failed' \in [Paths -> Nat]
  BY <1>1, <1>2 DEF Typed
<1>4. Discards(c) \/ SetsTwice(c) => pc[c] # "idle"
  BY DEF Discards, SetsTwice
<1> QED  BY <1>1, <1>3, <1>4 DEF Recorded, HistoryAt

LEMMA NextFits == RaceInv /\ [RaceNext]_raceVars => RaceInv'
<1> SUFFICES ASSUME RaceInv, [RaceNext]_raceVars PROVE RaceInv'
  OBVIOUS
<1>1. CASE UNCHANGED raceVars
  <2>1. UNCHANGED <<openFilesStatus_s, fds, pc, call, raced, failed>>
    BY <1>1 DEF raceVars, tableVars, serverVars
  <2>2. \A c \in Clients : /\ path(c)' = path(c) /\ (Writes(c)' <=> Writes(c))
                            /\ (Found(c)' <=> Found(c))
    BY <2>1 DEF path, Writes, Found
  <2>3. Typed'
    BY <2>1, <2>2 DEF RaceInv, Typed, CallFits
  <2>4. ASSUME NEW p \in Paths \ raced PROVE PathInv(p)'
    <3>1. /\ Lookup(p)' = Lookup(p) /\ Opens(p)' = Opens(p) /\ WriteOpens(p)' = WriteOpens(p)
          /\ InFlight(p)' = InFlight(p) /\ WriterCalls(p)' = WriterCalls(p)
      BY <2>1, <2>2 DEF Lookup, Opens, WriteOpens, InFlight, WriterCalls
    <3> QED  BY <2>1, <2>2, <3>1 DEF RaceInv, PathInv, Exact, Locked, Swept, Logged, OneWrites
  <2> QED  BY <2>1, <2>3, <2>4 DEF RaceInv
<1>2. CASE RaceNext
  <2>1. PICK c \in Clients : RaceStep(c)
    BY <1>2 DEF RaceNext
  <2>2. CASE OpenArrives(c)
    <3>1. PICK p \in Paths, flag \in OpenFlags : Arrives(c, p, flag, BadFd, "open_find")
      BY <2>2 DEF OpenArrives
    <3>2. Recorded(c, p)
      BY <2>1, <3>1, StepRecorded DEF RaceInv, Arrives
    <3> QED  BY <3>1, <3>2, ArrivalKeeps
  <2>3. CASE ReleaseArrives(c)
    <3>1. CASE \E p \in Paths, flag \in OpenFlags : Arrives(c, p, flag, BadFd, "rel_close")
      <4>1. PICK p \in Paths, flag \in OpenFlags : Arrives(c, p, flag, BadFd, "rel_close")
        BY <3>1
      <4>2. Recorded(c, p)
        BY <2>1, <4>1, StepRecorded DEF RaceInv, Arrives
      <4> QED  BY <4>1, <4>2, ArrivalKeeps
    <3>2. CASE \E fd \in FD : Own(c, fd) /\ Arrives(c, fds[fd].path, fds[fd].flag, fd, "rel_close")
      <4>1. PICK fd \in FD : Own(c, fd) /\ Arrives(c, fds[fd].path, fds[fd].flag, fd, "rel_close")
        BY <3>2
      <4>2. fds[fd] \in [owner : Clients, path : Paths, flag : OpenFlags] /\ fds[fd].owner = c
        BY <4>1, NamesAssumption DEF Own, RaceInv, Typed, Descriptors, FreeFd
      <4>3. PICK p \in Paths, flag \in OpenFlags :
              p = fds[fd].path /\ flag = fds[fd].flag /\ fds[fd] = [owner |-> c, path |-> p, flag |-> flag]
        BY <4>2
      <4>4. Arrives(c, p, flag, fd, "rel_close")
        BY <4>1, <4>3
      <4>5. Recorded(c, p)
        BY <2>1, <4>4, StepRecorded DEF RaceInv, Arrives
      <4> QED  BY <4>3, <4>4, <4>5, ArrivalKeeps
    <3> QED  BY <2>3, <3>1, <3>2 DEF ReleaseArrives
  <2>4. CASE OpenStep(c) \/ ReleaseStep(c)
    <3>1. pc[c] # "idle"
      BY <2>4 DEF OpenStep, OpenFind, OpenCount, OpenMode, OpenSet, OpenJoin, OpenNew, OpenSystem, OpenLog,
         ReleaseStep, RelClose, RelLog, RelFind, RelLeave, RelMode, RelLast, RelDestroy, RelErase
    <3>2. PICK p \in Paths : p = path(c)
      BY <3>1 DEF RaceInv, Typed, CallFits
    <3>3. Recorded(c, p)
      BY <2>1, <3>2, StepRecorded DEF RaceInv
    <3>4. CASE OpenStep(c)
      BY <3>2, <3>3, <3>4, OpenQuiet, SetKeeps, JoinKeeps, NewKeeps, FailedOpenKeeps, OpenedKeeps
         DEF OpenStep
    <3>5. CASE ReleaseStep(c)
      BY <3>2, <3>3, <3>5, ReleaseQuiet, CloseKeeps, LeaveKeeps, ModeKeeps, EraseKeeps DEF ReleaseStep
    <3> QED  BY <2>4, <3>4, <3>5
  <2> QED  BY <2>1, <2>2, <2>3, <2>4 DEF RaceStep, TableStep
<1> QED  BY <1>1, <1>2

\* On every path on which no call was ever caught in a window, the invariant
\* holds, whatever happened on it and on the others.
THEOREM RaceInvariant == RaceSpec => []RaceInv
<1> QED  BY InitFits, NextFits, PTL DEF RaceSpec

\* watdfs_open and watdfs_release, however many overlap: openNum is the number of
\* descriptors, of the calls that are about to change it and of the opens that
\* failed, and no entry is left behind, unless a call was caught in one of the
\* three windows.
THEOREM TableCountsExactlyHolds == RaceSpec => []TableCountsExactly
<1>1. RaceInv => TableCountsExactly
  <2> SUFFICES ASSUME RaceInv, NEW p \in Paths \ raced
               PROVE  /\ Lookup(p).openNum = Cardinality(Opens(p)) + Cardinality(InFlight(p)) + failed[p]
                      /\ (\A c \in Clients : path(c) # p) =>
                           IF Lookup(p).openNum > 0 THEN Lookup(p).lock \in Locks
                                                    ELSE p \notin DOMAIN openFilesStatus_s
    BY DEF TableCountsExactly
  <2>1. Lookup(p).openNum > 0 => Lookup(p).lock \in Locks
    BY DEF RaceInv, PathInv, Locked
  <2>2. ASSUME ~(Lookup(p).openNum > 0), \A c \in Clients : path(c) # p
        PROVE  p \notin DOMAIN openFilesStatus_s
    BY <2>2, NobodyCounts DEF RaceInv, PathInv, Swept
  <2> QED  BY <2>1, <2>2, Exactly
<1> QED  BY <1>1, RaceInvariant, PTL

\* Outside of the three windows a path has at most one descriptor for writing, and
\* its entry says so, however opens and releases overlap.
THEOREM OneWriterUnlessRacedHolds == RaceSpec => []OneWriterUnlessRaced
<1>1. RaceInv => OneWriterUnlessRaced
  <2> SUFFICES ASSUME RaceInv, NEW p \in Paths \ raced
               PROVE  /\ Cardinality(WriteOpens(p)) <= 1
                      /\ WriteOpens(p) # {} =>
                           p \in DOMAIN openFilesStatus_s /\ Lookup(p).serverMode = 1
    BY DEF OneWriterUnlessRaced
  <2>1. OneWrites(p)
    BY DEF RaceInv, PathInv
  <2>2. WriteOpens(p) = {} \/ \E f : WriteOpens(p) = {f}
    <3>1. ASSUME NEW f \in WriteOpens(p) PROVE WriteOpens(p) = {f}
      BY <2>1 DEF OneWrites
    <3> QED  BY <3>1
  <2>3. Cardinality(WriteOpens(p)) <= 1
    <3>1. CASE WriteOpens(p) = {}
      BY <3>1, FS_EmptySet
    <3>2. CASE \E f : WriteOpens(p) = {f}
      <4>1. PICK f : WriteOpens(p) = {f}
        BY <3>2
      <4>2. Cardinality({f}) = 1
        BY FS_Singleton
      <4> QED  BY <4>1, <4>2
    <3> QED  BY <2>2, <3>1, <3>2
  <2>4. WriteOpens(p) # {} => Lookup(p).serverMode = 1
    BY <2>1 DEF OneWrites
  <2>5. Lookup(p).serverMode = 1 => p \in DOMAIN openFilesStatus_s
    BY DEF Lookup, Phantom
  <2> QED  BY <2>3, <2>4, <2>5
<1> QED  BY <1>1, RaceInvariant, PTL

====================================================================================
