---------------------------- MODULE ServerTableRaces ----------------------------
(***************************************************************************)
(* ServerTable with a memory, to say what the table of open files is worth *)
(* while calls on one path overlap: nothing in watdfs_server.cpp keeps them *)
(* apart.                                                                  *)
(*                                                                         *)
(* There are three windows in which a call acts on a test that no longer   *)
(* holds.  The history says which paths a call was ever caught in one of   *)
(* them on; on all others the table is exact.                              *)
(***************************************************************************)
EXTENDS ServerTable

VARIABLES
    raced,            \* history: the paths on which a call was caught in a window
    failed            \* history: how many opens of a path are counted for which open(2) failed

raceVars == <<tableVars, raced, failed>>

\* The call has read the entry of its path and will come back to it: to join it,
\* to set or to reset its mode.
Found(c) == pc[c] \in {"open_mode", "open_set", "open_join", "rel_mode"}

\* The first two windows, between the test of openNum and map::operator= in
\* watdfs_open, and between that test and erase in watdfs_release: the entry that
\* goes away counts somebody by now, or a call has found it.
Discards(c) ==
    /\ pc[c] \in {"open_new", "rel_erase"}
    /\ Counted(path(c)) \/ \E d \in Clients \ {c} : Found(d) /\ path(d) = path(c)

\* The third window, between the test of serverMode and its assignment.
SetsTwice(c) == pc[c] = "open_set" /\ Entry(c).serverMode # 0

RaceInit == TableInit /\ raced = {} /\ failed = [p \in Paths |-> 0]

RaceStep(c) ==
    /\ TableStep(c)
    /\ raced' = IF Discards(c) \/ SetsTwice(c) THEN raced \cup {path(c)} ELSE raced
    /\ failed' = [p \in Paths |->
                    CASE p \in raced' -> 0
                      [] p \notin raced' /\ pc[c] = "open_file" /\ p = path(c) /\ UNCHANGED fds ->
                           failed[p] + 1
                      [] OTHER -> failed[p]]

RaceNext == \E c \in Clients : RaceStep(c)

RaceSpec == RaceInit /\ [][RaceNext]_raceVars

-----------------------------------------------------------------------------
(* The handlers as WatDFSServer has them: atomic *)

\* The entry of p as if the call on p had not begun, or had ended: an open that
\* has not reached open(2) is taken back, a release past its close(2) is done.
Settled(p) ==
    LET e == Lookup(p)
        Unless(w, n) == [e EXCEPT !.openNum = n, !.serverMode = IF w THEN 0 ELSE @]
    IN  IF \A c \in Clients : path(c) # p
          THEN e
          ELSE LET c == CHOOSE d \in Clients : path(d) = p
               IN  CASE pc[c] = "open_join" -> Unless(Writes(c), e.openNum)
                     [] pc[c] = "rel_mode" -> Unless(TRUE, e.openNum)
                     [] pc[c] \in {"open_file", "rel_log", "rel_find", "rel_leave"} ->
                          Unless(Writes(c), e.openNum - 1)
                     [] OTHER -> e

SettledTable ==
    [p \in {q \in DOMAIN openFilesStatus_s : Settled(q).openNum # 0} |-> Settled(p)]

\* The bound is for calls that arrive: each of them counts once more.
Atomic == INSTANCE WatDFSServer WITH openFilesStatus_s <- SettledTable,
                                     MaxCount <- MaxCount + Cardinality(Clients)

\* No two calls are on one path.
Alone == \A c, d \in Clients : c # d /\ path(c) = path(d) => pc[c] = "idle"

-----------------------------------------------------------------------------
(* Properties *)

\* Opens that are counted and have not come to open(2), and releases that have
\* closed and are still counted.
InFlight(p) ==
    {c \in Clients : path(c) = p /\ pc[c] \in {"open_file", "rel_log", "rel_find", "rel_leave"}}

\* watdfs_open and watdfs_release, however they overlap: openNum is the number of
\* descriptors of the path, of the calls that are about to change it, and of the
\* opens that failed; and while no call is on the path, it has an entry exactly as
\* long as openNum is not zero, with a lock.  So the three windows are the only
\* ways to lose count, or to leave an entry without a lock behind.
TableCountsExactly ==
    \A p \in Paths \ raced :
        /\ Lookup(p).openNum = Cardinality(Opens(p)) + Cardinality(InFlight(p)) + failed[p]
        /\ (\A c \in Clients : path(c) # p) =>
             IF Lookup(p).openNum > 0 THEN Lookup(p).lock \in Locks ELSE p \notin DOMAIN openFilesStatus_s

\* A path has at most one descriptor for writing, and serverMode says so, however
\* opens and releases of readers and writers overlap outside of the windows.
OneWriterUnlessRaced ==
    \A p \in Paths \ raced :
        /\ Cardinality(WriteOpens(p)) <= 1
        /\ WriteOpens(p) # {} => p \in DOMAIN openFilesStatus_s /\ Lookup(p).serverMode = 1

\* watdfs_open and watdfs_release, whatever overlapped before: while the calls are
\* alone on their paths, each of their steps is the whole call of WatDFSServer or
\* changes nothing that the next call will see.  An open counts from its open(2)
\* on, a release from its close(2) on.
AtomicWhenAlone ==
    [][Alone /\ Alone' /\ raced' = {} => [Atomic!ServerNext]_Atomic!serverVars]_raceVars
==================================================================================
