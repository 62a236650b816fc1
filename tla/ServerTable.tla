------------------------------- MODULE ServerTable -------------------------------
(***************************************************************************)
(* watdfs_open and watdfs_release of watdfs_server.cpp as they run: threads *)
(* that use the table of open files without a lock.                        *)
(*                                                                         *)
(* A step is one expression that uses the table, or one system call.  This *)
(* is kinder than C++, where such an expression is several accesses and    *)
(* two of them at once may break the map itself.  Debug messages are steps *)
(* too: they use operator[], which inserts what it does not find.          *)
(*                                                                         *)
(* ServerTableRaces says what the table is worth meanwhile.                *)
(***************************************************************************)
EXTENDS WatDFSServer

VARIABLES
    pc,               \* what each client's thread does next
    call              \* its call: the path, fi->flags and fi->fh

tableVars == <<serverVars, pc, call>>

Labels ==
    {"idle", "open_find", "open_count", "open_mode", "open_set", "open_join", "open_new", "open_file",
     "open_log", "rel_close", "rel_log", "rel_find", "rel_leave", "rel_mode", "rel_last",
     "rel_destroy", "rel_erase"}

NoCall == [path |-> Nobody, flag |-> O_RDONLY, fh |-> BadFd]

path(c) == call[c].path
Writes(c) == call[c].flag # O_RDONLY

\* The thread is done with its step and goes on at label.
Goto(c, label) == pc' = [pc EXCEPT ![c] = label] /\ UNCHANGED <<call, files, lk, waiting, now>>

\* The call is answered.
Return(c) ==
    /\ pc' = [pc EXCEPT ![c] = "idle"] /\ call' = [call EXCEPT ![c] = NoCall]
    /\ UNCHANGED <<files, lk, waiting, now>>

NoFile == UNCHANGED <<fds, errno>>

\* operator[] gives the entry, which becomes e.
Uses(c, e) == openFilesStatus_s' = Put(openFilesStatus_s, path(c), e) /\ NoFile

Entry(c) == Lookup(path(c))

TableInit ==
    /\ ServerInit /\ \A p \in DOMAIN files : files[p].data = <<>>    \* contents do not matter
    /\ pc = [c \in Clients |-> "idle"]
    /\ call = [c \in Clients |-> NoCall]

\* A request arrives.
Arrives(c, p, flag, fh, label) ==
    /\ pc[c] = "idle"
    /\ pc' = [pc EXCEPT ![c] = label]
    /\ call' = [call EXCEPT ![c] = [path |-> p, flag |-> flag, fh |-> fh]]
    /\ UNCHANGED serverVars

OpenArrives(c) ==
    \E p \in Paths, flag \in OpenFlags :
        Lookup(p).openNum < MaxCount /\ Arrives(c, p, flag, BadFd, "open_find")

ReleaseArrives(c) ==
    \/ \E fd \in FD : Own(c, fd) /\ Arrives(c, fds[fd].path, fds[fd].flag, fd, "rel_close")
    \/ \E p \in Paths, flag \in OpenFlags : Arrives(c, p, flag, BadFd, "rel_close")

-----------------------------------------------------------------------------
(* watdfs_open *)

OpenFind(c) ==
    /\ pc[c] = "open_find"
    /\ Goto(c, IF path(c) \in DOMAIN openFilesStatus_s THEN "open_count" ELSE "open_new")
    /\ UNCHANGED openFilesStatus_s /\ NoFile

\* A mutant of OpenCount: that there is an entry is enough.
OpenCountAny(c) == pc[c] = "open_count" /\ Uses(c, Entry(c)) /\ Goto(c, "open_mode")

OpenCount(c) ==
    /\ pc[c] = "open_count"
    /\ Uses(c, Entry(c))
    /\ Goto(c, IF Entry(c).openNum > 0 THEN "open_mode" ELSE "open_new")

\* A file that is open for writing is not opened for writing again.
OpenMode(c) ==
    /\ pc[c] = "open_mode"
    /\ Uses(c, Entry(c))
    /\ CASE ~Writes(c) -> Goto(c, "open_join")
         [] Writes(c) /\ Entry(c).serverMode = 0 -> Goto(c, "open_set")
         [] OTHER -> Return(c)

OpenSet(c) ==
    /\ pc[c] = "open_set"
    /\ Uses(c, [Entry(c) EXCEPT !.serverMode = 1])
    /\ Goto(c, "open_join")

OpenJoin(c) ==
    /\ pc[c] = "open_join"
    /\ Uses(c, [Entry(c) EXCEPT !.openNum = @ + 1])
    /\ Goto(c, "open_file")

\* The new entry, with its lock, replaces what another open may have put there.
OpenNew(c) ==
    /\ pc[c] = "open_new"
    /\ \E l \in Locks :
         /\ FreshLock(l)
         /\ Uses(c, [serverMode |-> IF Writes(c) THEN 1 ELSE 0, openNum |-> 1, lock |-> l])
    /\ Goto(c, "open_file")

OpenSystem(c) ==
    /\ pc[c] = "open_file"
    /\ \E fh \in FD \cup {BadFd} : OpenFile(c, path(c), call[c].flag, fh)
    /\ UNCHANGED openFilesStatus_s
    /\ Goto(c, "open_log")

OpenLog(c) == pc[c] = "open_log" /\ Uses(c, Entry(c)) /\ Return(c)

-----------------------------------------------------------------------------
(* watdfs_release *)

RelClose(c) ==
    /\ pc[c] = "rel_close"
    /\ UNCHANGED openFilesStatus_s
    /\ IF IsOpen(call[c].fh)
         THEN fds' = [fds EXCEPT ![call[c].fh] = FreeFd] /\ UNCHANGED errno /\ Goto(c, "rel_log")
         ELSE Fails(c, EBADF) /\ UNCHANGED fds /\ Return(c)

RelLog(c) == pc[c] = "rel_log" /\ Uses(c, Entry(c)) /\ Goto(c, "rel_find")

\* Without an entry the answer is -EPERM.
RelFind(c) ==
    /\ pc[c] = "rel_find"
    /\ UNCHANGED openFilesStatus_s /\ NoFile
    /\ IF path(c) \in DOMAIN openFilesStatus_s THEN Goto(c, "rel_leave") ELSE Return(c)

\* A mutant of RelLeave: a reader that leaves ends the write mode, too.
RelLeaveAll(c) ==
    /\ pc[c] = "rel_leave"
    /\ Uses(c, [Entry(c) EXCEPT !.openNum = @ - 1])
    /\ Goto(c, "rel_mode")

RelLeave(c) ==
    /\ pc[c] = "rel_leave"
    /\ Uses(c, [Entry(c) EXCEPT !.openNum = @ - 1])
    /\ Goto(c, IF Writes(c) THEN "rel_mode" ELSE "rel_last")

\* A mutant of RelMode: the file stays in write mode.
RelModeKeeps(c) == pc[c] = "rel_mode" /\ Uses(c, Entry(c)) /\ Goto(c, "rel_last")

RelMode(c) ==
    /\ pc[c] = "rel_mode"
    /\ Uses(c, [Entry(c) EXCEPT !.serverMode = 0])
    /\ Goto(c, "rel_last")

NobodyLeft(e) == e.openNum = 0

RelLast(c) ==
    /\ pc[c] = "rel_last"
    /\ Uses(c, Entry(c))
    /\ IF NobodyLeft(Entry(c)) THEN Goto(c, "rel_destroy") ELSE Return(c)

\* rw_lock_destroy: nobody locks here, and a null lock is refused.
RelDestroy(c) == pc[c] = "rel_destroy" /\ Uses(c, Entry(c)) /\ Goto(c, "rel_erase")

RelErase(c) ==
    /\ pc[c] = "rel_erase"
    /\ openFilesStatus_s' = Erase(openFilesStatus_s, path(c)) /\ NoFile
    /\ Return(c)

-----------------------------------------------------------------------------
OpenStep(c) ==
    \/ OpenFind(c) \/ OpenCount(c) \/ OpenMode(c) \/ OpenSet(c) \/ OpenJoin(c) \/ OpenNew(c)
    \/ OpenSystem(c) \/ OpenLog(c)

ReleaseStep(c) ==
    \/ RelClose(c) \/ RelLog(c) \/ RelFind(c) \/ RelLeave(c) \/ RelMode(c) \/ RelLast(c)
    \/ RelDestroy(c) \/ RelErase(c)

TableStep(c) == OpenArrives(c) \/ ReleaseArrives(c) \/ OpenStep(c) \/ ReleaseStep(c)

TableNext == \E c \in Clients : TableStep(c)

TableSpec == TableInit /\ [][TableNext]_tableVars

==================================================================================
