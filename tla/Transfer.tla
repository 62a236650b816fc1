--------------------------------- MODULE Transfer ---------------------------------
(***************************************************************************)
(* copy_read and copy_write of watdfs_client.cpp, remote call by remote    *)
(* call, with the server's watdfs_read and watdfs_write.                   *)
(*                                                                         *)
(* The RPC library carries arrays of at most MAX_ARRAY_LEN bytes, so that  *)
(* a larger transfer is a loop of calls.  Every caller starts at offset 0. *)
(* Nobody else changes the file meanwhile: the client has locked it (see   *)
(* TransferExclusion in WatDFS).                                           *)
(*                                                                         *)
(* A byte is named after where it comes from, <<"file", 3>> is the third   *)
(* byte that the file had at first, so that a byte which arrives in the    *)
(* wrong place is seen.                                                    *)
(***************************************************************************)
EXTENDS Integers, Sequences

CONSTANTS
    MAX_ARRAY_LEN,    \* rpc.h: 65535
    INT_MAX,          \* the largest int
    MaxSize           \* bound: the largest transfer, and the longest file at first

ASSUME TransferAssumption ==
    /\ MAX_ARRAY_LEN \in Nat \ {0}
    /\ INT_MAX \in Nat /\ INT_MAX >= MAX_ARRAY_LEN
    /\ MaxSize \in Nat

EIO == 5   EINVAL == 22   ENOSPC == 28

VARIABLES
    file,             \* the server's file
    errno,            \* errno of the server's thread
    pc,               \* "idle", "once" and "loop", or "undefined": outside of C++
    op, size,         \* the call: "read" or "write", and how many bytes
    buf,              \* the caller's buffer
    pos,              \* tempBufCache - buf
    bufCache,         \* what the last chunk brought
    rpcCount, rpc_ret, returnCode, filesize,
    result,           \* what the call returned
    old,              \* history: the file when the call began
    fault             \* history: some pread or pwrite of the call failed or fell short

serverVars == <<file, errno>>
callVars == <<op, size, old>>
vars == <<file, errno, pc, op, size, buf, pos, bufCache, rpcCount, rpc_ret, returnCode, filesize,
          result, old, fault>>

Bytes(origin, n) == [i \in 1..n |-> <<origin, i>>]
Junk == <<"junk", 0>>
Gap == <<"zero", 0>>

\* An int that is too large is undefined: the build wraps it, or has it in a
\* wider register.
Wrapped(i) == ((i + INT_MAX + 1) % (2 * (INT_MAX + 1))) - (INT_MAX + 1)

\* s with the bytes of t from position n + 1 on.
Over(s, t, n) ==
    [i \in 1..(IF n + Len(t) > Len(s) THEN n + Len(t) ELSE Len(s)) |->
        IF i > n /\ i <= n + Len(t) THEN t[i - n] ELSE IF i <= Len(s) THEN s[i] ELSE Gap]

\* What pread(2) gives of the file.
Pread(n, offset) == SubSeq(file, offset + 1, IF offset + n < Len(file) THEN offset + n ELSE Len(file))

Init ==
    /\ \E n \in 0..MaxSize : file = Bytes("file", n)
    /\ errno \in {0, EIO}
    /\ pc = "idle" /\ op = "none" /\ size = 0 /\ buf = <<>>
    /\ pos = 0 /\ bufCache = <<Junk>>
    /\ rpcCount = 1 /\ rpc_ret = 0 /\ returnCode = 1 /\ filesize = 0 /\ result = 0
    /\ old = file /\ fault = FALSE

-----------------------------------------------------------------------------
(* The handlers: ret is a count of bytes, or -errno when the system call failed
   or moved no byte.  Moving no byte leaves errno as it was. *)

ServerFails(e, ret) == errno' = e /\ ret = -e /\ fault' = TRUE /\ UNCHANGED file

watdfs_read(n, offset, ret) ==
    \/ /\ offset >= 0
       /\ ret = IF Pread(n, offset) # <<>> THEN Len(Pread(n, offset)) ELSE -errno
       /\ UNCHANGED <<serverVars, fault>>
    \/ ServerFails(IF offset < 0 THEN EINVAL ELSE EIO, ret)

\* A disk that gets full takes fewer bytes, then none.
watdfs_write(data, offset, ret) ==
    \/ /\ offset >= 0 /\ ret \in 1..Len(data)
       /\ file' = Over(file, SubSeq(data, 1, ret), offset)
       /\ fault' = (fault \/ ret < Len(data))
       /\ UNCHANGED errno
    \/ offset >= 0 /\ data = <<>> /\ ret = -errno /\ UNCHANGED <<serverVars, fault>>
    \/ ServerFails(IF offset < 0 THEN EINVAL ELSE ENOSPC, ret)

\* Every answer of a handler.
Rets == 0..MAX_ARRAY_LEN \cup {-EIO, -EINVAL, -ENOSPC}

\* rpcCall succeeds: the handler's answer is filled in, and counted.
Answered(ret) ==
    /\ rpc_ret' = 0 /\ returnCode' = ret
    /\ filesize' \in {filesize + ret, Wrapped(filesize + ret)}

\* rpcCall fails (rpc.h: FAILED_TO_SEND, TERMINATED, ...), before or after the
\* server has handled the call; the client fills nothing in.
Unanswered(handled) ==
    /\ handled \/ UNCHANGED <<serverVars, fault>>
    /\ rpc_ret' = -1 /\ UNCHANGED <<returnCode, filesize>>

-----------------------------------------------------------------------------
(* copy_read and copy_write *)

\* Both begin alike.
Begin(name, n, bytes) ==
    /\ pc = "idle"
    /\ pc' = IF n <= MAX_ARRAY_LEN THEN "once" ELSE "loop"
    /\ op' = name /\ size' = n /\ buf' = bytes /\ old' = file
    /\ pos' = 0 /\ bufCache' = <<Junk>>
    /\ rpcCount' = 1 /\ rpc_ret' = 0 /\ returnCode' = 1 /\ filesize' = 0
    /\ fault' = FALSE
    /\ UNCHANGED <<serverVars, result>>

copy_read(n) == Begin("read", n, [i \in 1..n |-> Junk])
copy_write(n) == Begin("write", n, Bytes("client", n))

\* A mutant of RpcTimes: a call too many.
RpcTimesOneMore == size \div MAX_ARRAY_LEN + 2

RpcTimes == size \div MAX_ARRAY_LEN + 1

\* MAX_ARRAY_LEN * (rpcCount - 1), in int.
SkippedBytes ==
    {MAX_ARRAY_LEN * (rpcCount - 1), Wrapped(MAX_ARRAY_LEN * (rpcCount - 1))}

\* A mutant of Offsets: one chunk too far.
OffsetsNext == {MAX_ARRAY_LEN * rpcCount}

Offsets == SkippedBytes

BufSizes == IF rpcCount # RpcTimes THEN {MAX_ARRAY_LEN} ELSE {size - n : n \in SkippedBytes}

\* A mutant of ChunkIsLast: the loop goes on after a chunk that fell short.
ChunkIsLastNever(ret, bufsize) == FALSE

\* Another one: it ends after a chunk that was full.
ChunkIsLastFull(ret, bufsize) == ret <= bufsize

\* The break.
ChunkIsLast(ret, bufsize) == ret < bufsize

\* What both return: -EINVAL when there was no answer.
Finish ==
    /\ pc' = "idle"
    /\ result' = IF rpc_ret' < 0 THEN -EINVAL ELSE IF returnCode' < 0 THEN returnCode' ELSE filesize'
    /\ UNCHANGED rpcCount

\* A mutant of Advance: the loop's condition lets rpcCount run one past rpcTimes.
AdvanceOneMore(bufsize) ==
    IF ~ChunkIsLast(returnCode', bufsize) /\ rpcCount <= RpcTimes /\ rpc_ret' = 0 /\ returnCode' > 0
      THEN rpcCount' = rpcCount + 1 /\ UNCHANGED <<pc, result>>
      ELSE Finish

\* The end of the loop's body, and its condition.
Advance(bufsize) ==
    IF ~ChunkIsLast(returnCode', bufsize) /\ rpcCount < RpcTimes /\ rpc_ret' = 0 /\ returnCode' > 0
      THEN rpcCount' = rpcCount + 1 /\ UNCHANGED <<pc, result>>
      ELSE Finish

\* A copy that leaves its buffers is undefined: the model ends there.
Undefined == pc' = "undefined" /\ UNCHANGED <<buf, pos, rpcCount, result>>

ReadOnce ==
    /\ pc = "once" /\ op = "read"
    /\ \E ret \in Rets :
         \/ /\ watdfs_read(size, 0, ret) /\ Answered(ret)
            /\ buf' = IF ret > 0 THEN Over(buf, Pread(size, 0), 0) ELSE buf
         \/ Unanswered(watdfs_read(size, 0, ret)) /\ UNCHANGED buf
    /\ Finish
    /\ UNCHANGED <<callVars, pos, bufCache>>

\* mempcpy of returnCode bytes, also when that is negative, and of what the last
\* call left in bufCache when this one was not answered.
CopiesOut == 0 <= returnCode' /\ pos + returnCode' <= size

ReadChunk ==
    /\ pc = "loop" /\ op = "read"
    /\ \E bufsize \in BufSizes, offset_each \in Offsets :
         \/ /\ bufsize \notin 0..MAX_ARRAY_LEN
            /\ Undefined
            /\ UNCHANGED <<serverVars, fault, rpc_ret, returnCode, filesize, bufCache>>
         \/ /\ bufsize \in 0..MAX_ARRAY_LEN
            /\ \E ret \in Rets :
                 \/ /\ watdfs_read(bufsize, offset_each, ret) /\ Answered(ret)
                    /\ bufCache' = IF ret > 0 THEN Pread(bufsize, offset_each) ELSE bufCache
                 \/ Unanswered(watdfs_read(bufsize, offset_each, ret)) /\ UNCHANGED bufCache
            /\ IF CopiesOut
                 THEN /\ buf' = Over(buf, SubSeq(bufCache', 1, returnCode'), pos)
                      /\ pos' = pos + returnCode'
                      /\ Advance(bufsize)
                 ELSE Undefined
    /\ UNCHANGED callVars

WriteOnce ==
    /\ pc = "once" /\ op = "write"
    /\ \E ret \in Rets :
         \/ watdfs_write(buf, 0, ret) /\ Answered(ret)
         \/ Unanswered(watdfs_write(buf, 0, ret))
    /\ Finish
    /\ UNCHANGED <<callVars, buf, pos, bufCache>>

WriteChunk ==
    /\ pc = "loop" /\ op = "write"
    /\ \E bufsize \in BufSizes, offset_each \in Offsets :
         IF bufsize \notin 0..MAX_ARRAY_LEN \/ pos + bufsize > size
           THEN Undefined /\ UNCHANGED <<serverVars, fault, rpc_ret, returnCode, filesize>>
           ELSE /\ \E ret \in Rets :
                     LET data == SubSeq(buf, pos + 1, pos + bufsize)
                     IN  \/ /\ watdfs_write(data, offset_each, ret) /\ Answered(ret)
                            /\ pos' = pos + bufsize
                         \/ Unanswered(watdfs_write(data, offset_each, ret)) /\ UNCHANGED pos
                /\ UNCHANGED buf
                /\ Advance(bufsize)
    /\ UNCHANGED <<callVars, bufCache>>

Next ==
    \/ \E n \in 0..MaxSize : copy_read(n) \/ copy_write(n)
    \/ ReadOnce \/ ReadChunk \/ WriteOnce \/ WriteChunk

Spec == Init /\ [][Next]_vars

-----------------------------------------------------------------------------
(* Properties *)

LoopTypeOK ==
    /\ pc \in {"idle", "once", "loop", "undefined"}
    /\ rpcCount \in 1..RpcTimes /\ pos \in 0..size /\ Len(buf) = size
    /\ Len(bufCache) <= MAX_ARRAY_LEN
    /\ errno \in {0, EIO, EINVAL, ENOSPC}

Returned(name) == pc = "idle" /\ op = name

\* copy_read: an answer that is no error says how many bytes of the file are in
\* the buffer, in order and from the file's first; and those are all there were.
ReadDelivers ==
    Returned("read") /\ result >= 0 /\ size <= INT_MAX =>
        /\ result = IF size < Len(old) THEN size ELSE Len(old)
        /\ SubSeq(buf, 1, result) = SubSeq(old, 1, result)

\* copy_write: an answer that is no error says how many bytes are in the file,
\* in order and from the file's first, and the rest of the file is as it was.  It
\* may be fewer than were sent, which cli_write_back does not look at.
WriteDelivers ==
    Returned("write") /\ result >= 0 /\ size <= INT_MAX =>
        file = Over(old, SubSeq(buf, 1, result), 0)

\* The chunks are copied inside of the buffers, unless a call of the loop was
\* not answered or was answered by an error: that is found out too late.
CopiesInside == pc = "undefined" => size > INT_MAX \/ rpc_ret < 0 \/ returnCode < 0

\* When the server did all it was asked, the transfer is not taken for failed: but
\* a size that is a multiple of MAX_ARRAY_LEN ends with a call for no bytes,
\* answered by what errno happens to be.
SuccessReported ==
    /\ Returned(op) /\ op # "none" /\ rpc_ret = 0 /\ ~fault /\ size <= INT_MAX
    /\ size % MAX_ARRAY_LEN # 0 \/ errno = 0
    /\ op = "read" => size <= Len(old)
    => result = size
===================================================================================
