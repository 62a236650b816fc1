-------------------------------- MODULE TransferProofs --------------------------------
(***************************************************************************)
(* Proofs about Transfer, for any MAX_ARRAY_LEN, any width of an int and   *)
(* files and transfers of any size.                                        *)
(*                                                                         *)
(* What a call returns is the work of all its chunks, so the properties    *)
(* are not inductive.  The invariant says what holds at the head of the    *)
(* loop: every chunk so far was answered and full, so that the counters,   *)
(* the place in the buffer and the offset in the file agree (InLoop), and  *)
(* that much of the file has arrived (ReadSoFar, WrittenSoFar).  The       *)
(* counters are ints: that they agree is claimed for sizes that an int     *)
(* holds only.                                                             *)
(***************************************************************************)
EXTENDS Transfer, SequenceTheorems, TLAPS

Byte == {"file", "client", "junk", "zero"} \X Nat

Calls == {"read", "write"}

Types ==
    /\ file \in Seq(Byte) /\ old \in Seq(Byte) /\ buf \in Seq(Byte) /\ bufCache \in Seq(Byte)
    /\ errno \in {0, EIO, EINVAL, ENOSPC}
    /\ pc \in {"idle", "once", "loop", "undefined"}
    /\ op \in {"none"} \cup Calls
    /\ size \in Nat /\ Len(buf) = size
    /\ Len(bufCache) <= MAX_ARRAY_LEN
    /\ pos \in 0..size
    /\ rpcCount \in 1..RpcTimes
    /\ rpc_ret \in {0, -1}
    /\ returnCode \in Int /\ filesize \in Int /\ result \in Int
    /\ fault \in BOOLEAN

\* A transfer in one call, before it.
InOnce ==
    pc = "once" =>
        /\ op \in Calls
        /\ size <= MAX_ARRAY_LEN
        /\ filesize = 0
        /\ file = old

\* The head of the loop.  A chunk that is not answered leaves bufCache and
\* returnCode as they are: the bytes are there to be copied once more.
InLoop ==
    pc = "loop" =>
        /\ op \in Calls
        /\ size > MAX_ARRAY_LEN
        /\ rpc_ret = 0
        /\ pos = MAX_ARRAY_LEN * (rpcCount - 1)
        /\ size <= INT_MAX => filesize = pos
        /\ op = "read" => returnCode \in 1..Len(bufCache)

\* copy_read: the first pos bytes have arrived.
ReadSoFar ==
    pc = "loop" /\ op = "read" /\ size <= INT_MAX =>
        /\ file = old
        /\ pos <= Len(old)
        /\ \A i \in 1..pos : buf[i] = old[i]

\* copy_write: the first pos bytes are in the file.
WrittenSoFar ==
    pc = "loop" /\ op = "write" /\ size <= INT_MAX =>
        file = Over(old, SubSeq(buf, 1, pos), 0)

TransferInv ==
    /\ Types
    /\ InOnce
    /\ InLoop
    /\ ReadSoFar
    /\ WrittenSoFar
    /\ CopiesInside
    /\ ReadDelivers
    /\ WriteDelivers
    /\ SuccessReported

-----------------------------------------------------------------------------
(* Arithmetic *)

\* The number of full chunks, and the rest.
LEMMA ChunkCount ==
    ASSUME NEW n \in Nat
    PROVE  /\ n \div MAX_ARRAY_LEN \in Nat
           /\ n % MAX_ARRAY_LEN \in 0..(MAX_ARRAY_LEN - 1)
           /\ n = MAX_ARRAY_LEN * (n \div MAX_ARRAY_LEN) + (n % MAX_ARRAY_LEN)
BY TransferAssumption

\* An int that is not too large is not changed.
LEMMA NotWrapped == \A i \in 0..INT_MAX : Wrapped(i) = i
<1> SUFFICES ASSUME NEW i \in 0..INT_MAX PROVE Wrapped(i) = i
  OBVIOUS
<1>1. i + INT_MAX + 1 \in 0..(2 * (INT_MAX + 1) - 1)
  BY TransferAssumption
<1> QED  BY <1>1, TransferAssumption DEF Wrapped

LEMMA WrappedType == \A i \in Int : Wrapped(i) \in Int
BY TransferAssumption DEF Wrapped

\* The last chunk is the rest; the chunks before it are full, and inside of the
\* transfer.
LEMMA ChunkInside ==
    ASSUME NEW n \in Nat, NEW k \in 1..(n \div MAX_ARRAY_LEN + 1)
    PROVE  /\ MAX_ARRAY_LEN * (k - 1) \in 0..n
           /\ k # n \div MAX_ARRAY_LEN + 1 => MAX_ARRAY_LEN * (k - 1) + MAX_ARRAY_LEN <= n
           /\ k = n \div MAX_ARRAY_LEN + 1 =>
                n - MAX_ARRAY_LEN * (k - 1) = n % MAX_ARRAY_LEN
           /\ MAX_ARRAY_LEN * k = MAX_ARRAY_LEN * (k - 1) + MAX_ARRAY_LEN
<1> DEFINE q == n \div MAX_ARRAY_LEN
           r == n % MAX_ARRAY_LEN
<1>1. q \in Nat /\ r \in 0..(MAX_ARRAY_LEN - 1) /\ n = MAX_ARRAY_LEN * q + r
  BY ChunkCount
<1>2. k \in 1..(q + 1)
  OBVIOUS
<1> HIDE DEF q, r
<1>3. MAX_ARRAY_LEN * k = MAX_ARRAY_LEN * (k - 1) + MAX_ARRAY_LEN
  BY <1>1, <1>2, TransferAssumption
<1>4. \A j \in 0..q : MAX_ARRAY_LEN * j <= MAX_ARRAY_LEN * q /\ MAX_ARRAY_LEN * j \in Nat
  BY <1>1, TransferAssumption
<1>5. k = q + 1 => MAX_ARRAY_LEN * (k - 1) = MAX_ARRAY_LEN * q
  BY <1>1, <1>2
<1>6. k - 1 \in 0..q /\ (k # q + 1 => k \in 0..q)
  BY <1>1, <1>2
<1>7. MAX_ARRAY_LEN * (k - 1) \in 0..n
  BY <1>1, <1>4, <1>6, TransferAssumption
<1>8. k # q + 1 => MAX_ARRAY_LEN * (k - 1) + MAX_ARRAY_LEN <= n
  BY <1>1, <1>3, <1>4, <1>6, TransferAssumption
<1>9. k = q + 1 => n - MAX_ARRAY_LEN * (k - 1) = r
  <2>1. MAX_ARRAY_LEN * q \in Nat
    BY <1>1, <1>4
  <2> QED  BY <1>1, <1>5, <2>1
<1> QED  BY <1>3, <1>7, <1>8, <1>9 DEF q, r

-----------------------------------------------------------------------------
(* What the operators on bytes return. *)

LEMMA OverProperties ==
    ASSUME NEW s \in Seq(Byte), NEW t \in Seq(Byte), NEW n \in Nat
    PROVE  /\ Over(s, t, n) \in Seq(Byte)
           /\ Len(Over(s, t, n)) = IF n + Len(t) > Len(s) THEN n + Len(t) ELSE Len(s)
           /\ \A i \in 1..Len(Over(s, t, n)) :
                Over(s, t, n)[i] = IF i > n /\ i <= n + Len(t) THEN t[i - n]
                                   ELSE IF i <= Len(s) THEN s[i] ELSE Gap
<1> DEFINE m == IF n + Len(t) > Len(s) THEN n + Len(t) ELSE Len(s)
           At(i) == IF i > n /\ i <= n + Len(t) THEN t[i - n]
                    ELSE IF i <= Len(s) THEN s[i] ELSE Gap
           o == [i \in 1..m |-> At(i)]
<1>1. Len(s) \in Nat /\ Len(t) \in Nat /\ m \in Nat
  BY LenProperties
<1>2. Gap \in Byte
  BY DEF Gap, Byte
<1>3. \A i \in 1..m : At(i) \in Byte
  BY <1>1, <1>2, ElementOfSeq
<1> HIDE DEF At
<1>4. o \in [1..m -> Byte]
  BY <1>3
<1> HIDE DEF o, m
<1>5. o \in Seq(Byte)
  BY <1>1, <1>4, SeqDef
<1>6. DOMAIN o = 1..m
  BY <1>4
<1>7. Len(o) = m
  BY <1>1, <1>5, <1>6, LenProperties
<1>8. \A i \in 1..m : o[i] = At(i)
  BY DEF o
<1>9. Over(s, t, n) = o
  BY DEF Over, o, m, At
<1> QED  BY <1>5, <1>7, <1>8, <1>9 DEF m, At

LEMMA OverNothing == \A s \in Seq(Byte) : Over(s, <<>>, 0) = s
<1> SUFFICES ASSUME NEW s \in Seq(Byte) PROVE Over(s, <<>>, 0) = s
  OBVIOUS
<1> DEFINE o == Over(s, <<>>, 0)
<1>1. <<>> \in Seq(Byte) /\ Len(<<>>) = 0 /\ 0 \in Nat /\ Len(s) \in Nat
  BY EmptySeq, LenProperties
<1>2. /\ o \in Seq(Byte)
      /\ Len(o) = IF 0 + Len(<<>>) > Len(s) THEN 0 + Len(<<>>) ELSE Len(s)
      /\ \A i \in 1..Len(o) : o[i] = IF i > 0 /\ i <= 0 + Len(<<>>) THEN (<<>>)[i - 0]
                                     ELSE IF i <= Len(s) THEN s[i] ELSE Gap
  BY <1>1, OverProperties
<1> HIDE DEF o
<1>3. Len(o) = Len(s) /\ \A i \in 1..Len(o) : o[i] = s[i]
  BY <1>1, <1>2
<1>4. o = s
  BY <1>2, <1>3, SeqEqual
<1> QED  BY <1>4 DEF o

\* What pread gives, wherever it begins.
LEMMA PreadProperties ==
    ASSUME file \in Seq(Byte), NEW n \in Nat, NEW offset \in Nat
    PROVE  /\ Pread(n, offset) \in Seq(Byte)
           /\ Len(Pread(n, offset)) \in 0..n
           /\ Len(Pread(n, offset)) =
                IF Len(file) < offset THEN 0
                ELSE IF offset + n < Len(file) THEN n ELSE Len(file) - offset
           /\ \A i \in 1..Len(Pread(n, offset)) : Pread(n, offset)[i] = file[offset + i]
           /\ Pread(n, offset) = <<>> <=> Len(Pread(n, offset)) = 0
<1> DEFINE last == IF offset + n < Len(file) THEN offset + n ELSE Len(file)
<1>1. Len(file) \in Nat /\ last \in Nat /\ last <= Len(file)
  BY LenProperties
<1>2. \A i \in (offset + 1)..last : file[i] \in Byte
  BY <1>1, ElementOfSeq
<1>3. Pread(n, offset) = SubSeq(file, offset + 1, last)
  BY DEF Pread
<1> HIDE DEF last
<1>4. /\ Pread(n, offset) \in Seq(Byte)
      /\ Len(Pread(n, offset)) = IF offset + 1 <= last THEN last - (offset + 1) + 1 ELSE 0
      /\ \A i \in 1..(last - (offset + 1) + 1) : Pread(n, offset)[i] = file[offset + 1 + i - 1]
  BY <1>1, <1>2, <1>3, SubSeqProperties
<1>5. Pread(n, offset) = <<>> <=> Len(Pread(n, offset)) = 0
  BY <1>4, EmptySeq
<1> QED  BY <1>1, <1>4, <1>5 DEF last

\* The first n bytes of a sequence.
LEMMA PrefixProperties ==
    ASSUME NEW s \in Seq(Byte), NEW m \in Nat, NEW n \in 0..Len(s), m <= n
    PROVE  /\ SubSeq(s, m + 1, n) \in Seq(Byte)
           /\ Len(SubSeq(s, m + 1, n)) = n - m
           /\ \A i \in 1..(n - m) : SubSeq(s, m + 1, n)[i] = s[m + i]
<1>1. Len(s) \in Nat
  BY LenProperties
<1>2. \A i \in (m + 1)..n : s[i] \in Byte
  BY <1>1, ElementOfSeq
<1>3. /\ SubSeq(s, m + 1, n) \in Seq(Byte)
      /\ Len(SubSeq(s, m + 1, n)) = IF m + 1 <= n THEN n - (m + 1) + 1 ELSE 0
      /\ \A i \in 1..(n - (m + 1) + 1) : SubSeq(s, m + 1, n)[i] = s[m + 1 + i - 1]
  BY <1>1, <1>2, SubSeqProperties
<1> QED  BY <1>1, <1>3

\* Sequences that agree up to n have the same first n bytes.
LEMMA SamePrefix ==
    ASSUME NEW s \in Seq(Byte), NEW t \in Seq(Byte), NEW n \in Nat, n <= Len(s), n <= Len(t),
           \A i \in 1..n : s[i] = t[i]
    PROVE  SubSeq(s, 1, n) = SubSeq(t, 1, n)
<1>1. Len(s) \in Nat /\ Len(t) \in Nat
  BY LenProperties
<1>2. 0 \in Nat /\ n \in 0..Len(s) /\ n \in 0..Len(t) /\ 0 <= n /\ 0 + 1 = 1
  BY <1>1
<1> DEFINE a == SubSeq(s, 1, n)
           b == SubSeq(t, 1, n)
<1>3. a \in Seq(Byte) /\ Len(a) = n /\ \A i \in 1..n : a[i] = s[i]
  BY <1>2, PrefixProperties
<1>4. b \in Seq(Byte) /\ Len(b) = n /\ \A i \in 1..n : b[i] = t[i]
  BY <1>2, PrefixProperties
<1> HIDE DEF a, b
<1>5. a = b
  BY <1>3, <1>4, SeqEqual
<1> QED  BY <1>5 DEF a, b

\* The first n bytes of a chunk are copied into a buffer that has room for them.
LEMMA CopiedOut ==
    ASSUME NEW s \in Seq(Byte), NEW t \in Seq(Byte), NEW m \in Nat, NEW n \in 0..Len(t),
           m + n <= Len(s)
    PROVE  /\ Over(s, SubSeq(t, 1, n), m) \in Seq(Byte)
           /\ Len(Over(s, SubSeq(t, 1, n), m)) = Len(s)
           /\ \A i \in 1..m : Over(s, SubSeq(t, 1, n), m)[i] = s[i]
           /\ \A i \in (m + 1)..(m + n) : Over(s, SubSeq(t, 1, n), m)[i] = t[i - m]
<1> DEFINE a == SubSeq(t, 1, n)
           o == Over(s, a, m)
<1>1. Len(s) \in Nat /\ Len(t) \in Nat /\ n \in Nat
  BY LenProperties
<1>2. 0 \in Nat /\ 0 <= n /\ 0 + 1 = 1
  BY <1>1
<1>3. a \in Seq(Byte) /\ Len(a) = n /\ \A i \in 1..n : a[i] = t[i]
  BY <1>2, PrefixProperties
<1> HIDE DEF a
<1>4. /\ o \in Seq(Byte)
      /\ Len(o) = IF m + Len(a) > Len(s) THEN m + Len(a) ELSE Len(s)
      /\ \A i \in 1..Len(o) : o[i] = IF i > m /\ i <= m + Len(a) THEN a[i - m]
                                     ELSE IF i <= Len(s) THEN s[i] ELSE Gap
  BY <1>3, OverProperties
<1> HIDE DEF o
<1>5. Len(o) = Len(s)
  BY <1>1, <1>3, <1>4
<1>6. ASSUME NEW i \in 1..m PROVE o[i] = s[i]
  BY <1>1, <1>4, <1>5
<1>7. ASSUME NEW i \in (m + 1)..(m + n) PROVE o[i] = t[i - m]
  <2>1. i \in 1..Len(o) /\ i > m /\ i <= m + Len(a) /\ i - m \in 1..n
    BY <1>1, <1>3, <1>5
  <2> QED  BY <1>3, <1>4, <2>1
<1> QED  BY <1>4, <1>5, <1>6, <1>7 DEF o, a

\* What is written of a chunk is a piece of the buffer.
LEMMA PrefixOfChunk ==
    ASSUME NEW t \in Seq(Byte), NEW m \in Nat, NEW k \in Nat, m + k <= Len(t), NEW n \in 0..k
    PROVE  SubSeq(SubSeq(t, m + 1, m + k), 1, n) = SubSeq(t, m + 1, m + n)
<1> DEFINE a == SubSeq(t, m + 1, m + k)
           b == SubSeq(a, 1, n)
           c == SubSeq(t, m + 1, m + n)
<1>1. Len(t) \in Nat
  BY LenProperties
<1>2. /\ m + k \in 0..Len(t) /\ m <= m + k /\ m + k - m = k
      /\ m + n \in 0..Len(t) /\ m <= m + n /\ m + n - m = n
      /\ 0 \in Nat /\ 0 <= n /\ 0 + 1 = 1 /\ n - 0 = n
  BY <1>1
<1>3. a \in Seq(Byte) /\ Len(a) = k /\ \A i \in 1..k : a[i] = t[m + i]
  BY <1>2, PrefixProperties
<1>4. c \in Seq(Byte) /\ Len(c) = n /\ \A i \in 1..n : c[i] = t[m + i]
  BY <1>2, PrefixProperties
<1> HIDE DEF a, c
<1>5. b \in Seq(Byte) /\ Len(b) = n /\ \A i \in 1..n : b[i] = a[0 + i]
  BY <1>2, <1>3, PrefixProperties
<1> HIDE DEF b
<1>6. b = c
  <2>1. \A i \in 1..n : i \in 1..k /\ 0 + i = i
    OBVIOUS
  <2>2. \A i \in 1..Len(b) : b[i] = c[i]
    BY <1>3, <1>4, <1>5, <2>1
  <2> QED  BY <1>4, <1>5, <2>2, SeqEqual
<1> QED  BY <1>6 DEF a, b, c

\* To write a prefix and then what follows it is to write a longer prefix.
LEMMA OverExtends ==
    ASSUME NEW s \in Seq(Byte), NEW t \in Seq(Byte), NEW m \in Nat, NEW n \in 0..Len(t), m <= n
    PROVE  Over(Over(s, SubSeq(t, 1, m), 0), SubSeq(t, m + 1, n), m) = Over(s, SubSeq(t, 1, n), 0)
<1>1. Len(s) \in Nat /\ Len(t) \in Nat
  BY LenProperties
<1> DEFINE a == SubSeq(t, 1, m)
           b == SubSeq(t, m + 1, n)
           w == SubSeq(t, 1, n)
           x == Over(s, a, 0)
           y == Over(x, b, m)
           z == Over(s, w, 0)
<1>2. /\ a \in Seq(Byte) /\ Len(a) = m /\ \A i \in 1..m : a[i] = t[i]
      /\ w \in Seq(Byte) /\ Len(w) = n /\ \A i \in 1..n : w[i] = t[i]
  <2>1. 0 \in Nat /\ 0 <= m /\ 0 <= n /\ m \in 0..Len(t) /\ 0 + 1 = 1
    BY <1>1
  <2> QED  BY <1>1, <2>1, PrefixProperties
<1>3. b \in Seq(Byte) /\ Len(b) = n - m /\ \A i \in 1..(n - m) : b[i] = t[m + i]
  BY PrefixProperties
<1> HIDE DEF a, b, w
<1>4. /\ x \in Seq(Byte)
      /\ Len(x) = IF m > Len(s) THEN m ELSE Len(s)
      /\ \A i \in 1..Len(x) : x[i] = IF i <= m THEN t[i] ELSE IF i <= Len(s) THEN s[i] ELSE Gap
  <2>1. /\ x \in Seq(Byte)
        /\ Len(x) = IF 0 + Len(a) > Len(s) THEN 0 + Len(a) ELSE Len(s)
        /\ \A i \in 1..Len(x) : x[i] = IF i > 0 /\ i <= 0 + Len(a) THEN a[i - 0]
                                       ELSE IF i <= Len(s) THEN s[i] ELSE Gap
    BY <1>2, OverProperties
  <2> HIDE DEF x
  <2> QED  BY <1>1, <1>2, <2>1
<1>5. /\ z \in Seq(Byte)
      /\ Len(z) = IF n > Len(s) THEN n ELSE Len(s)
      /\ \A i \in 1..Len(z) : z[i] = IF i <= n THEN t[i] ELSE IF i <= Len(s) THEN s[i] ELSE Gap
  <2>1. /\ z \in Seq(Byte)
        /\ Len(z) = IF 0 + Len(w) > Len(s) THEN 0 + Len(w) ELSE Len(s)
        /\ \A i \in 1..Len(z) : z[i] = IF i > 0 /\ i <= 0 + Len(w) THEN w[i - 0]
                                       ELSE IF i <= Len(s) THEN s[i] ELSE Gap
    BY <1>2, OverProperties
  <2> HIDE DEF z
  <2> QED  BY <1>1, <1>2, <2>1
<1> HIDE DEF x, z
<1>6. /\ y \in Seq(Byte)
      /\ Len(y) = IF m + Len(b) > Len(x) THEN m + Len(b) ELSE Len(x)
      /\ \A i \in 1..Len(y) : y[i] = IF i > m /\ i <= m + Len(b) THEN b[i - m]
                                     ELSE IF i <= Len(x) THEN x[i] ELSE Gap
  BY <1>3, <1>4, OverProperties
<1> HIDE DEF y
<1>7. Len(y) = Len(z)
  BY <1>1, <1>3, <1>4, <1>5, <1>6
<1>8. \A i \in 1..Len(y) : y[i] = z[i]
  <2> TAKE i \in 1..Len(y)
  <2>1. CASE i <= m
    BY <1>1, <1>3, <1>4, <1>5, <1>6, <1>7, <2>1
  <2>2. CASE i > m /\ i <= n
    <3>1. i - m \in 1..(n - m) /\ m + (i - m) = i
      BY <1>1, <1>6, <2>2
    <3>2. m + Len(b) = n
      BY <1>1, <1>3
    <3>3. y[i] = b[i - m]
      BY <1>6, <2>2, <3>2
    <3>4. z[i] = t[i]
      BY <1>5, <1>7, <2>2
    <3> QED  BY <1>3, <3>1, <3>3, <3>4
  <2>3. CASE i > n
    BY <1>1, <1>3, <1>4, <1>5, <1>6, <1>7, <2>3
  <2> QED  BY <1>1, <1>5, <1>7, <2>1, <2>2, <2>3
<1>9. y = z
  BY <1>5, <1>6, <1>7, <1>8, SeqEqual
<1> QED  BY <1>9 DEF a, b, w, x, y, z

-----------------------------------------------------------------------------
(* The handlers' answers. *)

\* watdfs_read leaves the file alone.  An answer that is no error is the number
\* of bytes that pread gave; one that is, although nothing failed, is a stale
\* errno, and there was nothing to read.
LEMMA ReadAnswer ==
    ASSUME Types, NEW n \in Nat, NEW offset \in Int, NEW ret \in Rets, watdfs_read(n, offset, ret)
    PROVE  /\ file' = file /\ errno' \in {0, EIO, EINVAL, ENOSPC} /\ fault' \in BOOLEAN
           /\ ret >= 0 => offset \in Nat /\ ret = Len(Pread(n, offset))
           /\ ret < 0 /\ ~fault' =>
                offset \in Nat /\ Len(Pread(n, offset)) = 0 /\ errno' = errno /\ errno # 0
<1>1. ret \in Int
  BY TransferAssumption DEF Rets, EIO, EINVAL, ENOSPC
<1>2. CASE /\ offset >= 0
           /\ ret = IF Pread(n, offset) # <<>> THEN Len(Pread(n, offset)) ELSE -errno
           /\ UNCHANGED <<serverVars, fault>>
  <2>1. /\ Len(Pread(n, offset)) \in Nat
        /\ Pread(n, offset) = <<>> <=> Len(Pread(n, offset)) = 0
    BY <1>2, PreadProperties DEF Types
  <2>2. errno \in Nat
    BY DEF Types, EIO, EINVAL, ENOSPC
  <2> QED  BY <1>1, <1>2, <2>1, <2>2 DEF Types, serverVars
<1>3. CASE ServerFails(IF offset < 0 THEN EINVAL ELSE EIO, ret)
  BY <1>1, <1>3 DEF ServerFails, EIO, EINVAL
<1> QED  BY <1>2, <1>3 DEF watdfs_read

\* watdfs_write: an answer that is no error is the number of bytes in the file.
LEMMA WriteAnswer ==
    ASSUME Types, NEW data \in Seq(Byte), NEW offset \in Int, NEW ret \in Rets,
           watdfs_write(data, offset, ret)
    PROVE  /\ file' \in Seq(Byte) /\ errno' \in {0, EIO, EINVAL, ENOSPC} /\ fault' \in BOOLEAN
           /\ ret > 0 => /\ offset \in Nat /\ ret <= Len(data)
                         /\ file' = Over(file, SubSeq(data, 1, ret), offset)
           /\ ret = 0 => Len(data) = 0 /\ file' = file
           /\ ~fault' => \/ ret = Len(data) /\ ret > 0
                         \/ Len(data) = 0 /\ ret = -errno /\ errno' = errno
<1>1. ret \in Int /\ Len(data) \in Nat /\ errno \in Nat
  BY TransferAssumption, LenProperties DEF Types, Rets, EIO, EINVAL, ENOSPC
<1>2. CASE /\ offset >= 0 /\ ret \in 1..Len(data)
           /\ file' = Over(file, SubSeq(data, 1, ret), offset)
           /\ fault' = (fault \/ ret < Len(data))
           /\ UNCHANGED errno
  <2>1. SubSeq(data, 1, ret) \in Seq(Byte)
    <3>1. 0 \in Nat /\ ret \in 0..Len(data) /\ 0 <= ret /\ 0 + 1 = 1
      BY <1>1, <1>2
    <3> QED  BY <3>1, PrefixProperties
  <2>2. file' \in Seq(Byte)
    <3>1. file \in Seq(Byte) /\ offset \in Nat
      BY <1>2 DEF Types
    <3> QED  BY <1>2, <2>1, <3>1, OverProperties
  <2>3. errno' \in {0, EIO, EINVAL, ENOSPC}
    BY <1>2 DEF Types
  <2>4. fault' \in BOOLEAN /\ (~fault' => ~(ret < Len(data)))
    BY <1>2, Zenon
  <2>5. ~fault' => ret = Len(data) /\ ret > 0
    BY <1>1, <1>2, <2>4
  <2>6. ret > 0 /\ offset \in Nat /\ ret <= Len(data)
    BY <1>1, <1>2
  <2> QED  BY <1>2, <2>2, <2>3, <2>4, <2>5, <2>6
<1>3. CASE offset >= 0 /\ data = <<>> /\ ret = -errno /\ UNCHANGED <<serverVars, fault>>
  <2>1. Len(data) = 0
    BY <1>3, EmptySeq
  <2> QED  BY <1>1, <1>3, <2>1 DEF Types, serverVars
<1>4. CASE ServerFails(IF offset < 0 THEN EINVAL ELSE ENOSPC, ret)
  BY <1>1, <1>4 DEF ServerFails, EINVAL, ENOSPC, Types
<1> QED  BY <1>2, <1>3, <1>4 DEF watdfs_write

\* What a call returns that ends after an answer, and after none.
LEMMA Returns ==
    ASSUME filesize \in Int, NEW ret \in Int, Answered(ret), Finish
    PROVE  /\ filesize' \in Int /\ result' \in Int
           /\ ret < 0 => result' < 0
           /\ ret >= 0 /\ filesize + ret \in 0..INT_MAX => result' = filesize + ret
<1>1. rpc_ret' = 0 /\ returnCode' = ret /\ filesize' \in {filesize + ret, Wrapped(filesize + ret)}
  BY DEF Answered
<1>2. Wrapped(filesize + ret) \in Int
  BY WrappedType
<1>3. result' = IF ret < 0 THEN ret ELSE filesize'
  BY <1>1 DEF Finish
<1>4. filesize + ret \in 0..INT_MAX => filesize' = filesize + ret
  BY <1>1, NotWrapped
<1> QED  BY <1>1, <1>2, <1>3, <1>4

LEMMA NotReturned ==
    ASSUME rpc_ret' = -1, Finish
    PROVE  result' \in Int /\ result' < 0
BY DEF Finish, EINVAL

\* Once a call has returned an error there is nothing left to show, unless an
\* answered call of it failed although nothing had gone wrong.
LEMMA ErrorReturned ==
    ASSUME pc' = "idle", result' < 0, result' \in Int, UNCHANGED <<op, size, old>>,
           size \in Nat,
           rpc_ret' = 0 /\ ~fault' /\ size <= INT_MAX /\ (op = "read" => size <= Len(old)) =>
               size % MAX_ARRAY_LEN = 0 /\ errno' # 0
    PROVE  InOnce' /\ InLoop' /\ ReadSoFar' /\ WrittenSoFar' /\ CopiesInside' /\ ReadDelivers'
           /\ WriteDelivers' /\ SuccessReported'
<1>1. InOnce' /\ InLoop' /\ ReadSoFar' /\ WrittenSoFar' /\ CopiesInside'
  BY DEF InOnce, InLoop, ReadSoFar, WrittenSoFar, CopiesInside
<1>2. ReadDelivers' /\ WriteDelivers'
  <2>1. ~(result' >= 0)
    OBVIOUS
  <2> QED  BY <2>1, Zenon DEF ReadDelivers, WriteDelivers
<1>3. SuccessReported'
  <2> SUFFICES ASSUME rpc_ret' = 0, ~fault', size <= INT_MAX, op = "read" => size <= Len(old),
                      size % MAX_ARRAY_LEN # 0 \/ errno' = 0
               PROVE  FALSE
    BY DEF SuccessReported
  <2> QED  OBVIOUS
<1> QED  BY <1>1, <1>2, <1>3

\* A call that ends outside of C++ has nothing to return.
LEMMA UndefinedInv ==
    ASSUME pc' = "undefined", Types', UNCHANGED <<op, size, old>>, size \in Nat,
           size <= INT_MAX => rpc_ret' < 0 \/ returnCode' < 0
    PROVE  TransferInv'
<1>1. InOnce' /\ InLoop' /\ ReadSoFar' /\ WrittenSoFar'
  BY DEF InOnce, InLoop, ReadSoFar, WrittenSoFar
<1>2. CopiesInside'
  BY TransferAssumption DEF CopiesInside
<1>3. ReadDelivers' /\ WriteDelivers' /\ SuccessReported'
  BY DEF ReadDelivers, WriteDelivers, SuccessReported, Returned
<1> QED  BY <1>1, <1>2, <1>3 DEF TransferInv

-----------------------------------------------------------------------------
(* One lemma for each step. *)

LEMMA BeginsInv ==
    ASSUME TransferInv, NEW n \in Nat, copy_read(n) \/ copy_write(n)
    PROVE  TransferInv'
<1>1. PICK name \in Calls : Begin(name, n, [i \in 1..n |-> Junk]) \/ Begin(name, n, Bytes("client", n))
  BY DEF copy_read, copy_write, Calls
<1>2. /\ pc' = IF n <= MAX_ARRAY_LEN THEN "once" ELSE "loop"
      /\ op' = name /\ size' = n /\ old' = file
      /\ pos' = 0 /\ bufCache' = <<Junk>>
      /\ rpcCount' = 1 /\ rpc_ret' = 0 /\ returnCode' = 1 /\ filesize' = 0
      /\ fault' = FALSE /\ UNCHANGED <<file, errno, result>>
  BY <1>1 DEF Begin, serverVars
<1>3. buf' \in Seq(Byte) /\ Len(buf') = n
  <2>1. Junk \in Byte /\ \A i \in 1..n : <<"client", i>> \in Byte
    BY DEF Junk, Byte
  <2>2. buf' \in [1..n -> Byte]
    BY <1>1, <2>1 DEF Begin, Bytes
  <2>3. buf' \in Seq(Byte)
    BY <2>2, SeqDef
  <2>4. DOMAIN buf' = 1..n /\ DOMAIN buf' = 1..Len(buf') /\ Len(buf') \in Nat
    BY <2>2, <2>3, LenProperties
  <2> QED  BY <2>3, <2>4
<1>4. bufCache' \in Seq(Byte) /\ Len(bufCache') = 1
  BY <1>2 DEF Junk, Byte
<1>5. RpcTimes' \in Nat /\ 1 <= RpcTimes'
  <2>1. n \div MAX_ARRAY_LEN \in Nat
    BY ChunkCount
  <2> QED  BY <1>2, <2>1 DEF RpcTimes
<1>6. Types'
  <2>1. name \in {"none"} \cup Calls /\ pos' \in 0..size'
    BY <1>2
  <2>2. Len(bufCache') <= MAX_ARRAY_LEN /\ rpcCount' \in 1..RpcTimes'
    BY <1>2, <1>4, <1>5, TransferAssumption
  <2>3. /\ file' \in Seq(Byte) /\ old' \in Seq(Byte)
        /\ errno' \in {0, EIO, EINVAL, ENOSPC}
        /\ result' \in Int
    BY <1>2 DEF TransferInv, Types
  <2>4. fault' \in BOOLEAN
    BY <1>2
  <2> QED  BY <1>2, <1>3, <1>4, <2>1, <2>2, <2>3, <2>4 DEF Types
<1>7. InOnce'
  BY <1>2, TransferAssumption DEF InOnce
<1>8. InLoop'
  BY <1>2, <1>4, TransferAssumption DEF InLoop
<1>9. ReadSoFar'
  <2>1. Len(file) \in Nat
    BY LenProperties DEF TransferInv, Types
  <2> QED  BY <1>2, <2>1 DEF ReadSoFar
<1>10. WrittenSoFar'
  <2>1. SubSeq(buf', 1, 0) = <<>>
    BY SubSeqEmpty
  <2>2. Over(file, <<>>, 0) = file
    BY OverNothing DEF TransferInv, Types
  <2> QED  BY <1>2, <2>1, <2>2 DEF WrittenSoFar
<1>11. CopiesInside' /\ ReadDelivers' /\ WriteDelivers' /\ SuccessReported'
  BY <1>2 DEF CopiesInside, ReadDelivers, WriteDelivers, SuccessReported, Returned
<1> QED  BY <1>6, <1>7, <1>8, <1>9, <1>10, <1>11 DEF TransferInv

\* copy_read of a size that one call can carry.
LEMMA ReadOnceInv ==
    ASSUME TransferInv, ReadOnce
    PROVE  TransferInv'
<1>1. Types /\ pc = "once" /\ op = "read" /\ size \in Nat /\ size <= MAX_ARRAY_LEN /\ file = old
      /\ filesize = 0 /\ filesize \in Int
  BY DEF TransferInv, ReadOnce, Types, InOnce
<1>2. PICK ret \in Rets :
        \/ /\ watdfs_read(size, 0, ret) /\ Answered(ret)
           /\ buf' = IF ret > 0 THEN Over(buf, Pread(size, 0), 0) ELSE buf
        \/ Unanswered(watdfs_read(size, 0, ret)) /\ UNCHANGED buf
  BY DEF ReadOnce
<1>3. Finish /\ pc' = "idle" /\ rpcCount' = rpcCount /\ UNCHANGED <<op, size, old, pos, bufCache>>
  BY DEF ReadOnce, Finish, callVars
<1>4. ret \in Int /\ 0 \in Int /\ 0 \in Nat
  BY TransferAssumption DEF Rets, EIO, EINVAL, ENOSPC
<1>5. RpcTimes' = RpcTimes
  BY <1>3 DEF RpcTimes
<1> DEFINE got == Pread(size, 0)
<1>6. /\ got \in Seq(Byte) /\ Len(got) \in 0..size
      /\ Len(got) = IF size < Len(old) THEN size ELSE Len(old)
      /\ \A i \in 1..Len(got) : got[i] = old[i]
  <2>1. /\ got \in Seq(Byte)
        /\ Len(got) \in 0..size
        /\ Len(got) = IF Len(file) < 0 THEN 0
                      ELSE IF 0 + size < Len(file) THEN size ELSE Len(file) - 0
        /\ \A i \in 1..Len(got) : got[i] = file[0 + i]
    BY <1>1, <1>4, PreadProperties DEF Types
  <2>2. Len(old) \in Nat
    BY LenProperties, <1>1 DEF Types
  <2> HIDE DEF got
  <2> QED  BY <1>1, <2>1, <2>2
<1>7. CASE Unanswered(watdfs_read(size, 0, ret)) /\ UNCHANGED buf
  <2>1. rpc_ret' = -1 /\ UNCHANGED <<returnCode, filesize>>
    BY <1>7 DEF Unanswered
  <2>2. file' = file /\ errno' \in {0, EIO, EINVAL, ENOSPC} /\ fault' \in BOOLEAN
    <3>1. CASE watdfs_read(size, 0, ret)
      BY <1>1, <1>4, <3>1, ReadAnswer
    <3>2. CASE UNCHANGED <<serverVars, fault>>
      BY <1>1, <3>2 DEF Types, serverVars
    <3> QED  BY <1>7, <3>1, <3>2 DEF Unanswered
  <2>3. result' \in Int /\ result' < 0
    BY <1>3, <2>1, NotReturned
  <2>4. Types'
    BY <1>1, <1>3, <1>5, <1>7, <2>1, <2>2, <2>3 DEF Types
  <2>5. rpc_ret' # 0
    BY <2>1
  <2> QED  BY <1>1, <1>3, <2>3, <2>4, <2>5, ErrorReturned DEF TransferInv
<1>8. CASE /\ watdfs_read(size, 0, ret) /\ Answered(ret)
           /\ buf' = IF ret > 0 THEN Over(buf, Pread(size, 0), 0) ELSE buf
  <2>1. /\ file' = file /\ errno' \in {0, EIO, EINVAL, ENOSPC} /\ fault' \in BOOLEAN
        /\ ret >= 0 => ret = Len(got)
        /\ ret < 0 /\ ~fault' => Len(got) = 0 /\ errno' = errno /\ errno # 0
    BY <1>1, <1>4, <1>8, ReadAnswer
  <2>2. rpc_ret' = 0 /\ returnCode' = ret
    BY <1>8 DEF Answered
  <2>3. /\ filesize' \in Int /\ result' \in Int
        /\ ret < 0 => result' < 0
        /\ ret >= 0 /\ filesize + ret \in 0..INT_MAX => result' = filesize + ret
    BY <1>1, <1>3, <1>4, <1>8, Returns
  <2>4. /\ buf' \in Seq(Byte) /\ Len(buf') = size
        /\ ret > 0 => \A i \in 1..ret : buf'[i] = old[i]
    <3>1. CASE ret > 0
      <4>1. buf \in Seq(Byte) /\ Len(buf) = size /\ buf' = Over(buf, got, 0)
        BY <1>1, <1>8, <3>1 DEF Types
      <4>2. /\ buf' \in Seq(Byte)
            /\ Len(buf') = IF 0 + Len(got) > Len(buf) THEN 0 + Len(got) ELSE Len(buf)
            /\ \A i \in 1..Len(buf') :
                 buf'[i] = IF i > 0 /\ i <= 0 + Len(got) THEN got[i - 0]
                           ELSE IF i <= Len(buf) THEN buf[i] ELSE Gap
        BY <1>4, <1>6, <4>1, OverProperties
      <4> HIDE DEF got
      <4>3. Len(buf') = size
        BY <1>1, <1>6, <4>1, <4>2
      <4>4. \A i \in 1..ret : buf'[i] = old[i]
        <5> TAKE i \in 1..ret
        <5>1. i \in 1..Len(got) /\ i \in 1..Len(buf') /\ i > 0 /\ i <= 0 + Len(got) /\ i - 0 = i
          BY <1>1, <1>4, <1>6, <2>1, <3>1, <4>3
        <5>2. buf'[i] = got[i]
          BY <4>2, <5>1
        <5> QED  BY <1>6, <5>1, <5>2
      <4> QED  BY <3>1, <4>2, <4>3, <4>4
    <3>2. CASE ~(ret > 0)
      BY <1>1, <1>8, <3>2 DEF Types
    <3> QED  BY <3>1, <3>2
  <2>5. Types'
    BY <1>1, <1>3, <1>4, <1>5, <2>1, <2>2, <2>3, <2>4 DEF Types
  <2> HIDE DEF got
  <2>6. CASE ret < 0
    <3>1. ~fault' /\ (op = "read" => size <= Len(old)) => size = 0
      BY <1>1, <1>6, <2>1, <2>6
    <3>2. 0 % MAX_ARRAY_LEN = 0
      BY TransferAssumption
    <3>3. ~fault' => errno' # 0
      BY <2>1, <2>6
    <3> QED  BY <1>1, <1>3, <2>3, <2>5, <2>6, <3>1, <3>2, <3>3, ErrorReturned DEF TransferInv
  <2>7. CASE ret >= 0
    <3>1. ret = Len(got) /\ result' = ret /\ ret \in 0..size
      <4>1. filesize + ret \in 0..INT_MAX /\ filesize + ret = ret
        BY <1>1, <1>4, <1>6, <2>1, <2>7, TransferAssumption
      <4> QED  BY <1>6, <2>1, <2>3, <2>7, <4>1
    <3>2. SubSeq(buf', 1, ret) = SubSeq(old, 1, ret)
      BY <1>1, <1>6, <2>4, <2>7, <3>1, SamePrefix DEF Types
    <3>3. ReadDelivers'
      BY <1>3, <1>6, <3>1, <3>2 DEF ReadDelivers
    <3>4. SuccessReported'
      BY <1>1, <1>3, <1>6, <3>1 DEF SuccessReported
    <3>5. /\ InOnce' /\ InLoop' /\ ReadSoFar' /\ WrittenSoFar' /\ CopiesInside' /\ WriteDelivers'
      BY <1>1, <1>3
         DEF InOnce, InLoop, ReadSoFar, WrittenSoFar, CopiesInside, WriteDelivers, Returned
    <3> QED  BY <2>5, <3>3, <3>4, <3>5 DEF TransferInv
  <2> QED  BY <1>4, <2>6, <2>7
<1> QED  BY <1>2, <1>7, <1>8

\* copy_write of a size that one call can carry.
LEMMA WriteOnceInv ==
    ASSUME TransferInv, WriteOnce
    PROVE  TransferInv'
<1>1. Types /\ pc = "once" /\ op = "write" /\ size \in Nat /\ size <= MAX_ARRAY_LEN /\ file = old
      /\ filesize = 0 /\ filesize \in Int /\ buf \in Seq(Byte) /\ Len(buf) = size
  BY DEF TransferInv, WriteOnce, Types, InOnce
<1>2. PICK ret \in Rets :
        \/ watdfs_write(buf, 0, ret) /\ Answered(ret)
        \/ Unanswered(watdfs_write(buf, 0, ret))
  BY DEF WriteOnce
<1>3. Finish /\ pc' = "idle" /\ rpcCount' = rpcCount /\ UNCHANGED <<op, size, old, buf, pos, bufCache>>
  BY DEF WriteOnce, Finish, callVars
<1>4. ret \in Int /\ 0 \in Int /\ 0 \in Nat
  BY TransferAssumption DEF Rets, EIO, EINVAL, ENOSPC
<1>5. RpcTimes' = RpcTimes
  BY <1>3 DEF RpcTimes
<1>6. CASE Unanswered(watdfs_write(buf, 0, ret))
  <2>1. rpc_ret' = -1 /\ UNCHANGED <<returnCode, filesize>>
    BY <1>6 DEF Unanswered
  <2>2. file' \in Seq(Byte) /\ errno' \in {0, EIO, EINVAL, ENOSPC} /\ fault' \in BOOLEAN
    <3>1. CASE watdfs_write(buf, 0, ret)
      BY <1>1, <1>4, <3>1, WriteAnswer
    <3>2. CASE UNCHANGED <<serverVars, fault>>
      BY <1>1, <3>2 DEF Types, serverVars
    <3> QED  BY <1>6, <3>1, <3>2 DEF Unanswered
  <2>3. result' \in Int /\ result' < 0
    BY <1>3, <2>1, NotReturned
  <2>4. Types'
    BY <1>1, <1>3, <1>5, <2>1, <2>2, <2>3 DEF Types
  <2>5. rpc_ret' # 0
    BY <2>1
  <2> QED  BY <1>1, <1>3, <2>3, <2>4, <2>5, ErrorReturned DEF TransferInv
<1>7. CASE watdfs_write(buf, 0, ret) /\ Answered(ret)
  <2>1. /\ file' \in Seq(Byte) /\ errno' \in {0, EIO, EINVAL, ENOSPC} /\ fault' \in BOOLEAN
        /\ ret > 0 => ret <= size /\ file' = Over(file, SubSeq(buf, 1, ret), 0)
        /\ ret = 0 => size = 0 /\ file' = file
        /\ ~fault' => \/ ret = size /\ ret > 0
                      \/ size = 0 /\ ret = -errno /\ errno' = errno
    BY <1>1, <1>4, <1>7, WriteAnswer
  <2>2. rpc_ret' = 0 /\ returnCode' = ret
    BY <1>7 DEF Answered
  <2>3. /\ filesize' \in Int /\ result' \in Int
        /\ ret < 0 => result' < 0
        /\ ret >= 0 /\ filesize + ret \in 0..INT_MAX => result' = filesize + ret
    BY <1>1, <1>3, <1>4, <1>7, Returns
  <2>4. Types'
    BY <1>1, <1>3, <1>4, <1>5, <2>1, <2>2, <2>3 DEF Types
  <2>5. CASE ret < 0
    <3>1. errno \in Nat
      BY <1>1 DEF Types, EIO, EINVAL, ENOSPC
    <3>2. ~fault' => size = 0 /\ errno' # 0
      BY <1>1, <1>4, <2>1, <2>5, <3>1
    <3>3. 0 % MAX_ARRAY_LEN = 0
      BY TransferAssumption
    <3> QED  BY <1>1, <1>3, <2>3, <2>4, <2>5, <3>2, <3>3, ErrorReturned DEF TransferInv
  <2>6. CASE ret >= 0
    <3>1. result' = ret /\ ret \in 0..size
      <4>1. filesize + ret \in 0..INT_MAX /\ filesize + ret = ret /\ ret <= size
        BY <1>1, <1>4, <2>1, <2>6, TransferAssumption
      <4> QED  BY <1>4, <2>3, <2>6, <4>1
    <3>2. file' = Over(old, SubSeq(buf, 1, ret), 0)
      <4>1. CASE ret = 0
        <5>1. SubSeq(buf, 1, 0) = <<>>
          BY SubSeqEmpty
        <5> QED  BY <1>1, <2>1, <4>1, <5>1, OverNothing DEF Types
      <4> QED  BY <1>1, <1>4, <2>1, <2>6, <4>1
    <3>3. WriteDelivers'
      BY <1>3, <3>1, <3>2 DEF WriteDelivers
    <3>4. ~fault' => ret = size
      BY <1>4, <2>1, <3>1
    <3>5. SuccessReported'
      BY <1>3, <3>1, <3>4 DEF SuccessReported
    <3>6. InOnce' /\ InLoop' /\ ReadSoFar' /\ WrittenSoFar' /\ CopiesInside' /\ ReadDelivers'
      BY <1>1, <1>3
         DEF InOnce, InLoop, ReadSoFar, WrittenSoFar, CopiesInside, ReadDelivers, Returned
    <3> QED  BY <2>4, <3>3, <3>5, <3>6 DEF TransferInv
  <2> QED  BY <1>4, <2>5, <2>6
<1> QED  BY <1>2, <1>6, <1>7

\* Where a chunk begins and how long it is.  When the size is one that an int
\* holds, the chunks lie one behind the other and the last one ends the transfer.
LEMMA ChunkBounds ==
    ASSUME TransferInv, pc = "loop", NEW bufsize \in BufSizes, NEW offset \in Offsets
    PROVE  /\ bufsize \in Int /\ offset \in Int
           /\ rpcCount # RpcTimes =>
                bufsize = MAX_ARRAY_LEN /\ pos + bufsize <= size
                /\ pos + bufsize = MAX_ARRAY_LEN * rpcCount
           /\ size <= INT_MAX =>
                /\ offset = pos /\ bufsize \in 0..MAX_ARRAY_LEN /\ pos + bufsize <= size
                /\ rpcCount = RpcTimes => pos + bufsize = size /\ bufsize = size % MAX_ARRAY_LEN
<1>1. Types /\ pos = MAX_ARRAY_LEN * (rpcCount - 1) /\ size \in Nat /\ pos \in 0..size
      /\ rpcCount \in 1..(size \div MAX_ARRAY_LEN + 1)
  BY DEF TransferInv, InLoop, Types, RpcTimes
<1>2. /\ pos \in 0..size
      /\ rpcCount # RpcTimes => pos + MAX_ARRAY_LEN <= size
      /\ rpcCount = RpcTimes => size - pos = size % MAX_ARRAY_LEN
      /\ pos + MAX_ARRAY_LEN = MAX_ARRAY_LEN * rpcCount
  BY <1>1, ChunkInside DEF RpcTimes
<1>3. SkippedBytes = {pos, Wrapped(pos)}
  BY <1>1 DEF SkippedBytes
<1>4. Wrapped(pos) \in Int /\ (size <= INT_MAX => Wrapped(pos) = pos)
  <2>1. size <= INT_MAX => pos \in 0..INT_MAX
    BY <1>1, TransferAssumption
  <2> QED  BY <1>1, <2>1, WrappedType, NotWrapped
<1>5. offset \in {pos, Wrapped(pos)}
  BY <1>3 DEF Offsets
<1>6. /\ rpcCount # RpcTimes => bufsize = MAX_ARRAY_LEN
      /\ rpcCount = RpcTimes => bufsize \in {size - pos, size - Wrapped(pos)}
  BY <1>3 DEF BufSizes
<1>7. size % MAX_ARRAY_LEN \in 0..(MAX_ARRAY_LEN - 1)
  BY <1>1, ChunkCount
<1>8. bufsize \in Int /\ offset \in Int
  BY <1>1, <1>4, <1>5, <1>6, TransferAssumption
<1>9. CASE rpcCount = RpcTimes
  <2>1. size <= INT_MAX => bufsize = size - pos
    BY <1>4, <1>6, <1>9
  <2>2. size <= INT_MAX => pos + bufsize = size /\ bufsize = size % MAX_ARRAY_LEN
    BY <1>1, <1>2, <1>8, <1>9, <2>1
  <2>3. size <= INT_MAX => bufsize \in 0..MAX_ARRAY_LEN /\ pos + bufsize <= size
    BY <1>1, <1>7, <2>2, TransferAssumption
  <2> QED  BY <1>4, <1>5, <1>8, <1>9, <2>2, <2>3
<1>10. CASE rpcCount # RpcTimes
  <2>1. bufsize \in 0..MAX_ARRAY_LEN
    BY <1>6, <1>10, TransferAssumption
  <2> QED  BY <1>2, <1>4, <1>5, <1>6, <1>8, <1>10, <2>1
<1> QED  BY <1>9, <1>10

\* pread(2) stops at the end of the file: what it returns when it is asked for
\* bufsize bytes at from, in a file that is length bytes long.
LEMMA ChunkEnd ==
    ASSUME NEW length \in Nat, NEW from \in 0..length, NEW bufsize \in Nat, NEW ret,
           ret = IF length < from THEN 0
                 ELSE IF from + bufsize < length THEN bufsize ELSE length - from
    PROVE  from + ret <= length /\ (ret < bufsize => from + ret = length)
OBVIOUS

\* A chunk of copy_read.
LEMMA ReadChunkInv ==
    ASSUME TransferInv, ReadChunk
    PROVE  TransferInv'
<1>1. Types /\ pc = "loop" /\ op = "read" /\ size \in Nat /\ size > MAX_ARRAY_LEN /\ rpc_ret = 0
      /\ pos \in 0..size /\ pos = MAX_ARRAY_LEN * (rpcCount - 1)
      /\ (size <= INT_MAX => filesize = pos) /\ filesize \in Int
      /\ returnCode \in 1..Len(bufCache) /\ rpcCount \in 1..RpcTimes
  BY DEF TransferInv, ReadChunk, Types, InLoop
<1>2. PICK bufsize \in BufSizes, offset \in Offsets :
         \/ /\ bufsize \notin 0..MAX_ARRAY_LEN
            /\ Undefined
            /\ UNCHANGED <<serverVars, fault, rpc_ret, returnCode, filesize, bufCache>>
         \/ /\ bufsize \in 0..MAX_ARRAY_LEN
            /\ \E ret \in Rets :
                 \/ /\ watdfs_read(bufsize, offset, ret) /\ Answered(ret)
                    /\ bufCache' = IF ret > 0 THEN Pread(bufsize, offset) ELSE bufCache
                 \/ Unanswered(watdfs_read(bufsize, offset, ret)) /\ UNCHANGED bufCache
            /\ IF CopiesOut
                 THEN /\ buf' = Over(buf, SubSeq(bufCache', 1, returnCode'), pos)
                      /\ pos' = pos + returnCode'
                      /\ Advance(bufsize)
                 ELSE Undefined
  BY DEF ReadChunk
<1>3. UNCHANGED <<op, size, old>>
  BY DEF ReadChunk, callVars
<1>4. /\ bufsize \in Int /\ offset \in Int
      /\ rpcCount # RpcTimes =>
           bufsize = MAX_ARRAY_LEN /\ pos + bufsize <= size /\ pos + bufsize = MAX_ARRAY_LEN * rpcCount
      /\ size <= INT_MAX =>
           /\ offset = pos /\ bufsize \in 0..MAX_ARRAY_LEN /\ pos + bufsize <= size
           /\ rpcCount = RpcTimes => pos + bufsize = size /\ bufsize = size % MAX_ARRAY_LEN
  BY <1>1, ChunkBounds
<1>5. RpcTimes' = RpcTimes /\ RpcTimes \in Int
  <2>1. size \div MAX_ARRAY_LEN \in Nat
    BY <1>1, ChunkCount
  <2> QED  BY <1>3, <2>1 DEF RpcTimes
<1>6. CASE /\ bufsize \notin 0..MAX_ARRAY_LEN
           /\ Undefined
           /\ UNCHANGED <<serverVars, fault, rpc_ret, returnCode, filesize, bufCache>>
  <2>1. pc' = "undefined" /\ ~(size <= INT_MAX)
        /\ UNCHANGED <<file, errno, fault, rpc_ret, returnCode, filesize, bufCache, buf, pos,
                       rpcCount, result>>
    BY <1>4, <1>6 DEF Undefined, serverVars
  <2>2. Types'
    BY <1>1, <1>3, <1>5, <2>1 DEF Types
  <2> QED  BY <1>1, <1>3, <2>1, <2>2, UndefinedInv
<1>7. ASSUME bufsize \in 0..MAX_ARRAY_LEN, NEW ret \in Rets,
             \/ /\ watdfs_read(bufsize, offset, ret) /\ Answered(ret)
                /\ bufCache' = IF ret > 0 THEN Pread(bufsize, offset) ELSE bufCache
             \/ Unanswered(watdfs_read(bufsize, offset, ret)) /\ UNCHANGED bufCache,
             IF CopiesOut
               THEN /\ buf' = Over(buf, SubSeq(bufCache', 1, returnCode'), pos)
                    /\ pos' = pos + returnCode'
                    /\ Advance(bufsize)
               ELSE Undefined
      PROVE  TransferInv'
  <2> DEFINE got == Pread(bufsize, offset)
  <2>1. ret \in Int /\ bufsize \in Nat
    BY <1>7, TransferAssumption DEF Rets, EIO, EINVAL, ENOSPC
  <2>2. watdfs_read(bufsize, offset, ret) \/ UNCHANGED <<serverVars, fault>>
    BY <1>7 DEF Unanswered
  <2>3. file' = file /\ errno' \in {0, EIO, EINVAL, ENOSPC} /\ fault' \in BOOLEAN
    <3>1. CASE watdfs_read(bufsize, offset, ret)
      BY <1>1, <1>4, <2>1, <3>1, ReadAnswer
    <3>2. CASE UNCHANGED <<serverVars, fault>>
      BY <1>1, <3>2 DEF Types, serverVars
    <3> QED  BY <2>2, <3>1, <3>2
  <2>4. CASE Unanswered(watdfs_read(bufsize, offset, ret)) /\ UNCHANGED bufCache
    <3>1. rpc_ret' = -1 /\ UNCHANGED <<returnCode, filesize, bufCache>>
      BY <2>4 DEF Unanswered
    <3>2. CASE CopiesOut
      <4>1. Finish /\ buf' = Over(buf, SubSeq(bufCache', 1, returnCode'), pos) /\ pos' = pos + returnCode'
        BY <1>7, <3>1, <3>2 DEF Advance
      <4>2. returnCode' \in 0..Len(bufCache') /\ pos + returnCode' <= size
        BY <1>1, <3>1, <3>2 DEF CopiesOut
      <4>3. bufCache' \in Seq(Byte) /\ buf \in Seq(Byte) /\ Len(buf) = size
        BY <1>1, <3>1 DEF Types
      <4>4. buf' \in Seq(Byte) /\ Len(buf') = size
        BY <1>1, <4>1, <4>2, <4>3, CopiedOut
      <4>5. result' \in Int /\ result' < 0
        BY <3>1, <4>1, NotReturned
      <4>6. pos' \in 0..size
        BY <1>1, <4>1, <4>2
      <4>7. pc' = "idle" /\ rpcCount' = rpcCount
        BY <4>1 DEF Finish
      <4>8. Types'
        BY <1>1, <1>3, <1>5, <2>3, <3>1, <4>4, <4>5, <4>6, <4>7 DEF Types
      <4>9. rpc_ret' # 0
        BY <3>1
      <4> QED  BY <1>1, <1>3, <4>5, <4>7, <4>8, <4>9, ErrorReturned DEF TransferInv
    <3>3. CASE ~CopiesOut
      <4>1. pc' = "undefined" /\ UNCHANGED <<buf, pos, rpcCount, result>>
        BY <1>7, <3>3 DEF Undefined
      <4>2. Types'
        BY <1>1, <1>3, <1>5, <2>3, <3>1, <4>1 DEF Types
      <4> QED  BY <1>1, <1>3, <3>1, <4>1, <4>2, UndefinedInv
    <3> QED  BY <3>2, <3>3
  <2>5. CASE /\ watdfs_read(bufsize, offset, ret) /\ Answered(ret)
             /\ bufCache' = IF ret > 0 THEN Pread(bufsize, offset) ELSE bufCache
    <3>1. /\ ret >= 0 => offset \in Nat /\ ret = Len(got)
      BY <1>1, <1>4, <2>1, <2>5, ReadAnswer
    <3>2. ret >= 0 =>
            /\ got \in Seq(Byte) /\ ret \in 0..bufsize
            /\ ret = IF Len(file) < offset THEN 0
                     ELSE IF offset + bufsize < Len(file) THEN bufsize ELSE Len(file) - offset
            /\ \A i \in 1..ret : got[i] = file[offset + i]
      <4> SUFFICES ASSUME ret >= 0, offset \in Nat, ret = Len(got)
                   PROVE  /\ got \in Seq(Byte) /\ ret \in 0..bufsize
                          /\ ret = IF Len(file) < offset THEN 0
                                   ELSE IF offset + bufsize < Len(file) THEN bufsize
                                   ELSE Len(file) - offset
                          /\ \A i \in 1..ret : got[i] = file[offset + i]
        BY <3>1
      <4>1. file \in Seq(Byte)
        BY <1>1 DEF Types
      <4> QED  BY <2>1, <4>1, PreadProperties
    <3>3. rpc_ret' = 0 /\ returnCode' = ret
      BY <2>5 DEF Answered
    <3>4. filesize' \in Int /\ (ret >= 0 /\ pos + ret \in 0..INT_MAX /\ size <= INT_MAX => filesize' = pos + ret)
      <4>1. filesize' \in {filesize + ret, Wrapped(filesize + ret)}
        BY <2>5 DEF Answered
      <4>2. filesize + ret \in Int /\ Wrapped(filesize + ret) \in Int
        BY <1>1, <2>1, WrappedType
      <4>3. pos + ret \in 0..INT_MAX => Wrapped(pos + ret) = pos + ret
        BY NotWrapped
      <4> QED  BY <1>1, <4>1, <4>2, <4>3
    <3> HIDE DEF got
    <3>5. bufCache' \in Seq(Byte) /\ Len(bufCache') <= MAX_ARRAY_LEN
          /\ (ret > 0 => bufCache' = got /\ Len(bufCache') = ret)
          /\ (ret >= 0 => ret \in 0..Len(bufCache'))
      <4>1. Len(bufCache) \in Nat /\ bufCache \in Seq(Byte) /\ Len(bufCache) <= MAX_ARRAY_LEN
        BY <1>1, LenProperties DEF Types
      <4>2. CASE ret > 0
        BY <1>7, <2>1, <2>5, <3>1, <3>2, <4>2, TransferAssumption DEF got
      <4>3. CASE ~(ret > 0)
        BY <2>1, <2>5, <4>1, <4>3
      <4> QED  BY <4>2, <4>3
    <3>6. CASE ~CopiesOut
      <4>1. pc' = "undefined" /\ UNCHANGED <<buf, pos, rpcCount, result>>
        BY <1>7, <3>6 DEF Undefined
      <4>2. Types'
        BY <1>1, <1>3, <1>5, <2>1, <2>3, <3>3, <3>4, <3>5, <4>1 DEF Types
      <4>3. size <= INT_MAX => returnCode' < 0
        <5> SUFFICES ASSUME size <= INT_MAX, ret >= 0 PROVE CopiesOut
          BY <2>1, <3>3, <3>6
        <5> QED  BY <1>1, <1>4, <2>1, <3>2, <3>3 DEF CopiesOut
      <4> QED  BY <1>1, <1>3, <4>1, <4>2, <4>3, UndefinedInv
    <3>7. CASE CopiesOut
      <4>1. /\ ret >= 0 /\ ret \in 0..bufsize /\ pos + ret <= size
            /\ buf' = Over(buf, SubSeq(bufCache', 1, ret), pos) /\ pos' = pos + ret
            /\ Advance(bufsize)
        BY <1>7, <2>1, <3>2, <3>3, <3>7 DEF CopiesOut
      <4>2. /\ buf' \in Seq(Byte) /\ Len(buf') = size
            /\ \A i \in 1..pos : buf'[i] = buf[i]
            /\ \A i \in (pos + 1)..(pos + ret) : buf'[i] = bufCache'[i - pos]
        <5>1. /\ buf \in Seq(Byte) /\ Len(buf) = size /\ pos \in Nat
              /\ bufCache' \in Seq(Byte) /\ ret \in 0..Len(bufCache') /\ pos + ret <= Len(buf)
          BY <1>1, <3>5, <4>1 DEF Types
        <5> QED  BY <4>1, <5>1, CopiedOut
      <4>3. pos' \in 0..size
        BY <1>1, <2>1, <4>1
      <4>4. size <= INT_MAX =>
              /\ file = old /\ Len(old) \in Nat /\ pos + ret <= Len(old) /\ pos + ret \in 0..INT_MAX
              /\ filesize' = pos + ret
              /\ ret < bufsize => pos + ret = Len(old)
              /\ \A i \in 1..(pos + ret) : buf'[i] = old[i]
        <5> SUFFICES ASSUME size <= INT_MAX
                     PROVE  /\ file = old /\ Len(old) \in Nat /\ pos + ret <= Len(old)
                            /\ pos + ret \in 0..INT_MAX /\ filesize' = pos + ret
                            /\ ret < bufsize => pos + ret = Len(old)
                            /\ \A i \in 1..(pos + ret) : buf'[i] = old[i]
          OBVIOUS
        <5>1. file = old /\ pos <= Len(old) /\ \A i \in 1..pos : buf[i] = old[i]
          BY <1>1 DEF TransferInv, ReadSoFar
        <5>2. Len(old) \in Nat
          BY <1>1, LenProperties DEF Types
        <5>3. pos + ret <= Len(old) /\ offset = pos /\ (ret < bufsize => pos + ret = Len(old))
          <6>1. offset = pos /\ pos \in Nat
            BY <1>1, <1>4
          <6>2. ret = IF Len(old) < pos THEN 0
                      ELSE IF pos + bufsize < Len(old) THEN bufsize ELSE Len(old) - pos
            BY <3>2, <4>1, <5>1, <6>1
          <6>3. pos \in 0..Len(old)
            BY <5>1, <5>2, <6>1
          <6> QED  BY <2>1, <5>2, <6>1, <6>2, <6>3, ChunkEnd
        <5>4. pos + ret \in 0..INT_MAX
          BY <1>1, <2>1, <4>1, TransferAssumption
        <5>5. ASSUME NEW i \in 1..(pos + ret) PROVE buf'[i] = old[i]
          <6>1. CASE i <= pos
            <7>1. i \in 1..pos
              BY <1>1, <2>1, <6>1
            <7> QED  BY <4>2, <5>1, <7>1
          <6>2. CASE i > pos
            <7>1. i \in (pos + 1)..(pos + ret) /\ i - pos \in 1..ret /\ ret > 0 /\ pos + (i - pos) = i
              BY <1>1, <2>1, <4>1, <6>2
            <7>2. buf'[i] = bufCache'[i - pos] /\ bufCache' = got
              BY <3>5, <4>2, <7>1
            <7>3. got[i - pos] = file[offset + (i - pos)]
              BY <3>2, <4>1, <7>1
            <7> QED  BY <5>1, <5>3, <7>1, <7>2, <7>3
          <6> QED  BY <1>1, <6>1, <6>2
        <5> QED  BY <3>4, <4>1, <5>1, <5>2, <5>3, <5>4, <5>5
      <4>5. CASE ~ChunkIsLast(returnCode', bufsize) /\ rpcCount < RpcTimes /\ returnCode' > 0
        <5>1. rpcCount' = rpcCount + 1 /\ UNCHANGED <<pc, result>>
          BY <3>3, <4>1, <4>5 DEF Advance
        <5>2. ret = MAX_ARRAY_LEN /\ pos' = MAX_ARRAY_LEN * rpcCount /\ ret > 0
          BY <1>1, <1>4, <2>1, <3>3, <4>1, <4>5, TransferAssumption DEF ChunkIsLast
        <5>3. rpcCount' \in 1..RpcTimes' /\ rpcCount' - 1 = rpcCount
          BY <1>1, <1>5, <4>5, <5>1
        <5>4. Types'
          BY <1>1, <1>3, <2>1, <2>3, <3>3, <3>4, <3>5, <4>2, <4>3, <5>1, <5>3 DEF Types
        <5>5. InLoop'
          BY <1>1, <1>3, <2>1, <3>3, <3>5, <4>1, <4>4, <5>1, <5>2, <5>3 DEF InLoop, Calls
        <5>6. ReadSoFar'
          BY <1>1, <1>3, <2>3, <4>1, <4>4, <5>1 DEF ReadSoFar
        <5>7. InOnce' /\ WrittenSoFar' /\ CopiesInside' /\ ReadDelivers' /\ WriteDelivers'
              /\ SuccessReported'
          BY <1>1, <1>3, <5>1
             DEF InOnce, WrittenSoFar, CopiesInside, ReadDelivers, WriteDelivers,
                 SuccessReported, Returned
        <5> QED  BY <5>4, <5>5, <5>6, <5>7 DEF TransferInv
      <4>6. CASE ~(~ChunkIsLast(returnCode', bufsize) /\ rpcCount < RpcTimes /\ returnCode' > 0)
        <5>1. Finish
          BY <4>1, <4>6 DEF Advance
        <5>2. pc' = "idle" /\ rpcCount' = rpcCount /\ result' = filesize'
          BY <2>1, <3>3, <4>1, <5>1 DEF Finish
        <5>3. Types'
          BY <1>1, <1>3, <1>5, <2>1, <2>3, <3>3, <3>4, <3>5, <4>2, <4>3, <5>2 DEF Types
        <5>4. InOnce' /\ InLoop' /\ ReadSoFar' /\ WrittenSoFar' /\ CopiesInside' /\ WriteDelivers'
          BY <1>1, <1>3, <5>2
             DEF InOnce, InLoop, ReadSoFar, WrittenSoFar, CopiesInside, WriteDelivers, Returned
        <5>5. size <= INT_MAX =>
                /\ result' = pos + ret
                /\ ret < bufsize \/ pos + ret = size
                /\ result' = IF size < Len(old) THEN size ELSE Len(old)
          <6> SUFFICES ASSUME size <= INT_MAX
                       PROVE  /\ result' = pos + ret
                              /\ ret < bufsize \/ pos + ret = size
                              /\ result' = IF size < Len(old) THEN size ELSE Len(old)
            OBVIOUS
          <6>1. ret < bufsize \/ pos + ret = size
            <7>1. ret < bufsize \/ rpcCount = RpcTimes \/ ret = 0
              BY <1>1, <1>5, <2>1, <3>3, <4>1, <4>6 DEF ChunkIsLast
            <7>2. ret >= bufsize /\ ret = 0 => bufsize = 0
              BY <2>1, <4>1
            <7>3. ret >= bufsize => rpcCount = RpcTimes
              BY <1>4, <2>1, <7>1, <7>2, TransferAssumption
            <7> QED  BY <1>1, <1>4, <2>1, <4>1, <7>3
          <6>2. ret < bufsize => pos + ret = Len(old)
            BY <4>4
          <6> QED  BY <1>1, <2>1, <4>1, <4>4, <5>2, <6>1, <6>2
        <5>6. ReadDelivers'
          <6>1. size <= INT_MAX => SubSeq(buf', 1, pos + ret) = SubSeq(old, 1, pos + ret)
            <7>1. old \in Seq(Byte) /\ (size <= INT_MAX => pos + ret \in Nat)
              BY <1>1, <4>4, TransferAssumption DEF Types
            <7> QED  BY <4>1, <4>2, <4>4, <7>1, SamePrefix
          <6> QED  BY <1>3, <5>2, <5>5, <6>1 DEF ReadDelivers
        <5>7. SuccessReported'
          BY <1>1, <1>3, <4>4, <5>2, <5>5 DEF SuccessReported
        <5> QED  BY <5>3, <5>4, <5>6, <5>7 DEF TransferInv
      <4> QED  BY <4>5, <4>6
    <3> QED  BY <3>6, <3>7
  <2> QED  BY <1>7, <2>4, <2>5
<1> QED  BY <1>2, <1>6, <1>7

\* A chunk of copy_write.
LEMMA WriteChunkInv ==
    ASSUME TransferInv, WriteChunk
    PROVE  TransferInv'
<1>1. Types /\ pc = "loop" /\ op = "write" /\ size \in Nat /\ size > MAX_ARRAY_LEN /\ rpc_ret = 0
      /\ pos \in 0..size /\ pos = MAX_ARRAY_LEN * (rpcCount - 1)
      /\ (size <= INT_MAX => filesize = pos) /\ filesize \in Int
      /\ rpcCount \in 1..RpcTimes /\ buf \in Seq(Byte) /\ Len(buf) = size
  BY DEF TransferInv, WriteChunk, Types, InLoop
<1> DEFINE data(n) == SubSeq(buf, pos + 1, pos + n)
<1>2. PICK bufsize \in BufSizes, offset \in Offsets :
         IF bufsize \notin 0..MAX_ARRAY_LEN \/ pos + bufsize > size
           THEN Undefined /\ UNCHANGED <<serverVars, fault, rpc_ret, returnCode, filesize>>
           ELSE /\ \E ret \in Rets :
                     \/ /\ watdfs_write(data(bufsize), offset, ret) /\ Answered(ret)
                        /\ pos' = pos + bufsize
                     \/ Unanswered(watdfs_write(data(bufsize), offset, ret)) /\ UNCHANGED pos
                /\ UNCHANGED buf
                /\ Advance(bufsize)
  BY DEF WriteChunk
<1>3. UNCHANGED <<op, size, old, bufCache>>
  BY DEF WriteChunk, callVars
<1>4. /\ bufsize \in Int /\ offset \in Int
      /\ rpcCount # RpcTimes =>
           bufsize = MAX_ARRAY_LEN /\ pos + bufsize <= size /\ pos + bufsize = MAX_ARRAY_LEN * rpcCount
      /\ size <= INT_MAX =>
           /\ offset = pos /\ bufsize \in 0..MAX_ARRAY_LEN /\ pos + bufsize <= size
           /\ rpcCount = RpcTimes => pos + bufsize = size /\ bufsize = size % MAX_ARRAY_LEN
  BY <1>1, ChunkBounds
<1>5. RpcTimes' = RpcTimes /\ RpcTimes \in Int
  <2>1. size \div MAX_ARRAY_LEN \in Nat
    BY <1>1, ChunkCount
  <2> QED  BY <1>3, <2>1 DEF RpcTimes
<1>6. CASE bufsize \notin 0..MAX_ARRAY_LEN \/ pos + bufsize > size
  <2>1. pc' = "undefined" /\ ~(size <= INT_MAX)
        /\ UNCHANGED <<file, errno, fault, rpc_ret, returnCode, filesize, buf, pos, rpcCount, result>>
    BY <1>1, <1>2, <1>4, <1>6 DEF Undefined, serverVars
  <2>2. Types'
    BY <1>1, <1>3, <1>5, <2>1 DEF Types
  <2> QED  BY <1>1, <1>3, <2>1, <2>2, UndefinedInv
<1>7. ASSUME bufsize \in 0..MAX_ARRAY_LEN, ~(pos + bufsize > size), NEW ret \in Rets,
             \/ /\ watdfs_write(data(bufsize), offset, ret) /\ Answered(ret)
                /\ pos' = pos + bufsize
             \/ Unanswered(watdfs_write(data(bufsize), offset, ret)) /\ UNCHANGED pos,
             UNCHANGED buf, Advance(bufsize)
      PROVE  TransferInv'
  <2> DEFINE sent == data(bufsize)
  <2>1. ret \in Int /\ bufsize \in Nat /\ pos \in Nat /\ pos + bufsize \in 0..size
    BY <1>1, <1>7, TransferAssumption DEF Rets, EIO, EINVAL, ENOSPC
  <2>2. sent \in Seq(Byte) /\ Len(sent) = bufsize
    <3>1. /\ sent \in Seq(Byte) /\ Len(sent) = pos + bufsize - pos
      <4>1. pos \in Nat /\ pos + bufsize \in 0..Len(buf) /\ pos <= pos + bufsize
        BY <1>1, <2>1
      <4>2. \A n \in 0..Len(buf) : pos <= n =>
              SubSeq(buf, pos + 1, n) \in Seq(Byte) /\ Len(SubSeq(buf, pos + 1, n)) = n - pos
        BY <1>1, <2>1, PrefixProperties
      <4> QED  BY <2>1, <4>1, <4>2
    <3> HIDE DEF sent
    <3> QED  BY <2>1, <3>1
  <2>3. CASE Unanswered(watdfs_write(sent, offset, ret)) /\ UNCHANGED pos
    <3> HIDE DEF sent
    <3>1. rpc_ret' = -1 /\ UNCHANGED <<returnCode, filesize, pos, buf>>
      BY <1>7, <2>3 DEF Unanswered
    <3>2. file' \in Seq(Byte) /\ errno' \in {0, EIO, EINVAL, ENOSPC} /\ fault' \in BOOLEAN
      <4>1. CASE watdfs_write(sent, offset, ret)
        BY <1>1, <1>4, <2>2, <4>1, WriteAnswer
      <4>2. CASE UNCHANGED <<serverVars, fault>>
        BY <1>1, <4>2 DEF Types, serverVars
      <4> QED  BY <2>3, <4>1, <4>2 DEF Unanswered
    <3>3. Finish
      BY <1>7, <3>1 DEF Advance
    <3>4. result' \in Int /\ result' < 0
      BY <3>1, <3>3, NotReturned
    <3>5. pc' = "idle" /\ rpcCount' = rpcCount
      BY <3>3 DEF Finish
    <3>6. Types'
      BY <1>1, <1>3, <1>5, <3>1, <3>2, <3>4, <3>5 DEF Types
    <3>7. rpc_ret' # 0
      BY <3>1
    <3> QED  BY <1>1, <1>3, <3>4, <3>5, <3>6, <3>7, ErrorReturned DEF TransferInv
  <2>4. CASE watdfs_write(sent, offset, ret) /\ Answered(ret) /\ pos' = pos + bufsize
    <3>1. /\ file' \in Seq(Byte) /\ errno' \in {0, EIO, EINVAL, ENOSPC} /\ fault' \in BOOLEAN
          /\ ret > 0 => ret <= bufsize /\ file' = Over(file, SubSeq(sent, 1, ret), offset)
          /\ ret = 0 => bufsize = 0 /\ file' = file
          /\ ~fault' => \/ ret = bufsize /\ ret > 0
                        \/ bufsize = 0 /\ ret = -errno /\ errno' = errno
      <4> HIDE DEF sent
      <4> QED  BY <1>1, <1>4, <2>2, <2>4, WriteAnswer
    <3>2. rpc_ret' = 0 /\ returnCode' = ret /\ pos' \in 0..size
      BY <2>1, <2>4 DEF Answered
    <3>3. filesize' \in Int /\ (ret >= 0 /\ pos + ret \in 0..INT_MAX /\ size <= INT_MAX => filesize' = pos + ret)
      <4>1. filesize' \in {filesize + ret, Wrapped(filesize + ret)}
        BY <2>4 DEF Answered
      <4>2. filesize + ret \in Int /\ Wrapped(filesize + ret) \in Int
        BY <1>1, <2>1, WrappedType
      <4>3. pos + ret \in 0..INT_MAX => Wrapped(pos + ret) = pos + ret
        BY NotWrapped
      <4> QED  BY <1>1, <4>1, <4>2, <4>3
    <3>4. ret >= 0 => ret \in 0..bufsize /\ pos + ret <= size /\ (size <= INT_MAX => pos + ret \in 0..INT_MAX)
      BY <1>1, <2>1, <3>1, TransferAssumption
    <3>5. ret >= 0 /\ size <= INT_MAX => file' = Over(old, SubSeq(buf, 1, pos + ret), 0)
      <4> SUFFICES ASSUME ret >= 0, size <= INT_MAX
                   PROVE  file' = Over(old, SubSeq(buf, 1, pos + ret), 0)
        OBVIOUS
      <4>1. file = Over(old, SubSeq(buf, 1, pos), 0) /\ offset = pos /\ old \in Seq(Byte)
        BY <1>1, <1>4 DEF TransferInv, WrittenSoFar, Types
      <4>2. CASE ret = 0
        BY <2>1, <3>1, <4>1, <4>2
      <4>3. CASE ret > 0
        <5>1. SubSeq(sent, 1, ret) = SubSeq(buf, pos + 1, pos + ret)
          <6>1. pos \in Nat /\ bufsize \in Nat /\ pos + bufsize <= Len(buf) /\ ret \in 0..bufsize
            BY <2>1, <3>4, <4>3, <1>1
          <6>2. buf \in Seq(Byte)
            BY <1>1
          <6> QED  BY <6>1, <6>2, PrefixOfChunk
        <5>2. pos + ret \in 0..Len(buf) /\ pos <= pos + ret
          BY <1>1, <2>1, <3>4
        <5> HIDE DEF sent
        <5>3. file' = Over(Over(old, SubSeq(buf, 1, pos), 0), SubSeq(buf, pos + 1, pos + ret), pos)
          BY <3>1, <4>1, <4>3, <5>1
        <5> QED  BY <1>1, <2>1, <4>1, <5>2, <5>3, OverExtends
      <4> QED  BY <2>1, <4>2, <4>3
    <3> HIDE DEF sent
    <3>6. CASE ~ChunkIsLast(returnCode', bufsize) /\ rpcCount < RpcTimes /\ returnCode' > 0
      <4>1. rpcCount' = rpcCount + 1 /\ UNCHANGED <<pc, result>>
        BY <1>7, <3>2, <3>6 DEF Advance
      <4>2. ret = MAX_ARRAY_LEN /\ ret = bufsize /\ pos' = MAX_ARRAY_LEN * rpcCount /\ pos' = pos + ret
        BY <1>1, <1>4, <2>1, <2>4, <3>1, <3>2, <3>6, TransferAssumption DEF ChunkIsLast
      <4>3. rpcCount' \in 1..RpcTimes' /\ rpcCount' - 1 = rpcCount
        BY <1>1, <1>5, <3>6, <4>1
      <4>4. Types'
        BY <1>1, <1>3, <1>7, <2>1, <3>1, <3>2, <3>3, <4>1, <4>3 DEF Types
      <4>5. ret >= 0 /\ (size <= INT_MAX => filesize' = pos')
        <5>1. ret >= 0
          BY <2>1, <3>2, <3>6
        <5>2. size <= INT_MAX => pos + ret \in 0..INT_MAX
          BY <3>4, <5>1
        <5> QED  BY <3>3, <4>2, <5>1, <5>2
      <4>6. InLoop'
        BY <1>1, <1>3, <3>2, <4>1, <4>2, <4>3, <4>5 DEF InLoop, Calls
      <4>7. WrittenSoFar'
        BY <1>3, <1>7, <3>5, <4>2, <4>5 DEF WrittenSoFar
      <4>8. InOnce' /\ ReadSoFar' /\ CopiesInside' /\ ReadDelivers' /\ WriteDelivers' /\ SuccessReported'
        BY <1>1, <1>3, <4>1
           DEF InOnce, ReadSoFar, CopiesInside, ReadDelivers, WriteDelivers, SuccessReported, Returned
      <4> QED  BY <4>4, <4>6, <4>7, <4>8 DEF TransferInv
    <3>7. CASE ~(~ChunkIsLast(returnCode', bufsize) /\ rpcCount < RpcTimes /\ returnCode' > 0)
      <4>1. Finish
        BY <1>7, <3>7 DEF Advance
      <4>2. pc' = "idle" /\ rpcCount' = rpcCount
            /\ result' = IF ret < 0 THEN ret ELSE filesize'
        BY <3>2, <4>1 DEF Finish
      <4>3. Types'
        BY <1>1, <1>3, <1>5, <1>7, <2>1, <3>1, <3>2, <3>3, <4>2 DEF Types
      <4>4. CASE ret < 0
        <5>1. errno \in Nat
          BY <1>1 DEF Types, EIO, EINVAL, ENOSPC
        <5>2. ~fault' => bufsize = 0 /\ errno' # 0
          BY <2>1, <3>1, <4>4, <5>1
        <5>3. size <= INT_MAX /\ bufsize = 0 => size % MAX_ARRAY_LEN = 0
          BY <1>4, TransferAssumption
        <5>4. result' \in Int /\ result' < 0
          BY <2>1, <4>2, <4>4
        <5> QED  BY <1>1, <1>3, <4>2, <4>3, <5>2, <5>3, <5>4, ErrorReturned DEF TransferInv
      <4>5. CASE ret >= 0
        <5>1. size <= INT_MAX => result' = pos + ret
          BY <2>1, <3>3, <3>4, <4>2, <4>5
        <5>2. WriteDelivers'
          BY <1>3, <1>7, <3>5, <4>2, <4>5, <5>1 DEF WriteDelivers
        <5>3. ~fault' /\ size <= INT_MAX => result' = size
          <6>1. ~fault' => ret = bufsize
            BY <2>1, <3>1, <4>5
          <6>2. ret = bufsize /\ size <= INT_MAX => rpcCount = RpcTimes
            BY <1>1, <1>4, <1>5, <2>1, <3>2, <3>7, TransferAssumption DEF ChunkIsLast
          <6> QED  BY <1>4, <5>1, <6>1, <6>2
        <5>4. SuccessReported'
          BY <1>3, <4>2, <5>3 DEF SuccessReported
        <5>5. InOnce' /\ InLoop' /\ ReadSoFar' /\ WrittenSoFar' /\ CopiesInside' /\ ReadDelivers'
          BY <1>1, <1>3, <4>2
             DEF InOnce, InLoop, ReadSoFar, WrittenSoFar, CopiesInside, ReadDelivers, Returned
        <5> QED  BY <4>3, <5>2, <5>4, <5>5 DEF TransferInv
      <4> QED  BY <2>1, <4>4, <4>5
    <3> QED  BY <3>6, <3>7
  <2> QED  BY <1>7, <2>3, <2>4
<1> HIDE DEF data
<1> QED  BY <1>1, <1>2, <1>6, <1>7

-----------------------------------------------------------------------------

LEMMA TransferNext == TransferInv /\ [Next]_vars => TransferInv'
<1> SUFFICES ASSUME TransferInv, [Next]_vars PROVE TransferInv'
  OBVIOUS
<1>1. ASSUME NEW n \in 0..MaxSize, copy_read(n) \/ copy_write(n) PROVE TransferInv'
  <2>1. n \in Nat
    BY TransferAssumption
  <2> QED  BY <1>1, <2>1, BeginsInv
<1>2. CASE UNCHANGED vars
  BY <1>2 DEF vars, TransferInv, Types, RpcTimes, InOnce, InLoop, ReadSoFar, WrittenSoFar,
              CopiesInside, ReadDelivers, WriteDelivers, SuccessReported, Returned
<1> QED  BY <1>1, <1>2, ReadOnceInv, ReadChunkInv, WriteOnceInv, WriteChunkInv DEF Next

LEMMA TransferInit == Init => TransferInv
<1> SUFFICES ASSUME Init PROVE TransferInv
  OBVIOUS
<1>1. PICK n \in 0..MaxSize : file = Bytes("file", n)
  BY DEF Init
<1>2. file \in Seq(Byte)
  <2>1. \A i \in 1..n : <<"file", i>> \in Byte
    BY DEF Byte
  <2>2. file \in [1..n -> Byte] /\ n \in Nat
    BY <1>1, <2>1, TransferAssumption DEF Bytes
  <2> QED  BY <2>2, SeqDef
<1>3. buf \in Seq(Byte) /\ Len(buf) = 0
  BY EmptySeq DEF Init
<1>4. bufCache \in Seq(Byte) /\ Len(bufCache) = 1
  BY DEF Init, Junk, Byte
<1>5. RpcTimes = 1
  BY TransferAssumption DEF Init, RpcTimes
<1>6. fault \in BOOLEAN
  BY DEF Init
<1>7. Types
  BY <1>2, <1>3, <1>4, <1>5, <1>6, TransferAssumption DEF Init, Types
<1>8. InOnce /\ InLoop /\ ReadSoFar /\ WrittenSoFar /\ CopiesInside
  BY DEF Init, InOnce, InLoop, ReadSoFar, WrittenSoFar, CopiesInside
<1>9. ReadDelivers /\ WriteDelivers /\ SuccessReported
  BY DEF Init, ReadDelivers, WriteDelivers, SuccessReported, Returned
<1> QED  BY <1>7, <1>8, <1>9 DEF TransferInv

\* The invariant of the loops of copy_read and copy_write.
THEOREM TransferInvariant == Spec => []TransferInv
BY TransferInit, TransferNext, PTL DEF Spec

\* The counters, the place in the buffer and the buffers keep their bounds.
THEOREM LoopTypeCorrect == Spec => []LoopTypeOK
<1>1. TransferInv => LoopTypeOK
  BY DEF TransferInv, Types, LoopTypeOK
<1> QED  BY <1>1, TransferInvariant, PTL

\* The chunks are copied inside of the buffers, unless a call of the loop failed.
THEOREM CopiesInsideHolds == Spec => []CopiesInside
<1>1. TransferInv => CopiesInside
  BY DEF TransferInv
<1> QED  BY <1>1, TransferInvariant, PTL

\* copy_read delivers the file's first bytes, in order, and says how many.
THEOREM ReadDeliversHolds == Spec => []ReadDelivers
<1>1. TransferInv => ReadDelivers
  BY DEF TransferInv
<1> QED  BY <1>1, TransferInvariant, PTL

\* copy_write puts the bytes it counts in the file, in order, and no others.
THEOREM WriteDeliversHolds == Spec => []WriteDelivers
<1>1. TransferInv => WriteDelivers
  BY DEF TransferInv
<1> QED  BY <1>1, TransferInvariant, PTL

\* A transfer in which nothing failed is reported complete.
THEOREM SuccessReportedHolds == Spec => []SuccessReported
<1>1. TransferInv => SuccessReported
  BY DEF TransferInv
<1> QED  BY <1>1, TransferInvariant, PTL
=======================================================================================
