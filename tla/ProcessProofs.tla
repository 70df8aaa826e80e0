--------------------------- MODULE ProcessProofs ----------------------------
(***************************************************************************)
(* Proofs about the streams of a process, for every memory, buffer, input, *)
(* size of reads, image and other call.                                    *)
(***************************************************************************)
EXTENDS Process, SequenceTheorems, TLAPS

\* Facts about sequences take the solver longer than its usual five seconds.
USE SMTT(30)

\* Three pieces of a stream may be put together from either end.
LEMMA Regroup ==
  \A s, t, u \in Seq(Byte) : (s \o t) \o u = s \o (t \o u)
<1> TAKE s, t, u \in Seq(Byte)
<1> QED
  BY ConcatAssociative

USE PageAssumption, PagesAssumption, ProcessAssumption, CallsAssumption

\* The window is above the memory.
LEMMA Sizes == MMIO_BASE \in Nat /\ Size \in Nat /\ MMIO_BASE < Size
<1>1. PageSize \in Nat /\ PageSize > 0 /\ NumPages \in Nat /\ NumPages > 1
  OBVIOUS
<1>2. Size = MMIO_BASE + PageSize
  BY <1>1 DEF Size, MMIO_BASE
<1>3. MMIO_BASE \in Nat
  BY <1>1 DEF MMIO_BASE
<1> QED
  BY <1>1, <1>2, <1>3

\* Addresses in range are their own remainders.
LEMMA Wraps ==
  ASSUME NEW n \in 0 .. Size - 1
  PROVE  n % Size = n /\ (n + Size) % Size = n
  BY Sizes

\* Addresses of the buffer are the plain sums.
LEMMA BufAddr ==
  ASSUME NEW i \in 0 .. MaxCount - 1
  PROVE  /\ wrapping_add(Buf, i) = Buf + i
         /\ Buf + i \in RamAddr
<1>1. Buf \in Nat /\ Buf + i \in Nat /\ Buf + i < MMIO_BASE
  BY Sizes DEF RamAddr
<1>2. Buf + i < Size
  BY <1>1, Sizes
<1>3. (Buf + i) % Size = Buf + i
  BY <1>1, <1>2, Sizes
<1> QED
  BY <1>1, <1>3, Sizes DEF wrapping_add, RamAddr

\* What n bytes at the buffer are, whatever the devices answer.
LEMMA BufferBytes ==
  ASSUME NEW n \in 0 .. MaxCount, NEW dev
  PROVE  Mem!Bytes(Buf, n, dev) = [i \in 1 .. n |-> ram[Buf + (i - 1)]]
<1>1. ASSUME NEW i \in 1 .. n
      PROVE  Mem!ByteAt(Mem!Span(Buf, n)[i], dev) = ram[Buf + (i - 1)]
  <2>1. i - 1 \in 0 .. MaxCount - 1
    OBVIOUS
  <2>2. Mem!Span(Buf, n)[i] = Buf + (i - 1)
    BY <2>1, BufAddr DEF Mem!Span, Mem!wrapping_add, Mem!Size, wrapping_add,
       Size
  <2>3. Buf + (i - 1) < MMIO_BASE
    BY <2>1, BufAddr, Sizes DEF RamAddr
  <2>4. ~(Buf + (i - 1) >= MMIO_BASE)
    BY <2>1, <2>3, Sizes DEF RamAddr
  <2> QED
    BY <2>2, <2>4 DEF Mem!ByteAt, Mem!InWindow, Mem!MMIO_BASE, MMIO_BASE
<1> QED
  BY <1>1 DEF Mem!Bytes

\* write_bytes at the buffer writes its bytes there and nothing else.
LEMMA PutAtBuffer ==
  ASSUME NEW mem, NEW bytes \in Seq(Byte), Len(bytes) <= MaxCount
  PROVE  /\ \A i \in 1 .. Len(bytes) :
              put(mem, Buf, bytes)[Buf + (i - 1)] = bytes[i]
         /\ \A b \in RamAddr \ (Buf .. Buf + Len(bytes) - 1) :
              put(mem, Buf, bytes)[b] = mem[b]
<1>0. Len(bytes) \in Nat /\ DOMAIN bytes = 1 .. Len(bytes)
  OBVIOUS
<1>1. ASSUME NEW i \in 1 .. Len(bytes)
      PROVE  put(mem, Buf, bytes)[Buf + (i - 1)] = bytes[i]
  <2>1. i - 1 \in 0 .. MaxCount - 1
    BY <1>0
  <2>2. Buf + (i - 1) \in RamAddr
    BY <2>1, BufAddr
  <2>3. Buf + (i - 1) + Size - Buf = (i - 1) + Size
    BY <2>1, Sizes DEF RamAddr
  <2>4. i - 1 < Size
    BY <2>1, Sizes DEF RamAddr
  <2>5. ((i - 1) + Size) % Size = i - 1
    BY <2>1, <2>4, Sizes
  <2>6. 1 + ((Buf + (i - 1) + Size - Buf) % Size) = i
    BY <2>1, <2>3, <2>5
  <2> QED
    BY <1>0, <2>2, <2>6 DEF put
<1>2. ASSUME NEW b \in RamAddr \ (Buf .. Buf + Len(bytes) - 1)
      PROVE  put(mem, Buf, bytes)[b] = mem[b]
  <2>0. b \in Nat /\ Buf \in Nat /\ b < MMIO_BASE
    BY Sizes DEF RamAddr
  <2>1. CASE b < Buf
    <3>1. b + Size - Buf \in 0 .. Size - 1
      BY <2>0, <2>1, Sizes DEF RamAddr
    <3>2. (b + Size - Buf) % Size = b + Size - Buf
      BY <3>1, Wraps
    <3>3. 1 + (b + Size - Buf) > Len(bytes)
      BY <1>0, <2>0, Sizes
    <3> QED
      BY <1>0, <3>2, <3>3 DEF put
  <2>2. CASE b >= Buf
    <3>1. b - Buf \in 0 .. Size - 1 /\ b + Size - Buf = (b - Buf) + Size
      BY <2>0, <2>2, Sizes
    <3>2. (b + Size - Buf) % Size = b - Buf
      BY <3>1, Wraps
    <3>3. 1 + (b - Buf) > Len(bytes)
      BY <1>0, <2>0, <2>2
    <3> QED
      BY <1>0, <3>2, <3>3 DEF put
  <2> QED
    BY <2>0, <2>1, <2>2
<1> QED
  BY <1>1, <1>2

-----------------------------------------------------------------------------
(* What each of the guest's calls comes to.                                *)

\* The registers after a call hold its answer in a0.
LEMMA Answer ==
  ASSUME NEW c, NEW val, set(c, val)
  PROVE  regs'[A0] = val
<1>1. A0 \in 0 .. NumRegs - 1
  BY LoadBaseAssumption DEF A0, A7
<1> QED
  BY <1>1 DEF set, Args

\* A read goes to SYS_read: the hook leaves it alone.
LEMMA ReadCall ==
  ASSUME NEW count, Read(count)
  PROVE  LET n == lesser(Len(stdin), lesser(count, MaxCount))
         IN  /\ guest = "read"
             /\ stdin' = SubSeq(stdin, n + 1, Len(stdin))
             /\ ram' = put(ram, Buf, SubSeq(stdin, 1, n))
             /\ regs'[A0] = n
             /\ guest' = IF n > 0 THEN "write" ELSE "read"
             /\ UNCHANGED <<stdout, typed>>
<1> DEFINE c == [a7 |-> 63, a0 |-> 0, a1 |-> Buf, a2 |-> count]
           n == lesser(Len(stdin), lesser(count, MaxCount))
<1>1. handle_ecall(c) /\ UNCHANGED typed
  BY DEF Read, ECall
<1>2. c.a7 = 63 /\ c.a1 = Buf /\ c.a2 = count
  OBVIOUS
<1> HIDE DEF c
<1>3. SysRead(c)
  BY <1>1, <1>2 DEF handle_ecall, SysExit, SysWrite, SysBrk, SysNothing,
     SysUnknown, Known
<1>4. /\ stdin' = SubSeq(stdin, n + 1, Len(stdin))
      /\ ram' = put(ram, Buf, SubSeq(stdin, 1, n))
      /\ set(c, n)
      /\ UNCHANGED stdout
  BY <1>2, <1>3 DEF SysRead
<1>5. regs'[A0] = n
  BY <1>4, Answer
<1> QED
  BY <1>1, <1>4, <1>5 DEF Read

\* A write goes to SYS_write.
LEMMA WriteCall ==
  ASSUME Write
  PROVE  /\ guest = "write" /\ guest' = "read"
         /\ \E dev \in Device :
              stdout' = stdout \o Mem!Bytes(Buf, lesser(regs[A0], MaxCount),
                                           dev)
         /\ UNCHANGED <<ram, stdin, typed>>
<1> DEFINE c == [a7 |-> 64, a0 |-> 1, a1 |-> Buf, a2 |-> regs[A0]]
<1>1. handle_ecall(c) /\ UNCHANGED typed
  BY DEF Write, ECall
<1>2. c.a7 = 64 /\ c.a0 = 1 /\ c.a1 = Buf /\ c.a2 = regs[A0]
  OBVIOUS
<1> HIDE DEF c
<1>3. SysWrite(c)
  BY <1>1, <1>2 DEF handle_ecall, SysExit, SysRead, SysBrk, SysNothing,
     SysUnknown, Known
<1>4. /\ \E dev \in Device :
           stdout' = stdout \o Mem!Bytes(Buf, lesser(regs[A0], MaxCount), dev)
      /\ UNCHANGED <<ram, stdin>>
  BY <1>2, <1>3 DEF SysWrite
<1> QED
  BY <1>1, <1>4 DEF Write

\* No other call touches memory or the streams.
LEMMA OtherCall ==
  ASSUME Other
  PROVE  guest = "read" /\ UNCHANGED <<ram, stdin, stdout, typed, guest>>
<1>1. PICK o \in OtherCalls : ECall(o.a7, o.a0, 0, 0)
  BY DEF Other
<1> DEFINE c == [a7 |-> o.a7, a0 |-> o.a0, a1 |-> 0, a2 |-> 0]
<1>2. handle_ecall(c) /\ UNCHANGED typed
  BY <1>1 DEF ECall
<1>3. c.a7 \notin {63, 3, 64, 4}
  OBVIOUS
<1> HIDE DEF c
<1>4. UNCHANGED <<ram, stdin, stdout>>
  BY <1>2, <1>3 DEF handle_ecall, SysExit, SysWrite, SysRead, SysBrk,
     SysNothing, SysUnknown
<1> QED
  BY <1>2, <1>4 DEF Other

-----------------------------------------------------------------------------
(* Nothing typed is lost.                                                  *)

\* What the buffer holds of the input.
Held == IF guest = "write" THEN [i \in 1 .. regs[A0] |-> ram[Buf + (i - 1)]]
        ELSE <<>>

\* The streams are bytes, and what the guest is about to write is a count
\* that was read and is in the buffer.
StreamInv ==
  /\ typed \in Seq(Byte) /\ stdin \in Seq(Byte) /\ stdout \in Seq(Byte)
  /\ guest \in {"read", "write"}
  /\ guest = "write" => regs[A0] \in 0 .. MaxCount
  /\ Held \in Seq(Byte)
  /\ typed = (stdout \o Held) \o stdin

\* A read moves what it takes from the front of the input to the buffer.
LEMMA ReadKeeps ==
  ASSUME StreamInv, NEW count \in Nat, Read(count)
  PROVE  StreamInv'
<1> DEFINE n     == lesser(Len(stdin), lesser(count, MaxCount))
           bytes == SubSeq(stdin, 1, n)
           rest  == SubSeq(stdin, n + 1, Len(stdin))
<1>1. n \in 0 .. MaxCount /\ n \in 0 .. Len(stdin) /\ Len(stdin) \in Nat
  BY DEF lesser, StreamInv
<1>2. /\ guest = "read" /\ stdin' = rest /\ ram' = put(ram, Buf, bytes)
      /\ regs'[A0] = n /\ guest' = IF n > 0 THEN "write" ELSE "read"
      /\ UNCHANGED <<stdout, typed>>
  BY ReadCall
<1> HIDE DEF n
<1>3. /\ bytes \in Seq(Byte) /\ Len(bytes) = n
      /\ rest \in Seq(Byte)
      /\ bytes \o rest = stdin
  <2>1. stdin \in Seq(Byte)
    BY DEF StreamInv
  <2>2. SubSeq(stdin, 1, n) \o SubSeq(stdin, n + 1, Len(stdin))
          = SubSeq(stdin, 1, Len(stdin))
    <3>1. /\ 1 \in 1 .. Len(stdin) + 1 /\ n \in 1 - 1 .. Len(stdin)
          /\ Len(stdin) \in n .. Len(stdin)
      BY <1>1
    <3> QED
      BY <2>1, <3>1, ConcatAdjacentSubSeq, Zenon
  <2>3. SubSeq(stdin, 1, Len(stdin)) = stdin
    BY <2>1, SubSeqFull
  <2>4. \A i \in 1 .. Len(stdin) : stdin[i] \in Byte
    BY <2>1
  <2>5. bytes \in Seq(Byte) /\ Len(bytes) = n
    BY <1>1, <2>4, SubSeqProperties
  <2>6. rest \in Seq(Byte)
    BY <1>1, <2>4, SubSeqProperties
  <2> QED
    BY <2>2, <2>3, <2>5, <2>6, Zenon
<1> HIDE DEF bytes, rest
<1>4. Held' = bytes
  <2>1. CASE n = 0
    <3>1. Held' = <<>>
      BY <1>2, <2>1 DEF Held
    <3>2. bytes = <<>>
      BY <1>3, <2>1, EmptySeq
    <3> QED
      BY <3>1, <3>2
  <2>2. CASE n > 0
    <3>1. Held' = [i \in 1 .. n |-> put(ram, Buf, bytes)[Buf + (i - 1)]]
      BY <1>2, <2>2 DEF Held
    <3>2. \A i \in 1 .. n : put(ram, Buf, bytes)[Buf + (i - 1)] = bytes[i]
      <4>1. Len(bytes) <= MaxCount
        BY <1>1, <1>3
      <4> QED
        BY <1>3, <4>1, PutAtBuffer
    <3>3. bytes = [i \in 1 .. n |-> bytes[i]]
      BY <1>3
    <3> QED
      BY <3>1, <3>2, <3>3
  <2> QED
    BY <1>1, <2>1, <2>2
<1>5. typed = stdout \o stdin /\ stdout \in Seq(Byte) /\ stdin \in Seq(Byte)
  <2>1. Held = <<>>
    BY <1>2 DEF Held
  <2> QED
    BY <2>1, ConcatEmptySeq DEF StreamInv
<1>6. typed = (stdout \o bytes) \o rest
  <2>1. (stdout \o bytes) \o rest = stdout \o (bytes \o rest)
    <3>1. /\ stdout \in Seq(Byte) /\ bytes \in Seq(Byte)
          /\ rest \in Seq(Byte)
      BY <1>3, <1>5
    <3> HIDE DEF bytes, rest
    <3> QED
      BY <3>1, Regroup
  <2> QED
    BY <1>3, <1>5, <2>1
<1> QED
  BY <1>1, <1>2, <1>3, <1>4, <1>6 DEF StreamInv

\* A write moves the buffer to the output, all of it.
LEMMA WriteKeeps ==
  ASSUME StreamInv, Write
  PROVE  StreamInv'
<1>1. guest = "write" /\ guest' = "read" /\ UNCHANGED <<ram, stdin, typed>>
  BY WriteCall
<1>2. regs[A0] \in 0 .. MaxCount
  BY <1>1 DEF StreamInv
<1>3. lesser(regs[A0], MaxCount) = regs[A0]
  BY <1>2 DEF lesser
<1>4. stdout' = stdout \o Held
  BY <1>1, <1>2, <1>3, WriteCall, BufferBytes DEF Held
<1>5. Held' = <<>>
  BY <1>1 DEF Held
<1>6. stdout' \in Seq(Byte)
  BY <1>4, ConcatProperties DEF StreamInv
<1>7. stdout' \o <<>> = stdout'
  BY <1>6, ConcatEmptySeq
<1>8. <<>> \in Seq(Byte)
  BY EmptySeq
<1> QED
  BY <1>1, <1>4, <1>5, <1>6, <1>7, <1>8 DEF StreamInv

\* So do the host's steps and the other calls.
LEMMA StreamStep ==
  ASSUME StreamInv, Next
  PROVE  StreamInv'
<1>1. ASSUME NEW l \in Loads, Load(l[1], l[2]) PROVE StreamInv'
  <2>1. /\ stdout' = <<>> /\ typed' = stdin /\ guest' = "read"
        /\ UNCHANGED stdin
    BY <1>1 DEF Load
  <2>2. Held' = <<>> /\ <<>> \in Seq(Byte)
    BY <2>1, EmptySeq DEF Held
  <2>3. (<<>> \o <<>>) \o stdin = stdin
    BY <2>2, ConcatEmptySeq DEF StreamInv
  <2> QED
    BY <2>1, <2>2, <2>3 DEF StreamInv
<1>2. ASSUME NEW b \in BOOLEAN, SetHasCustomSyscalls(b) PROVE StreamInv'
  BY <1>2 DEF SetHasCustomSyscalls, StreamInv, Held
<1>3. CASE Type
  <2>1. PICK b \in Byte : /\ stdin' = Append(stdin, b)
                          /\ typed' = Append(typed, b)
                          /\ UNCHANGED <<stdout, guest, ram, regs>>
    <3>1. Len(typed) + 1 \in 1 .. Len(Input)
      BY <1>3 DEF Type, StreamInv
    <3>2. Input[Len(typed) + 1] \in Byte
      BY <3>1
    <3> QED
      BY <1>3, <3>2 DEF Type
  <2>2. Held' = Held
    BY <2>1 DEF Held
  <2>3. /\ stdin \in Seq(Byte) /\ stdout \o Held \in Seq(Byte)
        /\ typed \in Seq(Byte) /\ <<b>> \in Seq(Byte)
    BY ConcatProperties DEF StreamInv
  <2>4. stdin' = stdin \o <<b>> /\ typed' = typed \o <<b>>
    BY <2>1, <2>3, AppendIsConcat
  <2>5. typed' = (stdout \o Held) \o stdin'
    <3> DEFINE front == stdout \o Held
    <3>1. front \in Seq(Byte)
      BY <2>3
    <3>2. typed' = (front \o stdin) \o <<b>>
      BY <2>4 DEF StreamInv
    <3> HIDE DEF front
    <3>3. (front \o stdin) \o <<b>> = front \o (stdin \o <<b>>)
      BY <3>1, <2>3, Regroup
    <3>4. typed' = front \o stdin'
      BY <3>2, <3>3, <2>4, Zenon
    <3> QED
      BY <3>4 DEF front
  <2>6. stdin' \in Seq(Byte) /\ typed' \in Seq(Byte)
    BY <2>1, <2>3
  <2> QED
    BY <2>1, <2>2, <2>5, <2>6 DEF StreamInv
<1>4. ASSUME NEW count \in Counts, Read(count) PROVE StreamInv'
  BY <1>4, ReadKeeps
<1>5. CASE Write
  BY <1>5, WriteKeeps
<1>6. CASE Other
  <2>1. guest = "read" /\ UNCHANGED <<ram, stdin, stdout, typed, guest>>
    BY <1>6, OtherCall
  <2>2. Held' = Held
    BY <2>1 DEF Held
  <2> QED
    BY <2>1, <2>2 DEF StreamInv
<1> QED
  BY <1>1, <1>2, <1>3, <1>4, <1>5, <1>6 DEF Next

\* The invariant holds throughout.
LEMMA StreamsKept == Spec => []StreamInv
<1>1. Init => StreamInv
  <2> SUFFICES ASSUME Init PROVE StreamInv
    OBVIOUS
  <2>1. Held = <<>> /\ <<>> \in Seq(Byte)
    BY EmptySeq DEF Init, Held
  <2>2. (<<>> \o <<>>) \o <<>> = <<>>
    BY <2>1, ConcatEmptySeq
  <2> QED
    BY <2>1, <2>2 DEF Init, StreamInv
<1>2. StreamInv /\ [Next]_vars => StreamInv'
  <2> SUFFICES ASSUME StreamInv, [Next]_vars PROVE StreamInv'
    OBVIOUS
  <2>1. CASE UNCHANGED vars
    BY <2>1 DEF vars, hostVars, StreamInv, Held
  <2> QED
    BY <2>1, StreamStep
<1> QED
  BY <1>1, <1>2, PTL DEF Spec

\* Whatever the sizes of its reads and the limit on them, a guest that copies
\* its input to its output loses nothing, repeats nothing and changes
\* nothing, and the host may type, switch its hook and load images meanwhile.
THEOREM InputAlwaysReachesOutput == Spec => []InputReachesOutput
<1>1. StreamInv => InputReachesOutput
  <2> SUFFICES ASSUME StreamInv PROVE InputReachesOutput
    OBVIOUS
  <2>1. Held = IF guest = "write" THEN Mem!Bytes(Buf, regs[A0], <<>>)
               ELSE <<>>
    BY BufferBytes, Zenon DEF StreamInv, Held
  <2> QED
    BY <2>1 DEF StreamInv, InputReachesOutput
<1> QED
  BY <1>1, StreamsKept, PTL

\* No call of the guest changes a byte of memory outside the part of its
\* buffer that the answer to a read counts.
THEOREM ReadAlwaysInBounds == Spec => ReadStaysInBounds
<1>1. StreamInv /\ [Next]_vars =>
        [ loaded' # None /\ ~loaded'.fresh =>
            \A a \in RamAddr : ram'[a] # ram[a] =>
              guest = "read" /\ a \in Buf .. Buf + regs'[A0] - 1 ]_vars
  <2> SUFFICES ASSUME StreamInv, Next, ~loaded'.fresh,
                      NEW a \in RamAddr, ram'[a] # ram[a]
               PROVE  guest = "read" /\ a \in Buf .. Buf + regs'[A0] - 1
    OBVIOUS
  <2>1. ASSUME NEW l \in Loads, Load(l[1], l[2]) PROVE FALSE
    BY <2>1 DEF Load
  <2>2. PICK count \in Counts : Read(count)
    BY <2>1, WriteCall, OtherCall DEF Next, SetHasCustomSyscalls, Type
  <2> DEFINE n     == lesser(Len(stdin), lesser(count, MaxCount))
             bytes == SubSeq(stdin, 1, n)
  <2>3. n \in 0 .. MaxCount /\ n \in 0 .. Len(stdin) /\ Len(stdin) \in Nat
    BY DEF lesser, StreamInv
  <2>4. /\ guest = "read" /\ ram' = put(ram, Buf, bytes) /\ regs'[A0] = n
    BY <2>2, ReadCall
  <2> HIDE DEF n
  <2>5. bytes \in Seq(Byte) /\ Len(bytes) = n
    <3>1. \A i \in 1 .. Len(stdin) : stdin[i] \in Byte
      BY DEF StreamInv
    <3> QED
      BY <2>3, <3>1, SubSeqProperties
  <2> HIDE DEF bytes
  <2>6. a \in Buf .. Buf + n - 1
    <3>1. Len(bytes) <= MaxCount
      BY <2>3, <2>5
    <3> QED
      BY <2>4, <2>5, <3>1, PutAtBuffer
  <2> QED
    BY <2>4, <2>6
<1> QED
  BY <1>1, StreamsKept, PTL DEF Spec, ReadStaysInBounds
=============================================================================
