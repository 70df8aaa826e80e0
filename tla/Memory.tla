------------------------------- MODULE Memory -------------------------------
(***************************************************************************)
(* `Memory` of memory.rs: a vector of pages allocated on first write, the  *)
(* program break, and the accesses of MemoryOps with their fast paths (one *)
(* page lookup when the access cannot leave its page) and their            *)
(* byte-by-byte paths.  Requests come from the executors, the system calls *)
(* and the debugger; each is served in one step.                           *)
(***************************************************************************)
EXTENDS Bus

VARIABLES
  pages,       \* a page of bytes or None for every page index
  brk_ptr,
  req,
  resp

vars == <<pages, brk_ptr, req, resp>>

Offset == 0 .. PageSize - 1

ZeroPage == [o \in Offset |-> 0]

Init ==
  /\ pages = [p \in 0 .. NumPages - 1 |-> None]
  /\ brk_ptr = InitialBrk
  /\ req = None
  /\ resp = None

idx_of(a)    == a \div PageSize
offset_of(a) == a % PageSize

\* get_or_create_page and get_page: what is in the page, created or not.
PageIn(pgs, p) == IF pgs[p] = None THEN ZeroPage ELSE pgs[p]

-----------------------------------------------------------------------------
(* Reads.  A result holds the value and the device reads made.             *)

Got(val, io) == [val |-> val, io |-> io]

read_u8(a, dev) ==
  IF a >= MMIO_BASE THEN Got(dev[a] % Base, <<DeviceRead(a, 1)>>)
  ELSE Got(PageIn(pages, idx_of(a))[offset_of(a)], <<>>)

\* n calls of read_u8 from a on, in order.
read_each(a, n, dev) ==
  LET each[i \in 0 .. n] ==
        IF i = 0 THEN Got(<<>>, <<>>)
        ELSE LET prev == each[i - 1]
                 b    == read_u8(wrapping_add(a, i - 1), dev)
             IN  Got(Append(prev.val, b.val), prev.io \o b.io)
  IN  each[n]

\* The slice of n bytes at offset o of page p.
slice(p, o, n) == [i \in 1 .. n |-> PageIn(pages, p)[o + i - 1]]

\* The test of the fast path: aligned, or inside the page.
in_one_page(a, n) == a % n = 0 \/ offset_of(a) + (n - 1) < PageSize

\* read_u16 and read_u32.
read_scalar(a, n, dev) ==
  IF a >= MMIO_BASE THEN Got(dev[a] % Base ^ n, <<DeviceRead(a, n)>>)
  ELSE IF in_one_page(a, n)
  THEN Got(from_le_bytes(slice(idx_of(a), offset_of(a), n)), <<>>)
  ELSE LET each == read_each(a, n, dev)
       IN  Got(from_le_bytes(each.val), each.io)

read_u16(a, dev) == read_scalar(a, 2, dev)
read_u32(a, dev) == read_scalar(a, 4, dev)

\* Mutant: the whole window is read at a page edge too.
BlindWindow(a, dev) ==
  LET word == read_u32(a, dev) IN Got(<<word.val, TRUE>>, word.io)

\* The instruction window and whether its upper half is valid.
fetch_window(a, dev) ==
  IF a < MMIO_BASE /\ offset_of(a) + 3 < PageSize
  THEN IF pages[idx_of(a)] # None
       THEN Got(<<from_le_bytes(slice(idx_of(a), offset_of(a), 4)), TRUE>>,
                <<>>)
       ELSE Got(<<0, FALSE>>, <<>>)
  ELSE LET half == read_u16(a, dev) IN Got(<<half.val, FALSE>>, half.io)

\* The fetch of both run loops: the low halfword decides the length, and a
\* 32-bit instruction is read again when the window does not hold it.
fetch(a, dev) ==
  LET window == fetch_window(a, dev)
      inst16 == window.val[1] % Base ^ 2
      word   == read_u32(a, dev)
  IN  IF ~IsWideInst(inst16) THEN Got(inst16, window.io)
      ELSE IF window.val[2] THEN Got(window.val[1], window.io)
      ELSE Got(word.val, window.io \o word.io)

bytes_in_page(a, left) ==
  LET room == PageSize - offset_of(a) IN IF room <= left THEN room ELSE left

\* Page by page up to the window; byte by byte from there on.
read_bytes(a, len, dev) ==
  LET from[done \in 0 .. len] ==
        LET curr == wrapping_add(a, done)
            left == len - done
            n    == bytes_in_page(curr, left)
            rest == from[done + n]
        IN  IF left = 0 THEN Got(<<>>, <<>>)
            ELSE IF curr >= MMIO_BASE THEN read_each(curr, left, dev)
            ELSE Got(slice(idx_of(curr), offset_of(curr), n) \o rest.val,
                     rest.io)
  IN  from[0]

-----------------------------------------------------------------------------
(* Writes.  A result holds the pages and the device writes made.           *)

Put(pgs, io) == [pages |-> pgs, io |-> io]

\* copy_from_slice into page p at offset o, creating the page.
put_slice(pgs, p, o, bytes) ==
  [pgs EXCEPT ![p] =
     [k \in Offset |-> IF k \in o .. o + Len(bytes) - 1 THEN bytes[k - o + 1]
                       ELSE PageIn(pgs, p)[k]]]

\* Mutant: a byte store does not look for the window.
WriteByteToPage(pgs, a, v) ==
  Put(put_slice(pgs, idx_of(a), offset_of(a), <<v>>), <<>>)

write_u8(pgs, a, v) ==
  IF a >= MMIO_BASE THEN Put(pgs, <<DeviceWrite(a, 1, v)>>)
  ELSE Put(put_slice(pgs, idx_of(a), offset_of(a), <<v>>), <<>>)

\* Mutant: the address of a byte does not wrap at the top.
WriteEachPastTop(pgs, a, bytes) ==
  LET each[i \in 0 .. Len(bytes)] ==
        IF i = 0 THEN Put(pgs, <<>>)
        ELSE LET prev == each[i - 1]
                 w    == write_u8(prev.pages, a + i - 1, bytes[i])
             IN  Put(w.pages, prev.io \o w.io)
  IN  each[Len(bytes)]

\* One call of write_u8 for each of the bytes, in order.
write_each(pgs, a, bytes) ==
  LET each[i \in 0 .. Len(bytes)] ==
        IF i = 0 THEN Put(pgs, <<>>)
        ELSE LET prev == each[i - 1]
                 w    == write_u8(prev.pages, wrapping_add(a, i - 1), bytes[i])
             IN  Put(w.pages, prev.io \o w.io)
  IN  each[Len(bytes)]

\* write_u16 and write_u32.
write_scalar(a, n, v) ==
  IF a >= MMIO_BASE THEN Put(pages, <<DeviceWrite(a, n, v)>>)
  ELSE IF in_one_page(a, n)
  THEN Put(put_slice(pages, idx_of(a), offset_of(a), to_le_bytes(v, n)), <<>>)
  ELSE write_each(pages, a, to_le_bytes(v, n))

write_u16(a, v) == write_scalar(a, 2, v)
write_u32(a, v) == write_scalar(a, 4, v)

\* Where in `len` bytes the chunks that are copied at once start: page by
\* page up to the window, and the rest in one.
chunks(a, len) ==
  LET from[done \in 0 .. len] ==
        LET curr == wrapping_add(a, done)
        IN  IF done = len THEN <<>>
            ELSE IF curr >= MMIO_BASE THEN <<done>>
            ELSE <<done>> \o from[done + bytes_in_page(curr, len - done)]
  IN  from[0]

write_bytes(a, bytes) ==
  LET len    == Len(bytes)
      starts == chunks(a, len)
      copy(pgs, done) ==
        LET curr == wrapping_add(a, done)
            n    == bytes_in_page(curr, len - done)
        IN  IF curr >= MMIO_BASE
            THEN write_each(pgs, curr, SubSeq(bytes, done + 1, len))
            ELSE Put(put_slice(pgs, idx_of(curr), offset_of(curr),
                               SubSeq(bytes, done + 1, done + n)), <<>>)
      each[i \in 0 .. Len(starts)] ==
        IF i = 0 THEN Put(pages, <<>>)
        ELSE LET prev == each[i - 1]
                 w    == copy(prev.pages, starts[i])
             IN  Put(w.pages, prev.io \o w.io)
  IN  each[Len(starts)]

-----------------------------------------------------------------------------
(* One action per operation.                                               *)

\* A caller makes a request; the caller has its answer.
Ask ==
  /\ req = None
  /\ resp = None
  /\ req' \in Requests
  /\ UNCHANGED <<pages, brk_ptr, resp>>

Return ==
  /\ resp # None
  /\ resp' = None
  /\ UNCHANGED <<pages, brk_ptr, req>>

\* The end of an operation that reads.
Reads(values, io) ==
  /\ req' = None
  /\ resp' = Response(values, io)
  /\ UNCHANGED <<pages, brk_ptr>>

\* The end of an operation that writes.
Writes(w) ==
  /\ req' = None
  /\ resp' = Response(<<>>, w.io)
  /\ pages' = w.pages
  /\ UNCHANGED brk_ptr

ReadU8 ==
  /\ req.op = "read_u8"
  /\ \E dev \in Device :
       LET r == read_u8(req.addr, dev) IN Reads(<<r.val>>, r.io)

ReadU16 ==
  /\ req.op = "read_u16"
  /\ \E dev \in Device :
       LET r == read_u16(req.addr, dev) IN Reads(<<r.val>>, r.io)

ReadU32 ==
  /\ req.op = "read_u32"
  /\ \E dev \in Device :
       LET r == read_u32(req.addr, dev) IN Reads(<<r.val>>, r.io)

ReadBytes ==
  /\ req.op = "read_bytes"
  /\ \E dev \in Device :
       LET r == read_bytes(req.addr, req.len, dev) IN Reads(r.val, r.io)

FetchWindow ==
  /\ req.op = "fetch_window"
  /\ \E dev \in Device :
       LET r == fetch_window(req.addr, dev) IN Reads(r.val, r.io)

Fetch ==
  /\ req.op = "fetch"
  /\ \E dev \in Device :
       LET r == fetch(req.addr, dev) IN Reads(<<r.val>>, r.io)

WriteU8 ==
  /\ req.op = "write_u8"
  /\ Writes(write_u8(pages, req.addr, req.data[1]))

WriteU16 ==
  /\ req.op = "write_u16"
  /\ Writes(write_u16(req.addr, req.data[1]))

WriteU32 ==
  /\ req.op = "write_u32"
  /\ Writes(write_u32(req.addr, req.data[1]))

WriteBytes ==
  /\ req.op = "write_bytes"
  /\ Writes(write_bytes(req.addr, req.data))

\* Mutant: the break may move below where the heap starts.
SetBrkAnywhere ==
  /\ req.op = "set_brk"
  /\ brk_ptr' = IF req.addr < MMIO_BASE THEN req.addr ELSE brk_ptr
  /\ req' = None
  /\ resp' = Response(<<>>, <<>>)
  /\ UNCHANGED pages

SetBrk ==
  /\ req.op = "set_brk"
  /\ brk_ptr' = IF req.addr >= InitialBrk /\ req.addr < MMIO_BASE
                THEN req.addr ELSE brk_ptr
  /\ req' = None
  /\ resp' = Response(<<>>, <<>>)
  /\ UNCHANGED pages

GetBrk ==
  /\ req.op = "get_brk"
  /\ Reads(<<brk_ptr>>, <<>>)

Serve ==
  /\ req # None
  /\ \/ ReadU8 \/ ReadU16 \/ ReadU32 \/ ReadBytes \/ FetchWindow \/ Fetch
     \/ WriteU8 \/ WriteU16 \/ WriteU32 \/ WriteBytes \/ SetBrk \/ GetBrk

Next == Ask \/ Serve \/ Return

Spec == Init /\ [][Next]_vars

-----------------------------------------------------------------------------
\* The pages hold bytes, the break stays in the heap and below the window.
TypeOK ==
  /\ pages \in [0 .. NumPages - 1 -> [Offset -> Byte] \union {None}]
  /\ brk_ptr \in InitialBrk .. MMIO_BASE - 1
  /\ req \in Requests \union {None}
  /\ resp # None => resp.io \in Seq([dir : {"read", "write"}, addr : MmioAddr,
                                     size : {1, 2, 4}, val : Nat])

\* The window's page is never backed by RAM, so no store that belongs to a
\* device can be answered from a page (the checks against MMIO_BASE).
WindowNeverBacked == pages[NumPages - 1] = None

\* The bytes the pages stand for: an unallocated page reads as zeros.
flat_ram == [a \in RamAddr |-> PageIn(pages, idx_of(a))[offset_of(a)]]

Flat == INSTANCE FlatMemory WITH ram <- flat_ram, brk <- brk_ptr

\* Paged memory with its fast paths is indistinguishable from one array of
\* bytes below a device window: same values, same device accesses in the
\* same order, whatever page edges the accesses meet.
FlatSpec == Flat!Spec

\* Fetching an instruction whose bytes are all RAM reads no device, however
\* close to the window it lies (the comment in fetch_window: "widening the
\* read here could trigger a device read the guest never performed").
FetchReadsNoDevice ==
  [][ /\ req # None /\ req' = None
      /\ req.op \in {"fetch", "fetch_window"}
      /\ req.addr + (IF req.op = "fetch" /\ IsWideInst(resp'.values[1])
                     THEN 3 ELSE 1) < MMIO_BASE
      => resp'.io = <<>> ]_vars
=============================================================================
