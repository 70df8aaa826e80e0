----------------------------- MODULE FlatMemory -----------------------------
(***************************************************************************)
(* What guest memory promises its callers: one byte per RAM address, zero  *)
(* until written, and a device window above it.  A scalar access that      *)
(* starts in the window is one device access of its width; every other     *)
(* access is made of its bytes, in address order, wrapping at the top of   *)
(* the address space.  Memory is shown to implement this with lazily       *)
(* allocated pages and fast paths.                                         *)
(***************************************************************************)
EXTENDS Bus

VARIABLES
  ram,    \* a byte for every RAM address
  brk,    \* the program break
  req,    \* the request in progress, or None
  resp    \* the response the caller has not taken yet, or None

vars == <<ram, brk, req, resp>>

Init ==
  /\ ram = [a \in RamAddr |-> 0]
  /\ brk = InitialBrk
  /\ req = None
  /\ resp = None

Width == [op \in Ops |-> CASE op \in {"read_u8", "write_u8"}   -> 1
                           [] op \in {"read_u16", "write_u16"} -> 2
                           [] OTHER                            -> 4]

\* The n addresses from a on.
Span(a, n) == [i \in 1 .. n |-> wrapping_add(a, i - 1)]

InWindow(a) == a >= MMIO_BASE

ByteAt(a, dev) == IF InWindow(a) THEN dev[a] % Base ELSE ram[a]

Bytes(a, n, dev) == [i \in 1 .. n |-> ByteAt(Span(a, n)[i], dev)]

ByteReads(a, n) ==
  LET window == SelectSeq(Span(a, n), InWindow)
  IN  [i \in DOMAIN window |-> DeviceRead(window[i], 1)]

\* A scalar of n bytes at a: its value and the device reads it costs.
Scalar(a, n, dev) ==
  IF InWindow(a) THEN dev[a] % Base ^ n ELSE from_le_bytes(Bytes(a, n, dev))

ScalarReads(a, n) ==
  IF InWindow(a) THEN <<DeviceRead(a, n)>> ELSE ByteReads(a, n)

Respond(values, io) == req' = None /\ resp' = Response(values, io)

\* A caller makes a request; the caller has its answer.
Ask ==
  /\ req = None
  /\ resp = None
  /\ req' \in Requests
  /\ UNCHANGED <<ram, brk, resp>>

Return ==
  /\ resp # None
  /\ resp' = None
  /\ UNCHANGED <<ram, brk, req>>

Read ==
  /\ req.op \in {"read_u8", "read_u16", "read_u32"}
  /\ \E dev \in Device :
       LET n == Width[req.op]
       IN  Respond(<<Scalar(req.addr, n, dev)>>, ScalarReads(req.addr, n))
  /\ UNCHANGED <<ram, brk>>

ReadBytes ==
  /\ req.op = "read_bytes"
  /\ \E dev \in Device :
       Respond(Bytes(req.addr, req.len, dev), ByteReads(req.addr, req.len))
  /\ UNCHANGED <<ram, brk>>

\* Store `data` byte by byte from `a` on.
Store(a, data) ==
  LET span   == Span(a, Len(data))
      window == SelectSeq([i \in DOMAIN data |-> <<span[i], data[i]>>],
                          LAMBDA p : InWindow(p[1]))
  IN  /\ ram' = [b \in RamAddr |->
                   IF \E i \in DOMAIN data : span[i] = b
                   THEN data[CHOOSE i \in DOMAIN data : span[i] = b]
                   ELSE ram[b]]
      /\ Respond(<<>>, [i \in DOMAIN window |->
                          DeviceWrite(window[i][1], 1, window[i][2])])

Write ==
  /\ req.op \in {"write_u8", "write_u16", "write_u32"}
  /\ LET n == Width[req.op]
     IN  IF InWindow(req.addr)
         THEN /\ Respond(<<>>, <<DeviceWrite(req.addr, n, req.data[1])>>)
              /\ UNCHANGED ram
         ELSE Store(req.addr, to_le_bytes(req.data[1], n))
  /\ UNCHANGED brk

WriteBytes ==
  /\ req.op = "write_bytes"
  /\ Store(req.addr, req.data)
  /\ UNCHANGED brk

\* The halfword at addr always; the word as well, but only where no byte of
\* it is a device's.
FetchWindow ==
  /\ req.op = "fetch_window"
  /\ \E dev \in Device :
       LET half == ScalarReads(req.addr, 2)
       IN  \/ Respond(<<Scalar(req.addr, 2, dev), FALSE>>, half)
           \/ /\ ScalarReads(req.addr, 4) = <<>>
              /\ Respond(<<Scalar(req.addr, 4, dev), TRUE>>, half)
  /\ UNCHANGED <<ram, brk>>

\* The instruction at addr, 16 or 32 bits of it.
Fetch ==
  /\ req.op = "fetch"
  /\ \E dev \in Device :
       LET a == req.addr
       IN  IF IsWideInst(Scalar(a, 2, dev))
           THEN Respond(<<Scalar(a, 4, dev)>>,
                        ScalarReads(a, 2) \o ScalarReads(a, 4))
           ELSE Respond(<<Scalar(a, 2, dev)>>, ScalarReads(a, 2))
  /\ UNCHANGED <<ram, brk>>

\* The break moves only within the heap.
SetBrk ==
  /\ req.op = "set_brk"
  /\ brk' = IF req.addr \in InitialBrk .. MMIO_BASE - 1 THEN req.addr ELSE brk
  /\ Respond(<<>>, <<>>)
  /\ UNCHANGED ram

GetBrk ==
  /\ req.op = "get_brk"
  /\ Respond(<<brk>>, <<>>)
  /\ UNCHANGED <<ram, brk>>

Serve ==
  /\ req # None
  /\ \/ Read \/ ReadBytes \/ Write \/ WriteBytes
     \/ FetchWindow \/ Fetch \/ SetBrk \/ GetBrk

Next == Ask \/ Serve \/ Return

Spec == Init /\ [][Next]_vars
=============================================================================
