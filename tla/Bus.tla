-------------------------------- MODULE Bus ---------------------------------
(***************************************************************************)
(* What the two descriptions of guest memory share: the address space, the *)
(* little-endian encoding, the requests a caller may make through          *)
(* MemoryOps (memory.rs) and the record of what reached the devices.       *)
(*                                                                         *)
(* The last page of the address space is the MMIO window.  The device      *)
(* behind it is the host's: a request sees one function `dev` from         *)
(* addresses to whatever js_read_mmio answers there, of any size.          *)
(***************************************************************************)
EXTENDS Naturals, Sequences

CONSTANTS
  PageSize,    \* 2^16 in the code
  NumPages,    \* 2^16 in the code
  Base,        \* values of a byte, 2^8 in the code
  InitialBrk,  \* where the heap starts, 16 MB in the code
  Device,      \* the answers the devices may give to one request
  Requests,    \* the requests callers make
  None         \* no page, no request, no response

Size      == PageSize * NumPages
MMIO_BASE == PageSize * (NumPages - 1)
Addr      == 0 .. Size - 1
RamAddr   == 0 .. MMIO_BASE - 1
MmioAddr  == MMIO_BASE .. Size - 1
Byte      == 0 .. Base - 1

Ops == {"read_u8", "read_u16", "read_u32", "write_u8", "write_u16",
        "write_u32", "read_bytes", "write_bytes", "fetch_window", "fetch",
        "set_brk", "get_brk"}

\* `len` is the length read_bytes asks for; `data` is the bytes write_bytes
\* is given, or the one value of a scalar write.
Request == [op : Ops, addr : Addr, len : 0 .. Size, data : Seq(Nat)]

ASSUME PageAssumption    == PageSize \in Nat \ {0} /\ PageSize % 4 = 0
ASSUME PagesAssumption   == NumPages \in Nat \ {0, 1}
ASSUME BaseAssumption    == Base \in Nat \ {0} /\ Base % 4 = 0
ASSUME BrkAssumption     == InitialBrk \in RamAddr
ASSUME DeviceAssumption  == Device \subseteq [MmioAddr -> Nat] /\ Device # {}
ASSUME RequestAssumption == Requests \subseteq Request
ASSUME NoneAssumption    == None \notin Requests

\* u32::wrapping_add on addresses.
wrapping_add(a, n) == (a + n) % Size

\* from_le_bytes, and the shifts of the byte-by-byte paths.
from_le_bytes(b) ==
  LET value[i \in 0 .. Len(b)] ==
        IF i = 0 THEN 0 ELSE value[i - 1] + b[i] * Base ^ (i - 1)
  IN  value[Len(b)]

to_le_bytes(v, n) == [i \in 1 .. n |-> (v \div Base ^ (i - 1)) % Base]

\* The host calls js_read_mmio(addr, size) and js_write_mmio(addr, size, val).
DeviceRead(a, n)     == [dir |-> "read", addr |-> a, size |-> n, val |-> 0]
DeviceWrite(a, n, v) == [dir |-> "write", addr |-> a, size |-> n, val |-> v]

\* The two low bits that mark a 32-bit instruction.
IsWideInst(inst16) == inst16 % 4 = 3

\* A response: the values returned, and the device accesses made, in order.
Response(values, io) == [values |-> values, io |-> io]
=============================================================================
