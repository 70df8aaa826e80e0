------------------------------ MODULE MCMemory ------------------------------
(***************************************************************************)
(* Instances of Memory for TLC: two RAM pages of eight bytes below a       *)
(* window page, bytes of four values.  The addresses asked for lie around  *)
(* the page edge, the edge of the window and the top of the address space. *)
(***************************************************************************)
EXTENDS Memory, FiniteSets

CONSTANT MaxWritten   \* bound on the RAM bytes that are not zero

Targets == {3, 6, 7, 14, 15, 16, 23}

Ask1(op, a, len, data) ==
  [op |-> op, addr |-> a, len |-> len, data |-> data]

\* 91 is <<3, 2, 1, 1>>, the start of a 32-bit instruction; 6 is <<2, 1>>.
SomeRequests ==
  {Ask1(op, a, 0, <<>>) : op \in {"read_u8", "read_u16", "read_u32",
                                  "fetch_window", "fetch"},
                          a \in Targets}
  \union {Ask1("write_u8", a, 0, <<3>>) : a \in Targets}
  \union {Ask1("write_u16", a, 0, <<6>>) : a \in Targets}
  \union {Ask1("write_u32", a, 0, <<91>>) : a \in Targets}
  \union {Ask1("read_bytes", a, n, <<>>) : a \in Targets, n \in {0, 12}}
  \union {Ask1("write_bytes", a, 0, b) : a \in Targets,
                                         b \in {<<>>, <<1, 2, 3>>}}
  \union {Ask1("set_brk", a, 0, <<>>) : a \in {4, 15, 16}}
  \union {Ask1("get_brk", 0, 0, <<>>)}

\* Enough for a 32-bit instruction at every byte, or answers too large for
\* the access.
SomeDevices == {[a \in MmioAddr |-> 91], [a \in MmioAddr |-> 260 + a]}

\* Writes that reach RAM on both sides of a page edge and of the top.
FewWritten == Cardinality({a \in RamAddr : flat_ram[a] # 0}) <= MaxWritten
=============================================================================
