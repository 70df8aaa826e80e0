------------------------------- MODULE Loader -------------------------------
(***************************************************************************)
(* How a process starts: the command line (SimConfig, cli.rs) and the      *)
(* image (load_binary_with_args, lib.rs) become registers, memory, symbols *)
(* and a pc.  goblin's parser is not under src: an image is what it hands  *)
(* over.                                                                   *)
(***************************************************************************)
EXTENDS Bus, SequencesExt

CONSTANTS
  LoadBase,     \* where sections without an address go, 0x10000 in the code
  NumRegs       \* 32 in the code

ASSUME LoadBaseAssumption == LoadBase \in RamAddr \ {0} /\ NumRegs \in Nat

-----------------------------------------------------------------------------
(* The command line.  An argument is [flag, kv]: "-" is a flag of no       *)
(* meaning, "word" is no flag, and kv is the register and value it spells  *)
(* after its flag and "=", or by itself; a number that cannot be read is   *)
(* zero.                                                                   *)

IsFlag(arg)  == arg.flag # "word"

DefaultConfig ==
  [binary_path |-> None, isa_string |-> None, register_inits |-> <<>>,
   is_interactive |-> FALSE, is_newlib |-> FALSE]


parse_setreg(config, kv) ==
  IF kv # None /\ kv.reg > 0 /\ kv.reg < NumRegs
  THEN [config EXCEPT !.register_inits = Append(@, kv)] ELSE config

\* The text of an argument names a register only if no flag comes before it.
ValueText(arg) == IF IsFlag(arg) THEN None ELSE arg.kv

\* One turn of the loop of parse_args; s is the index and the configuration.
parse_one(args, s) ==
  LET arg      == args[s.i]
      has_next == s.i < Len(args)
      next     == args[s.i + 1]
      c        == s.config
      keep(d)  == [i |-> s.i + 1, config |-> d]
      skip(d)  == [i |-> s.i + 2, config |-> d]
  IN  CASE arg.flag = "--newlib" ->
             IF has_next /\ ~IsFlag(next)
             THEN skip([c EXCEPT !.is_newlib = TRUE, !.binary_path = next])
             ELSE keep([c EXCEPT !.is_newlib = TRUE])
        [] arg.flag = "--isa" ->
             IF has_next THEN skip([c EXCEPT !.isa_string = next]) ELSE keep(c)
        [] arg.flag = "--setreg" /\ arg.kv # None ->
             keep(parse_setreg(c, arg.kv))
        [] arg.flag = "--setreg" /\ arg.kv = None ->
             IF has_next THEN skip(parse_setreg(c, ValueText(next)))
             ELSE keep(c)
        [] arg.flag = "--interactive" ->
             keep([c EXCEPT !.is_interactive = TRUE])
        [] arg.flag = "-" ->
             keep(IF c.binary_path = None
                  THEN [c EXCEPT !.binary_path = arg] ELSE c)
        [] arg.flag = "word" -> keep(c)

parse_args(args) ==
  LET turn[n \in 0 .. Len(args)] ==
        IF n = 0 THEN [i |-> 1, config |-> DefaultConfig]
        ELSE LET s == turn[n - 1]
             IN  IF s.i <= Len(args) THEN parse_one(args, s) ELSE s
  IN  turn[Len(args)].config

\* Cpu::new, and write_reg of each register_inits in turn.
initial_regs(config) ==
  FoldLeft(LAMBDA r, kv : [r EXCEPT ![kv.reg] = kv.val],
           [r \in 0 .. NumRegs - 1 |-> 0], config.register_inits)

-----------------------------------------------------------------------------
(* The image: [elf, entry, segments, sections, syms, bytes].  `in_file`    *)
(* says that the bytes of a segment or a section lie in the file.          *)

\* write_bytes; what falls into the window goes to the device.
put(ram, a, bytes) ==
  [b \in RamAddr |-> LET i == 1 + ((b + Size - a) % Size)
                     IN  IF i \in DOMAIN bytes THEN bytes[i] ELSE ram[b]]

ZeroRam == [a \in RamAddr |-> 0]
NoSymbols == [a \in Addr |-> None]

load_segment(ram, seg) ==
  IF seg.load /\ seg.in_file THEN put(ram, seg.vaddr, seg.bytes) ELSE ram

\* Alignments are powers of two.
align_up(a, align) == ((a + align - 1) - ((a + align - 1) % align)) % Size

is_placed(sec) == sec.size > 0 /\ (sec.alloc \/ sec.type = "progbits")

\* Mutant: nothing is recorded for a section that is not placed.
PlaceNoHole(s, sec) ==
  LET at == IF sec.addr # 0 THEN sec.addr
            ELSE align_up(s.next, IF sec.align > 0 THEN sec.align ELSE 4)
  IN  IF ~is_placed(sec) THEN s
      ELSE [next  |-> IF sec.addr # 0 THEN s.next
                      ELSE wrapping_add(at, sec.size),
            addrs |-> Append(s.addrs, at),
            ram   |-> IF sec.type # "nobits" /\ sec.in_file
                      THEN put(s.ram, at, sec.bytes) ELSE s.ram]

\* s is current_addr, section_addrs and the memory so far.
place_section(s, sec) ==
  LET at == IF sec.addr # 0 THEN sec.addr
            ELSE align_up(s.next, IF sec.align > 0 THEN sec.align ELSE 4)
  IN  IF ~is_placed(sec) THEN [s EXCEPT !.addrs = Append(@, 0)]
      ELSE [next  |-> IF sec.addr # 0 THEN s.next
                      ELSE wrapping_add(at, sec.size),
            addrs |-> Append(s.addrs, at),
            ram   |-> IF sec.type # "nobits" /\ sec.in_file
                      THEN put(s.ram, at, sec.bytes) ELSE s.ram]

place_sections(image) ==
  FoldLeft(place_section, [next |-> LoadBase, addrs |-> <<>>, ram |-> ZeroRam],
           image.sections)

\* Symbols of an executable have their addresses, those of an object file
\* offsets in their sections.  s is the table and the entry point so far.
add_symbol(table, sym) ==
  IF sym.name # "" /\ sym.value # 0
  THEN [table EXCEPT ![sym.value] = sym.name] ELSE table

place_symbol(addrs, s, sym) ==
  LET base == IF sym.shndx < Len(addrs) THEN addrs[sym.shndx + 1] ELSE LoadBase
      addr == wrapping_add(base, sym.value)
  IN  IF sym.name = "" THEN s
      ELSE [table |-> [s.table EXCEPT ![addr] = sym.name],
            entry |-> IF sym.name \in {"_start", "main"} /\ s.entry = 0
                      THEN addr ELSE s.entry]

\* The first _start that has a value stands in for e_entry.
start_symbols(image) ==
  SelectSeq(image.syms, LAMBDA s : s.name = "_start" /\ s.value # 0)
entry_override(image, entry) ==
  IF image.entry # 0 /\ start_symbols(image) # <<>>
  THEN start_symbols(image)[1].value ELSE entry

\* What load_binary_with_args makes of an image.
load(image) ==
  LET placed == place_sections(image)
      named  == FoldLeft(LAMBDA s, sym : place_symbol(placed.addrs, s, sym),
                         [table |-> NoSymbols, entry |-> image.entry],
                         image.syms)
  IN  IF ~image.elf
      THEN [ram |-> put(ZeroRam, 0, image.bytes), symbols |-> NoSymbols,
            pc |-> 0]
      ELSE IF image.segments # <<>>
      THEN [ram |-> FoldLeft(load_segment, ZeroRam, image.segments),
            symbols |-> FoldLeft(add_symbol, NoSymbols, image.syms),
            pc |-> entry_override(image, image.entry)]
      ELSE [ram |-> placed.ram, symbols |-> named.table,
            pc |-> entry_override(image, IF named.entry = 0 THEN LoadBase
                                         ELSE named.entry)]
=============================================================================
