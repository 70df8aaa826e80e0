------------------------------ MODULE Process -------------------------------
(***************************************************************************)
(* A process and its host: loading (Loader), the system calls of           *)
(* handle_ecall (syscall.rs), and the host's end of the standard streams   *)
(* (host_imports.rs).  Memory is flat, which is what Memory implements.    *)
(*                                                                         *)
(* The guest copies its input to its output: it reads into a buffer and    *)
(* writes what came.  Between two of these calls it may make others, and   *)
(* the host may type, answer custom calls and load another image.          *)
(***************************************************************************)
EXTENDS Loader

CONSTANTS
  Loads,              \* what the host loads: images and their arguments
  Input,              \* what the host types, byte by byte
  Buf,                \* where the guest's buffer is
  Counts,             \* sizes of its reads
  MaxCount,           \* the most a call transfers, 16 MB in the code
  OtherCalls,         \* its other calls, [a7, a0]
  HookAnswers         \* what the host may answer to a custom call

TRAP_EXIT_CODE == 134

A0 == 10
A1 == 11
A2 == 12
A7 == 17

ASSUME ProcessAssumption ==
  /\ A7 < NumRegs
  /\ Input \in Seq(Byte)
  /\ Buf \in RamAddr
  /\ Counts \subseteq Nat /\ MaxCount \in Nat
  /\ Buf + MaxCount <= MMIO_BASE

\* The other calls are not reads and writes, and the hook leaves those that
\* the guest copies with to the emulator.
ASSUME CallsAssumption ==
  /\ \A c \in OtherCalls : c.a7 \notin {63, 3, 64, 4}
  /\ HookAnswers[63] = {0} /\ HookAnswers[64] = {0}

VARIABLES
  ram, brk, regs, symbols,
  pc,         \* as the loader leaves it
  is_halted, exit_code, has_custom_syscalls,
  stdin,      \* typed and not read yet
  stdout,     \* written since the load
  loaded,     \* history: the image and arguments, and whether it has run
  typed,      \* history: the input since the load, with what waited then
  hook_on,    \* history: what the host last asked for
  guest       \* what the guest does next

hostVars == <<typed, hook_on, has_custom_syscalls, loaded, pc, symbols>>
vars == <<ram, brk, regs, stdin, stdout, is_halted, exit_code, guest,
          hostVars>>

\* The memory operations of MemoryOps.
Mem == INSTANCE FlatMemory WITH req <- None, resp <- None

Init ==
  /\ ram = ZeroRam /\ brk = InitialBrk
  /\ regs = initial_regs(DefaultConfig)
  /\ pc = 0 /\ symbols = NoSymbols
  /\ is_halted = FALSE /\ exit_code = 0
  /\ has_custom_syscalls = FALSE /\ hook_on = FALSE
  /\ stdin = <<>> /\ stdout = <<>> /\ typed = <<>>
  /\ loaded = None
  /\ guest = "read"

-----------------------------------------------------------------------------
(* The host.                                                               *)


\* Mutant: memory is not made anew.
LoadOverOld(image, args) ==
  /\ LET new == load(image)
     IN  /\ ram' = [a \in RamAddr |-> IF new.ram[a] # 0 THEN new.ram[a]
                                      ELSE ram[a]]
         /\ pc' = new.pc /\ symbols' = new.symbols
  /\ brk' = InitialBrk
  /\ regs' = initial_regs(parse_args(args))
  /\ is_halted' = FALSE /\ exit_code' = 0
  /\ loaded' = [image |-> image, args |-> args, fresh |-> TRUE]
  /\ stdout' = <<>> /\ typed' = stdin /\ guest' = "read"
  /\ UNCHANGED <<stdin, hook_on, has_custom_syscalls>>

\* load_binary_with_args: a new Cpu that keeps the hook's flag, a new Memory.
Load(image, args) ==
  /\ LET new == load(image)
     IN  ram' = new.ram /\ pc' = new.pc /\ symbols' = new.symbols
  /\ brk' = InitialBrk
  /\ regs' = initial_regs(parse_args(args))
  /\ is_halted' = FALSE /\ exit_code' = 0
  /\ loaded' = [image |-> image, args |-> args, fresh |-> TRUE]
  /\ stdout' = <<>> /\ typed' = stdin /\ guest' = "read"
  /\ UNCHANGED <<stdin, hook_on, has_custom_syscalls>>

SetHasCustomSyscalls(enabled) ==
  /\ has_custom_syscalls' = enabled
  /\ hook_on' = enabled
  /\ UNCHANGED <<ram, brk, regs, pc, symbols, stdin, stdout, is_halted,
                 exit_code, loaded, typed, guest>>

Type ==
  /\ Len(typed) < Len(Input)
  /\ LET b == Input[Len(typed) + 1]
     IN  stdin' = Append(stdin, b) /\ typed' = Append(typed, b)
  /\ UNCHANGED <<ram, brk, regs, pc, symbols, stdout, is_halted, exit_code,
                 has_custom_syscalls, loaded, hook_on, guest>>

-----------------------------------------------------------------------------
(* handle_ecall with its arguments in c.  Each part says how a0, the       *)
(* memory and the streams come out; `set` is write_reg(A0, _).             *)

Args(c) == [r \in 0 .. NumRegs - 1 |->
              CASE r = A0 -> c.a0 [] r = A1 -> c.a1 [] r = A2 -> c.a2
                [] r = A7 -> c.a7 [] OTHER -> regs[r]]
set(c, val) == regs' = [Args(c) EXCEPT ![A0] = val]

lesser(a, b) == IF a <= b THEN a ELSE b

SysExit(c) ==
  /\ c.a7 \in {93, 10, 1}
  /\ is_halted' = TRUE /\ exit_code' = c.a0
  /\ regs' = Args(c)
  /\ UNCHANGED <<ram, brk, stdin, stdout>>

\* Mutant: zeros at the end of what is written are dropped.
SysWriteTrimmed(c) ==
  /\ c.a7 \in {64, 4}
  /\ \E dev \in Device :
       LET bytes == Mem!Bytes(c.a1, lesser(c.a2, MaxCount), dev)
           kept  == IF bytes # <<>> /\ Last(bytes) = 0 THEN Front(bytes)
                    ELSE bytes
       IN  stdout' = IF c.a0 = 1 THEN stdout \o kept ELSE stdout
  /\ set(c, c.a2)
  /\ UNCHANGED <<ram, brk, stdin, is_halted, exit_code>>

\* Only fd 1 is the output that is looked at here; fd 2 is the same.
SysWrite(c) ==
  /\ c.a7 \in {64, 4}
  /\ \E dev \in Device :
       LET bytes == Mem!Bytes(c.a1, lesser(c.a2, MaxCount), dev)
       IN  stdout' = IF c.a0 = 1 THEN stdout \o bytes ELSE stdout
  /\ set(c, c.a2)
  /\ UNCHANGED <<ram, brk, stdin, is_halted, exit_code>>

\* Mutant: all of the scratch buffer goes to the guest.
SysReadWhole(c) ==
  /\ c.a7 \in {63, 3}
  /\ LET count == lesser(c.a2, MaxCount)
         n     == lesser(Len(stdin), count)
         bytes == [i \in 1 .. count |-> IF i <= n THEN stdin[i] ELSE 0]
     IN  /\ stdin' = SubSeq(stdin, n + 1, Len(stdin))
         /\ ram' = IF n > 0 THEN put(ram, c.a1, bytes) ELSE ram
         /\ set(c, n)
  /\ UNCHANGED <<brk, stdout, is_halted, exit_code>>

\* Mutant: nothing is read until as much as was asked for is there.
SysReadWaits(c) ==
  /\ c.a7 \in {63, 3}
  /\ LET count == lesser(c.a2, MaxCount)
         n     == IF Len(stdin) < count THEN 0 ELSE count
     IN  /\ stdin' = SubSeq(stdin, n + 1, Len(stdin))
         /\ ram' = put(ram, c.a1, SubSeq(stdin, 1, n))
         /\ set(c, n)
  /\ UNCHANGED <<brk, stdout, is_halted, exit_code>>

\* read_from_stdin hands over what is there, up to the size asked for.
SysRead(c) ==
  /\ c.a7 \in {63, 3}
  /\ LET n == lesser(Len(stdin), lesser(c.a2, MaxCount))
     IN  /\ stdin' = SubSeq(stdin, n + 1, Len(stdin))
         /\ ram' = put(ram, c.a1, SubSeq(stdin, 1, n))
         /\ set(c, n)
  /\ UNCHANGED <<brk, stdout, is_halted, exit_code>>

\* Mutant: the break may leave the heap.
BrkAnywhere(c) ==
  /\ c.a7 \in {214, 45}
  /\ brk' = IF c.a0 # 0 THEN c.a0 ELSE brk
  /\ set(c, brk')
  /\ UNCHANGED <<ram, stdin, stdout, is_halted, exit_code>>

SysBrk(c) ==
  /\ c.a7 \in {214, 45}
  /\ brk' = IF c.a0 # 0 /\ c.a0 \in InitialBrk .. MMIO_BASE - 1
            THEN c.a0 ELSE brk
  /\ set(c, brk')
  /\ UNCHANGED <<ram, stdin, stdout, is_halted, exit_code>>

\* close, lseek and fstat.
SysNothing(c) ==
  /\ c.a7 \in {57, 62, 80}
  /\ set(c, 0)
  /\ UNCHANGED <<ram, brk, stdin, stdout, is_halted, exit_code>>

Known == {93, 10, 1, 64, 4, 63, 3, 214, 45, 57, 62, 80}

\* An unknown call is an error of the instruction, which halts the machine.
SysUnknown(c) ==
  /\ c.a7 \notin Known
  /\ is_halted' = TRUE /\ exit_code' = TRAP_EXIT_CODE
  /\ regs' = Args(c)
  /\ UNCHANGED <<ram, brk, stdin, stdout>>

\* The hook comes first; zero means that it has not handled the call.
handle_ecall(c) ==
  \/ /\ has_custom_syscalls
     /\ \E res \in HookAnswers[c.a7] \ {0} : set(c, res)
     /\ UNCHANGED <<ram, brk, stdin, stdout, is_halted, exit_code>>
  \/ /\ has_custom_syscalls => 0 \in HookAnswers[c.a7]
     /\ \/ SysExit(c) \/ SysWrite(c) \/ SysRead(c) \/ SysBrk(c)
        \/ SysNothing(c) \/ SysUnknown(c)

-----------------------------------------------------------------------------
(* The guest.                                                              *)

ECall(a7, a0, a1, a2) ==
  /\ ~is_halted /\ loaded # None
  /\ handle_ecall([a7 |-> a7, a0 |-> a0, a1 |-> a1, a2 |-> a2])
  /\ loaded' = [loaded EXCEPT !.fresh = FALSE]
  /\ UNCHANGED <<typed, hook_on, has_custom_syscalls, pc, symbols>>

Read(count) ==
  /\ guest = "read"
  /\ ECall(63, 0, Buf, count)
  /\ guest' = IF regs'[A0] > 0 THEN "write" ELSE "read"

Write ==
  /\ guest = "write"
  /\ ECall(64, 1, Buf, regs[A0])
  /\ guest' = "read"

Other ==
  /\ guest = "read"
  /\ \E c \in OtherCalls : ECall(c.a7, c.a0, 0, 0)
  /\ UNCHANGED guest

Next ==
  \/ \E l \in Loads : Load(l[1], l[2])
  \/ \E enabled \in BOOLEAN : SetHasCustomSyscalls(enabled)
  \/ Type
  \/ \E count \in Counts : Read(count)
  \/ Write
  \/ Other

Spec == Init /\ [][Next]_vars

\* The guest goes on; it does not only ask for nothing.
FairSpec ==
  /\ Spec
  /\ WF_vars(\E count \in Counts \ {0} : Read(count))
  /\ WF_vars(Write)

-----------------------------------------------------------------------------
\* Memory holds bytes, and the break that brk answers stays in the heap.
TypeOK ==
  /\ ram \in [RamAddr -> Byte]
  /\ brk \in InitialBrk .. MMIO_BASE - 1
  /\ DOMAIN regs = 0 .. NumRegs - 1 /\ regs[0] = 0
  /\ pc \in Addr
  /\ guest = "write" => regs[A0] \in 1 .. Len(typed)

\* Nothing typed is lost, repeated or changed on its way through a guest that
\* copies it, whatever the sizes of its reads and whenever the host types:
\* what was typed is what was written, what the buffer holds and what waits
\* (syscall.rs:41, syscall.rs:63).
InputReachesOutput ==
  typed = stdout
          \o (IF guest = "write" THEN Mem!Bytes(Buf, regs[A0], <<>>) ELSE <<>>)
          \o stdin

\* A system call changes no byte of memory but those it says it read: a short
\* read leaves the rest of the buffer alone (syscall.rs:72).
ReadStaysInBounds ==
  [][ loaded' # None /\ ~loaded'.fresh =>
        \A a \in RamAddr : ram'[a] # ram[a] =>
          guest = "read" /\ a \in Buf .. Buf + regs'[A0] - 1 ]_vars


\* Once the host stops typing, all that waits is read, unless the guest
\* stops: a read takes what is there and does not wait for more
\* (syscall.rs:69).
InputIsRead ==
  <>[][~Type]_vars =>
    (loaded # None /\ stdin # <<>> ~> stdin = <<>> \/ is_halted)

-----------------------------------------------------------------------------
(* What a fresh process looks like.                                        *)

Fresh == loaded # None /\ loaded.fresh

\* Argument i is the value of the one before it.
IsValue(args) ==
  LET is[i \in 0 .. Len(args)] ==
        /\ i > 1 /\ ~is[i - 1]
        /\ \/ args[i - 1].flag = "--isa"
           \/ args[i - 1].flag = "--setreg" /\ args[i - 1].kv = None
           \/ args[i - 1].flag = "--newlib" /\ ~IsFlag(args[i])
  IN  is

\* Arguments that set register r: --setreg=r=v, or r=v after --setreg.
Setters(args, r) ==
  {i \in DOMAIN args :
     /\ args[i].kv # None /\ args[i].kv.reg = r
     /\ IF IsValue(args)[i]
        THEN args[i].flag = "word" /\ args[i - 1].flag = "--setreg"
        ELSE args[i].flag = "--setreg"}


\* The byte image bytes `b` have at offset o, zero where there is none.
ByteOf(b, o) == IF o + 1 \in DOMAIN b THEN b[o + 1] ELSE 0

\* Nothing of an earlier process is left in memory: a byte that is not zero
\* lies where a segment of the image has it, or is one of as many as the
\* sections have (lib.rs:124).
NothingLeftOver ==
  Fresh =>
    LET im   == loaded.image
        used == {a \in RamAddr : ram[a] # 0}
    IN  IF im.elf /\ im.segments = <<>>
        THEN Cardinality(used) <=
               Cardinality({p \in (1 .. Len(im.sections)) \X RamAddr :
                              ByteOf(im.sections[p[1]].bytes, p[2]) # 0})
        ELSE \A a \in used :
               \/ ~im.elf /\ ram[a] = ByteOf(im.bytes, a)
               \/ \E k \in DOMAIN im.segments :
                    /\ a >= im.segments[k].vaddr
                    /\ ram[a] = ByteOf(im.segments[k].bytes,
                                       a - im.segments[k].vaddr)

\* The symbols of section number k, and those that name the same byte.
SymbolsOf(im, k) ==
  {sym \in ToSet(im.syms) : sym.name # "" /\ sym.shndx + 1 = k}
Aliases(im, sym) ==
  {s.name : s \in {t \in ToSet(im.syms) :
                     t.shndx = sym.shndx /\ t.value = sym.value}}

\* Each section of an object file lies in memory in one piece, aligned, with
\* every symbol of it at the byte it names, whatever sections are left out
\* in between; the program starts at its own _start or main (lib.rs:157).
SectionsInPlace ==
  Fresh /\ loaded.image.elf /\ loaded.image.segments = <<>> =>
    LET im == loaded.image
    IN  \A k \in DOMAIN im.sections :
          is_placed(im.sections[k]) =>
            LET sec   == im.sections[k]
                inits == {s \in SymbolsOf(im, k) :
                            s.name \in {"_start", "main"}}
            IN  \E base \in RamAddr :
                  /\ sec.addr = 0 /\ sec.align # 0 => base % sec.align = 0
                  /\ \A o \in 0 .. sec.size - 1 :
                       ram[base + o] = ByteOf(sec.bytes, o)
                  /\ \A s \in SymbolsOf(im, k) :
                       symbols[base + s.value] \in Aliases(im, s)
                  /\ im.entry = 0 /\ inits # {} =>
                       \E s \in inits : pc = base + s.value
=============================================================================
