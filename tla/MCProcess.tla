----------------------------- MODULE MCProcess ------------------------------
(* An executable, two object files and a raw image, in a memory of 24 bytes *)
(* below a window of 8; a session of four bytes, two of them zero.          *)
EXTENDS Process

Segment(vaddr, bytes) ==
  [load |-> TRUE, vaddr |-> vaddr, bytes |-> bytes, in_file |-> TRUE]
Section(type, alloc, align, size, bytes) ==
  [type |-> type, alloc |-> alloc, addr |-> 0, align |-> align,
   size |-> size, bytes |-> bytes, in_file |-> TRUE]
Sym(name, shndx, value) == [name |-> name, shndx |-> shndx, value |-> value]

NullSection == Section("null", FALSE, 0, 0, <<>>)
NullSym     == Sym("", 0, 0)
File        == Sym("a.c", 65521, 0)

\* The second segment covers the end of the first; the last ones are a note
\* and one that the file is too short for.
Executable ==
  [elf |-> TRUE, entry |-> 8, bytes |-> <<>>, sections |-> <<NullSection>>,
   segments |-> <<Segment(8, <<1, 2, 3, 1>>), Segment(11, <<2, 2>>),
                  [Segment(0, <<3>>) EXCEPT !.load = FALSE],
                  [Segment(4, <<>>) EXCEPT !.in_file = FALSE]>>,
   syms |-> <<NullSym, Sym("f", 1, 11), Sym("_start", 1, 9)>>]

\* A string table lies between the code and the data.
Object ==
  [elf |-> TRUE, entry |-> 0, bytes |-> <<>>, segments |-> <<>>,
   sections |-> <<NullSection, Section("progbits", TRUE, 2, 3, <<1, 2, 3>>),
                  Section("strtab", FALSE, 1, 2, <<>>),
                  Section("progbits", TRUE, 4, 2, <<3, 1>>),
                  Section("nobits", TRUE, 0, 2, <<>>)>>,
   syms |-> <<NullSym, File, Sym("f", 1, 0), Sym("main", 1, 2),
              Sym("d", 3, 1), Sym("e", 3, 1), Sym("z", 4, 0),
              Sym("puts", 0, 0)>>]

\* The data come first, at an address of their own; main is elsewhere.
Placed ==
  [elf |-> TRUE, entry |-> 0, bytes |-> <<>>, segments |-> <<>>,
   sections |-> <<NullSection,
                  [Section("progbits", TRUE, 4, 2, <<2, 2>>)
                     EXCEPT !.addr = 3],
                  Section("progbits", FALSE, 8, 2, <<1, 3>>)>>,
   syms |-> <<NullSym, Sym("main", 0, 0), Sym("_start", 2, 1),
              Sym("d", 1, 1)>>]

Raw ==
  [elf |-> FALSE, entry |-> 0, bytes |-> <<1, 0, 3>>, segments |-> <<>>,
   sections |-> <<>>, syms |-> <<>>]

Flag(f)        == [flag |-> f, kv |-> None]
Setreg(reg, v) == [flag |-> "--setreg", kv |-> [reg |-> reg, val |-> v]]
Word(reg, v)   == [flag |-> "word", kv |-> [reg |-> reg, val |-> v]]
Plain          == [flag |-> "word", kv |-> None]

LastWins  == <<Flag("--setreg"), Word(5, 1), Setreg(5, 2), Setreg(0, 3)>>
Swallowed == <<Flag("--isa"), Setreg(5, 1), Flag("--newlib"), Setreg(2, 2),
               Flag("--setreg")>>
Path      == <<Flag("--newlib"), Plain, Flag("--setreg"), Setreg(5, 3),
               Word(2, 1)>>
Ignored   == <<Flag("--interactive"), Flag("-"), Word(5, 1), Setreg(40, 1),
               Setreg(2, 1)>>

MCLoads ==
  {<<Executable, <<>>>>, <<Executable, LastWins>>, <<Object, Swallowed>>,
   <<Object, <<>>>>, <<Placed, Path>>, <<Raw, Ignored>>}

MCInput      == <<1, 0, 2, 0>>
MCDevice     == {[a \in MmioAddr |-> 0]}
MCOtherCalls == {[a7 |-> 214, a0 |-> 0], [a7 |-> 214, a0 |-> 18],
                 [a7 |-> 214, a0 |-> 2], [a7 |-> 57, a0 |-> 1],
                 [a7 |-> 93, a0 |-> 3], [a7 |-> 500, a0 |-> 1]}
MCHookAnswers ==
  [n \in {63, 64, 214, 57, 93, 500} |-> IF n = 500 THEN {0, 7} ELSE {0}]
=============================================================================
