------------------------------- MODULE MCExec -------------------------------
(***************************************************************************)
(* Programs and register contents for model checking Exec.  A word has six *)
(* bits, a single a three-bit exponent and two bits of mantissa, a double  *)
(* four and seven: the exponents differ, a boxed single is a quiet NaN as  *)
(* in the code, every integer is a double, and the mantissa of a double    *)
(* has more than twice the bits of that of a single.                       *)
(***************************************************************************)
EXTENDS Exec

MCSingle == [exp |-> 3, man |-> 2]
MCDouble == [exp |-> 4, man |-> 7]
Formats  == {Single, Double}

Task(progs, xs, fs) ==
  [progs |-> progs, regs |-> xs, fregs |-> fs, counted |-> {}]

Xs(x1, x2, x3, x4) == [r \in 0 .. 4 |-> <<0, x1, x2, x3, x4>>[r + 1]]
Fs(f1, f2, f3)     == [r \in 1 .. 4 |-> <<f1, f2, f3, 0>>[r]]

NoX == {Xs(0, 0, 0, 0)}
NoF == {Fs(0, 0, 0)}

Ends == {0, 1, 31, 32, 63}
Ints == Ends \cup {2, 3, 5, 8, 12, 15, 16, 30, 33, 47, 62}

TwoOf(ints) == {Xs(a, b, 0, 0) : a \in ints, b \in ints}

\* Zeros, subnormals, ones, ties, large numbers, infinities and NaNs.
Singles == {0, 1, 5, 12, 13, 16, 23, 28, 29, 30, 32, 33, 44, 60, 62}
Doubles == {0, 1, 127, 896, 960, 1024, 1920, 1921, 1984, 2048, 2944, 3968}

TwoSingles == {Fs(boxed(a), boxed(b), 0) : a \in Singles, b \in Singles}
TwoFloats  == {Fs(a, b, 0) : a \in Doubles \cup {boxed(12)}, b \in Doubles}

\* All ways of at most four moves from f1 to f2.
Hops ==
  {<<"f1", "mem", Inst("fsw", Single, 0, 0, 1, 0, 4)>>,
   <<"f2", "mem", Inst("fsw", Single, 0, 0, 2, 0, 4)>>,
   <<"mem", "f2", Inst("flw", Single, 2, 0, 0, 0, 4)>>,
   <<"f1", "x", F("fmv.x.w", Single, 3, 1, 0)>>,
   <<"f2", "x", F("fmv.x.w", Single, 3, 2, 0)>>,
   <<"x", "f2", F("fmv.w.x", Single, 2, 3, 0)>>,
   <<"x", "mem", Inst("sw", Single, 0, 0, 3, 0, 4)>>,
   <<"mem", "x", Inst("lw", Single, 3, 0, 0, 0, 4)>>,
   <<"f1", "f2", F("fsgnj", Single, 2, 1, 1)>>,
   <<"f1", "f2", F("fsgnj", Double, 2, 1, 1)>>,
   <<"f2", "f2", F("fsgnj", Single, 2, 2, 2)>>}

\* Ways from f1: the place reached and the program so far.
Ways[n \in 0 .. 4] ==
  IF n = 0 THEN {<<"f1", <<>>>>}
  ELSE UNION {{<<h[2], Append(w[2], h[3])>> :
                 h \in {g \in Hops : g[1] = w[1]}} : w \in Ways[n - 1]}

Copies == {w[2] : w \in {v \in UNION {Ways[n] : n \in 1 .. 4} : v[1] = "f2"}}

-----------------------------------------------------------------------------
\* One instruction of each kind, into x0 and into x3.
WordOps == AluOps \cup MulDivOps
Lone == {<<X(op, d, 1, 2)>> : op \in WordOps, d \in {0, 3}}
        \cup {<<Imm(op, d, 1, 5)>> : op \in DOMAIN ImmOps, d \in {0, 3}}
        \cup {<<Imm(op, d, 0, -7)>> : op \in {"lui", "auipc", "jal", "jalr"},
                                     d \in {0, 3}}
        \cup {<<Imm(op, d, 2, 0)>> : op \in DOMAIN CsrOps, d \in {0, 3}}
        \cup {<<Inst(op, Single, 0, 1, 2, 0, 4)>> : op \in BranchOps}
        \cup {<<Imm("addi", 4, 0, 4), X(op, 0, 4, 1)>> : op \in AmoOps}
        \cup {<<Imm("lw", 0, 0, 4)>>, <<X("fence", 0, 0, 0)>>}

OnWords == AddCarry \cup SubBorrow \cup MulSigned \cup MulMixed
           \cup MulPlain \cup DivSigned \cup DivPlain \cup Agreeing
           \cup ThroughDouble \cup DoubleAsSingle

OnSingles == ArithBoth \cup CompareBoth \cup Observed \cup MinThenMax(Single)

OnBoth ==
  {<<F(op, f, 3, 1, 2)>> : op \in SignOps \cup {"fclass"}, f \in Formats}
  \cup {<<F(op, Double, 3, 1, 2)>> : op \in {"fadd", "fsub"}}
  \cup {<<F(op, f, 3, 1, 0)>> : op \in {"fcvt.w", "fcvt.wu"}, f \in Formats}
  \cup MinThenMax(Double) \cup SpillDouble

-----------------------------------------------------------------------------
AllTasks ==
  {Task(Lone, TwoOf(Ends), NoF),
   Task(OnWords, TwoOf(Ints), NoF),
   Task(Swaps, {Xs(a, 4, 0, 0) : a \in Ints}, NoF),
   Task(Call, {Xs(12, b, 3, 62) : b \in Ints}, NoF),
   Task(OnSingles, NoX, TwoSingles),
   Task(OnBoth, NoX, TwoFloats),
   Task({<<Inst(op, f, 4, 1, 2, 3, 0)>> : op \in FusedOps, f \in Formats},
        NoX, {Fs(boxed(12), boxed(a), c) : a \in Singles,
                                          c \in {boxed(3), 1024}}),
   Task(Copies, NoX, {Fs(boxed(a), 0, 0) : a \in Word}),
   [Task({<<X("amoadd", 3, 2, 1), X("amoadd", d, 2, 1)>> : d \in {1, 3}},
         {Xs(1, 4, 0, 0)}, NoF) EXCEPT !.counted = {4}]}

FusedTasks ==
  {Task(Fused, NoX, {Fs(boxed(a), boxed(b), boxed(c)) :
                       a \in 12 .. 19, b \in 12 .. 19, c \in 1 .. 19})}
=============================================================================
