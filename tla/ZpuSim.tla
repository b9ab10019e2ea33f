------------------------------- MODULE ZpuSim -------------------------------
(***************************************************************************)
(* ZPUSim/zpusim.cpp: the interpreter of ZPU programs.  The optional       *)
(* opcodes are executed by the interpreter itself, or, in its minimal mode *)
(* (and on the smallest core), by the routines of Firmware/Common/crt0.s   *)
(* that every program carries: a stack program for each opcode, some of    *)
(* them written with other optional opcodes.                               *)
(*                                                                         *)
(* One task at a time: a program executes one opcode on some operands.     *)
(* Words have W bits instead of 32; a byte of code is one element of Code, *)
(* and an im byte carries 7 bits as in the source.                         *)
(***************************************************************************)
EXTENDS Integers, SequencesExt, FiniteSetsExt

CONSTANTS W,          \* bits of a word
          StackSize,  \* words of the stack
          Operands,   \* values the operands are drawn from
          Ops         \* opcodes that are executed

ZpuAssumption == /\ W \in 8 .. 15 /\ StackSize \in Nat \ {0}
                 /\ Operands \subseteq 0 .. 2^W - 1
ASSUME ZpuAssumption

VARIABLES task,      \* the opcode, its operands and the mode
          machine    \* the simulated processor: pc, sp, stack array, err (the cell of every
                     \* index out of range), immediate_continuation, ram[0] and the UART

vars == <<task, machine>>

Word == 0 .. 2^W - 1
Wrap(z) == z % 2^W
Signed(w) == IF w >= 2^(W-1) THEN w - 2^W ELSE w
Places == 0 .. W - 1
BitsOf == [w \in Word |-> {i \in Places : (w \div 2^i) % 2 = 1}]
WordOf(bits) == MapThenSumSet(LAMBDA i : 2^i, bits)

And(a, b) == WordOf(BitsOf[a] \cap BitsOf[b])
Or(a, b)  == WordOf(BitsOf[a] \cup BitsOf[b])
Not(a)    == 2^W - 1 - a
Flip(a)   == WordOf({W - 1 - i : i \in BitsOf[a]})
Flag(b)   == IF b THEN 1 ELSE 0

-----------------------------------------------------------------------------
(* crt0.s.                                                                 *)

\* im with the bytes the assembler needs for the value.
Im(v) == IF v \in -64 .. 63 THEN << <<"im", v % 128>> >>
         ELSE << <<"im", (v \div 128) % 128>>, <<"im", v % 128>> >>
I(name) == << <<name>> >>
LoadSp(n) == << <<"loadsp", n \div 4>> >>
StoreSp(n) == << <<"storesp", n \div 4>> >>
Double == << <<"addsp", 0>> >>     \* addsp 0
Line(parts) == FlattenSeq(parts)
fast_neg == Line(<<I("not"), Im(1), I("add")>>)
SignBit == Line(<<I("flip"), Im(1), I("and")>>)
ReturnTop == Line(<<StoreSp(12), StoreSp(4), I("poppc")>>)
Halve == Line(<<I("flip"), Double, I("flip")>>)
\* not x and not (not x + 1): negative exactly when x is zero
ZeroTest == Line(<<I("not"), LoadSp(0), Im(1), I("add"), I("not"), I("and"), I("flip")>>)
Difference == Line(<<LoadSp(8), fast_neg, LoadSp(8), I("add")>>)

LessThanBySignCode == Line(<<Difference, SignBit, ReturnTop>>)
LessThanCode ==
  Line(<<Difference, LoadSp(12), LoadSp(12), I("not"), I("and"), I("not"), I("and"),
         LoadSp(12), I("not"), LoadSp(12), I("and"), I("or"), SignBit, ReturnTop>>)
OrEqualCode(less) ==
  Line(<<LoadSp(8), LoadSp(8), I(less), LoadSp(12), LoadSp(12), I("eq"), I("or"), ReturnTop>>)
ULessThanCode ==
  Line(<<LoadSp(4), LoadSp(12), LoadSp(4), I("not"), LoadSp(4), I("and"), Im(1), I("and"),
         fast_neg, LoadSp(8), Halve, LoadSp(8), Halve, I("sub"), I("add"), SignBit,
         StoreSp(4), StoreSp(4), ReturnTop>>)
LShiftRightCode ==
  Line(<<LoadSp(8), I("flip"), LoadSp(8), I("ashiftleft"), I("flip"), ReturnTop>>)
AShiftLeftCode(end) ==
  Line(<<LoadSp(8), LoadSp(8), Im(31), I("and"), fast_neg, Im(end), I("add"), I("poppc")>>)
AShiftLeftTail == Line(<<FlattenSeq([i \in 1 .. 31 |-> Double]), ReturnTop>>)
AShiftRightCode ==
  Line(<<LoadSp(8), LoadSp(8), I("lshiftright"), Im(-1), LoadSp(12), Im(31), I("and"),
         I("lshiftright"), I("not"), LoadSp(16), I("not"), SignBit, Im(-1), I("add"),
         I("and"), I("or"), ReturnTop>>)
CallCode == Line(<<LoadSp(4), LoadSp(4), StoreSp(12), StoreSp(4), I("poppc")>>)
EqCode  == Line(<<Difference, ZeroTest, Im(1), I("and"), ReturnTop>>)
NeqCode == Line(<<Difference, ZeroTest, I("not"), Im(1), I("and"), ReturnTop>>)
NegCode == Line(<<LoadSp(4), fast_neg, StoreSp(8), I("poppc")>>)
SubCode == Line(<<LoadSp(8), LoadSp(8), fast_neg, I("add"), ReturnTop>>)
XorCode == Line(<<LoadSp(8), I("not"), LoadSp(8), I("and"), LoadSp(12), LoadSp(12), I("not"),
                  I("and"), I("or"), ReturnTop>>)
BranchCode(zero) ==   \* zero: the steps after the test that differ
  Line(<<LoadSp(8), ZeroTest, zero, Im(1), I("and"), Im(-1), I("add"), LoadSp(0), StoreSp(16),
         LoadSp(4), I("and"), LoadSp(12), I("not"), LoadSp(8), LoadSp(16), I("add"), Im(-1),
         I("add"), I("and"), I("or"), StoreSp(4), StoreSp(4), StoreSp(4), I("poppc")>>)
PopPcRelCode == Line(<<I("add"), Im(-1), I("add"), I("poppc")>>)
PushSpAddCode == Line(<<I("pushsp"), Im(4), I("add"), LoadSp(8), Double, Double, I("add"),
                        StoreSp(8), I("poppc")>>)
CallPcRelCode == Line(<<LoadSp(4), LoadSp(4), I("add"), Im(-1), I("add"), LoadSp(4),
                        StoreSp(12), StoreSp(4), I("pushsp"), I("popsp"), I("poppc")>>)
MultKeepingA == Line(<<LoadSp(8), Im(1), I("and"), Im(-1), I("add"), I("not"), LoadSp(8),
                       I("and"), I("add"), LoadSp(4), Double, StoreSp(8)>>)
mult1bit == Line(<<LoadSp(8), Im(1), I("and"), Im(-1), I("add"), I("not"), LoadSp(8), I("and"),
                   I("add"), LoadSp(4), Double, StoreSp(8), LoadSp(8), Halve, StoreSp(12)>>)
SlowMultCode ==
  LET loop == Line(<<mult1bit, LoadSp(8)>>)
  IN Line(<<LoadSp(8), LoadSp(8), Im(0), loop, Im(-(Len(loop) + 1)), I("neqbranch"),
            StoreSp(4), StoreSp(4), StoreSp(12), StoreSp(4), I("poppc")>>)

\* The routines one after the other: the vector of an opcode is where its routine begins.
Routines ==
  LET shiftEnd == Len(AShiftLeftCode(0)) + 31  \* of the tail that follows the first routine
  IN << <<"ashiftleft", AShiftLeftCode(shiftEnd) \o AShiftLeftTail>>,
        <<"lessthan", LessThanCode>>, <<"lessthanorequal", OrEqualCode("lessthan")>>,
        <<"ulessthan", ULessThanCode>>, <<"ulessthanorequal", OrEqualCode("ulessthan")>>,
        <<"lshiftright", LShiftRightCode>>, <<"ashiftright", AShiftRightCode>>,
        <<"call", CallCode>>, <<"eq", EqCode>>, <<"neq", NeqCode>>, <<"neg", NegCode>>,
        <<"sub", SubCode>>, <<"xor", XorCode>>, <<"eqbranch", BranchCode(<< >>)>>,
        <<"neqbranch", BranchCode(I("not"))>>, <<"poppcrel", PopPcRelCode>>,
        <<"pushspadd", PushSpAddCode>>, <<"callpcrel", CallPcRelCode>>,
        <<"mult", SlowMultCode>> >>
Code == FlattenSeq([i \in DOMAIN Routines |-> Routines[i][2]])
Vector == [op \in {Routines[i][1] : i \in DOMAIN Routines} |->
             LET at == CHOOSE i \in DOMAIN Routines : Routines[i][1] = op
             IN Len(FlattenSeq([i \in 1 .. at - 1 |-> Routines[i][2]]))]
Caller == Len(Code)    \* the program's own instruction follows them

-----------------------------------------------------------------------------
(* The interpreter.  sp and pc are bytes.  The stack array serves every    *)
(* positive address, so of ram only the word at 0 is ever reached; negative *)
(* addresses are the devices.                                              *)
GetOpcode(at) == IF at < Len(Code) THEN Code[at + 1] ELSE <<task.op, 0>>

At(m, idx) == IF idx \div 4 < StackSize THEN m.stack[idx \div 4] ELSE m.err
Put(m, idx, v) == IF idx \div 4 < StackSize THEN [m EXCEPT !.stack[idx \div 4] = v]
                  ELSE [m EXCEPT !.err = v]
Drop(m, n) == [m EXCEPT !.sp = Wrap(@ + 4 * n)]
Push(m, v) == Put([m EXCEPT !.sp = Wrap(@ - 4)], Wrap(m.sp - 4), v)
Top(m) == At(m, m.sp)
Second(m) == At(m, m.sp + 4)
Follow(m) == [m EXCEPT !.pc = Wrap(@ + 1), !.immediate_continuation = FALSE]

\* The UART is busy on every second read.  It delivers the text given on the command line, the
\* end of it as a 0, and then what the terminal has, here nothing.
UartPorts == {Wrap(-124), Wrap(-64)}
ReadUart(m) == IF m.uartbusyctr > 0 THEN <<[m EXCEPT !.uartbusyctr = @ - 1], 0>>
               ELSE LET c == IF m.uartin = << >> THEN 255 ELSE m.uartin[1]
                    IN <<[m EXCEPT !.uartbusyctr = 1, !.uartin = IF @ = << >> THEN @ ELSE Tail(@)],
                         768 + c>>
Read(m, addr) == IF addr \in UartPorts THEN ReadUart(m)
                 ELSE <<m, IF addr = 0 THEN m.ram0 ELSE 0>>
Write(m, addr, v) == IF addr \in UartPorts THEN [m EXCEPT !.out = Append(@, v)]
                     ELSE IF addr = 0 THEN [m EXCEPT !.ram0 = v] ELSE m

Load(m, addr) == LET got == IF Signed(addr) > 0 THEN <<m, At(m, addr)>> ELSE Read(m, addr)
                 IN Push(got[1], got[2])
Store(m, addr, v) == IF Signed(addr) > 0 THEN Put(m, addr, v) ELSE Write(m, addr, v)

\* im: seven bits onto the word an im before it has begun, or a word of its own, its sign extended.
ImOp(m, bits) ==
  LET v == IF m.immediate_continuation THEN Wrap(Top(m) * 128 + bits)
           ELSE IF bits >= 64 THEN Wrap(bits - 128) ELSE bits
      n == IF m.immediate_continuation THEN Drop(m, 1) ELSE m
  IN [Push(n, v) EXCEPT !.pc = Wrap(@ + 1), !.immediate_continuation = TRUE]

\* The opcodes of every core.
PlainOps == {"poppc", "load", "store", "pushsp", "popsp", "add", "and", "or", "not", "flip",
             "nop", "breakpoint", "storesp", "loadsp", "addsp"}
PlainOp(m, i) ==
  LET n == Follow(m)
  IN CASE i[1] = "poppc"   -> [Drop(n, 1) EXCEPT !.pc = Top(m)]
       [] i[1] = "load"    -> Load(Drop(n, 1), Top(m))
       [] i[1] = "store"   -> Store(Drop(n, 2), Top(m), Second(m))
       [] i[1] = "pushsp"  -> Push(n, m.sp)
       [] i[1] = "popsp"   -> [n EXCEPT !.sp = Top(m)]
       [] i[1] = "add"     -> Push(Drop(n, 2), Wrap(Top(m) + Second(m)))
       [] i[1] = "and"     -> Push(Drop(n, 2), And(Top(m), Second(m)))
       [] i[1] = "or"      -> Push(Drop(n, 2), Or(Top(m), Second(m)))
       [] i[1] = "not"     -> Push(Drop(n, 1), Not(Top(m)))
       [] i[1] = "flip"    -> Push(Drop(n, 1), Flip(Top(m)))
       [] i[1] = "storesp" -> Put(Drop(n, 1), m.sp + 4 * i[2], Top(m))
       [] i[1] = "loadsp"  -> Push(n, At(m, m.sp + 4 * i[2]))
       [] i[1] = "addsp"   -> Put(n, m.sp, Wrap(Top(m) + At(m, m.sp + 4 * i[2])))
       [] OTHER            -> n

\* The optional opcodes: the values the interpreter may push.  A shift by 32 or more is undefined
\* in C: the machine shifts by the low five bits, or the compiler has found zero.
Amount(top) == And(top, 63)
Shift(v, top, Of(_, _)) == IF Amount(top) < 32 THEN {Of(v, Amount(top))}
                           ELSE {Of(v, Amount(top) - 32), 0}
Left(v, n) == WordOf({i + n : i \in BitsOf[v]} \cap Places)
Right(v, n) == WordOf({i - n : i \in BitsOf[v]} \cap Places)
SignedRight(v, n) == IF Signed(v) < 0 THEN Not(Right(Not(v), n)) ELSE Right(v, n)
Results(op, a, b) ==
  CASE op = "lshiftright"      -> Shift(b, a, Right)
    [] op = "ashiftleft"       -> Shift(b, a, Left)
    [] op = "ashiftright"      -> Shift(b, a, SignedRight)
    [] op = "eq"               -> {Flag(a = b)}
    [] op = "neq"              -> {Flag(a # b)}
    [] op = "sub"              -> {Wrap(b - a)}
    [] op = "lessthan"         -> {Flag(Signed(a) < Signed(b))}
    [] op = "lessthanorequal"  -> {Flag(Signed(a) <= Signed(b))}
    [] op = "ulessthan"        -> {Flag(a < b)}
    [] op = "ulessthanorequal" -> {Flag(a <= b)}

TwoOperands == {"lshiftright", "ashiftleft", "ashiftright", "eq", "neq", "sub", "lessthan",
                "lessthanorequal", "ulessthan", "ulessthanorequal"}
Branches == {"eqbranch", "neqbranch"}
Optional == TwoOperands \cup Branches \cup {"call", "pushspadd"}
Emulated == {"neg", "xor", "mult", "poppcrel", "callpcrel"}    \* in either mode

\* What the interpreter may do with an optional opcode; the compiler reads sp for pushspadd
\* before or after the call of Pop.
OptionalOp(m, op) ==
  LET n == Follow(m)
  IN CASE op \in TwoOperands -> {Push(Drop(n, 2), r) : r \in Results(op, Top(m), Second(m))}
       [] op \in Branches    -> IF (Second(m) = 0) = (op = "eqbranch")
                                THEN {[Drop(n, 2) EXCEPT !.pc = Wrap(m.pc + Top(m))]}
                                ELSE {Drop(n, 2)}
       [] op = "call"        -> {[Push(Drop(n, 1), n.pc) EXCEPT !.pc = Top(m)]}
       [] op = "pushspadd"   -> {Push(Drop(n, 1), Wrap(read + 4 * Top(m))) : read \in {m.sp, m.sp + 4}}

EmulateOp(m, op) == [Push(Follow(m), Wrap(m.pc + 1)) EXCEPT !.pc = Vector[op]]

-----------------------------------------------------------------------------
Start(t) == LET s == 4 * StackSize - 16
            IN [pc |-> Caller, sp |-> s, err |-> 0, ram0 |-> 0, immediate_continuation |-> FALSE,
                uartbusyctr |-> 0, uartin |-> <<65, 0>>, out |-> << >>,
                stack |-> [i \in 0 .. StackSize - 1 |-> IF i = s \div 4 THEN t.top
                                                        ELSE IF i = s \div 4 + 1 THEN t.second
                                                        ELSE i]]


\* What an opcode means: for those the interpreter never executes itself, by its name.
Expected(t) ==
  LET m == Start(t)
      n == Follow(m)
  IN CASE t.op \in Optional  -> OptionalOp(m, t.op)
       [] t.op = "neg"       -> {Push(Drop(n, 1), Wrap(-t.top))}
       [] t.op = "xor"       -> {Push(Drop(n, 2), WordOf(SymDiff(BitsOf[t.top], BitsOf[t.second])))}
       [] t.op = "mult"      -> {Push(Drop(n, 2), Wrap(t.top * t.second))}
       [] t.op = "poppcrel"  -> {[Drop(n, 1) EXCEPT !.pc = Wrap(m.pc + t.top)]}
       [] t.op = "callpcrel" -> {[Push(Drop(n, 1), n.pc) EXCEPT !.pc = Wrap(m.pc + t.top)]}
       [] t.op \in PlainOps  -> {PlainOp(m, <<t.op, 0>>)}

\* Tasks go on outside the routines, so that the program's next instruction tells their end.
Tasks == {t \in [op : Ops, top : Operands, second : Operands, minimal : BOOLEAN] :
            \A m \in Expected(t) : m.pc > Caller}

Init == task \in Tasks /\ machine = Start(task)

Running == machine.pc <= Caller
Opcode == GetOpcode(machine.pc)

ImStep == Running /\ Opcode[1] = "im" /\ machine' = ImOp(machine, Opcode[2])
PlainStep == Running /\ Opcode[1] \in PlainOps /\ machine' = PlainOp(machine, Opcode)
OptionalStep == /\ Running /\ Opcode[1] \in Optional /\ ~task.minimal
                /\ machine' \in OptionalOp(machine, Opcode[1])
EmulateStep == /\ Running
               /\ Opcode[1] \in Emulated \/ (Opcode[1] \in Optional /\ task.minimal)
               /\ machine' = EmulateOp(machine, Opcode[1])
Finished == ~Running /\ UNCHANGED machine

Next == /\ ImStep \/ PlainStep \/ OptionalStep \/ EmulateStep \/ Finished
        /\ UNCHANGED task

Spec == Init /\ [][Next]_vars /\ WF_vars(Next)

-----------------------------------------------------------------------------
\* What a program can observe: where it goes on, its stack from sp upwards, and memory.
View(m) == [pc |-> m.pc, continued |-> m.immediate_continuation, ram0 |-> m.ram0,
            uart |-> <<m.uartbusyctr, m.uartin, m.out>>,
            live |-> [i \in m.sp \div 4 .. StackSize - 1 |-> m.stack[i]]]

\* crt0.s and the interpreter agree: when the routine of an opcode has run, with the opcodes it
\* is written in emulated in their turn or not, pc and the stack are what the opcode itself
\* leaves, and nothing above its operands has changed.
EmulationAgrees == ~Running => View(machine) \in {View(m) : m \in Expected(task)}

\* Every routine returns: the loops and computed jumps of crt0.s end on every operand.
Returns == <>~Running

=============================================================================
