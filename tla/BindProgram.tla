----------------------------- MODULE BindProgram -----------------------------
(***************************************************************************)
(* Programs of bind opcodes, as a static linker writes them, and what they *)
(* mean: the reference that the table of get_dyld_bind_info is held        *)
(* against. It has offsets and strides that never wrap, addends with their *)
(* sign and ordinals by their kind; of the decoder it uses the sizes of    *)
(* words, the segments and Least, and none of its passes, positions,       *)
(* readers of operands or registers.                                       *)
(***************************************************************************)
EXTENDS DyldBind

Word == 0 .. W64 - 1
SignedWord == -(2 ^ (Bits64 - 1)) .. 2 ^ (Bits64 - 1) - 1

(* Opcode, immediate value and operands. Opcodes above 12 do not exist. An *)
(* ordinal is an int, a count 32 bits wide.                                *)
Instruction ==
  [op : {0, 1, 3, 5, 9, 11} \cup 13 .. 15, imm : 0 .. 15] \cup
  [op : {2}, imm : 0 .. 15, num : 0 .. (W32 \div 2) - 1] \cup
  [op : {7, 8, 10}, imm : 0 .. 15, num : Word] \cup
  [op : {4}, imm : 0 .. 15, name : Seq(1 .. 255)] \cup
  [op : {6}, imm : 0 .. 15, num : SignedWord] \cup
  [op : {12}, imm : 0 .. 15, num : 0 .. W32 - 1, skip : Word]

------------------------------------------------------------------------------
(* Assembling. *)

(* A number in groups of 7 bits, each but the last with the high bit set:  *)
(* the fewest groups that hold the number, or the number and its sign.     *)
Group(v, i) == (v \div 2 ^ (7 * i)) % 128
Groups(v, count) ==
  [i \in 1 .. count |-> Group(v, i - 1) + (IF i < count THEN 128 ELSE 0)]

MaxGroups == (Bits64 + 6) \div 7
Uleb(v) == Groups(v, Least({k \in 1 .. MaxGroups : v < 2 ^ (7 * k)}))
Sleb(v) ==
  Groups(v, Least({k \in 1 .. MaxGroups : v \in -(2 ^ (7 * k - 1)) .. 2 ^ (7 * k - 1) - 1}))

Operand(o) ==
  CASE o.op \in {2, 7, 8, 10} -> Uleb(o.num)
    [] o.op = 4 -> Append(o.name, 0)
    [] o.op = 6 -> Sleb(o.num)
    [] o.op = 12 -> Uleb(o.num) \o Uleb(o.skip)
    [] OTHER -> <<>>
Encoded(o) == <<16 * o.op + o.imm>> \o Operand(o)

(* The code of the first k instructions, for every k. *)
CodeOf(prog) ==
  LET Code[k \in 0 .. Len(prog)] == IF k = 0 THEN <<>> ELSE Code[k - 1] \o Encoded(prog[k])
  IN  Code
Assemble(prog) == CodeOf(prog)[Len(prog)]

ASSUME ProgramsAssumption ==
  \A x \in Inputs : x.from # None =>
    x.from \in Seq(Instruction) /\ x.bytes = Assemble(x.from)

------------------------------------------------------------------------------
(* Meaning: one run over the instructions, with binds appended.            *)

(* No names of dylibs are given, so an ordinal of one has no name.         *)
DylibOf(ordinal) == IF ordinal = 0 THEN "this-image" ELSE "libraryOrdinal out of range"
SpecialDylib(imm) ==
  CASE imm = 0  -> "this-image"
    [] imm = 15 -> "main-executable"
    [] imm = 14 -> "flat-namespace"
    [] OTHER    -> "unknown special ordinal"

(* A segment that is not there starts at 0. *)
StartOf(seg) == IF seg \in 0 .. Len(Segs) - 1 THEN Segs[seg + 1].vmaddr ELSE 0

AtStart ==
  [binds |-> <<>>, over |-> FALSE, bad |-> FALSE, base |-> 0, off |-> 0, name |-> None,
   weak |-> FALSE, dylib |-> "??", type |-> 0, addend |-> 0]

BindAt(s, off) ==
  [address |-> s.base + off, name |-> s.name, weak |-> s.weak,
   dylib |-> s.dylib, type |-> s.type, addend |-> s.addend]
Move(s, count, stride) ==
  [s EXCEPT !.binds = @ \o [i \in 1 .. count |-> BindAt(s, s.off + (i - 1) * stride)],
            !.off = @ + count * stride]

Do(s, o) ==
  CASE s.over \/ s.bad -> s
    [] OTHER ->
  CASE o.op = 0 -> [s EXCEPT !.over = TRUE]
    [] o.op = 1 -> [s EXCEPT !.dylib = DylibOf(o.imm)]
    [] o.op = 2 -> [s EXCEPT !.dylib = DylibOf(o.num)]
    [] o.op = 3 -> [s EXCEPT !.dylib = SpecialDylib(o.imm)]
    [] o.op = 4 -> [s EXCEPT !.name = o.name, !.weak = o.imm % 2 = 1]
    [] o.op = 5 -> [s EXCEPT !.type = o.imm]
    [] o.op = 6 -> [s EXCEPT !.addend = o.num]
    [] o.op = 7 -> [s EXCEPT !.base = StartOf(o.imm), !.off = o.num]
    [] o.op = 8 -> [s EXCEPT !.off = @ + o.num]
    [] o.op = 9 -> Move(s, 1, PointerSize)
    [] o.op = 10 -> Move(s, 1, o.num + PointerSize)
    [] o.op = 11 -> Move(s, 1, (o.imm + 1) * PointerSize)
    [] o.op = 12 -> Move(s, o.num, o.skip + PointerSize)
    [] OTHER -> [s EXCEPT !.bad = TRUE]

RunOf(prog) ==
  LET Run[k \in 0 .. Len(prog)] == IF k = 0 THEN AtStart ELSE Do(Run[k - 1], prog[k])
  IN  Run
Meaning(prog) == RunOf(prog)[Len(prog)]

(* How much of an address the table holds: the image's 32 bits, and all of *)
(* the 64 that are compared with an address (symtab_macho.c:600) where no  *)
(* skip goes back, for the code adds a skip in 32 bits to a 64-bit offset. *)
NarrowSkips(prog) ==
  \A k \in 1 .. Len(prog) : prog[k].op = 12 => prog[k].skip + PointerSize < W32
Span(prog) == IF NarrowSkips(prog) THEN W64 ELSE W32

(* A negative addend in so many bytes that the code sign-extends it by a   *)
(* shift of the word's width or more is read as the build has it.          *)
SignExtends(addend) == addend >= 0 \/ 7 * Len(Sleb(addend)) < Bits64

(* What an entry of the table tells of a bind; its name is in the bytes.   *)
NameAt(pos) ==
  IF pos = None THEN None
  ELSE SubSeq(bytes, pos, Least({i \in pos .. Len(bytes) : bytes[i] = 0}) - 1)
Told(e, bind, span) ==
  /\ e.address % span = bind.address % span
  /\ NameAt(e.symbolname) = bind.name /\ e.weak_import = bind.weak
  /\ e.dylibname = bind.dylib /\ e.bind_type = bind.type
  /\ SignExtends(bind.addend) => e.addend = bind.addend % W64

(* The table is what the program means: the second pass starts afresh, the *)
(* operands are read as they were written, the opcodes in turn, and a bad  *)
(* one is reported whenever it is met before the end. What a skip that     *)
(* goes back or an addend at the end of the word leaves is Span and        *)
(* SignExtends (otool/dyld_bind_info.c:135-187, 201-386).                  *)
DecodesProgram ==
  input.from # None /\ status # "decoding" =>
    LET m == Meaning(input.from)
    IN  /\ status = "bad_opcode" <=> m.bad
        /\ status = "decoded" =>
             /\ ndbi = Len(m.binds)
             /\ \A k \in 1 .. ndbi : Told(dbi[k], m.binds[k], Span(input.from))
==============================================================================
