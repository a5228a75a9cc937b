------------------------------ MODULE MCDyldBind ------------------------------
(***************************************************************************)
(* Small instances of DyldBind: every program of up to four opcodes of a   *)
(* sample, assembled as a linker does, whole or with its last bytes cut.   *)
(* A 64-bit word has 16 bits and a 32-bit word 9, so that two slices of 7  *)
(* bits and a part of the third make a word.                               *)
(***************************************************************************)
EXTENDS BindProgram

MCSegs ==
  <<[vmaddr |-> 64, sections |-> <<>>],
    [vmaddr |-> 128, sections |-> <<[addr |-> 128, size |-> 8], [addr |-> 136, size |-> 64]>>]>>

Op(op, imm) == [op |-> op, imm |-> imm]
OpNum(op, imm, x) == [op |-> op, imm |-> imm, num |-> x]
OpName(imm, name) == [op |-> 4, imm |-> imm, name |-> name]
OpTimes(count, skip) == [op |-> 12, imm |-> 0, num |-> count, skip |-> skip]

Sample ==
  {Op(0, 0), OpNum(2, 0, 130), Op(3, 14), OpName(1, <<65>>), OpName(0, <<66, 200>>), Op(5, 1),
   OpNum(6, 0, -70), OpNum(7, 1, 4), OpNum(7, 2, 300), OpNum(8, 0, 65532), Op(9, 0),
   OpNum(10, 0, 130), Op(11, 2), OpTimes(3, 2), Op(13, 0)}
Few == {Op(1, 1), OpName(1, <<65>>), OpNum(7, 1, 4), Op(9, 0), OpTimes(2, 510)}

Programs == [1 .. 3 -> Sample] \cup [1 .. 4 -> Few]
CutPrograms == [1 .. 2 -> Sample]

(* Numbers at the bounds of the groups of 7 bits and of the word: for -8193 *)
(* and -32768 the sign extension is undefined.                             *)
Edges ==
  {<<OpNum(8, 0, v), Op(9, 0)>> : v \in {0, 127, 128, 16383, 16384, 65535}} \cup
  {<<OpNum(6, 0, v), Op(9, 0)>> : v \in {-1, -64, -65, 63, 64, 8191, 8192, -8192, -8193, 32767, -32768}} \cup
  {<<OpName(0, <<>>), Op(9, 0)>>}

(* A uleb128 too big for a word: its last slice is read as an opcode. An   *)
(* ordinal that is a negative int. A sleb128 with a slice too many, which  *)
(* may have any value; a bad opcode behind it spares the second pass.      *)
TooBig == {<<113, 255, 255, byte, 144>> : byte \in {4, 64, 132}}
TooWide == {<<32, 255, 3, 144>>, <<96, 128, 128, 128, 1, 208>>}

MCInputs ==
  {[bytes |-> Assemble(prog), from |-> prog] : prog \in Programs \cup Edges} \cup
  {[bytes |-> SubSeq(Assemble(prog), 1, Len(Assemble(prog)) - cut), from |-> None] :
     prog \in CutPrograms, cut \in 1 .. 2} \cup
  {[bytes |-> b, from |-> None] : b \in TooBig \cup TooWide}
==============================================================================
