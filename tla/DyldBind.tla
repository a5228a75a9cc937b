------------------------------- MODULE DyldBind -------------------------------
(***************************************************************************)
(* get_dyld_bind_info (otool/dyld_bind_info.c): the program of bind        *)
(* opcodes of a Mach-O image is run twice, once to count the binds and     *)
(* once to fill the table allocated for that many. find_reloc_sym_for_addr *)
(* of symtab_macho.c then looks addresses up in the table.                 *)
(*                                                                         *)
(* Positions are from 1, so end is Len(bytes) + 1. An address, offset or   *)
(* addend is a 64-bit word of the code, 2^Bits64 here; count and skip are  *)
(* 32-bit words, 2^Bits32. A symbol name is the position of its string.    *)
(***************************************************************************)
EXTENDS Integers, Sequences

CONSTANTS
  Bits64, Bits32,
  Inputs,   \* records: bytes, and from, what they were assembled from
  Segs,     \* segs[0 .. nsegs - 1]: records of vmaddr and sections (addr, size)
  None

Byte == 0 .. 255
W64 == 2 ^ Bits64
W32 == 2 ^ Bits32
PointerSize == 4   \* sizeof_pointer: symtab_macho_init passes 32-bit segments

ASSUME BitsAssumption == Bits32 \in Nat \ {0} /\ Bits64 \in Nat /\ Bits32 < Bits64
(* What the theorems need to know of powers of two.                        *)
ASSUME PowerAssumption ==
  /\ 2 ^ 0 = 1 /\ 2 ^ 6 = 64 /\ 2 ^ 7 = 128
  /\ \A k \in 0 .. Bits64 + 6 : 2 ^ k \in Nat \ {0}
  /\ \A j \in 0 .. Bits64 + 6 : \A k \in 0 .. Bits64 + 6 - j : 2 ^ (j + k) = 2 ^ j * 2 ^ k
ASSUME InputsAssumption == \A x \in Inputs : x.bytes \in Seq(Byte)
ASSUME SegsAssumption ==
  Segs \in Seq([vmaddr : 0 .. W32 - 1,
                sections : Seq([addr : 0 .. W32 - 1, size : 0 .. W32 - 1])])

DylibNames ==
  {"this-image", "main-executable", "flat-namespace", "unknown special ordinal",
   "libraryOrdinal out of range", "??"}

(* struct dyld_bind_info. *)
BindInfo ==
  [segname : 0 .. 15 \cup {None}, sectname : Nat \cup {None}, address : 0 .. W64 - 1,
   bind_type : 0 .. 15, addend : 0 .. W64 - 1, dylibname : DylibNames,
   symbolname : Nat \cup {None}, weak_import : BOOLEAN]

ASSUME NoneAssumption == None \notin Nat /\ None \notin BindInfo

VARIABLES
  input,   \* read only
  status,  \* "decoding", "decoded" or "bad_opcode"
  pass,    \* 1 or 2
  p,       \* the next byte
  done,    \* BIND_OPCODE_DONE was met in this pass
  regs,    \* what the opcodes set: see Regs
  n,       \* binds met in this pass
  dbi,     \* *dbi: the table, empty until it is allocated; None where not filled
  ndbi     \* *ndbi, or None

vars == <<input, status, pass, p, done, regs, n, dbi, ndbi>>

bytes == input.bytes
End == Len(bytes) + 1

------------------------------------------------------------------------------
(* Operands. *)

Least(positions) == CHOOSE i \in positions : \A j \in positions : i <= j

Slice(i) == bytes[i] % 128
Continues(i) == bytes[i] >= 128

(* The slices of positions q to i, least significant first. *)
Joined(q, i) ==
  LET Sum[j \in q .. i] ==
        Slice(j) * 2 ^ (7 * (j - q)) + (IF j = q THEN 0 ELSE Sum[j - 1])
  IN  Sum[i]

(* Definitions named for a fault (here and below) are wrong variants of    *)
(* the definition that follows: the runs' properties tell them from it.    *)
FitsByBit(q, i) == 7 * (i - q) < Bits64

(* A slice that shifting would cut makes read_uleb128 stop in front of it. *)
Fits(q, i) ==
  LET bit == 7 * (i - q) IN bit < Bits64 /\ Slice(i) * 2 ^ bit < W64

ReadUleb(q) ==
  LET last == Least({i \in q .. End : i = End \/ ~Fits(q, i) \/ ~Continues(i)})
  IN  IF last = End \/ ~Fits(q, last)
      THEN [value |-> 0, next |-> last]
      ELSE [value |-> Joined(q, last), next |-> last + 1]

(* value |= (-1LL) << bit. *)
Extended(value, bit) == ((value % 2 ^ bit) + W64 - 2 ^ bit) % W64

(* What read_sleb128 makes of positions q to last. C leaves a shift by the *)
(* word's width or more undefined: an instruction that shifts vectors      *)
(* gives 0, one that shifts words takes the count modulo the width. Of a   *)
(* slice that is shifted so, nothing is said.                              *)
SlebValues(q, last) ==
  LET value == Joined(q, last) % W64
      bit   == 7 * (last - q + 1)
  IN  IF bit - 7 >= Bits64 THEN 0 .. W64 - 1
      ELSE IF Slice(last) < 64 THEN {value}
      ELSE IF bit < Bits64 THEN {Extended(value, bit)}
      ELSE {value, Extended(value, bit - Bits64)}

ReadSleb(q) ==
  LET last == Least({i \in q .. End : i = End \/ ~Continues(i)})
  IN  IF last = End THEN [values |-> {0}, next |-> last]
      ELSE [values |-> SlebValues(q, last), next |-> last + 1]

(* The scan for the end of a symbol name does not stop at end; behind it   *)
(* some zero byte is met, and the position is past end.                    *)
AfterString(q) ==
  LET zero == Least({i \in q .. End : i = End \/ bytes[i] = 0}) IN zero + 1

(* segStartAddress, segmentName as the number of the segment, and          *)
(* sectionName as the number of the section.                               *)
SegStartAddress(segIndex) == IF segIndex < Len(Segs) THEN Segs[segIndex + 1].vmaddr ELSE 0
SegmentName(segIndex) == IF segIndex < Len(Segs) THEN segIndex ELSE None
SectionAt(segIndex, address) ==
  LET secs == Segs[segIndex + 1].sections
      Holding == {j \in 1 .. Len(secs) : /\ secs[j].addr <= address
                                         /\ address < (secs[j].addr + secs[j].size) % W32}
  IN  IF segIndex >= Len(Segs) \/ Holding = {} THEN None
      ELSE CHOOSE j \in Holding : \A k \in Holding : j <= k

(* ordinalName, with no dylib names given. An int holds 32 bits. *)
AsInt(v) == IF v % W32 < W32 \div 2 THEN v % W32 ELSE (v % W32) - W32
OrdinalName(ordinal) ==
  CASE ordinal = 0  -> "this-image"
    [] ordinal = -1 -> "main-executable"
    [] ordinal = -2 -> "flat-namespace"
    [] ordinal < -2 -> "unknown special ordinal"
    [] ordinal > 0  -> "libraryOrdinal out of range"

------------------------------------------------------------------------------
(* The opcodes. *)

Regs ==
  [type : 0 .. 15, segIndex : 0 .. 15, segStartAddr : 0 .. W32 - 1,
   segName : 0 .. 15 \cup {None}, segOffset : 0 .. W64 - 1, symbolName : Nat \cup {None},
   fromDylib : DylibNames, addend : 0 .. W64 - 1, weak_import : BOOLEAN]

StartRegs ==
  [type |-> 0, segIndex |-> 0, segStartAddr |-> 0, segName |-> None, segOffset |-> 0,
   symbolName |-> None, fromDylib |-> "??", addend |-> 0, weak_import |-> FALSE]

Immediate == bytes[p] % 16
Opcode    == bytes[p] \div 16

Running == status = "decoding" /\ ~done /\ p < End
At(opcode) == Running /\ Opcode = opcode

Sets(changed, next) ==
  /\ regs' = changed
  /\ p' = next
  /\ UNCHANGED <<input, status, pass, done, n, dbi, ndbi>>

Done ==
  /\ At(0)
  /\ done' = TRUE
  /\ p' = p + 1
  /\ UNCHANGED <<input, status, pass, regs, n, dbi, ndbi>>

SetDylibOrdinalImm ==
  At(1) /\ Sets([regs EXCEPT !.fromDylib = OrdinalName(Immediate)], p + 1)

SetDylibOrdinalUleb ==
  /\ At(2)
  /\ LET arg == ReadUleb(p + 1)
     IN  Sets([regs EXCEPT !.fromDylib = OrdinalName(AsInt(arg.value))], arg.next)

SetDylibSpecialImm ==
  /\ At(3)
  /\ LET ordinal == IF Immediate = 0 THEN 0 ELSE Immediate - 16
     IN  Sets([regs EXCEPT !.fromDylib = OrdinalName(ordinal)], p + 1)

SetSymbolTrailingFlagsImm ==
  /\ At(4)
  /\ Sets([regs EXCEPT !.symbolName = p + 1, !.weak_import = Immediate % 2 = 1],
          AfterString(p + 1))

SetTypeImm == At(5) /\ Sets([regs EXCEPT !.type = Immediate], p + 1)

SetAddendSleb ==
  /\ At(6)
  /\ LET arg == ReadSleb(p + 1)
     IN  \E value \in arg.values : Sets([regs EXCEPT !.addend = value], arg.next)

SetSegmentAndOffsetUleb ==
  /\ At(7)
  /\ LET arg == ReadUleb(p + 1)
     IN  Sets([regs EXCEPT !.segIndex = Immediate,
                           !.segStartAddr = SegStartAddress(Immediate),
                           !.segName = SegmentName(Immediate),
                           !.segOffset = arg.value], arg.next)

AddAddrUleb ==
  /\ At(8)
  /\ LET arg == ReadUleb(p + 1)
     IN  Sets([regs EXCEPT !.segOffset = (@ + arg.value) % W64], arg.next)

(* The entry of the bind at an offset. The section is looked up once, for  *)
(* the first of the binds an opcode makes.                                 *)
Address(offset) == (regs.segStartAddr + offset) % W64
Entry(offset) ==
  [segname     |-> regs.segName,
   sectname    |-> SectionAt(regs.segIndex, Address(regs.segOffset)),
   address     |-> Address(offset),
   bind_type   |-> regs.type,
   addend      |-> regs.addend,
   dylibname   |-> regs.fromDylib,
   symbolname  |-> regs.symbolName,
   weak_import |-> regs.weak_import]

(* count binds, stride apart. The table would grow if it were overrun.     *)
Bind(count, stride, next) ==
  LET Offset(i) == (regs.segOffset + i * stride) % W64
  IN  /\ n' = n + count
      /\ regs' = [regs EXCEPT !.segOffset = Offset(count)]
      /\ dbi' = IF pass = 1 THEN dbi
                ELSE [k \in DOMAIN dbi \cup (n + 1 .. n + count) |->
                        IF k \in n + 1 .. n + count THEN Entry(Offset(k - n - 1)) ELSE dbi[k]]
      /\ p' = next
      /\ UNCHANGED <<input, status, pass, done, ndbi>>

DoBind == At(9) /\ Bind(1, PointerSize, p + 1)

DoBindAddAddrUleb ==
  /\ At(10)
  /\ LET arg == ReadUleb(p + 1)
     IN  Bind(1, (arg.value + PointerSize) % W64, arg.next)

DoBindAddAddrImmScaled ==
  At(11) /\ Bind(1, Immediate * PointerSize + PointerSize, p + 1)

DoBindUlebTimesSkippingUleb ==
  /\ At(12)
  /\ LET count == ReadUleb(p + 1)
         skip  == ReadUleb(count.next)
     IN  Bind(count.value % W32, ((skip.value % W32) + PointerSize) % W32, skip.next)

(* The default case returns, from the first pass before anything is given. *)
BadOpcode ==
  /\ Running
  /\ Opcode > 12
  /\ status' = "bad_opcode"
  /\ p' = p + 1
  /\ UNCHANGED <<input, pass, done, regs, n, dbi, ndbi>>

------------------------------------------------------------------------------
(* The passes. *)

PassOver == status = "decoding" /\ (done \/ p >= End)

(* Every register is set again, and the table is there. *)
SecondPassWith(thisDone, thisRegs, thisN) ==
  /\ PassOver
  /\ pass = 1
  /\ pass' = 2
  /\ p' = 1
  /\ done' = thisDone
  /\ regs' = thisRegs
  /\ dbi' = [k \in 1 .. n |-> None]
  /\ ndbi' = n
  /\ n' = thisN
  /\ UNCHANGED <<input, status>>
SecondPassStillDone == SecondPassWith(done, StartRegs, 0)
SecondPassKeepsRegs == SecondPassWith(FALSE, regs, 0)
SecondPassKeepsCount == SecondPassWith(FALSE, StartRegs, n)

BeginSecondPass == SecondPassWith(FALSE, StartRegs, 0)

Return ==
  /\ PassOver
  /\ pass = 2
  /\ status' = "decoded"
  /\ UNCHANGED <<input, pass, p, done, regs, n, dbi, ndbi>>

Init ==
  /\ input \in Inputs
  /\ status = "decoding"
  /\ pass = 1
  /\ p = 1
  /\ done = FALSE
  /\ regs = StartRegs
  /\ n = 0
  /\ dbi = <<>>
  /\ ndbi = None

Next ==
  \/ Done
  \/ SetDylibOrdinalImm
  \/ SetDylibOrdinalUleb
  \/ SetDylibSpecialImm
  \/ SetSymbolTrailingFlagsImm
  \/ SetTypeImm
  \/ SetAddendSleb
  \/ SetSegmentAndOffsetUleb
  \/ AddAddrUleb
  \/ DoBind
  \/ DoBindAddAddrUleb
  \/ DoBindAddAddrImmScaled
  \/ DoBindUlebTimesSkippingUleb
  \/ BadOpcode
  \/ BeginSecondPass
  \/ Return

Spec == Init /\ [][Next]_vars

------------------------------------------------------------------------------
(* Properties. *)

TypeOK ==
  /\ bytes \in Seq(Byte)
  /\ status \in {"decoding", "decoded", "bad_opcode"}
  /\ pass \in {1, 2}
  /\ p \in 1 .. End + 1
  /\ done \in BOOLEAN
  /\ regs \in Regs
  /\ n \in Nat
  /\ \A k \in DOMAIN dbi : dbi[k] \in BindInfo \cup {None}
  /\ ndbi = None \/ ndbi \in Nat

(* The second pass writes where the first one counted: never past the      *)
(* allocation, each entry in turn (otool/dyld_bind_info.c:253-258, 316).   *)
StaysInTable ==
  pass = 2 =>
    /\ n <= ndbi
    /\ DOMAIN dbi = 1 .. ndbi
    /\ \A k \in 1 .. ndbi : dbi[k] = None <=> k > n

(* When the call returns, what *ndbi says is what was filled: no entry of  *)
(* the malloc'ed table is left as it was, for find_reloc_sym_for_addr      *)
(* reads all ndbi of them. After a bad opcode there is no table at all.    *)
ReturnsWholeTable ==
  /\ status = "decoded" => n = ndbi /\ \A k \in 1 .. ndbi : dbi[k] # None
  /\ status = "bad_opcode" => dbi = <<>> /\ ndbi = None
==============================================================================
