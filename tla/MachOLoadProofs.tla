--------------------------- MODULE MachOLoadProofs ---------------------------
(***************************************************************************)
(* Proofs about MachOLoad for every word size, every size of the two       *)
(* tables, and every set of files and of questions.                        *)
(***************************************************************************)
EXTENDS MachOLoad, Counting, SequenceTheorems

------------------------------------------------------------------------------
(* Words and shapes. *)

LEMMA PlusIsAWord ==
  ASSUME NEW a \in UInt, NEW b \in UInt
  PROVE  Plus(a, b) \in UInt
BY WordAssumption DEF Plus, UInt

LEMMA NoWrap ==
  ASSUME NEW a \in Nat, NEW b \in Nat, a + b < Word
  PROVE  Plus(a, b) = a + b
BY DEF Plus

(* A byte of an area that does not wrap. *)
LEMMA ByteInside ==
  ASSUME NEW lo \in Nat, NEW size \in Nat, lo + size < Word, NEW a \in lo .. lo + size - 1
  PROVE  /\ a \in Int /\ lo <= a /\ a < lo + size
         /\ Plus(a, 1) = a + 1 /\ a + 1 <= lo + size
         /\ Plus(lo, size) = lo + size
BY WordAssumption DEF Plus

(* The position in the file of what is at a in an area that begins at vm   *)
(* and is stored at off in the image.                                      *)
LEMMA PositionInside ==
  ASSUME NEW base \in Nat, NEW imagesize \in Nat, base + imagesize < Word,
         NEW vm \in Nat, NEW len \in Nat, vm + len < Word,
         NEW off \in Nat, off + len <= imagesize,
         NEW a \in Nat, NEW size \in Nat, vm <= a, a < vm + len, a + size <= vm + len,
         NEW ptr, ptr = Plus(base, Plus(off, a - vm))
  PROVE  ptr >= base /\ ptr + size <= base + imagesize
<1>1. Plus(off, a - vm) = off + (a - vm)
  BY WordAssumption DEF Plus
<1>2. Plus(base, off + (a - vm)) = base + (off + (a - vm))
  BY WordAssumption DEF Plus
<1> QED
  BY <1>1, <1>2

(* The chosen image is an image. *)
LEMMA ImageShape ==
  ASSUME file \in File, arch \in 1 .. Len(file.archs)
  PROVE  /\ Image \in ArchEntry
         /\ Image.cmds \in Seq(LoadCommand)
         /\ Len(Image.cmds) \in Nat
         /\ Image.offset \in UInt /\ Image.size \in UInt
         /\ Image.offset + Image.size < Word
<1>1. FileType(file)
  BY FileAssumption
<1>2. file.archs \in Seq(ArchEntry)
  BY <1>1 DEF FileType
<1>3. file.archs[arch] \in ArchEntry
  BY <1>2, ElementOfSeq
<1>4. file.archs[arch].offset + file.archs[arch].size < Word
  BY <1>1 DEF FileType
<1>5. Image.cmds \in Seq(LoadCommand)
  BY <1>3 DEF Image, ArchEntry
<1> QED
  BY <1>3, <1>4, <1>5, LenProperties DEF Image, ArchEntry

(* So is what a segment command of it says. *)
LEMMA SegmentShape ==
  ASSUME file \in File, arch \in 1 .. Len(file.archs),
         NEW c \in 1 .. Len(Image.cmds), Image.cmds[c].cmd = "segment"
  PROVE  /\ Image.cmds[c] \in SegmentCommand
         /\ Len(Image.cmds[c].sections) \in Nat
         /\ \A j \in 1 .. Len(Image.cmds[c].sections) : Image.cmds[c].sections[j] \in Section
<1>1. Image.cmds[c] \in LoadCommand
  BY ImageShape, ElementOfSeq
<1>2. Image.cmds[c] \in SegmentCommand
  BY <1>1 DEF LoadCommand, SegmentCommand, TableKinds
<1>3. Image.cmds[c].sections \in Seq(Section)
  BY <1>2 DEF SegmentCommand
<1> QED
  BY <1>2, <1>3, LenProperties, ElementOfSeq

LEMMA RangeShape ==
  ASSUME NEW seg \in SegmentCommand, NEW sec \in Section, NEW i \in Nat, NEW j \in Nat
  PROVE  RangeOf(seg, sec, i, j) \in VmRange
<1>1. sec.addr \in UInt /\ sec.size \in UInt /\ sec.offset \in UInt
  BY DEF Section
<1>2. Plus(sec.addr, sec.size) \in UInt /\ Plus(sec.offset, sec.size) \in UInt
  BY <1>1, PlusIsAWord
<1>3. IsMapped(seg, sec) \in BOOLEAN
  BY DEF IsMapped
<1> QED
  BY <1>1, <1>2, <1>3 DEF RangeOf, VmRange

LEMMA MappedRange ==
  ASSUME NEW seg, NEW sec, NEW i, NEW j, NEW r, r = RangeOf(seg, sec, i, j)
  PROVE  r.is_mapped <=> IsMapped(seg, sec)
<1>1. r.is_mapped = IsMapped(seg, sec)
  BY DEF RangeOf
<1> QED
  BY <1>1 DEF IsMapped

(* A range that holds an address does not wrap. *)
LEMMA HoldingRange ==
  ASSUME NEW seg \in SegmentCommand, NEW sec \in Section, NEW i, NEW j, NEW a \in Int,
         Within(RangeOf(seg, sec, i, j), a)
  PROVE  /\ sec.addr + sec.size < Word
         /\ sec.addr <= a /\ a < sec.addr + sec.size
<1>1. sec.addr \in UInt /\ sec.size \in UInt
  BY DEF Section
<1>2. sec.addr <= a /\ a < Plus(sec.addr, sec.size)
  BY DEF Within, RangeOf
<1> QED
  BY <1>1, <1>2, WordAssumption DEF UInt, Plus

(* The section the loop stands at, and its range. *)
LEMMA NewRangeShape ==
  ASSUME TypeOK, Placed, status = "commands", sect # 0, sect <= Len(Command.sections)
  PROVE  /\ arch \in 1 .. Len(file.archs)
         /\ at \in 1 .. Len(Image.cmds)
         /\ Command.cmd = "segment"
         /\ Command \in SegmentCommand
         /\ Command.sections[sect] \in Section
         /\ InFile(Command)
         /\ NewRange \in VmRange
<1>1. arch \in 1 .. Len(file.archs) /\ file \in File
  BY DEF TypeOK, Placed
<1>2. at \in 1 .. Len(Image.cmds) /\ Command.cmd = "segment" /\ InFile(Command)
  BY <1>1, ImageShape DEF TypeOK, Placed
<1>3. sect \in 1 .. Len(Command.sections)
  BY <1>1, <1>2, SegmentShape DEF TypeOK, Command
<1>4. Command \in SegmentCommand /\ Command.sections[sect] \in Section
  BY <1>1, <1>2, <1>3, SegmentShape DEF Command
<1>5. Len(segs) \in Nat /\ sect - 1 \in Nat
  BY <1>3, LenProperties DEF TypeOK
<1>6. NewRange \in VmRange
  BY <1>4, <1>5, RangeShape DEF NewRange
<1> QED
  BY <1>1, <1>2, <1>4, <1>6

(* Where the ranges are apart, only one holds an address, so that the      *)
(* first one is it.                                                        *)
LEMMA OneHolds ==
  ASSUME TypeOK, RangesApart, NEW a \in Int,
         NEW j \in 1 .. Len(vmranges), NEW k \in 1 .. Len(vmranges),
         Within(vmranges[j], a), Within(vmranges[k], a)
  PROVE  j = k
<1>1. vmranges[j] \in VmRange /\ vmranges[k] \in VmRange
  BY ElementOfSeq DEF TypeOK
<1>2. /\ vmranges[j].vm_addr_begin \in Int /\ vmranges[j].vm_addr_end \in Int
      /\ vmranges[k].vm_addr_begin \in Int /\ vmranges[k].vm_addr_end \in Int
  BY <1>1, WordAssumption DEF VmRange, UInt
<1>3. ~Apart(vmranges[j], vmranges[k])
  BY <1>2 DEF Within, Apart
<1> QED
  BY <1>3 DEF RangesApart

LEMMA FirstHoldingIs ==
  ASSUME TypeOK, RangesApart, NEW a \in Int, NEW k \in Holding(a)
  PROVE  /\ FirstHolding(a) = k
         /\ k \in 1 .. Len(vmranges)
         /\ Within(vmranges[k], a)
<1>1. k \in 1 .. Len(vmranges) /\ Within(vmranges[k], a)
  BY DEF Holding
<1>2. \A j \in Holding(a) : j = k
  BY <1>1, OneHolds DEF Holding
<1>3. \A j \in Holding(a) : k <= j
  BY <1>1, <1>2
<1> QED
  BY <1>1, <1>2, <1>3 DEF FirstHolding

(* An answer is computed from a range that holds the address.              *)
LEMMA AllowedAnswer ==
  ASSUME TypeOK, RangesApart, arch <= Len(file.archs),
         NEW a \in UInt, NEW size \in UInt, PtrAllowed(a, size)
  PROVE  \E k \in 1 .. Len(vmranges) :
           /\ FirstHolding(a) = k
           /\ vmranges[k].is_mapped
           /\ Within(vmranges[k], a)
           /\ Plus(a, size) <= vmranges[k].vm_addr_end
           /\ PtrTo(vmranges[k], a) \in UInt
<1>1. a \in Int
  BY WordAssumption DEF UInt
<1>2. PICK k \in Holding(a) : TRUE
  BY DEF PtrAllowed
<1>3. FirstHolding(a) = k /\ k \in 1 .. Len(vmranges) /\ Within(vmranges[k], a)
  BY <1>1, FirstHoldingIs
<1>4. vmranges[k] \in VmRange
  BY <1>3, ElementOfSeq DEF TypeOK
<1>5. a - vmranges[k].vm_addr_begin \in UInt
  BY <1>3, <1>4, WordAssumption DEF Within, VmRange, UInt
<1>6. Plus(vmranges[k].map_off_begin, a - vmranges[k].vm_addr_begin) \in UInt
  BY <1>4, <1>5, PlusIsAWord DEF VmRange
<1>7. Image.offset \in UInt
  BY ImageShape DEF TypeOK
<1>8. PtrTo(vmranges[k], a) \in UInt
  BY <1>6, <1>7, PlusIsAWord DEF PtrTo
<1> QED
  BY <1>3, <1>8 DEF PtrAllowed

------------------------------------------------------------------------------
(* Every step keeps the invariant. *)

LEMMA LoadInvInit ==
  Init => LoadInv
<1> SUFFICES ASSUME Init
             PROVE  LoadInv
  OBVIOUS
<1>1. FileType(file) /\ file.archs \in Seq(ArchEntry) /\ Len(file.archs) \in Nat
  BY FileAssumption, LenProperties DEF Init, FileType
<1>2. ~file.fat => Len(file.archs) = 1
  BY <1>1 DEF FileType
<1>3. Untouched
  BY DEF Init, Untouched
<1>4. arch <= Len(file.archs) => Len(Image.cmds) \in Nat
  BY <1>1, ImageShape DEF Init
<1>5. TypeOK
  <2>1. arch \in 1 .. Len(file.archs) + 1
    BY <1>1 DEF Init
  <2>2. at \in 1 .. (IF arch > Len(file.archs) THEN 1 ELSE Len(Image.cmds) + 1)
    BY <1>1, <1>4 DEF Init
  <2> QED
    BY <2>1, <2>2, EmptySeq DEF Init, TypeOK, Statuses, TableKinds
<1>6. Placed
  BY <1>1, <1>2, <1>3 DEF Init, Placed, Untouched
<1>7. SegsOrdered /\ RangesAccepted /\ RangesApart
  BY <1>3, EmptySeq DEF Untouched, SegsOrdered, RangesAccepted, RangesApart
<1>8. PastLoaded
  BY <1>3, <1>4 DEF Untouched, PastLoaded, Segments
<1>9. AnswerFromRange
  BY <1>3 DEF Untouched, AnswerFromRange
<1> QED
  BY <1>5, <1>6, <1>7, <1>8, <1>9 DEF LoadInv

(* What the tables say stays so while the loops stand still. *)
LEMMA TablesKept ==
  ASSUME LoadInv, UNCHANGED <<file, arch, at, sect, vmranges, segs>>
  PROVE  SegsOrdered' /\ RangesAccepted' /\ RangesApart' /\ PastLoaded'
<1>1. Image' = Image /\ Segments' = Segments
  BY DEF Image, Segments
<1>2. SegsOrdered'
  BY <1>1 DEF LoadInv, SegsOrdered
<1>3. RangesAccepted'
  BY <1>1 DEF LoadInv, RangesAccepted, SegmentOf, InFile
<1>4. RangesApart'
  BY DEF LoadInv, RangesApart
<1>5. PastLoaded'
  BY <1>1 DEF LoadInv, PastLoaded, HasRanges
<1> QED
  BY <1>2, <1>3, <1>4, <1>5

LEMMA FatStep ==
  ASSUME LoadInv, ExamineArch \/ ExaminePastTable \/ CheckHeader
  PROVE  LoadInv'
<1>1. /\ TypeOK /\ Placed
      /\ UNCHANGED <<file, at, sect, vmranges, segs, tables, got>>
  BY DEF LoadInv, ExamineArch, ExaminePastTable, CheckHeader
<1>2. FileType(file) /\ file.archs \in Seq(ArchEntry) /\ Len(file.archs) \in Nat
  BY <1>1, FileAssumption, LenProperties DEF TypeOK, FileType
<1>3. status \in {"fat", "header"} /\ Untouched /\ Untouched'
  BY <1>1 DEF Placed, ExamineArch, ExaminePastTable, CheckHeader, Untouched
<1>4. arch' \in 1 .. Len(file.archs) + 1
  BY <1>1, <1>2 DEF TypeOK, ExamineArch, ExaminePastTable, CheckHeader
<1>5. (arch <= Len(file.archs) => Len(Image.cmds) \in Nat)'
  <2> SUFFICES ASSUME arch' <= Len(file.archs)
               PROVE  Len(file.archs[arch'].cmds) \in Nat
    BY <1>1 DEF Image
  <2>1. file.archs[arch'] \in ArchEntry
    BY <1>2, <1>4, ElementOfSeq
  <2> QED
    BY <2>1, LenProperties DEF ArchEntry
<1>6. TypeOK'
  <2>1. (at \in 1 .. (IF arch > Len(file.archs) THEN 1 ELSE Len(Image.cmds) + 1))'
    BY <1>1, <1>2, <1>3, <1>4, <1>5 DEF Untouched
  <2>2. status' \in Statuses
    BY <1>1 DEF ExamineArch, ExaminePastTable, CheckHeader, Statuses, TypeOK
  <2> QED
    BY <1>1, <1>4, <2>1, <2>2 DEF TypeOK
<1>7. Placed'
  BY <1>1, <1>2, <1>3, <1>4
  DEF Placed, Untouched, TypeOK, ExamineArch, ExaminePastTable, CheckHeader
<1>8. (SegsOrdered /\ RangesAccepted /\ RangesApart)'
  BY <1>3, EmptySeq DEF Untouched, SegsOrdered, RangesAccepted, RangesApart
<1>9. PastLoaded'
  BY <1>3, <1>5 DEF Untouched, PastLoaded, Segments
<1>10. AnswerFromRange'
  BY <1>3 DEF Untouched, AnswerFromRange
<1> QED
  BY <1>6, <1>7, <1>8, <1>9, <1>10 DEF LoadInv

LEMMA BeginSegmentStep ==
  ASSUME LoadInv, BeginSegment
  PROVE  LoadInv'
<1>1. /\ TypeOK /\ Placed /\ AnswerFromRange
      /\ UNCHANGED <<file, arch, at, vmranges, segs, tables, got>>
      /\ sect = 0 /\ status = "commands" /\ got = None
  BY DEF LoadInv, BeginSegment, InCommand, Placed
<1>2. Image' = Image /\ Segments' = Segments
  BY <1>1 DEF Image, Segments
<1>3. /\ arch \in 1 .. Len(file.archs)
      /\ at \in 1 .. Len(Image.cmds) /\ Command.cmd = "segment"
      /\ Len(Command.sections) \in Nat
  BY <1>1, ImageShape, SegmentShape DEF TypeOK, Placed, BeginSegment, InCommand, Command
<1>4. TypeOK'
  BY <1>1, <1>2 DEF TypeOK, BeginSegment, Statuses
<1>5. Placed'
  BY <1>1, <1>2, <1>3
  DEF Placed, BeginSegment, Untouched, InFile, Command
<1>6. CASE status' = "failed"
  <2>1. UNCHANGED <<file, arch, at, sect, vmranges, segs>>
    BY <1>1, <1>6 DEF BeginSegment
  <2>2. SegsOrdered' /\ RangesAccepted' /\ RangesApart' /\ PastLoaded'
    BY <2>1, TablesKept
  <2>3. AnswerFromRange'
    BY <1>1 DEF AnswerFromRange
  <2> QED
    BY <1>4, <1>5, <2>2, <2>3 DEF LoadInv
<1>7. CASE status' # "failed"
  <2>1. sect' = 1
    BY <1>7 DEF BeginSegment
  <2>2. SegsOrdered'
    BY <1>1, <1>2 DEF LoadInv, SegsOrdered
  <2>3. RangesAccepted'
    BY <1>1, <1>2, <2>1 DEF LoadInv, RangesAccepted, SegmentOf, InFile
  <2>4. RangesApart'
    BY <1>1 DEF LoadInv, RangesApart
  <2>5. PastLoaded'
    BY <1>1, <1>2, <2>1 DEF LoadInv, PastLoaded, HasRanges
  <2>6. AnswerFromRange'
    BY <1>1 DEF AnswerFromRange
  <2> QED
    BY <1>4, <1>5, <2>2, <2>3, <2>4, <2>5, <2>6 DEF LoadInv
<1> QED
  BY <1>6, <1>7

(* A step that ends the program in the middle of the commands keeps all.   *)
LEMMA FailureStep ==
  ASSUME LoadInv, status = "commands", status' = "failed",
         UNCHANGED <<file, arch, at, sect, vmranges, segs, tables, got>>
  PROVE  LoadInv'
<1>1. TypeOK /\ Placed /\ got = None
  BY DEF LoadInv, Placed
<1>2. Image' = Image
  BY DEF Image
<1>3. TypeOK'
  BY <1>1, <1>2 DEF TypeOK, Statuses
<1>4. Placed'
  BY <1>1, <1>2 DEF Placed, Untouched, InFile, Command
<1>5. SegsOrdered' /\ RangesAccepted' /\ RangesApart' /\ PastLoaded'
  BY TablesKept
<1>6. AnswerFromRange'
  BY <1>1 DEF AnswerFromRange
<1> QED
  BY <1>3, <1>4, <1>5, <1>6 DEF LoadInv

LEMMA AddSectionStep ==
  ASSUME LoadInv, AddSection
  PROVE  LoadInv'
<1>1. /\ TypeOK /\ Placed
      /\ UNCHANGED <<file, arch, at, segs, tables, got>>
      /\ status = "commands" /\ sect # 0 /\ sect <= Len(Command.sections) /\ got = None
  BY DEF LoadInv, AddSection, InCommand, Placed
<1>2. CASE ~SectionAccepted
  BY <1>1, <1>2, FailureStep DEF AddSection
<1>3. CASE SectionAccepted
  <2>1. vmranges' = Append(vmranges, NewRange) /\ sect' = sect + 1 /\ status' = status
    BY <1>3 DEF AddSection
  <2>2. /\ arch \in 1 .. Len(file.archs) /\ at \in 1 .. Len(Image.cmds)
        /\ Command.cmd = "segment" /\ InFile(Command) /\ NewRange \in VmRange
    BY <1>1, NewRangeShape
  <2>3. /\ vmranges' \in Seq(VmRange)
        /\ Len(vmranges) \in Nat
        /\ Len(vmranges') = Len(vmranges) + 1
        /\ \A k \in 1 .. Len(vmranges) : vmranges'[k] = vmranges[k]
        /\ vmranges'[Len(vmranges) + 1] = NewRange
    BY <1>1, <2>1, <2>2, AppendFacts DEF TypeOK
  <2>4. Image' = Image /\ Segments' = Segments
    BY <1>1 DEF Image, Segments
  <2>5. sect \in Nat \ {0} /\ sect' \in Nat \ {0} /\ Len(segs) \in Nat
    BY <1>1, <2>1, LenProperties DEF TypeOK
  <2>6. TypeOK'
    BY <1>1, <2>1, <2>3, <2>4, <2>5 DEF TypeOK
  <2>7. Placed'
    <3>1. Len(Command.sections) \in Nat
      BY <1>1, <2>2, SegmentShape DEF TypeOK, Command
    <3> QED
      BY <1>1, <2>1, <2>2, <2>4, <2>5, <3>1 DEF Placed, Untouched, InFile, Command
  <2>8. SegsOrdered'
    BY <1>1, <2>4 DEF LoadInv, SegsOrdered
  <2>9. RangesAccepted'
    <3> DEFINE Accepted(r) ==
          LET seg == Image.cmds[SegmentOf(r)]
              j   == r.section_idx + 1
          IN  /\ r.segment_idx < Len(segs) \/ (r.segment_idx = Len(segs) /\ sect # 0)
              /\ seg.cmd = "segment"
              /\ j \in 1 .. Len(seg.sections)
              /\ r = RangeOf(seg, seg.sections[j], r.segment_idx, r.section_idx)
              /\ InFile(seg)
              /\ InSegment(seg, seg.sections[j])
    <3>1. \A k \in 1 .. Len(vmranges) : Accepted(vmranges[k])
      BY DEF LoadInv, RangesAccepted
    <3>2. Accepted(NewRange)
      <4>1. NewRange.segment_idx = Len(segs) /\ NewRange.section_idx = sect - 1
        BY DEF NewRange, RangeOf
      <4>2. SegmentOf(NewRange) = at
        BY <4>1, <2>5 DEF SegmentOf
      <4>3. NewRange.section_idx + 1 = sect /\ Image.cmds[at] = Command
        BY <4>1, <2>5 DEF Command
      <4>4. NewRange = RangeOf(Command, Command.sections[sect],
                               NewRange.segment_idx, NewRange.section_idx)
        BY <4>1 DEF NewRange
      <4>5. sect \in 1 .. Len(Command.sections)
        BY <1>1, <2>2, <2>5, SegmentShape DEF TypeOK, Command
      <4>6. InSegment(Command, Command.sections[sect])
        BY <1>3 DEF SectionAccepted
      <4> QED
        BY <1>1, <2>2, <4>1, <4>2, <4>3, <4>4, <4>5, <4>6
    <3>3. \A k \in 1 .. Len(vmranges') : Accepted(vmranges'[k])
      <4> HIDE DEF Accepted
      <4> QED
        BY <2>3, <3>1, <3>2
    <3> QED
      BY <1>1, <2>4, <2>5, <3>3 DEF RangesAccepted, SegmentOf, InFile
  <2>10. RangesApart'
    <3>1. \A k \in 1 .. Len(vmranges) : Apart(NewRange, vmranges[k])
      BY <1>3 DEF SectionAccepted
    <3>2. \A k \in 1 .. Len(vmranges) : Apart(vmranges[k], NewRange)
      BY <3>1 DEF Apart
    <3>3. \A j, k \in 1 .. Len(vmranges) : j # k => Apart(vmranges[j], vmranges[k])
      BY DEF LoadInv, RangesApart
    <3> QED
      BY <2>3, <3>1, <3>2, <3>3 DEF RangesApart
  <2>11. PastLoaded'
    <3>1. ASSUME NEW c, NEW n, NEW last, HasRanges(c, n, last)
          PROVE  HasRanges(c, n, last)'
      BY <2>3, <2>4, <3>1 DEF HasRanges
    <3>2. \A c \in Segments : c < at =>
            \E n \in 1 .. Len(segs) :
              segs[n] = c /\ HasRanges(c, n, Len(Image.cmds[c].sections))
      BY <2>2 DEF LoadInv, PastLoaded, TypeOK
    <3>3. \A c \in Segments : c < at =>
            \E n \in 1 .. Len(segs) :
              segs[n] = c /\ HasRanges(c, n, Len(Image.cmds[c].sections))'
      BY <2>4, <3>1, <3>2
    <3>4. HasRanges(at, Len(segs) + 1, sect - 1)'
      <4>1. \A j \in 1 .. sect - 1 : \E k \in 1 .. Len(vmranges') :
              vmranges'[k] = RangeOf(Image.cmds[at], Image.cmds[at].sections[j],
                                     Len(segs), j - 1)
        BY <1>1, <2>3, <2>5 DEF LoadInv, PastLoaded, HasRanges
      <4>2. vmranges'[Len(vmranges')] = RangeOf(Image.cmds[at], Image.cmds[at].sections[sect],
                                                Len(segs), sect - 1)
        BY <2>3 DEF NewRange, Command
      <4>3. ASSUME NEW j \in 1 .. sect
            PROVE  \E k \in 1 .. Len(vmranges') :
                     vmranges'[k] = RangeOf(Image.cmds[at], Image.cmds[at].sections[j],
                                            Len(segs), j - 1)
        <5>1. CASE j = sect
          BY <2>3, <4>2, <5>1
        <5>2. CASE j # sect
          <6>1. j \in 1 .. sect - 1
            BY <2>5, <5>2
          <6> QED
            BY <4>1, <6>1
        <5> QED
          BY <5>1, <5>2
      <4>4. sect' - 1 = sect /\ (Len(segs) + 1) - 1 = Len(segs)
        BY <2>1, <2>5
      <4>5. \A j \in 1 .. sect' - 1 : \E k \in 1 .. Len(vmranges') :
              vmranges'[k] = RangeOf(Image.cmds[at], Image.cmds[at].sections[j],
                                     (Len(segs) + 1) - 1, j - 1)
        BY <4>3, <4>4
      <4> QED
        BY <1>1, <2>4, <4>5 DEF HasRanges
    <3> QED
      BY <1>1, <2>4, <3>3, <3>4 DEF PastLoaded
  <2>12. AnswerFromRange'
    BY <1>1 DEF AnswerFromRange
  <2> QED
    BY <2>6, <2>7, <2>8, <2>9, <2>10, <2>11, <2>12 DEF LoadInv
<1> QED
  BY <1>2, <1>3

(* A larger number appended to increasing ones keeps them in order.        *)
LEMMA OrderGrows ==
  ASSUME NEW s, NEW t, NEW n \in Nat, NEW top \in Nat, NEW len, len = n + 1,
         \A k \in 1 .. n : s[k] \in Nat /\ s[k] < top,
         \A k \in 1 .. n : t[k] = s[k],
         t[n + 1] = top,
         \A j, k \in 1 .. n : j < k <=> s[j] < s[k]
  PROVE  \A j, k \in 1 .. len : j < k <=> t[j] < t[k]
<1> SUFFICES ASSUME NEW j \in 1 .. n + 1, NEW k \in 1 .. n + 1
             PROVE  j < k <=> t[j] < t[k]
  OBVIOUS
<1>1. CASE j \in 1 .. n /\ k \in 1 .. n
  BY <1>1
<1>2. CASE j = n + 1 /\ k \in 1 .. n
  BY <1>2
<1>3. CASE j \in 1 .. n /\ k = n + 1
  BY <1>3
<1>4. CASE j = n + 1 /\ k = n + 1
  BY <1>4
<1> QED
  BY <1>1, <1>2, <1>3, <1>4

LEMMA EndSegmentStep ==
  ASSUME LoadInv, EndSegment
  PROVE  LoadInv'
<1>1. /\ TypeOK /\ Placed
      /\ UNCHANGED <<file, arch, vmranges, tables, got>>
      /\ status = "commands" /\ sect > Len(Command.sections) /\ got = None
      /\ arch \in 1 .. Len(file.archs) /\ at \in 1 .. Len(Image.cmds)
      /\ Command.cmd = "segment"
  BY ImageShape DEF LoadInv, EndSegment, InCommand, Placed, TypeOK
<1>2. /\ Len(Image.cmds) \in Nat /\ Len(Command.sections) \in Nat
      /\ sect = Len(Command.sections) + 1
  <2>1. Len(Image.cmds) \in Nat /\ Len(Command.sections) \in Nat
    BY <1>1, ImageShape, SegmentShape DEF TypeOK, Command
  <2>2. sect \in Nat \ {0}
    BY <1>1, <2>1 DEF TypeOK
  <2>3. sect <= Len(Command.sections) + 1
    BY <1>1, <2>2 DEF Placed
  <2> QED
    BY <1>1, <2>1, <2>2, <2>3
<1>3. CASE ~(Len(segs) < MaxSegments)
  BY <1>1, <1>3, FailureStep DEF EndSegment
<1>4. CASE Len(segs) < MaxSegments
  <2>1. segs' = Append(segs, at) /\ at' = at + 1 /\ sect' = 0 /\ status' = status
    BY <1>4 DEF EndSegment
  <2>2. /\ segs' \in Seq(Nat \ {0})
        /\ Len(segs) \in Nat
        /\ Len(segs') = Len(segs) + 1
        /\ \A n \in 1 .. Len(segs) : segs'[n] = segs[n]
        /\ segs'[Len(segs) + 1] = at
    BY <1>1, <2>1, AppendFacts DEF TypeOK
  <2>3. Image' = Image /\ Segments' = Segments /\ at \in Segments
    BY <1>1 DEF Image, Segments, Command
  <2>4. \A n \in 1 .. Len(segs) : segs[n] \in Nat /\ segs[n] < at /\ segs[n] \in Segments
    BY <1>1, ElementOfSeq DEF LoadInv, SegsOrdered, TypeOK
  <2>5. TypeOK'
    BY <1>1, <1>2, <2>1, <2>2, <2>3 DEF TypeOK
  <2>6. Placed'
    BY <1>1, <2>1, <2>3 DEF Placed
  <2>7. SegsOrdered'
    <3>1. \A n \in 1 .. Len(segs') : segs'[n] < at' /\ segs'[n] \in Segments
      BY <1>1, <2>1, <2>2, <2>3, <2>4
    <3>2. \A m, n \in 1 .. Len(segs) : m < n <=> segs[m] < segs[n]
      BY DEF LoadInv, SegsOrdered
    <3>3. \A m, n \in 1 .. Len(segs') : m < n <=> segs'[m] < segs'[n]
      <4>1. at \in Nat
        BY <1>1 DEF TypeOK
      <4> QED
        BY <4>1, <2>2, <2>4, <3>2, OrderGrows
    <3> QED
      BY <2>3, <3>1, <3>3 DEF SegsOrdered
  <2>8. RangesAccepted'
    <3> SUFFICES ASSUME NEW k \in 1 .. Len(vmranges)
                 PROVE  LET r   == vmranges[k]
                            seg == Image.cmds[SegmentOf(r)']
                            j   == r.section_idx + 1
                        IN  /\ r.segment_idx < Len(segs')
                            /\ seg.cmd = "segment"
                            /\ j \in 1 .. Len(seg.sections)
                            /\ r = RangeOf(seg, seg.sections[j], r.segment_idx, r.section_idx)
                            /\ InFile(seg)
                            /\ InSegment(seg, seg.sections[j])
      BY <1>1, <2>3 DEF RangesAccepted, SegmentOf, InFile
    <3>1. vmranges[k].segment_idx \in Nat
      <4>1. vmranges[k] \in VmRange
        BY <1>1, ElementOfSeq DEF TypeOK
      <4> QED
        BY <4>1 DEF VmRange
    <3>2. vmranges[k].segment_idx <= Len(segs)
      BY <2>2, <3>1 DEF LoadInv, RangesAccepted
    <3>3. SegmentOf(vmranges[k])' = SegmentOf(vmranges[k])
      <4>1. CASE vmranges[k].segment_idx < Len(segs)
        <5>1. vmranges[k].segment_idx + 1 \in 1 .. Len(segs)
          BY <2>2, <3>1, <4>1
        <5>2. vmranges[k].segment_idx < Len(segs')
          BY <2>2, <3>1, <4>1
        <5> QED
          BY <1>1, <2>2, <4>1, <5>1, <5>2 DEF SegmentOf
      <4>2. CASE vmranges[k].segment_idx = Len(segs)
        BY <1>1, <2>2, <4>2 DEF SegmentOf
      <4> QED
        BY <2>2, <3>1, <3>2, <4>1, <4>2
    <3> QED
      BY <2>2, <3>1, <3>2, <3>3 DEF LoadInv, RangesAccepted
  <2>9. RangesApart'
    BY <1>1 DEF LoadInv, RangesApart
  <2>10. PastLoaded'
    <3> SUFFICES ASSUME NEW c \in Segments, c < at'
                 PROVE  \E n \in 1 .. Len(segs') :
                          /\ segs'[n] = c
                          /\ HasRanges(c, n, Len(Image.cmds[c].sections))
      <4>1. \A c, n, last : HasRanges(c, n, last)' <=> HasRanges(c, n, last)
        BY <1>1, <2>3 DEF HasRanges
      <4> QED
        BY <1>1, <2>1, <2>3, <4>1 DEF PastLoaded
    <3>1. CASE c < at
      <4>1. PICK n \in 1 .. Len(segs) :
              segs[n] = c /\ HasRanges(c, n, Len(Image.cmds[c].sections))
        BY <1>1, <3>1 DEF LoadInv, PastLoaded
      <4> QED
        BY <2>2, <4>1
    <3>2. CASE ~(c < at)
      <4>1. c = at
        BY <1>1, <2>1, <3>2 DEF Segments
      <4>2. HasRanges(at, Len(segs) + 1, sect - 1)
        BY <1>2 DEF LoadInv, PastLoaded
      <4>3. HasRanges(c, Len(segs) + 1, Len(Image.cmds[c].sections))
        BY <1>2, <4>1, <4>2 DEF Command
      <4> QED
        BY <2>2, <4>1, <4>3
    <3> QED
      BY <3>1, <3>2
  <2>11. AnswerFromRange'
    BY <1>1 DEF AnswerFromRange
  <2> QED
    BY <2>5, <2>6, <2>7, <2>8, <2>9, <2>10, <2>11 DEF LoadInv
<1> QED
  BY <1>3, <1>4

(* Commands that are not segments leave the ranges and segs alone. *)
LEMMA OtherCommandStep ==
  ASSUME LoadInv, RecordTable \/ SkipCommand
  PROVE  LoadInv'
<1>1. /\ TypeOK /\ Placed
      /\ UNCHANGED <<file, arch, status, sect, vmranges, segs, got>>
      /\ status = "commands" /\ at' = at + 1 /\ got = None
      /\ arch \in 1 .. Len(file.archs) /\ at \in 1 .. Len(Image.cmds)
      /\ Command.cmd # "segment"
  BY ImageShape
  DEF LoadInv, RecordTable, SkipCommand, InCommand, TableKinds, Placed, TypeOK
<1>2. sect = 0
  BY <1>1 DEF Placed
<1>3. Image' = Image /\ Segments' = Segments /\ at \notin Segments /\ Len(Image.cmds) \in Nat
  BY <1>1, ImageShape DEF Image, Segments, Command, TypeOK
<1>4. TypeOK'
  <2>1. tables' \in [TableKinds -> Nat \cup {None}]
    BY <1>1 DEF TypeOK, RecordTable, SkipCommand
  <2>2. (at \in 1 .. (IF arch > Len(file.archs) THEN 1 ELSE Len(Image.cmds) + 1))'
    BY <1>1, <1>3 DEF TypeOK
  <2> QED
    BY <1>1, <2>1, <2>2 DEF TypeOK
<1>5. Placed'
  BY <1>1, <1>2, <1>3 DEF Placed
<1>6. SegsOrdered'
  <2>1. \A n \in 1 .. Len(segs) : segs[n] \in Nat /\ segs[n] < at /\ segs[n] \in Segments
    BY <1>1, ElementOfSeq DEF LoadInv, SegsOrdered, TypeOK
  <2>2. \A n \in 1 .. Len(segs) : segs[n] < at'
    BY <1>1, <2>1
  <2> QED
    BY <1>1, <1>3, <2>1, <2>2 DEF LoadInv, SegsOrdered
<1>7. RangesAccepted'
  <2>1. \A k \in 1 .. Len(vmranges) : vmranges[k].segment_idx < Len(segs)
    BY <1>2 DEF LoadInv, RangesAccepted
  <2> QED
    BY <1>1, <1>3, <2>1 DEF LoadInv, RangesAccepted, SegmentOf, InFile
<1>8. RangesApart'
  BY <1>1 DEF LoadInv, RangesApart
<1>9. PastLoaded'
  <2>1. \A c \in Segments : c < at' => c < at
    BY <1>1, <1>3 DEF Segments
  <2> QED
    BY <1>1, <1>2, <1>3, <2>1 DEF LoadInv, PastLoaded, HasRanges
<1>10. AnswerFromRange'
  BY <1>1 DEF AnswerFromRange
<1> QED
  BY <1>4, <1>5, <1>6, <1>7, <1>8, <1>9, <1>10 DEF LoadInv

LEMMA EndCommandsStep ==
  ASSUME LoadInv, EndCommands
  PROVE  LoadInv'
<1>1. /\ TypeOK /\ Placed /\ got = None
      /\ UNCHANGED <<file, arch, at, sect, vmranges, segs, tables, got>>
      /\ status = "commands" /\ status' = "loaded"
  BY DEF LoadInv, EndCommands, Placed
<1>2. Image' = Image
  BY <1>1 DEF Image
<1>3. TypeOK'
  BY <1>1, <1>2 DEF TypeOK, Statuses
<1>4. Placed'
  BY <1>1, <1>2 DEF EndCommands, Placed, Untouched, InFile, Command
<1>5. SegsOrdered' /\ RangesAccepted' /\ RangesApart' /\ PastLoaded'
  BY <1>1, TablesKept
<1>6. AnswerFromRange'
  BY <1>1 DEF AnswerFromRange
<1> QED
  BY <1>3, <1>4, <1>5, <1>6 DEF LoadInv

LEMMA GetPtrStep ==
  ASSUME LoadInv, GetPtr
  PROVE  LoadInv'
<1>1. /\ TypeOK /\ Placed /\ RangesApart /\ AnswerFromRange
      /\ UNCHANGED <<file, arch, at, sect, vmranges, segs, tables>>
      /\ status = "loaded" /\ arch <= Len(file.archs)
  BY DEF LoadInv, GetPtr, Placed
<1>2. Image' = Image
  BY <1>1 DEF Image
<1>3. SegsOrdered' /\ RangesAccepted' /\ RangesApart' /\ PastLoaded'
  BY <1>1, TablesKept
<1>4. PICK q \in Queries :
        IF PtrAllowed(q.addr, q.size)
        THEN /\ got' = [addr |-> q.addr, size |-> q.size,
                        ptr |-> PtrTo(vmranges[FirstHolding(q.addr)], q.addr)]
             /\ UNCHANGED status
        ELSE status' = "bad_address" /\ UNCHANGED got
  BY DEF GetPtr
<1>5. q.addr \in UInt /\ q.size \in UInt
  BY QueriesAssumption
<1>6. CASE PtrAllowed(q.addr, q.size)
  <2>1. PICK k \in 1 .. Len(vmranges) :
          /\ FirstHolding(q.addr) = k
          /\ vmranges[k].is_mapped
          /\ Within(vmranges[k], q.addr)
          /\ Plus(q.addr, q.size) <= vmranges[k].vm_addr_end
          /\ PtrTo(vmranges[k], q.addr) \in UInt
    BY <1>1, <1>5, <1>6, AllowedAnswer
  <2>2. /\ got' = [addr |-> q.addr, size |-> q.size, ptr |-> PtrTo(vmranges[k], q.addr)]
        /\ status' = status
    BY <1>4, <1>6, <2>1
  <2>3. TypeOK'
    BY <1>1, <1>2, <1>5, <2>1, <2>2 DEF TypeOK
  <2>4. Placed'
    BY <1>1, <1>2, <2>2 DEF Placed, Untouched, InFile, Command
  <2>5. AnswerFromRange'
    BY <1>1, <1>2, <2>1, <2>2 DEF AnswerFromRange, PtrTo
  <2> QED
    BY <1>3, <2>3, <2>4, <2>5 DEF LoadInv
<1>7. CASE ~PtrAllowed(q.addr, q.size)
  <2>1. status' = "bad_address" /\ got' = got
    BY <1>4, <1>7
  <2>2. TypeOK'
    BY <1>1, <1>2, <2>1 DEF TypeOK, Statuses
  <2>3. Placed'
    BY <1>1, <1>2, <2>1 DEF Placed, Untouched, InFile, Command
  <2>4. AnswerFromRange'
    BY <1>1, <1>2, <2>1 DEF AnswerFromRange, PtrTo
  <2> QED
    BY <1>3, <2>2, <2>3, <2>4 DEF LoadInv
<1> QED
  BY <1>6, <1>7

LEMMA LoadStutter ==
  ASSUME LoadInv, UNCHANGED vars
  PROVE  LoadInv'
<1>1. UNCHANGED <<file, arch, status, at, sect, vmranges, segs, tables, got>>
  BY DEF vars
<1>2. Image' = Image
  BY <1>1 DEF Image
<1>3. SegsOrdered' /\ RangesAccepted' /\ RangesApart' /\ PastLoaded'
  BY <1>1, TablesKept
<1>4. TypeOK'
  BY <1>1, <1>2 DEF LoadInv, TypeOK
<1>5. Placed'
  BY <1>1, <1>2 DEF LoadInv, Placed, Untouched, InFile, Command
<1>6. AnswerFromRange'
  BY <1>1, <1>2 DEF LoadInv, AnswerFromRange, PtrTo
<1> QED
  BY <1>3, <1>4, <1>5, <1>6 DEF LoadInv

(* The inductive invariant holds always: the table of ranges and segs stay *)
(* in step through the nested loops of symtab_macho_init.                  *)
THEOREM LoadInvariance == Spec => []LoadInv
<1>1. LoadInv /\ [Next]_vars => LoadInv'
  <2> SUFFICES ASSUME LoadInv, [Next]_vars
               PROVE  LoadInv'
    OBVIOUS
  <2>1. CASE ExamineArch \/ ExaminePastTable \/ CheckHeader
    BY <2>1, FatStep
  <2>2. CASE BeginSegment
    BY <2>2, BeginSegmentStep
  <2>3. CASE AddSection
    BY <2>3, AddSectionStep
  <2>4. CASE EndSegment
    BY <2>4, EndSegmentStep
  <2>5. CASE RecordTable \/ SkipCommand
    BY <2>5, OtherCommandStep
  <2>6. CASE EndCommands
    BY <2>6, EndCommandsStep
  <2>7. CASE GetPtr
    BY <2>7, GetPtrStep
  <2>8. CASE UNCHANGED vars
    BY <2>8, LoadStutter
  <2> QED
    BY <2>1, <2>2, <2>3, <2>4, <2>5, <2>6, <2>7, <2>8 DEF Next
<1> QED
  BY LoadInvInit, <1>1, PTL DEF Spec

------------------------------------------------------------------------------
(* What follows from it. *)

(* Every variable of symtab_macho_init keeps its type. *)
THEOREM LoadTypeCorrect == Spec => []TypeOK
<1>1. LoadInv => TypeOK
  BY DEF LoadInv
<1> QED
  BY LoadInvariance, <1>1, PTL

(* symtab_macho_get_ptr's search for a range can find one only             *)
(* (symtab_macho.c:232-240).                                               *)
THEOREM OneRangeTheorem == Spec => []OneRangePerAddress
<1>1. LoadInv => OneRangePerAddress
  <2> SUFFICES ASSUME LoadInv,
                      NEW j \in 1 .. Len(vmranges), NEW k \in 1 .. Len(vmranges), j # k,
                      NEW a \in {vmranges[j].vm_addr_begin, vmranges[k].vm_addr_begin},
                      Within(vmranges[j], a), Within(vmranges[k], a)
               PROVE  FALSE
    BY DEF OneRangePerAddress
  <2>1. TypeOK /\ RangesApart
    BY DEF LoadInv
  <2>2. vmranges[j] \in VmRange /\ vmranges[k] \in VmRange
    BY <2>1, ElementOfSeq DEF TypeOK
  <2>3. vmranges[j].vm_addr_begin \in UInt /\ vmranges[k].vm_addr_begin \in UInt
    BY <2>2 DEF VmRange
  <2>4. a \in Int
    BY <2>3, WordAssumption DEF UInt
  <2> QED
    BY <2>1, <2>4, OneHolds
<1> QED
  BY LoadInvariance, <1>1, PTL

(* Each range names the section it was made from: nsegs, counted after the *)
(* sections, is the right index for it (symtab_macho.c:229).               *)
THEOREM RangesMatchTheorem == Spec => []RangesMatchCommands
<1>1. LoadInv => RangesMatchCommands
  BY DEF LoadInv, RangesAccepted, RangesMatchCommands
<1> QED
  BY LoadInvariance, <1>1, PTL

(* At the end of the commands no segment and no section is missing. *)
LEMMA LoadedInFull ==
  ASSUME LoadInv, status = "loaded"
  PROVE  /\ TypeOK /\ RangesApart
         /\ arch \in 1 .. Len(file.archs)
         /\ EverySectionLoaded
<1>1. TypeOK /\ RangesApart /\ arch \in 1 .. Len(file.archs) /\ at > Len(Image.cmds)
  BY DEF LoadInv, Placed, TypeOK
<1>2. Len(Image.cmds) \in Nat /\ at \in Nat
  BY <1>1, ImageShape DEF TypeOK
<1>3. ASSUME NEW c \in Segments
      PROVE  \E n \in 1 .. Len(segs) :
               /\ segs[n] = c
               /\ \A m \in 1 .. Len(segs) : m < n <=> segs[m] < c
               /\ \A j \in 1 .. Len(Image.cmds[c].sections) :
                    \E k \in 1 .. Len(vmranges) :
                      vmranges[k] = RangeOf(Image.cmds[c], Image.cmds[c].sections[j], n - 1, j - 1)
  <2>1. c < at
    BY <1>1, <1>2 DEF Segments
  <2>2. PICK n \in 1 .. Len(segs) :
          segs[n] = c /\ HasRanges(c, n, Len(Image.cmds[c].sections))
    BY <1>1, <2>1 DEF LoadInv, PastLoaded
  <2>3. \A m \in 1 .. Len(segs) : m < n <=> segs[m] < c
    BY <2>2 DEF LoadInv, SegsOrdered
  <2> QED
    BY <2>2, <2>3 DEF HasRanges
<1> QED
  BY <1>1, <1>3 DEF EverySectionLoaded

(* Once loaded, segs and vmranges are complete, for every nesting of       *)
(* commands and sections.                                                  *)
THEOREM EverySectionTheorem == Spec => []EverySectionLoaded
<1>1. LoadInv => EverySectionLoaded
  <2>1. CASE status = "loaded"
    BY <2>1, LoadedInFull
  <2>2. CASE status # "loaded"
    BY <2>2 DEF EverySectionLoaded
  <2> QED
    BY <2>1, <2>2
<1> QED
  BY LoadInvariance, <1>1, PTL

(* A byte of a section with content is found, where the section says. *)
LEMMA ByteFound ==
  ASSUME LoadInv, status = "loaded",
         NEW c \in Segments, NEW j \in 1 .. Len(Image.cmds[c].sections),
         NEW sec, sec = Image.cmds[c].sections[j],
         IsMapped(Image.cmds[c], sec), sec.addr + sec.size < Word,
         NEW addr \in sec.addr .. sec.addr + sec.size - 1
  PROVE  /\ PtrAllowed(addr, 1)
         /\ PtrTo(vmranges[FirstHolding(addr)], addr)
              = Plus(Image.offset, Plus(sec.offset, addr - sec.addr))
<1>1. TypeOK /\ RangesApart /\ arch \in 1 .. Len(file.archs) /\ EverySectionLoaded
  BY LoadedInFull
<1>2. c \in 1 .. Len(Image.cmds) /\ Image.cmds[c].cmd = "segment"
  BY DEF Segments
<1>3. sec \in Section
  BY <1>1, <1>2, SegmentShape DEF TypeOK
<1>4. sec.addr \in Nat /\ sec.size \in Nat
  BY <1>3, WordAssumption DEF Section, UInt
<1>5. /\ addr \in Int /\ sec.addr <= addr /\ addr < sec.addr + sec.size
      /\ Plus(addr, 1) = addr + 1 /\ addr + 1 <= sec.addr + sec.size
      /\ Plus(sec.addr, sec.size) = sec.addr + sec.size
  BY <1>4, ByteInside
<1>6. PICK n \in 1 .. Len(segs) :
        \E k \in 1 .. Len(vmranges) :
          vmranges[k] = RangeOf(Image.cmds[c], sec, n - 1, j - 1)
  BY <1>1 DEF EverySectionLoaded
<1>7. PICK k \in 1 .. Len(vmranges) :
        vmranges[k] = RangeOf(Image.cmds[c], sec, n - 1, j - 1)
  BY <1>6
<1>8. /\ vmranges[k].vm_addr_begin = sec.addr
      /\ vmranges[k].vm_addr_end = Plus(sec.addr, sec.size)
      /\ vmranges[k].map_off_begin = sec.offset
  BY <1>7 DEF RangeOf
<1>9. vmranges[k].is_mapped
  BY <1>7, MappedRange
<1>10. k \in Holding(addr)
  BY <1>5, <1>8 DEF Holding, Within
<1>11. FirstHolding(addr) = k
  BY <1>1, <1>5, <1>10, FirstHoldingIs
<1>12. Plus(addr, 1) <= vmranges[k].vm_addr_end
  BY <1>5, <1>8
<1>13. PtrAllowed(addr, 1)
  BY <1>9, <1>10, <1>11, <1>12, Zenon DEF PtrAllowed
<1> QED
  BY <1>8, <1>11, <1>13 DEF PtrTo

(* symtab_macho_get_ptr refuses no byte of a section with content and      *)
(* answers with the byte that the section's offset gives.                  *)
THEOREM ContentTheorem == Spec => []ContentReadable
<1>1. \A seg, sec : HasContent(seg, sec) => IsMapped(seg, sec)
  <2>1. "regular" # "zerofill"
    OBVIOUS
  <2> QED
    BY <2>1 DEF HasContent, IsMapped
<1>2. LoadInv => ContentReadable
  BY <1>1, ByteFound DEF ContentReadable
<1> QED
  BY LoadInvariance, <1>2, PTL

(* The answer of symtab_macho_get_ptr is in the image. *)
THEOREM AnswerTheorem == Spec => []AnswerInFile
<1>1. LoadInv => AnswerInFile
  <2> SUFFICES ASSUME LoadInv, got # None, OffsetsFit, got.addr + got.size < Word
               PROVE  /\ got.ptr >= Image.offset
                      /\ got.ptr + got.size <= Image.offset + Image.size
    BY DEF AnswerInFile
  <2>1. TypeOK /\ arch \in 1 .. Len(file.archs)
    BY DEF LoadInv, Placed, TypeOK
  <2>2. got.addr \in Nat /\ got.size \in Nat
    BY <2>1, WordAssumption DEF TypeOK, UInt
  <2>3. PICK k \in 1 .. Len(vmranges) :
          /\ vmranges[k].is_mapped
          /\ Within(vmranges[k], got.addr)
          /\ Plus(got.addr, got.size) <= vmranges[k].vm_addr_end
          /\ got.ptr = PtrTo(vmranges[k], got.addr)
    BY DEF LoadInv, AnswerFromRange
  <2> DEFINE r   == vmranges[k]
             c   == SegmentOf(r)
             seg == Image.cmds[c]
             j   == r.section_idx + 1
             sec == seg.sections[j]
  <2>4. /\ seg.cmd = "segment" /\ j \in 1 .. Len(seg.sections)
        /\ r = RangeOf(seg, sec, r.segment_idx, r.section_idx)
        /\ InFile(seg) /\ InSegment(seg, sec)
    BY DEF LoadInv, RangesAccepted
  <2>5. c \in Segments
    <3>1. r \in VmRange
      BY <2>1, ElementOfSeq DEF TypeOK
    <3>2. r.segment_idx \in Nat
      BY <3>1 DEF VmRange
    <3>3. r.segment_idx < Len(segs) \/ (r.segment_idx = Len(segs) /\ sect # 0)
      BY DEF LoadInv, RangesAccepted
    <3>4. CASE r.segment_idx < Len(segs)
      <4>1. r.segment_idx + 1 \in 1 .. Len(segs)
        BY <2>1, <3>2, <3>4, LenProperties DEF TypeOK
      <4> QED
        BY <3>4, <4>1 DEF LoadInv, SegsOrdered, SegmentOf
    <3>5. CASE ~(r.segment_idx < Len(segs))
      <4>1. c = at /\ sect # 0
        BY <3>3, <3>5 DEF SegmentOf
      <4>2. at \in 1 .. Len(Image.cmds)
        BY <2>1, <4>1, ImageShape DEF LoadInv, Placed, TypeOK
      <4> QED
        BY <2>4, <4>1, <4>2 DEF Segments
    <3> QED
      BY <3>4, <3>5
  <2>6. seg \in SegmentCommand /\ sec \in Section
    BY <2>1, <2>4, <2>5, SegmentShape DEF TypeOK, Segments
  <2>7. sec.offset + sec.size < Word
    BY <2>4, <2>5 DEF OffsetsFit
  <2>8. /\ Within(r, got.addr)
        /\ Plus(got.addr, got.size) <= r.vm_addr_end
        /\ got.ptr = PtrTo(r, got.addr)
    BY <2>3
  <2>9. IsMapped(seg, sec)
    BY <2>3, <2>4, MappedRange
  <2> HIDE DEF r, c, seg, j, sec
  <2>10. /\ r.vm_addr_begin = sec.addr
         /\ r.vm_addr_end = Plus(sec.addr, sec.size)
         /\ r.map_off_begin = sec.offset
    BY <2>4 DEF RangeOf
  <2>11. /\ sec.addr \in Nat /\ sec.size \in Nat /\ sec.offset \in Nat
         /\ Image.offset \in Nat /\ Image.size \in Nat
         /\ Image.offset + Image.size < Word
    BY <2>1, <2>6, ImageShape, WordAssumption DEF Section, UInt, TypeOK
  <2>12. /\ sec.addr + sec.size < Word
         /\ sec.addr <= got.addr /\ got.addr < sec.addr + sec.size
    BY <2>2, <2>4, <2>6, <2>8, HoldingRange
  <2>13. got.addr + got.size <= sec.addr + sec.size
    BY <2>2, <2>8, <2>10, <2>11, <2>12 DEF Plus
  <2>14. sec.offset + sec.size <= Image.size
    <3>1. /\ Plus(sec.offset, sec.size) <= Plus(seg.fileoff, seg.filesize)
          /\ Plus(seg.fileoff, seg.filesize) <= Image.size
      BY <2>4, <2>9 DEF InSegment, InFile
    <3>2. Plus(seg.fileoff, seg.filesize) \in Nat
      BY <2>6, PlusIsAWord, WordAssumption DEF SegmentCommand, UInt
    <3> QED
      BY <2>7, <2>11, <3>1, <3>2 DEF Plus
  <2>15. got.ptr = Plus(Image.offset, Plus(sec.offset, got.addr - sec.addr))
    BY <2>8, <2>10 DEF PtrTo
  <2> QED
    BY <2>2, <2>11, <2>12, <2>13, <2>14, <2>15, PositionInside
<1> QED
  BY LoadInvariance, <1>1, PTL

------------------------------------------------------------------------------
(* Well-formed files: no assertion of symtab_macho_init stops at one.      *)

(* A segment has one number and a section of it one range.                 *)
NumberedOnce ==
  /\ \A k \in 1 .. Len(vmranges) :
       vmranges[k].segment_idx = Len(segs) => vmranges[k].section_idx + 1 < sect
  /\ \A j, k \in 1 .. Len(vmranges) :
       j # k => \/ vmranges[j].segment_idx # vmranges[k].segment_idx
                \/ vmranges[j].section_idx # vmranges[k].section_idx

LegalInv == LoadInv /\ NumberedOnce /\ LegalFileLoads

(* Arithmetic of sums and positions.                                       *)
LEMMA SumBelow ==
  ASSUME NEW a \in Nat, NEW b \in Nat, NEW c \in Nat, a + b <= c, c < Word
  PROVE  a + b < Word
BY WordAssumption

LEMMA SumsBelow ==
  ASSUME NEW a \in Nat, NEW b \in Nat, NEW c \in Nat, NEW d \in Nat,
         a + b <= c + d, c + d < Word
  PROVE  a + b < Word
BY WordAssumption

LEMMA NextIn ==
  ASSUME NEW n \in Nat, NEW k \in Nat, k < n
  PROVE  k + 1 \in 1 .. n
OBVIOUS

(* Numbers of different things of a finite set are as many as it has.      *)
LEMMA Counted ==
  ASSUME NEW T, IsFiniteSet(T), NEW n \in Nat, NEW f \in [1 .. n -> T],
         \A j, k \in 1 .. n : f[j] = f[k] => j = k
  PROVE  n <= Cardinality(T)
<1>1. IsFiniteSet(1 .. n) /\ Cardinality(1 .. n) = n
  BY FS_Interval
<1>2. Cardinality(T) \in Nat
  BY FS_CardinalityType
<1>3. ~(Cardinality(T) < n)
  BY <1>1, FS_PigeonHole
<1> QED
  BY <1>2, <1>3

LEMMA SegmentsFinite ==
  ASSUME file \in File, arch \in 1 .. Len(file.archs)
  PROVE  IsFiniteSet(Segments) /\ IsFiniteSet(Located)
<1>1. Len(Image.cmds) \in Nat
  BY ImageShape
<1>2. IsFiniteSet(1 .. Len(Image.cmds)) /\ IsFiniteSet(1 .. MaxRanges + 1)
  <2>1. MaxRanges + 1 \in Int
    BY LimitsAssumption
  <2>2. 1 \in Int /\ Len(Image.cmds) \in Int
    BY <1>1
  <2> QED
    BY <2>1, <2>2, FS_Interval
<1>3. IsFiniteSet(Segments)
  <2>1. Segments \in SUBSET (1 .. Len(Image.cmds))
    BY DEF Segments
  <2> QED
    BY <1>2, <2>1, FS_Subset
<1>4. IsFiniteSet(Segments \X (1 .. MaxRanges + 1))
  BY <1>2, <1>3, FS_Product
<1>5. Located \in SUBSET (Segments \X (1 .. MaxRanges + 1))
  BY DEF Located
<1> QED
  BY <1>3, <1>4, <1>5, FS_Subset

(* A file with few enough sections has few enough in each segment.         *)
LEMMA FewInSegment ==
  ASSUME file \in File, arch \in 1 .. Len(file.archs), FewEnough, NEW c \in Segments,
         NEW j \in 1 .. Len(Image.cmds[c].sections)
  PROVE  <<c, j>> \in Located
<1>1. Len(Image.cmds[c].sections) \in Nat
  BY SegmentShape DEF Segments
<1>2. Len(Image.cmds[c].sections) <= MaxRanges
  <2> SUFFICES ASSUME Len(Image.cmds[c].sections) >= MaxRanges + 1
               PROVE  FALSE
    BY <1>1, LimitsAssumption
  <2> DEFINE f == [k \in 1 .. MaxRanges + 1 |-> <<c, k>>]
  <2>1. \A k \in 1 .. MaxRanges + 1 : k <= Len(Image.cmds[c].sections)
    BY <1>1, LimitsAssumption
  <2>2. \A k \in 1 .. MaxRanges + 1 : <<c, k>> \in Located
    BY <2>1 DEF Located
  <2>3. f \in [1 .. MaxRanges + 1 -> Located]
    BY <2>2
  <2>4. \A k, m \in 1 .. MaxRanges + 1 : f[k] = f[m] => k = m
    OBVIOUS
  <2> HIDE DEF f
  <2>5. MaxRanges + 1 \in Nat /\ IsFiniteSet(Located)
    BY LimitsAssumption, SegmentsFinite
  <2>6. MaxRanges + 1 <= Cardinality(Located)
    BY <2>3, <2>4, <2>5, Counted
  <2>7. Cardinality(Located) <= MaxRanges /\ Cardinality(Located) \in Nat
    BY <2>5, FS_CardinalityType DEF FewEnough
  <2> QED
    BY <2>6, <2>7, LimitsAssumption
<1>3. j \in 1 .. MaxRanges + 1 /\ j <= Len(Image.cmds[c].sections)
  BY <1>1, <1>2, LimitsAssumption
<1> QED
  BY <1>3 DEF Located

(* What a range is of. *)
OwnerOf(r) == <<SegmentOf(r), r.section_idx + 1>>

LEMMA OwnerFacts ==
  ASSUME LoadInv, arch <= Len(file.archs), status = "commands", NEW k \in 1 .. Len(vmranges)
  PROVE  /\ SegmentOf(vmranges[k]) \in Segments
         /\ vmranges[k].segment_idx \in Nat /\ vmranges[k].section_idx \in Nat
         /\ IF vmranges[k].segment_idx < Len(segs)
            THEN /\ SegmentOf(vmranges[k]) = segs[vmranges[k].segment_idx + 1]
                 /\ SegmentOf(vmranges[k]) < at
                 /\ vmranges[k].segment_idx + 1 \in 1 .. Len(segs)
            ELSE vmranges[k].segment_idx = Len(segs) /\ SegmentOf(vmranges[k]) = at
<1>1. TypeOK /\ Placed /\ SegsOrdered /\ arch \in 1 .. Len(file.archs)
  BY DEF LoadInv, TypeOK
<1>2. vmranges[k] \in VmRange
  BY <1>1, ElementOfSeq DEF TypeOK
<1>3. vmranges[k].segment_idx \in Nat /\ vmranges[k].section_idx \in Nat
  BY <1>2 DEF VmRange
<1>4. /\ vmranges[k].segment_idx < Len(segs)
           \/ (vmranges[k].segment_idx = Len(segs) /\ sect # 0)
  BY DEF LoadInv, RangesAccepted
<1>5. CASE vmranges[k].segment_idx < Len(segs)
  <2>1. vmranges[k].segment_idx + 1 \in 1 .. Len(segs)
    <3>1. segs \in Seq(Nat \ {0})
      BY <1>1 DEF TypeOK
    <3>2. Len(segs) \in Nat
      BY <3>1, LenProperties
    <3> QED
      BY <1>3, <1>5, <3>2, NextIn
  <2>2. SegmentOf(vmranges[k]) = segs[vmranges[k].segment_idx + 1]
    BY <1>5 DEF SegmentOf
  <2> QED
    BY <1>1, <1>3, <1>5, <2>1, <2>2 DEF SegsOrdered
<1>6. CASE ~(vmranges[k].segment_idx < Len(segs))
  <2>1. SegmentOf(vmranges[k]) = at /\ sect # 0 /\ vmranges[k].segment_idx = Len(segs)
    BY <1>4, <1>6 DEF SegmentOf
  <2>2. at \in 1 .. Len(Image.cmds) /\ Command.cmd = "segment"
    BY <1>1, <2>1, ImageShape DEF Placed, TypeOK
  <2> QED
    BY <1>3, <1>6, <2>1, <2>2 DEF Segments, Command
<1> QED
  BY <1>5, <1>6

(* No two ranges are of one section, and none of the one to come.          *)
LEMMA OwnersDiffer ==
  ASSUME LoadInv, NumberedOnce, arch <= Len(file.archs), status = "commands",
         NEW j \in 1 .. Len(vmranges), NEW k \in 1 .. Len(vmranges)
  PROVE  /\ OwnerOf(vmranges[j]) = OwnerOf(vmranges[k]) => j = k
         /\ OwnerOf(vmranges[k]) # <<at, sect>>
<1> DEFINE r == vmranges[j]
           q == vmranges[k]
<1>1. TypeOK /\ SegsOrdered /\ Len(segs) \in Nat /\ at \in Nat /\ sect \in Nat
  BY LenProperties DEF LoadInv, TypeOK
<1>2. \A m, n \in 1 .. Len(segs) : segs[m] = segs[n] => m = n
  <2>1. \A m, n \in 1 .. Len(segs) : m < n <=> segs[m] < segs[n]
    BY <1>1 DEF SegsOrdered
  <2>2. \A m \in 1 .. Len(segs) : segs[m] \in Nat
    BY <1>1, ElementOfSeq DEF TypeOK
  <2> QED
    BY <1>1, <2>1, <2>2
<1>3. /\ r.segment_idx \in Nat /\ r.section_idx \in Nat
      /\ q.segment_idx \in Nat /\ q.section_idx \in Nat
      /\ SegmentOf(r) \in Segments /\ SegmentOf(q) \in Segments
  BY OwnerFacts
<1>4. SegmentOf(r) = SegmentOf(q) => r.segment_idx = q.segment_idx
  <2>1. SegmentOf(r) \in Nat /\ SegmentOf(q) \in Nat
    <3>1. arch \in 1 .. Len(file.archs)
      BY <1>1 DEF TypeOK
    <3>2. Len(Image.cmds) \in Nat
      BY <1>1, <3>1, ImageShape DEF TypeOK
    <3> QED
      BY <1>3, <3>2 DEF Segments
  <2>2. IF r.segment_idx < Len(segs)
        THEN /\ SegmentOf(r) = segs[r.segment_idx + 1] /\ SegmentOf(r) < at
             /\ r.segment_idx + 1 \in 1 .. Len(segs)
        ELSE r.segment_idx = Len(segs) /\ SegmentOf(r) = at
    BY OwnerFacts
  <2>3. IF q.segment_idx < Len(segs)
        THEN /\ SegmentOf(q) = segs[q.segment_idx + 1] /\ SegmentOf(q) < at
             /\ q.segment_idx + 1 \in 1 .. Len(segs)
        ELSE q.segment_idx = Len(segs) /\ SegmentOf(q) = at
    BY OwnerFacts
  <2> HIDE DEF r, q
  <2>4. CASE r.segment_idx < Len(segs) /\ q.segment_idx < Len(segs)
    <3>1. SegmentOf(r) = SegmentOf(q) => r.segment_idx + 1 = q.segment_idx + 1
      BY <1>2, <2>2, <2>3, <2>4
    <3> QED
      BY <1>3, <3>1
  <2>5. CASE ~(r.segment_idx < Len(segs)) \/ ~(q.segment_idx < Len(segs))
    BY <1>1, <1>3, <2>1, <2>2, <2>3, <2>5
  <2> QED
    BY <2>4, <2>5
<1>5. OwnerOf(r) = OwnerOf(q) => j = k
  <2> SUFFICES ASSUME OwnerOf(r) = OwnerOf(q)
               PROVE  j = k
    OBVIOUS
  <2>1. SegmentOf(r) = SegmentOf(q) /\ r.section_idx + 1 = q.section_idx + 1
    BY DEF OwnerOf
  <2>2. r.section_idx = q.section_idx
    BY <1>3, <2>1
  <2> QED
    BY <1>4, <2>1, <2>2 DEF NumberedOnce
<1>6. OwnerOf(q) # <<at, sect>>
  <2> SUFFICES ASSUME OwnerOf(q) = <<at, sect>>
               PROVE  FALSE
    OBVIOUS
  <2>1. SegmentOf(q) = at /\ q.section_idx + 1 = sect
    BY DEF OwnerOf
  <2>2. q.segment_idx = Len(segs)
    BY <1>1, <2>1, OwnerFacts
  <2>3. q.section_idx + 1 < sect
    BY <2>2 DEF NumberedOnce
  <2> QED
    BY <1>1, <1>3, <2>1, <2>3
<1> QED
  BY <1>5, <1>6

(* The tables never fill up at a file with few enough.                     *)
LEMMA RoomForRange ==
  ASSUME LegalInv, AddSection, FewEnough
  PROVE  Len(vmranges) < MaxRanges /\ <<at, sect>> \in Located /\ at \in Segments
<1>1. /\ LoadInv /\ NumberedOnce /\ TypeOK /\ Placed
      /\ status = "commands" /\ sect # 0 /\ sect <= Len(Command.sections)
      /\ arch \in 1 .. Len(file.archs) /\ arch <= Len(file.archs)
  BY DEF LegalInv, LoadInv, AddSection, InCommand, Placed, TypeOK
<1>2. /\ at \in Segments /\ sect \in 1 .. Len(Image.cmds[at].sections)
  <2>1. at \in 1 .. Len(Image.cmds) /\ Command.cmd = "segment"
    BY <1>1, NewRangeShape
  <2>2. at \in Segments /\ Len(Image.cmds[at].sections) \in Nat
    BY <1>1, <2>1, SegmentShape DEF Segments, Command, TypeOK
  <2> QED
    BY <1>1, <2>2 DEF TypeOK, Command
<1>3. <<at, sect>> \in Located
  BY <1>1, <1>2, FewInSegment DEF TypeOK
<1> DEFINE T == Located \ {<<at, sect>>}
           n == Len(vmranges)
           f == [k \in 1 .. n |-> OwnerOf(vmranges[k])]
<1>4. n \in Nat
  BY <1>1, LenProperties DEF TypeOK
<1>5. f \in [1 .. n -> T]
  <2> SUFFICES ASSUME NEW k \in 1 .. n
               PROVE  OwnerOf(vmranges[k]) \in T
    OBVIOUS
  <2>1. SegmentOf(vmranges[k]) \in Segments
    BY <1>1, OwnerFacts
  <2>2. vmranges[k].section_idx + 1 \in 1 .. Len(Image.cmds[SegmentOf(vmranges[k])].sections)
    BY <1>1 DEF LoadInv, RangesAccepted
  <2>3. OwnerOf(vmranges[k]) \in Located
    BY <1>1, <2>1, <2>2, FewInSegment DEF TypeOK, OwnerOf
  <2>4. OwnerOf(vmranges[k]) # <<at, sect>>
    BY <1>1, OwnersDiffer
  <2> QED
    BY <2>3, <2>4
<1>6. \A j, k \in 1 .. n : f[j] = f[k] => j = k
  BY <1>1, OwnersDiffer
<1>7. IsFiniteSet(Located)
  BY <1>1, SegmentsFinite DEF TypeOK
<1>8. IsFiniteSet(T) /\ Cardinality(T) = Cardinality(Located) - 1
  BY <1>3, <1>7, FS_RemoveElement
<1> HIDE DEF T, n, f
<1>9. n <= Cardinality(T)
  BY <1>4, <1>5, <1>6, <1>8, Counted
<1>10. Cardinality(Located) <= MaxRanges /\ Cardinality(Located) \in Nat
  BY <1>7, FS_CardinalityType DEF FewEnough
<1>11. n < MaxRanges
  BY <1>4, <1>8, <1>9, <1>10, LimitsAssumption
<1> QED
  BY <1>2, <1>3, <1>11 DEF n

LEMMA RoomForSegment ==
  ASSUME LegalInv, EndSegment, FewEnough
  PROVE  Len(segs) < MaxSegments
<1>1. /\ TypeOK /\ SegsOrdered /\ arch \in 1 .. Len(file.archs)
      /\ at \in Segments /\ Len(segs) \in Nat
  BY ImageShape, LenProperties
  DEF LegalInv, LoadInv, EndSegment, InCommand, Placed, TypeOK, Segments, Command
<1> DEFINE T == Segments \ {at}
<1>2. \A n \in 1 .. Len(segs) : segs[n] \in Nat /\ segs[n] < at /\ segs[n] \in Segments
  BY <1>1, ElementOfSeq DEF SegsOrdered, TypeOK
<1>3. \A m, n \in 1 .. Len(segs) : m < n <=> segs[m] < segs[n]
  BY <1>1 DEF SegsOrdered
<1> DEFINE f == [k \in 1 .. Len(segs) |-> segs[k]]
<1>4. f \in [1 .. Len(segs) -> T]
  <2>1. at \in Nat
    BY <1>1 DEF TypeOK
  <2>2. \A n \in 1 .. Len(segs) : segs[n] # at
    BY <1>2, <2>1
  <2> QED
    BY <1>2, <2>2
<1>5. \A j, k \in 1 .. Len(segs) : f[j] = f[k] => j = k
  <2>1. \A j, k \in 1 .. Len(segs) : segs[j] = segs[k] => j = k
    BY <1>1, <1>2, <1>3
  <2> QED
    BY <2>1
<1>6. IsFiniteSet(Segments)
  BY <1>1, SegmentsFinite DEF TypeOK
<1>7. IsFiniteSet(T) /\ Cardinality(T) = Cardinality(Segments) - 1
  BY <1>1, <1>6, FS_RemoveElement
<1> HIDE DEF T, f
<1>8. Len(segs) <= Cardinality(T)
  BY <1>1, <1>4, <1>5, <1>7, Counted
<1>9. Cardinality(Segments) <= MaxSegments /\ Cardinality(Segments) \in Nat
  BY <1>6, FS_CardinalityType DEF FewEnough
<1> QED
  BY <1>1, <1>7, <1>8, <1>9, LimitsAssumption

(* What being well-formed says of a section, as words. *)
LEMMA LegalSums ==
  ASSUME file \in File, arch \in 1 .. Len(file.archs), Legal, NEW c \in Segments,
         NEW j \in 1 .. Len(Image.cmds[c].sections),
         NEW seg, seg = Image.cmds[c], NEW sec, sec = seg.sections[j]
  PROVE  /\ seg \in SegmentCommand /\ sec \in Section
         /\ LegalSection(seg, sec)
         /\ Plus(seg.vmaddr, seg.vmsize) = seg.vmaddr + seg.vmsize
         /\ Plus(sec.addr, sec.size) = sec.addr + sec.size
         /\ Plus(seg.fileoff, seg.filesize) = seg.fileoff + seg.filesize
         /\ seg.fileoff + seg.filesize < Word
         /\ {seg.vmaddr, seg.vmsize, seg.fileoff, seg.filesize,
             sec.addr, sec.size, sec.offset} \subseteq Nat
<1>1. seg \in SegmentCommand /\ sec \in Section
  BY SegmentShape DEF Segments
<1>2. /\ seg.vmaddr \in UInt /\ seg.vmsize \in UInt /\ seg.fileoff \in UInt
      /\ seg.filesize \in UInt
      /\ sec.addr \in UInt /\ sec.size \in UInt /\ sec.offset \in UInt
  BY <1>1 DEF SegmentCommand, Section
<1>3. /\ seg.vmaddr \in Nat /\ seg.vmsize \in Nat /\ seg.fileoff \in Nat
      /\ seg.filesize \in Nat /\ sec.addr \in Nat /\ sec.size \in Nat /\ sec.offset \in Nat
  BY <1>2, WordAssumption DEF UInt
<1>4. /\ seg.vmaddr + seg.vmsize < Word
      /\ seg.fileoff + seg.filesize <= Image.size
      /\ LegalSection(seg, sec)
  BY DEF Legal
<1>5. Image.size \in Nat /\ Image.size < Word
  <2>1. Image.size \in UInt
    BY ImageShape
  <2> QED
    BY <2>1, WordAssumption DEF UInt
<1>6. seg.fileoff + seg.filesize < Word
  BY <1>3, <1>4, <1>5, WordAssumption, SumBelow
<1>7. sec.addr + sec.size < Word
  <2>1. sec.addr + sec.size <= seg.vmaddr + seg.vmsize
    BY <1>4 DEF LegalSection
  <2> QED
    <3> QED
      BY <1>3, <1>4, <2>1, SumsBelow
<1> QED
  BY <1>1, <1>3, <1>4, <1>6, <1>7, NoWrap

LEMMA LegalInSegment ==
  ASSUME file \in File, arch \in 1 .. Len(file.archs), Legal, ~HasThreadZerofill,
         NEW c, NEW j, <<c, j>> \in Located, c \in Segments,
         j \in 1 .. Len(Image.cmds[c].sections)
  PROVE  InSegment(Image.cmds[c], Image.cmds[c].sections[j])
<1> DEFINE seg == Image.cmds[c]
           sec == seg.sections[j]
<1>1. /\ seg \in SegmentCommand /\ sec \in Section
      /\ LegalSection(seg, sec)
      /\ Plus(seg.vmaddr, seg.vmsize) = seg.vmaddr + seg.vmsize
      /\ Plus(sec.addr, sec.size) = sec.addr + sec.size
      /\ Plus(seg.fileoff, seg.filesize) = seg.fileoff + seg.filesize
      /\ seg.fileoff + seg.filesize < Word
      /\ {seg.vmaddr, seg.vmsize, seg.fileoff, seg.filesize,
          sec.addr, sec.size, sec.offset} \subseteq Nat
  BY LegalSums
<1>2. sec.type # "thread_zerofill"
  BY DEF HasThreadZerofill
<1> HIDE DEF seg, sec
<1>3. /\ seg.vmaddr <= sec.addr
      /\ sec.addr + sec.size <= seg.vmaddr + seg.vmsize
  BY <1>1 DEF LegalSection
<1>4. /\ sec.addr >= seg.vmaddr
      /\ sec.addr <= Plus(seg.vmaddr, seg.vmsize)
      /\ Plus(sec.addr, sec.size) <= Plus(seg.vmaddr, seg.vmsize)
  BY <1>1, <1>3
<1>5. ASSUME IsMapped(seg, sec)
      PROVE  /\ sec.offset >= seg.fileoff
             /\ sec.offset <= Plus(seg.fileoff, seg.filesize)
             /\ Plus(sec.offset, sec.size) <= Plus(seg.fileoff, seg.filesize)
  <2>1. sec.type = "regular"
    <3>1. sec.type \in SectionTypes
      BY <1>1 DEF Section
    <3>2. sec.type # "zerofill" /\ sec.type # "gb_zerofill"
      BY <1>1, <1>5 DEF IsMapped, LegalSection
    <3> QED
      BY <1>2, <3>1, <3>2 DEF SectionTypes
  <2>2. seg.fileoff <= sec.offset /\ sec.offset + sec.size <= seg.fileoff + seg.filesize
    BY <1>1, <2>1 DEF LegalSection
  <2>3. sec.offset + sec.size < Word
    BY <1>1, <2>2, WordAssumption
  <2>4. Plus(sec.offset, sec.size) = sec.offset + sec.size
    BY <1>1, <2>3, NoWrap
  <2> QED
    BY <1>1, <2>2, <2>4
<1>6. InSegment(seg, sec)
  BY <1>4, <1>5 DEF InSegment
<1> QED
  BY <1>6 DEF seg, sec

LEMMA LegalAccepted ==
  ASSUME LegalInv, AddSection, FewEnough, Legal, ~HasThreadZerofill
  PROVE  SectionAccepted
<1>1. /\ LoadInv /\ NumberedOnce /\ TypeOK /\ Placed
      /\ status = "commands" /\ sect # 0 /\ sect <= Len(Command.sections)
      /\ arch \in 1 .. Len(file.archs) /\ arch <= Len(file.archs) /\ file \in File
  BY DEF LegalInv, LoadInv, AddSection, InCommand, Placed, TypeOK
<1>2. Len(vmranges) < MaxRanges /\ <<at, sect>> \in Located /\ at \in Segments
  BY RoomForRange
<1>3. sect \in 1 .. Len(Image.cmds[at].sections)
  <2>1. Len(Image.cmds[at].sections) \in Nat
    BY <1>1, <1>2, SegmentShape DEF Segments
  <2> QED
    BY <1>1, <2>1 DEF TypeOK, Command
<1>4. InSegment(Command, Command.sections[sect])
  BY <1>1, <1>2, <1>3, LegalInSegment DEF Command
<1>5. ASSUME NEW k \in 1 .. Len(vmranges)
      PROVE  Apart(NewRange, vmranges[k])
  <2> DEFINE c   == SegmentOf(vmranges[k])
             j   == vmranges[k].section_idx + 1
             sec == Image.cmds[at].sections[sect]
             old == Image.cmds[c].sections[j]
  <2>1. c \in Segments
    BY <1>1, OwnerFacts
  <2>2. /\ j \in 1 .. Len(Image.cmds[c].sections)
        /\ vmranges[k] = RangeOf(Image.cmds[c], old,
                                 vmranges[k].segment_idx, vmranges[k].section_idx)
    BY <1>1 DEF LoadInv, RangesAccepted
  <2>3. <<c, j>> \in Located
    BY <1>1, <2>1, <2>2, FewInSegment
  <2>4. <<c, j>> # <<at, sect>>
    BY <1>1, OwnersDiffer DEF OwnerOf
  <2>5. sec.addr + sec.size <= old.addr \/ old.addr + old.size <= sec.addr
    <3>1. \A x, y \in Located :
            LET s == Image.cmds[x[1]].sections[x[2]]
                t == Image.cmds[y[1]].sections[y[2]]
            IN  x # y => s.addr + s.size <= t.addr \/ t.addr + t.size <= s.addr
      BY DEF Legal
    <3> DEFINE x == <<at, sect>>
               y == <<c, j>>
    <3>2. x \in Located /\ y \in Located /\ x # y
      BY <1>2, <2>3, <2>4
    <3>3. x[1] = at /\ x[2] = sect /\ y[1] = c /\ y[2] = j
      OBVIOUS
    <3> HIDE DEF x, y, c, j
    <3> QED
      BY <3>1, <3>2, <3>3
  <2>6. Plus(sec.addr, sec.size) = sec.addr + sec.size
    BY <1>1, <1>2, <1>3, LegalSums
  <2>7. Plus(old.addr, old.size) = old.addr + old.size
    BY <1>1, <2>1, <2>2, LegalSums
  <2>8. NewRange.vm_addr_begin = sec.addr /\ NewRange.vm_addr_end = Plus(sec.addr, sec.size)
    BY DEF NewRange, RangeOf, Command
  <2>9. /\ vmranges[k].vm_addr_begin = old.addr
        /\ vmranges[k].vm_addr_end = Plus(old.addr, old.size)
    BY <2>2 DEF RangeOf
  <2> QED
    BY <2>5, <2>6, <2>7, <2>8, <2>9 DEF Apart
<1> QED
  BY <1>2, <1>4, <1>5 DEF SectionAccepted

(* The step that fails is at a file of another kind.                       *)
LEMMA FailsForCause ==
  ASSUME LegalInv, Next, status # "failed", status' = "failed",
         arch <= Len(file.archs), Legal, FewEnough, ~HasThreadZerofill
  PROVE  FALSE
<1>1. TypeOK /\ arch \in 1 .. Len(file.archs) /\ file \in File
  BY DEF LegalInv, LoadInv, TypeOK
<1>2. CASE ExamineArch \/ ExaminePastTable
  BY <1>1, <1>2 DEF ExamineArch, ExaminePastTable
<1>3. CASE CheckHeader
  BY <1>3 DEF CheckHeader, Legal
<1>4. CASE BeginSegment
  <2>1. Command.cmd = "segment" /\ at \in 1 .. Len(Image.cmds)
    BY <1>1, <1>4, ImageShape DEF BeginSegment, InCommand, TypeOK
  <2>2. at \in Segments
    BY <2>1 DEF Segments, Command
  <2>3. Command.fileoff + Command.filesize <= Image.size
    BY <2>2 DEF Legal, Command
  <2>4. Command \in SegmentCommand
    BY <1>1, <2>1, SegmentShape DEF Command
  <2>5. /\ Command.fileoff \in Nat /\ Command.filesize \in Nat
        /\ Image.size \in Nat /\ Image.size < Word
    <3>1. Command.fileoff \in UInt /\ Command.filesize \in UInt /\ Image.size \in UInt
      BY <1>1, <2>4, ImageShape DEF SegmentCommand
    <3> QED
      BY <3>1, WordAssumption DEF UInt
  <2>6. Command.fileoff + Command.filesize < Word
    BY <2>3, <2>5, WordAssumption
  <2>7. Plus(Command.fileoff, Command.filesize) <= Image.size
    BY <2>3, <2>5, <2>6, NoWrap
  <2> QED
    BY <1>4, <2>7 DEF BeginSegment
<1>5. CASE AddSection
  BY <1>5, LegalAccepted DEF AddSection
<1>6. CASE EndSegment
  BY <1>6, RoomForSegment DEF EndSegment
<1>7. CASE RecordTable \/ SkipCommand \/ EndCommands \/ GetPtr
  BY <1>7 DEF RecordTable, SkipCommand, EndCommands, GetPtr
<1> QED
  BY <1>2, <1>3, <1>4, <1>5, <1>6, <1>7 DEF Next

LEMMA NumberedOnceStep ==
  ASSUME LegalInv, [Next]_vars
  PROVE  NumberedOnce'
<1>1. /\ LoadInv /\ NumberedOnce /\ TypeOK /\ Placed /\ RangesAccepted
      /\ Len(segs) \in Nat /\ Len(vmranges) \in Nat /\ sect \in Nat
  BY LenProperties DEF LegalInv, LoadInv, TypeOK
<1>2. \A k \in 1 .. Len(vmranges) :
        /\ vmranges[k].segment_idx \in Nat /\ vmranges[k].section_idx \in Nat
        /\ vmranges[k].segment_idx < Len(segs)
             \/ (vmranges[k].segment_idx = Len(segs) /\ sect # 0)
  <2> TAKE k \in 1 .. Len(vmranges)
  <2>1. vmranges[k] \in VmRange
    BY <1>1, ElementOfSeq DEF TypeOK
  <2>2. vmranges[k].segment_idx \in Nat /\ vmranges[k].section_idx \in Nat
    BY <2>1 DEF VmRange
  <2>3. vmranges[k].segment_idx < Len(segs)
          \/ (vmranges[k].segment_idx = Len(segs) /\ sect # 0)
    BY <1>1 DEF RangesAccepted
  <2> QED
    BY <2>2, <2>3
<1>3. CASE UNCHANGED <<vmranges, segs, sect>>
  BY <1>1, <1>3 DEF NumberedOnce
<1>4. CASE BeginSegment
  <2>1. UNCHANGED <<vmranges, segs>> /\ sect = 0
    BY <1>4 DEF BeginSegment
  <2>2. \A k \in 1 .. Len(vmranges) : vmranges[k].segment_idx # Len(segs)
    BY <1>1, <1>2, <2>1
  <2> QED
    BY <1>1, <2>1, <2>2 DEF NumberedOnce
<1>5. CASE AddSection /\ SectionAccepted
  <2>1. vmranges' = Append(vmranges, NewRange) /\ sect' = sect + 1 /\ segs' = segs
    BY <1>5 DEF AddSection
  <2>2. NewRange.segment_idx = Len(segs) /\ NewRange.section_idx = sect - 1
    BY DEF NewRange, RangeOf
  <2>3. NewRange \in VmRange
    BY <1>1, <1>5, NewRangeShape DEF AddSection, InCommand
  <2>4. /\ Len(vmranges') = Len(vmranges) + 1
        /\ \A k \in 1 .. Len(vmranges) : vmranges'[k] = vmranges[k]
        /\ vmranges'[Len(vmranges) + 1] = NewRange
    BY <1>1, <2>1, <2>3, AppendFacts DEF TypeOK
  <2>5. \A k \in 1 .. Len(vmranges) :
          vmranges[k].segment_idx = Len(segs) => vmranges[k].section_idx + 1 < sect
    BY <1>1 DEF NumberedOnce
  <2> DEFINE n == Len(vmranges) + 1
  <2>6. ASSUME NEW k \in 1 .. n, vmranges'[k].segment_idx = Len(segs)
        PROVE  vmranges'[k].section_idx + 1 < sect + 1
    <3>1. CASE k = n
      BY <1>1, <2>2, <2>4, <3>1
    <3>2. CASE k # n
      <4>1. k \in 1 .. Len(vmranges)
        BY <1>1, <3>2
      <4>2. vmranges[k].section_idx + 1 < sect /\ vmranges[k].section_idx \in Nat
        BY <1>2, <2>4, <2>5, <2>6, <4>1
      <4> QED
        BY <1>1, <2>4, <4>1, <4>2
    <3> QED
      BY <3>1, <3>2
  <2>7. \A k \in 1 .. Len(vmranges) : \/ vmranges[k].segment_idx # Len(segs)
                                      \/ vmranges[k].section_idx # sect - 1
    BY <1>1, <1>2, <2>5
  <2>8. ASSUME NEW j \in 1 .. n, NEW k \in 1 .. n, j # k
        PROVE  \/ vmranges'[j].segment_idx # vmranges'[k].segment_idx
               \/ vmranges'[j].section_idx # vmranges'[k].section_idx
    <3>1. \A i \in 1 .. n : i = n \/ i \in 1 .. Len(vmranges)
      BY <1>1
    <3>2. CASE j = n
      BY <2>2, <2>4, <2>7, <2>8, <3>1, <3>2
    <3>3. CASE k = n
      BY <2>2, <2>4, <2>7, <2>8, <3>1, <3>3
    <3>4. CASE j # n /\ k # n
      BY <1>1, <2>4, <2>8, <3>1, <3>4 DEF NumberedOnce
    <3> QED
      BY <3>2, <3>3, <3>4
  <2> QED
    BY <2>1, <2>4, <2>6, <2>8 DEF NumberedOnce
<1>6. CASE EndSegment /\ Len(segs) < MaxSegments
  <2>1. UNCHANGED vmranges /\ segs' = Append(segs, at)
    BY <1>6 DEF EndSegment
  <2>2. Len(segs') = Len(segs) + 1
    BY <1>1, <2>1, AppendFacts DEF TypeOK
  <2>3. \A k \in 1 .. Len(vmranges) : vmranges[k].segment_idx # Len(segs')
    BY <1>1, <1>2, <2>2
  <2> QED
    BY <1>1, <2>1, <2>3 DEF NumberedOnce
<1>7. CASE \/ ExamineArch \/ ExaminePastTable \/ CheckHeader \/ RecordTable \/ SkipCommand
           \/ EndCommands \/ GetPtr \/ UNCHANGED vars
           \/ (AddSection /\ ~SectionAccepted)
           \/ (EndSegment /\ ~(Len(segs) < MaxSegments))
  BY <1>3, <1>7 DEF ExamineArch, ExaminePastTable, CheckHeader, RecordTable, SkipCommand,
     EndCommands, GetPtr, AddSection, EndSegment, vars
<1> QED
  BY <1>4, <1>5, <1>6, <1>7 DEF Next

LEMMA LegalStep ==
  ASSUME LegalInv, [Next]_vars
  PROVE  LegalFileLoads'
<1> SUFFICES ASSUME status' = "failed", arch' <= Len(file'.archs), Legal', FewEnough'
             PROVE  HasThreadZerofill'
  BY DEF LegalFileLoads
<1>1. file' = file /\ (arch' = arch \/ ExamineArch)
  BY DEF Next, ExamineArch, ExaminePastTable, CheckHeader, BeginSegment, AddSection, EndSegment,
     RecordTable, SkipCommand, EndCommands, GetPtr, vars
<1>2. CASE ExamineArch
  <2>1. status' # "failed"
    BY <1>2 DEF ExamineArch
  <2> QED
    BY <2>1
<1>3. CASE arch' = arch
  <2>1. Image' = Image
    BY <1>1, <1>3 DEF Image
  <2>2. Segments' = Segments /\ Located' = Located
    BY <2>1 DEF Segments, Located
  <2>3. (Legal' <=> Legal) /\ (FewEnough' <=> FewEnough)
        /\ (HasThreadZerofill' <=> HasThreadZerofill)
    BY <2>1, <2>2 DEF Legal, FewEnough, HasThreadZerofill, LegalSection
  <2>4. arch <= Len(file.archs) /\ Legal /\ FewEnough
    BY <1>1, <1>3, <2>3
  <2>5. CASE status = "failed"
    BY <2>3, <2>4, <2>5 DEF LegalInv, LegalFileLoads
  <2>6. CASE status # "failed"
    <3>1. Next
      BY <2>6 DEF vars
    <3> QED
      BY <2>3, <2>4, <2>6, <3>1, FailsForCause
  <2> QED
    BY <2>5, <2>6
<1> QED
  BY <1>1, <1>2, <1>3

(* No assertion of symtab_macho_init, on the file, on a segment, on a      *)
(* section or on the room in a table, stops at a well-formed file, for     *)
(* every word size and both limits (symtab_macho.c:61-227).                *)
THEOREM LegalFilesLoad == Spec => []LegalFileLoads
<1>1. Init => NumberedOnce /\ LegalFileLoads
  <2> SUFFICES ASSUME Init
               PROVE  NumberedOnce /\ LegalFileLoads
    OBVIOUS
  <2>1. status # "failed" /\ vmranges = <<>>
    BY DEF Init
  <2>2. 1 .. Len(vmranges) = {}
    BY <2>1, EmptySeq
  <2> QED
    BY <2>1, <2>2 DEF NumberedOnce, LegalFileLoads
<1>2. LoadInv /\ LoadInv' /\ NumberedOnce /\ LegalFileLoads /\ [Next]_vars
        => NumberedOnce' /\ LegalFileLoads'
  BY NumberedOnceStep, LegalStep DEF LegalInv
<1> QED
  BY LoadInvariance, <1>1, <1>2, PTL DEF Spec
===============================================================================
