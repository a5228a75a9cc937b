------------------------------ MODULE MachOLoad ------------------------------
(***************************************************************************)
(* symtab_macho_init (symtab_macho.c) as far as the bind information: the  *)
(* choice of the i386 image of a universal binary, the walk over the load  *)
(* commands, the table of VM ranges it fills; and symtab_macho_get_ptr,    *)
(* which turns VM addresses into file positions with that table.           *)
(*                                                                         *)
(* Words are unsigned and 32 bits wide in the code, Word stands for 2^32:  *)
(* every sum of the code wraps. Positions are relative to the mapping of   *)
(* the whole file; an image begins at arch.offset.                         *)
(***************************************************************************)
EXTENDS Integers, Sequences, FiniteSets

CONSTANTS
  Word,         \* 2^32
  MaxRanges,    \* 256, the length of macho_vmranges
  MaxSegments,  \* 16, the length of segs
  File,         \* the Mach-O files, see FileType
  Queries,      \* what symtab_macho_get_ptr is asked for: records of addr, size
  None

UInt == 0 .. Word - 1
SectionTypes == {"regular", "zerofill", "gb_zerofill", "thread_zerofill"}
Section == [addr : UInt, size : UInt, offset : UInt, type : SectionTypes]

(* Load commands: segments, the three commands that are remembered (with   *)
(* what they say kept opaque), and all the others.                         *)
TableKinds == {"symtab", "dysymtab", "dyld_info"}
SegmentCommand ==
  [cmd : {"segment"}, vmaddr : UInt, vmsize : UInt, fileoff : UInt, filesize : UInt,
   sections : Seq(Section)]
LoadCommand == SegmentCommand \cup [cmd : TableKinds \cup {"other"}]

(* A thin file is one image that begins at 0; a fat one has a table of     *)
(* them. i386: cputype and cpusubtype are what the code looks for.         *)
(* good_header: magic, cpu and file type of the image's own header.        *)
ArchEntry ==
  [i386 : BOOLEAN, offset : UInt, size : UInt, good_header : BOOLEAN,
   cmds : Seq(LoadCommand)]
FileType(f) ==
  /\ f \in [fat : BOOLEAN, archs : Seq(ArchEntry)]
  /\ ~f.fat => Len(f.archs) = 1
  /\ \A k \in 1 .. Len(f.archs) : f.archs[k].offset + f.archs[k].size < Word

ASSUME WordAssumption == Word \in Nat \ {0}
ASSUME LimitsAssumption == MaxRanges \in Nat /\ MaxSegments \in Nat
ASSUME FileAssumption == \A f \in File : FileType(f)
ASSUME QueriesAssumption == Queries \subseteq [addr : UInt, size : UInt]

VARIABLES
  file,      \* the file, read only
  arch,      \* the image looked at; the one chosen once status is past "fat"
  status,    \* what symtab_macho_init is doing
  at,        \* the load command the loop stands at
  sect,      \* the next section of that command, 0 before the command begins
  vmranges,  \* macho_vmranges[0 .. macho_vmrange_count - 1]
  segs,      \* segs[0 .. nsegs - 1]: the load commands they point to
  tables,    \* the last command of each kind in TableKinds, or None
  got        \* the last answer of symtab_macho_get_ptr, or None

vars == <<file, arch, status, at, sect, vmranges, segs, tables, got>>

(* failed, bad_address: an assertion of symtab_macho_init, of              *)
(* symtab_macho_get_ptr. overrun: the fat loop is past its table.          *)
Statuses == {"fat", "header", "commands", "loaded", "failed", "bad_address", "overrun"}

Image == file.archs[arch]
Command == Image.cmds[at]

Plus(a, b) == IF a + b < Word THEN a + b ELSE a + b - Word

------------------------------------------------------------------------------
(* Universal binaries. *)

(* The loop compares its index with nfat_arch as the big-endian file has   *)
(* it: a number below 256 is read as that number times 2^24.               *)
FatArchCount == Len(file.archs) * (Word \div 256)

ExamineArch ==
  /\ status = "fat"
  /\ arch <= Len(file.archs)
  /\ IF file.archs[arch].i386
     THEN status' = "header" /\ UNCHANGED arch
     ELSE arch' = arch + 1 /\ UNCHANGED status
  /\ UNCHANGED <<file, at, sect, vmranges, segs, tables, got>>

(* No entry was for i386: the loop goes on with what is not an entry, or,  *)
(* if there never was one, assert(found_i386) fails.                       *)
ExaminePastTable ==
  /\ status = "fat"
  /\ arch > Len(file.archs)
  /\ status' = IF arch - 1 < FatArchCount THEN "overrun" ELSE "failed"
  /\ UNCHANGED <<file, arch, at, sect, vmranges, segs, tables, got>>

CheckHeader ==
  /\ status = "header"
  /\ status' = IF Image.good_header THEN "commands" ELSE "failed"
  /\ UNCHANGED <<file, arch, at, sect, vmranges, segs, tables, got>>

------------------------------------------------------------------------------
(* Load commands. *)

InCommand(kind) ==
  /\ status = "commands"
  /\ at <= Len(Image.cmds)
  /\ Command.cmd = kind

(* Definitions named for a fault (here and below) are wrong variants of    *)
(* the definition that follows: the runs' properties tell them from it.    *)
BeginSegmentUnchecked ==
  /\ InCommand("segment")
  /\ sect = 0
  /\ sect' = 1
  /\ UNCHANGED <<file, arch, status, at, vmranges, segs, tables, got>>

BeginSegment ==
  /\ InCommand("segment")
  /\ sect = 0
  /\ IF Plus(Command.fileoff, Command.filesize) <= Image.size
     THEN sect' = 1 /\ UNCHANGED status
     ELSE status' = "failed" /\ UNCHANGED sect
  /\ UNCHANGED <<file, arch, at, vmranges, segs, tables, got>>

MappedIfSegment(seg, sec) == seg.filesize # 0
IsMapped(seg, sec) == seg.filesize # 0 /\ sec.type # "zerofill"

InSegmentMemory(seg, sec) ==
  /\ sec.addr >= seg.vmaddr
  /\ Plus(sec.addr, sec.size) <= Plus(seg.vmaddr, seg.vmsize)
  /\ IsMapped(seg, sec) => sec.offset >= seg.fileoff

(* The assertions on a section: in its segment's addresses, and, when it   *)
(* is mapped, in its segment's part of the file.                           *)
InSegment(seg, sec) ==
  LET vmend   == Plus(seg.vmaddr, seg.vmsize)
      fileend == Plus(seg.fileoff, seg.filesize)
  IN  /\ sec.addr >= seg.vmaddr
      /\ sec.addr <= vmend
      /\ Plus(sec.addr, sec.size) <= vmend
      /\ IsMapped(seg, sec) =>
           /\ sec.offset >= seg.fileoff
           /\ sec.offset <= fileend
           /\ Plus(sec.offset, sec.size) <= fileend

RangeOf(seg, sec, segment_idx, section_idx) ==
  [is_mapped     |-> IsMapped(seg, sec),
   vm_addr_begin |-> sec.addr,
   vm_addr_end   |-> Plus(sec.addr, sec.size),
   map_off_begin |-> sec.offset,
   map_off_end   |-> Plus(sec.offset, sec.size),
   segment_idx   |-> segment_idx,
   section_idx   |-> section_idx]

ApartAtBegin(r, q) == r.vm_addr_end <= q.vm_addr_begin \/ q.vm_addr_begin <= r.vm_addr_begin
Apart(r, q) == r.vm_addr_end <= q.vm_addr_begin \/ q.vm_addr_end <= r.vm_addr_begin

NewRangeBehind == RangeOf(Command, Command.sections[sect], Len(segs), sect - 2)
NewRangeAhead  == RangeOf(Command, Command.sections[sect], Len(segs) + 1, sect - 1)

(* The range of the section the loop stands at. The C indexes are from 0.  *)
NewRange == RangeOf(Command, Command.sections[sect], Len(segs), sect - 1)

SectionAccepted ==
  /\ Len(vmranges) < MaxRanges
  /\ InSegment(Command, Command.sections[sect])
  /\ \A k \in 1 .. Len(vmranges) : Apart(NewRange, vmranges[k])

AddSection ==
  /\ InCommand("segment")
  /\ sect # 0
  /\ sect <= Len(Command.sections)
  /\ IF SectionAccepted
     THEN /\ vmranges' = Append(vmranges, NewRange)
          /\ sect' = sect + 1
          /\ UNCHANGED status
     ELSE status' = "failed" /\ UNCHANGED <<vmranges, sect>>
  /\ UNCHANGED <<file, arch, at, segs, tables, got>>

EndSegmentIfNotEmpty ==
  /\ InCommand("segment")
  /\ sect > Len(Command.sections)
  /\ segs' = IF Command.sections = <<>> THEN segs ELSE Append(segs, at)
  /\ at' = at + 1
  /\ sect' = 0
  /\ UNCHANGED <<file, arch, status, vmranges, tables, got>>

EndSegment ==
  /\ InCommand("segment")
  /\ sect > Len(Command.sections)
  /\ IF Len(segs) < MaxSegments
     THEN /\ segs' = Append(segs, at)
          /\ at' = at + 1
          /\ sect' = 0
          /\ UNCHANGED status
     ELSE status' = "failed" /\ UNCHANGED <<segs, at, sect>>
  /\ UNCHANGED <<file, arch, vmranges, tables, got>>

(* LC_SYMTAB, LC_DYSYMTAB, LC_DYLD_INFO: the fields of library_info_t are  *)
(* overwritten.                                                            *)
RecordTable ==
  /\ \E kind \in TableKinds :
       /\ InCommand(kind)
       /\ tables' = [tables EXCEPT ![kind] = at]
  /\ at' = at + 1
  /\ UNCHANGED <<file, arch, status, sect, vmranges, segs, got>>

SkipCommand ==
  /\ InCommand("other")
  /\ at' = at + 1
  /\ UNCHANGED <<file, arch, status, sect, vmranges, segs, tables, got>>

(* The loop is over; get_dyld_bind_info is given segs and nsegs.           *)
EndCommands ==
  /\ status = "commands"
  /\ at > Len(Image.cmds)
  /\ status' = "loaded"
  /\ UNCHANGED <<file, arch, at, sect, vmranges, segs, tables, got>>

------------------------------------------------------------------------------
(* symtab_macho_get_ptr. *)

Within(r, addr) == r.vm_addr_begin <= addr /\ addr < r.vm_addr_end

Holding(addr) == {k \in 1 .. Len(vmranges) : Within(vmranges[k], addr)}
FirstHolding(addr) == CHOOSE k \in Holding(addr) : \A j \in Holding(addr) : k <= j

PtrToInImage(r, addr) == Plus(r.map_off_begin, addr - r.vm_addr_begin)
PtrTo(r, addr) == Plus(Image.offset, Plus(r.map_off_begin, addr - r.vm_addr_begin))

PtrAllowed(addr, size) ==
  /\ Holding(addr) # {}
  /\ LET r == vmranges[FirstHolding(addr)]
     IN  r.is_mapped /\ Plus(addr, size) <= r.vm_addr_end

GetPtr ==
  /\ status = "loaded"
  /\ \E q \in Queries :
       IF PtrAllowed(q.addr, q.size)
       THEN /\ got' = [addr |-> q.addr, size |-> q.size,
                       ptr |-> PtrTo(vmranges[FirstHolding(q.addr)], q.addr)]
            /\ UNCHANGED status
       ELSE status' = "bad_address" /\ UNCHANGED got
  /\ UNCHANGED <<file, arch, at, sect, vmranges, segs, tables>>

Init ==
  /\ file \in File
  /\ arch = 1
  /\ status = IF file.fat THEN "fat" ELSE "header"
  /\ at = 1
  /\ sect = 0
  /\ vmranges = <<>>
  /\ segs = <<>>
  /\ tables = [kind \in TableKinds |-> None]
  /\ got = None

Next ==
  \/ ExamineArch
  \/ ExaminePastTable
  \/ CheckHeader
  \/ BeginSegment
  \/ AddSection
  \/ EndSegment
  \/ RecordTable
  \/ SkipCommand
  \/ EndCommands
  \/ GetPtr

Spec == Init /\ [][Next]_vars

------------------------------------------------------------------------------
(* Properties. *)

VmRange ==
  [is_mapped : BOOLEAN,
   vm_addr_begin : UInt, vm_addr_end : UInt,
   map_off_begin : UInt, map_off_end : UInt,
   segment_idx : Nat, section_idx : Nat]

TypeOK ==
  /\ file \in File
  /\ arch \in 1 .. Len(file.archs) + 1
  /\ status \in Statuses
  /\ at \in 1 .. (IF arch > Len(file.archs) THEN 1 ELSE Len(Image.cmds) + 1)
  /\ sect \in Nat
  /\ vmranges \in Seq(VmRange)
  /\ segs \in Seq(Nat \ {0})
  /\ tables \in [TableKinds -> Nat \cup {None}]
  /\ got = None \/ got \in [addr : UInt, size : UInt, ptr : UInt]

(* No address is in two ranges, whatever the sections say, sums that wrap  *)
(* included: the first range that symtab_macho_get_ptr finds is the only   *)
(* one (symtab_macho.c:232-240). Two ranges that meet do so at the begin   *)
(* of one of them.                                                         *)
OneRangePerAddress ==
  \A j, k \in 1 .. Len(vmranges) :
    j # k => \A a \in {vmranges[j].vm_addr_begin, vmranges[k].vm_addr_begin} :
               ~(Within(vmranges[j], a) /\ Within(vmranges[k], a))

(* What a range says of itself is so: it is of section section_idx of the  *)
(* command segs[segment_idx], or of the one the loop is in, as nsegs       *)
(* counts a segment only after its sections (common.h:17-18).              *)
SegmentOf(r) == IF r.segment_idx < Len(segs) THEN segs[r.segment_idx + 1] ELSE at
RangesMatchCommands ==
  \A k \in 1 .. Len(vmranges) :
    LET r   == vmranges[k]
        seg == Image.cmds[SegmentOf(r)]
        j   == r.section_idx + 1
    IN  /\ seg.cmd = "segment"
        /\ j \in 1 .. Len(seg.sections)
        /\ r = RangeOf(seg, seg.sections[j], r.segment_idx, r.section_idx)

Segments == {c \in 1 .. Len(Image.cmds) : Image.cmds[c].cmd = "segment"}

(* Once loaded, segs holds every LC_SEGMENT in the order of the file, for  *)
(* get_dyld_bind_info takes numbers of segments, and vmranges holds every  *)
(* section of each: the nested loops leave none out.                       *)
EverySectionLoaded ==
  status = "loaded" =>
    \A c \in Segments :
      \E n \in 1 .. Len(segs) :
        /\ segs[n] = c
        /\ \A m \in 1 .. Len(segs) : m < n <=> segs[m] < c
        /\ \A j \in 1 .. Len(Image.cmds[c].sections) :
             \E k \in 1 .. Len(vmranges) :
               vmranges[k] = RangeOf(Image.cmds[c], Image.cmds[c].sections[j], n - 1, j - 1)

(* No sum of a section's offset and size is more than a word.              *)
OffsetsFit ==
  \A c \in Segments : \A j \in 1 .. Len(Image.cmds[c].sections) :
    LET sec == Image.cmds[c].sections[j]
    IN  sec.offset + sec.size < Word

(* What symtab_macho_get_ptr returns is size bytes inside the image: the   *)
(* assertions on the segment, the section and the answer add up, as long   *)
(* as neither the offsets of the file nor the address asked for wrap.      *)
AnswerInFile ==
  got # None /\ OffsetsFit /\ got.addr + got.size < Word =>
    /\ got.ptr >= Image.offset
    /\ got.ptr + got.size <= Image.offset + Image.size

(* A section that is none of the zero-fill types has its bytes in the file *)
(* (loader.h), unless its segment has nothing there.                       *)
HasContent(seg, sec) == sec.type = "regular" /\ seg.filesize # 0

(* No byte of a section with content is refused, and the position returned *)
(* is the one the section's own offset gives, whatever other sections and  *)
(* segments, in whatever order, the file has (symtab_macho.c:212, 634).    *)
ContentReadable ==
  status = "loaded" =>
    \A c \in Segments : \A j \in 1 .. Len(Image.cmds[c].sections) :
      LET sec == Image.cmds[c].sections[j]
      IN  HasContent(Image.cmds[c], sec) /\ sec.addr + sec.size < Word =>
            \A addr \in sec.addr .. sec.addr + sec.size - 1 :
              /\ PtrAllowed(addr, 1)
              /\ PtrTo(vmranges[FirstHolding(addr)], addr)
                   = Plus(Image.offset, Plus(sec.offset, addr - sec.addr))

(* A well-formed image, by loader.h: segments in the file, sections in     *)
(* their segment and apart from each other, sections with content in the   *)
(* segment's part of the file; zero-fill sections take no room in the file *)
(* and those of type S_GB_ZEROFILL are in segments of their own.           *)
Located ==
  {x \in Segments \X (1 .. MaxRanges + 1) : x[2] <= Len(Image.cmds[x[1]].sections)}
LegalSection(seg, sec) ==
  /\ seg.vmaddr <= sec.addr
  /\ sec.addr + sec.size <= seg.vmaddr + seg.vmsize
  /\ \/ sec.type # "regular"
     \/ /\ seg.fileoff <= sec.offset
        /\ sec.offset + sec.size <= seg.fileoff + seg.filesize
  /\ sec.type = "gb_zerofill" => seg.filesize = 0
Legal ==
  /\ Image.good_header
  /\ \A c \in Segments :
       LET seg == Image.cmds[c]
       IN  /\ seg.vmaddr + seg.vmsize < Word
           /\ seg.fileoff + seg.filesize <= Image.size
           /\ \A j \in 1 .. Len(seg.sections) : LegalSection(seg, seg.sections[j])
  /\ \A x, y \in Located :
       LET s == Image.cmds[x[1]].sections[x[2]]
           t == Image.cmds[y[1]].sections[y[2]]
       IN  x # y => s.addr + s.size <= t.addr \/ t.addr + t.size <= s.addr

FewEnough ==
  /\ Cardinality(Segments) <= MaxSegments
  /\ Cardinality(Located) <= MaxRanges

HasThreadZerofill ==
  \E x \in Located : Image.cmds[x[1]].sections[x[2]].type = "thread_zerofill"

(* The assertions of symtab_macho_init stop at no well-formed file with    *)
(* few enough segments and sections, thread-local zero-fill sections left  *)
(* aside.                                                                  *)
LegalFileLoads ==
  status = "failed" /\ arch <= Len(file.archs) /\ Legal /\ FewEnough => HasThreadZerofill

(* assert(!vmrange->is_mapped || ...) of symtab_macho.c:220 is about       *)
(* ranges that can be accessed through the file mapping (common.h:6); a    *)
(* well-formed file would never fail it. A section of type                 *)
(* S_THREAD_LOCAL_ZEROFILL does: is_mapped is computed TRUE for it, and    *)
(* its offset, which means nothing, is compared.                           *)
ZerofillAccepted ==
  ~(status = "failed" /\ arch <= Len(file.archs) /\ Legal /\ FewEnough)

(* nfat_arch is the "number of structs that follow" (fat.h:53): the loop   *)
(* over them reads no struct that is not there. It does when none is for   *)
(* i386, as nfat_arch is compared without swapping its bytes.              *)
FatLoopInTable == status # "overrun"

------------------------------------------------------------------------------
(* The inductive invariant. *)

(* Nothing is stored before the commands are read, an image is read only   *)
(* when one was chosen, and the loop over sections is in a segment whose   *)
(* own assertion held.                                                     *)
Untouched == at = 1 /\ sect = 0 /\ vmranges = <<>> /\ segs = <<>> /\ got = None
InFile(seg) == Plus(seg.fileoff, seg.filesize) <= Image.size
Placed ==
  /\ status \in {"fat", "header"} \/ arch > Len(file.archs) => Untouched
  /\ status \in {"header", "commands", "loaded", "bad_address"} => arch <= Len(file.archs)
  /\ sect # 0 => /\ at <= Len(Image.cmds)
                 /\ Command.cmd = "segment"
                 /\ InFile(Command)
                 /\ sect <= Len(Command.sections) + 1
  /\ status \in {"loaded", "bad_address"} => at > Len(Image.cmds)
  /\ got # None => status \in {"loaded", "bad_address"}

(* segs holds segments that the loop went past, in the order of the file.  *)
SegsOrdered ==
  /\ \A n \in 1 .. Len(segs) : segs[n] < at /\ segs[n] \in Segments
  /\ \A m, n \in 1 .. Len(segs) : m < n <=> segs[m] < segs[n]

(* A range is of a section that passed the assertions; of the segment the  *)
(* loop is in only while it is in it.                                      *)
RangesAccepted ==
  \A k \in 1 .. Len(vmranges) :
    LET r   == vmranges[k]
        seg == Image.cmds[SegmentOf(r)]
        j   == r.section_idx + 1
    IN  /\ r.segment_idx < Len(segs) \/ (r.segment_idx = Len(segs) /\ sect # 0)
        /\ seg.cmd = "segment"
        /\ j \in 1 .. Len(seg.sections)
        /\ r = RangeOf(seg, seg.sections[j], r.segment_idx, r.section_idx)
        /\ InFile(seg)
        /\ InSegment(seg, seg.sections[j])

RangesApart ==
  \A j, k \in 1 .. Len(vmranges) : j # k => Apart(vmranges[j], vmranges[k])

(* Of each segment the loop went past, every section has its range; of the *)
(* one it is in, every section before sect.                                *)
HasRanges(c, n, last) ==
  \A j \in 1 .. last :
    \E k \in 1 .. Len(vmranges) :
      vmranges[k] = RangeOf(Image.cmds[c], Image.cmds[c].sections[j], n - 1, j - 1)
PastLoaded ==
  /\ arch <= Len(file.archs) =>
       \A c \in Segments :
         c < at => \E n \in 1 .. Len(segs) :
                     segs[n] = c /\ HasRanges(c, n, Len(Image.cmds[c].sections))
  /\ sect # 0 => HasRanges(at, Len(segs) + 1, sect - 1)

(* The last answer was computed from a range that is still there.          *)
AnswerFromRange ==
  got # None =>
    \E k \in 1 .. Len(vmranges) :
      LET r == vmranges[k]
      IN  /\ r.is_mapped
          /\ Within(r, got.addr)
          /\ Plus(got.addr, got.size) <= r.vm_addr_end
          /\ got.ptr = PtrTo(r, got.addr)

(* The nested loops keep the table of ranges and the list of segments in   *)
(* step (symtab_macho.c:173-253): each part is needed to keep another.     *)
LoadInv ==
  /\ TypeOK
  /\ Placed
  /\ SegsOrdered
  /\ RangesAccepted
  /\ RangesApart
  /\ PastLoaded
  /\ AnswerFromRange
==============================================================================
