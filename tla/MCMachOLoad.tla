----------------------------- MODULE MCMachOLoad -----------------------------
(***************************************************************************)
(* Small instances of MachOLoad: words of 10 bits, a __TEXT and a __DATA    *)
(* segment with up to two sections each, good and bad ones, in any order.  *)
(***************************************************************************)
EXTENDS MachOLoad

Sec(addr, size, offset, type) ==
  [addr |-> addr, size |-> size, offset |-> offset, type |-> type]

(* In __TEXT, addresses 16 to 31, file positions 0 to 15. The fourth is    *)
(* empty, the fifth has an end that wraps, the last ends past the segment. *)
TextSections ==
  {Sec(16, 8, 0, "regular"), Sec(24, 8, 8, "regular"), Sec(20, 8, 4, "regular"),
   Sec(24, 0, 8, "regular"), Sec(24, 1018, 8, "regular"), Sec(28, 8, 8, "regular")}

(* In __DATA, addresses 32 to 47, file positions 16 to 23. The last wraps  *)
(* in the file only.                                                       *)
DataSections ==
  {Sec(32, 8, 16, "regular"), Sec(40, 8, 0, "zerofill"), Sec(40, 8, 0, "thread_zerofill"),
   Sec(36, 4, 22, "regular"), Sec(32, 4, 20, "regular"), Sec(36, 4, 1021, "regular")}

UpTo(n, S) == UNION {[1 .. k -> S] : k \in 0 .. n}

Segment(vmaddr, vmsize, fileoff, filesize, sections) ==
  [cmd |-> "segment", vmaddr |-> vmaddr, vmsize |-> vmsize,
   fileoff |-> fileoff, filesize |-> filesize, sections |-> sections]
Text(sections) == Segment(16, 16, 0, 16, sections)
Data(sections) == Segment(32, 16, 16, 8, sections)
Bss(sections)  == Segment(64, 16, 0, 0, sections)
Linkedit(size) == Segment(48, 16, 24, size, <<>>)
Other(kind) == [cmd |-> kind]

CommandLists ==
  {<<Text(t), Data(d)>> : t \in UpTo(2, TextSections), d \in UpTo(2, DataSections)} \cup
  {<<Other("symtab"), Data(d), Other("dyld_info"), Text(t), Other("symtab")>> :
     t \in UpTo(1, TextSections), d \in UpTo(1, DataSections)} \cup
  {<<Linkedit(n), Other("other"), Text(t), Other("dysymtab")>> :
     t \in UpTo(2, TextSections), n \in {8, 9}} \cup
  {<<Bss(<<Sec(64, 16, 0, "gb_zerofill")>>), Text(t), Linkedit(0)>> :
     t \in UpTo(1, TextSections)}

Slice(i386, offset, size, cmds) ==
  [i386 |-> i386, offset |-> offset, size |-> size,
   good_header |-> TRUE, cmds |-> cmds]

(* The image ends with __DATA, or with __LINKEDIT. *)
ImageSize(cmds) == IF \E k \in DOMAIN cmds : cmds[k] = Linkedit(8) THEN 32 ELSE 24

(* A thin file; the second image of a universal file; such a file without  *)
(* an image for i386, or without any; an image with another header.        *)
ThinFiles == {[fat |-> FALSE, archs |-> <<Slice(TRUE, 0, ImageSize(c), c)>>] : c \in CommandLists}
FatFiles ==
  {[fat |-> TRUE, archs |-> <<Slice(FALSE, 4, 8, <<>>), Slice(TRUE, 12, ImageSize(c), c)>>] :
     c \in {<<Text(t), Data(d)>> : t \in UpTo(1, TextSections), d \in UpTo(1, DataSections)}}
OddFiles ==
  {[fat |-> TRUE, archs |-> <<>>],
   [fat |-> FALSE, archs |-> <<[Slice(TRUE, 0, 8, <<>>) EXCEPT !.good_header = FALSE]>>]}
ForeignFiles == {[fat |-> TRUE, archs |-> <<Slice(FALSE, 4, 8, <<>>)>>]}

MCFile == ThinFiles \cup FatFiles \cup OddFiles
MCAllFile == MCFile \cup ForeignFiles

MCQueries == [addr : {15, 16, 23, 24, 28, 31, 32, 36, 40, 64, 1023}, size : {4, 8}]
==============================================================================
