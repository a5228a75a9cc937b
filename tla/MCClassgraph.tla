---------------------------- MODULE MCClassgraph ----------------------------
(***************************************************************************)
(* Small instances of Classgraph: a program p.so and a library d.so, which *)
(* may need each other, with up to two typeinfo symbols each, and class    *)
(* hierarchies with chains, diamonds and bases that have no symbol.        *)
(***************************************************************************)
EXTENDS Classgraph

MCBasename == [n \in Name |-> n]
MCFold     == [n \in Name |-> n]
MCLoadAddr == [n \in Name |-> IF n = "p.so" THEN 10 ELSE 20]

MCDemangled == [n \in SymName |-> CASE n = "TI_A" -> 1 [] n = "TI_B" -> 2
                                    [] n = "TI_C" -> 3 [] OTHER -> 4]
MCTypeinfo == {"TI_A", "TI_B", "TI_C"}
MCFilters == {SymName, SymName \ {"TI_C"}}

Sy(name, addr) == [name |-> name, addr |-> addr]

(* Address 0 is an import; twice the same name, classes in two anonymous   *)
(* namespaces.                                                             *)
ProgramTables ==
  {<<Sy("TI_A", 1), Sy("TI_B", 2)>>,
   <<Sy("TI_B", 1), Sy("TI_B", 2)>>,
   <<Sy("main", 3), Sy("TI_A", 1), Sy("TI_B", 0)>>}
LibraryTables ==
  {<<>>,
   <<Sy("TI_B", 1), Sy("TI_C", 2)>>,
   <<Sy("TI_C", 4), Sy("TI_B", 3)>>}
MachOTables ==
  {<<Sy("TI_A", 1), Sy("TI_B", 2)>>,
   <<Sy("TI_C", 0), Sy("TI_A", 1), Sy("TI_B", 2)>>}

MCFile ==
  [kind : {"elf"}, needed : {<<"d.so">>}, symbols : ProgramTables] \cup
  [kind : {"elf"}, needed : {<<>>, <<"p.so">>}, symbols : LibraryTables] \cup
  [kind : {"macho"}, needed : {<<>>}, symbols : MachOTables]

Ob(kind, bases) == [kind |-> kind, bases |-> bases]
NoBases == Ob("class", <<>>)

(* Objects by absolute address: 1 to 4 in a Mach-O file, from 11 on in     *)
(* p.so, from 21 on in d.so. Nothing is at 99; in a Mach-O file a pointer  *)
(* to a class of another library holds 0.                                  *)
MCMemories ==
  {[a \in (1 .. 2) \cup (11 .. 14) \cup (21 .. 24) |->
      CASE a = 1  -> IF m21 = NoBases THEN Ob("unmapped", <<>>) ELSE Ob("si", <<2>>)
        [] a = 2  -> Ob("vmi", <<99, 0>>)
        [] a = 11 -> m11
        [] a = 12 -> m12
        [] a = 22 -> m22
        [] a = 21 -> m21
        [] OTHER  -> NoBases] :
     m11 \in {Ob("other", <<>>), Ob("si", <<12>>),
              Ob("vmi", <<12, 22>>), Ob("vmi", <<23, 12>>)},
     m12 \in {NoBases, Ob("si", <<24>>), Ob("vmi", <<22, 21>>)},
     m22 \in {NoBases, Ob("si", <<21>>)},
     m21 \in {NoBases, Ob("vmi", <<99, 23>>)}}

MCDepth == [a \in 0 .. 99 |-> CASE a \in {2, 21} -> 1 [] a \in {1, 22} -> 2
                                [] a = 12 -> 3 [] a = 11 -> 4 [] OTHER -> 0]
==============================================================================
