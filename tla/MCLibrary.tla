------------------------------ MODULE MCLibrary ------------------------------
(***************************************************************************)
(* Small instances of Library: every dependency graph over four names.     *)
(* "A.so" differs from "a.so" in case, "d/b.so" is b.so with a directory.  *)
(***************************************************************************)
EXTENDS LibraryRefinement

MCBasename == [n \in Name |-> IF n = "d/b.so" THEN "b.so" ELSE n]
MCFold     == [n \in Name |-> IF n = "A.so" THEN "a.so" ELSE n]
MCLoadAddr == [n \in Name |-> 0]

ElfFiles(n) ==
  [kind : {"elf"}, needed : UNION {[1 .. k -> Name] : k \in 0 .. n}]
MachoFile == [kind |-> "macho", needed |-> <<>>]

ElfOne == ElfFiles(1) \cup {MachoFile}
ElfTwo == ElfFiles(2) \cup {MachoFile}
==============================================================================
