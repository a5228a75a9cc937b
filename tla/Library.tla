------------------------------- MODULE Library -------------------------------
(***************************************************************************)
(* The library table of classgraph (library.c) and the depth-first walk    *)
(* of lib_init over DT_NEEDED entries that fills it.                       *)
(*                                                                         *)
(* Names and paths are members of Name; Basename and Fold stand for        *)
(* basename(3) and for the case folding strcasecmp(3) compares under.      *)
(* What a file holds is the variable file, chosen at start and fixed.      *)
(* The C recursion is the variable stack: one frame per active lib_init,   *)
(* with its slot and the index of the dependency its loop stands at.       *)
(***************************************************************************)
EXTENDS Integers, Sequences, FiniteSets

CONSTANTS
  Name,      \* strings given to lib_init or found in DT_NEEDED entries
  Basename,  \* basename(3), on Name
  Fold,      \* case folding, on Name: strcasecmp(a, b) = 0 iff Fold[a] = Fold[b]
  File,      \* the contents a library file may have, see FileType
  LoadAddr,  \* l_addr the dynamic linker gives the object a path names
  NumLibs,   \* NUM_LIBS, 256 in the code
  NoName     \* the NULL name of a slot that was never claimed

(***************************************************************************)
(* kind: what the magic number says. needed: the DT_NEEDED strings in      *)
(* order. symbols: the static symbol table, opaque in this module.         *)
(***************************************************************************)
Kinds == {"elf", "macho"}
FileType(f) == f.kind \in Kinds /\ f.needed \in Seq(Name)

ASSUME NumLibsAssumption == NumLibs \in Nat \ {0}
ASSUME NameAssumption == IsFiniteSet(Name) /\ NoName \notin Name
ASSUME FileAssumption == \A f \in File : FileType(f)
ASSUME LoadAddrAssumption == LoadAddr \in [Name -> Nat]
ASSUME BasenameAssumption ==
  /\ Basename \in [Name -> Name]
  /\ \A n \in Name : Basename[Basename[n]] = Basename[n]
ASSUME FoldAssumption ==
  /\ Fold \in [Name -> Name]
  /\ \A m, n \in Name : Fold[m] = Fold[n] => Fold[Basename[m]] = Fold[Basename[n]]

VARIABLES
  file,    \* Name -> File: the file system, read only
  libs,    \* libs[]: the static table of library_info_t
  stack,   \* active lib_init calls, the innermost last
  status   \* where main stands, or how the process ended

libVars == <<file, libs, stack, status>>

Slots == 0 .. NumLibs - 1
Frame == [lib : Slots, i : Nat \ {0}]
Statuses == {"start", "loading", "returned", "table_full", "load_failed"}

------------------------------------------------------------------------------
(* The table. *)

EmptySlot == [name |-> NoName, path |-> NoName, is_primary |-> FALSE,
              kind |-> "none", ready |-> FALSE, baseaddr |-> 0, depends |-> <<>>]

Claimed(s) == libs[s].name # NoName
FreeSlots  == {s \in Slots : ~Claimed(s)}
FirstFree  == CHOOSE s \in FreeSlots : \A t \in FreeSlots : s <= t

(* Definitions named for a fault (here and below) are wrong variants of    *)
(* the definition that follows: the runs' properties tell them from it.    *)
FindsOnlyPrimary(n) ==
  {s \in Slots : libs[s].is_primary /\ Claimed(s) /\ Fold[n] = Fold[libs[s].name]}
FindsSameCase(n) ==
  {s \in Slots : ~libs[s].is_primary /\ Claimed(s) /\ n = libs[s].name}

(* lib_find: the slots it would accept; it returns the first of them. *)
FindSlots(n) ==
  {s \in Slots : /\ ~libs[s].is_primary
                 /\ Claimed(s)
                 /\ Fold[n] = Fold[libs[s].name]}

LibFirst == 0
LibNextStopsShort(s) ==
  IF s + 1 < NumLibs - 1 /\ libs[s + 1].name # NoName THEN s + 1 ELSE -1
LibNextStays(s) == IF s + 1 < NumLibs /\ libs[s + 1].name # NoName THEN s ELSE -1
LibNext(s) == IF s + 1 < NumLibs /\ libs[s + 1].name # NoName THEN s + 1 ELSE -1

(* The slots a lib_first / lib_next loop comes by. *)
Visited == {s \in Slots : \A t \in 1 .. s : LibNext(t - 1) = t}

(* The DT_NEEDED walk of symtab_elf_init; symtab_macho_init records none. *)
DependsOf(f) == IF f.kind = "elf" THEN f.needed ELSE <<>>

------------------------------------------------------------------------------
(* lib_init, up to its dependency loop. *)

ClaimedSlot(primary, path) ==
  [EmptySlot EXCEPT !.name = Basename[path], !.path = path, !.is_primary = primary]

(* After dlinfo failed: symtab_init did not run, baseaddr is still 0. *)
UnlinkedSlot(primary, path) ==
  [ClaimedSlot(primary, path) EXCEPT !.kind = "elf"]

LoadedSlot(primary, path) ==
  [ClaimedSlot(primary, path) EXCEPT
     !.kind     = file[path].kind,
     !.ready    = TRUE,
     !.baseaddr = IF file[path].kind = "elf" THEN LoadAddr[path] ELSE 0,
     !.depends  = DependsOf(file[path])]

(* assert(lib != NULL) fails: no slot is free. *)
TableFull ==
  /\ FreeSlots = {}
  /\ status' = "table_full"
  /\ UNCHANGED <<file, libs, stack>>

(* open, fstat, mmap or dlopen fails, the magic is unknown, or symtab_init *)
(* asserts: the slot is claimed already, and the process ends.             *)
LoadFails(primary, path) ==
  /\ FreeSlots # {}
  /\ libs' = [libs EXCEPT ![FirstFree] = ClaimedSlot(primary, path)]
  /\ status' = "load_failed"
  /\ UNCHANGED <<file, stack>>

(* dlinfo fails: lib_init returns to its caller before symtab_init. *)
LinkmapFails(primary, path) ==
  /\ FreeSlots # {}
  /\ file[path].kind = "elf"
  /\ libs' = [libs EXCEPT ![FirstFree] = UnlinkedSlot(primary, path)]
  /\ stack' = Append(stack, [lib |-> FirstFree, i |-> 1])
  /\ status' = "loading"
  /\ UNCHANGED file

Loads(primary, path) ==
  /\ FreeSlots # {}
  /\ libs' = [libs EXCEPT ![FirstFree] = LoadedSlot(primary, path)]
  /\ stack' = Append(stack, [lib |-> FirstFree, i |-> 1])
  /\ status' = "loading"
  /\ UNCHANGED file

LibInit(primary, path) ==
  \/ TableFull
  \/ LoadFails(primary, path)
  \/ LinkmapFails(primary, path)
  \/ Loads(primary, path)

------------------------------------------------------------------------------
(* The dependency loop of the innermost lib_init. *)

Top == stack[Len(stack)]
InLoop == status = "loading" /\ stack # <<>>
ForgetsLastDepend == Top.i < Len(libs[Top.lib].depends)
MoreDepends == Top.i <= Len(libs[Top.lib].depends)
Dependency == libs[Top.lib].depends[Top.i]

(* main calls lib_init(true, argv[1]). *)
LoadPrimary ==
  /\ status = "start"
  /\ \E path \in Name : LibInit(TRUE, path)

LoadsFileName ==
  /\ InLoop
  /\ MoreDepends
  /\ FindSlots(Dependency) = {}
  /\ LibInit(FALSE, Basename[Dependency])

(* lib_find returned NULL: recurse; the caller's index moves on the return. *)
LoadNeeded ==
  /\ InLoop
  /\ MoreDepends
  /\ FindSlots(Dependency) = {}
  /\ LibInit(FALSE, Dependency)

SkipsTwo ==
  /\ InLoop
  /\ MoreDepends
  /\ FindSlots(Dependency) # {}
  /\ stack' = [stack EXCEPT ![Len(stack)].i = @ + 2]
  /\ UNCHANGED <<file, libs, status>>
SkipsNone ==
  /\ InLoop
  /\ MoreDepends
  /\ FindSlots(Dependency) # {}
  /\ UNCHANGED libVars

SkipNeeded ==
  /\ InLoop
  /\ MoreDepends
  /\ FindSlots(Dependency) # {}
  /\ stack' = [stack EXCEPT ![Len(stack)].i = @ + 1]
  /\ UNCHANGED <<file, libs, status>>

(* The loop is over: return, and let the caller's ++i run. *)
ReturnToCaller ==
  /\ InLoop
  /\ ~MoreDepends
  /\ Len(stack) > 1
  /\ LET callers == SubSeq(stack, 1, Len(stack) - 1)
     IN  stack' = [callers EXCEPT ![Len(callers)].i = @ + 1]
  /\ UNCHANGED <<file, libs, status>>

ReturnToMain ==
  /\ InLoop
  /\ ~MoreDepends
  /\ Len(stack) = 1
  /\ stack' = <<>>
  /\ status' = "returned"
  /\ UNCHANGED <<file, libs>>

LibStart ==
  /\ file \in [Name -> File]
  /\ libs = [s \in Slots |-> EmptySlot]
  /\ stack = <<>>
  /\ status = "start"

LibStep ==
  \/ LoadPrimary
  \/ LoadNeeded
  \/ SkipNeeded
  \/ ReturnToCaller
  \/ ReturnToMain

LibSpec == LibStart /\ [][LibStep]_libVars /\ WF_libVars(LibStep)

------------------------------------------------------------------------------
(* Properties. *)

(* Every slot is a zero slot or one lib_init filled for some path. A frame *)
(* stands at a dependency of its library; only the innermost may be past   *)
(* the last one.                                                           *)
SlotType(r) ==
  \/ r = EmptySlot
  \/ /\ r.path \in Name
     /\ r.is_primary \in BOOLEAN
     /\ \/ r = ClaimedSlot(r.is_primary, r.path)
        \/ r = UnlinkedSlot(r.is_primary, r.path)
        \/ r = LoadedSlot(r.is_primary, r.path)

LibTypeOK ==
  /\ file \in [Name -> File]
  /\ DOMAIN libs = Slots
  /\ \A s \in Slots : SlotType(libs[s])
  /\ stack \in Seq(Frame)
  /\ \A k \in 1 .. Len(stack) :
       /\ Claimed(stack[k].lib)
       /\ stack[k].i <= Len(libs[stack[k].lib].depends) + 1
       /\ k < Len(stack) => stack[k].i <= Len(libs[stack[k].lib].depends)
  /\ status \in Statuses

(* What lib_first and then lib_next again and again come to (library.c,    *)
(* used by symtab_foreach and symtab_addr_abs) is every claimed slot: the  *)
(* walk stops at the first NULL name, so the table may have no hole.       *)
IterationSeesAll ==
  status = "returned" => Visited = {s \in Slots : Claimed(s)}

(* All DT_NEEDED entries are bare file names, as linkers write them unless *)
(* a soname holds a slash.                                                 *)
PlainNeeded ==
  \A n \in Name : \A j \in 1 .. Len(file[n].needed) :
    Basename[file[n].needed[j]] = file[n].needed[j]

(* No dependency is loaded twice, whatever the cycles and diamonds of the  *)
(* dependency graph (the lib_find test of library.c:101). A file may hold  *)
(* two slots only when it is the primary and a dependency leads back to it.*)
OneSlotPerDependency ==
  PlainNeeded =>
    \A s, t \in Slots :
      /\ Claimed(s) /\ ~libs[s].is_primary
      /\ Claimed(t) /\ ~libs[t].is_primary
      /\ Fold[libs[s].name] = Fold[libs[t].name]
      => s = t

(* Nothing is loaded that the primary does not reach: every set of paths   *)
(* that holds the primary's and is closed under DT_NEEDED holds them all.  *)
ReachesOnly ==
  \A S \in SUBSET Name :
    /\ Claimed(LibFirst) => libs[LibFirst].path \in S
    /\ \A n \in S : \A j \in 1 .. Len(DependsOf(file[n])) : DependsOf(file[n])[j] \in S
    => \A s \in Slots : Claimed(s) => libs[s].path \in S

(* A dependency d is present: a slot other than the primary's holds its    *)
(* file name, up to case.                                                  *)
Present(d) ==
  \E t \in Slots : /\ Claimed(t)
                   /\ ~libs[t].is_primary
                   /\ Fold[libs[t].name] = Fold[Basename[d]]

(* When lib_init returns to main, the table is closed under DT_NEEDED: the *)
(* recursion and the loop index skipped nobody.                            *)
ClosedAtReturn ==
  status = "returned" =>
    \A s \in Slots : \A j \in 1 .. Len(libs[s].depends) : Present(libs[s].depends[j])

(* assert(lib != NULL) in lib_init can fail only when the distinct file    *)
(* names, up to case, number at least NUM_LIBS, or an entry holds a slash  *)
(* (such an entry is never found again, and a cycle through it goes on     *)
(* until the table is full).                                               *)
Keys == {Fold[n] : n \in Name}
TableSuffices ==
  status = "table_full" /\ PlainNeeded => NumLibs <= Cardinality(Keys)

(* The assertion itself (library.c:25): a slot is found whenever a library *)
(* is to be loaded, as long as the names that exist are fewer than slots.  *)
(* It fails all the same when DT_NEEDED entries hold slashes.              *)
SlotAlwaysFound == NumLibs > Cardinality(Keys) => status # "table_full"

(* lib_init ends on every dependency graph, cyclic ones included.          *)
LibTerminates == <>(status \in {"returned", "table_full", "load_failed"})

(* The reason the above hold. The claimed slots are a prefix of the table, *)
(* the primary in its first slot and nowhere else.                         *)
TableShape ==
  /\ \E n \in 0 .. NumLibs : \A s \in Slots : Claimed(s) <=> s < n
  /\ \A s \in Slots : Claimed(s) => (libs[s].is_primary <=> s = LibFirst)
  /\ status = "start" => stack = <<>> /\ \A s \in Slots : ~Claimed(s)
  /\ status # "start" => Claimed(LibFirst)
  /\ status = "returned" => stack = <<>>

(* A library whose lib_init is not active any more has all its             *)
(* dependencies present; one still active has those its loop went past     *)
(* and, unless it is innermost, the one it stands at.                      *)
Passed(k) ==
  LET d == libs[stack[k].lib].depends
      last == IF k < Len(stack) THEN stack[k].i ELSE stack[k].i - 1
  IN  last <= Len(d) /\ \A j \in 1 .. last : Present(d[j])

ClosedOrActive ==
  /\ \A k \in 1 .. Len(stack) : Passed(k)
  /\ \A s \in Slots :
       \/ \E k \in 1 .. Len(stack) : stack[k].lib = s
       \/ \A j \in 1 .. Len(libs[s].depends) : Present(libs[s].depends[j])

(* When the table is full, the dependency that found no slot is in none.   *)
FullMeansMissing ==
  status = "table_full" /\ PlainNeeded =>
    /\ FreeSlots = {}
    /\ \E n \in Name : FindSlots(n) = {}

LibInv ==
  /\ LibTypeOK
  /\ TableShape
  /\ ClosedOrActive
  /\ ReachesOnly
  /\ OneSlotPerDependency
  /\ FullMeansMissing

==============================================================================
