----------------------------- MODULE Classgraph -----------------------------
(***************************************************************************)
(* main.cc and symtab.c on top of the library table: after lib_init, main  *)
(* collects the typeinfo symbols of every library, then prints, for each   *)
(* one of the primary library, the tree of its base classes.               *)
(*                                                                         *)
(* A library slot's symbols come from its file's static symbol table. The  *)
(* typeinfo objects are the variable rtti, by absolute address: in process *)
(* memory for ELF, in the file mapping (base address 0) for Mach-O.        *)
(* Demangled names are numbers, ordered as strcmp orders the strings.      *)
(* The recursion of recurse_typeinfo is the variable calls.                *)
(***************************************************************************)
EXTENDS Library

CONSTANTS
  SymName,    \* mangled symbol names
  Typeinfo,   \* those that start with _ZTI
  Demangled,  \* SymName -> Nat: name_demangled
  Filters,    \* sets of names the regular expression argv[2] may match
  Memories,   \* functions from absolute addresses to typeinfo objects
  Depth,      \* Nat -> Nat: how deep the hierarchy below an object is, at most
  IndentSize  \* size of the array indent in recurse_typeinfo: 1024

(* class: no base; si: one base at offset 0; vmi: any number of bases;     *)
(* other: no class, or not deciphered; unmapped: outside every file-mapped *)
(* range of a Mach-O library.                                              *)
TypeinfoKinds == {"class", "si", "vmi", "other", "unmapped"}

ASSUME TypeinfoAssumption == Typeinfo \in SUBSET SymName
ASSUME DemangledAssumption == Demangled \in [SymName -> Nat]
ASSUME FiltersAssumption == Filters \in SUBSET SUBSET SymName
ASSUME SymbolsAssumption ==
  \A f \in File : f.symbols \in Seq([name : SymName, addr : Nat])
ASSUME MemoriesAssumption ==
  \A m \in Memories : \A a \in DOMAIN m :
    /\ m[a].kind \in TypeinfoKinds
    /\ m[a].bases \in Seq(Nat)
    /\ m[a].kind \notin {"si", "vmi"} => m[a].bases = <<>>
    /\ m[a].kind = "si" => Len(m[a].bases) = 1
(* C++ classes do not inherit from themselves. *)
ASSUME DepthAssumption ==
  \A m \in Memories : \A a \in DOMAIN m :
    /\ Depth[a] \in Nat
    /\ \A j \in 1 .. Len(m[a].bases) :
         /\ Depth[a] > 0
         /\ m[a].bases[j] \in DOMAIN m => Depth[m[a].bases[j]] < Depth[a]
ASSUME IndentAssumption == IndentSize \in Nat \ {0}

VARIABLES
  matches,   \* what l_filter lets through
  rtti,      \* absolute address -> typeinfo object
  mode,      \* what main is doing
  cursor,    \* symtab_foreach: the library and the index of the next symbol
  syms,      \* std::set syms: demangled name -> the symbol that holds its place
  symcache,  \* std::map symcache: relative address -> symbol
  left,      \* demangled names the printing loop has still to come to
  calls,     \* active calls of recurse_typeinfo: symbol and next base
  out        \* lines printed, and warnings for bases that were not found

graphVars == <<matches, rtti, mode, cursor, syms, symcache, left, calls, out>>
vars == <<libVars, graphVars>>

Modes == {"loading", "collecting", "printing", "aborted", "overrun", "done"}

------------------------------------------------------------------------------
(* Symbols and addresses. *)

(* A library whose lib_init returned early has no symbol table. *)
SymbolsOf(s) == IF libs[s].ready THEN file[libs[s].path].symbols ELSE <<>>

SymbolAt(s, i) ==
  [lib |-> s, addr |-> SymbolsOf(s)[i].addr, name |-> SymbolsOf(s)[i].name]

AbsAddr(sym) == libs[sym.lib].baseaddr + sym.addr

(* The key main's callback stores a symbol under in symcache. *)
AbsoluteKey(sym) == AbsAddr(sym)
CacheKey(sym) == sym.addr

CachedInAny(s, addr) == addr \in DOMAIN symcache

(* symtab_lookup_addr, of a library and a relative address. *)
Cached(s, addr) == addr \in DOMAIN symcache /\ symcache[addr].lib = s

OwnersPrimaryOnly(addr) ==
  {s \in {LibFirst} : /\ addr >= libs[s].baseaddr
                      /\ Cached(s, addr - libs[s].baseaddr)}

(* The libraries symtab_addr_abs would stop at; it stops at the first. *)
Owners(addr) ==
  {s \in Visited : /\ addr >= libs[s].baseaddr
                   /\ Cached(s, addr - libs[s].baseaddr)}
AddrAbs(addr) ==
  LET s == CHOOSE s \in Owners(addr) : \A t \in Owners(addr) : s <= t
  IN  symcache[addr - libs[s].baseaddr]

(* Where recurse_typeinfo finds the symbol of a base: for multiple bases   *)
(* the cache is asked for the absolute address first.                      *)
BaseFound(kind, addr) ==
  \/ kind = "vmi" /\ addr \in DOMAIN symcache
  \/ Owners(addr) # {}
BaseSymbol(kind, addr) ==
  IF kind = "vmi" /\ addr \in DOMAIN symcache
  THEN symcache[addr]
  ELSE AddrAbs(addr)

------------------------------------------------------------------------------
(* Collecting: symtab_foreach with the callback of main. *)

Put(map, key, value) ==
  [k \in DOMAIN map \cup {key} |-> IF k = key THEN value ELSE map[k]]

InsertOverwrites(set, sym) == Put(set, Demangled[sym.name], sym)

(* std::set::insert leaves an equal element where it is. *)
Insert(set, sym) ==
  IF Demangled[sym.name] \in DOMAIN set THEN set ELSE Put(set, Demangled[sym.name], sym)

Selected(sym) == sym.name \in Typeinfo /\ sym.name \in matches

LoadLibraries ==
  /\ mode = "loading"
  /\ LibStep
  /\ UNCHANGED graphVars

(* lib_init returned to main: the filter is made, symtab_foreach begins. *)
BeginForeach ==
  /\ mode = "loading"
  /\ status = "returned"
  /\ mode' = "collecting"
  /\ cursor' = [lib |-> LibFirst, i |-> 1]
  /\ UNCHANGED <<libVars, matches, rtti, syms, symcache, left, calls, out>>

VisitSymbol ==
  /\ mode = "collecting"
  /\ cursor.i <= Len(SymbolsOf(cursor.lib))
  /\ LET sym == SymbolAt(cursor.lib, cursor.i)
     IN  IF Selected(sym)
         THEN /\ syms' = Insert(syms, sym)
              /\ symcache' = Put(symcache, CacheKey(sym), sym)
         ELSE UNCHANGED <<syms, symcache>>
  /\ cursor' = [cursor EXCEPT !.i = @ + 1]
  /\ UNCHANGED <<libVars, matches, rtti, mode, left, calls, out>>

NextLibrary ==
  /\ mode = "collecting"
  /\ cursor.i > Len(SymbolsOf(cursor.lib))
  /\ LibNext(cursor.lib) # -1
  /\ cursor' = [lib |-> LibNext(cursor.lib), i |-> 1]
  /\ UNCHANGED <<libVars, matches, rtti, mode, syms, symcache, left, calls, out>>

BeginPrinting ==
  /\ mode = "collecting"
  /\ cursor.i > Len(SymbolsOf(cursor.lib))
  /\ LibNext(cursor.lib) = -1
  /\ mode' = "printing"
  /\ left' = DOMAIN syms
  /\ UNCHANGED <<libVars, matches, rtti, cursor, syms, symcache, calls, out>>

------------------------------------------------------------------------------
(* Printing: the loop over syms and recurse_typeinfo. *)

TopCall == calls[Len(calls)]

(* Where nothing is mapped the read ends the process. *)
Object(sym) ==
  IF AbsAddr(sym) \in DOMAIN rtti THEN rtti[AbsAddr(sym)]
  ELSE [kind |-> "unmapped", bases |-> <<>>]

Line(level, sym) ==
  [what |-> "class", level |-> level, name |-> sym.name, kind |-> Object(sym).kind]
Warning(level, addr) ==
  [what |-> "missing", level |-> level, base |-> addr]

(* Four characters a level and the NUL fit in indent. *)
Indents(level) == 4 * level < IndentSize

(* A call of recurse_typeinfo from the frames given, as far as the end of  *)
(* its own line. The level is the number of frames below it. What follows  *)
(* a write past the end of indent is not modelled.                         *)
Recurse(sym, frames) ==
  \/ /\ sym.addr = 0
     /\ calls' = frames
     /\ UNCHANGED <<mode, out>>
  \/ /\ sym.addr # 0
     /\ ~Indents(Len(frames))
     /\ mode' = "overrun"
     /\ calls' = frames
     /\ UNCHANGED out
  \/ /\ sym.addr # 0
     /\ Indents(Len(frames))
     /\ Object(sym).kind = "unmapped"  \* symtab_macho_get_ptr asserts, for Mach-O
     /\ mode' = "aborted"
     /\ calls' = frames
     /\ UNCHANGED out
  \/ /\ sym.addr # 0
     /\ Indents(Len(frames))
     /\ Object(sym).kind # "unmapped"
     /\ calls' = Append(frames, [sym |-> sym, i |-> 1])
     /\ out' = Append(out, Line(Len(frames), sym))
     /\ UNCHANGED mode

NextRoot ==
  /\ mode = "printing"
  /\ calls = <<>>
  /\ \E d \in left :
       /\ \A e \in left : d <= e
       /\ left' = left \ {d}
       /\ IF libs[syms[d].lib].is_primary
          THEN Recurse(syms[d], <<>>)
          ELSE UNCHANGED <<mode, calls, out>>
  /\ UNCHANGED <<libVars, matches, rtti, cursor, syms, symcache>>

(* The base the innermost call stands at, and its frame when it is done.   *)
AtBase ==
  /\ mode = "printing"
  /\ calls # <<>>
  /\ TopCall.i <= Len(Object(TopCall.sym).bases)
FirstBase == Object(TopCall.sym).bases[1]
CurrentBase == Object(TopCall.sym).bases[TopCall.i]
PastBase == [calls EXCEPT ![Len(calls)].i = @ + 1]

FollowBase ==
  /\ AtBase
  /\ BaseFound(Object(TopCall.sym).kind, CurrentBase)
  /\ Recurse(BaseSymbol(Object(TopCall.sym).kind, CurrentBase), PastBase)
  /\ UNCHANGED <<libVars, matches, rtti, cursor, syms, symcache, left>>

MissBase ==
  /\ AtBase
  /\ ~BaseFound(Object(TopCall.sym).kind, CurrentBase)
  /\ calls' = PastBase
  /\ out' = Append(out, Warning(Len(calls) - 1, CurrentBase))
  /\ UNCHANGED <<libVars, matches, rtti, mode, cursor, syms, symcache, left>>

LeaveTypeinfo ==
  /\ mode = "printing"
  /\ calls # <<>>
  /\ TopCall.i > Len(Object(TopCall.sym).bases)
  /\ calls' = SubSeq(calls, 1, Len(calls) - 1)
  /\ UNCHANGED <<libVars, matches, rtti, mode, cursor, syms, symcache, left, out>>

Finish ==
  /\ mode = "printing"
  /\ calls = <<>>
  /\ left = {}
  /\ mode' = "done"
  /\ UNCHANGED <<libVars, matches, rtti, cursor, syms, symcache, left, calls, out>>

Start ==
  /\ LibStart
  /\ matches \in Filters
  /\ rtti \in Memories
  /\ mode = "loading"
  /\ cursor = [lib |-> LibFirst, i |-> 1]
  /\ syms = <<>>
  /\ symcache = <<>>
  /\ left = {}
  /\ calls = <<>>
  /\ out = <<>>

Next ==
  \/ LoadLibraries
  \/ BeginForeach
  \/ VisitSymbol
  \/ NextLibrary
  \/ BeginPrinting
  \/ NextRoot
  \/ FollowBase
  \/ MissBase
  \/ LeaveTypeinfo
  \/ Finish

Spec == Start /\ [][Next]_vars /\ WF_vars(Next)

------------------------------------------------------------------------------
(* Properties. *)

Symbol == [lib : Slots, addr : Nat, name : SymName]
LineType ==
  [what : {"class"}, level : Nat, name : SymName, kind : TypeinfoKinds] \cup
  [what : {"missing"}, level : Nat, base : Nat]

TypeOK ==
  /\ LibTypeOK
  /\ matches \in Filters
  /\ rtti \in Memories
  /\ mode \in Modes
  /\ cursor \in [lib : Slots, i : Nat \ {0}]
  /\ DOMAIN syms \in SUBSET Nat
  /\ \A d \in DOMAIN syms : syms[d] \in Symbol /\ Demangled[syms[d].name] = d
  /\ DOMAIN symcache \in SUBSET Nat
  /\ \A a \in DOMAIN symcache : symcache[a] \in Symbol /\ symcache[a].addr = a
  /\ left \in SUBSET DOMAIN syms
  /\ calls \in Seq([sym : Symbol, i : Nat \ {0}])
  /\ out \in Seq(LineType)

(* The symbols the callback has been given and let through so far. *)
Given(s) == IF s < cursor.lib THEN Len(SymbolsOf(s)) ELSE cursor.i - 1
Seen ==
  {sym \in UNION {{SymbolAt(s, i) : i \in 1 .. Given(s)} :
                    s \in {t \in Visited : t <= cursor.lib}} :
     Selected(sym)}

(* Pointers to bases are absolute: none is equal to the relative address   *)
(* of a symbol, unless that symbol's library is at the base address 0, as  *)
(* a Mach-O file is. Shared objects are mapped far above 0.                *)
AddressLayout ==
  \A s, t \in Visited :
    \A i \in 1 .. Len(SymbolsOf(s)) : \A k \in 1 .. Len(SymbolsOf(t)) :
      LET pointers == Object(SymbolAt(t, k)).bases
      IN  (\E j \in 1 .. Len(pointers) : pointers[j] = SymbolsOf(s)[i].addr)
          => libs[s].baseaddr = 0

(* syms keeps one symbol per demangled name and the printing loop skips    *)
(* those of other libraries: a dependency's copy of a class (a weak        *)
(* typeinfo is in every library that uses it) may not take the place of    *)
(* the primary's (main.cc:191,196).                                        *)
PrimaryWins ==
  \A sym \in Seen :
    libs[sym.lib].is_primary => libs[syms[Demangled[sym.name]].lib].is_primary

(* The symbols that head a tree: one for each demangled name, the first of *)
(* that name in the primary's own table, if it has an address.             *)
Roots ==
  LET chosen == {i \in 1 .. Len(SymbolsOf(LibFirst)) : Selected(SymbolAt(LibFirst, i))}
      first  == {i \in chosen : \A k \in chosen :
                   k < i => Demangled[SymbolAt(LibFirst, k).name] #
                            Demangled[SymbolAt(LibFirst, i).name]}
  IN  {sym \in {SymbolAt(LibFirst, i) : i \in first} : sym.addr # 0}

Indent(line) == IF line.what = "class" THEN line.level ELSE line.level + 1

Heads(lines) == {j \in 1 .. Len(lines) : Indent(lines[j]) = 0}

(* main prints one tree for each demangled name of the primary, in strcmp  *)
(* order: that of the first typeinfo symbol of that name in the primary's  *)
(* table. A second class with the name heads none; where the first is an   *)
(* import (address 0) no tree has the name; and the symbols of the         *)
(* dependencies, read into the same set, change none of this               *)
(* (main.cc:27,191,196).                                                   *)
EveryPrimaryClassPrinted ==
  mode = "done" =>
    /\ {out[j] : j \in Heads(out)} = {Line(0, sym) : sym \in Roots}
    /\ \A j, k \in Heads(out) :
         j < k => Demangled[out[j].name] < Demangled[out[k].name]

(* What is printed below a class is the typeinfo its base pointer points   *)
(* to, though symcache is keyed by relative addresses only and asked for   *)
(* an absolute one when a class has several bases (main.cc:152,156). Only  *)
(* for those must the addresses be laid out as they are.                   *)
LookupSound ==
  \A k \in 2 .. Len(calls) :
    LET parent == calls[k - 1]
    IN  AddressLayout \/ Object(parent.sym).kind # "vmi"
        => AbsAddr(calls[k].sym) = Object(parent.sym).bases[parent.i - 1]

(* recurse_typeinfo nests no deeper than the class hierarchy, and writes   *)
(* past the end of indent (main.cc:31) only for a hierarchy that is too    *)
(* deep for it.                                                            *)
NestingBounded ==
  AddressLayout =>
    /\ \A k \in 1 .. Len(calls) :
         Depth[AbsAddr(calls[k].sym)] + k - 1 <= Depth[AbsAddr(calls[1].sym)]
    /\ mode = "overrun" => \E a \in DOMAIN rtti : ~Indents(Depth[a])

(* Another library's symbol has the same relative address and may have     *)
(* taken the symbol's place in symcache (main.cc:192).                     *)
Displaced(sym) == \E other \in Seen : other.addr = sym.addr /\ other.lib # sym.lib

(* A base goes unfound only if no selected symbol has its address, or if a *)
(* symbol of another library with the same relative address took its place *)
(* in symcache.                                                            *)
WarnsOnlyWithCause ==
  \A j \in 1 .. Len(out) :
    out[j].what = "missing" =>
      \A sym \in Seen :
        AbsAddr(sym) = out[j].base => Displaced(sym)

(* The warning at main.cc:126 and 159 says of a base that its typeinfo     *)
(* symbol could not be found: that would mean that there is none.          *)
WarningMeansAbsent ==
  \A j \in 1 .. Len(out) :
    out[j].what = "missing" => \A sym \in Seen : AbsAddr(sym) # out[j].base

(* The output as an outline, where a warning stands where its base would:  *)
(* the lines one level below line j, as far as nothing goes back to it.    *)
LinesBelow(lines, j) ==
  {k \in j + 1 .. Len(lines) :
     /\ Indent(lines[k]) = Indent(lines[j]) + 1
     /\ \A m \in j + 1 .. k : Indent(lines[m]) > Indent(lines[j])}

(* What a line below a class of some level says of a base of that class:   *)
(* the class at its address, or, if each symbol there is is displaced,     *)
(* that none was found.                                                    *)
Tells(line, level, base) ==
  \/ \E sym \in Seen : /\ AbsAddr(sym) = base
                       /\ sym.addr # 0
                       /\ line = Line(level + 1, sym)
  \/ /\ \A sym \in Seen : AbsAddr(sym) = base => Displaced(sym)
     /\ line = Warning(level, base)

(* The base pointer holds the address of an import: nothing is printed for *)
(* it. In a Mach-O file that is 0, which pointers dyld has yet to bind hold. *)
Imported(base) == \E sym \in Seen : AbsAddr(sym) = base /\ sym.addr = 0

(* The lines below line j are the first n bases of its class, in order,    *)
(* all but imported ones.                                                  *)
ListsBases(lines, j, bases, n) ==
  \E shown \in SUBSET (1 .. n) :
    /\ \A b \in (1 .. n) \ shown : Imported(bases[b])
    /\ \E at \in [shown -> LinesBelow(lines, j)] :
         /\ \A k \in LinesBelow(lines, j) : \E b \in shown : at[b] = k
         /\ \A b, c \in shown : b < c => at[b] < at[c]
         /\ \A b \in shown : Tells(lines[at[b]], lines[j].level, bases[b])

ListsAllBases(lines, j) ==
  \E sym \in Seen :
    /\ lines[j] = Line(lines[j].level, sym)
    /\ ListsBases(lines, j, Object(sym).bases, Len(Object(sym).bases))

(* Every line is that of a root or of a base of the class it stands below. *)
NoStrayLine(lines) ==
  \A k \in 1 .. Len(lines) :
    \/ Indent(lines[k]) = 0
    \/ \E j \in 1 .. Len(lines) : lines[j].what = "class" /\ k \in LinesBelow(lines, j)

(* Below each class stand its bases, in order and however deep, also where *)
(* they are in another library or met on several paths: nothing but an     *)
(* import is skipped, nothing is repeated or indented wrongly, and a base  *)
(* is reported missing only where no symbol has its address or another     *)
(* library's symbol may have displaced it.                                 *)
PrintsHierarchy ==
  mode = "done" /\ AddressLayout =>
    /\ NoStrayLine(out)
    /\ \A j \in 1 .. Len(out) : out[j].what = "class" => ListsAllBases(out, j)

(* main comes to an end on every acyclic hierarchy.                        *)
GraphTerminates == <>(\/ mode \in {"done", "aborted", "overrun"}
                      \/ status \in {"table_full", "load_failed"})
==============================================================================
