------------------------------ MODULE SymtabElf ------------------------------
(***************************************************************************)
(* symtab_elf_init and symtab_elf_foreach (symtab_elf.c): the sections of  *)
(* an ELF file are found by type and name, the libraries it needs are read *)
(* from .dynamic into the slot, and later every symbol of .symtab is       *)
(* demangled and given to the callback of symtab_foreach.                  *)
(*                                                                         *)
(* Section numbers and offsets into string tables are those of the file;   *)
(* libelf counts table entries from 0, i here from 1.                      *)
(***************************************************************************)
EXTENDS Demangle, FiniteSetsExt

CONSTANTS
  ElfFile,     \* files: see FileType
  MaxDepends,  \* entries of library_info_t.depends: 256
  SymSize      \* sizeof(Elf32_Sym): 16

SectionTypes == {"SHT_SYMTAB", "SHT_STRTAB", "SHT_DYNAMIC", "other"}
DynTags == {"DT_NULL", "DT_NEEDED", "other"}
Dyn == [d_tag : DynTags, d_val : Nat]
Sym == [st_name : Nat, st_value : Nat, st_size : Nat]

(* A section holds one of these: strings by offset, dynamic entries or     *)
(* symbols. The entries read from a table are as many as its bytes hold,   *)
(* whatever sh_entsize says.                                               *)
SectionType(s) ==
  /\ DOMAIN s = {"sh_type", "sh_name", "sh_link", "sh_size", "sh_entsize",
                 "strings", "dyns", "syms"}
  /\ s.sh_type \in SectionTypes
  /\ s.sh_name \in Nat /\ s.sh_link \in Nat /\ s.sh_size \in Nat /\ s.sh_entsize \in Nat
  /\ DOMAIN s.strings \subseteq Nat
  /\ \A offset \in DOMAIN s.strings : s.strings[offset] \in Mangled
  /\ s.dyns \in Seq(Dyn)
  /\ s.syms \in Seq(Sym)
  /\ s.sh_type = "SHT_SYMTAB" => Len(s.syms) = s.sh_size \div SymSize

(* stale_dyn, stale_sym: what the stack holds where dyn_entry and sym are. *)
FileType(f) ==
  /\ DOMAIN f = {"e_shstrndx", "sections", "stale_dyn", "stale_sym"}
  /\ f.e_shstrndx \in Nat
  /\ Len(f.sections) \in Nat /\ DOMAIN f.sections = 1 .. Len(f.sections)
  /\ \A k \in DOMAIN f.sections : SectionType(f.sections[k])
  /\ f.stale_dyn \in Dyn
  /\ f.stale_sym \in Sym

ASSUME LimitAssumption == MaxDepends \in Nat /\ SymSize \in Nat \ {0}
ASSUME ElfFileAssumption == \A f \in ElfFile : FileType(f)

VARIABLES
  elf,         \* read only
  is_primary,  \* read only
  status,      \* see Statuses
  symtab,      \* the section symtab_scn, or None
  count,       \* elf_symtab_count
  dynstr,      \* the section dynstr_scn, or None
  dynamic,     \* the section dynamic_scn, or None
  i,           \* the index of the loop over .dynamic or .symtab
  dyn_entry,   \* the locals of the two loops
  sym,
  depends,     \* depends[0 .. depend_count - 1]
  given        \* the symbols the callback was given

elfVars == <<elf, is_primary, status, symtab, count, dynstr, dynamic, i, dyn_entry, sym,
             depends, given>>
vars == <<elfVars, demVars>>

(* aborted: an assertion failed; crashed: a null pointer is read or a      *)
(* number divided by 0; overrun: a store behind depends.                   *)
Statuses ==
  {"find_symtab", "find_dynstr", "find_dynamic", "walking", "loaded", "listing",
   "demangling", "listed", "aborted", "crashed", "overrun"}

------------------------------------------------------------------------------
(* libelf, and the search of symtab_elf_find_section. *)

(* elf_strptr, None for the null pointer. *)
Strptr(ndx, offset) ==
  IF /\ ndx \in DOMAIN elf.sections
     /\ elf.sections[ndx].sh_type = "SHT_STRTAB"
     /\ offset \in DOMAIN elf.sections[ndx].strings
  THEN elf.sections[ndx].strings[offset]
  ELSE None

SectionName(k) == Strptr(elf.e_shstrndx, elf.sections[k].sh_name)
OfType(type) == {k \in DOMAIN elf.sections : elf.sections[k].sh_type = type}

(* strcmp is given the null pointer. *)
Unnamed(type) == \E k \in OfType(type) : SectionName(k) = None

(* The sections counted; the last of them is the one handed out. *)
Found(type, name) == {k \in OfType(type) : SectionName(k) = name}

Stops(how) ==
  /\ status' = how
  /\ UNCHANGED <<elf, is_primary, symtab, count, dynstr, dynamic, i, dyn_entry, sym,
                 depends, given, demVars>>

------------------------------------------------------------------------------
(* symtab_elf_init. *)

(* Names in which no character matters are texts of one character.         *)
DotSymtab  == <<"symtab">>
DotDynstr  == <<"dynstr">>
DotDynamic == <<"dynamic">>

CountIsExact == Cardinality(Found("SHT_SYMTAB", DotSymtab)) = 1
SymtabRequired == CountIsExact

(* In a dependency another count than 1 is worth a warning. *)
SymtabAccepted == is_primary => CountIsExact

FindSymtab ==
  /\ status = "find_symtab"
  /\ LET found == Found("SHT_SYMTAB", DotSymtab)
         shdr == elf.sections[Max(found)]
     IN  \/ Unnamed("SHT_SYMTAB") /\ Stops("crashed")
         \/ ~Unnamed("SHT_SYMTAB") /\ ~SymtabAccepted /\ Stops("aborted")
         \/ /\ ~Unnamed("SHT_SYMTAB") /\ SymtabAccepted
            /\ found # {} /\ shdr.sh_entsize = 0
            /\ Stops("crashed")
         \/ /\ ~Unnamed("SHT_SYMTAB") /\ SymtabAccepted
            /\ found # {} => shdr.sh_entsize # 0
            /\ symtab' = IF found # {} THEN Max(found) ELSE None
            /\ count' = IF found # {} THEN shdr.sh_size \div shdr.sh_entsize ELSE 0
            /\ status' = "find_dynstr"
            /\ UNCHANGED <<elf, is_primary, dynstr, dynamic, i, dyn_entry, sym, depends,
                           given, demVars>>

FindDynstr ==
  /\ status = "find_dynstr"
  /\ LET found == Found("SHT_STRTAB", DotDynstr)
     IN  \/ Unnamed("SHT_STRTAB") /\ Stops("crashed")
         \/ ~Unnamed("SHT_STRTAB") /\ Cardinality(found) # 1 /\ Stops("aborted")
         \/ /\ ~Unnamed("SHT_STRTAB") /\ Cardinality(found) = 1
            /\ dynstr' = Max(found)
            /\ status' = "find_dynamic"
            /\ UNCHANGED <<elf, is_primary, symtab, count, dynamic, i, dyn_entry, sym,
                           depends, given, demVars>>

FindDynamic ==
  /\ status = "find_dynamic"
  /\ LET found == Found("SHT_DYNAMIC", DotDynamic)
     IN  \/ Unnamed("SHT_DYNAMIC") /\ Stops("crashed")
         \/ ~Unnamed("SHT_DYNAMIC") /\ Cardinality(found) # 1 /\ Stops("aborted")
         \/ /\ ~Unnamed("SHT_DYNAMIC") /\ Cardinality(found) = 1
            /\ dynamic' = Max(found)
            /\ status' = "walking"
            /\ UNCHANGED <<elf, is_primary, symtab, count, dynstr, i, dyn_entry, sym,
                           depends, given, demVars>>

Dyns == elf.sections[dynamic].dyns

(* gelf_getdyn; past the end it leaves the entry as it is. *)
ReadEntry == IF i <= Len(Dyns) THEN Dyns[i] ELSE dyn_entry

EndsAtNull(entry) == entry.d_tag = "DT_NULL"
EndsAtUnknown(entry) == entry.d_tag # "DT_NEEDED"
EndsNever(entry) == FALSE
Ends(entry) == entry.d_tag = "DT_NULL"

(* The index stays behind the end once there, where it no longer matters.  *)
PastEnd(index, entries) == IF index <= Len(entries) THEN index + 1 ELSE index

ReadDyn ==
  /\ status = "walking"
  /\ LET needed == Strptr(dynstr, ReadEntry.d_val)
     IN  \/ /\ Ends(ReadEntry)
            /\ status' = "loaded"
            /\ dyn_entry' = ReadEntry
            /\ UNCHANGED <<i, depends>>
         \/ /\ ~Ends(ReadEntry) /\ ReadEntry.d_tag # "DT_NEEDED"
            /\ i' = PastEnd(i, Dyns)
            /\ dyn_entry' = ReadEntry
            /\ UNCHANGED <<status, depends>>
         \/ /\ ~Ends(ReadEntry) /\ ReadEntry.d_tag = "DT_NEEDED"
            /\ needed # None /\ Len(depends) < MaxDepends
            /\ depends' = Append(depends, needed)
            /\ i' = PastEnd(i, Dyns)
            /\ dyn_entry' = ReadEntry
            /\ UNCHANGED status
         \/ /\ ~Ends(ReadEntry) /\ ReadEntry.d_tag = "DT_NEEDED"
            /\ needed = None \/ Len(depends) = MaxDepends
            /\ status' = IF needed = None THEN "crashed" ELSE "overrun"
            /\ UNCHANGED <<i, dyn_entry, depends>>
  /\ UNCHANGED <<elf, is_primary, symtab, count, dynstr, dynamic, sym, given, demVars>>

------------------------------------------------------------------------------
(* symtab_elf_foreach. *)

FirstAfterNull == 2
First == 1

BeginForeach ==
  /\ status = "loaded"
  /\ status' = "listing"
  /\ i' = First
  /\ UNCHANGED <<elf, is_primary, symtab, count, dynstr, dynamic, dyn_entry, sym, depends,
                 given, demVars>>

Syms == elf.sections[symtab].syms

(* gelf_getsym, which past the end leaves the symbol as it is. *)
ReadSymbol == IF i <= Len(Syms) THEN Syms[i] ELSE sym
NameOf(s) == Strptr(elf.sections[symtab].sh_link, s.st_name)

GetSymbol ==
  /\ status = "listing"
  /\ i <= count
  /\ sym' = ReadSymbol
  /\ IF NameOf(ReadSymbol) = None
     THEN status' = "crashed" /\ UNCHANGED demVars
     ELSE status' = "demangling" /\ TryDemangle(NameOf(ReadSymbol))
  /\ UNCHANGED <<elf, is_primary, symtab, count, dynstr, dynamic, i, dyn_entry, depends,
                 given>>

DemangleOn ==
  /\ status = "demangling"
  /\ CopyChar \/ EndCopy
  /\ UNCHANGED elfVars

(* The callback. *)
GiveSymbol ==
  /\ status = "demangling"
  /\ job = "done"
  /\ given' = Append(given, [addr |-> sym.st_value, size |-> sym.st_size,
                             name |-> NameOf(sym),
                             name_demangled |-> WithoutPrefix(demangled)])
  /\ i' = i + 1
  /\ status' = "listing"
  /\ UNCHANGED <<elf, is_primary, symtab, count, dynstr, dynamic, dyn_entry, sym, depends,
                 demVars>>

EndForeach ==
  /\ status = "listing"
  /\ i > count
  /\ Stops("listed")

Init ==
  /\ elf \in ElfFile
  /\ is_primary \in BOOLEAN
  /\ status = "find_symtab"
  /\ symtab = None /\ count = 0 /\ dynstr = None /\ dynamic = None
  /\ i = 1
  /\ dyn_entry = elf.stale_dyn
  /\ sym = elf.stale_sym
  /\ depends = <<>>
  /\ given = <<>>
  /\ DemangleInit

Next ==
  \/ FindSymtab
  \/ FindDynstr
  \/ FindDynamic
  \/ ReadDyn
  \/ BeginForeach
  \/ GetSymbol
  \/ DemangleOn
  \/ GiveSymbol
  \/ EndForeach

Spec == Init /\ [][Next]_vars /\ WF_vars(Next)

------------------------------------------------------------------------------
(* Properties. *)

TypeOK ==
  /\ FileType(elf)
  /\ is_primary \in BOOLEAN
  /\ status \in Statuses
  /\ \A section \in {symtab, dynstr, dynamic} : section = None \/ section \in DOMAIN elf.sections
  /\ count \in Nat
  /\ i \in Nat \ {0}
  /\ dyn_entry \in Dyn
  /\ sym \in Sym
  /\ depends \in Seq(Mangled) /\ Len(depends) <= MaxDepends
  /\ given \in Seq([addr : Nat, size : Nat, name : Mangled, name_demangled : Text])
  /\ DemangleTypeOK

(* A file as a linker makes it. *)
Named == \A type \in SectionTypes \ {"other"} : ~Unnamed(type)
OnlyOne(type, name) == Cardinality(Found(type, name)) = 1
EndsIn(entries) == \E k \in 1 .. Len(entries) : entries[k].d_tag = "DT_NULL"
TheDyns == elf.sections[Max(Found("SHT_DYNAMIC", DotDynamic))].dyns
Needs == {k \in 1 .. Len(TheDyns) :
            /\ TheDyns[k].d_tag = "DT_NEEDED"
            /\ \A j \in 1 .. k : TheDyns[j].d_tag # "DT_NULL"}
NeededName(k) ==
  Strptr(Max(Found("SHT_STRTAB", DotDynstr)), TheDyns[k].d_val)
LinkedSoundly ==
  /\ Named
  /\ OnlyOne("SHT_STRTAB", DotDynstr) /\ OnlyOne("SHT_DYNAMIC", DotDynamic)
  /\ EndsIn(TheDyns)
  /\ \A k \in Needs : NeededName(k) # None

TheSymtab == elf.sections[Max(Found("SHT_SYMTAB", DotSymtab))]
Stripped == Found("SHT_SYMTAB", DotSymtab) = {}
SymbolsSound ==
  ~Stripped =>
    /\ TheSymtab.sh_entsize = SymSize
    /\ \A k \in 1 .. Len(TheSymtab.syms) :
         Strptr(TheSymtab.sh_link, TheSymtab.syms[k].st_name) # None

(* When symtab_elf_init is through, depends lists what the dynamic linker  *)
(* will load for this file: the DT_NEEDED entries in front of DT_NULL, all *)
(* of them and in their order (symtab_elf.c:62-71).                        *)
DependsAreNeeded ==
  status = "loaded" /\ EndsIn(TheDyns) =>
    /\ Len(depends) = Cardinality(Needs)
    /\ \A k \in Needs : depends[Cardinality({j \in Needs : j <= k})] = NeededName(k)

(* The callback is given every symbol of .symtab once, in its order, with  *)
(* the value, size and name the file has for it, and nothing for a         *)
(* stripped dependency (symtab_elf.c:46-54, 77-90).                        *)
SymbolsGiven ==
  status = "listed" /\ SymbolsSound =>
    IF Stripped THEN given = <<>>
    ELSE /\ Len(given) = Len(TheSymtab.syms)
         /\ \A k \in 1 .. Len(given) :
              LET s == TheSymtab.syms[k]
              IN  /\ given[k].addr = s.st_value
                  /\ given[k].size = s.st_size
                  /\ given[k].name = Strptr(TheSymtab.sh_link, s.st_name)

(* The name shown for a symbol is the demangled one, rewritten, without    *)
(* its prefix; or the mangled one (demangle.c:28-50).                      *)
RewritesEveryClosing ==
  \A k \in 1 .. Len(given) :
    LET text == CplusDemangle[given[k].name]
    IN  IF text = None
        THEN given[k].name_demangled = WithoutPrefix(given[k].name)
        ELSE \E result \in {given[k].name_demangled} \cup
                             {<<c>> \o given[k].name_demangled : c \in Prefix} :
               /\ Rewrites(text, result)
               /\ given[k].name_demangled = WithoutPrefix(result)

(* No file that a linker made stops the program, other than a primary      *)
(* library that is stripped or a file that needs more libraries than       *)
(* depends has room for; a stripped dependency does not                    *)
(* (symtab_elf.c:38-60, 69).                                               *)
SoundFileLoads ==
  LinkedSoundly /\ SymbolsSound =>
    /\ status # "crashed"
    /\ status = "aborted" => is_primary /\ ~OnlyOne("SHT_SYMTAB", DotSymtab)
    /\ status = "overrun" => Cardinality(Needs) > MaxDepends

(* Both loops end for every file whose .dynamic ends in DT_NULL: the first *)
(* looks for nothing else (symtab_elf.c:62-71, 77).                        *)
Over == status \in {"listed", "aborted", "crashed", "overrun"}
ElfTerminates == (OnlyOne("SHT_DYNAMIC", DotDynamic) => EndsIn(TheDyns)) ~> Over
==============================================================================
