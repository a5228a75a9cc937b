---------------------------- MODULE MachOSymbols ----------------------------
(***************************************************************************)
(* symtab_macho_foreach and symtab_macho_find_reloc_sym_for_addr           *)
(* (symtab_macho.c) on a loaded image, and the part of recurse_typeinfo    *)
(* (main.cc:77-114) that asks by them what a typeinfo object is: the       *)
(* symbol that dyld binds to its first word names the vtable of its class. *)
(*                                                                         *)
(* The table dbi that get_dyld_bind_info filled is a part of the image.    *)
(* Words are 32 bits wide, Word stands for 2^32.                           *)
(***************************************************************************)
EXTENDS Integers, Sequences, FiniteSets

CONSTANTS
  Word,        \* 2^32
  SymName,     \* symbol names, the empty one too: what n_strx = 0 stands for
  Unprefixed,  \* a name without its leading underscore, if it has one
  Typeinfo,    \* unprefixed names that start with _ZTI
  VtableKind,  \* kind by unprefixed name, for those the expression matches
  Image,       \* loaded images, see ImageType
  None

UInt == 0 .. Word - 1

(* The four fields of n_type; other: no value of N_TYPE that nlist.h names. *)
NlistTypes == {"undf", "abs", "sect", "pbud", "indr", "other"}
Nlist == [name : SymName, stab : BOOLEAN, ext : BOOLEAN, type : NlistTypes, value : UInt]

RelocationInfo ==
  [r_address : UInt, r_symbolnum : Nat, r_extern : {0, 1},
   r_type : 0 .. 15, r_length : 0 .. 3]

(* What the lookup reads of a struct dyld_bind_info; both numbers have 64  *)
(* bits in the code. No name: a bind before the first name was set.        *)
BindInfo == [address : Nat, addend : Nat, symbolname : SymName \cup {None}]

(* first_vmaddr: where the first segment is, which the code does not keep. *)
ImageType(m) ==
  m \in [nlists : Seq(Nlist), ext_relocs : Seq(RelocationInfo),
         has_dyld_info : BOOLEAN, dbi : Seq(BindInfo), first_vmaddr : UInt]

ASSUME WordAssumption == Word \in Nat \ {0}
ASSUME UnprefixedAssumption == Unprefixed \in [SymName -> SymName]
ASSUME NamesAssumption == Typeinfo \subseteq SymName /\ DOMAIN VtableKind \subseteq SymName
ASSUME NoneAssumption == None \notin SymName
ASSUME ImageAssumption == \A m \in Image : ImageType(m)

VARIABLES
  image,   \* read only
  mode,    \* "listing", "idle", "relocs", "binds" or "failed"
  i,       \* the loop index of the mode, from 1
  given,   \* the symbols the callback of symtab_foreach was given
  addr,    \* the typeinfo object asked about
  answer   \* what the last lookup said: see Answer

vars == <<image, mode, i, given, addr, answer>>

Modes == {"listing", "idle", "relocs", "binds", "failed"}
Kinds == {VtableKind[name] : name \in DOMAIN VtableKind} \cup {"?"}

------------------------------------------------------------------------------
(* nlist entries. *)

(* macho_get_sym_addr, and whether none of its assertions fails. *)
HasAddr(sym) == sym.stab \/ sym.type \notin {"indr", "other"}
SymAddr(sym) == IF sym.stab \/ sym.type \in {"undf", "pbud"} THEN 0 ELSE sym.value

Fails ==
  /\ mode' = "failed"
  /\ UNCHANGED <<image, i, given, addr, answer>>

(* Definitions named for a fault (here and below) are wrong variants of    *)
(* the definition that follows: the runs' properties tell them from it.    *)
SkippedIfExternal(sym) == sym.ext
SkippedIfNotIndirect(sym) == (sym.ext \/ sym.stab) /\ sym.type # "indr"

(* External symbols and debug entries. *)
Skipped(sym) == sym.ext \/ sym.stab

ListSymbol ==
  /\ mode = "listing"
  /\ i <= Len(image.nlists)
  /\ LET sym == image.nlists[i]
     IN  \/ /\ Skipped(sym)
            /\ i' = i + 1
            /\ UNCHANGED <<image, mode, given, addr, answer>>
         \/ /\ ~Skipped(sym) /\ HasAddr(sym) /\ sym.type # "indr"
            /\ given' = Append(given, [addr |-> SymAddr(sym), name |-> Unprefixed[sym.name]])
            /\ i' = i + 1
            /\ UNCHANGED <<image, mode, addr, answer>>
         \/ /\ ~Skipped(sym) /\ ~(HasAddr(sym) /\ sym.type # "indr")
            /\ Fails

EndListing ==
  /\ mode = "listing"
  /\ i > Len(image.nlists)
  /\ mode' = "idle"
  /\ UNCHANGED <<image, i, given, addr, answer>>

------------------------------------------------------------------------------
(* symtab_macho_find_reloc_sym_for_addr. *)

(* recurse_typeinfo asks about typeinfo symbols it was given, imports left *)
(* aside.                                                                  *)
AskAbout ==
  /\ mode = "idle"
  /\ \E k \in 1 .. Len(given) :
       /\ given[k].name \in Typeinfo
       /\ given[k].addr # 0
       /\ addr' = given[k].addr
  /\ mode' = "relocs"
  /\ i' = 1
  /\ answer' = None
  /\ UNCHANGED <<image, given>>

(* The kind recurse_typeinfo makes of the name; an unexpected one, or none *)
(* at all, leaves a question mark.                                         *)
Found(name, value) ==
  /\ answer' = [addr |-> value, name |-> name,
                kind |-> IF name \in DOMAIN VtableKind THEN VtableKind[name] ELSE "?"]
  /\ mode' = "idle"
  /\ UNCHANGED <<image, i, given, addr>>

NotFound ==
  /\ answer' = [addr |-> 0, name |-> None, kind |-> "?"]
  /\ mode' = "idle"
  /\ UNCHANGED <<image, i, given, addr>>

RelocMatchesLocal(reloc) ==
  reloc.r_address = addr /\ reloc.r_type = 0 /\ reloc.r_length = 2

(* Of an external relocation r_symbolnum is a symbol; R_ABS is 0; a length *)
(* of 2 is that of a pointer.                                              *)
RelocMatches(reloc) ==
  /\ reloc.r_address = addr
  /\ reloc.r_extern = 1
  /\ reloc.r_type = 0
  /\ reloc.r_length = 2

TryReloc ==
  /\ mode = "relocs"
  /\ i <= Len(image.ext_relocs)
  /\ LET reloc == image.ext_relocs[i]
         index == reloc.r_symbolnum + 1
         known == index <= Len(image.nlists)
     IN  \/ /\ ~RelocMatches(reloc)
            /\ i' = i + 1
            /\ UNCHANGED <<image, mode, given, addr, answer>>
         \/ /\ RelocMatches(reloc) /\ known /\ HasAddr(image.nlists[index])
            /\ Found(Unprefixed[image.nlists[index].name], SymAddr(image.nlists[index]))
         \/ /\ RelocMatches(reloc) /\ (known => ~HasAddr(image.nlists[index]))
            /\ Fails

EndRelocs ==
  /\ mode = "relocs"
  /\ i > Len(image.ext_relocs)
  /\ IF image.has_dyld_info
     THEN /\ mode' = "binds"
          /\ i' = 1
          /\ UNCHANGED <<image, given, addr, answer>>
     ELSE NotFound

BoundValueUncut(info) == info.address + info.addend
BoundValue(info) == (info.address + info.addend) % Word

(* A bind without a name is a null pointer looked into. *)
TryBind ==
  /\ mode = "binds"
  /\ i <= Len(image.dbi)
  /\ LET info == image.dbi[i]
     IN  \/ /\ info.address # addr
            /\ i' = i + 1
            /\ UNCHANGED <<image, mode, given, addr, answer>>
         \/ /\ info.address = addr /\ info.symbolname # None
            /\ Found(Unprefixed[info.symbolname], BoundValue(info))
         \/ /\ info.address = addr /\ info.symbolname = None
            /\ Fails

EndBinds ==
  /\ mode = "binds"
  /\ i > Len(image.dbi)
  /\ NotFound

Init ==
  /\ image \in Image
  /\ mode = "listing"
  /\ i = 1
  /\ given = <<>>
  /\ addr = 0
  /\ answer = None

Next ==
  \/ ListSymbol
  \/ EndListing
  \/ AskAbout
  \/ TryReloc
  \/ EndRelocs
  \/ TryBind
  \/ EndBinds

Spec == Init /\ [][Next]_vars

------------------------------------------------------------------------------
(* Properties. *)

Answer == [addr : UInt, name : SymName \cup {None}, kind : Kinds]

TypeOK ==
  /\ image \in Image
  /\ mode \in Modes
  /\ i \in Nat \ {0}
  /\ given \in Seq([addr : UInt, name : SymName])
  /\ addr \in UInt
  /\ answer = None \/ answer \in Answer

LocalSymbols == {k \in 1 .. Len(image.nlists) : ~image.nlists[k].ext /\ ~image.nlists[k].stab}

(* The loop of symtab_macho_foreach has given the callback each local      *)
(* symbol so far once, in the order of the table, debug entries and        *)
(* external symbols left out, and with address 0 exactly what the image    *)
(* does not define (symtab_macho.c:499-542). The lookups that follow find  *)
(* them all given.                                                         *)
GivesLocalSymbols ==
  mode # "failed" =>
    LET come_by == IF mode = "listing" THEN i - 1 ELSE Len(image.nlists)
    IN  /\ Len(given) = Cardinality(LocalSymbols \cap (1 .. come_by))
        /\ \A k \in LocalSymbols \cap (1 .. come_by) :
             LET sym == image.nlists[k]
                 entry == given[Cardinality(LocalSymbols \cap (1 .. k))]
             IN  /\ entry.name = Unprefixed[sym.name]
                 /\ entry.addr = (IF sym.type \in {"abs", "sect"} THEN sym.value ELSE 0)

(* What dyld does to the image: each external relocation of a pointer and  *)
(* each bind stores the address of a symbol. r_address is the offset from  *)
(* the vmaddr of the first LC_SEGMENT (loader.h:979-980).                  *)
RelocWrites ==
  {[at |-> image.first_vmaddr + image.ext_relocs[k].r_address,
    index |-> image.ext_relocs[k].r_symbolnum + 1] :
     k \in {j \in 1 .. Len(image.ext_relocs) :
              /\ image.ext_relocs[j].r_extern = 1
              /\ image.ext_relocs[j].r_type = 0
              /\ image.ext_relocs[j].r_length = 2}}
Writes ==
  {[at |-> w.at, name |-> image.nlists[w.index].name] :
     w \in {v \in RelocWrites : v.index <= Len(image.nlists)}} \cup
  {[at |-> image.dbi[k].address, name |-> image.dbi[k].symbolname] :
     k \in {j \in 1 .. Len(image.dbi) : image.has_dyld_info}}

StoredKind(a) ==
  LET names == {Unprefixed[w.name] : w \in {v \in Writes : v.at = a /\ v.name # None}}
      known == names \cap DOMAIN VtableKind
  IN  IF known = {} THEN "?" ELSE VtableKind[CHOOSE name \in known : TRUE]

(* No two writes go to one place. *)
OnePerPlace == \A v, w \in Writes : v.at = w.at => v = w

(* recurse_typeinfo takes a typeinfo object for what it is at run time:    *)
(* the kind is that of the vtable dyld stores a pointer to in its first    *)
(* word, found in old relocations or in bind information, whatever else is *)
(* relocated there or nearby. Images are linked at address 0.              *)
KindIsWhatDyldStores ==
  image.first_vmaddr = 0 /\ OnePerPlace /\ answer # None =>
    answer.kind = StoredKind(addr)

(* The same for images linked at any address, as loader.h:979-980 has it.  *)
KindAtAnyBase ==
  OnePerPlace /\ answer # None => answer.kind = StoredKind(addr)

(* The assertions and the dereferenced name stop the program at no image   *)
(* in which local symbols are of the known direct types, relocated symbols *)
(* are in the table and not indirect, and binds have names.                *)
SoundImageAnswered ==
  mode = "failed" =>
    \/ \E k \in 1 .. Len(image.nlists) :
         LET sym == image.nlists[k]
         IN  ~sym.ext /\ ~sym.stab /\ sym.type \in {"indr", "other"}
    \/ \E w \in RelocWrites :
         \/ w.index > Len(image.nlists)
         \/ image.nlists[w.index].type \in {"indr", "other"}
    \/ \E k \in 1 .. Len(image.dbi) : image.dbi[k].symbolname = None
==============================================================================
