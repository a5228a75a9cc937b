--------------------------- MODULE SymtabElfProofs ---------------------------
(***************************************************************************)
(* Proofs about SymtabElf for every set of files, every set of strings and *)
(* every size of depends.                                                  *)
(***************************************************************************)
EXTENDS SymtabElf, DemangleProofs, Counting

------------------------------------------------------------------------------
(* Sets of numbers. *)

(* A finite set of numbers has a greatest one, which Max picks.            *)
LEMMA MaxOfFinite ==
  ASSUME NEW S, S \subseteq Nat, IsFiniteSet(S), S # {}
  PROVE  Max(S) \in S /\ \A y \in S : y <= Max(S)
<1> DEFINE Above(x) == {y \in S : y > x}
           T == {Above(x) : x \in S}
<1>1. IsWellFoundedOn(StrictSubsetOrdering(S), FiniteSubsetsOf(S))
  BY FS_StrictSubsetOrderingWellFounded
<1>2. T \subseteq FiniteSubsetsOf(S) /\ T # {}
  <2>1. \A x \in S : Above(x) \in SUBSET S
    OBVIOUS
  <2>2. \A U \in SUBSET S : IsFiniteSet(U)
    BY FS_Subset
  <2> QED
    BY <2>1, <2>2 DEF FiniteSubsetsOf
<1>3. PICK U \in T : \A V \in T : <<V, U>> \notin StrictSubsetOrdering(S)
  BY <1>1, <1>2, WFMin
<1>4. PICK x \in S : U = Above(x)
  OBVIOUS
<1>5. \A y \in S : y <= x
  <2> SUFFICES ASSUME NEW y \in S, ~(y <= x)
               PROVE  FALSE
    OBVIOUS
  <2>0. y > x
    <3>1. x \in Nat /\ y \in Nat
      OBVIOUS
    <3> QED
      BY <3>1
  <2>1. Above(y) \subseteq Above(x) /\ y \in Above(x) /\ y \notin Above(y)
    <3>1. x \in Nat /\ y \in Nat /\ \A z \in S : z \in Nat
      OBVIOUS
    <3>2. ~(y > y) /\ \A z \in Nat : z > y => z > x
      BY <2>0, <3>1
    <3> QED
      BY <2>0, <3>1, <3>2
  <2>2. Above(y) \in T
    OBVIOUS
  <2>3. <<Above(y), Above(x)>> \in StrictSubsetOrdering(S)
    BY <2>1 DEF StrictSubsetOrdering
  <2> QED
    BY <1>3, <1>4, <2>2, <2>3
<1>6. \E z \in S : \A y \in S : z >= y
  BY <1>5
<1>7. Max(S) \in S /\ \A y \in S : Max(S) >= y
  BY <1>6 DEF Max
<1> QED
  BY <1>7

LEMMA DivNat ==
  ASSUME NEW a \in Nat, NEW b \in Nat \ {0}
  PROVE  a \div b \in Nat
OBVIOUS

------------------------------------------------------------------------------
(* What does not change while the file does not.                           *)

LEMMA FileKept ==
  ASSUME UNCHANGED <<elf, is_primary>>
  PROVE  /\ \A ndx, offset : Strptr(ndx, offset)' = Strptr(ndx, offset)
         /\ \A type : Unnamed(type)' <=> Unnamed(type)
         /\ \A type, name : Found(type, name)' = Found(type, name)
         /\ \A type, name : OnlyOne(type, name)' <=> OnlyOne(type, name)
         /\ SymtabAccepted' <=> SymtabAccepted
         /\ TheDyns' = TheDyns
         /\ Needs' = Needs
         /\ \A k : NeededName(k)' = NeededName(k)
         /\ LinkedSoundly' <=> LinkedSoundly
         /\ TheSymtab' = TheSymtab
         /\ Stripped' <=> Stripped
         /\ SymbolsSound' <=> SymbolsSound
<1>1. \A ndx, offset : Strptr(ndx, offset)' = Strptr(ndx, offset)
  BY DEF Strptr
<1>2. \A k : SectionName(k)' = SectionName(k)
  BY DEF SectionName, Strptr
<1>3. \A type : OfType(type)' = OfType(type)
  BY DEF OfType
<1>4. \A type, name : Found(type, name)' = Found(type, name)
  BY DEF Found, SectionName, Strptr, OfType
<1>5. \A type : Unnamed(type)' <=> Unnamed(type)
  BY DEF Unnamed, SectionName, Strptr, OfType
<1>6. \A type, name : OnlyOne(type, name)' <=> OnlyOne(type, name)
  BY <1>4 DEF OnlyOne
<1>7. SymtabAccepted' <=> SymtabAccepted
  BY <1>4 DEF SymtabAccepted, CountIsExact
<1>8. TheDyns' = TheDyns
  BY <1>4 DEF TheDyns
<1>9. Needs' = Needs
  BY <1>8 DEF Needs
<1>10. \A k : NeededName(k)' = NeededName(k)
  BY <1>1, <1>4, <1>8 DEF NeededName, Strptr
<1>11. LinkedSoundly' <=> LinkedSoundly
  BY <1>5, <1>6, <1>8, <1>9, <1>10 DEF LinkedSoundly, Named, EndsIn
<1>12. TheSymtab' = TheSymtab /\ (Stripped' <=> Stripped)
  BY <1>4 DEF TheSymtab, Stripped
<1>13. SymbolsSound' <=> SymbolsSound
  BY <1>1, <1>12 DEF SymbolsSound, Strptr
<1> QED
  BY <1>1, <1>4, <1>5, <1>6, <1>7, <1>8, <1>9, <1>10, <1>11, <1>12, <1>13

------------------------------------------------------------------------------
(* The file. *)

LEMMA FoundFacts ==
  ASSUME FileType(elf), NEW type, NEW name
  PROVE  /\ Found(type, name) \subseteq DOMAIN elf.sections
         /\ Found(type, name) # {} =>
              /\ Max(Found(type, name)) \in DOMAIN elf.sections
              /\ SectionType(elf.sections[Max(Found(type, name))])
              /\ elf.sections[Max(Found(type, name))].sh_type = type
         /\ OnlyOne(type, name) => Found(type, name) # {}
<1>1. Len(elf.sections) \in Nat /\ DOMAIN elf.sections = 1 .. Len(elf.sections)
  BY DEF FileType
<1>2. Found(type, name) \subseteq DOMAIN elf.sections
  BY DEF Found, OfType
<1>3. \A k \in Found(type, name) : elf.sections[k].sh_type = type
  BY DEF Found, OfType
<1>4. IsFiniteSet(DOMAIN elf.sections) /\ DOMAIN elf.sections \subseteq Nat
  <2>1. 1 \in Int /\ Len(elf.sections) \in Int
    BY <1>1
  <2>2. IsFiniteSet(1 .. Len(elf.sections))
    BY <2>1, FS_Interval
  <2> QED
    BY <1>1, <2>2
<1>5. ASSUME Found(type, name) # {}
      PROVE  Max(Found(type, name)) \in Found(type, name)
  <2>1. IsFiniteSet(Found(type, name)) /\ Found(type, name) \subseteq Nat
    BY <1>2, <1>4, FS_Subset
  <2> QED
    BY <1>5, <2>1, MaxOfFinite
<1>6. \A k \in DOMAIN elf.sections : SectionType(elf.sections[k])
  BY DEF FileType
<1>7. OnlyOne(type, name) => Found(type, name) # {}
  <2>1. Cardinality({}) = 0
    BY FS_EmptySet
  <2> QED
    BY <2>1 DEF OnlyOne
<1> QED
  BY <1>2, <1>3, <1>5, <1>6, <1>7

LEMMA StrptrIn ==
  ASSUME FileType(elf), NEW ndx, NEW offset
  PROVE  Strptr(ndx, offset) # None => Strptr(ndx, offset) \in Mangled
BY DEF FileType, SectionType, Strptr

LEMMA TextsOnly ==
  /\ Mangled \subseteq Text
  /\ None \notin Mangled
BY MangledAssumption, NoneAssumption

(* At most a prefix is cut off. *)
LEMMA WithoutPrefixFacts ==
  ASSUME NEW text \in Text
  PROVE  /\ WithoutPrefix(text) \in Text
         /\ text \in {WithoutPrefix(text)} \cup {<<c>> \o WithoutPrefix(text) : c \in Prefix}
<1>1. text \in Seq(Char)
  BY DEF Text
<1>2. CASE text # <<>> /\ Head(text) \in Prefix
  <2>1. WithoutPrefix(text) = Tail(text)
    BY <1>2 DEF WithoutPrefix
  <2>2. Tail(text) \in Seq(Char) /\ Head(text) \in Char
    BY <1>1, <1>2
  <2>3. text = <<Head(text)>> \o Tail(text)
    BY <1>1, <1>2
  <2> QED
    BY <1>2, <2>1, <2>2, <2>3 DEF Text
<1>3. CASE ~(text # <<>> /\ Head(text) \in Prefix)
  BY <1>3 DEF WithoutPrefix
<1> QED
  BY <1>2, <1>3

------------------------------------------------------------------------------
(* The invariant. *)

Finding == {"find_symtab", "find_dynstr", "find_dynamic"}
InForeach == {"listing", "demangling", "listed"}
AfterDynamic == {"walking", "loaded"} \cup InForeach
AfterDynstr == {"find_dynamic"} \cup AfterDynamic
AfterSymtab == {"find_dynstr"} \cup AfterDynstr

(* The sections are those the file has; until they are all found nothing   *)
(* is read.                                                                *)
Searched ==
  /\ status \in AfterSymtab =>
       IF Stripped THEN symtab = None /\ count = 0
       ELSE /\ symtab = Max(Found("SHT_SYMTAB", DotSymtab))
            /\ TheSymtab.sh_entsize # 0
            /\ count = TheSymtab.sh_size \div TheSymtab.sh_entsize
  /\ status \in AfterDynstr =>
       OnlyOne("SHT_STRTAB", DotDynstr) /\ dynstr = Max(Found("SHT_STRTAB", DotDynstr))
  /\ status \in AfterDynamic =>
       OnlyOne("SHT_DYNAMIC", DotDynamic) /\ dynamic = Max(Found("SHT_DYNAMIC", DotDynamic))
  /\ status \in Finding => i = 1 /\ depends = <<>>
  /\ status \in Finding \cup {"walking", "loaded"} => given = <<>>

(* The walk over .dynamic is at its entry i, and depends lists the needed  *)
(* entries in front of it.                                                 *)
Rank(k) == Cardinality(Needs \cap (1 .. k))
Walked ==
  status = "walking" /\ EndsIn(TheDyns) =>
    /\ i <= Len(TheDyns)
    /\ \A k \in 1 .. i - 1 : TheDyns[k].d_tag # "DT_NULL"
    /\ Len(depends) = Rank(i - 1)
    /\ \A k \in Needs : k <= i - 1 => depends[Rank(k)] = NeededName(k)

(* The callback has been given the symbols in front of i, and sym is the   *)
(* one demangled.                                                          *)
GivenIs(k) ==
  LET s == TheSymtab.syms[k]
  IN  /\ given[k].addr = s.st_value
      /\ given[k].size = s.st_size
      /\ given[k].name = Strptr(TheSymtab.sh_link, s.st_name)
Listed ==
  /\ status \in InForeach /\ Stripped => given = <<>>
  /\ status = "demangling" => ~Stripped
  /\ status \in InForeach /\ ~Stripped /\ SymbolsSound =>
       /\ Len(given) = i - 1
       /\ i <= Len(TheSymtab.syms) + 1
       /\ \A k \in 1 .. i - 1 : GivenIs(k)
       /\ status = "demangling" => i <= Len(TheSymtab.syms) /\ sym = TheSymtab.syms[i]
       /\ status = "listed" => i > Len(TheSymtab.syms)

(* What the call of try_demangle_noprefix is for, and what it has come to. *)
Answered ==
  status = "demangling" =>
    /\ NameOf(sym) # None
    /\ job \in {"copying", "done"}
    /\ job = "done" => Answers(NameOf(sym), demangled)
    /\ job = "copying" =>
         CplusDemangle[NameOf(sym)] # None /\ str_in = CplusDemangle[NameOf(sym)]

ElfInv ==
  /\ TypeOK
  /\ DemangleInv
  /\ Searched
  /\ Walked
  /\ Listed
  /\ Answered
  /\ DependsAreNeeded
  /\ RewritesEveryClosing
  /\ SoundFileLoads

(* Everything but the two loops' progress, for a step that keeps given.    *)
LEMMA FileTypeKept ==
  ASSUME FileType(elf), UNCHANGED elf
  PROVE  FileType(elf)'
BY DEF FileType, SectionType

LEMMA RewritesKept ==
  ASSUME RewritesEveryClosing, UNCHANGED given
  PROVE  RewritesEveryClosing'
BY DEF RewritesEveryClosing

(* A stop of symtab_elf_init, or of the walk over .dynamic.                *)
LEMMA StopStep ==
  ASSUME ElfInv, SoundFileLoads',
         status' \in {"aborted", "crashed", "overrun"},
         UNCHANGED <<elf, is_primary, symtab, count, dynstr, dynamic, i, dyn_entry, sym,
                     depends, given, demVars>>
  PROVE  ElfInv'
<1>1. FileType(elf)'
  BY FileTypeKept DEF ElfInv, TypeOK
<1>2. DemangleInv'
  BY DemangleStutter DEF ElfInv
<1>3. TypeOK'
  BY <1>1, <1>2 DEF ElfInv, TypeOK, Statuses, DemangleInv
<1>4. Searched' /\ Walked' /\ Listed' /\ Answered' /\ DependsAreNeeded'
  BY DEF Searched, Walked, Listed, Answered, DependsAreNeeded, Finding, InForeach,
         AfterDynamic, AfterDynstr, AfterSymtab
<1>5. RewritesEveryClosing'
  BY RewritesKept DEF ElfInv
<1> QED
  BY <1>2, <1>3, <1>4, <1>5 DEF ElfInv

LEMMA FindSymtabStep ==
  ASSUME ElfInv, FindSymtab
  PROVE  ElfInv'
<1> DEFINE found == Found("SHT_SYMTAB", DotSymtab)
           shdr == elf.sections[Max(found)]
<1>1. FileType(elf) /\ status = "find_symtab" /\ given = <<>> /\ depends = <<>> /\ i = 1
  BY DEF ElfInv, TypeOK, Searched, FindSymtab, Finding
<1>2. /\ UNCHANGED <<elf, is_primary>>
      /\ UNCHANGED <<dynstr, dynamic, i, dyn_entry, sym, depends, given, demVars>>
  BY DEF FindSymtab, Stops
<1>3. CASE Unnamed("SHT_SYMTAB") /\ Stops("crashed")
  <2>1. ~LinkedSoundly
    BY <1>3 DEF LinkedSoundly, Named, SectionTypes
  <2>2. SoundFileLoads'
    BY <1>2, <2>1, FileKept DEF SoundFileLoads
  <2> QED
    BY <1>3, <2>2, StopStep DEF Stops
<1>4. CASE ~SymtabAccepted /\ Stops("aborted")
  <2>1. is_primary /\ ~OnlyOne("SHT_SYMTAB", DotSymtab)
    BY <1>4 DEF SymtabAccepted, CountIsExact, OnlyOne
  <2>2. SoundFileLoads'
    BY <1>2, <1>4, <2>1, FileKept DEF SoundFileLoads, Stops
  <2> QED
    BY <1>4, <2>2, StopStep DEF Stops
<1>5. CASE found # {} /\ shdr.sh_entsize = 0 /\ Stops("crashed")
  <2>1. ~SymbolsSound
    BY <1>5, LimitAssumption DEF SymbolsSound, Stripped, TheSymtab
  <2>2. SoundFileLoads'
    BY <1>2, <2>1, FileKept DEF SoundFileLoads
  <2> QED
    BY <1>5, <2>2, StopStep DEF Stops
<1>6. CASE /\ found # {} => shdr.sh_entsize # 0
           /\ symtab' = IF found # {} THEN Max(found) ELSE None
           /\ count' = IF found # {} THEN shdr.sh_size \div shdr.sh_entsize ELSE 0
           /\ status' = "find_dynstr"
  <2>1. FileType(elf)' /\ DemangleInv' /\ RewritesEveryClosing'
    BY <1>2, FileTypeKept, DemangleStutter, RewritesKept DEF ElfInv, TypeOK
  <2>2. symtab' = None \/ symtab' \in DOMAIN elf.sections
    BY <1>1, <1>6, FoundFacts
  <2>3. count' \in Nat
    <3>1. CASE found = {}
      BY <1>6, <3>1
    <3>2. CASE found # {}
      <4>1. shdr.sh_size \in Nat /\ shdr.sh_entsize \in Nat \ {0}
        BY <1>1, <1>6, <3>2, FoundFacts DEF SectionType
      <4> QED
        BY <1>6, <3>2, <4>1, DivNat
    <3> QED
      BY <3>1, <3>2
  <2>4. TypeOK'
    BY <1>2, <1>6, <2>1, <2>2, <2>3 DEF ElfInv, TypeOK, Statuses, DemangleInv
  <2>5. Searched'
    BY <1>1, <1>2, <1>6, FileKept DEF Searched, Stripped, TheSymtab, Finding, InForeach,
       AfterDynamic, AfterDynstr, AfterSymtab
  <2>6. Walked' /\ Listed' /\ Answered' /\ DependsAreNeeded' /\ SoundFileLoads'
    BY <1>6 DEF Walked, Listed, Answered, DependsAreNeeded, SoundFileLoads, InForeach
  <2> QED
    BY <2>1, <2>4, <2>5, <2>6 DEF ElfInv
<1> QED
  BY <1>3, <1>4, <1>5, <1>6 DEF FindSymtab

LEMMA FindDynstrStep ==
  ASSUME ElfInv, FindDynstr
  PROVE  ElfInv'
<1> DEFINE found == Found("SHT_STRTAB", DotDynstr)
<1>1. FileType(elf) /\ status = "find_dynstr" /\ given = <<>> /\ depends = <<>> /\ i = 1
  BY DEF ElfInv, TypeOK, Searched, FindDynstr, Finding
<1>2. /\ UNCHANGED <<elf, is_primary>>
      /\ UNCHANGED <<symtab, count, dynamic, i, dyn_entry, sym, depends, given, demVars>>
  BY DEF FindDynstr, Stops
<1>3. CASE \/ Unnamed("SHT_STRTAB") /\ Stops("crashed")
           \/ Cardinality(found) # 1 /\ Stops("aborted")
  <2>1. ~LinkedSoundly
    BY <1>3 DEF LinkedSoundly, Named, SectionTypes, OnlyOne
  <2>2. SoundFileLoads'
    BY <1>2, <2>1, FileKept DEF SoundFileLoads
  <2> QED
    BY <1>3, <2>2, StopStep DEF Stops
<1>4. CASE Cardinality(found) = 1 /\ dynstr' = Max(found) /\ status' = "find_dynamic"
  <2>1. FileType(elf)' /\ DemangleInv' /\ RewritesEveryClosing'
    BY <1>2, FileTypeKept, DemangleStutter, RewritesKept DEF ElfInv, TypeOK
  <2>2. OnlyOne("SHT_STRTAB", DotDynstr) /\ dynstr' \in DOMAIN elf.sections
    BY <1>1, <1>4, FoundFacts DEF OnlyOne
  <2>3. TypeOK'
    BY <1>2, <1>4, <2>1, <2>2 DEF ElfInv, TypeOK, Statuses, DemangleInv
  <2>4. Searched'
    BY <1>1, <1>2, <1>4, <2>2, FileKept DEF ElfInv, Searched, Finding, InForeach,
       AfterDynamic, AfterDynstr, AfterSymtab
  <2>5. Walked' /\ Listed' /\ Answered' /\ DependsAreNeeded' /\ SoundFileLoads'
    BY <1>4 DEF Walked, Listed, Answered, DependsAreNeeded, SoundFileLoads, InForeach
  <2> QED
    BY <2>1, <2>3, <2>4, <2>5 DEF ElfInv
<1> QED
  BY <1>3, <1>4 DEF FindDynstr

LEMMA FindDynamicStep ==
  ASSUME ElfInv, FindDynamic
  PROVE  ElfInv'
<1> DEFINE found == Found("SHT_DYNAMIC", DotDynamic)
<1>1. FileType(elf) /\ status = "find_dynamic" /\ given = <<>> /\ depends = <<>> /\ i = 1
  BY DEF ElfInv, TypeOK, Searched, FindDynamic, Finding
<1>2. /\ UNCHANGED <<elf, is_primary>>
      /\ UNCHANGED <<symtab, count, dynstr, i, dyn_entry, sym, depends, given, demVars>>
  BY DEF FindDynamic, Stops
<1>3. CASE \/ Unnamed("SHT_DYNAMIC") /\ Stops("crashed")
           \/ Cardinality(found) # 1 /\ Stops("aborted")
  <2>1. ~LinkedSoundly
    BY <1>3 DEF LinkedSoundly, Named, SectionTypes, OnlyOne
  <2>2. SoundFileLoads'
    BY <1>2, <2>1, FileKept DEF SoundFileLoads
  <2> QED
    BY <1>3, <2>2, StopStep DEF Stops
<1>4. CASE Cardinality(found) = 1 /\ dynamic' = Max(found) /\ status' = "walking"
  <2>1. FileType(elf)' /\ DemangleInv' /\ RewritesEveryClosing'
    BY <1>2, FileTypeKept, DemangleStutter, RewritesKept DEF ElfInv, TypeOK
  <2>2. OnlyOne("SHT_DYNAMIC", DotDynamic) /\ dynamic' \in DOMAIN elf.sections
    BY <1>1, <1>4, FoundFacts DEF OnlyOne
  <2>3. TypeOK'
    BY <1>2, <1>4, <2>1, <2>2 DEF ElfInv, TypeOK, Statuses, DemangleInv
  <2>4. Searched'
    BY <1>1, <1>2, <1>4, <2>2, FileKept DEF ElfInv, Searched, Finding, InForeach,
       AfterDynamic, AfterDynstr, AfterSymtab
  <2>5. Walked'
    <3>1. Rank(0) = 0 /\ Len(<<>>) = 0
      <4>1. Needs \cap (1 .. 0) = {}
        OBVIOUS
      <4> QED
        BY <4>1, FS_EmptySet DEF Rank
    <3>2. /\ i' = 1 /\ i' - 1 = 0 /\ 1 .. 0 = {}
          /\ \A k \in Needs : ~(k <= 0)
      BY <1>1, <1>2 DEF Needs
    <3>3. EndsIn(TheDyns) => 1 <= Len(TheDyns)
      <4>1. Len(TheDyns) \in Nat
        BY <1>1, <2>2, FoundFacts DEF TheDyns, SectionType
      <4> QED
        BY <4>1 DEF EndsIn
    <3>4. EndsIn(TheDyns)' <=> EndsIn(TheDyns)
      BY <1>2, FileKept DEF EndsIn
    <3>5. Rank(0)' = Rank(0)
      BY <1>2, FileKept DEF Rank
    <3> QED
      BY <1>1, <1>2, <1>4, <3>1, <3>2, <3>3, <3>4, <3>5, FileKept DEF Walked
  <2>6. Listed' /\ Answered' /\ DependsAreNeeded' /\ SoundFileLoads'
    BY <1>4 DEF Listed, Answered, DependsAreNeeded, SoundFileLoads, InForeach
  <2> QED
    BY <2>1, <2>3, <2>4, <2>5, <2>6 DEF ElfInv
<1> QED
  BY <1>3, <1>4 DEF FindDynamic

------------------------------------------------------------------------------
(* The walk over .dynamic. *)

LEMMA AtEntry ==
  ASSUME ElfInv, status = "walking"
  PROVE  /\ TheDyns \in Seq(Dyn) /\ Dyns = TheDyns
         /\ i \in Nat \ {0} /\ ReadEntry \in Dyn
         /\ \A offset : Strptr(dynstr, offset) =
                        Strptr(Max(Found("SHT_STRTAB", DotDynstr)), offset)
<1>1. FileType(elf) /\ i \in Nat \ {0} /\ dyn_entry \in Dyn
  BY DEF ElfInv, TypeOK
<1>2. /\ OnlyOne("SHT_STRTAB", DotDynstr) /\ dynstr = Max(Found("SHT_STRTAB", DotDynstr))
      /\ OnlyOne("SHT_DYNAMIC", DotDynamic) /\ dynamic = Max(Found("SHT_DYNAMIC", DotDynamic))
  BY DEF ElfInv, Searched, AfterDynstr, AfterDynamic
<1>3. Dyns = TheDyns
  BY <1>2 DEF Dyns, TheDyns
<1>4. TheDyns \in Seq(Dyn)
  BY <1>1, <1>2, FoundFacts DEF TheDyns, SectionType
<1>5. ReadEntry \in Dyn
  <2>1. i <= Len(TheDyns) => TheDyns[i] \in Dyn
    BY <1>1, <1>4
  <2> QED
    BY <1>1, <1>3, <2>1 DEF ReadEntry
<1> QED
  BY <1>1, <1>2, <1>3, <1>4, <1>5

LEMMA AtEntryOfEnding ==
  ASSUME ElfInv, status = "walking", EndsIn(TheDyns)
  PROVE  /\ i <= Len(TheDyns) /\ ReadEntry = TheDyns[i]
         /\ \A k \in 1 .. i - 1 : TheDyns[k].d_tag # "DT_NULL"
         /\ ReadEntry.d_tag # "DT_NULL" => i + 1 <= Len(TheDyns)
         /\ ReadEntry.d_tag = "DT_NEEDED" => i \in Needs
         /\ ReadEntry.d_tag # "DT_NEEDED" => i \notin Needs
         /\ ReadEntry.d_tag = "DT_NULL" => \A k \in Needs : k <= i - 1
<1>1. /\ TheDyns \in Seq(Dyn) /\ Dyns = TheDyns /\ Len(TheDyns) \in Nat
      /\ i \in Nat \ {0}
  BY AtEntry
<1>2. i <= Len(TheDyns) /\ \A k \in 1 .. i - 1 : TheDyns[k].d_tag # "DT_NULL"
  BY DEF ElfInv, Walked
<1>3. ReadEntry = TheDyns[i]
  BY <1>1, <1>2 DEF ReadEntry
<1>4. \A k \in 1 .. i : k \in 1 .. i - 1 \/ k = i
  BY <1>1
<1>5. ASSUME ReadEntry.d_tag # "DT_NULL"
      PROVE  i + 1 <= Len(TheDyns)
  <2>1. PICK k \in 1 .. Len(TheDyns) : TheDyns[k].d_tag = "DT_NULL"
    BY DEF EndsIn
  <2>2. k \notin 1 .. i
    BY <1>2, <1>3, <1>4, <1>5, <2>1
  <2> QED
    BY <1>1, <2>2
<1>6. i \in 1 .. Len(TheDyns) /\ i \in 1 .. i
  BY <1>1, <1>2
<1>7. ReadEntry.d_tag = "DT_NEEDED" => i \in Needs
  BY <1>2, <1>3, <1>4, <1>6 DEF Needs
<1>8. ReadEntry.d_tag # "DT_NEEDED" => i \notin Needs
  BY <1>3 DEF Needs
<1>9. ASSUME ReadEntry.d_tag = "DT_NULL", NEW k \in Needs
      PROVE  k <= i - 1
  <2>1. k \in 1 .. Len(TheDyns) /\ i \notin 1 .. k
    BY <1>3, <1>9 DEF Needs
  <2> QED
    BY <1>1, <2>1
<1> QED
  BY <1>2, <1>3, <1>5, <1>7, <1>8, <1>9

(* Ranks from one entry to the next, and as DependsAreNeeded counts them.  *)
LEMMA RankFacts ==
  ASSUME TheDyns \in Seq(Dyn)
  PROVE  /\ \A k \in Nat \ {0} :
              /\ Rank(k) \in Nat /\ Rank(k - 1) \in Nat
              /\ k \in Needs => Rank(k) = Rank(k - 1) + 1
              /\ k \notin Needs => Rank(k) = Rank(k - 1)
         /\ \A n \in Nat : \A k \in Needs : k <= n => Rank(k) \in 1 .. Rank(n)
         /\ \A n \in Nat : (\A k \in Needs : k <= n) => Rank(n) = Cardinality(Needs)
         /\ \A k \in Needs : Rank(k) = Cardinality({j \in Needs : j <= k})
         /\ \A k \in Needs : Rank(k) <= Cardinality(Needs)
         /\ Cardinality(Needs) \in Nat
<1>1. Needs \subseteq 1 .. Len(TheDyns) /\ Len(TheDyns) \in Nat
  BY DEF Needs
<1>2. \A k \in Needs : k \in Nat \ {0} /\ k <= Len(TheDyns)
  BY <1>1
<1>3. ASSUME NEW k \in Nat \ {0}
      PROVE  /\ Rank(k) \in Nat /\ Rank(k - 1) \in Nat
             /\ k \in Needs => Rank(k) = Rank(k - 1) + 1
             /\ k \notin Needs => Rank(k) = Rank(k - 1)
  BY RankStep DEF Rank
<1>4. ASSUME NEW n \in Nat, NEW k \in Needs, k <= n
      PROVE  Rank(k) \in 1 .. Rank(n)
  <2>1. k \in Needs \cap (1 .. n)
    BY <1>2, <1>4
  <2> QED
    BY <2>1, RankBounds DEF Rank
<1>5. ASSUME NEW n \in Nat, \A k \in Needs : k <= n
      PROVE  Rank(n) = Cardinality(Needs)
  <2>1. Needs \cap (1 .. n) = Needs
    BY <1>2, <1>5
  <2> QED
    BY <2>1 DEF Rank
<1>6. ASSUME NEW k \in Needs
      PROVE  Rank(k) = Cardinality({j \in Needs : j <= k})
  <2>1. Needs \cap (1 .. k) = {j \in Needs : j <= k}
    BY <1>2
  <2> QED
    BY <2>1 DEF Rank
<1>7. Rank(Len(TheDyns)) = Cardinality(Needs)
  BY <1>1, <1>2, <1>5
<1>8. IsFiniteSet(Needs) /\ Cardinality(Needs) \in Nat
  <2>1. IsFiniteSet(1 .. Len(TheDyns))
    <3>1. 1 \in Int /\ Len(TheDyns) \in Int
      BY <1>1
    <3> QED
      BY <3>1, FS_Interval
  <2> QED
    BY <1>1, <2>1, FS_Subset, FS_CardinalityType
<1>9. ASSUME NEW k \in Needs
      PROVE  Rank(k) <= Cardinality(Needs)
  <2>1. Rank(k) \in 1 .. Rank(Len(TheDyns))
    BY <1>1, <1>2, <1>4
  <2> QED
    BY <1>7, <1>8, <2>1
<1> QED
  BY <1>3, <1>4, <1>5, <1>6, <1>8, <1>9

LEMMA ReadDynStep ==
  ASSUME ElfInv, ReadDyn
  PROVE  ElfInv'
<1> DEFINE needed == Strptr(dynstr, ReadEntry.d_val)
<1>1. /\ status = "walking" /\ given = <<>>
      /\ UNCHANGED <<elf, is_primary, symtab, count, dynstr, dynamic, sym, given, demVars>>
  BY DEF ElfInv, Searched, ReadDyn
<1>2. /\ TheDyns \in Seq(Dyn) /\ Dyns = TheDyns
      /\ i \in Nat \ {0} /\ ReadEntry \in Dyn /\ dyn_entry \in Dyn
      /\ \A offset : Strptr(dynstr, offset) =
                     Strptr(Max(Found("SHT_STRTAB", DotDynstr)), offset)
  BY <1>1, AtEntry DEF ElfInv, TypeOK
<1>3. FileType(elf)' /\ DemangleInv' /\ RewritesEveryClosing'
  BY <1>1, FileTypeKept, DemangleStutter, RewritesKept DEF ElfInv, TypeOK
<1>4. /\ FileType(elf) /\ depends \in Seq(Mangled) /\ Len(depends) \in Nat
      /\ Len(depends) <= MaxDepends /\ MaxDepends \in Nat
  BY LimitAssumption DEF ElfInv, TypeOK
<1>5. EndsIn(TheDyns) => needed = NeededName(i)
  BY <1>1, <1>2, AtEntryOfEnding DEF NeededName
<1>6. EndsIn(TheDyns)' <=> EndsIn(TheDyns)
  BY <1>1, FileKept DEF EndsIn
<1>7. \A k : Rank(k)' = Rank(k)
  BY <1>1, FileKept DEF Rank
<1>8. CASE Ends(ReadEntry) /\ status' = "loaded" /\ dyn_entry' = ReadEntry
           /\ UNCHANGED <<i, depends>>
  <2>1. TypeOK'
    BY <1>1, <1>2, <1>3, <1>8 DEF ElfInv, TypeOK, Statuses, DemangleInv
  <2>2. Searched'
    BY <1>1, <1>8, FileKept DEF ElfInv, Searched, Finding, InForeach, AfterDynamic,
       AfterDynstr, AfterSymtab
  <2>3. DependsAreNeeded'
    <3> SUFFICES ASSUME EndsIn(TheDyns)
                 PROVE  /\ Len(depends) = Cardinality(Needs)
                        /\ \A k \in Needs :
                             depends[Cardinality({j \in Needs : j <= k})] = NeededName(k)
      BY <1>1, <1>6, <1>8, FileKept DEF DependsAreNeeded
    <3>1. \A k \in Needs : k <= i - 1
      BY <1>1, <1>8, AtEntryOfEnding DEF Ends
    <3>2. i - 1 \in Nat
      BY <1>2
    <3>3. /\ Len(depends) = Rank(i - 1)
          /\ \A k \in Needs : k <= i - 1 => depends[Rank(k)] = NeededName(k)
      BY <1>1 DEF ElfInv, Walked
    <3> QED
      BY <1>2, <3>1, <3>2, <3>3, RankFacts
  <2>4. Walked' /\ Listed' /\ Answered' /\ SoundFileLoads'
    BY <1>8 DEF Walked, Listed, Answered, SoundFileLoads, InForeach
  <2> QED
    BY <1>3, <2>1, <2>2, <2>3, <2>4 DEF ElfInv
<1>9. CASE ~Ends(ReadEntry) /\ ReadEntry.d_tag # "DT_NEEDED" /\ i' = PastEnd(i, Dyns)
           /\ dyn_entry' = ReadEntry /\ UNCHANGED <<status, depends>>
  <2>1. i' \in Nat \ {0}
    BY <1>2, <1>9 DEF PastEnd
  <2>2. TypeOK'
    BY <1>1, <1>2, <1>3, <1>9, <2>1 DEF ElfInv, TypeOK, Statuses, DemangleInv
  <2>3. Searched'
    BY <1>1, <1>9, FileKept DEF ElfInv, Searched, Finding, InForeach, AfterDynamic,
       AfterDynstr, AfterSymtab
  <2>4. Walked'
    <3> SUFFICES ASSUME EndsIn(TheDyns)
                 PROVE  /\ i' <= Len(TheDyns)
                        /\ \A k \in 1 .. i' - 1 : TheDyns[k].d_tag # "DT_NULL"
                        /\ Len(depends) = Rank(i' - 1)
                        /\ \A k \in Needs : k <= i' - 1 => depends[Rank(k)] = NeededName(k)
      BY <1>1, <1>6, <1>7, <1>9, FileKept DEF Walked
    <3>1. /\ i <= Len(TheDyns) /\ ReadEntry = TheDyns[i]
          /\ i + 1 <= Len(TheDyns) /\ i \notin Needs
          /\ \A k \in 1 .. i - 1 : TheDyns[k].d_tag # "DT_NULL"
      BY <1>1, <1>9, AtEntryOfEnding DEF Ends
    <3>2. i' = i + 1 /\ i' - 1 = i
      BY <1>2, <1>9, <3>1 DEF PastEnd
    <3>3. TheDyns[i].d_tag # "DT_NULL"
      BY <1>9, <3>1 DEF Ends
    <3>4. \A k \in 1 .. i : k \in 1 .. i - 1 \/ k = i
      BY <1>2
    <3>5. /\ Len(depends) = Rank(i - 1)
          /\ \A k \in Needs : k <= i - 1 => depends[Rank(k)] = NeededName(k)
      BY <1>1 DEF ElfInv, Walked
    <3>6. Rank(i) = Rank(i - 1)
      BY <1>2, <3>1, RankFacts
    <3>7. \A k \in Needs : k <= i => k <= i - 1
      <4>1. \A k \in Needs : k \in Nat /\ k # i
        BY <3>1 DEF Needs
      <4> QED
        BY <1>2, <4>1
    <3> QED
      BY <3>1, <3>2, <3>3, <3>4, <3>5, <3>6, <3>7
  <2>5. Listed' /\ Answered' /\ SoundFileLoads' /\ DependsAreNeeded'
    BY <1>1, <1>9 DEF Listed, Answered, SoundFileLoads, DependsAreNeeded, InForeach
  <2> QED
    BY <1>3, <2>2, <2>3, <2>4, <2>5 DEF ElfInv
<1>10. CASE ~Ends(ReadEntry) /\ ReadEntry.d_tag = "DT_NEEDED"
            /\ needed # None /\ Len(depends) < MaxDepends
            /\ depends' = Append(depends, needed) /\ i' = PastEnd(i, Dyns)
            /\ dyn_entry' = ReadEntry /\ UNCHANGED status
  <2>1. i' \in Nat \ {0}
    BY <1>2, <1>10 DEF PastEnd
  <2>2. needed \in Mangled
    BY <1>4, <1>10, StrptrIn
  <2>3. /\ depends' \in Seq(Mangled) /\ Len(depends') = Len(depends) + 1
        /\ depends'[Len(depends) + 1] = needed
        /\ \A k \in 1 .. Len(depends) : depends'[k] = depends[k]
    <3> HIDE DEF needed
    <3> QED
      BY <1>4, <1>10, <2>2, AppendFacts
  <2>4. Len(depends') <= MaxDepends
    BY <1>4, <1>10, <2>3
  <2>5. TypeOK'
    BY <1>1, <1>2, <1>3, <1>10, <2>1, <2>3, <2>4 DEF ElfInv, TypeOK, Statuses, DemangleInv
  <2>6. Searched'
    BY <1>1, <1>10, FileKept DEF ElfInv, Searched, Finding, InForeach, AfterDynamic,
       AfterDynstr, AfterSymtab
  <2>7. Walked'
    <3> SUFFICES ASSUME EndsIn(TheDyns)
                 PROVE  /\ i' <= Len(TheDyns)
                        /\ \A k \in 1 .. i' - 1 : TheDyns[k].d_tag # "DT_NULL"
                        /\ Len(depends') = Rank(i' - 1)
                        /\ \A k \in Needs : k <= i' - 1 => depends'[Rank(k)] = NeededName(k)
      BY <1>1, <1>6, <1>7, <1>10, FileKept DEF Walked
    <3>1. /\ i <= Len(TheDyns) /\ ReadEntry = TheDyns[i]
          /\ i + 1 <= Len(TheDyns) /\ i \in Needs
          /\ \A k \in 1 .. i - 1 : TheDyns[k].d_tag # "DT_NULL"
      BY <1>1, <1>10, AtEntryOfEnding DEF Ends
    <3>2. i' = i + 1 /\ i' - 1 = i
      BY <1>2, <1>10, <3>1 DEF PastEnd
    <3>3. TheDyns[i].d_tag # "DT_NULL"
      BY <1>10, <3>1 DEF Ends
    <3>4. \A k \in 1 .. i : k \in 1 .. i - 1 \/ k = i
      BY <1>2
    <3>5. /\ Len(depends) = Rank(i - 1)
          /\ \A k \in Needs : k <= i - 1 => depends[Rank(k)] = NeededName(k)
      BY <1>1 DEF ElfInv, Walked
    <3>6. Rank(i) = Rank(i - 1) + 1
      BY <1>2, <3>1, RankFacts
    <3>7. depends'[Rank(i)] = NeededName(i)
      BY <1>5, <2>3, <3>5, <3>6
    <3>8. ASSUME NEW k \in Needs, k <= i - 1
          PROVE  depends'[Rank(k)] = NeededName(k)
      <4>1. i - 1 \in Nat
        BY <1>2
      <4>2. Rank(k) \in 1 .. Len(depends)
        BY <1>2, <3>5, <3>8, <4>1, RankFacts
      <4> QED
        BY <2>3, <3>5, <3>8, <4>2
    <3>9. \A k \in Needs : k <= i => k <= i - 1 \/ k = i
      <4>1. \A k \in Needs : k \in Nat
        BY DEF Needs
      <4> QED
        BY <1>2, <4>1
    <3> QED
      BY <2>3, <3>1, <3>2, <3>3, <3>4, <3>5, <3>6, <3>7, <3>8, <3>9
  <2>8. Listed' /\ Answered' /\ SoundFileLoads' /\ DependsAreNeeded'
    BY <1>1, <1>10 DEF Listed, Answered, SoundFileLoads, DependsAreNeeded, InForeach
  <2> QED
    BY <1>3, <2>5, <2>6, <2>7, <2>8 DEF ElfInv
<1>11. CASE /\ ~Ends(ReadEntry) /\ ReadEntry.d_tag = "DT_NEEDED"
            /\ (needed = None \/ Len(depends) = MaxDepends)
            /\ status' = IF needed = None THEN "crashed" ELSE "overrun"
            /\ UNCHANGED <<i, dyn_entry, depends>>
  <2>1. ASSUME LinkedSoundly
        PROVE  needed # None /\ (Len(depends) = MaxDepends => Cardinality(Needs) > MaxDepends)
    <3>1. EndsIn(TheDyns) /\ i \in Needs
      BY <1>1, <1>11, <2>1, AtEntryOfEnding DEF LinkedSoundly
    <3>2. needed # None
      BY <1>5, <2>1, <3>1 DEF LinkedSoundly
    <3>3. Len(depends) = Rank(i - 1) /\ Rank(i) = Rank(i - 1) + 1 /\ Rank(i - 1) \in Nat
          /\ Rank(i) <= Cardinality(Needs) /\ Cardinality(Needs) \in Nat
      BY <1>1, <1>2, <3>1, RankFacts DEF ElfInv, Walked
    <3> QED
      BY <1>4, <3>2, <3>3
  <2>2. SoundFileLoads'
    BY <1>1, <1>11, <2>1, FileKept DEF SoundFileLoads
  <2>3. status' \in {"aborted", "crashed", "overrun"}
    BY <1>11
  <2> QED
    BY <1>1, <1>11, <2>2, <2>3, StopStep
<1> QED
  BY <1>1, <1>8, <1>9, <1>10, <1>11 DEF ReadDyn

------------------------------------------------------------------------------
(* symtab_elf_foreach. *)

LEMMA AtSymbol ==
  ASSUME ElfInv, status \in {"listing", "demangling"}, ~Stripped
  PROVE  /\ TheSymtab.syms \in Seq(Sym) /\ Syms = TheSymtab.syms
         /\ \A s : NameOf(s) = Strptr(TheSymtab.sh_link, s.st_name)
         /\ SymbolsSound => count = Len(TheSymtab.syms)
         /\ ReadSymbol \in Sym
         /\ i <= Len(TheSymtab.syms) => ReadSymbol = TheSymtab.syms[i]
<1>1. FileType(elf) /\ i \in Nat \ {0} /\ sym \in Sym
  BY DEF ElfInv, TypeOK
<1>2. /\ symtab = Max(Found("SHT_SYMTAB", DotSymtab))
      /\ count = TheSymtab.sh_size \div TheSymtab.sh_entsize
  BY DEF ElfInv, Searched, AfterSymtab, AfterDynstr, AfterDynamic, InForeach
<1>3. /\ Syms = TheSymtab.syms
      /\ \A s : NameOf(s) = Strptr(TheSymtab.sh_link, s.st_name)
  BY <1>2 DEF Syms, TheSymtab, NameOf
<1>4. /\ TheSymtab.syms \in Seq(Sym)
      /\ Len(TheSymtab.syms) = TheSymtab.sh_size \div SymSize
  BY <1>1, FoundFacts DEF TheSymtab, Stripped, SectionType
<1>5. i <= Len(TheSymtab.syms) => TheSymtab.syms[i] \in Sym
  BY <1>1, <1>4
<1>6. ReadSymbol = IF i <= Len(TheSymtab.syms) THEN TheSymtab.syms[i] ELSE sym
  BY <1>3 DEF ReadSymbol
<1>7. SymbolsSound => count = Len(TheSymtab.syms)
  BY <1>2, <1>4 DEF SymbolsSound
<1> QED
  BY <1>1, <1>3, <1>4, <1>5, <1>6, <1>7

LEMMA BeginForeachStep ==
  ASSUME ElfInv, BeginForeach
  PROVE  ElfInv'
<1>1. /\ status = "loaded" /\ status' = "listing" /\ i' = 1 /\ given = <<>>
      /\ UNCHANGED <<elf, is_primary, symtab, count, dynstr, dynamic, dyn_entry, sym, depends,
                     given, demVars>>
  BY DEF ElfInv, Searched, BeginForeach, First
<1>2. FileType(elf)' /\ DemangleInv' /\ RewritesEveryClosing'
  BY <1>1, FileTypeKept, DemangleStutter, RewritesKept DEF ElfInv, TypeOK
<1>3. TypeOK'
  BY <1>1, <1>2 DEF ElfInv, TypeOK, Statuses, DemangleInv
<1>4. Searched'
  BY <1>1, FileKept DEF ElfInv, Searched, Finding, InForeach, AfterDynamic, AfterDynstr,
     AfterSymtab
<1>5. Listed'
  <2>1. ~Stripped => Len(TheSymtab.syms) \in Nat
    BY FoundFacts DEF ElfInv, TypeOK, TheSymtab, Stripped, SectionType
  <2>2. /\ Len(given') = i' - 1 /\ 1 .. i' - 1 = {}
        /\ ~Stripped => i' <= Len(TheSymtab.syms) + 1
    BY <1>1, <2>1
  <2> QED
    BY <1>1, <2>2, FileKept DEF Listed, InForeach
<1>6. Walked' /\ Answered' /\ DependsAreNeeded' /\ SoundFileLoads'
  BY <1>1 DEF Walked, Answered, DependsAreNeeded, SoundFileLoads
<1> QED
  BY <1>2, <1>3, <1>4, <1>5, <1>6 DEF ElfInv

LEMMA GetSymbolStep ==
  ASSUME ElfInv, GetSymbol
  PROVE  ElfInv'
<1>1. /\ status = "listing" /\ i <= count /\ sym' = ReadSymbol
      /\ UNCHANGED <<elf, is_primary, symtab, count, dynstr, dynamic, i, dyn_entry, depends,
                     given>>
      /\ FileType(elf) /\ i \in Nat \ {0}
  BY DEF GetSymbol, ElfInv, TypeOK
<1>2. ~Stripped
  <2>1. Stripped => count = 0
    BY <1>1 DEF ElfInv, Searched, AfterSymtab, AfterDynstr, AfterDynamic, InForeach
  <2> QED
    BY <1>1, <2>1
<1>3. /\ TheSymtab.syms \in Seq(Sym) /\ ReadSymbol \in Sym
      /\ \A s : NameOf(s) = Strptr(TheSymtab.sh_link, s.st_name)
      /\ SymbolsSound => i <= Len(TheSymtab.syms) /\ ReadSymbol = TheSymtab.syms[i]
  BY <1>1, <1>2, AtSymbol
<1>4. SymbolsSound => NameOf(ReadSymbol) # None
  <2>1. i <= Len(TheSymtab.syms) => i \in 1 .. Len(TheSymtab.syms)
    BY <1>1, <1>3
  <2> QED
    BY <1>2, <1>3, <2>1 DEF SymbolsSound
<1>5. FileType(elf)' /\ RewritesEveryClosing'
  BY <1>1, FileTypeKept, RewritesKept DEF ElfInv
<1>6. CASE NameOf(ReadSymbol) = None
  <2>1. status' = "crashed" /\ UNCHANGED demVars
    BY <1>6 DEF GetSymbol
  <2>2. DemangleInv'
    BY <2>1, DemangleStutter DEF ElfInv
  <2>3. TypeOK'
    BY <1>1, <1>3, <1>5, <2>1, <2>2 DEF ElfInv, TypeOK, Statuses, DemangleInv
  <2>4. Searched' /\ Walked' /\ Listed' /\ Answered' /\ DependsAreNeeded'
    BY <2>1 DEF Searched, Walked, Listed, Answered, DependsAreNeeded, Finding, InForeach,
           AfterDynamic, AfterDynstr, AfterSymtab
  <2>5. SoundFileLoads'
    BY <1>1, <1>4, <1>6, FileKept DEF SoundFileLoads
  <2> QED
    BY <1>5, <2>2, <2>3, <2>4, <2>5 DEF ElfInv
<1>7. CASE NameOf(ReadSymbol) # None
  <2>1. status' = "demangling" /\ TryDemangle(NameOf(ReadSymbol))
    BY <1>7 DEF GetSymbol
  <2>2. NameOf(ReadSymbol) \in Mangled
    BY <1>1, <1>7, StrptrIn DEF NameOf
  <2>3. /\ DemangleInv'
        /\ job' \in {"copying", "done"}
        /\ job' = "done" => Answers(NameOf(ReadSymbol), demangled')
        /\ job' = "copying" =>
             /\ CplusDemangle[NameOf(ReadSymbol)] # None
             /\ str_in' = CplusDemangle[NameOf(ReadSymbol)]
    BY <2>1, <2>2, TryDemangleStep DEF ElfInv
  <2>4. TypeOK'
    BY <1>1, <1>3, <1>5, <2>1, <2>3 DEF ElfInv, TypeOK, Statuses, DemangleInv
  <2>5. NameOf(sym)' = NameOf(ReadSymbol)
    BY <1>1, FileKept DEF NameOf
  <2>6. Answered'
    BY <1>7, <2>1, <2>3, <2>5 DEF Answered
  <2>7. Searched'
    BY <1>1, <2>1, FileKept DEF ElfInv, Searched, Finding, InForeach, AfterDynamic,
       AfterDynstr, AfterSymtab
  <2>8. Listed'
    <3>1. \A k : GivenIs(k)' <=> GivenIs(k)
      BY <1>1, FileKept DEF GivenIs
    <3>2. SymbolsSound =>
            /\ Len(given) = i - 1
            /\ i <= Len(TheSymtab.syms) + 1
            /\ \A k \in 1 .. i - 1 : GivenIs(k)
      BY <1>1, <1>2 DEF ElfInv, Listed, InForeach
    <3> QED
      BY <1>1, <1>2, <1>3, <2>1, <3>1, <3>2, FileKept DEF Listed, InForeach
  <2>9. Walked' /\ DependsAreNeeded' /\ SoundFileLoads'
    BY <2>1 DEF Walked, DependsAreNeeded, SoundFileLoads
  <2> QED
    BY <1>5, <2>3, <2>4, <2>6, <2>7, <2>8, <2>9 DEF ElfInv
<1> QED
  BY <1>6, <1>7

LEMMA DemangleOnStep ==
  ASSUME ElfInv, DemangleOn
  PROVE  ElfInv'
<1>1. status = "demangling" /\ (CopyChar \/ EndCopy)
      /\ UNCHANGED <<elf, is_primary, status, symtab, count, dynstr, dynamic, i, dyn_entry,
                     sym, depends, given>>
  BY DEF DemangleOn, elfVars
<1>2. job = "copying"
  BY <1>1 DEF CopyChar, EndCopy
<1>3. /\ CplusDemangle[NameOf(sym)] # None /\ str_in = CplusDemangle[NameOf(sym)]
      /\ NameOf(sym) # None
  BY <1>1, <1>2 DEF ElfInv, Answered
<1>4. /\ DemangleInv'
      /\ job' \in {"copying", "done"}
      /\ job' = "done" => Rewrites(str_in, demangled')
      /\ str_in' = str_in
  <2>1. CASE CopyChar
    BY <2>1, CopyStep DEF ElfInv
  <2>2. CASE EndCopy
    BY <2>2, EndCopyStep DEF ElfInv, EndCopy
  <2> QED
    BY <1>1, <2>1, <2>2
<1>5. FileType(elf)' /\ RewritesEveryClosing'
  BY <1>1, FileTypeKept, RewritesKept DEF ElfInv, TypeOK
<1>6. TypeOK'
  BY <1>1, <1>4, <1>5 DEF ElfInv, TypeOK, DemangleInv
<1>7. NameOf(sym)' = NameOf(sym)
  BY <1>1, FileKept DEF NameOf
<1>8. Answered'
  BY <1>1, <1>3, <1>4, <1>7 DEF Answered, Answers
<1>9. Searched'
  BY <1>1, FileKept DEF ElfInv, Searched
<1>10. Listed'
  <2>1. \A k : GivenIs(k)' <=> GivenIs(k)
    BY <1>1, FileKept DEF GivenIs
  <2> QED
    BY <1>1, <2>1, FileKept DEF ElfInv, Listed
<1>11. Walked' /\ DependsAreNeeded' /\ SoundFileLoads'
  BY <1>1 DEF Walked, DependsAreNeeded, SoundFileLoads
<1> QED
  BY <1>4, <1>5, <1>6, <1>8, <1>9, <1>10, <1>11 DEF ElfInv

(* What the callback is given for one symbol. *)
ShownFor(g) ==
  LET text == CplusDemangle[g.name]
  IN  IF text = None
      THEN g.name_demangled = WithoutPrefix(g.name)
      ELSE \E result \in {g.name_demangled} \cup {<<c>> \o g.name_demangled : c \in Prefix} :
             /\ Rewrites(text, result)
             /\ g.name_demangled = WithoutPrefix(result)

LEMMA AnswerShown ==
  ASSUME NEW mangled \in Mangled, NEW text \in Text, Answers(mangled, text),
         NEW g, g.name = mangled, g.name_demangled = WithoutPrefix(text)
  PROVE  ShownFor(g)
<1>1. text \in {g.name_demangled} \cup {<<c>> \o g.name_demangled : c \in Prefix}
  BY WithoutPrefixFacts
<1>2. CASE CplusDemangle[mangled] = None
  BY <1>2 DEF Answers, ShownFor
<1>3. CASE CplusDemangle[mangled] # None
  <2>1. Rewrites(CplusDemangle[mangled], text)
    BY <1>3 DEF Answers
  <2> QED
    BY <1>1, <1>3, <2>1 DEF ShownFor
<1> QED
  BY <1>2, <1>3

LEMMA RewritesIsShown ==
  RewritesEveryClosing <=> \A k \in 1 .. Len(given) : ShownFor(given[k])
BY DEF RewritesEveryClosing, ShownFor

LEMMA GiveSymbolStep ==
  ASSUME ElfInv, GiveSymbol
  PROVE  ElfInv'
<1> DEFINE g == [addr |-> sym.st_value, size |-> sym.st_size, name |-> NameOf(sym),
                 name_demangled |-> WithoutPrefix(demangled)]
<1>1. /\ status = "demangling" /\ job = "done" /\ given' = Append(given, g)
      /\ i' = i + 1 /\ status' = "listing"
      /\ UNCHANGED <<elf, is_primary, symtab, count, dynstr, dynamic, dyn_entry, sym, depends,
                     demVars>>
  BY DEF GiveSymbol
<1>2. /\ FileType(elf) /\ i \in Nat \ {0} /\ sym \in Sym /\ demangled \in Text
      /\ given \in Seq([addr : Nat, size : Nat, name : Mangled, name_demangled : Text])
  BY <1>1 DEF ElfInv, TypeOK, DemangleInv
<1>3. ~Stripped
  BY <1>1 DEF ElfInv, Listed
<1>4. NameOf(sym) \in Mangled /\ Answers(NameOf(sym), demangled)
  <2>1. NameOf(sym) # None /\ Answers(NameOf(sym), demangled)
    BY <1>1 DEF ElfInv, Answered
  <2> QED
    BY <1>2, <2>1, StrptrIn DEF NameOf
<1>5. g \in [addr : Nat, size : Nat, name : Mangled, name_demangled : Text]
  <2>1. WithoutPrefix(demangled) \in Text
    BY <1>2, WithoutPrefixFacts
  <2> QED
    BY <1>2, <1>4, <2>1 DEF Sym
<1>6. /\ g.addr = sym.st_value /\ g.size = sym.st_size /\ g.name = NameOf(sym)
      /\ g.name_demangled = WithoutPrefix(demangled)
  OBVIOUS
<1>7. ShownFor(g)
  <2> HIDE DEF g
  <2> QED
    BY <1>2, <1>4, <1>6, AnswerShown
<1> HIDE DEF g
<1>8. /\ given' \in Seq([addr : Nat, size : Nat, name : Mangled, name_demangled : Text])
      /\ Len(given) \in Nat /\ Len(given') = Len(given) + 1
      /\ given'[Len(given) + 1] = g
      /\ \A k \in 1 .. Len(given) : given'[k] = given[k]
  BY <1>1, <1>2, <1>5, AppendFacts
<1>9. \A k \in 1 .. Len(given') : k \in 1 .. Len(given) \/ k = Len(given) + 1
  BY <1>8
<1>10. FileType(elf)' /\ DemangleInv'
  BY <1>1, FileTypeKept, DemangleStutter DEF ElfInv, TypeOK
<1>11. TypeOK'
  <2>1. i' \in Nat \ {0}
    BY <1>1, <1>2
  <2> QED
    BY <1>1, <1>8, <1>10, <2>1 DEF ElfInv, TypeOK, Statuses, DemangleInv
<1>12. RewritesEveryClosing'
  <2>1. \A k \in 1 .. Len(given) : ShownFor(given[k])
    BY RewritesIsShown DEF ElfInv
  <2>2. \A k \in 1 .. Len(given') : ShownFor(given'[k])
    BY <1>7, <1>8, <1>9, <2>1
  <2> QED
    BY <2>2 DEF RewritesEveryClosing, ShownFor
<1>13. Searched'
  BY <1>1, FileKept DEF ElfInv, Searched, Finding, InForeach, AfterDynamic, AfterDynstr,
     AfterSymtab
<1>14. Listed'
  <2> SUFFICES ASSUME SymbolsSound
               PROVE  /\ Len(given') = i' - 1
                      /\ i' <= Len(TheSymtab.syms) + 1
                      /\ \A k \in 1 .. i' - 1 : GivenIs(k)'
    BY <1>1, <1>3, FileKept DEF Listed, InForeach
  <2>1. /\ Len(given) = i - 1
        /\ i <= Len(TheSymtab.syms) /\ sym = TheSymtab.syms[i]
        /\ \A k \in 1 .. i - 1 : GivenIs(k)
    BY <1>1, <1>3 DEF ElfInv, Listed, InForeach
  <2>2. Len(TheSymtab.syms) \in Nat /\ NameOf(sym) = Strptr(TheSymtab.sh_link, sym.st_name)
    BY <1>1, <1>3, AtSymbol
  <2>3. Len(given') = i' - 1 /\ i' <= Len(TheSymtab.syms) + 1 /\ i' - 1 = i
    BY <1>1, <1>2, <1>8, <2>1, <2>2
  <2>4. given'[i] = g
    BY <1>2, <1>8, <2>1
  <2>5. ASSUME NEW k, k = i
        PROVE  GivenIs(k)'
    <3>1. /\ given'[k] = g /\ sym = TheSymtab.syms[k]
          /\ g.name = Strptr(TheSymtab.sh_link, sym.st_name)
      BY <1>6, <2>1, <2>2, <2>4, <2>5
    <3>2. /\ g.addr = TheSymtab.syms[k].st_value /\ g.size = TheSymtab.syms[k].st_size
          /\ g.name = Strptr(TheSymtab.sh_link, TheSymtab.syms[k].st_name)
      BY <1>6, <3>1
    <3> QED
      BY <1>1, <3>1, <3>2, FileKept DEF GivenIs
  <2>6. ASSUME NEW k \in 1 .. i - 1
        PROVE  GivenIs(k)'
    <3>1. given'[k] = given[k] /\ GivenIs(k)
      BY <1>8, <2>1
    <3> QED
      BY <1>1, <3>1, FileKept DEF GivenIs
  <2>7. \A k \in 1 .. i : k \in 1 .. i - 1 \/ k = i
    BY <1>2
  <2> QED
    BY <2>3, <2>5, <2>6, <2>7
<1>15. Walked' /\ Answered' /\ DependsAreNeeded' /\ SoundFileLoads'
  BY <1>1 DEF Walked, Answered, DependsAreNeeded, SoundFileLoads
<1> QED
  BY <1>10, <1>11, <1>12, <1>13, <1>14, <1>15 DEF ElfInv

LEMMA EndForeachStep ==
  ASSUME ElfInv, EndForeach
  PROVE  ElfInv'
<1>1. /\ status = "listing" /\ i > count /\ status' = "listed"
      /\ UNCHANGED <<elf, is_primary, symtab, count, dynstr, dynamic, i, dyn_entry, sym,
                     depends, given, demVars>>
  BY DEF EndForeach, Stops
<1>2. FileType(elf)' /\ DemangleInv' /\ RewritesEveryClosing'
  BY <1>1, FileTypeKept, DemangleStutter, RewritesKept DEF ElfInv, TypeOK
<1>3. TypeOK'
  BY <1>1, <1>2 DEF ElfInv, TypeOK, Statuses, DemangleInv
<1>4. Searched'
  BY <1>1, FileKept DEF ElfInv, Searched, Finding, InForeach, AfterDynamic, AfterDynstr,
     AfterSymtab
<1>5. Listed'
  <2>1. \A k : GivenIs(k)' <=> GivenIs(k)
    BY <1>1, FileKept DEF GivenIs
  <2>2. ~Stripped /\ SymbolsSound => i > Len(TheSymtab.syms)
    BY <1>1, AtSymbol
  <2> QED
    BY <1>1, <2>1, <2>2, FileKept DEF ElfInv, Listed, InForeach
<1>6. Walked' /\ Answered' /\ DependsAreNeeded' /\ SoundFileLoads'
  BY <1>1 DEF Walked, Answered, DependsAreNeeded, SoundFileLoads
<1> QED
  BY <1>2, <1>3, <1>4, <1>5, <1>6 DEF ElfInv

------------------------------------------------------------------------------
(* The theorems. *)

LEMMA InitElfInv ==
  ASSUME Init
  PROVE  ElfInv
<1>1. FileType(elf)
  BY ElfFileAssumption DEF Init
<1>2. DemangleInv
  BY DemangleInitInv DEF Init
<1>3. TypeOK
  <2>1. dyn_entry \in Dyn /\ sym \in Sym
    BY <1>1 DEF Init, FileType
  <2>2. depends \in Seq(Mangled) /\ Len(depends) = 0 /\ 0 <= MaxDepends
    BY LimitAssumption DEF Init
  <2>3. given \in Seq([addr : Nat, size : Nat, name : Mangled, name_demangled : Text])
    BY DEF Init
  <2> QED
    BY <1>1, <1>2, <2>1, <2>2, <2>3 DEF Init, TypeOK, Statuses, DemangleInv
<1>4. Searched /\ Walked /\ Listed /\ Answered
  BY DEF Init, Searched, Walked, Listed, Answered, Finding, InForeach, AfterDynamic,
         AfterDynstr, AfterSymtab
<1>5. DependsAreNeeded /\ SoundFileLoads
  BY DEF Init, DependsAreNeeded, SoundFileLoads
<1>6. RewritesEveryClosing
  <2>1. 1 .. Len(given) = {}
    BY DEF Init
  <2> QED
    BY <2>1, RewritesIsShown
<1> QED
  BY <1>2, <1>3, <1>4, <1>5, <1>6 DEF ElfInv

LEMMA StutterElfInv ==
  ASSUME ElfInv, UNCHANGED vars
  PROVE  ElfInv'
<1>1. /\ UNCHANGED <<elf, is_primary, status, symtab, count, dynstr, dynamic, i, dyn_entry, sym,
                     depends, given>>
      /\ UNCHANGED demVars /\ UNCHANGED <<job, demangled, str_in>>
  BY DEF vars, elfVars, demVars
<1>2. FileType(elf)' /\ DemangleInv' /\ RewritesEveryClosing'
  BY <1>1, FileTypeKept, DemangleStutter, RewritesKept DEF ElfInv, TypeOK
<1>3. TypeOK'
  BY <1>1, <1>2 DEF ElfInv, TypeOK, DemangleInv
<1>4. Searched' /\ SoundFileLoads'
  BY <1>1, FileKept DEF ElfInv, Searched, SoundFileLoads
<1>5. Walked' /\ DependsAreNeeded'
  <2>1. (EndsIn(TheDyns)' <=> EndsIn(TheDyns)) /\ \A k : Rank(k)' = Rank(k)
    BY <1>1, FileKept DEF EndsIn, Rank
  <2> QED
    BY <1>1, <2>1, FileKept DEF ElfInv, Walked, DependsAreNeeded
<1>6. Listed'
  <2>1. \A k : GivenIs(k)' <=> GivenIs(k)
    BY <1>1, FileKept DEF GivenIs
  <2> QED
    BY <1>1, <2>1, FileKept DEF ElfInv, Listed
<1>7. Answered'
  <2>1. NameOf(sym)' = NameOf(sym)
    BY <1>1, FileKept DEF NameOf
  <2> QED
    BY <1>1, <2>1 DEF ElfInv, Answered, Answers
<1> QED
  BY <1>2, <1>3, <1>4, <1>5, <1>6, <1>7 DEF ElfInv

LEMMA NextElfInv ==
  ASSUME ElfInv, [Next]_vars
  PROVE  ElfInv'
<1>1. CASE FindSymtab
  BY <1>1, FindSymtabStep
<1>2. CASE FindDynstr
  BY <1>2, FindDynstrStep
<1>3. CASE FindDynamic
  BY <1>3, FindDynamicStep
<1>4. CASE ReadDyn
  BY <1>4, ReadDynStep
<1>5. CASE BeginForeach
  BY <1>5, BeginForeachStep
<1>6. CASE GetSymbol
  BY <1>6, GetSymbolStep
<1>7. CASE DemangleOn
  BY <1>7, DemangleOnStep
<1>8. CASE GiveSymbol
  BY <1>8, GiveSymbolStep
<1>9. CASE EndForeach
  BY <1>9, EndForeachStep
<1>10. CASE UNCHANGED vars
  BY <1>10, StutterElfInv
<1> QED
  BY <1>1, <1>2, <1>3, <1>4, <1>5, <1>6, <1>7, <1>8, <1>9, <1>10 DEF Next

(* The conjuncts of ElfInv hold in every state the two functions reach     *)
(* (symtab_elf.c:30-91, demangle.c:6-50).                                  *)
THEOREM ElfInvariant == Spec => []ElfInv
<1>1. Init => ElfInv
  BY InitElfInv
<1>2. ElfInv /\ [Next]_vars => ElfInv'
  BY NextElfInv
<1> QED
  BY <1>1, <1>2, PTL DEF Spec

(* Sections are sections of the file, depends has no entry too many, and   *)
(* buffers and texts are what they should be (symtab_elf.c:30-91).         *)
THEOREM ElfTypeCorrect == Spec => []TypeOK
<1>1. ElfInv => TypeOK
  BY DEF ElfInv
<1> QED
  BY <1>1, ElfInvariant, PTL

(* fixup_templates never writes behind its buffer, one byte too small for  *)
(* a text without gaps, whatever the names are (demangle.c:10-20).         *)
THEOREM CopyStaysInBuffer == Spec => []WritesInBuffer
<1>1. ElfInv => WritesInBuffer
  BY InvWritesInBuffer DEF ElfInv
<1> QED
  BY <1>1, ElfInvariant, PTL

(* The names shown are the demangled ones with every "> >" closed up, for  *)
(* texts of any length (demangle.c:4-50).                                  *)
THEOREM NamesRewritten == Spec => []RewritesEveryClosing
<1>1. ElfInv => RewritesEveryClosing
  BY DEF ElfInv
<1> QED
  BY <1>1, ElfInvariant, PTL

(* depends is what the file needs, for any .dynamic and any number of      *)
(* libraries (symtab_elf.c:62-71).                                         *)
THEOREM DependsCorrect == Spec => []DependsAreNeeded
<1>1. ElfInv => DependsAreNeeded
  BY DEF ElfInv
<1> QED
  BY <1>1, ElfInvariant, PTL

(* The callback sees all of .symtab, for symbol tables of any length       *)
(* (symtab_elf.c:74-91).                                                   *)
THEOREM CallbackSeesSymtab == Spec => []SymbolsGiven
<1>1. ASSUME ElfInv, status = "listed", SymbolsSound
      PROVE  IF Stripped THEN given = <<>>
             ELSE /\ Len(given) = Len(TheSymtab.syms)
                  /\ \A k \in 1 .. Len(given) : GivenIs(k)
  <2>1. CASE Stripped
    BY <1>1, <2>1 DEF ElfInv, Listed, InForeach
  <2>2. CASE ~Stripped
    <3>1. /\ Len(given) = i - 1 /\ i <= Len(TheSymtab.syms) + 1 /\ i > Len(TheSymtab.syms)
          /\ \A k \in 1 .. i - 1 : GivenIs(k)
      BY <1>1, <2>2 DEF ElfInv, Listed, InForeach
    <3>2. Len(TheSymtab.syms) \in Nat /\ i \in Nat
      BY <1>1, <2>2, FoundFacts DEF ElfInv, TypeOK, TheSymtab, Stripped, SectionType
    <3>3. Len(given) = Len(TheSymtab.syms)
      BY <3>1, <3>2
    <3> QED
      BY <2>2, <3>1, <3>3
  <2> QED
    BY <2>1, <2>2
<1>2. ElfInv => SymbolsGiven
  BY <1>1 DEF SymbolsGiven, GivenIs
<1> QED
  BY <1>2, ElfInvariant, PTL

(* A file a linker made is loaded, or stops the program for one of the two *)
(* reasons the property names, whatever the limit (symtab_elf.c:38-71).    *)
THEOREM SoundFilesLoad == Spec => []SoundFileLoads
<1>1. ElfInv => SoundFileLoads
  BY DEF ElfInv
<1> QED
  BY <1>1, ElfInvariant, PTL
==============================================================================
