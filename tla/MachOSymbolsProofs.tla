------------------------- MODULE MachOSymbolsProofs -------------------------
(***************************************************************************)
(* Proofs about MachOSymbols for every image and every word size: types,   *)
(* which symbols are given to the callback, when the assertions stop the   *)
(* program, and that a typeinfo object is taken for the kind that dyld's   *)
(* writes make it.                                                         *)
(***************************************************************************)
EXTENDS MachOSymbols, Counting

LEMMA ImageParts ==
  ASSUME TypeOK
  PROVE  /\ image.nlists \in Seq(Nlist) /\ Len(image.nlists) \in Nat
         /\ image.ext_relocs \in Seq(RelocationInfo) /\ Len(image.ext_relocs) \in Nat
         /\ image.dbi \in Seq(BindInfo) /\ Len(image.dbi) \in Nat
<1>1. ImageType(image)
  BY ImageAssumption DEF TypeOK
<1>2. /\ image.nlists \in Seq(Nlist)
      /\ image.ext_relocs \in Seq(RelocationInfo)
      /\ image.dbi \in Seq(BindInfo)
  BY <1>1 DEF ImageType
<1> QED
  BY <1>2

LEMMA NlistParts ==
  ASSUME TypeOK, NEW k \in 1 .. Len(image.nlists)
  PROVE  /\ image.nlists[k].name \in SymName
         /\ Unprefixed[image.nlists[k].name] \in SymName
         /\ image.nlists[k].type \in NlistTypes
         /\ SymAddr(image.nlists[k]) \in UInt
<1>1. image.nlists[k] \in Nlist
  BY ImageParts
<1>2. image.nlists[k].name \in SymName /\ image.nlists[k].type \in NlistTypes
      /\ image.nlists[k].value \in UInt
  BY <1>1 DEF Nlist
<1>3. 0 \in UInt
  BY WordAssumption DEF UInt
<1>4. SymAddr(image.nlists[k]) \in UInt
  BY <1>2, <1>3 DEF SymAddr
<1> QED
  BY <1>2, <1>4, UnprefixedAssumption

LEMMA RelocParts ==
  ASSUME TypeOK, NEW k \in 1 .. Len(image.ext_relocs)
  PROVE  image.ext_relocs[k].r_symbolnum \in Nat /\ image.ext_relocs[k].r_address \in UInt
<1>1. image.ext_relocs[k] \in RelocationInfo
  BY ImageParts
<1> QED
  BY <1>1 DEF RelocationInfo

LEMMA Cut ==
  ASSUME NEW n \in Nat
  PROVE  n % Word \in UInt
BY WordAssumption DEF UInt

LEMMA BindParts ==
  ASSUME TypeOK, NEW k \in 1 .. Len(image.dbi)
  PROVE  /\ image.dbi[k].symbolname \in SymName \cup {None}
         /\ BoundValue(image.dbi[k]) \in UInt
<1>1. image.dbi[k] \in BindInfo
  BY ImageParts
<1>2. /\ image.dbi[k].address \in Nat /\ image.dbi[k].addend \in Nat
      /\ image.dbi[k].symbolname \in SymName \cup {None}
  BY <1>1 DEF BindInfo
<1>3. image.dbi[k].address + image.dbi[k].addend \in Nat
  BY <1>2
<1> QED
  BY <1>2, <1>3, Cut DEF BoundValue

------------------------------------------------------------------------------
(* The invariant. *)

(* A lookup has no answer yet, and what it has come by did not match.      *)
Searched ==
  /\ mode \in {"listing", "relocs", "binds", "failed"} => answer = None
  /\ mode = "relocs" =>
       \A k \in 1 .. Len(image.ext_relocs) : k < i => ~RelocMatches(image.ext_relocs[k])
  /\ mode = "binds" =>
       /\ image.has_dyld_info
       /\ \A k \in 1 .. Len(image.ext_relocs) : ~RelocMatches(image.ext_relocs[k])
       /\ \A k \in 1 .. Len(image.dbi) : k < i => image.dbi[k].address # addr

SymbolsInv ==
  /\ TypeOK
  /\ SoundImageAnswered
  /\ Searched
  /\ KindIsWhatDyldStores
  /\ GivesLocalSymbols

(* What the answers have for a type. *)
LEMMA FoundType ==
  ASSUME TypeOK, NEW name \in SymName, NEW value \in UInt, Found(name, value)
  PROVE  TypeOK'
<1>1. "?" \in Kinds /\ \A n \in DOMAIN VtableKind : VtableKind[n] \in Kinds
  BY DEF Kinds
<1>2. answer' \in Answer
  BY <1>1 DEF Found, Answer
<1> QED
  BY <1>2 DEF Found, TypeOK, Modes

LEMMA NotFoundType ==
  ASSUME TypeOK, NotFound
  PROVE  TypeOK'
<1>1. "?" \in Kinds /\ 0 \in UInt
  BY WordAssumption DEF Kinds, UInt
<1>2. answer' \in Answer
  BY <1>1 DEF NotFound, Answer
<1> QED
  BY <1>2 DEF NotFound, TypeOK, Modes

(* A step with the same image keeps the reason it stops for, if it stopped. *)
LEMMA RunsOn ==
  ASSUME image' = image, mode' # "failed"
  PROVE  SoundImageAnswered'
BY DEF SoundImageAnswered

LEMMA NothingAnswered ==
  ASSUME answer' = None
  PROVE  KindIsWhatDyldStores'
BY DEF KindIsWhatDyldStores

------------------------------------------------------------------------------
(* What dyld writes to the object asked about. *)

(* With one write to a place, the kind is that of its name. *)
LEMMA StoredIs ==
  ASSUME OnePerPlace, NEW w \in Writes, w.name # None
  PROVE  StoredKind(w.at) = IF Unprefixed[w.name] \in DOMAIN VtableKind
                            THEN VtableKind[Unprefixed[w.name]] ELSE "?"
<1> DEFINE names == {Unprefixed[v.name] : v \in {u \in Writes : u.at = w.at /\ u.name # None}}
           known == names \cap DOMAIN VtableKind
<1>1. {u \in Writes : u.at = w.at /\ u.name # None} = {w}
  BY DEF OnePerPlace
<1>2. names = {Unprefixed[w.name]}
  BY <1>1
<1>3. StoredKind(w.at) = IF known = {} THEN "?" ELSE VtableKind[CHOOSE name \in known : TRUE]
  BY DEF StoredKind
<1> HIDE DEF names
<1>4. CASE Unprefixed[w.name] \in DOMAIN VtableKind
  <2>1. known = {Unprefixed[w.name]}
    BY <1>2, <1>4
  <2>2. (CHOOSE name \in known : TRUE) \in known
    BY <2>1
  <2>3. known # {} /\ (CHOOSE name \in known : TRUE) = Unprefixed[w.name]
    BY <2>1, <2>2
  <2> QED
    BY <1>3, <1>4, <2>3
<1>5. CASE Unprefixed[w.name] \notin DOMAIN VtableKind
  <2>1. known = {}
    BY <1>2, <1>5
  <2> QED
    BY <1>3, <1>5, <2>1
<1> QED
  BY <1>4, <1>5

LEMMA NothingStored ==
  ASSUME NEW a, \A w \in Writes : w.at # a
  PROVE  StoredKind(a) = "?"
<1>1. {v \in Writes : v.at = a /\ v.name # None} = {}
  OBVIOUS
<1>2. {Unprefixed[w.name] : w \in {v \in Writes : v.at = a /\ v.name # None}} \cap DOMAIN VtableKind = {}
  BY <1>1
<1> QED
  BY <1>2 DEF StoredKind

(* An image at address 0: the relocations the lookup matches are those     *)
(* that write to the object.                                               *)
LEMMA RelocWritesAt ==
  ASSUME TypeOK, image.first_vmaddr = 0, NEW w \in RelocWrites, w.at = addr
  PROVE  \E k \in 1 .. Len(image.ext_relocs) :
           RelocMatches(image.ext_relocs[k]) /\ w.index = image.ext_relocs[k].r_symbolnum + 1
<1>1. PICK k \in 1 .. Len(image.ext_relocs) :
        /\ image.ext_relocs[k].r_extern = 1
        /\ image.ext_relocs[k].r_type = 0
        /\ image.ext_relocs[k].r_length = 2
        /\ w = [at |-> image.first_vmaddr + image.ext_relocs[k].r_address,
                index |-> image.ext_relocs[k].r_symbolnum + 1]
  BY DEF RelocWrites
<1>2. image.ext_relocs[k].r_address \in Int
  BY RelocParts, WordAssumption DEF UInt
<1>3. 0 + image.ext_relocs[k].r_address = image.ext_relocs[k].r_address
  BY <1>2
<1>4. w.at = image.ext_relocs[k].r_address /\ w.index = image.ext_relocs[k].r_symbolnum + 1
  BY <1>1, <1>3
<1> QED
  BY <1>1, <1>4 DEF RelocMatches

LEMMA MatchWrites ==
  ASSUME TypeOK, image.first_vmaddr = 0, NEW k \in 1 .. Len(image.ext_relocs),
         RelocMatches(image.ext_relocs[k])
  PROVE  [at |-> addr, index |-> image.ext_relocs[k].r_symbolnum + 1] \in RelocWrites
<1>1. image.ext_relocs[k].r_address \in Int
  BY RelocParts, WordAssumption DEF UInt
<1>2. 0 + image.ext_relocs[k].r_address = image.ext_relocs[k].r_address
  BY <1>1
<1>3. image.first_vmaddr + image.ext_relocs[k].r_address = addr
  BY <1>2 DEF RelocMatches
<1>4. k \in {j \in 1 .. Len(image.ext_relocs) :
              /\ image.ext_relocs[j].r_extern = 1
              /\ image.ext_relocs[j].r_type = 0
              /\ image.ext_relocs[j].r_length = 2}
  BY DEF RelocMatches
<1>5. [at |-> image.first_vmaddr + image.ext_relocs[k].r_address,
       index |-> image.ext_relocs[k].r_symbolnum + 1] \in RelocWrites
  BY <1>4 DEF RelocWrites
<1> QED
  BY <1>3, <1>5

LEMMA WritesKept ==
  ASSUME image' = image
  PROVE  /\ RelocWrites' = RelocWrites
         /\ OnePerPlace' <=> OnePerPlace
         /\ \A a : StoredKind(a)' = StoredKind(a)
<1>1. RelocWrites' = RelocWrites
  BY DEF RelocWrites
<1>2. Writes' = Writes
  BY <1>1 DEF Writes
<1>3. OnePerPlace' <=> OnePerPlace
  BY <1>2 DEF OnePerPlace
<1>4. \A a : StoredKind(a)' = StoredKind(a)
  BY <1>2 DEF StoredKind
<1> QED
  BY <1>1, <1>3, <1>4

(* The answer is the kind stored. *)
LEMMA AnswerStored ==
  ASSUME image' = image, addr' = addr,
         image.first_vmaddr = 0 /\ OnePerPlace => answer'.kind = StoredKind(addr)
  PROVE  KindIsWhatDyldStores'
<1>1. image'.first_vmaddr = 0 /\ OnePerPlace' => answer'.kind = StoredKind(addr)
  BY WritesKept
<1>2. \A a : a = addr' => StoredKind(a)' = StoredKind(addr)
  BY WritesKept
<1> QED
  BY <1>1, <1>2 DEF KindIsWhatDyldStores

------------------------------------------------------------------------------
(* What the callback has been given.                                       *)

Rank(k) == Cardinality(LocalSymbols \cap (1 .. k))

(* The entry GivesLocalSymbols wants for a symbol.                         *)
IsGiven(entry, sym) ==
  /\ entry.name = Unprefixed[sym.name]
  /\ entry.addr = (IF sym.type \in {"abs", "sect"} THEN sym.value ELSE 0)

LEMMA GivesLocalSymbolsIs ==
  GivesLocalSymbols <=>
    (mode # "failed" =>
       LET come_by == IF mode = "listing" THEN i - 1 ELSE Len(image.nlists)
       IN  /\ Len(given) = Rank(come_by)
           /\ \A k \in LocalSymbols \cap (1 .. come_by) : IsGiven(given[Rank(k)], image.nlists[k]))
BY DEF GivesLocalSymbols, Rank, IsGiven

LEMMA LocalsKept ==
  ASSUME image' = image
  PROVE  /\ LocalSymbols' = LocalSymbols
         /\ \A k : Rank(k)' = Rank(k)
<1>1. LocalSymbols' = LocalSymbols
  BY DEF LocalSymbols
<1> QED
  BY <1>1 DEF Rank

(* After the listing nothing is added.                                     *)
LEMMA GivenKept ==
  ASSUME GivesLocalSymbols, image' = image, given' = given,
         mode \notin {"listing", "failed"}, mode' # "listing"
  PROVE  GivesLocalSymbols'
<1> DEFINE Complete == /\ Len(given) = Rank(Len(image.nlists))
                       /\ \A k \in LocalSymbols \cap (1 .. Len(image.nlists)) : IsGiven(given[Rank(k)], image.nlists[k])
<1>1. Complete
  BY GivesLocalSymbolsIs
<1>2. Complete'
  BY <1>1, LocalsKept
<1> QED
  BY <1>2 DEF GivesLocalSymbols, Rank, IsGiven

LEMMA ListSymbolGives ==
  ASSUME TypeOK, GivesLocalSymbols, ListSymbol
  PROVE  GivesLocalSymbols'
<1> DEFINE sym == image.nlists[i]
           entry == [addr |-> SymAddr(sym), name |-> Unprefixed[sym.name]]
           Given == [addr : UInt, name : SymName]
<1>1. /\ mode = "listing" /\ i <= Len(image.nlists) /\ i \in Nat \ {0} /\ image' = image
      /\ given \in Seq(Given)
  BY DEF ListSymbol, TypeOK, Fails
<1>2. i \in 1 .. Len(image.nlists) /\ i + 1 - 1 = i /\ i - 1 \in Nat
  BY <1>1, ImageParts
<1>3. /\ Len(given) = Rank(i - 1)
      /\ \A k \in LocalSymbols \cap (1 .. i - 1) : IsGiven(given[Rank(k)], image.nlists[k])
  BY <1>1, GivesLocalSymbolsIs
<1>4. /\ Rank(i - 1) \in Nat
      /\ i \in LocalSymbols => Rank(i) = Rank(i - 1) + 1
      /\ i \notin LocalSymbols => Rank(i) = Rank(i - 1)
  BY <1>1, RankStep DEF Rank
<1>5. \A k \in LocalSymbols \cap (1 .. i) : k = i \/ k \in LocalSymbols \cap (1 .. i - 1)
  BY <1>1
<1>6. ASSUME mode' = "listing", i' = i + 1, Len(given') = Rank(i),
             \A k \in LocalSymbols \cap (1 .. i) : IsGiven(given'[Rank(k)], image.nlists[k])
      PROVE  GivesLocalSymbols'
  <2>1. LocalSymbols' = LocalSymbols /\ image' = image
    BY <1>1, LocalsKept
  <2>2. i' - 1 = i
    BY <1>2, <1>6
  <2>3. /\ Len(given') = Cardinality(LocalSymbols' \cap (1 .. i' - 1))
        /\ \A k \in LocalSymbols' \cap (1 .. i' - 1) :
             IsGiven(given'[Cardinality(LocalSymbols' \cap (1 .. k))], image'.nlists[k])
    BY <1>6, <2>1, <2>2 DEF Rank
  <2> QED
    BY <1>6, <2>3 DEF GivesLocalSymbols, IsGiven
<1>7. CASE Skipped(sym) /\ i' = i + 1 /\ UNCHANGED <<image, mode, given, addr, answer>>
  <2>1. i \notin LocalSymbols
    BY <1>7 DEF Skipped, LocalSymbols
  <2>2. \A k \in LocalSymbols \cap (1 .. i) : IsGiven(given[Rank(k)], image.nlists[k])
    BY <1>3, <1>5, <2>1
  <2>3. Len(given') = Rank(i)
    BY <1>3, <1>4, <1>7, <2>1
  <2> QED
    BY <1>1, <1>6, <1>7, <2>2, <2>3
<1>8. CASE /\ ~Skipped(sym) /\ HasAddr(sym) /\ sym.type # "indr"
           /\ given' = Append(given, entry)
           /\ i' = i + 1
           /\ UNCHANGED <<image, mode, addr, answer>>
  <2>1. i \in LocalSymbols
    BY <1>2, <1>8 DEF Skipped, LocalSymbols
  <2>2. entry \in Given
    BY <1>2, NlistParts
  <2>3. /\ Len(given) \in Nat
        /\ Len(given') = Len(given) + 1
        /\ given'[Len(given) + 1] = entry
        /\ \A k \in 1 .. Len(given) : given'[k] = given[k]
    <3> HIDE DEF entry, Given
    <3> QED
      BY <1>1, <1>8, <2>2, AppendFacts
  <2>4. Len(given') = Rank(i) /\ Rank(i) = Len(given) + 1
    BY <1>3, <1>4, <2>1, <2>3
  <2>5. IsGiven(entry, sym)
    <3>1. sym.type \in NlistTypes /\ ~sym.stab
      BY <1>2, <1>8, NlistParts DEF Skipped
    <3>2. SymAddr(sym) = (IF sym.type \in {"abs", "sect"} THEN sym.value ELSE 0)
      BY <1>8, <3>1 DEF SymAddr, HasAddr, NlistTypes
    <3> QED
      BY <3>2 DEF IsGiven
  <2>6. ASSUME NEW k \in LocalSymbols \cap (1 .. i)
        PROVE  IsGiven(given'[Rank(k)], image.nlists[k])
    <3>1. CASE k = i
      BY <2>3, <2>4, <2>5, <3>1
    <3>2. CASE k \in LocalSymbols \cap (1 .. i - 1)
      <4>1. Rank(k) \in 1 .. Rank(i - 1)
        BY <1>2, <3>2, RankBounds DEF Rank
      <4>2. given'[Rank(k)] = given[Rank(k)]
        BY <1>3, <2>3, <4>1
      <4> QED
        BY <1>3, <3>2, <4>2
    <3> QED
      BY <1>5, <3>1, <3>2
  <2> QED
    BY <1>1, <1>6, <1>8, <2>4, <2>6
<1>9. CASE Fails
  BY <1>9 DEF Fails, GivesLocalSymbols
<1> QED
  BY <1>7, <1>8, <1>9 DEF ListSymbol

LEMMA EndListingGives ==
  ASSUME TypeOK, GivesLocalSymbols, EndListing
  PROVE  GivesLocalSymbols'
<1>1. /\ mode = "listing" /\ i > Len(image.nlists) /\ i \in Nat \ {0}
      /\ mode' = "idle" /\ image' = image /\ given' = given
  BY DEF EndListing, TypeOK
<1>2. Len(image.nlists) \in Nat
  BY ImageParts
<1>3. LocalSymbols \cap (1 .. i - 1) = LocalSymbols \cap (1 .. Len(image.nlists))
  BY <1>1, <1>2 DEF LocalSymbols
<1>4. /\ Len(given) = Cardinality(LocalSymbols \cap (1 .. i - 1))
      /\ \A k \in LocalSymbols \cap (1 .. i - 1) : IsGiven(given[Rank(k)], image.nlists[k])
  BY <1>1, GivesLocalSymbolsIs DEF Rank
<1>5. /\ Len(given) = Rank(Len(image.nlists))
      /\ \A k \in LocalSymbols \cap (1 .. Len(image.nlists)) : IsGiven(given[Rank(k)], image.nlists[k])
  BY <1>3, <1>4 DEF Rank
<1>6. /\ Len(given') = Rank(Len(image.nlists))'
      /\ \A k \in LocalSymbols' \cap (1 .. Len(image'.nlists)) : IsGiven(given'[Rank(k)'], image'.nlists[k])
  BY <1>1, <1>5, LocalsKept
<1> QED
  BY <1>1, <1>6 DEF GivesLocalSymbols, Rank, IsGiven

(* The lookups do not touch what was given.                                *)
LEMMA LookupsGiveNothing ==
  ASSUME GivesLocalSymbols,
         AskAbout \/ TryReloc \/ EndRelocs \/ TryBind \/ EndBinds
  PROVE  GivesLocalSymbols'
<1>1. /\ image' = image /\ given' = given
      /\ mode \notin {"listing", "failed"} /\ mode' # "listing"
  BY DEF AskAbout, TryReloc, EndRelocs, TryBind, EndBinds, Found, NotFound, Fails
<1> QED
  BY <1>1, GivenKept

------------------------------------------------------------------------------
(* The steps. *)

LEMMA ListSymbolStep ==
  ASSUME SymbolsInv, ListSymbol
  PROVE  SymbolsInv'
<1> DEFINE sym == image.nlists[i]
<1>0. GivesLocalSymbols'
  BY ListSymbolGives DEF SymbolsInv
<1>1. /\ TypeOK /\ mode = "listing" /\ i <= Len(image.nlists) /\ i \in Nat \ {0}
      /\ answer = None /\ image' = image /\ addr' = addr /\ answer' = None
      /\ given \in Seq([addr : UInt, name : SymName])
  BY DEF SymbolsInv, ListSymbol, Searched, TypeOK, Fails
<1>2. i \in 1 .. Len(image.nlists)
  BY <1>1, ImageParts
<1>3. sym.type \in NlistTypes /\ SymAddr(sym) \in UInt /\ Unprefixed[sym.name] \in SymName
  BY <1>1, <1>2, NlistParts
<1>4. CASE Skipped(sym) /\ i' = i + 1 /\ UNCHANGED <<image, mode, given, addr, answer>>
  <2>1. i' \in Nat \ {0} /\ given' = given /\ mode' = "listing"
    BY <1>1, <1>4
  <2>2. TypeOK'
    BY <1>1, <2>1 DEF TypeOK
  <2>3. Searched'
    BY <1>1, <2>1 DEF Searched
  <2> QED
    BY <1>0, <1>1, <2>1, <2>2, <2>3, RunsOn, NothingAnswered DEF SymbolsInv
<1>5. CASE /\ given' = Append(given, [addr |-> SymAddr(sym), name |-> Unprefixed[sym.name]])
           /\ i' = i + 1
           /\ UNCHANGED <<image, mode, addr, answer>>
  <2>1. i' \in Nat \ {0} /\ mode' = "listing"
    BY <1>1, <1>5
  <2>2. given' \in Seq([addr : UInt, name : SymName])
    <3>1. [addr |-> SymAddr(sym), name |-> Unprefixed[sym.name]] \in [addr : UInt, name : SymName]
      BY <1>3
    <3> QED
      BY <1>1, <1>5, <3>1
  <2>3. TypeOK'
    BY <1>1, <2>1, <2>2 DEF TypeOK
  <2>4. Searched'
    BY <1>1, <2>1 DEF Searched
  <2> QED
    BY <1>0, <1>1, <2>1, <2>3, <2>4, RunsOn, NothingAnswered DEF SymbolsInv
<1>6. CASE ~Skipped(sym) /\ ~(HasAddr(sym) /\ sym.type # "indr") /\ Fails
  <2>1. mode' = "failed" /\ UNCHANGED <<image, i, given, addr, answer>>
    BY <1>6 DEF Fails
  <2>2. ~sym.ext /\ ~sym.stab /\ sym.type \in {"indr", "other"}
    BY <1>6 DEF Skipped, HasAddr
  <2>3. TypeOK' /\ Searched'
    BY <1>1, <2>1 DEF TypeOK, Modes, Searched
  <2>4. SoundImageAnswered'
    BY <1>1, <1>2, <2>2 DEF SoundImageAnswered
  <2> QED
    BY <1>0, <1>1, <2>3, <2>4, NothingAnswered DEF SymbolsInv
<1> QED
  BY <1>4, <1>5, <1>6 DEF ListSymbol

LEMMA EndListingStep ==
  ASSUME SymbolsInv, EndListing
  PROVE  SymbolsInv'
<1>0. GivesLocalSymbols'
  BY EndListingGives DEF SymbolsInv
<1>1. /\ TypeOK /\ mode' = "idle" /\ answer = None
      /\ UNCHANGED <<image, i, given, addr, answer>>
  BY DEF SymbolsInv, EndListing, Searched
<1>2. TypeOK' /\ Searched'
  BY <1>1 DEF TypeOK, Modes, Searched
<1> QED
  BY <1>0, <1>1, <1>2, RunsOn, NothingAnswered DEF SymbolsInv

LEMMA AskAboutStep ==
  ASSUME SymbolsInv, AskAbout
  PROVE  SymbolsInv'
<1>0. GivesLocalSymbols'
  BY LookupsGiveNothing DEF SymbolsInv
<1>1. /\ TypeOK /\ mode' = "relocs" /\ answer' = None /\ i' = 1
      /\ UNCHANGED <<image, given>>
  BY DEF SymbolsInv, AskAbout
<1>2. PICK k \in 1 .. Len(given) : addr' = given[k].addr
  BY DEF AskAbout
<1>3. addr' \in UInt
  <2> DEFINE Symbols == [addr : UInt, name : SymName]
  <2>1. given \in Seq(Symbols)
    BY <1>1 DEF TypeOK
  <2> HIDE DEF Symbols
  <2>2. given[k] \in Symbols
    BY <2>1
  <2> QED
    BY <1>2, <2>2 DEF Symbols
<1>4. TypeOK'
  BY <1>1, <1>3 DEF TypeOK, Modes
<1>5. Searched'
  <2>1. \A m \in 1 .. Len(image'.ext_relocs) : ~(m < 1)
    OBVIOUS
  <2> QED
    BY <1>1, <2>1 DEF Searched
<1> QED
  BY <1>0, <1>1, <1>4, <1>5, RunsOn, NothingAnswered DEF SymbolsInv

LEMMA TryRelocStep ==
  ASSUME SymbolsInv, TryReloc
  PROVE  SymbolsInv'
<1> DEFINE reloc == image.ext_relocs[i]
           index == reloc.r_symbolnum + 1
<1>0. GivesLocalSymbols'
  BY LookupsGiveNothing DEF SymbolsInv
<1>1. /\ TypeOK /\ mode = "relocs" /\ i <= Len(image.ext_relocs) /\ i \in Nat \ {0}
      /\ answer = None
      /\ \A k \in 1 .. Len(image.ext_relocs) : k < i => ~RelocMatches(image.ext_relocs[k])
  BY DEF SymbolsInv, TryReloc, Searched, TypeOK
<1>2. i \in 1 .. Len(image.ext_relocs) /\ Len(image.nlists) \in Nat
  BY <1>1, ImageParts
<1>3. index \in Nat \ {0}
  BY <1>1, <1>2, RelocParts
<1>4. CASE ~RelocMatches(reloc) /\ i' = i + 1 /\ UNCHANGED <<image, mode, given, addr, answer>>
  <2>1. TypeOK' /\ mode' = "relocs" /\ image' = image /\ answer' = None
    BY <1>1, <1>4 DEF TypeOK
  <2>2. \A k \in 1 .. Len(image.ext_relocs) : k < i + 1 => k < i \/ k = i
    BY <1>1
  <2>3. \A r : RelocMatches(r)' <=> RelocMatches(r)
    BY <1>4 DEF RelocMatches
  <2>4. \A k \in 1 .. Len(image.ext_relocs) : k < i + 1 => ~RelocMatches(image.ext_relocs[k])
    BY <1>1, <1>4, <2>2
  <2>5. Searched'
    BY <1>4, <2>1, <2>3, <2>4 DEF Searched
  <2> QED
    BY <1>0, <2>1, <2>5, RunsOn, NothingAnswered DEF SymbolsInv
<1>5. CASE /\ RelocMatches(reloc) /\ index <= Len(image.nlists) /\ HasAddr(image.nlists[index])
           /\ Found(Unprefixed[image.nlists[index].name], SymAddr(image.nlists[index]))
  <2> DEFINE name == Unprefixed[image.nlists[index].name]
  <2>1. index \in 1 .. Len(image.nlists)
    BY <1>2, <1>3, <1>5
  <2>2. name \in SymName /\ SymAddr(image.nlists[index]) \in UInt /\ image.nlists[index].name # None
    BY <1>1, <2>1, NlistParts, NoneAssumption
  <2>3. TypeOK'
    BY <1>1, <1>5, <2>2, FoundType
  <2>4. /\ mode' = "idle" /\ image' = image /\ addr' = addr
        /\ answer'.kind = IF name \in DOMAIN VtableKind THEN VtableKind[name] ELSE "?"
    BY <1>5 DEF Found
  <2>5. ASSUME image.first_vmaddr = 0, OnePerPlace
        PROVE  answer'.kind = StoredKind(addr)
    <3> DEFINE w == [at |-> addr, name |-> image.nlists[index].name]
    <3>1. [at |-> addr, index |-> index] \in RelocWrites
      BY <1>1, <1>2, <1>5, <2>5, MatchWrites
    <3>2. w \in Writes
      <4> DEFINE v == [at |-> addr, index |-> index]
      <4>1. v \in {u \in RelocWrites : u.index <= Len(image.nlists)}
        BY <1>5, <3>1
      <4>2. [at |-> v.at, name |-> image.nlists[v.index].name] \in Writes
        BY <4>1 DEF Writes
      <4> QED
        BY <4>2
    <3>3. w.name # None /\ w.at = addr /\ Unprefixed[w.name] = name
      BY <2>2
    <3> HIDE DEF w, name
    <3> QED
      BY <2>4, <2>5, <3>2, <3>3, StoredIs
  <2>6. KindIsWhatDyldStores'
    BY <2>4, <2>5, AnswerStored
  <2> QED
    BY <1>0, <2>3, <2>4, <2>6, RunsOn DEF SymbolsInv, Searched
<1>6. CASE /\ RelocMatches(reloc)
           /\ index <= Len(image.nlists) => ~HasAddr(image.nlists[index])
           /\ Fails
  <2>1. mode' = "failed" /\ UNCHANGED <<image, i, given, addr, answer>>
    BY <1>6 DEF Fails
  <2>2. TypeOK' /\ Searched'
    BY <1>1, <2>1 DEF TypeOK, Modes, Searched
  <2>3. SoundImageAnswered'
    <3> DEFINE w == [at |-> image.first_vmaddr + reloc.r_address, index |-> index]
    <3>1. i \in {j \in 1 .. Len(image.ext_relocs) :
                  /\ image.ext_relocs[j].r_extern = 1
                  /\ image.ext_relocs[j].r_type = 0
                  /\ image.ext_relocs[j].r_length = 2}
      BY <1>2, <1>6 DEF RelocMatches
    <3>2. w \in RelocWrites /\ w.index = index
      BY <3>1 DEF RelocWrites
    <3>3. index > Len(image.nlists) \/ image.nlists[index].type \in {"indr", "other"}
      <4>1. index > Len(image.nlists) \/ index <= Len(image.nlists)
        BY <1>2, <1>3
      <4> QED
        BY <1>6, <4>1 DEF HasAddr
    <3>4. RelocWrites' = RelocWrites /\ image' = image
      BY <2>1, WritesKept
    <3> QED
      BY <3>2, <3>3, <3>4 DEF SoundImageAnswered
  <2> QED
    BY <1>0, <1>1, <2>1, <2>2, <2>3, NothingAnswered DEF SymbolsInv
<1> QED
  BY <1>4, <1>5, <1>6 DEF TryReloc

(* Nothing was found in either list, so nothing is stored. *)
LEMMA NoWrite ==
  ASSUME TypeOK, image.first_vmaddr = 0,
         \A k \in 1 .. Len(image.ext_relocs) : ~RelocMatches(image.ext_relocs[k]),
         image.has_dyld_info => \A k \in 1 .. Len(image.dbi) : image.dbi[k].address # addr
  PROVE  StoredKind(addr) = "?"
<1>1. \A w \in RelocWrites : w.at # addr
  BY RelocWritesAt
<1>2. \A w \in Writes : w.at # addr
  BY <1>1 DEF Writes
<1> QED
  BY <1>2, NothingStored

LEMMA EndRelocsStep ==
  ASSUME SymbolsInv, EndRelocs
  PROVE  SymbolsInv'
<1>0. GivesLocalSymbols'
  BY LookupsGiveNothing DEF SymbolsInv
<1>1. /\ TypeOK /\ mode = "relocs" /\ i > Len(image.ext_relocs) /\ i \in Nat \ {0}
      /\ answer = None
      /\ \A k \in 1 .. Len(image.ext_relocs) : k < i => ~RelocMatches(image.ext_relocs[k])
  BY DEF SymbolsInv, EndRelocs, Searched, TypeOK
<1>2. \A k \in 1 .. Len(image.ext_relocs) : ~RelocMatches(image.ext_relocs[k])
  <2>1. Len(image.ext_relocs) \in Nat
    BY <1>1, ImageParts
  <2>2. \A k \in 1 .. Len(image.ext_relocs) : k < i
    BY <1>1, <2>1
  <2> QED
    BY <1>1, <2>2
<1>3. CASE /\ image.has_dyld_info /\ mode' = "binds" /\ i' = 1
           /\ UNCHANGED <<image, given, addr, answer>>
  <2>1. TypeOK' /\ answer' = None /\ image' = image /\ mode' = "binds"
    BY <1>1, <1>3 DEF TypeOK, Modes
  <2>2. \A r : RelocMatches(r)' <=> RelocMatches(r)
    BY <1>3 DEF RelocMatches
  <2>3. \A k \in 1 .. Len(image.dbi) : ~(k < 1)
    OBVIOUS
  <2>4. Searched'
    BY <1>2, <1>3, <2>1, <2>2, <2>3 DEF Searched
  <2> QED
    BY <1>0, <2>1, <2>4, RunsOn, NothingAnswered DEF SymbolsInv
<1>4. CASE ~image.has_dyld_info /\ NotFound
  <2>1. TypeOK'
    BY <1>1, <1>4, NotFoundType
  <2>2. mode' = "idle" /\ image' = image /\ addr' = addr /\ answer'.kind = "?"
    BY <1>4 DEF NotFound
  <2>3. image.first_vmaddr = 0 => StoredKind(addr) = "?"
    BY <1>1, <1>2, <1>4, NoWrite
  <2>4. KindIsWhatDyldStores'
    BY <2>2, <2>3, AnswerStored
  <2> QED
    BY <1>0, <2>1, <2>2, <2>4, RunsOn DEF SymbolsInv, Searched
<1> QED
  BY <1>3, <1>4 DEF EndRelocs

LEMMA TryBindStep ==
  ASSUME SymbolsInv, TryBind
  PROVE  SymbolsInv'
<1> DEFINE info == image.dbi[i]
<1>0. GivesLocalSymbols'
  BY LookupsGiveNothing DEF SymbolsInv
<1>1. /\ TypeOK /\ mode = "binds" /\ i <= Len(image.dbi) /\ i \in Nat \ {0}
      /\ answer = None /\ image.has_dyld_info
      /\ \A k \in 1 .. Len(image.ext_relocs) : ~RelocMatches(image.ext_relocs[k])
      /\ \A k \in 1 .. Len(image.dbi) : k < i => image.dbi[k].address # addr
  BY DEF SymbolsInv, TryBind, Searched, TypeOK
<1>2. i \in 1 .. Len(image.dbi)
  BY <1>1, ImageParts
<1>3. CASE info.address # addr /\ i' = i + 1 /\ UNCHANGED <<image, mode, given, addr, answer>>
  <2>1. TypeOK' /\ mode' = "binds" /\ image' = image /\ answer' = None /\ addr' = addr
    BY <1>1, <1>3 DEF TypeOK
  <2>2. \A k \in 1 .. Len(image.dbi) : k < i + 1 => k < i \/ k = i
    BY <1>1
  <2>3. \A r : RelocMatches(r)' <=> RelocMatches(r)
    BY <1>3 DEF RelocMatches
  <2>4. \A k \in 1 .. Len(image.dbi) : k < i + 1 => image.dbi[k].address # addr
    BY <1>1, <1>3, <2>2
  <2>5. Searched'
    BY <1>1, <1>3, <2>1, <2>3, <2>4 DEF Searched
  <2> QED
    BY <1>0, <2>1, <2>5, RunsOn, NothingAnswered DEF SymbolsInv
<1>4. CASE /\ info.address = addr /\ info.symbolname # None
           /\ Found(Unprefixed[info.symbolname], BoundValue(info))
  <2> DEFINE name == Unprefixed[info.symbolname]
  <2>1. name \in SymName /\ BoundValue(info) \in UInt
    BY <1>1, <1>2, <1>4, BindParts, UnprefixedAssumption
  <2>2. TypeOK'
    BY <1>1, <1>4, <2>1, FoundType
  <2>3. /\ mode' = "idle" /\ image' = image /\ addr' = addr
        /\ answer'.kind = IF name \in DOMAIN VtableKind THEN VtableKind[name] ELSE "?"
    BY <1>4 DEF Found
  <2>4. ASSUME OnePerPlace
        PROVE  answer'.kind = StoredKind(addr)
    <3> DEFINE w == [at |-> info.address, name |-> info.symbolname]
    <3>1. w \in Writes
      BY <1>1, <1>2 DEF Writes
    <3>2. w.name # None /\ w.at = addr /\ Unprefixed[w.name] = name
      BY <1>4
    <3> HIDE DEF w, name
    <3> QED
      BY <2>3, <2>4, <3>1, <3>2, StoredIs
  <2>5. KindIsWhatDyldStores'
    BY <2>3, <2>4, AnswerStored
  <2> QED
    BY <1>0, <2>2, <2>3, <2>5, RunsOn DEF SymbolsInv, Searched
<1>5. CASE info.address = addr /\ info.symbolname = None /\ Fails
  <2>1. mode' = "failed" /\ UNCHANGED <<image, i, given, addr, answer>>
    BY <1>5 DEF Fails
  <2>2. TypeOK' /\ Searched'
    BY <1>1, <2>1 DEF TypeOK, Modes, Searched
  <2>3. SoundImageAnswered'
    BY <1>2, <1>5, <2>1 DEF SoundImageAnswered
  <2> QED
    BY <1>0, <1>1, <2>1, <2>2, <2>3, NothingAnswered DEF SymbolsInv
<1> QED
  BY <1>3, <1>4, <1>5 DEF TryBind

LEMMA EndBindsStep ==
  ASSUME SymbolsInv, EndBinds
  PROVE  SymbolsInv'
<1>0. GivesLocalSymbols'
  BY LookupsGiveNothing DEF SymbolsInv
<1>1. /\ TypeOK /\ mode = "binds" /\ i > Len(image.dbi) /\ i \in Nat \ {0} /\ NotFound
      /\ \A k \in 1 .. Len(image.ext_relocs) : ~RelocMatches(image.ext_relocs[k])
      /\ \A k \in 1 .. Len(image.dbi) : k < i => image.dbi[k].address # addr
  BY DEF SymbolsInv, EndBinds, Searched, TypeOK
<1>2. \A k \in 1 .. Len(image.dbi) : image.dbi[k].address # addr
  <2>1. Len(image.dbi) \in Nat
    BY <1>1, ImageParts
  <2>2. \A k \in 1 .. Len(image.dbi) : k < i
    BY <1>1, <2>1
  <2> QED
    BY <1>1, <2>2
<1>3. TypeOK'
  BY <1>1, NotFoundType
<1>4. mode' = "idle" /\ image' = image /\ addr' = addr /\ answer'.kind = "?"
  BY <1>1 DEF NotFound
<1>5. image.first_vmaddr = 0 => StoredKind(addr) = "?"
  BY <1>1, <1>2, NoWrite
<1>6. KindIsWhatDyldStores'
  BY <1>4, <1>5, AnswerStored
<1> QED
  BY <1>0, <1>3, <1>4, <1>6, RunsOn DEF SymbolsInv, Searched

------------------------------------------------------------------------------
(* The theorems. *)

LEMMA SymbolsStutter ==
  ASSUME SymbolsInv, UNCHANGED vars
  PROVE  SymbolsInv'
<1>1. UNCHANGED <<image, mode, i, given, addr, answer>>
  BY DEF vars
<1>2. TypeOK' /\ SoundImageAnswered'
  BY <1>1, WritesKept DEF SymbolsInv, TypeOK, SoundImageAnswered
<1>3. \A r : RelocMatches(r)' <=> RelocMatches(r)
  BY <1>1 DEF RelocMatches
<1>4. Searched'
  BY <1>1, <1>3 DEF SymbolsInv, Searched
<1>5. KindIsWhatDyldStores'
  <2>1. CASE answer' = None
    BY <2>1, NothingAnswered
  <2>2. CASE answer' # None
    BY <1>1, <2>2, AnswerStored DEF SymbolsInv, KindIsWhatDyldStores
  <2> QED
    BY <2>1, <2>2
<1>6. GivesLocalSymbols'
  BY <1>1, LocalsKept DEF SymbolsInv, GivesLocalSymbols
<1> QED
  BY <1>2, <1>4, <1>5, <1>6 DEF SymbolsInv

(* What holds between the lookups and at each step of one.                 *)
THEOREM SymbolsInvariant == Spec => []SymbolsInv
<1>1. Init => SymbolsInv
  <2> SUFFICES ASSUME Init PROVE SymbolsInv
    OBVIOUS
  <2>1. 0 \in UInt /\ <<>> \in Seq([addr : UInt, name : SymName])
    BY WordAssumption DEF UInt
  <2>2. TypeOK
    BY <2>1 DEF Init, TypeOK, Modes
  <2>3. GivesLocalSymbols
    <3>1. LocalSymbols \cap (1 .. 1 - 1) = {} /\ Cardinality({}) = 0
      BY FS_EmptySet
    <3> QED
      BY <3>1 DEF Init, GivesLocalSymbols
  <2> QED
    BY <2>2, <2>3 DEF Init, SymbolsInv, SoundImageAnswered, Searched, KindIsWhatDyldStores
<1>2. SymbolsInv /\ [Next]_vars => SymbolsInv'
  BY ListSymbolStep, EndListingStep, AskAboutStep, TryRelocStep, EndRelocsStep, TryBindStep,
     EndBindsStep, SymbolsStutter DEF Next
<1> QED
  BY <1>1, <1>2, PTL DEF Spec

(* Every variable keeps its type: addresses and answers stay words.        *)
THEOREM SymbolsTypeCorrect == Spec => []TypeOK
<1>1. SymbolsInv => TypeOK
  BY DEF SymbolsInv
<1> QED
  BY <1>1, SymbolsInvariant, PTL

(* The program stops only at the images SoundImageAnswered names.          *)
THEOREM StopsOnlyAtUnsound == Spec => []SoundImageAnswered
<1>1. SymbolsInv => SoundImageAnswered
  BY DEF SymbolsInv
<1> QED
  BY <1>1, SymbolsInvariant, PTL

(* symtab_macho_find_reloc_sym_for_addr finds what dyld stores.            *)
THEOREM KindCorrect == Spec => []KindIsWhatDyldStores
<1>1. SymbolsInv => KindIsWhatDyldStores
  BY DEF SymbolsInv
<1> QED
  BY <1>1, SymbolsInvariant, PTL

(* Each local symbol is given to the callback once, in order, with its     *)
(* address (symtab_macho_foreach), whatever the table.                     *)
THEOREM LocalSymbolsGiven == Spec => []GivesLocalSymbols
<1>1. SymbolsInv => GivesLocalSymbols
  BY DEF SymbolsInv
<1> QED
  BY <1>1, SymbolsInvariant, PTL
===============================================================================
