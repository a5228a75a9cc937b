--------------------------- MODULE ClassgraphProofs ---------------------------
(***************************************************************************)
(* Proofs about Classgraph for every file system, every table size and     *)
(* every memory: what main collects, what it prints and how deep it nests. *)
(***************************************************************************)
EXTENDS Classgraph, LibraryProofs, Counting

------------------------------------------------------------------------------
(* Symbols. *)

SymbolEntry == [name : SymName, addr : Nat]

LEMMA SymbolsType ==
  ASSUME LibTypeOK, NEW s \in Slots
  PROVE  /\ SymbolsOf(s) \in Seq(SymbolEntry)
         /\ Len(SymbolsOf(s)) \in Nat
         /\ libs[s].baseaddr \in Nat
         /\ libs[s].is_primary \in BOOLEAN
<1>1. SlotType(libs[s]) /\ file \in [Name -> File]
  BY DEF LibTypeOK
<1>2. CASE libs[s] = EmptySlot
  <2>1. ~libs[s].ready /\ libs[s].baseaddr \in Nat
    BY <1>2 DEF EmptySlot
  <2>2. SymbolsOf(s) = <<>>
    BY <2>1 DEF SymbolsOf
  <2>3. <<>> \in Seq(SymbolEntry) /\ Len(<<>>) = 0
    OBVIOUS
  <2>4. libs[s].is_primary \in BOOLEAN
    BY <1>2 DEF EmptySlot
  <2>5. SymbolsOf(s) \in Seq(SymbolEntry) /\ Len(SymbolsOf(s)) \in Nat
    BY <2>2, <2>3
  <2> QED
    BY <2>1, <2>4, <2>5
<1>3. CASE libs[s] # EmptySlot
  <2>1. /\ libs[s].path \in Name
        /\ libs[s].is_primary \in BOOLEAN
        /\ \/ libs[s] = ClaimedSlot(libs[s].is_primary, libs[s].path)
           \/ libs[s] = UnlinkedSlot(libs[s].is_primary, libs[s].path)
           \/ libs[s] = LoadedSlot(libs[s].is_primary, libs[s].path)
    BY <1>1, <1>3 DEF SlotType
  <2>2. libs[s].baseaddr = 0 \/ libs[s].baseaddr = LoadAddr[libs[s].path]
    BY <2>1 DEF ClaimedSlot, UnlinkedSlot, LoadedSlot, EmptySlot
  <2>3. libs[s].baseaddr \in Nat
    BY <2>1, <2>2, LoadAddrAssumption
  <2>4. file[libs[s].path].symbols \in Seq(SymbolEntry)
    BY <1>1, <2>1, SymbolsAssumption DEF SymbolEntry
  <2>5. SymbolsOf(s) \in Seq(SymbolEntry)
    BY <2>4, EmptySeq DEF SymbolsOf
  <2> QED
    BY <2>1, <2>3, <2>5
<1> QED
  BY <1>2, <1>3

LEMMA SymbolAtType ==
  ASSUME LibTypeOK, NEW s \in Slots, NEW k \in 1 .. Len(SymbolsOf(s))
  PROVE  SymbolAt(s, k) \in Symbol /\ SymbolAt(s, k).lib = s
<1>1. SymbolsOf(s)[k] \in SymbolEntry
  BY SymbolsType
<1> QED
  BY <1>1 DEF SymbolAt, Symbol, SymbolEntry

LEMMA InsertFacts ==
  ASSUME NEW set, NEW sym
  PROVE  /\ DOMAIN Insert(set, sym) = DOMAIN set \cup {Demangled[sym.name]}
         /\ \A d \in DOMAIN set : Insert(set, sym)[d] = set[d]
         /\ Demangled[sym.name] \notin DOMAIN set =>
              Insert(set, sym)[Demangled[sym.name]] = sym
BY DEF Insert, Put

LEMMA PutFacts ==
  ASSUME NEW map, NEW key, NEW value
  PROVE  /\ DOMAIN Put(map, key, value) = DOMAIN map \cup {key}
         /\ Put(map, key, value)[key] = value
         /\ \A k \in DOMAIN map : k # key => Put(map, key, value)[k] = map[k]
BY DEF Put

LEMMA ObjectType ==
  ASSUME rtti \in Memories, NEW sym
  PROVE  /\ Object(sym).kind \in TypeinfoKinds
         /\ Object(sym).bases \in Seq(Nat)
         /\ Object(sym).kind # "unmapped" => AbsAddr(sym) \in DOMAIN rtti \/ Object(sym).bases = <<>>
BY MemoriesAssumption, EmptySeq DEF Object, TypeinfoKinds

------------------------------------------------------------------------------
(* The symbols seen so far. *)

LEMMA SeenIs ==
  ASSUME NEW sym
  PROVE  sym \in Seen <=>
           /\ Selected(sym)
           /\ \E s \in Visited : /\ s <= cursor.lib
                                 /\ \E k \in 1 .. Given(s) : sym = SymbolAt(s, k)
BY DEF Seen

(* What stays while the table and the filter do. *)
LEMMA TableKept ==
  ASSUME UNCHANGED <<file, libs, matches>>
  PROVE  /\ \A s : SymbolsOf(s)' = SymbolsOf(s)
         /\ \A s, k : SymbolAt(s, k)' = SymbolAt(s, k)
         /\ \A sym : AbsAddr(sym)' = AbsAddr(sym)
         /\ \A s : LibNext(s)' = LibNext(s)
         /\ Visited' = Visited
         /\ \A sym : Selected(sym)' <=> Selected(sym)
<1>1. \A s : SymbolsOf(s)' = SymbolsOf(s)
  BY DEF SymbolsOf
<1>2. \A s, k : SymbolAt(s, k)' = SymbolAt(s, k)
  BY DEF SymbolAt, SymbolsOf
<1>3. \A s : LibNext(s)' = LibNext(s)
  BY DEF LibNext
<1>4. Visited' = Visited
  BY DEF Visited, LibNext
<1>5. \A sym : AbsAddr(sym)' = AbsAddr(sym)
  BY DEF AbsAddr
<1>6. \A sym : Selected(sym)' <=> Selected(sym)
  BY DEF Selected
<1> QED
  BY <1>1, <1>2, <1>3, <1>4, <1>5, <1>6

LEMMA SeenKept ==
  ASSUME UNCHANGED <<file, libs, matches, cursor>>
  PROVE  Seen' = Seen
<1>1. \A s : Given(s)' = Given(s)
  BY TableKept DEF Given
<1>2. \A sym : sym \in Seen' <=> sym \in Seen
  BY <1>1, TableKept DEF Seen
<1> QED
  BY <1>2

LEMMA MemoryKept ==
  ASSUME UNCHANGED <<file, libs, matches, rtti>>
  PROVE  /\ \A sym : Object(sym)' = Object(sym)
         /\ AddressLayout' <=> AddressLayout
<1>1. \A sym : Object(sym)' = Object(sym)
  BY DEF Object, AbsAddr
<1>2. AddressLayout' <=> AddressLayout
  BY <1>1, TableKept DEF AddressLayout
<1> QED
  BY <1>1, <1>2

------------------------------------------------------------------------------
(* The invariant. *)

(* What main has not begun is empty, and the table does not change after   *)
(* lib_init returned.                                                      *)
Phases ==
  /\ mode = "loading" =>
       syms = <<>> /\ symcache = <<>> /\ cursor = [lib |-> LibFirst, i |-> 1]
  /\ mode \in {"loading", "collecting"} => left = {} /\ calls = <<>> /\ out = <<>>
  /\ mode # "loading" => status = "returned"
  /\ mode = "done" => left = {}

InTable ==
  /\ cursor.lib \in Visited
  /\ cursor.i <= Len(SymbolsOf(cursor.lib)) + 1

(* syms and symcache hold symbols seen, and one for each symbol seen.      *)
Collected ==
  /\ \A d \in DOMAIN syms : syms[d] \in Seen
  /\ \A a \in DOMAIN symcache : symcache[a] \in Seen
  /\ \A sym \in Seen : Demangled[sym.name] \in DOMAIN syms /\ sym.addr \in DOMAIN symcache

(* A name that a symbol of the primary holds is held by the first symbol   *)
(* of that name in the primary's table.                                    *)
FirstOfName(i, d) ==
  /\ Selected(SymbolAt(LibFirst, i)) /\ Demangled[SymbolAt(LibFirst, i).name] = d
  /\ \A k \in 1 .. i - 1 :
       Selected(SymbolAt(LibFirst, k)) => Demangled[SymbolAt(LibFirst, k).name] # d
FirstsHold ==
  \A d \in DOMAIN syms :
    libs[syms[d].lib].is_primary =>
      \E i \in 1 .. Len(SymbolsOf(LibFirst)) :
        syms[d] = SymbolAt(LibFirst, i) /\ FirstOfName(i, d)

(* Printing begins when the last symbol has been read.                     *)
Exhausted ==
  mode \notin {"loading", "collecting"} => cursor.i > Len(SymbolsOf(cursor.lib))

CollectInv ==
  /\ LibInv
  /\ TypeOK
  /\ Phases
  /\ InTable
  /\ Collected
  /\ PrimaryWins
  /\ FirstsHold
  /\ Exhausted

(* Every active call is about a symbol seen, at a place that can be read.  *)
Framed ==
  \A k \in 1 .. Len(calls) :
    calls[k].sym \in Seen /\ Object(calls[k].sym).kind # "unmapped"

(* A class of the primary heads a line of its own once it is not left.     *)
HeadsIn(lines, d) ==
  {j \in 1 .. Len(lines) :
     lines[j].what = "class" /\ lines[j].level = 0 /\ Demangled[lines[j].name] = d}
Headed ==
  mode \in {"printing", "done"} =>
    \A d \in DOMAIN syms :
      libs[syms[d].lib].is_primary /\ syms[d].addr # 0 =>
        IF d \in left THEN HeadsIn(out, d) = {}
        ELSE \E j \in 1 .. Len(out) : HeadsIn(out, d) = {j}

PrintInv ==
  /\ Framed
  /\ LookupSound
  /\ NestingBounded
  /\ WarnsOnlyWithCause
  /\ Headed

GraphInv == CollectInv /\ PrintInv

(* The primary is in the first slot and nowhere else. *)
LEMMA PrimaryIsFirst ==
  ASSUME LibInv, NEW s \in Slots
  PROVE  /\ libs[s].is_primary => s = LibFirst
         /\ status = "returned" => (libs[s].is_primary <=> s = LibFirst)
<1>1. TableShape /\ LibTypeOK /\ LibFirst \in Slots
  BY NumLibsAssumption DEF LibInv, LibFirst, Slots
<1>2. ~Claimed(s) => ~libs[s].is_primary
  <2>1. SlotType(libs[s])
    BY <1>1 DEF LibTypeOK
  <2>2. ~Claimed(s) => libs[s] = EmptySlot
    BY <1>1, <2>1, SlotFields DEF Claimed, LibTypeOK
  <2> QED
    BY <2>2 DEF EmptySlot
<1>3. Claimed(s) => (libs[s].is_primary <=> s = LibFirst)
  BY <1>1 DEF TableShape
<1>4. status = "returned" => Claimed(LibFirst)
  BY <1>1 DEF TableShape
<1> QED
  BY <1>2, <1>3, <1>4

LEMMA VisitedSlots ==
  Visited \subseteq Slots /\ LibFirst \in Visited
<1>1. LibFirst \in Slots /\ 1 .. LibFirst = {}
  BY NumLibsAssumption DEF LibFirst, Slots
<1> QED
  BY <1>1 DEF Visited

LEMMA SeenType ==
  ASSUME TypeOK, InTable, NEW sym \in Seen
  PROVE  /\ sym \in Symbol /\ sym.lib \in Visited /\ sym.lib <= cursor.lib
         /\ Selected(sym)
         /\ \E k \in 1 .. Len(SymbolsOf(sym.lib)) : sym = SymbolAt(sym.lib, k)
<1>1. PICK s \in Visited : s <= cursor.lib /\ \E k \in 1 .. Given(s) : sym = SymbolAt(s, k)
  BY SeenIs
<1>2. PICK k \in 1 .. Given(s) : sym = SymbolAt(s, k)
  BY <1>1
<1>3. s \in Slots /\ LibTypeOK /\ cursor \in [lib : Slots, i : Nat \ {0}]
  BY VisitedSlots DEF TypeOK
<1>4. Len(SymbolsOf(s)) \in Nat
  BY <1>3, SymbolsType
<1>5. Given(s) <= Len(SymbolsOf(s)) /\ Given(s) \in Int
  <2>1. CASE s < cursor.lib
    BY <1>4, <2>1 DEF Given
  <2>2. CASE ~(s < cursor.lib)
    <3>1. s = cursor.lib /\ cursor.i \in Nat
      BY <1>1, <1>3, <2>2 DEF Slots
    <3>2. Given(s) = cursor.i - 1
      BY <2>2 DEF Given
    <3>3. cursor.i <= Len(SymbolsOf(s)) + 1
      BY <3>1 DEF InTable
    <3> QED
      BY <1>4, <3>1, <3>2, <3>3
  <2> QED
    BY <2>1, <2>2
<1>6. k \in 1 .. Len(SymbolsOf(s))
  BY <1>4, <1>5
<1>7. sym \in Symbol /\ sym.lib = s
  BY <1>2, <1>3, <1>6, SymbolAtType
<1> QED
  BY <1>1, <1>2, <1>6, <1>7, SeenIs

------------------------------------------------------------------------------
(* Loading and collecting. *)

LEMMA NothingPrinted ==
  ASSUME calls' = <<>>, out' = <<>>, mode' \in {"loading", "collecting"}
  PROVE  PrintInv'
<1>1. /\ 1 .. Len(<<>>) = {} /\ 2 .. Len(<<>>) = {}
  OBVIOUS
<1>2. Framed'
  BY <1>1 DEF Framed
<1>3. LookupSound' /\ NestingBounded'
  BY <1>1 DEF LookupSound, NestingBounded
<1>4. WarnsOnlyWithCause' /\ Headed'
  BY <1>1 DEF WarnsOnlyWithCause, Headed
<1> QED
  BY <1>2, <1>3, <1>4 DEF PrintInv

LEMMA LoadStep ==
  ASSUME CollectInv, mode = "loading", [LibStep]_libVars, UNCHANGED graphVars
  PROVE  GraphInv'
<1>1. /\ syms' = <<>> /\ symcache' = <<>> /\ cursor' = [lib |-> LibFirst, i |-> 1]
      /\ left' = {} /\ calls' = <<>> /\ out' = <<>> /\ mode' = "loading"
      /\ matches' = matches /\ rtti' = rtti
  BY DEF CollectInv, Phases, graphVars
<1>2. LibInv' /\ LibTypeOK'
  BY InvStep DEF CollectInv, LibInv
<1>3. LibFirst \in Slots /\ LibFirst = 0
  BY NumLibsAssumption DEF LibFirst, Slots
<1>4. TypeOK'
  <2>1. DOMAIN <<>> = {} /\ <<>> \in Seq(LineType) /\ <<>> \in Seq([sym : Symbol, i : Nat \ {0}])
    OBVIOUS
  <2> QED
    BY <1>1, <1>2, <1>3, <2>1 DEF CollectInv, TypeOK, Modes
<1>5. Phases'
  BY <1>1 DEF Phases
<1>6. InTable'
  <2>1. cursor'.lib = LibFirst /\ cursor'.i = 1
    BY <1>1
  <2>2. (LibFirst \in Visited)'
    <3>1. 1 .. LibFirst = {}
      BY <1>3
    <3> QED
      BY <1>3, <3>1 DEF Visited
  <2>3. (Len(SymbolsOf(LibFirst)) \in Nat)'
    OBVIOUS
  <2> QED
    BY <1>3, <2>1, <2>2, <2>3 DEF InTable
<1>7. Seen' = {}
  <2>1. \A s : (s \in Visited)' => s \in Nat
    BY DEF Visited, Slots
  <2>2. ASSUME NEW s, (s \in Visited)', s <= cursor'.lib
        PROVE  1 .. Given(s)' = {}
    <3>1. s = 0
      BY <1>1, <1>3, <2>1, <2>2
    <3>2. Given(s)' = 0
      BY <1>1, <1>3, <3>1 DEF Given
    <3> QED
      BY <3>2
  <2> QED
    BY <2>2 DEF Seen
<1>8. Collected' /\ PrimaryWins' /\ FirstsHold' /\ Exhausted'
  BY <1>1, <1>7 DEF Collected, PrimaryWins, FirstsHold, Exhausted
<1>9. PrintInv'
  BY <1>1, NothingPrinted
<1> QED
  BY <1>2, <1>4, <1>5, <1>6, <1>8, <1>9 DEF GraphInv, CollectInv

LEMMA FirstsKept ==
  ASSUME UNCHANGED <<file, libs, matches, syms>>, FirstsHold
  PROVE  FirstsHold'
<1>1. \A i, d : FirstOfName(i, d)' <=> FirstOfName(i, d)
  BY TableKept DEF FirstOfName, LibFirst
<1> QED
  BY <1>1, TableKept DEF FirstsHold, LibFirst

LEMMA CollectKept ==
  ASSUME CollectInv, UNCHANGED <<libVars, matches, rtti, cursor, syms, symcache>>
  PROVE  /\ LibInv' /\ LibTypeOK' /\ InTable' /\ Collected' /\ PrimaryWins' /\ FirstsHold'
         /\ Len(SymbolsOf(cursor.lib))' = Len(SymbolsOf(cursor.lib))
         /\ Seen' = Seen
<1>1. UNCHANGED <<file, libs, matches, cursor>>
  BY DEF libVars
<1>2. Seen' = Seen
  BY <1>1, SeenKept
<1>3. LibInv' /\ LibTypeOK'
  BY InvStep DEF CollectInv, LibInv
<1>4. InTable'
  BY <1>1, TableKept DEF CollectInv, InTable
<1>5. Collected' /\ PrimaryWins'
  BY <1>1, <1>2 DEF CollectInv, Collected, PrimaryWins
<1>6. FirstsHold'
  BY <1>1, FirstsKept DEF CollectInv
<1>7. Len(SymbolsOf(cursor.lib))' = Len(SymbolsOf(cursor.lib))
  BY <1>1, TableKept
<1> QED
  BY <1>2, <1>3, <1>4, <1>5, <1>6, <1>7

LEMMA BeginForeachStep ==
  ASSUME CollectInv, BeginForeach
  PROVE  GraphInv'
<1>1. /\ mode = "loading" /\ status = "returned" /\ mode' = "collecting"
      /\ cursor' = cursor /\ calls = <<>> /\ out = <<>> /\ left = {}
      /\ UNCHANGED <<libVars, matches, rtti, syms, symcache, left, calls, out>>
  BY DEF BeginForeach, CollectInv, Phases
<1>2. LibInv' /\ LibTypeOK' /\ InTable' /\ Collected' /\ PrimaryWins' /\ FirstsHold'
  BY <1>1, CollectKept
<1>3. TypeOK'
  BY <1>1, <1>2 DEF CollectInv, TypeOK, Modes
<1>4. Phases' /\ Exhausted'
  BY <1>1 DEF Phases, Exhausted, libVars
<1>5. PrintInv'
  BY <1>1, NothingPrinted
<1> QED
  BY <1>2, <1>3, <1>4, <1>5 DEF GraphInv, CollectInv

(* One more symbol is seen, if it is selected. *)
LEMMA VisitSees ==
  ASSUME CollectInv, VisitSymbol
  PROVE  LET sym == SymbolAt(cursor.lib, cursor.i)
         IN  /\ sym \in Symbol
             /\ Seen' = Seen \cup (IF Selected(sym) THEN {sym} ELSE {})
<1> DEFINE sym == SymbolAt(cursor.lib, cursor.i)
<1>1. /\ UNCHANGED <<file, libs, matches>>
      /\ cursor.i <= Len(SymbolsOf(cursor.lib))
      /\ cursor' = [cursor EXCEPT !.i = @ + 1]
  BY DEF VisitSymbol, libVars
<1>2. cursor \in [lib : Slots, i : Nat \ {0}] /\ LibTypeOK /\ cursor.lib \in Visited
  BY DEF CollectInv, TypeOK, InTable
<1>3. cursor'.lib = cursor.lib /\ cursor'.i = cursor.i + 1
  BY <1>1, <1>2
<1>4. Len(SymbolsOf(cursor.lib)) \in Nat /\ cursor.i \in 1 .. Len(SymbolsOf(cursor.lib))
  BY <1>1, <1>2, SymbolsType
<1>5. sym \in Symbol
  BY <1>2, <1>4, SymbolAtType
<1>6. \A s : (s < cursor.lib) => Given(s)' = Given(s)
  BY <1>1, <1>3, TableKept DEF Given
<1>7. Given(cursor.lib) = cursor.i - 1 /\ ~(cursor.lib < cursor.lib)
  BY <1>2 DEF Given, Slots
<1>8. \A s : s = cursor.lib => Given(s)' = cursor.i
  BY <1>2, <1>3, <1>7 DEF Given
<1>9. \A s \in Visited : s <= cursor.lib => s < cursor.lib \/ s = cursor.lib
  BY <1>2, VisitedSlots DEF Slots
<1>10. \A k \in 1 .. cursor.i : k \in 1 .. cursor.i - 1 \/ k = cursor.i
  BY <1>2
<1>11. cursor.i \in 1 .. cursor.i /\ \A k \in 1 .. cursor.i - 1 : k \in 1 .. cursor.i
  BY <1>2
<1>12. \A x : x \in Seen' <=> /\ Selected(x)
                            /\ \E s \in Visited : /\ s <= cursor.lib
                                                  /\ \E k \in 1 .. Given(s)' : x = SymbolAt(s, k)
  BY <1>1, <1>3, TableKept DEF Seen
<1>13. cursor.lib <= cursor.lib
  BY <1>2 DEF Slots
<1> HIDE DEF sym
<1>14. ASSUME NEW x \in Seen
       PROVE  x \in Seen'
  <2>1. PICK s \in Visited : s <= cursor.lib /\ \E k \in 1 .. Given(s) : x = SymbolAt(s, k)
    BY SeenIs
  <2>2. PICK k \in 1 .. Given(s) : x = SymbolAt(s, k)
    BY <2>1
  <2>3. k \in 1 .. Given(s)'
    BY <1>6, <1>7, <1>8, <1>9, <1>11, <2>1, <2>2
  <2> QED
    BY <1>12, <2>1, <2>2, <2>3, SeenIs
<1>15. Selected(sym) => sym \in Seen'
  BY <1>2, <1>8, <1>11, <1>12, <1>13 DEF sym
<1>16. ASSUME NEW x \in Seen', x \notin Seen
       PROVE  x = sym /\ Selected(sym)
  <2>1. PICK s \in Visited : s <= cursor.lib /\ \E k \in 1 .. Given(s)' : x = SymbolAt(s, k)
    BY <1>12
  <2>2. PICK k \in 1 .. Given(s)' : x = SymbolAt(s, k)
    BY <2>1
  <2>3. k \notin 1 .. Given(s)
    BY <1>12, <1>16, <2>1, <2>2, SeenIs
  <2>4. s = cursor.lib
    BY <1>6, <1>9, <2>1, <2>2, <2>3
  <2>5. k = cursor.i
    BY <1>7, <1>8, <1>10, <2>2, <2>3, <2>4
  <2> QED
    BY <1>12, <2>2, <2>4, <2>5 DEF sym
<1>17. Seen' = Seen \cup (IF Selected(sym) THEN {sym} ELSE {})
  BY <1>14, <1>15, <1>16
<1> QED
  BY <1>5, <1>17 DEF sym

(* A symbol of the primary that takes a new place is the first of its name. *)
LEMMA FirstsInserted ==
  ASSUME CollectInv, VisitSymbol, status = "returned", UNCHANGED <<file, libs, matches>>,
         LET sym == SymbolAt(cursor.lib, cursor.i)
         IN  /\ Selected(sym)
             /\ DOMAIN syms' = DOMAIN syms \cup {Demangled[sym.name]}
             /\ \A d \in DOMAIN syms : syms'[d] = syms[d]
             /\ Demangled[sym.name] \notin DOMAIN syms => syms'[Demangled[sym.name]] = sym
  PROVE  FirstsHold'
<1> DEFINE sym == SymbolAt(cursor.lib, cursor.i)
           name == Demangled[sym.name]
           found(s, d) ==
             libs[s.lib].is_primary =>
               \E i \in 1 .. Len(SymbolsOf(LibFirst)) :
                 s = SymbolAt(LibFirst, i) /\ FirstOfName(i, d)
<1>1. \A d \in DOMAIN syms : found(syms'[d], d)
  BY DEF CollectInv, FirstsHold
<1>2. ASSUME name \notin DOMAIN syms, libs[sym.lib].is_primary
      PROVE  \E i \in 1 .. Len(SymbolsOf(LibFirst)) :
               sym = SymbolAt(LibFirst, i) /\ FirstOfName(i, name)
  <2>1. /\ cursor \in [lib : Slots, i : Nat \ {0}] /\ LibTypeOK /\ LibInv
        /\ cursor.i <= Len(SymbolsOf(cursor.lib)) /\ Collected
    BY DEF CollectInv, TypeOK, VisitSymbol
  <2>2. cursor.lib = LibFirst
    BY <1>2, <2>1, PrimaryIsFirst DEF SymbolAt
  <2>3. cursor.i \in 1 .. Len(SymbolsOf(LibFirst))
    BY <2>1, <2>2, SymbolsType
  <2>4. \A k \in 1 .. cursor.i - 1 :
          Selected(SymbolAt(LibFirst, k)) => SymbolAt(LibFirst, k) \in Seen
    <3>1. Given(LibFirst) = cursor.i - 1 /\ LibFirst <= cursor.lib
      BY <2>2, NumLibsAssumption DEF Given, LibFirst
    <3> QED
      BY <3>1, SeenIs, VisitedSlots
  <2>5. \A k \in 1 .. cursor.i - 1 :
          Selected(SymbolAt(LibFirst, k)) => Demangled[SymbolAt(LibFirst, k).name] # name
    BY <1>2, <2>1, <2>4 DEF Collected
  <2>6. FirstOfName(cursor.i, name)
    BY <2>2, <2>5 DEF FirstOfName
  <2> QED
    BY <2>2, <2>3, <2>6
<1>3. \A d \in DOMAIN syms' : found(syms'[d], d)
  BY <1>1, <1>2
<1>4. /\ \A i, d : FirstOfName(i, d)' <=> FirstOfName(i, d)
      /\ LibFirst' = LibFirst
  BY TableKept DEF FirstOfName, LibFirst
<1> QED
  BY <1>3, <1>4, TableKept DEF FirstsHold

LEMMA VisitSymbolStep ==
  ASSUME CollectInv, VisitSymbol
  PROVE  GraphInv'
<1> DEFINE sym == SymbolAt(cursor.lib, cursor.i)
<1>1. /\ mode = "collecting" /\ cursor.i <= Len(SymbolsOf(cursor.lib))
      /\ cursor' = [cursor EXCEPT !.i = @ + 1]
      /\ UNCHANGED <<libVars, matches, rtti, mode, left, calls, out>>
      /\ IF Selected(sym)
         THEN syms' = Insert(syms, sym) /\ symcache' = Put(symcache, CacheKey(sym), sym)
         ELSE UNCHANGED <<syms, symcache>>
  BY DEF VisitSymbol
<1>2. sym \in Symbol /\ Seen' = Seen \cup (IF Selected(sym) THEN {sym} ELSE {})
  BY VisitSees
<1>3. /\ cursor \in [lib : Slots, i : Nat \ {0}] /\ LibTypeOK /\ LibInv /\ InTable /\ TypeOK
      /\ Collected /\ PrimaryWins /\ FirstsHold /\ calls = <<>> /\ out = <<>> /\ left = {}
      /\ status = "returned"
  BY <1>1 DEF CollectInv, TypeOK, Phases
<1>4. cursor'.lib = cursor.lib /\ cursor'.i = cursor.i + 1 /\ cursor' \in [lib : Slots, i : Nat \ {0}]
  BY <1>1, <1>3
<1>5. UNCHANGED <<file, libs, matches, rtti>> /\ LibInv' /\ LibTypeOK'
  BY <1>1, <1>3, InvStep DEF libVars, LibInv
<1>6. InTable'
  <2>1. Len(SymbolsOf(cursor.lib)) \in Nat
    BY <1>3, SymbolsType
  <2>2. cursor.i + 1 <= Len(SymbolsOf(cursor.lib)) + 1
    BY <1>1, <1>3, <2>1
  <2> QED
    BY <1>3, <1>4, <1>5, <2>2, TableKept DEF InTable
<1>7. sym.lib = cursor.lib /\ sym.addr \in Nat /\ sym.name \in SymName
  BY <1>2 DEF SymbolAt, Symbol
<1>8. Demangled[sym.name] \in Nat
  BY <1>7, DemangledAssumption
<1>8a. Exhausted'
  BY <1>1 DEF Exhausted
<1> HIDE DEF sym
<1>9. CASE ~Selected(sym)
  <2>1. Seen' = Seen /\ UNCHANGED <<syms, symcache>>
    BY <1>1, <1>2, <1>9
  <2>2. TypeOK'
    BY <1>1, <1>3, <1>4, <1>5, <2>1 DEF TypeOK
  <2>3. Collected' /\ PrimaryWins'
    BY <1>3, <1>5, <2>1 DEF Collected, PrimaryWins
  <2>4. FirstsHold'
    BY <1>3, <1>5, <2>1, FirstsKept
  <2> QED
    BY <1>1, <1>3, <1>5, <1>6, <1>8a, <2>2, <2>3, <2>4, NothingPrinted
    DEF GraphInv, CollectInv, Phases, libVars
<1>10. CASE Selected(sym)
  <2>1. Seen' = Seen \cup {sym} /\ syms' = Insert(syms, sym) /\ symcache' = Put(symcache, sym.addr, sym)
    BY <1>1, <1>2, <1>10 DEF CacheKey
  <2>2. /\ DOMAIN syms' = DOMAIN syms \cup {Demangled[sym.name]}
        /\ \A d \in DOMAIN syms : syms'[d] = syms[d]
        /\ Demangled[sym.name] \notin DOMAIN syms => syms'[Demangled[sym.name]] = sym
    BY <2>1, InsertFacts
  <2>3. /\ DOMAIN symcache' = DOMAIN symcache \cup {sym.addr}
        /\ symcache'[sym.addr] = sym
        /\ \A a \in DOMAIN symcache : a # sym.addr => symcache'[a] = symcache[a]
    <3> DEFINE key == sym.addr
    <3>1. symcache' = Put(symcache, key, sym)
      BY <2>1
    <3> HIDE DEF key
    <3>2. /\ DOMAIN symcache' = DOMAIN symcache \cup {key}
          /\ symcache'[key] = sym
          /\ \A a \in DOMAIN symcache : a # key => symcache'[a] = symcache[a]
      BY <3>1 DEF Put
    <3> QED
      BY <3>2 DEF key
  <2>4. TypeOK'
    <3>1. DOMAIN syms' \in SUBSET Nat /\ DOMAIN symcache' \in SUBSET Nat
      BY <1>3, <1>7, <1>8, <2>2, <2>3 DEF TypeOK
    <3>2. \A d \in DOMAIN syms' : syms'[d] \in Symbol /\ Demangled[syms'[d].name] = d
      BY <1>2, <1>3, <2>2 DEF TypeOK
    <3>3. \A a \in DOMAIN symcache' : symcache'[a] \in Symbol /\ symcache'[a].addr = a
      BY <1>2, <1>3, <2>3 DEF TypeOK
    <3>4. left' \in SUBSET DOMAIN syms'
      BY <1>1, <1>3
    <3> QED
      BY <1>1, <1>3, <1>4, <1>5, <3>1, <3>2, <3>3, <3>4 DEF TypeOK
  <2>5. Collected'
    BY <1>3, <2>1, <2>2, <2>3 DEF Collected
  <2>6. PrimaryWins'
    <3> SUFFICES ASSUME NEW x \in Seen', libs[x.lib].is_primary
                 PROVE  libs[syms'[Demangled[x.name]].lib].is_primary
      BY <1>5 DEF PrimaryWins
    <3>1. CASE x \in Seen
      <4>1. libs[syms[Demangled[x.name]].lib].is_primary /\ Demangled[x.name] \in DOMAIN syms
        BY <1>3, <3>1 DEF PrimaryWins, Collected
      <4> QED
        BY <2>2, <4>1
    <3>2. CASE x = sym /\ Demangled[sym.name] \notin DOMAIN syms
      BY <2>2, <3>2
    <3>3. CASE x = sym /\ Demangled[sym.name] \in DOMAIN syms
      <4>1. cursor.lib = LibFirst /\ libs[LibFirst].is_primary
        BY <1>3, <1>7, <3>3, PrimaryIsFirst
      <4>2. syms[Demangled[sym.name]] \in Seen
        BY <1>3, <3>3 DEF Collected
      <4>3. /\ syms[Demangled[sym.name]].lib \in Slots
            /\ syms[Demangled[sym.name]].lib <= cursor.lib
        BY <1>3, <4>2, SeenType, VisitedSlots
      <4>4. syms[Demangled[sym.name]].lib = LibFirst
        BY <4>1, <4>3 DEF LibFirst, Slots
      <4> QED
        BY <2>2, <3>3, <4>1, <4>4
    <3> QED
      BY <2>1, <3>1, <3>2, <3>3
  <2>7. FirstsHold'
    <3>1. UNCHANGED <<file, libs, matches>>
      BY <1>5
    <3> QED
      BY <1>3, <1>10, <2>2, <3>1, FirstsInserted DEF sym
  <2> QED
    BY <1>1, <1>3, <1>5, <1>6, <1>8a, <2>4, <2>5, <2>6, <2>7, NothingPrinted
    DEF GraphInv, CollectInv, Phases, libVars
<1> QED
  BY <1>9, <1>10

LEMMA NextLibraryStep ==
  ASSUME CollectInv, NextLibrary
  PROVE  GraphInv'
<1>1. /\ mode = "collecting" /\ cursor.i > Len(SymbolsOf(cursor.lib))
      /\ LibNext(cursor.lib) # -1
      /\ cursor' = [lib |-> LibNext(cursor.lib), i |-> 1]
      /\ UNCHANGED <<libVars, matches, rtti, mode, syms, symcache, left, calls, out>>
  BY DEF NextLibrary
<1>2. /\ cursor \in [lib : Slots, i : Nat \ {0}] /\ LibTypeOK /\ LibInv /\ InTable /\ TypeOK
      /\ Collected /\ PrimaryWins /\ FirstsHold /\ calls = <<>> /\ out = <<>> /\ left = {}
      /\ status = "returned"
  BY <1>1 DEF CollectInv, TypeOK, Phases
<1>3. UNCHANGED <<file, libs, matches, rtti>> /\ LibInv' /\ LibTypeOK'
  BY <1>1, <1>2, InvStep DEF libVars, LibInv
<1>4. LibNext(cursor.lib) = cursor.lib + 1 /\ cursor.lib + 1 \in Slots
  BY <1>1, <1>2, NumLibsAssumption DEF LibNext, Slots
<1>5. cursor'.lib = cursor.lib + 1 /\ cursor'.i = 1 /\ cursor' \in [lib : Slots, i : Nat \ {0}]
  BY <1>1, <1>4
<1>6. cursor.lib + 1 \in Visited
  <2>1. \A t \in 1 .. cursor.lib : LibNext(t - 1) = t
    BY <1>2 DEF InTable, Visited
  <2>2. \A t \in 1 .. cursor.lib + 1 : t \in 1 .. cursor.lib \/ t = cursor.lib + 1
    BY <1>2 DEF Slots
  <2>3. \A t : t = cursor.lib + 1 => t - 1 = cursor.lib
    <3>1. cursor.lib \in Int
      BY <1>2 DEF Slots
    <3>2. \A l \in Int : \A t : t = l + 1 => t - 1 = l
      OBVIOUS
    <3> QED
      BY <3>1, <3>2
  <2>4. \A t \in 1 .. cursor.lib + 1 : LibNext(t - 1) = t
    BY <1>4, <2>1, <2>2, <2>3
  <2> QED
    BY <1>4, <2>4 DEF Visited
<1>7. InTable'
  <2>1. Len(SymbolsOf(cursor.lib + 1)) \in Nat
    BY <1>2, <1>4, SymbolsType
  <2>2. 1 <= Len(SymbolsOf(cursor.lib + 1)) + 1
    BY <2>1
  <2> QED
    BY <1>3, <1>5, <1>6, <2>2, TableKept DEF InTable
<1>8. Len(SymbolsOf(cursor.lib)) = cursor.i - 1
  <2>1. Len(SymbolsOf(cursor.lib)) \in Nat /\ cursor.i \in Nat
        /\ cursor.i <= Len(SymbolsOf(cursor.lib)) + 1
    BY <1>2, SymbolsType DEF InTable
  <2> QED
    BY <1>1, <2>1
<1>9. \A s \in Slots : s <= cursor.lib => Given(s)' = Given(s)
  <2> SUFFICES ASSUME NEW s \in Slots, s <= cursor.lib
               PROVE  Given(s)' = Given(s)
    OBVIOUS
  <2>1. /\ s < cursor.lib + 1
        /\ s < cursor.lib \/ (s = cursor.lib /\ ~(s < cursor.lib))
    <3>1. cursor.lib \in Int /\ s \in Int
      BY <1>2 DEF Slots
    <3> QED
      BY <3>1
  <2>2. Given(s)' = Len(SymbolsOf(s))
    BY <1>3, <1>5, <2>1, TableKept DEF Given
  <2>3. Given(s) = Len(SymbolsOf(s))
    BY <1>8, <2>1 DEF Given
  <2> QED
    BY <2>2, <2>3
<1>10. \A s : s = cursor.lib + 1 => 1 .. Given(s)' = {}
  <2>1. ~(cursor.lib + 1 < cursor.lib + 1)
    BY <1>2 DEF Slots
  <2>2. \A s : s = cursor.lib + 1 => Given(s)' = 0
    BY <1>5, <2>1 DEF Given
  <2> QED
    BY <2>2
<1>11. \A s \in Visited : /\ s <= cursor.lib + 1 => s <= cursor.lib \/ s = cursor.lib + 1
                          /\ s <= cursor.lib => s <= cursor.lib + 1
  BY <1>2, VisitedSlots DEF Slots
<1>12. Seen' = Seen
  <2>1. \A x : x \in Seen' <=> /\ Selected(x)
                             /\ \E s \in Visited : /\ s <= cursor.lib + 1
                                                   /\ \E k \in 1 .. Given(s)' : x = SymbolAt(s, k)
    BY <1>3, <1>5, TableKept DEF Seen
  <2>2. \A s \in Visited : s \in Slots
    BY VisitedSlots
  <2>3. ASSUME NEW x \in Seen
        PROVE  x \in Seen'
    BY <1>9, <1>11, <2>1, <2>2, SeenIs
  <2>4. ASSUME NEW x \in Seen'
        PROVE  x \in Seen
    <3>1. PICK s \in Visited : s <= cursor.lib + 1 /\ \E k \in 1 .. Given(s)' : x = SymbolAt(s, k)
      BY <2>1
    <3>2. s <= cursor.lib
      BY <1>10, <1>11, <3>1
    <3> QED
      BY <1>9, <2>1, <2>2, <3>1, <3>2, SeenIs
  <2> QED
    BY <2>3, <2>4
<1>13. TypeOK'
  BY <1>1, <1>2, <1>3, <1>5 DEF TypeOK
<1>14. Collected' /\ PrimaryWins' /\ Exhausted'
  BY <1>1, <1>2, <1>3, <1>12 DEF Collected, PrimaryWins, Exhausted
<1>15. FirstsHold'
  BY <1>1, <1>2, <1>3, FirstsKept
<1> QED
  BY <1>1, <1>2, <1>3, <1>7, <1>13, <1>14, <1>15, NothingPrinted
  DEF GraphInv, CollectInv, Phases, libVars

LEMMA BeginPrintingStep ==
  ASSUME CollectInv, BeginPrinting
  PROVE  GraphInv'
<1>1. /\ mode = "collecting" /\ mode' = "printing" /\ left' = DOMAIN syms
      /\ UNCHANGED <<libVars, matches, rtti, cursor, syms, symcache, calls, out>>
      /\ calls = <<>> /\ out = <<>> /\ status = "returned"
      /\ cursor.i > Len(SymbolsOf(cursor.lib))
  BY DEF BeginPrinting, CollectInv, Phases
<1>2. /\ LibInv' /\ LibTypeOK' /\ InTable' /\ Collected' /\ PrimaryWins' /\ FirstsHold'
      /\ Len(SymbolsOf(cursor.lib))' = Len(SymbolsOf(cursor.lib))
  BY <1>1, CollectKept
<1>3. TypeOK'
  BY <1>1, <1>2 DEF CollectInv, TypeOK, Modes
<1>4. Phases' /\ Exhausted'
  BY <1>1, <1>2 DEF Phases, Exhausted, libVars
<1>5. 1 .. Len(<<>>) = {} /\ 2 .. Len(<<>>) = {}
  OBVIOUS
<1>6. Framed' /\ LookupSound' /\ NestingBounded' /\ WarnsOnlyWithCause'
  BY <1>1, <1>5 DEF Framed, LookupSound, NestingBounded, WarnsOnlyWithCause
<1>7. Headed'
  <2>1. \A d : HeadsIn(out', d) = {}
    BY <1>1, <1>5 DEF HeadsIn
  <2> QED
    BY <1>1, <2>1 DEF Headed
<1> QED
  BY <1>2, <1>3, <1>4, <1>6, <1>7 DEF GraphInv, CollectInv, PrintInv

------------------------------------------------------------------------------
(* Printing: looking a base up. *)

LEMMA VisitedFinite ==
  Visited \subseteq Nat /\ IsFiniteSet(Visited)
<1>1. Visited \subseteq 0 .. NumLibs - 1 /\ 0 \in Int /\ NumLibs - 1 \in Int
  BY VisitedSlots, NumLibsAssumption DEF Slots
<1>2. IsFiniteSet(0 .. NumLibs - 1)
  BY <1>1, FS_Interval
<1>3. \A x \in 0 .. NumLibs - 1 : x \in Nat
  BY <1>1
<1>4. Visited \subseteq Nat
  BY <1>1, <1>3
<1> QED
  BY <1>1, <1>2, <1>4, FS_Subset

(* symtab_addr_abs returns a cached symbol that has the address asked for. *)
LEMMA AddrAbsFinds ==
  ASSUME LibTypeOK, \A a \in DOMAIN symcache : symcache[a] \in Symbol /\ symcache[a].addr = a,
         NEW addr \in Nat, Owners(addr) # {}
  PROVE  /\ \E a \in DOMAIN symcache : AddrAbs(addr) = symcache[a]
         /\ AbsAddr(AddrAbs(addr)) = addr
<1>1. Owners(addr) \subseteq Nat /\ IsFiniteSet(Owners(addr))
  BY VisitedFinite, FS_Subset DEF Owners
<1> DEFINE s == CHOOSE s \in Owners(addr) : \A t \in Owners(addr) : s <= t
<1>2. s \in Owners(addr)
  BY <1>1, LeastNumber
<1>3. AddrAbs(addr) = symcache[addr - libs[s].baseaddr]
  BY DEF AddrAbs
<1> HIDE DEF s
<1>4. /\ s \in Slots /\ addr >= libs[s].baseaddr
      /\ addr - libs[s].baseaddr \in DOMAIN symcache
      /\ symcache[addr - libs[s].baseaddr].lib = s
  BY <1>2, VisitedSlots DEF Owners, Cached
<1>5. libs[s].baseaddr \in Nat
  BY <1>4, SymbolsType
<1>6. AddrAbs(addr).lib = s /\ AddrAbs(addr).addr = addr - libs[s].baseaddr
  BY <1>3, <1>4
<1>7. AbsAddr(AddrAbs(addr)) = addr
  BY <1>5, <1>6 DEF AbsAddr
<1> QED
  BY <1>3, <1>4, <1>7

LEMMA BaseSymbolFinds ==
  ASSUME CollectInv, NEW kind, NEW addr \in Nat, BaseFound(kind, addr)
  PROVE  /\ BaseSymbol(kind, addr) \in Seen
         /\ \/ AbsAddr(BaseSymbol(kind, addr)) = addr
            \/ kind = "vmi" /\ BaseSymbol(kind, addr).addr = addr
<1>1. /\ LibTypeOK
      /\ \A a \in DOMAIN symcache : symcache[a] \in Symbol /\ symcache[a].addr = a
      /\ \A a \in DOMAIN symcache : symcache[a] \in Seen
  BY DEF CollectInv, TypeOK, Collected
<1>2. CASE kind = "vmi" /\ addr \in DOMAIN symcache
  BY <1>1, <1>2 DEF BaseSymbol
<1>3. CASE ~(kind = "vmi" /\ addr \in DOMAIN symcache)
  <2>1. Owners(addr) # {} /\ BaseSymbol(kind, addr) = AddrAbs(addr)
    BY <1>3 DEF BaseFound, BaseSymbol
  <2>2. /\ \E a \in DOMAIN symcache : AddrAbs(addr) = symcache[a]
        /\ AbsAddr(AddrAbs(addr)) = addr
    BY <1>1, <2>1, AddrAbsFinds
  <2> QED
    BY <1>1, <2>1, <2>2
<1> QED
  BY <1>2, <1>3

(* The base of a class that has been seen, at the address its object says. *)
LEMMA BaseIsPointedTo ==
  ASSUME CollectInv, NEW parent \in Seen,
         AddressLayout \/ Object(parent).kind # "vmi",
         NEW j \in 1 .. Len(Object(parent).bases),
         BaseFound(Object(parent).kind, Object(parent).bases[j])
  PROVE  AbsAddr(BaseSymbol(Object(parent).kind, Object(parent).bases[j]))
           = Object(parent).bases[j]
<1> DEFINE addr == Object(parent).bases[j]
           sym == BaseSymbol(Object(parent).kind, addr)
<1>1. TypeOK /\ InTable /\ rtti \in Memories /\ LibTypeOK
  BY DEF CollectInv, TypeOK
<1>2. addr \in Nat
  BY <1>1, ObjectType
<1>3. sym \in Seen /\ (AbsAddr(sym) = addr \/ (AddressLayout /\ sym.addr = addr))
  BY <1>2, BaseSymbolFinds
<1>4. PICK k \in 1 .. Len(SymbolsOf(parent.lib)) : parent = SymbolAt(parent.lib, k)
  BY <1>1, SeenType
<1>5. PICK i \in 1 .. Len(SymbolsOf(sym.lib)) : sym = SymbolAt(sym.lib, i)
  BY <1>1, <1>3, SeenType
<1>6. parent.lib \in Visited /\ sym.lib \in Visited
  BY <1>1, <1>3, SeenType
<1>7. CASE AddressLayout /\ sym.addr = addr
  <2>1. SymbolsOf(sym.lib)[i].addr = sym.addr
    BY <1>5 DEF SymbolAt
  <2>2. \E p \in 1 .. Len(Object(SymbolAt(parent.lib, k)).bases) :
          Object(SymbolAt(parent.lib, k)).bases[p] = SymbolsOf(sym.lib)[i].addr
    BY <1>4, <1>7, <2>1
  <2>3. libs[sym.lib].baseaddr = 0
    BY <1>4, <1>5, <1>6, <1>7, <2>2 DEF AddressLayout
  <2> QED
    BY <1>2, <1>7, <2>3 DEF AbsAddr
<1> QED
  BY <1>3, <1>7

------------------------------------------------------------------------------
(* Printing: the frames and the lines. *)

TypeinfoCall == [sym : Symbol, i : Nat \ {0}]
TypeinfoCalls == Seq(TypeinfoCall)

(* What the collection established stays while main prints. *)
LEMMA PrintingKept ==
  ASSUME CollectInv, mode = "printing",
         UNCHANGED <<libVars, matches, rtti, cursor, syms, symcache>>,
         mode' \in {"printing", "aborted", "overrun", "done"},
         mode' = "done" => left' = {},
         left' \subseteq left, calls' \in TypeinfoCalls, out' \in Seq(LineType)
  PROVE  /\ CollectInv'
         /\ Seen' = Seen
         /\ \A sym : Object(sym)' = Object(sym) /\ AbsAddr(sym)' = AbsAddr(sym)
         /\ AddressLayout' <=> AddressLayout
<1>1. /\ LibInv' /\ LibTypeOK' /\ InTable' /\ Collected' /\ PrimaryWins' /\ FirstsHold'
      /\ Seen' = Seen /\ Len(SymbolsOf(cursor.lib))' = Len(SymbolsOf(cursor.lib))
  BY CollectKept
<1>2. UNCHANGED <<file, libs, matches, rtti>>
  BY DEF libVars
<1>3. /\ \A sym : Object(sym)' = Object(sym) /\ AbsAddr(sym)' = AbsAddr(sym)
      /\ AddressLayout' <=> AddressLayout
  BY <1>2, MemoryKept, TableKept
<1>4. TypeOK'
  BY <1>1 DEF CollectInv, TypeOK, Modes, TypeinfoCalls, TypeinfoCall
<1>5. Phases' /\ Exhausted'
  BY <1>1 DEF CollectInv, Phases, Exhausted, libVars
<1> QED
  BY <1>1, <1>3, <1>4, <1>5 DEF CollectInv

(* A property of each line stays true if it is true of the line added. *)
LEMMA LinesGrow ==
  ASSUME out \in Seq(LineType), NEW line \in LineType
  PROVE  \A j \in 1 .. Len(Append(out, line)) :
           \/ j \in 1 .. Len(out) /\ Append(out, line)[j] = out[j]
           \/ j = Len(out) + 1 /\ Append(out, line)[j] = line
<1>1. /\ Len(out) \in Nat /\ Len(Append(out, line)) = Len(out) + 1
      /\ \A k \in 1 .. Len(out) : Append(out, line)[k] = out[k]
      /\ Append(out, line)[Len(out) + 1] = line
  BY AppendFacts
<1> QED
  BY <1>1

LEMMA HeadsGrow ==
  ASSUME out \in Seq(LineType), NEW line \in LineType, NEW d
  PROVE  HeadsIn(Append(out, line), d) =
           HeadsIn(out, d) \cup
           (IF line.what = "class" /\ line.level = 0 /\ Demangled[line.name] = d
            THEN {Len(out) + 1} ELSE {})
<1>1. /\ Len(out) \in Nat /\ Len(Append(out, line)) = Len(out) + 1
      /\ \A k \in 1 .. Len(out) : Append(out, line)[k] = out[k]
      /\ Append(out, line)[Len(out) + 1] = line
  BY AppendFacts
<1> DEFINE n == Len(out)
           longer == Append(out, line)
<1>2. /\ n \in Nat /\ Len(longer) = n + 1
      /\ \A k \in 1 .. n : longer[k] = out[k]
      /\ longer[n + 1] = line
      /\ 1 .. Len(out) = 1 .. n
  BY <1>1
<1>3. \A j : j \in 1 .. n + 1 <=> j \in 1 .. n \/ j = n + 1
  BY <1>2
<1>4. n + 1 \notin 1 .. n
  BY <1>2
<1> HIDE DEF n, longer
<1>5. \A j : j \in HeadsIn(longer, d) <=>
             /\ j \in 1 .. n \/ j = n + 1
             /\ longer[j].what = "class" /\ longer[j].level = 0 /\ Demangled[longer[j].name] = d
  BY <1>2, <1>3 DEF HeadsIn
<1>6. \A j : j \in HeadsIn(out, d) <=>
             /\ j \in 1 .. n
             /\ out[j].what = "class" /\ out[j].level = 0 /\ Demangled[out[j].name] = d
  BY <1>2 DEF HeadsIn
<1>7. HeadsIn(longer, d) =
        HeadsIn(out, d) \cup
        (IF line.what = "class" /\ line.level = 0 /\ Demangled[line.name] = d
         THEN {n + 1} ELSE {})
  BY <1>2, <1>4, <1>5, <1>6
<1> QED
  BY <1>7 DEF n, longer

(* A line below the top level heads no tree. *)
LEMMA HeadedKept ==
  ASSUME TypeOK, Headed, mode = "printing",
         UNCHANGED <<libVars, syms, left>>,
         \/ UNCHANGED out
         \/ \E line \in LineType : out' = Append(out, line) /\ line.level # 0
         \/ \E line \in LineType : out' = Append(out, line) /\ line.what = "missing"
  PROVE  Headed'
<1>1. \A d : HeadsIn(out', d) = HeadsIn(out, d)
  <2>1. CASE UNCHANGED out
    BY <2>1
  <2>2. CASE \E line \in LineType : out' = Append(out, line) /\ line.level # 0
    <3>1. PICK line \in LineType : out' = Append(out, line) /\ line.level # 0
      BY <2>2
    <3>2. line.level # 0 /\ out \in Seq(LineType)
      BY <3>1 DEF TypeOK
    <3>3. \A d : HeadsIn(Append(out, line), d) = HeadsIn(out, d)
      BY <3>2, HeadsGrow
    <3> QED
      BY <3>1, <3>3
  <2>3. CASE \E line \in LineType : out' = Append(out, line) /\ line.what = "missing"
    <3>1. PICK line \in LineType : out' = Append(out, line) /\ line.what = "missing"
      BY <2>3
    <3>2. line.what # "class" /\ out \in Seq(LineType)
      BY <3>1 DEF TypeOK
    <3>3. \A d : HeadsIn(Append(out, line), d) = HeadsIn(out, d)
      BY <3>2, HeadsGrow
    <3> QED
      BY <3>1, <3>3
  <2> QED
    BY <2>1, <2>2, <2>3
<1>2. \A d : (\E j \in 1 .. Len(out) : HeadsIn(out, d) = {j}) => \E j \in 1 .. Len(out') : HeadsIn(out', d) = {j}
  <2>1. \A d, j : HeadsIn(out', d) = {j} => j \in 1 .. Len(out')
    BY DEF HeadsIn
  <2> QED
    BY <1>1, <2>1
<1>3. libs' = libs
  BY DEF libVars
<1> QED
  BY <1>1, <1>2, <1>3 DEF Headed

(* The frames after the innermost call has moved on to its next base. *)
LEMMA PastBaseFacts ==
  ASSUME calls \in TypeinfoCalls, calls # <<>>
  PROVE  /\ PastBase \in TypeinfoCalls
         /\ Len(calls) \in Nat \ {0}
         /\ Len(PastBase) = Len(calls)
         /\ \A k \in 1 .. Len(calls) : PastBase[k].sym = calls[k].sym
         /\ \A k \in 1 .. Len(calls) : k # Len(calls) => PastBase[k] = calls[k]
         /\ PastBase[Len(calls)].i = TopCall.i + 1
         /\ TopCall.sym \in Symbol /\ TopCall.i \in Nat \ {0}
         /\ TopCall = calls[Len(calls)]
<1>1. Len(calls) \in Nat \ {0} /\ Len(calls) \in 1 .. Len(calls)
  BY DEF TypeinfoCalls
<1>2. /\ calls[Len(calls)] \in TypeinfoCall
      /\ DOMAIN calls = 1 .. Len(calls)
      /\ \A k \in 1 .. Len(calls) : calls[k] \in TypeinfoCall
  <2>1. DOMAIN calls = 1 .. Len(calls)
    BY DEF TypeinfoCalls
  <2>2. \A k \in 1 .. Len(calls) : calls[k] \in TypeinfoCall
    BY DEF TypeinfoCalls
  <2> QED
    BY <1>1, <2>1, <2>2
<1>3. /\ DOMAIN PastBase = 1 .. Len(calls)
      /\ \A k \in 1 .. Len(calls) : k # Len(calls) => PastBase[k] = calls[k]
      /\ PastBase[Len(calls)] = [calls[Len(calls)] EXCEPT !.i = @ + 1]
  BY <1>1, <1>2 DEF PastBase
<1>4. /\ PastBase[Len(calls)].sym = calls[Len(calls)].sym
      /\ PastBase[Len(calls)].i = calls[Len(calls)].i + 1
      /\ PastBase[Len(calls)] \in TypeinfoCall
  BY <1>2, <1>3 DEF TypeinfoCall
<1>5. \A k \in 1 .. Len(calls) : PastBase[k] \in TypeinfoCall
  BY <1>2, <1>3, <1>4
<1>6. PastBase \in TypeinfoCalls /\ Len(PastBase) = Len(calls)
  <2> DEFINE n == Len(calls)
  <2>1. PastBase = [k \in 1 .. n |-> PastBase[k]]
    BY <1>3 DEF PastBase
  <2>2. n \in Nat /\ \A k \in 1 .. n : PastBase[k] \in TypeinfoCall
    BY <1>1, <1>5
  <2> HIDE DEF n
  <2>3. [k \in 1 .. n |-> PastBase[k]] \in TypeinfoCalls /\ Len([k \in 1 .. n |-> PastBase[k]]) = n
    BY <2>2 DEF TypeinfoCalls
  <2> QED
    BY <2>1, <2>3 DEF n
<1> QED
  BY <1>1, <1>2, <1>3, <1>4, <1>6 DEF TopCall, TypeinfoCall

(* The frames that stay, or the frames with a call on top. *)
LEMMA RecurseFrames ==
  ASSUME CollectInv, mode = "printing", NEW sym \in Seen, NEW frames \in TypeinfoCalls,
         Recurse(sym, frames)
  PROVE  /\ mode' \in {"printing", "aborted", "overrun"}
         /\ mode' = "overrun" => ~Indents(Len(frames))
         /\ calls' \in TypeinfoCalls /\ out' \in Seq(LineType)
         /\ \/ calls' = frames /\ UNCHANGED out /\ (sym.addr # 0 => mode' # "printing")
            \/ /\ calls' = Append(frames, [sym |-> sym, i |-> 1])
               /\ out' = Append(out, Line(Len(frames), sym))
               /\ Line(Len(frames), sym) \in LineType
               /\ Object(sym).kind # "unmapped"
<1>1. sym \in Symbol /\ out \in Seq(LineType) /\ rtti \in Memories
  BY SeenType DEF CollectInv, TypeOK
<1>2. CASE \/ /\ sym.addr = 0
              /\ calls' = frames
              /\ UNCHANGED <<mode, out>>
           \/ /\ sym.addr # 0
              /\ \/ mode' = "aborted"
                 \/ mode' = "overrun" /\ ~Indents(Len(frames))
              /\ calls' = frames
              /\ UNCHANGED out
  BY <1>1, <1>2
<1>3. CASE /\ sym.addr # 0
           /\ Object(sym).kind # "unmapped"
           /\ calls' = Append(frames, [sym |-> sym, i |-> 1])
           /\ out' = Append(out, Line(Len(frames), sym))
           /\ UNCHANGED mode
  <2>1. [sym |-> sym, i |-> 1] \in TypeinfoCall
    BY <1>1 DEF TypeinfoCall
  <2>2. calls' \in TypeinfoCalls
    BY <1>3, <2>1, AppendFacts DEF TypeinfoCalls
  <2>3. Line(Len(frames), sym) \in LineType
    <3>1. Len(frames) \in Nat
      BY DEF TypeinfoCalls
    <3>2. Object(sym).kind \in TypeinfoKinds /\ sym.name \in SymName
      BY <1>1, ObjectType DEF Symbol
    <3> QED
      BY <3>1, <3>2 DEF Line, LineType
  <2>4. out' \in Seq(LineType)
    BY <1>1, <1>3, <2>3, AppendFacts
  <2> QED
    BY <1>3, <2>2, <2>3, <2>4
<1> QED
  BY <1>2, <1>3 DEF Recurse

------------------------------------------------------------------------------
(* Printing: what the properties say of a sequence of frames. *)

Hangs(f, k) ==
  AddressLayout \/ Object(f[k - 1].sym).kind # "vmi"
  => AbsAddr(f[k].sym) = Object(f[k - 1].sym).bases[f[k - 1].i - 1]
Deeper(f, k) == Depth[AbsAddr(f[k].sym)] + k - 1 <= Depth[AbsAddr(f[1].sym)]

FramesFit(f) ==
  /\ \A k \in 1 .. Len(f) : f[k].sym \in Seen /\ Object(f[k].sym).kind # "unmapped"
  /\ \A k \in 2 .. Len(f) : Hangs(f, k)
  /\ AddressLayout => \A k \in 1 .. Len(f) : Deeper(f, k)

(* The hierarchy was too deep for indent.                                  *)
OverrunIsDeep ==
  mode = "overrun" /\ AddressLayout => \E a \in DOMAIN rtti : ~Indents(Depth[a])

LEMMA FramesFitNow ==
  ASSUME PrintInv
  PROVE  FramesFit(calls)
BY DEF PrintInv, Framed, LookupSound, NestingBounded, FramesFit, Hangs, Deeper

LEMMA FramesFitNext ==
  ASSUME Seen' = Seen, AddressLayout' <=> AddressLayout,
         \A sym : Object(sym)' = Object(sym) /\ AbsAddr(sym)' = AbsAddr(sym),
         FramesFit(calls'), OverrunIsDeep'
  PROVE  Framed' /\ LookupSound' /\ NestingBounded'
<1>1. Framed'
  BY DEF Framed, FramesFit
<1>2. LookupSound' /\ NestingBounded'
  BY DEF LookupSound, NestingBounded, FramesFit, Hangs, Deeper, OverrunIsDeep
<1> QED
  BY <1>1, <1>2

LEMMA EmptyFit ==
  FramesFit(<<>>)
<1>1. 1 .. Len(<<>>) = {} /\ 2 .. Len(<<>>) = {}
  OBVIOUS
<1> QED
  BY <1>1 DEF FramesFit

(* An address that can be read has a depth. *)
LEMMA DepthIs ==
  ASSUME rtti \in Memories, NEW sym, Object(sym).kind # "unmapped"
  PROVE  /\ AbsAddr(sym) \in DOMAIN rtti
         /\ Object(sym) = rtti[AbsAddr(sym)]
         /\ Depth[AbsAddr(sym)] \in Nat
<1>1. AbsAddr(sym) \in DOMAIN rtti /\ Object(sym) = rtti[AbsAddr(sym)]
  BY DEF Object
<1> QED
  BY <1>1, DepthAssumption

LEMMA PastBaseFits ==
  ASSUME calls \in TypeinfoCalls, calls # <<>>, FramesFit(calls)
  PROVE  FramesFit(PastBase)
<1>1. /\ Len(calls) \in Nat \ {0}
      /\ Len(PastBase) = Len(calls)
      /\ \A k \in 1 .. Len(calls) : PastBase[k].sym = calls[k].sym
      /\ \A k \in 1 .. Len(calls) : k # Len(calls) => PastBase[k] = calls[k]
  BY PastBaseFacts
<1>2. \A k \in 1 .. Len(PastBase) : PastBase[k].sym \in Seen /\ Object(PastBase[k].sym).kind # "unmapped"
  BY <1>1 DEF FramesFit
<1>3. ASSUME NEW k \in 2 .. Len(PastBase)
      PROVE  Hangs(PastBase, k)
  <2>1. k \in 2 .. Len(calls) /\ k \in 1 .. Len(calls) /\ k - 1 \in 1 .. Len(calls) /\ k - 1 # Len(calls)
    BY <1>1, <1>3
  <2>2. PastBase[k].sym = calls[k].sym /\ PastBase[k - 1] = calls[k - 1]
    BY <1>1, <2>1
  <2>3. Hangs(calls, k)
    BY <1>3, <2>1 DEF FramesFit
  <2> QED
    BY <2>2, <2>3 DEF Hangs
<1>4. ASSUME AddressLayout, NEW k \in 1 .. Len(PastBase)
      PROVE  Deeper(PastBase, k)
  <2>1. k \in 1 .. Len(calls) /\ 1 \in 1 .. Len(calls)
    BY <1>1, <1>4
  <2>2. PastBase[k].sym = calls[k].sym /\ PastBase[1].sym = calls[1].sym
    BY <1>1, <2>1
  <2>3. Deeper(calls, k)
    BY <1>4, <2>1 DEF FramesFit
  <2> QED
    BY <2>2, <2>3 DEF Deeper
<1> QED
  BY <1>2, <1>3, <1>4 DEF FramesFit

(* A call on top of the frames, for the base its caller stood at. *)
LEMMA CallFits ==
  ASSUME rtti \in Memories, NEW f \in TypeinfoCalls, FramesFit(f), NEW sym \in Seen, sym \in Symbol,
         Object(sym).kind # "unmapped",
         f # <<>> =>
           /\ f[Len(f)].i - 1 \in 1 .. Len(Object(f[Len(f)].sym).bases)
           /\ AddressLayout \/ Object(f[Len(f)].sym).kind # "vmi"
              => AbsAddr(sym) = Object(f[Len(f)].sym).bases[f[Len(f)].i - 1]
  PROVE  FramesFit(Append(f, [sym |-> sym, i |-> 1]))
<1> DEFINE call == [sym |-> sym, i |-> 1]
           g == Append(f, call)
           n == Len(f)
<1>1. call \in TypeinfoCall /\ call.sym = sym
  BY DEF TypeinfoCall
<1> HIDE DEF call
<1>2. /\ n \in Nat /\ Len(g) = n + 1
      /\ \A k \in 1 .. n : g[k] = f[k]
      /\ g[n + 1] = call
  BY <1>1, AppendFacts DEF TypeinfoCalls
<1> HIDE DEF n, g
<1>3. \A k \in 1 .. n + 1 : k \in 1 .. n \/ k = n + 1
  BY <1>2
<1>4. \A k \in 1 .. n : f[k].sym \in Seen /\ Object(f[k].sym).kind # "unmapped"
  BY DEF FramesFit, n
<1>5. \A k \in 1 .. n + 1 : g[k].sym \in Seen /\ Object(g[k].sym).kind # "unmapped"
  BY <1>1, <1>2, <1>3, <1>4
<1>6. ASSUME NEW k \in 2 .. n + 1
      PROVE  Hangs(g, k)
  <2>1. CASE k \in 2 .. n
    <3>1. k \in 1 .. n /\ k - 1 \in 1 .. n
      BY <1>2, <2>1
    <3>2. g[k] = f[k] /\ g[k - 1] = f[k - 1]
      BY <1>2, <3>1
    <3>3. Hangs(f, k)
      BY <1>6, <2>1 DEF FramesFit, n
    <3> QED
      BY <3>2, <3>3 DEF Hangs
  <2>2. CASE k = n + 1
    <3>1. n \in 1 .. n /\ k - 1 = n /\ n # 0
      BY <1>2, <2>2
    <3>2. f # <<>>
      BY <3>1 DEF n
    <3>3. AddressLayout \/ Object(f[n].sym).kind # "vmi"
          => AbsAddr(sym) = Object(f[n].sym).bases[f[n].i - 1]
      BY <3>2 DEF n
    <3>4. g[k].sym = sym /\ g[k - 1] = f[n]
      BY <1>1, <1>2, <2>2, <3>1
    <3> QED
      BY <3>3, <3>4 DEF Hangs
  <2>3. k \in 2 .. n \/ k = n + 1
    BY <1>2
  <2> QED
    BY <2>1, <2>2, <2>3
<1>7. ASSUME AddressLayout, NEW k \in 1 .. n + 1
      PROVE  Deeper(g, k)
  <2>1. CASE k \in 1 .. n
    <3>1. 1 \in 1 .. n
      BY <1>2, <2>1
    <3>2. g[k] = f[k] /\ g[1] = f[1]
      BY <1>2, <2>1, <3>1
    <3>3. Deeper(f, k)
      BY <1>7, <2>1 DEF FramesFit, n
    <3> QED
      BY <3>2, <3>3 DEF Deeper
  <2>2. CASE k = n + 1 /\ n = 0
    <3>1. g[k] = call /\ g[1] = call /\ k = 1
      BY <1>2, <2>2
    <3>2. Depth[AbsAddr(sym)] \in Nat
      BY DepthIs
    <3>3. Depth[AbsAddr(sym)] + 1 - 1 <= Depth[AbsAddr(sym)]
      BY <3>2
    <3> QED
      BY <1>1, <3>1, <3>3 DEF Deeper
  <2>3. CASE k = n + 1 /\ n # 0
    <3>1. n \in 1 .. n /\ 1 \in 1 .. n /\ f # <<>>
      BY <1>2, <2>3 DEF n
    <3>2. /\ f[n].i - 1 \in 1 .. Len(Object(f[n].sym).bases)
          /\ AbsAddr(sym) = Object(f[n].sym).bases[f[n].i - 1]
      BY <1>7, <3>1 DEF n
    <3>3. Object(f[n].sym).kind # "unmapped" /\ Object(f[1].sym).kind # "unmapped"
      BY <1>4, <3>1
    <3>4. /\ AbsAddr(f[n].sym) \in DOMAIN rtti
          /\ Object(f[n].sym) = rtti[AbsAddr(f[n].sym)]
          /\ Depth[AbsAddr(f[n].sym)] \in Nat
          /\ Depth[AbsAddr(f[1].sym)] \in Nat
          /\ AbsAddr(sym) \in DOMAIN rtti
          /\ Depth[AbsAddr(sym)] \in Nat
      BY <3>3, DepthIs
    <3>5. Depth[AbsAddr(sym)] < Depth[AbsAddr(f[n].sym)]
      BY <3>2, <3>4, DepthAssumption
    <3>6. Deeper(f, n)
      BY <1>7, <3>1 DEF FramesFit, n
    <3>7. Depth[AbsAddr(sym)] + (n + 1) - 1 <= Depth[AbsAddr(f[1].sym)]
      BY <1>2, <3>4, <3>5, <3>6 DEF Deeper
    <3>8. g[k].sym = sym /\ g[1] = f[1]
      BY <1>1, <1>2, <2>3, <3>1
    <3> QED
      BY <2>3, <3>7, <3>8 DEF Deeper
  <2> QED
    BY <1>3, <2>1, <2>2, <2>3
<1>8. FramesFit(g)
  BY <1>2, <1>5, <1>6, <1>7 DEF FramesFit
<1> QED
  BY <1>8 DEF g, call

(* All elements of a sequence but the last. *)
LEMMA FrontFacts ==
  ASSUME NEW T, NEW s \in Seq(T), s # <<>>
  PROVE  /\ SubSeq(s, 1, Len(s) - 1) \in Seq(T)
         /\ Len(SubSeq(s, 1, Len(s) - 1)) = Len(s) - 1
         /\ \A k \in 1 .. Len(s) - 1 : SubSeq(s, 1, Len(s) - 1)[k] = s[k]
<1> DEFINE n == Len(s)
           g == SubSeq(s, 1, n - 1)
<1>1. n \in Nat \ {0} /\ \A k \in 1 .. n : s[k] \in T
  OBVIOUS
<1>2. g = [k \in 1 .. n - 1 |-> s[k]]
  <2>1. g = [k \in 1 .. (n - 1) - 1 + 1 |-> s[k + 1 - 1]]
    BY <1>1
  <2>2. (n - 1) - 1 + 1 = n - 1 /\ \A k \in 1 .. n - 1 : k + 1 - 1 = k
    BY <1>1
  <2> QED
    BY <2>1, <2>2
<1>3. n - 1 \in Nat /\ \A k \in 1 .. n - 1 : k \in 1 .. n
  BY <1>1
<1> HIDE DEF n
<1> DEFINE h == [k \in 1 .. n - 1 |-> s[k]]
<1>4. \A k \in 1 .. n - 1 : s[k] \in T
  BY <1>1, <1>3
<1>5. h \in Seq(T) /\ Len(h) = n - 1 /\ \A k \in 1 .. n - 1 : h[k] = s[k]
  BY <1>3, <1>4
<1> QED
  BY <1>2, <1>5 DEF n

LEMMA LeaveFits ==
  ASSUME calls \in TypeinfoCalls, calls # <<>>, FramesFit(calls)
  PROVE  /\ SubSeq(calls, 1, Len(calls) - 1) \in TypeinfoCalls
         /\ FramesFit(SubSeq(calls, 1, Len(calls) - 1))
<1> DEFINE n == Len(calls)
           g == SubSeq(calls, 1, n - 1)
<1>1. n \in Nat \ {0}
  BY DEF TypeinfoCalls
<1>3. n - 1 \in Nat /\ \A k \in 1 .. n - 1 : k \in 1 .. n
  BY <1>1
<1>4. g \in TypeinfoCalls /\ Len(g) = n - 1 /\ \A k \in 1 .. n - 1 : g[k] = calls[k]
  BY FrontFacts DEF TypeinfoCalls
<1> HIDE DEF n
<1> HIDE DEF g
<1>5. \A k \in 1 .. n - 1 : g[k].sym \in Seen /\ Object(g[k].sym).kind # "unmapped"
  BY <1>3, <1>4 DEF FramesFit, n
<1>6. ASSUME NEW k \in 2 .. n - 1
      PROVE  Hangs(g, k)
  <2>1. k \in 2 .. n /\ k \in 1 .. n - 1 /\ k - 1 \in 1 .. n - 1
    BY <1>1
  <2>2. g[k] = calls[k] /\ g[k - 1] = calls[k - 1]
    BY <1>4, <2>1
  <2>3. Hangs(calls, k)
    BY <1>6, <2>1 DEF FramesFit, n
  <2> QED
    BY <2>2, <2>3 DEF Hangs
<1>7. ASSUME AddressLayout, NEW k \in 1 .. n - 1
      PROVE  Deeper(g, k)
  <2>1. 1 \in 1 .. n - 1 /\ k \in 1 .. n
    BY <1>1
  <2>2. g[k] = calls[k] /\ g[1] = calls[1]
    BY <1>4, <2>1
  <2>3. Deeper(calls, k)
    BY <1>7, <2>1 DEF FramesFit, n
  <2> QED
    BY <2>2, <2>3 DEF Deeper
<1>8. FramesFit(g)
  BY <1>4, <1>5, <1>6, <1>7 DEF FramesFit
<1> QED
  BY <1>4, <1>8 DEF g, n

------------------------------------------------------------------------------
(* Printing: the steps. *)

(* A class line is no warning, and a warning has its cause already.        *)
LEMMA WarningsKept ==
  ASSUME Seen' = Seen, \A sym : AbsAddr(sym)' = AbsAddr(sym), WarnsOnlyWithCause,
         out \in Seq(LineType),
         \/ UNCHANGED out
         \/ \E line \in LineType : /\ out' = Append(out, line)
                                   /\ line.what # "missing"
  PROVE  WarnsOnlyWithCause'
<1>1. CASE UNCHANGED out
  BY <1>1 DEF WarnsOnlyWithCause, Displaced
<1>2. CASE \E line \in LineType : out' = Append(out, line) /\ line.what # "missing"
  <2>1. PICK line \in LineType : out' = Append(out, line) /\ line.what # "missing"
    BY <1>2
  <2>2. \A j \in 1 .. Len(out') : out'[j].what = "missing" =>
          j \in 1 .. Len(out) /\ out'[j] = out[j]
    BY <2>1, LinesGrow
  <2> QED
    BY <2>2 DEF WarnsOnlyWithCause, Displaced
<1> QED
  BY <1>1, <1>2

LEMMA NextRootStep ==
  ASSUME GraphInv, NextRoot
  PROVE  GraphInv'
<1>1. /\ mode = "printing" /\ calls = <<>>
      /\ UNCHANGED <<libVars, matches, rtti, cursor, syms, symcache>>
      /\ CollectInv /\ PrintInv
      /\ rtti' = rtti
  BY DEF NextRoot, GraphInv
<1>2. PICK d \in left :
        /\ left' = left \ {d}
        /\ IF libs[syms[d].lib].is_primary
           THEN Recurse(syms[d], <<>>)
           ELSE UNCHANGED <<mode, calls, out>>
  BY DEF NextRoot
<1>3. /\ d \in DOMAIN syms /\ syms[d] \in Seen /\ syms[d] \in Symbol
      /\ Demangled[syms[d].name] = d
      /\ rtti \in Memories /\ calls \in TypeinfoCalls /\ out \in Seq(LineType)
      /\ <<>> \in TypeinfoCalls
  <2>1. <<>> \in TypeinfoCalls
    BY DEF TypeinfoCalls
  <2> QED
    BY <1>1, <2>1 DEF CollectInv, TypeOK, Collected, TypeinfoCalls, TypeinfoCall
<1>4. libs' = libs /\ syms' = syms
  BY <1>1 DEF libVars
<1>5. CASE ~libs[syms[d].lib].is_primary
  <2>1. UNCHANGED <<mode, calls, out>>
    BY <1>2, <1>5
  <2>2. /\ CollectInv' /\ Seen' = Seen
        /\ \A sym : Object(sym)' = Object(sym) /\ AbsAddr(sym)' = AbsAddr(sym)
        /\ AddressLayout' <=> AddressLayout
    BY <1>1, <1>2, <1>3, <2>1, PrintingKept
  <2>3. FramesFit(calls') /\ WarnsOnlyWithCause'
    BY <1>1, <1>3, <2>1, <2>2, EmptyFit, WarningsKept DEF PrintInv
  <2>4. Headed'
    BY <1>1, <1>2, <1>4, <1>5, <2>1 DEF PrintInv, Headed
  <2>5. OverrunIsDeep'
    BY <1>1, <2>1 DEF OverrunIsDeep
  <2> QED
    BY <2>2, <2>3, <2>4, <2>5, FramesFitNext DEF GraphInv, PrintInv
<1>6. CASE libs[syms[d].lib].is_primary
  <2> DEFINE sym == syms[d]
  <2>1. Recurse(sym, <<>>)
    BY <1>2, <1>6
  <2>2. /\ mode' \in {"printing", "aborted", "overrun"}
        /\ mode' = "overrun" => ~Indents(Len(<<>>))
        /\ calls' \in TypeinfoCalls /\ out' \in Seq(LineType)
        /\ \/ calls' = <<>> /\ UNCHANGED out /\ (sym.addr # 0 => mode' # "printing")
           \/ /\ calls' = Append(<<>>, [sym |-> sym, i |-> 1])
              /\ out' = Append(out, Line(Len(<<>>), sym))
              /\ Line(Len(<<>>), sym) \in LineType
              /\ Object(sym).kind # "unmapped"
    BY <1>1, <1>3, <2>1, RecurseFrames
  <2>3. /\ CollectInv' /\ Seen' = Seen
        /\ \A s : Object(s)' = Object(s) /\ AbsAddr(s)' = AbsAddr(s)
        /\ AddressLayout' <=> AddressLayout
    BY <1>1, <1>2, <2>2, PrintingKept
  <2>3a. OverrunIsDeep'
    <3>1. Indents(0) /\ Len(<<>>) = 0
      BY IndentAssumption DEF Indents
    <3> QED
      BY <2>2, <3>1 DEF OverrunIsDeep
  <2>4. CASE calls' = <<>> /\ UNCHANGED out /\ (sym.addr # 0 => mode' # "printing")
    <3>1. FramesFit(calls') /\ WarnsOnlyWithCause'
      BY <1>1, <1>3, <2>3, <2>4, EmptyFit, WarningsKept DEF PrintInv
    <3>2. Headed'
      BY <1>1, <1>2, <1>4, <2>2, <2>4 DEF PrintInv, Headed
    <3> QED
      BY <2>3, <2>3a, <3>1, <3>2, FramesFitNext DEF GraphInv, PrintInv
  <2>5. CASE /\ calls' = Append(<<>>, [sym |-> sym, i |-> 1])
             /\ out' = Append(out, Line(Len(<<>>), sym))
             /\ Line(Len(<<>>), sym) \in LineType
             /\ Object(sym).kind # "unmapped"
    <3> DEFINE line == Line(Len(<<>>), sym)
    <3>1. line.what = "class" /\ line.level = 0 /\ line.name = sym.name
      BY DEF Line
    <3>2. FramesFit(calls')
      <4>1. sym \in Seen /\ sym \in Symbol /\ Object(sym).kind # "unmapped"
        BY <1>3, <2>5
      <4>2. FramesFit(Append(<<>>, [sym |-> sym, i |-> 1]))
        BY <1>3, <4>1, CallFits, EmptyFit
      <4> QED
        BY <2>5, <4>2
    <3> HIDE DEF line
    <3>3. out' = Append(out, line) /\ line \in LineType
      BY <2>5 DEF line
    <3>4. WarnsOnlyWithCause'
      <4>1. line.what # "missing"
        BY <3>1
      <4> QED
        BY <1>1, <1>3, <2>3, <3>3, <4>1, WarningsKept DEF PrintInv
    <3>5. HeadsIn(out', d) = HeadsIn(out, d) \cup {Len(out) + 1}
      BY <1>3, <3>1, <3>3, HeadsGrow
    <3>6. \A e : e # d => HeadsIn(out', e) = HeadsIn(out, e)
      <4> SUFFICES ASSUME NEW e, e # d
                   PROVE  HeadsIn(out', e) = HeadsIn(out, e)
        OBVIOUS
      <4>1. Demangled[line.name] # e
        BY <1>3, <3>1
      <4>2. HeadsIn(Append(out, line), e) =
              HeadsIn(out, e) \cup
              (IF line.what = "class" /\ line.level = 0 /\ Demangled[line.name] = e
               THEN {Len(out) + 1} ELSE {})
        BY <1>3, <3>3, HeadsGrow
      <4>3. HeadsIn(Append(out, line), e) = HeadsIn(out, e)
        BY <4>1, <4>2
      <4> QED
        BY <3>3, <4>3
    <3>7. Len(out') = Len(out) + 1 /\ Len(out) \in Nat
      BY <1>3, <3>3, AppendFacts
    <3>8. \A e, j : HeadsIn(out', e) = {j} => j \in 1 .. Len(out')
      BY DEF HeadsIn
    <3>9. ASSUME mode' \in {"printing", "done"}, NEW e \in DOMAIN syms,
                 libs[syms[e].lib].is_primary /\ syms[e].addr # 0
          PROVE  IF e \in left' THEN HeadsIn(out', e) = {}
                 ELSE \E j \in 1 .. Len(out') : HeadsIn(out', e) = {j}
      <4>1. IF e \in left THEN HeadsIn(out, e) = {}
            ELSE \E j \in 1 .. Len(out) : HeadsIn(out, e) = {j}
        BY <1>1, <3>9 DEF PrintInv, Headed
      <4>2. CASE e = d
        <5>1. HeadsIn(out', d) = {Len(out) + 1} /\ d \notin left'
          BY <1>2, <3>5, <4>1, <4>2
        <5> QED
          BY <3>8, <4>2, <5>1
      <4>3. CASE e # d
        <5>1. e \in left' <=> e \in left
          BY <1>2, <4>3
        <5>2. HeadsIn(out', e) = HeadsIn(out, e)
          BY <3>6, <4>3
        <5> QED
          BY <3>8, <4>1, <5>1, <5>2
      <4> QED
        BY <4>2, <4>3
    <3>10. Headed'
      BY <1>4, <3>9 DEF Headed
    <3> QED
      BY <2>3, <2>3a, <3>2, <3>4, <3>10, FramesFitNext DEF GraphInv, PrintInv
  <2> QED
    BY <2>2, <2>4, <2>5
<1> QED
  BY <1>5, <1>6

(* Where a base is too deep for indent, the hierarchy is too deep for it.  *)
LEMMA OverrunDepth ==
  ASSUME rtti \in Memories, AddressLayout, calls \in TypeinfoCalls, FramesFit(calls),
         Len(calls) \in Nat \ {0}, TopCall = calls[Len(calls)],
         TopCall.i \in 1 .. Len(Object(TopCall.sym).bases),
         ~Indents(Len(calls))
  PROVE  \E a \in DOMAIN rtti : ~Indents(Depth[a])
<1> DEFINE n == Len(calls)
           top == AbsAddr(calls[n].sym)
           root == AbsAddr(calls[1].sym)
<1>1. n \in 1 .. n /\ 1 \in 1 .. n
  OBVIOUS
<1>2. /\ Object(calls[n].sym).kind # "unmapped" /\ Object(calls[1].sym).kind # "unmapped"
      /\ Deeper(calls, n)
  BY <1>1 DEF FramesFit
<1>3. /\ top \in DOMAIN rtti /\ Object(calls[n].sym) = rtti[top] /\ Depth[top] \in Nat
      /\ root \in DOMAIN rtti /\ Depth[root] \in Nat
  BY <1>2, DepthIs
<1>4. Depth[top] > 0
  BY <1>3, DepthAssumption
<1>5. Depth[top] + n - 1 <= Depth[root]
  BY <1>2 DEF Deeper
<1> HIDE DEF top, root
<1>6. ~(4 * n < IndentSize)
  BY DEF Indents
<1> HIDE DEF n
<1>7. n \in Nat
  BY DEF n
<1>8. ~(4 * Depth[root] < IndentSize)
  BY <1>3, <1>4, <1>5, <1>6, <1>7, IndentAssumption
<1> QED
  BY <1>3, <1>8 DEF Indents

LEMMA FollowBaseStep ==
  ASSUME GraphInv, FollowBase
  PROVE  GraphInv'
<1> DEFINE kind == Object(TopCall.sym).kind
           sym == BaseSymbol(kind, CurrentBase)
<1>1. /\ mode = "printing" /\ calls # <<>>
      /\ TopCall.i <= Len(Object(TopCall.sym).bases)
      /\ BaseFound(kind, CurrentBase)
      /\ Recurse(sym, PastBase)
      /\ UNCHANGED <<libVars, matches, rtti, cursor, syms, symcache, left>>
      /\ CollectInv /\ PrintInv
  BY DEF FollowBase, AtBase, GraphInv
<1>2. rtti \in Memories /\ calls \in TypeinfoCalls /\ out \in Seq(LineType) /\ TypeOK /\ InTable
  BY <1>1 DEF CollectInv, TypeOK, TypeinfoCalls, TypeinfoCall
<1>3. /\ PastBase \in TypeinfoCalls
      /\ Len(calls) \in Nat \ {0}
      /\ Len(PastBase) = Len(calls)
      /\ \A k \in 1 .. Len(calls) : PastBase[k].sym = calls[k].sym
      /\ PastBase[Len(calls)].i = TopCall.i + 1
      /\ TopCall.i \in Nat \ {0}
      /\ TopCall = calls[Len(calls)]
  BY <1>1, <1>2, PastBaseFacts
<1>4. TopCall.sym \in Seen /\ FramesFit(calls) /\ FramesFit(PastBase)
  <2>1. FramesFit(calls)
    BY <1>1, FramesFitNow
  <2>2. Len(calls) \in 1 .. Len(calls)
    BY <1>3
  <2>3. TopCall.sym \in Seen
    BY <1>3, <2>1, <2>2 DEF FramesFit
  <2> QED
    BY <1>1, <1>2, <2>1, <2>3, PastBaseFits
<1>5. Object(TopCall.sym).bases \in Seq(Nat)
  BY <1>2, ObjectType
<1>6. TopCall.i \in 1 .. Len(Object(TopCall.sym).bases) /\ CurrentBase \in Nat
  <2>1. Len(Object(TopCall.sym).bases) \in Nat
    BY <1>5
  <2>2. TopCall.i \in 1 .. Len(Object(TopCall.sym).bases)
    BY <1>1, <1>3, <2>1
  <2> QED
    BY <1>5, <2>2 DEF CurrentBase
<1>7. sym \in Seen /\ sym \in Symbol
  BY <1>1, <1>2, <1>6, BaseSymbolFinds, SeenType
<1>8. AddressLayout \/ Object(TopCall.sym).kind # "vmi" => AbsAddr(sym) = CurrentBase
  BY <1>1, <1>4, <1>6, BaseIsPointedTo DEF CurrentBase
<1> HIDE DEF sym, kind
<1>9. /\ mode' \in {"printing", "aborted", "overrun"}
      /\ mode' = "overrun" => ~Indents(Len(PastBase))
      /\ calls' \in TypeinfoCalls /\ out' \in Seq(LineType)
      /\ \/ calls' = PastBase /\ UNCHANGED out
         \/ /\ calls' = Append(PastBase, [sym |-> sym, i |-> 1])
            /\ out' = Append(out, Line(Len(PastBase), sym))
            /\ Line(Len(PastBase), sym) \in LineType
            /\ Object(sym).kind # "unmapped"
  BY <1>1, <1>3, <1>7, RecurseFrames
<1>10. /\ CollectInv' /\ Seen' = Seen
       /\ \A s : Object(s)' = Object(s) /\ AbsAddr(s)' = AbsAddr(s)
       /\ AddressLayout' <=> AddressLayout
  BY <1>1, <1>9, PrintingKept
<1>10a. OverrunIsDeep'
  <2> SUFFICES ASSUME mode' = "overrun", AddressLayout
               PROVE  \E a \in DOMAIN rtti : ~Indents(Depth[a])
    BY <1>1, <1>10 DEF OverrunIsDeep
  <2>1. ~Indents(Len(calls))
    BY <1>3, <1>9
  <2> QED
    BY <1>2, <1>3, <1>4, <1>6, <2>1, OverrunDepth
<1>11. CASE calls' = PastBase /\ UNCHANGED out
  <2>1. WarnsOnlyWithCause' /\ Headed'
    BY <1>1, <1>2, <1>10, <1>11, WarningsKept, HeadedKept DEF PrintInv
  <2> QED
    BY <1>4, <1>10, <1>10a, <1>11, <2>1, FramesFitNext DEF GraphInv, PrintInv
<1>12. CASE /\ calls' = Append(PastBase, [sym |-> sym, i |-> 1])
            /\ out' = Append(out, Line(Len(PastBase), sym))
            /\ Line(Len(PastBase), sym) \in LineType
            /\ Object(sym).kind # "unmapped"
  <2>1. FramesFit(calls')
    <3>1. Len(PastBase) \in 1 .. Len(calls) /\ Len(PastBase) \in Nat
      BY <1>3
    <3>2. PastBase[Len(PastBase)].sym = TopCall.sym /\ PastBase[Len(PastBase)].i - 1 = TopCall.i
      <4>1. PastBase[Len(PastBase)].sym = TopCall.sym
        BY <1>3, <3>1
      <4>2. TopCall.i + 1 - 1 = TopCall.i
        BY <1>3
      <4> QED
        BY <1>3, <4>1, <4>2
    <3>3. /\ PastBase[Len(PastBase)].i - 1 \in 1 .. Len(Object(PastBase[Len(PastBase)].sym).bases)
          /\ AddressLayout \/ Object(PastBase[Len(PastBase)].sym).kind # "vmi"
             => AbsAddr(sym) = Object(PastBase[Len(PastBase)].sym).bases[PastBase[Len(PastBase)].i - 1]
      BY <1>6, <1>8, <3>2 DEF CurrentBase
    <3>4. FramesFit(Append(PastBase, [sym |-> sym, i |-> 1]))
      BY <1>2, <1>3, <1>4, <1>7, <1>12, <3>3, CallFits
    <3> QED
      BY <1>12, <3>4
  <2> DEFINE line == Line(Len(PastBase), sym)
  <2>2. line.what # "missing" /\ line.level # 0
    BY <1>3 DEF Line
  <2>3. line \in LineType /\ out' = Append(out, line)
    BY <1>12
  <2> HIDE DEF line
  <2>4. WarnsOnlyWithCause'
    BY <1>1, <1>2, <1>10, <2>2, <2>3, WarningsKept DEF PrintInv
  <2>5. Headed'
    BY <1>1, <1>2, <2>2, <2>3, HeadedKept DEF PrintInv
  <2> QED
    BY <1>10, <1>10a, <2>1, <2>4, <2>5, FramesFitNext DEF GraphInv, PrintInv
<1> QED
  BY <1>9, <1>11, <1>12

(* symcache has a symbol with the relative address of every symbol seen.   *)
LEMMA UnfoundHasCause ==
  ASSUME CollectInv, NEW kind, NEW addr, ~BaseFound(kind, addr),
         NEW x \in Seen, AbsAddr(x) = addr
  PROVE  Displaced(x)
<1>1. /\ x \in Symbol /\ x.lib \in Visited /\ x.addr \in DOMAIN symcache
      /\ symcache[x.addr] \in Seen /\ symcache[x.addr].addr = x.addr
      /\ LibTypeOK
  BY SeenType DEF CollectInv, Collected, TypeOK
<1>2. Owners(addr) = {}
  BY DEF BaseFound
<1>3. libs[x.lib].baseaddr \in Nat /\ x.addr \in Nat
  BY <1>1, VisitedSlots, SymbolsType DEF Symbol
<1>4. addr = libs[x.lib].baseaddr + x.addr
  BY DEF AbsAddr
<1>5. addr >= libs[x.lib].baseaddr /\ addr - libs[x.lib].baseaddr = x.addr
  BY <1>3, <1>4
<1>6. symcache[x.addr].lib # x.lib
  BY <1>1, <1>2, <1>5 DEF Owners, Cached
<1> QED
  BY <1>1, <1>6 DEF Displaced

LEMMA MissBaseStep ==
  ASSUME GraphInv, MissBase
  PROVE  GraphInv'
<1> DEFINE kind == Object(TopCall.sym).kind
           line == Warning(Len(calls) - 1, CurrentBase)
<1>1. /\ mode = "printing" /\ calls # <<>>
      /\ TopCall.i <= Len(Object(TopCall.sym).bases)
      /\ ~BaseFound(kind, CurrentBase)
      /\ calls' = PastBase
      /\ out' = Append(out, line)
      /\ UNCHANGED <<libVars, matches, rtti, mode, cursor, syms, symcache, left>>
      /\ CollectInv /\ PrintInv
  BY DEF MissBase, AtBase, GraphInv
<1>2. /\ rtti \in Memories /\ calls \in TypeinfoCalls /\ out \in Seq(LineType)
      /\ TypeOK /\ InTable /\ LibTypeOK
  BY <1>1 DEF CollectInv, TypeOK, TypeinfoCalls, TypeinfoCall
<1>3. /\ PastBase \in TypeinfoCalls
      /\ Len(calls) \in Nat \ {0}
      /\ TopCall.i \in Nat \ {0}
  BY <1>1, <1>2, PastBaseFacts
<1>4. FramesFit(calls')
  BY <1>1, <1>2, FramesFitNow, PastBaseFits
<1>5. CurrentBase \in Nat
  <2>1. Object(TopCall.sym).bases \in Seq(Nat)
    BY <1>2, ObjectType
  <2>2. TopCall.i \in 1 .. Len(Object(TopCall.sym).bases)
    BY <1>1, <1>3, <2>1
  <2> QED
    BY <2>1, <2>2 DEF CurrentBase
<1>6. line.what = "missing" /\ line.base = CurrentBase /\ line \in LineType
  <2>1. Len(calls) - 1 \in Nat
    BY <1>3
  <2> QED
    BY <1>5, <2>1 DEF Warning, LineType
<1> HIDE DEF line
<1>7. out' \in Seq(LineType)
  BY <1>1, <1>2, <1>6, AppendFacts
<1>8. /\ CollectInv' /\ Seen' = Seen
      /\ \A s : Object(s)' = Object(s) /\ AbsAddr(s)' = AbsAddr(s)
      /\ AddressLayout' <=> AddressLayout
  BY <1>1, <1>3, <1>7, PrintingKept
<1>9. Headed'
  BY <1>1, <1>2, <1>6, HeadedKept DEF PrintInv
<1>10. ASSUME NEW x \in Seen, AbsAddr(x) = CurrentBase
       PROVE  Displaced(x)
  BY <1>1, <1>10, UnfoundHasCause
<1>11. WarnsOnlyWithCause'
  <2> SUFFICES ASSUME NEW j \in 1 .. Len(out'), out'[j].what = "missing",
                      NEW x \in Seen, AbsAddr(x) = out'[j].base
               PROVE  Displaced(x)
    BY <1>8 DEF WarnsOnlyWithCause, Displaced
  <2>1. CASE j \in 1 .. Len(out) /\ out'[j] = out[j]
    BY <1>1, <2>1 DEF PrintInv, WarnsOnlyWithCause
  <2>2. CASE out'[j] = line
    BY <1>6, <1>10, <2>2
  <2> QED
    BY <1>1, <1>2, <1>6, <2>1, <2>2, LinesGrow
<1>12. OverrunIsDeep'
  BY <1>1 DEF OverrunIsDeep
<1> QED
  BY <1>4, <1>8, <1>9, <1>11, <1>12, FramesFitNext DEF GraphInv, PrintInv

LEMMA QuietStep ==
  ASSUME GraphInv, mode = "printing", calls' \in TypeinfoCalls, FramesFit(calls'),
         mode' \in {"printing", "done"}, mode' = "done" => left = {},
         UNCHANGED <<libVars, matches, rtti, cursor, syms, symcache, left, out>>
  PROVE  GraphInv'
<1>1. CollectInv /\ PrintInv /\ TypeOK /\ out \in Seq(LineType)
  BY DEF GraphInv, CollectInv, TypeOK
<1>2. /\ CollectInv' /\ Seen' = Seen
      /\ \A s : Object(s)' = Object(s) /\ AbsAddr(s)' = AbsAddr(s)
      /\ AddressLayout' <=> AddressLayout
  BY <1>1, PrintingKept
<1>3. WarnsOnlyWithCause' /\ Headed'
  BY <1>1, <1>2, WarningsKept, HeadedKept DEF PrintInv
<1>4. OverrunIsDeep'
  BY DEF OverrunIsDeep
<1> QED
  BY <1>2, <1>3, <1>4, FramesFitNext DEF GraphInv, PrintInv

LEMMA LeaveTypeinfoStep ==
  ASSUME GraphInv, LeaveTypeinfo
  PROVE  GraphInv'
<1>1. /\ mode = "printing" /\ calls # <<>> /\ calls \in TypeinfoCalls /\ FramesFit(calls)
      /\ calls' = SubSeq(calls, 1, Len(calls) - 1)
      /\ UNCHANGED <<libVars, matches, rtti, mode, cursor, syms, symcache, left, out>>
  BY FramesFitNow DEF LeaveTypeinfo, GraphInv, CollectInv, TypeOK, TypeinfoCalls, TypeinfoCall
<1>2. calls' \in TypeinfoCalls /\ FramesFit(calls')
  BY <1>1, LeaveFits
<1> QED
  BY <1>1, <1>2, QuietStep

LEMMA FinishStep ==
  ASSUME GraphInv, Finish
  PROVE  GraphInv'
<1>1. /\ mode = "printing" /\ calls' = calls /\ calls \in TypeinfoCalls /\ FramesFit(calls)
      /\ mode' = "done" /\ left = {}
      /\ UNCHANGED <<libVars, matches, rtti, cursor, syms, symcache, left, out>>
  BY FramesFitNow DEF Finish, GraphInv, CollectInv, TypeOK, TypeinfoCalls, TypeinfoCall
<1> QED
  BY <1>1, QuietStep

LEMMA GraphStutter ==
  ASSUME GraphInv, UNCHANGED vars
  PROVE  GraphInv'
<1>1. /\ UNCHANGED <<libVars, matches, rtti, cursor, syms, symcache>>
      /\ UNCHANGED <<mode, left, calls, out>> /\ CollectInv
  BY DEF vars, graphVars, GraphInv
<1>2. /\ LibInv' /\ LibTypeOK' /\ InTable' /\ Collected' /\ PrimaryWins' /\ FirstsHold'
      /\ Seen' = Seen /\ Len(SymbolsOf(cursor.lib))' = Len(SymbolsOf(cursor.lib))
  BY <1>1, CollectKept
<1>3. UNCHANGED <<file, libs, matches, rtti>>
  BY <1>1 DEF libVars
<1>4. /\ \A sym : Object(sym)' = Object(sym) /\ AbsAddr(sym)' = AbsAddr(sym)
      /\ AddressLayout' <=> AddressLayout
  BY <1>3, MemoryKept, TableKept
<1>5. TypeOK' /\ Phases' /\ Exhausted'
  BY <1>1, <1>2 DEF CollectInv, TypeOK, Phases, Exhausted, libVars
<1>6. FramesFit(calls')
  BY <1>1, FramesFitNow DEF GraphInv
<1>7. WarnsOnlyWithCause' /\ Headed'
  <2>1. WarnsOnlyWithCause /\ Headed
    BY DEF GraphInv, PrintInv
  <2>2. WarnsOnlyWithCause'
    BY <1>1, <1>2, <1>4, <2>1 DEF WarnsOnlyWithCause, Displaced
  <2>3. Headed'
    BY <1>1, <1>3, <2>1 DEF Headed, HeadsIn
  <2> QED
    BY <2>2, <2>3
<1>8. OverrunIsDeep'
  <2>1. NestingBounded
    BY DEF GraphInv, PrintInv
  <2>2. UNCHANGED <<mode, rtti>>
    BY <1>1
  <2> QED
    BY <1>4, <2>1, <2>2 DEF NestingBounded, OverrunIsDeep
<1> QED
  BY <1>2, <1>4, <1>5, <1>6, <1>7, <1>8, FramesFitNext DEF GraphInv, CollectInv, PrintInv

------------------------------------------------------------------------------
(* The output as an outline: what is known while main prints.              *)

(* The line of a call has been printed at pos[k], nothing went back to its *)
(* level since, and the bases the call has come by are listed below it.    *)
OpenLine(f, lines, pos, k) ==
  /\ lines[pos[k]] = Line(k - 1, f[k].sym)
  /\ \A m \in pos[k] + 1 .. Len(lines) : Indent(lines[m]) >= k
  /\ f[k].i <= Len(Object(f[k].sym).bases) + 1
  /\ ListsBases(lines, pos[k], Object(f[k].sym).bases, f[k].i - 1)

(* Every class line belongs to a call or lists all its bases.              *)
Outline(f, lines, pos) ==
  /\ pos \in [1 .. Len(f) -> 1 .. Len(lines)]
  /\ \A k \in 1 .. Len(f) : OpenLine(f, lines, pos, k)
  /\ \A j \in 1 .. Len(lines) :
       \/ lines[j].what # "class"
       \/ \E k \in 1 .. Len(f) : pos[k] = j
       \/ ListsAllBases(lines, j)

(* Heads are symbols of the primary that hold a name, in the order of the  *)
(* names, and come before the names that are left.                         *)
Rooted(lines) ==
  /\ \A j \in Heads(lines) : \E d \in DOMAIN syms :
       /\ lines[j] = Line(0, syms[d])
       /\ libs[syms[d].lib].is_primary /\ syms[d].addr # 0
  /\ \A j, k \in Heads(lines) : j < k => Demangled[lines[j].name] < Demangled[lines[k].name]
Before(lines, names) ==
  \A j \in Heads(lines) : \A d \in names : Demangled[lines[j].name] < d

Drawn(f, lines) ==
  /\ NoStrayLine(lines)
  /\ \E pos : Outline(f, lines, pos)

Outlined ==
  /\ mode \in {"printing", "done"} =>
       /\ Rooted(out)
       /\ Before(out, left)
       /\ AddressLayout => Drawn(calls, out)
  /\ mode = "done" => calls = <<>>

LEMMA IndentIs ==
  ASSUME NEW line \in LineType
  PROVE  /\ Indent(line) \in Nat
         /\ line.what \in {"class", "missing"}
         /\ line.what = "class" => Indent(line) = line.level
<1>1. CASE line \in [what : {"class"}, level : Nat, name : SymName, kind : TypeinfoKinds]
  BY <1>1 DEF Indent
<1>2. CASE line \in [what : {"missing"}, level : Nat, base : Nat]
  BY <1>2 DEF Indent
<1> QED
  BY <1>1, <1>2 DEF LineType

LEMMA LineIs ==
  ASSUME NEW level, NEW sym
  PROVE  /\ Indent(Line(level, sym)) = level /\ Line(level, sym).what = "class"
         /\ Line(level, sym).level = level /\ Line(level, sym).name = sym.name
BY DEF Indent, Line

LEMMA WarningIs ==
  ASSUME NEW level, NEW base
  PROVE  /\ Indent(Warning(level, base)) = level + 1
         /\ Warning(level, base).what = "missing"
BY DEF Indent, Warning

(* One line more. *)
OneMore(lines, line, longer, n) ==
  /\ lines \in Seq(LineType) /\ line \in LineType
  /\ n = Len(lines) /\ longer = Append(lines, line)

(* What is below a line when one more line is added.                       *)
LEMMA BelowGrows ==
  ASSUME NEW lines, NEW line, NEW longer, NEW n, OneMore(lines, line, longer, n)
  PROVE  /\ n \in Nat /\ n = Len(lines) /\ Len(longer) = n + 1 /\ longer[n + 1] = line
         /\ \A k \in 1 .. n : longer[k] = lines[k]
         /\ LinesBelow(longer, n + 1) = {}
         /\ \A j \in 1 .. n :
              /\ LinesBelow(lines, j) \subseteq j + 1 .. n
              /\ LinesBelow(longer, j) =
                   LinesBelow(lines, j) \cup
                   (IF /\ Indent(line) = Indent(lines[j]) + 1
                       /\ \A m \in j + 1 .. n : Indent(lines[m]) > Indent(lines[j])
                    THEN {n + 1} ELSE {})
<1>1. /\ n \in Nat /\ n = Len(lines) /\ Len(longer) = n + 1 /\ longer[n + 1] = line
      /\ \A k \in 1 .. n : longer[k] = lines[k]
  BY AppendFacts DEF OneMore
<1>1a. line \in LineType /\ \A k \in 1 .. n : lines[k] \in LineType
  BY DEF OneMore
<1>2. LinesBelow(longer, n + 1) = {}
  <2>1. n + 1 + 1 .. n + 1 = {}
    BY <1>1
  <2> QED
    BY <1>1, <2>1 DEF LinesBelow
<1>3. ASSUME NEW j \in 1 .. n
      PROVE  /\ LinesBelow(lines, j) \subseteq j + 1 .. n
             /\ LinesBelow(longer, j) =
                  LinesBelow(lines, j) \cup
                  (IF /\ Indent(line) = Indent(lines[j]) + 1
                      /\ \A m \in j + 1 .. n : Indent(lines[m]) > Indent(lines[j])
                   THEN {n + 1} ELSE {})
  <2> DEFINE Deep(k) == \A m \in j + 1 .. k : Indent(lines[m]) > Indent(lines[j])
             DeepNow(k) == \A m \in j + 1 .. k : Indent(longer[m]) > Indent(longer[j])
             Low == Indent(lines[j])
  <2>1. /\ longer[j] = lines[j]
        /\ \A k \in j + 1 .. n : longer[k] = lines[k]
        /\ j \in Nat /\ n \in Nat
    BY <1>1
  <2>2. LinesBelow(lines, j) = {k \in j + 1 .. n : Indent(lines[k]) = Low + 1 /\ Deep(k)}
    BY <1>1 DEF LinesBelow
  <2>3. LinesBelow(longer, j) = {k \in j + 1 .. n + 1 : Indent(longer[k]) = Indent(longer[j]) + 1 /\ DeepNow(k)}
    BY <1>1 DEF LinesBelow
  <2>4. \A k \in j + 1 .. n : DeepNow(k) <=> Deep(k)
    <3>1. \A k \in j + 1 .. n : \A m \in j + 1 .. k : m \in j + 1 .. n
      BY <2>1
    <3> QED
      BY <2>1, <3>1
  <2>5. Low \in Nat /\ Indent(longer[j]) = Low
    <3>1. lines[j] \in LineType
      BY <1>1a
    <3> QED
      BY <2>1, <3>1, IndentIs
  <2>6. Indent(line) = Low + 1 => (DeepNow(n + 1) <=> Deep(n))
    <3>1. \A m \in j + 1 .. n + 1 : m \in j + 1 .. n \/ m = n + 1
      BY <2>1
    <3>2. \A m \in j + 1 .. n : m \in j + 1 .. n + 1
      BY <2>1
    <3>3. Low + 1 > Low
      BY <2>5
    <3> QED
      BY <1>1, <2>1, <2>5, <3>1, <3>2, <3>3
  <2>7. \A k : k \in j + 1 .. n + 1 <=> k \in j + 1 .. n \/ k = n + 1
    BY <2>1
  <2>8. n + 1 \notin j + 1 .. n
    BY <2>1
  <2> HIDE DEF Deep, DeepNow, Low
  <2>9. \A k : k \in LinesBelow(longer, j) <=>
               \/ k \in LinesBelow(lines, j)
               \/ k = n + 1 /\ Indent(line) = Low + 1 /\ Deep(n)
    BY <1>1, <2>1, <2>2, <2>3, <2>4, <2>5, <2>6, <2>7, <2>8
  <2>10. LinesBelow(longer, j) =
           LinesBelow(lines, j) \cup (IF Indent(line) = Low + 1 /\ Deep(n) THEN {n + 1} ELSE {})
    BY <2>9
  <2>11. LinesBelow(lines, j) \subseteq j + 1 .. n
    BY <2>2
  <2> QED
    BY <2>10, <2>11 DEF Deep, Low
<1> QED
  BY <1>1, <1>2, <1>3

(* The bases listed below a line when it gets one line more, or none.      *)
LEMMA ListsKept ==
  ASSUME NEW lines, NEW longer, NEW j, NEW bases, NEW m,
         LinesBelow(longer, j) = LinesBelow(lines, j), longer[j] = lines[j],
         \A k \in LinesBelow(lines, j) : longer[k] = lines[k],
         ListsBases(lines, j, bases, m)
  PROVE  ListsBases(longer, j, bases, m)
BY DEF ListsBases

LEMMA ListsOneMore ==
  ASSUME NEW lines, NEW longer, NEW j, NEW bases, NEW m \in Nat, NEW n \in Nat,
         LinesBelow(longer, j) = LinesBelow(lines, j) \cup {n + 1}, longer[j] = lines[j],
         LinesBelow(lines, j) \subseteq 1 .. n,
         \A k \in LinesBelow(lines, j) : longer[k] = lines[k],
         ListsBases(lines, j, bases, m),
         Tells(longer[n + 1], lines[j].level, bases[m + 1])
  PROVE  ListsBases(longer, j, bases, m + 1)
<1> DEFINE Old == LinesBelow(lines, j)
<1>1. PICK D \in SUBSET (1 .. m) :
        /\ \A b \in (1 .. m) \ D : Imported(bases[b])
        /\ \E at \in [D -> Old] :
             /\ \A k \in Old : \E b \in D : at[b] = k
             /\ \A b, c \in D : b < c => at[b] < at[c]
             /\ \A b \in D : Tells(lines[at[b]], lines[j].level, bases[b])
  BY DEF ListsBases
<1>1a. PICK at \in [D -> Old] :
             /\ \A k \in Old : \E b \in D : at[b] = k
             /\ \A b, c \in D : b < c => at[b] < at[c]
             /\ \A b \in D : Tells(lines[at[b]], lines[j].level, bases[b])
  BY <1>1
<1> DEFINE E == D \cup {m + 1}
<1>2. /\ E \in SUBSET (1 .. m + 1) /\ m + 1 \notin D
      /\ \A b \in D : b < m + 1 /\ ~(m + 1 < b)
      /\ \A b \in (1 .. m + 1) \ E : b \in (1 .. m) \ D
  <2>1. \A b \in 1 .. m + 1 : b \in 1 .. m \/ b = m + 1
    OBVIOUS
  <2>2. m + 1 \in 1 .. m + 1 /\ m + 1 \notin 1 .. m /\ 1 .. m \subseteq 1 .. m + 1
    OBVIOUS
  <2>3. \A b \in 1 .. m : b < m + 1 /\ ~(m + 1 < b)
    OBVIOUS
  <2> QED
    BY <1>1, <2>1, <2>2, <2>3
<1>3. n + 1 \notin Old /\ ~(m + 1 < m + 1) /\ \A k \in Old : k < n + 1
  <2>1. n + 1 \notin 1 .. n /\ ~(m + 1 < m + 1) /\ \A k \in 1 .. n : k < n + 1
    OBVIOUS
  <2> QED
    BY <2>1
<1>4. \A b \in E : b \in D \/ b = m + 1
  OBVIOUS
<1>4a. m + 1 \in E /\ D \subseteq E
  OBVIOUS
<1> HIDE DEF E, Old
<1> DEFINE now == [b \in E |-> IF b = m + 1 THEN n + 1 ELSE at[b]]
<1>5. /\ now[m + 1] = n + 1
      /\ \A b \in D : now[b] = at[b] /\ b # m + 1
  BY <1>2, <1>4a
<1>6. now \in [E -> Old \cup {n + 1}]
  BY <1>4
<1> HIDE DEF now
<1>7. \A k \in Old \cup {n + 1} : \E b \in E : now[b] = k
  BY <1>1a, <1>4a, <1>5
<1>8. \A b, c \in E : b < c => now[b] < now[c]
  BY <1>1a, <1>2, <1>3, <1>4, <1>5
<1>9. \A b \in E : Tells(longer[now[b]], longer[j].level, bases[b])
  <2>1. \A b \in D : longer[now[b]] = lines[at[b]]
    BY <1>5 DEF Old
  <2> QED
    BY <1>1a, <1>4, <1>5, <2>1
<1>10. \A b \in (1 .. m + 1) \ E : Imported(bases[b])
  BY <1>1, <1>2
<1> QED
  BY <1>2, <1>6, <1>7, <1>8, <1>9, <1>10 DEF ListsBases, Old

LEMMA ListsSkips ==
  ASSUME NEW lines, NEW j, NEW bases, NEW m \in Nat,
         ListsBases(lines, j, bases, m), Imported(bases[m + 1])
  PROVE  ListsBases(lines, j, bases, m + 1)
<1>1. \A b \in 1 .. m + 1 : b \in 1 .. m \/ b = m + 1
  OBVIOUS
<1>2. 1 .. m \subseteq 1 .. m + 1
  OBVIOUS
<1>3. PICK shown \in SUBSET (1 .. m) :
        /\ \A b \in (1 .. m) \ shown : Imported(bases[b])
        /\ \E at \in [shown -> LinesBelow(lines, j)] :
             /\ \A k \in LinesBelow(lines, j) : \E b \in shown : at[b] = k
             /\ \A b, c \in shown : b < c => at[b] < at[c]
             /\ \A b \in shown : Tells(lines[at[b]], lines[j].level, bases[b])
  BY DEF ListsBases
<1>4. shown \in SUBSET (1 .. m + 1) /\ \A b \in (1 .. m + 1) \ shown : Imported(bases[b])
  BY <1>1, <1>2, <1>3
<1> QED
  BY <1>3, <1>4 DEF ListsBases

LEMMA ListsNothing ==
  ASSUME NEW lines, NEW j, NEW bases, LinesBelow(lines, j) = {}
  PROVE  ListsBases(lines, j, bases, 0)
<1>1. 1 .. 0 = {} /\ {} \in SUBSET (1 .. 0)
  OBVIOUS
<1> DEFINE at == [b \in {} |-> b]
<1>2. at \in [{} -> {}]
  OBVIOUS
<1> HIDE DEF at
<1> QED
  BY <1>1, <1>2 DEF ListsBases

(* A line at the level of the next call. *)
NextLevel(f, l, lines, pos, line, longer, n) ==
  /\ l \in Nat /\ l = Len(f)
  /\ Outline(f, lines, pos)
  /\ OneMore(lines, line, longer, n)
  /\ Indent(line) = l

(* It is below the innermost call's line and below no other.               *)
LEMMA NewLineBelow ==
  ASSUME NEW f, NEW l, NEW lines, NEW pos, NEW line, NEW longer, NEW n,
         NextLevel(f, l, lines, pos, line, longer, n)
  PROVE  /\ \A j \in 1 .. n : j # pos[l] \/ l = 0 => LinesBelow(longer, j) = LinesBelow(lines, j)
         /\ l # 0 => LinesBelow(longer, pos[l]) = LinesBelow(lines, pos[l]) \cup {n + 1}
         /\ \A k \in 1 .. l : \A m \in pos[k] + 1 .. n + 1 : Indent(longer[m]) >= k
<1>0. /\ l \in Nat /\ l = Len(f) /\ Indent(line) = l
      /\ Outline(f, lines, pos) /\ OneMore(lines, line, longer, n)
  BY DEF NextLevel
<1>1. /\ n \in Nat /\ n = Len(lines) /\ longer[n + 1] = line
      /\ \A k \in 1 .. n : longer[k] = lines[k]
      /\ \A j \in 1 .. n :
           LinesBelow(longer, j) =
             LinesBelow(lines, j) \cup
             (IF /\ Indent(line) = Indent(lines[j]) + 1
                 /\ \A m \in j + 1 .. n : Indent(lines[m]) > Indent(lines[j])
              THEN {n + 1} ELSE {})
  BY <1>0, BelowGrows
<1>2. \A j \in 1 .. n : Indent(lines[j]) \in Nat
  <2>1. \A j \in 1 .. n : lines[j] \in LineType
    BY <1>0 DEF OneMore
  <2> QED
    BY <2>1, IndentIs
<1>3. \A k \in 1 .. l : /\ pos[k] \in 1 .. n
                        /\ Indent(lines[pos[k]]) = k - 1
                        /\ \A m \in pos[k] + 1 .. n : Indent(lines[m]) >= k
  <2> SUFFICES ASSUME NEW k \in 1 .. l
               PROVE  /\ pos[k] \in 1 .. n
                      /\ Indent(lines[pos[k]]) = k - 1
                      /\ \A m \in pos[k] + 1 .. n : Indent(lines[m]) >= k
    OBVIOUS
  <2>1. OpenLine(f, lines, pos, k) /\ pos[k] \in 1 .. n
    BY <1>0, <1>1 DEF Outline
  <2>2. k - 1 \in Nat
    BY <1>0
  <2>3. Indent(lines[pos[k]]) = k - 1
    BY <2>1, <2>2, LineIs DEF OpenLine
  <2> QED
    BY <1>1, <2>1, <2>3 DEF OpenLine
<1>4. ASSUME NEW j \in 1 .. n, j # pos[l] \/ l = 0
      PROVE  LinesBelow(longer, j) = LinesBelow(lines, j)
  <2>1. ASSUME l = Indent(lines[j]) + 1,
               \A m \in j + 1 .. n : Indent(lines[m]) > Indent(lines[j])
        PROVE  FALSE
    <3>1. l # 0 /\ l \in 1 .. l /\ Indent(lines[j]) = l - 1
      BY <1>0, <1>2, <2>1
    <3>2. /\ pos[l] \in 1 .. n /\ Indent(lines[pos[l]]) = l - 1
          /\ \A m \in pos[l] + 1 .. n : Indent(lines[m]) >= l
      BY <1>3, <3>1
    <3>3. pos[l] \in j + 1 .. n \/ j \in pos[l] + 1 .. n
      BY <1>1, <1>4, <3>1, <3>2
    <3>4. ~(l - 1 > l - 1) /\ ~(l - 1 >= l)
      BY <1>0
    <3> QED
      BY <2>1, <3>1, <3>2, <3>3, <3>4
  <2> QED
    BY <1>0, <1>1, <2>1
<1>5. ASSUME l # 0
      PROVE  LinesBelow(longer, pos[l]) = LinesBelow(lines, pos[l]) \cup {n + 1}
  <2>1. l \in 1 .. l /\ l - 1 + 1 = l /\ \A i \in Nat : i >= l => i > l - 1
    BY <1>0, <1>5
  <2>2. /\ pos[l] \in 1 .. n /\ Indent(lines[pos[l]]) = l - 1
        /\ \A m \in pos[l] + 1 .. n : Indent(lines[m]) >= l
    BY <1>3, <2>1
  <2>3. \A m \in pos[l] + 1 .. n : m \in 1 .. n
    BY <1>1, <2>2
  <2>4. \A m \in pos[l] + 1 .. n : Indent(lines[m]) > l - 1
    BY <1>2, <2>1, <2>2, <2>3
  <2> QED
    BY <1>0, <1>1, <2>1, <2>2, <2>4
<1>6. ASSUME NEW k \in 1 .. l, NEW m \in pos[k] + 1 .. n + 1
      PROVE  Indent(longer[m]) >= k
  <2>1. pos[k] \in 1 .. n /\ \A i \in pos[k] + 1 .. n : Indent(lines[i]) >= k
    BY <1>3
  <2>2. m = n + 1 \/ (m \in pos[k] + 1 .. n /\ m \in 1 .. n)
    BY <1>1, <2>1
  <2>3. l >= k
    BY <1>0
  <2> QED
    BY <1>0, <1>1, <2>1, <2>2, <2>3
<1> QED
  BY <1>4, <1>5, <1>6

(* The frames with the innermost one at its next base. *)
Advanced(f, l, g) ==
  /\ l \in Nat \ {0} /\ Len(f) = l /\ Len(g) = l
  /\ \A k \in 1 .. l : g[k].sym = f[k].sym
  /\ \A k \in 1 .. l : k # l => g[k].i = f[k].i
  /\ f[l].i \in 1 .. Len(Object(f[l].sym).bases) /\ g[l].i = f[l].i + 1
  /\ Len(Object(f[l].sym).bases) \in Nat

(* The lines of the calls and the lists that were complete, after a line   *)
(* that tells of the base the innermost call stood at.                     *)
LEMMA BaseLine ==
  ASSUME NEW f, NEW l, NEW lines, NEW pos, NEW line, NEW longer, NEW n, NEW g,
         NextLevel(f, l, lines, pos, line, longer, n), Advanced(f, l, g),
         Tells(line, l - 1, Object(f[l].sym).bases[f[l].i])
  PROVE  /\ \A k \in 1 .. l : OpenLine(g, longer, pos, k) /\ pos[k] \in 1 .. n
         /\ \A j \in 1 .. n :
              \/ longer[j].what # "class"
              \/ \E k \in 1 .. l : pos[k] = j
              \/ ListsAllBases(longer, j)
         /\ pos[l] \in 1 .. n /\ lines[pos[l]].what = "class" /\ n + 1 \in LinesBelow(longer, pos[l])
<1>0. /\ l \in Nat \ {0} /\ l = Len(f) /\ Indent(line) = l /\ Len(g) = l
      /\ Outline(f, lines, pos) /\ OneMore(lines, line, longer, n)
      /\ \A k \in 1 .. l : g[k].sym = f[k].sym
      /\ \A k \in 1 .. l : k # l => g[k].i = f[k].i
      /\ f[l].i \in Nat \ {0} /\ g[l].i = f[l].i + 1
      /\ g[l].i <= Len(Object(f[l].sym).bases) + 1
  BY DEF NextLevel, Advanced
<1> l \in Nat \ {0}
  BY <1>0
<1>1. /\ n \in Nat /\ n = Len(lines) /\ Len(longer) = n + 1 /\ longer[n + 1] = line
      /\ \A k \in 1 .. n : longer[k] = lines[k]
      /\ \A j \in 1 .. n : LinesBelow(lines, j) \subseteq j + 1 .. n
  BY <1>0, BelowGrows
<1>2. /\ \A j \in 1 .. n : j # pos[l] => LinesBelow(longer, j) = LinesBelow(lines, j)
      /\ LinesBelow(longer, pos[l]) = LinesBelow(lines, pos[l]) \cup {n + 1}
      /\ \A k \in 1 .. l : \A m \in pos[k] + 1 .. n + 1 : Indent(longer[m]) >= k
  BY NewLineBelow
<1>3. \A k \in 1 .. l : OpenLine(f, lines, pos, k) /\ pos[k] \in 1 .. n
  BY <1>0, <1>1 DEF Outline
<1>4. \A j \in 1 .. n : LinesBelow(lines, j) \subseteq 1 .. n
  <2>1. \A j \in 1 .. n : j + 1 .. n \subseteq 1 .. n
    BY <1>1
  <2> QED
    BY <1>1, <2>1
<1>5. \A k \in 1 .. l : k # l => pos[k] # pos[l]
  <2> SUFFICES ASSUME NEW k \in 1 .. l, pos[k] = pos[l], k # l
               PROVE  FALSE
    OBVIOUS
  <2>1. l \in 1 .. l /\ k - 1 \in Nat /\ l - 1 \in Nat
    OBVIOUS
  <2>2. lines[pos[k]].level = k - 1 /\ lines[pos[l]].level = l - 1
    BY <1>3, <2>1, LineIs DEF OpenLine
  <2> QED
    BY <2>2
<1>6. ASSUME NEW k \in 1 .. l
      PROVE  OpenLine(g, longer, pos, k)
  <2>1. /\ lines[pos[k]] = Line(k - 1, f[k].sym) /\ pos[k] \in 1 .. n
        /\ ListsBases(lines, pos[k], Object(f[k].sym).bases, f[k].i - 1)
        /\ f[k].i <= Len(Object(f[k].sym).bases) + 1
    BY <1>3 DEF OpenLine
  <2>2. longer[pos[k]] = Line(k - 1, g[k].sym)
    BY <1>0, <1>1, <2>1
  <2>3. CASE k # l
    <3>1. LinesBelow(longer, pos[k]) = LinesBelow(lines, pos[k])
      BY <1>2, <1>5, <2>1, <2>3
    <3>2. ListsBases(longer, pos[k], Object(f[k].sym).bases, f[k].i - 1)
      BY <1>1, <1>4, <2>1, <3>1, ListsKept
    <3> QED
      BY <1>0, <1>1, <1>2, <2>1, <2>2, <2>3, <3>2 DEF OpenLine
  <2>4. CASE k = l
    <3> DEFINE bases == Object(f[l].sym).bases
    <3>1. /\ f[l].i - 1 \in Nat /\ f[l].i - 1 + 1 = f[l].i /\ g[l].i - 1 = f[l].i
      BY <1>0
    <3>2. lines[pos[l]].level = l - 1
      BY <2>1, <2>4, LineIs
    <3>3. ListsBases(lines, pos[l], bases, f[l].i - 1)
      BY <2>1, <2>4
    <3>4. Tells(longer[n + 1], lines[pos[l]].level, bases[f[l].i])
      BY <1>1, <3>2
    <3> HIDE DEF bases
    <3>6. ListsBases(longer, pos[l], bases, f[l].i - 1 + 1)
      <4>1. /\ pos[l] \in 1 .. n /\ longer[pos[l]] = lines[pos[l]]
            /\ LinesBelow(lines, pos[l]) \subseteq 1 .. n
            /\ \A p \in LinesBelow(lines, pos[l]) : longer[p] = lines[p]
        BY <1>1, <1>4, <2>1, <2>4
      <4> DEFINE m == f[l].i - 1
      <4>2. m \in Nat /\ m + 1 = f[l].i
        BY <3>1
      <4> HIDE DEF m
      <4>3. Tells(longer[n + 1], lines[pos[l]].level, bases[m + 1])
        BY <3>4, <4>2
      <4>4. ListsBases(lines, pos[l], bases, m)
        BY <3>3 DEF m
      <4>5. ListsBases(longer, pos[l], bases, m + 1)
        BY <1>1, <1>2, <4>1, <4>2, <4>3, <4>4, ListsOneMore
      <4> QED
        BY <4>5 DEF m
    <3>7. ListsBases(longer, pos[l], Object(g[l].sym).bases, g[l].i - 1)
      BY <1>0, <3>1, <3>6 DEF bases
    <3> QED
      BY <1>0, <1>1, <1>2, <2>2, <2>4, <3>7 DEF OpenLine
  <2> QED
    BY <2>3, <2>4
<1>7. ASSUME NEW j \in 1 .. n, longer[j].what = "class", \A k \in 1 .. l : pos[k] # j
      PROVE  ListsAllBases(longer, j)
  <2>1. ListsAllBases(lines, j)
    BY <1>0, <1>1, <1>7 DEF Outline
  <2>2. LinesBelow(longer, j) = LinesBelow(lines, j) /\ longer[j] = lines[j]
    BY <1>1, <1>2, <1>7
  <2>3. \A k \in LinesBelow(lines, j) : longer[k] = lines[k]
    BY <1>1, <1>4
  <2> QED
    BY <2>1, <2>2, <2>3, ListsKept DEF ListsAllBases
<1>8. pos[l] \in 1 .. n /\ lines[pos[l]].what = "class" /\ n + 1 \in LinesBelow(longer, pos[l])
  <2>1. l \in 1 .. l /\ l - 1 \in Nat
    OBVIOUS
  <2> QED
    BY <1>2, <1>3, <2>1, LineIs DEF OpenLine
<1> QED
  BY <1>3, <1>6, <1>7, <1>8

(* A class line for the next call, which is put on top of the frames.      *)
LEMMA PushCall ==
  ASSUME NEW g \in TypeinfoCalls, NEW l \in Nat, Len(g) = l, NEW sym, NEW lines, NEW longer,
         NEW n, OneMore(lines, Line(l, sym), longer, n), NEW pos \in [1 .. l -> 1 .. n],
         [sym |-> sym, i |-> 1] \in TypeinfoCall, Len(Object(sym).bases) \in Nat,
         \A k \in 1 .. l : OpenLine(g, longer, pos, k),
         \A j \in 1 .. n :
           \/ longer[j].what # "class"
           \/ \E k \in 1 .. l : pos[k] = j
           \/ ListsAllBases(longer, j)
  PROVE  \E p : Outline(Append(g, [sym |-> sym, i |-> 1]), longer, p)
<1> DEFINE call == [sym |-> sym, i |-> 1]
           h == Append(g, call)
           p == [k \in 1 .. l + 1 |-> IF k = l + 1 THEN n + 1 ELSE pos[k]]
<1>1. /\ n \in Nat /\ Len(longer) = n + 1 /\ longer[n + 1] = Line(l, sym)
      /\ LinesBelow(longer, n + 1) = {}
  BY BelowGrows
<1>2. /\ Len(h) = l + 1 /\ h[l + 1] = call
      /\ \A k \in 1 .. l : h[k] = g[k]
  BY AppendFacts DEF TypeinfoCalls
<1>3. call.sym = sym /\ call.i = 1
  OBVIOUS
<1>4. /\ \A k \in 1 .. l + 1 : k \in 1 .. l \/ k = l + 1
      /\ \A k \in 1 .. l : k \in 1 .. l + 1 /\ k # l + 1
      /\ l + 1 \in 1 .. l + 1 /\ l + 1 - 1 = l /\ 1 - 1 = 0
  OBVIOUS
<1>5. /\ \A j \in 1 .. n + 1 : j \in 1 .. n \/ j = n + 1
      /\ \A j \in 1 .. n : j \in 1 .. n + 1
      /\ n + 1 \in 1 .. n + 1 /\ n + 1 + 1 .. n + 1 = {}
  BY <1>1
<1>6. \A k \in 1 .. l : p[k] = pos[k]
  BY <1>4
<1>7. p[l + 1] = n + 1
  BY <1>4
<1>8. p \in [1 .. l + 1 -> 1 .. n + 1]
  BY <1>4, <1>5
<1> HIDE DEF p, h, call
<1>9. \A k \in 1 .. l : OpenLine(h, longer, p, k)
  BY <1>2, <1>6 DEF OpenLine
<1>10. OpenLine(h, longer, p, l + 1)
  <2>1. ListsBases(longer, n + 1, Object(sym).bases, 0)
    BY <1>1, ListsNothing
  <2>2. \A m \in n + 1 + 1 .. Len(longer) : Indent(longer[m]) >= l + 1
    BY <1>1, <1>5
  <2>3. /\ h[l + 1].sym = sym /\ h[l + 1].i - 1 = 0
        /\ h[l + 1].i <= Len(Object(sym).bases) + 1
    <3>1. h[l + 1].sym = sym /\ h[l + 1].i = 1
      BY <1>2, <1>3
    <3> QED
      BY <3>1
  <2> QED
    BY <1>1, <1>4, <1>7, <2>1, <2>2, <2>3 DEF OpenLine
<1>11. \A k \in 1 .. l + 1 : OpenLine(h, longer, p, k)
  BY <1>4, <1>9, <1>10
<1>12. ASSUME NEW j \in 1 .. n + 1
       PROVE  \/ longer[j].what # "class"
              \/ \E k \in 1 .. l + 1 : p[k] = j
              \/ ListsAllBases(longer, j)
  <2>1. CASE j \in 1 .. n
    BY <1>4, <1>6, <2>1
  <2>2. CASE j = n + 1
    BY <1>4, <1>7, <2>2
  <2> QED
    BY <1>5, <2>1, <2>2
<1>13. Outline(h, longer, p)
  BY <1>1, <1>2, <1>8, <1>11, <1>12 DEF Outline
<1> QED
  BY <1>13 DEF h, call

(* A warning in the place of the base.                                     *)
LEMMA WarnOfBase ==
  ASSUME NEW l \in Nat, NEW g, Len(g) = l, NEW lines, NEW line, line.what # "class",
         NEW longer, NEW n, OneMore(lines, line, longer, n),
         NEW pos \in [1 .. l -> 1 .. n],
         \A k \in 1 .. l : OpenLine(g, longer, pos, k),
         \A j \in 1 .. n :
           \/ longer[j].what # "class"
           \/ \E k \in 1 .. l : pos[k] = j
           \/ ListsAllBases(longer, j)
  PROVE  Outline(g, longer, pos)
<1>1. n \in Nat /\ Len(longer) = n + 1 /\ longer[n + 1] = line
  BY BelowGrows
<1>2. /\ \A j \in 1 .. n + 1 : j \in 1 .. n \/ j = n + 1
      /\ \A j \in 1 .. n : j \in 1 .. n + 1
  BY <1>1
<1>3. pos \in [1 .. l -> 1 .. n + 1]
  BY <1>2
<1> QED
  BY <1>1, <1>2, <1>3 DEF Outline

(* A base that has no line.                                                *)
LEMMA SkipBase ==
  ASSUME NEW f, NEW l, NEW lines, NEW pos, NEW g,
         Outline(f, lines, pos), Advanced(f, l, g),
         Imported(Object(f[l].sym).bases[f[l].i])
  PROVE  Outline(g, lines, pos)
<1>1. /\ l \in Nat \ {0} /\ l = Len(f) /\ Len(g) = l
      /\ \A k \in 1 .. l : g[k].sym = f[k].sym
      /\ \A k \in 1 .. l : k # l => g[k].i = f[k].i
      /\ f[l].i \in Nat \ {0} /\ g[l].i = f[l].i + 1
      /\ g[l].i <= Len(Object(f[l].sym).bases) + 1
      /\ pos \in [1 .. l -> 1 .. Len(lines)]
  BY DEF Advanced, Outline
<1>2. ASSUME NEW k \in 1 .. l
      PROVE  OpenLine(g, lines, pos, k)
  <2>1. OpenLine(f, lines, pos, k)
    BY <1>1 DEF Outline
  <2>2. CASE k # l
    BY <1>1, <2>1, <2>2 DEF OpenLine
  <2>3. CASE k = l
    <3> DEFINE bases == Object(f[l].sym).bases
               m == f[l].i - 1
    <3>1. m \in Nat /\ m + 1 = f[l].i /\ g[l].i - 1 = m + 1 /\ l \in 1 .. l
      BY <1>1
    <3>2. ListsBases(lines, pos[l], bases, m)
      BY <2>1, <2>3 DEF OpenLine
    <3> HIDE DEF m
    <3>3. Imported(bases[m + 1])
      BY <3>1
    <3> HIDE DEF bases
    <3>4. ListsBases(lines, pos[l], bases, m + 1)
      BY <3>1, <3>2, <3>3, ListsSkips
    <3>5. ListsBases(lines, pos[l], Object(g[l].sym).bases, g[l].i - 1)
      BY <1>1, <3>1, <3>4 DEF bases
    <3> QED
      BY <1>1, <2>1, <2>3, <3>1, <3>5 DEF OpenLine
  <2> QED
    BY <2>2, <2>3
<1> QED
  BY <1>1, <1>2 DEF Outline

(* The innermost call returns: its class has all its bases.                *)
LEMMA PopCall ==
  ASSUME NEW f, NEW l \in Nat \ {0}, Len(f) = l, NEW lines, NEW pos, Outline(f, lines, pos),
         f[l].sym \in Seen, f[l].i \in Nat, Len(Object(f[l].sym).bases) \in Nat,
         f[l].i > Len(Object(f[l].sym).bases),
         NEW g, Len(g) = l - 1, \A k \in 1 .. l - 1 : g[k] = f[k]
  PROVE  \E p : Outline(g, lines, p)
<1> DEFINE p == [k \in 1 .. l - 1 |-> pos[k]]
<1>1. /\ pos \in [1 .. l -> 1 .. Len(lines)]
      /\ \A k \in 1 .. l : OpenLine(f, lines, pos, k)
  BY DEF Outline
<1>2. /\ \A k \in 1 .. l : k \in 1 .. l - 1 \/ k = l
      /\ 1 .. l - 1 \subseteq 1 .. l /\ l \in 1 .. l /\ l - 1 \in Nat
  OBVIOUS
<1>3. /\ p \in [1 .. l - 1 -> 1 .. Len(lines)]
      /\ \A k \in 1 .. l - 1 : p[k] = pos[k]
  BY <1>1, <1>2
<1> HIDE DEF p
<1>4. \A k \in 1 .. l - 1 : OpenLine(g, lines, p, k)
  BY <1>1, <1>2, <1>3 DEF OpenLine
<1>5. ListsAllBases(lines, pos[l])
  <2> DEFINE bases == Object(f[l].sym).bases
  <2>1. /\ lines[pos[l]] = Line(l - 1, f[l].sym)
        /\ ListsBases(lines, pos[l], bases, f[l].i - 1)
    BY <1>1, <1>2 DEF OpenLine
  <2>2. f[l].i - 1 = Len(bases)
    <3>1. f[l].i <= Len(bases) + 1
      BY <1>1, <1>2 DEF OpenLine
    <3> QED
      BY <3>1
  <2>3. ListsBases(lines, pos[l], bases, Len(bases))
    BY <2>1, <2>2
  <2>4. lines[pos[l]] = Line(lines[pos[l]].level, f[l].sym)
    BY <2>1, LineIs
  <2> QED
    BY <2>3, <2>4 DEF ListsAllBases
<1>6. ASSUME NEW j \in 1 .. Len(lines)
      PROVE  \/ lines[j].what # "class"
             \/ \E k \in 1 .. l - 1 : p[k] = j
             \/ ListsAllBases(lines, j)
  <2>1. \/ lines[j].what # "class"
        \/ \E k \in 1 .. l : pos[k] = j
        \/ ListsAllBases(lines, j)
    BY DEF Outline
  <2> QED
    BY <1>2, <1>3, <1>5, <2>1
<1> QED
  BY <1>3, <1>4, <1>6 DEF Outline

(* No line is a stray, and the heads are in order, after one line more.    *)
LEMMA StrayGrows ==
  ASSUME NEW lines, NEW line, NEW longer, NEW n, OneMore(lines, line, longer, n),
         NoStrayLine(lines),
         \/ Indent(line) = 0
         \/ \E j \in 1 .. n : lines[j].what = "class" /\ n + 1 \in LinesBelow(longer, j)
  PROVE  NoStrayLine(longer)
<1>1. /\ n \in Nat /\ n = Len(lines) /\ Len(longer) = n + 1 /\ longer[n + 1] = line
      /\ \A k \in 1 .. n : longer[k] = lines[k]
      /\ \A j \in 1 .. n : LinesBelow(lines, j) \subseteq LinesBelow(longer, j)
  BY BelowGrows
<1>2. /\ \A k \in 1 .. n + 1 : k \in 1 .. n \/ k = n + 1
      /\ \A k \in 1 .. n : k \in 1 .. n + 1
  BY <1>1
<1> QED
  BY <1>1, <1>2 DEF NoStrayLine

LEMMA HeadsOneMore ==
  ASSUME NEW lines, NEW line, NEW longer, NEW n, OneMore(lines, line, longer, n)
  PROVE  /\ \A k \in Heads(lines) : k \in 1 .. n /\ k < n + 1 /\ ~(n + 1 < k)
         /\ \A k \in Heads(longer) : k \in Heads(lines) \/ (k = n + 1 /\ Indent(line) = 0)
         /\ \A k \in Heads(lines) : longer[k] = lines[k]
         /\ longer[n + 1] = line /\ ~(n + 1 < n + 1)
<1>1. /\ n \in Nat /\ n = Len(lines) /\ Len(longer) = n + 1 /\ longer[n + 1] = line
      /\ \A k \in 1 .. n : longer[k] = lines[k]
  BY BelowGrows
<1>2. /\ \A k \in 1 .. n + 1 : k \in 1 .. n \/ k = n + 1
      /\ \A k \in 1 .. n : k < n + 1 /\ ~(n + 1 < k)
      /\ ~(n + 1 < n + 1)
  BY <1>1
<1> QED
  BY <1>1, <1>2 DEF Heads

(* A line below the top level.                                             *)
LEMMA HeadsStay ==
  ASSUME NEW lines, NEW line, NEW longer, NEW n, OneMore(lines, line, longer, n),
         Indent(line) # 0, Rooted(lines), NEW names, Before(lines, names)
  PROVE  Rooted(longer) /\ Before(longer, names)
<1>1. \A j \in Heads(longer) : j \in Heads(lines) /\ longer[j] = lines[j]
  BY HeadsOneMore
<1> QED
  BY <1>1 DEF Rooted, Before

(* A root whose name comes after those before it.                          *)
LEMMA HeadsFollow ==
  ASSUME NEW d \in DOMAIN syms, Demangled[syms[d].name] = d,
         libs[syms[d].lib].is_primary, syms[d].addr # 0,
         NEW lines, NEW longer, NEW n, OneMore(lines, Line(0, syms[d]), longer, n),
         Rooted(lines), NEW names, NEW rest, Before(lines, names),
         d \in names, rest \subseteq names, \A e \in rest : d < e
  PROVE  Rooted(longer) /\ Before(longer, rest)
<1>1. /\ \A k \in Heads(lines) : k \in 1 .. n /\ k < n + 1 /\ ~(n + 1 < k)
      /\ \A k \in Heads(longer) : k \in Heads(lines) \/ k = n + 1
      /\ \A k \in Heads(lines) : longer[k] = lines[k]
      /\ longer[n + 1] = Line(0, syms[d]) /\ ~(n + 1 < n + 1)
  BY HeadsOneMore
<1>2. Demangled[longer[n + 1].name] = d
  BY <1>1, LineIs
<1>3. \A j \in Heads(longer) : \E e \in DOMAIN syms :
        /\ longer[j] = Line(0, syms[e])
        /\ libs[syms[e].lib].is_primary /\ syms[e].addr # 0
  BY <1>1 DEF Rooted
<1>4. \A j, k \in Heads(longer) : j < k => Demangled[longer[j].name] < Demangled[longer[k].name]
  <2> SUFFICES ASSUME NEW j \in Heads(longer), NEW k \in Heads(longer), j < k
               PROVE  Demangled[longer[j].name] < Demangled[longer[k].name]
    OBVIOUS
  <2>1. CASE k \in Heads(lines)
    <3>1. j \in Heads(lines)
      BY <1>1, <2>1
    <3> QED
      BY <1>1, <2>1, <3>1 DEF Rooted
  <2>2. CASE k = n + 1
    <3>1. j \in Heads(lines)
      BY <1>1, <2>2
    <3> QED
      BY <1>1, <1>2, <2>2, <3>1 DEF Before
  <2> QED
    BY <1>1, <2>1, <2>2
<1>5. Before(longer, rest)
  BY <1>1, <1>2 DEF Before
<1> QED
  BY <1>3, <1>4, <1>5 DEF Rooted

------------------------------------------------------------------------------
(* The outline after each step. *)

(* What the outline says of given lines does not change while main prints. *)
LEMMA DrawnKept ==
  ASSUME Seen' = Seen, UNCHANGED <<libs, syms>>,
         \A sym : Object(sym)' = Object(sym) /\ AbsAddr(sym)' = AbsAddr(sym)
  PROVE  /\ \A lines : Rooted(lines) => Rooted(lines)'
         /\ \A f, lines : Drawn(f, lines) => Drawn(f, lines)'
<1>1. \A level, sym : Line(level, sym)' = Line(level, sym)
  BY DEF Line
<1>2. \A line, level, base : Tells(line, level, base)' <=> Tells(line, level, base)
  BY <1>1 DEF Tells, Warning, Displaced
<1>3. \A base : Imported(base)' <=> Imported(base)
  BY DEF Imported
<1>4. \A lines, j, bases, m : ListsBases(lines, j, bases, m)' <=> ListsBases(lines, j, bases, m)
  BY <1>2, <1>3 DEF ListsBases
<1>5. \A lines, j : ListsAllBases(lines, j)' <=> ListsAllBases(lines, j)
  BY <1>1, <1>4 DEF ListsAllBases
<1>6. \A f, lines, pos, k : OpenLine(f, lines, pos, k)' <=> OpenLine(f, lines, pos, k)
  BY <1>1, <1>4 DEF OpenLine
<1>7. \A f, lines, pos : Outline(f, lines, pos)' <=> Outline(f, lines, pos)
  BY <1>5, <1>6 DEF Outline
<1>8. \A lines : Rooted(lines) => Rooted(lines)'
  BY <1>1 DEF Rooted
<1>9. \A f, lines : Drawn(f, lines) => Drawn(f, lines)'
  BY <1>7 DEF Drawn
<1> QED
  BY <1>8, <1>9

LEMMA OutlinedNext ==
  ASSUME GraphInv, mode \in {"printing", "done"},
         UNCHANGED <<libVars, matches, rtti, cursor, syms, symcache>>,
         mode' = "done" => calls' = <<>>,
         mode' \in {"printing", "done"} =>
           Rooted(out') /\ Before(out', left') /\ (AddressLayout => Drawn(calls', out'))
  PROVE  Outlined'
<1>1. UNCHANGED <<file, libs, matches, rtti, cursor>> /\ libs' = libs
  BY DEF libVars
<1>2. Seen' = Seen
  BY <1>1, SeenKept
<1>3. /\ \A sym : Object(sym)' = Object(sym) /\ AbsAddr(sym)' = AbsAddr(sym)
      /\ AddressLayout' <=> AddressLayout
  BY <1>1, MemoryKept, TableKept
<1>4. /\ \A lines : Rooted(lines) => Rooted(lines)'
      /\ \A f, lines : Drawn(f, lines) => Drawn(f, lines)'
  BY <1>1, <1>2, <1>3, DrawnKept
<1>5. /\ Rooted(out') => Rooted(out)'
      /\ Drawn(calls', out') => Drawn(calls, out)'
      /\ Before(out', left') => Before(out, left)'
  BY <1>4 DEF Before
<1> QED
  BY <1>3, <1>5 DEF Outlined

(* Nothing is printed yet.                                                 *)
LEMMA NothingDrawn ==
  ASSUME NEW names
  PROVE  Rooted(<<>>) /\ Before(<<>>, names) /\ Drawn(<<>>, <<>>)
<1>1. 1 .. Len(<<>>) = {} /\ Len(<<>>) = 0
  OBVIOUS
<1>2. Heads(<<>>) = {}
  BY <1>1 DEF Heads
<1>3. Rooted(<<>>) /\ NoStrayLine(<<>>) /\ Before(<<>>, names)
  BY <1>1, <1>2 DEF Rooted, NoStrayLine, Before
<1> DEFINE p == [k \in {} |-> k]
<1>4. p \in [{} -> {}]
  OBVIOUS
<1> HIDE DEF p
<1>5. Outline(<<>>, <<>>, p)
  BY <1>1, <1>4 DEF Outline
<1> QED
  BY <1>3, <1>5 DEF Drawn

(* The frames and lines of the state that a step of printing starts from.  *)
LEMMA PrintingFrames ==
  ASSUME GraphInv, calls # <<>>
  PROVE  /\ calls \in TypeinfoCalls /\ PastBase \in TypeinfoCalls
         /\ Len(calls) \in Nat \ {0}
         /\ TopCall = calls[Len(calls)]
         /\ TopCall.sym \in Seen /\ TopCall.i \in Nat \ {0}
         /\ Object(TopCall.sym).bases \in Seq(Nat)
         /\ Len(Object(TopCall.sym).bases) \in Nat
         /\ TopCall.i <= Len(Object(TopCall.sym).bases) =>
              /\ TopCall.i \in 1 .. Len(Object(TopCall.sym).bases) /\ CurrentBase \in Nat
              /\ Advanced(calls, Len(calls), PastBase)
<1>1. /\ CollectInv /\ rtti \in Memories /\ calls \in TypeinfoCalls /\ FramesFit(calls)
  BY FramesFitNow DEF GraphInv, CollectInv, TypeOK, TypeinfoCalls, TypeinfoCall
<1>2. /\ PastBase \in TypeinfoCalls
      /\ Len(calls) \in Nat \ {0}
      /\ Len(PastBase) = Len(calls)
      /\ \A k \in 1 .. Len(calls) : PastBase[k].sym = calls[k].sym
      /\ \A k \in 1 .. Len(calls) : k # Len(calls) => PastBase[k] = calls[k]
      /\ PastBase[Len(calls)].i = TopCall.i + 1
      /\ TopCall.i \in Nat \ {0}
      /\ TopCall = calls[Len(calls)]
  BY <1>1, PastBaseFacts
<1>4. Len(calls) \in 1 .. Len(calls)
  BY <1>2
<1>5. TopCall.sym \in Seen
  BY <1>1, <1>2, <1>4 DEF FramesFit
<1>6. Object(TopCall.sym).bases \in Seq(Nat)
  BY <1>1, ObjectType
<1>7. Len(Object(TopCall.sym).bases) \in Nat
  BY <1>6
<1>8. TopCall.i <= Len(Object(TopCall.sym).bases) =>
        TopCall.i \in 1 .. Len(Object(TopCall.sym).bases)
  BY <1>2, <1>7
<1>9. TopCall.i <= Len(Object(TopCall.sym).bases) => CurrentBase \in Nat
  BY <1>6, <1>8 DEF CurrentBase
<1>10. TopCall.i <= Len(Object(TopCall.sym).bases) => Advanced(calls, Len(calls), PastBase)
  BY <1>2, <1>7, <1>8 DEF Advanced
<1> QED
  BY <1>1, <1>2, <1>5, <1>6, <1>7, <1>8, <1>9, <1>10

(* The line of a base, before its call, if there is one, is on top.        *)
LEMMA DrawnBase ==
  ASSUME NEW f, NEW l, NEW g, Advanced(f, l, g), NEW lines, Drawn(f, lines),
         NEW line, Indent(line) = l, NEW longer, NEW n, OneMore(lines, line, longer, n),
         Tells(line, l - 1, Object(f[l].sym).bases[f[l].i])
  PROVE  /\ NoStrayLine(longer)
         /\ \E pos \in [1 .. l -> 1 .. n] :
              /\ \A k \in 1 .. l : OpenLine(g, longer, pos, k)
              /\ \A j \in 1 .. n :
                   \/ longer[j].what # "class"
                   \/ \E k \in 1 .. l : pos[k] = j
                   \/ ListsAllBases(longer, j)
<1>1. PICK pos : Outline(f, lines, pos)
  BY DEF Drawn
<1>2. Indent(line) # 0 /\ l \in Nat /\ l = Len(f) /\ n = Len(lines)
  BY DEF Advanced, OneMore
<1>3. NextLevel(f, l, lines, pos, line, longer, n)
  BY <1>1, <1>2 DEF NextLevel
<1>4. /\ \A k \in 1 .. l : OpenLine(g, longer, pos, k) /\ pos[k] \in 1 .. n
      /\ \A j \in 1 .. n :
           \/ longer[j].what # "class"
           \/ \E k \in 1 .. l : pos[k] = j
           \/ ListsAllBases(longer, j)
      /\ pos[l] \in 1 .. n /\ lines[pos[l]].what = "class" /\ n + 1 \in LinesBelow(longer, pos[l])
  BY <1>3, BaseLine
<1>5. pos \in [1 .. l -> 1 .. n]
  BY <1>1, <1>2 DEF Outline
<1>6. NoStrayLine(longer)
  BY <1>4, StrayGrows DEF Drawn
<1> QED
  BY <1>4, <1>5, <1>6

LEMMA FollowBaseDraws ==
  ASSUME GraphInv, FollowBase, mode' = "printing", Rooted(out), Before(out, left),
         AddressLayout => Drawn(calls, out)
  PROVE  Rooted(out') /\ Before(out', left') /\ (AddressLayout => Drawn(calls', out'))
<1> DEFINE kind == Object(TopCall.sym).kind
           sym == BaseSymbol(kind, CurrentBase)
           l == Len(calls)
           bases == Object(TopCall.sym).bases
<1>1. /\ mode = "printing" /\ calls # <<>>
      /\ TopCall.i <= Len(bases)
      /\ BaseFound(kind, CurrentBase)
      /\ Recurse(sym, PastBase)
      /\ UNCHANGED left
      /\ CollectInv
  BY DEF FollowBase, AtBase, GraphInv
<1>2. /\ PastBase \in TypeinfoCalls
      /\ l \in Nat \ {0}
      /\ Advanced(calls, l, PastBase)
      /\ TopCall = calls[l]
      /\ TopCall.sym \in Seen
      /\ TopCall.i \in 1 .. Len(bases) /\ CurrentBase \in Nat
      /\ CurrentBase = bases[TopCall.i]
  BY <1>1, PrintingFrames DEF CurrentBase
<1>3. sym \in Seen /\ sym \in Symbol
  <2>1. sym \in Seen
    BY <1>1, <1>2, BaseSymbolFinds
  <2> QED
    BY <1>1, <2>1, SeenType DEF CollectInv
<1>4. AddressLayout => AbsAddr(sym) = bases[TopCall.i]
  BY <1>1, <1>2, BaseIsPointedTo
<1>6. out \in Seq(LineType) /\ Len(out) \in Nat
  BY <1>1 DEF CollectInv, TypeOK
<1>7. /\ calls' \in TypeinfoCalls
      /\ \/ calls' = PastBase /\ UNCHANGED out /\ (sym.addr # 0 => mode' # "printing")
         \/ /\ calls' = Append(PastBase, [sym |-> sym, i |-> 1])
            /\ out' = Append(out, Line(Len(PastBase), sym))
            /\ Line(Len(PastBase), sym) \in LineType
            /\ Object(sym).kind # "unmapped"
  BY <1>1, <1>2, <1>3, RecurseFrames
<1> HIDE DEF sym, kind, l
<1>8. CASE calls' = PastBase /\ UNCHANGED out /\ (sym.addr # 0 => mode' # "printing")
  <2>1. sym.addr = 0
    BY <1>8
  <2>2. ASSUME AddressLayout
        PROVE  Drawn(calls', out')
    <3>1. Imported(bases[TopCall.i])
      BY <1>3, <1>4, <2>1, <2>2 DEF Imported
    <3>2. PICK pos : Outline(calls, out, pos)
      BY <2>2 DEF Drawn
    <3>3. Outline(PastBase, out, pos)
      BY <1>2, <3>1, <3>2, SkipBase
    <3> QED
      BY <1>8, <2>2, <3>3 DEF Drawn
  <2> QED
    BY <1>1, <1>8, <2>2
<1>9. CASE /\ calls' = Append(PastBase, [sym |-> sym, i |-> 1])
           /\ out' = Append(out, Line(Len(PastBase), sym))
           /\ Line(Len(PastBase), sym) \in LineType
           /\ sym.addr # 0
  <2> DEFINE line == Line(l, sym)
             n == Len(out)
  <2>1. Len(PastBase) = l /\ l - 1 + 1 = l /\ l # 0
    BY <1>2 DEF Advanced
  <2>2. out' = Append(out, line) /\ line \in LineType
    BY <1>9, <2>1
  <2>3. OneMore(out, line, out', n)
    BY <1>6, <2>2 DEF OneMore
  <2>4. Indent(line) = l
    BY LineIs
  <2>4a. Rooted(out') /\ Before(out', left')
    BY <1>1, <2>1, <2>3, <2>4, HeadsStay
  <2>5. ASSUME AddressLayout
        PROVE  Drawn(calls', out')
    <3>1. Tells(line, l - 1, bases[TopCall.i])
      BY <1>3, <1>4, <1>9, <2>1, <2>5 DEF Tells
    <3> HIDE DEF line, n
    <3>2. /\ NoStrayLine(out')
          /\ \E pos \in [1 .. l -> 1 .. n] :
               /\ \A k \in 1 .. l : OpenLine(PastBase, out', pos, k)
               /\ \A j \in 1 .. n :
                    \/ out'[j].what # "class"
                    \/ \E k \in 1 .. l : pos[k] = j
                    \/ ListsAllBases(out', j)
      <4>1. /\ Tells(line, l - 1, Object(calls[l].sym).bases[calls[l].i])
            /\ Advanced(calls, l, PastBase)
            /\ Drawn(calls, out)
        BY <1>2, <2>5, <3>1
      <4> QED
        BY <2>3, <2>4, <4>1, DrawnBase
    <3>3. PICK pos \in [1 .. l -> 1 .. n] :
            /\ \A k \in 1 .. l : OpenLine(PastBase, out', pos, k)
            /\ \A j \in 1 .. n :
                 \/ out'[j].what # "class"
                 \/ \E k \in 1 .. l : pos[k] = j
                 \/ ListsAllBases(out', j)
      BY <3>2
    <3>4. [sym |-> sym, i |-> 1] \in TypeinfoCall /\ Len(Object(sym).bases) \in Nat
      <4>1. Object(sym).bases \in Seq(Nat)
        BY <1>1, ObjectType DEF CollectInv, TypeOK
      <4> QED
        BY <1>3, <4>1 DEF TypeinfoCall
    <3>5. \E p : Outline(Append(PastBase, [sym |-> sym, i |-> 1]), out', p)
      <4>1. OneMore(out, Line(l, sym), out', n)
        BY <2>3 DEF line
      <4>2. PastBase \in TypeinfoCalls /\ l \in Nat /\ Len(PastBase) = l
        BY <1>2, <2>1 DEF Advanced
      <4> HIDE DEF bases
      <4> QED
        BY <3>3, <3>4, <4>1, <4>2, PushCall
    <3> QED
      BY <1>9, <3>2, <3>5 DEF Drawn
  <2> QED
    BY <2>4a, <2>5
<1>10. CASE sym.addr = 0
  BY <1>1, <1>8, <1>10 DEF Recurse, sym, kind
<1> QED
  BY <1>7, <1>8, <1>9, <1>10

LEMMA MissBaseDraws ==
  ASSUME GraphInv, MissBase, Rooted(out), Before(out, left),
         AddressLayout => Drawn(calls, out)
  PROVE  Rooted(out') /\ Before(out', left') /\ (AddressLayout => Drawn(calls', out'))
<1> DEFINE kind == Object(TopCall.sym).kind
           l == Len(calls)
           bases == Object(TopCall.sym).bases
           line == Warning(l - 1, CurrentBase)
           n == Len(out)
<1>1. /\ mode = "printing" /\ calls # <<>>
      /\ TopCall.i <= Len(bases)
      /\ ~BaseFound(kind, CurrentBase)
      /\ calls' = PastBase
      /\ out' = Append(out, line)
      /\ UNCHANGED left
      /\ CollectInv
  BY DEF MissBase, AtBase, GraphInv
<1>2. /\ PastBase \in TypeinfoCalls
      /\ l \in Nat \ {0}
      /\ Advanced(calls, l, PastBase)
      /\ TopCall = calls[l]
      /\ TopCall.i \in 1 .. Len(bases) /\ CurrentBase \in Nat
      /\ CurrentBase = bases[TopCall.i]
  BY <1>1, PrintingFrames DEF CurrentBase
<1>3. \A x \in Seen : AbsAddr(x) = bases[TopCall.i] => Displaced(x)
  BY <1>1, <1>2, UnfoundHasCause
<1>4. out \in Seq(LineType) /\ Len(out) \in Nat
  BY <1>1 DEF CollectInv, TypeOK
<1> HIDE DEF kind, l
<1>5. l - 1 \in Nat /\ l - 1 + 1 = l
  BY <1>2
<1>6. line \in LineType
  BY <1>2, <1>5 DEF Warning, LineType
<1>7. Indent(line) = l /\ line.what # "class"
  BY <1>5, WarningIs
<1>8. OneMore(out, line, out', n)
  BY <1>1, <1>4, <1>6 DEF OneMore
<1>10. Tells(line, l - 1, bases[TopCall.i])
  BY <1>2, <1>3 DEF Tells
<1>10a. Rooted(out') /\ Before(out', left')
  BY <1>1, <1>2, <1>7, <1>8, HeadsStay
<1> HIDE DEF line, n
<1>11. ASSUME AddressLayout
       PROVE  Drawn(calls', out')
  <2>1. /\ NoStrayLine(out')
        /\ \E pos \in [1 .. l -> 1 .. n] :
             /\ \A k \in 1 .. l : OpenLine(PastBase, out', pos, k)
             /\ \A j \in 1 .. n :
                  \/ out'[j].what # "class"
                  \/ \E k \in 1 .. l : pos[k] = j
                  \/ ListsAllBases(out', j)
    <3>1. Tells(line, l - 1, Object(calls[l].sym).bases[calls[l].i])
      BY <1>2, <1>10
    <3>2. Drawn(calls, out) /\ Advanced(calls, l, PastBase) /\ Indent(line) = l
      BY <1>2, <1>7, <1>11
    <3> QED
      BY <1>8, <3>1, <3>2, DrawnBase
  <2>2. PICK pos \in [1 .. l -> 1 .. n] :
          /\ \A k \in 1 .. l : OpenLine(PastBase, out', pos, k)
          /\ \A j \in 1 .. n :
               \/ out'[j].what # "class"
               \/ \E k \in 1 .. l : pos[k] = j
               \/ ListsAllBases(out', j)
    BY <2>1
  <2>3. Len(PastBase) = l
    BY <1>2 DEF Advanced
  <2>4. Outline(PastBase, out', pos)
    BY <1>2, <1>7, <1>8, <2>2, <2>3, WarnOfBase
  <2> QED
    BY <1>1, <2>1, <2>4 DEF Drawn
<1> QED
  BY <1>10a, <1>11

LEMMA LeaveTypeinfoDraws ==
  ASSUME GraphInv, LeaveTypeinfo, Rooted(out), Before(out, left),
         AddressLayout => Drawn(calls, out)
  PROVE  Rooted(out') /\ Before(out', left') /\ (AddressLayout => Drawn(calls', out'))
<1> DEFINE l == Len(calls)
           g == SubSeq(calls, 1, l - 1)
<1>1. /\ calls # <<>>
      /\ TopCall.i > Len(Object(TopCall.sym).bases)
      /\ calls' = g
      /\ UNCHANGED <<left, out>>
  BY DEF LeaveTypeinfo
<1>2. /\ calls \in TypeinfoCalls
      /\ l \in Nat \ {0}
      /\ TopCall = calls[l]
      /\ TopCall.sym \in Seen /\ TopCall.i \in Nat
      /\ Len(Object(TopCall.sym).bases) \in Nat
  BY <1>1, PrintingFrames
<1>3. Len(g) = l - 1 /\ \A k \in 1 .. l - 1 : g[k] = calls[k]
  BY <1>1, <1>2, FrontFacts DEF TypeinfoCalls
<1> HIDE DEF g, l
<1>4. ASSUME AddressLayout
      PROVE  Drawn(calls', out')
  <2>1. PICK pos : Outline(calls, out, pos)
    BY <1>4 DEF Drawn
  <2>2. \E p : Outline(g, out, p)
    BY <1>1, <1>2, <1>3, <2>1, PopCall DEF l
  <2> QED
    BY <1>1, <1>4, <2>2 DEF Drawn
<1> QED
  BY <1>1, <1>4

LEMMA NextRootDraws ==
  ASSUME GraphInv, NextRoot, mode' = "printing", Rooted(out), Before(out, left),
         AddressLayout => Drawn(calls, out)
  PROVE  Rooted(out') /\ Before(out', left') /\ (AddressLayout => Drawn(calls', out'))
<1>1. mode = "printing" /\ calls = <<>> /\ CollectInv
  BY DEF NextRoot, GraphInv
<1>2. PICK d \in left :
        /\ \A e \in left : d <= e
        /\ left' = left \ {d}
        /\ IF libs[syms[d].lib].is_primary
           THEN Recurse(syms[d], <<>>)
           ELSE UNCHANGED <<mode, calls, out>>
  BY DEF NextRoot
<1> DEFINE sym == syms[d]
           n == Len(out)
<1>3. /\ sym \in Seen /\ sym \in Symbol /\ Demangled[sym.name] = d
      /\ left \subseteq Nat /\ d \in DOMAIN syms
      /\ Len(Object(sym).bases) \in Nat
      /\ out \in Seq(LineType) /\ n \in Nat
      /\ <<>> \in TypeinfoCalls /\ Len(<<>>) = 0
  <2>1. <<>> \in TypeinfoCalls /\ Len(<<>>) = 0
    BY DEF TypeinfoCalls
  <2>2. out \in Seq(LineType) /\ left \subseteq Nat /\ d \in DOMAIN syms
    BY <1>1 DEF CollectInv, TypeOK
  <2>3. sym \in Seen /\ sym \in Symbol /\ Demangled[sym.name] = d
    BY <1>1, <2>2 DEF CollectInv, TypeOK, Collected
  <2>4. n \in Nat
    BY <2>2
  <2>5. Len(Object(sym).bases) \in Nat
    <3>1. Object(sym).bases \in Seq(Nat)
      BY <1>1, ObjectType DEF CollectInv, TypeOK
    <3> QED
      BY <3>1
  <2> QED
    BY <2>1, <2>2, <2>3, <2>4, <2>5
<1>4. \A e \in left' : d < e
  <2>1. \A e \in left : e # d => d < e
    BY <1>2, <1>3
  <2> QED
    BY <1>2, <2>1
<1>5. CASE UNCHANGED <<calls, out>>
  <2>1. left' \subseteq left
    BY <1>2
  <2> QED
    BY <1>5, <2>1 DEF Drawn, Before
<1>6. CASE ~UNCHANGED <<calls, out>>
  <2>1. libs[sym.lib].is_primary /\ Recurse(sym, <<>>)
    BY <1>2, <1>6
  <2>2. sym.addr # 0
    BY <1>1, <1>6, <2>1 DEF Recurse
  <2> DEFINE line == Line(0, sym)
  <2>3. /\ calls' = Append(<<>>, [sym |-> sym, i |-> 1])
        /\ out' = Append(out, line) /\ line \in LineType
    <3>1. /\ \/ calls' = <<>> /\ UNCHANGED out /\ (sym.addr # 0 => mode' # "printing")
             \/ /\ calls' = Append(<<>>, [sym |-> sym, i |-> 1])
                /\ out' = Append(out, Line(Len(<<>>), sym))
                /\ Line(Len(<<>>), sym) \in LineType
                /\ Object(sym).kind # "unmapped"
      BY <1>1, <1>3, <2>1, RecurseFrames
    <3> QED
      BY <1>1, <1>3, <1>6, <3>1
  <2> HIDE DEF n, sym
  <2>4. OneMore(out, line, out', n)
    BY <1>3, <2>3 DEF OneMore, n
  <2>5. Indent(line) = 0 /\ Len(calls) = 0
    BY <1>1, <1>3, LineIs
  <2>6. Rooted(out') /\ Before(out', left')
    <3>1. left' \subseteq left /\ d \in left
      BY <1>2
    <3> QED
      BY <1>3, <1>4, <2>1, <2>2, <2>4, <3>1, HeadsFollow DEF sym
  <2>7. ASSUME AddressLayout
        PROVE  Drawn(calls', out')
    <3>1. PICK pos : Outline(calls, out, pos)
      BY <2>7 DEF Drawn
    <3>2. NextLevel(calls, 0, out, pos, line, out', n)
      BY <2>4, <2>5, <3>1 DEF NextLevel
    <3>3. \A j \in 1 .. n : LinesBelow(out', j) = LinesBelow(out, j)
      BY <3>2, NewLineBelow
    <3>4. /\ \A j \in 1 .. n : out'[j] = out[j]
          /\ \A j \in 1 .. n : LinesBelow(out, j) \subseteq 1 .. n
      <4>1. /\ n \in Nat
            /\ \A j \in 1 .. n : out'[j] = out[j] /\ LinesBelow(out, j) \subseteq j + 1 .. n
        BY <2>4, BelowGrows
      <4>2. \A j \in 1 .. n : j + 1 .. n \subseteq 1 .. n
        BY <4>1
      <4> QED
        BY <4>1, <4>2
    <3>5. \A j \in 1 .. n : \/ out'[j].what # "class"
                            \/ \E k \in 1 .. 0 : pos[k] = j
                            \/ ListsAllBases(out', j)
      <4> SUFFICES ASSUME NEW j \in 1 .. n, out'[j].what = "class"
                   PROVE  ListsAllBases(out', j)
        OBVIOUS
      <4>1. 1 .. 0 = {}
        OBVIOUS
      <4>2. ListsAllBases(out, j)
        BY <2>5, <3>1, <3>4, <4>1 DEF Outline, n
      <4>3. out'[j] = out[j] /\ \A k \in LinesBelow(out, j) : out'[k] = out[k]
        BY <3>4
      <4> QED
        BY <3>3, <4>2, <4>3, ListsKept DEF ListsAllBases
    <3>6. \E p : Outline(calls', out', p)
      <4>1. pos \in [1 .. 0 -> 1 .. n] /\ 1 .. 0 = {}
        BY <2>5, <3>1 DEF Outline, n
      <4>2. \A k \in 1 .. 0 : OpenLine(<<>>, out', pos, k)
        BY <4>1
      <4>3. [sym |-> sym, i |-> 1] \in TypeinfoCall
        BY <1>3 DEF TypeinfoCall
      <4>4. \E p : Outline(Append(<<>>, [sym |-> sym, i |-> 1]), out', p)
        BY <1>3, <2>4, <3>5, <4>1, <4>2, <4>3, PushCall
      <4> QED
        BY <2>3, <4>4
    <3>7. NoStrayLine(out')
      BY <2>4, <2>5, <2>7, StrayGrows DEF Drawn
    <3> QED
      BY <3>6, <3>7 DEF Drawn
  <2> QED
    BY <2>6, <2>7
<1> QED
  BY <1>5, <1>6

LEMMA OutlinedStart ==
  ASSUME Start
  PROVE  Outlined
BY DEF Start, Outlined

LEMMA OutlinedStep ==
  ASSUME GraphInv, Outlined, [Next]_vars
  PROVE  Outlined'
<1>1. CollectInv /\ Phases
  BY DEF GraphInv, CollectInv
<1>2. CASE LoadLibraries \/ BeginForeach \/ VisitSymbol \/ NextLibrary
  <2>1. mode' \in {"loading", "collecting"}
    BY <1>2 DEF LoadLibraries, BeginForeach, VisitSymbol, NextLibrary, graphVars
  <2> QED
    BY <2>1 DEF Outlined
<1>3. CASE BeginPrinting
  <2>1. mode' = "printing" /\ calls' = <<>> /\ out' = <<>>
    BY <1>1, <1>3 DEF BeginPrinting, Phases
  <2>2. UNCHANGED <<file, libs, matches, rtti, cursor>> /\ UNCHANGED <<libs, syms>>
    BY <1>3 DEF BeginPrinting, libVars
  <2>3. Seen' = Seen /\ \A sym : Object(sym)' = Object(sym) /\ AbsAddr(sym)' = AbsAddr(sym)
    BY <2>2, SeenKept, MemoryKept, TableKept
  <2>4. Rooted(<<>>)' /\ Drawn(<<>>, <<>>)'
    BY <2>2, <2>3, DrawnKept, NothingDrawn
  <2>5. Before(<<>>, left')
    BY NothingDrawn
  <2>6. Rooted(out)' /\ Drawn(calls, out)' /\ Before(out, left)'
    BY <2>1, <2>4, <2>5 DEF Before
  <2> QED
    BY <2>1, <2>6 DEF Outlined
<1>4. CASE NextRoot
  <2>1. /\ mode = "printing" /\ mode' \in {"printing", "aborted", "overrun"}
        /\ UNCHANGED <<libVars, matches, rtti, cursor, syms, symcache>>
    BY <1>4 DEF NextRoot, Recurse
  <2>2. mode' = "printing" =>
          Rooted(out') /\ Before(out', left') /\ (AddressLayout => Drawn(calls', out'))
    BY <1>4, <2>1, NextRootDraws DEF Outlined
  <2> QED
    BY <2>1, <2>2, OutlinedNext
<1>5. CASE FollowBase
  <2>1. /\ mode = "printing" /\ mode' \in {"printing", "aborted", "overrun"}
        /\ UNCHANGED <<libVars, matches, rtti, cursor, syms, symcache>>
    BY <1>5 DEF FollowBase, AtBase, Recurse
  <2>2. mode' = "printing" =>
          Rooted(out') /\ Before(out', left') /\ (AddressLayout => Drawn(calls', out'))
    BY <1>5, <2>1, FollowBaseDraws DEF Outlined
  <2> QED
    BY <2>1, <2>2, OutlinedNext
<1>6. CASE MissBase
  <2>1. /\ mode = "printing" /\ mode' = "printing"
        /\ UNCHANGED <<libVars, matches, rtti, cursor, syms, symcache>>
    BY <1>6 DEF MissBase, AtBase
  <2>2. mode' = "printing" =>
          Rooted(out') /\ Before(out', left') /\ (AddressLayout => Drawn(calls', out'))
    BY <1>6, <2>1, MissBaseDraws DEF Outlined
  <2> QED
    BY <2>1, <2>2, OutlinedNext
<1>7. CASE LeaveTypeinfo
  <2>1. /\ mode = "printing" /\ mode' = "printing"
        /\ UNCHANGED <<libVars, matches, rtti, cursor, syms, symcache>>
    BY <1>7 DEF LeaveTypeinfo
  <2>2. mode' = "printing" =>
          Rooted(out') /\ Before(out', left') /\ (AddressLayout => Drawn(calls', out'))
    BY <1>7, <2>1, LeaveTypeinfoDraws DEF Outlined
  <2> QED
    BY <2>1, <2>2, OutlinedNext
<1>8. CASE Finish
  <2>1. /\ mode = "printing" /\ calls' = <<>>
        /\ UNCHANGED <<libVars, matches, rtti, cursor, syms, symcache, left, calls, out>>
    BY <1>8 DEF Finish
  <2>2. Rooted(out') /\ Before(out', left') /\ (AddressLayout => Drawn(calls', out'))
    BY <2>1 DEF Outlined
  <2> QED
    BY <2>1, <2>2, OutlinedNext
<1>9. CASE UNCHANGED vars
  <2>1. /\ UNCHANGED <<libVars, matches, rtti, cursor, syms, symcache>>
        /\ UNCHANGED <<mode, left, calls, out>>
    BY <1>9 DEF vars, graphVars
  <2>2. CASE mode \in {"printing", "done"}
    <3>1. /\ Rooted(out') /\ Before(out', left') /\ (AddressLayout => Drawn(calls', out'))
          /\ mode' = "done" => calls' = <<>>
      BY <2>1, <2>2 DEF Outlined
    <3> QED
      BY <2>1, <2>2, <3>1, OutlinedNext
  <2>3. CASE mode \notin {"printing", "done"}
    BY <2>1, <2>3 DEF Outlined
  <2> QED
    BY <2>2, <2>3
<1> QED
  BY <1>2, <1>3, <1>4, <1>5, <1>6, <1>7, <1>8, <1>9 DEF Next

(* The symbols of the primary that hold a name are the first of that name. *)
LEMMA PrimaryHolders ==
  ASSUME CollectInv, mode = "done"
  PROVE  Roots = {syms[d] : d \in {e \in DOMAIN syms : /\ libs[syms[e].lib].is_primary
                                                      /\ syms[e].addr # 0}}
<1> DEFINE n == Len(SymbolsOf(LibFirst))
           nm(k) == Demangled[SymbolAt(LibFirst, k).name]
<1>1. /\ TypeOK /\ LibTypeOK /\ LibInv /\ InTable /\ Collected /\ PrimaryWins /\ FirstsHold
      /\ status = "returned" /\ cursor.i > Len(SymbolsOf(cursor.lib))
      /\ cursor \in [lib : Slots, i : Nat \ {0}]
  BY DEF CollectInv, TypeOK, Phases, Exhausted
<1>2. LibFirst = 0 /\ LibFirst \in Slots /\ LibFirst \in Visited /\ n \in Nat
  BY <1>1, NumLibsAssumption, VisitedSlots, SymbolsType DEF LibFirst, Slots
<1>3. Given(LibFirst) = n /\ LibFirst <= cursor.lib
  <2>1. cursor.lib \in Nat
    BY <1>1 DEF Slots
  <2>2. CASE cursor.lib = LibFirst
    <3>1. cursor.i <= n + 1 /\ cursor.i > n /\ cursor.i \in Nat
      BY <1>1, <2>2 DEF InTable
    <3>2. ~(LibFirst < cursor.lib)
      BY <1>2, <2>2
    <3>3. cursor.i - 1 = n
      BY <1>2, <3>1
    <3> QED
      BY <1>2, <2>2, <3>2, <3>3 DEF Given
  <2>3. CASE cursor.lib # LibFirst
    <3>1. LibFirst < cursor.lib
      BY <1>2, <2>1, <2>3
    <3> QED
      BY <1>2, <2>1, <3>1 DEF Given
  <2> QED
    BY <2>2, <2>3
<1>4. \A i \in 1 .. n : Selected(SymbolAt(LibFirst, i)) => SymbolAt(LibFirst, i) \in Seen
  BY <1>2, <1>3, SeenIs
<1>5. \A i : SymbolAt(LibFirst, i).lib = LibFirst
  BY DEF SymbolAt
<1>6. libs[LibFirst].is_primary
  BY <1>1, <1>2, PrimaryIsFirst
<1> HIDE DEF n
<1>7. \A i \in 1 .. n : Selected(SymbolAt(LibFirst, i)) =>
        (FirstOfName(i, nm(i)) <=>
           \A k \in 1 .. n : Selected(SymbolAt(LibFirst, k)) => (k < i => nm(k) # nm(i)))
  <2> SUFFICES ASSUME NEW i \in 1 .. n, Selected(SymbolAt(LibFirst, i))
               PROVE  FirstOfName(i, nm(i)) <=>
                        \A k \in 1 .. n : Selected(SymbolAt(LibFirst, k)) => (k < i => nm(k) # nm(i))
    OBVIOUS
  <2>1. \A k \in 1 .. n : k < i <=> k \in 1 .. i - 1
    BY <1>2
  <2>2. \A k \in 1 .. i - 1 : k \in 1 .. n
    BY <1>2
  <2> QED
    BY <2>1, <2>2 DEF FirstOfName
<1>8. Roots = {sym \in {SymbolAt(LibFirst, i) :
                         i \in {j \in 1 .. n : Selected(SymbolAt(LibFirst, j)) /\ FirstOfName(j, nm(j))}} :
                 sym.addr # 0}
  BY <1>7 DEF Roots, n
<1>9. ASSUME NEW d \in DOMAIN syms, libs[syms[d].lib].is_primary, syms[d].addr # 0
      PROVE  syms[d] \in Roots
  <2>1. PICK i \in 1 .. n : syms[d] = SymbolAt(LibFirst, i) /\ FirstOfName(i, d)
    BY <1>1, <1>9 DEF FirstsHold, n
  <2>2. Selected(SymbolAt(LibFirst, i)) /\ nm(i) = d
    BY <2>1 DEF FirstOfName
  <2> QED
    BY <1>8, <1>9, <2>1, <2>2
<1>10. ASSUME NEW sym \in Roots
       PROVE  \E d \in DOMAIN syms : syms[d] = sym /\ libs[syms[d].lib].is_primary /\ syms[d].addr # 0
  <2>1. PICK i \in 1 .. n : /\ sym = SymbolAt(LibFirst, i) /\ sym.addr # 0
                            /\ Selected(SymbolAt(LibFirst, i)) /\ FirstOfName(i, nm(i))
    BY <1>8
  <2>2. sym \in Seen /\ sym.lib = LibFirst
    BY <1>4, <1>5, <2>1
  <2>3. nm(i) \in DOMAIN syms /\ libs[syms[nm(i)].lib].is_primary
    BY <1>1, <1>6, <2>1, <2>2 DEF Collected, PrimaryWins
  <2>4. PICK j \in 1 .. n : syms[nm(i)] = SymbolAt(LibFirst, j) /\ FirstOfName(j, nm(i))
    BY <1>1, <2>3 DEF FirstsHold, n
  <2>5. j = i
    <3>1. j \in 1 .. i - 1 \/ i \in 1 .. j - 1 \/ j = i
      BY <1>2
    <3> QED
      BY <2>1, <2>4, <3>1 DEF FirstOfName
  <2> QED
    BY <2>1, <2>3, <2>4, <2>5
<1> QED
  BY <1>9, <1>10

(* The heads are the roots when no name is left to come to.                *)
LEMMA HeadsAreRoots ==
  ASSUME GraphInv, mode = "done", Rooted(out)
  PROVE  {out[j] : j \in Heads(out)} = {Line(0, sym) : sym \in Roots}
<1>1. CollectInv /\ left = {} /\ Headed
  BY DEF GraphInv, PrintInv, CollectInv, Phases
<1>2. Roots = {syms[d] : d \in {e \in DOMAIN syms : /\ libs[syms[e].lib].is_primary
                                                    /\ syms[e].addr # 0}}
  BY <1>1, PrimaryHolders
<1>3. \A j \in Heads(out) : \E sym \in Roots : out[j] = Line(0, sym)
  BY <1>2 DEF Rooted
<1>4. ASSUME NEW sym \in Roots
      PROVE  \E j \in Heads(out) : out[j] = Line(0, sym)
  <2>1. PICK d \in DOMAIN syms : syms[d] = sym /\ libs[syms[d].lib].is_primary /\ syms[d].addr # 0
    BY <1>2
  <2>2. PICK j \in 1 .. Len(out) : HeadsIn(out, d) = {j}
    BY <1>1, <2>1 DEF Headed
  <2>3. out[j].what = "class" /\ out[j].level = 0 /\ Demangled[out[j].name] = d
    <3>1. j \in HeadsIn(out, d)
      BY <2>2
    <3> QED
      BY <3>1 DEF HeadsIn
  <2>4. j \in Heads(out)
    BY <2>3 DEF Heads, Indent
  <2>5. PICK e \in DOMAIN syms : out[j] = Line(0, syms[e])
    BY <2>4 DEF Rooted
  <2>6. Demangled[syms[e].name] = e
    BY <1>1 DEF CollectInv, TypeOK
  <2>7. e = d
    BY <2>3, <2>5, <2>6, LineIs
  <2> QED
    BY <2>1, <2>4, <2>5, <2>7
<1> QED
  BY <1>3, <1>4

------------------------------------------------------------------------------
(* The theorems. *)

LEMMA GraphStart ==
  ASSUME Start
  PROVE  GraphInv
<1>1. /\ LibStart /\ matches \in Filters /\ rtti \in Memories /\ mode = "loading"
      /\ cursor = [lib |-> LibFirst, i |-> 1] /\ syms = <<>> /\ symcache = <<>>
      /\ left = {} /\ calls = <<>> /\ out = <<>>
  BY DEF Start
<1>2. LibInv /\ LibTypeOK
  BY <1>1, InvStart DEF LibInv
<1>3. LibFirst \in Slots /\ LibFirst = 0
  BY NumLibsAssumption DEF LibFirst, Slots
<1>4. /\ DOMAIN <<>> = {} /\ <<>> \in Seq(LineType) /\ <<>> \in Seq([sym : Symbol, i : Nat \ {0}])
      /\ 1 .. Len(<<>>) = {} /\ 2 .. Len(<<>>) = {}
  OBVIOUS
<1>5. TypeOK
  BY <1>1, <1>2, <1>3, <1>4 DEF TypeOK, Modes
<1>6. Phases
  BY <1>1 DEF Phases
<1>7. InTable
  <2>1. Len(SymbolsOf(LibFirst)) \in Nat
    BY <1>2, <1>3, SymbolsType
  <2> QED
    BY <1>1, <2>1, VisitedSlots DEF InTable
<1>8. Seen = {}
  <2>1. ASSUME NEW s \in Visited, s <= cursor.lib
        PROVE  1 .. Given(s) = {}
    <3>1. s = 0
      BY <1>1, <1>3, <2>1, VisitedFinite
    <3>2. Given(s) = 0
      BY <1>1, <1>3, <3>1 DEF Given
    <3> QED
      BY <3>2
  <2> QED
    BY <2>1, SeenIs
<1>9. Collected /\ PrimaryWins /\ FirstsHold /\ Exhausted
  BY <1>1, <1>4, <1>8 DEF Collected, PrimaryWins, FirstsHold, Exhausted
<1>10. PrintInv
  BY <1>1, <1>4 DEF PrintInv, Framed, LookupSound, NestingBounded, WarnsOnlyWithCause, Headed
<1> QED
  BY <1>2, <1>5, <1>6, <1>7, <1>9, <1>10 DEF GraphInv, CollectInv

LEMMA GraphStep ==
  ASSUME GraphInv, [Next]_vars
  PROVE  GraphInv'
<1>0. CollectInv
  BY DEF GraphInv
<1>1. CASE LoadLibraries
  BY <1>0, <1>1, LoadStep DEF LoadLibraries
<1>2. CASE BeginForeach
  BY <1>0, <1>2, BeginForeachStep
<1>3. CASE VisitSymbol
  BY <1>0, <1>3, VisitSymbolStep
<1>4. CASE NextLibrary
  BY <1>0, <1>4, NextLibraryStep
<1>5. CASE BeginPrinting
  BY <1>0, <1>5, BeginPrintingStep
<1>6. CASE NextRoot
  BY <1>6, NextRootStep
<1>7. CASE FollowBase
  BY <1>7, FollowBaseStep
<1>8. CASE MissBase
  BY <1>8, MissBaseStep
<1>9. CASE LeaveTypeinfo
  BY <1>9, LeaveTypeinfoStep
<1>10. CASE Finish
  BY <1>10, FinishStep
<1>11. CASE UNCHANGED vars
  BY <1>11, GraphStutter
<1> QED
  BY <1>1, <1>2, <1>3, <1>4, <1>5, <1>6, <1>7, <1>8, <1>9, <1>10, <1>11 DEF Next

(* What main keeps true from the first library to the last line.           *)
THEOREM GraphInvariant == Spec => []GraphInv
<1>1. Start => GraphInv
  BY GraphStart
<1>2. GraphInv /\ [Next]_vars => GraphInv'
  BY GraphStep
<1> QED
  BY <1>1, <1>2, PTL DEF Spec

(* Every variable of main, and every line printed, has its type.           *)
THEOREM GraphTypeCorrect == Spec => []TypeOK
<1>1. GraphInv => TypeOK
  BY DEF GraphInv, CollectInv
<1> QED
  BY <1>1, GraphInvariant, PTL

(* Libraries are visited in slot order, the primary first, and insert      *)
(* leaves an equal element where it is: a class of the primary keeps its   *)
(* place in syms (main.cc:191).                                            *)
THEOREM PrimaryKeepsItsPlace == Spec => []PrimaryWins
<1>1. GraphInv => PrimaryWins
  BY DEF GraphInv, CollectInv
<1> QED
  BY <1>1, GraphInvariant, PTL

(* recurse_typeinfo descends to the typeinfo the base pointer points to.   *)
THEOREM LookupCorrect == Spec => []LookupSound
<1>1. GraphInv => LookupSound
  BY DEF GraphInv, PrintInv
<1> QED
  BY <1>1, GraphInvariant, PTL

(* recurse_typeinfo nests no deeper than the hierarchy.                    *)
THEOREM NestingIsBounded == Spec => []NestingBounded
<1>1. GraphInv => NestingBounded
  BY DEF GraphInv, PrintInv
<1> QED
  BY <1>1, GraphInvariant, PTL

(* A base is reported missing only for one of two reasons.                 *)
THEOREM WarningsHaveCause == Spec => []WarnsOnlyWithCause
<1>1. GraphInv => WarnsOnlyWithCause
  BY DEF GraphInv, PrintInv
<1> QED
  BY <1>1, GraphInvariant, PTL

(* What has been printed is at every moment an outline of the classes gone *)
(* through, which the active calls of recurse_typeinfo go on with.         *)
THEOREM GraphOutlined == Spec => []Outlined
<1>1. Start => Outlined
  BY OutlinedStart
<1>2. GraphInv /\ Outlined /\ [Next]_vars => Outlined'
  BY OutlinedStep
<1> QED
  BY <1>1, <1>2, GraphInvariant, PTL DEF Spec

(* When main is done it has printed one tree for each demangled name that  *)
(* the primary has a typeinfo symbol of, in the order of the names: that   *)
(* of the first such symbol in the primary's table, and none where it is   *)
(* an import.                                                              *)
THEOREM PrimaryClassesPrinted == Spec => []EveryPrimaryClassPrinted
<1>1. GraphInv /\ Outlined => EveryPrimaryClassPrinted
  <2> SUFFICES ASSUME GraphInv, Outlined, mode = "done"
               PROVE  /\ {out[j] : j \in Heads(out)} = {Line(0, sym) : sym \in Roots}
                      /\ \A j, k \in Heads(out) :
                           j < k => Demangled[out[j].name] < Demangled[out[k].name]
    BY DEF EveryPrimaryClassPrinted
  <2>1. Rooted(out)
    BY DEF Outlined
  <2> QED
    BY <2>1, HeadsAreRoots DEF Rooted
<1> QED
  BY <1>1, GraphInvariant, GraphOutlined, PTL

(* Below each class stand its bases, in order and however deep, and nothing *)
(* else, if no relative address can be mistaken for a base pointer.        *)
THEOREM HierarchyPrinted == Spec => []PrintsHierarchy
<1>1. Outlined => PrintsHierarchy
  <2> SUFFICES ASSUME Outlined, mode = "done", AddressLayout
               PROVE  /\ NoStrayLine(out)
                      /\ \A j \in 1 .. Len(out) : out[j].what = "class" => ListsAllBases(out, j)
    BY DEF PrintsHierarchy
  <2>1. Drawn(calls, out) /\ calls = <<>>
    BY DEF Outlined
  <2>2. NoStrayLine(out)
    BY <2>1 DEF Drawn
  <2>3. \A j \in 1 .. Len(out) : out[j].what = "class" => ListsAllBases(out, j)
    <3>1. PICK pos : Outline(calls, out, pos)
      BY <2>1 DEF Drawn
    <3>2. 1 .. Len(<<>>) = {}
      OBVIOUS
    <3> QED
      BY <2>1, <3>1, <3>2 DEF Outline
  <2> QED
    BY <2>2, <2>3
<1> QED
  BY <1>1, GraphOutlined, PTL
===============================================================================
