---------------------------- MODULE LibraryProofs ----------------------------
(***************************************************************************)
(* Proofs about Library for every set of names, every dependency graph and *)
(* every table size.                                                       *)
(***************************************************************************)
EXTENDS LibraryRefinement, TLAPS, FiniteSetTheorems, SequenceTheorems

(* The dependency list of a file is a sequence of names. *)
LEMMA DependsOfType ==
  ASSUME NEW f \in File
  PROVE  DependsOf(f) \in Seq(Name)
BY FileAssumption DEF FileType, DependsOf

(* What the shape of a slot says of its fields. *)
LEMMA SlotFields ==
  ASSUME file \in [Name -> File], NEW r, SlotType(r)
  PROVE  /\ r.depends \in Seq(Name)
         /\ r.is_primary \in BOOLEAN
         /\ r.name # NoName => /\ r.path \in Name
                               /\ r.name = Basename[r.path]
                               /\ r.name \in Name
                               /\ r.depends \in {<<>>, DependsOf(file[r.path])}
         /\ r.name = NoName => r = EmptySlot
<1>1. CASE r = EmptySlot
  BY <1>1 DEF EmptySlot
<1>2. CASE r # EmptySlot
  <2>1. r.path \in Name /\ r.is_primary \in BOOLEAN
    BY <1>2 DEF SlotType
  <2>2. Basename[r.path] \in Name /\ Basename[r.path] # NoName
    BY <2>1, BasenameAssumption, NameAssumption
  <2>3. file[r.path] \in File /\ DependsOf(file[r.path]) \in Seq(Name)
    BY <2>1, DependsOfType
  <2>4. r.name = Basename[r.path] /\ r.depends \in {<<>>, DependsOf(file[r.path])}
    BY <1>2 DEF SlotType, ClaimedSlot, UnlinkedSlot, LoadedSlot, EmptySlot
  <2>5. r.depends \in Seq(Name)
    BY <2>3, <2>4, EmptySeq
  <2>6. r.name # NoName /\ r.name \in Name
    BY <2>2, <2>4
  <2> QED
    BY <2>1, <2>4, <2>5, <2>6
<1> QED
  BY <1>1, <1>2

(* The three records lib_init may leave in a slot are of the right shape. *)
LEMMA NewSlotFields ==
  ASSUME file \in [Name -> File], NEW path \in Name, NEW primary \in BOOLEAN, NEW r,
         r \in {ClaimedSlot(primary, path),
                UnlinkedSlot(primary, path),
                LoadedSlot(primary, path)}
  PROVE  /\ SlotType(r)
         /\ r.path = path /\ r.is_primary = primary
         /\ r.name = Basename[path] /\ r.name # NoName /\ r.name \in Name
         /\ r.depends \in {<<>>, DependsOf(file[path])}
<1>1. r.path = path /\ r.is_primary = primary /\ r.name = Basename[path]
  BY DEF ClaimedSlot, UnlinkedSlot, LoadedSlot, EmptySlot
<1>2. SlotType(r)
  BY <1>1 DEF SlotType
<1>3. r.depends \in {<<>>, DependsOf(file[path])}
  BY DEF ClaimedSlot, UnlinkedSlot, LoadedSlot, EmptySlot
<1> QED
  BY <1>1, <1>2, <1>3, BasenameAssumption, NameAssumption

(* When the claimed slots are a prefix, lib_init takes the one after it. *)
LEMMA FirstFreeAfterPrefix ==
  ASSUME NEW n \in 0 .. NumLibs, \A s \in Slots : Claimed(s) <=> s < n,
         FreeSlots # {}
  PROVE  n \in Slots /\ FirstFree = n
<1> USE NumLibsAssumption
<1>1. FreeSlots = {s \in Slots : n <= s}
  BY DEF FreeSlots, Slots
<1>2. n \in Slots /\ n \in FreeSlots
  BY <1>1 DEF Slots
<1>3. \A t \in FreeSlots : n <= t
  BY <1>1
<1>4. \A x \in FreeSlots : (\A t \in FreeSlots : x <= t) => x = n
  BY <1>1, <1>2 DEF Slots
<1>5. FirstFree \in FreeSlots /\ \A t \in FreeSlots : FirstFree <= t
  BY <1>2, <1>3 DEF FirstFree
<1> QED
  BY <1>2, <1>4, <1>5

------------------------------------------------------------------------------
(* lib_init as a change of the table: one slot after the claimed prefix. *)

NewSlots(primary, path) ==
  {ClaimedSlot(primary, path),
   UnlinkedSlot(primary, path),
   LoadedSlot(primary, path)}

Grows(n, primary, path) ==
  /\ n \in Slots
  /\ \A s \in Slots : Claimed(s) <=> s < n
  /\ \E r \in NewSlots(primary, path) : libs' = [libs EXCEPT ![n] = r]
  /\ file' = file

LEMMA LibInitCases ==
  ASSUME LibTypeOK, TableShape,
         NEW primary \in BOOLEAN, NEW path \in Name,
         LibInit(primary, path)
  PROVE  \/ TableFull
         \/ \E n : /\ Grows(n, primary, path)
                  /\ \/ /\ status' = "load_failed" /\ stack' = stack
                        /\ libs'[n].depends = <<>>
                     \/ /\ status' = "loading"
                        /\ stack' = Append(stack, [lib |-> n, i |-> 1])
<1>1. SUFFICES ASSUME ~TableFull
               PROVE  \E n : /\ Grows(n, primary, path)
                            /\ \/ /\ status' = "load_failed" /\ stack' = stack
                                  /\ libs'[n].depends = <<>>
                               \/ /\ status' = "loading"
                                  /\ stack' = Append(stack, [lib |-> n, i |-> 1])
  OBVIOUS
<1>2. FreeSlots # {}
  BY <1>1 DEF LibInit, LoadFails, LinkmapFails, Loads
<1>3. PICK n \in 0 .. NumLibs : \A s \in Slots : Claimed(s) <=> s < n
  BY DEF TableShape
<1>4. n \in Slots /\ FirstFree = n
  BY <1>2, <1>3, FirstFreeAfterPrefix
<1>5. Grows(n, primary, path)
  BY <1>1, <1>3, <1>4 DEF Grows, NewSlots, LibInit, LoadFails, LinkmapFails, Loads
<1>6. CASE LoadFails(primary, path)
  <2>1. libs' = [libs EXCEPT ![n] = ClaimedSlot(primary, path)]
    BY <1>4, <1>6 DEF LoadFails
  <2>2. libs'[n] = ClaimedSlot(primary, path)
    BY <1>4, <2>1 DEF LibTypeOK
  <2>3. ClaimedSlot(primary, path).depends = <<>>
    BY DEF ClaimedSlot, EmptySlot
  <2> QED
    BY <1>5, <1>6, <2>2, <2>3 DEF LoadFails
<1>7. CASE LinkmapFails(primary, path) \/ Loads(primary, path)
  BY <1>4, <1>5, <1>7 DEF LinkmapFails, Loads
<1> QED
  BY <1>1, <1>6, <1>7 DEF LibInit

LEMMA Popped ==
  ASSUME NEW q \in Seq(Frame), Len(q) > 1
  PROVE  LET q2 == SubSeq(q, 1, Len(q) - 1)
         IN  /\ q2 \in Seq(Frame) /\ Len(q2) = Len(q) - 1 /\ q2 # <<>>
             /\ \A k \in 1 .. Len(q2) : q2[k] = q[k]
<1>1. PICK p : p = SubSeq(q, 1, Len(q) - 1)
  OBVIOUS
<1>2. Len(q) \in Nat /\ \A k \in 1 .. Len(q) - 1 : q[k] \in Frame
  OBVIOUS
<1>3. /\ p \in Seq(Frame) /\ Len(p) = Len(q) - 1
      /\ \A k \in 1 .. Len(q) - 1 : p[k] = q[k]
  BY <1>1, <1>2, SubSeqProperties
<1>4. p # <<>>
  BY <1>2, <1>3
<1> QED
  BY <1>1, <1>3, <1>4

LEMMA SlotTypeStable ==
  ASSUME file' = file, NEW x, SlotType(x)
  PROVE  SlotType(x)'
<1>1. LoadedSlot(x.is_primary, x.path)' = LoadedSlot(x.is_primary, x.path)
  BY DEF LoadedSlot
<1> QED
  BY <1>1 DEF SlotType

LEMMA GrowsTable ==
  ASSUME LibTypeOK, NEW primary \in BOOLEAN, NEW path \in Name, NEW n,
         Grows(n, primary, path)
  PROVE  /\ (file \in [Name -> File])'
         /\ (DOMAIN libs = Slots)'
         /\ (\A s \in Slots : SlotType(libs[s]))'
         /\ \A s \in Slots : Claimed(s)' <=> s < n + 1
         /\ \A s \in Slots : s # n => libs'[s] = libs[s]
         /\ libs'[n].path = path /\ libs'[n].is_primary = primary
         /\ libs'[n].name = Basename[path]
         /\ libs'[n].depends \in {<<>>, DependsOf(file[path])}
         /\ ~Claimed(n) /\ Claimed(n)'
<1>1. PICK r \in NewSlots(primary, path) : libs' = [libs EXCEPT ![n] = r]
  BY DEF Grows
<1>2. n \in Slots /\ file' = file /\ \A s \in Slots : Claimed(s) <=> s < n
  BY DEF Grows
<1>3. /\ SlotType(r) /\ r.path = path /\ r.is_primary = primary
      /\ r.name = Basename[path] /\ r.name # NoName /\ r.name \in Name
      /\ r.depends \in {<<>>, DependsOf(file[path])}
  BY NewSlotFields DEF LibTypeOK, NewSlots
<1>4. libs'[n] = r /\ \A s \in Slots : s # n => libs'[s] = libs[s]
  BY <1>1, <1>2 DEF LibTypeOK
<1>5. (DOMAIN libs = Slots)'
  BY <1>1 DEF LibTypeOK
<1>6. \A x : SlotType(x) => SlotType(x)'
  BY <1>2, SlotTypeStable
<1>7. (\A s \in Slots : SlotType(libs[s]))'
  <2>1. \A s \in Slots : SlotType(libs'[s])
    BY <1>3, <1>4 DEF LibTypeOK
  <2> QED
    BY <2>1, <1>6
<1>8. \A s \in Slots : Claimed(s)' <=> s < n + 1
  <2> SUFFICES ASSUME NEW s \in Slots
               PROVE  Claimed(s)' <=> s < n + 1
    OBVIOUS
  <2>1. CASE s = n
    BY <2>1, <1>2, <1>3, <1>4 DEF Claimed, Slots
  <2>2. CASE s # n
    BY <2>2, <1>2, <1>4 DEF Claimed, Slots
  <2> QED
    BY <2>1, <2>2
<1> QED
  BY <1>2, <1>3, <1>4, <1>5, <1>7, <1>8 DEF LibTypeOK, Claimed, Slots

------------------------------------------------------------------------------
(* The type invariant and the shape of the table. *)

(* Where lib_init may be called from: main for the primary, the dependency *)
(* loop of an active lib_init for the others.                              *)
Calls(primary, path) ==
  /\ primary \in BOOLEAN /\ path \in Name
  /\ IF primary THEN status = "start"
                 ELSE InLoop /\ MoreDepends /\ path = Dependency /\ FindSlots(path) = {}
  /\ LibInit(primary, path)

(* What a push and a bump of the innermost index do to the stack. *)
LEMMA Pushed ==
  ASSUME NEW q \in Seq(Frame), NEW n \in Slots
  PROVE  LET q2 == Append(q, [lib |-> n, i |-> 1])
         IN  /\ q2 \in Seq(Frame) /\ Len(q2) = Len(q) + 1
             /\ q2[Len(q) + 1] = [lib |-> n, i |-> 1]
             /\ \A k \in 1 .. Len(q) : q2[k] = q[k]
<1>1. [lib |-> n, i |-> 1] \in Frame
  BY DEF Frame
<1> QED
  BY <1>1, AppendProperties

LEMMA Bumped ==
  ASSUME NEW q \in Seq(Frame), q # <<>>
  PROVE  LET q2 == [q EXCEPT ![Len(q)].i = @ + 1]
         IN  /\ q2 \in Seq(Frame) /\ Len(q2) = Len(q)
             /\ q2[Len(q)].lib = q[Len(q)].lib
             /\ q2[Len(q)].i = q[Len(q)].i + 1
             /\ \A k \in 1 .. Len(q) : k # Len(q) => q2[k] = q[k]
<1>1. Len(q) \in 1 .. Len(q) /\ q[Len(q)] \in Frame
  OBVIOUS
<1> DEFINE e == [q[Len(q)] EXCEPT !.i = @ + 1]
<1>2. e \in Frame /\ e.lib = q[Len(q)].lib /\ e.i = q[Len(q)].i + 1
  BY <1>1 DEF Frame
<1>3. [q EXCEPT ![Len(q)].i = @ + 1] = [q EXCEPT ![Len(q)] = e]
  OBVIOUS
<1> HIDE DEF e
<1>4. /\ [q EXCEPT ![Len(q)] = e] \in Seq(Frame)
      /\ Len([q EXCEPT ![Len(q)] = e]) = Len(q)
      /\ \A j \in 1 .. Len(q) :
           [q EXCEPT ![Len(q)] = e][j] = IF j = Len(q) THEN e ELSE q[j]
  BY <1>1, <1>2, ExceptSeq
<1> QED
  BY <1>1, <1>2, <1>3, <1>4

LEMMA TableStable ==
  ASSUME LibTypeOK, file' = file, libs' = libs
  PROVE  /\ (file \in [Name -> File])'
         /\ (DOMAIN libs = Slots)'
         /\ (\A s \in Slots : SlotType(libs[s]))'
         /\ \A s : Claimed(s)' <=> Claimed(s)
<1>1. \A s \in Slots : SlotType(libs[s])'
  BY SlotTypeStable DEF LibTypeOK
<1>2. (\A s \in Slots : SlotType(libs[s]))'
  BY <1>1
<1> QED
  BY <1>2 DEF LibTypeOK, Claimed

LEMMA FrameType ==
  ASSUME LibTypeOK, NEW k \in 1 .. Len(stack)
  PROVE  /\ stack[k] \in Frame /\ stack[k].lib \in Slots /\ stack[k].i \in Nat \ {0}
         /\ libs[stack[k].lib].name # NoName
         /\ libs[stack[k].lib].depends \in Seq(Name)
         /\ Len(libs[stack[k].lib].depends) \in Nat
         /\ stack[k].i <= Len(libs[stack[k].lib].depends) + 1
         /\ k < Len(stack) => stack[k].i <= Len(libs[stack[k].lib].depends)
<1>0. stack[k] \in Frame
  BY DEF LibTypeOK
<1>1. stack[k].lib \in Slots /\ stack[k].i \in Nat \ {0}
  BY <1>0 DEF Frame
<1>2. libs[stack[k].lib].depends \in Seq(Name)
  BY <1>1, SlotFields DEF LibTypeOK
<1>3. libs[stack[k].lib].name # NoName
  BY DEF LibTypeOK, Claimed
<1>4. /\ stack[k].i <= Len(libs[stack[k].lib].depends) + 1
      /\ k < Len(stack) => stack[k].i <= Len(libs[stack[k].lib].depends)
  BY DEF LibTypeOK
<1> QED
  BY <1>0, <1>1, <1>2, <1>3, <1>4

LEMMA DependencyType ==
  ASSUME LibTypeOK, InLoop, MoreDepends
  PROVE  /\ Len(stack) \in 1 .. Len(stack)
         /\ Top \in Frame
         /\ libs[Top.lib].depends \in Seq(Name)
         /\ Top.i \in 1 .. Len(libs[Top.lib].depends)
         /\ Dependency \in Name
<1>1. stack \in Seq(Frame) /\ stack # <<>>
  BY DEF LibTypeOK, InLoop, Frame
<1>2. Len(stack) \in 1 .. Len(stack) /\ Top \in Frame
  BY <1>1 DEF Top
<1>3. libs[Top.lib].depends \in Seq(Name)
  BY <1>2, SlotFields DEF LibTypeOK, Frame
<1>4. Top.i \in 1 .. Len(libs[Top.lib].depends)
  BY <1>2, <1>3 DEF Frame, MoreDepends
<1> QED
  BY <1>2, <1>3, <1>4 DEF Dependency

(* Every step is a call of lib_init, or moves the innermost index, or      *)
(* leaves the innermost frame.                                             *)
LEMMA StepCases ==
  ASSUME LibTypeOK, LibStep
  PROVE  \/ \E path \in Name : Calls(TRUE, path)
         \/ Calls(FALSE, Dependency)
         \/ SkipNeeded \/ ReturnToCaller \/ ReturnToMain
<1>1. CASE LoadPrimary
  BY <1>1 DEF LoadPrimary, Calls
<1>2. CASE LoadNeeded
  BY <1>2, DependencyType DEF LoadNeeded, Calls, InLoop
<1> QED
  BY <1>1, <1>2 DEF LibStep

LEMMA CallType ==
  ASSUME LibTypeOK, TableShape, NEW primary, NEW path, Calls(primary, path)
  PROVE  LibTypeOK' /\ TableShape'
<1>1. primary \in BOOLEAN /\ path \in Name /\ LibInit(primary, path)
  BY DEF Calls
<1>2. CASE TableFull
  <2>1. UNCHANGED <<file, libs, stack>> /\ status' = "table_full"
    BY <1>2 DEF TableFull
  <2>2. LibTypeOK'
    BY <2>1, TableStable DEF LibTypeOK, Statuses
  <2>3. Claimed(LibFirst)
    <3>1. 0 \in Slots
      BY NumLibsAssumption DEF Slots
    <3> QED
      BY <1>2, <3>1 DEF TableFull, FreeSlots, LibFirst
  <2> QED
    BY <2>1, <2>2, <2>3 DEF TableShape, Claimed
<1>3. CASE \E n : /\ Grows(n, primary, path)
                  /\ \/ status' = "load_failed" /\ stack' = stack
                     \/ /\ status' = "loading"
                        /\ stack' = Append(stack, [lib |-> n, i |-> 1])
  <2>1. PICK n : /\ Grows(n, primary, path)
                 /\ \/ status' = "load_failed" /\ stack' = stack
                    \/ /\ status' = "loading"
                       /\ stack' = Append(stack, [lib |-> n, i |-> 1])
    BY <1>3
  <2>2. /\ n \in Slots
        /\ \A s \in Slots : Claimed(s) <=> s < n
    BY <2>1 DEF Grows
  <2>3. /\ (file \in [Name -> File])'
        /\ (DOMAIN libs = Slots)'
        /\ (\A s \in Slots : SlotType(libs[s]))'
        /\ \A s \in Slots : Claimed(s)' <=> s < n + 1
        /\ \A s \in Slots : s # n => libs'[s] = libs[s]
        /\ libs'[n].is_primary = primary
        /\ libs'[n].depends \in {<<>>, DependsOf(file[path])}
        /\ ~Claimed(n) /\ Claimed(n)'
    BY <1>1, <2>1, GrowsTable
  <2>4. libs'[n].depends \in Seq(Name)
    <3>1. file[path] \in File
      BY <1>1 DEF LibTypeOK
    <3>2. DependsOf(file[path]) \in Seq(Name)
      BY <3>1, DependsOfType
    <3>3. CASE libs'[n].depends = <<>>
      BY <3>3, EmptySeq
    <3>4. CASE libs'[n].depends = DependsOf(file[path])
      BY <3>2, <3>4
    <3> QED
      BY <2>3, <3>3, <3>4
  <2>10. stack \in Seq(Frame)
    BY DEF LibTypeOK, Frame
  <2>5. /\ stack' \in Seq(Frame)
        /\ \A k \in 1 .. Len(stack) : stack'[k] = stack[k]
        /\ \A k \in 1 .. Len(stack') :
             k \in 1 .. Len(stack) \/ stack'[k] = [lib |-> n, i |-> 1]
    BY <2>1, <2>2, <2>10, Pushed
  <2>6. \A k \in 1 .. Len(stack') :
          /\ libs'[stack'[k].lib].name # NoName
          /\ stack'[k].i <= Len(libs'[stack'[k].lib].depends) + 1
          /\ k < Len(stack') => stack'[k].i <= Len(libs'[stack'[k].lib].depends)
    <3> SUFFICES ASSUME NEW k \in 1 .. Len(stack')
                 PROVE  /\ libs'[stack'[k].lib].name # NoName
                        /\ stack'[k].i <= Len(libs'[stack'[k].lib].depends) + 1
                        /\ k < Len(stack') => stack'[k].i <= Len(libs'[stack'[k].lib].depends)
      OBVIOUS
    <3>1. CASE k \in 1 .. Len(stack)
      <4>1. stack'[k] = stack[k] /\ stack[k].lib \in Slots
        BY <2>5, <3>1, FrameType
      <4>2. libs[stack[k].lib].name # NoName
        BY <3>1, FrameType
      <4>3. libs'[stack[k].lib] = libs[stack[k].lib]
        BY <2>3, <4>1, <4>2 DEF Claimed
      <4>4. k = Len(stack) => stack' = stack \/ stack[k].i <= Len(libs[stack[k].lib].depends)
        <5>1. SUFFICES ASSUME k = Len(stack), stack' # stack
                       PROVE  stack[k].i <= Len(libs[stack[k].lib].depends)
          OBVIOUS
        <5>2. InLoop /\ MoreDepends
          BY <3>1, <2>10 DEF Calls, TableShape
        <5> QED
          BY <5>1, <5>2 DEF MoreDepends, Top
      <4> QED
        BY <2>10, <3>1, <4>1, <4>2, <4>3, <4>4, FrameType
    <3>2. CASE k \notin 1 .. Len(stack)
      <4>1. stack'[k] = [lib |-> n, i |-> 1] /\ Len(stack') = k
        BY <2>1, <2>2, <2>5, <2>10, <3>2, Pushed
      <4>2. Len(libs'[n].depends) \in Nat /\ libs'[n].name # NoName
        BY <2>3, <2>4 DEF Claimed
      <4> QED
        BY <4>1, <4>2
    <3> QED
      BY <3>1, <3>2
  <2>7. LibTypeOK'
    BY <2>1, <2>3, <2>5, <2>6 DEF LibTypeOK, Statuses, Frame, Claimed
  <2>8. n = 0 <=> primary
    <3>1. CASE primary
      BY <2>2, <3>1, NumLibsAssumption DEF TableShape, Calls, LibFirst, Slots
    <3>2. CASE ~primary
      BY <2>2, <3>2, NumLibsAssumption DEF TableShape, Calls, LibFirst, Slots, InLoop
    <3> QED
      BY <3>1, <3>2
  <2>9. TableShape'
    <3>1. n + 1 \in 0 .. NumLibs
      BY <2>2, NumLibsAssumption DEF Slots
    <3>2. \A s \in Slots : Claimed(s)' => (libs'[s].is_primary <=> s = LibFirst)
      BY <2>2, <2>3, <2>8 DEF TableShape, LibFirst, Slots
    <3>3. Claimed(LibFirst)'
      BY <2>2, <2>3, NumLibsAssumption DEF LibFirst, Slots
    <3> QED
      BY <2>1, <2>3, <3>1, <3>2, <3>3 DEF TableShape
  <2> QED
    BY <2>7, <2>9
<1> QED
  BY <1>1, <1>2, <1>3, LibInitCases

(* The other steps leave the table alone. *)
LEMMA LoopType ==
  ASSUME LibTypeOK, TableShape, SkipNeeded \/ ReturnToCaller \/ ReturnToMain
  PROVE  LibTypeOK' /\ TableShape'
<1>1. UNCHANGED <<file, libs>>
  BY DEF SkipNeeded, ReturnToCaller, ReturnToMain
<1>2. stack \in Seq(Frame) /\ stack # <<>> /\ Len(stack) \in Nat \ {0}
  BY DEF LibTypeOK, Frame, SkipNeeded, ReturnToCaller, ReturnToMain, InLoop
<1>3. status' \in {"loading", "returned"} /\ status = "loading"
      /\ (status' = "returned" => stack' = <<>>)
  BY DEF SkipNeeded, ReturnToCaller, ReturnToMain, InLoop
<1>4. TableShape'
  BY <1>1, <1>3 DEF TableShape, Claimed
<1>5. /\ stack' \in Seq(Frame)
      /\ \A k \in 1 .. Len(stack') :
           /\ k \in 1 .. Len(stack) /\ stack'[k].lib = stack[k].lib
           /\ stack'[k].i <= Len(libs[stack[k].lib].depends) + 1
           /\ k < Len(stack') => stack'[k].i <= Len(libs[stack[k].lib].depends)
  <2>1. CASE SkipNeeded
    <3>1. InLoop /\ MoreDepends
      BY <2>1 DEF SkipNeeded
    <3>2. stack' = [stack EXCEPT ![Len(stack)].i = @ + 1]
      BY <2>1 DEF SkipNeeded
    <3>3. /\ stack' \in Seq(Frame) /\ Len(stack') = Len(stack)
          /\ stack'[Len(stack)].lib = stack[Len(stack)].lib
          /\ stack'[Len(stack)].i = stack[Len(stack)].i + 1
          /\ \A k \in 1 .. Len(stack) : k # Len(stack) => stack'[k] = stack[k]
      BY <1>2, <3>2, Bumped
    <3>4. stack[Len(stack)].i <= Len(libs[stack[Len(stack)].lib].depends)
      BY <3>1 DEF MoreDepends, Top
    <3> SUFFICES ASSUME NEW k \in 1 .. Len(stack)
                 PROVE  /\ stack'[k].lib = stack[k].lib
                        /\ stack'[k].i <= Len(libs[stack[k].lib].depends) + 1
                        /\ k < Len(stack) => stack'[k].i <= Len(libs[stack[k].lib].depends)
      BY <3>3
    <3>5. CASE k = Len(stack)
      BY <1>2, <3>3, <3>4, <3>5, FrameType
    <3>6. CASE k # Len(stack)
      <4>1. stack'[k] = stack[k]
        BY <3>3, <3>6
      <4> QED
        BY <4>1, <3>6, FrameType
    <3> QED
      BY <3>5, <3>6
  <2>2. CASE ReturnToCaller
    <3> DEFINE callers == SubSeq(stack, 1, Len(stack) - 1)
    <3>1. Len(stack) > 1 /\ stack' = [callers EXCEPT ![Len(callers)].i = @ + 1]
      BY <2>2 DEF ReturnToCaller
    <3>2. callers \in Seq(Frame) /\ Len(callers) = Len(stack) - 1 /\ callers # <<>>
          /\ \A k \in 1 .. Len(callers) : callers[k] = stack[k]
      BY <1>2, <3>1, Popped
    <3> HIDE DEF callers
    <3>3. /\ stack' \in Seq(Frame) /\ Len(stack') = Len(stack) - 1
          /\ stack'[Len(stack) - 1].lib = stack[Len(stack) - 1].lib
          /\ stack'[Len(stack) - 1].i = stack[Len(stack) - 1].i + 1
          /\ \A k \in 1 .. Len(stack') : k # Len(stack) - 1 => stack'[k] = stack[k]
      BY <1>2, <3>1, <3>2, Bumped
    <3> SUFFICES ASSUME NEW k \in 1 .. Len(stack) - 1
                 PROVE  /\ stack'[k].lib = stack[k].lib
                        /\ stack'[k].i <= Len(libs[stack[k].lib].depends) + 1
                        /\ k < Len(stack) - 1 => stack'[k].i <= Len(libs[stack[k].lib].depends)
      BY <1>2, <3>3
    <3>4. k \in 1 .. Len(stack) /\ k < Len(stack)
      BY <1>2
    <3>5. CASE k = Len(stack) - 1
      <4>1. /\ stack[k].i \in Nat
            /\ stack[k].i <= Len(libs[stack[k].lib].depends)
        BY <3>4, FrameType
      <4>2. stack'[k].lib = stack[k].lib /\ stack'[k].i = stack[k].i + 1
        BY <3>3, <3>5
      <4>3. Len(libs[stack[k].lib].depends) \in Nat
        BY <3>4, FrameType
      <4>4. stack'[k].i <= Len(libs[stack[k].lib].depends) + 1
        BY <4>1, <4>2, <4>3
      <4> QED
        BY <3>5, <4>2, <4>4
    <3>6. CASE k # Len(stack) - 1
      <4>1. stack'[k] = stack[k]
        BY <3>3, <3>6
      <4> QED
        BY <4>1, <3>4, <3>6, FrameType
    <3> QED
      BY <3>5, <3>6
  <2>3. CASE ReturnToMain
    BY <2>3 DEF ReturnToMain
  <2> QED
    BY <2>1, <2>2, <2>3
<1>6. /\ \A k \in 1 .. Len(stack') :
           /\ libs'[stack'[k].lib].name # NoName
           /\ stack'[k].i <= Len(libs'[stack'[k].lib].depends) + 1
           /\ k < Len(stack') => stack'[k].i <= Len(libs'[stack'[k].lib].depends)
  BY <1>1, <1>5, FrameType
<1> QED
  BY <1>1, <1>3, <1>4, <1>5, <1>6, TableStable DEF LibTypeOK, Claimed, Statuses

LEMMA TypeStep ==
  ASSUME LibTypeOK, TableShape, [LibStep]_libVars
  PROVE  LibTypeOK' /\ TableShape'
<1>1. CASE UNCHANGED libVars
  BY <1>1, TableStable DEF libVars, LibTypeOK, TableShape
<1>2. CASE LibStep
  BY <1>2, StepCases, CallType, LoopType
<1> QED
  BY <1>1, <1>2

LEMMA TypeStart ==
  ASSUME LibStart
  PROVE  LibTypeOK /\ TableShape
<1>1. \A s \in Slots : libs[s] = EmptySlot /\ ~Claimed(s)
  BY DEF LibStart, Claimed, EmptySlot
<1>2. LibTypeOK
  BY <1>1 DEF LibStart, LibTypeOK, SlotType, Statuses
<1>3. 0 \in 0 .. NumLibs /\ \A s \in Slots : Claimed(s) <=> s < 0
  BY <1>1, NumLibsAssumption DEF Slots
<1>4. TableShape
  BY <1>1, <1>3 DEF LibStart, TableShape
<1> QED
  BY <1>2, <1>4

(* Slots, files and frames stay of their types, whatever the files hold.   *)
THEOREM LibTypeCorrect == LibSpec => []LibTypeOK
<1>1. LibStart => LibTypeOK /\ TableShape
  BY TypeStart
<1>2. LibTypeOK /\ TableShape /\ [LibStep]_libVars => (LibTypeOK /\ TableShape)'
  BY TypeStep
<1> QED
  BY <1>1, <1>2, PTL DEF LibSpec

------------------------------------------------------------------------------
(* The invariants of the walk. *)

(* What one call of lib_init adds to the table. *)
Added(n, primary, path) ==
  /\ n \in Slots /\ ~Claimed(n)
  /\ file' = file
  /\ \A s \in Slots : s # n => libs'[s] = libs[s]
  /\ libs'[n].path = path /\ libs'[n].is_primary = primary
  /\ libs'[n].name = Basename[path] /\ libs'[n].name # NoName
  /\ libs'[n].depends \in {<<>>, DependsOf(file[path])}

LEMMA CallCases ==
  ASSUME LibTypeOK, TableShape, NEW primary, NEW path, Calls(primary, path)
  PROVE  \/ /\ UNCHANGED <<file, libs, stack>>
            /\ status' = "table_full" /\ FreeSlots = {}
         \/ \E n : /\ Added(n, primary, path)
                  /\ \/ /\ status' = "load_failed" /\ stack' = stack
                        /\ libs'[n].depends = <<>>
                     \/ /\ status' = "loading"
                        /\ stack' = Append(stack, [lib |-> n, i |-> 1])
<1>1. primary \in BOOLEAN /\ path \in Name /\ LibInit(primary, path)
  BY DEF Calls
<1>2. ASSUME NEW n, Grows(n, primary, path)
      PROVE  Added(n, primary, path)
  <2>1. n \in Slots /\ file' = file
    BY <1>2 DEF Grows
  <2> QED
    BY <1>1, <1>2, <2>1, GrowsTable DEF Added, Claimed
<1> QED
  BY <1>1, <1>2, LibInitCases DEF TableFull

LEMMA AddedDepends ==
  ASSUME LibTypeOK, NEW n, NEW primary, NEW path \in Name, Added(n, primary, path)
  PROVE  libs'[n].depends \in Seq(Name)
<1>1. DependsOf(file[path]) \in Seq(Name)
  BY DependsOfType DEF LibTypeOK
<1>2. CASE libs'[n].depends = <<>>
  BY <1>2, EmptySeq
<1>3. CASE libs'[n].depends = DependsOf(file[path])
  BY <1>1, <1>3
<1> QED
  BY <1>2, <1>3 DEF Added

(* A dependency once present stays present, and the one just loaded is. *)
LEMMA PresentStays ==
  ASSUME NEW n, NEW primary, NEW path, Added(n, primary, path), NEW d, Present(d)
  PROVE  Present(d)'
<1>1. PICK t \in Slots : /\ Claimed(t) /\ ~libs[t].is_primary
                         /\ Fold[libs[t].name] = Fold[Basename[d]]
  BY DEF Present
<1>2. t # n /\ libs'[t] = libs[t]
  BY <1>1 DEF Added
<1> QED
  BY <1>1, <1>2 DEF Present, Claimed

LEMMA PresentNew ==
  ASSUME NEW n, NEW path, Added(n, FALSE, path)
  PROVE  Present(path)'
BY DEF Added, Present, Claimed

LEMMA PresentFound ==
  ASSUME LibTypeOK, NEW d \in Name, FindSlots(d) # {}
  PROVE  Present(d)
<1>1. PICK s \in Slots : ~libs[s].is_primary /\ Claimed(s) /\ Fold[d] = Fold[libs[s].name]
  BY DEF FindSlots
<1>2. libs[s].path \in Name /\ libs[s].name = Basename[libs[s].path] /\ libs[s].name \in Name
  BY <1>1, SlotFields DEF LibTypeOK, Claimed
<1>3. Basename[libs[s].name] = libs[s].name
  BY <1>2, BasenameAssumption
<1>4. Fold[Basename[d]] = Fold[Basename[libs[s].name]]
  BY <1>1, <1>2, FoldAssumption
<1> QED
  BY <1>1, <1>3, <1>4 DEF Present

LEMMA ClosedOrActiveCall ==
  ASSUME LibTypeOK, TableShape, ClosedOrActive, LibTypeOK',
         NEW primary, NEW path, Calls(primary, path)
  PROVE  ClosedOrActive'
<1>1. CASE UNCHANGED <<file, libs, stack>>
  BY <1>1 DEF ClosedOrActive, Passed, Present, Claimed
<1>2. ASSUME NEW n, Added(n, primary, path),
             \/ stack' = stack /\ libs'[n].depends = <<>>
             \/ stack' = Append(stack, [lib |-> n, i |-> 1])
      PROVE  ClosedOrActive'
  <2>1. stack \in Seq(Frame) /\ n \in Slots
    BY <1>2 DEF LibTypeOK, Added
  <2>2. \A d : Present(d) => Present(d)'
    BY <1>2, PresentStays
  <2>3. /\ \A k \in 1 .. Len(stack) : k \in 1 .. Len(stack') /\ stack'[k] = stack[k]
        /\ \/ stack' = stack
           \/ /\ Len(stack') = Len(stack) + 1
              /\ stack'[Len(stack) + 1] = [lib |-> n, i |-> 1]
    BY <1>2, <2>1, Pushed
  <2>4. \A k \in 1 .. Len(stack) : libs'[stack[k].lib] = libs[stack[k].lib]
    BY <1>2, FrameType DEF Added, Claimed
  <2>5. ASSUME NEW k \in 1 .. Len(stack')
        PROVE  Passed(k)'
    <3>1. CASE k \in 1 .. Len(stack)
      <4>0. PICK d : d = libs[stack[k].lib].depends
        OBVIOUS
      <4>1. stack'[k] = stack[k] /\ libs'[stack'[k].lib].depends = d
        BY <2>3, <2>4, <3>1, <4>0
      <4>2. /\ d \in Seq(Name) /\ Len(d) \in Nat /\ stack[k].i \in Nat \ {0}
            /\ k < Len(stack) => stack[k].i <= Len(d)
        BY <3>1, <4>0, FrameType
      <4>3. Passed(k)
        BY <3>1 DEF ClosedOrActive
      <4>4. CASE k < Len(stack)
        <5>1. k < Len(stack')
          BY <2>1, <2>3, <4>4
        <5> QED
          BY <2>2, <4>0, <4>1, <4>3, <4>4, <5>1 DEF Passed
      <4>5. CASE k = Len(stack) /\ stack' = stack
        BY <2>2, <4>0, <4>1, <4>3, <4>5 DEF Passed
      <4>6. CASE k = Len(stack) /\ Len(stack') = Len(stack) + 1
        <5>1. primary = FALSE /\ MoreDepends /\ path = Dependency
          BY <2>1, <3>1 DEF Calls, TableShape
        <5>2. stack[k].i <= Len(d) /\ d[stack[k].i] = path
          BY <4>0, <4>6, <5>1 DEF MoreDepends, Dependency, Top
        <5>3. Present(path)'
          BY <1>2, <5>1, PresentNew
        <5>4. \A j \in 1 .. stack[k].i - 1 : Present(d[j])
          BY <4>0, <4>3, <4>6 DEF Passed
        <5>5. \A j \in 1 .. stack[k].i : Present(d[j])'
          <6> SUFFICES ASSUME NEW j \in 1 .. stack[k].i
                       PROVE  Present(d[j])'
            OBVIOUS
          <6>1. CASE j = stack[k].i
            BY <5>2, <5>3, <6>1
          <6>2. CASE j # stack[k].i
            <7>1. Present(d[j])
              BY <4>2, <5>4, <6>2
            <7> QED
              BY <2>2, <7>1
          <6> QED
            BY <6>1, <6>2
        <5> QED
          BY <4>1, <4>6, <5>2, <5>5 DEF Passed
      <4> QED
        BY <2>1, <2>3, <3>1, <4>4, <4>5, <4>6
    <3>2. CASE k \notin 1 .. Len(stack)
      <4>1. stack'[k].i = 1 /\ stack'[k].lib = n /\ k = Len(stack')
        BY <2>1, <2>3, <3>2
      <4>2. Len(libs'[n].depends) \in Nat
        BY <1>2, AddedDepends DEF Calls
      <4> QED
        BY <4>1, <4>2 DEF Passed
    <3> QED
      BY <3>1, <3>2
  <2>6. ASSUME NEW s \in Slots
        PROVE  \/ \E k \in 1 .. Len(stack') : stack'[k].lib = s
               \/ \A j \in 1 .. Len(libs'[s].depends) : Present(libs[s].depends[j])'
    <3>1. CASE s = n
      <4>1. CASE libs'[n].depends = <<>>
        BY <3>1, <4>1
      <4>2. CASE stack' = Append(stack, [lib |-> n, i |-> 1])
        BY <2>1, <3>1, <4>2, Pushed
      <4> QED
        BY <1>2, <4>1, <4>2
    <3>2. CASE s # n
      <4>1. libs'[s] = libs[s]
        BY <1>2, <3>2 DEF Added
      <4>2. \/ \E k \in 1 .. Len(stack) : stack[k].lib = s
            \/ \A j \in 1 .. Len(libs[s].depends) : Present(libs[s].depends[j])
        BY DEF ClosedOrActive
      <4> QED
        BY <2>2, <2>3, <4>1, <4>2
    <3> QED
      BY <3>1, <3>2
  <2> QED
    BY <2>5, <2>6 DEF ClosedOrActive
<1> QED
  BY <1>1, <1>2, CallCases

LEMMA ClosedOrActiveLoop ==
  ASSUME LibTypeOK, ClosedOrActive, SkipNeeded \/ ReturnToCaller \/ ReturnToMain
  PROVE  ClosedOrActive'
<1>1. UNCHANGED <<file, libs>> /\ \A d : Present(d)' <=> Present(d)
  BY DEF SkipNeeded, ReturnToCaller, ReturnToMain, Present, Claimed
<1>2. stack \in Seq(Frame) /\ stack # <<>> /\ Len(stack) \in Nat \ {0}
  BY DEF LibTypeOK, SkipNeeded, ReturnToCaller, ReturnToMain, InLoop
<1>3. PICK d : d = libs[Top.lib].depends
  OBVIOUS
<1>4. d \in Seq(Name) /\ Len(d) \in Nat /\ Top.i \in Nat \ {0} /\ Top.i <= Len(d) + 1
  BY <1>2, <1>3, FrameType DEF Top
<1>5. \A j \in 1 .. Top.i - 1 : Present(d[j])
  BY <1>2, <1>3 DEF ClosedOrActive, Passed, Top
<1>6. CASE SkipNeeded
  <2>1. MoreDepends /\ InLoop /\ FindSlots(Dependency) # {}
    BY <1>6 DEF SkipNeeded
  <2>2. Dependency \in Name /\ Present(Dependency) /\ Top.i <= Len(d)
    BY <1>3, <2>1, DependencyType, PresentFound DEF MoreDepends
  <2>3. /\ Len(stack') = Len(stack)
        /\ stack'[Len(stack)].lib = Top.lib
        /\ stack'[Len(stack)].i = Top.i + 1
        /\ \A k \in 1 .. Len(stack) : k # Len(stack) => stack'[k] = stack[k]
    BY <1>2, <1>6, Bumped DEF SkipNeeded, Top
  <2>4. \A j \in 1 .. Top.i : Present(d[j])
    <3> SUFFICES ASSUME NEW j \in 1 .. Top.i
                 PROVE  Present(d[j])
      OBVIOUS
    <3>1. CASE j = Top.i
      BY <1>3, <2>2, <3>1 DEF Dependency
    <3>2. CASE j # Top.i
      BY <1>4, <1>5, <3>2
    <3> QED
      BY <3>1, <3>2
  <2>5. ASSUME NEW k \in 1 .. Len(stack)
        PROVE  Passed(k)'
    <3>1. CASE k = Len(stack)
      BY <1>1, <1>3, <1>4, <2>2, <2>3, <2>4, <3>1 DEF Passed
    <3>2. CASE k # Len(stack)
      <4>1. stack'[k] = stack[k] /\ Passed(k)
        BY <2>3, <3>2 DEF ClosedOrActive
      <4> QED
        BY <1>1, <2>3, <4>1 DEF Passed
    <3> QED
      BY <3>1, <3>2
  <2>6. \A k \in 1 .. Len(stack) : stack'[k].lib = stack[k].lib
    BY <2>3 DEF Top
  <2> QED
    BY <1>1, <2>3, <2>5, <2>6 DEF ClosedOrActive
<1>7. CASE ReturnToCaller \/ ReturnToMain
  <2>1. ~MoreDepends
    BY <1>7 DEF ReturnToCaller, ReturnToMain
  <2>2. \A j \in 1 .. Len(d) : Present(d[j])
    BY <1>3, <1>4, <1>5, <2>1 DEF MoreDepends
  <2>3. /\ Len(stack') = Len(stack) - 1
        /\ \A k \in 1 .. Len(stack') :
             /\ stack'[k].lib = stack[k].lib
             /\ stack'[k].i = IF k = Len(stack') THEN stack[k].i + 1 ELSE stack[k].i
    <3>1. CASE ReturnToCaller
      <4>1. PICK callers : callers = SubSeq(stack, 1, Len(stack) - 1)
        OBVIOUS
      <4>2. Len(stack) > 1 /\ stack' = [callers EXCEPT ![Len(callers)].i = @ + 1]
        BY <3>1, <4>1 DEF ReturnToCaller
      <4>3. callers \in Seq(Frame) /\ Len(callers) = Len(stack) - 1 /\ callers # <<>>
            /\ \A k \in 1 .. Len(callers) : callers[k] = stack[k]
        BY <1>2, <4>1, <4>2, Popped
      <4>4. /\ Len(stack') = Len(callers)
            /\ stack'[Len(callers)].lib = callers[Len(callers)].lib
            /\ stack'[Len(callers)].i = callers[Len(callers)].i + 1
            /\ \A k \in 1 .. Len(callers) : k # Len(callers) => stack'[k] = callers[k]
        BY <4>2, <4>3, Bumped
      <4> QED
        BY <1>2, <4>2, <4>3, <4>4
    <3>2. CASE ReturnToMain
      BY <3>2 DEF ReturnToMain
    <3> QED
      BY <1>7, <3>1, <3>2
  <2>4. ASSUME NEW k \in 1 .. Len(stack')
        PROVE  Passed(k)'
    <3>1. k \in 1 .. Len(stack) /\ k < Len(stack) /\ Passed(k) /\ stack[k].i \in Nat
      BY <1>2, <2>3, FrameType DEF ClosedOrActive
    <3>2. IF k < Len(stack') THEN stack'[k].i = stack[k].i ELSE stack'[k].i - 1 = stack[k].i
      BY <2>3, <3>1
    <3> QED
      BY <1>1, <2>3, <3>1, <3>2 DEF Passed
  <2>5. ASSUME NEW s \in Slots
        PROVE  \/ \E k \in 1 .. Len(stack') : stack'[k].lib = s
               \/ \A j \in 1 .. Len(libs[s].depends) : Present(libs[s].depends[j])
    <3>1. CASE s = Top.lib
      BY <1>3, <2>2, <3>1
    <3>2. CASE s # Top.lib
      <4>1. ASSUME NEW k \in 1 .. Len(stack), stack[k].lib = s
            PROVE  k \in 1 .. Len(stack')
        BY <1>2, <2>3, <3>2, <4>1 DEF Top
      <4> QED
        BY <2>3, <4>1 DEF ClosedOrActive
    <3> QED
      BY <3>1, <3>2
  <2> QED
    BY <1>1, <2>4, <2>5 DEF ClosedOrActive
<1> QED
  BY <1>6, <1>7

(* S holds the primary's path and what its members need. *)
Closed(S) ==
  /\ S \in SUBSET Name
  /\ Claimed(LibFirst) => libs[LibFirst].path \in S
  /\ \A m \in S : \A j \in 1 .. Len(DependsOf(file[m])) : DependsOf(file[m])[j] \in S

(* The primary takes the first slot. *)
LEMMA FirstIsAdded ==
  ASSUME LibTypeOK, TableShape, NEW path, Calls(TRUE, path),
         NEW n, Added(n, TRUE, path)
  PROVE  libs'[LibFirst].name # NoName
<1>1. TableShape' /\ status' # "start"
  <2>1. LibInit(TRUE, path)
    BY DEF Calls
  <2> QED
    BY <2>1, CallType DEF LibInit, TableFull, LoadFails, LinkmapFails, Loads
<1> QED
  BY <1>1 DEF TableShape, Claimed, LibFirst

(* With plain entries a needed name is its own basename. *)
LEMMA PlainDependency ==
  ASSUME LibTypeOK, PlainNeeded, InLoop, MoreDepends
  PROVE  Basename[Dependency] = Dependency
<1>1. Top.lib \in Slots /\ libs[Top.lib].name # NoName
  BY DependencyType, FrameType DEF Top
<1>2. /\ libs[Top.lib].path \in Name
      /\ libs[Top.lib].depends \in {<<>>, DependsOf(file[libs[Top.lib].path])}
  BY <1>1, SlotFields DEF LibTypeOK
<1>3. Top.i \in 1 .. Len(libs[Top.lib].depends)
  BY DependencyType
<1>4. libs[Top.lib].depends = file[libs[Top.lib].path].needed
  BY <1>2, <1>3 DEF DependsOf
<1> QED
  BY <1>2, <1>3, <1>4 DEF PlainNeeded, Dependency

LEMMA ReachesOnlyCall ==
  ASSUME LibTypeOK, TableShape, ReachesOnly,
         NEW primary, NEW path, Calls(primary, path),
         NEW n, Added(n, primary, path)
  PROVE  ReachesOnly'
<1>1. /\ file' = file /\ n \in Slots /\ ~Claimed(n)
      /\ \A s \in Slots : s # n => libs'[s] = libs[s]
      /\ libs'[n].path = path
  BY DEF Added
<1>2. LibFirst \in Slots
  BY NumLibsAssumption DEF Slots, LibFirst
<1>3. SUFFICES ASSUME NEW S, Closed(S)',
                      NEW s \in Slots, Claimed(s)'
               PROVE  libs'[s].path \in S
  BY DEF ReachesOnly, Closed
<1>4. S \in SUBSET Name
      /\ \A m \in S : \A j \in 1 .. Len(DependsOf(file[m])) : DependsOf(file[m])[j] \in S
  BY <1>1, <1>3 DEF Closed, DependsOf
<1>5. CASE primary = TRUE
  <2>1. \A t \in Slots : ~Claimed(t)
    BY <1>5 DEF Calls, TableShape
  <2>2. s = n
    BY <1>1, <1>3, <2>1 DEF Claimed
  <2>3. n = LibFirst
    <3>1. libs'[LibFirst].name # NoName
      BY <1>2, <1>5, <2>1, FirstIsAdded
    <3> QED
      BY <1>1, <1>2, <2>1, <3>1 DEF Claimed
  <2> QED
    BY <1>3, <2>2, <2>3 DEF Closed
<1>6. CASE primary = FALSE
  <2>1. Claimed(LibFirst) /\ InLoop /\ MoreDepends /\ path = Dependency
    BY <1>6 DEF Calls, TableShape, InLoop
  <2>2. libs'[LibFirst] = libs[LibFirst] /\ libs[LibFirst].path \in S
    BY <1>1, <1>2, <1>3, <2>1 DEF Closed, Claimed
  <2>3. \A t \in Slots : Claimed(t) => libs[t].path \in S
    BY <1>4, <2>1, <2>2 DEF ReachesOnly
  <2>4. CASE s = n
    <3>1. Top.lib \in Slots /\ Claimed(Top.lib)
      BY <2>1, DependencyType, FrameType DEF Top, Claimed
    <3>2. libs[Top.lib].path \in S
      BY <2>3, <3>1
    <3>3. libs[Top.lib].depends \in {<<>>, DependsOf(file[libs[Top.lib].path])}
      BY <3>1, SlotFields DEF LibTypeOK, Claimed
    <3>4. Top.i \in 1 .. Len(libs[Top.lib].depends)
      BY <2>1, DependencyType
    <3>5. libs[Top.lib].depends = DependsOf(file[libs[Top.lib].path])
      BY <3>3, <3>4
    <3> QED
      BY <1>1, <1>4, <2>1, <2>4, <3>2, <3>4, <3>5 DEF Dependency
  <2>5. CASE s # n
    BY <1>1, <1>3, <2>3, <2>5 DEF Claimed
  <2> QED
    BY <2>4, <2>5
<1> QED
  BY <1>5, <1>6 DEF Calls

LEMMA OneSlotCall ==
  ASSUME LibTypeOK, TableShape, OneSlotPerDependency,
         NEW primary, NEW path, Calls(primary, path),
         NEW n, Added(n, primary, path)
  PROVE  OneSlotPerDependency'
<1>1. /\ file' = file /\ n \in Slots /\ ~Claimed(n)
      /\ \A s \in Slots : s # n => libs'[s] = libs[s]
      /\ libs'[n].name = Basename[path] /\ libs'[n].is_primary = primary
  BY DEF Added
<1>2. PlainNeeded' <=> PlainNeeded
  BY <1>1 DEF PlainNeeded
<1>3. SUFFICES ASSUME PlainNeeded,
                      NEW s \in Slots, Claimed(s)', ~libs'[s].is_primary,
                      NEW t \in Slots, Claimed(t)', ~libs'[t].is_primary,
                      Fold[libs'[s].name] = Fold[libs'[t].name]
               PROVE  s = t
  BY <1>2 DEF OneSlotPerDependency
<1>4. ASSUME NEW u \in Slots, u # n, Claimed(u)', ~libs'[u].is_primary, primary = FALSE
      PROVE  Fold[libs'[u].name] # Fold[Basename[path]]
  <2>1. u \in Slots /\ Claimed(u) /\ ~libs[u].is_primary /\ libs'[u] = libs[u]
    BY <1>1, <1>4 DEF Claimed
  <2>2. InLoop /\ MoreDepends /\ path = Dependency /\ FindSlots(path) = {}
    BY <1>4 DEF Calls
  <2>3. Fold[path] # Fold[libs[u].name]
    BY <2>1, <2>2 DEF FindSlots
  <2>4. Basename[path] = path
    BY <1>3, <2>2, PlainDependency
  <2> QED
    BY <2>1, <2>3, <2>4
<1>5. CASE s # n /\ t # n
  BY <1>1, <1>3, <1>5 DEF OneSlotPerDependency, Claimed
<1>6. CASE s = n /\ t # n
  BY <1>1, <1>3, <1>4, <1>6 DEF Calls
<1>7. CASE s # n /\ t = n
  BY <1>1, <1>3, <1>4, <1>7 DEF Calls
<1> QED
  BY <1>5, <1>6, <1>7

LEMMA FullCall ==
  ASSUME LibTypeOK, TableShape, NEW primary, NEW path, Calls(primary, path),
         UNCHANGED <<file, libs>>, FreeSlots = {}
  PROVE  FullMeansMissing'
<1>1. FreeSlots' = {}
  BY DEF FreeSlots, Claimed
<1>2. \E n \in Name : FindSlots(n) = {}
  <2>1. CASE primary = TRUE
    <3>1. status = "start" /\ LibFirst \in Slots
      BY <2>1, NumLibsAssumption DEF Calls, LibFirst, Slots
    <3> QED
      BY <3>1 DEF TableShape, FreeSlots
  <2>2. CASE primary = FALSE
    BY <2>2 DEF Calls
  <2> QED
    BY <2>1, <2>2 DEF Calls
<1>3. (\E n \in Name : FindSlots(n) = {})'
  BY <1>2 DEF FindSlots, Claimed
<1> QED
  BY <1>1, <1>3 DEF FullMeansMissing

LEMMA InvStep ==
  ASSUME LibInv, [LibStep]_libVars
  PROVE  LibInv'
<1> USE DEF LibInv
<1>1. LibTypeOK' /\ TableShape'
  BY TypeStep
<1>2. CASE UNCHANGED <<file, libs>>
  <2>1. ReachesOnly' /\ OneSlotPerDependency'
    BY <1>2 DEF ReachesOnly, OneSlotPerDependency, PlainNeeded, Claimed, DependsOf
  <2>2. CASE UNCHANGED <<stack, status>>
    <3>1. ClosedOrActive'
      BY <1>2, <2>2 DEF ClosedOrActive, Passed, Present, Claimed
    <3>2. FullMeansMissing'
      BY <1>2, <2>2 DEF FullMeansMissing, FreeSlots, FindSlots, PlainNeeded, Claimed
    <3> QED
      BY <1>1, <2>1, <3>1, <3>2
  <2>3. CASE SkipNeeded \/ ReturnToCaller \/ ReturnToMain
    <3>1. FullMeansMissing'
      BY <2>3 DEF SkipNeeded, ReturnToCaller, ReturnToMain, InLoop, FullMeansMissing
    <3> QED
      BY <1>1, <2>1, <2>3, <3>1, ClosedOrActiveLoop
  <2>4. ASSUME NEW primary, NEW path, Calls(primary, path)
        PROVE  LibInv'
    <3>1. FullMeansMissing'
      <4>1. CASE FreeSlots = {}
        BY <1>2, <2>4, <4>1, FullCall
      <4>2. CASE FreeSlots # {}
        BY <2>4, <4>2, CallCases DEF FullMeansMissing
      <4> QED
        BY <4>1, <4>2
    <3> QED
      BY <1>1, <2>1, <2>4, <3>1, ClosedOrActiveCall
  <2> QED
    BY <2>2, <2>3, <2>4, StepCases DEF libVars
<1>3. CASE ~UNCHANGED <<file, libs>>
  <2>1. PICK primary, path : Calls(primary, path)
    BY <1>3, StepCases DEF libVars, SkipNeeded, ReturnToCaller, ReturnToMain
  <2>2. PICK n : /\ Added(n, primary, path)
                 /\ status' \in {"load_failed", "loading"}
    BY <1>3, <2>1, CallCases
  <2>3. FullMeansMissing'
    BY <2>2 DEF FullMeansMissing
  <2>4. ReachesOnly' /\ OneSlotPerDependency'
    BY <2>1, <2>2, ReachesOnlyCall, OneSlotCall
  <2> QED
    BY <1>1, <2>1, <2>3, <2>4, ClosedOrActiveCall
<1> QED
  BY <1>2, <1>3

LEMMA InvStart ==
  ASSUME LibStart
  PROVE  LibInv
<1>1. \A s \in Slots : libs[s] = EmptySlot /\ ~Claimed(s)
  BY DEF LibStart, Claimed, EmptySlot
<1>2. LibTypeOK /\ TableShape
  BY TypeStart
<1>3. ClosedOrActive
  BY <1>1 DEF LibStart, ClosedOrActive, EmptySlot
<1>4. ReachesOnly /\ OneSlotPerDependency /\ FullMeansMissing
  BY <1>1 DEF LibStart, ReachesOnly, OneSlotPerDependency, FullMeansMissing
<1> QED
  BY <1>2, <1>3, <1>4 DEF LibInv

(* The inductive invariant behind the theorems below. *)
THEOREM LibInvariant == LibSpec => []LibInv
<1>1. LibInv /\ [LibStep]_libVars => LibInv'
  BY InvStep
<1> QED
  BY <1>1, InvStart, PTL DEF LibSpec

(* What lib_first/lib_next visit is what lib_init claimed, for every       *)
(* dependency graph and table size.                                        *)
THEOREM IterationTheorem == LibSpec => []IterationSeesAll
<1>1. ASSUME TableShape
      PROVE  IterationSeesAll
  <2>1. PICK n \in 0 .. NumLibs : \A s \in Slots : Claimed(s) <=> s < n
    BY <1>1 DEF TableShape
  <2>2. SUFFICES ASSUME status = "returned", NEW s \in Slots
                 PROVE  (\A t \in 1 .. s : LibNext(t - 1) = t) <=> Claimed(s)
    BY DEF IterationSeesAll, Visited
  <2>3. n >= 1
    BY <1>1, <2>1, <2>2, NumLibsAssumption DEF TableShape, LibFirst, Slots
  <2>4. \A t \in 1 .. s : t \in Slots /\ (LibNext(t - 1) = t <=> t < n)
    BY <2>1, NumLibsAssumption DEF LibNext, Slots, Claimed
  <2> QED
    BY <2>1, <2>3, <2>4, NumLibsAssumption DEF Slots
<1>2. LibInv => IterationSeesAll
  BY <1>1 DEF LibInv
<1> QED
  BY <1>2, LibInvariant, PTL

(* At the end the table is closed under DT_NEEDED, on every graph.         *)
THEOREM ClosureTheorem == LibSpec => []ClosedAtReturn
<1>1. LibInv => ClosedAtReturn
  BY DEF LibInv, TableShape, ClosedOrActive, ClosedAtReturn
<1> QED
  BY <1>1, LibInvariant, PTL

(* Cycles and diamonds never load a dependency twice.                      *)
THEOREM OneSlotTheorem == LibSpec => []OneSlotPerDependency
<1>1. LibInv => OneSlotPerDependency
  BY DEF LibInv
<1> QED
  BY <1>1, LibInvariant, PTL

(* Nothing enters the table that the primary does not need.                *)
THEOREM ReachesOnlyTheorem == LibSpec => []ReachesOnly
<1>1. LibInv => ReachesOnly
  BY DEF LibInv
<1> QED
  BY <1>1, LibInvariant, PTL

(* assert(lib != NULL) fails only when there are at least NUM_LIBS file    *)
(* names to load: by the pigeonhole principle, since every slot but the    *)
(* first holds a name of its own and the missing dependency one more.      *)
THEOREM TableSufficesTheorem == LibSpec => []TableSuffices
<1>1. ASSUME LibInv, status = "table_full", PlainNeeded
      PROVE  NumLibs <= Cardinality(Keys)
  <2>1. LibTypeOK /\ TableShape /\ OneSlotPerDependency /\ FreeSlots = {}
    BY <1>1 DEF LibInv, FullMeansMissing
  <2>2. PICK m \in Name : FindSlots(m) = {}
    BY <1>1 DEF LibInv, FullMeansMissing
  <2> DEFINE Others == 1 .. NumLibs - 1
             Rest   == Keys \ {Fold[m]}
             key    == [s \in Others |-> Fold[libs[s].name]]
  <2>3. IsFiniteSet(Keys)
    BY FoldAssumption, NameAssumption, FS_Subset DEF Keys
  <2>4. /\ Cardinality(Keys) \in Nat
        /\ IsFiniteSet(Rest) /\ Cardinality(Rest) = Cardinality(Keys) - 1
    <3>1. Fold[m] \in Keys
      BY DEF Keys
    <3>2. Cardinality(Keys) \in Nat
      BY <2>3, FS_CardinalityType
    <3>3. IsFiniteSet(Rest) /\ Cardinality(Rest) = Cardinality(Keys) - 1
      BY <2>3, <3>1, FS_RemoveElement
    <3> QED
      BY <3>2, <3>3
  <2>5. IsFiniteSet(Others) /\ Cardinality(Others) = NumLibs - 1
    BY NumLibsAssumption, FS_Interval
  <2>6. ASSUME NEW s \in Others
        PROVE  /\ s \in Slots /\ Claimed(s) /\ ~libs[s].is_primary
               /\ Fold[libs[s].name] \in Rest
    <3>1. s \in Slots /\ Claimed(s) /\ ~libs[s].is_primary
      BY <2>1, <2>6, NumLibsAssumption DEF Slots, FreeSlots, TableShape, LibFirst
    <3>2. Fold[libs[s].name] # Fold[m]
      BY <2>2, <3>1 DEF FindSlots
    <3>3. libs[s].name \in Name
      BY <2>1, <3>1, SlotFields DEF LibTypeOK, Claimed
    <3> QED
      BY <3>1, <3>2, <3>3 DEF Keys
  <2>7. key \in [Others -> Rest]
    BY <2>6
  <2>8. \A s, t \in Others : key[s] = key[t] => s = t
    BY <1>1, <2>1, <2>6 DEF OneSlotPerDependency
  <2> HIDE DEF Others, Rest, key
  <2>9. ~(Cardinality(Rest) < Cardinality(Others))
    BY <2>4, <2>5, <2>7, <2>8, FS_PigeonHole
  <2> QED
    BY <2>4, <2>5, <2>9, NumLibsAssumption
<1>2. LibInv => TableSuffices
  BY <1>1 DEF TableSuffices
<1> QED
  BY <1>2, LibInvariant, PTL

------------------------------------------------------------------------------
(* The refinement: initial states of the table map to initial states of    *)
(* DependencyClosure, steps to steps or stuttering.                        *)

(* A dependency is present in the table iff the abstract set has it.       *)
LEMMA PresentIsHas ==
  ASSUME LibTypeOK, NEW d
  PROVE  Present(d) <=> Closure!Has(Basename[d])
<1>1. \A t \in Slots : Claimed(t) => libs[t].name = Basename[libs[t].path]
  BY SlotFields DEF LibTypeOK, Claimed
<1>2. ASSUME Present(d) PROVE Closure!Has(Basename[d])
  <2>1. PICK t \in Slots : /\ Claimed(t) /\ ~libs[t].is_primary
                           /\ Fold[libs[t].name] = Fold[Basename[d]]
    BY <1>2 DEF Present
  <2>2. [path |-> libs[t].path, primary |-> libs[t].is_primary,
         depends |-> libs[t].depends] \in LoadedSet
    BY <2>1 DEF LoadedSet
  <2> QED
    BY <1>1, <2>1, <2>2 DEF Closure!Has
<1>3. ASSUME Closure!Has(Basename[d]) PROVE Present(d)
  <2>1. PICK r \in LoadedSet : ~r.primary /\ Fold[Basename[r.path]] = Fold[Basename[d]]
    BY <1>3 DEF Closure!Has
  <2>2. PICK t \in Slots : /\ Claimed(t)
                           /\ r = [path |-> libs[t].path, primary |-> libs[t].is_primary,
                                   depends |-> libs[t].depends]
    BY DEF LoadedSet
  <2> QED
    BY <1>1, <2>1, <2>2 DEF Present
<1> QED
  BY <1>2, <1>3

(* What is wanted is what some claimed slot's dependency list holds.       *)
LEMMA WantedIsNeeded ==
  ASSUME LibTypeOK, NEW d
  PROVE  d \in Closure!Wanted <=>
           \E s \in Slots : Claimed(s) /\ \E j \in 1 .. Len(libs[s].depends) : d = libs[s].depends[j]
<1>1. \A s \in Slots : DOMAIN libs[s].depends = 1 .. Len(libs[s].depends)
  BY SlotFields DEF LibTypeOK
<1>2. ASSUME d \in Closure!Wanted
      PROVE  \E s \in Slots : /\ Claimed(s)
                             /\ \E j \in 1 .. Len(libs[s].depends) : d = libs[s].depends[j]
  <2>1. PICK r \in LoadedSet : \E j \in DOMAIN r.depends : d = r.depends[j]
    BY <1>2 DEF Closure!Wanted
  <2>2. PICK s \in Slots : Claimed(s) /\ r.depends = libs[s].depends
    BY DEF LoadedSet
  <2> QED
    BY <1>1, <2>1, <2>2
<1>3. ASSUME NEW s \in Slots, Claimed(s),
             NEW j \in 1 .. Len(libs[s].depends), d = libs[s].depends[j]
      PROVE  d \in Closure!Wanted
  <2>1. [path |-> libs[s].path, primary |-> libs[s].is_primary,
         depends |-> libs[s].depends] \in LoadedSet
    BY <1>3 DEF LoadedSet
  <2> QED
    BY <1>1, <1>3, <2>1 DEF Closure!Wanted
<1> QED
  BY <1>2, <1>3

(* A claim in the table is one element more in the set.                    *)
LEMMA AddedIsLoad ==
  ASSUME LibTypeOK, NEW n, NEW primary, NEW path \in Name, Added(n, primary, path)
  PROVE  /\ LoadedSet' = LoadedSet \cup {Closure!Library(primary, path, libs'[n].depends)}
         /\ libs'[n].depends \in {<<>>, file[path].needed}
<1> DEFINE Entry(s) == [path |-> libs[s].path, primary |-> libs[s].is_primary,
                        depends |-> libs[s].depends]
<1>1. /\ n \in Slots /\ ~Claimed(n) /\ Claimed(n)'
      /\ \A s \in Slots : s # n => libs'[s] = libs[s]
      /\ Entry(n)' = Closure!Library(primary, path, libs'[n].depends)
  BY DEF Added, Claimed, Closure!Library
<1>2. LoadedSet = {Entry(s) : s \in {t \in Slots : Claimed(t)}}
      /\ LoadedSet' = {Entry(s)' : s \in {t \in Slots : Claimed(t)'}}
  BY DEF LoadedSet
<1>3. \A s \in Slots : s # n => (Entry(s)' = Entry(s) /\ (Claimed(s)' <=> Claimed(s)))
  BY <1>1 DEF Claimed
<1> HIDE DEF Entry
<1>4. LoadedSet' = LoadedSet \cup {Closure!Library(primary, path, libs'[n].depends)}
  BY <1>1, <1>2, <1>3
<1>5. libs'[n].depends \in {<<>>, file[path].needed}
  BY DEF Added, DependsOf
<1> QED
  BY <1>4, <1>5

LEMMA CallIsLoad ==
  ASSUME LibInv, NEW primary, NEW path, Calls(primary, path)
  PROVE  [Closure!ClosureStep]_(Closure!closureVars)
<1>1. LibTypeOK /\ TableShape /\ path \in Name
  BY DEF LibInv, Calls
<1>2. Phase = IF primary THEN "start" ELSE "loading"
  BY DEF Calls, Phase, InLoop
<1>3. CASE UNCHANGED <<file, libs, stack>> /\ status' = "table_full"
  <2>1. Phase' = "failed" /\ LoadedSet' = LoadedSet /\ file' = file
    BY <1>3 DEF Phase, LoadedSet, Claimed
  <2> QED
    BY <1>2, <2>1 DEF Closure!ClosureStep, Closure!Abort
<1>4. ASSUME NEW n, Added(n, primary, path), status' \in {"load_failed", "loading"}
      PROVE  Closure!ClosureStep
  <2>1. Closure!Load(primary, path)
    <3>1. Phase' \in {"loading", "failed"} /\ file' = file
      BY <1>4 DEF Phase, Added
    <3> QED
      BY <1>1, <1>4, <3>1, AddedIsLoad DEF Closure!Load
  <2>2. CASE primary = TRUE
    BY <1>1, <1>2, <2>1, <2>2 DEF Closure!ClosureStep, Closure!LoadArgument
  <2>3. CASE primary = FALSE
    <3>1. InLoop /\ MoreDepends /\ path = Dependency /\ FindSlots(path) = {}
      BY <2>3 DEF Calls
    <3>2. path \in Closure!Wanted
      <4>1. Top.lib \in Slots /\ Claimed(Top.lib)
        BY <1>1, <3>1, DependencyType, FrameType DEF Top, Claimed
      <4>2. Top.i \in 1 .. Len(libs[Top.lib].depends)
        BY <1>1, <3>1, DependencyType
      <4> QED
        BY <1>1, <3>1, <4>1, <4>2, WantedIsNeeded DEF Dependency
    <3>3. ~Closure!Has(path)
      <4>1. \A t \in Slots : Claimed(t) => libs[t].name = Basename[libs[t].path]
        BY <1>1, SlotFields DEF LibTypeOK, Claimed
      <4> QED
        BY <3>1, <4>1 DEF FindSlots, Closure!Has, LoadedSet
    <3> QED
      BY <1>2, <2>1, <2>3, <3>2, <3>3 DEF Closure!ClosureStep, Closure!LoadDependency
  <2> QED
    BY <2>2, <2>3 DEF Calls
<1> QED
  BY <1>1, <1>3, <1>4, CallCases

LEMMA LoopIsStep ==
  ASSUME LibInv, LibInv', SkipNeeded \/ ReturnToCaller \/ ReturnToMain
  PROVE  [Closure!ClosureStep]_(Closure!closureVars)
<1>1. UNCHANGED <<file, libs>> /\ LoadedSet' = LoadedSet
  BY DEF SkipNeeded, ReturnToCaller, ReturnToMain, LoadedSet, Claimed
<1>2. CASE SkipNeeded \/ ReturnToCaller
  BY <1>1, <1>2 DEF SkipNeeded, ReturnToCaller, Phase, Closure!closureVars
<1>3. CASE ReturnToMain
  <2>1. Phase = "loading" /\ Phase' = "returned" /\ status' = "returned"
    BY <1>3 DEF ReturnToMain, InLoop, Phase
  <2>2. \A s \in Slots : \A j \in 1 .. Len(libs[s].depends) : Present(libs[s].depends[j])
    <3>1. stack' = <<>>
      BY <1>3 DEF ReturnToMain
    <3>2. \A s \in Slots : \A j \in 1 .. Len(libs'[s].depends) : Present(libs[s].depends[j])'
      BY <3>1 DEF LibInv, ClosedOrActive
    <3> QED
      BY <1>1, <3>2 DEF Present, Claimed
  <2>3. \A d \in Closure!Wanted : Closure!Has(Basename[d])
    BY <2>2, WantedIsNeeded, PresentIsHas DEF LibInv
  <2> QED
    BY <1>1, <2>1, <2>3 DEF Closure!ClosureStep, Closure!Return
<1> QED
  BY <1>2, <1>3

(* The table and its recursion implement the abstract closure: each claim  *)
(* is a load of something wanted and absent, and the call returns only     *)
(* when nothing wanted is absent.                                          *)
THEOREM ImplementsClosureSafety == LibSpec => Closure!Safety
<1>1. LibStart => Closure!Start
  <2> SUFFICES ASSUME LibStart PROVE Closure!Start
    OBVIOUS
  <2>1. LoadedSet = {}
    BY DEF LibStart, LoadedSet, Claimed, EmptySlot
  <2> QED
    BY <2>1 DEF LibStart, Closure!Start, Phase
<1>2. LibInv /\ LibInv' /\ [LibStep]_libVars => [Closure!ClosureStep]_(Closure!closureVars)
  <2> SUFFICES ASSUME LibInv, LibInv', [LibStep]_libVars
               PROVE  [Closure!ClosureStep]_(Closure!closureVars)
    OBVIOUS
  <2>1. CASE UNCHANGED libVars
    BY <2>1 DEF libVars, Closure!closureVars, LoadedSet, Phase, Claimed
  <2>2. CASE LibStep
    BY <2>2, StepCases, CallIsLoad, LoopIsStep DEF LibInv
  <2> QED
    BY <2>1, <2>2
<1> QED
  BY <1>1, <1>2, LibInvariant, PTL DEF LibSpec, Closure!Safety
==============================================================================
