# Verification of classgraph

classgraph prints the class hierarchy of a shared library: it loads the library
and everything it needs, collects the C++ typeinfo symbols of all of them, and
prints for each class of the library the tree of its bases. It reads 32-bit ELF
objects, whose typeinfo it examines in its own memory after `dlopen`, and i386
Mach-O images, which it examines in the mapped file.

This directory holds TLA+ models of that program, TLC runs that check them on
small instances, and proofs, checked by TLAPS, for all instances. The models are
translated from the source; the repository has no tests and no documents besides
its comments and the documentation in the Mach-O headers under `src/osx`.

## The system

The program is one process with one thread. Nothing interleaves; what is hard is
in the recursion, in tables shared by all parts and keyed in different ways, in
limits, in 32-bit arithmetic on numbers that come from files, and in assertions
that must hold for every well-formed file.

| part | state | operations | correct when |
|---|---|---|---|
| library table (`library.c`) | `libs[256]`, in each slot name, path, base address, `depends` | `lib_init` (recursive), `lib_find`, `lib_first`, `lib_next` | one slot per library, everything reachable and nothing else, no hole, ends on cycles |
| symbol table dispatch (`symtab.c`) | none | `symtab_init`, `symtab_foreach`, `symtab_addr_abs` | visits every library, finds the library an address belongs to |
| ELF (`symtab_elf.c`) | section and symbol data and `depends` in the slot | `symtab_elf_init`, `symtab_elf_find_section`, `symtab_elf_foreach` | refuses no sound file, lists `DT_NEEDED` in full, gives every symbol to the callback |
| Mach-O (`symtab_macho.c`) | VM ranges, table offsets, bind table in the slot | `symtab_macho_init`, `_foreach`, `_find_reloc_sym_for_addr`, `_get_ptr` | ranges unambiguous and complete, positions in the file, relocations found as dyld would apply them |
| bind decoder (`otool/dyld_bind_info.c`) | a dozen locals over two passes | `get_dyld_bind_info` | second pass fills what the first counted, the table is what the opcodes mean |
| class graph (`main.cc`) | `syms`, `symcache`, the recursion | `main`, `recurse_typeinfo`, `symtab_lookup_addr` | every class of the primary once, below it its own bases |
| demangling (`demangle.c`) | a buffer, for a call | `try_demangle`, `try_demangle_noprefix`, `fixup_templates` | `> >` becomes `>>`, within the buffer |

They interact by calls: `main` calls `lib_init`, which calls `symtab_init` of the
format and itself for each dependency; then `symtab_foreach`, which demangles
each name, with a callback of `main` that fills `syms` and `symcache`; then
`recurse_typeinfo`, which looks base addresses up through `symtab_addr_abs`, and for Mach-O asks `symtab_macho_get_ptr`
and `symtab_macho_find_reloc_sym_for_addr`. The hazards of each part are listed,
with their lines and the properties aimed at them, in `PROJECT.json`.

## The modules

| module | models | built on |
|---|---|---|
| `Library` | the table and the recursion of `lib_init` | |
| `DependencyClosure` | what `lib_init` promises, as a set that grows along dependencies | |
| `LibraryRefinement` | the mapping that makes `Library` implement `DependencyClosure` | `Library`, `DependencyClosure` |
| `Classgraph` | `main`, `recurse_typeinfo`, `symtab.c` | `Library` |
| `MachOLoad` | `symtab_macho_init` up to the bind information, `symtab_macho_get_ptr` | |
| `DyldBind` | `get_dyld_bind_info` | |
| `BindProgram` | no code: programs of bind opcodes, how they are assembled and what they mean in unbounded numbers, the reference for the decoder | `DyldBind` |
| `MachOSymbols` | `symtab_macho_foreach`, the search for relocations, the kind of a Mach-O typeinfo object | |
| `Demangle` | `try_demangle_noprefix` and the loop of `fixup_templates` | |
| `SymtabElf` | `symtab_elf_init`, `symtab_elf_foreach` | `Demangle` |
| `MCLibrary`, `MCClassgraph`, `MCMachOLoad`, `MCDyldBind`, `MCMachOSymbols`, `MCSymtabElf` | instances for TLC | the module they are named for |
| `Counting` | no code: lemmas about numbers, counting and growing sequences that the proofs share | |
| `LibraryProofs` | proofs, with those of the refinement | `LibraryRefinement` |
| `MachOLoadProofs`, `MachOSymbolsProofs`, `DemangleProofs` | proofs | the module they are named for |
| `DyldBindProofs` | proofs | `BindProgram` |
| `ClassgraphProofs` | proofs | `Classgraph`, `LibraryProofs` |
| `SymtabElfProofs` | proofs | `SymtabElf`, `DemangleProofs` |

### Library

`libs` is the C table. A slot whose name is `NoName` was never claimed. `stack`
is the C call stack: one frame per active `lib_init`, with its slot and the
index its dependency loop stands at. An action is a call of `lib_init` up to the
loop (`LoadPrimary`, `LoadNeeded`), a dependency found (`SkipNeeded`), or a
return. The call has four outcomes, all kept: the table is full (the assertion
fails), something goes wrong after the slot was claimed (the process ends),
`dlinfo` fails (the call returns to its caller with a library that has neither
symbols nor dependencies), or all goes well. `Basename` and `Fold` stand for
`basename` and for the case folding of `strcasecmp`; the comparison is kept as
the code has it, a `DT_NEEDED` string against a stored base name. The file
system is a function chosen at the start; the file mapped and the object
`dlopen` finds are taken to be the same.

### Classgraph

Loading is `Library`'s next step. `cursor` is the position of `symtab_foreach`;
`VisitSymbol` is one call of `main`'s callback, with both the `insert` into
`syms`, which keeps what is there, and the assignment to `symcache`, which does
not. `calls` is the recursion of `recurse_typeinfo`; a call prints its line and
then goes through its bases one step at a time. `symcache` is keyed by relative
address as in the code, and asked first for the absolute one for classes with
several bases. The objects in memory are an input, `rtti`. For a Mach-O library
an object may be outside the mapped ranges, which ends the program. A call writes
four characters a level and the NUL into `indent`, of `IndentSize` characters; one
that has no room for them (`Indents`) writes past its end, and the model stops
there, as `overrun`.

### MachOLoad

One action per iteration of the loops: a `fat_arch` entry, a load command, a
section. All sums go through `Plus`, which wraps at `Word`. The fields of
`macho_vmrange_t` keep their names. `GetPtr` is a call of
`symtab_macho_get_ptr` with any address and size of a given set; its answer, a
file position, is kept in `got`. What the ignored load commands and the symbol
tables contain is opaque.

### DyldBind

One action per opcode, over real byte strings: the operand readers, their
reaction to a cut stream and to numbers that do not fit, and the widths of the
C types are modelled. `BeginSecondPass` sets every register again, as
lines 240-252 do. The parameters are those of the one call in the repository:
32-bit segments, no dylib names.

`read_sleb128` shifts by as much as its operand has slices, and C leaves a shift by
the word's width or more undefined. `ReadSleb` therefore gives a set of values,
and `SetAddendSleb` takes any of them: where only the sign is shifted too far, as
in a negative number of ten bytes, those that the usual instructions make of it;
where a slice is, any word.

`BindProgram` is what a linker means by the bytes: offsets that never wrap, addends
with their sign, a skip that is the number written. It shares no reader and no
arithmetic with the decoder. Where the 32-bit `skip` and the 64-bit offset of the
code do not go together, that shows as a difference, and `Told` says how much is
promised: all 64 bits of an address in a program without a skip that goes back,
the lower 32 in others (`Span`), and an addend unless its sign extension is
undefined (`SignExtends`).

### MachOSymbols

The loaded image is an input. `ListSymbol` is one iteration of
`symtab_macho_foreach`; `AskAbout` begins a call of
`symtab_macho_find_reloc_sym_for_addr` for a typeinfo symbol that was listed;
`TryReloc` and `TryBind` are the iterations of its two loops. The answer carries
the kind that `recurse_typeinfo` makes of the symbol's name.

### SymtabElf and Demangle

`symtab_elf_init` is the walk through `status`: one action for each section that
is looked for, then `ReadDyn`, one iteration of the loop over `.dynamic`.
`symtab_elf_foreach` is `GetSymbol` and `GiveSymbol` for each symbol, with the
call of `try_demangle_noprefix` between them (`DemangleOn`). Every way to stop is
kept apart: an assertion or an error (`aborted`), a null pointer used or a
division by zero (`crashed`), a store behind `depends` or behind the demangler's
buffer (`overrun`); the model goes no further there.

The section found is the last one of the type and the name, the count says how
many there are, and what happens to a count other than 1 depends on the section
and on whether the file is the primary. libelf is what it hands out:
`elf_strptr` gives a string or nothing, `gelf_getdyn` and `gelf_getsym` leave
their argument as it is past the end of a table, so that the code goes on with
the entry it read before. Before the first entry that is what the stack held,
which is any entry: `stale_dyn`, `stale_sym`. Once `i` is past the entries its
exact value no longer matters, and `PastEnd` keeps it there.

A text is a sequence of characters, and what matters about them is which are `>`
and a space. A prefix counts as one character, and a name in which nothing
matters (`.symtab`) as a text of one character. `cplus_demangle` answers with any
text, or with none. `CopyChar` is one iteration of the loop of
`fixup_templates`, over its buffer of `strlen(str_in)` bytes, with the step back
of `p_out` where the input closes again.

## The runs

Each is `tlc -config <run>.cfg <module>`. Deadlock is not checked: the program
ends.

| run | shows |
|---|---|
| `library_graphs` | every dependency graph over three names, up to two entries a file, four slots: the table is well-formed throughout (`LibTypeOK`), closed at the return (`ClosedAtReturn`), without holes for `lib_next` (`IterationSeesAll`), large enough (`TableSuffices`). `LibInv` is the inductive invariant of the proofs. |
| `library_names` | names that differ in case or hold a directory, three slots: `OneSlotPerDependency`, `ReachesOnly`, `LibTerminates`, and `ImplementsClosure`, the refinement with its liveness |
| `library_slots` | violation, see below |
| `classgraph` | two libraries, either first in need of the other or not, symbols that clash in name or in relative address, chains, diamonds, missing bases, imports in front of definitions, two classes of one name, a filter, a hierarchy too deep for `indent`: `PrimaryWins`, `LookupSound`, `NestingBounded`, `WarnsOnlyWithCause`; `EveryPrimaryClassPrinted` says which symbols head the trees: for each demangled name of the primary the first in its table, none where that is an import; `PrintsHierarchy` holds the whole output against the objects in memory: below each class line are exactly its bases; `GraphTerminates` |
| `classgraph_warning` | violation, see below |
| `macho_load` | thin and universal files, segments in every order, sections that touch, overlap, are empty, wrap, or end past their segment: `OneRangePerAddress`, `RangesMatchCommands`, `EverySectionLoaded`, `AnswerInFile`, `ContentReadable`, and that no assertion stops a well-formed file (`LegalFileLoads`). `LoadInv` is the inductive invariant of the proofs. |
| `macho_zerofill`, `macho_fat` | violations, see below |
| `dyld_bind` | all programs of three opcodes out of fifteen and of four out of five, whole or cut, operands at the ends of every width, and numbers that are too big: `StaysInTable`, `ReturnsWholeTable`, and `DecodesProgram`, which compares the table with the meaning that `BindProgram` gives the program before it is encoded |
| `macho_symbols` | symbol tables, up to two relocations and two binds in every order: `GivesLocalSymbols`, `KindIsWhatDyldStores`, `SoundImageAnswered` |
| `macho_reloc_base` | violation, see below |
| `symtab_elf` | files with sections missing, doubled, unnamed or of odd entry sizes, any `.dynamic` of three entries, symbols with every short name: nothing is written behind the demangler's buffer (`WritesInBuffer`), every `> >` is rewritten, and nothing else (`RewritesEveryClosing`), `depends` is `DT_NEEDED` up to `DT_NULL` (`DependsAreNeeded`), the callback is given each symbol once (`SymbolsGiven`), only a stripped primary or more dependencies than `depends` has room for stop the program at a sound file (`SoundFileLoads`), and both loops end (`ElfTerminates`) |

### What the violations show

- `library_slots`: a `DT_NEEDED` string with a slash is compared with base names
  and never found again. On a cycle through such an entry `lib_init` claims slot
  after slot until `assert(lib != NULL)` (`library.c:25`) fails.
- `classgraph_warning`: `symcache` is keyed by the address within a library, so
  two libraries' symbols overwrite each other, and a base whose symbol was there
  is reported as not found (`main.cc:126`, `192`).
- `macho_zerofill`: a thread-local zero-fill section counts as mapped, and its
  meaningless file offset fails an assertion (`symtab_macho.c:212`, `220`).
- `macho_fat`: `nfat_arch` is compared without swapping its bytes; without an
  i386 image the loop leaves its table (`symtab_macho.c:67`).
- `macho_reloc_base`: `r_address` is an offset from the first segment
  (`loader.h:979`), the code compares it with an address (`symtab_macho.c:571`).

### Bounds

- Three or four names give every shape the walk tells apart: self-loops, cycles
  of two and three, diamonds, a dependency on the primary, a name met again at
  another depth. Three to six slots stand for 256, so that the table does fill
  up. The proofs remove both bounds.
- Two libraries are enough for two symbols to clash; four objects give a chain of
  depth four and a diamond; up to two bases make the order of bases matter.
  `IndentSize` is 16 instead of 1024, so that the fifth level is past the end.
- Words of 10 bits hold segments, images and sums that wrap; the limits of ranges
  and segments are 3 and 2 and are both exceeded by some of the files.
- A 64-bit word has 16 bits and a 32-bit word 9 in `dyld_bind`, so that a number
  is one, two or three slices of 7 bits and its last slice is cut. Negative addends
  of three slices are there, for which the sign extension is undefined, a sleb128
  of four, and a skip that goes back.
- In `macho_symbols` two entries of each table suffice for one to be met before
  another, and six symbol tables put each kind of symbol before and behind the
  ones looked for.

- In `symtab_elf` a name has up to seven characters `>` and space, which gives cases
  that share a bracket three times over, and up to four with another character
  among them. Three entries put `DT_NULL` first, last, between and nowhere;
  `depends` has room for two.

### Fairness

`LibSpec`, `Classgraph!Spec` and `SymtabElf!Spec` assume weak fairness of the whole
next step: a sequential program that can go on does. It is not enough for every
file, and `ElfTerminates` says so: a `.dynamic` without `DT_NULL` may be walked
forever, or until `depends` is full. `MachOLoad`, `DyldBind` and
`MachOSymbols` state safety only; their loops move an index each step.

## The proofs

`tlapm <module>.tla` checks each module. They assume only the named assumptions
on the constants:

- `Library`, `Classgraph`: at least one slot; finitely many names; `Basename`
  idempotent and compatible with `Fold`; typeinfo objects of the shape the five
  kinds have; `DepthAssumption`, a number for each object that falls from a class
  to its bases, which is that no class inherits from itself; an `IndentSize` that has
  room for the NUL.
- `MachOLoad`, `MachOSymbols`: fields that are words; `None` is no name.
- `DyldBind`: `Bits32` smaller than `Bits64`, bytes that are bytes, `None` neither
  a number nor an entry, and `PowerAssumption`: powers of two up to `Bits64 + 6`
  are positive and multiply, and `2 ^ 6` and `2 ^ 7` have their values. The
  provers have no theory of exponentiation; TLC evaluates the assumption for the
  run's widths. `BindProgram` adds that an input that says which program it is
  from holds that program's code (`ProgramsAssumption`).
- `Demangle`, `SymtabElf`: `>`, the space and the NUL are different characters,
  and no prefix is one of the first two.

`LibraryProofs` proves for every file system, set of names and table size what
the library runs check: `LibTypeCorrect`, `IterationTheorem`, `ClosureTheorem`,
`OneSlotTheorem`, `ReachesOnlyTheorem`, `TableSufficesTheorem`. None of these is
inductive by itself. The invariant is `LibInv`, and its parts need each other:

- `TableShape`: the claimed slots are a prefix, and exactly the first is the
  primary's. Without it, `lib_next` could stop early and a new claim could be
  anywhere.
- `ClosedOrActive`: a library has all its dependencies present or is on the
  stack, and a frame has those it went past; a frame that is not innermost also
  has the one it stands at, because that call claimed its slot before anything
  else. At the last return nothing is on the stack, which is `ClosedAtReturn`.
- `OneSlotPerDependency`: a slot is claimed only for a name that `lib_find` did
  not find; with bare names that is the name stored.
- `FullMeansMissing`: when the table is full, the name that found no slot is
  in none. The slots other than the primary's then hold pairwise different
  names, and one more exists, which is `TableSuffices` by counting.

It also proves that the initial states and steps of `Library`
map to those of `DependencyClosure` or to stutters: a claim is a load of a wanted,
absent library, the last return happens when nothing wanted is absent. The
liveness of the abstract specification is checked by TLC only.

`ClassgraphProofs` proves, on top of `LibInv`, all that `classgraph` checks of
single states. The invariant is `GraphInv`:

- `CollectInv`, what the callbacks leave: `Collected` says that `syms` and `symcache`
  hold seen symbols only, and `TypeOK` each under its own name and its own relative
  address; every seen one has an entry in both, if not itself then one that took
  its place. `PrimaryWins` is kept by the order of `symtab_foreach`, which visits
  the primary first, because `LibInv` has it in the first slot and nowhere else.
- `Framed` and `LookupSound`: a call is about a symbol seen, and it is at the base
  its caller stands at. A hit in `symcache` under a relative address gives that by
  itself. A class with several bases is looked up by the absolute address first, and
  for it relative and absolute addresses must not be confused: `AddressLayout` says
  that no pointer to a base is a relative address of a library that is mapped above
  0.
- `NestingBounded` follows from `LookupSound`: each call is about a base of the one
  before, so that its `Depth` is smaller. A call past the end of `indent` thus shows
  a hierarchy too deep for it.
- `FirstsHold`: a name that the primary has in `syms` belongs to the first symbol of
  that name in its table, and `Headed`: one still to be printed heads no line, one
  already printed heads exactly one. At the end the heads are the `Roots`; that they
  come in the order of names is `Rooted` and `Before` of the next invariant. Together
  they are `EveryPrimaryClassPrinted`.

`PrintsHierarchy` speaks of the finished output only, and needs an invariant of its
own, `Outlined`. While `main` prints, the lines are an outline (`Outline`): each
call of the recursion has its line in the output, nothing went back to its level
since (`OpenLine`), and the bases it has come by are listed below that line; a
class line that belongs to no call lists all its bases. A call that goes on to its
next base adds one to such a list and disturbs none further out, because all that
is printed until it is back is indented deeper; what is listed below a line is
told by the lines with one level more up to the next that has not, so that this
has to be shown of lines that others were appended to. With no call left, every
class line lists all its bases. `NoStrayLine` says that no line skips a level. A
base is listed by any line that tells of it (`Tells`): its own class line, or a
warning that is justified; what has address 0 is listed by none (`Imported`). Both
speak of libraries under `AddressLayout`, as the property does; names may clash
as they like, and imports and weak copies are among the symbols.

`MachOLoadProofs` proves, for every word size, every size of the two tables and
every set of files and questions, all that `macho_load` checks.
The invariant is `LoadInv`:

- `Placed`: nothing is stored before the commands are read, and the loop over
  sections is in a segment whose own assertion held.
- `RangesAccepted`: a range is of a section that passed its assertions. A range of
  the segment the loop is in has `segment_idx` equal to `nsegs`, which is right
  only because that segment is appended next and because the loop is in no
  segment at any other command.
- `RangesApart`, which the overlap assertion keeps pairwise. It gives
  `OneRangePerAddress`, and with it the first range found is the only one, so
  that the answer does not depend on the order of the file (`ContentReadable`).
- `PastLoaded` and `SegsOrdered`: every segment passed is in `segs`, in order, with
  all its sections; at the end of the commands that is `EverySectionLoaded`.
- `AnswerFromRange`: the last answer was computed from a range of the table. A
  range that holds an address does not wrap, so the assertions on the segment,
  the section and the answer add up to `AnswerInFile`.

`LegalFilesLoad` is about every assertion at once, with `LegalInv`. A well-formed
file meets each comparison because its sums do not wrap. For the room in the two
tables something has to be counted: `NumberedOnce` says that two ranges differ in
segment or section, `SegsOrdered` gives that numbers of segments are numbers of
commands, so ranges are as many as different located sections, which
`FewEnough` bounds.

`DyldBindProofs` proves that the second pass does what the first one counted, for
every sequence of bytes, well-formed or not, and all word sizes. The two passes
share no state but `ndbi`, so the invariant `PassesInv` has to say that what a pass
does to its position depends on the bytes alone. A place is a position with the
entries so far; the next place is a function of it, `After`. `Track` is a set of
places that begins at the first and is closed under `After` up to the current
one. In the second pass there is a track that ended with `ndbi` entries, made by
the first, and the pass is at a place of it. As entries only become more along a
track, it stays in the table (`TableIsLargeEnough`) and is at `ndbi` at its end
(`TableIsFilled`). `BindTypeCorrect` contains that the slices an operand is joined
from fit its word.

`ProgramsDecoded` says more of inputs that are the code of a program: for any
number of instructions, operands and widths, the table is what the program means,
to the extent that `Told` says. The program's own numbers have no width;
what is restricted is what the code reads into an `int` or 32 bits, an ordinal and a
count. The invariant `ReadsInv` has the decoder, at every moment of a pass, where the
code of the first `k` instructions ends (`Reads`). Its registers then match what
those instructions set (`Matches`), a symbol name being a position in the code where
the program has the string, the offset agreeing modulo `Span` of the program; `n` is
the number of binds so far, and in the second pass the first `n` entries tell them
(`Tells`). A word of the code is made of whole spans, so that neither its wrapping
nor, in the narrow span, that of the skip is seen (`SpanSame`, `SameStride`).
A step takes `k` to `k + 1`, and that rests
on lemmas about reading what was written: a number cut into groups of 7 bits is
joined to the same number (`GroupsJoined`, `UlebRead`, and for the sign `SlebRead`),
the reader stops where the operand ends (`UlebLength`, `SlebLength`, `StringRead`),
the code of an instruction stands where the code of those before it ends
(`InstructionStands`). `CodeOf` and `RunOf` are defined by recursion over the
program; the lemmas `CodeIs` and `RunIs` show that the functions exist, by
induction on the least length at which they would not. The second pass starts
again with no instruction read, which is why the registers must be set again.

`MachOSymbolsProofs` proves for every image what the search for relocations answers:
`Searched` says that the entries passed over do not match, so that the first match
is the place's only write when there is one write to a place (`KindCorrect`), and
that an assertion fails only at an image that is not sound (`StopsOnlyAtUnsound`).
`LocalSymbolsGiven` is about the listing before it: for a symbol table of any length
the callback has been given, in order and with their addresses, the local symbols
in front of the index, each once.

`DemangleProofs` shows for texts of any length that the output is behind the input
by exactly the cases of `> >` read so far (`Copying`), also where two cases share a
bracket. As the copy starts only if there is a case, it is at least one behind
when it writes the NUL, and the buffer without room for it suffices.
`SymtabElfProofs` takes that through `symtab_elf_foreach`. `ElfInv` holds, besides what
the run checks: `Searched`, the sections found so far; `Walked`, that `depends`
lists the needed entries in front of `i` and that the walk did not pass `DT_NULL`;
`Listed` and `Answered`, that the callback was given the symbols in front of `i`,
and that the name being copied is that of the symbol at `i`.

Every invariant of the passing runs is thereby a theorem. What is checked by TLC
only is what needs fairness, which the prover cannot handle: that the programs end
(`LibTerminates`, `GraphTerminates`, `ElfTerminates`) and the liveness part of the
refinement (`ImplementsClosure`). The violations are counterexamples and have
nothing to prove.

## Not modelled

- `print_dyld_bind_info` and `get_dyld_bind_info_symbolname`, which nothing calls;
  formatting, colours, flags and offsets of bases, debug output.
- `cplus_demangle`, libelf and the dynamic linker themselves. The path that `open`
  finds and the object that `dlopen` finds are taken to be the same file.
- The size of an allocation cut to 32 bits and the order in which a compiler
  evaluates the initializers at `symtab_elf.c:86`. They are listed as hazards without
  a property. So are three inputs at which the code stops or goes wrong: a bind without a name
  (`symtab_macho.c:600`), a name that libelf cannot give (`symtab_elf.c:16`), and an
  entry size of a symbol table that is not that of `Elf32_Sym` (`symtab_elf.c:49`):
  the models have them, the properties are about files without them.
- What the program does after a write past the end of an array.
- The vendored Mach-O headers are declarations; the models name the ones they
  translate.

## Plan

Done: the library table with its abstract specification; the class graph on top
of it; Mach-O loading; the bind decoder; Mach-O symbols and relocations; ELF
sections and symbols; demangling; proofs for all of them.

Left is `MachOTypeinfo`: `MachOLoad`, `DyldBind` and `MachOSymbols` composed on one
file, so that bind addresses come from the segments that were loaded, the last
`LC_SYMTAB` wins, and a typeinfo object is read where `symtab_macho_get_ptr` says;
its property: the kind and the bases printed are those dyld would make. Until then
each of the three takes what the others hand it as any value of the right type,
which includes what they do hand it.
