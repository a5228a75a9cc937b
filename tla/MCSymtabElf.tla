----------------------------- MODULE MCSymtabElf -----------------------------
(***************************************************************************)
(* Small instances of SymtabElf: files with one symbol of any name, files  *)
(* with any .dynamic of up to three entries, and files whose sections are  *)
(* missing, there twice, unnamed or of an odd entry size. depends has room *)
(* for two libraries.                                                      *)
(***************************************************************************)
EXTENDS SymtabElf, TLC

UpTo(n, S) == UNION {[1 .. k -> S] : k \in 0 .. n}

MCPrefix == {"typeinfo", "vtable"}
Bodies == UpTo(7, {">", " "}) \cup UpTo(4, {">", " ", "x"})
Texts == Bodies \cup {<<c>> \o b : c \in MCPrefix, b \in UpTo(3, {">", " "})}

(* What libiberty knows is marked with a character in front; the rest it   *)
(* does not demangle.                                                      *)
Marked == {<<"_Z">> \o text : text \in Texts}
Plain == {DotSymtab, DotDynstr, DotDynamic, <<"other">>, <<"lib1">>, <<"lib2">>,
          <<"vtable", "x">>, <<>>}
MCMangled == Marked \cup Plain
MCCplusDemangle ==
  [name \in MCMangled |-> IF name \in Marked THEN Tail(name) ELSE None]
MCChar == {">", " ", "x", "_Z", "symtab", "dynstr", "dynamic", "other", "lib1", "lib2"} \cup MCPrefix

(* Sections, named by an offset into section 1. *)
Section(type, name) ==
  [sh_type |-> type, sh_name |-> name, sh_link |-> 0, sh_size |-> 0, sh_entsize |-> 0,
   strings |-> <<>>, dyns |-> <<>>, syms |-> <<>>]
Strtab(name, strings) == [Section("SHT_STRTAB", name) EXCEPT !.strings = strings]
Dynamic(name, dyns) == [Section("SHT_DYNAMIC", name) EXCEPT !.dyns = dyns]
Symtab(name, syms, entsize) ==
  [Section("SHT_SYMTAB", name) EXCEPT
     !.syms = syms, !.sh_link = 2, !.sh_size = 16 * Len(syms), !.sh_entsize = entsize]

Names == Strtab(4, (1 :> DotSymtab) @@ (2 :> DotDynstr) @@ (3 :> DotDynamic)
                     @@ (4 :> <<"other">>))
SymStrings(name) == Strtab(4, (0 :> <<>>) @@ (1 :> name))
Dynstr == Strtab(2, (0 :> <<>>) @@ (1 :> <<"lib1">>) @@ (2 :> <<"lib2">>))

D(tag, val) == [d_tag |-> tag, d_val |-> val]
Null == D("DT_NULL", 0)
Entries ==
  {Null, D("other", 9), D("DT_NEEDED", 1), D("DT_NEEDED", 2), D("DT_NEEDED", 9)}
S(name, value) == [st_name |-> name, st_value |-> value, st_size |-> 4]

FileOf(sections, dyn) ==
  [e_shstrndx |-> 1, sections |-> sections, stale_dyn |-> dyn, stale_sym |-> S(1, 7)]
Plainly(syms, strtabs, dynamics) ==
  FileOf(<<Names, SymStrings(<<"_Z", ">", " ", ">">>)>> \o strtabs \o dynamics \o syms, Null)

OneSym == <<Symtab(1, <<S(0, 0), S(1, 8)>>, 16)>>
SoundDyn == <<Dynamic(3, <<D("DT_NEEDED", 2), Null>>)>>

NameFiles ==
  {FileOf(<<Names, SymStrings(name), Dynstr>> \o SoundDyn \o OneSym, Null) :
     name \in MCMangled}
DynFiles ==
  {FileOf(<<Names, SymStrings(<<>>), Dynstr, Dynamic(3, dyns)>>, stale) :
     dyns \in UpTo(3, Entries), stale \in {Null, D("other", 9), D("DT_NEEDED", 1)}}
SymtabChoices ==
  {<<>>, OneSym, OneSym \o <<Symtab(4, <<>>, 16)>>, OneSym \o <<Symtab(1, <<S(1, 2)>>, 16)>>,
   <<Symtab(9, <<>>, 16)>>} \cup
  {<<Symtab(1, <<S(1, 8), S(bad, 9)>>, entsize)>> : bad \in {0, 9}, entsize \in {0, 8, 32}}
StrtabChoices ==
  {<<>>, <<Dynstr>>, <<Dynstr, Strtab(2, <<>>)>>, <<Dynstr, Strtab(9, <<>>)>>}
DynamicChoices ==
  {<<>>, SoundDyn, SoundDyn \o <<Dynamic(4, <<>>)>>, SoundDyn \o SoundDyn,
   <<Dynamic(9, <<>>)>>}
SectionFiles ==
  {Plainly(syms, strtabs, dynamics) :
     syms \in SymtabChoices, strtabs \in StrtabChoices, dynamics \in DynamicChoices}

MCElfFile == NameFiles \cup DynFiles \cup SectionFiles
==============================================================================
