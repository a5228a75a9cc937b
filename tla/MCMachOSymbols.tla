--------------------------- MODULE MCMachOSymbols ---------------------------
(***************************************************************************)
(* Small instances of MachOSymbols: two typeinfo objects at 8 and 12, the  *)
(* vtables of two classes of typeinfo objects imported, in any order, and  *)
(* up to two relocations, binds or both.                                   *)
(***************************************************************************)
EXTENDS MachOSymbols

MCUnprefixed ==
  [name \in SymName |-> CASE name = "__ZTI1A" -> "_ZTI1A"
                          [] name = "__ZTVsi" -> "_ZTVsi"
                          [] OTHER -> name]
MCVtableKind == [name \in {"_ZTVsi", "_ZTVvmi"} |-> IF name = "_ZTVsi" THEN "si" ELSE "vmi"]

Sym(name, stab, ext, type, value) ==
  [name |-> name, stab |-> stab, ext |-> ext, type |-> type, value |-> value]
A      == Sym("__ZTI1A", FALSE, FALSE, "sect", 8)
B      == Sym("_ZTI1B", FALSE, FALSE, "abs", 12)
Si     == Sym("__ZTVsi", FALSE, TRUE, "undf", 0)
Vmi    == Sym("_ZTVvmi", FALSE, TRUE, "pbud", 4)
Debug  == Sym("__ZTI1A", TRUE, FALSE, "sect", 8)
Import == Sym("_ZTI1B", FALSE, FALSE, "undf", 4)
Alias  == Sym("_ZTI1B", FALSE, TRUE, "indr", 4)
Local  == Sym("_ZTI1B", FALSE, FALSE, "indr", 4)
Odd    == Sym("", FALSE, FALSE, "other", 4)

Tables ==
  {<<A, Si, B, Vmi>>, <<Vmi, Debug, A, Si>>, <<Si, A, Import>>, <<Alias, Si, A>>,
   <<A, Local>>, <<A, B, Odd>>}

Reloc(address, num, extern, type, length) ==
  [r_address |-> address, r_symbolnum |-> num, r_extern |-> extern,
   r_type |-> type, r_length |-> length]
RelocList ==
  {Reloc(8, 0, 1, 0, 2), Reloc(8, 3, 1, 0, 2), Reloc(12, 1, 1, 0, 2), Reloc(8, 1, 0, 0, 2),
   Reloc(8, 1, 1, 4, 2), Reloc(12, 1, 1, 0, 1)}

(* The second has an addend that takes it past the word. *)
BindList ==
  {[address |-> 8, addend |-> 0, symbolname |-> "__ZTVsi"],
   [address |-> 12, addend |-> 60, symbolname |-> "_ZTVvmi"],
   [address |-> 76, addend |-> 0, symbolname |-> "_ZTVvmi"],
   [address |-> 8, addend |-> 4, symbolname |-> None]}

UpTo(n, S) == UNION {[1 .. k -> S] : k \in 0 .. n}

Images(bases) ==
  {[nlists |-> t, ext_relocs |-> r, has_dyld_info |-> b # <<>>, dbi |-> b,
    first_vmaddr |-> base] :
     t \in Tables, r \in UpTo(2, RelocList), b \in UpTo(2, BindList), base \in bases}
MCImage == Images({0})
MCAllImage == Images({0, 4})
==============================================================================
