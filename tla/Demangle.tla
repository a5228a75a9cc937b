------------------------------- MODULE Demangle -------------------------------
(***************************************************************************)
(* try_demangle_noprefix (demangle.c): a symbol's name is demangled, "> >" *)
(* becomes ">>" in a second buffer, and what kind of symbol it is, is cut  *)
(* off the front. SymtabElf calls this for every symbol.                   *)
(*                                                                         *)
(* A text is a sequence of characters; "typeinfo for " and "vtable for ",  *)
(* which hold no ">" and are looked for as a whole, count as one character *)
(* each. Offsets into buffers are those of the code, from 0.               *)
(***************************************************************************)
EXTENDS Integers, Sequences, FiniteSets

CONSTANTS
  Char,           \* characters of names, ">" and " " among them
  Prefix,         \* "typeinfo for " and "vtable for "
  Mangled,        \* strings of symbol tables
  CplusDemangle,  \* what libiberty makes of each: a text, or None
  NUL,            \* the character that ends a C string
  Junk,           \* what malloc leaves in a buffer
  None

Text == Seq(Char)

ASSUME CharAssumption ==
  {">", " "} \subseteq Char \ Prefix /\ Prefix \subseteq Char /\ {NUL, Junk} \cap Char = {}
ASSUME MangledAssumption == Mangled \subseteq Text
ASSUME CplusDemangleAssumption == CplusDemangle \in [Mangled -> Text \cup {None}]
ASSUME NoneAssumption == None \notin Text

VARIABLES
  job,        \* of the call: "none", "copying", "done", or "overrun"
  demangled,  \* what try_demangle returns
  str_in,     \* the locals of fixup_templates, from here on
  str_out,    \* the buffer, by offset
  p_out,      \* the offset p_out stands at
  pos         \* its loop index i

demVars == <<job, demangled, str_in, str_out, p_out, pos>>

------------------------------------------------------------------------------
(* C strings. *)

At(text, offset) == IF offset = Len(text) THEN NUL ELSE text[offset + 1]

(* offset is that of the last of the characters "> >". *)
ClosesAgain(text, offset) ==
  /\ offset >= 2
  /\ At(text, offset) = ">"
  /\ At(text, offset - 1) = " "
  /\ At(text, offset - 2) = ">"

(* strstr(text, "> >") finds something. *)
HasGap(text) == \E offset \in 0 .. Len(text) - 1 : ClosesAgain(text, offset)

(* The text a buffer holds up to its first NUL. *)
CString(buffer) ==
  LET ends == {offset \in DOMAIN buffer : buffer[offset] = NUL}
      Ends(offset) == offset \in ends /\ \A other \in ends : offset <= other
  IN  IF ends = {} THEN <<Junk>>
      ELSE [k \in 1 .. (CHOOSE offset \in ends : Ends(offset)) |-> buffer[k - 1]]

(* The end of try_demangle_noprefix. *)
WithoutPrefix(text) ==
  IF text # <<>> /\ Head(text) \in Prefix THEN Tail(text) ELSE text

------------------------------------------------------------------------------
(* A call, in steps of the loop of fixup_templates. *)

DemangleInit ==
  /\ job = "none"
  /\ demangled = None
  /\ str_in = <<>>
  /\ str_out = <<>>
  /\ p_out = 0
  /\ pos = 0

(* As far as the allocation, which has no room for the NUL of str_in.      *)
TryDemangle(mangled) ==
  LET text == CplusDemangle[mangled]
  IN  \/ /\ text = None
         /\ demangled' = mangled
         /\ job' = "done"
         /\ UNCHANGED <<str_in, str_out, p_out, pos>>
      \/ /\ text # None /\ ~HasGap(text)
         /\ demangled' = text
         /\ job' = "done"
         /\ UNCHANGED <<str_in, str_out, p_out, pos>>
      \/ /\ text # None /\ HasGap(text)
         /\ str_in' = text
         /\ str_out' = [offset \in 0 .. Len(text) - 1 |-> Junk]
         /\ p_out' = 0
         /\ pos' = 0
         /\ job' = "copying"
         /\ UNCHANGED demangled

(* Definitions named for a fault (here and in SymtabElf) are wrong         *)
(* variants of the definition that follows: the runs' properties tell them *)
(* from it.                                                                *)
LastWithoutNUL == Len(str_in) - 1

(* The offset the loop goes to. *)
LastCopied == Len(str_in)

BackNever == p_out
BackOverAnySpace ==
  IF pos >= 1 /\ At(str_in, pos - 1) = " " THEN p_out - 1 ELSE p_out

(* Where the next character goes: over the space of a "> >". *)
Target == IF ClosesAgain(str_in, pos) THEN p_out - 1 ELSE p_out

CopyChar ==
  /\ job = "copying"
  /\ pos <= LastCopied
  /\ IF Target \in DOMAIN str_out
     THEN /\ str_out' = [str_out EXCEPT ![Target] = At(str_in, pos)]
          /\ p_out' = Target + 1
          /\ pos' = pos + 1
          /\ UNCHANGED job
     ELSE /\ job' = "overrun"
          /\ UNCHANGED <<str_out, p_out, pos>>
  /\ UNCHANGED <<demangled, str_in>>

EndCopy ==
  /\ job = "copying"
  /\ pos > LastCopied
  /\ demangled' = CString(str_out)
  /\ job' = "done"
  /\ UNCHANGED <<str_in, str_out, p_out, pos>>

------------------------------------------------------------------------------
(* Properties. *)

DemangleTypeOK ==
  /\ job \in {"none", "copying", "done", "overrun"}
  /\ str_in \in Text
  /\ DOMAIN str_out = 0 .. Len(str_in) - 1
  /\ \A offset \in DOMAIN str_out : str_out[offset] \in Char \cup {NUL, Junk}
  /\ p_out \in Nat
  /\ pos \in 0 .. Len(str_in) + 1

(* The buffer of fixup_templates is strlen(str_in) long and the copy ends  *)
(* with a NUL: it fits because at least one space is dropped, and never    *)
(* does the copy run ahead before that (demangle.c:10-20).                 *)
WritesInBuffer ==
  /\ job # "overrun"
  /\ job = "copying" /\ pos > LastCopied =>
       \E offset \in DOMAIN str_out : str_out[offset] = NUL

(* What the comment at demangle.c:4 says of a text and its rewriting: each *)
(* space between two ">" goes, also when one ">" ends a case and begins    *)
(* the next, and everything else stays, moved up by what went before it.   *)
IsGap(text, k) ==
  /\ k \in 2 .. Len(text) - 1
  /\ text[k - 1] = ">" /\ text[k] = " " /\ text[k + 1] = ">"
Gaps(text, k) == Cardinality({j \in 1 .. k : IsGap(text, j)})
Rewrites(text, result) ==
  /\ DOMAIN result = 1 .. Len(text) - Gaps(text, Len(text))
  /\ \A k \in 1 .. Len(text) : ~IsGap(text, k) => result[k - Gaps(text, k)] = text[k]
==============================================================================
