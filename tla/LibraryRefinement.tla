-------------------------- MODULE LibraryRefinement --------------------------
(***************************************************************************)
(* The library table implements DependencyClosure: forget slots and stack, *)
(* keep what each claimed slot was loaded from.                            *)
(***************************************************************************)
EXTENDS Library

LoadedSet ==
  {[path |-> libs[s].path, primary |-> libs[s].is_primary,
    depends |-> libs[s].depends] : s \in {t \in Slots : Claimed(t)}}

Phase == IF status \in {"table_full", "load_failed"} THEN "failed" ELSE status

Closure == INSTANCE DependencyClosure WITH loaded <- LoadedSet, phase <- Phase

(* The depth-first lib_init of library.c does what the abstract closure    *)
(* does: each claim is one load of a wanted, absent library, and the       *)
(* outermost return happens only when nothing wanted is absent.            *)
ImplementsClosure == Closure!Spec
==============================================================================
