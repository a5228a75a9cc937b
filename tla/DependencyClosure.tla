-------------------------- MODULE DependencyClosure --------------------------
(***************************************************************************)
(* What lib_init promises, without table, slots, recursion or order: a set *)
(* of loaded libraries grows from one primary along DT_NEEDED entries, and *)
(* the call returns only when the set is closed under them.                *)
(***************************************************************************)
EXTENDS Integers, Sequences

CONSTANTS
  Name,      \* strings given to lib_init or found in DT_NEEDED entries
  Basename,  \* basename(3), on Name
  Fold,      \* case folding, on Name
  File       \* the contents a file may have: records with a field needed

VARIABLES
  file,    \* Name -> File
  loaded,  \* the libraries loaded so far
  phase    \* "start", "loading", "returned" or "failed"

closureVars == <<file, loaded, phase>>

Library(primary, path, depends) ==
  [path |-> path, primary |-> primary, depends |-> depends]

(* A dependency named n is loaded; the primary does not count. *)
Has(n) ==
  \E r \in loaded : ~r.primary /\ Fold[Basename[r.path]] = Fold[n]

Wanted == UNION {{r.depends[j] : j \in DOMAIN r.depends} : r \in loaded}

Start ==
  /\ file \in [Name -> File]
  /\ loaded = {}
  /\ phase = "start"

(* A load ends the process when it goes wrong; the dependencies of what is *)
(* loaded are the file's DT_NEEDED entries, or unknown.                    *)
Load(primary, path) ==
  /\ \E depends \in {<<>>, file[path].needed} :
       loaded' = loaded \cup {Library(primary, path, depends)}
  /\ phase' \in {"loading", "failed"}
  /\ UNCHANGED file

LoadArgument ==
  /\ phase = "start"
  /\ \E path \in Name : Load(TRUE, path)

LoadDependency ==
  /\ phase = "loading"
  /\ \E d \in Wanted : ~Has(d) /\ Load(FALSE, d)

Abort ==
  /\ phase \in {"start", "loading"}
  /\ phase' = "failed"
  /\ UNCHANGED <<file, loaded>>

Return ==
  /\ phase = "loading"
  /\ \A d \in Wanted : Has(Basename[d])
  /\ phase' = "returned"
  /\ UNCHANGED <<file, loaded>>

ClosureStep == LoadArgument \/ LoadDependency \/ Abort \/ Return

(* Sequential code: it goes on until it returns or the process ends. *)
Safety == Start /\ [][ClosureStep]_closureVars
Spec   == Safety /\ WF_closureVars(ClosureStep)
==============================================================================
