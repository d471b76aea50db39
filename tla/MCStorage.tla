----------------------------- MODULE MCStorage -----------------------------
(***************************************************************************)
(* Storage: files with three names, two processes and a directory with two *)
(* entries, and kernel memory of three pages shared by two threads.  The   *)
(* two models share no state, so one of them moves in each behaviour.      *)
(***************************************************************************)
EXTENDS Files, Malloc, TLC

VARIABLE moving

vars == <<moving, fileVars, mallocVars>>

StorageInit ==
  /\ moving \in {"files", "memory"}
  /\ FilesInit /\ MallocInit

FileSystem == moving = "files" /\ FilesNext /\ UNCHANGED <<moving, mallocVars>>
KernelMemory == moving = "memory" /\ MallocNext /\ UNCHANGED <<moving, fileVars>>

StorageNext == FileSystem \/ KernelMemory

StorageSpec == StorageInit /\ [][StorageNext]_vars

Symmetry == Permutations(Name) \cup Permutations(Proc) \cup Permutations(Client)
=============================================================================
