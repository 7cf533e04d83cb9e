---------------------------- MODULE MCWorkspace ----------------------------
(* Small instances of Workspace.  Accounts, subjects and workers are       *)
(* interchangeable: no definition names one of them, so invariants and     *)
(* properties of single steps are checked up to their permutations.        *)
EXTENDS Workspace, TLC

Symmetric == Permutations(Accounts) \cup Permutations(Workers) \cup Permutations(Subjects)
============================================================================
