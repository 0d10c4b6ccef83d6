--------------------------- MODULE MCWalletStore ---------------------------
(***************************************************************************)
(* Instances of WalletStore for TLC.                                       *)
(***************************************************************************)
EXTENDS WalletStore, TLC

AllOperations == {"watch", "import", "attach", "detach", "reprotect", "backup", "restore",
                  "default", "delete", "unlock", "release", "enrol"}

\* Names, accounts, passcodes and processes are interchangeable.
Symmetry == Permutations(Names) \union Permutations(Addresses)
            \union Permutations(Passes) \union Permutations(Procs)
=============================================================================
