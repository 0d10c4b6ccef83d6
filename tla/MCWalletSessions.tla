-------------------------- MODULE MCWalletSessions --------------------------
(***************************************************************************)
(* Three scenarios of WalletStore that share nothing, in one state space:  *)
(* one process with all operations, two processes that enrol and replace   *)
(* keys of one wallet, and a platform where replacing a file removes it    *)
(* first.  The instances bring along what is proved of WalletStore.        *)
(***************************************************************************)
EXTENDS Naturals, FiniteSets, TLC

CONSTANTS
    n1, n2, n3, a1, a2, a3, w1, w2, p1, p2, p3, DefaultFile, None, Torn

VARIABLES scenario, file, temp, backups, slots, envelopes, pc, job, session

Files == {"watch", "import", "attach", "detach", "default", "delete", "backup", "restore"}
KeyOperations == {"import", "reprotect", "backup", "restore", "delete", "unlock", "release", "enrol"}
AllOperations == Files \union KeyOperations

Manager == INSTANCE WalletStoreProofs WITH
    Names <- {n1, n2}, Addresses <- {a3}, Passes <- {w1, w2}, Procs <- {p3}, MaxEnvelopes <- 3,
    Operations <- AllOperations, Crashes <- FALSE, Windows <- FALSE

Keys == INSTANCE WalletStoreProofs WITH
    Names <- {n3}, Addresses <- {a3}, Passes <- {w1, w2}, Procs <- {p1, p2}, MaxEnvelopes <- 2,
    Operations <- KeyOperations, Crashes <- FALSE, Windows <- FALSE

Platform == INSTANCE WalletStoreProofs WITH
    Names <- {n1, n2}, Addresses <- {a1, a2}, Passes <- {w1, w2}, Procs <- {p3}, MaxEnvelopes <- 2,
    Operations <- Files, Crashes <- TRUE, Windows <- TRUE

\* The values are told apart, and none of them is a record or a job.
Records == Manager!Record \union Keys!Record \union Platform!Record
ASSUME ValuesAssumption ==
    /\ None /= Torn /\ DefaultFile \notin {n1, n2, n3}
    /\ {None, Torn} \intersect {n1, n2, n3, w1, w2} = {}
    /\ None \notin Records /\ Torn \notin Records
    /\ None \notin Manager!Job /\ None \notin Keys!Job /\ None \notin Platform!Job
    /\ \A n \in {n1, n2, n3} : n \notin Records

vars == <<scenario, file, temp, backups, slots, envelopes, pc, job, session>>

\* What a scenario has two of is interchangeable.
Symmetry ==
    Permutations({n1, n2}) \union Permutations({a1, a2})
    \union Permutations({w1, w2}) \union Permutations({p1, p2})

Init ==
    \/ scenario = "manager" /\ Manager!Init
    \/ scenario = "keys" /\ Keys!Init
    \/ scenario = "platform" /\ Platform!Init

Next ==
    /\ \/ scenario = "manager" /\ Manager!Next
       \/ scenario = "keys" /\ Keys!Next
       \/ scenario = "platform" /\ Platform!Next
    /\ UNCHANGED scenario

Spec == Init /\ [][Next]_vars

-----------------------------------------------------------------------------
\* Between operations of the only process its session signs with the record on disk
\* (manager.py locks it in delete, detach and re-protection), and the default pointer names a
\* wallet (storage.rs delete and set_default), as no process ends inside one here.
SessionIsCurrent ==
    scenario = "manager" => Manager!SessionIsCurrent /\ Manager!DefaultNamesWallet

\* A key that does not open the current envelope never makes a session, however
\* two processes interleave (client_system_unlock.py, validate_unlock_key).
SessionKeyFits == scenario = "keys" => Keys!SessionKeyFits

\* As long as no signer is re-protected on its own, one passcode opens every signer: it is
\* validated when one is added or restored, wherever a process ended before (wallet.rs
\* validate_app_passcode, manager.py).
OnePasscode == scenario = "platform" => Platform!OnePasscode

\* While a wallet's file is missing, a complete record of its account lies beside
\* it (storage.rs atomic_write on Windows).
ReplacementIsOnDisk == [][scenario = "platform" => Platform!KeepsReplacement]_vars
=============================================================================
