---------------------------- MODULE WalletStore ----------------------------
(***************************************************************************)
(* The wallet home: one file per wallet, the default pointer, and the      *)
(* processes that work on them (reference/rust-client storage.rs and       *)
(* wallet.rs, composed in the order of reference/python manager.py and     *)
(* client_system_unlock.py, which keep the same files).                    *)
(*                                                                         *)
(* There is no lock.  Every file is written to one temporary sibling and   *)
(* renamed; everything an operation read before, it may have read from an  *)
(* earlier state of the home.  A step is the code between two accesses to  *)
(* the home that another process, or the end of this one, can fall between.*)
(*                                                                         *)
(* A protected envelope is a number, fresh for every protection, and the   *)
(* passcode it opens with; its unlock key is named by the same number.     *)
(***************************************************************************)
EXTENDS Naturals, FiniteSets

CONSTANTS
    Names,          \* wallet names
    Addresses,      \* Classic accounts; also the key that signs for each
    Passes,         \* Fresnica passcodes
    Procs,          \* processes, each with one WalletManager
    MaxEnvelopes,   \* bound: envelopes ever made
    Operations,     \* operations the product uses
    Crashes,        \* whether a process may end between two steps
    Windows,        \* whether replacing a file removes it first
    DefaultFile,    \* the path of the default pointer
    None, Torn      \* no value; a file with half its text

ASSUME BoundAssumption == MaxEnvelopes \in Nat
ASSUME PlatformAssumption == Crashes \in BOOLEAN /\ Windows \in BOOLEAN

VARIABLES
    file,       \* path -> record, name, None or Torn
    temp,       \* path -> content of its temporary sibling
    backups,    \* records in backup files
    slots,      \* system-unlock backend: envelope -> unlock key kept for it, 0 for none
    envelopes,  \* number of envelopes made so far
    pc, job,    \* process -> where it is, and what it works on
    session     \* process -> unlocked session or None

home == <<file, temp>>
vars == <<file, temp, backups, slots, envelopes, pc, job, session>>

Paths == Names \union {DefaultFile}
Record == [address: Addresses, pass: Passes \union {None}, envelope: 0..MaxEnvelopes]
Session == [name: Names, record: Record, key: 1..MaxEnvelopes]
Job == [op: Operations, path: Paths, value: Record \union Names \union {None},
        overwrite: BOOLEAN, point: BOOLEAN, key: 0..MaxEnvelopes]

ASSUME SentinelAssumption ==
    /\ None /= Torn /\ DefaultFile \notin Names
    /\ {None, Torn} \intersect (Names \union Passes \union Record) = {}
    /\ None \notin Job /\ Names \intersect Record = {}

NoJob == None
Locations ==
    {"idle", "save", "write", "fill", "clear", "rename", "after", "unpoint", "enrol", "open"}

-----------------------------------------------------------------------------
(***************************************************************************)
(* Records.                                                                *)
(***************************************************************************)
WatchOnly(r) == r.pass = None
WatchRecord(a) == [address |-> a, pass |-> None, envelope |-> 0]
ProtectedRecord(a, w, e) == [address |-> a, pass |-> w, envelope |-> e]
\* Signing material joins a watch-only record only if it is that account's key.
MayAttach(r, a) == WatchOnly(r) /\ a = r.address
AttachedRecord(r, w, e) == [r EXCEPT !.pass = w, !.envelope = e]
DetachedRecord(r) == [r EXCEPT !.pass = None, !.envelope = 0]
Opens(r, w) == r.pass = w

(***************************************************************************)
(* Reading the home.                                                       *)
(***************************************************************************)
Exists(path) == file[path] /= None
Whole(n) == file[n] \notin {None, Torn}
\* list: fails on the first file that does not parse.
Readable == \A n \in Names : file[n] /= Torn
Listed == {n \in Names : Whole(n)}
Signing == {n \in Listed : ~WatchOnly(file[n])}
HasAppPasscode == Signing /= {}
ValidAppPasscode(w) == Readable /\ \A n \in Signing : Opens(file[n], w)

\* Mutant: a signing backup is restored without a look at its passcode.
RestorableUnchecked(r, w) == Readable

\* A signing backup joins other signers only under their common passcode.
Restorable(r, w) ==
    /\ Readable
    /\ ~WatchOnly(r) /\ HasAppPasscode => ValidAppPasscode(w) /\ Opens(r, w)

-----------------------------------------------------------------------------
Init ==
    /\ file = [path \in Paths |-> None]
    /\ temp = [path \in Paths |-> None]
    /\ backups = {}
    /\ slots = [e \in 1..MaxEnvelopes |-> 0]
    /\ envelopes = 0
    /\ pc = [p \in Procs |-> "idle"]
    /\ job = [p \in Procs |-> NoJob]
    /\ session = [p \in Procs |-> None]

Goto(p, l) == pc' = [pc EXCEPT ![p] = l]
Finish(p) == Goto(p, "idle") /\ job' = [job EXCEPT ![p] = NoJob]
Work(p, l, op, path, value, overwrite, point, key) ==
    /\ pc[p] = "idle" /\ op \in Operations
    /\ Goto(p, l)
    /\ job' = [job EXCEPT ![p] = [op |-> op, path |-> path, value |-> value,
                                  overwrite |-> overwrite, point |-> point, key |-> key]]

LockedIf(p, condition) == session' = [session EXCEPT ![p] = IF condition THEN None ELSE @]
OfSession(p, n) == session[p] /= None /\ session[p].name = n
NewEnvelope == envelopes < MaxEnvelopes /\ envelopes' = envelopes + 1

-----------------------------------------------------------------------------
(***************************************************************************)
(* The beginning of each operation: what it reads and what it will write.  *)
(***************************************************************************)
AddWatch(p, n, a, point) ==
    /\ Work(p, "save", "watch", n, WatchRecord(a), FALSE, point, 0)
    /\ UNCHANGED <<home, backups, slots, envelopes, session>>

Import(p, n, a, w, point) ==
    /\ ValidAppPasscode(w)
    /\ NewEnvelope
    /\ Work(p, "save", "import", n, ProtectedRecord(a, w, envelopes + 1), FALSE, point, 0)
    /\ UNCHANGED <<home, backups, slots, session>>

Attach(p, n, a, w) ==
    /\ Whole(n) /\ MayAttach(file[n], a)
    /\ ValidAppPasscode(w)
    /\ NewEnvelope
    /\ Work(p, "save", "attach", n, AttachedRecord(file[n], w, envelopes + 1), TRUE, FALSE, 0)
    /\ UNCHANGED <<home, backups, slots, session>>

Detach(p, n) ==
    /\ Whole(n)
    /\ Work(p, "save", "detach", n, DetachedRecord(file[n]), TRUE, FALSE, 0)
    /\ LockedIf(p, OfSession(p, n))
    /\ UNCHANGED <<home, backups, slots, envelopes>>

\* One signer's envelope is replaced; the new passcode is compared with nothing.
Reprotect(p, n, w) ==
    /\ Whole(n) /\ ~WatchOnly(file[n])
    /\ NewEnvelope
    /\ Work(p, "save", "reprotect", n,
            [file[n] EXCEPT !.pass = w, !.envelope = envelopes + 1], TRUE, FALSE, 0)
    /\ UNCHANGED <<home, backups, slots, session>>

Backup(p, n) ==
    /\ pc[p] = "idle" /\ "backup" \in Operations /\ Whole(n)
    /\ backups' = {file[n]}
    /\ UNCHANGED <<home, slots, envelopes, pc, job, session>>

Restore(p, n, r, w, point) ==
    /\ r \in backups /\ Restorable(r, w)
    /\ Work(p, "save", "restore", n, r, FALSE, point, 0)
    /\ UNCHANGED <<home, backups, slots, envelopes, session>>

SetDefault(p, n) ==
    /\ Whole(n)
    /\ Work(p, "write", "default", DefaultFile, n, TRUE, FALSE, 0)
    /\ UNCHANGED <<home, backups, slots, envelopes, session>>

\* delete, first half: the session is locked and the record's file removed.
Delete(p, n) ==
    /\ Exists(n)
    /\ Work(p, "unpoint", "delete", n, None, FALSE, file[DefaultFile] = n, 0)
    /\ LockedIf(p, OfSession(p, n))
    /\ file' = [file EXCEPT ![n] = None]
    /\ UNCHANGED <<temp, backups, slots, envelopes>>

-----------------------------------------------------------------------------
(***************************************************************************)
(* Replacing a file, for save and set_default alike.                       *)
(***************************************************************************)
\* Mutant: an existing wallet is not noticed.
SaveUnchecked(p) ==
    /\ pc[p] = "save"
    /\ Goto(p, "write")
    /\ UNCHANGED <<home, backups, slots, envelopes, job, session>>

Save(p) ==
    /\ pc[p] = "save"
    /\ IF Exists(job[p].path) /\ ~job[p].overwrite
       THEN Finish(p)
       ELSE Goto(p, "write") /\ UNCHANGED job
    /\ UNCHANGED <<home, backups, slots, envelopes, session>>

\* Mutant: the text is written to the file itself.
WriteInPlace(p) ==
    /\ pc[p] = "write"
    /\ file' = [file EXCEPT ![job[p].path] = Torn]
    /\ temp' = [temp EXCEPT ![job[p].path] = Torn]
    /\ Goto(p, "fill")
    /\ UNCHANGED <<backups, slots, envelopes, job, session>>

\* Mutant: the old file makes room for the new one before that is written.
WriteCleared(p) ==
    /\ pc[p] = "write"
    /\ file' = [file EXCEPT ![job[p].path] = None]
    /\ temp' = [temp EXCEPT ![job[p].path] = Torn]
    /\ Goto(p, "fill")
    /\ UNCHANGED <<backups, slots, envelopes, job, session>>

\* fs::write creates or empties the temporary file, then fills it.
Write(p) ==
    /\ pc[p] = "write"
    /\ temp' = [temp EXCEPT ![job[p].path] = Torn]
    /\ Goto(p, "fill")
    /\ UNCHANGED <<file, backups, slots, envelopes, job, session>>

Fill(p) ==
    /\ pc[p] = "fill"
    /\ temp' = [temp EXCEPT ![job[p].path] = job[p].value]
    /\ Goto(p, IF Windows THEN "clear" ELSE "rename")
    /\ UNCHANGED <<file, backups, slots, envelopes, job, session>>

\* A full disk or a refused permission: the temporary file is removed.
WriteFails(p) ==
    /\ pc[p] = "fill"
    /\ temp' = [temp EXCEPT ![job[p].path] = None]
    /\ Finish(p)
    /\ UNCHANGED <<file, backups, slots, envelopes, session>>

Clear(p) ==
    /\ pc[p] = "clear"
    /\ file' = [file EXCEPT ![job[p].path] = None]
    /\ Goto(p, "rename")
    /\ UNCHANGED <<temp, backups, slots, envelopes, job, session>>

\* The rename fails when another process has renamed the same temporary file.
Rename(p) ==
    LET path == job[p].path IN
    /\ pc[p] = "rename"
    /\ IF temp[path] = None
       THEN Finish(p) /\ UNCHANGED home
       ELSE /\ file' = [file EXCEPT ![path] = temp[path]]
            /\ temp' = [temp EXCEPT ![path] = None]
            /\ Goto(p, "after") /\ UNCHANGED job
    /\ UNCHANGED <<backups, slots, envelopes, session>>

\* atomic_write's last step: Windows removes the old file before the rename.
Place(p) == IF pc[p] = "clear" THEN Clear(p) ELSE Rename(p)

-----------------------------------------------------------------------------
(***************************************************************************)
(* What an operation does after its file was written.                      *)
(***************************************************************************)
\* A new wallet becomes the default when asked to, or when there is none.
BecomesDefault(p) == job[p].point \/ file[DefaultFile] = None

\* Mutant: the pointer gets the text that was just saved.
PointAtRecord(p, n) ==
    /\ Goto(p, "write")
    /\ job' = [job EXCEPT ![p].op = "default", ![p].path = DefaultFile,
                           ![p].overwrite = TRUE]

PointAt(p, n) ==
    /\ Goto(p, "write")
    /\ job' = [job EXCEPT ![p].op = "default", ![p].path = DefaultFile,
                           ![p].value = n, ![p].overwrite = TRUE]

AfterNew(p) ==
    /\ pc[p] = "after" /\ job[p].op \in {"watch", "import", "restore"}
    /\ IF BecomesDefault(p) /\ Whole(job[p].path)
       THEN PointAt(p, job[p].path)
       ELSE Finish(p)
    /\ UNCHANGED <<home, backups, slots, envelopes, session>>

\* Mutant: the session of a re-protected signer stays open.
AfterReplaceUnlocked(p) ==
    /\ pc[p] = "after" /\ job[p].op \in {"attach", "detach", "reprotect"}
    /\ Finish(p)
    /\ UNCHANGED <<home, backups, slots, envelopes, session>>

AfterReplace(p) ==
    /\ pc[p] = "after" /\ job[p].op \in {"attach", "detach", "reprotect"}
    /\ LockedIf(p, job[p].op = "reprotect" /\ OfSession(p, job[p].path))
    /\ Finish(p)
    /\ UNCHANGED <<home, backups, slots, envelopes>>

AfterDefault(p) ==
    /\ pc[p] = "after" /\ job[p].op = "default"
    /\ LockedIf(p, session[p] /= None /\ session[p].name /= job[p].value)
    /\ Finish(p)
    /\ UNCHANGED <<home, backups, slots, envelopes>>

\* Mutant: the pointer to a deleted wallet stays.
UnpointNothing(p) ==
    /\ pc[p] = "unpoint"
    /\ Finish(p)
    /\ UNCHANGED <<home, backups, slots, envelopes, session>>

\* delete, second half: the pointer is removed, and another wallet chosen.
Unpoint(p) ==
    /\ pc[p] = "unpoint"
    /\ file' = [file EXCEPT ![DefaultFile] = IF @ = job[p].path THEN None ELSE @]
    /\ IF job[p].point /\ Readable /\ Listed /= {}
       THEN \E n \in Listed : PointAt(p, n)
       ELSE Finish(p)
    /\ UNCHANGED <<temp, backups, slots, envelopes, session>>

-----------------------------------------------------------------------------
(***************************************************************************)
(* Unlocking, by passcode or with a key the system released.               *)
(***************************************************************************)
DeriveKey(p, n, w) ==
    /\ Whole(n) /\ ~WatchOnly(file[n]) /\ Opens(file[n], w)
    /\ Work(p, "open", "unlock", n, None, FALSE, FALSE, file[n].envelope)
    /\ UNCHANGED <<home, backups, slots, envelopes, session>>

Release(p, n) ==
    /\ Whole(n) /\ ~WatchOnly(file[n]) /\ slots[file[n].envelope] /= 0
    /\ Work(p, "open", "release", n, None, FALSE, FALSE, slots[file[n].envelope])
    /\ UNCHANGED <<home, backups, slots, envelopes, session>>

\* Mutant: the released key is taken for the record's.
KeyAccepted(p, n) == TRUE

\* validate_unlock_key: the key decrypts the record as it is on disk now.
KeyFits(p, n) == job[p].key = file[n].envelope

Open(p) ==
    LET n == job[p].path IN
    /\ pc[p] = "open"
    /\ Finish(p)
    /\ session' = [session EXCEPT ![p] =
         IF Whole(n) /\ ~WatchOnly(file[n]) /\ KeyFits(p, n)
         THEN [name |-> n, record |-> file[n], key |-> job[p].key]
         ELSE @]
    /\ UNCHANGED <<home, backups, slots, envelopes>>

\* The slot is named by the record as it is now, the key derived from the record
\* as it will be read next.
Enrol(p, n) ==
    /\ Whole(n) /\ ~WatchOnly(file[n])
    /\ Work(p, "enrol", "enrol", n, None, FALSE, FALSE, file[n].envelope)
    /\ UNCHANGED <<home, backups, slots, envelopes, session>>

StoreKey(p, w) ==
    LET n == job[p].path IN
    /\ pc[p] = "enrol"
    /\ slots' = IF Whole(n) /\ ~WatchOnly(file[n]) /\ Opens(file[n], w)
                THEN [slots EXCEPT ![job[p].key] = file[n].envelope]
                ELSE slots
    /\ Finish(p)
    /\ UNCHANGED <<home, backups, envelopes, session>>

Disable(p, n) ==
    /\ pc[p] = "idle" /\ "enrol" \in Operations /\ Whole(n) /\ ~WatchOnly(file[n])
    /\ slots' = [slots EXCEPT ![file[n].envelope] = 0]
    /\ UNCHANGED <<home, backups, envelopes, pc, job, session>>

Lock(p) ==
    /\ pc[p] = "idle" /\ session[p] /= None
    /\ session' = [session EXCEPT ![p] = None]
    /\ UNCHANGED <<home, backups, slots, envelopes, pc, job>>

\* The process ends; what it wrote stays.
Crash(p) ==
    /\ Crashes /\ pc[p] /= "idle"
    /\ Finish(p)
    /\ session' = [session EXCEPT ![p] = None]
    /\ UNCHANGED <<home, backups, slots, envelopes>>

-----------------------------------------------------------------------------
Begin(p) ==
    \E n \in Names :
        \/ \E a \in Addresses, point \in BOOLEAN :
              AddWatch(p, n, a, point) \/ \E w \in Passes : Import(p, n, a, w, point)
        \/ \E a \in Addresses, w \in Passes : Attach(p, n, a, w)
        \/ Detach(p, n) \/ Backup(p, n) \/ SetDefault(p, n) \/ Delete(p, n)
        \/ \E w \in Passes : Reprotect(p, n, w) \/ DeriveKey(p, n, w)
        \/ \E r \in backups, w \in Passes, point \in BOOLEAN : Restore(p, n, r, w, point)
        \/ Release(p, n) \/ Enrol(p, n) \/ Disable(p, n)

Continue(p) ==
    \/ Save(p) \/ Write(p) \/ Fill(p) \/ WriteFails(p) \/ Place(p)
    \/ AfterNew(p) \/ AfterReplace(p) \/ AfterDefault(p) \/ Unpoint(p)
    \/ Open(p) \/ \E w \in Passes : StoreKey(p, w)

Next == \E p \in Procs : Begin(p) \/ Continue(p) \/ Lock(p) \/ Crash(p)

Spec == Init /\ [][Next]_vars

-----------------------------------------------------------------------------
(***************************************************************************)
(* Properties.                                                             *)
(***************************************************************************)
TypeOK ==
    /\ file \in [Paths -> Record \union Names \union {None, Torn}]
    /\ \A n \in Names : file[n] \in Record \union {None, Torn}
    /\ file[DefaultFile] \in Names \union {None, Torn}
    /\ temp \in [Paths -> Record \union Names \union {None, Torn}]
    /\ backups \subseteq Record
    /\ slots \in [1..MaxEnvelopes -> 0..MaxEnvelopes]
    /\ envelopes \in 0..MaxEnvelopes
    /\ pc \in [Procs -> Locations]
    /\ job \in [Procs -> Job \union {NoJob}]
    /\ session \in [Procs -> Session \union {None}]

\* A reader never finds half a file, wherever a process ended: atomic_write fills
\* a temporary file and renames it (one process; two share the temporary name).
FilesAreWhole == \A path \in Paths : file[path] /= Torn

\* A wallet's file disappears in a deletion and in no other operation, wherever
\* that operation is cut short.  (Not so on Windows, where atomic_write removes
\* the old file before it renames the new one.)
OnlyDeletionRemoves ==
    [][\A n \in Names : file[n] /= None /\ file'[n] = None
         => \E p \in Procs : job'[p] /= NoJob /\ job'[p].op = "delete" /\ job'[p].path = n]_vars

\* Also where the old file has to be removed first, a record leaves the home only
\* in a deletion: while its file is missing the temporary file beside it is a
\* complete record of the same account, wherever the process ended.
KeepsReplacement ==
    \A n \in Names : file[n] \in Record /\ file'[n] = None
        => \/ \E p \in Procs : job'[p] /= NoJob /\ job'[p].op = "delete"
           \/ temp'[n] \in Record /\ temp'[n].address = file[n].address

\* validate_app_passcode: "Require one Fresnica passphrase for every local
\* protected software signer".
OnePasscode == \A m, n \in Signing : file[m].pass = file[n].pass

\* Between operations the default pointer names a wallet, unless a process ended
\* inside a deletion.
DefaultNamesWallet ==
    (\A p \in Procs : pc[p] = "idle") /\ file[DefaultFile] /= None
        => Whole(file[DefaultFile])

\* Between operations of the only process, its session signs with the record that
\* is on disk: deletion, detachment and re-protection lock it.
SessionIsCurrent ==
    \A p \in Procs : pc[p] = "idle" /\ session[p] /= None
        => file[session[p].name] = session[p].record

\* However enrolment, re-protection, restoring and unlocking of two processes
\* interleave, a session's key decrypts the envelope the session signs with.
SessionKeyFits ==
    \A p \in Procs : session[p] /= None => session[p].key = session[p].record.envelope

\* save refuses to replace a wallet unless asked to: a wallet under a name never
\* becomes one of another account or signer while a new one is added.
WalletsAreNotOverwritten ==
    [][\A p \in Procs, n \in Names :
         /\ pc[p] = "rename" /\ pc'[p] = "after" /\ job[p].path = n /\ ~job[p].overwrite
         => file[n] = None]_vars

(***************************************************************************)
(* One process, crashes included, implements WalletMap: temporary files,   *)
(* half-written text and the order of the steps do not show.               *)
(***************************************************************************)
Map == INSTANCE WalletMap WITH
    Records <- Record, wallets <- [n \in Names |-> file[n]], default <- file[DefaultFile]

ImplementsMap == Map!Spec
=============================================================================
