-------------------------- MODULE WalletStoreProofs --------------------------
(***************************************************************************)
(* Proofs about the wallet home for any names, accounts, passcodes,        *)
(* operations and ends of the process.  With one process, on every         *)
(* platform, files are always whole, a file that makes room for another    *)
(* has its replacement beside it, the session signs with the record on     *)
(* disk, the default names a wallet where the process does not end inside  *)
(* an operation, and without re-protection one passcode opens all signers; *)
(* where a rename replaces files the home implements WalletMap.  With any  *)
(* number of processes a session's key fits, and where a rename replaces   *)
(* files only a deletion removes a wallet.                                 *)
(***************************************************************************)
EXTENDS WalletStore, TLAPS

OneProcess == \A p, q \in Procs : p = q

Fields == {"op", "path", "value", "overwrite", "point", "key"}
Replacing == {"save", "write", "fill", "clear", "rename"}

\* The steps of a process: one that replaces files by renaming never clears.
Steps == IF Windows THEN Locations ELSE Locations \ {"clear"}

\* The home between the steps.
HomeShape ==
    /\ DOMAIN file = Paths /\ DOMAIN temp = Paths
    /\ file = [path \in Paths |-> file[path]]
    /\ temp = [path \in Paths |-> temp[path]]
    /\ \A n \in Names : file[n] \in Record \union {None}
    /\ file[DefaultFile] \in Names \union {None}
    /\ backups \subseteq Record
    /\ envelopes \in 0 .. MaxEnvelopes

JobShape ==
    /\ pc \in [Procs -> Steps]
    /\ DOMAIN job = Procs
    /\ job = [p \in Procs |-> job[p]]
    /\ \A p \in Procs : pc[p] # "idle" =>
          /\ DOMAIN job[p] = Fields /\ job[p].path \in Paths
          /\ job[p].op = "default" <=> job[p].path = DefaultFile

\* What is about to be written fits the home, where no other process changes it: a new
\* record finds no wallet, another one keeps the account of its wallet, and the default
\* pointer names a wallet.
WriteFits(p) ==
    pc[p] \in Replacing =>
        /\ job[p].path \in Names =>
              /\ job[p].value \in Record
              /\ job[p].overwrite =>
                    \/ /\ file[job[p].path] \in Record
                       /\ file[job[p].path].address = job[p].value.address
                    \/ Windows /\ pc[p] = "rename" /\ file[job[p].path] = None
              /\ pc[p] # "save" /\ ~job[p].overwrite => file[job[p].path] = None
        /\ job[p].path = DefaultFile =>
              /\ pc[p] # "save"
              /\ job[p].value \in Names /\ file[job[p].value] \in Record
        /\ pc[p] \in {"clear", "rename"} => temp[job[p].path] = job[p].value

IInv ==
    /\ HomeShape
    /\ JobShape
    /\ \A p \in Procs : WriteFits(p)

\* A signer that is about to be written opens with the passcode of the others.
PasscodeFits(p) ==
    (pc[p] \in Replacing /\ job[p].path \in Names /\ job[p].value.pass # None) =>
        \A m \in Signing \ {job[p].path} : file[m].pass = job[p].value.pass

----------------------------------------------------------------------------
\* The four ways the control of a process moves.
LEMMA Started ==
    ASSUME JobShape, NEW p \in Procs, NEW l \in {"save", "write", "unpoint", "open", "enrol"},
           NEW op \in {"watch", "import", "attach", "detach", "reprotect", "restore", "delete"},
           NEW path \in Names, NEW value, NEW overwrite, NEW point, NEW key,
           Work(p, l, op, path, value, overwrite, point, key)
    PROVE  /\ JobShape'
           /\ pc'[p] = l
           /\ job'[p].op = op /\ job'[p].path = path /\ job'[p].value = value
           /\ job'[p].overwrite = overwrite /\ job'[p].point = point
BY SentinelAssumption DEF JobShape, Work, Goto, Fields, Locations, Steps, Paths

LEMMA Finished ==
    ASSUME JobShape, NEW p \in Procs, Finish(p)
    PROVE  JobShape' /\ pc'[p] = "idle"
BY DEF JobShape, Finish, Goto, Locations, Steps

LEMMA Went ==
    ASSUME JobShape, NEW p \in Procs, NEW l \in Steps,
           pc[p] # "idle", Goto(p, l), UNCHANGED job
    PROVE  JobShape' /\ pc'[p] = l /\ job'[p] = job[p]
BY DEF JobShape, Goto

LEMMA Pointed ==
    ASSUME JobShape, NEW p \in Procs, NEW n \in Names, pc[p] # "idle", PointAt(p, n)
    PROVE  /\ JobShape'
           /\ pc'[p] = "write" /\ job'[p].path = DefaultFile /\ job'[p].value = n
           /\ job'[p].overwrite /\ job'[p].op = "default"
<1>1. job' = [q \in Procs |-> IF q = p
                 THEN [f \in Fields |-> CASE f = "op" -> "default" [] f = "path" -> DefaultFile
                                         [] f = "value" -> n [] f = "overwrite" -> TRUE
                                         [] OTHER -> job[p][f]]
                 ELSE job[q]]
  BY DEF PointAt, JobShape, Fields
<1>2. pc' = [pc EXCEPT ![p] = "write"]
  BY DEF PointAt, Goto
<1> QED
  BY <1>1, <1>2 DEF JobShape, Fields, Paths, Locations, Steps

\* A file that is not touched, another that is.
LEMMA HomeKept ==
    ASSUME HomeShape, UNCHANGED home, backups' \subseteq Record, envelopes' \in 0 .. MaxEnvelopes
    PROVE  HomeShape' /\ file' = file /\ temp' = temp
BY DEF HomeShape, home

LEMMA NewEnvelopes ==
    ASSUME HomeShape, NewEnvelope
    PROVE  envelopes' \in 0 .. MaxEnvelopes /\ envelopes + 1 \in 0 .. MaxEnvelopes
BY BoundAssumption DEF HomeShape, NewEnvelope

\* A record without its signing material.
LEMMA DetachedForms ==
    ASSUME NEW r \in Record
    PROVE  /\ DetachedRecord(r) \in Record
           /\ DetachedRecord(r).address = r.address
           /\ DetachedRecord(r).pass = None
<1>1. 0 \in 0 .. MaxEnvelopes
  BY BoundAssumption
<1>2. DetachedRecord(r) \in Record
  BY <1>1 DEF DetachedRecord, Record
<1>3. DetachedRecord(r).address = r.address
  BY DEF DetachedRecord, Record
<1>4. DetachedRecord(r).pass = None
  BY DEF DetachedRecord, Record
<1> QED
  BY <1>2, <1>3, <1>4

LEMMA WholeForms ==
    ASSUME HomeShape, NEW n \in Names
    PROVE  Whole(n) <=> file[n] \in Record
BY SentinelAssumption DEF HomeShape, Whole

\* What an operation starts with keeps the invariant.
LEMMA BeginKeeps ==
    ASSUME IInv, OneProcess, NEW p \in Procs, Begin(p)
    PROVE  IInv'
<1> USE DEF IInv, OneProcess
<1> DEFINE Kept == file' = file /\ temp' = temp
<1>1. ASSUME NEW n \in Names, NEW a \in Addresses, NEW point \in BOOLEAN, AddWatch(p, n, a, point)
      PROVE  IInv'
  <2>1. Work(p, "save", "watch", n, WatchRecord(a), FALSE, point, 0)
    BY <1>1 DEF AddWatch
  <2>2. n \in Paths /\ n # DefaultFile
    BY SentinelAssumption DEF Paths
  <2>3. /\ JobShape' /\ pc'[p] = "save" /\ job'[p].path = n /\ job'[p].value = WatchRecord(a)
        /\ job'[p].overwrite = FALSE
    BY <2>1, <2>2, SentinelAssumption DEF Work, Goto, JobShape, Fields, Locations, Steps
  <2>4. HomeShape' /\ Kept
    BY <1>1, HomeKept DEF AddWatch, HomeShape
  <2>5. WatchRecord(a) \in Record
    BY BoundAssumption DEF WatchRecord, Record
  <2> QED
    BY <2>2, <2>3, <2>4, <2>5 DEF WriteFits
<1>2. ASSUME NEW n \in Names, NEW a \in Addresses, NEW w \in Passes, NEW point \in BOOLEAN,
             Import(p, n, a, w, point)
      PROVE  IInv'
  <2> DEFINE r == ProtectedRecord(a, w, envelopes + 1)
  <2>1. Work(p, "save", "import", n, r, FALSE, point, 0) /\ NewEnvelope
    BY <1>2 DEF Import
  <2>2. n \in Paths /\ n # DefaultFile
    BY SentinelAssumption DEF Paths
  <2>3. r \in Record
    BY <2>1, NewEnvelopes DEF ProtectedRecord, Record
  <2> HIDE DEF r
  <2>4. /\ JobShape' /\ pc'[p] = "save" /\ job'[p].path = n
        /\ job'[p].value = r /\ job'[p].overwrite = FALSE
    BY <2>1, <2>2, SentinelAssumption DEF Work, Goto, JobShape, Fields, Locations, Steps
  <2>5. HomeShape' /\ Kept
    BY <1>2, <2>1, HomeKept, NewEnvelopes DEF Import, HomeShape
  <2> QED
    BY <2>2, <2>3, <2>4, <2>5 DEF WriteFits
<1>3. ASSUME NEW n \in Names, NEW a \in Addresses, NEW w \in Passes, Attach(p, n, a, w)
      PROVE  IInv'
  <2> DEFINE r == AttachedRecord(file[n], w, envelopes + 1)
  <2>1. Work(p, "save", "attach", n, r, TRUE, FALSE, 0) /\ NewEnvelope /\ file[n] \in Record
    BY <1>3, WholeForms DEF Attach
  <2>2. n \in Paths /\ n # DefaultFile
    BY SentinelAssumption DEF Paths
  <2>3. r \in Record /\ r.address = file[n].address
    BY <2>1, NewEnvelopes DEF AttachedRecord, Record
  <2> HIDE DEF r
  <2>4. /\ JobShape' /\ pc'[p] = "save" /\ job'[p].path = n
        /\ job'[p].value = r /\ job'[p].overwrite = TRUE
    BY <2>1, <2>2, SentinelAssumption DEF Work, Goto, JobShape, Fields, Locations, Steps
  <2>5. HomeShape' /\ Kept
    BY <1>3, <2>1, HomeKept, NewEnvelopes DEF Attach, HomeShape
  <2> QED
    BY <2>1, <2>2, <2>3, <2>4, <2>5 DEF WriteFits
<1>4. ASSUME NEW n \in Names, Detach(p, n) PROVE IInv'
  <2>1. /\ Work(p, "save", "detach", n, DetachedRecord(file[n]), TRUE, FALSE, 0)
        /\ file[n] \in Record
    BY <1>4, WholeForms DEF Detach
  <2>2. n \in Paths /\ n # DefaultFile
    BY SentinelAssumption DEF Paths
  <2>3. /\ JobShape' /\ pc'[p] = "save" /\ job'[p].path = n
        /\ job'[p].value = DetachedRecord(file[n]) /\ job'[p].overwrite = TRUE
    BY <2>1, <2>2, SentinelAssumption DEF Work, Goto, JobShape, Fields, Locations, Steps
  <2>4. HomeShape' /\ Kept
    BY <1>4, HomeKept DEF Detach, HomeShape
  <2>5. DetachedRecord(file[n]) \in Record /\ DetachedRecord(file[n]).address = file[n].address
    BY <2>1, DetachedForms
  <2> QED
    BY <2>1, <2>2, <2>3, <2>4, <2>5 DEF WriteFits
<1>5. ASSUME NEW n \in Names, NEW w \in Passes, Reprotect(p, n, w) PROVE IInv'
  <2> DEFINE r == [file[n] EXCEPT !.pass = w, !.envelope = envelopes + 1]
  <2>1. /\ Work(p, "save", "reprotect", n, r, TRUE, FALSE, 0)
        /\ NewEnvelope /\ file[n] \in Record
    BY <1>5, WholeForms DEF Reprotect
  <2>2. n \in Paths /\ n # DefaultFile
    BY SentinelAssumption DEF Paths
  <2>3. r \in Record /\ r.address = file[n].address
    BY <2>1, NewEnvelopes DEF Record
  <2> HIDE DEF r
  <2>4. /\ JobShape' /\ pc'[p] = "save" /\ job'[p].path = n
        /\ job'[p].value = r /\ job'[p].overwrite = TRUE
    BY <2>1, <2>2, SentinelAssumption DEF Work, Goto, JobShape, Fields, Locations, Steps
  <2>5. HomeShape' /\ Kept
    BY <1>5, <2>1, HomeKept, NewEnvelopes DEF Reprotect, HomeShape
  <2> QED
    BY <2>1, <2>2, <2>3, <2>4, <2>5 DEF WriteFits
<1>6. ASSUME NEW n \in Names, NEW r \in backups, NEW w \in Passes, NEW point \in BOOLEAN,
             Restore(p, n, r, w, point)
      PROVE  IInv'
  <2>1. Work(p, "save", "restore", n, r, FALSE, point, 0) /\ r \in Record
    BY <1>6 DEF Restore, HomeShape
  <2>2. n \in Paths /\ n # DefaultFile
    BY SentinelAssumption DEF Paths
  <2>3. /\ JobShape' /\ pc'[p] = "save" /\ job'[p].path = n /\ job'[p].value = r
        /\ job'[p].overwrite = FALSE
    BY <2>1, <2>2, SentinelAssumption DEF Work, Goto, JobShape, Fields, Locations, Steps
  <2>4. HomeShape' /\ Kept
    BY <1>6, HomeKept DEF Restore, HomeShape
  <2> QED
    BY <2>1, <2>2, <2>3, <2>4 DEF WriteFits
<1>7. ASSUME NEW n \in Names, SetDefault(p, n) PROVE IInv'
  <2>1. /\ Work(p, "write", "default", DefaultFile, n, TRUE, FALSE, 0) /\ file[n] \in Record
    BY <1>7, WholeForms DEF SetDefault
  <2>2. DefaultFile \in Paths /\ DefaultFile \notin Names
    BY SentinelAssumption DEF Paths
  <2>3. JobShape' /\ pc'[p] = "write" /\ job'[p].path = DefaultFile /\ job'[p].value = n
    BY <2>1, <2>2 DEF Work, Goto, JobShape, Fields, Locations, Steps
  <2>4. HomeShape' /\ Kept
    BY <1>7, HomeKept DEF SetDefault, HomeShape
  <2> QED
    BY <2>1, <2>2, <2>3, <2>4 DEF WriteFits
<1>8. ASSUME NEW n \in Names, Delete(p, n) PROVE IInv'
  <2>1. n \in Paths /\ n # DefaultFile
    BY SentinelAssumption DEF Paths
  <2>2. JobShape' /\ pc'[p] = "unpoint"
    <3> DEFINE isDefault == file[DefaultFile] = n
    <3>1. Work(p, "unpoint", "delete", n, None, FALSE, isDefault, 0)
      BY <1>8 DEF Delete
    <3> HIDE DEF isDefault
    <3> QED
      BY <3>1, Started
  <2>3. HomeShape'
    BY <1>8, <2>1 DEF Delete, HomeShape
  <2> QED
    BY <2>2, <2>3 DEF WriteFits, Replacing
<1>9. ASSUME NEW n \in Names, Backup(p, n) \/ Disable(p, n) PROVE IInv'
  <2>1. /\ UNCHANGED <<home, pc, job, envelopes>> /\ backups' \subseteq Record
    BY <1>9, WholeForms DEF Backup, Disable, HomeShape
  <2>2. HomeShape' /\ Kept
    BY <2>1, HomeKept DEF HomeShape
  <2> QED
    BY <2>1, <2>2 DEF JobShape, WriteFits
<1>10. ASSUME NEW n \in Names, NEW w \in Passes, DeriveKey(p, n, w) PROVE IInv'
  <2>1. n \in Paths
    BY DEF Paths
  <2>2. JobShape' /\ pc'[p] \in {"open", "enrol"}
    <3>1. Work(p, "open", "unlock", n, None, FALSE, FALSE, file[n].envelope)
      BY <1>10 DEF DeriveKey
    <3> QED
      BY <2>1, <3>1, SentinelAssumption DEF Work, Goto, JobShape, Fields, Locations, Steps
  <2>3. HomeShape'
    BY <1>10, HomeKept DEF DeriveKey, HomeShape
  <2> QED
    BY <2>2, <2>3 DEF WriteFits, Replacing
<1>11. ASSUME NEW n \in Names, Release(p, n) \/ Enrol(p, n) PROVE IInv'
  <2>1. n \in Paths
    BY DEF Paths
  <2>2. JobShape' /\ pc'[p] \in {"open", "enrol"}
    <3>1. \/ Work(p, "open", "release", n, None, FALSE, FALSE, slots[file[n].envelope])
          \/ Work(p, "enrol", "enrol", n, None, FALSE, FALSE, file[n].envelope)
      BY <1>11 DEF Release, Enrol
    <3> QED
      BY <2>1, <3>1, SentinelAssumption DEF Work, Goto, JobShape, Fields, Locations, Steps
  <2>3. HomeShape'
    BY <1>11, HomeKept DEF Release, Enrol, HomeShape
  <2> QED
    BY <2>2, <2>3 DEF WriteFits, Replacing
<1> QED
  BY <1>1, <1>2, <1>3, <1>4, <1>5, <1>6, <1>7, <1>8, <1>9, <1>10, <1>11 DEF Begin

\* A step in the middle of an operation keeps the invariant and is one of the map, or none.
LEMMA RecordsAreValues ==
    /\ \A r \in Record : r # None /\ r # Torn
    /\ \A n \in Names : n # None /\ n # Torn
BY SentinelAssumption

\* Replacing a file: what the rename leads to.
LEMMA RenameForms ==
    ASSUME IInv, OneProcess, NEW p \in Procs, Rename(p)
    PROVE  /\ IInv'
           /\ \/ file' = file
              \/ /\ job[p].path \in Names /\ job[p].value \in Record
                 /\ file' = [file EXCEPT ![job[p].path] = job[p].value]
                 /\ \/ file[job[p].path] = None
                    \/ /\ file[job[p].path] \in Record
                       /\ file[job[p].path].address = job[p].value.address
              \/ /\ job[p].path = DefaultFile
                 /\ file' = [file EXCEPT ![DefaultFile] = job[p].value]
                 /\ job[p].value \in Names /\ file[job[p].value] \in Record
<1> USE DEF IInv, OneProcess
<1> DEFINE path == job[p].path
<1>1. /\ pc[p] = "rename" /\ path \in Paths /\ temp[path] = job[p].value
      /\ DOMAIN job[p] = Fields
  BY DEF Rename, JobShape, WriteFits, Replacing
<1>2. CASE temp[path] = None
  <2>1. Finish(p) /\ UNCHANGED home /\ backups' \subseteq Record /\ envelopes' \in 0 .. MaxEnvelopes
    BY <1>2 DEF Rename, HomeShape
  <2>2. JobShape' /\ pc'[p] = "idle"
    BY <2>1, Finished
  <2>3. HomeShape' /\ file' = file
    BY <2>1, HomeKept
  <2> QED
    BY <2>2, <2>3 DEF WriteFits, Replacing
<1>3. CASE temp[path] # None
  <2>1. /\ file' = [file EXCEPT ![path] = job[p].value]
        /\ temp' = [temp EXCEPT ![path] = None]
        /\ Goto(p, "after") /\ UNCHANGED <<job, backups, envelopes>>
    BY <1>1, <1>3 DEF Rename
  <2>2. JobShape' /\ pc'[p] = "after"
    BY <1>1, <2>1, Went DEF Locations, Steps
  <2>3. \/ path \in Names /\ path # DefaultFile /\ job[p].value \in Record
        \/ path = DefaultFile /\ path \notin Names /\ job[p].value \in Names /\ file[job[p].value] \in Record
    BY <1>1, SentinelAssumption DEF WriteFits, Replacing, Paths
  <2>4. HomeShape'
    <3>1. DOMAIN file' = Paths /\ DOMAIN temp' = Paths
      BY <2>1 DEF HomeShape
    <3>2. /\ file' = [q \in Paths |-> file'[q]] /\ temp' = [q \in Paths |-> temp'[q]]
      BY <2>1 DEF HomeShape
    <3>3. \A q \in Paths : file'[q] = IF q = path THEN job[p].value ELSE file[q]
      BY <2>1 DEF HomeShape
    <3>4. \A n \in Names : file'[n] \in Record \union {None}
      BY <2>3, <3>3 DEF HomeShape, Paths
    <3>5. file'[DefaultFile] \in Names \union {None}
      BY <2>3, <3>3 DEF HomeShape, Paths
    <3> QED
      BY <2>1, <3>1, <3>2, <3>3, <3>4, <3>5 DEF HomeShape
  <2>5. IInv'
    BY <2>2, <2>4 DEF WriteFits, Replacing
  <2>6. path \in Names =>
          \/ file[path] = None
          \/ file[path] \in Record /\ file[path].address = job[p].value.address
    BY <1>1 DEF WriteFits, Replacing
  <2> QED
    BY <2>1, <2>3, <2>5, <2>6
<1> QED
  BY <1>2, <1>3

\* Making room for a file: what is removed is about to be replaced.
LEMMA ClearForms ==
    ASSUME IInv, OneProcess, NEW p \in Procs, Clear(p)
    PROVE  /\ IInv'
           /\ file' = [file EXCEPT ![job[p].path] = None] /\ temp' = temp
           /\ job[p].path \in Names =>
                 /\ temp[job[p].path] \in Record
                 /\ \/ file[job[p].path] = None
                    \/ file[job[p].path].address = temp[job[p].path].address
<1> USE DEF IInv, OneProcess
<1> DEFINE path == job[p].path
<1>1. /\ pc[p] = "clear" /\ path \in Paths /\ temp[path] = job[p].value /\ Windows
      /\ file' = [file EXCEPT ![path] = None] /\ temp' = temp
      /\ Goto(p, "rename") /\ UNCHANGED <<job, backups, envelopes>>
  BY DEF Clear, JobShape, WriteFits, Replacing, Steps
<1>2. JobShape' /\ pc'[p] = "rename" /\ job'[p] = job[p]
  BY <1>1, Went DEF Locations, Steps
<1>3. \A q \in Paths : file'[q] = IF q = path THEN None ELSE file[q]
  BY <1>1 DEF HomeShape
<1>4. HomeShape'
  <2>1. DOMAIN file' = Paths /\ DOMAIN temp' = Paths
    BY <1>1 DEF HomeShape
  <2>2. file' = [q \in Paths |-> file'[q]] /\ temp' = [q \in Paths |-> temp'[q]]
    BY <1>1 DEF HomeShape
  <2>3. \A n \in Names : file'[n] \in Record \union {None}
    BY <1>3 DEF HomeShape, Paths
  <2>4. file'[DefaultFile] \in Names \union {None}
    BY <1>3 DEF HomeShape, Paths
  <2> QED
    BY <1>1, <2>1, <2>2, <2>3, <2>4 DEF HomeShape
<1>5. path \in Names =>
        /\ job[p].value \in Record
        /\ file[path] = None \/ file[path].address = job[p].value.address
  BY <1>1 DEF WriteFits, Replacing
<1>6. path = DefaultFile => job[p].value \in Names /\ file[job[p].value] \in Record
  BY <1>1 DEF WriteFits, Replacing
<1>7. WriteFits(p)'
  <2>1. CASE path \in Names
    BY <1>1, <1>2, <1>3, <1>5, <2>1, SentinelAssumption DEF WriteFits
  <2>2. CASE path = DefaultFile
    BY <1>1, <1>2, <1>3, <1>6, <2>2, SentinelAssumption DEF WriteFits, Paths
  <2> QED
    BY <1>1, <2>1, <2>2 DEF Paths
<1>8. IInv'
  BY <1>2, <1>4, <1>7
<1> QED
  BY <1>1, <1>5, <1>8

LEMMA ContinueKeeps ==
    ASSUME IInv, OneProcess, NEW p \in Procs, Continue(p)
    PROVE  IInv'
<1> USE DEF IInv, OneProcess
<1>0. /\ backups \subseteq Record /\ envelopes \in 0 .. MaxEnvelopes
      /\ pc[p] # "idle" => job[p].path \in Paths /\ DOMAIN job[p] = Fields
  BY DEF HomeShape, JobShape
<1>1. CASE Save(p)
  <2>1. HomeShape' /\ file' = file /\ temp' = temp
    BY <1>0, <1>1, HomeKept DEF Save
  <2>2. CASE Finish(p)
    BY <2>1, <2>2, Finished DEF WriteFits, Replacing
  <2>3. CASE ~Finish(p)
    <3>1. Goto(p, "write") /\ UNCHANGED job /\ (job[p].overwrite \/ file[job[p].path] = None)
      BY <1>1, <2>3 DEF Save, Exists
    <3>2. JobShape' /\ pc'[p] = "write" /\ job'[p] = job[p]
      BY <1>1, <3>1, Went DEF Save, Locations, Steps
    <3> QED
      BY <1>1, <2>1, <3>1, <3>2 DEF WriteFits, Replacing, Save
  <2> QED
    BY <2>2, <2>3
<1>2. CASE Write(p)
  <2>1. JobShape' /\ pc'[p] = "fill" /\ job'[p] = job[p]
    BY <1>2, Went DEF Write, Locations, Steps
  <2>2. HomeShape' /\ file' = file
    BY <1>2, <1>0 DEF Write, HomeShape
  <2> QED
    BY <1>2, <2>1, <2>2 DEF WriteFits, Replacing, Write
<1>3. CASE Fill(p)
  <2> DEFINE next == IF Windows THEN "clear" ELSE "rename"
  <2>1. Goto(p, next) /\ UNCHANGED job
    BY <1>3 DEF Fill
  <2>2. next \in Steps /\ next \in {"clear", "rename"}
    BY DEF Locations, Steps
  <2> HIDE DEF next
  <2>4. JobShape' /\ pc'[p] = next /\ job'[p] = job[p]
    BY <1>3, <2>1, <2>2, Went DEF Fill
  <2>3. HomeShape' /\ file' = file /\ temp'[job[p].path] = job[p].value
    BY <1>0, <1>3 DEF Fill, HomeShape
  <2> QED
    BY <1>3, <2>2, <2>3, <2>4 DEF WriteFits, Replacing, Fill
<1>4. CASE WriteFails(p)
  <2>1. HomeShape'
    BY <1>4, <1>0 DEF WriteFails, HomeShape
  <2> QED
    BY <1>4, <2>1, Finished DEF WriteFails, WriteFits, Replacing
<1>5. CASE Clear(p)
  BY <1>5, ClearForms
<1>6. CASE Rename(p)
  BY <1>6, RenameForms
<1>7. CASE AfterNew(p)
  <2>1. HomeShape' /\ file' = file /\ temp' = temp
    BY <1>0, <1>7, HomeKept DEF AfterNew
  <2>2. CASE Finish(p)
    BY <2>1, <2>2, Finished DEF WriteFits, Replacing
  <2>3. CASE ~Finish(p)
    <3>1. PointAt(p, job[p].path) /\ Whole(job[p].path) /\ pc[p] = "after"
      BY <1>7, <2>3 DEF AfterNew
    <3>2. job[p].path \in Names
      BY <1>0, <1>7 DEF AfterNew, JobShape, Paths
    <3> QED
      BY <2>1, <3>1, <3>2, Pointed, WholeForms, SentinelAssumption DEF WriteFits
  <2> QED
    BY <2>2, <2>3
<1>8. CASE AfterReplace(p) \/ AfterDefault(p) \/ Open(p) \/ \E w \in Passes : StoreKey(p, w)
  <2>1. Finish(p) /\ UNCHANGED home /\ UNCHANGED <<backups, envelopes>>
    BY <1>8 DEF AfterReplace, AfterDefault, Open, StoreKey
  <2>2. HomeShape' /\ file' = file
    BY <1>0, <2>1, HomeKept
  <2> QED
    BY <2>1, <2>2, Finished DEF WriteFits, Replacing
<1>9. CASE Unpoint(p)
  <2>1. /\ file' = [file EXCEPT ![DefaultFile] = IF @ = job[p].path THEN None ELSE @]
        /\ UNCHANGED <<temp, backups, envelopes>> /\ pc[p] = "unpoint"
    BY <1>9 DEF Unpoint
  <2>2. \A n \in Names : file'[n] = file[n]
    BY <2>1, SentinelAssumption DEF HomeShape, Paths
  <2>3. HomeShape'
    BY <2>1, <2>2 DEF HomeShape, Paths
  <2>4. CASE Finish(p)
    BY <2>3, <2>4, Finished DEF WriteFits, Replacing
  <2>5. CASE ~Finish(p)
    <3>1. PICK n \in Listed : PointAt(p, n)
      BY <1>9, <2>5 DEF Unpoint
    <3>2. n \in Names /\ file[n] \in Record
      BY <3>1, WholeForms DEF Listed
    <3> QED
      BY <2>1, <2>2, <2>3, <3>1, <3>2, Pointed, SentinelAssumption DEF WriteFits
  <2> QED
    BY <2>4, <2>5
<1> QED
  BY <1>1, <1>2, <1>3, <1>4, <1>5, <1>6, <1>7, <1>8, <1>9 DEF Continue, Place

LEMMA Step ==
    ASSUME IInv, OneProcess, [Next]_vars
    PROVE  IInv'
<1> USE DEF IInv, OneProcess
<1>1. ASSUME NEW p \in Procs, Lock(p) PROVE IInv'
  BY <1>1, HomeKept DEF Lock, HomeShape, JobShape, WriteFits
<1>2. ASSUME NEW p \in Procs, Crash(p) PROVE IInv'
  BY <1>2, HomeKept, Finished DEF Crash, HomeShape, WriteFits, Replacing
<1>3. CASE UNCHANGED vars
  BY <1>3 DEF vars, HomeShape, JobShape, WriteFits
<1> QED
  BY <1>1, <1>2, <1>3, BeginKeeps, ContinueKeeps DEF Next

LEMMA Start == Init => IInv
<1> SUFFICES ASSUME Init PROVE IInv
  OBVIOUS
<1>1. HomeShape
  BY BoundAssumption DEF Init, HomeShape, Paths
<1>2. JobShape
  BY DEF Init, JobShape, Locations, Steps
<1>3. \A p \in Procs : WriteFits(p)
  BY DEF Init, WriteFits, Replacing
<1> QED
  BY <1>1, <1>2, <1>3 DEF IInv

\* A reader never finds half a file, wherever the process ended (atomic_write).
THEOREM WholeFiles ==
    ASSUME OneProcess
    PROVE  Spec => []FilesAreWhole
<1>1. IInv => FilesAreWhole
  BY RecordsAreValues, SentinelAssumption DEF IInv, HomeShape, FilesAreWhole, Paths
<1>2. IInv /\ [Next]_vars => IInv'
  BY Step
<1> QED
  BY <1>1, <1>2, Start, PTL DEF Spec

----------------------------------------------------------------------------
\* A step that changes the file of one wallet, seen as a step of the map.
LEMMA OneWallet ==
    ASSUME HomeShape, NEW n \in Names, NEW r, file' = [file EXCEPT ![n] = r]
    PROVE  /\ [m \in Names |-> file[m]]' = [[m \in Names |-> file[m]] EXCEPT ![n] = r]
           /\ file'[DefaultFile] = file[DefaultFile]
BY SentinelAssumption DEF HomeShape, Paths

LEMMA OnlyPointer ==
    ASSUME HomeShape, NEW d, file' = [file EXCEPT ![DefaultFile] = d]
    PROVE  /\ UNCHANGED [m \in Names |-> file[m]]
           /\ file'[DefaultFile] = d
BY SentinelAssumption DEF HomeShape, Paths

LEMMA BeginMaps ==
    ASSUME IInv, NEW p \in Procs, Begin(p)
    PROVE  [Map!Next]_(Map!mapVars)
<1>1. file' = file \/ \E n \in Names : Delete(p, n)
  BY DEF Begin, AddWatch, Import, Attach, Detach, Backup, SetDefault, Reprotect, DeriveKey,
         Restore, Release, Enrol, Disable, home
<1>2. CASE file' = file
  BY <1>2 DEF Map!mapVars
<1>3. ASSUME NEW n \in Names, Delete(p, n) PROVE Map!Next
  <2>1. file' = [file EXCEPT ![n] = None]
    BY <1>3 DEF Delete
  <2>2. Map!Remove(n)
    BY <2>1, OneWallet DEF Map!Remove, IInv
  <2> QED
    BY <2>2 DEF Map!Next
<1> QED
  BY <1>1, <1>2, <1>3

LEMMA ContinueMaps ==
    ASSUME IInv, OneProcess, ~Windows, NEW p \in Procs, Continue(p)
    PROVE  [Map!Next]_(Map!mapVars)
<1>1. file' = file \/ Clear(p) \/ Rename(p) \/ Unpoint(p)
  BY DEF Continue, Place, Save, Write, Fill, WriteFails, AfterNew, AfterReplace, AfterDefault, Open,
         StoreKey, home
<1>2. CASE file' = file
  BY <1>2 DEF Map!mapVars
<1>3. CASE Clear(p)
  BY <1>3 DEF Clear, IInv, JobShape, Steps
<1>4. CASE Rename(p)
  <2>1. ASSUME NEW n \in Names, NEW r \in Record, file' = [file EXCEPT ![n] = r],
               file[n] = None \/ (file[n] \in Record /\ file[n].address = r.address)
        PROVE  Map!Next
    <3>1. Map!Create(n, r) \/ Map!Replace(n, r)
      BY <2>1, OneWallet, RecordsAreValues DEF Map!Create, Map!Replace, IInv
    <3> QED
      BY <3>1 DEF Map!Next
  <2>2. ASSUME NEW n \in Names, file[n] \in Record, file' = [file EXCEPT ![DefaultFile] = n]
        PROVE  Map!Next
    <3>1. Map!Point(n)
      BY <2>2, OnlyPointer, RecordsAreValues DEF Map!Point, IInv
    <3> QED
      BY <3>1 DEF Map!Next
  <2> QED
    BY <1>2, <1>4, <2>1, <2>2, RenameForms
<1>5. CASE Unpoint(p)
  <2>1. CASE file[DefaultFile] = job[p].path
    <3>1. file' = [file EXCEPT ![DefaultFile] = None]
      BY <1>5, <2>1 DEF Unpoint, IInv, HomeShape, Paths
    <3>2. Map!Point(None)
      BY <3>1, OnlyPointer DEF Map!Point, IInv
    <3> QED
      BY <3>2 DEF Map!Next
  <2>2. CASE file[DefaultFile] # job[p].path
    <3>1. file' = file
      BY <1>5, <2>2 DEF Unpoint, IInv, HomeShape, Paths
    <3> QED
      BY <3>1 DEF Map!mapVars
  <2> QED
    BY <2>1, <2>2
<1> QED
  BY <1>1, <1>2, <1>3, <1>4, <1>5

LEMMA StepMaps ==
    ASSUME IInv, OneProcess, ~Windows, [Next]_vars
    PROVE  [Map!Next]_(Map!mapVars)
<1>1. ASSUME NEW p \in Procs, Lock(p) \/ Crash(p) PROVE UNCHANGED Map!mapVars
  BY <1>1 DEF Lock, Crash, home, Map!mapVars
<1>2. CASE UNCHANGED vars
  BY <1>2 DEF vars, Map!mapVars
<1> QED
  BY <1>1, <1>2, BeginMaps, ContinueMaps DEF Next

LEMMA StartMaps == Init => Map!Init
<1> SUFFICES ASSUME Init PROVE Map!Init
  OBVIOUS
<1> QED
  BY DEF Init, Map!Init, Paths

\* However an operation is cut short, the files of the only process implement the map
\* of whole records: atomic_write's temporary files and the order of the steps of save,
\* set_default and delete do not show.
THEOREM FilesImplementMap ==
    ASSUME OneProcess, ~Windows
    PROVE  Spec => ImplementsMap
<1>1. IInv /\ [Next]_vars => IInv'
  BY Step
<1>2. IInv /\ [Next]_vars => [Map!Next]_(Map!mapVars)
  BY StepMaps
<1> QED
  BY <1>1, <1>2, Start, StartMaps, PTL DEF Spec, ImplementsMap, Map!Spec

----------------------------------------------------------------------------
\* With any number of processes: the shape of the files and of the work.
WorkShape ==
    /\ DOMAIN file = Paths
    /\ pc \in [Procs -> Locations \ {"clear"}]
    /\ DOMAIN job = Procs

LEMMA WorkStep ==
    ASSUME WorkShape, ~Windows, [Next]_vars
    PROVE  WorkShape'
<1> USE DEF WorkShape
<1>1. ASSUME NEW p \in Procs, NEW l \in Locations \ {"clear"}, Goto(p, l)
      PROVE  pc' \in [Procs -> Locations \ {"clear"}]
  BY <1>1 DEF Goto
<1>2. ASSUME NEW p \in Procs, Finish(p) PROVE pc' \in [Procs -> Locations \ {"clear"}] /\ DOMAIN job' = Procs
  BY <1>2 DEF Finish, Goto, Locations
<1>3. ASSUME NEW p \in Procs, NEW l, NEW op, NEW path, NEW value, NEW overwrite, NEW point,
             NEW key, Work(p, l, op, path, value, overwrite, point, key),
             l \in Locations \ {"clear"}
      PROVE  pc' \in [Procs -> Locations \ {"clear"}] /\ DOMAIN job' = Procs
  BY <1>3 DEF Work, Goto
<1>4. ASSUME NEW p \in Procs, NEW n, PointAt(p, n)
      PROVE  pc' \in [Procs -> Locations \ {"clear"}] /\ DOMAIN job' = Procs
  BY <1>4 DEF PointAt, Goto, Locations
<1>5. ASSUME NEW p \in Procs, Begin(p) PROVE WorkShape'
  BY <1>3, <1>5 DEF Begin, AddWatch, Import, Attach, Detach, Backup, SetDefault, Delete,
     Reprotect, DeriveKey, Restore, Release, Enrol, Disable, home, Locations
<1>6. ASSUME NEW p \in Procs, Continue(p) PROVE WorkShape'
  <2>1. DOMAIN file' = Paths
    BY <1>6 DEF Continue, Place, Save, Write, Fill, WriteFails, Clear, Rename, AfterNew, AfterReplace,
       AfterDefault, Unpoint, Open, StoreKey, home
  <2>2. \/ Finish(p)
        \/ \E n : PointAt(p, n)
        \/ UNCHANGED job /\ \E l \in Locations \ {"clear"} : Goto(p, l)
    BY <1>6 DEF Continue, Place, Save, Write, Fill, WriteFails, Clear, Rename, AfterNew, AfterReplace,
       AfterDefault, Unpoint, Open, StoreKey, Locations
  <2> QED
    BY <1>1, <1>2, <1>4, <2>1, <2>2
<1>7. ASSUME NEW p \in Procs, Lock(p) \/ Crash(p) PROVE WorkShape'
  BY <1>2, <1>7 DEF Lock, Crash, home
<1> QED
  BY <1>5, <1>6, <1>7 DEF Next, vars

LEMMA Removes ==
    ASSUME WorkShape, ~Windows, [Next]_vars, NEW n \in Names, file[n] # None, file'[n] = None
    PROVE  \E p \in Procs : job'[p] # NoJob /\ job'[p].op = "delete" /\ job'[p].path = n
<1> USE DEF WorkShape
<1>1. ASSUME NEW p \in Procs, NEW m \in Names, Delete(p, m)
      PROVE  m = n /\ job'[p] # NoJob /\ job'[p].op = "delete" /\ job'[p].path = n
  <2>1. file' = [file EXCEPT ![m] = None]
    BY <1>1 DEF Delete
  <2>2. m = n
    BY <2>1 DEF Paths
  <2> DEFINE j == [op |-> "delete", path |-> m, value |-> None, overwrite |-> FALSE,
                   point |-> file[DefaultFile] = m, key |-> 0]
  <2>3. job'[p] = j /\ "delete" \in Operations
    BY <1>1 DEF Delete, Work
  <2>4. j \in Job
    BY <2>3, BoundAssumption DEF Job, Paths
  <2>5. j.op = "delete" /\ j.path = m
    OBVIOUS
  <2> HIDE DEF j
  <2>6. j # NoJob
    BY <2>4, SentinelAssumption DEF NoJob
  <2> QED
    BY <2>2, <2>3, <2>5, <2>6
<1>2. ASSUME NEW p \in Procs, Begin(p) PROVE \E m \in Names : Delete(p, m)
  BY <1>2 DEF Begin, AddWatch, Import, Attach, Detach, Backup, SetDefault, Reprotect,
     DeriveKey, Restore, Release, Enrol, Disable, home
<1>3. ASSUME NEW p \in Procs, Continue(p) PROVE FALSE
  <2>1. file' = file \/ Clear(p) \/ Rename(p) \/ Unpoint(p)
    BY <1>3 DEF Continue, Place, Save, Write, Fill, WriteFails, AfterNew, AfterReplace, AfterDefault,
       Open, StoreKey, home
  <2>2. ~Clear(p)
    BY DEF Clear
  <2>3. CASE Rename(p)
    <3>1. \/ file' = file
          \/ /\ file' = [file EXCEPT ![job[p].path] = temp[job[p].path]]
             /\ temp[job[p].path] # None
      BY <2>3 DEF Rename, home
    <3> QED
      BY <3>1 DEF Paths
  <2>4. CASE Unpoint(p)
    BY <2>4, SentinelAssumption DEF Unpoint, Paths
  <2> QED
    BY <2>1, <2>2, <2>3, <2>4
<1>4. ASSUME NEW p \in Procs, Lock(p) \/ Crash(p) PROVE FALSE
  BY <1>4 DEF Lock, Crash, home
<1> QED
  BY <1>1, <1>2, <1>3, <1>4 DEF Next, vars

\* However many processes share the home and wherever they end, a wallet's file
\* disappears in delete only (atomic_write renames over the old file).
THEOREM OnlyDelete ==
    ASSUME ~Windows
    PROVE  Spec => OnlyDeletionRemoves
<1>1. Init => WorkShape
  BY DEF Init, WorkShape, Locations
<1>2. WorkShape /\ [Next]_vars => WorkShape'
  BY WorkStep
<1>3. WorkShape /\ [Next]_vars =>
        [\A n \in Names : file[n] # None /\ file'[n] = None
           => \E p \in Procs : job'[p] # NoJob /\ job'[p].op = "delete"
                                /\ job'[p].path = n]_vars
  BY Removes
<1> QED
  BY <1>1, <1>2, <1>3, PTL DEF Spec, OnlyDeletionRemoves

----------------------------------------------------------------------------
\* One passcode opens every signer, the one about to be written included.
OnePasscodeFits == OnePasscode /\ \A p \in Procs : PasscodeFits(p)

LEMMA SigningForms ==
    ASSUME HomeShape
    PROVE  Signing = {m \in Names : file[m] \in Record /\ file[m].pass # None}
BY WholeForms DEF Signing, Listed, WatchOnly

\* What has been validated before a signer is written.
LEMMA ValidPasscode ==
    ASSUME NEW w, ValidAppPasscode(w)
    PROVE  \A m \in Signing : file[m].pass = w
BY DEF ValidAppPasscode, Opens

LEMMA PasscodeBegin ==
    ASSUME IInv, OnePasscodeFits, OneProcess, "reprotect" \notin Operations,
           NEW p \in Procs, Begin(p)
    PROVE  OnePasscodeFits'
<1> USE DEF OneProcess
<1> DEFINE Same == file' = file
<1>1. ASSUME NEW n \in Names, NEW r, NEW l, NEW op, NEW overwrite, NEW point, NEW key,
             Work(p, l, op, n, r, overwrite, point, key), Same,
             r.pass = None \/ \A m \in Signing : file[m].pass = r.pass
      PROVE  OnePasscodeFits'
  <2>1. job'[p].path = n /\ job'[p].value = r
    BY <1>1 DEF Work, IInv, JobShape
  <2>2. Signing' = Signing
    BY <1>1 DEF Signing, Listed, Whole, WatchOnly
  <2> QED
    BY <1>1, <2>1, <2>2 DEF OnePasscodeFits, OnePasscode, PasscodeFits
<1>2. ASSUME NEW n \in Names, NEW a \in Addresses, NEW point \in BOOLEAN, AddWatch(p, n, a, point)
      PROVE  OnePasscodeFits'
  <2>1. WatchRecord(a).pass = None
    BY DEF WatchRecord
  <2> QED
    BY <1>1, <1>2, <2>1 DEF AddWatch, home
<1>3. ASSUME NEW n \in Names, NEW a \in Addresses, NEW w \in Passes, NEW point \in BOOLEAN,
             Import(p, n, a, w, point)
      PROVE  OnePasscodeFits'
  <2> DEFINE r == ProtectedRecord(a, w, envelopes + 1)
  <2>1. r.pass = w
    BY DEF ProtectedRecord
  <2>2. Work(p, "save", "import", n, r, FALSE, point, 0) /\ ValidAppPasscode(w) /\ Same
    BY <1>3 DEF Import, home
  <2> HIDE DEF r
  <2> QED
    BY <1>1, <2>1, <2>2, ValidPasscode
<1>4. ASSUME NEW n \in Names, NEW a \in Addresses, NEW w \in Passes, Attach(p, n, a, w)
      PROVE  OnePasscodeFits'
  <2> DEFINE r == AttachedRecord(file[n], w, envelopes + 1)
  <2>1. r.pass = w
    BY <1>4, WholeForms DEF AttachedRecord, Attach, Record, IInv
  <2>2. Work(p, "save", "attach", n, r, TRUE, FALSE, 0) /\ ValidAppPasscode(w) /\ Same
    BY <1>4 DEF Attach, home
  <2> HIDE DEF r
  <2> QED
    BY <1>1, <2>1, <2>2, ValidPasscode
<1>5. ASSUME NEW n \in Names, Detach(p, n) PROVE OnePasscodeFits'
  <2>1. DetachedRecord(file[n]).pass = None
    BY <1>5, WholeForms, DetachedForms DEF Detach, IInv
  <2> QED
    BY <1>1, <1>5, <2>1 DEF Detach, home
<1>6. ASSUME NEW n \in Names, NEW r \in backups, NEW w \in Passes, NEW point \in BOOLEAN,
             Restore(p, n, r, w, point)
      PROVE  OnePasscodeFits'
  <2>1. r.pass = None \/ \A m \in Signing : file[m].pass = r.pass
    BY <1>6, ValidPasscode DEF Restore, Restorable, WatchOnly, HasAppPasscode, Opens
  <2> QED
    BY <1>1, <1>6, <2>1 DEF Restore, home
<1>7. ASSUME NEW n \in Names, SetDefault(p, n) PROVE OnePasscodeFits'
  <2>1. Work(p, "write", "default", DefaultFile, n, TRUE, FALSE, 0) /\ Same
    BY <1>7 DEF SetDefault, home
  <2>2. job'[p].path = DefaultFile
    BY <2>1 DEF Work, IInv, JobShape
  <2>3. Signing' = Signing
    BY <2>1 DEF Signing, Listed, Whole, WatchOnly
  <2> QED
    BY <2>1, <2>2, <2>3, SentinelAssumption DEF OnePasscodeFits, OnePasscode, PasscodeFits
<1>8. ASSUME NEW n \in Names, Delete(p, n) PROVE OnePasscodeFits'
  <2>1. /\ file' = [file EXCEPT ![n] = None]
        /\ pc'[p] = "unpoint"
    BY <1>8 DEF Delete, Work, Goto, IInv, JobShape
  <2>2. \A m \in Signing' : m \in Signing /\ file'[m] = file[m]
    BY <2>1 DEF Signing, Listed, Whole, WatchOnly, IInv, HomeShape, Paths
  <2> QED
    BY <2>1, <2>2 DEF OnePasscodeFits, OnePasscode, PasscodeFits, Replacing
<1>9. ASSUME NEW n \in Names, Backup(p, n) \/ Disable(p, n) PROVE OnePasscodeFits'
  BY <1>9 DEF Backup, Disable, home, OnePasscodeFits, OnePasscode, PasscodeFits, Signing,
     Listed, Whole, WatchOnly
<1>10. ASSUME NEW n \in Names, NEW w \in Passes,
              DeriveKey(p, n, w)
       PROVE  OnePasscodeFits'
  <2>1. Same /\ pc'[p] \in {"open", "enrol"}
    BY <1>10 DEF DeriveKey, Work, Goto, home, IInv, JobShape
  <2>2. Signing' = Signing
    BY <2>1 DEF Signing, Listed, Whole, WatchOnly
  <2> QED
    BY <2>1, <2>2 DEF OnePasscodeFits, OnePasscode, PasscodeFits, Replacing
<1>11. \A n \in Names, w \in Passes : ~Reprotect(p, n, w)
  BY DEF Reprotect, Work
<1>12. ASSUME NEW n \in Names, Release(p, n) \/ Enrol(p, n) PROVE OnePasscodeFits'
  <2>1. Same /\ pc'[p] \in {"open", "enrol"}
    BY <1>12 DEF Release, Enrol, Work, Goto, home, IInv, JobShape
  <2>2. Signing' = Signing
    BY <2>1 DEF Signing, Listed, Whole, WatchOnly
  <2> QED
    BY <2>1, <2>2 DEF OnePasscodeFits, OnePasscode, PasscodeFits, Replacing
<1> QED
  BY <1>2, <1>3, <1>4, <1>5, <1>6, <1>7, <1>8, <1>9, <1>10, <1>11, <1>12 DEF Begin

LEMMA PasscodeContinue ==
    ASSUME IInv, OnePasscodeFits, OneProcess, NEW p \in Procs, Continue(p)
    PROVE  OnePasscodeFits'
<1> USE DEF OneProcess
<1>1. ASSUME file' = file, pc'[p] \notin Replacing \/ job'[p].path \notin Names
             \/ (pc[p] \in Replacing /\ job'[p] = job[p])
      PROVE  OnePasscodeFits'
  <2>1. Signing' = Signing
    BY <1>1 DEF Signing, Listed, Whole, WatchOnly
  <2> QED
    BY <1>1, <2>1 DEF OnePasscodeFits, OnePasscode, PasscodeFits
<1>2. ASSUME Finish(p) PROVE pc'[p] \notin Replacing
  BY <1>2, Finished DEF Replacing, IInv
<1>3. ASSUME NEW n, PointAt(p, n), pc[p] # "idle" PROVE job'[p].path \notin Names
  BY <1>3, SentinelAssumption DEF PointAt, IInv, JobShape, Fields
<1>4. CASE Save(p) \/ Write(p) \/ Fill(p)
  <2>1. file' = file /\ pc[p] \in Replacing /\ (Finish(p) \/ job' = job)
    BY <1>4 DEF Save, Write, Fill, Replacing, home
  <2> QED
    BY <1>1, <1>2, <2>1
<1>5. CASE WriteFails(p) \/ AfterReplace(p) \/ AfterDefault(p) \/ Open(p) \/ \E w \in Passes : StoreKey(p, w)
  BY <1>1, <1>2, <1>5 DEF WriteFails, AfterReplace, AfterDefault, Open, StoreKey, home
<1>6. CASE AfterNew(p)
  BY <1>1, <1>2, <1>3, <1>6 DEF AfterNew, home
<1>7. CASE Clear(p)
  <2>1. /\ file' = [file EXCEPT ![job[p].path] = None]
        /\ pc[p] \in Replacing /\ job' = job
    BY <1>7 DEF Clear, Replacing
  <2>2. \A m \in Signing' : m \in Signing /\ file'[m] = file[m]
    BY <2>1 DEF Signing, Listed, Whole, WatchOnly, IInv, HomeShape, Paths
  <2> QED
    BY <2>1, <2>2 DEF OnePasscodeFits, OnePasscode, PasscodeFits
<1>8. CASE Unpoint(p)
  <2>1. pc[p] # "idle" /\ \A n \in Names : file'[n] = file[n]
    BY <1>8, SentinelAssumption DEF Unpoint, IInv, HomeShape, Paths
  <2>2. Signing' = Signing
    BY <2>1 DEF Signing, Listed, Whole, WatchOnly
  <2>3. pc'[p] \notin Replacing \/ job'[p].path \notin Names
    BY <1>2, <1>3, <1>8, <2>1 DEF Unpoint
  <2>4. \A m \in Signing : file'[m] = file[m]
    BY <2>1 DEF Signing, Listed
  <2> QED
    BY <2>2, <2>3, <2>4 DEF OnePasscodeFits, OnePasscode, PasscodeFits
<1>9. CASE Rename(p)
  <2>1. pc'[p] \notin Replacing
    BY <1>2, <1>9 DEF Rename, Goto, Replacing, IInv, JobShape
  <2>2. CASE file' = file
    BY <1>1, <2>1, <2>2
  <2>3. ASSUME NEW n \in Names, job[p].path = n, file' = [file EXCEPT ![n] = job[p].value],
               job[p].value \in Record
        PROVE  OnePasscodeFits'
    <3>1. \A m \in Signing' : m # n => m \in Signing /\ file'[m] = file[m]
      BY <2>3 DEF Signing, Listed, Whole, WatchOnly, IInv, HomeShape, Paths
    <3>2. n \in Signing' => file'[n] = job[p].value /\ job[p].value.pass # None
      BY <2>3 DEF Signing, Listed, WatchOnly, IInv, HomeShape, Paths
    <3>3. job[p].value.pass # None => \A m \in Signing \ {n} : file[m].pass = job[p].value.pass
      BY <1>9, <2>3 DEF OnePasscodeFits, PasscodeFits, Rename, Replacing
    <3>4. OnePasscode'
      BY <3>1, <3>2, <3>3 DEF OnePasscodeFits, OnePasscode
    <3> QED
      BY <2>1, <3>4 DEF OnePasscodeFits, PasscodeFits
  <2>4. ASSUME NEW d, file' = [file EXCEPT ![DefaultFile] = d] PROVE OnePasscodeFits'
    <3>1. \A n \in Names : file'[n] = file[n]
      BY <2>4, SentinelAssumption DEF IInv, HomeShape, Paths
    <3>2. Signing' = Signing
      BY <3>1 DEF Signing, Listed, Whole, WatchOnly
    <3>3. \A m \in Signing : file'[m] = file[m]
      BY <3>1 DEF Signing, Listed
    <3> QED
      BY <2>1, <3>2, <3>3 DEF OnePasscodeFits, OnePasscode, PasscodeFits
  <2> QED
    BY <1>9, <2>2, <2>3, <2>4, RenameForms
<1> QED
  BY <1>4, <1>5, <1>6, <1>7, <1>8, <1>9 DEF Continue, Place

LEMMA PasscodeStep ==
    ASSUME IInv, OnePasscodeFits, OneProcess, "reprotect" \notin Operations, [Next]_vars
    PROVE  OnePasscodeFits'
<1> USE DEF OneProcess, OnePasscodeFits, OnePasscode, PasscodeFits, Signing, Listed, Whole, WatchOnly
<1>1. ASSUME NEW p \in Procs, Lock(p) PROVE OnePasscodeFits'
  BY <1>1 DEF Lock, home
<1>2. ASSUME NEW p \in Procs, Crash(p) PROVE OnePasscodeFits'
  BY <1>2, Finished DEF Crash, home, Replacing, IInv
<1>3. CASE UNCHANGED vars
  BY <1>3 DEF vars
<1> QED
  BY <1>1, <1>2, <1>3, PasscodeBegin, PasscodeContinue DEF Next

\* validate_app_passcode: as long as no signer is re-protected on its own, one passcode
\* opens every signer of the only process's home.
THEOREM SignersShareAPasscode ==
    ASSUME OneProcess, "reprotect" \notin Operations
    PROVE  Spec => []OnePasscode
<1>1. Init => OnePasscodeFits
  BY SentinelAssumption DEF Init, OnePasscodeFits, OnePasscode, PasscodeFits, Replacing, Signing,
     Listed, Whole, Paths
<1>2. IInv /\ [Next]_vars => IInv'
  BY Step
<1>3. IInv /\ OnePasscodeFits /\ [Next]_vars => OnePasscodeFits'
  BY PasscodeStep
<1>4. OnePasscodeFits => OnePasscode
  BY DEF OnePasscodeFits
<1> QED
  BY <1>1, <1>2, <1>3, <1>4, Start, PTL DEF Spec

----------------------------------------------------------------------------
\* Sessions of any number of processes: only Open makes one.
KeysFit ==
    /\ session = [p \in Procs |-> session[p]]
    /\ SessionKeyFits

LEMMA SessionMoves ==
    ASSUME KeysFit, NEW p \in Procs, Begin(p) \/ Continue(p) \/ Lock(p) \/ Crash(p)
    PROVE  \/ session' = session
           \/ session' = [session EXCEPT ![p] = None]
           \/ Open(p)
<1>1. ASSUME NEW c, LockedIf(p, c)
      PROVE  session' = session \/ session' = [session EXCEPT ![p] = None]
  <2>1. session' = [session EXCEPT ![p] = IF c THEN None ELSE session[p]]
    BY <1>1 DEF LockedIf
  <2>2. CASE c
    BY <2>1, <2>2
  <2>3. CASE ~c
    BY <2>1, <2>3 DEF KeysFit
  <2> QED
    BY <2>2, <2>3
<1>2. CASE Begin(p)
  <2>1. session' = session \/ \E c : LockedIf(p, c)
    BY <1>2 DEF Begin, AddWatch, Import, Attach, Detach, Backup, SetDefault, Delete,
       Reprotect, DeriveKey, Restore, Release, Enrol, Disable
  <2> QED
    BY <1>1, <2>1
<1>3. CASE Continue(p)
  <2>1. session' = session \/ Open(p) \/ \E c : LockedIf(p, c)
    BY <1>3 DEF Continue, Place, Save, Write, Fill, WriteFails, Clear, Rename, AfterNew,
       AfterReplace, AfterDefault, Unpoint, StoreKey
  <2> QED
    BY <1>1, <2>1
<1>4. CASE Lock(p) \/ Crash(p)
  BY <1>4 DEF Lock, Crash
<1> QED
  BY <1>2, <1>3, <1>4

LEMMA KeysStep ==
    ASSUME KeysFit, [Next]_vars
    PROVE  KeysFit'
<1>1. ASSUME NEW p \in Procs, session' = [session EXCEPT ![p] = None] PROVE KeysFit'
  BY <1>1 DEF KeysFit, SessionKeyFits
<1>2. ASSUME NEW p \in Procs, Open(p) PROVE KeysFit'
  <2> DEFINE n == job[p].path
             new == [name |-> n, record |-> file[n], key |-> job[p].key]
  <2>1. \/ session' = [session EXCEPT ![p] = session[p]]
        \/ session' = [session EXCEPT ![p] = new] /\ job[p].key = file[n].envelope
    BY <1>2 DEF Open, KeyFits
  <2>2. new.key = job[p].key /\ new.record.envelope = file[n].envelope
    OBVIOUS
  <2> HIDE DEF new
  <2> QED
    BY <2>1, <2>2 DEF KeysFit, SessionKeyFits
<1>3. CASE session' = session
  BY <1>3 DEF KeysFit, SessionKeyFits
<1> QED
  BY <1>1, <1>2, <1>3, SessionMoves DEF Next, vars

\* client_system_unlock.py and validate_unlock_key: no interleaving of any number of
\* processes, on any platform, opens a session whose key is not that of its record.
THEOREM SessionKeysFit == Spec => []SessionKeyFits
<1>1. Init => KeysFit
  BY DEF Init, KeysFit, SessionKeyFits
<1>2. KeysFit /\ [Next]_vars => KeysFit'
  BY KeysStep
<1>3. KeysFit => SessionKeyFits
  BY DEF KeysFit
<1> QED
  BY <1>1, <1>2, <1>3, PTL DEF Spec

----------------------------------------------------------------------------
\* The session of the only process: its record is on disk, but for a re-protected signer's
\* from the removal or replacement of its file until AfterReplace locks it, and no other
\* replacement of its file is under way.
Holds(p) ==
    session[p] # None =>
        LET n == session[p].name
            r == session[p].record IN
        /\ n \in Names /\ r # None /\ ~WatchOnly(r)
        /\ \/ file[n] = r
           \/ /\ pc[p] = "after" \/ (pc[p] = "rename" /\ Windows)
              /\ job[p].op = "reprotect" /\ job[p].path = n
        /\ pc[p] \in Replacing /\ job[p].path = n /\ job[p].overwrite => job[p].op = "reprotect"

Current ==
    /\ session = [p \in Procs |-> session[p]]
    /\ \A p \in Procs : Holds(p) /\ (pc[p] = "open" => job[p].path \in Names)

LEMMA CurrentBegin ==
    ASSUME IInv, Current, OneProcess, NEW p \in Procs, Begin(p)
    PROVE  Current'
<1> USE DEF OneProcess
<1> DEFINE Held == session[p] # None => file[session[p].name] = session[p].record
\* A job that replaces no file of the session.
<1>1. ASSUME NEW l \in {"save", "open", "enrol"}, NEW op \in {"watch", "import", "attach",
             "detach", "reprotect", "restore", "unlock", "release", "enrol"},
             NEW n \in Names, NEW r, NEW overwrite \in BOOLEAN, NEW key,
             NEW point, Work(p, l, op, n, r, overwrite, point, key), file' = file,
             session' = session,
             session[p] # None /\ session[p].name = n /\ overwrite /\ l = "save" => op = "reprotect"
      PROVE  Current'
  <2>1. pc[p] = "idle" /\ pc'[p] = l /\ job'[p].op = op /\ job'[p].path = n
        /\ job'[p].overwrite = overwrite
    BY <1>1 DEF Work, Goto, IInv, JobShape
  <2> QED
    BY <1>1, <2>1 DEF Current, Holds, Replacing, WatchOnly
<1>2. ASSUME NEW n \in Names, NEW a \in Addresses, NEW point \in BOOLEAN,
             AddWatch(p, n, a, point) \/ \E w \in Passes : Import(p, n, a, w, point)
      PROVE  Current'
  BY <1>1, <1>2 DEF AddWatch, Import, home
<1>3. ASSUME NEW n \in Names, NEW a \in Addresses, NEW w \in Passes, Attach(p, n, a, w)
      PROVE  Current'
  <2>1. WatchOnly(file[n]) /\ pc[p] = "idle"
    BY <1>3 DEF Attach, MayAttach, Work
  <2>2. session[p] # None => session[p].name # n
    BY <2>1 DEF Current, Holds
  <2> QED
    BY <1>1, <1>3, <2>2 DEF Attach, home
<1>4. ASSUME NEW n \in Names, Detach(p, n) PROVE Current'
  <2>1. pc[p] = "idle" /\ pc'[p] = "save" /\ job'[p].path = n /\ file' = file
    BY <1>4 DEF Detach, Work, Goto, home, IInv, JobShape
  <2>2. session' = [session EXCEPT ![p] = IF OfSession(p, n) THEN None ELSE session[p]]
    BY <1>4 DEF Detach, LockedIf
  <2>3. session'[p] # None => session'[p] = session[p] /\ session[p].name # n
    BY <2>2 DEF OfSession, Current
  <2> QED
    BY <2>1, <2>2, <2>3 DEF Current, Holds, WatchOnly
<1>5. ASSUME NEW n \in Names, NEW w \in Passes, Reprotect(p, n, w) PROVE Current'
  BY <1>1, <1>5 DEF Reprotect, home
<1>6. ASSUME NEW n \in Names, NEW r \in backups, NEW w \in Passes, NEW point \in BOOLEAN,
             Restore(p, n, r, w, point)
      PROVE  Current'
  BY <1>1, <1>6 DEF Restore, home
<1>7. ASSUME NEW n \in Names, SetDefault(p, n) PROVE Current'
  <2>1. /\ pc[p] = "idle" /\ pc'[p] = "write" /\ job'[p].path = DefaultFile
        /\ file' = file /\ session' = session
    BY <1>7 DEF SetDefault, Work, Goto, home, IInv, JobShape
  <2> QED
    BY <2>1, SentinelAssumption DEF Current, Holds, WatchOnly
<1>8. ASSUME NEW n \in Names, Delete(p, n) PROVE Current'
  <2>1. pc[p] = "idle" /\ pc'[p] = "unpoint" /\ file' = [file EXCEPT ![n] = None]
    BY <1>8 DEF Delete, Work, Goto, IInv, JobShape
  <2>2. session' = [session EXCEPT ![p] = IF OfSession(p, n) THEN None ELSE session[p]]
    BY <1>8 DEF Delete, LockedIf
  <2>3. session'[p] # None => session'[p] = session[p] /\ session[p].name # n
    BY <2>2 DEF OfSession, Current
  <2>4. \A m \in Names : m # n => file'[m] = file[m]
    BY <2>1 DEF IInv, HomeShape, Paths
  <2> QED
    BY <2>1, <2>2, <2>3, <2>4 DEF Current, Holds, WatchOnly, Replacing
<1>9. ASSUME NEW n \in Names, Backup(p, n) \/ Disable(p, n) PROVE Current'
  BY <1>9 DEF Backup, Disable, home, Current, Holds, WatchOnly
<1>10. ASSUME NEW n \in Names,
              Release(p, n) \/ Enrol(p, n) \/ \E w \in Passes : DeriveKey(p, n, w)
       PROVE  Current'
  BY <1>1, <1>10 DEF Release, Enrol, DeriveKey, home
<1> QED
  BY <1>2, <1>3, <1>4, <1>5, <1>6, <1>7, <1>8, <1>9, <1>10 DEF Begin

LEMMA CurrentContinue ==
    ASSUME IInv, Current, OneProcess, NEW p \in Procs, Continue(p)
    PROVE  Current'
<1> USE DEF OneProcess
<1> DEFINE SameWallets == \A n \in Names : file'[n] = file[n]
           SameSession == session' = session
\* The process goes on with its job, finishes, or writes the pointer next.
<1>1. ASSUME SameWallets, SameSession, pc[p] \in Replacing \ {"rename"}, pc'[p] \in Replacing,
             job' = job
      PROVE  Current'
  BY <1>1 DEF Current, Holds, WatchOnly, Replacing
<1>2. ASSUME Finish(p) PROVE pc'[p] = "idle"
  BY <1>2, Finished DEF IInv
<1>3. ASSUME SameWallets, SameSession, pc'[p] = "idle",
             session[p] # None => file[session[p].name] = session[p].record
      PROVE  Current'
  BY <1>3 DEF Current, Holds, WatchOnly, Replacing
<1>4. ASSUME SameWallets, SameSession, NEW n, PointAt(p, n), pc[p] # "idle",
             session[p] # None => file[session[p].name] = session[p].record
      PROVE  Current'
  <2>1. pc'[p] = "write" /\ job'[p].path = DefaultFile
    BY <1>4 DEF PointAt, Goto, IInv, JobShape, Fields
  <2> QED
    BY <1>4, <2>1, SentinelAssumption DEF Current, Holds, WatchOnly
<1>5. ASSUME NEW c, LockedIf(p, c), SameWallets, pc'[p] = "idle",
             ~c /\ session[p] # None => file[session[p].name] = session[p].record
      PROVE  Current'
  <2>1. session' = [session EXCEPT ![p] = IF c THEN None ELSE session[p]]
    BY <1>5 DEF LockedIf
  <2> QED
    BY <1>5, <2>1 DEF Current, Holds, WatchOnly, Replacing
<1>6. CASE Save(p) \/ Write(p) \/ Fill(p) \/ WriteFails(p)
  <2>1. pc[p] \in Replacing \ {"rename"} /\ file' = file /\ SameSession
    BY <1>6 DEF Save, Write, Fill, WriteFails, Replacing, home
  <2>2. Finish(p) \/ (job' = job /\ pc'[p] \in Replacing)
    BY <1>6 DEF Save, Write, Fill, WriteFails, Replacing, Goto, IInv, JobShape
  <2>3. session[p] # None => file[session[p].name] = session[p].record
    BY <2>1 DEF Current, Holds, Replacing
  <2> QED
    BY <1>1, <1>2, <1>3, <2>1, <2>2, <2>3
<1>7. CASE Clear(p)
  <2>1. /\ pc[p] = "clear" /\ pc'[p] = "rename" /\ Windows /\ job' = job /\ SameSession
        /\ file' = [file EXCEPT ![job[p].path] = None]
    BY <1>7 DEF Clear, Goto, IInv, JobShape, Steps
  <2>2. \A n \in Names : n # job[p].path => file'[n] = file[n]
    BY <2>1 DEF IInv, HomeShape, Paths
  <2>3. session[p] # None =>
           /\ file[session[p].name] = session[p].record
           /\ job[p].path = session[p].name /\ job[p].overwrite => job[p].op = "reprotect"
    BY <2>1 DEF Current, Holds, Replacing
  <2>4. job[p].path \in Names /\ ~job[p].overwrite => file[job[p].path] = None
    BY <2>1 DEF IInv, WriteFits, Replacing
  <2>5. session[p] # None /\ session[p].name = job[p].path => job[p].op = "reprotect"
    BY <2>3, <2>4 DEF Current, Holds
  <2> QED
    BY <2>1, <2>2, <2>3, <2>5 DEF Current, Holds, WatchOnly, Replacing
<1>8. CASE Rename(p)
  <2>1. pc[p] = "rename" /\ SameSession
    BY <1>8 DEF Rename
  <2>2. Finish(p) \/ (job' = job /\ pc'[p] = "after")
    BY <1>8 DEF Rename, Goto, IInv, JobShape
  <2>3. session[p] # None =>
           /\ \/ file[session[p].name] = session[p].record
              \/ job[p].op = "reprotect" /\ job[p].path = session[p].name
           /\ job[p].path = session[p].name /\ job[p].overwrite => job[p].op = "reprotect"
    BY <2>1 DEF Current, Holds, Replacing
  <2>4. job[p].path \in Names /\ ~job[p].overwrite => file[job[p].path] = None
    BY <2>1 DEF IInv, WriteFits, Replacing
  <2>5. job[p].path \in Names => job' = job /\ pc'[p] = "after"
    <3>1. job[p].path \in Names => temp[job[p].path] # None
      BY <2>1, RecordsAreValues DEF IInv, WriteFits, Replacing
    <3> QED
      BY <1>8, <3>1 DEF Rename, Goto, IInv, JobShape
  <2>6. session[p] # None =>
           \/ file[session[p].name] = session[p].record
           \/ job[p].op = "reprotect" /\ job[p].path = session[p].name /\ job' = job /\ pc'[p] = "after"
    BY <2>3, <2>5 DEF Current, Holds
  <2>7. CASE file' = file
    BY <1>2, <2>1, <2>2, <2>7, <2>6 DEF Current, Holds, WatchOnly, Replacing
  <2>8. ASSUME NEW n \in Names, job[p].path = n, file' = [file EXCEPT ![n] = job[p].value],
               job' = job /\ pc'[p] = "after"
        PROVE  Current'
    <3>1. \A m \in Names : m # n => file'[m] = file[m]
      BY <2>8 DEF IInv, HomeShape, Paths
    <3>2. session[p] # None /\ session[p].name = n => job[p].op = "reprotect"
      BY <2>3, <2>4, <2>8 DEF Current, Holds
    <3> QED
      BY <2>1, <2>3, <2>8, <3>1, <3>2 DEF Current, Holds, WatchOnly, Replacing
  <2>9. ASSUME NEW d, file' = [file EXCEPT ![DefaultFile] = d] PROVE Current'
    <3>1. SameWallets
      BY <2>9, SentinelAssumption DEF IInv, HomeShape, Paths
    <3> QED
      BY <1>2, <2>1, <2>2, <2>6, <3>1 DEF Current, Holds, WatchOnly, Replacing
  <2>10. \/ file' = file
         \/ \E n \in Names : job[p].path = n /\ file' = [file EXCEPT ![n] = job[p].value]
         \/ \E d : file' = [file EXCEPT ![DefaultFile] = d]
    BY <1>8, RenameForms
  <2>11. file' = file \/ (job' = job /\ pc'[p] = "after")
    BY <1>8 DEF Rename, Goto, home, IInv, JobShape
  <2>12. ASSUME NEW n \in Names, job[p].path = n, file' = [file EXCEPT ![n] = job[p].value]
         PROVE  Current'
    <3>1. CASE file' = file
      BY <2>7, <3>1
    <3>2. CASE job' = job /\ pc'[p] = "after"
      BY <2>8, <2>12, <3>2
    <3> QED
      BY <2>11, <3>1, <3>2
  <2> QED
    BY <2>7, <2>9, <2>10, <2>12
<1>9. CASE AfterNew(p) \/ Unpoint(p)
  <2>1. SameWallets /\ SameSession
    BY <1>9, SentinelAssumption DEF AfterNew, Unpoint, home, IInv, HomeShape, Paths
  <2>2. pc[p] # "idle" /\ (Finish(p) \/ \E n : PointAt(p, n))
    BY <1>9 DEF AfterNew, Unpoint
  <2>3. session[p] # None => file[session[p].name] = session[p].record
    BY <1>9 DEF AfterNew, Unpoint, Current, Holds
  <2> QED
    BY <1>2, <1>3, <1>4, <2>1, <2>2, <2>3
<1>10. CASE AfterReplace(p)
  <2> DEFINE c == job[p].op = "reprotect" /\ OfSession(p, job[p].path)
  <2>1. LockedIf(p, c) /\ file' = file /\ pc'[p] = "idle" /\ pc[p] = "after"
    BY <1>2, <1>10 DEF AfterReplace, home
  <2>2. ~c /\ session[p] # None => file[session[p].name] = session[p].record
    BY DEF OfSession, Current, Holds
  <2> HIDE DEF c
  <2> QED
    BY <1>5, <2>1, <2>2
<1>11. CASE AfterDefault(p)
  <2> DEFINE c == session[p] # None /\ session[p].name # job[p].value
  <2>1. LockedIf(p, c) /\ file' = file /\ pc'[p] = "idle" /\ pc[p] = "after" /\ job[p].op = "default"
    BY <1>2, <1>11 DEF AfterDefault, home
  <2>2. session[p] # None => file[session[p].name] = session[p].record
    BY <2>1 DEF Current, Holds
  <2> HIDE DEF c
  <2> QED
    BY <1>5, <2>1, <2>2
<1>12. CASE Open(p)
  <2> DEFINE n == job[p].path
             new == [name |-> n, record |-> file[n], key |-> job[p].key]
  <2>1. pc[p] = "open" /\ pc'[p] = "idle" /\ file' = file
    BY <1>2, <1>12 DEF Open, home
  <2>2. n \in Names
    BY <2>1 DEF Current
  <2>3. \/ session' = [session EXCEPT ![p] = session[p]]
        \/ session' = [session EXCEPT ![p] = new] /\ file[n] # None /\ ~WatchOnly(file[n])
    BY <1>12 DEF Open, Whole
  <2>4. new.name = n /\ new.record = file[n]
    OBVIOUS
  <2>5. session[p] # None => file[session[p].name] = session[p].record
    BY <2>1 DEF Current, Holds
  <2> HIDE DEF n, new
  <2> QED
    BY <2>1, <2>2, <2>3, <2>4, <2>5 DEF Current, Holds, WatchOnly, Replacing
<1>13. ASSUME NEW w \in Passes, StoreKey(p, w) PROVE Current'
  <2>1. pc[p] = "enrol" /\ pc'[p] = "idle" /\ file' = file /\ SameSession
    BY <1>2, <1>13 DEF StoreKey, home
  <2> QED
    BY <1>3, <2>1 DEF Current, Holds
<1> QED
  BY <1>6, <1>7, <1>8, <1>9, <1>10, <1>11, <1>12, <1>13 DEF Continue, Place

LEMMA CurrentStep ==
    ASSUME IInv, Current, OneProcess, [Next]_vars
    PROVE  Current'
<1>1. ASSUME NEW p \in Procs, Lock(p) \/ Crash(p) PROVE Current'
  <2>1. file' = file /\ session' = [session EXCEPT ![p] = None]
        /\ \/ pc'[p] = pc[p] /\ job'[p] = job[p]
           \/ pc'[p] = "idle"
    BY <1>1, Finished DEF Lock, Crash, home, IInv
  <2> QED
    BY <2>1 DEF Current, Holds, OneProcess
<1>2. CASE UNCHANGED vars
  BY <1>2 DEF vars, Current, Holds, WatchOnly
<1> QED
  BY <1>1, <1>2, CurrentBegin, CurrentContinue DEF Next

\* manager.py delete_wallet, downgrade_to_watch and reprotect_signer: between operations
\* the session of the only process signs with the record on disk, whatever it did before
\* and whichever write failed.
THEOREM SessionsAreCurrent ==
    ASSUME OneProcess
    PROVE  Spec => []SessionIsCurrent
<1>1. Init => Current
  BY DEF Init, Current, Holds
<1>2. IInv /\ [Next]_vars => IInv'
  BY Step
<1>3. IInv /\ Current /\ [Next]_vars => Current'
  BY CurrentStep
<1>4. Current => SessionIsCurrent
  BY DEF Current, Holds, SessionIsCurrent
<1> QED
  BY <1>1, <1>2, <1>3, <1>4, Start, PTL DEF Spec

----------------------------------------------------------------------------
\* The default pointer names a wallet, but for the one that is being deleted, or whose file
\* has made room for the next.
DefaultHolds ==
    file[DefaultFile] # None =>
        \/ file[file[DefaultFile]] \in Record
        \/ \E p \in Procs : pc[p] \in {"unpoint", "rename"} /\ job[p].path = file[DefaultFile]

LEMMA DefaultStep ==
    ASSUME IInv, DefaultHolds, OneProcess, ~Crashes, [Next]_vars
    PROVE  DefaultHolds'
<1> USE DEF OneProcess
<1>1. ASSUME NEW p \in Procs, pc[p] \notin {"unpoint", "rename"}, file' = file PROVE DefaultHolds'
  BY <1>1 DEF DefaultHolds
<1>2. ASSUME NEW p \in Procs, NEW n \in Names, Delete(p, n) PROVE DefaultHolds'
  <2>1. /\ pc[p] = "idle" /\ pc'[p] = "unpoint" /\ job'[p].path = n
        /\ file' = [file EXCEPT ![n] = None]
    BY <1>2 DEF Delete, Work, Goto, IInv, JobShape
  <2>2. file'[DefaultFile] = file[DefaultFile] /\ \A m \in Names : m # n => file'[m] = file[m]
    BY <2>1, SentinelAssumption DEF IInv, HomeShape, Paths
  <2> QED
    BY <2>1, <2>2 DEF DefaultHolds, IInv, HomeShape
<1>3. ASSUME NEW p \in Procs, Begin(p) PROVE DefaultHolds'
  <2>1. \/ \E n \in Names : Delete(p, n)
        \/ pc[p] \notin {"unpoint", "rename"} /\ file' = file
    BY <1>3 DEF Begin, AddWatch, Import, Attach, Detach, Backup, SetDefault, Reprotect,
       DeriveKey, Restore, Release, Enrol, Disable, Work, home
  <2> QED
    BY <1>1, <1>2, <2>1
<1>4. ASSUME NEW p \in Procs, Unpoint(p) PROVE DefaultHolds'
  <2> DEFINE d == IF file[DefaultFile] = job[p].path THEN None ELSE file[DefaultFile]
  <2>1. pc[p] = "unpoint" /\ file' = [file EXCEPT ![DefaultFile] = d]
    BY <1>4 DEF Unpoint
  <2>2. file'[DefaultFile] = d /\ \A m \in Names : file'[m] = file[m]
    BY <2>1, SentinelAssumption DEF IInv, HomeShape, Paths
  <2>3. d # None => d = file[DefaultFile] /\ d \in Names /\ d # job[p].path
    BY DEF IInv, HomeShape
  <2>4. d # None => file[d] \in Record
    BY <2>3 DEF DefaultHolds
  <2> HIDE DEF d
  <2> QED
    BY <2>2, <2>3, <2>4 DEF DefaultHolds
<1>5. ASSUME NEW p \in Procs, Rename(p) PROVE DefaultHolds'
  <2>1. pc[p] = "rename"
    BY <1>5 DEF Rename
  <2>2. file[DefaultFile] # None =>
           /\ file[DefaultFile] \in Names
           /\ file[file[DefaultFile]] \in Record \/ job[p].path = file[DefaultFile]
    BY <2>1 DEF DefaultHolds, IInv, HomeShape
  <2>3. ASSUME job[p].path \in Names, job[p].value \in Record,
               file' = [file EXCEPT ![job[p].path] = job[p].value]
        PROVE  DefaultHolds'
    <3>1. /\ file'[DefaultFile] = file[DefaultFile] /\ file'[job[p].path] = job[p].value
          /\ \A m \in Names : file'[m] = file[m] \/ file'[m] = job[p].value
      BY <2>3, SentinelAssumption DEF IInv, HomeShape, Paths
    <3> QED
      BY <2>2, <2>3, <3>1 DEF DefaultHolds
  <2>4. ASSUME job[p].path = DefaultFile, file' = [file EXCEPT ![DefaultFile] = job[p].value]
        PROVE  DefaultHolds'
    <3>1. job[p].value \in Names /\ file[job[p].value] \in Record
      BY <2>1, <2>4 DEF IInv, WriteFits, Replacing
    <3>2. file'[DefaultFile] = job[p].value /\ \A m \in Names : file'[m] = file[m]
      BY <2>4, SentinelAssumption DEF IInv, HomeShape, Paths
    <3> QED
      BY <3>1, <3>2 DEF DefaultHolds
  <2>5. CASE file' = file
    <3>1. CASE temp[job[p].path] = None
      <4>1. job[p].path \notin Names
        BY <2>1, <3>1, RecordsAreValues DEF IInv, WriteFits, Replacing
      <4> QED
        BY <2>2, <2>5, <4>1 DEF DefaultHolds
    <3>2. CASE temp[job[p].path] # None
      <4>1. /\ file' = [file EXCEPT ![job[p].path] = job[p].value]
            /\ job[p].path \in Names => job[p].value \in Record
        BY <1>5, <2>1, <3>2 DEF Rename, IInv, WriteFits, Replacing
      <4>2. CASE job[p].path \in Names
        BY <2>3, <4>1, <4>2
      <4>3. CASE job[p].path \notin Names
        BY <2>2, <2>5, <4>3 DEF DefaultHolds
      <4> QED
        BY <4>2, <4>3
    <3> QED
      BY <3>1, <3>2
  <2> QED
    BY <1>5, <2>3, <2>4, <2>5, RenameForms
<1>6. ASSUME NEW p \in Procs, Continue(p) PROVE DefaultHolds'
  <2>1. Unpoint(p) \/ Rename(p) \/ Clear(p) \/ (pc[p] \notin {"unpoint", "rename"} /\ file' = file)
    BY <1>6 DEF Continue, Place, Save, Write, Fill, WriteFails, AfterNew, AfterReplace,
       AfterDefault, Open, StoreKey, home
  <2>2. ASSUME Clear(p) PROVE DefaultHolds'
    <3>1. /\ pc[p] = "clear" /\ pc'[p] = "rename" /\ job' = job
          /\ file' = [file EXCEPT ![job[p].path] = None] /\ job[p].path \in Paths
      BY <2>2 DEF Clear, Goto, IInv, JobShape
    <3>2. CASE job[p].path = DefaultFile
      BY <3>1, <3>2 DEF DefaultHolds, IInv, HomeShape
    <3>3. CASE job[p].path \in Names
      <4>1. file'[DefaultFile] = file[DefaultFile] /\ \A m \in Names : m # job[p].path => file'[m] = file[m]
        BY <3>1, <3>3, SentinelAssumption DEF IInv, HomeShape, Paths
      <4> QED
        BY <3>1, <4>1 DEF DefaultHolds, IInv, HomeShape
    <3> QED
      BY <3>1, <3>2, <3>3 DEF Paths
  <2> QED
    BY <1>1, <1>4, <1>5, <2>1, <2>2
<1>7. ASSUME NEW p \in Procs, Lock(p) \/ Crash(p) PROVE DefaultHolds'
  BY <1>1, <1>7 DEF Lock, Crash, home
<1>8. CASE UNCHANGED vars
  BY <1>8 DEF vars, DefaultHolds
<1> QED
  BY <1>3, <1>6, <1>7, <1>8 DEF Next

\* storage.rs delete and set_default: between operations of a process that does not end
\* inside one, the default pointer names a wallet, whichever writes failed.
THEOREM DefaultIsAWallet ==
    ASSUME OneProcess, ~Crashes
    PROVE  Spec => []DefaultNamesWallet
<1>1. Init => DefaultHolds
  BY DEF Init, DefaultHolds, Paths
<1>2. IInv /\ [Next]_vars => IInv'
  BY Step
<1>3. IInv /\ DefaultHolds /\ [Next]_vars => DefaultHolds'
  BY DefaultStep
<1>4. IInv /\ DefaultHolds => DefaultNamesWallet
  <2> SUFFICES ASSUME IInv, DefaultHolds, \A p \in Procs : pc[p] = "idle", file[DefaultFile] # None
               PROVE  Whole(file[DefaultFile])
    BY DEF DefaultNamesWallet
  <2>1. file[DefaultFile] \in Names /\ file[file[DefaultFile]] \in Record
    BY DEF DefaultHolds, IInv, HomeShape
  <2> QED
    BY <2>1, WholeForms DEF IInv
<1> QED
  BY <1>1, <1>2, <1>3, <1>4, Start, PTL DEF Spec

----------------------------------------------------------------------------
\* A removal that is no deletion makes room for a replacement that is complete.
LEMMA KeepsStep ==
    ASSUME IInv, OneProcess, [Next]_vars
    PROVE  KeepsReplacement
<1> SUFFICES ASSUME NEW n \in Names, file[n] \in Record, file'[n] = None
             PROVE  \/ \E p \in Procs : job'[p] # NoJob /\ job'[p].op = "delete"
                    \/ temp'[n] \in Record /\ temp'[n].address = file[n].address
  BY DEF KeepsReplacement
<1>0. file[n] # None
  BY RecordsAreValues
<1>1. ASSUME NEW p \in Procs, NEW m \in Names, Delete(p, m)
      PROVE  job'[p] # NoJob /\ job'[p].op = "delete"
  <2> DEFINE isDefault == file[DefaultFile] = m
  <2>1. Work(p, "unpoint", "delete", m, None, FALSE, isDefault, 0) /\ isDefault \in BOOLEAN
    BY <1>1 DEF Delete
  <2> HIDE DEF isDefault
  <2> DEFINE j == [op |-> "delete", path |-> m, value |-> None, overwrite |-> FALSE,
                   point |-> isDefault, key |-> 0]
  <2>2. job'[p] = j /\ "delete" \in Operations
    BY <2>1 DEF Work, IInv, JobShape
  <2>3. j \in Job /\ j.op = "delete"
    BY <2>1, <2>2, BoundAssumption DEF Job, Paths
  <2> HIDE DEF j
  <2> QED
    BY <2>2, <2>3, SentinelAssumption DEF NoJob
<1>2. ASSUME NEW p \in Procs, Begin(p) PROVE \E m \in Names : Delete(p, m)
  BY <1>0, <1>2 DEF Begin, AddWatch, Import, Attach, Detach, Backup, SetDefault, Reprotect,
     DeriveKey, Restore, Release, Enrol, Disable, home
<1>3. ASSUME NEW p \in Procs, Clear(p)
      PROVE  temp'[n] \in Record /\ temp'[n].address = file[n].address
  <2>1. file' = [file EXCEPT ![job[p].path] = None]
    BY <1>3, ClearForms
  <2>2. job[p].path = n
    BY <1>0, <2>1 DEF IInv, HomeShape, Paths
  <2> QED
    BY <1>0, <1>3, <2>2, ClearForms
<1>4. ASSUME NEW p \in Procs, Rename(p) PROVE FALSE
  BY <1>0, <1>4, RecordsAreValues DEF Rename, home, IInv, HomeShape, Paths
<1>5. ASSUME NEW p \in Procs, Unpoint(p) PROVE FALSE
  BY <1>0, <1>5, SentinelAssumption DEF Unpoint, IInv, HomeShape, Paths
<1>6. ASSUME NEW p \in Procs, Continue(p)
      PROVE  temp'[n] \in Record /\ temp'[n].address = file[n].address
  <2>1. file' = file \/ Clear(p) \/ Rename(p) \/ Unpoint(p)
    BY <1>6 DEF Continue, Place, Save, Write, Fill, WriteFails, AfterNew, AfterReplace,
       AfterDefault, Open, StoreKey, home
  <2> QED
    BY <1>0, <1>3, <1>4, <1>5, <2>1
<1>7. ASSUME NEW p \in Procs, Lock(p) \/ Crash(p) PROVE FALSE
  BY <1>0, <1>7 DEF Lock, Crash, home
<1> QED
  BY <1>0, <1>1, <1>2, <1>6, <1>7 DEF Next, vars

\* atomic_write on every platform: a wallet's file is missing only after a deletion or
\* while a complete record of the same account lies beside it, wherever the process ended.
THEOREM ReplacementIsKept ==
    ASSUME OneProcess
    PROVE  Spec => [][KeepsReplacement]_vars
<1>1. IInv /\ [Next]_vars => IInv'
  BY Step
<1>2. IInv /\ [Next]_vars => [KeepsReplacement]_vars
  BY KeepsStep
<1> QED
  BY <1>1, <1>2, Start, PTL DEF Spec

=============================================================================
