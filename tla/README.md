# Fresnica in TLA+

Specifications, model-checking instances and machine-checked proofs for the
logic of the Fresnica wallet: how a write to the Stellar network is prepared,
reviewed, authorised, signed, submitted and reconciled; how wallets and their
protected signers are kept; how Core signs; and how the services around it
(platform key store, anchors, history) are driven.  The main subject is the Rust
reference client (`reference/rust-client/src`) and Core (`core/rust`), with the
Python reference where it is the fuller implementation (wallet manager, history)
and the Android key store with its React Native module.

Every definition is translated from the source; `PROJECT.json` ("map") names the
lines each one stands for.  Paths below are relative to the repository.

    The write path
      TransactionFlow        pending file, sequence numbers, time bounds, submission
        MCTransactionFlow      instances
        TransactionFlowProofs  types; age is evidence; no lost record, no overtaking
      OneOpenWrite           what the write path promises; TransactionFlow implements it
      OfferMath              prices as fractions, liabilities of an offer
        MCOfferMath            the same against the ledger's exchange
      ClassicWrites          preflight of payments, trustlines and offers
        MCClassicWrites        ledgers and requests
      MarketViews            order book, trades, fills
        MCMarketViews          levels and trades
    Signing
      SigningCoordination    plan, signer selection, signing, SEP-10 form
        MCSigningCoordination, SigningCoordinationProofs
      CoreSigning            signatures Core adds, late devices, agents' grants
      ProtectedSigner        protected signers through Core, SDK and bindings
      MCCore                 instances of the last two
        CoreProofs
    Contracts and tokens
      SorobanPrepared        a prepared invocation: clones, public fields, bindings
        MCSorobanPrepared, SorobanPreparedProofs
      ContractInvoke         a guided call while the contract is upgraded
      ContractTypes          types, values and JSON of a contract's interface
      ContractForms          what a type advertises, and whether its values can be shown
      ContractArguments      arguments by name and position
      ContractValues         conversions of JSON and values
        MCContractArguments    the conversions and a spec for ContractArguments
      TokenTransfers         balances and transfers of SEP-41 tokens
      DetachedTransfer       a transfer that another party submits
      Reviews                calls, tokens, detached transfers and Classic writes together
        ReviewProofs           calls, tokens, detached transfers; preflight, prices, liabilities, views
      MCReviews              instances of all that is shown before it is signed
    The wallet home
      WalletStore            files, default pointer, sessions, system-unlock slots
        MCWalletStore, WalletStoreProofs
        MCWalletSessions, WalletSessionProofs   three scenarios, and what they inherit
      WalletMap              what the home promises; WalletStore implements it
    Services
      SystemAuthDomain       Android key store, authorization, prompts
      AnchorSession          SEP-10
      AnchorTransfers        SEP-6 and SEP-24
      AnchorCustomer         SEP-12
        MCAnchors              documents and answers of anchors
      HistoryCache           synchronisation of the operations cache
      MCServices             instances of all services
        ServiceProofs          the domain, SEP-10, transfers and the history cache

Run an instance with `tlc -config services.cfg MCServices` (the table of section
2.2 names module and configuration), a proof with `tlapm WalletStoreProofs.tla`.


## 1. Inventory

### 1.1 Components, their state, operations and correctness

| Component | State it keeps | Operations | What makes it correct | Status |
|---|---|---|---|---|
| Write path (`transaction.rs`, `payment.rs`, `trustline.rs`, `dex.rs`, `service.rs`) | `pending-transactions.json`; a prepared write held by the product | reconcile, read account, check, build, sign, submit, remember | an uncertain write is reconciled before the next one; a record is given up only when its transaction is dead; the preflight agrees with the ledger | TransactionFlow, ClassicWrites, OfferMath, MarketViews |
| Signing coordination (`signing_coordination.rs`, `ledger_authorization.rs`, `system_auth.rs`) | none between calls; per call the plan, the satisfied conditions, the selection, the envelope | review, load plan, select, preflight passcode, sign, verify | what completes is authorised, what gives up could not be, no superfluous signature, no prompt before a wrong passcode | SigningCoordination |
| Soroban invocations (`soroban.rs`) | `PreparedSorobanTransaction`: public envelope and review, private bindings | prepare, authorize, sign, submit, poll; detached token transfers | only what was reviewed is signed, only what was signed is submitted | SorobanPrepared, DetachedTransfer, TransactionFlow |
| Tokens, contracts (`token.rs`, `contract.rs`, `rpc_gateway.rs`) | none; the interface read for one call | advertise input, resolve arguments, simulate, prepare, transfer | what is signed is what was reviewed, for the code that was simulated | ContractInvoke, ContractTypes, ContractForms, ContractArguments, ContractValues, TokenTransfers |
| Gateways (`horizon_gateway.rs`, `rpc_gateway.rs`, `account_state.rs`) | none | queries, submission | an answer is a rejection only if the transaction was not taken | inside TransactionFlow |
| Anchors (`anchor*.rs`) | none between calls | discovery, SEP-10 challenge and exchange, SEP-6/24, SEP-12 | what is posted or paid is bound to the anchor, account and transfer it belongs to | AnchorSession, AnchorTransfers, AnchorCustomer |
| Wallet storage and manager (`storage.rs`, `wallet.rs`; Python `manager.py`, `client_system_unlock.py`) | one file per wallet, the default pointer, backups, the unlocked session, system-unlock slots | import, watch, attach, detach, reprotect, back up, restore, delete, set default, unlock, release, enrol, lock | no half-written file, one passcode opens every signer, a session belongs to the record on disk | WalletStore, WalletMap |
| Core (`core/rust`), SDK, bindings | none but native sessions | protect, derive, reprotect, unlock, reveal, sign, apply a signature, agents | an envelope keeps its account; a reported signature satisfies; codes guide the host | ProtectedSigner, CoreSigning |
| Platform key stores (`WalletUnlockKeyStore.java`, `FresnicaSignerAuthorization`, `FresnicaCoreModule.kt`) | key pairs, preferences in memory and on disk, one prompt | enrol, register, unlock, remove; callbacks of the prompt | the active alias always has its key, a removed domain signs nothing, no prompt blocks for ever | SystemAuthDomain (Android) |
| History (Python `history_service.py`, `datastore.py`) | cached operations per account and network | synchronise, bootstrap, backfill, trim, change mode | the cached window has no gap; a synchronisation ends | HistoryCache |
| Python write services | the same pending file | as the write path, resolving record by record | as the write path | not modelled |
| Contacts, asset catalogue (`contacts.rs`, `asset_catalog.rs`) | one small file each | add, remove, refresh | no entry is lost | not modelled |
| Views (`balance_state.rs`, `history_state.rs`, Python read services) | none | classify, format | arithmetic only | not modelled |
| Terminal UI, anchor pages, Smart Account Kit demo, docs, releases, scripts | screens | – | – | out of scope |

### 1.2 How they interact

A product calls the client.  The client reads the wallet home (files shared by
every process of the user), asks Horizon or Stellar RPC over HTTP, asks the user
for a passcode, the platform for a released unlock key, and external providers
for signatures through callbacks.  Nothing in the client runs in the background;
only the history workers of the Python reference and the two threads of the
Android module do.  Concurrency comes from several processes or async calls over
one wallet home, from the ledger and the contracts that move on between two
requests, from answers that are lost, and from the user who retries, cancels or
closes the program at any point.  There is no lock anywhere: the only protection
is that a file is replaced by a rename.

Where components meet, the models meet: SorobanPrepared takes a signing call of
SigningCoordination as one step that adds some signatures and completes or
fails; SigningCoordination takes from WalletStore which keys open with which
passcode; the unlock key of WalletStore's slots is what SystemAuthDomain wraps
and ProtectedSigner opens an envelope with, all three identified by the
envelope's version; AnchorSession's plan is the one SigningCoordination loads;
TokenTransfers uses a guided call of ContractInvoke with its two reads of the
executable.

### 1.3 Hard behaviours

`PROJECT.json` ("hazards") lists them with the line where each bites and the
property that would catch it.  The main groups: an uncertain submission and what
may be written afterwards; read–query–save of a shared file; the clock, two
constants and time bounds that have to agree; authorization, contract code or an
offer that changes between two reads of one call; greedy selection over shared
signers; part of the signatures made when the rest fails; clones and public
fields of a reviewed value; the end of a process between two file operations;
re-protection and stale unlock keys; a device, an anchor or a signer that answers
late or for something else; failing commits under two threads; interrupted
paging by concurrent workers; rounding and limits of integer arithmetic.


## 2. Plan and runs

### 2.1 Plan

Done: the write path with the promise it implements (proved for one session),
signing, prepared invocations (with proofs); the wallet home with its abstract
specification and the refinement (proved for one process); Core; contracts, tokens and detached transfers; the arithmetic of
Classic writes; the platform domain, anchors and history, with liveness.

Left, in this order:

1. `PendingPython`: the Python variant of reconciliation, as another
   implementation of `OneOpenWrite`.
2. The Apple key store, which keeps SystemAuthDomain's contract in its own order
   of calls.
3. The caches of balances and trades in Python, contacts.

Modules that are proved about use no recursive operators; sums are
`SumFunctionOnSet` of the community module `Functions`.  The proofs obtain what
they need of it (a sum over one more member, monotonicity) from the least finite
set that would be a counterexample, since the induction rules of the library
take an operator as a parameter.

### 2.2 Runs

Some runs put several scenarios that share no state into one state space: a
variable (`part`, `scenario`) that is chosen at the start says which component
moves while the others rest, so the states add up and are not multiplied.  A
property of such a run is the conjunction of the components' own ones, each under
its scenario; the tables of the sections below name them.

| Run | Module | Shows | Distinct states |
|---|---|---|---|
| `write_path` | MCTransactionFlow | one session at a time loses no record, is overtaken only where the TTL leaves a transaction exposed, and keeps the promise of OneOpenWrite | 1.40 million |
| `default_timeout` | MCTransactionFlow | `ReconciledBeforeReplaced` **violated** | |
| `shared_file` | MCTransactionFlow | `OpenRecordsSurvive` **violated** | |
| `signing` | MCSigningCoordination | what completes is authorised, what gives up could not be | 1.11 million |
| `spare_signature` | MCSigningCoordination | `OnlyNeededSignatures` **violated** | |
| `soroban` | MCSorobanPrepared | only reviewed transactions are signed, under clones and assignments | 0.45 million |
| `wallet_files` | MCWalletStore | crashes never show; the home implements WalletMap | 2.38 million |
| `wallet_sessions` | MCWalletSessions | sessions, stale keys, one passcode, Windows | 1.25 million |
| `wallet_rotation` | MCWalletStore | `OnePasscode` **violated** | |
| `core` | MCCore | CoreSigning and ProtectedSigner | 0.13 million |
| `reviews` | MCReviews | everything shown before it is signed | 3.61 million |
| `services` | MCServices | key store, anchors, history, with liveness | 0.49 million |


## 3. TransactionFlow

### 3.1 State and steps

A *session* is one use of the write path: a chain of `FresnicaClient` calls, or
one asynchronous contract invocation.  Sessions share the pending file
(`pending`), the ledger (`seq`, `applied`), the network's queue (`inflight`) and
the clock.  `pc` says where a session is:

    idle -> reconcile -> fetch -> build -> prepared -> signed -> posting
                                               ^           |  -> polling (Soroban)
                                               +-----------+  -> uncertain -> remember

A step is the code between two network calls or awaits.  `Begin` reads the file
and takes the instant that ages are compared with (`asOf`); each `Lookup…` is one
query; `ReconcileBlocked` and `ReconcileClear` save what is retained, exactly
once, at the end, and the *list they save is the one they loaded*.  `FetchAccount`
and `BuildEnvelope` are separate because the sequence number is fetched before
other requests and the time bound is computed when the envelope is built.  A
Classic write is signed on a copy at every attempt (`AfterSubmit` returns to
`prepared`), a Soroban envelope stays signed.  `PostDelivered`, `PostLost`,
`RespondIncluded`, `RespondAccepted`, `RespondLost` and the `Poll…` steps are the
outcomes the gateways distinguish; `Remember` writes the record after an
uncertain one, `RememberFails` is the save that fails.  `Abandon` ends a session
anywhere: an error before the save, a user who declines, a dropped future, a
crash.

The network is external and taken from what the client relies on: a queued
envelope is included when its sequence number is the next and its time bound
holds (`Include`), or dropped (`Evict`).

Abstractions: one clock for client and ledger, which never goes back; a
malformed timestamp, which the code treats as infinitely old, does not occur; a
failing read of the file or a failing query ends the session (`Abandon`); the
load and the save of `put` are one step; nobody else writes from the account
on another device; a transaction is its account, sequence number, time bound,
kind and an intent that distinguishes equal envelopes; `tx_failed` on the ledger
is part of `SeeResult`.

### 3.2 Properties and runs

`Exposure` of a kind of transaction is the number of clock readings for which it may
still be included when its record has just reached the TTL: none when the TTL
exceeds the kind's timeout, `Timeout - TTL + 1` otherwise.  The shipped constants
expose both kinds (300 s against a TTL of 210 s); a product that configures a Classic
timeout below 210 s ends the exposure of Classic writes, the timeout of Soroban
writes is fixed.

* `ExpiredIsLate`: a transaction given up by age is less than its exposure away from
  its time bound, and where there is none it is never on the ledger, before or after.
* `ReplacedOnlyIfExposed`: if a transaction with a saved record and a later one of
  the account are both on the ledger, the client has seen the first one's result, or
  gave it up by age and its kind is exposed.  Otherwise it would be the double payment
  the file exists to prevent.  `ReconciledBeforeReplaced` is the sentence without the
  exception, as the client's message has it.
* `OpenRecordsSurvive` (action property): a record leaves the file only if its
  transaction is on the ledger, can no longer be included, or has a newer record,
  or, for an exposed kind, if it was kept for the whole TTL.
* `ImplementsOneOpenWrite`: the refinement of `OneOpenWrite`, the promise of the
  path without sessions, files and answers: a set of open transactions (`open`,
  here the transactions of the records), of each account at most one and its latest;
  nothing else of the account is sent meanwhile; a transaction is closed when the
  ledger holds it or its time bound, less the grace that stands for its exposure, has
  passed.  A retry that built its envelope anew without
  reconciling would break it (the mutant `AfterSubmitBuilt`).

| Run | Instance | Result |
|---|---|---|
| `write_path` | 1 session, 2 accounts, Classic writes with timeout 1, Soroban writes with timeout 2, TTL 2, clock 0..3, 3 envelopes | all hold, for the records of the other account too; with an exposure smaller by one each but `TypeOK` fails for the Soroban writes |
| `default_timeout` | timeout 3, TTL 2 – the Rust defaults 300 s and 210 s in proportion | `ReconciledBeforeReplaced` **violated** |
| `shared_file` | 2 sessions, TTL longer than timeouts | `OpenRecordsSurvive` **violated** |

Bound `OneKindOrOneAccount`: in `write_path` Classic and Soroban writes of one
account are mixed, or Classic writes of two accounts; records of different
accounts meet only in the file, which does not look at their kind.  For two
sessions `ExpiredIsLate` is the theorem `AgeIsEvidence`, and the other
properties but the types do not hold.

Bounds: `MaxNow` leaves at least one tick after the TTL, so that a record is
saved, blocked on, given up and followed by a later write within a run;
`MaxBuilds` gives a write, its replacement and one more.  The instance has a covered
kind and an exposed one, the latter at its boundary (timeout equal to the TTL,
exposure 1); the theorems are about every TTL and every timeout.  Deadlock is not
checked: the clock and the envelopes are bounded and a finished world may stop.
No fairness is assumed; all properties are safety properties.

`default_timeout`: `PENDING_TTL_SECONDS` (210) is below
`DEFAULT_CLASSIC_TRANSACTION_TIMEOUT_SECONDS` (300).  For 90 seconds a record has
no protection left although its transaction is still valid.  The Python
reference uses 210 s with time bounds of 30 s, where the age is evidence.

`shared_file`: `reconcile_with` saves the list it loaded before its queries over
whatever another session has saved meanwhile.

### 3.3 Proofs

`TransactionFlowProofs` proves `TypeCorrect` and, for any number of sessions and
every TTL and timeout, `AgeIsEvidence`.  The invariant (`AgeInv`) says that a record's
timestamp is not before the building of its envelope, so a record as old as the TTL
has an envelope within its exposure of the time bound, for every copy of the record that a
reconciling session holds.  With the shipped constants this is the 90 seconds of the
finding, and no more.

It also proves `RetryIsReconciled` and `NoOpenRecordLost` under
`OneWriter` (at most one session), again for every TTL and timeout.  Both properties
are false of two sessions, as `shared_file` shows, and `default_timeout` shows that
the exception for exposed kinds is needed.
`ReplacedOnlyIfExposed` is not inductive; its strengthening `WriteInv`
relates what the file, the session and the network know: an unresolved
transaction has its record (`RecordInv`), a reconciling session's list is the
file (`SnapshotInv`), from then on the account has no unresolved transaction but
the session's own and the network has nothing later (`WriterInv`, `OrderInv`), and
sequence numbers never run ahead (`SeqInv`).

`OneSessionKeepsPromise` proves `ImplementsOneOpenWrite` of one session, with the
exposure as the grace.  It needs to know of the file itself, and not only of transactions
without a result, that it holds one record of an account at most, none of the
session's when it goes on to write, and afterwards that of its own envelope
(`FileInv`).  With it a reconciliation closes one transaction at most
(`SaveCloses`), a submission sends what has no open rival and a saved record
opens the account's latest (`OwnIsOpen`); every other step is a stutter or a step
of the same name (`StepKeepsPromise`).  `PromiseIsKept` shows what the promise is
worth by itself, whatever implements it: no transaction of an account is sent or included after
its open one; `OpenWritesAreLatest` is this fact for the client.


## 4. SigningCoordination

### 4.1 State and steps

One prepared envelope, any number of signing calls on it.  A call loads the
authorization of each source account (`LoadAccount`, one request per account, the
ledger may change in between), recognises what the envelope already satisfies
(`Recognise`), selects signers (`SelectExtra`, `SelectSigner`, `SelectProof` – the
three loops of `select_ed25519_signers`, one step per chosen key), checks the
passcode (`Selected`, `PasscodeRefused`), signs key by key (`SignNext`, `SignFails`)
and checks the result against the same plan (`Verify`).  `Again` is the next call,
on a fresh copy.  `Review` is `review_ledger_authorization`.

Both entry points are there: with providers (local records opened by passcode
or by system authentication, and external keys) and the passcode-only form,
which has no passcode preflight.  A SEP-10 challenge is the same call with the
medium threshold as requirement, the anchor's key excluded, one signature of the
client asked for, and the closing check of `exchange_anchor_sep10_challenge`.

Abstractions: a signer condition is a model value and a signature either
satisfies it or not; thresholds and weights are small numbers, so `u8`/`u32`
sums do not overflow (255 times at most 20 signers does not overflow `u32`);
local records do not change during a behaviour; ties between equal weights are
resolved either way (Horizon's order decides); `Review` reads the ledger in one
step; a malformed account answer is `LoadFails`; no operation has the high
threshold (the client builds none).

### 4.2 Properties and runs

* `AcceptedByNetwork`: a completed transaction has, by the network's own rule
  stated independently of the plan, enough weight for every use of every source
  account, all extra signers, and no signature of a signer without weight,
  while the ledger is what was loaded.
* `AcceptedByAnchor`: a completed challenge carries at least one signature of a
  client signer that is not the anchor's, with the medium threshold in weight.
* `SelectionIsComplete`: giving up means that all available keys together would
  not do; after signing, the closing check does not fail.
* `EverySignatureCounts`: each added signature is consumed by the network's
  check (otherwise the transaction fails with `txBAD_AUTH_EXTRA`).
* `ReviewIsHonest`: what a review called locally satisfiable is not refused
  unless the ledger changed.
* `PasscodeBeforeProviders`: no provider signs in a call that a local record
  refuses.
* `OnlyNeededSignatures`: no added signature could be left out – the doc's
  sentence, **violated** (run `spare_signature`).

Run `signing` has three scenarios, told apart by their envelopes:

| Scenario | Instance |
|---|---|
| one account | weights 0..2 of three keys and a Hash-X condition, thresholds (0,0), (1,2), (1,3); extra signer or not; existing signatures or not; four kinds of call |
| two accounts | both orders, shared signers, one ledger change; an envelope with an operation of unknown threshold |
| challenge | medium threshold 0..3, anchor key with and without weight, providers given twice, as both kinds, as the excluded key |

`spare_signature` is the second scenario without the change.

Weights up to 2 and thresholds up to 3 give requirements met exactly, exceeded,
met only by two keys and out of reach; three keys are the fewest for which
greedy selection over two accounts goes wrong.  Nothing stops, so deadlock is
checked.  No fairness is assumed.

### 4.3 Proofs

`SigningCoordinationProofs` proves, for any accounts, keys, weights and requests,
`CoordinationTypeCorrect`, `SignaturesCount` and `PasscodeComesFirst`.  The invariant
says that every selected key was needed – an extra signer, or a signer of an
account whose weight over the conditions satisfied *before it* was short – that
`added` is a prefix of `selected`, and that from signing on the passcode opens
every record it is needed for.

`SignedIsAccepted`, `ChallengeIsAccepted`, `GreedyIsComplete` and `ReviewIsKept` are
`AcceptedByNetwork`, `AcceptedByAnchor`, `SelectionIsComplete` and `ReviewIsHonest`.
They need the weights themselves: a sum over one more signer is the sum and that
signer's weight, and a sum over more signers is not less.  `OutcomeInv` adds to the
invariant above: what counts as satisfied is what the envelope satisfied and what
was selected (`GatherInv`); a requirement that was passed is met (`MetInv`); a signer
without weight is chosen only where no other is left, which is then the end of the
call (`WeightInv`); and giving up means that everything available together does not
satisfy the plan (`GivenUpInv`), which a review that promised success excludes
(`ReviewInv`).


## 5. SorobanPrepared

### 5.1 State and steps

`PreparedSorobanTransaction` is `Clone`, its fields `envelope` and `review` are
public, the rest private.  `handle` maps each handle of the product to such a
value.  `Prepare`, `Authorize`, `Sign`, `SignPartly` and `Submit` are the client's
operations, each with all its checks; `Clone`, `AssignEnvelope` and `AssignNetwork`
are what a product can do with a public type.  `reviews`, `signed`, `completed` and
`submitted` are history.

Abstractions: a transaction is a body, the set of its entries that carry a
signature, and its envelope signatures; a hash covers the first two and the
network.  `Prepare` takes a body that was not reviewed before (footprint, fee,
sequence number or time bound differ).  A failing `Authorize` changes nothing,
because it works on a copy; authorization signatures are deterministic (Ed25519),
so clones authorise identically.  Signing stands for a call of
SigningCoordination that adds some signatures and completes or fails; the
code does not compare Horizon's network with the review's.  Submission does not
check the time bound again.

### 5.2 Properties and runs

* `SignedIsReviewed`: a key only signs the hash of a reviewed body, for the
  network of the review, with all its detached entries authorised.
* `SubmittedIsSigned`: only hashes whose signing completed are submitted.
* `OneTransactionPerReview`: clones cannot lead to two different transactions.

Run `soroban` has two scenarios: one handle, two bodies, two networks, two keys and
entries of three credential kinds (a delegated one is refused); and two handles
on one body with two entries.  A second handle is enough for a clone that
lags behind, two bodies for a swap of content, two entries for a partial
authorization.  Deadlock is checked, no fairness is assumed.

### 5.3 Proofs

`SorobanPreparedProofs` proves all three (and the type invariant inside `IInv`)
for any number of handles, bodies, entries, keys and networks:
`KeysSignWhatWasReviewed`, `OnlySignedIsSubmitted`, `ClonesSubmitOneTransaction`.
The invariant says what a handle's *private* fields stand for, whatever was
assigned to the public ones: the reviewed hash is that of some review's unsigned
body, the authorised hash that of the same review with all entries, and a handle
that completed has a completed hash.  The bindings transfer this to the public
envelope at the moment of signing or submission.


## 6. WalletStore and WalletMap

### 6.1 State and steps

`file` maps the names and the default pointer's path to what is on disk: a
record, a name, nothing, or `Torn`, half a text.  `temp` is the one temporary
sibling of each path.  A process has at most one operation under way (`job`,
`pc`) and at most one unlocked session (`session`).  A protected envelope is a
number, fresh for every protection, with the passcode it opens with; its unlock
key has the same number, and `slots` holds the keys enrolled with the system,
under the fingerprint of the record they were enrolled for.

    save -> write -> fill -> (clear ->) rename -> after (-> write of the pointer)
    unpoint (deletion)      open (unlock, release)      enrol

Every operation reads and validates first (`AddWatch`, `Import`, `Attach`, `Detach`,
`Reprotect`, `Restore`, `SetDefault`, `Delete`, `DeriveKey`, `Release`, `Enrol`,
`Disable`), with the passcode policy over the records on disk at that moment, and
changes the home in later steps.  `Save` is the existence check of
`WalletStorage::save`, `Write`, `Fill` and `Place` are `atomic_write`: create the
temporary file, write it, rename it, on Windows after removing the old file
(`Clear`).  What follows a write belongs to the operation and cannot be skipped
except by the end of the process: `AfterNew` makes the first wallet the default,
`AfterReplace` locks the session of a re-protected signer, `Unpoint` removes the
pointer to a deleted wallet and chooses another.  `Crash` ends a process between
any two steps; its session is gone, the files stay.

Abstractions: passcodes, accounts and secrets are model values; a record is its
account and envelope; `fsync`, directory creation and permissions are left out
(`fill` covers a write that stops half-way); reading one record is one step;
wallet names are already normalised; encodings are inverse to one another.

`WalletMap` is what the home promises: a map from names to complete records in
which each change is one entry, a new record never takes the place of another, a
replaced record keeps its account, and the default pointer only moves to a wallet
that exists.

### 6.2 Properties and runs

* `FilesAreWhole`: a reader never finds half a file.
* `OnlyDeletionRemoves` (action property): a wallet's file disappears in a
  deletion only, wherever any other operation is cut short.
* `ImplementsMap`: the home, seen through `wallets <- file`, `default <-
  file[DefaultFile]`, is a behaviour of WalletMap.
* `SessionIsCurrent`: between operations the session signs with the record on
  disk; with it `DefaultNamesWallet`, which a crash inside a deletion breaks.
* `SessionKeyFits`: however enrolment, re-protection, restoring and unlocking of
  two processes interleave, a session's key opens the session's envelope.
* `OnePasscode`: one passcode opens every local signer.
* `ReplacementIsOnDisk`: where the old file has to be removed first, a complete
  record of the account lies beside it while it is missing.

| Run | Instance |
|---|---|
| `wallet_files` | 1 process that may end anywhere, all operations, 2 names, 2 accounts, 1 passcode, 2 envelopes |
| `wallet_sessions` "manager" | 1 process, all operations, 2 names, 1 account, 2 passcodes, 3 envelopes, no crash: `SessionIsCurrent`, `DefaultNamesWallet` |
| `wallet_sessions` "keys" | 2 processes, 1 wallet, unlock, release, enrol, re-protect, restore, delete: `SessionKeyFits` |
| `wallet_sessions` "platform" | Windows, crashes, 2 names, 2 accounts, 2 passcodes, no re-protection: `OnePasscode`, `ReplacementIsOnDisk` |
| `wallet_rotation` | 1 process, re-protection allowed: `OnePasscode` **violated** |

Two names are enough for a default that has to move and for two signers under
one passcode; the second envelope of a name is its re-protection, a third one the
restored backup.  Two processes are used only where the code promises something
for two: `FilesAreWhole`, `ImplementsMap`, `OnePasscode` and `SessionIsCurrent` do
not hold for two processes of one home (they share temporary names, and the
check of the passcode policy precedes the write).  After bounds are used up
everything may still be locked, deleted and re-read, so deadlock is checked.

`wallet_rotation`: `reprotect_signer` compares the new passcode with nothing; after
one of two signers is re-protected, no passcode passes `validate_app_passcode`.

### 6.3 Proofs

`WalletStoreProofs` proves for any names, accounts, passcodes and operations, the
end of the process included: `WholeFiles` and `ReplacementIsKept` (`KeepsReplacement`)
under `OneProcess`, `SignersShareAPasscode` under `OneProcess` and no re-protection,
`FilesImplementMap` under `OneProcess` and `~Windows`, and `OnlyDelete` for any number
of processes under `~Windows` (the last two do not hold where a file is removed
before it is replaced).  The invariant `IInv` has a shape of the home (names hold
records, the pointer a name, nothing is torn), a shape of each job (which operation
may be at which place with which value) and `WriteFits`: a write under way that
replaces a record keeps its account, one that does not will find its name free, and
once the temporary file is complete it stays what the job wants to write until the
rename.  That is why a rename is a step of WalletMap, and why what Windows removes
has its successor beside it; without it a rename could put a record of another
account in place.  On Windows the record to be replaced may be missing already, but
only between the removal and the rename.  `PasscodeFits` adds that a signer about to
be written opens with the passcode of the others.

Three more theorems are about sessions and the pointer.  `SessionKeysFit` holds for
any number of processes on any platform: only `Open` makes a session, with a key
that it has just compared with the record it reads.  `SessionsAreCurrent` (under
`OneProcess`) follows from `Current`: the record of a session is on disk except
from the rename of a re-protection (on Windows, the removal before it) to
`AfterReplace`, which locks it; every other operation that would change that record has locked the session
before.  `DefaultIsAWallet` (also under `~Crashes`) follows from `DefaultHolds`: the
pointer names a wallet at every moment but for the one whose file a deletion has
just removed or a replacement is about to fill.

`WalletSessionProofs` draws from these what `wallet_sessions` checks: a scenario of
`MCWalletSessions` never becomes another one and takes the steps of its instance of
WalletStore, each instance meets the assumptions of the theorem, so
`ManagerIsCurrent`, `KeysFitSessions`, `PlatformKeepsOnePasscode` and
`PlatformKeepsReplacements` hold of the run's specification for any values that can
be told apart (`ValuesAssumption`).


## 7. Core: ProtectedSigner and CoreSigning

### 7.1 ProtectedSigner

Core keeps nothing; the state is the host's: its stored envelopes (new ones,
ones of every earlier version, damaged ones), the unlock keys it was handed, the
passcodes its user typed, the material revealed to it.  The operations are
functions of their arguments that return a value or a code, in the order of the
checks in `client_api.rs` and `protected_signer.rs`; `Offers(layer)` and
`CodeAt(layer, c)` say which operations SDK, native, process and WASM bindings offer
and what their mapping does to a code.  Key derivation is injective,
authenticated encryption opens with its own key only, and a recovery phrase may
be valid in two languages (`Ambiguous`), as the code accounts for.

* `SignerKept`: whatever sequence of re-protections, derivations and migrations
  made an envelope, what it opens to signs for the account it was made for.
* `KeyOpensOne`: an unlock key opens one envelope and none made later.
* `MaterialNeedsPasscode`: material is shown only after its passcode was typed.
* `PathsAgree`: the paths that take a passcode accept and refuse alike.
* `CodesGuide`: what a code says about another passcode, a fresh key or the data
  itself is true.
* `CodesSurvive`: no binding turns a code its operations return into another.

### 7.2 CoreSigning

A host works on one document, a transaction envelope of any form or an
authorization entry of any credential, and may take up another while a device
still signs; the answer may be applied to a document, network or key it was not
made for.  Foreign signatures may be on it already.  A signature is over a
preimage; Ed25519 allows several for one (`nonce`), and two keys can share a hint.
A V0 envelope is hashed as the V1 envelope of its content (`Hashed`), so a signature
for one fits the other.  `MaxSignatures` is the limit of an envelope; for entries,
which have none in the code, it is a bound of the model.
An agent signs under a grant while time passes.

* `SignedIsSatisfied`: a key that Core reports as signed is satisfied on that
  document by the lookup of the network.
* `SignaturesAreKept` (action property): signatures stay, in order, and a payload
  that is not Core's is not touched.
* `AgentWithinGrant`: network, time, fee, operations and every source account,
  muxed or of an operation, are within the grant.
* `MessagesAuthorizeNothing` (proved only): a signed message is a signature for
  nothing else.

### 7.3 Run `core`

Scenario "devices" (two keys with one hint, an envelope of each form, eight
entries, two signatures, one waiting answer), "agents" (six transactions at and
beyond the limits of three grants, clock 0..2), "signers" (one seed, one phrase
valid in two languages, two account indices, two passcodes, two envelopes beside
those of earlier versions).  `SignersAreKept` is `SignerKept`, `KeyOpensOne` and
`MaterialNeedsPasscode`; `CodesGuide` is `PathsAgree`, `CodesGuide` and `CodesSurvive`.
Bound `MessagesApart`: messages are signed in behaviours whose documents carry no
signature, since neither reads the other.  Two envelopes are enough for a key of
the earlier one to be tried on the later one.

### 7.4 Proofs

`CoreProofs` proves `ReportedKeysAreSatisfied`, `SignaturesStay`, `AgentsStayWithin`
and `MessagesAreApart` for any keys, hints, networks, documents, grants and bounds.
The invariant says that every reported key has a signature of its own on the
document whose hint and preimage the network's rule accepts, and that signatures
are only appended.

`SignersStayTheirs` and `CodesCanBeTrusted` are the two properties of ProtectedSigner,
for any seeds, phrases, indices, passcodes, number of envelopes and sequence of
operations.  `SignersInv` says that an envelope has its own salt and that what it
contains, unless it was damaged, derives the account it was made for, whatever
version it has; and that what was revealed was revealed for a passcode that was
typed.  What a key opens and what codes say are then statements about all
arguments of an operation in such a state, not about the operations that were
made.


## 8. Contracts and tokens

`ContractInvoke` is a guided call: read the instance and its code's interface,
encode the arguments with it, simulate, prepare, look the executable up again,
each a request between which the owner may upgrade the contract, or the code an
external reference stands for.  An upgrade leads to code the contract has not
run before, and a reference to another contract's code that is given up is not
taken up again: the client compares executables at two moments, and an upgrade
that is undone between them leaves no trace for it.
`ReviewedCodeIsPrepared`: the code the review names is the one that encoded the
arguments and the one that was simulated.  `ReadsHaveNoEffect`: what is shown as a
read loses nothing by not being sent.  Both are part of `GuidedCallIsHonest`.

`ContractForms` is two walks through a type and the definitions it mentions:
`composition`, the form of input that is advertised for it, and `normalizable`,
whether a value of it can be shown.  A definition may mention itself; a walk does
not enter it twice on a path.  `ContractArguments` puts names, positions and texts
together (`Resolve`): inputs take their arguments one after the other, by their
name or else by the other spelling (`Removed`), and what is `Left` at the end is
refused.  The step `Invoke` is one call from the request to the reviewed values.
How a text or JSON becomes a value is a parameter there (`FromText`, `ParseJson`,
`Conforms`, `ToJson`); `ContractValues` has the conversions: `Prepared` and
`FromJson` are what becomes of JSON, `Conforms` is the client's own validation of
a value by the interface.

`FormIsHonest`: no call with an input that is advertised as unsupported goes
through, given or left out, none with JSON for a result, and for every other type
an encoded value whose maps are in the ledger's order is accepted under its name and
is what is signed.
`ArgumentsAreTaken`: an accepted call has a place for every argument that was
given, one input for each, in one of its spellings or its position and as what it
means (a text that is an address is never looked up as a name); what was left out
is optional and void.  Both are part of `GuidedCallIsHonest`.  `ReviewIsExact`: the
review, given back as input, is the value that is signed.  It is stated of values
whose maps are in order (`InOrder`: keys ascending and distinct, the fields of a struct
in the order of their names).  An encoded value may come in any order, with a key
twice too, and is validated by the names of the fields and their number
(`contract.rs:1091`), while `ToJson`, like the official normaliser, reads the fields by
their places: struct `Range` given as `{to: 1, from: 0}` is shown as from 1, to 0.  The
run explores such values; without `InOrder` it violates `ReviewIsExact` (section 11).
The values that JSON leads to are in order, and the ledger refuses the others.

`TokenTransfers`: a balance is two calls (balance, decimals), a transfer a call
for the decimals and one for the transfer, under upgrades.  `TransferIsScaled`: the
amount of a prepared transfer is the user's in the decimals of the code it was
prepared for, and neither truncated nor out of range.

`DetachedTransfer`: a preimage that comes from elsewhere is reviewed and signed
for one token transfer.  `SignedIsRequested`: whatever entry the signature fits
executes the requested transfer and nothing else; `KeyOfTheNetwork`: by the key of
a wallet on that network.  128-bit amounts are two halves; the lower one has
weight `Base`.

They are checked in run `reviews` ("call": three codes, two tags, three upgrades,
simulations with each effect alone; "arguments": one argument of every type nested
twice at most, encoded values in and out of order, and two or three arguments in
several spellings and positions, with the conversions of `ContractValues`; "token":
six codes with 0 to 3 decimals; "detached": three wallets on two networks and amounts
on both sides of zero and of 2^64), under `GuidedCallIsHonest`, `ReviewIsExact` and `TransferIsRequested`.  A call ends,
so deadlock is not checked there.

`ReviewProofs` proves `ReviewedCode` for any codes, tags, simulations and number of
upgrades.  The invariant relates the job to the history of the contract:
at each place of the call either the contract still runs the code of the
snapshot, or it has left it for good and every later read shows something else
(`JobIsTracked`), so a comparison that succeeds means that the code that was
simulated is the one whose interface encoded the arguments.  `ReadsAreReads` is
`ReadsHaveNoEffect`, for any number of effects a simulation may report.

`ArgumentsAreHonest` is `FormIsHonest` and `ArgumentsAreTaken`, for any contract spec,
inputs, arguments, spellings, names of accounts and conversions.  Assumed are
that types are finite and the spec defines finitely many (`FormsAssumption`), that
what JSON becomes is in order, that a value in order has a form to be shown in, that
respelling a name twice changes nothing more, and that JSON is never parsed as a
result (`CallsAssumption`; TLC evaluates them with the conversions of
`ContractValues`).  The argument has three parts.  The walks are recursions over
pairs of a type and the definitions entered; `Rank` (definitions not entered yet,
then depth) goes down at each step, so each recursion has exactly one solution
(`WalkExists`, `WalksAgree`), and `FormsAndReviewsAgree`: the two refuse the same
types, because the one that would be lowest to differ does not.  What inputs
leave is a recursion over the inputs; each argument is removed at one place
(`TakenBefore`, `TakenOnce`), which gives the place of `ArgumentsAreTaken`.  And JSON
under a result's name is either taken by that input or was taken by another one
for which the name is the second spelling: then nothing fits the result any more.
`GuidedCallsAreHonest` puts them together with `ReviewedCode` and `ReadsAreReads`.

`TransfersAreRequested` is `TransferIsRequested`, for any tokens, decimals, amounts,
upgrades, wallets, networks and preimages.  `TokenInv` follows the amount through
the call: the text is scaled by the decimals of the code that answered, that code
is the one of the snapshot, and the transfer was simulated by the same code or
the comparison at the end fails.  For the detached transfer the two halves of an
amount determine it (`I128` is injective when the lower one is below `Base`), so the
preimage that passed the comparison is the requested transfer and no other.

`Reviews` puts these components and those of section 9 side by side with the
properties of the run; `MCReviews` adds the conversions of `ContractValues`, which
recurse, and the instances.  `ReviewIsExact` is about these conversions and is
model-checked only.


## 9. Arithmetic of Classic writes

`OfferMath` is the code's integer arithmetic with its limits as parameters:
`stellar_price` as a loop of continued fractions with a semi-convergent, and
`offer_liabilities` with the ledger's rounding.  `MCOfferMath` states the
reference definitions: the nearest fraction within bounds, the amounts the
ledger's own exchange allows.  `PriceIsExact`, `PriceIsClose`,
`LiabilitiesAreThoseOfTheLedger` over all prices with limits 23, 40 and scale 10;
`Reviews` names them `OfferIsExact`.  Integers are unbounded in TLA+; where the
code's type ends, the operators refuse as the checked arithmetic does.

`ClassicWrites` has the reads of a preflight one by one (account, destination,
issuer, offer, pool) and a ledger that may move between them, next to what the
ledger itself does with the transaction.  `PreflightIsExact`: of a quiet ledger
nothing passes that it refuses or that the client's own rules forbid (a required memo
that is missing, a memo id beside the id of a muxed address, a new account under a
muxed address), and nothing else is refused but for two exceptions, for all kinds of
payments, trustlines and offers around their limits.  The exceptions are refusals the
ledger does not share.  `LumensFit`: an offer that buys lumens is refused within one
fee of the largest amount, where the ledger, which has taken the fee by then, would
accept it.  `IssuerIsThere`: a payment of an issued asset to its issuer is refused when
the issuer has no account (`payment.rs:237`), while the ledger burns what is sent to an
issuer without looking its account up.  `ReviewedLine`: the line shown is the
line there will be; `OldLiabilitiesCountedOnce`: an update of an offer that is
partly taken meanwhile passes only if, its fee aside, it would have passed at some
moment of the call, and the fee was there at one.  With the fee at the same moment
the statement is false of a wallet that has not one fee to spare: the money for
the fee may be what a take brings in after the offer was read.  Only takes are
covered: a change of the offer by its owner elsewhere is not (section 11).

The worlds are small ledgers chosen around each limit (`MCClassicWrites`), the
amounts of lumens 994 to 1000 those around the end of the range, `Int64Max` = 1000;
in the scenario "raced" up to three takes meet wallets with nothing to spare and
with enough.  `MarketViews` shows levels, trades and fills: `PricesAreNotZero`,
`FillsAreRuns` (run property `MarketIsShown`).

`ReviewProofs` also proves both properties of the preflight for any ledger,
reserve, fee, limit, request and number of takes, those of prices and liabilities,
and those of views.

* `PreflightsAreExact` (`PreflightIsExact` with `ReviewedLine`) is about a ledger that
  stays (`Write`: no changes).  `WriteInv` says that then everything that was read
  is what the ledger has, and that the outcome is the one the ledger's rules give.
  Under it lie one lemma per kind of request: what the client computes from
  balances, lines, offers and pool shares is what the ledger computes, including
  the entries that are created or removed and the liabilities of an offer, which
  `ExchangeForm` gives in closed form for amounts in range.
* `LiabilitiesAreReleasedOnce` (`OldLiabilitiesCountedOnce`) is about a ledger in
  which others take parts of the offer between the reads.  `RacedInv` says that
  from the read of the offer on, the ledger is the one of that read with some part
  of the offer taken (`Taken`); takes compose (`TakeMore`).  A part that the price
  divides takes its own amounts off both liabilities and no more
  (`LiabilitiesShrink`): the rounding of the whole is the rounding of the rest.  So
  what the client releases is what the account of the later read had reserved plus
  what was taken, which the balances of the earlier moment still had or did not yet
  have, and the update would have been accepted then.

* `OffersAreExact` (`OfferIsExact`) is about every bound of terms and amounts, every
  scale within it and every requested price.  The loop of continued fractions is a
  function of its round; `LoopKept` says, from the least counterexample, what every
  round keeps (`Loop`): rest and convergents make up the requested price, the last
  two convergents are neighbours (their cross products differ by one), and the rest
  falls with every round, so the loop has stopped by round 2 * scale (`LoopEnds`).  A
  fraction equal to the requested one is a combination of the two neighbours with
  natural coefficients (`Combination`); if the next convergent is out of bounds,
  that fraction is as well (`StopsOnlyOutOfReach`).  So the loop stops with a rest only
  if the price cannot be encoded; the rest is then the distance
  (`RestIsTheDistance`).  A stopped loop has no price only above the range, where the
  largest whole price is signed (`BestForm`, `WholePrice`): the search for a largest
  multiple never gives anything else.  Liabilities follow from the closed form that
  `PreflightsAreExact` uses too (`NormalIsFair`).

* `MarketsAreShown` (`MarketIsShown`) is about any scale, amounts, terms and number of
  trades.  Rounding to the nearest number is off by half a unit at most
  (`Rounding`), and what is marked as tiny is what would have rounded to zero
  (`PriceShown`).  For fills, the segments and both sums are functions of the number
  of trades; `Cut` says what the segments of the first k trades are, and `CutKept`
  that one more trade keeps it, as a segment of its own (`AddedApart`) or in the last
  one (`AddedToTheLast`), from the least counterexample.


## 10. Services

### 10.1 SystemAuthDomain

The preferences exist twice, in memory and on disk; `commit()` changes the first
and then the second, and may fail in between (`WritesFail`).  The native-modules
thread runs the exported methods one after the other, in steps where they touch
the key store or the preferences; the main thread runs the callbacks of the
prompt.  `Crash` keeps key store and disk.  `BiometricsChange` invalidates the
pairs; `RotatePasscode` makes a wrapped key stale.

* `DurableDomainHasItsKey`: the alias on disk always has its key pair, whatever
  step the process ends at.
* `RemovedDomainIsClosed` (action property): after a removal was reported, a
  prompt that was open signs nothing.
* `AuthenticationEnds` (liveness): the module's busy flag is cleared again.

Fairness: `WF(MainThread)`.  The system ends every prompt with one of its final
callbacks, and the main looper runs what is posted to it.  Nothing is assumed of
the native-modules thread or of the user.

`ServiceProofs` proves `TypesAreKept` unconditionally, and `DurableDomain`
and `RemovedDomain` under `WritesFail = FALSE`, for any aliases, signers and number
of re-protections.  The invariants say that memory and disk then agree but for the
commit under way, that a pending alias is apart from the active one and has its
pair, that a retired alias is not the active one, and, for the removal, that an
open prompt whose pair still exists holds the active alias or the one about to be
deleted.  Liveness is model-checked only.

### 10.2 Anchors

`AnchorSession`: any challenge and any signed envelope may come back.
`PostedIsBound`: what is posted is a challenge of that anchor for the session's
account, domain and network, cannot be applied to the ledger, and carries the
server's signature and enough weight of the client's own signers (a threshold may be
zero, but one signature there must be).  `ServiceProofs` proves
it as `PostedChallengesAreBound` for any anchors, challenges, plans and networks: a session that holds a challenge holds one that was verified for its
anchor and account, and the exchange compares the signed transaction with it.
`AnchorTransfers`:
discovery from every combination of what an anchor may publish (a warning where a
server does not answer), the selection, the start, the status, perhaps after
another discovery, and the payment.  `TransferIsDetermined` stands for
`SelectedCanRun`, `StatusIsNotGuessed`, `FieldsAreUnambiguous`,
`PaymentIsAskedFor` (in the run a part of `AnchorIsUnderstood`);
`TransfersAreDetermined` proves it for any documents, answers,
identifiers and requests.  The selection and the status are functions of one
discovery, so their part is a lemma about every document; of the state the proof
needs only that a report belongs to the transfer that was started (`PaymentInv`).
`AnchorCustomer`: `MetadataIsOwn`, `BodiesAgree` (`CustomerIsRead`, the other
part of `AnchorIsUnderstood`) for queries with any option and language, and updates with up to
two text fields and two files of a reserved, padded or plain name.  Nothing refuses
two files of one name; a form has both, and such an update is always a form.
`CustomersAreRead` proves it for any options, names and numbers of fields (`AnchorsAreUnderstood` has both): each
option that is stated adds one part under its reserved name (`WithReads`), fields
and files have other names, whose order does not matter (`SetAsSequence`).  HTTP is reduced to its result; the bound of one discovery in the scenario
of the choices, and of one request in the customer's, leaves nothing out, since the
next one starts over.

### 10.3 HistoryCache

A worker asks for a page, stores it in a transaction, and decides on what it
reads of the cache then.  The account gains operations, requests fail, a worker
ends, another works on the same rows, and the setting for the full history changes.
`HistoryIsWhole` has two instances.

* *One worker* (`Alone`): requests fail at any page, and the setting changes under way
  too (bound: at most once during a synchronisation, the field `steady`).  `NoHoles`
  holds at every moment, and `FullHistoryIsComplete` when a full synchronisation ends.
* *Two workers* (`Together`): requests fail at any page; the setting changes while both
  are at rest.  A hole can open while pages are under way; `HolesClose`: when both are
  at rest it is closed, unless a request failed after they met.  The history variable
  `met` says what happened since both were last at rest without a hole: they kept
  apart, they were under way at once, or a request failed after that ("torn").

The last condition is needed: one worker fetches the page {4,5} of an account that
has 5 operations, the account gains four, the other worker stores {8,9} and its next
request fails, and the first stores {4,5}.  Every later synchronisation starts at row 9,
and rows 6 and 7 never come.  So is the restriction on the setting: with two workers, or
when it is changed and changed back between two pages, a page can be stored below rows
that were trimmed away meanwhile.  Section 11 lists these three.

`SyncEnds` holds under `WF(Continue(w))`: a started worker thread runs to its end, as
every loop compares cursors and page sizes only.  It is checked for one worker.
Assumption `WindowIsPages` (the window is a multiple of a page, as 2000 and 200 are):
otherwise trimming loses rows a change of mode needs.  Bounds: a page of 2, a window
of 4, 9 operations (6 for two workers, `SharedHead`) let the window overflow while a
walk is under way; without the condition on `met` TLC finds the hole above within them.

`ServiceProofs` proves `HistoryIsWhole` as `HistoryStaysWhole`, for any number of
operations, any page and any window of whole pages, under the same conditions.
Neither part is inductive.

* One worker (`AloneInv`): the rows are one run `lo..hi`, and the cursor and the page
  of the worker are at the end its walk works on.  A walk from the head also knows
  how much it has fetched: `hi + 1 = lo + fetched`, in whole pages.  Without a change
  of mode it therefore never stores beyond the window, so that trimming takes away
  nothing it stands on; after one it may, but has then fetched enough and stops
  before the next request.  Here `WindowIsPages` is needed.
* Two workers (`TogetherInv`): what a walk from the head has yet to store is
  *missing*; a row is *kept* if it is there, or, outside full mode, if the window is
  full of newer ones (`KeptIn`).  From some row `low` up to the newest, every row is kept
  or missing, also counting the missing ones towards the window; every walk stands
  next to a kept row, every row a walk from the head has passed is kept, and below
  `low` there is no row and no walk (`TogetherFrom`).  Trimming and storing preserve
  what is kept; the first stored row above a gap is why the invariant counts the
  missing rows.  When both workers have ended nothing is missing, and a hole
  would have a full window above it and another row below, more than the cache holds.
  While the workers keep apart, the rows are one run as with one worker (`Apart`), so
  a request that fails leaves a run, and with its oldest row as `low` the rest holds
  again (`RestIsCovered`).  Of "torn" the invariant says the types only (`RowsFit`).


## 11. Where the code and its documentation disagree

Four disagreements have a run of their own (`PROJECT.json` "findings"):
`default_timeout`, `shared_file`, `spare_signature`, `wallet_rotation`.  Others were
met while modelling; the formula is in the module, and these constants show it:

| Formula | Instance | What the code does | What is said |
|---|---|---|---|
| WalletStore `WalletsAreNotOverwritten` | two `Procs`, operations `watch` | `save` checks for the file and renames later: two processes that add one name both succeed and the second replaces the first (`storage.rs:75`) | "wallet already exists" (`storage.rs:76`) |
| CoreSigning `OneSignaturePerSigner` | two nonces | an external signer that signs differently each time adds a second signature (`core/rust/src/transaction.rs:153`) | "signer has already signed this transaction" (line 198) |
| AnchorSession `PostedInTime` | as in `services` | the exchange does not check the time bounds again (`anchor_protocol.rs:1017`) | `docs/capabilities/anchor.md:87` rejects "before token exchange" |
| AnchorTransfers `StatusOfTransfer` | documents whose SEP-24 `/info` fails at times | the status of a SEP-24 transfer is looked up with SEP-6 when only that answers (`anchor_protocol.rs:192`) | `anchor.md:68` "must not silently guess" |
| MCOfferMath `PriceIsBest` | as in `reviews` | a semi-convergent is tried only while no full convergent fits (`dex.rs:1292`) | `docs/capabilities/sdex.md:71` "best positive rational approximation" |
| MCMarketViews `AmountsAreNotZero` | as in `reviews` | a positive amount of a bid rounds to 0.0000000 (`dex.rs:1353`) | `sdex.md:67` "must not be represented to the user as semantic zero" |
| ClassicWrites `OldLiabilitiesCountedOnce` | `SharedSpec`, another device reduces the offer (`ReduceOffer`) and lumens come in (`BePaid`) | the offer is read before the account: what was released is added twice (`dex.rs:666`) | `sdex.md:109` "without double-counting the old liabilities" |
| TokenTransfers `BalanceIsScaled` | `Calls` with `"balance"` | both reads name the code of their interface, not of the simulation: a balance in the decimals of another code (`token.rs:175`) | "token contract executable changed during the operation" (`token.rs:313`) |
| SystemAuthDomain `RemovedDomainIsClosed` | `WritesFail = TRUE` | after a failed commit a second `deleteDomain` reads no alias and leaves the pair (`WalletUnlockKeyStore.java:188`) | "Deletes the device domain and all per-signer wrapped keys" (line 187) |
| SystemAuthDomain `DomainIsUsable` | as in `services` | `hasDomain` stays true for an invalidated pair (`WalletUnlockKeyStore.java:124`) | "currently usable" (line 123) |
| HistoryCache `Contiguous` at rest | `Together` with a request that fails after the workers met (without `met` in `HolesClose`) | rows 4, 5, 8 and 9 stay without 6 and 7, and every later synchronisation starts at row 9 (`history_service.py:52`) | "keeps the newest ``history_cache_limit`` Horizon operations" (line 15) |
| HistoryCache `Contiguous` at rest | `Together` with `ChangesUnderWay = TRUE` | a worker that loads older rows in full mode stores them after another has trimmed to the window of the new mode (`history_service.py:140`); the next trim takes them away | as above |
| HistoryCache `NoHoles` | one worker, the setting changed and changed back between two pages (without the bound `steady`) | the page in between is trimmed away while the walk goes on below it (`history_service.py:116`) | as above |
| ContractArguments `ReviewIsExact` | as in `reviews`, without `InOrder` | a struct as an encoded map in another order, or with a key twice, passes a validation by names and number and is shown by places, with values exchanged (`contract.rs:1091`) | `docs/application-flows.md:162` "the effective encoded meaning belongs in the review before confirmation" |
| ClassicWrites `PreflightIsExact` | as in `reviews`, without `IssuerIsThere` | an issued asset is not sent back to an issuer without an account, which the ledger would burn (`payment.rs:237`) | `docs/capabilities/payment.md:49` "do not add an `issuer must still exist` preflight", though line 42 asks for "an existing destination account" |
| HistoryCache `NewestAreKept` | `Interrupts = TRUE` | an interrupted first synchronisation in the default mode is never completed below its page (`history_service.py:52`) | "keeps the newest ``history_cache_limit`` Horizon operations" (line 15) |


## 12. What rests on what

Proved for all constants: what sections 3.3, 4.3, 5.3, 6.3, 7.4, 8, 9 and 10 name.  Assumptions are the named `ASSUME`s of the modules, evaluated by TLC
in the runs (the MC modules and `Reviews` evaluate those of the modules they
instantiate), and the hypotheses stated in the theorems: `OneWriter` (3.3), `OneProcess`, `~Windows`, `~Crashes` and no re-protection (6.3),
`WritesFail = FALSE` (10.1); for encoded values the order of their maps (8), for
preflights the two exceptions of section 9, and for the history the conditions of
10.3 are part of the property itself.  The runs and the table above show counterexamples
without most of them.

The named assumptions say what a value is and no more: conditions are a
finite set, weights and thresholds naturals (4), a passcode is not the empty text
and indices are naturals (7), effects and decimals are numbers, types are finite (8), a ledger has
balances, liabilities and limits in the range of amounts that its own rules allow
(`Legal`, 9).

Model-checked only:

* `ReviewIsExact` (8): the conversions of values and JSON are `RECURSIVE` operators.
* Liveness under fairness; `ENABLED`.

Induction over data is beyond the provers: the library's rules take an operator
as a parameter.  Over finite sets and numbers the proofs use the least
counterexample instead (sums in section 4, powers of ten in section 8, the loop of
prices and the trades of a list in section 9, types by their rank in section 8);
what a recursive operator computes from a tree of values is left to TLC.

Not covered even where a component is modelled: a hash that was never saved
because the process ended first (`Abandon` between posting and remembering) –
the properties speak of *recorded* transactions, and no property can hold across
that window in this design; formats and wording; cryptography, used as the fact
that a signature verifies or does not and a key opens or does not.

### Not modelled, and why

* Python write services: the design of TransactionFlow; settled records are
  removed one at a time, so the window of `shared_file` is shorter, not closed.
* Contacts and the asset catalogue: one small file read, changed and written
  without a lock, the window of `shared_file` again.
* Balance and history views, Python read services: formatting of gateway answers
  without state; their caches are replaced in one transaction.
* The Apple key store: another order of calls over the Keychain, next in the plan.
* Parsing of gateway answers, HTTP, the React Native marshalling of Core calls:
  input and output without state.
* Terminal UI, anchor pages, the Smart Account Kit demonstration, documentation,
  releases and build scripts: no logic of the wallet.
