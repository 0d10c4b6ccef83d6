------------------------------- MODULE MCCore -------------------------------
(***************************************************************************)
(* Core as a host uses it, in three scenarios that share nothing:          *)
(*   "devices"  external devices that answer later, and messages,          *)
(*   "agents"   agents under grants while time passes (CoreSigning), and   *)
(*   "signers"  protected signers (ProtectedSigner).                       *)
(* There are two keys with one hint, a muxed account, an operation of      *)
(* another account, an envelope of each form, an entry of each credential, *)
(* and three grants.                                                       *)
(***************************************************************************)
EXTENDS CoreSigning, TLC

CONSTANTS
    k1, k2,
    Passes, Secrets, Mnemonics, Ambiguous, MaxIndex, MaxEnvelopes    \* of ProtectedSigner

VARIABLES part, envelopes, made, keys, typed, revealed

MCHintOf == [k \in {k1, k2} |-> 7]

Account(k, muxed) == [key |-> k, muxed |-> muxed]
Operation(source, type) == [source |-> source, type |-> type]
Transaction(form, source, fee, operations) ==
    [form |-> form, source |-> source, fee |-> fee, operations |-> operations]

Pay == Operation(NoSource, "payment")
PayMuxed == Operation(Account(k1, TRUE), "payment")
PayForOther == Operation(Account(k2, FALSE), "payment")
Trust == Operation(NoSource, "change trust")

AgentTransactions ==
    {Transaction("V1", Account(k1, FALSE), 1, <<Pay>>),
     Transaction("V1", Account(k1, TRUE), 1, <<PayMuxed, Pay>>),
     Transaction("V1", Account(k1, FALSE), 1, <<PayForOther>>),
     Transaction("V1", Account(k1, FALSE), 2, <<Pay, Trust>>),
     Transaction("V1", Account(k2, FALSE), 1, <<Pay>>),
     Transaction("FeeBump", Account(k1, FALSE), 2, <<Pay>>)}

DeviceTransactions ==
    {Transaction("V1", Account(k1, FALSE), 1, <<Pay>>),
     Transaction("V0", Account(k1, FALSE), 1, <<Pay>>)}

Entry(credentials, address, invocation, payload) ==
    [form |-> "entry", credentials |-> credentials, address |-> address,
     invocation |-> invocation, payload |-> payload]

MCEntries ==
    {Entry("address", k1, "i1", "void"), Entry("addressV2", k1, "i1", "void"),
     Entry("address", k2, "i1", "vector"), Entry("addressV2", k2, "i1", "custom"),
     Entry("addressV2", k1, "i2", "none"), Entry("address", "contract", "i2", "void"),
     Entry("delegates", k1, "i1", "void"), Entry("source", k1, "i1", "void")}

Grant(k, n, allowed, operations, fee, expires) ==
    [key |-> k, network |-> n, allowed |-> allowed, maxOperations |-> operations,
     maxFee |-> fee, expires |-> expires]

MCGrants ==
    {Grant(k1, "public", {"payment"}, 1, 1, 2), Grant(k1, "test", {"payment", "change trust"}, 2, 2, 1),
     Grant(k2, "public", {}, 1, 1, 2)}

-----------------------------------------------------------------------------
\* What the properties range over.
MCTransactions == AgentTransactions \union DeviceTransactions

Devices == INSTANCE CoreSigning WITH
    Transactions <- DeviceTransactions, Grants <- {}, MaxTime <- 0

Agents == INSTANCE CoreSigning WITH
    Transactions <- AgentTransactions, Entries <- {}, MaxAnswers <- 0

Signers == INSTANCE ProtectedSigner

ASSUME SignersAssumption ==
    Signers!IndexAssumption /\ Signers!AmbiguousAssumption /\ Signers!PassesAssumption

signerVars == <<envelopes, made, keys, typed, revealed>>
allVars == <<part, vars, signerVars>>

\* Passcodes are interchangeable.
Symmetry == Permutations(Passes)

MCInit ==
    /\ Signers!Init
    /\ \/ part = "devices" /\ Devices!Init
       \/ part = "agents" /\ Agents!Init
       \/ part = "signers" /\ Devices!Init /\ document = Fresh(CHOOSE c \in DeviceTransactions : TRUE)

\* Bound: messages are signed in the scenario of the devices only, in behaviours in
\* which the documents get no signatures.
MessagesApart == messages /= {} => document.signatures = <<>> /\ answers = {}

MCNext ==
    /\ UNCHANGED part
    /\ \/ part = "devices" /\ Devices!Next /\ MessagesApart' /\ UNCHANGED signerVars
       \/ part = "agents" /\ Agents!Next /\ UNCHANGED <<messages, signerVars>>
       \/ part = "signers" /\ Signers!Next /\ UNCHANGED vars

MCSpec == MCInit /\ [][MCNext]_allVars

-----------------------------------------------------------------------------
\* What an envelope opens to signs for the account it was made for (client_api.rs
\* reprotect_signer, derive_mnemonic_signer), an unlock key opens one envelope
\* (protected_signer.rs), and material is shown only after its passcode was typed
\* (client_api.rs reveal_signing_material).
SignersAreKept ==
    part = "signers" => Signers!SignerKept /\ Signers!KeyOpensOne /\ Signers!MaterialNeedsPasscode

\* Every path that takes a passcode accepts and refuses alike (protected_signer.rs), what an
\* error code says about another passcode, another key or another envelope is true
\* (client_api.rs), and the bindings pass on every code their operations return.
CodesGuide ==
    part = "signers" => Signers!PathsAgree /\ Signers!CodesGuide /\ Signers!CodesSurvive
=============================================================================
