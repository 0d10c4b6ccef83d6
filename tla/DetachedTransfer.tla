-------------------------- MODULE DetachedTransfer --------------------------
(***************************************************************************)
(* Authorizing one token transfer from a Soroban preimage that a contract  *)
(* wallet or a web page hands over: review, system authentication or       *)
(* passcode, and a bare signature in return                                *)
(* (prepare_detached_token_transfer_authorization and                      *)
(* sign_detached_token_transfer_authorization in soroban.rs).              *)
(*                                                                         *)
(* The request says what the user means; the preimage says what would be   *)
(* signed, and comes from elsewhere.  Between review and signature the     *)
(* product holds the prepared value, whose review it can assign to.        *)
(***************************************************************************)
EXTENDS Integers, FiniteSets

CONSTANTS
    Networks,
    Addresses,  \* classic accounts
    Wallets,    \* [network, address, signing]: the records on disk
    Contracts,
    Base        \* 2^64, the weight of the upper half of an amount

WalletsAssumption == Wallets \subseteq [network: Networks, address: Addresses, signing: BOOLEAN]
BaseAssumption == Base \in Nat \ {0}

VARIABLES prepared, requested, signatures

vars == <<prepared, requested, signatures>>

Halves == [hi: -1..1, lo: 0..Base - 1]
Amounts == -1..Base + 1

\* (hi << 64) | lo
I128(parts) == parts.hi * Base + parts.lo

\* Preimages of the first type do not name the authorizer; an address is any argument.
Preimages ==
    [type: {"authorization", "with address", "transaction"}, network: Networks,
     address: Addresses, contract: Contracts, function: {"transfer", "approve"},
     from: Addresses, destination: Addresses, amount: Halves, sub: BOOLEAN]

TransferRequests ==
    [wallet: Wallets, contract: Contracts, destination: Addresses, amount: Amounts]

None == [requested |-> FALSE]

\* What the entry that is rebuilt from a preimage hashes to on a network.
EntryPreimage(p, n) == [p EXCEPT !.network = n]

Authorizer(w, p) == IF p.type = "with address" THEN p.address ELSE w.address

-----------------------------------------------------------------------------
\* Mutant: a call that calls on is accepted.
OneTransferDeep(r, p) ==
    /\ p.contract = r.contract /\ p.function = "transfer"
    /\ p.from = r.wallet.address /\ p.destination = r.destination
    /\ I128(p.amount) = r.amount

OneTransfer(r, p) ==
    /\ ~p.sub
    /\ p.contract = r.contract /\ p.function = "transfer"
    /\ p.from = r.wallet.address /\ p.destination = r.destination
    /\ I128(p.amount) = r.amount

MayPrepare(r, p) ==
    /\ r.amount > 0
    /\ p.type /= "transaction"
    /\ Authorizer(r.wallet, p) = r.wallet.address
    /\ OneTransfer(r, p)
    /\ EntryPreimage(p, r.wallet.network) = p

Review(r, p) ==
    [network |-> r.wallet.network, authorizer |-> r.wallet.address,
     contract |-> p.contract, destination |-> p.destination, amount |-> I128(p.amount)]

Init == prepared = None /\ requested = None /\ signatures = {}

Prepare(r, p) ==
    /\ prepared = None /\ signatures = {}
    /\ MayPrepare(r, p)
    /\ prepared' = [requested |-> TRUE, review |-> Review(r, p), preimage |-> p]
    /\ requested' = [requested |-> TRUE, request |-> r]
    /\ UNCHANGED signatures

\* Fields of the review are public.
AssignReview(n, a) ==
    /\ prepared /= None
    /\ prepared' = [prepared EXCEPT !.review.network = n, !.review.authorizer = a]
    /\ UNCHANGED <<requested, signatures>>

\* assert_review_binding
Bound == EntryPreimage(prepared.preimage, prepared.review.network) = prepared.preimage

\* Mutant: any wallet on the network will do.
SignerOfAnyNetwork == {w \in Wallets : w.signing /\ w.address = prepared.review.authorizer}

\* The record that signs for the authorizer.
Signer ==
    {w \in Wallets : w.signing /\ w.network = prepared.review.network
                               /\ w.address = prepared.review.authorizer}

\* A system-auth provider answers first; without one the passcode does.
Released(provider, opens) ==
    IF provider = "none" THEN opens ELSE provider = "unlock key" /\ opens

SignDetached(provider, opens) ==
    /\ prepared /= None
    /\ Bound
    /\ Released(provider, opens)
    /\ \E w \in Signer :
         signatures' = signatures \union
           {[key |-> w, over |-> EntryPreimage(prepared.preimage, prepared.review.network),
             request |-> requested.request]}
    /\ UNCHANGED <<prepared, requested>>

\* The signatures are handed out.
Discard == prepared' = None /\ requested' = None /\ signatures' = {}

Next ==
    \/ \E r \in TransferRequests, p \in Preimages : Prepare(r, p)
    \/ \E n \in Networks, a \in Addresses : AssignReview(n, a)
    \/ \E provider \in {"none", "unlock key", "passphrase required", "cancelled", "failed"},
          opens \in BOOLEAN : SignDetached(provider, opens)
    \/ Discard

Spec == Init /\ [][Next]_vars

-----------------------------------------------------------------------------
(***************************************************************************)
(* Properties.                                                             *)
(***************************************************************************)
\* Whatever entry a signature fits, on whatever account's credential, executes the
\* transfer that was requested and nothing else: contract, function, payer, payee,
\* the amount as the contract reads it, the network, and no call further on.  For
\* preimages that do not name the authorizer the arguments have to do it.
SignedIsRequested ==
    \A s \in signatures :
        /\ s.over.contract = s.request.contract /\ s.over.function = "transfer"
        /\ s.over.from = s.request.wallet.address
        /\ s.over.destination = s.request.destination
        /\ s.over.amount.hi * Base + s.over.amount.lo = s.request.amount /\ s.request.amount > 0
        /\ s.over.network = s.request.wallet.network
        /\ ~s.over.sub

\* Only the key of a wallet on the network of what it signs is used.
KeyOfTheNetwork ==
    \A s \in signatures : s.key \in Wallets /\ s.key.signing /\ s.key.network = s.over.network
=============================================================================
