------------------------- MODULE MCTransactionFlow -------------------------
(***************************************************************************)
(* Instances of TransactionFlow for TLC.                                   *)
(***************************************************************************)
EXTENDS TransactionFlow, TLC

\* Accounts and intents are interchangeable, and so are sessions.
Symmetry == Permutations(Accounts) \union Permutations(Intents) \union Permutations(Sessions)

\* Bound: Classic and Soroban writes of one account, or Classic writes of two.
Writes ==
    (inflight \union applied \union {r.tx : r \in pending} \union {job[s] : s \in Sessions}) \ {NoTx}

OneKindOrOneAccount ==
    (\E w \in Writes : w.kind = "soroban") => \A v, w \in Writes : v.acct = w.acct

MCNext == Next /\ OneKindOrOneAccount'

MCSpec == Init /\ [][MCNext]_vars
=============================================================================
