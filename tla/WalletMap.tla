----------------------------- MODULE WalletMap -----------------------------
(***************************************************************************)
(* What the wallet home promises to those who read it: a map from names to *)
(* complete records in which every change is one entry.  A new wallet      *)
(* never takes the place of another, a replaced record keeps its account,  *)
(* and the default pointer only moves to a wallet that exists.             *)
(***************************************************************************)
CONSTANTS Names, Records, None

VARIABLES
    wallets,    \* name -> record or None
    default     \* the default wallet's name or None

mapVars == <<wallets, default>>

Init == wallets = [n \in Names |-> None] /\ default = None

Create(n, r) ==
    /\ wallets[n] = None
    /\ wallets' = [wallets EXCEPT ![n] = r]
    /\ UNCHANGED default

Replace(n, r) ==
    /\ wallets[n] /= None
    /\ wallets[n].address = r.address
    /\ wallets' = [wallets EXCEPT ![n] = r]
    /\ UNCHANGED default

Remove(n) ==
    /\ wallets' = [wallets EXCEPT ![n] = None]
    /\ UNCHANGED default

Point(n) ==
    /\ n = None \/ wallets[n] /= None
    /\ default' = n
    /\ UNCHANGED wallets

Next ==
    \/ \E n \in Names, r \in Records : Create(n, r) \/ Replace(n, r)
    \/ \E n \in Names : Remove(n)
    \/ \E n \in Names \union {None} : Point(n)

Spec == Init /\ [][Next]_mapVars
=============================================================================
