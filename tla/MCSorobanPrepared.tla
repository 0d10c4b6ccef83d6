------------------------- MODULE MCSorobanPrepared -------------------------
(***************************************************************************)
(* Two scenarios of SorobanPrepared in one state space, told apart by the  *)
(* kinds of the second body's entries: one handle over two bodies whose    *)
(* public fields are assigned at will, and two clones of one body with two *)
(* entries.                                                                *)
(***************************************************************************)
EXTENDS SorobanPrepared

CONSTANTS h1, h2, b1, b2, e1, e2, k1, k2

Clones == kind[b2] = [e \in Entries |-> "address"]

Held == {handle[h] : h \in Handles} \ {None}

\* One handle; the second entry of every body belongs to the source account.
OneHandle ==
    /\ \A b \in Bodies : kind[b][e2] = "source"
    /\ handle[h2] = None
    /\ \A p \in Held : e2 \notin p.envelope.auth

\* Two handles on the first body, and one key.
OneBody ==
    /\ \A e \in Entries : kind[b1][e] /= "delegated"
    /\ \A r \in reviews : r.body = b1
    /\ \A p \in Held : p.envelope.body = b1
    /\ \A s \in signed : s[1] = k1

Admitted == IF Clones THEN OneBody ELSE OneHandle

MCInit == Init /\ Admitted

MCNext ==
    \/ \E h \in (IF Clones THEN Handles ELSE {h1}) : (Product(h) \/ Client(h)) /\ Admitted'
    \/ Tick

MCSpec == MCInit /\ [][MCNext]_vars
=============================================================================
