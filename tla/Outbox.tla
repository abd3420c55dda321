------------------------------- MODULE Outbox -------------------------------
(***************************************************************************)
(* What the wallet promises of the transfers, deposits and payments it     *)
(* signs (README "Status": "Every submission error retains the signed      *)
(* record"): one is kept before it is sent, it may be sent again and again,*)
(* the node may lose it, and it is forgotten only because a user said so.  *)
(* Recovery, Sale and Purchase implement this with pages, awaits, locks,   *)
(* failing saves and archives.                                             *)
(***************************************************************************)
CONSTANT Transactions

VARIABLES
    kept,       \* what can be submitted again
    sent,       \* what a node may have, or has mined
    forgotten   \* what a user gave up

vars == <<kept, sent, forgotten>>

(* A wallet that was upgraded starts with what it had kept and sent.        *)
Init ==
    /\ kept \subseteq Transactions
    /\ sent \subseteq kept
    /\ forgotten = {}

Keep(tx) ==
    /\ kept' = kept \cup {tx}
    /\ UNCHANGED <<sent, forgotten>>

(* A page may still send what another page's user has just forgotten.       *)
Send(tx) ==
    /\ tx \in kept \cup forgotten
    /\ sent' = sent \cup {tx}
    /\ UNCHANGED <<kept, forgotten>>

Lose ==
    /\ sent' \subseteq sent
    /\ UNCHANGED <<kept, forgotten>>

Forget(tx) ==
    /\ tx \in kept
    /\ kept' = kept \ {tx}
    /\ forgotten' = forgotten \cup {tx}
    /\ UNCHANGED sent

Next ==
    \/ Lose
    \/ \E tx \in Transactions : Keep(tx) \/ Send(tx) \/ Forget(tx)

Spec == Init /\ [][Next]_vars
=============================================================================
