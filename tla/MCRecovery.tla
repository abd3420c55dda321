----------------------------- MODULE MCRecovery -----------------------------
(***************************************************************************)
(* Recovery, for TLC: what the pages and the node know of is explored      *)
(* either among several fees or among several nonces, not both at once.    *)
(***************************************************************************)
EXTENDS Recovery, TLC
CONSTANTS page1, page2, pay

Known ==
    Saved(stored) \cup submitted \cup dismissed
        \cup ({flow[page].tx : page \in Pages} \ {None})

(* Replacements of one payment and dismissals on a low chain, or second     *)
(* payments on a higher one.                                                *)
Explored ==
    \/ Len(chain) <= 2 /\ \A tx \in Known : tx.nonce = 0
    \/ dismissed = {} /\ \A tx \in Known : tx.fee = 0

Symmetry == Permutations({page1, page2})
=============================================================================
