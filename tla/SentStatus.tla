----------------------------- MODULE SentStatus -----------------------------
(***************************************************************************)
(* Where a sent transaction stands (src/src/lib/wallet/node.ts,            *)
(* sentStatus): up to four reads of one node, one after the other, while   *)
(* the node's pool and chain move on.  The chain is not reorganised: the   *)
(* account's nonce, once spent, is spent by the same transaction for good. *)
(* What the node still knows of a transaction comes and goes: it may drop  *)
(* a pending one, learn it again, and prune an included one.               *)
(***************************************************************************)
EXTENDS Naturals

VARIABLES
    old,        \* the node is too old to report inclusion
    recorded,   \* the wallet recorded the sender and nonce
    spent,      \* which transaction spent the nonce: "nobody", "ours", "other"
    knows,      \* the node has the transaction
    pool,       \* its mempool lists it
    listing,    \* a mempool listing this pass shares with other checks, once read
    at,         \* the read the check waits for
    result      \* what the check returned, "none" until then

chain == <<spent, knows, pool>>
asked == <<old, recorded>>
vars  == <<old, recorded, spent, knows, pool, listing, at, result>>

Reads   == {"transaction", "accountUnknown", "mempool", "account", "again", "done"}
Results == {"none", "included", "pending", "nonce advanced", "replaced",
            "pending or dropped", "unknown to node", "failed"}

Init ==
    /\ old \in BOOLEAN /\ recorded \in BOOLEAN
    /\ spent \in {"nobody", "ours", "other"}
    /\ knows \in BOOLEAN /\ pool \in BOOLEAN
    /\ pool => knows /\ spent = "nobody"
    /\ listing = "unread"
    /\ at = "transaction" /\ result = "none"

Return(kind) == at' = "done" /\ result' = kind

GoOn(read) == at' = read /\ result' = result

----------------------------------------------------------------------------
(* The check                                                                *)

(* An answer without inclusion fields does not parse as the current wire.   *)
ReadTransaction ==
    /\ at = "transaction"
    /\ \/ ~knows /\ recorded /\ GoOn("accountUnknown")
       \/ ~knows /\ ~recorded /\ Return("unknown to node")
       \/ knows /\ old /\ recorded /\ GoOn("mempool")
       \/ knows /\ old /\ ~recorded /\ Return("failed")
       \/ knows /\ ~old /\ spent = "ours" /\ Return("included")
       \/ knows /\ ~old /\ spent # "ours" /\ GoOn("mempool")
    /\ UNCHANGED <<asked, chain, listing>>

(* A failure of this auxiliary read does not hide that the node knows       *)
(* nothing.                                                                 *)
ReadAccountUnknown ==
    /\ at = "accountUnknown"
    /\ \/ spent # "nobody" /\ Return("nonce advanced")
       \/ Return("unknown to node")
    /\ UNCHANGED <<asked, chain, listing>>

(* Another check of the same pass has the listing read.                     *)
ShareListing ==
    /\ listing = "unread" /\ at # "done"
    /\ listing' = IF pool THEN "lists" ELSE "omits"
    /\ UNCHANGED <<asked, chain, at, result>>

(* A listing is bounded, so it may omit what the pool holds.                *)
ReadMempool ==
    /\ at = "mempool"
    /\ \/ (listing = "lists" \/ (listing = "unread" /\ pool)) /\ Return("pending")
       \/ listing # "lists" /\ GoOn("account")
    /\ UNCHANGED <<asked, chain, listing>>

(* Mutant: a spent nonce is taken for another transaction's at once.        *)
ReadAccountOnly ==
    /\ at = "account"
    /\ \/ spent = "nobody" /\ Return("pending or dropped")
       \/ spent # "nobody" /\ old /\ Return("nonce advanced")
       \/ spent # "nobody" /\ ~old /\ Return("replaced")
    /\ UNCHANGED <<asked, chain, listing>>

ReadAccount ==
    /\ at = "account"
    /\ \/ spent = "nobody" /\ Return("pending or dropped")
       \/ spent # "nobody" /\ old /\ Return("nonce advanced")
       \/ spent # "nobody" /\ ~old /\ GoOn("again")
    /\ UNCHANGED <<asked, chain, listing>>

(* It may have been mined between the first read and the nonce's.           *)
ReadAgain ==
    /\ at = "again"
    /\ \/ knows /\ spent = "ours" /\ Return("included")
       \/ knows /\ spent # "ours" /\ Return("replaced")
       \/ ~knows /\ Return("failed")
    /\ UNCHANGED <<asked, chain, listing>>

ReadFails ==
    /\ at \in Reads \ {"accountUnknown", "done"}
    /\ Return("failed")
    /\ UNCHANGED <<asked, chain, listing>>

Check ==
    \/ ReadTransaction \/ ReadAccountUnknown \/ ReadMempool
    \/ ReadAccount \/ ReadAgain \/ ReadFails

----------------------------------------------------------------------------
(* The node                                                                 *)

Mine ==
    /\ spent = "nobody"
    /\ \/ spent' = "ours" /\ knows' = TRUE
       \/ spent' = "other" /\ UNCHANGED knows
    /\ pool' = FALSE
    /\ UNCHANGED <<asked, listing, at, result>>

Learn ==
    /\ spent = "nobody"
    /\ knows' = TRUE /\ pool' = TRUE
    /\ UNCHANGED <<asked, spent, listing, at, result>>

(* Dropped from the pool, forgotten or pruned.                              *)
Forget ==
    /\ knows
    /\ pool' = FALSE
    /\ knows' \in BOOLEAN
    /\ UNCHANGED <<asked, spent, listing, at, result>>

Next == Check \/ ShareListing \/ Mine \/ Learn \/ Forget

Spec == Init /\ [][Next]_vars

(* Every request is answered or times out.                                  *)
FairSpec == Spec /\ WF_vars(Check)

----------------------------------------------------------------------------
(* Properties                                                               *)

TypeOK ==
    /\ old \in BOOLEAN /\ recorded \in BOOLEAN
    /\ spent \in {"nobody", "ours", "other"}
    /\ knows \in BOOLEAN /\ pool \in BOOLEAN
    /\ listing \in {"unread", "lists", "omits"}
    /\ at \in Reads /\ result \in Results

(* A final answer is true although its reads saw different moments of the   *)
(* node: what is called included is, what is called replaced never will be, *)
(* and an advanced nonce is spent (node.ts sentStatus, statusText: "not     *)
(* included; its nonce was spent by another transaction").                  *)
FinalAnswersAreTrue ==
    /\ result = "included" => spent = "ours"
    /\ result = "replaced" => spent = "other"
    /\ result = "nonce advanced" => spent # "nobody"

(* A check returns, however the pool and the chain move meanwhile.          *)
CheckEnds == <>(result # "none")
=============================================================================
