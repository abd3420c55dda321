----------------------------- MODULE StatusCache -----------------------------
(***************************************************************************)
(* The cache of what the nodes last said of the saved transactions         *)
(* (src/src/popup/app.ts, reconcileRecovery).  At most one pass of reads   *)
(* runs; whoever asks meanwhile waits for that one, and for 30 seconds     *)
(* after it whoever asks is served its result.  A first submission         *)
(* invalidates the cache when it begins, a rebroadcast when it returns.    *)
(*                                                                         *)
(* The status a node tells of a transaction is, here, the number of times  *)
(* it had received it: what an older status does not know of.              *)
(***************************************************************************)
EXTENDS Naturals

CONSTANTS
    Transfers, Attempts,   \* saved transfers; withdrawals of open purchases
    Calls,                 \* submissions that may be under way at once
    MaxReceived            \* bound: times a node receives one transaction

StatusCacheAssumption ==
    /\ Transfers \cap Attempts = {}
    /\ MaxReceived \in Nat

Txs == Transfers \cup Attempts

VARIABLES
    recorded,        \* the transactions in pendingSubmissions and openPurchases
    sent,            \* those submitted at least once
    received,        \* per transaction, how often its node received it
    calls,           \* submissions under way
    resent, first,   \* what was received when the last rebroadcast, and the first submission, returned
    recent, cache,   \* lastReconciliationAt is under 30 s ago; lastRecoveryStatuses
    pass,            \* reconciliation; "current": recoveryStatusEpoch is that of its beginning,
                     \* "from" and "floor": what was received, and resent, then
    screen           \* the open screen's reconciliationResult

store   == <<recorded, sent>>
network == <<received, calls, resent, first>>
vars    == <<recorded, sent, received, calls, resent, first, recent, cache, pass, screen>>

NoStatus == [tx \in {} |-> 0]
NoCall   == <<>>
NoPass   == [on |-> FALSE, current |-> FALSE, unread |-> {}, statuses |-> NoStatus, deep |-> {},
             from |-> NoStatus, floor |-> NoStatus]
NoScreen == [at |-> "none", statuses |-> NoStatus, floor |-> NoStatus]

Init ==
    /\ recorded \in SUBSET Txs /\ sent = recorded
    /\ received = [tx \in Txs |-> 0] /\ resent = received /\ first = received
    /\ calls = [call \in Calls |-> NoCall]
    /\ recent = FALSE /\ cache = NoStatus
    /\ pass = NoPass /\ screen = NoScreen

----------------------------------------------------------------------------
(* Submissions and rebroadcasts                                             *)

Invalidate(cids) ==
    /\ recent' = FALSE
    /\ cache' = [tx \in DOMAIN cache \ cids |-> cache[tx]]
    /\ pass' = [pass EXCEPT !.current = FALSE]

(* A new transaction: its record is saved and the cache invalidated before  *)
(* it is submitted.                                                         *)
Submit(call, tx) ==
    /\ calls[call] = NoCall /\ tx \notin sent
    /\ recorded' = recorded \cup {tx} /\ sent' = sent \cup {tx}
    /\ calls' = [calls EXCEPT ![call] = <<tx, "first">>]
    /\ Invalidate({tx})
    /\ UNCHANGED <<received, resent, first, screen>>

Resubmit(call, tx) ==
    /\ calls[call] = NoCall /\ tx \in sent
    /\ calls' = [calls EXCEPT ![call] = <<tx, "again">>]
    /\ UNCHANGED <<store, received, resent, first, recent, cache, pass, screen>>

(* What is sent may arrive at any time, twice, or not at all.               *)
Receive(tx) ==
    /\ tx \in sent /\ received[tx] < MaxReceived
    /\ received' = [received EXCEPT ![tx] = @ + 1]
    /\ UNCHANGED <<store, calls, resent, first, recent, cache, pass, screen>>

(* Mutant: a rebroadcast invalidates nothing.                               *)
ReturnQuietly(call) ==
    /\ calls[call] # NoCall
    /\ LET tx == calls[call][1] IN
       IF calls[call][2] = "again"
       THEN resent' = [resent EXCEPT ![tx] = received[tx]] /\ UNCHANGED <<first, recent, cache, pass>>
       ELSE first' = [first EXCEPT ![tx] = received[tx]] /\ UNCHANGED <<resent, recent, cache, pass>>
    /\ calls' = [calls EXCEPT ![call] = NoCall]
    /\ UNCHANGED <<store, received, screen>>

(* Accepted, refused or without an answer.                                  *)
Return(call) ==
    /\ calls[call] # NoCall
    /\ LET tx == calls[call][1] IN
       IF calls[call][2] = "again"
       THEN resent' = [resent EXCEPT ![tx] = received[tx]] /\ first' = first /\ Invalidate({tx})
       ELSE first' = [first EXCEPT ![tx] = received[tx]] /\ UNCHANGED <<resent, recent, cache, pass>>
    /\ calls' = [calls EXCEPT ![call] = NoCall]
    /\ UNCHANGED <<store, received, screen>>

----------------------------------------------------------------------------
(* The pass                                                                 *)

(* Purchases are read after the transfers.  A node's mempool is read once   *)
(* for all of them, at any time since the pass began.                       *)
Read(tx) ==
    /\ pass.on /\ tx \in pass.unread
    /\ tx \in Attempts => pass.unread \cap Transfers = {}
    /\ \/ \E deep \in SUBSET {tx}, word \in pass.from[tx] .. received[tx] :
           pass' = [pass EXCEPT !.unread = @ \ {tx}, !.deep = @ \cup deep,
                                !.statuses = [other \in DOMAIN @ \cup {tx} |->
                                                IF other = tx THEN word ELSE @[other]]]
       \/ pass' = [pass EXCEPT !.unread = @ \ {tx}]
    /\ UNCHANGED <<store, network, recent, cache, screen>>

(* What is confirmed is archived; a failure to save it is passed over.      *)
Archive ==
    /\ pass.on /\ pass.unread = {} /\ pass.deep # {}
    /\ recorded' = recorded \ pass.deep \/ recorded' = recorded
    /\ pass' = [pass EXCEPT !.deep = {}]
    /\ UNCHANGED <<sent, network, recent, cache, screen>>

(* Who waited for the pass is answered with what it read.                   *)
Answer == IF screen.at = "waiting" THEN screen' = [screen EXCEPT !.at = "shown", !.statuses = pass.statuses]
          ELSE screen' = screen

End ==
    /\ pass.on /\ pass.unread = {} /\ pass.deep = {}
    /\ IF pass.current THEN cache' = pass.statuses /\ recent' = TRUE ELSE UNCHANGED <<cache, recent>>
    /\ pass' = NoPass /\ Answer
    /\ UNCHANGED <<store, network>>

(* Half a minute has passed since lastReconciliationAt.                     *)
Expire ==
    /\ recent /\ recent' = FALSE
    /\ UNCHANGED <<store, network, cache, pass, screen>>

----------------------------------------------------------------------------
(* Those that ask                                                           *)

NewPass == [on |-> TRUE, current |-> TRUE, unread |-> recorded, statuses |-> NoStatus, deep |-> {},
            from |-> received, floor |-> resent]

(* A pass under way, what was kept, or a new pass.  The screen's floor is   *)
(* what had been resent when the reads it is served could first begin.      *)
Serve ==
    IF ~pass.on /\ recent
    THEN pass' = pass /\ screen' = [at |-> "shown", statuses |-> cache, floor |-> resent]
    ELSE /\ pass' = IF pass.on THEN pass ELSE NewPass
         /\ screen' = [at |-> "waiting", statuses |-> NoStatus, floor |-> pass'.floor]

(* The activity and purchase screens wait for the statuses.                 *)
Open == Serve /\ UNCHANGED <<store, network, recent, cache>>

(* Other screens only start a pass.                                         *)
Visit ==
    /\ pass' = IF pass.on \/ recent THEN pass ELSE NewPass
    /\ screen' = NoScreen
    /\ UNCHANGED <<store, network, recent, cache>>

(* The screen's button invalidates and opens the screen again.              *)
Refresh ==
    /\ screen.at # "none"
    /\ recent' = FALSE /\ cache' = cache
    /\ pass' = IF pass.on THEN [pass EXCEPT !.current = FALSE] ELSE NewPass
    /\ screen' = [at |-> "waiting", statuses |-> NoStatus, floor |-> pass'.floor]
    /\ UNCHANGED <<store, network>>

(* The record is deleted; the transaction may still confirm.                *)
Dismiss(tx) ==
    /\ tx \in recorded /\ recorded' = recorded \ {tx}
    /\ UNCHANGED <<sent, network, recent, cache, pass, screen>>

Pass == (\E tx \in Txs : Read(tx)) \/ Archive \/ End

Next ==
    \/ \E call \in Calls, tx \in Txs : Submit(call, tx) \/ Resubmit(call, tx)
    \/ \E call \in Calls : Return(call)
    \/ \E tx \in Txs : Receive(tx) \/ Dismiss(tx)
    \/ Pass \/ Expire \/ Open \/ Visit \/ Refresh

Spec == Init /\ [][Next]_vars

----------------------------------------------------------------------------
(* Properties                                                               *)

Statuses == UNION {[read -> 0 .. MaxReceived] : read \in SUBSET Txs}

TypeOK ==
    /\ recorded \subseteq sent /\ sent \subseteq Txs
    /\ {received, resent, first} \subseteq [Txs -> 0 .. MaxReceived]
    /\ calls \in [Calls -> {NoCall} \cup (Txs \X {"first", "again"})]
    /\ recent \in BOOLEAN /\ cache \in Statuses
    /\ pass \in [on : BOOLEAN, current : BOOLEAN, unread : SUBSET Txs, statuses : Statuses,
                 deep : SUBSET DOMAIN pass.statuses, from : Statuses, floor : Statuses]
    /\ screen \in [at : {"none", "waiting", "shown"}, statuses : Statuses, floor : Statuses]

Knows(read, told) == \A tx \in DOMAIN read : read[tx] >= told[tx]

(* What is served from the cache was read after the last rebroadcast of its *)
(* transaction returned (app.ts:323, "A submit or rebroadcast can           *)
(* invalidate these reads while they are in flight. Never let the older     *)
(* pass reinstate its cache afterward").                                    *)
CacheKnowsRebroadcasts == recent => Knows(cache, resent)

(* A screen shows no status from before a rebroadcast that had returned     *)
(* when it was opened or, if it opened during a pass, when that began: the  *)
(* activity screen offers a fee increase by it (app.ts:2015).               *)
ShownKnowsRebroadcasts == screen.at = "shown" => Knows(screen.statuses, screen.floor)
=============================================================================
