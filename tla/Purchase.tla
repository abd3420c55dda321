------------------------------ MODULE Purchase ------------------------------
(***************************************************************************)
(* Buying a sell order (src/src/popup/app.ts): a payment on the parent     *)
(* chain, whose receipt names the buyer, and a withdrawal of the deposit   *)
(* on the child chain.  Both are signed, saved and only then submitted;    *)
(* the saved purchase is what a user completes, retries, replaces,         *)
(* restarts or dismisses later, and what a reconciliation archives.        *)
(*                                                                         *)
(* Wallet pages share the stored purchases.  A screen works on the record  *)
(* it was opened with, however long ago.  An update loads, changes and     *)
(* saves under the settings lock and is one step here: module Recovery     *)
(* cuts it at its awaits.  One order and one buying account; the account's *)
(* nonces on the child chain may also be spent by its other transactions.  *)
(* No reorganisations; a proof that fails or a tip that moves only ends    *)
(* the page's check, which it may do at any of its stages (Leave).         *)
(***************************************************************************)
EXTENDS Integers, FiniteSets, Sequences, SequencesExt

CONSTANTS
    Pages,
    Receipts,           \* payments for the order the user may sign
    None,
    Empty,              \* a child block without a transaction of the account
    Foreign,            \* a transaction of the account that is no withdrawal
    ConfirmationDepth,  \* 6 in the code
    MaxNonce,           \* bound on the account's nonces on the child chain
    MaxFee,             \* bound on the withdrawal fees a run tries
    MaxHeight,          \* bound on the height of the child chain
    MaxDismissals       \* bound on the purchases a run dismisses

Attempts == [nonce : 0 .. MaxNonce, fee : 0 .. MaxFee]

ASSUME PurchaseAssumption ==
    /\ ConfirmationDepth \in Nat \ {0}
    /\ {MaxNonce, MaxFee, MaxHeight, MaxDismissals} \subseteq Nat
    /\ None \notin Attempts \cup Receipts
    /\ {Empty, Foreign} \cap Attempts = {}
    /\ Empty # Foreign

(* The withdrawals of a saved purchase: all that were signed, and the one   *)
(* its screen goes on with.                                                 *)
Claims == [current : Attempts \cup {None}, attempts : SUBSET Attempts]

ASSUME ClaimsAssumption == None \notin Claims

Purchases == [open : [Receipts -> Claims \cup {None}], confirmed : [Receipts -> Claims \cup {None}]]

Stages == {"idle", "buy", "pay", "open", "owned", "record", "claim", "status", "advanced", "restart"}

Screens ==
    [at : Stages,
     receipt : Receipts \cup {None},
     view    : Claims \cup {None},    \* the record the screen was opened with
     tx      : Attempts \cup {None}]  \* the withdrawal it has signed

VARIABLES
    stored,     \* the purchases in the extension's storage
    screen,     \* what each page's user is doing
    pass,       \* each page's reconciliation: the purchases it found deep
    owner,      \* whom the order's receipt on the parent chain names
    locked,     \* whether the order's deposit is still on the child chain
    chain,      \* the child chain
    paid,       \* payments sent to the parent node
    claimed,    \* withdrawals sent to the child node, with their purchase
    dismissed   \* history: purchases whose record a user dismissed

node == <<owner, locked, chain>>
vars == <<stored, screen, pass, owner, locked, chain, paid, claimed, dismissed>>

Idle      == [at |-> "idle", receipt |-> None, view |-> None, tx |-> None]
IdlePass  == [at |-> "idle", deep |-> {}]
NoClaims  == [current |-> None, attempts |-> {}]

Saved(receipt) == stored.open[receipt] # None \/ stored.confirmed[receipt] # None

(* All the withdrawals that are saved for a payment.                        *)
Tries(receipt) ==
    UNION {claims.attempts : claims \in {stored.open[receipt], stored.confirmed[receipt]} \ {None}}

Included == ToSet(chain) \cap Attempts

Nonce == Cardinality({i \in DOMAIN chain : chain[i] # Empty})

Init ==
    /\ stored = [open |-> [receipt \in Receipts |-> None],
                 confirmed |-> [receipt \in Receipts |-> None]]
    /\ screen = [page \in Pages |-> Idle]
    /\ pass = [page \in Pages |-> IdlePass]
    /\ owner = "nobody" /\ locked = TRUE /\ chain = <<>>
    /\ paid = {} /\ claimed = {} /\ dismissed = {}

Go(page, stage) == screen' = [screen EXCEPT ![page].at = stage]

On(page, stage) == screen[page].at = stage

----------------------------------------------------------------------------
(* Paying                                                                   *)

(* The page has just proved that the deposit is locked and has no receipt,  *)
(* and signs a payment for it.                                              *)
Buy(page, receipt) ==
    /\ On(page, "idle")
    /\ locked /\ owner = "nobody"
    /\ screen' = [screen EXCEPT ![page] = [Idle EXCEPT !.at = "buy", !.receipt = receipt]]
    /\ UNCHANGED <<stored, pass, node, paid, claimed, dismissed>>

RecordPurchase(page) ==
    LET receipt == screen[page].receipt
    IN  /\ On(page, "buy")
        /\ stored' = [stored EXCEPT !.open[receipt] = IF @ = None THEN NoClaims ELSE @]
        /\ screen' = [screen EXCEPT ![page].at = "pay", ![page].view = stored'.open[receipt]]
        /\ UNCHANGED <<pass, node, paid, claimed, dismissed>>

(* Whatever the parent node answers, the saved purchase is opened.          *)
Pay(page) ==
    /\ On(page, "pay")
    /\ paid' \in {paid, paid \cup {screen[page].receipt}}
    /\ Go(page, "open")
    /\ UNCHANGED <<stored, pass, node, claimed, dismissed>>

----------------------------------------------------------------------------
(* Completing a purchase                                                    *)

Open(page, receipt) ==
    /\ On(page, "idle")
    /\ stored.open[receipt] # None
    /\ screen' = [screen EXCEPT ![page] =
           [Idle EXCEPT !.at = "open", !.receipt = receipt, !.view = stored.open[receipt]]]
    /\ UNCHANGED <<stored, pass, node, paid, claimed, dismissed>>

Withdrawing(page) == On(page, "open") /\ screen[page].view.current = None

Withdrawn(page) == On(page, "open") /\ screen[page].view.current # None

(* Mutant: an order without a receipt is taken for ours.                    *)
CheckReceiptForOther(page) ==
    /\ Withdrawing(page)
    /\ owner # "other"
    /\ Go(page, "owned")
    /\ UNCHANGED <<stored, pass, node, paid, claimed, dismissed>>

(* Nothing is withdrawn before the parent chain names this buyer; while it  *)
(* names nobody, the same payment is sent again.                            *)
CheckReceipt(page) ==
    /\ Withdrawing(page)
    /\ \/ owner = "us" /\ Go(page, "owned") /\ UNCHANGED paid
       \/ /\ owner = "nobody"
          /\ paid' = paid \cup {screen[page].receipt}
          /\ UNCHANGED screen
    /\ UNCHANGED <<stored, pass, node, claimed, dismissed>>

SignWithdrawal(page, fee) ==
    /\ On(page, "owned")
    /\ Nonce <= MaxNonce
    /\ screen' = [screen EXCEPT ![page].at = "record",
                                ![page].tx = [nonce |-> Nonce, fee |-> fee]]
    /\ UNCHANGED <<stored, pass, node, paid, claimed, dismissed>>

(* A fee replacement of the withdrawal the screen shows, whose exact retry  *)
(* the node refused for its fee: same nonce, same claim.                    *)
ReplaceWithdrawal(page, fee) ==
    /\ Withdrawn(page)
    /\ fee > screen[page].view.current.fee
    /\ screen' = [screen EXCEPT ![page].at = "record",
                                ![page].tx = [screen[page].view.current EXCEPT !.fee = fee]]
    /\ UNCHANGED <<stored, pass, node, paid, claimed, dismissed>>

(* A purchase that is no longer open is left as it is.                      *)
RecordWithdrawalAttempt(page) ==
    LET receipt == screen[page].receipt
        tx      == screen[page].tx
    IN  /\ On(page, "record")
        /\ stored' = [stored EXCEPT !.open[receipt] =
               IF @ = None THEN None ELSE [current |-> tx, attempts |-> @.attempts \cup {tx}]]
        /\ Go(page, "claim")
        /\ UNCHANGED <<pass, node, paid, claimed, dismissed>>

Claim(page) ==
    /\ On(page, "claim")
    /\ claimed' \in {claimed, claimed \cup {<<screen[page].receipt, screen[page].tx>>}}
    /\ screen' = [screen EXCEPT ![page] = Idle]
    /\ UNCHANGED <<stored, pass, node, paid, dismissed>>

ResubmitWithdrawal(page) ==
    /\ Withdrawn(page)
    /\ claimed' = claimed \cup {<<screen[page].receipt, screen[page].view.current>>}
    /\ UNCHANGED <<stored, screen, pass, node, paid, dismissed>>

(* Storage refuses: nothing is submitted and the screen can be used again.  *)
UpdateFails(page) ==
    /\ screen[page].at \in {"buy", "record", "restart"}
    /\ screen' = [screen EXCEPT ![page] =
           IF screen[page].at = "buy" THEN Idle ELSE [@ EXCEPT !.at = "open", !.tx = None]]
    /\ UNCHANGED <<stored, pass, node, paid, claimed, dismissed>>

----------------------------------------------------------------------------
(* Starting a withdrawal over                                               *)

(* The node reports no attempt as included: none is yet, or it has forgotten*)
(* the transaction.                                                         *)
ReadStatuses(page) ==
    /\ Withdrawn(page)
    /\ Go(page, "status")
    /\ UNCHANGED <<stored, pass, node, paid, claimed, dismissed>>

(* Mutant: one attempt whose nonce is spent is enough.                      *)
ReadNonceOfAny(page) ==
    /\ On(page, "status")
    /\ Go(page, IF \E tx \in screen[page].view.attempts : tx.nonce < Nonce
                THEN "advanced" ELSE "open")
    /\ UNCHANGED <<stored, pass, node, paid, claimed, dismissed>>

(* Only when the nonce of every attempt is spent is a restart considered.   *)
ReadNonce(page) ==
    /\ On(page, "status")
    /\ Go(page, IF \A tx \in screen[page].view.attempts : tx.nonce < Nonce
                THEN "advanced" ELSE "open")
    /\ UNCHANGED <<stored, pass, node, paid, claimed, dismissed>>

ReadDeposit(page) ==
    /\ On(page, "advanced")
    /\ Go(page, IF locked THEN "restart" ELSE "open")
    /\ UNCHANGED <<stored, pass, node, paid, claimed, dismissed>>

(* Mutant: the attempts go too.                                             *)
RestartForgetting(page) ==
    LET receipt == screen[page].receipt
    IN  /\ On(page, "restart")
        /\ stored' = [stored EXCEPT !.open[receipt] = IF @ = None THEN None ELSE NoClaims]
        /\ screen' = [screen EXCEPT ![page] =
               IF stored'.open[receipt] = None THEN Idle
               ELSE [@ EXCEPT !.at = "open", !.view = stored'.open[receipt]]]
        /\ UNCHANGED <<pass, node, paid, claimed, dismissed>>

(* "Try withdrawal with current nonce": the attempts stay.                  *)
Restart(page) ==
    LET receipt == screen[page].receipt
    IN  /\ On(page, "restart")
        /\ stored' = [stored EXCEPT !.open[receipt] =
               IF @ = None THEN None ELSE [@ EXCEPT !.current = None]]
        /\ screen' = [screen EXCEPT ![page] =
               IF stored'.open[receipt] = None THEN Idle
               ELSE [@ EXCEPT !.at = "open", !.view = stored'.open[receipt]]]
        /\ UNCHANGED <<pass, node, paid, claimed, dismissed>>

----------------------------------------------------------------------------
(* Archiving and dismissing                                                 *)

Deep(tx) ==
    \E height \in DOMAIN chain :
        chain[height] = tx /\ Len(chain) - height + 1 >= ConfirmationDepth

(* Mutant: a spent deposit is taken for this buyer's withdrawal.            *)
JudgeBySpending(page) ==
    /\ pass[page].at = "idle"
    /\ \E deep \in SUBSET {receipt \in Receipts : stored.open[receipt] # None} :
          deep # {} /\ pass' = [pass EXCEPT ![page] = [at |-> "values", deep |-> deep]]
    /\ UNCHANGED <<stored, screen, node, paid, claimed, dismissed>>

(* The open purchases one of whose attempts the node reports deep enough;   *)
(* reads of some of them may fail.                                          *)
Judge(page) ==
    /\ pass[page].at = "idle"
    /\ \E deep \in SUBSET {receipt \in Receipts :
             stored.open[receipt] # None /\ \E tx \in stored.open[receipt].attempts : Deep(tx)} :
          deep # {} /\ pass' = [pass EXCEPT ![page] = [at |-> "values", deep |-> deep]]
    /\ UNCHANGED <<stored, screen, node, paid, claimed, dismissed>>

ReadValues(page) ==
    /\ pass[page].at = "values"
    /\ pass' = [pass EXCEPT ![page] = IF locked THEN IdlePass ELSE [@ EXCEPT !.at = "archive"]]
    /\ UNCHANGED <<stored, screen, node, paid, claimed, dismissed>>

(* Mutant: what is no longer open is not kept either.                       *)
ArchiveNowhere(page) ==
    /\ pass[page].at = "archive"
    /\ stored' = [stored EXCEPT !.open = [receipt \in Receipts |->
           IF receipt \in pass[page].deep THEN None ELSE stored.open[receipt]]]
    /\ pass' = [pass EXCEPT ![page] = IdlePass]
    /\ UNCHANGED <<screen, node, paid, claimed, dismissed>>

Archive(page) ==
    /\ pass[page].at = "archive"
    /\ LET moved == {receipt \in pass[page].deep : stored.open[receipt] # None}
       IN  stored' = [open |-> [receipt \in Receipts |->
                                   IF receipt \in moved THEN None ELSE stored.open[receipt]],
                      confirmed |-> [receipt \in Receipts |->
                                   IF receipt \in moved THEN stored.open[receipt]
                                   ELSE stored.confirmed[receipt]]]
    /\ pass' = [pass EXCEPT ![page] = IdlePass]
    /\ UNCHANGED <<screen, node, paid, claimed, dismissed>>

ArchiveFails(page) ==
    /\ pass[page].at \in {"values", "archive"}
    /\ pass' = [pass EXCEPT ![page] = IdlePass]
    /\ UNCHANGED <<stored, screen, node, paid, claimed, dismissed>>

Dismiss(page, receipt) ==
    /\ screen[page].at \in {"idle", "open"}
    /\ screen[page].receipt \in {None, receipt}
    /\ Saved(receipt)
    /\ Cardinality(dismissed \cup {receipt}) <= MaxDismissals
    /\ stored' = [stored EXCEPT !.open[receipt] = None, !.confirmed[receipt] = None]
    /\ screen' = [screen EXCEPT ![page] = Idle]
    /\ dismissed' = dismissed \cup {receipt}
    /\ UNCHANGED <<pass, node, paid, claimed>>

(* The user goes back, or a read the screen needs fails.                    *)
Leave(page) ==
    /\ screen[page].at \in {"open", "owned", "status", "advanced", "restart"}
    /\ screen' = [screen EXCEPT ![page] = Idle]
    /\ UNCHANGED <<stored, pass, node, paid, claimed, dismissed>>

(* A page closes at any point and is opened again.                          *)
Reopen(page) ==
    /\ screen' = [screen EXCEPT ![page] = Idle]
    /\ pass' = [pass EXCEPT ![page] = IdlePass]
    /\ UNCHANGED <<stored, node, paid, claimed, dismissed>>

----------------------------------------------------------------------------
(* The two chains                                                           *)

(* The parent chain takes one receipt for an order, ever.                   *)
MineReceipt ==
    /\ owner = "nobody"
    /\ owner' \in IF paid = {} THEN {"other"} ELSE {"us", "other"}
    /\ UNCHANGED <<stored, screen, pass, locked, chain, paid, claimed, dismissed>>

OtherWithdraws ==
    /\ owner = "other" /\ locked
    /\ locked' = FALSE
    /\ UNCHANGED <<stored, screen, pass, owner, chain, paid, claimed, dismissed>>

(* A withdrawal needs the receipt, the deposit and the account's next nonce.*)
Mine(block) ==
    /\ Len(chain) < MaxHeight
    /\ \/ block = Empty /\ UNCHANGED locked
       \/ block = Foreign /\ UNCHANGED locked
       \/ /\ \E receipt \in Receipts : <<receipt, block>> \in claimed
          /\ block.nonce = Nonce
          /\ owner = "us" /\ locked
          /\ locked' = FALSE
    /\ chain' = Append(chain, block)
    /\ UNCHANGED <<stored, screen, pass, owner, paid, claimed, dismissed>>

PageStep(page) ==
    \/ \E receipt \in Receipts : Buy(page, receipt) \/ Open(page, receipt) \/ Dismiss(page, receipt)
    \/ RecordPurchase(page) \/ Pay(page)
    \/ CheckReceipt(page)
    \/ \E fee \in 0 .. MaxFee : SignWithdrawal(page, fee) \/ ReplaceWithdrawal(page, fee)
    \/ RecordWithdrawalAttempt(page) \/ Claim(page) \/ ResubmitWithdrawal(page)
    \/ UpdateFails(page)
    \/ ReadStatuses(page) \/ ReadNonce(page) \/ ReadDeposit(page) \/ Restart(page)
    \/ Judge(page) \/ ReadValues(page) \/ Archive(page) \/ ArchiveFails(page)
    \/ Leave(page) \/ Reopen(page)

ChainStep ==
    \/ MineReceipt
    \/ OtherWithdraws
    \/ \E block \in Attempts \cup {Empty, Foreign} : Mine(block)

Next == ChainStep \/ \E page \in Pages : PageStep(page)

Spec == Init /\ [][Next]_vars

----------------------------------------------------------------------------
(* Properties                                                               *)

TypeOK ==
    /\ stored \in Purchases
    /\ screen \in [Pages -> Screens]
    /\ pass \in [Pages -> [at : {"idle", "values", "archive"}, deep : SUBSET Receipts]]
    /\ owner \in {"nobody", "us", "other"}
    /\ locked \in BOOLEAN
    /\ chain \in Seq(Attempts \cup {Empty, Foreign})
    /\ paid \subseteq Receipts
    /\ claimed \subseteq Receipts \X Attempts
    /\ dismissed \subseteq Receipts

(* A payment, which cannot be undone, is saved before any node hears of it  *)
(* and stays saved until its user dismisses it (app.ts reviewBuyOrder,      *)
(* archiveOpenPurchase), whichever page closes or fails at whichever await. *)
PaidIsSaved == \A receipt \in paid : Saved(receipt) \/ receipt \in dismissed

(* A withdrawal is only ever sent for an order whose receipt names this     *)
(* buyer, although the receipt was read several awaits earlier (app.ts      *)
(* purchaseScreen: "Check the parent receipt before withdrawing").          *)
ClaimsAreOwned == claimed # {} => owner = "us"

(* As long as the deposit can still be withdrawn, every withdrawal that was *)
(* sent is saved with its purchase, unless a user dismissed that purchase:  *)
(* restarting, replacing and recording by several pages never forget one    *)
(* (settings.ts recordWithdrawalAttempt).  A screen that was open when its  *)
(* purchase was dismissed goes on, and what it sends is saved nowhere.      *)
LiveClaimsAreSaved ==
    \A claim \in claimed :
        locked => claim[2] \in Tries(claim[1]) \/ claim[1] \in dismissed

(* A purchase is archived only when a withdrawal of this wallet took the    *)
(* deposit and is deep: that the deposit is spent is not enough, another    *)
(* buyer may have spent it (app.ts reconcileRecovery; README "Cross-chain   *)
(* deposits": "A generic spent marker alone cannot identify who withdrew    *)
(* it").                                                                    *)
ArchivedIsWithdrawn ==
    \A receipt \in Receipts :
        stored.confirmed[receipt] # None => \E claim \in claimed : Deep(claim[2])

(* A restart, which leads to a claim with another nonce, is only offered    *)
(* when no attempt the screen shows can be mined any more, although the     *)
(* statuses, the nonce and the deposit were read one after the other (app.ts*)
(* purchaseScreen: "never invite a second claim").                          *)
RestartIsSafe ==
    \A page \in Pages :
        On(page, "restart") =>
            \A tx \in screen[page].view.attempts : tx \notin Included /\ tx.nonce < Nonce

Outbox == INSTANCE Outbox WITH
    Transactions <- Receipts,
    kept <- {receipt \in Receipts : Saved(receipt)}, sent <- paid, forgotten <- dismissed

(* Buying makes the wallet an Outbox of payments: restarts, replacements    *)
(* and archives of a purchase never lose the payment it stands for, which   *)
(* may be sent again until a receipt names a buyer (app.ts purchaseScreen,  *)
(* settings.ts archiveOpenPurchase).                                        *)
ImplementsOutbox == Outbox!Spec
=============================================================================
