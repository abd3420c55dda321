-------------------------------- MODULE Sale --------------------------------
(***************************************************************************)
(* Selling (src/src/popup/app.ts): a review draws a deposit nonce, signs a *)
(* deposit that locks the seller's funds on the child chain, saves its     *)
(* exact bytes and only then submits it.  The chain has no cancel: what a  *)
(* review may never do is lock the funds twice.  Pending sales are checked *)
(* and their exact bytes resubmitted, on any page, until a user dismisses  *)
(* them.                                                                   *)
(*                                                                         *)
(* A flow is one review or one check running in some page.  Leaving its    *)
(* screen does not stop it; closing its page does.  A deposit is its sale  *)
(* (the deposit nonce) and the account's nonce it was signed with: fees    *)
(* and amounts decide nothing here.  The chain is not asked to refuse a    *)
(* second deposit of the same sale.  An update of the settings is a step.  *)
(***************************************************************************)
EXTENDS Naturals, FiniteSets

CONSTANTS
    Flows,
    Old,         \* a sale that a version keeping no signed bytes may have saved
    NewSales,    \* deposit nonces the reviews draw
    None,
    MaxNonce     \* bound on the nonces the account spends on the child chain

Sales    == NewSales \cup {Old}
Deposits == [sale : Sales, nonce : 0 .. MaxNonce]

SaleAssumption ==
    /\ MaxNonce \in Nat
    /\ Old \notin NewSales
    /\ None \notin Sales \cup Deposits

Stages == {"idle", "review", "sign", "save", "submit", "sent",
           "listed", "unpaid", "offered", "resubmit"}

VARIABLES
    saved,      \* the deposits in openDeposits
    bare,       \* those of them saved without their bytes
    flow,       \* each flow's stage, with its sale and its deposit
    drawn,      \* deposit nonces drawn so far
    nonce,      \* the account's next nonce on the child chain
    pool,       \* deposits that were submitted and may still be mined
    mined,      \* deposits the child chain includes
    paid,       \* sales the parent chain has a receipt for
    dismissed   \* history: deposits whose record a user dismissed

settings == <<saved, bare, dismissed>>
chains   == <<nonce, pool, mined, paid>>
vars     == <<saved, bare, flow, drawn, nonce, pool, mined, paid, dismissed>>

Idle == [at |-> "idle", sale |-> None, deposit |-> None]

Init ==
    /\ bare \in SUBSET {[sale |-> Old, nonce |-> 0]}
    /\ saved = bare
    /\ pool \in SUBSET bare
    /\ flow = [f \in Flows |-> Idle]
    /\ drawn = {} /\ nonce = 0
    /\ mined = {} /\ paid = {} /\ dismissed = {}

On(f, stage) == flow[f].at = stage

Go(f, stage) == flow' = [flow EXCEPT ![f].at = stage]

(* A submission reaches the node's pool or not, whatever the wallet hears.  *)
Send(deposit) ==
    /\ \/ pool' = pool
       \/ deposit.nonce >= nonce /\ pool' = pool \cup {deposit}
    /\ UNCHANGED <<nonce, mined, paid>>

----------------------------------------------------------------------------
(* The review of a sell order                                               *)

Review(f) ==
    /\ On(f, "idle")
    /\ \E sale \in NewSales \ drawn :
        /\ drawn' = drawn \cup {sale}
        /\ flow' = [flow EXCEPT ![f] = [Idle EXCEPT !.at = "review", !.sale = sale]]
    /\ UNCHANGED <<settings, chains>>

(* "Lock funds" reads the account.  An expired order, a bad fee, a failed   *)
(* read or a low balance leave the review as it was.                        *)
Lock(f) ==
    /\ On(f, "review")
    /\ nonce <= MaxNonce
    /\ flow' = [flow EXCEPT ![f].at = "sign",
                            ![f].deposit = [sale |-> flow[f].sale, nonce |-> nonce]]
    /\ UNCHANGED <<settings, drawn, chains>>

Sign(f) ==
    /\ On(f, "sign")
    /\ Go(f, "save") \/ Go(f, "review")
    /\ UNCHANGED <<settings, drawn, chains>>

(* Mutant: the page saves its own list of sales.                            *)
SaveOwnList(f) ==
    /\ On(f, "save")
    /\ \/ saved' = {flow[f].deposit} /\ Go(f, "submit")
       \/ saved' = saved /\ Go(f, "review")
    /\ UNCHANGED <<bare, dismissed, drawn, chains>>

(* A failed save returns to the review, which signs anew with the nonce the *)
(* account then has.                                                        *)
Save(f) ==
    /\ On(f, "save")
    /\ \/ saved' = saved \cup {flow[f].deposit} /\ Go(f, "submit")
       \/ saved' = saved /\ Go(f, "review")
    /\ UNCHANGED <<bare, dismissed, drawn, chains>>

(* Mutant: a submission without an answer returns to the review.            *)
SubmitAndReturn(f) ==
    /\ On(f, "submit")
    /\ Send(flow[f].deposit)
    /\ Go(f, "sent") \/ Go(f, "review")
    /\ UNCHANGED <<settings, drawn>>

(* Accepted, refused or without an answer, it ends on the sent screen.      *)
Submit(f) ==
    /\ On(f, "submit")
    /\ Send(flow[f].deposit)
    /\ Go(f, "sent")
    /\ UNCHANGED <<settings, drawn>>

Close(f) ==
    /\ ~On(f, "idle")
    /\ flow' = [flow EXCEPT ![f] = Idle]
    /\ UNCHANGED <<settings, drawn, chains>>

----------------------------------------------------------------------------
(* The pending sales                                                        *)

List(f, deposit) ==
    /\ On(f, "idle")
    /\ deposit \in saved
    /\ flow' = [flow EXCEPT ![f] = [at |-> "listed", sale |-> deposit.sale, deposit |-> deposit]]
    /\ UNCHANGED <<settings, drawn, chains>>

(* A proved receipt ends the check; without one, or when it cannot be read, *)
(* the check goes on.                                                       *)
CheckReceipt(f) ==
    /\ On(f, "listed")
    /\ \/ flow[f].sale \in paid /\ UNCHANGED flow
       \/ Go(f, "unpaid")
    /\ UNCHANGED <<settings, drawn, chains>>

(* A status that cannot be read counts as unknown to the node, so any       *)
(* unpaid deposit may be offered for resubmission.                          *)
CheckStatus(f) ==
    /\ On(f, "unpaid")
    /\ Go(f, "listed") \/ Go(f, "offered")
    /\ UNCHANGED <<settings, drawn, chains>>

(* Missing bytes are signed again for the saved nonce, must give the saved  *)
(* transaction, and are saved first: that fails, or changes a record that   *)
(* is still there.                                                          *)
Resubmit(f) ==
    /\ On(f, "offered")
    /\ bare' = bare \ {flow[f].deposit}
    /\ Go(f, "resubmit")
    /\ UNCHANGED <<saved, dismissed, drawn, chains>>

SubmitAgain(f) ==
    /\ On(f, "resubmit")
    /\ Send(flow[f].deposit)
    /\ Go(f, "offered")
    /\ UNCHANGED <<settings, drawn>>

Dismiss(f) ==
    /\ flow[f].at \in {"listed", "unpaid", "offered"}
    /\ saved' = saved \ {flow[f].deposit}
    /\ bare' = bare \ {flow[f].deposit}
    /\ dismissed' = dismissed \cup {flow[f].deposit}
    /\ flow' = [flow EXCEPT ![f] = Idle]
    /\ UNCHANGED <<drawn, chains>>

----------------------------------------------------------------------------
(* The chains                                                               *)

Mine(deposit) ==
    /\ deposit \in pool /\ deposit.nonce = nonce
    /\ nonce' = nonce + 1
    /\ mined' = mined \cup {deposit}
    /\ pool' = {other \in pool : other.nonce > nonce}
    /\ UNCHANGED <<settings, flow, drawn, paid>>

(* The account spends a nonce on something else.                            *)
Spend ==
    /\ nonce <= MaxNonce
    /\ nonce' = nonce + 1
    /\ pool' = {other \in pool : other.nonce > nonce}
    /\ UNCHANGED <<settings, flow, drawn, mined, paid>>

Drop(deposit) ==
    /\ deposit \in pool
    /\ pool' = pool \ {deposit}
    /\ UNCHANGED <<settings, flow, drawn, nonce, mined, paid>>

Pay(deposit) ==
    /\ deposit \in mined
    /\ paid' = paid \cup {deposit.sale}
    /\ UNCHANGED <<settings, flow, drawn, nonce, pool, mined>>

Chains == Spend \/ \E deposit \in pool \cup mined : Mine(deposit) \/ Drop(deposit) \/ Pay(deposit)

Next ==
    \/ Chains
    \/ \E f \in Flows :
        \/ Review(f) \/ Lock(f) \/ Sign(f) \/ Save(f) \/ Submit(f) \/ Close(f)
        \/ \E deposit \in saved : List(f, deposit)
        \/ CheckReceipt(f) \/ CheckStatus(f) \/ Resubmit(f) \/ SubmitAgain(f)
        \/ Dismiss(f)

Spec == Init /\ [][Next]_vars

----------------------------------------------------------------------------
(* Properties                                                               *)

TypeOK ==
    /\ bare \subseteq saved /\ saved \subseteq Deposits
    /\ pool \subseteq Deposits /\ mined \subseteq Deposits /\ dismissed \subseteq Deposits
    /\ nonce \in 0 .. MaxNonce + 1
    /\ drawn \subseteq NewSales /\ paid \subseteq Sales
    /\ flow \in [Flows -> [at : Stages, sale : Sales \cup {None}, deposit : Deposits \cup {None}]]

(* However often it is signed, submitted and resubmitted, a sale locks its  *)
(* funds at most once: no two deposits of one sale can ever be mined        *)
(* (app.ts reviewSellOrder: "Never return to a control that re-signs with a *)
(* newly read account nonce").                                              *)
OneDepositPerSale ==
    \A one, two \in pool \cup mined : one.sale = two.sale => one = two

(* The wallet knows of every deposit that may be or was mined, unless its   *)
(* user dismissed it: pages may close and answers may be lost at any moment *)
(* (app.ts reviewSellOrder: "Persist the exact signed attempt before        *)
(* touching the network").                                                  *)
DepositsAreSaved == pool \cup mined \subseteq saved \cup dismissed

Outbox == INSTANCE Outbox WITH
    Transactions <- Deposits,
    kept <- saved, sent <- pool \cup mined, forgotten <- dismissed

(* Its reviews and checks make the wallet an Outbox of deposits: a deposit  *)
(* is saved before it is sent, first or again, even one whose bytes are     *)
(* made anew, and no flow's save loses another's (app.ts reviewSellOrder,   *)
(* depositsScreen).                                                         *)
ImplementsOutbox == Outbox!Spec
=============================================================================
