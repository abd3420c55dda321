------------------------------ MODULE MCTrades ------------------------------
(***************************************************************************)
(* Buying and selling, for TLC.  They share no variable: a behaviour runs  *)
(* the one that AllInit chooses.                                           *)
(***************************************************************************)
EXTENDS Purchase, TLC

CONSTANTS Flows, Old, NewSales

VARIABLES part, saved, bare, flow, drawn, nonce, pool, mined, receipts, removed

saleVars == <<saved, bare, flow, drawn, nonce, pool, mined, receipts, removed>>
all      == <<part, vars, saleVars>>

Sale == INSTANCE Sale WITH paid <- receipts, dismissed <- removed

ASSUME TradesAssumption == Sale!SaleAssumption

AllInit ==
    /\ part \in {"purchase", "sale"}
    /\ Init /\ Sale!Init
    (* A purchase runs beside one of the initial states of selling.         *)
    /\ part = "purchase" => bare = {}

PurchaseStep == part = "purchase" /\ Next /\ UNCHANGED <<part, saleVars>>

SaleStep == part = "sale" /\ Sale!Next /\ UNCHANGED <<part, vars>>

(* Selling may rest when the bounds leave no deposit to draw or to sign.    *)
Rest ==
    /\ part = "sale" /\ drawn = NewSales /\ nonce > MaxNonce
    /\ UNCHANGED all

AllSpec == AllInit /\ [][PurchaseStep \/ SaleStep \/ Rest]_all

(* No two deposits of one sale can be mined (app.ts reviewSellOrder).       *)
OneDepositPerSale == Sale!OneDepositPerSale

(* Selling is an Outbox of deposits (app.ts reviewSellOrder,                *)
(* depositsScreen).                                                         *)
SalesImplementOutbox == Sale!ImplementsOutbox

Symmetry == Permutations(Pages)
=============================================================================
