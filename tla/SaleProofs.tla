----------------------------- MODULE SaleProofs -----------------------------
(***************************************************************************)
(* Sale, for any number of flows, sales and nonces: a sale locks its funds *)
(* at most once, and every deposit that may be mined is saved or was       *)
(* dismissed.  Both rest on what is kept for a sale, a deposit saved or    *)
(* dismissed, being unique, and on a review whose sale nothing is kept for *)
(* yet being the only one that can sign for it.                            *)
(***************************************************************************)
EXTENDS Sale, TLAPS

Kept == saved \cup dismissed

Reviewing == {"review", "sign", "save"}

(* A review owns the deposit nonce it drew.                                 *)
ReviewsOwnSales ==
    \A f \in Flows : flow[f].at \in Reviewing =>
        /\ flow[f].sale \in drawn
        /\ \A deposit \in Kept : deposit.sale # flow[f].sale
        /\ \A g \in Flows \ {f} : flow[g].at \in Reviewing => flow[g].sale # flow[f].sale

(* A review signs for its own sale; every other flow works on a deposit     *)
(* that is kept.                                                            *)
FlowsKnowDeposits ==
    \A f \in Flows :
        /\ flow[f].at \in {"sign", "save"} =>
              flow[f].deposit \in Deposits /\ flow[f].deposit.sale = flow[f].sale
        /\ flow[f].at \notin Reviewing \cup {"idle"} => flow[f].deposit \in Kept

(* What is kept for a sale is one deposit, of a sale some review drew.      *)
KeptIsUnique ==
    /\ \A one, two \in Kept : one.sale = two.sale => one = two
    /\ \A deposit \in Kept : deposit.sale \in drawn \cup {Old}

Inv ==
    /\ TypeOK
    /\ DepositsAreSaved
    /\ ReviewsOwnSales
    /\ FlowsKnowDeposits
    /\ KeptIsUnique

(* The initial states satisfy the inductive invariant: at most one old      *)
(* record is saved, and no flow runs.                                       *)
LEMMA InitInv == SaleAssumption /\ Init => Inv
<1> SUFFICES ASSUME SaleAssumption, Init PROVE Inv
    OBVIOUS
<1> USE DEF SaleAssumption
<1>1. [sale |-> Old, nonce |-> 0] \in Deposits
    BY DEF Deposits, Sales
<1>2. \A f \in Flows : flow[f] = Idle
    BY DEF Init
<1>3. TypeOK
    BY <1>1, <1>2 DEF Init, TypeOK, Idle, Stages
<1>4. DepositsAreSaved
    BY DEF Init, DepositsAreSaved
<1>5. ReviewsOwnSales /\ FlowsKnowDeposits
    BY <1>2 DEF ReviewsOwnSales, FlowsKnowDeposits, Reviewing, Idle
<1>6. KeptIsUnique
    BY DEF Init, KeptIsUnique, Kept
<1> QED
    BY <1>3, <1>4, <1>5, <1>6 DEF Inv

(* A step of a flow that saves, signs and sends nothing keeps the           *)
(* invariant if the flow does not come to review and keeps its deposit.     *)
LEMMA MoveInv ==
    ASSUME Inv, NEW f \in Flows, NEW stage \in Stages \ Reviewing,
           flow[f].at \notin Reviewing \cup {"idle"} \/ stage = "idle",
           NEW sale \in Sales \cup {None}, NEW deposit \in Deposits \cup {None},
           flow' = [flow EXCEPT ![f] = [at |-> stage, sale |-> sale, deposit |-> deposit]],
           stage # "idle" => deposit = flow[f].deposit,
           UNCHANGED <<saved, dismissed, drawn, nonce, pool, mined, paid>>,
           bare' \subseteq bare
    PROVE  Inv'
<1> USE DEF Inv
<1>1. TypeOK'
    BY DEF TypeOK
<1>2. DepositsAreSaved'
    BY DEF DepositsAreSaved
<1>3. /\ flow'[f] = [at |-> stage, sale |-> sale, deposit |-> deposit]
      /\ \A g \in Flows \ {f} : flow'[g] = flow[g]
    BY DEF TypeOK
<1>4. ReviewsOwnSales'
    BY <1>3 DEF ReviewsOwnSales, Reviewing, Kept
<1>5. FlowsKnowDeposits'
    BY <1>3 DEF FlowsKnowDeposits, Reviewing, Kept
<1>6. KeptIsUnique'
    BY DEF KeptIsUnique, Kept
<1> QED
    BY <1>1, <1>2, <1>4, <1>5, <1>6

(* Every step keeps the inductive invariant.                                *)
LEMMA StepInv == SaleAssumption /\ Inv /\ [Next]_vars => Inv'
<1> SUFFICES ASSUME SaleAssumption, Inv, [Next]_vars PROVE Inv'
    OBVIOUS
<1> USE DEF SaleAssumption, Inv
<1>1. CASE UNCHANGED vars
    BY <1>1 DEF vars, TypeOK, DepositsAreSaved, ReviewsOwnSales, FlowsKnowDeposits, KeptIsUnique, Kept
<1>2. CASE Chains
  <2>1. /\ UNCHANGED <<settings, flow, drawn>>
        /\ pool' \cup mined' \subseteq pool \cup mined
        /\ nonce' \in 0 .. MaxNonce + 1
        /\ paid' \subseteq Sales
      BY <1>2 DEF Chains, Mine, Spend, Drop, Pay, TypeOK, Deposits, settings
  <2>2. TypeOK' /\ DepositsAreSaved'
      BY <2>1 DEF TypeOK, DepositsAreSaved, settings
  <2>3. ReviewsOwnSales' /\ FlowsKnowDeposits' /\ KeptIsUnique'
      BY <2>1 DEF ReviewsOwnSales, FlowsKnowDeposits, KeptIsUnique, Kept, settings
  <2> QED
      BY <2>2, <2>3
<1>3. ASSUME NEW f \in Flows, Review(f) PROVE Inv'
  <2>1. PICK sale \in NewSales \ drawn :
            /\ drawn' = drawn \cup {sale}
            /\ flow' = [flow EXCEPT ![f] = [at |-> "review", sale |-> sale, deposit |-> None]]
      BY <1>3 DEF Review, Idle
  <2>2. UNCHANGED <<saved, bare, dismissed, nonce, pool, mined, paid>>
      BY <1>3 DEF Review, settings, chains
  <2>3. TypeOK' /\ DepositsAreSaved'
      BY <2>1, <2>2 DEF TypeOK, DepositsAreSaved, Sales, Stages
  <2>4. /\ flow'[f] = [at |-> "review", sale |-> sale, deposit |-> None]
        /\ \A g \in Flows \ {f} : flow'[g] = flow[g]
      BY <2>1 DEF TypeOK
  <2>5. \A deposit \in Kept : deposit.sale # sale
      BY DEF KeptIsUnique
  <2>6. ReviewsOwnSales'
      BY <2>1, <2>2, <2>4, <2>5 DEF ReviewsOwnSales, Kept
  <2>7. FlowsKnowDeposits' /\ KeptIsUnique'
      BY <2>1, <2>2, <2>4 DEF FlowsKnowDeposits, KeptIsUnique, Reviewing, Kept
  <2> QED
      BY <2>3, <2>6, <2>7
<1>4. ASSUME NEW f \in Flows, Lock(f) \/ Sign(f) PROVE Inv'
  <2>1. /\ flow[f].at \in Reviewing
        /\ UNCHANGED <<saved, bare, dismissed, drawn, nonce, pool, mined, paid>>
      BY <1>4 DEF Lock, Sign, On, Reviewing, settings, chains
  <2>2. PICK stage \in Reviewing, deposit \in Deposits \cup {None} :
            /\ flow' = [flow EXCEPT ![f].at = stage, ![f].deposit = deposit]
            /\ stage \in {"sign", "save"} => deposit \in Deposits /\ deposit.sale = flow[f].sale
    <3>1. CASE Lock(f)
      <4> DEFINE own == [sale |-> flow[f].sale, nonce |-> nonce]
      <4>1. own \in Deposits /\ own.sale = flow[f].sale
          BY <3>1, <2>1 DEF Lock, ReviewsOwnSales, TypeOK, Deposits, Sales
      <4>2. flow' = [flow EXCEPT ![f].at = "sign", ![f].deposit = own]
          BY <3>1 DEF Lock
      <4>3. "sign" \in Reviewing
          BY DEF Reviewing
      <4> HIDE DEF own
      <4> QED
          BY <4>1, <4>2, <4>3
    <3>2. CASE Sign(f)
      <4>1. flow[f].deposit \in Deposits /\ flow[f].deposit.sale = flow[f].sale
          BY <3>2 DEF Sign, On, FlowsKnowDeposits
      <4>2. flow = [flow EXCEPT ![f].deposit = flow[f].deposit]
          BY DEF TypeOK
      <4>3. \A stage \in Stages :
                [flow EXCEPT ![f].at = stage] = [flow EXCEPT ![f].at = stage, ![f].deposit = flow[f].deposit]
          BY DEF TypeOK
      <4> QED
          BY <3>2, <4>1, <4>3 DEF Sign, Go, Reviewing, Stages
    <3> QED
        BY <1>4, <3>1, <3>2
  <2>3. /\ flow'[f] = [at |-> stage, sale |-> flow[f].sale, deposit |-> deposit]
        /\ \A g \in Flows \ {f} : flow'[g] = flow[g]
      BY <2>2 DEF TypeOK
  <2>4. TypeOK' /\ DepositsAreSaved'
      BY <2>1, <2>2 DEF TypeOK, DepositsAreSaved, Stages, Reviewing
  <2>5. ReviewsOwnSales'
      BY <2>1, <2>3 DEF ReviewsOwnSales, Kept
  <2>6. FlowsKnowDeposits' /\ KeptIsUnique'
    <3>1. ASSUME NEW g \in Flows
          PROVE  /\ flow'[g].at \in {"sign", "save"} =>
                        flow'[g].deposit \in Deposits /\ flow'[g].deposit.sale = flow'[g].sale
                 /\ flow'[g].at \notin Reviewing \cup {"idle"} => flow'[g].deposit \in Kept'
      <4>1. CASE g = f
          BY <2>2, <2>3, <4>1 DEF Reviewing
      <4>2. CASE g # f
          BY <2>1, <2>3, <4>2 DEF FlowsKnowDeposits, Kept
      <4> QED
          BY <4>1, <4>2
    <3> QED
        BY <2>1, <3>1 DEF FlowsKnowDeposits, KeptIsUnique, Kept
  <2> QED
      BY <2>4, <2>5, <2>6
<1>5. ASSUME NEW f \in Flows, Save(f) PROVE Inv'
  <2> DEFINE deposit == flow[f].deposit
  <2>1. /\ flow[f].at = "save" /\ deposit \in Deposits /\ deposit.sale = flow[f].sale
        /\ UNCHANGED <<bare, dismissed, drawn, nonce, pool, mined, paid>>
      BY <1>5 DEF Save, On, FlowsKnowDeposits, chains
  <2>2. CASE saved' = saved \cup {deposit} /\ flow' = [flow EXCEPT ![f].at = "submit"]
    <3>1. /\ flow'[f] = [flow[f] EXCEPT !.at = "submit"]
          /\ \A g \in Flows \ {f} : flow'[g] = flow[g]
        BY <2>2 DEF TypeOK
    <3>2. TypeOK' /\ DepositsAreSaved'
        BY <2>1, <2>2 DEF TypeOK, DepositsAreSaved, Stages
    <3>3. /\ flow'[f].at = "submit" /\ flow'[f].deposit = deposit
          /\ Kept' = Kept \cup {deposit}
        BY <2>1, <2>2, <3>1 DEF TypeOK, Kept
    <3>4. /\ flow[f].sale \in drawn
          /\ \A other \in Kept : other.sale # flow[f].sale
          /\ \A g \in Flows \ {f} : flow[g].at \in Reviewing => flow[g].sale # flow[f].sale
        BY <2>1 DEF ReviewsOwnSales, Reviewing
    <3>5. ReviewsOwnSales'
      <4> SUFFICES ASSUME NEW g \in Flows, flow'[g].at \in Reviewing
                   PROVE  /\ flow'[g].sale \in drawn'
                          /\ \A other \in Kept' : other.sale # flow'[g].sale
                          /\ \A h \in Flows \ {g} :
                                flow'[h].at \in Reviewing => flow'[h].sale # flow'[g].sale
          BY DEF ReviewsOwnSales
      <4>1. g # f /\ flow'[g] = flow[g]
          BY <3>1, <3>3 DEF Reviewing
      <4>2. flow[g].sale # deposit.sale
          BY <2>1, <3>4, <4>1
      <4>3. \A h \in Flows : flow'[h].at \in Reviewing => flow'[h] = flow[h]
          BY <3>1, <3>3 DEF Reviewing
      <4> QED
          BY <2>1, <3>3, <4>1, <4>2, <4>3 DEF ReviewsOwnSales
    <3>6. FlowsKnowDeposits'
        BY <3>1, <3>3 DEF FlowsKnowDeposits, Reviewing
    <3>7. KeptIsUnique'
        BY <2>1, <3>3, <3>4 DEF KeptIsUnique
    <3> QED
        BY <3>2, <3>5, <3>6, <3>7
  <2>3. CASE saved' = saved /\ flow' = [flow EXCEPT ![f].at = "review"]
    <3>1. /\ flow'[f] = [flow[f] EXCEPT !.at = "review"]
          /\ \A g \in Flows \ {f} : flow'[g] = flow[g]
        BY <2>3 DEF TypeOK
    <3>2. flow'[f].at = "review" /\ flow'[f].sale = flow[f].sale
        BY <3>1 DEF TypeOK
    <3>3. TypeOK' /\ DepositsAreSaved'
        BY <2>1, <2>3 DEF TypeOK, DepositsAreSaved, Stages
    <3>4. ReviewsOwnSales'
        BY <2>1, <2>3, <3>1, <3>2 DEF ReviewsOwnSales, Reviewing, Kept
    <3>5. FlowsKnowDeposits' /\ KeptIsUnique'
        BY <2>1, <2>3, <3>1, <3>2 DEF FlowsKnowDeposits, KeptIsUnique, Reviewing, Kept
    <3> QED
        BY <3>3, <3>4, <3>5
  <2> QED
      BY <1>5, <2>2, <2>3 DEF Save, Go
<1>6. ASSUME NEW f \in Flows, Submit(f) \/ SubmitAgain(f) PROVE Inv'
  <2> DEFINE deposit == flow[f].deposit
  <2>1. deposit \in Kept /\ flow[f].at \in {"submit", "resubmit"}
      BY <1>6 DEF Submit, SubmitAgain, On, FlowsKnowDeposits, Reviewing
  <2>2. /\ UNCHANGED <<saved, bare, dismissed, drawn, nonce, mined, paid>>
        /\ pool' \subseteq pool \cup {deposit}
      BY <1>6 DEF Submit, SubmitAgain, Send, settings
  <2>3. PICK stage \in {"sent", "offered"} : flow' = [flow EXCEPT ![f].at = stage]
      BY <1>6 DEF Submit, SubmitAgain, Go
  <2>4. /\ flow'[f].at = stage /\ flow'[f].deposit = deposit
        /\ \A g \in Flows \ {f} : flow'[g] = flow[g]
      BY <2>3 DEF TypeOK
  <2>5. TypeOK' /\ DepositsAreSaved'
      BY <2>1, <2>2, <2>3 DEF TypeOK, DepositsAreSaved, Kept, Stages
  <2>6. ReviewsOwnSales'
      BY <2>2, <2>4 DEF ReviewsOwnSales, Reviewing, Kept
  <2>7. FlowsKnowDeposits' /\ KeptIsUnique'
      BY <2>1, <2>2, <2>4 DEF FlowsKnowDeposits, KeptIsUnique, Reviewing, Kept
  <2> QED
      BY <2>5, <2>6, <2>7
<1>7. ASSUME NEW f \in Flows, Close(f) \/ CheckReceipt(f) \/ CheckStatus(f) \/ Resubmit(f)
      PROVE Inv'
  <2>1. /\ UNCHANGED <<saved, dismissed, drawn, nonce, pool, mined, paid>>
        /\ bare' \subseteq bare
      BY <1>7 DEF Close, CheckReceipt, CheckStatus, Resubmit, settings, chains
  <2>2. CASE Close(f)
      BY <2>1, <2>2, MoveInv DEF Close, Idle, Stages, Reviewing
  <2>3. CASE CheckReceipt(f) \/ CheckStatus(f) \/ Resubmit(f)
    <3>1. flow[f].at \notin Reviewing \cup {"idle"}
        BY <2>3 DEF CheckReceipt, CheckStatus, Resubmit, On, Reviewing
    <3>2. PICK stage \in {"listed", "unpaid", "offered", "resubmit"} :
              flow' = [flow EXCEPT ![f].at = stage]
        BY <2>3 DEF CheckReceipt, CheckStatus, Resubmit, On, Go, TypeOK
    <3>3. flow' = [flow EXCEPT ![f] =
                      [at |-> stage, sale |-> flow[f].sale, deposit |-> flow[f].deposit]]
      <4>1. flow[f] \in [at : Stages, sale : Sales \cup {None}, deposit : Deposits \cup {None}]
          BY DEF TypeOK
      <4>2. [flow[f] EXCEPT !.at = stage] = [at |-> stage, sale |-> flow[f].sale, deposit |-> flow[f].deposit]
          BY <4>1
      <4> QED
          BY <3>2, <4>2
    <3>4. flow[f].sale \in Sales \cup {None} /\ flow[f].deposit \in Deposits \cup {None}
        BY DEF TypeOK
    <3> QED
        BY <2>1, <3>1, <3>3, <3>4, MoveInv DEF Stages, Reviewing
  <2> QED
      BY <1>7, <2>2, <2>3
<1>8. ASSUME NEW f \in Flows, NEW deposit \in saved, List(f, deposit) PROVE Inv'
  <2>1. /\ UNCHANGED <<saved, bare, dismissed, drawn, nonce, pool, mined, paid>>
        /\ flow' = [flow EXCEPT ![f] = [at |-> "listed", sale |-> deposit.sale, deposit |-> deposit]]
      BY <1>8 DEF List, settings, chains
  <2>2. deposit \in Deposits /\ deposit.sale \in Sales
      BY DEF TypeOK, Deposits
  <2>3. /\ flow'[f] = [at |-> "listed", sale |-> deposit.sale, deposit |-> deposit]
        /\ \A g \in Flows \ {f} : flow'[g] = flow[g]
      BY <2>1 DEF TypeOK
  <2>4. TypeOK' /\ DepositsAreSaved'
      BY <2>1, <2>2 DEF TypeOK, DepositsAreSaved, Stages
  <2>5. ReviewsOwnSales'
      BY <2>1, <2>3 DEF ReviewsOwnSales, Reviewing, Kept
  <2>6. FlowsKnowDeposits' /\ KeptIsUnique'
      BY <2>1, <2>3 DEF FlowsKnowDeposits, KeptIsUnique, Reviewing, Kept
  <2> QED
      BY <2>4, <2>5, <2>6
<1>9. ASSUME NEW f \in Flows, Dismiss(f) PROVE Inv'
  <2>1. /\ flow[f].deposit \in Kept
        /\ saved' = saved \ {flow[f].deposit} /\ bare' = bare \ {flow[f].deposit}
        /\ dismissed' = dismissed \cup {flow[f].deposit}
        /\ UNCHANGED <<drawn, nonce, pool, mined, paid>>
      BY <1>9 DEF Dismiss, FlowsKnowDeposits, Reviewing, chains
  <2>2. Kept' = Kept
      BY <2>1 DEF Kept
  <2>3. /\ flow'[f] = Idle
        /\ \A g \in Flows \ {f} : flow'[g] = flow[g]
      BY <1>9 DEF Dismiss, TypeOK
  <2>4. TypeOK'
      BY <1>9, <2>1 DEF Dismiss, TypeOK, Kept, Idle, Stages
  <2>5. DepositsAreSaved'
      BY <2>1, <2>2 DEF DepositsAreSaved, Kept
  <2>6. ReviewsOwnSales' /\ FlowsKnowDeposits'
      BY <2>1, <2>2, <2>3 DEF ReviewsOwnSales, FlowsKnowDeposits, Reviewing, Idle
  <2>7. KeptIsUnique'
      BY <2>1, <2>2 DEF KeptIsUnique
  <2> QED
      BY <2>4, <2>5, <2>6, <2>7
<1> QED
    BY <1>1, <1>2, <1>3, <1>4, <1>5, <1>6, <1>7, <1>8, <1>9 DEF Next

(* The inductive invariant holds in every reachable state.                  *)
LEMMA InvHolds == SaleAssumption => (Spec => []Inv)
<1> SUFFICES ASSUME SaleAssumption PROVE Spec => []Inv
    OBVIOUS
<1>1. Init => Inv
    BY InitInv
<1>2. Inv /\ [Next]_vars => Inv'
    BY StepInv
<1> QED
    BY <1>1, <1>2, PTL DEF Spec

(* However many reviews and checks run, and wherever they are interrupted,  *)
(* no two deposits of one sale can be mined: app.ts reviewSellOrder never   *)
(* signs again after it has submitted, and depositsScreen resubmits exactly *)
(* what is saved.                                                           *)
THEOREM LockedOnce == SaleAssumption => (Spec => []OneDepositPerSale)
<1>1. Inv => OneDepositPerSale
    BY DEF Inv, DepositsAreSaved, KeptIsUnique, Kept, OneDepositPerSale
<1> QED
    BY <1>1, InvHolds, PTL

(* Every deposit that may be or was mined is saved or was dismissed by its  *)
(* user: app.ts saves before it submits, and only dismissal removes.        *)
THEOREM AlwaysSaved == SaleAssumption => (Spec => []DepositsAreSaved)
<1>1. Inv => DepositsAreSaved
    BY DEF Inv
<1> QED
    BY <1>1, InvHolds, PTL

(* The initial states are initial states of an Outbox.                      *)
LEMMA InitOutbox == SaleAssumption /\ Init => Outbox!Init
<1>1. SaleAssumption /\ Init => saved \subseteq Deposits
    BY InitInv DEF Inv, TypeOK
<1> QED
    BY <1>1 DEF Init, Outbox!Init

(* Every step is one of an Outbox: saving keeps a deposit, submitting sends *)
(* one that is kept or forgotten, dismissing forgets one, the node loses    *)
(* some, and everything else changes nothing there.                         *)
LEMMA StepOutbox == Inv /\ [Next]_vars => [Outbox!Next]_(Outbox!vars)
<1> SUFFICES ASSUME Inv, [Next]_vars PROVE [Outbox!Next]_(Outbox!vars)
    OBVIOUS
<1> USE DEF Outbox!vars
<1>1. CASE UNCHANGED vars
    BY <1>1 DEF vars
<1>2. CASE Chains
  <2>1. pool' \cup mined' \subseteq pool \cup mined /\ UNCHANGED <<saved, dismissed>>
      BY <1>2 DEF Chains, Mine, Spend, Drop, Pay, settings
  <2> QED
      BY <2>1 DEF Outbox!Next, Outbox!Lose
<1>3. ASSUME NEW f \in Flows, Save(f) PROVE [Outbox!Next]_(Outbox!vars)
  <2>1. flow[f].deposit \in Deposits
      BY <1>3 DEF Save, On, Inv, FlowsKnowDeposits
  <2>2. UNCHANGED <<dismissed, pool, mined>> /\ saved' \in {saved, saved \cup {flow[f].deposit}}
      BY <1>3 DEF Save, chains
  <2> QED
      BY <2>1, <2>2 DEF Outbox!Next, Outbox!Keep
<1>4. ASSUME NEW f \in Flows, Submit(f) \/ SubmitAgain(f) PROVE [Outbox!Next]_(Outbox!vars)
  <2>1. flow[f].deposit \in saved \cup dismissed
      BY <1>4 DEF Submit, SubmitAgain, On, Inv, FlowsKnowDeposits, Reviewing, Kept
  <2>2. flow[f].deposit \in Deposits
      BY <2>1 DEF Inv, TypeOK
  <2>3. /\ UNCHANGED <<saved, dismissed, mined>>
        /\ pool' \in {pool, pool \cup {flow[f].deposit}}
      BY <1>4 DEF Submit, SubmitAgain, Send, settings
  <2>4. pool' \cup mined' \in {pool \cup mined, (pool \cup mined) \cup {flow[f].deposit}}
      BY <2>3
  <2> QED
      BY <2>1, <2>2, <2>3, <2>4 DEF Outbox!Next, Outbox!Send
<1>5. ASSUME NEW f \in Flows, Dismiss(f) PROVE [Outbox!Next]_(Outbox!vars)
  <2>1. flow[f].deposit \in saved \cup dismissed
      BY <1>5 DEF Dismiss, Inv, FlowsKnowDeposits, Reviewing, Kept
  <2>2. /\ saved' = saved \ {flow[f].deposit} /\ dismissed' = dismissed \cup {flow[f].deposit}
        /\ UNCHANGED <<pool, mined>>
      BY <1>5 DEF Dismiss, chains
  <2>3. CASE flow[f].deposit \in saved
      BY <2>2, <2>3 DEF Inv, TypeOK, Outbox!Next, Outbox!Forget
  <2>4. CASE flow[f].deposit \notin saved
      BY <2>1, <2>2, <2>4
  <2> QED
      BY <2>3, <2>4
<1>6. ASSUME NEW f \in Flows,
             \/ Review(f) \/ Lock(f) \/ Sign(f) \/ Close(f)
             \/ \E deposit \in saved : List(f, deposit)
             \/ CheckReceipt(f) \/ CheckStatus(f) \/ Resubmit(f)
      PROVE [Outbox!Next]_(Outbox!vars)
  <2>1. UNCHANGED <<saved, dismissed, pool, mined>>
      BY <1>6 DEF Review, Lock, Sign, Close, List, CheckReceipt, CheckStatus, Resubmit, settings, chains
  <2> QED
      BY <2>1
<1> QED
    BY <1>1, <1>2, <1>3, <1>4, <1>5, <1>6 DEF Next

(* Selling implements the abstract Outbox, for any number of flows, sales   *)
(* and nonces: app.ts reviewSellOrder and depositsScreen save before they   *)
(* submit, and only depositsScreen's dismissal removes.                     *)
THEOREM SaleIsOutbox == SaleAssumption => (Spec => ImplementsOutbox)
<1> SUFFICES ASSUME SaleAssumption PROVE Spec => ImplementsOutbox
    OBVIOUS
<1>1. Init => Outbox!Init
    BY InitOutbox
<1>2. Spec => []Inv
    BY InvHolds
<1> QED
    BY <1>1, <1>2, StepOutbox, PTL DEF Spec, ImplementsOutbox, Outbox!Spec
=============================================================================
