--------------------------- MODULE PurchaseProofs ---------------------------
(***************************************************************************)
(* Purchase, for any number of pages, payments, nonces, fees and blocks:   *)
(* a payment is saved before it is sent, nothing is withdrawn that is not  *)
(* ours, and every withdrawal that was sent is saved while the deposit can *)
(* still be withdrawn.  All rest on what a page has once seen lasting: a   *)
(* record stays kept, a receipt keeps its owner, a spent deposit is spent, *)
(* so an old view of a purchase can never mislead its page.                *)
(***************************************************************************)
EXTENDS Purchase, FiniteSetTheorems, TLAPS

Kept == {receipt \in Receipts : Saved(receipt)} \cup dismissed

(* A withdrawal can be given up once the deposit is spent or its purchase   *)
(* dismissed.                                                               *)
Recorded(receipt, tx) == locked => tx \in Tries(receipt) \/ receipt \in dismissed

(* What a page may rely on: the purchase it shows is kept, a withdrawal is  *)
(* signed or sent only for a deposit that is ours, and sent when recorded.  *)
Knows(s) ==
    /\ s.at # "idle" => s.receipt \in Receipts
    /\ s.at \notin {"idle", "buy"} => s.view # None
    /\ s.view # None => s.receipt \in Receipts /\ s.receipt \in Kept
    /\ s.view # None /\ s.view.current # None =>
          owner = "us" /\ Recorded(s.receipt, s.view.current)
    /\ s.at \in {"owned", "record", "claim"} => owner = "us"
    /\ s.at \in {"record", "claim"} => s.tx \in Attempts
    /\ s.at = "claim" => Recorded(s.receipt, s.tx)

ScreensKnow == \A page \in Pages : Knows(screen[page])

(* What is stored: withdrawals are ours and among their attempts, and a     *)
(* purchase is archived, or about to be, only once its deposit is spent.    *)
StoreKnows ==
    /\ \A receipt \in Receipts :
          /\ stored.open[receipt] # None /\ stored.open[receipt].current # None =>
                owner = "us" /\ stored.open[receipt].current \in stored.open[receipt].attempts
          /\ stored.confirmed[receipt] # None => ~locked
    /\ \A page \in Pages : pass[page].at = "archive" => ~locked

Inv ==
    /\ TypeOK
    /\ ScreensKnow
    /\ StoreKnows
    /\ PaidIsSaved
    /\ ClaimsAreOwned
    /\ LiveClaimsAreSaved

(* What no step takes back.                                                 *)
Lasting ==
    /\ Kept \subseteq Kept'
    /\ owner = "us" => owner' = "us"
    /\ locked' => locked
    /\ \A receipt \in Receipts, tx \in Attempts : Recorded(receipt, tx) => Recorded(receipt, tx)'

(* The withdrawals saved for a payment are those of its two records.        *)
LEMMA TriesAre ==
    /\ \A receipt, tx : tx \in Tries(receipt) <=>
          \/ stored.open[receipt] # None /\ tx \in stored.open[receipt].attempts
          \/ stored.confirmed[receipt] # None /\ tx \in stored.confirmed[receipt].attempts
    /\ \A receipt, tx : tx \in Tries(receipt)' <=>
          \/ stored'.open[receipt] # None /\ tx \in stored'.open[receipt].attempts
          \/ stored'.confirmed[receipt] # None /\ tx \in stored'.confirmed[receipt].attempts
BY DEF Tries

(* The account's nonce is a number.                                         *)
LEMMA NonceIsNat == ASSUME TypeOK PROVE Nonce \in Nat
<1> DEFINE Blocks == {i \in DOMAIN chain : chain[i] # Empty}
<1>1. DOMAIN chain = 1 .. Len(chain) /\ Len(chain) \in Nat
    BY DEF TypeOK
<1>2. IsFiniteSet(1 .. Len(chain))
    BY <1>1, FS_Interval
<1>3. Blocks \subseteq 1 .. Len(chain)
    BY <1>1
<1>4. IsFiniteSet(Blocks)
    BY <1>2, <1>3, FS_Subset
<1> QED
    BY <1>4, FS_CardinalityType DEF Nonce

(* No screen has the type of a screen.                                      *)
LEMMA IdleIsScreen == Idle \in Screens /\ Idle.at = "idle" /\ Idle.view = None
BY DEF Idle, Screens, Stages

(* The initial states satisfy the inductive invariant: nothing is saved and *)
(* every page is idle.                                                      *)
LEMMA InitInv == Init => Inv
<1> SUFFICES ASSUME Init PROVE Inv
    OBVIOUS
<1> USE PurchaseAssumption, ClaimsAssumption, IdleIsScreen
<1>1. TypeOK
    BY DEF Init, TypeOK, Purchases, IdlePass
<1>2. ScreensKnow
    BY DEF Init, ScreensKnow, Knows
<1>3. StoreKnows
    BY DEF Init, StoreKnows, IdlePass
<1>4. PaidIsSaved /\ ClaimsAreOwned /\ LiveClaimsAreSaved
    BY DEF Init, PaidIsSaved, ClaimsAreOwned, LiveClaimsAreSaved
<1> QED
    BY <1>1, <1>2, <1>3, <1>4 DEF Inv

(* A page keeps what it may rely on while another one acts.                 *)
LEMMA ScreensInv ==
    ASSUME TypeOK, ScreensKnow, Lasting, NEW page \in Pages, NEW next \in Screens,
           screen' = [screen EXCEPT ![page] = next], Knows(next)'
    PROVE  ScreensKnow'
<1> SUFFICES ASSUME NEW other \in Pages PROVE Knows(screen[other])'
    BY DEF ScreensKnow
<1>1. CASE other = page
  <2>1. screen'[page] = next
      BY DEF TypeOK
  <2> QED
      BY <1>1, <2>1 DEF Knows
<1>2. CASE other # page
  <2>1. screen'[other] = screen[other] /\ screen[other] \in Screens
      BY <1>2 DEF TypeOK
  <2>2. Knows(screen[other])
      BY DEF ScreensKnow
  <2>3. screen[other].view # None /\ screen[other].view.current # None =>
            screen[other].view.current \in Attempts
      BY <2>1 DEF Screens, Claims
  <2> QED
      BY <2>1, <2>2, <2>3 DEF Knows, Lasting
<1> QED
    BY <1>1, <1>2

(* A step that stores nothing and leaves the chains alone is one of a page  *)
(* that sends only payments that are kept and withdrawals that are recorded.*)
LEMMA ScreenInv ==
    ASSUME Inv, NEW page \in Pages, NEW next \in Screens, Knows(next),
           screen' = [screen EXCEPT ![page] = next],
           UNCHANGED <<stored, owner, locked, chain, dismissed>>,
           pass' = pass \/ pass' = [pass EXCEPT ![page] = IdlePass],
           paid' \subseteq paid \cup Kept,
           \A claim \in claimed' \ claimed :
              /\ claim \in Receipts \X Attempts
              /\ owner = "us" /\ Recorded(claim[1], claim[2])
    PROVE  Inv'
<1> USE DEF Inv
<1>1. Lasting /\ Kept' = Kept /\ Kept \subseteq Receipts
    BY DEF Lasting, Kept, Saved, Recorded, Tries, TypeOK
<1>2. Knows(next)'
    BY <1>1 DEF Knows, Recorded, Tries
<1>3. ScreensKnow'
    BY <1>1, <1>2, ScreensInv
<1>4. /\ pass' \in [Pages -> [at : {"idle", "values", "archive"}, deep : SUBSET Receipts]]
      /\ \A p \in Pages : pass'[p].at = "archive" => ~locked
    BY DEF TypeOK, StoreKnows, IdlePass
<1>5. TypeOK'
    BY <1>1, <1>4 DEF TypeOK
<1>6. StoreKnows'
    BY <1>4 DEF StoreKnows
<1>7. PaidIsSaved'
    BY <1>1 DEF PaidIsSaved, Kept, Saved
<1>8. ClaimsAreOwned' /\ LiveClaimsAreSaved'
    BY DEF ClaimsAreOwned, LiveClaimsAreSaved, Recorded, Tries
<1> QED
    BY <1>3, <1>5, <1>6, <1>7, <1>8

(* Going on to another stage of the screen.                                 *)
LEMMA GoInv ==
    ASSUME Inv, NEW page \in Pages,
           NEW stage \in {"open", "owned", "status", "advanced", "restart"},
           Go(page, stage), screen[page].at \notin {"idle", "buy"},
           stage = "owned" => owner = "us",
           UNCHANGED <<stored, pass, owner, locked, chain, claimed, dismissed>>,
           paid' \subseteq paid \cup Kept
    PROVE  Inv'
<1>1. screen[page] \in Screens /\ Knows(screen[page])
    BY DEF Inv, TypeOK, ScreensKnow
<1>2. PICK next : next = [screen[page] EXCEPT !.at = stage]
    OBVIOUS
<1>3. /\ next \in Screens /\ next.at = stage /\ next.receipt = screen[page].receipt
      /\ next.view = screen[page].view
    BY <1>1, <1>2 DEF Screens, Stages
<1>4. Knows(next)
    BY <1>1, <1>3 DEF Knows
<1>5. screen' = [screen EXCEPT ![page] = next]
    BY <1>2 DEF Go
<1> QED
    BY <1>3, <1>4, <1>5, ScreenInv

(* Leaving the screen, and what was sent last.                              *)
LEMMA IdleInv ==
    ASSUME Inv, NEW page \in Pages,
           screen' = [screen EXCEPT ![page] = Idle],
           pass' = pass \/ pass' = [pass EXCEPT ![page] = IdlePass],
           UNCHANGED <<stored, owner, locked, chain, paid, dismissed>>,
           \A claim \in claimed' \ claimed :
              /\ claim \in Receipts \X Attempts
              /\ owner = "us" /\ Recorded(claim[1], claim[2])
    PROVE  Inv'
<1>1. Knows(Idle)
    BY IdleIsScreen DEF Knows
<1> QED
    BY <1>1, IdleIsScreen, ScreenInv

(* An update of one open purchase that drops no attempt: all that is known  *)
(* lasts, and all that it stores is kept and recorded.                      *)
LEMMA OpenInv ==
    ASSUME Inv, NEW page \in Pages, NEW receipt \in Receipts, NEW claims \in Claims,
           stored' = [stored EXCEPT !.open[receipt] = claims],
           stored.open[receipt] # None => stored.open[receipt].attempts \subseteq claims.attempts,
           claims.current # None => owner = "us" /\ claims.current \in claims.attempts,
           NEW next \in Screens, screen' = [screen EXCEPT ![page] = next],
           /\ receipt \in Kept' /\ (\A tx \in claims.attempts : Recorded(receipt, tx)')
           => Knows(next)',
           UNCHANGED <<pass, node, paid, claimed, dismissed>>
    PROVE  Inv'
<1> USE PurchaseAssumption, ClaimsAssumption DEF Inv
<1>1. /\ stored' \in Purchases /\ stored'.open[receipt] = claims
      /\ \A other \in Receipts \ {receipt} : stored'.open[other] = stored.open[other]
      /\ stored'.confirmed = stored.confirmed
    BY DEF TypeOK, Purchases
<1>2. UNCHANGED <<owner, locked, chain>>
    BY DEF node
<1>3. claims # None
    OBVIOUS
<1>4. Kept \subseteq Kept' /\ receipt \in Kept'
    BY <1>1, <1>3 DEF Kept, Saved
<1>5. \A other, tx : other \in Receipts /\ tx \in Tries(other) => tx \in Tries(other)'
    BY <1>1, <1>3, TriesAre
<1>6. \A tx \in claims.attempts : Recorded(receipt, tx)'
    BY <1>1, <1>3, TriesAre DEF Recorded
<1>7. Lasting
    BY <1>2, <1>4, <1>5 DEF Lasting, Recorded
<1>8. ScreensKnow'
    BY <1>4, <1>6, <1>7, ScreensInv
<1>9. TypeOK'
    BY <1>1, <1>2 DEF TypeOK
<1>10. StoreKnows'
    BY <1>1, <1>2 DEF StoreKnows
<1>11. PaidIsSaved'
    BY <1>4, <1>9 DEF PaidIsSaved, Kept, TypeOK
<1>12. ClaimsAreOwned' /\ LiveClaimsAreSaved'
    BY <1>2, <1>5 DEF ClaimsAreOwned, LiveClaimsAreSaved, TypeOK
<1> QED
    BY <1>8, <1>9, <1>10, <1>11, <1>12

(* Every step keeps the inductive invariant.                                *)
LEMMA StepInv == Inv /\ [Next]_vars => Inv'
<1> SUFFICES ASSUME Inv, [Next]_vars PROVE Inv'
    OBVIOUS
<1> USE PurchaseAssumption, ClaimsAssumption
<1>1. CASE UNCHANGED vars
    BY <1>1 DEF vars, node, Inv, TypeOK, ScreensKnow, Knows, StoreKnows, PaidIsSaved, Saved,
                ClaimsAreOwned, LiveClaimsAreSaved, Kept, Recorded, Tries
<1>2. CASE ChainStep
  <2>1. /\ UNCHANGED <<stored, screen, pass, paid, claimed, dismissed>>
        /\ owner = "us" => owner' = "us"
        /\ locked' => locked
        /\ claimed # {} => owner' = "us"
        /\ owner' \in {"nobody", "us", "other"} /\ locked' \in BOOLEAN
        /\ chain' \in Seq(Attempts \cup {Empty, Foreign})
    <3>1. CASE MineReceipt
        BY <3>1 DEF MineReceipt, Inv, TypeOK, ClaimsAreOwned
    <3>2. CASE OtherWithdraws
        BY <3>2 DEF OtherWithdraws, Inv, TypeOK, ClaimsAreOwned
    <3>3. ASSUME NEW block \in Attempts \cup {Empty, Foreign}, Mine(block)
          PROVE  /\ UNCHANGED <<stored, screen, pass, owner, paid, claimed, dismissed>>
                 /\ locked' => locked
                 /\ locked' \in BOOLEAN
                 /\ chain' \in Seq(Attempts \cup {Empty, Foreign})
      <4>1. chain' = Append(chain, block) /\ chain \in Seq(Attempts \cup {Empty, Foreign})
          BY <3>3 DEF Mine, Inv, TypeOK
      <4>2. chain' \in Seq(Attempts \cup {Empty, Foreign})
          BY <4>1
      <4>3. UNCHANGED <<stored, screen, pass, owner, paid, claimed, dismissed>>
          BY <3>3 DEF Mine
      <4>4. locked' = locked \/ (locked /\ locked' = FALSE)
          BY <3>3 DEF Mine
      <4>5. locked \in BOOLEAN
          BY DEF Inv, TypeOK
      <4>6. ASSUME locked' = locked PROVE (locked' => locked) /\ locked' \in BOOLEAN
          BY <4>5, <4>6, Zenon
      <4>7. ASSUME locked, locked' = FALSE PROVE (locked' => locked) /\ locked' \in BOOLEAN
          BY <4>7, Zenon
      <4>8. (locked' => locked) /\ locked' \in BOOLEAN
          BY <4>4, <4>6, <4>7
      <4> QED
          BY <4>2, <4>3, <4>4, <4>8
    <3> QED
        BY <1>2, <3>1, <3>2, <3>3 DEF ChainStep, Inv, TypeOK, ClaimsAreOwned
  <2>2. TypeOK'
      BY <2>1 DEF Inv, TypeOK
  <2>3. ScreensKnow' /\ StoreKnows'
      BY <2>1 DEF Inv, ScreensKnow, Knows, StoreKnows, Kept, Saved, Recorded, Tries
  <2>4. PaidIsSaved' /\ ClaimsAreOwned' /\ LiveClaimsAreSaved'
      BY <2>1 DEF Inv, PaidIsSaved, Saved, ClaimsAreOwned, LiveClaimsAreSaved, Tries
  <2> QED
      BY <2>2, <2>3, <2>4 DEF Inv
<1>3. ASSUME NEW page \in Pages, NEW receipt \in Receipts, Buy(page, receipt) PROVE Inv'
  <2>0. PICK next : next = [Idle EXCEPT !.at = "buy", !.receipt = receipt]
      OBVIOUS
  <2>1. next \in Screens /\ next.at = "buy" /\ next.receipt = receipt /\ next.view = None
      BY <2>0, IdleIsScreen DEF Screens, Stages
  <2>2. screen' = [screen EXCEPT ![page] = next]
      BY <1>3, <2>0 DEF Buy
  <2>3. Knows(next)
      BY <2>1 DEF Knows
  <2> QED
      BY <1>3, <2>1, <2>2, <2>3, ScreenInv DEF Buy, node
<1>4. ASSUME NEW page \in Pages, NEW receipt \in Receipts, Open(page, receipt) PROVE Inv'
  <2> DEFINE claims == stored.open[receipt]
  <2>0. PICK next : next = [Idle EXCEPT !.at = "open", !.receipt = receipt, !.view = claims]
      OBVIOUS
  <2>1. claims \in Claims /\ claims # None
      BY <1>4 DEF Open, Inv, TypeOK, Purchases
  <2>2. /\ next \in Screens /\ next.at = "open" /\ next.receipt = receipt /\ next.view = claims
      BY <2>0, <2>1, IdleIsScreen DEF Screens, Stages
  <2>3. receipt \in Kept
      BY <2>1 DEF Kept, Saved
  <2>4. claims.current # None => owner = "us" /\ Recorded(receipt, claims.current)
      BY <2>1, TriesAre DEF Inv, StoreKnows, Recorded
  <2>5. Knows(next)
      BY <2>1, <2>2, <2>3, <2>4 DEF Knows
  <2>6. screen' = [screen EXCEPT ![page] = next]
      BY <1>4, <2>0 DEF Open
  <2> QED
      BY <1>4, <2>2, <2>5, <2>6, ScreenInv DEF Open, node
<1>5. ASSUME NEW page \in Pages, Pay(page) \/ CheckReceipt(page) PROVE Inv'
  <2>1. screen[page] \in Screens /\ Knows(screen[page])
      BY DEF Inv, TypeOK, ScreensKnow
  <2>2. CASE Pay(page)
    <3>1. /\ screen[page].at = "pay" /\ screen[page].receipt \in Kept /\ Go(page, "open")
          /\ paid' \subseteq paid \cup Kept
        BY <2>1, <2>2 DEF Pay, On, Knows
    <3> QED
        BY <2>2, <3>1, GoInv DEF Pay, node
  <2>3. CASE CheckReceipt(page) /\ owner = "us"
    <3>1. /\ screen[page].at = "open" /\ Go(page, "owned") /\ UNCHANGED paid
        BY <2>3 DEF CheckReceipt, Withdrawing, On
    <3> QED
        BY <2>3, <3>1, GoInv DEF CheckReceipt, node
  <2>4. CASE CheckReceipt(page) /\ owner = "nobody"
    <3>1. /\ screen[page].at = "open" /\ screen[page].receipt \in Kept
          /\ screen' = [screen EXCEPT ![page] = screen[page]]
          /\ paid' = paid \cup {screen[page].receipt}
        BY <2>1, <2>4 DEF CheckReceipt, Withdrawing, On, Knows, Inv, TypeOK
    <3> QED
        BY <2>1, <2>4, <3>1, ScreenInv DEF CheckReceipt, node
  <2> QED
      BY <1>5, <2>2, <2>3, <2>4 DEF CheckReceipt
<1>6. ASSUME NEW page \in Pages, NEW fee \in 0 .. MaxFee,
             SignWithdrawal(page, fee) \/ ReplaceWithdrawal(page, fee)
      PROVE Inv'
  <2>1. screen[page] \in Screens /\ Knows(screen[page])
      BY DEF Inv, TypeOK, ScreensKnow
  <2>2. PICK tx \in Attempts :
            screen' = [screen EXCEPT ![page].at = "record", ![page].tx = tx]
    <3>1. CASE SignWithdrawal(page, fee)
      <4>1. [nonce |-> Nonce, fee |-> fee] \in Attempts
          BY <3>1, NonceIsNat DEF SignWithdrawal, Attempts, Inv
      <4> QED
          BY <3>1, <4>1 DEF SignWithdrawal
    <3>2. CASE ReplaceWithdrawal(page, fee)
      <4>1. screen[page].view.current \in Attempts
          BY <2>1, <3>2 DEF ReplaceWithdrawal, Withdrawn, On, Knows, Screens, Claims
      <4>2. [screen[page].view.current EXCEPT !.fee = fee] \in Attempts
          BY <4>1 DEF Attempts
      <4> QED
          BY <3>2, <4>2 DEF ReplaceWithdrawal
    <3> QED
        BY <1>6, <3>1, <3>2
  <2>3. /\ owner = "us" /\ screen[page].at \in {"open", "owned"}
        /\ UNCHANGED <<stored, pass, node, paid, claimed, dismissed>>
      BY <1>6, <2>1 DEF SignWithdrawal, ReplaceWithdrawal, Withdrawn, On, Knows
  <2>4. PICK next : next = [screen[page] EXCEPT !.at = "record", !.tx = tx]
      OBVIOUS
  <2>5. /\ next \in Screens /\ next.at = "record" /\ next.tx = tx
        /\ next.receipt = screen[page].receipt /\ next.view = screen[page].view
      BY <2>1, <2>4 DEF Screens, Stages
  <2>6. Knows(next)
      BY <2>1, <2>3, <2>5 DEF Knows
  <2>7. screen' = [screen EXCEPT ![page] = next]
      BY <2>2, <2>4
  <2> QED
      BY <2>3, <2>5, <2>6, <2>7, ScreenInv DEF node
<1>7. ASSUME NEW page \in Pages, Claim(page) PROVE Inv'
  <2>1. /\ screen[page].receipt \in Receipts /\ screen[page].tx \in Attempts /\ owner = "us"
        /\ Recorded(screen[page].receipt, screen[page].tx)
      BY <1>7 DEF Claim, On, Inv, ScreensKnow, Knows
  <2>2. /\ claimed' \subseteq claimed \cup {<<screen[page].receipt, screen[page].tx>>}
        /\ screen' = [screen EXCEPT ![page] = Idle]
        /\ UNCHANGED <<stored, pass, owner, locked, chain, paid, dismissed>>
      BY <1>7 DEF Claim, node
  <2>3. \A claim \in claimed' \ claimed :
            /\ claim \in Receipts \X Attempts
            /\ owner = "us" /\ Recorded(claim[1], claim[2])
      BY <2>1, <2>2
  <2> QED
      BY <2>2, <2>3, IdleInv
<1>8. ASSUME NEW page \in Pages, ResubmitWithdrawal(page) PROVE Inv'
  <2>1. screen[page] \in Screens /\ Knows(screen[page])
      BY DEF Inv, TypeOK, ScreensKnow
  <2> DEFINE tx == screen[page].view.current
  <2>2. /\ screen[page].receipt \in Receipts /\ tx \in Attempts /\ owner = "us"
        /\ Recorded(screen[page].receipt, tx)
      BY <1>8, <2>1 DEF ResubmitWithdrawal, Withdrawn, On, Knows, Screens, Claims
  <2>3. /\ claimed' = claimed \cup {<<screen[page].receipt, tx>>}
        /\ screen' = [screen EXCEPT ![page] = screen[page]]
        /\ UNCHANGED <<stored, pass, owner, locked, chain, paid, dismissed>>
      BY <1>8 DEF ResubmitWithdrawal, node, Inv, TypeOK
  <2>4. \A claim \in claimed' \ claimed :
            /\ claim \in Receipts \X Attempts
            /\ owner = "us" /\ Recorded(claim[1], claim[2])
      BY <2>2, <2>3
  <2> HIDE DEF tx
  <2> QED
      BY <2>1, <2>3, <2>4, ScreenInv
<1>9. ASSUME NEW page \in Pages, UpdateFails(page) PROVE Inv'
  <2>1. screen[page] \in Screens /\ Knows(screen[page])
      BY DEF Inv, TypeOK, ScreensKnow
  <2>2. CASE screen[page].at = "buy"
      BY <1>9, <2>2, IdleInv DEF UpdateFails, node
  <2>3. CASE screen[page].at # "buy"
    <3>1. PICK next : next = [screen[page] EXCEPT !.at = "open", !.tx = None]
        OBVIOUS
    <3>2. /\ next \in Screens /\ next.at = "open"
          /\ next.receipt = screen[page].receipt /\ next.view = screen[page].view
        BY <2>1, <3>1 DEF Screens, Stages
    <3>3. Knows(next)
        BY <1>9, <2>1, <2>3, <3>2 DEF UpdateFails, Knows
    <3>4. screen' = [screen EXCEPT ![page] = next]
        BY <1>9, <2>3, <3>1 DEF UpdateFails
    <3> QED
        BY <1>9, <3>2, <3>3, <3>4, ScreenInv DEF UpdateFails, node
  <2> QED
      BY <2>2, <2>3
<1>10. ASSUME NEW page \in Pages, ReadStatuses(page) \/ ReadNonce(page) \/ ReadDeposit(page)
       PROVE Inv'
  <2>1. PICK stage \in {"open", "status", "advanced", "restart"} : Go(page, stage)
      BY <1>10 DEF ReadStatuses, ReadNonce, ReadDeposit
  <2>2. screen[page].at \notin {"idle", "buy"} /\ UNCHANGED <<stored, pass, node, paid, claimed, dismissed>>
      BY <1>10 DEF ReadStatuses, ReadNonce, ReadDeposit, Withdrawn, On
  <2> QED
      BY <2>1, <2>2, GoInv DEF node
<1>11. ASSUME NEW page \in Pages, Leave(page) \/ Reopen(page) PROVE Inv'
    BY <1>11, IdleInv DEF Leave, Reopen, node
<1>12. ASSUME NEW page \in Pages, RecordPurchase(page) PROVE Inv'
  <2>1. PICK receipt \in Receipts : receipt = screen[page].receipt
      BY <1>12 DEF RecordPurchase, On, Inv, ScreensKnow, Knows
  <2>2. NoClaims \in Claims /\ NoClaims.current = None
      BY DEF NoClaims, Claims
  <2>3. PICK claims : claims = IF stored.open[receipt] = None THEN NoClaims ELSE stored.open[receipt]
      OBVIOUS
  <2>4. /\ claims \in Claims
        /\ stored.open[receipt] # None => stored.open[receipt].attempts \subseteq claims.attempts
        /\ claims.current # None => owner = "us" /\ claims.current \in claims.attempts
      BY <2>2, <2>3 DEF Inv, TypeOK, Purchases, StoreKnows
  <2>5. stored' = [stored EXCEPT !.open[receipt] = claims] /\ stored'.open[receipt] = claims
    <3>1. stored' = [stored EXCEPT !.open[receipt] = claims]
        BY <1>12, <2>1, <2>3 DEF RecordPurchase
    <3> QED
        BY <3>1 DEF Inv, TypeOK, Purchases
  <2>6. PICK next : next = [screen[page] EXCEPT !.at = "pay", !.view = claims]
      OBVIOUS
  <2>7. next \in Screens /\ next.at = "pay" /\ next.receipt = receipt /\ next.view = claims
    <3>1. screen[page] \in Screens
        BY DEF Inv, TypeOK
    <3> QED
        BY <2>1, <2>4, <2>6, <3>1 DEF Screens, Stages
  <2>8. screen' = [screen EXCEPT ![page] = next]
      BY <1>12, <2>1, <2>5, <2>6 DEF RecordPurchase
  <2>9. UNCHANGED <<pass, node, paid, claimed, dismissed>>
      BY <1>12 DEF RecordPurchase
  <2>10. ASSUME receipt \in Kept', \A tx \in claims.attempts : Recorded(receipt, tx)'
         PROVE  Knows(next)'
      BY <2>4, <2>7, <2>9, <2>10 DEF Knows, node
  <2> QED
      BY <2>4, <2>5, <2>7, <2>8, <2>9, <2>10, OpenInv
<1>13. ASSUME NEW page \in Pages, RecordWithdrawalAttempt(page) PROVE Inv'
  <2>1. screen[page] \in Screens /\ Knows(screen[page]) /\ screen[page].at = "record"
      BY <1>13 DEF RecordWithdrawalAttempt, On, Inv, TypeOK, ScreensKnow
  <2>2. PICK receipt \in Receipts, tx \in Attempts :
            receipt = screen[page].receipt /\ tx = screen[page].tx
      BY <2>1 DEF Knows
  <2>3. /\ owner = "us" /\ receipt \in Kept /\ screen[page].view # None
        /\ UNCHANGED <<pass, node, paid, claimed, dismissed>>
      BY <1>13, <2>1, <2>2 DEF Knows, RecordWithdrawalAttempt
  <2>4. PICK next : next = [screen[page] EXCEPT !.at = "claim"]
      OBVIOUS
  <2>5. /\ next \in Screens /\ next.at = "claim" /\ next.receipt = receipt
        /\ next.view = screen[page].view /\ next.tx = tx
      BY <2>1, <2>2, <2>4 DEF Screens, Stages
  <2>6. screen' = [screen EXCEPT ![page] = next]
      BY <1>13, <2>4 DEF RecordWithdrawalAttempt, Go
  <2>7. CASE stored.open[receipt] = None
    <3>1. stored' = [stored EXCEPT !.open[receipt] = stored.open[receipt]]
        BY <1>13, <2>2, <2>7 DEF RecordWithdrawalAttempt
    <3>2. stored' = stored
        BY <3>1 DEF Inv, TypeOK, Purchases
    <3>3. Recorded(receipt, tx)
        BY <2>3, <2>7 DEF Kept, Saved, Recorded, Inv, StoreKnows
    <3>4. Knows(next)
        BY <2>1, <2>2, <2>3, <2>5, <3>3 DEF Knows
    <3> QED
        BY <2>3, <2>5, <2>6, <3>2, <3>4, ScreenInv DEF node
  <2>8. CASE stored.open[receipt] # None
    <3>1. PICK claims : claims = [current |-> tx, attempts |-> stored.open[receipt].attempts \cup {tx}]
        OBVIOUS
    <3>2. /\ claims \in Claims /\ claims.current = tx /\ tx \in claims.attempts
          /\ stored.open[receipt].attempts \subseteq claims.attempts
        BY <2>8, <3>1 DEF Inv, TypeOK, Purchases, Claims
    <3>3. stored' = [stored EXCEPT !.open[receipt] = claims]
        BY <1>13, <2>2, <2>8, <3>1 DEF RecordWithdrawalAttempt
    <3>4. next.view.current # None => Recorded(receipt, next.view.current)
        BY <2>1, <2>2, <2>3, <2>5 DEF Knows
    <3>5. ASSUME receipt \in Kept', \A other \in claims.attempts : Recorded(receipt, other)'
          PROVE  Knows(next)'
      <4>1. stored'.open[receipt] = claims /\ stored'.confirmed = stored.confirmed
          BY <3>3 DEF Inv, TypeOK, Purchases
      <4>2. \A other \in Tries(receipt) : other \in Tries(receipt)'
          BY <2>8, <3>2, <4>1, TriesAre, ClaimsAssumption
      <4>3. next.view.current # None => Recorded(receipt, next.view.current)'
          BY <2>3, <3>4, <4>2 DEF Recorded, node
      <4> QED
          BY <2>3, <2>5, <3>2, <3>5, <4>3 DEF Knows, node
    <3> QED
        BY <2>3, <2>5, <2>6, <3>2, <3>3, <3>5, OpenInv
  <2> QED
      BY <2>7, <2>8
<1>14. ASSUME NEW page \in Pages, Restart(page) PROVE Inv'
  <2>1. screen[page] \in Screens /\ Knows(screen[page]) /\ screen[page].at = "restart"
      BY <1>14 DEF Restart, On, Inv, TypeOK, ScreensKnow
  <2>2. PICK receipt \in Receipts : receipt = screen[page].receipt
      BY <2>1 DEF Knows
  <2>3. UNCHANGED <<pass, node, paid, claimed, dismissed>>
      BY <1>14 DEF Restart
  <2>4. CASE stored.open[receipt] = None
    <3>1. stored' = [stored EXCEPT !.open[receipt] = stored.open[receipt]]
        BY <1>14, <2>2, <2>4 DEF Restart
    <3>2. stored' = stored
        BY <3>1 DEF Inv, TypeOK, Purchases
    <3>3. screen' = [screen EXCEPT ![page] = Idle]
        BY <1>14, <2>2, <2>4, <3>2 DEF Restart
    <3> QED
        BY <2>3, <3>2, <3>3, IdleInv DEF node
  <2>5. CASE stored.open[receipt] # None
    <3>1. PICK claims : claims = [stored.open[receipt] EXCEPT !.current = None]
        OBVIOUS
    <3>2. /\ claims \in Claims /\ claims.current = None
          /\ claims.attempts = stored.open[receipt].attempts
      <4>1. stored.open[receipt] \in Claims
          BY <2>5 DEF Inv, TypeOK, Purchases
      <4> QED
          BY <3>1, <4>1 DEF Claims
    <3>3. stored' = [stored EXCEPT !.open[receipt] = claims]
        BY <1>14, <2>2, <2>5, <3>1 DEF Restart
    <3>4. stored'.open[receipt] = claims
        BY <3>3 DEF Inv, TypeOK, Purchases
    <3>5. PICK next : next = [screen[page] EXCEPT !.at = "open", !.view = claims]
        OBVIOUS
    <3>6. next \in Screens /\ next.at = "open" /\ next.receipt = receipt /\ next.view = claims
        BY <2>1, <2>2, <3>2, <3>5 DEF Screens, Stages
    <3>7. screen' = [screen EXCEPT ![page] = next]
        BY <1>14, <2>2, <3>2, <3>4, <3>5, ClaimsAssumption DEF Restart
    <3>8. ASSUME receipt \in Kept', \A tx \in claims.attempts : Recorded(receipt, tx)'
          PROVE  Knows(next)'
        BY <3>2, <3>6, <3>8, ClaimsAssumption DEF Knows
    <3> QED
        BY <2>3, <3>2, <3>3, <3>6, <3>7, <3>8, OpenInv
  <2> QED
      BY <2>4, <2>5
<1>15. ASSUME NEW page \in Pages, Judge(page) \/ ReadValues(page) \/ ArchiveFails(page) PROVE Inv'
  <2>1. UNCHANGED <<stored, screen, node, paid, claimed, dismissed>>
      BY <1>15 DEF Judge, ReadValues, ArchiveFails
  <2>2. /\ pass' \in [Pages -> [at : {"idle", "values", "archive"}, deep : SUBSET Receipts]]
        /\ \A other \in Pages : pass'[other].at = "archive" => ~locked
    <3>1. CASE Judge(page)
      <4>1. PICK deep \in SUBSET Receipts : pass' = [pass EXCEPT ![page] = [at |-> "values", deep |-> deep]]
          BY <3>1 DEF Judge
      <4> QED
          BY <4>1 DEF Inv, TypeOK, StoreKnows
    <3>2. CASE ReadValues(page)
      <4>1. CASE locked
          BY <3>2, <4>1 DEF ReadValues, IdlePass, Inv, TypeOK, StoreKnows
      <4>2. CASE ~locked
          BY <3>2, <4>2 DEF ReadValues, Inv, TypeOK, StoreKnows
      <4> QED
          BY <4>1, <4>2
    <3>3. CASE ArchiveFails(page)
        BY <3>3 DEF ArchiveFails, IdlePass, Inv, TypeOK, StoreKnows
    <3> QED
        BY <1>15, <3>1, <3>2, <3>3
  <2>3. TypeOK' /\ StoreKnows'
      BY <2>1, <2>2 DEF Inv, TypeOK, StoreKnows, node
  <2>4. ScreensKnow'
      BY <2>1 DEF Inv, ScreensKnow, Knows, Kept, Saved, Recorded, Tries, node
  <2>5. PaidIsSaved' /\ ClaimsAreOwned' /\ LiveClaimsAreSaved'
      BY <2>1 DEF Inv, PaidIsSaved, Saved, ClaimsAreOwned, LiveClaimsAreSaved, Tries, node
  <2> QED
      BY <2>3, <2>4, <2>5 DEF Inv
<1>16. ASSUME NEW page \in Pages, Archive(page) PROVE Inv'
  <2>1. /\ ~locked /\ UNCHANGED <<screen, owner, locked, chain, paid, claimed, dismissed>>
        /\ pass' = [pass EXCEPT ![page] = IdlePass]
      BY <1>16 DEF Archive, Inv, StoreKnows, node
  <2>2. PICK moved \in SUBSET Receipts :
            /\ \A receipt \in moved : stored.open[receipt] # None
            /\ stored' = [open |-> [receipt \in Receipts |->
                                      IF receipt \in moved THEN None ELSE stored.open[receipt]],
                          confirmed |-> [receipt \in Receipts |->
                                      IF receipt \in moved THEN stored.open[receipt]
                                      ELSE stored.confirmed[receipt]]]
    <3>1. pass[page].deep \subseteq Receipts
        BY DEF Inv, TypeOK
    <3> DEFINE moved == {receipt \in pass[page].deep : stored.open[receipt] # None}
    <3>2. moved \in SUBSET Receipts /\ \A receipt \in moved : stored.open[receipt] # None
        BY <3>1
    <3>3. stored' = [open |-> [receipt \in Receipts |->
                                  IF receipt \in moved THEN None ELSE stored.open[receipt]],
                     confirmed |-> [receipt \in Receipts |->
                                  IF receipt \in moved THEN stored.open[receipt]
                                  ELSE stored.confirmed[receipt]]]
        BY <1>16 DEF Archive
    <3> HIDE DEF moved
    <3> QED
        BY <3>2, <3>3
  <2>3. /\ stored' \in Purchases
        /\ \A receipt \in Receipts :
              /\ stored'.open[receipt] \in {None, stored.open[receipt]}
              /\ Saved(receipt)' <=> Saved(receipt)
    <3>1. stored \in Purchases
        BY DEF Inv, TypeOK
    <3> QED
        BY <2>2, <3>1 DEF Purchases, Saved
  <2>4. Kept' = Kept
      BY <2>1, <2>3 DEF Kept
  <2>5. TypeOK'
      BY <2>1, <2>3 DEF Inv, TypeOK, IdlePass
  <2>6. StoreKnows'
      BY <2>1, <2>3 DEF Inv, StoreKnows
  <2>7. ScreensKnow'
      BY <2>1, <2>4 DEF Inv, ScreensKnow, Knows, Recorded
  <2>8. PaidIsSaved'
      BY <2>1, <2>3, <2>5 DEF Inv, PaidIsSaved, TypeOK
  <2>9. ClaimsAreOwned' /\ LiveClaimsAreSaved'
      BY <2>1 DEF Inv, ClaimsAreOwned, LiveClaimsAreSaved
  <2> QED
      BY <2>5, <2>6, <2>7, <2>8, <2>9 DEF Inv
<1>17. ASSUME NEW page \in Pages, NEW receipt \in Receipts, Dismiss(page, receipt) PROVE Inv'
  <2>1. /\ stored' = [stored EXCEPT !.open[receipt] = None, !.confirmed[receipt] = None]
        /\ screen' = [screen EXCEPT ![page] = Idle]
        /\ dismissed' = dismissed \cup {receipt}
        /\ UNCHANGED <<pass, owner, locked, chain, paid, claimed>>
      BY <1>17 DEF Dismiss, node
  <2>2. /\ stored' \in Purchases
        /\ stored'.open[receipt] = None /\ stored'.confirmed[receipt] = None
        /\ \A other \in Receipts \ {receipt} :
              /\ stored'.open[other] = stored.open[other]
              /\ stored'.confirmed[other] = stored.confirmed[other]
      BY <2>1 DEF Inv, TypeOK, Purchases
  <2>3. Kept \subseteq Kept'
      BY <2>1, <2>2 DEF Kept, Saved
  <2>4. \A other \in Receipts : \A tx :
            tx \in Tries(other) => tx \in Tries(other)' \/ other \in dismissed'
      BY <2>1, <2>2, TriesAre
  <2>5. Lasting
      BY <2>1, <2>3, <2>4 DEF Lasting, Recorded
  <2>6. Knows(Idle)'
      BY IdleIsScreen DEF Knows, Idle
  <2>7. ScreensKnow'
      BY <2>1, <2>5, <2>6, IdleIsScreen, ScreensInv DEF Inv
  <2>8. TypeOK'
      BY <2>1, <2>2, IdleIsScreen DEF Inv, TypeOK
  <2>9. StoreKnows'
      BY <2>1, <2>2 DEF Inv, StoreKnows
  <2>10. PaidIsSaved'
      BY <2>1, <2>3, <2>8 DEF Inv, PaidIsSaved, Kept, TypeOK
  <2>11. ClaimsAreOwned' /\ LiveClaimsAreSaved'
      BY <2>1, <2>4 DEF Inv, ClaimsAreOwned, LiveClaimsAreSaved, TypeOK
  <2> QED
      BY <2>7, <2>8, <2>9, <2>10, <2>11 DEF Inv
<1> QED
    BY <1>1, <1>2, <1>3, <1>4, <1>5, <1>6, <1>7, <1>8, <1>9, <1>10, <1>11, <1>12,
       <1>13, <1>14, <1>15, <1>16, <1>17
       DEF Next, PageStep

(* The inductive invariant holds in every reachable state.                  *)
LEMMA InvHolds == Spec => []Inv
BY InitInv, StepInv, PTL DEF Spec

(* A payment is saved before it is sent and stays so until its user         *)
(* dismisses it: app.ts reviewBuyOrder records the purchase first, and      *)
(* archiveOpenPurchase moves.                                               *)
THEOREM AlwaysSaved == Spec => []PaidIsSaved
<1>1. Inv => PaidIsSaved
    BY DEF Inv
<1> QED
    BY <1>1, InvHolds, PTL

(* Nothing is withdrawn that is not ours, however old the view of the       *)
(* purchase is: app.ts purchaseScreen proves the receipt first, and a       *)
(* receipt keeps its owner.                                                 *)
THEOREM AlwaysOwned == Spec => []ClaimsAreOwned
<1>1. Inv => ClaimsAreOwned
    BY DEF Inv
<1> QED
    BY <1>1, InvHolds, PTL

(* While the deposit can be withdrawn every withdrawal that was sent is     *)
(* saved with its purchase: settings.ts recordWithdrawalAttempt and the     *)
(* restart of app.ts purchaseScreen keep all attempts, and only a spent     *)
(* deposit archives its purchase.                                           *)
THEOREM AlwaysRecorded == Spec => []LiveClaimsAreSaved
<1>1. Inv => LiveClaimsAreSaved
    BY DEF Inv
<1> QED
    BY <1>1, InvHolds, PTL

(* An update of the withdrawals of a purchase, and an archive, saves no     *)
(* purchase and removes none.                                               *)
LEMMA UpdateKeeps ==
    ASSUME Inv, NEW page \in Pages,
           RecordWithdrawalAttempt(page) \/ Restart(page) \/ Archive(page)
    PROVE  \A receipt \in Receipts : Saved(receipt)' <=> Saved(receipt)
<1> USE ClaimsAssumption
<1>1. stored \in Purchases
    BY DEF Inv, TypeOK
<1>2. ASSUME NEW receipt \in Receipts, NEW claims,
             stored' = [stored EXCEPT !.open[receipt] = claims],
             claims = None <=> stored.open[receipt] = None
      PROVE  \A other \in Receipts : Saved(other)' <=> Saved(other)
    BY <1>1, <1>2 DEF Saved, Purchases
<1>3. CASE RecordWithdrawalAttempt(page)
  <2>1. PICK receipt \in Receipts, tx \in Attempts :
            receipt = screen[page].receipt /\ tx = screen[page].tx
      BY <1>3 DEF RecordWithdrawalAttempt, On, Inv, ScreensKnow, Knows
  <2>2. PICK claims : claims = IF stored.open[receipt] = None THEN None
                               ELSE [current |-> tx, attempts |-> stored.open[receipt].attempts \cup {tx}]
      OBVIOUS
  <2>3. claims = None <=> stored.open[receipt] = None
    <3>1. stored.open[receipt] # None => claims \in Claims
        BY <1>1, <2>2 DEF Purchases, Claims
    <3> QED
        BY <2>2, <3>1
  <2>4. stored' = [stored EXCEPT !.open[receipt] = claims]
      BY <1>3, <2>1, <2>2 DEF RecordWithdrawalAttempt
  <2> QED
      BY <1>2, <2>3, <2>4
<1>4. CASE Restart(page)
  <2>1. PICK receipt \in Receipts : receipt = screen[page].receipt
      BY <1>4 DEF Restart, On, Inv, ScreensKnow, Knows
  <2>2. PICK claims : claims = IF stored.open[receipt] = None THEN None
                               ELSE [stored.open[receipt] EXCEPT !.current = None]
      OBVIOUS
  <2>3. claims = None <=> stored.open[receipt] = None
    <3>1. stored.open[receipt] # None => claims \in Claims
        BY <1>1, <2>2 DEF Purchases, Claims
    <3> QED
        BY <2>2, <3>1
  <2>4. stored' = [stored EXCEPT !.open[receipt] = claims]
      BY <1>4, <2>1, <2>2 DEF Restart
  <2> QED
      BY <1>2, <2>3, <2>4
<1>5. CASE Archive(page)
  <2>1. \A receipt \in Receipts :
            \/ /\ stored'.open[receipt] = None /\ stored'.confirmed[receipt] = stored.open[receipt]
               /\ stored.open[receipt] # None
            \/ /\ stored'.open[receipt] = stored.open[receipt]
               /\ stored'.confirmed[receipt] = stored.confirmed[receipt]
      BY <1>1, <1>5 DEF Archive, Purchases
  <2> QED
      BY <2>1 DEF Saved
<1> QED
    BY <1>3, <1>4, <1>5

(* Every step is one of an Outbox of payments: recording a purchase keeps   *)
(* its payment, paying and checking send one that is kept or forgotten, and *)
(* only dismissing forgets it.                                              *)
LEMMA StepOutbox == Inv /\ [Next]_vars => [Outbox!Next]_(Outbox!vars)
<1> DEFINE Goal == [Outbox!Next]_(Outbox!vars)
<1> SUFFICES ASSUME Inv, [Next]_vars PROVE Goal
    OBVIOUS
<1> USE DEF Outbox!vars
<1>1. ASSUME \A receipt \in Receipts : Saved(receipt)' <=> Saved(receipt),
             UNCHANGED <<paid, dismissed>>
      PROVE  Goal
    BY <1>1
<1>2. CASE UNCHANGED vars \/ ChainStep
    BY <1>1, <1>2 DEF vars, ChainStep, MineReceipt, OtherWithdraws, Mine, Saved
<1>3. ASSUME NEW page \in Pages, RecordPurchase(page) PROVE Goal
  <2>1. PICK receipt \in Receipts : receipt = screen[page].receipt
      BY <1>3 DEF RecordPurchase, On, Inv, ScreensKnow, Knows
  <2>2. NoClaims # None
      BY ClaimsAssumption DEF NoClaims, Claims
  <2>3. PICK claims : claims # None /\ stored' = [stored EXCEPT !.open[receipt] = claims]
    <3>1. PICK claims : claims = IF stored.open[receipt] = None THEN NoClaims ELSE stored.open[receipt]
        OBVIOUS
    <3>2. claims # None
        BY <2>2, <3>1
    <3>3. stored' = [stored EXCEPT !.open[receipt] = claims]
        BY <1>3, <2>1, <3>1 DEF RecordPurchase
    <3> QED
        BY <3>2, <3>3
  <2>4. stored \in Purchases
      BY DEF Inv, TypeOK
  <2>5. \A other \in Receipts : Saved(other)' <=> Saved(other) \/ other = receipt
      BY <2>3, <2>4 DEF Saved, Purchases
  <2>6. {other \in Receipts : Saved(other)}' = {other \in Receipts : Saved(other)} \cup {receipt}
      BY <2>5
  <2>7. UNCHANGED <<paid, dismissed>>
      BY <1>3 DEF RecordPurchase
  <2> QED
      BY <2>6, <2>7 DEF Outbox!Next, Outbox!Keep
<1>4. ASSUME NEW page \in Pages, Pay(page) \/ CheckReceipt(page) PROVE Goal
  <2>1. screen[page].receipt \in Receipts /\ screen[page].receipt \in Kept
      BY <1>4 DEF Pay, CheckReceipt, Withdrawing, On, Inv, ScreensKnow, Knows
  <2>2. UNCHANGED <<stored, dismissed>> /\ paid' \in {paid, paid \cup {screen[page].receipt}}
      BY <1>4 DEF Pay, CheckReceipt
  <2>3. \A receipt \in Receipts : Saved(receipt)' <=> Saved(receipt)
      BY <2>2 DEF Saved
  <2>4. CASE paid' = paid
      BY <1>1, <2>2, <2>3, <2>4
  <2>5. CASE paid' = paid \cup {screen[page].receipt}
    <3>1. {receipt \in Receipts : Saved(receipt)}' = {receipt \in Receipts : Saved(receipt)}
        BY <2>3
    <3> QED
        BY <2>1, <2>2, <2>5, <3>1 DEF Outbox!Next, Outbox!Send, Kept
  <2> QED
      BY <2>2, <2>4, <2>5
<1>5. ASSUME NEW page \in Pages, NEW receipt \in Receipts, Dismiss(page, receipt) PROVE Goal
  <2>1. stored \in Purchases
      BY DEF Inv, TypeOK
  <2>2. \A other \in Receipts : Saved(other)' <=> Saved(other) /\ other # receipt
      BY <1>5, <2>1 DEF Dismiss, Saved, Purchases
  <2>3. {other \in Receipts : Saved(other)}' = {other \in Receipts : Saved(other)} \ {receipt}
      BY <2>2
  <2>4. Saved(receipt) /\ dismissed' = dismissed \cup {receipt} /\ UNCHANGED paid
      BY <1>5 DEF Dismiss
  <2> QED
      BY <2>3, <2>4 DEF Outbox!Next, Outbox!Forget
<1>6. ASSUME NEW page \in Pages,
             RecordWithdrawalAttempt(page) \/ Restart(page) \/ Archive(page)
      PROVE  Goal
    BY <1>1, <1>6, UpdateKeeps DEF RecordWithdrawalAttempt, Restart, Archive
<1>7. ASSUME NEW page \in Pages,
             \/ \E receipt \in Receipts : Buy(page, receipt) \/ Open(page, receipt)
             \/ \E fee \in 0 .. MaxFee : SignWithdrawal(page, fee) \/ ReplaceWithdrawal(page, fee)
             \/ Claim(page) \/ ResubmitWithdrawal(page) \/ UpdateFails(page)
             \/ ReadStatuses(page) \/ ReadNonce(page) \/ ReadDeposit(page)
             \/ Judge(page) \/ ReadValues(page) \/ ArchiveFails(page)
             \/ Leave(page) \/ Reopen(page)
      PROVE  Goal
  <2>1. UNCHANGED <<stored, paid, dismissed>>
      BY <1>7 DEF Buy, Open, SignWithdrawal, ReplaceWithdrawal, Claim, ResubmitWithdrawal, UpdateFails,
                  ReadStatuses, ReadNonce, ReadDeposit, Judge, ReadValues, ArchiveFails, Leave, Reopen
  <2> QED
      BY <1>1, <2>1 DEF Saved
<1> HIDE DEF Goal
<1> QED
    BY <1>2, <1>3, <1>4, <1>5, <1>6, <1>7 DEF Next, PageStep

(* Buying implements the abstract Outbox of payments, for any number of     *)
(* pages and payments: no update of app.ts but a dismissal removes a        *)
(* purchase, and what is paid again was recorded when it was paid first.    *)
THEOREM PurchaseIsOutbox == Spec => ImplementsOutbox
<1>1. Init => Outbox!Init
    BY DEF Init, Outbox!Init, Saved
<1> QED
    BY <1>1, StepOutbox, InvHolds, PTL DEF Spec, ImplementsOutbox, Outbox!Spec

----------------------------------------------------------------------------
(* What the chain shows                                                     *)

(* A withdrawal that was mined has spent the deposit and was sent by a page.*)
ChainKnows ==
    /\ locked => Included = {}
    /\ \A tx \in Included : \E claim \in claimed : claim[2] = tx

(* The nonces of a screen about to offer a restart are spent, and by other  *)
(* transactions: the deposit was still there after they had been.           *)
Unmined(s) ==
    /\ s.at \in {"advanced", "restart"} => \A tx \in s.view.attempts : tx.nonce < Nonce
    /\ s.at = "restart" => \A tx \in s.view.attempts : tx \notin Included

SafeScreens == \A page \in Pages : Unmined(screen[page])

DeepWasClaimed == \E claim \in claimed : Deep(claim[2])

SafePasses == \A page \in Pages : pass[page].deep # {} => DeepWasClaimed

SafeInv == ChainKnows /\ SafeScreens /\ SafePasses /\ ArchivedIsWithdrawn

(* The child chain only grows: nonces are spent, blocks get deeper, and one *)
(* transaction at most is new.                                              *)
LEMMA ChainGrows ==
    ASSUME TypeOK, [Next]_vars
    PROVE  /\ Nonce' >= Nonce
           /\ \A tx : Deep(tx) => Deep(tx)'
           /\ claimed \subseteq claimed'
           /\ \/ chain' = chain /\ (locked' => locked)
              \/ \E block \in Attempts \cup {Empty, Foreign} :
                    Mine(block) /\ ToSet(chain') = ToSet(chain) \cup {block}
<1> USE PurchaseAssumption
<1>1. CASE UNCHANGED vars \/ MineReceipt \/ OtherWithdraws \/ \E page \in Pages : PageStep(page)
  <2>1. chain' = chain /\ claimed \subseteq claimed'
      BY <1>1 DEF vars, node, MineReceipt, OtherWithdraws, PageStep, Buy, Open, Dismiss,
         RecordPurchase, Pay, CheckReceipt, SignWithdrawal, ReplaceWithdrawal,
         RecordWithdrawalAttempt, Claim, ResubmitWithdrawal, UpdateFails, ReadStatuses, ReadNonce,
         ReadDeposit, Restart, Judge, ReadValues, Archive, ArchiveFails, Leave, Reopen
  <2>2. locked' => locked
      BY <1>1 DEF vars, node, MineReceipt, OtherWithdraws, PageStep, Buy, Open, Dismiss,
         RecordPurchase, Pay, CheckReceipt, SignWithdrawal, ReplaceWithdrawal,
         RecordWithdrawalAttempt, Claim, ResubmitWithdrawal, UpdateFails, ReadStatuses, ReadNonce,
         ReadDeposit, Restart, Judge, ReadValues, Archive, ArchiveFails, Leave, Reopen
  <2>3. Nonce' = Nonce /\ \A tx : Deep(tx) => Deep(tx)'
      BY <2>1 DEF Nonce, Deep
  <2>4. Nonce \in Nat
      BY NonceIsNat
  <2> QED
      BY <2>1, <2>2, <2>3, <2>4
<1>2. ASSUME NEW block \in Attempts \cup {Empty, Foreign}, Mine(block)
      PROVE  /\ Nonce' >= Nonce
             /\ \A tx : Deep(tx) => Deep(tx)'
             /\ claimed \subseteq claimed'
             /\ ToSet(chain') = ToSet(chain) \cup {block}
  <2>1. chain \in Seq(Attempts \cup {Empty, Foreign}) /\ chain' = Append(chain, block) /\ claimed' = claimed
      BY <1>2 DEF Mine, TypeOK
  <2>2. /\ Len(chain) \in Nat /\ Len(chain') = Len(chain) + 1
        /\ DOMAIN chain = 1 .. Len(chain) /\ DOMAIN chain' = 1 .. Len(chain) + 1
        /\ \A i \in 1 .. Len(chain) : chain'[i] = chain[i]
        /\ chain'[Len(chain) + 1] = block
      BY <2>1
  <2>3. Nonce' >= Nonce
    <3> DEFINE Before == {i \in DOMAIN chain : chain[i] # Empty}
               After  == {i \in DOMAIN chain' : chain'[i] # Empty}
    <3>1. Before \subseteq After /\ After \subseteq 1 .. Len(chain) + 1
        BY <2>2
    <3>2. IsFiniteSet(1 .. Len(chain) + 1)
        BY <2>2, FS_Interval
    <3>3. IsFiniteSet(After)
        BY <3>1, <3>2, FS_Subset
    <3>4. Cardinality(Before) <= Cardinality(After)
        BY <3>1, <3>3, FS_Subset
    <3>5. Cardinality(Before) \in Nat /\ Cardinality(After) \in Nat
        BY <3>1, <3>3, FS_Subset, FS_CardinalityType
    <3>6. Nonce = Cardinality(Before) /\ Nonce' = Cardinality(After)
        BY DEF Nonce
    <3> QED
        BY <3>4, <3>5, <3>6
  <2>4. ASSUME NEW tx, Deep(tx) PROVE Deep(tx)'
    <3>1. PICK height \in DOMAIN chain :
              chain[height] = tx /\ Len(chain) - height + 1 >= ConfirmationDepth
        BY <2>4 DEF Deep
    <3>2. height \in DOMAIN chain' /\ chain'[height] = tx
        BY <2>2, <3>1
    <3>3. Len(chain') - height + 1 >= ConfirmationDepth
        BY <2>2, <3>1
    <3> QED
        BY <3>2, <3>3 DEF Deep
  <2>5. ToSet(chain') = ToSet(chain) \cup {block}
      BY <2>2 DEF ToSet
  <2> QED
      BY <2>1, <2>3, <2>4, <2>5
<1> QED
    BY <1>1, <1>2 DEF Next, ChainStep

(* Only the reads of the nonces and the deposit lead to a restart.          *)
LEMMA ScreenMoves ==
    ASSUME TypeOK, NEW page \in Pages, PageStep(page), NEW other \in Pages
    PROVE  \/ screen'[other] = screen[other]
           \/ screen'[other].at \notin {"advanced", "restart"}
           \/ other = page /\ (ReadNonce(page) \/ ReadDeposit(page))
<1> DEFINE Goal == \/ screen'[other] = screen[other]
                   \/ screen'[other].at \notin {"advanced", "restart"}
                   \/ other = page /\ (ReadNonce(page) \/ ReadDeposit(page))
<1> SUFFICES Goal
    OBVIOUS
<1>1. screen \in [Pages -> Screens]
    BY DEF TypeOK
<1>2. ASSUME NEW next, screen' = [screen EXCEPT ![page] = next],
             next.at \notin {"advanced", "restart"}
      PROVE  Goal
    BY <1>1, <1>2
<1>3. ASSUME NEW stage, Go(page, stage), stage \notin {"advanced", "restart"} PROVE Goal
  <2>1. [screen[page] EXCEPT !.at = stage].at = stage
      BY <1>1 DEF Screens
  <2> QED
      BY <1>2, <1>3, <2>1 DEF Go
<1>4. ASSUME screen' = [screen EXCEPT ![page] = Idle] PROVE Goal
    BY <1>2, <1>4, IdleIsScreen
<1>5. ASSUME NEW receipt \in Receipts, Buy(page, receipt) \/ Open(page, receipt) PROVE Goal
  <2>1. /\ [Idle EXCEPT !.at = "buy", !.receipt = receipt].at = "buy"
        /\ [Idle EXCEPT !.at = "open", !.receipt = receipt, !.view = stored.open[receipt]].at = "open"
      BY DEF Idle
  <2> QED
      BY <1>2, <1>5, <2>1 DEF Buy, Open
<1>6. CASE RecordPurchase(page)
    BY <1>1, <1>6 DEF RecordPurchase, Screens
<1>7. CASE Pay(page) \/ CheckReceipt(page) \/ ReadStatuses(page) \/ RecordWithdrawalAttempt(page)
    BY <1>3, <1>7 DEF Pay, CheckReceipt, ReadStatuses, RecordWithdrawalAttempt
<1>8. ASSUME NEW fee, SignWithdrawal(page, fee) \/ ReplaceWithdrawal(page, fee) PROVE Goal
    BY <1>1, <1>8 DEF SignWithdrawal, ReplaceWithdrawal, Screens
<1>9. CASE Claim(page) \/ Leave(page) \/ Reopen(page) \/ \E receipt \in Receipts : Dismiss(page, receipt)
    BY <1>4, <1>9 DEF Claim, Leave, Reopen, Dismiss
<1>10. CASE UpdateFails(page)
  <2>1. [screen[page] EXCEPT !.at = "open", !.tx = None].at = "open"
      BY <1>1 DEF Screens
  <2> QED
      BY <1>2, <1>4, <1>10, <2>1 DEF UpdateFails
<1>11. CASE Restart(page)
  <2> DEFINE next(claims) == [screen[page] EXCEPT !.at = "open", !.view = claims]
  <2>1. \A claims : next(claims).at = "open"
      BY <1>1 DEF Screens
  <2>2. \/ screen' = [screen EXCEPT ![page] = Idle]
        \/ \E claims : screen' = [screen EXCEPT ![page] = next(claims)]
      BY <1>11 DEF Restart
  <2> QED
      BY <1>2, <1>4, <2>1, <2>2
<1>12. CASE UNCHANGED screen \/ ReadNonce(page) \/ ReadDeposit(page)
    BY <1>1, <1>12 DEF ReadNonce, ReadDeposit, Go
<1>13. CASE ResubmitWithdrawal(page) \/ Judge(page) \/ ReadValues(page) \/ Archive(page)
            \/ ArchiveFails(page)
    BY <1>12, <1>13 DEF ResubmitWithdrawal, Judge, ReadValues, Archive, ArchiveFails
<1> HIDE DEF Goal
<1>14. CASE \E receipt \in Receipts : Buy(page, receipt) \/ Open(page, receipt) \/ Dismiss(page, receipt)
    BY <1>5, <1>9, <1>14
<1>15. CASE \E fee \in 0 .. MaxFee : SignWithdrawal(page, fee) \/ ReplaceWithdrawal(page, fee)
    BY <1>8, <1>15
<1> QED
    BY <1>6, <1>7, <1>9, <1>10, <1>11, <1>12, <1>13, <1>14, <1>15 DEF PageStep

(* Every step keeps what the chain shows.                                   *)
LEMMA SafeStep == Inv /\ SafeInv /\ [Next]_vars => SafeInv'
<1> SUFFICES ASSUME Inv, SafeInv, [Next]_vars PROVE SafeInv'
    OBVIOUS
<1> USE PurchaseAssumption, ClaimsAssumption
<1>1. TypeOK /\ TypeOK'
    BY StepInv DEF Inv
<1>2. /\ Nonce' >= Nonce
      /\ \A tx : Deep(tx) => Deep(tx)'
      /\ claimed \subseteq claimed'
      /\ \/ chain' = chain /\ (locked' => locked)
         \/ \E block \in Attempts \cup {Empty, Foreign} :
               Mine(block) /\ ToSet(chain') = ToSet(chain) \cup {block}
    BY <1>1, ChainGrows
<1>3. DeepWasClaimed => DeepWasClaimed'
    BY <1>2 DEF DeepWasClaimed
<1>4. ChainKnows'
  <2>1. CASE chain' = chain /\ (locked' => locked)
    <3>1. Included' = Included
        BY <2>1 DEF Included
    <3> QED
        BY <1>2, <2>1, <3>1 DEF SafeInv, ChainKnows
  <2>2. ASSUME NEW block \in Attempts \cup {Empty, Foreign}, Mine(block),
               ToSet(chain') = ToSet(chain) \cup {block}
        PROVE  ChainKnows'
    <3>1. CASE block \in {Empty, Foreign}
      <4>1. locked' = locked /\ claimed' = claimed /\ block \notin Attempts
          BY <1>1, <2>2, <3>1 DEF Mine, TypeOK
      <4>2. Included' = Included
          BY <2>2, <4>1 DEF Included
      <4> QED
          BY <4>1, <4>2 DEF SafeInv, ChainKnows
    <3>2. CASE block \in Attempts
      <4>1. ~locked' /\ claimed' = claimed /\ \E receipt \in Receipts : <<receipt, block>> \in claimed
          BY <2>2, <3>2 DEF Mine
      <4>2. Included' = Included \cup {block}
          BY <2>2, <3>2 DEF Included
      <4> QED
          BY <4>1, <4>2 DEF SafeInv, ChainKnows
    <3> QED
        BY <3>1, <3>2
  <2> QED
      BY <1>2, <2>1, <2>2
<1>5. SafeScreens'
  <2> SUFFICES ASSUME NEW other \in Pages PROVE Unmined(screen[other])'
      BY DEF SafeScreens
  <2>1. screen[other] \in Screens /\ screen'[other] \in Screens /\ Unmined(screen[other])
      BY <1>1 DEF TypeOK, SafeInv, SafeScreens
  <2>2. /\ Nonce \in Nat /\ Nonce' \in Nat
        /\ screen[other].at \in {"advanced", "restart"} =>
              \A tx \in screen[other].view.attempts : tx \in Attempts /\ tx.nonce \in Nat
    <3>1. Nonce \in Nat
        BY <1>1, NonceIsNat
    <3>2. Nonce' \in Nat
      <4> DEFINE Blocks == {i \in DOMAIN chain' : chain'[i] # Empty}
      <4>1. Blocks \subseteq 1 .. Len(chain') /\ Len(chain') \in Nat
          BY <1>1 DEF TypeOK
      <4>2. IsFiniteSet(1 .. Len(chain'))
          BY <4>1, FS_Interval
      <4>3. IsFiniteSet(Blocks)
          BY <4>1, <4>2, FS_Subset
      <4> QED
          BY <4>3, FS_CardinalityType DEF Nonce
    <3>3. screen[other].at \in {"advanced", "restart"} => screen[other].view \in Claims
        BY <2>1 DEF Inv, ScreensKnow, Knows, Screens
    <3> QED
        BY <3>1, <3>2, <3>3 DEF Claims, Attempts
  <2>3. CASE screen'[other] = screen[other]
    <3>1. \A tx \in Attempts : tx \in Included' /\ tx.nonce \in Nat /\ tx.nonce < Nonce => tx \in Included
        BY <1>2 DEF Included, Mine
    <3> QED
        BY <1>2, <2>1, <2>2, <2>3, <3>1 DEF Unmined
  <2>4. CASE screen'[other].at \notin {"advanced", "restart"}
      BY <2>4 DEF Unmined
  <2>5. CASE ReadNonce(other)
    <3>1. chain' = chain
        BY <2>5 DEF ReadNonce, node
    <3>2. screen'[other] = [screen[other] EXCEPT !.at =
              IF \A tx \in screen[other].view.attempts : tx.nonce < Nonce THEN "advanced" ELSE "open"]
        BY <1>1, <2>5 DEF ReadNonce, Go, TypeOK
    <3>3. Nonce' = Nonce
        BY <3>1 DEF Nonce
    <3> QED
        BY <2>1, <3>2, <3>3 DEF Unmined, Screens
  <2>6. CASE ReadDeposit(other)
    <3>1. chain' = chain /\ screen[other].at = "advanced"
        BY <2>6 DEF ReadDeposit, node, On
    <3>2. screen'[other] = [screen[other] EXCEPT !.at = IF locked THEN "restart" ELSE "open"]
        BY <1>1, <2>6 DEF ReadDeposit, Go, TypeOK
    <3>3. Nonce' = Nonce /\ Included' = Included
        BY <3>1 DEF Nonce, Included
    <3>4. locked => Included = {}
        BY DEF SafeInv, ChainKnows
    <3> QED
        BY <2>1, <3>1, <3>2, <3>3, <3>4 DEF Unmined, Screens
  <2>7. CASE \E page \in Pages : PageStep(page)
      BY <1>1, <2>3, <2>4, <2>5, <2>6, <2>7, ScreenMoves
  <2>8. CASE ChainStep \/ UNCHANGED vars
      BY <2>3, <2>8 DEF ChainStep, MineReceipt, OtherWithdraws, Mine, vars
  <2> QED
      BY <2>7, <2>8 DEF Next
<1>6. SafePasses'
  <2> SUFFICES ASSUME NEW other \in Pages, pass'[other].deep # {} PROVE DeepWasClaimed'
      BY DEF SafePasses
  <2>1. CASE pass'[other].deep = pass[other].deep
      BY <1>3, <2>1 DEF SafeInv, SafePasses
  <2>2. CASE Judge(other)
    <3>1. PICK deep \in SUBSET {receipt \in Receipts :
               stored.open[receipt] # None /\ \E tx \in stored.open[receipt].attempts : Deep(tx)} :
              deep # {} /\ pass' = [pass EXCEPT ![other] = [at |-> "values", deep |-> deep]]
        BY <2>2 DEF Judge
    <3>2. PICK receipt \in Receipts :
              stored.open[receipt] # None /\ \E tx \in stored.open[receipt].attempts : Deep(tx)
        BY <3>1
    <3>3. PICK tx \in stored.open[receipt].attempts : Deep(tx)
        BY <3>2
    <3>4. tx \in Attempts
        BY <1>1, <3>2, <3>3 DEF TypeOK, Purchases, Claims
    <3>5. tx \in Included
        BY <3>3, <3>4 DEF Deep, Included, ToSet
    <3>6. DeepWasClaimed
        BY <3>3, <3>5 DEF SafeInv, ChainKnows, DeepWasClaimed
    <3> QED
        BY <1>3, <3>6
  <2>3. ASSUME NEW page \in Pages, PageStep(page)
        PROVE  pass'[other].deep \in {{}, pass[other].deep} \/ (page = other /\ Judge(page))
    <3>1. CASE Judge(page)
        BY <1>1, <3>1 DEF Judge, TypeOK
    <3>2. CASE ReadValues(page) \/ Archive(page) \/ ArchiveFails(page) \/ Reopen(page)
        BY <1>1, <3>2 DEF ReadValues, Archive, ArchiveFails, Reopen, IdlePass, TypeOK
    <3>3. CASE UNCHANGED pass
        BY <3>3
    <3> QED
        BY <2>3, <3>1, <3>2, <3>3
        DEF PageStep, Buy, Open, Dismiss, RecordPurchase, Pay, CheckReceipt, SignWithdrawal,
            ReplaceWithdrawal, RecordWithdrawalAttempt, Claim, ResubmitWithdrawal, UpdateFails,
            ReadStatuses, ReadNonce, ReadDeposit, Restart, Leave
  <2>4. CASE ChainStep \/ UNCHANGED vars
      BY <2>1, <2>4 DEF ChainStep, MineReceipt, OtherWithdraws, Mine, vars
  <2> QED
      BY <2>1, <2>2, <2>3, <2>4 DEF Next
<1>7. ArchivedIsWithdrawn'
  <2> SUFFICES ASSUME NEW receipt \in Receipts, stored'.confirmed[receipt] # None
               PROVE  DeepWasClaimed'
      BY DEF ArchivedIsWithdrawn, DeepWasClaimed
  <2>1. CASE stored'.confirmed[receipt] = stored.confirmed[receipt]
      BY <1>3, <2>1 DEF SafeInv, ArchivedIsWithdrawn, DeepWasClaimed
  <2>2. ASSUME NEW page \in Pages, PageStep(page)
        PROVE  \/ stored'.confirmed[receipt] \in {None, stored.confirmed[receipt]}
               \/ pass[page].deep # {}
    <3>1. CASE Archive(page)
        BY <3>1 DEF Archive
    <3>2. CASE RecordPurchase(page) \/ RecordWithdrawalAttempt(page) \/ Restart(page)
        BY <1>1, <3>2 DEF RecordPurchase, RecordWithdrawalAttempt, Restart, TypeOK, Purchases
    <3>3. CASE \E other \in Receipts : Dismiss(page, other)
        BY <1>1, <3>3 DEF Dismiss, TypeOK, Purchases
    <3>4. CASE UNCHANGED stored
        BY <3>4
    <3> QED
        BY <2>2, <3>1, <3>2, <3>3, <3>4
        DEF PageStep, Buy, Open, Pay, CheckReceipt, SignWithdrawal, ReplaceWithdrawal, Claim,
            ResubmitWithdrawal, UpdateFails, ReadStatuses, ReadNonce, ReadDeposit, Judge,
            ReadValues, ArchiveFails, Leave, Reopen
  <2>3. CASE ChainStep \/ UNCHANGED vars
      BY <2>1, <2>3 DEF ChainStep, MineReceipt, OtherWithdraws, Mine, vars
  <2>4. ASSUME NEW page \in Pages, pass[page].deep # {} PROVE DeepWasClaimed'
      BY <1>3, <2>4 DEF SafeInv, SafePasses
  <2> QED
      BY <2>1, <2>2, <2>3, <2>4 DEF Next
<1> QED
    BY <1>4, <1>5, <1>6, <1>7 DEF SafeInv

(* It holds in every reachable state.                                       *)
LEMMA SafeHolds == Spec => []SafeInv
<1>1. Init => SafeInv
  <2> SUFFICES ASSUME Init PROVE SafeInv
      OBVIOUS
  <2>1. Included = {}
      BY DEF Init, Included, ToSet
  <2> QED
      BY <2>1, IdleIsScreen
      DEF Init, SafeInv, ChainKnows, SafeScreens, Unmined, SafePasses, IdlePass, ArchivedIsWithdrawn
<1> QED
    BY <1>1, InitInv, StepInv, SafeStep, PTL DEF Spec

(* A restart is offered only when no attempt the screen shows can be mined  *)
(* any more: app.ts purchaseScreen reads the nonces before the deposit, and *)
(* what spends a nonce without the deposit is no withdrawal.                *)
THEOREM AlwaysRestartsSafely == Spec => []RestartIsSafe
<1>1. SafeInv => RestartIsSafe
    BY DEF SafeInv, SafeScreens, Unmined, RestartIsSafe, On
<1> QED
    BY <1>1, SafeHolds, PTL

(* A purchase is archived only when a withdrawal of this wallet is deep:    *)
(* app.ts reconcileRecovery goes by its own transactions, never by a spent  *)
(* deposit alone.                                                           *)
THEOREM AlwaysWithdrawn == Spec => []ArchivedIsWithdrawn
<1>1. SafeInv => ArchivedIsWithdrawn
    BY DEF SafeInv
<1> QED
    BY <1>1, SafeHolds, PTL

(* Every variable of a purchase stays in its type.                          *)
THEOREM PurchaseTypes == Spec => []TypeOK
<1>1. Inv => TypeOK
    BY DEF Inv
<1> QED
    BY <1>1, InvHolds, PTL
=============================================================================
