--------------------------- MODULE RecoveryProofs ---------------------------
(***************************************************************************)
(* Recovery, for any number of pages, payments, nonces, fees and blocks:   *)
(* what reached the node is saved or was dismissed, a replacement outbids  *)
(* every attempt that is saved when it is, and the wallet is an Outbox.    *)
(* All rest on the settings lock, whose holder has loaded what is stored,  *)
(* and on kept records, saved or dismissed, only ever growing: what a page *)
(* once knew of, and what a flow has saved, is kept however late it acts.  *)
(* With the chain, which only grows and orders payments by their nonces:   *)
(* nobody pays twice unwarned, and what is archived is confirmed.          *)
(***************************************************************************)
EXTENDS Recovery, FiniteSetTheorems, TLAPS

Kept == Saved(stored) \cup dismissed

(* A flow past its review has a transaction and, if it may save, a purpose. *)
FlowShape ==
    \A page \in Pages :
        /\ flow[page].at # "idle" => flow[page].tx \in Transactions
        /\ flow[page].at = "save" => flow[page].kind # "none"

(* What a flow submits or dismisses is kept.                                *)
FlowsKnow ==
    \A page \in Pages :
        flow[page].at = "submit" \/ flow[page].kind = "dismiss" => flow[page].tx \in Kept

PagesKnow == \A page \in Pages : Saved(known[page]) \subseteq Kept

(* Nothing is stored between the holder's load and its save, and its flow   *)
(* waits for it.                                                            *)
LockHeld ==
    holder # None =>
        /\ holder.loaded = stored
        /\ holder.task = "flow" => flow[holder.page].at = "save"

Inv ==
    /\ TypeOK
    /\ FlowShape
    /\ FlowsKnow
    /\ PagesKnow
    /\ LockHeld
    /\ SubmittedIsSaved

(* The account's nonce is a number.                                         *)
LEMMA NonceIsNat == ASSUME TypeOK PROVE Nonce \in Nat
<1> DEFINE Blocks == {i \in DOMAIN chain : chain[i] # Empty}
<1>1. DOMAIN chain = 1 .. Len(chain) /\ Len(chain) \in Nat
    BY DEF TypeOK
<1>2. IsFiniteSet(1 .. Len(chain))
    BY <1>1, FS_Interval
<1>3. Blocks \subseteq 1 .. Len(chain)
    BY <1>1
<1>4. IsFiniteSet(Blocks)
    BY <1>2, <1>3, FS_Subset
<1> QED
    BY <1>4, FS_CardinalityType DEF Nonce

(* No flow and no pass have their types.                                    *)
LEMMA IdleIsFlow == Idle \in FlowRecords /\ Idle.at = "idle" /\ Idle.kind = "none"
BY DEF Idle, FlowRecords, Kinds, Stages

(* So has no pass.                                                          *)
LEMMA IdleIsPass == IdlePass \in Passes
BY DEF IdlePass, Passes

(* The names a new flow is given.                                           *)
LEMMA StageNames ==
    /\ {"send", "replace", "dismiss"} \subseteq Kinds
    /\ {"review", "save"} \subseteq Stages
BY DEF Kinds, Stages

(* The initial states satisfy the inductive invariant: nothing is kept,     *)
(* known or sent, and no flow runs.                                         *)
LEMMA InitInv == Init => Inv
<1> SUFFICES ASSUME Init PROVE Inv
    OBVIOUS
<1> USE RecoveryAssumption
<1>1. /\ NoRecords \in Records /\ Saved(NoRecords) = {}
      /\ Idle \in FlowRecords /\ IdlePass \in Passes
    BY DEF NoRecords, Records, Saved, Idle, IdlePass, FlowRecords, Passes, Kinds, Stages
<1>2. TypeOK
    BY <1>1 DEF Init, TypeOK
<1>3. FlowShape /\ FlowsKnow
    BY DEF Init, FlowShape, FlowsKnow, Idle
<1>4. PagesKnow /\ LockHeld /\ SubmittedIsSaved
    BY <1>1 DEF Init, PagesKnow, LockHeld, SubmittedIsSaved
<1> QED
    BY <1>2, <1>3, <1>4 DEF Inv

(* A flow may go to another stage, short of submitting, unless it is saving.*)
LEMMA MoveInv ==
    ASSUME Inv, NEW page \in Pages, NEW next \in FlowRecords,
           flow[page].at # "save",
           flow' = [flow EXCEPT ![page] = next],
           next.at \in {"idle", "review", "save"},
           next.at # "idle" => next.tx \in Transactions,
           next.at = "save" => next.kind # "none",
           next.kind = "dismiss" => next.tx \in Kept,
           UNCHANGED <<stored, known, pass, holder, chain, seenBy, dismissed>>,
           submitted' \subseteq submitted \cup Kept
    PROVE  Inv'
<1> USE DEF Inv
<1>1. /\ flow'[page] = next
      /\ \A other \in Pages \ {page} : flow'[other] = flow[other]
    BY DEF TypeOK
<1>2. UNCHANGED Kept /\ Kept \subseteq Transactions
    BY DEF Kept, Saved, TypeOK, Records
<1>3. TypeOK'
    BY <1>2 DEF TypeOK
<1>4. FlowShape'
    BY <1>1 DEF FlowShape
<1>5. FlowsKnow'
    BY <1>1, <1>2 DEF FlowsKnow
<1>6. PagesKnow' /\ SubmittedIsSaved'
    BY <1>2 DEF PagesKnow, SubmittedIsSaved, Kept
<1>7. LockHeld'
    BY <1>1, RecoveryAssumption DEF LockHeld, TypeOK, Tasks
<1> QED
    BY <1>3, <1>4, <1>5, <1>6, <1>7

(* What the update of one page stores: archiving keeps all that was saved,  *)
(* a send or a replacement adds its transaction, and a dismissal moves one  *)
(* from the saved to the dismissed.                                         *)
LEMMA SaveStores ==
    ASSUME Inv, NEW page \in Pages, NEW task \in Tasks, Save(page, task)
    PROVE  /\ stored' \in Records /\ stored' = Changed(page, task)
           /\ \/ UNCHANGED dismissed /\ Saved(stored') = Saved(stored) /\ task = "pass"
              \/ /\ UNCHANGED dismissed
                 /\ Saved(stored') = Saved(stored) \cup {flow[page].tx}
                 /\ flow[page].kind # "dismiss" /\ flow[page].tx \in Transactions /\ task = "flow"
              \/ /\ dismissed' = dismissed \cup {flow[page].tx}
                 /\ Saved(stored') = Saved(stored) \ {flow[page].tx}
                 /\ flow[page].kind = "dismiss" /\ flow[page].tx \in Transactions /\ task = "flow"
<1> USE DEF Inv
<1>1. /\ holder.loaded = stored /\ stored' = Changed(page, task)
      /\ stored.pending \subseteq Transactions /\ stored.confirmed \subseteq Transactions
      /\ stored = [pending |-> stored.pending, confirmed |-> stored.confirmed]
    BY DEF Save, Holds, LockHeld, TypeOK, Records
<1>2. CASE task = "pass"
  <2>1. stored' = [pending   |-> stored.pending \ pass[page].deep,
                   confirmed |-> stored.confirmed \cup (stored.pending \cap pass[page].deep)]
      BY <1>1, <1>2 DEF Changed
  <2>2. UNCHANGED dismissed
      BY <1>2 DEF Save
  <2> QED
      BY <1>1, <1>2, <2>1, <2>2 DEF Saved, Records
<1>3. CASE task = "flow"
  <2>1. /\ flow[page].at = "save" /\ flow[page].tx \in Transactions
        /\ flow[page].kind \in {"send", "replace", "dismiss"}
      BY <1>3 DEF Save, Holds, LockHeld, FlowShape, TypeOK, FlowRecords, Kinds
  <2>2. CASE flow[page].kind = "dismiss"
    <3>1. stored' = [pending   |-> stored.pending \ {flow[page].tx},
                     confirmed |-> stored.confirmed \ {flow[page].tx}]
        BY <1>1, <1>3, <2>2 DEF Changed
    <3>2. dismissed' = dismissed \cup {flow[page].tx}
        BY <1>3, <2>2 DEF Save
    <3> QED
        BY <1>1, <1>3, <2>1, <2>2, <3>1, <3>2 DEF Saved, Records
  <2>3. CASE flow[page].kind # "dismiss"
    <3>1. stored' = [stored EXCEPT !.pending = stored.pending \cup {flow[page].tx}]
        BY <1>1, <1>3, <2>1, <2>3 DEF Changed
    <3>2. stored' = [pending |-> stored.pending \cup {flow[page].tx}, confirmed |-> stored.confirmed]
        BY <1>1, <3>1
    <3>3. UNCHANGED dismissed
        BY <2>3 DEF Save
    <3> QED
        BY <1>1, <1>3, <2>1, <2>3, <3>2, <3>3 DEF Saved, Records
  <2> QED
      BY <2>2, <2>3
<1> QED
    BY <1>2, <1>3 DEF Tasks

(* An update that is saved keeps the invariant: the page, which waited for  *)
(* it, knows what it saved.                                                 *)
LEMMA SaveInv ==
    ASSUME Inv, NEW page \in Pages, NEW task \in Tasks, Save(page, task)
    PROVE  Inv'
<1> USE RecoveryAssumption DEF Inv
<1>1. /\ stored' \in Records /\ Kept \subseteq Kept' /\ Saved(stored') \subseteq Kept'
      /\ dismissed' \subseteq Transactions
      /\ task = "flow" => flow[page].tx \in Kept'
    BY SaveStores DEF Kept, TypeOK
<1>2. /\ known' = [known EXCEPT ![page] = stored']
      /\ holder' = None
      /\ UNCHANGED <<submitted, chain>>
    BY SaveStores DEF Save, node
<1>3. task = "flow" => flow[page].at = "save" /\ flow[page].tx \in Transactions
    BY DEF Save, Holds, LockHeld, FlowShape
<1>4. seenBy' \subseteq Transactions \X Transactions
  <2>1. flow[page].acknowledged \subseteq Transactions
      BY DEF TypeOK, FlowRecords
  <2> QED
      BY <1>3, <2>1 DEF Save, TypeOK
<1>5. CASE task = "pass"
  <2>1. pass' = [pass EXCEPT ![page] = IdlePass] /\ flow' = flow
      BY <1>5 DEF Save, Resume
  <2>2. IdlePass \in Passes
      BY DEF IdlePass, Passes
  <2>3. TypeOK'
      BY <1>1, <1>2, <1>4, <2>1, <2>2 DEF TypeOK
  <2>4. FlowShape' /\ FlowsKnow' /\ PagesKnow' /\ LockHeld' /\ SubmittedIsSaved'
      BY <1>1, <1>2, <2>1 DEF FlowShape, FlowsKnow, PagesKnow, LockHeld, SubmittedIsSaved, Kept, TypeOK
  <2> QED
      BY <2>3, <2>4
<1>6. CASE task = "flow"
  <2>1. PICK next \in {Idle, [flow[page] EXCEPT !.at = "submit"]} :
            flow' = [flow EXCEPT ![page] = next]
    <3>1. CASE flow[page].kind = "dismiss"
        BY <1>6, <3>1 DEF Save, Resume
    <3>2. CASE flow[page].kind # "dismiss"
        BY <1>6, <3>2 DEF Save, Resume
    <3> QED
        BY <3>1, <3>2
  <2>2. pass' = pass
      BY <1>6 DEF Save, Resume
  <2>3. /\ next \in FlowRecords
        /\ next.at # "idle" => next.tx \in Transactions
        /\ next.at = "save" => next.kind # "none"
        /\ next.at = "submit" \/ next.kind = "dismiss" => next.tx \in Kept'
    <3>1. CASE next = Idle
        BY <3>1 DEF Idle, FlowRecords, Kinds, Stages
    <3>2. CASE next = [flow[page] EXCEPT !.at = "submit"]
        BY <1>1, <1>3, <1>6, <3>2 DEF TypeOK, FlowRecords, Stages
    <3> QED
        BY <3>1, <3>2
  <2>4. /\ flow'[page] = next
        /\ \A other \in Pages \ {page} : flow'[other] = flow[other]
      BY <2>1 DEF TypeOK
  <2>5. TypeOK'
      BY <1>1, <1>2, <1>4, <2>1, <2>2, <2>3 DEF TypeOK
  <2>6. FlowShape' /\ FlowsKnow'
      BY <1>1, <2>3, <2>4 DEF FlowShape, FlowsKnow
  <2>7. PagesKnow' /\ LockHeld' /\ SubmittedIsSaved'
      BY <1>1, <1>2 DEF PagesKnow, LockHeld, SubmittedIsSaved, Kept, TypeOK
  <2> QED
      BY <2>5, <2>6, <2>7
<1> QED
    BY <1>5, <1>6 DEF Tasks

(* Every step keeps the inductive invariant.                                *)
LEMMA StepInv == Inv /\ [Next]_vars => Inv'
<1> SUFFICES ASSUME Inv, [Next]_vars PROVE Inv'
    OBVIOUS
<1> USE RecoveryAssumption DEF Inv
<1>1. CASE UNCHANGED vars
    BY <1>1 DEF vars, TypeOK, FlowShape, FlowsKnow, PagesKnow, LockHeld, SubmittedIsSaved, Kept
<1>2. CASE NodeStep
  <2>1. PICK block \in Transactions \cup {Empty} : Mine(block)
      BY <1>2 DEF NodeStep
  <2>2. /\ UNCHANGED <<stored, known, flow, pass, holder, seenBy, dismissed, submitted>>
        /\ chain' = Append(chain, block) /\ Len(chain) < MaxHeight
      BY <2>1 DEF Mine, wallet
  <2>3. chain' \in Seq(Transactions \cup {Empty}) /\ Len(chain') <= MaxHeight
      BY <2>2 DEF TypeOK
  <2>4. TypeOK'
      BY <2>2, <2>3 DEF TypeOK
  <2>5. FlowShape' /\ FlowsKnow' /\ PagesKnow' /\ LockHeld' /\ SubmittedIsSaved'
      BY <2>2 DEF FlowShape, FlowsKnow, PagesKnow, LockHeld, SubmittedIsSaved, Kept
  <2> QED
      BY <2>4, <2>5
<1>3. ASSUME NEW page \in Pages, NEW payment \in Payments, NEW fee \in 0 .. MaxFee,
             Review(page, payment, fee)
      PROVE Inv'
  <2> DEFINE tx == [payment |-> payment, nonce |-> Nonce, fee |-> fee]
  <2>0. PICK next : next = [Idle EXCEPT !.kind = "send", !.at = "review", !.tx = tx]
      OBVIOUS
  <2>1. tx \in Transactions
      BY <1>3, NonceIsNat DEF Review, Transactions
  <2>2. next \in FlowRecords /\ next.at = "review" /\ next.tx = tx /\ next.kind = "send"
      BY <2>0, <2>1, IdleIsFlow, StageNames DEF FlowRecords
  <2>3. flow' = [flow EXCEPT ![page] = next]
      BY <1>3, <2>0 DEF Review
  <2>4. flow[page].at # "save"
      BY <1>3, IdleIsFlow DEF Review
  <2>5. next.at \in {"idle", "review", "save"}
      BY <2>2
  <2> HIDE DEF tx
  <2> QED
      BY <1>3, <2>1, <2>2, <2>3, <2>4, <2>5, MoveInv DEF Review, node
<1>4. ASSUME NEW page \in Pages, Confirm(page) PROVE Inv'
  <2>1. PICK next \in FlowRecords :
            /\ flow' = [flow EXCEPT ![page] = next]
            /\ next.at \in {"review", "save"} /\ next.tx = flow[page].tx /\ next.kind = "send"
    <3>1. flow[page] \in FlowRecords /\ stored.pending \subseteq Transactions
        BY DEF TypeOK, Records
    <3>2. PICK stage \in {"review", "save"}, shown \in SUBSET Transactions :
              flow' = [flow EXCEPT ![page].at = stage, ![page].acknowledged = shown]
      <4>1. flow[page].acknowledged \in SUBSET Transactions /\ stored.pending \in SUBSET Transactions
          BY <3>1 DEF FlowRecords
      <4> QED
          BY <1>4, <4>1, Zenon DEF Confirm
    <3> DEFINE next == [flow[page] EXCEPT !.at = stage, !.acknowledged = shown]
    <3>3. next \in FlowRecords /\ next.at = stage /\ next.tx = flow[page].tx /\ next.kind = "send"
        BY <1>4, <3>1 DEF Confirm, FlowRecords, Stages
    <3>4. flow' = [flow EXCEPT ![page] = next]
        BY <3>2
    <3> QED
        BY <3>3, <3>4
  <2>2. flow[page].at = "review" /\ UNCHANGED <<stored, known, pass, holder, submitted, chain, seenBy, dismissed>>
      BY <1>4 DEF Confirm, node
  <2>3. flow[page].tx \in Transactions
      BY <2>2 DEF FlowShape
  <2> QED
      BY <2>1, <2>2, <2>3, MoveInv
<1>5. ASSUME NEW page \in Pages, Submit(page) \/ Leave(page) PROVE Inv'
  <2>1. /\ flow' = [flow EXCEPT ![page] = Idle] /\ flow[page].at # "save"
        /\ UNCHANGED <<stored, known, pass, holder, chain, seenBy, dismissed>>
      BY <1>5 DEF Submit, Leave, node
  <2>2. submitted' \subseteq submitted \cup Kept
      BY <1>5 DEF Submit, Leave, node, FlowsKnow
  <2>3. Idle \in FlowRecords /\ Idle.at = "idle" /\ Idle.kind = "none"
      BY DEF Idle, FlowRecords, Kinds, Stages
  <2> QED
      BY <2>1, <2>2, <2>3, MoveInv
<1>6. ASSUME NEW page \in Pages, NEW original \in Transactions, NEW fee \in 0 .. MaxFee,
             Replace(page, original, fee)
      PROVE Inv'
  <2> DEFINE tx == [original EXCEPT !.fee = fee]
  <2>0. PICK next : next = [Idle EXCEPT !.kind = "replace", !.at = "save", !.original = original, !.tx = tx]
      OBVIOUS
  <2>1. tx \in Transactions
      BY DEF Transactions
  <2>2. next \in FlowRecords /\ next.at = "save" /\ next.tx = tx /\ next.kind = "replace"
      BY <2>0, <2>1, IdleIsFlow, StageNames DEF FlowRecords
  <2>3. flow' = [flow EXCEPT ![page] = next]
      BY <1>6, <2>0 DEF Replace
  <2>4. flow[page].at # "save"
      BY <1>6, IdleIsFlow DEF Replace
  <2>5. next.at \in {"idle", "review", "save"}
      BY <2>2
  <2> HIDE DEF tx
  <2> QED
      BY <1>6, <2>1, <2>2, <2>3, <2>4, <2>5, MoveInv DEF Replace, node
<1>7. ASSUME NEW page \in Pages, NEW tx \in Transactions, Dismiss(page, tx) PROVE Inv'
  <2>0. PICK next : next = [Idle EXCEPT !.kind = "dismiss", !.at = "save", !.tx = tx]
      OBVIOUS
  <2>1. next \in FlowRecords /\ next.at = "save" /\ next.tx = tx /\ next.kind = "dismiss"
      BY <2>0, IdleIsFlow, StageNames DEF FlowRecords
  <2>2. flow' = [flow EXCEPT ![page] = next]
      BY <1>7, <2>0 DEF Dismiss
  <2>3. flow[page].at # "save" /\ tx \in Kept
      BY <1>7, IdleIsFlow DEF Dismiss, PagesKnow
  <2> QED
      BY <1>7, <2>1, <2>2, <2>3, MoveInv DEF Dismiss, node
<1>8. ASSUME NEW page \in Pages, NEW tx \in Transactions, Resubmit(page, tx) PROVE Inv'
  <2>1. /\ tx \in Kept /\ submitted' = submitted \cup {tx}
        /\ UNCHANGED <<stored, known, flow, pass, holder, seenBy, dismissed, chain>>
      BY <1>8 DEF Resubmit, PagesKnow, wallet
  <2> QED
      BY <2>1 DEF TypeOK, FlowShape, FlowsKnow, PagesKnow, LockHeld, SubmittedIsSaved, Kept
<1>9. ASSUME NEW page \in Pages, Reconcile(page) \/ ReadTip(page) PROVE Inv'
  <2>1. UNCHANGED <<stored, known, flow, holder, submitted, chain, seenBy, dismissed>>
      BY <1>9 DEF Reconcile, ReadTip, node
  <2>2. PICK next \in Passes : pass' = [pass EXCEPT ![page] = next]
    <3>1. CASE Reconcile(page)
      <4> DEFINE found(answered) == UNION {{<<tx, height>> : height \in Heights(tx)} : tx \in answered}
                 next(answered)  == [IdlePass EXCEPT !.at = "tip", !.included = found(answered)]
      <4>1. PICK answered \in SUBSET (known[page].pending \cap Included) :
                pass' = [pass EXCEPT ![page] = next(answered)]
          BY <3>1 DEF Reconcile
      <4>2. answered \subseteq Transactions
          BY DEF TypeOK, Records
      <4>3. \A tx \in answered : Heights(tx) \subseteq 1 .. MaxHeight
          BY DEF Heights, TypeOK
      <4>4. found(answered) \in SUBSET (Transactions \X (1 .. MaxHeight))
          BY <4>2, <4>3
      <4>5. next(answered) \in Passes
          BY <4>4, IdleIsPass DEF Passes
      <4> HIDE DEF next
      <4> QED
          BY <4>1, <4>5
    <3>2. CASE ReadTip(page)
      <4> DEFINE deep == {tx \in Transactions :
                             \E height \in 1 .. MaxHeight :
                                /\ <<tx, height>> \in pass[page].included
                                /\ Len(chain) - height + 1 >= ConfirmationDepth}
                 next == [IdlePass EXCEPT !.at = "save", !.deep = deep]
      <4>1. pass' = [pass EXCEPT ![page] = IF deep = {} THEN IdlePass ELSE next]
          BY <3>2 DEF ReadTip
      <4>2. deep \in SUBSET Transactions
          OBVIOUS
      <4> HIDE DEF deep
      <4>3. next \in Passes
          BY <4>2, IdleIsPass DEF Passes
      <4> HIDE DEF next
      <4> QED
          BY <4>1, <4>3, IdleIsPass
    <3> QED
        BY <1>9, <3>1, <3>2
  <2> QED
      BY <2>1, <2>2 DEF TypeOK, FlowShape, FlowsKnow, PagesKnow, LockHeld, SubmittedIsSaved, Kept
<1>10. ASSUME NEW page \in Pages, NEW task \in Tasks, Load(page, task) PROVE Inv'
  <2>1. /\ UNCHANGED <<stored, known, flow, pass, submitted, chain, seenBy, dismissed>>
        /\ holder' = [page |-> page, task |-> task, loaded |-> stored]
        /\ task = "flow" => flow[page].at = "save"
      BY <1>10 DEF Load, Wants, node
  <2>2. TypeOK'
      BY <2>1 DEF TypeOK
  <2>3. FlowShape' /\ FlowsKnow' /\ PagesKnow' /\ SubmittedIsSaved'
      BY <2>1 DEF FlowShape, FlowsKnow, PagesKnow, SubmittedIsSaved, Kept
  <2>4. LockHeld'
      BY <2>1 DEF LockHeld
  <2> QED
      BY <2>2, <2>3, <2>4
<1>11. ASSUME NEW page \in Pages, NEW task \in Tasks, Save(page, task) PROVE Inv'
    BY <1>11, SaveInv
<1>12. ASSUME NEW page \in Pages, NEW task \in Tasks, SaveFails(page, task) PROVE Inv'
  <2>1. holder' = None /\ UNCHANGED <<stored, known, submitted, chain, seenBy, dismissed>>
      BY <1>12 DEF SaveFails, node
  <2>2. CASE task = "pass"
    <3>1. pass' = [pass EXCEPT ![page] = IdlePass] /\ flow' = flow /\ IdlePass \in Passes
        BY <1>12, <2>2 DEF SaveFails, Resume, IdlePass, Passes
    <3> QED
        BY <2>1, <3>1 DEF TypeOK, FlowShape, FlowsKnow, PagesKnow, LockHeld, SubmittedIsSaved, Kept
  <2>3. CASE task = "flow"
    <3>1. PICK next \in {Idle, [flow[page] EXCEPT !.at = "review"]} :
              /\ flow' = [flow EXCEPT ![page] = next]
              /\ next # Idle => flow[page].kind = "send"
      <4>1. CASE flow[page].kind = "send"
          BY <1>12, <2>3, <4>1 DEF SaveFails, Resume
      <4>2. CASE flow[page].kind # "send"
          BY <1>12, <2>3, <4>2 DEF SaveFails, Resume
      <4> QED
          BY <4>1, <4>2
    <3>2. pass' = pass /\ flow[page].tx \in Transactions
        BY <1>12, <2>3 DEF SaveFails, Resume, Holds, LockHeld, FlowShape
    <3>3. /\ next \in FlowRecords /\ next.at \in {"idle", "review"}
          /\ next.at # "idle" => next.tx \in Transactions
          /\ next.kind # "dismiss"
      <4>1. CASE next = Idle
          BY <4>1 DEF Idle, FlowRecords, Kinds, Stages
      <4>2. CASE next # Idle
          BY <3>1, <3>2, <4>2 DEF TypeOK, FlowRecords, Stages
      <4> QED
          BY <4>1, <4>2
    <3>4. /\ flow'[page] = next
          /\ \A other \in Pages \ {page} : flow'[other] = flow[other]
        BY <3>1 DEF TypeOK
    <3>5. TypeOK'
        BY <2>1, <3>1, <3>2, <3>3 DEF TypeOK
    <3>6. FlowShape' /\ FlowsKnow'
        BY <2>1, <3>3, <3>4 DEF FlowShape, FlowsKnow, Kept
    <3>7. PagesKnow' /\ LockHeld' /\ SubmittedIsSaved'
        BY <2>1 DEF PagesKnow, LockHeld, SubmittedIsSaved, Kept
    <3> QED
        BY <3>5, <3>6, <3>7
  <2> QED
      BY <2>2, <2>3 DEF Tasks
<1>13. ASSUME NEW page \in Pages, Refresh(page) PROVE Inv'
  <2>1. /\ UNCHANGED <<stored, flow, pass, holder, submitted, chain, seenBy, dismissed>>
        /\ known' = [known EXCEPT ![page] = stored]
      BY <1>13 DEF Refresh, node
  <2> QED
      BY <2>1 DEF TypeOK, FlowShape, FlowsKnow, PagesKnow, LockHeld, SubmittedIsSaved, Kept
<1>14. ASSUME NEW page \in Pages, Reopen(page) PROVE Inv'
  <2>1. /\ UNCHANGED <<stored, submitted, chain, seenBy, dismissed>>
        /\ known' = [known EXCEPT ![page] = stored]
        /\ flow' = [flow EXCEPT ![page] = Idle]
        /\ pass' = [pass EXCEPT ![page] = IdlePass]
        /\ holder' \in {None, holder} /\ (holder' # None => holder.page # page)
      BY <1>14 DEF Reopen, node
  <2>2. Idle \in FlowRecords /\ Idle.at = "idle" /\ Idle.kind = "none" /\ IdlePass \in Passes
      BY DEF Idle, IdlePass, FlowRecords, Passes, Kinds, Stages
  <2>3. /\ flow'[page] = Idle
        /\ \A other \in Pages \ {page} : flow'[other] = flow[other]
      BY <2>1 DEF TypeOK
  <2>4. TypeOK'
      BY <2>1, <2>2 DEF TypeOK
  <2>5. FlowShape' /\ FlowsKnow' /\ PagesKnow' /\ SubmittedIsSaved'
      BY <2>1, <2>2, <2>3 DEF FlowShape, FlowsKnow, PagesKnow, SubmittedIsSaved, Kept, TypeOK
  <2>6. LockHeld'
      BY <2>1, <2>3 DEF LockHeld, TypeOK
  <2> QED
      BY <2>4, <2>5, <2>6
<1> QED
    BY <1>1, <1>2, <1>3, <1>4, <1>5, <1>6, <1>7, <1>8, <1>9, <1>10, <1>11, <1>12, <1>13, <1>14
       DEF Next, PageStep

(* The inductive invariant holds in every reachable state.                  *)
LEMMA InvHolds == Spec => []Inv
BY InitInv, StepInv, PTL DEF Spec

(* A flow that was waiting for its update submits only because the update   *)
(* was saved.                                                               *)
LEMMA SubmitFollowsSave ==
    ASSUME Inv, [Next]_vars, NEW page \in Pages,
           flow[page].at = "save", flow'[page].at = "submit"
    PROVE  Save(page, "flow")
<1> USE DEF Inv
<1>1. ~UNCHANGED flow
    OBVIOUS
<1>2. PICK actor \in Pages : PageStep(actor)
    BY <1>1 DEF Next, NodeStep, Mine, wallet, vars
<1>3. ~Resubmit(actor, flow[page].tx) /\ \A tx : ~Resubmit(actor, tx)
    BY <1>1 DEF Resubmit, wallet
<1>4. ~Reconcile(actor) /\ ~ReadTip(actor) /\ ~Refresh(actor) /\ \A task : ~Load(actor, task)
    BY <1>1 DEF Reconcile, ReadTip, Refresh, Load
<1>5. \A payment, fee, tx : ~Review(actor, payment, fee) /\ ~Replace(actor, tx, fee) /\ ~Dismiss(actor, tx)
  <2>1. ASSUME flow[actor] = Idle, NEW next, flow' = [flow EXCEPT ![actor] = next] PROVE FALSE
      BY <2>1, IdleIsFlow DEF TypeOK
  <2>2. ASSUME NEW payment, NEW fee, Review(actor, payment, fee) PROVE FALSE
      BY <2>1, <2>2, Zenon DEF Review
  <2>3. ASSUME NEW tx, NEW fee, Replace(actor, tx, fee) PROVE FALSE
      BY <2>1, <2>3, Zenon DEF Replace
  <2>4. ASSUME NEW tx, Dismiss(actor, tx) PROVE FALSE
      BY <2>1, <2>4, Zenon DEF Dismiss
  <2> QED
      BY <2>2, <2>3, <2>4
<1>6. ~Confirm(actor) /\ ~Submit(actor) /\ ~Leave(actor) /\ ~Reopen(actor)
  <2>1. ~Confirm(actor)
      BY DEF Confirm, TypeOK
  <2>2. ~Submit(actor) /\ ~Leave(actor) /\ ~Reopen(actor)
      BY IdleIsFlow DEF Submit, Leave, Reopen, TypeOK
  <2> QED
      BY <2>1, <2>2
<1>7. \A task \in Tasks : ~SaveFails(actor, task)
  <2> SUFFICES ASSUME NEW task \in Tasks, SaveFails(actor, task) PROVE FALSE
      OBVIOUS
  <2>1. task = "flow"
      BY <1>1 DEF SaveFails, Resume, Tasks
  <2>2. PICK next \in {Idle, [flow[actor] EXCEPT !.at = "review"]} :
            flow' = [flow EXCEPT ![actor] = next]
    <3>1. CASE flow[actor].kind = "send"
        BY <2>1, <3>1 DEF SaveFails, Resume
    <3>2. CASE flow[actor].kind # "send"
        BY <2>1, <3>2 DEF SaveFails, Resume
    <3> QED
        BY <3>1, <3>2
  <2>3. next.at \in {"idle", "review"}
      BY IdleIsFlow DEF TypeOK, FlowRecords
  <2> QED
      BY <2>2, <2>3 DEF TypeOK
<1>8. PICK task \in Tasks : Save(actor, task)
    BY <1>2, <1>3, <1>4, <1>5, <1>6, <1>7 DEF PageStep
<1>9. task = "flow"
    BY <1>1, <1>8 DEF Save, Resume, Tasks
<1>10. actor = page
  <2>1. \E next : flow' = [flow EXCEPT ![actor] = next]
      BY <1>8, <1>9 DEF Save, Resume
  <2> QED
      BY <2>1 DEF TypeOK
<1> QED
    BY <1>8, <1>9, <1>10

(* Every step is one of an Outbox: an update keeps a transaction, forgets   *)
(* one or only archives, and what is submitted is kept or forgotten.        *)
LEMMA StepOutbox == Inv /\ [Next]_vars => [Outbox!Next]_(Outbox!vars)
<1> SUFFICES ASSUME Inv, [Next]_vars PROVE [Outbox!Next]_(Outbox!vars)
    OBVIOUS
<1> USE DEF Outbox!vars
<1>1. ASSUME UNCHANGED <<stored, dismissed>>, submitted' = submitted
      PROVE  [Outbox!Next]_(Outbox!vars)
    BY <1>1
<1>2. ASSUME NEW tx \in Transactions, tx \in Kept,
             UNCHANGED <<stored, dismissed>>, submitted' \in {submitted, submitted \cup {tx}}
      PROVE  [Outbox!Next]_(Outbox!vars)
    BY <1>2 DEF Outbox!Next, Outbox!Send, Kept
<1>3. CASE UNCHANGED vars \/ NodeStep
    BY <1>1, <1>3 DEF vars, NodeStep, Mine, wallet
<1>4. ASSUME NEW page \in Pages, Submit(page) PROVE [Outbox!Next]_(Outbox!vars)
  <2>1. flow[page].tx \in Kept /\ flow[page].tx \in Transactions
      BY <1>4 DEF Submit, Inv, FlowsKnow, FlowShape
  <2> QED
      BY <1>2, <1>4, <2>1 DEF Submit
<1>5. ASSUME NEW page \in Pages, NEW tx \in Transactions, Resubmit(page, tx)
      PROVE  [Outbox!Next]_(Outbox!vars)
    BY <1>2, <1>5 DEF Resubmit, wallet, Inv, PagesKnow
<1>6. ASSUME NEW page \in Pages, NEW task \in Tasks, Save(page, task)
      PROVE  [Outbox!Next]_(Outbox!vars)
  <2>1. UNCHANGED submitted
      BY <1>6 DEF Save, node
  <2>2. CASE UNCHANGED dismissed /\ Saved(stored') = Saved(stored)
      BY <2>1, <2>2
  <2>3. CASE /\ UNCHANGED dismissed /\ flow[page].tx \in Transactions
             /\ Saved(stored') = Saved(stored) \cup {flow[page].tx}
      BY <2>1, <2>3 DEF Outbox!Next, Outbox!Keep
  <2>4. CASE /\ dismissed' = dismissed \cup {flow[page].tx}
             /\ Saved(stored') = Saved(stored) \ {flow[page].tx}
             /\ flow[page].kind = "dismiss" /\ flow[page].tx \in Transactions
    <3>1. flow[page].tx \in Saved(stored) \cup dismissed
        BY <2>4 DEF Inv, FlowsKnow, Kept
    <3>2. CASE flow[page].tx \in Saved(stored)
        BY <2>1, <2>4, <3>2 DEF Outbox!Next, Outbox!Forget
    <3>3. CASE flow[page].tx \notin Saved(stored)
        BY <2>1, <2>4, <3>1, <3>3
    <3> QED
        BY <3>2, <3>3
  <2> QED
      BY <1>6, <2>2, <2>3, <2>4, SaveStores
<1>7. ASSUME NEW page \in Pages, PageStep(page),
             ~Submit(page), \A tx \in Transactions : ~Resubmit(page, tx),
             \A task \in Tasks : ~Save(page, task)
      PROVE  UNCHANGED <<stored, dismissed>> /\ submitted' = submitted
    BY <1>7 DEF PageStep, Review, Confirm, Leave, Dismiss, Replace, Reconcile, ReadTip, Load,
                SaveFails, Refresh, Reopen, node
<1> QED
    BY <1>1, <1>3, <1>4, <1>5, <1>6, <1>7 DEF Next

(* The types are right for any number of pages, nonces, fees and blocks.    *)
THEOREM TypeCorrect == Spec => []TypeOK
<1>1. Inv => TypeOK
    BY DEF Inv
<1> QED
    BY <1>1, InvHolds, PTL

(* Whatever reached the node is saved or was dismissed by its user, however *)
(* many pages sign, save, fail and close: app.ts submits only after update  *)
(* has saved, and update loads again under the settings lock.               *)
THEOREM AlwaysSaved == Spec => []SubmittedIsSaved
<1>1. Inv => SubmittedIsSaved
    BY DEF Inv
<1> QED
    BY <1>1, InvHolds, PTL

(* A replacement that is saved outbids every attempt saved at that moment:  *)
(* app.ts replacementScreen compares inside the update, on what it loaded.  *)
THEOREM AlwaysOutbids == Spec => ReplacementOutbids
<1> DEFINE Step == \A page \in Pages :
          /\ flow[page].kind = "replace"
          /\ flow[page].at = "save" /\ flow'[page].at = "submit"
          => \A tx \in Saved(stored) :
                tx.nonce = flow[page].tx.nonce => tx.fee < flow[page].tx.fee
<1>1. ASSUME Inv, [Next]_vars PROVE Step
  <2> SUFFICES ASSUME NEW page \in Pages, flow[page].kind = "replace",
                      flow[page].at = "save", flow'[page].at = "submit"
               PROVE  \A tx \in Saved(stored) :
                          tx.nonce = flow[page].tx.nonce => tx.fee < flow[page].tx.fee
      OBVIOUS
  <2>1. Save(page, "flow")
      BY <1>1, SubmitFollowsSave
  <2>2. Outbids(page) /\ holder.loaded = stored
      BY <1>1, <2>1 DEF Save, Allowed, Holds, Inv, LockHeld
  <2> QED
      BY <2>2 DEF Outbids
<1> QED
    BY <1>1, InvHolds, PTL DEF Spec, ReplacementOutbids

(* Sending transfers implements the abstract Outbox, for any number of      *)
(* pages, payments and fees: every update of app.ts keeps what other pages  *)
(* saved, archiving moves, and only dismissSubmission removes.              *)
THEOREM RecoveryIsOutbox == Spec => ImplementsOutbox
<1>1. Init => Outbox!Init
    BY DEF Init, Outbox!Init, NoRecords, Saved
<1> QED
    BY <1>1, StepOutbox, InvHolds, PTL DEF Spec, ImplementsOutbox, Outbox!Spec


----------------------------------------------------------------------------
(* What the chain shows                                                     *)

Mined == {i \in DOMAIN chain : chain[i] # Empty}

(* The chain holds what was sent to it, in the order of its nonces.         *)
ChainOrdered ==
    /\ \A i \in Mined : chain[i] \in submitted /\ chain[i].nonce < Nonce
    /\ \A i, j \in Mined : i < j => chain[i].nonce < chain[j].nonce

Settled == stored.confirmed \cup dismissed

(* The send that first made a payment acknowledged all that was mined       *)
(* before it.                                                               *)
Warned(tx) ==
    \E first \in Transactions :
        /\ first.payment = tx.payment /\ first.nonce = tx.nonce
        /\ \A i \in Mined : chain[i].nonce < tx.nonce =>
              <<first, chain[i]>> \in seenBy \/ chain[i] \in Settled

KeptWereWarned == \A tx \in Kept : tx.nonce <= Nonce /\ Warned(tx)

(* A flow about to save has shown its user what was mined before, or        *)
(* repeats a payment whose send did.                                        *)
Shown(f) ==
    /\ f.kind = "send" /\ f.at # "idle" => f.tx.nonce <= Nonce
    /\ f.kind = "send" /\ f.at = "save" =>
          \A i \in Mined : chain[i].nonce < f.tx.nonce => chain[i] \in f.acknowledged \cup Settled
    /\ f.kind = "replace" /\ f.at = "save" => f.tx.nonce <= Nonce /\ Warned(f.tx)

FlowsWereShown == \A page \in Pages : Shown(flow[page])

Deep(tx) == \E height \in Heights(tx) : Len(chain) - height + 1 >= ConfirmationDepth

(* What a pass was told stays true.                                         *)
Told(p) ==
    /\ \A place \in p.included : place[2] \in DOMAIN chain /\ chain[place[2]] = place[1]
    /\ \A tx \in p.deep : Deep(tx)

PassesWereTold == \A page \in Pages : Told(pass[page])

ChainInv ==
    /\ ChainOrdered
    /\ KeptWereWarned
    /\ FlowsWereShown
    /\ PassesWereTold
    /\ ArchivedIsConfirmed

(* Mining a block leaves the blocks before it, and counts a transaction.    *)
LEMMA MineExtends ==
    ASSUME TypeOK, NEW block \in Transactions \cup {Empty}, Mine(block)
    PROVE  /\ Len(chain) \in Nat /\ Len(chain') = Len(chain) + 1
           /\ DOMAIN chain = 1 .. Len(chain) /\ DOMAIN chain' = 1 .. Len(chain) + 1
           /\ \A i \in 1 .. Len(chain) : chain'[i] = chain[i]
           /\ chain'[Len(chain) + 1] = block
           /\ Mined' = IF block = Empty THEN Mined ELSE Mined \cup {Len(chain) + 1}
           /\ Nonce' = IF block = Empty THEN Nonce ELSE Nonce + 1
<1>1. chain \in Seq(Transactions \cup {Empty}) /\ chain' = Append(chain, block)
    BY DEF Mine, TypeOK
<1>2. /\ Len(chain) \in Nat /\ Len(chain') = Len(chain) + 1
      /\ DOMAIN chain = 1 .. Len(chain) /\ DOMAIN chain' = 1 .. Len(chain) + 1
      /\ \A i \in 1 .. Len(chain) : chain'[i] = chain[i]
      /\ chain'[Len(chain) + 1] = block
    BY <1>1
<1>3. Mined' = IF block = Empty THEN Mined ELSE Mined \cup {Len(chain) + 1}
    BY <1>2 DEF Mined
<1>4. IsFiniteSet(Mined) /\ Len(chain) + 1 \notin Mined
  <2>1. Mined \subseteq 1 .. Len(chain)
      BY <1>2 DEF Mined
  <2>2. IsFiniteSet(1 .. Len(chain))
      BY <1>2, FS_Interval
  <2>3. IsFiniteSet(Mined)
      BY <2>1, <2>2, FS_Subset
  <2>4. Len(chain) + 1 \notin Mined
      BY <1>2, <2>1
  <2> QED
      BY <2>3, <2>4
<1>5. Cardinality(Mined \cup {Len(chain) + 1}) = Cardinality(Mined) + 1
    BY <1>4, FS_AddElement
<1>6. Nonce = Cardinality(Mined) /\ Nonce' = Cardinality(Mined')
    BY DEF Nonce, Mined
<1> QED
    BY <1>2, <1>3, <1>5, <1>6

(* Every step only adds to the chain, and to what was acknowledged and      *)
(* settled: a transaction newly mined has the nonce that was next.          *)
LEMMA HistoryGrows ==
    ASSUME Inv, Inv', ChainInv, [Next]_vars
    PROVE  /\ Nonce \in Nat /\ Nonce' \in Nat /\ Nonce <= Nonce'
           /\ ChainOrdered'
           /\ Settled \subseteq Settled' /\ seenBy \subseteq seenBy'
           /\ \A i \in Mined' : (i \in Mined /\ chain'[i] = chain[i]) \/ chain'[i].nonce = Nonce
           /\ \A i \in DOMAIN chain : i \in DOMAIN chain' /\ chain'[i] = chain[i]
           /\ \A tx : Deep(tx) => Deep(tx)'
<1> USE RecoveryAssumption
<1>1. /\ Nonce \in Nat /\ Nonce' \in Nat
      /\ TypeOK /\ TypeOK'
  <2>1. TypeOK /\ TypeOK'
      BY DEF Inv
  <2>2. DOMAIN chain' = 1 .. Len(chain') /\ Len(chain') \in Nat
      BY <2>1 DEF TypeOK
  <2>3. IsFiniteSet(1 .. Len(chain'))
      BY <2>2, FS_Interval
  <2>4. Mined' \subseteq 1 .. Len(chain')
      BY <2>2 DEF Mined
  <2>5. IsFiniteSet(Mined')
      BY <2>3, <2>4, FS_Subset
  <2>6. Nonce' \in Nat
      BY <2>5, FS_CardinalityType DEF Nonce, Mined
  <2> QED
      BY <2>1, <2>6, NonceIsNat
<1>2. CASE chain' = chain
  <2>1. Nonce' = Nonce /\ Mined' = Mined
      BY <1>2 DEF Nonce, Mined
  <2>2. \A tx : Deep(tx) => Deep(tx)'
      BY <1>2 DEF Deep, Heights
  <2>3. submitted \subseteq submitted'
    <3>1. CASE UNCHANGED submitted
        BY <3>1
    <3>2. ASSUME NEW page \in Pages, Submit(page) PROVE submitted \subseteq submitted'
        BY <3>2 DEF Submit
    <3>3. ASSUME NEW page \in Pages, NEW tx \in Transactions, Resubmit(page, tx)
          PROVE  submitted \subseteq submitted'
        BY <3>3 DEF Resubmit
    <3> QED
        BY <3>1, <3>2, <3>3
        DEF Next, NodeStep, Mine, PageStep, Review, Confirm, Leave, Dismiss, Replace, Reconcile,
            ReadTip, Load, Save, SaveFails, Refresh, Reopen, node, vars
  <2>4. ChainOrdered'
      BY <1>2, <2>1, <2>3 DEF ChainInv, ChainOrdered
  <2>5. Settled \subseteq Settled' /\ seenBy \subseteq seenBy'
    <3>1. CASE UNCHANGED <<stored, dismissed, seenBy>>
        BY <3>1 DEF Settled
    <3>2. ASSUME NEW page \in Pages, NEW task \in Tasks, Save(page, task)
          PROVE  Settled \subseteq Settled' /\ seenBy \subseteq seenBy'
      <4>1. seenBy \subseteq seenBy'
          BY <3>2 DEF Save
      <4>2. holder.loaded = stored /\ stored' = Changed(page, task)
          BY <3>2 DEF Save, Holds, Inv, LockHeld
      <4>3. CASE task = "pass"
        <5>1. stored' = [pending   |-> stored.pending \ pass[page].deep,
                         confirmed |-> stored.confirmed \cup (stored.pending \cap pass[page].deep)]
            BY <4>2, <4>3 DEF Changed
        <5> QED
            BY <3>2, <4>1, <4>3, <5>1 DEF Save, Settled
      <4>4. CASE task = "flow" /\ flow[page].kind = "dismiss"
        <5>1. stored' = [pending   |-> stored.pending \ {flow[page].tx},
                         confirmed |-> stored.confirmed \ {flow[page].tx}]
            BY <4>2, <4>4 DEF Changed
        <5>2. dismissed' = dismissed \cup {flow[page].tx}
            BY <3>2, <4>4 DEF Save
        <5> QED
            BY <4>1, <5>1, <5>2 DEF Settled
      <4>5. CASE task = "flow" /\ flow[page].kind # "dismiss"
        <5>1. flow[page].kind \in {"send", "replace"}
            BY <3>2, <4>5, <1>1 DEF Save, Holds, Inv, LockHeld, FlowShape, TypeOK, FlowRecords, Kinds
        <5>2. stored' = [stored EXCEPT !.pending = stored.pending \cup {flow[page].tx}]
            BY <4>2, <4>5, <5>1 DEF Changed
        <5>3. stored'.confirmed = stored.confirmed
            BY <1>1, <5>2 DEF TypeOK, Records
        <5>4. UNCHANGED dismissed
            BY <3>2, <4>5 DEF Save
        <5> QED
            BY <4>1, <5>3, <5>4 DEF Settled
      <4> QED
          BY <4>3, <4>4, <4>5 DEF Tasks
    <3> QED
        BY <3>1, <3>2
        DEF Next, NodeStep, Mine, PageStep, Review, Confirm, Submit, Leave, Dismiss, Resubmit,
            Replace, Reconcile, ReadTip, Load, SaveFails, Refresh, Reopen, wallet, vars
  <2> QED
      BY <1>1, <1>2, <2>1, <2>2, <2>4, <2>5
<1>3. ASSUME NEW block \in Transactions \cup {Empty}, Mine(block)
      PROVE  /\ Nonce <= Nonce'
             /\ ChainOrdered'
             /\ Settled \subseteq Settled' /\ seenBy \subseteq seenBy'
             /\ \A i \in Mined' : (i \in Mined /\ chain'[i] = chain[i]) \/ chain'[i].nonce = Nonce
             /\ \A i \in DOMAIN chain : i \in DOMAIN chain' /\ chain'[i] = chain[i]
             /\ \A tx : Deep(tx) => Deep(tx)'
  <2>1. /\ Len(chain) \in Nat /\ Len(chain') = Len(chain) + 1
        /\ DOMAIN chain = 1 .. Len(chain) /\ DOMAIN chain' = 1 .. Len(chain) + 1
        /\ \A i \in 1 .. Len(chain) : chain'[i] = chain[i]
        /\ chain'[Len(chain) + 1] = block
        /\ Mined' = IF block = Empty THEN Mined ELSE Mined \cup {Len(chain) + 1}
        /\ Nonce' = IF block = Empty THEN Nonce ELSE Nonce + 1
      BY <1>1, <1>3, MineExtends
  <2>2. UNCHANGED <<stored, dismissed, seenBy, submitted>>
      BY <1>3 DEF Mine, wallet
  <2>3. block # Empty => block \in submitted /\ block.nonce = Nonce /\ block \in Transactions
      BY <1>3 DEF Mine
  <2>4. Mined \subseteq 1 .. Len(chain) /\ \A i \in Mined : chain[i] \in Transactions
    <3>1. \A i \in DOMAIN chain : chain[i] \in Transactions \cup {Empty}
        BY <1>1 DEF TypeOK
    <3> QED
        BY <2>1, <3>1 DEF Mined
  <2>5. \A i \in Mined' : \/ i \in Mined /\ chain'[i] = chain[i]
                          \/ i = Len(chain) + 1 /\ chain'[i] = block /\ block # Empty
      BY <2>1, <2>4
  <2>6. ChainOrdered'
    <3>1. ASSUME NEW i \in Mined' PROVE chain'[i] \in submitted' /\ chain'[i].nonce < Nonce'
      <4>1. CASE i \in Mined /\ chain'[i] = chain[i]
        <5>1. chain[i] \in submitted /\ chain[i].nonce < Nonce /\ chain[i].nonce \in Nat
            BY <2>4, <4>1 DEF ChainInv, ChainOrdered, Transactions
        <5> QED
            BY <1>1, <2>1, <2>2, <4>1, <5>1
      <4>2. CASE chain'[i] = block /\ block # Empty
          BY <1>1, <2>1, <2>2, <2>3, <4>2
      <4> QED
          BY <2>5, <4>1, <4>2
    <3>2. ASSUME NEW i \in Mined', NEW j \in Mined', i < j PROVE chain'[i].nonce < chain'[j].nonce
      <4>1. i \in Mined /\ chain'[i] = chain[i] /\ chain[i].nonce < Nonce
          BY <2>1, <2>4, <2>5, <3>2 DEF ChainInv, ChainOrdered
      <4>2. CASE j \in Mined /\ chain'[j] = chain[j]
          BY <3>2, <4>1, <4>2 DEF ChainInv, ChainOrdered
      <4>3. CASE chain'[j] = block /\ block # Empty
          BY <2>3, <4>1, <4>3
      <4> QED
          BY <2>5, <4>2, <4>3
    <3> QED
        BY <3>1, <3>2 DEF ChainOrdered
  <2>7. ASSUME NEW tx, Deep(tx) PROVE Deep(tx)'
    <3>1. PICK height \in DOMAIN chain :
              chain[height] = tx /\ Len(chain) - height + 1 >= ConfirmationDepth
        BY <2>7 DEF Deep, Heights
    <3>2. height \in DOMAIN chain' /\ chain'[height] = tx
        BY <2>1, <3>1
    <3>3. Len(chain') - height + 1 >= ConfirmationDepth
        BY <2>1, <3>1
    <3> QED
        BY <3>2, <3>3 DEF Deep, Heights
  <2>8. \A i \in Mined' : (i \in Mined /\ chain'[i] = chain[i]) \/ chain'[i].nonce = Nonce
      BY <2>3, <2>5
  <2> QED
      BY <1>1, <2>1, <2>2, <2>6, <2>7, <2>8 DEF Settled
<1>4. chain' = chain \/ \E block \in Transactions \cup {Empty} : Mine(block)
    BY DEF Next, NodeStep, PageStep, Review, Confirm, Submit, Leave, Dismiss, Resubmit,
       Replace, Reconcile, ReadTip, Load, Save, SaveFails, Refresh, Reopen, node, vars
<1> QED
    BY <1>1, <1>2, <1>3, <1>4

(* Who was warned stays so: what is mined later has no earlier nonce.       *)
LEMMA StaysWarned ==
    ASSUME Inv, Inv', ChainInv, [Next]_vars,
           NEW tx \in Transactions, tx.nonce <= Nonce, Warned(tx)
    PROVE  tx.nonce <= Nonce' /\ Warned(tx)'
<1>1. /\ Nonce \in Nat /\ Nonce' \in Nat /\ Nonce <= Nonce' /\ tx.nonce \in Nat
      /\ Settled \subseteq Settled' /\ seenBy \subseteq seenBy'
      /\ \A i \in Mined' : (i \in Mined /\ chain'[i] = chain[i]) \/ chain'[i].nonce = Nonce
    BY HistoryGrows, RecoveryAssumption DEF Transactions
<1>2. PICK first \in Transactions :
          /\ first.payment = tx.payment /\ first.nonce = tx.nonce
          /\ \A i \in Mined : chain[i].nonce < tx.nonce =>
                <<first, chain[i]>> \in seenBy \/ chain[i] \in Settled
    BY DEF Warned
<1>3. \A i \in Mined' : chain'[i].nonce < tx.nonce =>
          <<first, chain'[i]>> \in seenBy' \/ chain'[i] \in Settled'
    BY <1>1, <1>2
<1> QED
    BY <1>1, <1>2, <1>3 DEF Warned

(* A flow that stays, or steps back, was shown what it needs.               *)
LEMMA StaysShown ==
    ASSUME Inv, Inv', ChainInv, [Next]_vars, NEW page \in Pages,
           flow'[page] = flow[page]
    PROVE  Shown(flow[page])'
<1>1. /\ Nonce \in Nat /\ Nonce' \in Nat /\ Nonce <= Nonce'
      /\ Settled \subseteq Settled'
      /\ \A i \in Mined' : (i \in Mined /\ chain'[i] = chain[i]) \/ chain'[i].nonce = Nonce
    BY HistoryGrows
<1>2. flow[page].at # "idle" => flow[page].tx \in Transactions /\ flow[page].tx.nonce \in Nat
    BY RecoveryAssumption DEF Inv, FlowShape, Transactions
<1>3. Shown(flow[page])
    BY DEF ChainInv, FlowsWereShown
<1>4. flow[page].kind = "replace" /\ flow[page].at = "save" =>
          flow[page].tx.nonce <= Nonce' /\ Warned(flow[page].tx)'
  <2> SUFFICES ASSUME flow[page].kind = "replace", flow[page].at = "save"
               PROVE  flow[page].tx.nonce <= Nonce' /\ Warned(flow[page].tx)'
      OBVIOUS
  <2>1. PICK tx \in Transactions : tx = flow[page].tx
      BY <1>2
  <2>2. tx.nonce <= Nonce /\ Warned(tx)
      BY <1>3, <2>1 DEF Shown
  <2>3. tx.nonce <= Nonce' /\ Warned(tx)'
      BY <2>2, StaysWarned
  <2> QED
      BY <2>1, <2>3 DEF Warned
<1> QED
    BY <1>1, <1>2, <1>3, <1>4 DEF Shown

(* What comes to be kept was shown first, or repeats what was.              *)
LEMMA KeptStep ==
    ASSUME Inv, Inv', ChainInv, [Next]_vars
    PROVE  KeptWereWarned'
<1> USE RecoveryAssumption
<1>1. /\ Nonce \in Nat /\ Nonce' \in Nat /\ Nonce <= Nonce'
      /\ Settled \subseteq Settled' /\ seenBy \subseteq seenBy'
      /\ \A i \in Mined' : (i \in Mined /\ chain'[i] = chain[i]) \/ chain'[i].nonce = Nonce
    BY HistoryGrows
<1>2. \A tx \in Kept : tx \in Transactions
    BY DEF Inv, TypeOK, Kept, Saved, Records
<1>3. ASSUME NEW tx \in Kept PROVE tx.nonce <= Nonce' /\ Warned(tx)'
    BY <1>2, <1>3, StaysWarned DEF ChainInv, KeptWereWarned
<1>4. CASE Kept' \subseteq Kept
    BY <1>3, <1>4 DEF KeptWereWarned
<1>5. ASSUME NEW page \in Pages, NEW task \in Tasks, Save(page, task)
      PROVE  KeptWereWarned'
  <2>1. CASE task = "pass" \/ flow[page].kind = "dismiss"
    <3>1. Kept' \subseteq Kept
      <4>1. flow[page].kind = "dismiss" => flow[page].tx \in Kept
          BY DEF Inv, FlowsKnow
      <4> QED
          BY <1>5, <2>1, <4>1, SaveStores DEF Kept
    <3> QED
        BY <1>4, <3>1
  <2>2. CASE task = "flow" /\ flow[page].kind # "dismiss"
    <3>1. /\ Kept' = Kept \cup {flow[page].tx}
          /\ flow[page].tx \in Transactions /\ flow[page].tx.nonce \in Nat
        BY <1>5, <2>2, SaveStores DEF Kept, Transactions
    <3>2. PICK tx \in Transactions : tx = flow[page].tx
        BY <3>1
    <3>3. flow[page].at = "save" /\ flow[page].kind \in {"send", "replace"}
        BY <1>5, <2>2 DEF Save, Holds, Inv, LockHeld, FlowShape, TypeOK, FlowRecords, Kinds
    <3>4. Shown(flow[page])
        BY DEF ChainInv, FlowsWereShown
    <3>5. CASE flow[page].kind = "replace"
      <4>1. tx.nonce <= Nonce /\ Warned(tx)
          BY <3>2, <3>3, <3>4, <3>5 DEF Shown
      <4>2. tx.nonce <= Nonce' /\ Warned(tx)'
          BY <4>1, StaysWarned
      <4> QED
          BY <1>3, <3>1, <3>2, <4>2 DEF KeptWereWarned
    <3>6. CASE flow[page].kind = "send"
      <4>1. /\ tx.nonce <= Nonce
            /\ \A i \in Mined : chain[i].nonce < tx.nonce =>
                  chain[i] \in flow[page].acknowledged \cup Settled
          BY <3>2, <3>3, <3>4, <3>6 DEF Shown
      <4>2. seenBy' = seenBy \cup {<<tx, earlier>> :
                earlier \in {other \in flow[page].acknowledged : other.nonce < tx.nonce}}
          BY <1>5, <2>2, <3>2, <3>6 DEF Save
      <4>3. \A i \in Mined : chain[i].nonce < tx.nonce =>
                <<tx, chain[i]>> \in seenBy' \/ chain[i] \in Settled'
          BY <1>1, <4>1, <4>2
      <4>4. \A i \in Mined' : chain'[i].nonce < tx.nonce =>
                <<tx, chain'[i]>> \in seenBy' \/ chain'[i] \in Settled'
          BY <1>1, <3>1, <3>2, <4>1, <4>3
      <4>5. Warned(tx)'
          BY <4>4 DEF Warned
      <4>6. tx.nonce <= Nonce'
          BY <1>1, <3>1, <3>2, <4>1
      <4> QED
          BY <1>3, <3>1, <3>2, <4>5, <4>6 DEF KeptWereWarned
    <3> QED
        BY <3>3, <3>5, <3>6
  <2> QED
      BY <2>1, <2>2 DEF Tasks
<1>6. CASE UNCHANGED <<stored, dismissed>>
    BY <1>4, <1>6 DEF Kept
<1> QED
    BY <1>5, <1>6
    DEF Next, NodeStep, Mine, PageStep, Review, Confirm, Submit, Leave, Dismiss, Resubmit,
        Replace, Reconcile, ReadTip, Load, SaveFails, Refresh, Reopen, wallet, vars

(* A flow comes to save a payment only after its user was shown what may    *)
(* still be mined before it, or a replacement of one already kept.          *)
LEMMA FlowsStep ==
    ASSUME Inv, Inv', ChainInv, [Next]_vars
    PROVE  FlowsWereShown'
<1> USE RecoveryAssumption
<1> SUFFICES ASSUME NEW page \in Pages PROVE Shown(flow[page])'
    BY DEF FlowsWereShown
<1>1. /\ Nonce \in Nat /\ Nonce' \in Nat /\ Nonce <= Nonce'
      /\ Settled \subseteq Settled'
      /\ \A i \in Mined' : (i \in Mined /\ chain'[i] = chain[i]) \/ chain'[i].nonce = Nonce
    BY HistoryGrows
<1>2. CASE flow'[page] = flow[page]
    BY <1>2, StaysShown
<1>3. ASSUME flow'[page].at \notin {"save"},
             flow'[page].at # "idle" =>
                /\ flow[page].at # "idle" /\ flow[page].kind = flow'[page].kind
                /\ flow'[page].tx = flow[page].tx
      PROVE  Shown(flow[page])'
  <2>1. flow[page].at # "idle" => flow[page].tx \in Transactions /\ flow[page].tx.nonce \in Nat
      BY DEF Inv, FlowShape, Transactions
  <2>2. flow[page].kind = "send" /\ flow[page].at # "idle" => flow[page].tx.nonce <= Nonce
      BY DEF ChainInv, FlowsWereShown, Shown
  <2> QED
      BY <1>1, <1>3, <2>1, <2>2 DEF Shown
<1>4. ASSUME NEW payment \in Payments, NEW fee \in 0 .. MaxFee, Review(page, payment, fee)
      PROVE  Shown(flow[page])'
  <2>1. flow'[page] = [Idle EXCEPT !.kind = "send", !.at = "review",
                         !.tx = [payment |-> payment, nonce |-> Nonce, fee |-> fee]]
      BY <1>4 DEF Review, Inv, TypeOK
  <2>2. flow'[page].kind = "send" /\ flow'[page].at = "review" /\ flow'[page].tx.nonce = Nonce
      BY <2>1 DEF Idle
  <2> QED
      BY <1>1, <2>2 DEF Shown
<1>5. CASE Confirm(page)
  <2>1. /\ flow[page] \in FlowRecords /\ flow[page].kind = "send" /\ flow[page].at = "review"
        /\ flow' = [flow EXCEPT
              ![page].at = IF stored.pending \in {{}, flow[page].acknowledged} THEN "save" ELSE "review",
              ![page].acknowledged = IF stored.pending = {} THEN @ ELSE stored.pending]
        /\ UNCHANGED <<stored, dismissed, chain, submitted>>
      BY <1>5 DEF Confirm, Inv, TypeOK, node
  <2>2. /\ flow'[page].kind = "send" /\ flow'[page].tx = flow[page].tx
        /\ flow'[page].at \in {"review", "save"}
        /\ flow'[page].at = "save" => stored.pending \subseteq flow'[page].acknowledged
      BY <2>1 DEF Inv, TypeOK, FlowRecords
  <2>3. CASE flow'[page].at = "review"
      BY <1>3, <2>1, <2>2, <2>3
  <2>4. CASE flow'[page].at = "save"
    <3>1. flow[page].tx \in Transactions /\ flow[page].tx.nonce \in Nat /\ flow[page].tx.nonce <= Nonce
        BY <2>1 DEF Inv, FlowShape, Transactions, ChainInv, FlowsWereShown, Shown
    <3>2. Mined' = Mined /\ Settled' = Settled /\ chain' = chain
        BY <2>1 DEF Mined, Settled
    <3>3. \A i \in Mined : chain[i] \in stored.pending \cup Settled
        BY DEF ChainInv, ChainOrdered, Inv, SubmittedIsSaved, Saved, Settled
    <3> QED
        BY <1>1, <2>2, <2>4, <3>1, <3>2, <3>3 DEF Shown
  <2> QED
      BY <2>2, <2>3, <2>4
<1>6. ASSUME NEW original \in Transactions, NEW fee \in 0 .. MaxFee, Replace(page, original, fee)
      PROVE  Shown(flow[page])'
  <2>1. /\ flow'[page] = [Idle EXCEPT !.kind = "replace", !.at = "save", !.original = original,
                             !.tx = [original EXCEPT !.fee = fee]]
        /\ original \in known[page].pending
      BY <1>6 DEF Replace, Inv, TypeOK
  <2>2. original \in Kept
      BY <2>1 DEF Inv, PagesKnow, Saved
  <2>3. original.nonce <= Nonce' /\ Warned(original)'
      BY <2>2, StaysWarned DEF ChainInv, KeptWereWarned
  <2>4. /\ flow'[page].kind = "replace"
        /\ flow'[page].tx.nonce = original.nonce /\ flow'[page].tx.payment = original.payment
      BY <2>1 DEF Idle, Transactions
  <2>5. Warned(flow[page].tx)'
      BY <2>3, <2>4 DEF Warned
  <2> QED
      BY <2>3, <2>4, <2>5 DEF Shown
<1>7. ASSUME NEW tx \in Transactions, Dismiss(page, tx) PROVE Shown(flow[page])'
  <2>1. flow'[page] = [Idle EXCEPT !.kind = "dismiss", !.at = "save", !.tx = tx]
      BY <1>7 DEF Dismiss, Inv, TypeOK
  <2>2. flow'[page].kind = "dismiss"
      BY <2>1 DEF Idle
  <2> QED
      BY <2>2 DEF Shown
<1>8. CASE Submit(page) \/ Leave(page) \/ Reopen(page)
  <2>1. flow'[page] = Idle
      BY <1>8 DEF Submit, Leave, Reopen, Inv, TypeOK
  <2> QED
      BY <1>3, <2>1, IdleIsFlow
<1>9. ASSUME NEW task \in Tasks, Save(page, task) \/ SaveFails(page, task) PROVE Shown(flow[page])'
  <2>1. CASE task = "pass"
      BY <1>2, <1>9, <2>1 DEF Save, SaveFails, Resume
  <2>2. CASE task = "flow"
    <3>1. flow[page].at = "save" /\ flow[page] \in FlowRecords
        BY <1>9, <2>2 DEF Save, SaveFails, Holds, Inv, LockHeld, TypeOK
    <3>2. PICK stage \in {"submit", "review"} :
              flow'[page] \in {Idle, [flow[page] EXCEPT !.at = stage]}
        BY <1>9, <2>2 DEF Save, SaveFails, Resume, Inv, TypeOK
    <3>3. CASE flow'[page] = Idle
        BY <1>3, <3>3, IdleIsFlow
    <3>4. CASE flow'[page] = [flow[page] EXCEPT !.at = stage]
      <4>1. flow'[page].at = stage /\ flow'[page].kind = flow[page].kind /\ flow'[page].tx = flow[page].tx
          BY <3>1, <3>4 DEF FlowRecords
      <4> QED
          BY <1>3, <3>1, <4>1
    <3> QED
        BY <3>2, <3>3, <3>4
  <2> QED
      BY <2>1, <2>2 DEF Tasks
<1>10. ASSUME NEW other \in Pages \ {page}, PageStep(other) PROVE flow'[page] = flow[page]
  <2>1. flow \in [Pages -> FlowRecords] /\ page # other
      BY <1>10 DEF Inv, TypeOK
  <2>2. ASSUME NEW next, flow' = [flow EXCEPT ![other] = next] PROVE flow'[page] = flow[page]
      BY <2>1, <2>2
  <2>3. CASE \E payment \in Payments, fee \in 0 .. MaxFee : Review(other, payment, fee)
      BY <2>2, <2>3 DEF Review
  <2>4. CASE \E tx \in Transactions : Resubmit(other, tx) \/ Dismiss(other, tx)
      BY <2>2, <2>4 DEF Resubmit, Dismiss, wallet
  <2>5. CASE \E original \in Transactions, fee \in 0 .. MaxFee : Replace(other, original, fee)
      BY <2>2, <2>5 DEF Replace
  <2>6. CASE Confirm(other)
      BY <2>1, <2>6 DEF Confirm
  <2>7. CASE Submit(other) \/ Leave(other) \/ Reopen(other)
      BY <2>2, <2>7 DEF Submit, Leave, Reopen
  <2>8. ASSUME NEW task \in Tasks, Save(other, task) \/ SaveFails(other, task)
        PROVE  flow'[page] = flow[page]
      BY <2>1, <2>8 DEF Save, SaveFails, Resume
  <2>9. CASE UNCHANGED flow
      BY <2>9
  <2> QED
      BY <1>10, <2>3, <2>4, <2>5, <2>6, <2>7, <2>8, <2>9
      DEF PageStep, Reconcile, ReadTip, Load, Refresh
<1>11. CASE UNCHANGED flow
    BY <1>2, <1>11
<1>12. CASE PageStep(page)
  <2>1. CASE \E payment \in Payments, fee \in 0 .. MaxFee : Review(page, payment, fee)
      BY <1>4, <2>1
  <2>2. CASE \E tx \in Transactions : Resubmit(page, tx) \/ Dismiss(page, tx)
      BY <1>7, <1>11, <2>2 DEF Resubmit, wallet
  <2>3. CASE \E original \in Transactions, fee \in 0 .. MaxFee : Replace(page, original, fee)
      BY <1>6, <2>3
  <2>4. CASE \E task \in Tasks : Load(page, task) \/ Save(page, task) \/ SaveFails(page, task)
      BY <1>9, <1>11, <2>4 DEF Load
  <2>5. CASE Reconcile(page) \/ ReadTip(page) \/ Refresh(page)
      BY <1>11, <2>5 DEF Reconcile, ReadTip, Refresh
  <2> QED
      BY <1>5, <1>8, <1>12, <2>1, <2>2, <2>3, <2>4, <2>5 DEF PageStep
<1>13. CASE NodeStep \/ UNCHANGED vars
    BY <1>11, <1>13 DEF NodeStep, Mine, wallet, vars
<1> QED
    BY <1>2, <1>10, <1>12, <1>13 DEF Next

(* What a pass reads of the chain, it reads as it is.                       *)
LEMMA PassesStep ==
    ASSUME Inv, Inv', ChainInv, [Next]_vars
    PROVE  PassesWereTold'
<1> USE RecoveryAssumption
<1> SUFFICES ASSUME NEW page \in Pages PROVE Told(pass[page])'
    BY DEF PassesWereTold
<1>1. /\ \A i \in DOMAIN chain : i \in DOMAIN chain' /\ chain'[i] = chain[i]
      /\ \A tx : Deep(tx) => Deep(tx)'
    BY HistoryGrows
<1>2. pass \in [Pages -> Passes] /\ pass' \in [Pages -> Passes] /\ Told(pass[page])
    BY DEF Inv, TypeOK, ChainInv, PassesWereTold
<1>3. CASE pass'[page] = pass[page]
    BY <1>1, <1>2, <1>3 DEF Told
<1>4. CASE pass'[page] = IdlePass
    BY <1>4 DEF Told, IdlePass
<1>5. CASE Reconcile(page)
  <2>1. PICK answered \in SUBSET (known[page].pending \cap Included) :
            pass' = [pass EXCEPT ![page] =
                [IdlePass EXCEPT !.at = "tip", !.included =
                    UNION {{<<tx, height>> : height \in Heights(tx)} : tx \in answered}]]
      BY <1>5 DEF Reconcile
  <2>2. /\ pass'[page].included = UNION {{<<tx, height>> : height \in Heights(tx)} : tx \in answered}
        /\ pass'[page].deep = {}
      BY <1>2, <2>1 DEF IdlePass
  <2>3. \A place \in pass'[page].included : \E tx \in answered :
            place[1] = tx /\ place[2] \in Heights(tx)
      BY <2>2
  <2>4. \A place \in pass'[page].included : place[2] \in DOMAIN chain /\ chain[place[2]] = place[1]
      BY <2>3 DEF Heights
  <2> QED
      BY <1>1, <2>2, <2>4 DEF Told
<1>6. CASE ReadTip(page)
  <2> DEFINE deep == {tx \in Transactions :
                         \E height \in 1 .. MaxHeight :
                            /\ <<tx, height>> \in pass[page].included
                            /\ Len(chain) - height + 1 >= ConfirmationDepth}
  <2>1. pass'[page] \in {IdlePass, [IdlePass EXCEPT !.at = "save", !.deep = deep]}
      BY <1>2, <1>6 DEF ReadTip
  <2>2. \A tx \in deep : Deep(tx)
      BY <1>2 DEF Told, Deep, Heights
  <2> HIDE DEF deep
  <2>3. pass'[page].included = {} /\ pass'[page].deep \subseteq deep
    <3>1. CASE pass'[page] = IdlePass
        BY <3>1 DEF IdlePass
    <3>2. CASE pass'[page] = [IdlePass EXCEPT !.at = "save", !.deep = deep]
        BY <3>2 DEF IdlePass
    <3> QED
        BY <2>1, <3>1, <3>2
  <2> QED
      BY <1>1, <2>2, <2>3 DEF Told
<1>7. ASSUME NEW task \in Tasks, Save(page, task) \/ SaveFails(page, task)
      PROVE  pass'[page] \in {pass[page], IdlePass}
    BY <1>2, <1>7 DEF Save, SaveFails, Resume
<1>8. CASE Reopen(page)
    BY <1>2, <1>4, <1>8 DEF Reopen
<1>9. ASSUME NEW other \in Pages \ {page}, PageStep(other) PROVE pass'[page] = pass[page]
  <2>1. ASSUME NEW next, pass' = [pass EXCEPT ![other] = next] PROVE pass'[page] = pass[page]
      BY <1>2, <2>1
  <2>2. CASE Reconcile(other) \/ ReadTip(other) \/ Reopen(other)
      BY <2>1, <2>2 DEF Reconcile, ReadTip, Reopen
  <2>3. ASSUME NEW task \in Tasks, Save(other, task) \/ SaveFails(other, task)
        PROVE  pass'[page] = pass[page]
      BY <2>1, <2>3 DEF Save, SaveFails, Resume
  <2>4. CASE UNCHANGED pass
      BY <2>4
  <2> QED
      BY <1>9, <2>2, <2>3, <2>4
      DEF PageStep, Review, Confirm, Submit, Leave, Dismiss, Resubmit, Replace, Load, Refresh, wallet
<1>10. CASE UNCHANGED pass
    BY <1>3, <1>10
<1>11. CASE PageStep(page)
  <2>1. CASE \E task \in Tasks : Save(page, task) \/ SaveFails(page, task)
      BY <1>3, <1>4, <1>7, <2>1
  <2>2. CASE Reconcile(page) \/ ReadTip(page) \/ Reopen(page)
      BY <1>5, <1>6, <1>8, <2>2
  <2> QED
      BY <1>10, <1>11, <2>1, <2>2
      DEF PageStep, Review, Confirm, Submit, Leave, Dismiss, Resubmit, Replace, Load, Refresh, wallet
<1>12. CASE NodeStep \/ UNCHANGED vars
    BY <1>10, <1>12 DEF NodeStep, Mine, wallet, vars
<1> QED
    BY <1>3, <1>9, <1>11, <1>12 DEF Next

(* Only a pass archives, and only what was judged to be deep.               *)
LEMMA ArchivedStep ==
    ASSUME Inv, Inv', ChainInv, [Next]_vars
    PROVE  ArchivedIsConfirmed'
<1> SUFFICES ASSUME NEW tx \in stored'.confirmed PROVE Deep(tx)'
    BY DEF ArchivedIsConfirmed, Deep
<1>1. Deep(tx) => Deep(tx)'
    BY HistoryGrows
<1>2. CASE tx \in stored.confirmed
    BY <1>1, <1>2 DEF ChainInv, ArchivedIsConfirmed, Deep
<1>3. ASSUME NEW page \in Pages, NEW task \in Tasks, Save(page, task), tx \notin stored.confirmed
      PROVE  Deep(tx)'
  <2>1. holder.loaded = stored /\ stored' = Changed(page, task) /\ stored \in Records
      BY <1>3 DEF Save, Holds, Inv, LockHeld, TypeOK
  <2>2. CASE task = "pass"
    <3>1. tx \in pass[page].deep
        BY <1>3, <2>1, <2>2 DEF Changed
    <3> QED
        BY <1>1, <3>1 DEF ChainInv, PassesWereTold, Told
  <2>3. CASE task = "flow"
    <3>1. flow[page].kind \in {"send", "replace", "dismiss"}
        BY <1>3, <2>3 DEF Save, Holds, Inv, LockHeld, FlowShape, TypeOK, FlowRecords, Kinds
    <3>2. CASE flow[page].kind = "dismiss"
        BY <1>3, <2>1, <2>3, <3>2 DEF Changed
    <3>3. CASE flow[page].kind \in {"send", "replace"}
      <4>1. stored' = [stored EXCEPT !.pending = stored.pending \cup {flow[page].tx}]
          BY <2>1, <2>3, <3>3 DEF Changed
      <4>2. stored'.confirmed = stored.confirmed
          BY <2>1, <4>1 DEF Records
      <4> QED
          BY <1>3, <4>2
    <3> QED
        BY <3>1, <3>2, <3>3
  <2> QED
      BY <2>2, <2>3 DEF Tasks
<1>4. CASE UNCHANGED stored
    BY <1>2, <1>4
<1> QED
    BY <1>2, <1>3, <1>4
    DEF Next, NodeStep, Mine, PageStep, Review, Confirm, Submit, Leave, Dismiss, Resubmit,
        Replace, Reconcile, ReadTip, Load, SaveFails, Refresh, Reopen, wallet, vars

(* The initial states satisfy it: the chain is empty and nothing is kept.   *)
LEMMA InitChainInv == Init => ChainInv
<1> SUFFICES ASSUME Init PROVE ChainInv
    OBVIOUS
<1>1. Mined = {} /\ Kept = {}
    BY DEF Init, Mined, Kept, Saved, NoRecords
<1>2. \A page \in Pages : flow[page] = Idle /\ pass[page] = IdlePass
    BY DEF Init
<1>3. ChainOrdered /\ KeptWereWarned /\ ArchivedIsConfirmed
    BY <1>1 DEF Init, ChainOrdered, KeptWereWarned, ArchivedIsConfirmed, NoRecords
<1>4. FlowsWereShown
    BY <1>2, IdleIsFlow DEF FlowsWereShown, Shown
<1>5. PassesWereTold
    BY <1>2 DEF PassesWereTold, Told, IdlePass
<1> QED
    BY <1>3, <1>4, <1>5 DEF ChainInv

(* What the chain shows holds in every reachable state.                     *)
LEMMA ChainInvHolds == Spec => [](Inv /\ ChainInv)
<1>1. Init => Inv /\ ChainInv
    BY InitInv, InitChainInv
<1>2. Inv /\ ChainInv /\ [Next]_vars => Inv' /\ ChainInv'
  <2> SUFFICES ASSUME Inv, ChainInv, [Next]_vars PROVE Inv' /\ ChainInv'
      OBVIOUS
  <2>1. Inv'
      BY StepInv
  <2> QED
      BY <2>1, HistoryGrows, KeptStep, FlowsStep, PassesStep, ArchivedStep DEF ChainInv
<1> QED
    BY <1>1, <1>2, PTL DEF Spec

(* Nobody pays twice unwarned, with any number of pages, payments,          *)
(* replacements and dismissals: app.ts confirm compares what is stored with *)
(* what was shown, after the nonce that orders the payments was read.       *)
THEOREM AlwaysWarned == Spec => []PaysTwiceKnowingly
<1>1. Inv /\ ChainInv => PaysTwiceKnowingly
  <2> SUFFICES ASSUME Inv, ChainInv, NEW i \in Mined, NEW j \in Mined, i < j
               PROVE  \/ \E warned \in seenBy :
                            /\ warned[1] \in Transactions /\ warned[2] = chain[i]
                            /\ warned[1].payment = chain[j].payment
                            /\ warned[1].nonce = chain[j].nonce
                      \/ chain[i] \in stored.confirmed \cup dismissed
      BY DEF PaysTwiceKnowingly, Mined
  <2>1. chain[j] \in Kept /\ chain[i].nonce < chain[j].nonce
      BY DEF Inv, SubmittedIsSaved, ChainInv, ChainOrdered, Kept
  <2>2. PICK first \in Transactions :
            /\ first.payment = chain[j].payment /\ first.nonce = chain[j].nonce
            /\ <<first, chain[i]>> \in seenBy \/ chain[i] \in Settled
      BY <2>1 DEF ChainInv, KeptWereWarned, Warned
  <2> QED
      BY <2>2 DEF Settled
<1> QED
    BY <1>1, ChainInvHolds, PTL

(* What is archived has the confirmations the archive stands for, whatever  *)
(* was mined between the answers app.ts inclusionDepth compares and the     *)
(* update of reconcileRecovery.                                             *)
THEOREM AlwaysConfirmed == Spec => []ArchivedIsConfirmed
<1>1. ChainInv => ArchivedIsConfirmed
    BY DEF ChainInv
<1> QED
    BY <1>1, ChainInvHolds, PTL
=============================================================================
