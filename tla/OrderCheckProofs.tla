-------------------------- MODULE OrderCheckProofs --------------------------
(***************************************************************************)
(* For any blocks, orders and limits: an answer of the check is about one  *)
(* state of each chain and, unless the child chain dropped it after the    *)
(* comparison, on a chain with the block the parent commits.  What is read *)
(* after a tip was pinned is of the pinned block, because a node proves    *)
(* only for the tip it has; a list of deposits grows page by page in the   *)
(* order of their keys, so that it is complete when a page is the rest.    *)
(*                                                                         *)
(* And for any blocks, trees and answers: a claim that a state proof       *)
(* verifies is so.  The walk keeps that the node it stands at says of the  *)
(* rest of the key what the dictionary says of the key.                    *)
(***************************************************************************)
EXTENDS MCOrderCheck, FiniteSetTheorems, TLAPS

ChildReads == {"childBefore", "info", "page", "childAfter", "childCaught", "owners", "parentAfter"}

(* What is pinned while it is relied on.                                    *)
Pinned ==
    /\ at \in ChildReads \cup {"children", "block", "sameBlock", "parentCaught"} => pin.parent \in Parents
    /\ at \in ChildReads \ {"childBefore"} => pin.child \in Children
    /\ at # "done" => result = "none"

(* What was listed of the pinned child block.                               *)
Listing ==
    /\ at = "page" => pages < MaxPages /\ listed = {deposit \in Locked[pin.child] : deposit <= after}
    /\ at \in {"childAfter", "owners", "parentAfter"} => listed = Locked[pin.child]

(* What was read of the pinned parent block.                                *)
Payments ==
    /\ at \in {"owners", "parentAfter"} => bought = (Offers \ unread) \cap Paid[pin.parent]
    /\ at = "parentAfter" => unread = {}

(* The compared block stays in the child chain as long as it is not lost.   *)
Committed ==
    /\ at \in ChildReads \cup {"block", "sameBlock"} => committed = Commits[pin.parent] /\ committed \in Children
    /\ at \in ChildReads /\ ~lost => committed \in Chain[childTip]
    /\ at \in ChildReads \ {"childBefore"} /\ ~lost => committed \in Chain[pin.child]

Inv ==
    /\ TypeOK
    /\ Pinned
    /\ Listing
    /\ Payments
    /\ Committed
    /\ AnswersAreOfOneState
    /\ ProvenUnlessLost

USE OrderCheckAssumption

(* The initial states satisfy the inductive invariant.                      *)
LEMMA InitInv == Init => Inv
<1>1. Init => lost \in BOOLEAN
    BY Zenon DEF Init
<1> QED
    BY <1>1 DEF Init, Inv, TypeOK, Pinned, Listing, Payments, Committed, AnswersAreOfOneState,
       ProvenOnCommittedChain, ProvenUnlessLost, Reads, Results, ChildReads

(* Without a result there is nothing to be claimed.                         *)
LEMMA NoResult == ASSUME result' = "none" PROVE AnswersAreOfOneState' /\ ProvenUnlessLost'
BY DEF AnswersAreOfOneState, ProvenOnCommittedChain, ProvenUnlessLost

(* A check that failed claims nothing.                                      *)
LEMMA FailInv ==
    ASSUME Inv, Return("failed"), UNCHANGED <<nodes, committed, listing, owners, lost>>, pin' = pin, tries' = tries
    PROVE  Inv'
BY DEF Inv, TypeOK, Pinned, Listing, Payments, Committed, AnswersAreOfOneState,
   ProvenOnCommittedChain,
       ProvenUnlessLost, Reads, Results, ChildReads, Return, nodes, listing, owners

(* A step within the check.                                                 *)
LEMMA GoInv ==
    ASSUME Inv, at # "done", NEW read, GoTo(read), (TypeOK /\ Pinned /\ Listing /\ Payments /\ Committed)'
    PROVE  Inv'
<1>1. result' = "none"
    BY DEF Inv, Pinned, GoTo
<1> QED
    BY <1>1, NoResult DEF Inv

(* A run that throws keeps the invariant.                                   *)
LEMMA ThrowInv ==
    ASSUME Inv, Throw, UNCHANGED <<nodes, committed, listing, owners, lost>>, pin' = pin, tries' = tries,
           at # "done", pin.parent \in Parents
    PROVE  Inv'
<1>1. (TypeOK /\ Pinned /\ Listing /\ Payments /\ Committed)'
    BY DEF Inv, TypeOK, Pinned, Listing, Payments, Committed, Reads, ChildReads, Throw, GoTo,
       nodes, listing, owners
<1> QED
    BY <1>1, GoInv DEF Throw

(* The parent's tip before an attempt.                                      *)
LEMMA ReadParentBeforeInv == Inv /\ ReadParentBefore => Inv'
<1> SUFFICES ASSUME Inv, ReadParentBefore PROVE Inv'
    OBVIOUS
<1>1. CASE pin' = [pin EXCEPT !.parent = parentTip] /\ GoTo("children")
  <2>1. (TypeOK /\ Pinned /\ Listing /\ Payments /\ Committed)'
      BY <1>1 DEF ReadParentBefore, Inv, TypeOK, Pinned, Listing, Payments, Committed, Reads,
         ChildReads,
                  GoTo, nodes, listing, owners
  <2> QED
      BY <1>1, <2>1, GoInv DEF ReadParentBefore
<1>2. CASE pin' = pin /\ Return("failed")
    BY <1>2, FailInv DEF ReadParentBefore
<1> QED
    BY <1>1, <1>2 DEF ReadParentBefore

(* The children anchored at that tip.                                       *)
LEMMA ReadChildrenInv == Inv /\ ReadChildren => Inv'
<1> SUFFICES ASSUME Inv, ReadChildren PROVE Inv'
    OBVIOUS
<1>0. at = "children" /\ pin.parent \in Parents
    BY DEF Inv, Pinned, ReadChildren
<1>1. CASE Commits[pin.parent] # None /\ committed' = Commits[pin.parent] /\ GoTo("block")
  <2>1. (TypeOK /\ Pinned /\ Listing /\ Payments /\ Committed)'
      BY <1>0, <1>1 DEF ReadChildren, Inv, TypeOK, Pinned, Listing, Payments, Committed, Reads,
         ChildReads,
                  GoTo, nodes, listing, owners
  <2> QED
      BY <1>0, <1>1, <2>1, GoInv
<1>2. CASE committed' = committed /\ Throw
    BY <1>0, <1>2, ThrowInv DEF ReadChildren
<1> QED
    BY <1>1, <1>2 DEF ReadChildren

(* The committed block itself can be read.                                  *)
LEMMA ReadBlockInv == Inv /\ ReadBlock => Inv'
<1> SUFFICES ASSUME Inv, ReadBlock PROVE Inv'
    OBVIOUS
<1>0. at = "block" /\ pin.parent \in Parents
    BY DEF Inv, Pinned, ReadBlock
<1>1. CASE GoTo("sameBlock")
  <2>1. (TypeOK /\ Pinned /\ Listing /\ Payments /\ Committed)'
      BY <1>0, <1>1 DEF ReadBlock, Inv, TypeOK, Pinned, Listing, Payments, Committed, Reads,
         ChildReads,
                  GoTo, nodes, listing, owners
  <2> QED
      BY <1>0, <1>1, <2>1, GoInv
<1>2. CASE Throw
    BY <1>0, <1>2, ThrowInv DEF ReadBlock
<1> QED
    BY <1>1, <1>2 DEF ReadBlock

(* The child node follows the committed block, or the attempt throws.       *)
LEMMA ReadSameBlockInv == Inv /\ ReadSameBlock => Inv'
<1> SUFFICES ASSUME Inv, ReadSameBlock PROVE Inv'
    OBVIOUS
<1>0. at = "sameBlock" /\ pin.parent \in Parents
    BY DEF Inv, Pinned, ReadSameBlock
<1>1. CASE committed \in Chain[childTip] /\ GoTo("childBefore") /\ tries' = [tries EXCEPT !.child = 1] /\ lost' = FALSE
  <2>0. lost' \in BOOLEAN
      BY <1>1, Zenon
  <2>1. (TypeOK /\ Pinned /\ Listing /\ Payments /\ Committed)'
      BY <1>0, <1>1, <2>0 DEF ReadSameBlock, Inv, TypeOK, Pinned, Listing, Payments, Committed, Reads,
         ChildReads,
                  GoTo, nodes, listing, owners
  <2> QED
      BY <1>0, <1>1, <2>1, GoInv
<1>2. CASE Throw /\ UNCHANGED <<tries, lost>>
    BY <1>0, <1>2, ThrowInv DEF ReadSameBlock
<1> QED
    BY <1>1, <1>2 DEF ReadSameBlock

(* The child's tip before its inner attempt.                                *)
LEMMA ReadChildBeforeInv == Inv /\ ReadChildBefore => Inv'
<1> SUFFICES ASSUME Inv, ReadChildBefore PROVE Inv'
    OBVIOUS
<1>0. at = "childBefore" /\ pin.parent \in Parents
    BY DEF Inv, Pinned, ReadChildBefore, ChildReads
<1>1. CASE pin' = [pin EXCEPT !.child = childTip] /\ GoTo("info")
  <2>1. (TypeOK /\ Pinned /\ Listing /\ Payments /\ Committed)'
      BY <1>0, <1>1 DEF ReadChildBefore, Inv, TypeOK, Pinned, Listing, Payments, Committed, Reads,
         ChildReads,
                  GoTo, nodes, listing, owners
  <2> QED
      BY <1>0, <1>1, <2>1, GoInv
<1>2. CASE pin' = pin /\ Throw
    BY <1>0, <1>2, ThrowInv DEF ReadChildBefore
<1> QED
    BY <1>1, <1>2 DEF ReadChildBefore

(* Deposits are positive numbers.                                           *)
LEMMA LockedAreNumbers ==
    ASSUME NEW block \in Children
    PROVE  \A deposit \in Locked[block] : deposit \in Deposits /\ deposit \in Nat /\ ~(deposit <= 0)
<1>1. Locked[block] \subseteq Deposits /\ \A deposit \in Deposits : deposit \in Nat \ {0}
    OBVIOUS
<1>2. \A n \in Nat \ {0} : ~(n <= 0)
    OBVIOUS
<1> QED
    BY <1>1, <1>2

(* The child's deposits, which are positive amounts.                        *)
LEMMA ReadInfoInv == Inv /\ ReadInfo => Inv'
<1> SUFFICES ASSUME Inv, ReadInfo PROVE Inv'
    OBVIOUS
<1>0. at = "info" /\ pin.parent \in Parents /\ pin.child \in Children
    BY DEF Inv, Pinned, ReadInfo, ChildReads
<1>1. {deposit \in Locked[pin.child] : deposit <= 0} = {}
  <2>1. \A deposit \in Locked[pin.child] : deposit \in Nat /\ ~(deposit <= 0)
      BY <1>0, LockedAreNumbers
  <2> QED
      BY <2>1
<1>2. (TypeOK /\ Pinned /\ Listing /\ Payments /\ Committed)'
    BY <1>0, <1>1 DEF ReadInfo, Inv, TypeOK, Pinned, Listing, Payments, Committed, Reads,
       ChildReads,
                GoTo, nodes, owners
<1> QED
    BY <1>0, <1>2, GoInv DEF ReadInfo

(* A page is all of the rest up to its last deposit.                        *)
LEMMA PageIsFirst ==
    ASSUME TypeOK, NEW last \in Page, NEW deposit \in Rest, deposit <= last
    PROVE  deposit \in Page
<1> DEFINE Upto(d) == {other \in Rest : other <= d}
<1>1. Rest \subseteq Deposits /\ IsFiniteSet(Rest) /\ Deposits \subseteq Nat
    BY FS_Subset DEF Rest, TypeOK
<1>2. last \in Rest /\ Cardinality(Upto(last)) <= PageSize
    BY DEF Page
<1>3. Upto(deposit) \in SUBSET Upto(last) /\ IsFiniteSet(Upto(last)) /\ IsFiniteSet(Upto(deposit))
  <2>1. last \in Nat /\ deposit \in Nat /\ \A other \in Rest : other \in Nat
      BY <1>1, <1>2
  <2>2. ASSUME NEW other \in Rest, other <= deposit PROVE other <= last
      BY <2>1, <2>2
  <2>3. Upto(deposit) \subseteq Upto(last)
      BY <2>2
  <2>4. Upto(last) \subseteq Rest /\ Upto(deposit) \subseteq Rest
      OBVIOUS
  <2> HIDE DEF Upto
  <2> QED
      BY <1>1, <2>3, <2>4, FS_Subset
<1>4. Cardinality(Upto(deposit)) <= Cardinality(Upto(last))
    BY <1>3, FS_Subset
<1>5. Cardinality(Upto(deposit)) \in Nat /\ Cardinality(Upto(last)) \in Nat
    BY <1>3, FS_CardinalityType
<1>6. Cardinality(Upto(deposit)) <= PageSize
    BY <1>2, <1>4, <1>5
<1> QED
    BY <1>6 DEF Page

(* A page of the open offers.                                               *)
LEMMA ReadPageInv == Inv /\ ReadPage => Inv'
<1> SUFFICES ASSUME Inv, ReadPage PROVE Inv'
    OBVIOUS
<1>0. /\ at = "page" /\ pin.parent \in Parents /\ pin.child \in Children /\ pages < MaxPages
      /\ listed = {deposit \in Locked[pin.child] : deposit <= after}
      /\ Locked[pin.child] \subseteq Deposits /\ after \in Nat /\ pages \in Nat
    BY DEF Inv, Pinned, Listing, TypeOK, ReadPage, ChildReads
<1>1. ASSUME childTip = pin.child, listed' = listed \cup Page, Page = Rest,
             GoTo("childAfter"), UNCHANGED <<after, pages>>
      PROVE  Inv'
  <2>1. listed' = Locked[pin.child]
    <3>1. ASSUME NEW deposit \in Locked[pin.child] PROVE deposit <= after \/ deposit > after
      <4>1. deposit \in Nat /\ after \in Nat
          BY <1>0, LockedAreNumbers
      <4> QED
          BY <4>1
    <3>2. listed' = {deposit \in Locked[pin.child] : deposit <= after} \cup {deposit \in Locked[pin.child] : deposit > after}
        BY <1>0, <1>1 DEF Rest
    <3> QED
        BY <3>1, <3>2
  <2>2. (TypeOK /\ Pinned /\ Listing /\ Payments /\ Committed)'
      BY <1>0, <1>1, <2>1 DEF ReadPage, Inv, TypeOK, Pinned, Listing, Payments, Committed, Reads,
         ChildReads,
                  GoTo, nodes, owners
  <2> QED
      BY <1>0, <1>1, <2>2, GoInv
<1>2. ASSUME childTip = pin.child, listed' = listed \cup Page, pages + 1 < MaxPages,
             NEW last \in Page, \A other \in Page : other <= last,
             after' = last, pages' = pages + 1, GoTo("page")
      PROVE  Inv'
  <2>1. last \in Rest /\ Page \subseteq Rest /\ Rest = {deposit \in Locked[pin.child] : deposit > after}
      BY <1>2 DEF Page, Rest
  <2>2. \A deposit \in Rest : deposit <= last <=> deposit \in Page
      BY <1>2, PageIsFirst DEF Inv
  <2>3. listed' = {deposit \in Locked[pin.child] : deposit <= last}
    <3>1. last \in Nat /\ last > after
        BY <1>0, <2>1, LockedAreNumbers
    <3>2. ASSUME NEW deposit \in Locked[pin.child]
          PROVE  deposit <= last <=> (deposit <= after \/ deposit \in Page)
      <4>0. deposit \in Nat /\ last \in Nat /\ after \in Nat
          BY <1>0, <3>1, LockedAreNumbers
      <4>1. deposit \in Page => deposit <= last
          BY <1>2
      <4>2. deposit <= last /\ deposit \in Rest => deposit \in Page
          BY <2>2
      <4>3. deposit <= after => deposit <= last
          BY <3>1, <4>0
      <4>4. ~(deposit <= after) => deposit \in Rest
        <5>1. ~(deposit <= after) => deposit > after
            BY <4>0
        <5> QED
            BY <2>1, <5>1
      <4> QED
          BY <4>0, <4>1, <4>2, <4>3, <4>4
    <3>3. listed' = {deposit \in Locked[pin.child] : deposit <= after} \cup Page /\ Page \subseteq Locked[pin.child]
        BY <1>0, <1>2, <2>1
    <3> QED
        BY <3>2, <3>3
  <2>4. (TypeOK /\ Pinned /\ Listing /\ Payments /\ Committed)'
      BY <1>0, <1>2, <2>1, <2>3 DEF ReadPage, Inv, TypeOK, Pinned, Listing, Payments, Committed,
         Reads, ChildReads,
                  GoTo, nodes, owners
  <2> QED
      BY <1>0, <1>2, <2>4, GoInv
<1>3. CASE GoTo("childCaught") /\ UNCHANGED listing
  <2>1. (TypeOK /\ Pinned /\ Listing /\ Payments /\ Committed)'
      BY <1>0, <1>3 DEF ReadPage, Inv, TypeOK, Pinned, Listing, Payments, Committed, Reads,
         ChildReads,
                  GoTo, nodes, listing, owners
  <2> QED
      BY <1>0, <1>3, <2>1, GoInv
<1> QED
    BY <1>1, <1>2, <1>3 DEF ReadPage, Advance

(* An inner attempt that gives up or starts again.                          *)
LEMMA RetryChildInv ==
    ASSUME Inv, RetryChild, UNCHANGED <<nodes, pin, committed, listing, owners, lost>>,
           at \in {"childAfter", "childCaught"}
    PROVE  Inv'
<1>0. pin.parent \in Parents /\ pin.child \in Children
    BY DEF Inv, Pinned, ChildReads
<1>1. CASE tries.child < MaxTries
  <2>1. tries' \in [parent : 1 .. MaxTries, child : 1 .. MaxTries]
      BY <1>1 DEF RetryChild, Inv, TypeOK
  <2>2. (TypeOK /\ Pinned /\ Listing /\ Payments /\ Committed)'
      BY <1>0, <1>1, <2>1 DEF RetryChild, Inv, TypeOK, Pinned, Listing, Payments, Committed,
         Reads, ChildReads,
                  GoTo, nodes, listing, owners
  <2> QED
      BY <1>1, <2>2, GoInv DEF RetryChild
<1>2. CASE ~(tries.child < MaxTries)
    BY <1>0, <1>2, ThrowInv DEF RetryChild
<1> QED
    BY <1>1, <1>2

(* The child's tip after the inner attempt.                                 *)
LEMMA ReadChildAfterInv == Inv /\ ReadChildAfter => Inv'
<1> SUFFICES ASSUME Inv, ReadChildAfter PROVE Inv'
    OBVIOUS
<1>0. at = "childAfter" /\ pin.parent \in Parents /\ pin.child \in Children
    BY DEF Inv, Pinned, ReadChildAfter, ChildReads
<1>1. CASE childTip = pin.child /\ GoTo("owners") /\ unread' = Offers /\ bought' = {} /\ tries' = tries
  <2>1. (TypeOK /\ Pinned /\ Listing /\ Payments /\ Committed)'
      BY <1>0, <1>1 DEF ReadChildAfter, Inv, TypeOK, Pinned, Listing, Payments, Committed, Reads,
         ChildReads,
                  GoTo, nodes, listing
  <2> QED
      BY <1>0, <1>1, <2>1, GoInv
<1>2. CASE childTip # pin.child /\ RetryChild /\ UNCHANGED owners
    BY <1>0, <1>2, RetryChildInv DEF ReadChildAfter
<1>3. CASE GoTo("childCaught") /\ UNCHANGED <<tries, owners>>
  <2>1. (TypeOK /\ Pinned /\ Listing /\ Payments /\ Committed)'
      BY <1>0, <1>3 DEF ReadChildAfter, Inv, TypeOK, Pinned, Listing, Payments, Committed, Reads,
         ChildReads,
                  GoTo, nodes, listing, owners
  <2> QED
      BY <1>0, <1>3, <2>1, GoInv
<1> QED
    BY <1>1, <1>2, <1>3 DEF ReadChildAfter

(* An inner attempt that failed.                                            *)
LEMMA CatchChildInv == Inv /\ CatchChild => Inv'
<1> SUFFICES ASSUME Inv, CatchChild PROVE Inv'
    OBVIOUS
<1>0. at = "childCaught" /\ pin.parent \in Parents
    BY DEF Inv, Pinned, CatchChild, ChildReads
<1>1. CASE Throw /\ tries' = tries
    BY <1>0, <1>1, ThrowInv DEF CatchChild
<1>2. CASE childTip # pin.child /\ RetryChild
    BY <1>0, <1>2, RetryChildInv DEF CatchChild
<1> QED
    BY <1>1, <1>2 DEF CatchChild

(* A proved read of an offer's deposit.                                     *)
LEMMA ReadOwnerInv == ASSUME Inv, NEW offer \in Offers, ReadOwner(offer) PROVE Inv'
<1>0. at = "owners" /\ offer \in unread /\ pin.parent \in Parents /\ pin.child \in Children
    BY DEF Inv, Pinned, ReadOwner, ChildReads
<1>1. ASSUME parentTip = pin.parent, unread' = unread \ {offer},
             bought' = IF offer \in Paid[parentTip] THEN bought \cup {offer} ELSE bought,
             GoTo(IF unread' = {} THEN "parentAfter" ELSE "owners")
      PROVE  Inv'
  <2>1. bought' = (Offers \ unread') \cap Paid[pin.parent]
      BY <1>0, <1>1 DEF Inv, Payments
  <2>2. at' = (IF unread' = {} THEN "parentAfter" ELSE "owners") /\ unread' \subseteq Offers /\ bought' \subseteq Offers
      BY <1>1, <2>1 DEF GoTo, Inv, TypeOK
  <2>3. (TypeOK /\ Pinned /\ Listing /\ Payments /\ Committed)'
      BY <1>0, <1>1, <2>1, <2>2 DEF ReadOwner, Inv, TypeOK, Pinned, Listing, Payments, Committed,
         Reads, ChildReads,
                  GoTo, nodes, listing
  <2> QED
      BY <1>0, <1>1, <2>3, GoInv
<1>2. CASE Throw /\ UNCHANGED owners
    BY <1>0, <1>2, ThrowInv DEF ReadOwner
<1> QED
    BY <1>1, <1>2 DEF ReadOwner

(* An outer attempt that gives up or starts again.                          *)
LEMMA RetryParentInv ==
    ASSUME Inv, RetryParent, UNCHANGED <<nodes, pin, committed, listing, owners, lost>>, at # "done"
    PROVE  Inv'
<1>1. CASE tries.parent < MaxTries
  <2>1. tries' \in [parent : 1 .. MaxTries, child : 1 .. MaxTries]
      BY <1>1 DEF RetryParent, Inv, TypeOK
  <2>2. (TypeOK /\ Pinned /\ Listing /\ Payments /\ Committed)'
      BY <1>1, <2>1 DEF RetryParent, Inv, TypeOK, Pinned, Listing, Payments, Committed, Reads,
         ChildReads,
                  GoTo, nodes, listing, owners
  <2> QED
      BY <1>1, <2>2, GoInv DEF RetryParent
<1>2. CASE ~(tries.parent < MaxTries)
    BY <1>2, FailInv DEF RetryParent
<1> QED
    BY <1>1, <1>2

(* The parent's tip after the attempt.                                      *)
LEMMA ReadParentAfterInv == Inv /\ ReadParentAfter => Inv'
<1> SUFFICES ASSUME Inv, ReadParentAfter PROVE Inv'
    OBVIOUS
<1>0. /\ at = "parentAfter" /\ pin.parent \in Parents /\ pin.child \in Children
      /\ UNCHANGED <<parentTip, childTip, pin, committed, listed, after, pages, unread, bought, lost>>
    BY DEF Inv, Pinned, ReadParentAfter, ChildReads, nodes, listing, owners
<1>1. CASE parentTip = pin.parent /\ Return(Answer) /\ tries' = tries
  <2>1. listed = Locked[pin.child] /\ bought = Offers \cap Paid[pin.parent]
      BY <1>0 DEF Inv, Listing, Payments
  <2>2. at' = "done" /\ result' = Answer /\ Answer \in {"available", "gone", "bought"}
      BY <1>1 DEF Return, Answer
  <2>3. AnswersAreOfOneState'
      BY <1>0, <2>1, <2>2 DEF AnswersAreOfOneState, Answer
  <2>4. ProvenUnlessLost'
      BY <1>0, <2>2 DEF Inv, Committed, ChildReads, ProvenUnlessLost, ProvenOnCommittedChain
  <2> QED
      BY <1>0, <1>1, <2>2, <2>3, <2>4 DEF Inv, TypeOK, Pinned, Listing, Payments, Committed,
         Reads, Results, ChildReads
<1>2. CASE parentTip # pin.parent /\ RetryParent
    BY <1>0, <1>2, RetryParentInv DEF ReadParentAfter
<1>3. CASE Throw /\ tries' = tries
    BY <1>0, <1>3, ThrowInv DEF ReadParentAfter
<1> QED
    BY <1>1, <1>2, <1>3 DEF ReadParentAfter

(* An outer attempt that failed.                                            *)
LEMMA CatchParentInv == Inv /\ CatchParent => Inv'
<1> SUFFICES ASSUME Inv, CatchParent PROVE Inv'
    OBVIOUS
<1>1. CASE Return("failed") /\ tries' = tries
    BY <1>1, FailInv DEF CatchParent
<1>2. CASE parentTip # pin.parent /\ RetryParent
    BY <1>2, RetryParentInv DEF CatchParent
<1> QED
    BY <1>1, <1>2 DEF CatchParent

(* The chains move under the check.                                         *)
LEMMA MoveInv == Inv /\ (MoveParent \/ MoveChild) => Inv'
<1> SUFFICES ASSUME Inv, MoveParent \/ MoveChild PROVE Inv'
    OBVIOUS
<1>1. UNCHANGED <<at, tries, pin, committed, listed, after, pages, unread, bought, result>>
    BY DEF MoveParent, MoveChild, listing, owners
<1>2. parentTip' \in Parents /\ childTip' \in Children /\ lost' \in BOOLEAN /\ (lost => lost')
    BY DEF MoveParent, MoveChild, Inv, TypeOK
<1>3. TypeOK' /\ Pinned' /\ Listing' /\ Payments' /\ AnswersAreOfOneState' /\ ProvenUnlessLost'
    BY <1>1, <1>2 DEF Inv, TypeOK, Pinned, Listing, Payments, AnswersAreOfOneState,
       ProvenOnCommittedChain, ProvenUnlessLost
<1>4. ~lost' /\ committed \in Chain[childTip] => committed \in Chain[childTip']
    BY DEF MoveParent, MoveChild
<1>5. Committed'
    BY <1>1, <1>2, <1>4 DEF Inv, Committed
<1> QED
    BY <1>3, <1>5 DEF Inv

(* Every step keeps the inductive invariant.                                *)
LEMMA NextInv == Inv /\ [Next]_vars => Inv'
<1> SUFFICES ASSUME Inv, [Next]_vars PROVE Inv'
    OBVIOUS
<1>1. CASE Check
    BY <1>1, ReadParentBeforeInv, ReadChildrenInv, ReadBlockInv, ReadSameBlockInv,
       ReadChildBeforeInv,
       ReadInfoInv, ReadPageInv, ReadChildAfterInv, CatchChildInv, ReadOwnerInv, ReadParentAfterInv,
       CatchParentInv DEF Check
<1>2. CASE MoveParent \/ MoveChild
    BY <1>2, MoveInv
<1>3. CASE UNCHANGED vars
    BY <1>3 DEF vars, Inv, TypeOK, Pinned, Listing, Payments, Committed, AnswersAreOfOneState,
                ProvenOnCommittedChain, ProvenUnlessLost
<1> QED
    BY <1>1, <1>2, <1>3 DEF Next

(* It holds in every reachable state.                                       *)
LEMMA SpecInv == Spec => []Inv
BY InitInv, NextInv, PTL DEF Spec

(* The check keeps to its types; no loop goes past its limit.               *)
THEOREM OrderCheckTypes == Spec => []TypeOK
BY SpecInv, PTL DEF Inv

(* An answer is about one state of each chain, however both move (app.ts,   *)
(* reviewBuyOrder).                                                         *)
THEOREM AnswersOfOneState == Spec => []AnswersAreOfOneState
BY SpecInv, PTL DEF Inv

(* Orders are offered for payment only on a chain with the block the parent *)
(* commits, unless the child chain dropped that block after it had been     *)
(* compared, however the chains move (app.ts, requireCommittedChild).       *)
THEOREM ProvenWhileCommitted == Spec => []ProvenUnlessLost
BY SpecInv, PTL DEF Inv

----------------------------------------------------------------------------
(* The verification of a state proof                                        *)

(* What is walked is the expected block's dictionary, and what is sought in *)
(* it is to be found below the present node.                                *)
OnThePath ==
    /\ stage \in {"claim", "walk", "accepted"} => answer.dictionaryRoot = Proof!Root
    /\ stage = "walk" => key \notin DOMAIN claims /\ Below[Proof!Root][key] = Below[cid][remaining]

(* In a tree the walk only goes down.                                       *)
Descends ==
    \A held \in SUBSET answer.entries :
        Proof!Root \in held /\ Proof!IsTree(held) /\ stage = "walk"
            => cid \in held /\ \A c \in visited : Height[cid] < Height[c]

ProofInv ==
    /\ Proof!TypeOK
    /\ OnThePath
    /\ Proof!ClaimsHold
    /\ Descends
    /\ Proof!TrueClaimsAreVerified

(* A root is a node's identifier.                                           *)
LEMMA RootIsNode == Proof!TypeOK => Proof!Root \in CIDs
BY ProofAssumption DEF Proof!StateProofAssumption, Proof!TypeOK, Proof!Root

(* Without a claim there is no key.                                         *)
LEMMA NoKeys == DOMAIN Proof!NoClaims = {}
BY DEF Proof!NoClaims

(* The initial states satisfy the inductive invariant.                      *)
LEMMA ProofInit == Proof!Init => ProofInv
<1> SUFFICES ASSUME Proof!Init PROVE ProofInv
    OBVIOUS
<1>1. Proof!TypeOK
    BY NoKeys DEF Proof!Init, Proof!TypeOK, Proof!Answers
<1> QED
    BY <1>1, NoKeys DEF Proof!Init, ProofInv, OnThePath, Proof!ClaimsHold, Descends,
       Proof!TrueClaimsAreVerified

(* A step that only says how the verification goes on.                      *)
LEMMA EndInv ==
    ASSUME ProofInv, NEW how \in {"claim", "accepted", "rejected"}, Proof!End(how),
           how # "rejected" => answer.dictionaryRoot = Proof!Root,
           how = "rejected" =>
             \/ ~Proof!Anchored
             \/ key \in DOMAIN claims
             \/ expected # Below[Proof!Root][key]
             \/ \A held \in SUBSET answer.entries : ~(Proof!Root \in held /\ Proof!IsTree(held))
    PROVE  ProofInv'
<1>1. /\ UNCHANGED <<tip, kind, answer, claims, key, expected, cid, remaining, visited>>
      /\ stage' = how /\ Proof!Root' = Proof!Root /\ (Proof!Anchored <=> Proof!Anchored')
    BY DEF Proof!End, Proof!asked, Proof!claim, Proof!place, Proof!Root, Proof!Anchored
<1>2. Proof!TypeOK'
    BY <1>1 DEF ProofInv, Proof!TypeOK
<1>3. OnThePath' /\ Proof!ClaimsHold' /\ Descends'
    BY <1>1 DEF ProofInv, OnThePath, Proof!ClaimsHold, Descends
<1>4. Proof!TrueClaimsAreVerified'
    BY <1>1 DEF Proof!TrueClaimsAreVerified
<1> QED
    BY <1>2, <1>3, <1>4 DEF ProofInv

(* The root is anchored in the requested tip.                               *)
LEMMA AnchorInv == ProofInv /\ Proof!Anchor => ProofInv'
<1> SUFFICES ASSUME ProofInv, Proof!Anchor PROVE ProofInv'
    OBVIOUS
<1>1. Proof!Anchored => answer.dictionaryRoot = Proof!Root
    BY DEF Proof!Anchored, Proof!Root
<1>2. CASE Proof!Anchored
    BY <1>1, <1>2, EndInv DEF Proof!Anchor
<1>3. CASE ~Proof!Anchored
    BY <1>3, EndInv DEF Proof!Anchor
<1> QED
    BY <1>2, <1>3

(* The check may accept when it awaits no claim.                            *)
LEMMA AcceptInv == ProofInv /\ Proof!Accept => ProofInv'
<1> SUFFICES ASSUME ProofInv, Proof!Accept PROVE ProofInv'
    OBVIOUS
<1>1. answer.dictionaryRoot = Proof!Root
    BY DEF ProofInv, OnThePath, Proof!Accept
<1> QED
    BY <1>1, EndInv DEF Proof!Accept

(* A claim about a key starts a walk at the root, or ends the check.        *)
LEMMA ClaimInv ==
    ASSUME ProofInv, NEW k \in Keys, NEW value \in Values \cup {Absent}, Proof!Claim(k, value)
    PROVE  ProofInv'
<1>1. /\ UNCHANGED <<tip, kind, answer, claims>> /\ Proof!Root' = Proof!Root
      /\ key' = k /\ expected' = value /\ cid' = answer.dictionaryRoot /\ remaining' = k /\ visited' = {}
      /\ answer.dictionaryRoot = Proof!Root
    BY DEF Proof!Claim, Proof!asked, Proof!Root, ProofInv, OnThePath
<1>2. \/ stage' = "walk" /\ k \notin DOMAIN claims /\ Proof!Root \in answer.entries
      \/ stage' = "rejected" /\ (k \in DOMAIN claims \/ Proof!Root \notin answer.entries)
    BY <1>1 DEF Proof!Claim
<1>3. Proof!TypeOK'
    BY <1>1, <1>2, RootIsNode DEF ProofInv, Proof!TypeOK
<1>4. OnThePath' /\ Proof!ClaimsHold' /\ Descends'
    BY <1>1, <1>2 DEF ProofInv, OnThePath, Proof!ClaimsHold, Descends
<1>5. Proof!TrueClaimsAreVerified'
    BY <1>1, <1>2 DEF Proof!TrueClaimsAreVerified
<1> QED
    BY <1>3, <1>4, <1>5 DEF ProofInv

(* The walk has found what the dictionary says.                             *)
LEMMA FindInv ==
    ASSUME ProofInv, stage = "walk", NEW value, value = Below[Proof!Root][key], Proof!Find(value)
    PROVE  ProofInv'
<1>1. key \in Keys /\ value \in Values \cup {Absent} /\ answer.dictionaryRoot = Proof!Root
    BY RootIsNode, ProofAssumption DEF Proof!StateProofAssumption, ProofInv, Proof!TypeOK, OnThePath
<1>2. CASE value = expected
  <2>1. /\ UNCHANGED <<tip, kind, answer, key, expected, cid, remaining, visited>> /\ stage' = "claim"
        /\ Proof!Root' = Proof!Root
        /\ claims' = [k \in DOMAIN claims \cup {key} |-> IF k = key THEN value ELSE claims[k]]
      BY <1>2 DEF Proof!Find, Proof!asked, Proof!claim, Proof!place, Proof!Root
  <2>2. Proof!TypeOK'
      BY <1>1, <2>1 DEF ProofInv, Proof!TypeOK
  <2>3. Proof!ClaimsHold'
      BY <2>1 DEF ProofInv, Proof!ClaimsHold
  <2> QED
      BY <1>1, <2>1, <2>2, <2>3 DEF ProofInv, OnThePath, Descends, Proof!TrueClaimsAreVerified
<1>3. CASE value # expected
    BY <1>3, EndInv DEF Proof!Find
<1> QED
    BY <1>2, <1>3

(* There is no tree about the present node if that is no node of one.       *)
LEMMA NotATree ==
    ASSUME ProofInv, stage = "walk",
           \A held \in SUBSET answer.entries : ~(cid \in held /\ Proof!IsTree(held) /\ \A c \in visited : Height[cid] < Height[c])
    PROVE  \A held \in SUBSET answer.entries : ~(Proof!Root \in held /\ Proof!IsTree(held))
BY DEF ProofInv, Descends

(* The elements of a sequence over a set are in it.                         *)
LEMMA ElementOf ==
    ASSUME NEW S, NEW sequence \in Seq(S), NEW i \in DOMAIN sequence
    PROVE  sequence[i] \in S
OBVIOUS

(* Walking from an accepted node to a child.                                *)
LEMMA WalkInv == ProofInv /\ Proof!Walk => ProofInv'
<1> SUFFICES ASSUME ProofInv, Proof!Walk PROVE ProofInv'
    OBVIOUS
<1> DEFINE node == Content[cid]
           rest == Proof!Drop(remaining, Len(node.prefix))
<1>1. /\ stage = "walk" /\ cid \in CIDs /\ key \in Keys /\ remaining \in Keys /\ cid \in answer.entries
      /\ visited \subseteq CIDs /\ answer.entries \subseteq CIDs
    BY DEF ProofInv, Proof!TypeOK, Proof!Walk, Proof!Answers
<1>2. CASE cid \in visited \/ node = Undecodable
  <2>1. Proof!End("rejected")
      BY <1>1, <1>2 DEF Proof!Walk
  <2>2. Height[cid] \in Nat
      BY <1>1, ProofAssumption DEF Proof!StateProofAssumption
  <2>3. \A held \in SUBSET answer.entries : ~(cid \in held /\ Proof!IsTree(held) /\ \A c \in visited : Height[cid] < Height[c])
      BY <1>2, <2>2 DEF Proof!IsTree
  <2> QED
      BY <1>1, <2>1, <2>3, NotATree, EndInv
<1>3. CASE cid \notin visited /\ node # Undecodable
  <2>1. node \in Proof!Nodes /\ Proof!Says(node, remaining, Below[cid][remaining]) /\ Proof!Visit(node, rest)
      BY <1>1, <1>3, ProofAssumption DEF Proof!StateProofAssumption, Proof!BelowAssumption,
         Proof!Walk
  <2>2. Below[Proof!Root][key] = Below[cid][remaining]
      BY <1>1 DEF ProofInv, OnThePath
  <2>3. CASE ~Proof!StartsWith(remaining, node.prefix) /\ Proof!Find(Absent)
      BY <1>1, <2>1, <2>2, <2>3, FindInv DEF Proof!Says
  <2>4. CASE Proof!StartsWith(remaining, node.prefix) /\ rest = <<>> /\ Proof!Find(node.value)
      BY <1>1, <2>1, <2>2, <2>4, FindInv DEF Proof!Says
  <2>5. CASE Proof!StartsWith(remaining, node.prefix) /\ rest # <<>> /\ Proof!Descend(node, rest)
    <3> DEFINE matching == Proof!ChildrenAt(node, rest[1])
    <3>1. rest \in Keys
      <4>1. remaining \in Seq(Chars) /\ node.prefix \in Seq(Chars)
          BY <1>1, <2>1, ProofAssumption DEF Proof!StateProofAssumption, Proof!Nodes
      <4>2. Len(node.prefix) \in 0 .. Len(remaining)
          BY <4>1, <2>5 DEF Proof!StartsWith
      <4> QED
          BY <1>1, <4>2, ProofAssumption DEF Proof!StateProofAssumption
    <3>2. node.children # NoList =>
             /\ matching = {} => Below[cid][remaining] = Absent
             /\ \A i \in matching : matching = {i} => Below[cid][remaining] = Below[node.children[i].cid][rest]
        BY <2>1, <2>5 DEF Proof!Says
    <3>3. CASE node.children = NoList /\ Proof!End("rejected")
      <4>1. \A held \in SUBSET answer.entries : ~(cid \in held /\ Proof!IsTree(held))
          BY <3>3 DEF Proof!IsTree
      <4> QED
          BY <1>1, <3>3, <4>1, NotATree, EndInv
    <3>4. CASE node.children # NoList /\ matching = {} /\ Proof!Find(Absent)
        BY <1>1, <2>2, <3>2, <3>4, FindInv
    <3>5. CASE node.children # NoList /\ (\E i, j \in matching : i # j) /\ Proof!End("rejected")
      <4>1. \A held \in SUBSET answer.entries : ~(cid \in held /\ Proof!IsTree(held))
          BY <3>5 DEF Proof!IsTree, Proof!ChildrenAt
      <4> QED
          BY <1>1, <3>5, <4>1, NotATree, EndInv
    <3>6. ASSUME node.children # NoList, NEW i \in matching, matching = {i}, Proof!Follow(node.children[i].cid, rest)
          PROVE  ProofInv'
      <4> DEFINE next == node.children[i].cid
      <4>1. i \in DOMAIN node.children /\ next \in CIDs
        <5>1. node.children \in Seq([key : Chars, cid : CIDs])
            BY <2>1, <3>6 DEF Proof!Nodes
        <5>2. i \in DOMAIN node.children
            BY <3>6 DEF Proof!ChildrenAt
        <5>3. node.children[i] \in [key : Chars, cid : CIDs]
            BY <5>1, <5>2, ElementOf
        <5> QED
            BY <5>2, <5>3
      <4>2. \A held \in SUBSET answer.entries :
               cid \in held /\ Proof!IsTree(held) => next \in held /\ Height[next] < Height[cid]
          BY <3>6, <4>1 DEF Proof!IsTree, Proof!Linked
      <4>3. CASE next \notin answer.entries
        <5>1. Proof!End("rejected")
            BY <3>6, <4>3 DEF Proof!Follow
        <5> QED
            BY <1>1, <4>2, <4>3, <5>1, NotATree, EndInv
      <4>4. CASE next \in answer.entries
        <5>1. /\ UNCHANGED <<tip, kind, answer, stage, claims, key, expected>> /\ Proof!Root' = Proof!Root
              /\ cid' = next /\ remaining' = rest /\ visited' = visited \cup {cid}
            BY <3>6, <4>4 DEF Proof!Follow, Proof!GoTo, Proof!asked, Proof!claim, Proof!Root
        <5>2. Proof!TypeOK'
            BY <1>1, <3>1, <4>1, <4>4, <5>1 DEF ProofInv, Proof!TypeOK
        <5>3. OnThePath'
            BY <1>1, <2>2, <3>2, <3>6, <5>1 DEF ProofInv, OnThePath
        <5>4. Descends'
          <6> SUFFICES ASSUME NEW held \in SUBSET answer.entries, Proof!Root \in held, Proof!IsTree(held)
                       PROVE  next \in held /\ \A c \in visited \cup {cid} : Height[next] < Height[c]
              BY <5>1 DEF Descends
          <6>1. cid \in held /\ \A c \in visited : Height[cid] < Height[c]
              BY <1>1 DEF ProofInv, Descends
          <6>2. next \in held /\ Height[next] < Height[cid]
              BY <4>2, <6>1
          <6>3. Height[next] \in Nat /\ Height[cid] \in Nat /\ \A c \in visited : Height[c] \in Nat
              BY <1>1, <4>1, ProofAssumption DEF Proof!StateProofAssumption
          <6> QED
              BY <6>1, <6>2, <6>3
        <5>5. Proof!ClaimsHold' /\ Proof!TrueClaimsAreVerified'
            BY <1>1, <5>1 DEF ProofInv, Proof!ClaimsHold, Proof!TrueClaimsAreVerified
        <5> QED
            BY <5>2, <5>3, <5>4, <5>5 DEF ProofInv
      <4> QED
          BY <4>3, <4>4
    <3> QED
        BY <2>5, <3>3, <3>4, <3>5, <3>6 DEF Proof!Descend
  <2> QED
      BY <2>1, <2>3, <2>4, <2>5 DEF Proof!Visit
<1> QED
    BY <1>2, <1>3

(* Every step keeps the invariant.                                          *)
LEMMA ProofNext == ProofInv /\ [Proof!Next]_(Proof!vars) => ProofInv'
<1> SUFFICES ASSUME ProofInv, [Proof!Next]_(Proof!vars) PROVE ProofInv'
    OBVIOUS
<1>1. CASE Proof!Next
    BY <1>1, AnchorInv, AcceptInv, WalkInv, ClaimInv DEF Proof!Next
<1>2. CASE UNCHANGED Proof!vars
    BY <1>2 DEF Proof!vars, ProofInv, Proof!TypeOK, OnThePath, Proof!ClaimsHold, Descends,
       Proof!TrueClaimsAreVerified, Proof!Root, Proof!Anchored
<1> QED
    BY <1>1, <1>2

(* In both, whichever runs: the verification takes its own steps only.      *)
LEMMA ProofHolds == AllSpec => []ProofInv
<1>1. AllInit => ProofInv
    BY ProofInit DEF AllInit
<1>2. ProofInv /\ [CheckStep \/ ProofStep \/ ProofRests]_all => ProofInv'
  <2> SUFFICES ASSUME ProofInv, [CheckStep \/ ProofStep \/ ProofRests]_all PROVE ProofInv'
      OBVIOUS
  <2>1. CASE ProofStep
      BY <2>1, ProofNext DEF ProofStep
  <2>2. CASE CheckStep \/ ProofRests \/ UNCHANGED all
    <3>1. UNCHANGED Proof!vars
        BY <2>2 DEF CheckStep, ProofRests, all, proofVars, Proof!vars
    <3> QED
        BY <3>1, ProofNext
  <2> QED
      BY <2>1, <2>2
<1> QED
    BY <1>1, <1>2, PTL DEF AllSpec

(* No answer makes the wallet believe of a block's dictionary what is not so*)
(* (node.ts, verifySparseProof).                                            *)
THEOREM VerifiedClaimsHold == AllSpec => []ClaimsHold
<1>1. ProofInv => ClaimsHold
    BY DEF ProofInv, ClaimsHold
<1> QED
    BY <1>1, ProofHolds, PTL

(* No true claim about a tree that the answer brings whole is refused.      *)
THEOREM TrueClaimsAreNotRefused == AllSpec => []TrueClaimsAreVerified
<1>1. ProofInv => TrueClaimsAreVerified
    BY DEF ProofInv, TrueClaimsAreVerified
<1> QED
    BY <1>1, ProofHolds, PTL
=============================================================================
