----------------------------- MODULE OrderCheck -----------------------------
(***************************************************************************)
(* The check of the sell orders a purchase names (src/src/popup/app.ts,    *)
(* reviewBuyOrder.verifySelected): some ten reads of two nodes, one after  *)
(* the other, while both chains move.  The receipts are read in the state  *)
(* of one parent block and the deposits, page by page, in that of one child*)
(* block (withStableTip); the child node's chain must contain the block its*)
(* parent commits (requireCommittedChild).                                 *)
(*                                                                         *)
(* What a node proves is so in the block it proves it for; it proves for   *)
(* its current tip only.  Any read may fail.  A block stands for its hash. *)
(***************************************************************************)
EXTENDS Naturals, FiniteSets

CONSTANTS
    Parents, Children,   \* blocks
    Chain,               \* each child block with those before it
    Commits,             \* the child block each parent block commits, or None
    Deposits,            \* keys in the order a node lists them
    Locked,              \* the deposits in each child block's state
    Paid,                \* the deposits with a receipt in each parent block's state
    Offers,              \* what the purchase names
    PageSize, MaxPages,  \* 100 and 100
    MaxTries,            \* 3
    None

ASSUME OrderCheckAssumption ==
    /\ Chain \in [Children -> SUBSET Children]
    /\ \A block \in Children : block \in Chain[block] /\ \A before \in Chain[block] : Chain[before] \subseteq Chain[block]
    /\ Commits \in [Parents -> Children \cup {None}]
    /\ Deposits \subseteq Nat \ {0} /\ IsFiniteSet(Deposits)
    /\ Locked \in [Children -> SUBSET Deposits]
    /\ Paid \in [Parents -> SUBSET Deposits]
    /\ Offers \subseteq Deposits /\ Offers # {}
    /\ PageSize \in Nat \ {0} /\ MaxPages \in Nat \ {0} /\ MaxTries \in Nat \ {0}
    /\ None \notin Parents \cup Children

VARIABLES
    parentTip, childTip,   \* the nodes' current blocks
    at,                    \* the read the check waits for
    tries,                 \* attempts begun at each stable tip
    pin,                   \* the tips read before
    committed,             \* the child block the pinned parent block commits
    listed, after, pages,  \* deposits listed so far, the cursor and the page number
    unread, bought,        \* offers whose receipt is still to be read; those that have one
    result,                \* "none" until the check returns
    lost                   \* history: the child chain dropped the committed block after it was compared

nodes   == <<parentTip, childTip>>
listing == <<listed, after, pages>>
owners  == <<unread, bought>>
vars    == <<parentTip, childTip, at, tries, pin, committed, listed, after, pages, unread, bought, result, lost>>

Reads == {"parentBefore", "children", "block", "sameBlock", "childBefore", "info", "page",
          "childAfter", "childCaught", "owners", "parentAfter", "parentCaught", "done"}

Results == {"none", "available", "gone", "bought", "failed"}

Init ==
    /\ parentTip \in Parents /\ childTip \in Children
    /\ at = "parentBefore" /\ tries = [parent |-> 1, child |-> 1]
    /\ pin = [parent |-> None, child |-> None] /\ committed = None
    /\ listed = {} /\ after = 0 /\ pages = 0
    /\ unread = Offers /\ bought = {} /\ result = "none" /\ lost = FALSE

GoTo(read) == at' = read /\ result' = result

Return(answer) == at' = "done" /\ result' = answer

(* What is thrown between the two reads of the parent's tip.                *)
Throw == GoTo("parentCaught")

----------------------------------------------------------------------------
(* The parent's tip, and the child block it commits                         *)

ReadParentBefore ==
    /\ at = "parentBefore"
    /\ \/ pin' = [pin EXCEPT !.parent = parentTip] /\ GoTo("children")
       \/ pin' = pin /\ Return("failed")
    /\ UNCHANGED <<nodes, tries, committed, listing, owners, lost>>

(* adjacentTips: the pinned block's children.                               *)
ReadChildren ==
    /\ at = "children"
    /\ \/ Commits[pin.parent] # None /\ committed' = Commits[pin.parent] /\ GoTo("block")
       \/ committed' = committed /\ Throw
    /\ UNCHANGED <<nodes, tries, pin, listing, owners, lost>>

(* The child node may keep blocks of other branches, too.                   *)
ReadBlock ==
    /\ at = "block"
    /\ GoTo("sameBlock") \/ Throw
    /\ UNCHANGED <<nodes, tries, pin, committed, listing, owners, lost>>

(* Mutant: that the node has the block is enough.                           *)
ReadAnyBlock ==
    /\ at = "sameBlock"
    /\ \/ GoTo("childBefore") /\ tries' = [tries EXCEPT !.child = 1] /\ lost' = FALSE
       \/ Throw /\ UNCHANGED <<tries, lost>>
    /\ UNCHANGED <<nodes, pin, committed, listing, owners>>

(* The block the node has at that height is the committed one.              *)
ReadSameBlock ==
    /\ at = "sameBlock"
    /\ \/ /\ committed \in Chain[childTip]
          /\ GoTo("childBefore") /\ tries' = [tries EXCEPT !.child = 1] /\ lost' = FALSE
       \/ Throw /\ UNCHANGED <<tries, lost>>
    /\ UNCHANGED <<nodes, pin, committed, listing, owners>>

----------------------------------------------------------------------------
(* The deposits at the child's tip (node.ts activeDeposits)                 *)

ReadChildBefore ==
    /\ at = "childBefore"
    /\ \/ pin' = [pin EXCEPT !.child = childTip] /\ GoTo("info")
       \/ pin' = pin /\ Throw
    /\ UNCHANGED <<nodes, tries, committed, listing, owners, lost>>

ReadInfo ==
    /\ at = "info"
    /\ \/ childTip = pin.child /\ GoTo("page")
       \/ GoTo("childCaught")
    /\ listed' = {} /\ after' = 0 /\ pages' = 0
    /\ UNCHANGED <<nodes, tries, pin, committed, owners, lost>>

Rest == {deposit \in Locked[childTip] : deposit > after}

(* The first PageSize of the rest.                                          *)
Page == {deposit \in Rest : Cardinality({other \in Rest : other <= deposit}) <= PageSize}

(* The cursor of the next page is the last deposit of this one.             *)
Advance == \E last \in Page : /\ \A other \in Page : other <= last
                              /\ after' = last /\ pages' = pages + 1 /\ GoTo("page")

(* Mutant: the listing ends at the page limit.                              *)
ReadPagesToLimit ==
    /\ at = "page"
    /\ \/ /\ childTip = pin.child
          /\ listed' = listed \cup Page
          /\ IF Page = Rest \/ pages + 1 = MaxPages THEN GoTo("childAfter") /\ UNCHANGED <<after, pages>>
             ELSE Advance
       \/ GoTo("childCaught") /\ UNCHANGED listing
    /\ UNCHANGED <<nodes, tries, pin, committed, owners, lost>>

(* A page must be proven for the pinned block, and the last one must come   *)
(* within the limit.                                                        *)
ReadPage ==
    /\ at = "page"
    /\ \/ /\ childTip = pin.child
          /\ listed' = listed \cup Page
          /\ IF Page = Rest THEN GoTo("childAfter") /\ UNCHANGED <<after, pages>>
             ELSE pages + 1 < MaxPages /\ Advance
       \/ GoTo("childCaught") /\ UNCHANGED listing
    /\ UNCHANGED <<nodes, tries, pin, committed, owners, lost>>

RetryChild ==
    IF tries.child < MaxTries
    THEN tries' = [tries EXCEPT !.child = @ + 1] /\ GoTo("childBefore")
    ELSE tries' = tries /\ Throw

(* Only an unmoved tip ends the loop; a failure to read it is caught with   *)
(* the other failures.                                                      *)
ReadChildAfter ==
    /\ at = "childAfter"
    /\ \/ childTip = pin.child /\ GoTo("owners") /\ unread' = Offers /\ bought' = {} /\ tries' = tries
       \/ childTip # pin.child /\ RetryChild /\ UNCHANGED owners
       \/ GoTo("childCaught") /\ UNCHANGED <<tries, owners>>
    /\ UNCHANGED <<nodes, pin, committed, listing, lost>>

CatchChild ==
    /\ at = "childCaught"
    /\ \/ Throw /\ tries' = tries
       \/ childTip # pin.child /\ RetryChild
    /\ UNCHANGED <<nodes, pin, committed, listing, owners, lost>>

----------------------------------------------------------------------------
(* The receipts at the parent's tip                                         *)

(* The reads run at once and are answered in any order; the first failure   *)
(* fails them all.                                                          *)
ReadOwner(offer) ==
    /\ at = "owners" /\ offer \in unread
    /\ \/ /\ parentTip = pin.parent
          /\ unread' = unread \ {offer}
          /\ bought' = IF offer \in Paid[parentTip] THEN bought \cup {offer} ELSE bought
          /\ GoTo(IF unread' = {} THEN "parentAfter" ELSE "owners")
       \/ Throw /\ UNCHANGED owners
    /\ UNCHANGED <<nodes, tries, pin, committed, listing, lost>>

Answer ==
    IF ~(Offers \subseteq listed) THEN "gone" ELSE IF bought # {} THEN "bought" ELSE "available"

(* Mutant: the check starts again until the tip stands still.               *)
RetryForever == GoTo("parentBefore") /\ tries' = tries

RetryParent ==
    IF tries.parent < MaxTries
    THEN tries' = [tries EXCEPT !.parent = @ + 1] /\ GoTo("parentBefore")
    ELSE tries' = tries /\ Return("failed")

ReadParentAfter ==
    /\ at = "parentAfter"
    /\ \/ parentTip = pin.parent /\ Return(Answer) /\ tries' = tries
       \/ parentTip # pin.parent /\ RetryParent
       \/ Throw /\ tries' = tries
    /\ UNCHANGED <<nodes, pin, committed, listing, owners, lost>>

CatchParent ==
    /\ at = "parentCaught"
    /\ \/ Return("failed") /\ tries' = tries
       \/ parentTip # pin.parent /\ RetryParent
    /\ UNCHANGED <<nodes, pin, committed, listing, owners, lost>>

Check ==
    \/ ReadParentBefore \/ ReadChildren \/ ReadBlock \/ ReadSameBlock
    \/ ReadChildBefore \/ ReadInfo \/ ReadPage \/ ReadChildAfter \/ CatchChild
    \/ \E offer \in Offers : ReadOwner(offer)
    \/ ReadParentAfter \/ CatchParent

----------------------------------------------------------------------------
(* The chains                                                               *)

MoveParent ==
    /\ parentTip' \in Parents \ {parentTip}
    /\ UNCHANGED <<childTip, at, tries, pin, committed, listing, owners, result, lost>>

MoveChild ==
    /\ childTip' \in Children \ {childTip}
    /\ lost' = (lost \/ (committed \in Chain[childTip] /\ committed \notin Chain[childTip']))
    /\ UNCHANGED <<parentTip, at, tries, pin, committed, listing, owners, result>>

Next == Check \/ MoveParent \/ MoveChild

Spec == Init /\ [][Next]_vars

(* A read is answered or times out (node.ts nodeJSON: 8 s).                 *)
FairSpec == Spec /\ WF_vars(Check)

----------------------------------------------------------------------------
(* Properties                                                               *)

TypeOK ==
    /\ parentTip \in Parents /\ childTip \in Children
    /\ at \in Reads /\ result \in Results
    /\ tries \in [parent : 1 .. MaxTries, child : 1 .. MaxTries]
    /\ pin \in [parent : Parents \cup {None}, child : Children \cup {None}]
    /\ committed \in Children \cup {None}
    /\ listed \subseteq Deposits /\ after \in Nat /\ pages \in 0 .. MaxPages
    /\ unread \subseteq Offers /\ bought \subseteq Offers /\ lost \in BOOLEAN

(* Whatever moved meanwhile, and even where a tip moved away and back, an   *)
(* answer is about one state of each chain: available orders are all locked *)
(* in the pinned child block and unpaid in the pinned parent block, and an  *)
(* order is refused only for what is so there (app.ts:1430, "Each must be   *)
(* proven in the child node's current state with exactly the stated amount  *)
(* ... and have no receipt on the parent").                                 *)
AnswersAreOfOneState ==
    /\ result = "available" => Offers \subseteq Locked[pin.child] \ Paid[pin.parent]
    /\ result = "gone"      => ~(Offers \subseteq Locked[pin.child])
    /\ result = "bought"    => Offers \cap Paid[pin.parent] # {}

(* The chain the orders are proven on contains the block the parent commits *)
(* (app.ts:1431, "on a chain that contains the block the parent commits").  *)
(* A claim: the comparison and the pin are two reads of the child node, and *)
(* a reorganisation between them defeats it.                                *)
ProvenOnCommittedChain ==
    result = "available" => Commits[pin.parent] \in Chain[pin.child]

(* Nothing else does: unless the child chain dropped the very block after it*)
(* had been compared, available orders are proven on the committed chain,   *)
(* however often either tip moved, an attempt failed and the comparison or  *)
(* the listing began again (app.ts:1439, requireCommittedChild).            *)
ProvenUnlessLost == ProvenOnCommittedChain \/ lost

(* However the chains move, a check ends.                                   *)
CheckEnds == <>(at = "done")
=============================================================================
