------------------------------ MODULE Recovery ------------------------------
(***************************************************************************)
(* Sending transfers and keeping them recoverable                          *)
(* (src/src/popup/app.ts): the records of one account on one chain in the  *)
(* settings, the wallet pages that sign, save, submit, replace, resubmit,  *)
(* archive and dismiss, and the node's pool and chain as the pages see it. *)
(*                                                                         *)
(* A page's function is cut at every await.  Pages share the stored        *)
(* settings; an update loads and saves them under one cross-page lock, but *)
(* every other read (known, the node, the review screen's) is outside it.  *)
(* A transaction's CID is computed from its body and a deterministic       *)
(* signature: equal terms are the same transaction.  Balances, fee floors, *)
(* the display-only list of sent transactions and reorganisations of the   *)
(* chain are left out.                                                     *)
(***************************************************************************)
EXTENDS Integers, FiniteSets, Sequences, SequencesExt

CONSTANTS
    Pages,
    Payments,           \* what a user may ask for: a recipient and an amount
    None,
    Empty,              \* a block without a transaction of this account
    ConfirmationDepth,  \* 6 in the code
    MaxNonce,           \* bound on the account nonces a run reaches
    MaxFee,             \* bound on the fees a run tries
    MaxHeight,          \* bound on the chain's height
    MaxDismissals       \* bound on the records a run dismisses

Transactions == [payment : Payments, nonce : 0 .. MaxNonce, fee : 0 .. MaxFee]

ASSUME RecoveryAssumption ==
    /\ ConfirmationDepth \in Nat \ {0}
    /\ {MaxNonce, MaxFee, MaxHeight, MaxDismissals} \subseteq Nat
    /\ None \notin Transactions
    /\ Empty \notin Transactions

Records == [pending : SUBSET Transactions, confirmed : SUBSET Transactions]

Kinds  == {"none", "send", "replace", "dismiss"}
Stages == {"idle", "review", "save", "submit"}

FlowRecords ==
    [kind : Kinds, at : Stages,
     tx           : Transactions \cup {None},
     original     : Transactions \cup {None},  \* the attempt a replacement outbids
     acknowledged : SUBSET Transactions]       \* the saved transactions the user was shown

Passes ==
    [at : {"idle", "tip", "save"},
     included : SUBSET (Transactions \X (1 .. MaxHeight)), \* where the node reported them
     deep     : SUBSET Transactions]                       \* judged to be confirmed

Tasks == {"flow", "pass"}

VARIABLES
    stored,   \* the records in the extension's storage
    known,    \* each page's copy of them, as it last loaded or saved
    flow,     \* what each page's user is doing
    pass,     \* each page's reconciliation with the node
    holder,   \* the holder of the settings lock and what it loaded
    submitted, \* transactions sent to the node; any of them may still be mined
    chain,     \* the node's canonical chain, from after the account was funded
    seenBy,    \* history: <<t, u>> when t was saved by a send that acknowledged u,
               \* a transaction of an earlier nonce
    dismissed  \* history: transactions whose records a user dismissed

wallet == <<stored, known, flow, pass, holder, seenBy, dismissed>>
node   == <<submitted, chain>>
vars   == <<stored, known, flow, pass, holder, submitted, chain, seenBy, dismissed>>

Idle     == [kind |-> "none", at |-> "idle", tx |-> None, original |-> None, acknowledged |-> {}]
IdlePass == [at |-> "idle", included |-> {}, deep |-> {}]
NoRecords == [pending |-> {}, confirmed |-> {}]

Saved(records) == records.pending \cup records.confirmed

Included == ToSet(chain) \ {Empty}

(* The account's nonce in the node's current state.                         *)
Nonce == Cardinality({i \in DOMAIN chain : chain[i] # Empty})

Init ==
    /\ stored = NoRecords
    /\ known = [page \in Pages |-> NoRecords]
    /\ flow = [page \in Pages |-> Idle]
    /\ pass = [page \in Pages |-> IdlePass]
    /\ holder = None
    /\ submitted = {} /\ chain = <<>>
    /\ seenBy = {} /\ dismissed = {}

----------------------------------------------------------------------------
(* Sending                                                                  *)

Go(page, stage) == flow' = [flow EXCEPT ![page].at = stage]

(* The form reads the account's nonce and opens the review of one payment.  *)
Review(page, payment, fee) ==
    /\ flow[page] = Idle
    /\ Nonce <= MaxNonce
    /\ flow' = [flow EXCEPT ![page] =
           [Idle EXCEPT !.kind = "send", !.at = "review",
                        !.tx = [payment |-> payment, nonce |-> Nonce, fee |-> fee]]]
    /\ UNCHANGED <<stored, known, pass, holder, node, seenBy, dismissed>>

(* Mutant: the page looks at its own copy of the records.                   *)
ConfirmKnown(page) ==
    LET unresolved == known[page].pending
        asked      == flow[page].acknowledged
    IN  /\ flow[page].kind = "send" /\ flow[page].at = "review"
        /\ flow' = [flow EXCEPT ![page].at = IF unresolved \in {{}, asked} THEN "save" ELSE "review",
                                ![page].acknowledged = IF unresolved = {} THEN @ ELSE unresolved]
        /\ UNCHANGED <<stored, known, pass, holder, node, seenBy, dismissed>>

(* Signing while saved transactions may still confirm takes a second press  *)
(* made after exactly those transactions were shown.  A refusal by the      *)
(* signer leaves the review as it was.                                      *)
Confirm(page) ==
    LET unresolved == stored.pending
        asked      == flow[page].acknowledged
    IN  /\ flow[page].kind = "send" /\ flow[page].at = "review"
        /\ flow' = [flow EXCEPT ![page].at = IF unresolved \in {{}, asked} THEN "save" ELSE "review",
                                ![page].acknowledged = IF unresolved = {} THEN @ ELSE unresolved]
        /\ UNCHANGED <<stored, known, pass, holder, node, seenBy, dismissed>>

(* Whatever the node answers, or if it never does, the records stay.        *)
Submit(page) ==
    /\ flow[page].at = "submit"
    /\ submitted' \in {submitted, submitted \cup {flow[page].tx}}
    /\ flow' = [flow EXCEPT ![page] = Idle]
    /\ UNCHANGED <<stored, known, pass, holder, chain, seenBy, dismissed>>

Resubmit(page, tx) ==
    /\ tx \in Saved(known[page])
    /\ submitted' = submitted \cup {tx}
    /\ UNCHANGED <<wallet, chain>>

(* Increase fee: the same payment and nonce, signed after the node was      *)
(* asked whether the nonce is still free.                                   *)
Replace(page, original, fee) ==
    /\ flow[page] = Idle
    /\ original \in known[page].pending
    /\ fee > original.fee
    /\ Nonce <= original.nonce
    /\ flow' = [flow EXCEPT ![page] =
           [Idle EXCEPT !.kind = "replace", !.at = "save", !.original = original,
                        !.tx = [original EXCEPT !.fee = fee]]]
    /\ UNCHANGED <<stored, known, pass, holder, node, seenBy, dismissed>>

Dismiss(page, tx) ==
    /\ flow[page] = Idle
    /\ tx \in Saved(known[page])
    /\ Cardinality(dismissed \cup {tx}) <= MaxDismissals
    /\ flow' = [flow EXCEPT ![page] = [Idle EXCEPT !.kind = "dismiss", !.at = "save", !.tx = tx]]
    /\ UNCHANGED <<stored, known, pass, holder, node, seenBy, dismissed>>

Leave(page) ==
    /\ flow[page].at = "review"
    /\ flow' = [flow EXCEPT ![page] = Idle]
    /\ UNCHANGED <<stored, known, pass, holder, node, seenBy, dismissed>>

----------------------------------------------------------------------------
(* Reconciling the pending records with the node                            *)

Heights(tx) == {height \in DOMAIN chain : chain[height] = tx}

(* The page asks the node for the status of every pending record it knows   *)
(* of; some reads may fail.  Only those reported as included go on.         *)
Reconcile(page) ==
    /\ pass[page] = IdlePass
    /\ \E answered \in SUBSET (known[page].pending \cap Included) :
          /\ answered # {}
          /\ pass' = [pass EXCEPT ![page] =
                [IdlePass EXCEPT !.at = "tip", !.included =
                    UNION {{<<tx, height>> : height \in Heights(tx)} : tx \in answered}]]
    /\ UNCHANGED <<stored, known, flow, holder, node, seenBy, dismissed>>

(* Mutant: the block that includes the transaction is not counted right.    *)
ReadTipEarly(page) ==
    /\ pass[page].at = "tip"
    /\ LET deep == {tx \in Transactions :
                       \E height \in 1 .. MaxHeight :
                          /\ <<tx, height>> \in pass[page].included
                          /\ Len(chain) - height + 2 >= ConfirmationDepth}
       IN  pass' = [pass EXCEPT ![page] =
                       IF deep = {} THEN IdlePass ELSE [IdlePass EXCEPT !.at = "save", !.deep = deep]]
    /\ UNCHANGED <<stored, known, flow, holder, node, seenBy, dismissed>>

(* A second request reads the tip; the first answer is not looked at again. *)
ReadTip(page) ==
    /\ pass[page].at = "tip"
    /\ LET deep == {tx \in Transactions :
                       \E height \in 1 .. MaxHeight :
                          /\ <<tx, height>> \in pass[page].included
                          /\ Len(chain) - height + 1 >= ConfirmationDepth}
       IN  pass' = [pass EXCEPT ![page] =
                       IF deep = {} THEN IdlePass ELSE [IdlePass EXCEPT !.at = "save", !.deep = deep]]
    /\ UNCHANGED <<stored, known, flow, holder, node, seenBy, dismissed>>

----------------------------------------------------------------------------
(* Updating the stored records                                              *)

Holds(page, task) == holder # None /\ holder.page = page /\ holder.task = task

Wants(page, task) ==
    IF task = "flow" THEN flow[page].at = "save" ELSE pass[page].at = "save"

(* Mutant: an update changes the page's copy instead of what is stored.     *)
LoadKnown(page, task) ==
    /\ Wants(page, task) /\ holder = None
    /\ holder' = [page |-> page, task |-> task, loaded |-> known[page]]
    /\ UNCHANGED <<stored, known, flow, pass, node, seenBy, dismissed>>

(* The lock is granted and the stored settings are loaded.                  *)
Load(page, task) ==
    /\ Wants(page, task) /\ holder = None
    /\ holder' = [page |-> page, task |-> task, loaded |-> stored]
    /\ UNCHANGED <<stored, known, flow, pass, node, seenBy, dismissed>>

(* Mutant: a replacement is compared with the attempts the page knows of.   *)
OutbidsKnown(page) ==
    /\ flow[page].original \in known[page].pending
    /\ \A tx \in Saved(known[page]) : tx.nonce = flow[page].tx.nonce => tx.fee < flow[page].tx.fee

(* What the update of a replacement checks of the records it loaded.        *)
Outbids(page) ==
    /\ flow[page].original \in holder.loaded.pending
    /\ \A tx \in Saved(holder.loaded) : tx.nonce = flow[page].tx.nonce => tx.fee < flow[page].tx.fee

Allowed(page, task) == (task = "flow" /\ flow[page].kind = "replace") => Outbids(page)

Changed(page, task) ==
    LET loaded == holder.loaded
    IN  CASE task = "pass" ->
                [pending   |-> loaded.pending \ pass[page].deep,
                 confirmed |-> loaded.confirmed \cup (loaded.pending \cap pass[page].deep)]
          [] task = "flow" /\ flow[page].kind = "dismiss" ->
                [pending   |-> loaded.pending \ {flow[page].tx},
                 confirmed |-> loaded.confirmed \ {flow[page].tx}]
          [] task = "flow" /\ flow[page].kind \in {"send", "replace"} ->
                [loaded EXCEPT !.pending = @ \cup {flow[page].tx}]

(* The page goes on once its update is settled.                             *)
Resume(page, task, stage) ==
    IF task = "pass"
    THEN pass' = [pass EXCEPT ![page] = IdlePass] /\ UNCHANGED flow
    ELSE /\ flow' = [flow EXCEPT ![page] = IF stage = "idle" THEN Idle ELSE [@ EXCEPT !.at = stage]]
         /\ UNCHANGED pass

Save(page, task) ==
    /\ Holds(page, task) /\ Allowed(page, task)
    /\ stored' = Changed(page, task)
    /\ known' = [known EXCEPT ![page] = Changed(page, task)]
    /\ holder' = None
    /\ Resume(page, task, IF flow[page].kind = "dismiss" THEN "idle" ELSE "submit")
    /\ seenBy' = IF task = "flow" /\ flow[page].kind = "send"
                 THEN seenBy \cup {<<flow[page].tx, earlier>> :
                          earlier \in {tx \in flow[page].acknowledged : tx.nonce < flow[page].tx.nonce}}
                 ELSE seenBy
    /\ dismissed' = IF task = "flow" /\ flow[page].kind = "dismiss"
                    THEN dismissed \cup {flow[page].tx} ELSE dismissed
    /\ UNCHANGED node

(* Storage refuses, or the replacement is outbid: nothing is submitted.     *)
SaveFails(page, task) ==
    /\ Holds(page, task)
    /\ holder' = None
    /\ Resume(page, task, IF flow[page].kind = "send" THEN "review" ELSE "idle")
    /\ UNCHANGED <<stored, known, node, seenBy, dismissed>>

Refresh(page) ==
    /\ known[page] # stored
    /\ known' = [known EXCEPT ![page] = stored]
    /\ UNCHANGED <<stored, flow, pass, holder, node, seenBy, dismissed>>

(* A page closes at any point and is opened again: its memory goes and the  *)
(* browser releases its lock.                                               *)
Reopen(page) ==
    /\ known' = [known EXCEPT ![page] = stored]
    /\ flow' = [flow EXCEPT ![page] = Idle]
    /\ pass' = [pass EXCEPT ![page] = IdlePass]
    /\ holder' = IF holder # None /\ holder.page = page THEN None ELSE holder
    /\ UNCHANGED <<stored, node, seenBy, dismissed>>

----------------------------------------------------------------------------
(* The node and its chain                                                   *)

(* Of the transactions sent to it the node mines any that has the account's *)
(* next nonce: what it refused or forgot meanwhile, and which of two        *)
(* attempts it preferred, makes no difference to the pages.                 *)
Mine(block) ==
    /\ Len(chain) < MaxHeight
    /\ \/ block = Empty
       \/ block \in submitted /\ block.nonce = Nonce
    /\ chain' = Append(chain, block)
    /\ UNCHANGED <<wallet, submitted>>

PageStep(page) ==
    \/ \E payment \in Payments, fee \in 0 .. MaxFee : Review(page, payment, fee)
    \/ Confirm(page) \/ Submit(page) \/ Leave(page)
    \/ \E tx \in Transactions : Resubmit(page, tx) \/ Dismiss(page, tx)
    \/ \E original \in Transactions, fee \in 0 .. MaxFee : Replace(page, original, fee)
    \/ Reconcile(page) \/ ReadTip(page)
    \/ \E task \in Tasks : Load(page, task) \/ Save(page, task) \/ SaveFails(page, task)
    \/ Refresh(page) \/ Reopen(page)

NodeStep == \E block \in Transactions \cup {Empty} : Mine(block)

Next == NodeStep \/ \E page \in Pages : PageStep(page)

Spec == Init /\ [][Next]_vars

----------------------------------------------------------------------------
(* Properties                                                               *)

TypeOK ==
    /\ stored \in Records
    /\ known \in [Pages -> Records]
    /\ flow \in [Pages -> FlowRecords]
    /\ pass \in [Pages -> Passes]
    /\ holder \in [page : Pages, task : Tasks, loaded : Records] \cup {None}
    /\ submitted \subseteq Transactions
    /\ chain \in Seq(Transactions \cup {Empty})
    /\ Len(chain) <= MaxHeight
    /\ seenBy \subseteq Transactions \X Transactions
    /\ dismissed \subseteq Transactions

(* Whatever reached the node can be recovered: its signed bytes are saved,  *)
(* unless a user dismissed them, whichever page closed or failed to save    *)
(* at whichever moment (app.ts reviewScreen.confirm and replacementScreen   *)
(* save before they submit; README "Status").                               *)
SubmittedIsSaved == submitted \subseteq Saved(stored) \cup dismissed

Outbox == INSTANCE Outbox WITH
    kept <- Saved(stored), sent <- submitted, forgotten <- dismissed

(* Whatever its pages do and wherever they stop, the wallet is an Outbox:   *)
(* no update of one page undoes what another saved, archiving moves, and a  *)
(* record leaves the settings only by its own dismissal (app.ts update,     *)
(* which loads again under the lock; archivePendingSubmission).             *)
ImplementsOutbox == Outbox!Spec

(* A replacement is saved only as the best of all saved attempts at its     *)
(* nonce, although other pages may have replaced the same payment since its *)
(* screen was opened (app.ts:2085, replacementScreen).                      *)
ReplacementOutbids ==
    [][ \A page \in Pages :
          /\ flow[page].kind = "replace"
          /\ flow[page].at = "save" /\ flow'[page].at = "submit"
          => \A tx \in Saved(stored) :
                tx.nonce = flow[page].tx.nonce => tx.fee < flow[page].tx.fee ]_vars

(* An account that pays twice was warned: the send that made the later      *)
(* payment, though a replacement of it may be mined, had acknowledged the   *)
(* earlier one, which otherwise had been confirmed or dismissed (app.ts     *)
(* confirm, README "Status": "requires an explicit acknowledgement").       *)
PaysTwiceKnowingly ==
    \A i, j \in DOMAIN chain :
        i < j /\ chain[i] # Empty /\ chain[j] # Empty =>
            \/ \E warned \in seenBy :
                  /\ warned[1] \in Transactions /\ warned[2] = chain[i]
                  /\ warned[1].payment = chain[j].payment /\ warned[1].nonce = chain[j].nonce
            \/ chain[i] \in stored.confirmed \cup dismissed

(* An archived payment is one that was mined and has the confirmations the  *)
(* archive stands for, although they are counted from two answers of the    *)
(* node and archived two awaits later (app.ts inclusionDepth,               *)
(* reconcileRecovery).                                                      *)
ArchivedIsConfirmed ==
    \A tx \in stored.confirmed :
        \E height \in Heights(tx) : Len(chain) - height + 1 >= ConfirmationDepth

(* docs/network-binding.md:9, "requires an explicit decision before signing *)
(* another one": what a send saves, next to unresolved transactions, was    *)
(* signed after all of them were shown.                                     *)
SavedAcknowledged ==
    [][ \A page \in Pages :
          /\ flow[page].kind = "send"
          /\ flow[page].at = "save" /\ flow'[page].at = "submit"
          => stored.pending \subseteq flow[page].acknowledged \cup {flow[page].tx} ]_vars
=============================================================================
