------------------------------ MODULE Pairing ------------------------------
(***************************************************************************)
(* Device-to-device transfer (src/src/lib/wallet/pairing.ts; the transfer  *)
(* screens of src/src/popup/backup.ts; the signer's transfer handlers): the*)
(* receiver's signer keeps the secret of one offer, in memory only, while a*)
(* page shows the offer's code, keeps the worker from being stopped and    *)
(* waits to scan what a sender sealed for it.                              *)
(*                                                                         *)
(* A transfer opens with the secret of the offer it was sealed for only    *)
(* (external: key agreement and encryption).  Any code that was ever shown *)
(* may be scanned.  Time is counted in units of the shortest of the delays.*)
(***************************************************************************)
EXTENDS Integers

CONSTANTS
    Pages, Senders, Offers,
    TTL,          \* OFFER_TTL_SECONDS: 300
    IdleLimit,    \* the browser stops a worker that had no message for so long: 30 s
    AlarmDelay,   \* AUTO_LOCK_MINUTES: 10
    None

(* The transferOpen of a page: the offer it tries and whether that opens.    *)
Jobs == [page : Pages, offer : Offers \cup {None}, opens : BOOLEAN]

ASSUME PairingAssumption ==
    /\ None \notin Offers \cup Jobs
    /\ IdleLimit \in Nat \ {0} /\ TTL \in Nat \ {0}
    /\ AlarmDelay \in Nat /\ AlarmDelay > TTL + 1

VARIABLES
    session,     \* the offer whose secret the signer would use (pairing)
    secrets,     \* offers whose secret is in the worker's memory
    job,         \* the transferOpen under way
    idle,        \* how long the worker had no message
    alarm,       \* until the wallet is locked; 0: no alarm
    left,        \* how long each offer made is still valid; below 0: no more
    page,        \* the screen of each page
    sealed,      \* transfers sealed so far
    attempted,   \* history: offers whose secret was used
    ended        \* history: offers a page ended, by a lock, an attempt or another offer

signer  == <<session, secrets, job>>
timers  == <<idle, alarm, left>>
history == <<attempted, ended>>
vars    == <<session, secrets, job, idle, alarm, left, page, sealed, attempted, ended>>

Transfers == [offer : Offers, sender : Senders]

Menu == [at |-> "menu", offer |-> None, transfer |-> None]

Init ==
    /\ session = None /\ secrets = {} /\ job = None
    /\ idle = 0 /\ alarm = 0 /\ left = [offer \in {} |-> TTL]
    /\ page = [p \in Pages |-> Menu]
    /\ sealed = {} /\ attempted = {} /\ ended = {}

made == DOMAIN left

(* A request other than a poll keeps the worker and the wallet awake.       *)
Message == idle' = 0 /\ alarm' = AlarmDelay

(* The session, if there is one, goes to a history.                         *)
Noted(set) == (set \cup {session}) \ {None}

Waits(p) == page[p].at \in {"showing", "scanning", "opening"}

----------------------------------------------------------------------------
(* The receiver                                                             *)

transferOffer(p) ==
    /\ job = None /\ page[p].at = "menu"
    /\ \E offer \in Offers \ made :
          /\ session' = offer /\ secrets' = secrets \cup {offer}
          /\ left' = [o \in made \cup {offer} |-> IF o = offer THEN TTL ELSE left[o]]
          /\ page' = [page EXCEPT ![p] = [Menu EXCEPT !.at = "showing", !.offer = offer]]
    /\ ended' = Noted(ended)
    /\ Message
    /\ UNCHANGED <<job, sealed, attempted>>

scanTransfer(p) ==
    /\ page[p].at = "showing"
    /\ page' = [page EXCEPT ![p].at = "scanning"]
    /\ UNCHANGED <<signer, timers, sealed, history>>

(* The scanner has a whole transfer.                                        *)
onText(p) ==
    /\ page[p].at = "scanning"
    /\ \E transfer \in sealed : page' = [page EXCEPT ![p].at = "opening", ![p].transfer = transfer]
    /\ UNCHANGED <<signer, timers, sealed, history>>

(* What pairing.ts open() checks before and while it decrypts.              *)
Opens(offer, transfer) == offer # None /\ left[offer] >= 0 /\ transfer.offer = offer

(* Mutant: an offer is kept for another attempt if the transfer does not    *)
(* open.                                                                    *)
TransferOpenOnly(p) ==
    /\ job = None /\ page[p].at = "opening"
    /\ job' = [page |-> p, offer |-> session, opens |-> Opens(session, page[p].transfer)]
    /\ session' = (IF job'.opens THEN None ELSE session)
    /\ attempted' = Noted(attempted) /\ ended' = Noted(ended)
    /\ Message
    /\ UNCHANGED <<secrets, left, page, sealed>>

(* The session is given up before the transfer is opened.                   *)
transferOpen(p) ==
    /\ job = None /\ page[p].at = "opening"
    /\ job' = [page |-> p, offer |-> session, opens |-> Opens(session, page[p].transfer)]
    /\ session' = None
    /\ attempted' = Noted(attempted) /\ ended' = Noted(ended)
    /\ Message
    /\ UNCHANGED <<secrets, left, page, sealed>>

Answered(answer) ==
    page' = IF page[job.page].at = "opening" THEN [page EXCEPT ![job.page].at = answer] ELSE page

(* The secret is erased whether or not the transfer opened.                 *)
End ==
    /\ job # None /\ job' = None
    /\ secrets' = secrets \ {job.offer}
    /\ Answered(IF job.opens THEN "compare" ELSE "failed")
    /\ UNCHANGED <<session, timers, sealed, history>>

(* Cancelling, and leaving the last screens; the code's comparison is the   *)
(* user's, and the import that follows is the signer's importBackup.        *)
back(p) ==
    /\ page[p].at \in {"showing", "scanning", "compare", "failed"}
    /\ page' = [page EXCEPT ![p] = Menu]
    /\ UNCHANGED <<signer, timers, sealed, history>>

(* The page is closed, at any point, and opened again.                      *)
Reopen(p) ==
    /\ page[p].at # "menu"
    /\ page' = [page EXCEPT ![p] = Menu]
    /\ UNCHANGED <<signer, timers, sealed, history>>

lock == session' = None /\ secrets' = secrets \ {session}

Lock(p) ==
    /\ job = None /\ page[p].at = "menu"
    /\ lock
    /\ ended' = Noted(ended)
    /\ Message
    /\ UNCHANGED <<job, left, page, sealed, attempted>>

----------------------------------------------------------------------------
(* The sender seals for a scanned offer.  Whether the offer is still valid  *)
(* it judges by a clock of its own.                                         *)
transferSend(s) ==
    /\ \E offer \in made : sealed' = sealed \cup {[offer |-> offer, sender |-> s]}
    /\ UNCHANGED <<signer, timers, page, history>>

----------------------------------------------------------------------------
(* Time                                                                     *)

(* A page polls from the offer to its answer or expiry.                     *)
Polls(p) == Waits(p) /\ left[page[p].offer] > 0

(* Every page that polls does so before time passes.                        *)
Tick ==
    /\ alarm # 1
    /\ idle' = IF \E p \in Pages : Polls(p) THEN 0 ELSE IF idle < IdleLimit THEN idle + 1 ELSE idle
    /\ alarm' = IF alarm = 0 THEN 0 ELSE alarm - 1
    /\ left' = [offer \in made |-> IF left[offer] < 0 THEN left[offer] ELSE left[offer] - 1]
    /\ UNCHANGED <<signer, page, sealed, history>>

AutoLock ==
    /\ alarm = 1 /\ alarm' = 0
    /\ lock
    /\ UNCHANGED <<job, idle, left, page, sealed, history>>

(* The browser stops the idle worker, and its memory is gone.               *)
Teardown ==
    /\ idle >= IdleLimit /\ job = None
    /\ session' = None /\ secrets' = {}
    /\ UNCHANGED <<job, timers, page, sealed, history>>

Next ==
    \/ \E p \in Pages : \/ transferOffer(p) \/ scanTransfer(p) \/ onText(p) \/ transferOpen(p)
                        \/ back(p) \/ Reopen(p) \/ Lock(p)
    \/ End
    \/ \E s \in Senders : transferSend(s)
    \/ Tick \/ AutoLock \/ Teardown

Spec == Init /\ [][Next]_vars

----------------------------------------------------------------------------
(* Properties                                                               *)

TypeOK ==
    /\ session \in Offers \cup {None} /\ secrets \subseteq Offers
    /\ job \in Jobs \cup {None}
    /\ idle \in 0 .. IdleLimit /\ alarm \in 0 .. AlarmDelay
    /\ made \subseteq Offers /\ \A offer \in made : left[offer] \in -1 .. TTL
    /\ page \in [Pages -> [at : {"menu", "showing", "scanning", "opening", "compare", "failed"},
                           offer : Offers \cup {None}, transfer : Transfers \cup {None}]]
    /\ sealed \subseteq Transfers /\ attempted \subseteq Offers /\ ended \subseteq Offers

(* As long as a page waits with an offer that has not expired, the worker   *)
(* that has its secret is neither stopped nor locked by itself: only a page *)
(* ends the session (backup.ts:396, "keep the extension's worker (which     *)
(* holds the session key) awake meanwhile").                                *)
ShownIsHeld ==
    \A p \in Pages :
        Waits(p) /\ left[page[p].offer] >= 0 => page[p].offer \in {session} \cup ended

(* A secret is used once, for a transfer that opens or for one that does    *)
(* not, whichever pages scan what (signer.ts:296).                          *)
OneAttempt == session \notin attempted

(* A used secret is erased, whatever page closed and whatever locked while  *)
(* the transfer was being opened (signer.ts:305).                           *)
UsedIsErased ==
    \A offer \in attempted \cap secrets : job # None /\ job.offer = offer
=============================================================================
