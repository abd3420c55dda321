----------------------------- MODULE MCProgress -----------------------------
(***************************************************************************)
(* The small parts of the wallet that wait for an answer, for TLC: the     *)
(* check of a sent transaction, the settings lock, the scanner's camera,   *)
(* the signer's queue, and the prompt of a page whose signer has locked.   *)
(* They share no variable, so a behaviour runs one of them, which AllInit  *)
(* chooses, under the fairness of its module.                              *)
(***************************************************************************)
EXTENDS SentStatus

CONSTANTS
    None,
    Updates, Locks,                                      \* SettingsLock
    Cameras,                                             \* Scanner
    own, other, words, key1, url, NoPhrase, NoAccount,   \* Signer
    Malformed, MaxFailures, IdleTicks, QueueBound, IndexSpace, MaxIndex, AccountLimit,
    Pages,                                               \* both of them
    Messages, Adds, Submissions, Prompts                 \* UnlockPrompt

VARIABLES
    part,
    stored, known, reading, updates, earlier, place, loaded, locks, ahead,
    connected, done, pressed, opening, on, camera, loops, cancel, frames, decoding, taken, replaced,
    vault, session, pairing, failedReauth, queue, job, answer, alarm,
    open, believed, visible, request, effects, refused, prompted, shown, unlocking, submission,
    notice, check, reload

lockVars    == <<stored, known, reading, updates, earlier, place, loaded, locks, ahead>>
scannerVars == <<connected, done, pressed, opening, on, camera, loops, cancel, frames, decoding, taken,
                 replaced>>
signerVars  == <<vault, session, pairing, failedReauth, queue, job, answer, alarm>>
promptVars  == <<open, believed, visible, request, effects, refused, prompted, shown, unlocking,
                 submission, notice, check, reload>>
all         == <<part, vars, lockVars, scannerVars, signerVars, promptVars>>

(* A wallet that locks when nobody touches it.                              *)
IdleRequests ==
    {[type |-> "createWallet", password |-> own, secret |-> words],
     [type |-> "unlock", password |-> own],
     [type |-> "getState"], [type |-> "addAccount"],
     [type |-> "exportBackup", password |-> other],
     [type |-> "nodeAuthorization", url |-> url]}

Lock    == INSTANCE SettingsLock WITH queue <- updates, at <- place
Scanner == INSTANCE Scanner WITH reading <- frames
Signer  == INSTANCE Signer WITH
             Offered <- IdleRequests, Passwords <- {own, other}, Phrases <- {words},
             RawKeys <- {key1}, Urls <- {url}
Overlay == INSTANCE UnlockPrompt WITH asked <- prompted

ASSUME ProgressAssumption ==
    /\ Lock!LockAssumption /\ Scanner!ScannerAssumption
    /\ Signer!SignerAssumption /\ Overlay!UnlockPromptAssumption

AllInit ==
    /\ part \in {"status", "lock", "scanner", "signer", "prompt"}
    /\ Init /\ Lock!Init /\ Scanner!Init /\ Signer!Init /\ Overlay!Init
    (* What has several initial states and does not run waits in one.       *)
    /\ part # "status" => ~old /\ ~recorded /\ spent = "nobody" /\ ~knows
    /\ part # "prompt" => open

StatusStep ==
    part = "status" /\ Next /\ UNCHANGED <<part, lockVars, scannerVars, signerVars, promptVars>>

LockStep ==
    part = "lock" /\ Lock!Next /\ UNCHANGED <<part, vars, scannerVars, signerVars, promptVars>>

ScannerStep ==
    part = "scanner" /\ Scanner!Next /\ UNCHANGED <<part, vars, lockVars, signerVars, promptVars>>

SignerStep ==
    part = "signer" /\ Signer!Next /\ UNCHANGED <<part, vars, lockVars, scannerVars, promptVars>>

PromptStep ==
    part = "prompt" /\ Overlay!Next /\ UNCHANGED <<part, vars, lockVars, scannerVars, signerVars>>

(* A check that has ended, and a scanner whose screen was left, may rest.   *)
Rest ==
    /\ (part = "status" /\ at = "done") \/ (part = "scanner" /\ ~connected)
    /\ UNCHANGED all

AllNext == StatusStep \/ LockStep \/ ScannerStep \/ SignerStep \/ PromptStep \/ Rest

Steps == AllInit /\ [][AllNext]_all

(* The fairness of each module, asked of the part that runs.                *)
Fairness ==
    /\ WF_vars(part = "status" /\ Check)
    /\ \A p \in Pages, u \in Updates :
          /\ WF_lockVars(part = "lock" /\ Lock!Begin(p, u))
          /\ WF_lockVars(part = "lock" /\ Lock!Settles(p, u))
    /\ \A c \in Cameras :
          /\ WF_scannerVars(part = "scanner" /\ (Scanner!Opened(c) \/ Scanner!Refused(c)))
          /\ WF_scannerVars(part = "scanner" /\ Scanner!Frame(c))
          /\ WF_scannerVars(part = "scanner" /\ Scanner!FrameRead(c))
    /\ WF_signerVars(part = "signer" /\ (Signer!Begin \/ Signer!Handler))
    /\ WF_signerVars(part = "signer" /\ (Signer!Tick \/ Signer!AutoLock))

(* UnlockPrompt runs alone, under its own.                                  *)
OthersInit == AllInit /\ part # "prompt"
PromptInit == AllInit /\ part = "prompt"

AllSpec ==
    OthersInit /\ [][StatusStep \/ LockStep \/ ScannerStep \/ SignerStep \/ Rest]_all /\ Fairness

PromptSpec == PromptInit /\ [][PromptStep]_all /\ Overlay!Fairness

----------------------------------------------------------------------------
(* What the modules state of the parts.                                     *)

(* No page's update of the settings undoes another's; a page's own are      *)
(* saved in its order, and no page goes by what is not saved                *)
(* (app.ts:144-158).                                                        *)
UpdatesAreAtomic ==
    Lock!ImplementsAtomicUpdates /\ []Lock!SavedInOrder /\ []Lock!ShownIsStored

(* A scanner's screen is left for another one once, and then no camera      *)
(* records but one whose place another took (scanner.ts:3, 56, 63).         *)
ScansOnceAndStops == []Scanner!TakenOnce /\ Scanner!LeftIsOffUnlessReplaced

(* Once a scanner's screen is left no camera records (scanner.ts:3).        *)
CamerasStop == Scanner!LeftIsOff

(* Every check of a sent transaction and every update of the settings ends, *)
(* and the signer answers every request or its page sees the worker go,     *)
(* whatever the node, the storage and the other pages do meanwhile.         *)
WaitsEnd == (part = "status" => CheckEnds) /\ Lock!UpdatesEnd /\ Signer!RequestsAnswered

(* Once nobody uses the wallet any more it ends up locked.                  *)
IdleWalletLocks == Signer!IdleWalletLocks

(* A request that waits finds its prompt on the page, and is done once at   *)
(* most although it is sent twice (app.ts:2234).                            *)
AnsweredOnce == Overlay!WaitersCanAnswer /\ Overlay!ActsOnce

(* A request ends, whatever happens to the prompt it waits for              *)
(* (app.ts, unlockingWallet).                                               *)
PromptsEnd == Overlay!RequestsEnd

(* A page that stays in view shows the notice in the end if and only if the *)
(* signer is locked (app.ts checkSigner).                                   *)
NoticeFollowsLock == Overlay!LockIsNoticed /\ Overlay!NoticeGoes

(* A request that was answered Locked asks for the password (app.ts:2228).  *)
LockedRequestsAsk == Overlay!LockedRequestsAsk
=============================================================================
