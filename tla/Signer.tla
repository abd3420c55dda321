------------------------------- MODULE Signer -------------------------------
(***************************************************************************)
(* The signer (src/src/lib/wallet/signer.ts) hosted by the extension's     *)
(* background worker (src/src/background/service-worker.ts).               *)
(*                                                                         *)
(* Pages send requests; the worker handles them one at a time, in order.   *)
(* A handler is an async function: it is cut here at every await that can  *)
(* really suspend it (storage, key derivation, encryption), and job.at     *)
(* names the await it is suspended at.  Between two awaits nothing else    *)
(* runs.  At an await the idle alarm may call lock(), which does not wait  *)
(* for the queue, and the browser may tear the worker down.                *)
(*                                                                         *)
(* Object identity (`session !== current`) is equality of values: only the *)
(* running handler opens a session, so one it captured is never replaced   *)
(* by an equal one.  `generation` is only compared with its value at the   *)
(* start of openSession; job.stale is the outcome of that comparison.      *)
(***************************************************************************)
EXTENDS WalletData, Sequences

CONSTANTS
    Pages,        \* wallet pages, each waiting for at most one answer
    Passwords,
    Offered,      \* the requests the pages send
    None,         \* null: no vault, no session, no running handler
    Malformed,    \* a private key that importPrivateKey refuses
    MaxFailures,  \* wrong passwords an open session survives: 5 in the code
    IdleTicks,    \* the auto-lock delay: ten minutes in the code
    QueueBound    \* bound on the requests waiting at once

Vaults   == [password : Passwords, data : WalletDatas]
Sessions == [password : Passwords, data : WalletDatas]

Exports  == {"exportBackup", "exportSeedQR", "transferSend"}
Signs    == {"signTransfer", "signDeposit", "signReceipt", "signWithdrawal"}
Passive  == {"getState", "nodeAuthorization"}

(* No request has a label or a spelling of a key that a backup's reader     *)
(* refuses; WalletContents has those, and here only backups have them.      *)
Requests ==
    [type : {"getState", "lock", "reset", "addAccount", "transferOffer"}]
    \cup [type : {"createWallet"}, password : Passwords,
          secret : Phrases \cup RawKeys \cup {Malformed}]
    \cup [type : {"unlock"} \cup (Exports \ {"transferSend"}), password : Passwords]
    \cup [type : {"transferSend"}, password : Passwords, offerOk : BOOLEAN]
    \cup [type : {"transferOpen"}, matches : BOOLEAN]
    \cup [type : {"importKey"}, key : Accounts \cup {Malformed}]
    \cup [type : {"setActive"} \cup Signs, account : Accounts]
    \cup [type : {"setNodeCookie"}, url : Urls, present : BOOLEAN]
    \cup [type : {"nodeAuthorization"}, url : Urls]
    \cup [type : {"importBackup"}, mode : {"merge", "replace"}, password : Passwords,
          currentPassword : Passwords, backup : Vaults]

Awaits == {"start", "load", "derive", "decrypt", "reauthLoad", "reauthDecrypt",
           "open", "recheck", "encrypt", "save", "remove", "seal", "view"}

Answers == {"ok", "Locked", "LockedOrNoPhrase", "UnlockFirst", "WrongPassword", "TooManyAttempts",
            "WalletExists", "NoWallet", "LockedMeanwhile", "WalletChanged", "Refused",
            "StorageFailed", "TypeError", "PortClosed", "NothingAsked"}

Jobs == [page : Pages, request : Requests, at : Awaits,
         loaded      : Vaults \cup {None},     \* the vault the handler read first
         current     : Sessions \cup {None},   \* the session it captured
         incoming    : WalletDatas \cup {None},\* the data it opens or imports
         stale       : BOOLEAN,                \* lock() ran since openSession began
         interrupted : BOOLEAN]                \* lock() ran while it derived a key (history)

ASSUME SignerAssumption ==
    /\ Offered \subseteq Requests
    /\ None \notin Vaults \cup WalletDatas \cup Jobs \cup Answers
    /\ Malformed \notin Accounts \cup Phrases
    /\ MaxFailures \in Nat \ {0}
    /\ IdleTicks \in Nat \ {0}
    /\ QueueBound \in Nat \ {0}

VARIABLES
    vault,         \* the encrypted vault in storage; survives the worker
    session,       \* the open session: its key (as the password) and data
    pairing,       \* whether a receiver's one-time transfer session is kept
    failedReauth,
    queue,         \* requests waiting for the running one
    job,           \* the running handler
    answer,        \* the last answer each page got, None while it waits
    alarm          \* ticks until the auto-lock alarm fires, 0 when none is set

vars == <<vault, session, pairing, failedReauth, queue, job, answer, alarm>>

Waiting(page) == answer[page] = None

Init ==
    /\ vault = None
    /\ session = None
    /\ pairing = FALSE
    /\ failedReauth = 0
    /\ queue = <<>>
    /\ job = None
    /\ answer = [page \in Pages |-> "NothingAsked"]
    /\ alarm = 0

----------------------------------------------------------------------------
(* The running handler                                                      *)

Running(types, await) == job # None /\ job.at = await /\ job.request.type \in types

Suspend(await) == job' = [job EXCEPT !.at = await]

Reply(text) ==
    /\ answer' = [answer EXCEPT ![job.page] = text]
    /\ job' = None

Refuse(text) == Reply(text) /\ UNCHANGED <<session, pairing, failedReauth>>

(* lock(), called by a handler that ends with the step.                     *)
WipeSession == session' = None /\ pairing' = FALSE

(* Mutant: the handler forgets to save.                                     *)
PersistForgotten(changed) ==
    /\ session' = changed
    /\ job' = [job EXCEPT !.at = "view"]

(* persistData: what is encrypted is the session as it is now.              *)
Persist(changed) ==
    /\ session' = changed
    /\ job' = [job EXCEPT !.at = "encrypt", !.current = changed]

(* openSession notes the generation when it is called, not before.          *)
StartOpening(data) ==
    job' = [job EXCEPT !.at = "derive", !.incoming = data, !.stale = FALSE]

TouchAutoLock == alarm' = IdleTicks

----------------------------------------------------------------------------
(* Pages and the worker's message listener                                  *)

(* Mutant: every message re-arms the alarm.                                 *)
SendAlwaysTouches(page, request) ==
    /\ ~Waiting(page)
    /\ Len(queue) < QueueBound
    /\ queue' = Append(queue, [page |-> page, request |-> request])
    /\ answer' = [answer EXCEPT ![page] = None]
    /\ alarm' = IdleTicks
    /\ UNCHANGED <<vault, session, pairing, failedReauth, job>>

(* Every message but the two passive ones re-arms the auto-lock alarm.      *)
Send(page, request) ==
    /\ ~Waiting(page)
    /\ Len(queue) < QueueBound
    /\ queue' = Append(queue, [page |-> page, request |-> request])
    /\ answer' = [answer EXCEPT ![page] = None]
    /\ alarm' = IF request.type \in Passive THEN alarm ELSE IdleTicks
    /\ UNCHANGED <<vault, session, pairing, failedReauth, job>>

Begin ==
    /\ job = None
    /\ queue # <<>>
    /\ job' = [page |-> Head(queue).page, request |-> Head(queue).request, at |-> "start",
               loaded |-> None, current |-> None, incoming |-> None,
               stale |-> FALSE, interrupted |-> FALSE]
    /\ queue' = Tail(queue)
    /\ UNCHANGED <<vault, session, pairing, failedReauth, answer, alarm>>

----------------------------------------------------------------------------
(* Opening a session: createWallet, unlock and a restore                    *)

StartLoad ==
    /\ Running({"createWallet", "unlock", "importBackup"}, "start")
    /\ Suspend("load")
    /\ UNCHANGED <<vault, session, pairing, failedReauth, queue, answer, alarm>>

NewWallet(secret) == IF secret \in Phrases THEN FromPhrase(secret) ELSE FromKey(secret)

(* Mutant: a creation does not look for an existing vault.                  *)
CreateWalletUnchecked ==
    /\ Running({"createWallet"}, "load")
    /\ job.request.secret # Malformed
    /\ StartOpening(NewWallet(job.request.secret))
    /\ UNCHANGED <<vault, session, pairing, failedReauth, queue, answer, alarm>>

CreateWallet ==
    /\ Running({"createWallet"}, "load")
    /\ \/ vault # None /\ Refuse("WalletExists")
       \/ /\ vault = None
          /\ job.request.secret = Malformed
          /\ Refuse("Refused")
       \/ /\ vault = None
          /\ job.request.secret # Malformed
          /\ StartOpening(NewWallet(job.request.secret))
          /\ UNCHANGED <<session, pairing, failedReauth, answer>>
    /\ UNCHANGED <<vault, queue, alarm>>

UnlockLoaded ==
    /\ Running({"unlock"}, "load")
    /\ \/ vault = None /\ Refuse("NoWallet")
       \/ /\ vault # None
          /\ job' = [job EXCEPT !.at = "decrypt", !.loaded = vault]
          /\ UNCHANGED <<session, pairing, failedReauth, answer>>
    /\ UNCHANGED <<vault, queue, alarm>>

(* Mutant: the header's key is derived without opening the ciphertext.      *)
UnlockUnchecked ==
    /\ Running({"unlock"}, "decrypt")
    /\ StartOpening(job.loaded.data)
    /\ UNCHANGED <<vault, session, pairing, failedReauth, queue, answer, alarm>>

UnlockDecrypted ==
    /\ Running({"unlock"}, "decrypt")
    /\ \/ job.request.password # job.loaded.password /\ Refuse("WrongPassword")
       \/ /\ job.request.password = job.loaded.password
          /\ StartOpening(job.loaded.data)
          /\ UNCHANGED <<session, pairing, failedReauth, answer>>
    /\ UNCHANGED <<vault, queue, alarm>>

(* Mutant: opening a session does not arm the alarm.                        *)
SessionOpenedUntimed ==
    /\ job # None /\ job.at = "derive"
    /\ \/ job.stale /\ Refuse("LockedMeanwhile")
       \/ /\ ~job.stale
          /\ LET opened == [password |-> job.request.password, data |-> job.incoming]
             IN  IF job.request.type = "unlock"
                 THEN session' = opened /\ Suspend("view")
                 ELSE Persist(opened)
          /\ failedReauth' = 0
          /\ UNCHANGED <<pairing, answer>>
    /\ UNCHANGED <<vault, queue, alarm>>

(* The key is derived: openSession's last part, and what its caller does    *)
(* before its next await.  Every error of an unlock reads "WrongPassword". *)
SessionOpened ==
    /\ job # None /\ job.at = "derive"
    /\ \/ /\ job.stale
          /\ Refuse(IF job.request.type = "unlock" THEN "WrongPassword"
                    ELSE "LockedMeanwhile")
          /\ UNCHANGED alarm
       \/ /\ ~job.stale
          /\ LET opened == [password |-> job.request.password, data |-> job.incoming]
             IN  IF job.request.type = "unlock"
                 THEN session' = opened /\ Suspend("view")
                 ELSE Persist(opened)
          /\ failedReauth' = 0
          /\ TouchAutoLock
          /\ UNCHANGED <<pairing, answer>>
    /\ UNCHANGED <<vault, queue>>

----------------------------------------------------------------------------
(* Saving the vault                                                         *)

Encrypted ==
    /\ job # None /\ job.at = "encrypt"
    /\ \/ session # job.current /\ Refuse("LockedMeanwhile")
       \/ /\ session = job.current
          /\ Suspend("save")
          /\ UNCHANGED <<session, pairing, failedReauth, answer>>
    /\ UNCHANGED <<vault, queue, alarm>>

Saved ==
    /\ job # None /\ job.at = "save"
    /\ vault' = job.current
    /\ IF job.request.type = "setNodeCookie" THEN Reply("ok")
       ELSE Suspend("view") /\ UNCHANGED answer
    /\ IF job.request.type = "createWallet" THEN TouchAutoLock ELSE UNCHANGED alarm
    /\ UNCHANGED <<session, pairing, failedReauth, queue>>

(* Mutant: a failed save leaves the changed session in use.                 *)
SaveFailedStaysOpen ==
    /\ job # None /\ job.at = "save"
    /\ Refuse("StorageFailed")
    /\ UNCHANGED <<vault, queue, alarm>>

(* A save that fails locks the wallet: nothing unsaved stays in use.        *)
SaveFailed ==
    /\ job # None /\ job.at = "save"
    /\ WipeSession
    /\ Reply("StorageFailed")
    /\ UNCHANGED <<vault, failedReauth, queue, alarm>>

(* The state view that ends most handlers only reads whether a vault exists.*)
Viewed ==
    /\ job # None /\ job.at = "view"
    /\ Reply("ok")
    /\ UNCHANGED <<vault, session, pairing, failedReauth, queue, alarm>>

LoadFailed ==
    /\ job # None /\ job.at \in {"load", "recheck", "view"}
    /\ Reply(IF Running({"unlock"}, "view") THEN "WrongPassword" ELSE "StorageFailed")
    /\ UNCHANGED <<vault, session, pairing, failedReauth, queue, alarm>>

----------------------------------------------------------------------------
(* Requests on the open session                                             *)

GetState ==
    /\ Running({"getState"}, "start")
    /\ Suspend("view")
    /\ UNCHANGED <<vault, session, pairing, failedReauth, queue, answer, alarm>>

LockRequest ==
    /\ Running({"lock"}, "start")
    /\ WipeSession
    /\ Suspend("view")
    /\ UNCHANGED <<vault, failedReauth, queue, answer, alarm>>

Reset ==
    /\ Running({"reset"}, "start")
    /\ WipeSession
    /\ Suspend("remove")
    /\ UNCHANGED <<vault, failedReauth, queue, answer, alarm>>

Removed ==
    /\ job # None /\ job.at = "remove"
    /\ \/ vault' = None /\ Suspend("view") /\ UNCHANGED answer
       \/ Reply("StorageFailed") /\ UNCHANGED vault
    /\ UNCHANGED <<session, pairing, failedReauth, queue, alarm>>

Full == AccountCount(session.data) >= AccountLimit

Change(data) ==
    /\ Persist([session EXCEPT !.data = data])
    /\ UNCHANGED <<pairing, failedReauth, answer>>

HasPhrase == session # None /\ session.data.phrase # NoPhrase

AddAccount ==
    /\ Running({"addAccount"}, "start")
    /\ \/ ~HasPhrase /\ Refuse("LockedOrNoPhrase")
       \/ HasPhrase /\ Full /\ Refuse("Refused")
       \/ /\ HasPhrase /\ ~Full
          /\ \E index \in Indices :
                index = NextIndex(session.data) /\ Change(AddIndex(session.data, index))
    /\ UNCHANGED <<vault, queue, alarm>>

Importable(key) == ~Full /\ key # Malformed /\ key \notin AccountsOf(session.data)

ImportKey ==
    /\ Running({"importKey"}, "start")
    /\ \/ session = None /\ Refuse("Locked")
       \/ session # None /\ ~Importable(job.request.key) /\ Refuse("Refused")
       \/ /\ session # None /\ Importable(job.request.key)
          /\ Change(AddKey(session.data, job.request.key))
    /\ UNCHANGED <<vault, queue, alarm>>

SetActive ==
    /\ Running({"setActive"}, "start")
    /\ \/ session = None /\ Refuse("Locked")
       \/ /\ session # None
          /\ job.request.account \notin AccountsOf(session.data)
          /\ Refuse("Refused")
       \/ /\ session # None
          /\ job.request.account \in AccountsOf(session.data)
          /\ Change([session.data EXCEPT !.active = job.request.account])
    /\ UNCHANGED <<vault, queue, alarm>>

SetNodeCookie ==
    /\ Running({"setNodeCookie"}, "start")
    /\ \/ session = None /\ Refuse("Locked")
       \/ /\ session # None
          /\ Change([session.data EXCEPT !.cookies =
                 IF job.request.present THEN @ \cup {job.request.url} ELSE @ \ {job.request.url}])
    /\ UNCHANGED <<vault, queue, alarm>>

NodeAuthorization ==
    /\ Running({"nodeAuthorization"}, "start")
    /\ Refuse(IF session = None THEN "Locked" ELSE "ok")
    /\ UNCHANGED <<vault, queue, alarm>>

Sign ==
    /\ Running(Signs, "start")
    /\ Refuse(IF session = None THEN "Locked"
              ELSE IF job.request.account \notin AccountsOf(session.data) THEN "Refused"
              ELSE "ok")
    /\ UNCHANGED <<vault, queue, alarm>>

----------------------------------------------------------------------------
(* Checking the password again: exports, transfers and a replacing import   *)

StartReauth(checking) ==
    \/ session = None /\ Refuse("Locked")
    \/ /\ session # None
       /\ job' = [checking EXCEPT !.at = "reauthLoad", !.current = session]
       /\ UNCHANGED <<session, pairing, failedReauth, answer>>

StartExport ==
    /\ Running(Exports, "start")
    /\ StartReauth(job)
    /\ UNCHANGED <<vault, queue, alarm>>

(* The password typed for this check.                                       *)
TypedPassword ==
    IF job.request.type = "importBackup" THEN job.request.currentPassword
    ELSE job.request.password

(* Mutant: one guess too many.                                              *)
ReauthLocksLate ==
    /\ failedReauth' = failedReauth + 1
    /\ IF failedReauth' > MaxFailures
       THEN WipeSession /\ Reply("TooManyAttempts")
       ELSE Reply("WrongPassword") /\ UNCHANGED <<session, pairing>>

(* A missing vault or a storage error counts like a wrong password.         *)
ReauthFailed ==
    /\ failedReauth' = failedReauth + 1
    /\ IF failedReauth' >= MaxFailures
       THEN WipeSession /\ Reply("TooManyAttempts")
       ELSE Reply("WrongPassword") /\ UNCHANGED <<session, pairing>>

ReauthLoaded ==
    /\ job # None /\ job.at = "reauthLoad"
    /\ \/ ReauthFailed
       \/ /\ vault # None
          /\ job' = [job EXCEPT !.at = "reauthDecrypt", !.loaded = vault]
          /\ UNCHANGED <<session, pairing, failedReauth, answer>>
    /\ UNCHANGED <<vault, queue, alarm>>

(* After the check, each caller runs to its next await or its answer.       *)
Reauthenticated ==
    CASE job.request.type = "importBackup" -> Suspend("open") /\ UNCHANGED answer
      [] job.request.type \in Exports /\ session = None -> Reply("TypeError")
      [] job.request.type = "exportBackup" /\ session # None ->
            Suspend("seal") /\ UNCHANGED answer
      [] job.request.type = "exportSeedQR" /\ session # None ->
            Reply(IF session.data.phrase = NoPhrase THEN "Refused" ELSE "ok")
      [] job.request.type = "transferSend" /\ session # None ->
            IF job.request.offerOk THEN Suspend("seal") /\ UNCHANGED answer
            ELSE Reply("Refused")

ReauthDecrypted ==
    /\ job # None /\ job.at = "reauthDecrypt"
    /\ \/ TypedPassword # job.loaded.password /\ ReauthFailed
       \/ /\ TypedPassword = job.loaded.password
          /\ session # job.current
          /\ Refuse("Locked")
       \/ /\ TypedPassword = job.loaded.password
          /\ session = job.current
          /\ failedReauth' = 0
          /\ Reauthenticated
          /\ UNCHANGED <<session, pairing>>
    /\ UNCHANGED <<vault, queue, alarm>>

(* The backup is encrypted (and sealed to the offer, which may have expired *)
(* meanwhile); nothing is read again before the answer.                     *)
Sealed ==
    /\ job # None /\ job.at = "seal"
    /\ \/ Refuse("ok")
       \/ job.request.type = "transferSend" /\ Refuse("Refused")
    /\ UNCHANGED <<vault, queue, alarm>>

----------------------------------------------------------------------------
(* Importing a backup                                                       *)

ImportLoaded ==
    /\ Running({"importBackup"}, "load")
    /\ LET loaded == [job EXCEPT !.loaded = vault]
       IN  \/ vault # None /\ session = None /\ Refuse("UnlockFirst")
           \/ /\ vault # None /\ session # None
              /\ job.request.mode = "replace"
              /\ StartReauth(loaded)
           \/ /\ vault = None \/ (session # None /\ job.request.mode = "merge")
              /\ job' = [loaded EXCEPT !.at = "open"]
              /\ UNCHANGED <<session, pairing, failedReauth, answer>>
    /\ UNCHANGED <<vault, queue, alarm>>

BackupOpened ==
    /\ Running({"importBackup"}, "open")
    /\ LET backup == job.request.backup
       IN  \/ /\ \/ job.request.password # backup.password
                 \/ ~ValidWalletData(backup.data)
              /\ Refuse("Refused")
           \/ /\ job.request.password = backup.password
              /\ ValidWalletData(backup.data)
              /\ \E data \in Validated(backup.data) :
                    job' = [job EXCEPT !.at = "recheck", !.incoming = data]
              /\ UNCHANGED <<session, pairing, failedReauth, answer>>
    /\ UNCHANGED <<vault, queue, alarm>>

(* Reading the backup took a while: the wallet may have locked meanwhile.   *)
WalletChanged ==
    IF vault # None THEN session = None \/ job.loaded = None ELSE job.loaded # None

Import ==
    CASE job.loaded = None ->
            StartOpening(job.incoming) /\ UNCHANGED <<session, pairing, failedReauth, answer>>
      [] job.loaded # None /\ session = None -> Refuse("TypeError")
      [] job.loaded # None /\ session # None /\ job.request.mode = "replace" ->
            Change(job.incoming)
      [] job.loaded # None /\ session # None /\ job.request.mode = "merge" ->
            IF Mergeable(session.data, job.incoming)
            THEN Change(Merged(session.data, job.incoming))
            ELSE Refuse("Refused")

ImportRechecked ==
    /\ Running({"importBackup"}, "recheck")
    /\ IF WalletChanged THEN Refuse("WalletChanged") ELSE Import
    /\ UNCHANGED <<vault, queue, alarm>>

----------------------------------------------------------------------------
(* Receiving a transfer                                                     *)

TransferOffer ==
    /\ Running({"transferOffer"}, "start")
    /\ pairing' = TRUE
    /\ Reply("ok")
    /\ UNCHANGED <<vault, session, failedReauth, queue, alarm>>

(* The offer is spent before the envelope is opened, whatever it holds.     *)
TransferOpen ==
    /\ Running({"transferOpen"}, "start")
    /\ pairing' = FALSE
    /\ IF pairing THEN Suspend("open") /\ UNCHANGED answer ELSE Reply("Refused")
    /\ UNCHANGED <<vault, session, failedReauth, queue, alarm>>

EnvelopeOpened ==
    /\ Running({"transferOpen"}, "open")
    /\ \/ job.request.matches /\ Refuse("ok")
       \/ Refuse("Refused")
    /\ UNCHANGED <<vault, queue, alarm>>

Handler ==
    \/ StartLoad \/ CreateWallet \/ UnlockLoaded \/ UnlockDecrypted \/ SessionOpened
    \/ Encrypted \/ Saved \/ SaveFailed \/ Viewed \/ LoadFailed
    \/ GetState \/ LockRequest \/ Reset \/ Removed
    \/ AddAccount \/ ImportKey \/ SetActive \/ SetNodeCookie \/ NodeAuthorization \/ Sign
    \/ StartExport \/ ReauthLoaded \/ ReauthDecrypted \/ Sealed
    \/ ImportLoaded \/ BackupOpened \/ ImportRechecked
    \/ TransferOffer \/ TransferOpen \/ EnvelopeOpened

----------------------------------------------------------------------------
(* The host: idle alarm and worker teardown                                 *)

Tick ==
    /\ alarm > 1
    /\ alarm' = alarm - 1
    /\ UNCHANGED <<vault, session, pairing, failedReauth, queue, job, answer>>

(* Mutant: lock() does not move the generation on.                          *)
AutoLockSameGeneration ==
    /\ alarm = 1
    /\ alarm' = 0
    /\ WipeSession
    /\ job' = IF job = None THEN None
              ELSE [job EXCEPT !.interrupted = @ \/ job.at \in {"decrypt", "open", "derive"}]
    /\ UNCHANGED <<vault, failedReauth, queue, answer>>

(* lock() from outside the queue, between two steps of a handler if one runs*)
AutoLock ==
    /\ alarm = 1
    /\ alarm' = 0
    /\ WipeSession
    /\ job' = IF job = None THEN None
              ELSE [job EXCEPT !.stale = TRUE,
                               !.interrupted = @ \/ job.at \in {"decrypt", "open", "derive"}]
    /\ UNCHANGED <<vault, failedReauth, queue, answer>>

(* The browser ends the worker: its memory goes, the alarm and the vault    *)
(* stay, and every waiting page sees its message port close.                *)
Teardown ==
    /\ WipeSession
    /\ failedReauth' = 0
    /\ queue' = <<>>
    /\ job' = None
    /\ answer' = [page \in Pages |-> IF Waiting(page) THEN "PortClosed" ELSE answer[page]]
    /\ UNCHANGED <<vault, alarm>>

Next ==
    \/ \E page \in Pages, request \in Offered : Send(page, request)
    \/ Begin
    \/ Handler
    \/ Tick
    \/ AutoLock
    \/ Teardown

Spec == Init /\ [][Next]_vars

(* A handler's awaits all end (storage and key derivation answer or fail)   *)
(* and time passes.  Nothing makes a page send or the browser tear down.    *)
Fairness == WF_vars(Begin \/ Handler) /\ WF_vars(Tick \/ AutoLock)

FairSpec == Spec /\ Fairness

----------------------------------------------------------------------------
(* Properties                                                               *)

(* Every variable stays in its type; in particular the count of wrong       *)
(* passwords never passes MaxFailures (signer.ts, reauth).                  *)
TypeOK ==
    /\ vault \in Vaults \cup {None}
    /\ session \in Sessions \cup {None}
    /\ pairing \in BOOLEAN
    /\ failedReauth \in 0 .. MaxFailures
    /\ queue \in Seq([page : Pages, request : Requests])
    /\ job \in Jobs \cup {None}
    /\ answer \in [Pages -> Answers \cup {None}]
    /\ alarm \in 0 .. IdleTicks

(* The session holds a change that is still on its way to storage.          *)
Saving == job # None /\ job.at \in {"encrypt", "save"}

(* Whatever is unlocked is what is stored, under the password it opens      *)
(* with: no account or cookie is in use that a torn-down worker would       *)
(* forget, whichever of a handler's awaits a lock or a failed save hits     *)
(* (signer.ts persistData and the handlers that call it).                   *)
UnlockedIsSaved == session # None /\ ~Saving => session = vault

(* An open session has survived fewer than MaxFailures wrong passwords      *)
(* since it was opened or last checked (signer.ts reauth, openSession).     *)
OpenSessionGuessedLittle == session # None => failedReauth < MaxFailures

(* A wallet that is unlocked has an auto-lock alarm pending, even when the  *)
(* one armed by the request that unlocked it fired during key derivation    *)
(* (service-worker.ts onMessage, signer.ts openSession's touchAutoLock).    *)
UnlockedIsTimed == session # None => alarm > 0

(* No handler reads through a session that a lock has taken away: the       *)
(* non-null assertions `session!` of the exports and of importBackup hold.  *)
NoNullSession == \A page \in Pages : answer[page] # "TypeError"

(* test/security-regressions.test.ts:57, as a claim about a wallet that is  *)
(* being created: a lock that arrives while its key is derived is not       *)
(* undone by the rest of the handler.                                       *)
LockStopsCreation ==
    job # None /\ job.interrupted /\ job.request.type = "createWallet" => session = None

(* A lock during a key's derivation is not undone by the rest of the        *)
(* handler (createWallet), nor does the rest of a handler miss the session  *)
(* the lock took (exports, importBackup).                                   *)
LocksAreFinal == LockStopsCreation /\ NoNullSession

(* The same claim about every request: "an idle lock during key derivation  *)
(* cannot resurrect an unlocked session".                                   *)
LockStopsOpening == job # None /\ job.interrupted => session = None

KeysIn(stored) == IF stored = None THEN {} ELSE AccountsOf(stored.data)

(* A stored key is lost only by a reset, or by a replacing import that was  *)
(* given the wallet's password (signer.ts reset and importBackup); no race  *)
(* of creations, saves and imports overwrites a vault.                      *)
KeysLeaveByChoice ==
    [][ KeysIn(vault) \subseteq KeysIn(vault') \/
        /\ job # None
        /\ \/ job.request.type = "reset"
           \/ /\ job.request.type = "importBackup"
              /\ job.request.mode = "replace"
              /\ job.request.currentPassword = vault.password ]_vars

(* A closed wallet opens with the stored data and only for the vault's own  *)
(* password, or, where nothing is stored, for a creation or a restore       *)
(* (signer.ts unlock, createWallet, importBackup).                          *)
OpensWithPassword ==
    [][ session = None /\ session' # None =>
        /\ session'.password = job.request.password
        /\ vault # None => session' = vault ]_vars

(* The request the running handler answers in this step with "ok".          *)
AnswersOk == job # None /\ job' = None /\ answer' = [answer EXCEPT ![job.page] = "ok"]

(* An export is only answered for the password that opens the stored vault, *)
(* though the check awaits twice and the answer comes later (reauth).       *)
ExportNeedsPassword ==
    [][ AnswersOk /\ job.request.type \in Exports =>
        vault # None /\ job.request.password = vault.password ]_vars

(* A vault that has the change the request asked for.                       *)
Holds(request, stored) ==
    CASE request.type = "createWallet" -> NewWallet(request.secret).active \in KeysIn(stored)
      [] request.type = "importKey" -> request.key \in KeysIn(stored)
      [] request.type = "setActive" -> stored # None /\ stored.data.active = request.account
      [] request.type = "setNodeCookie" ->
            stored # None /\ (request.url \in stored.data.cookies <=> request.present)
      [] request.type = "importBackup" -> AccountsOf(request.backup.data) \subseteq KeysIn(stored)
      [] request.type = "reset" -> stored = None
      [] OTHER -> TRUE

(* A request that changes the wallet is answered "ok" only once its change  *)
(* is in storage, where no lock, failed save or teardown can undo it.       *)
OkIsStored == [][ AnswersOk => Holds(job.request, vault') ]_vars

(* "ok" to an export was earned by the stored vault's password, and "ok" to *)
(* a change by its being in storage (signer.ts reauth, persistData).        *)
OkIsEarned == ExportNeedsPassword /\ OkIsStored

(* Every request is answered, or its page sees the worker go: no handler    *)
(* waits for itself in the queue and no error leaves the queue stuck        *)
(* (signer.ts handle, whose chain swallows a handler's rejection).          *)
RequestsAnswered == \A page \in Pages : Waiting(page) ~> ~Waiting(page)

(* A request of a kind that re-arms the alarm waits or runs.                *)
Touched ==
    \/ job # None /\ job.request.type \notin Passive
    \/ \E i \in DOMAIN queue : queue[i].request.type \notin Passive

(* Once nobody uses the wallet any more it ends up locked, however often    *)
(* pages poll its state or ask for a node's cookie (service-worker.ts       *)
(* onMessage and onAlarm).                                                  *)
IdleWalletLocks == <>[]~Touched => <>[](session = None)
=============================================================================
