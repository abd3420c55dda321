---------------------------- MODULE SignerProofs ----------------------------
(***************************************************************************)
(* What the signer guarantees for every value of its constants, proved.    *)
(***************************************************************************)
EXTENDS Signer, TLAPS, SequenceTheorems

(* The wallets a session or a vault ever holds: their active account is set.*)
OpenDatas ==
    [phrase   : Phrases \cup {NoPhrase},
     hd       : SUBSET Indices,
     imported : SUBSET Accounts,
     active   : Accounts,
     cookies  : SUBSET Urls,
     longNames : SUBSET Indices,
     unfitKeys : SUBSET Accounts]

OpenVaults == [password : Passwords, data : OpenDatas]

OpenJobs ==
    [page : Pages, request : Requests, at : Awaits,
     loaded : OpenVaults \cup {None}, current : OpenVaults \cup {None},
     incoming : OpenDatas \cup {None}, stale : BOOLEAN, interrupted : BOOLEAN]

(* What can be opened is something that can be held.                        *)
LEMMA OpenIsHeld == OpenDatas \subseteq WalletDatas /\ OpenVaults \subseteq Vaults
                    /\ OpenVaults \subseteq Sessions /\ OpenJobs \subseteq Jobs
  <1>1. OpenDatas \subseteq WalletDatas
    BY DEF OpenDatas, WalletDatas
  <1>2. OpenVaults \subseteq Vaults /\ OpenVaults \subseteq Sessions
    BY <1>1 DEF OpenVaults, Vaults, Sessions
  <1>3. OpenJobs \subseteq Jobs
    BY <1>1, <1>2 DEF OpenJobs, Jobs
  <1> QED BY <1>1, <1>2, <1>3

(* A derived account is an account.                                         *)
LEMMA DeriveIsAccount ==
    ASSUME NEW phrase \in Phrases, NEW index \in Nat
    PROVE  Derive(phrase, index) \in Accounts
  <1>1. index % IndexSpace \in 0 .. IndexSpace - 1
    BY DataAssumption
  <1> QED BY <1>1 DEF Derive, Accounts

(* Wallet data has accounts, and nothing else, for accounts.                *)
LEMMA AccountsOfType ==
    ASSUME NEW data \in WalletDatas
    PROVE  AccountsOf(data) \subseteq Accounts
  <1>1. ASSUME data.phrase # NoPhrase, NEW i \in data.hd
        PROVE  Derive(data.phrase, i) \in Accounts
    BY <1>1, DeriveIsAccount, DataAssumption DEF WalletDatas, Indices
  <1> QED BY <1>1 DEF AccountsOf, HdAccounts, WalletDatas

(* What the fields of a request hold.                                       *)
LEMMA RequestFields ==
    ASSUME NEW request \in Requests
    PROVE  /\ request.type \in {"createWallet", "unlock", "importBackup"} \cup Exports
                => request.password \in Passwords
           /\ request.type = "createWallet"
                => request.secret \in Phrases \cup RawKeys \cup {Malformed}
           /\ request.type = "importKey" => request.key \in Accounts \cup {Malformed}
           /\ request.type = "setActive" => request.account \in Accounts
           /\ request.type = "setNodeCookie" => request.url \in Urls
           /\ request.type = "importBackup" => request.backup \in Vaults
  BY DEF Requests, Exports, Signs

(* What a signer that opens no vault, session or incoming data it cannot    *)
(* type keeps: each variable in its type, and the fields the running        *)
(* handler is about to use filled.                                          *)
JobShape ==
    job # None =>
        /\ job.at = "derive" =>
              /\ job.request.type \in {"createWallet", "unlock", "importBackup"}
              /\ job.incoming # None
        /\ job.at = "recheck" => job.request.type = "importBackup" /\ job.incoming # None
        /\ job.at = "decrypt" => job.request.type = "unlock" /\ job.loaded # None
        /\ job.at = "reauthLoad" => job.request.type \in Exports \cup {"importBackup"}
        /\ job.at = "reauthDecrypt" =>
              /\ job.request.type \in Exports \cup {"importBackup"}
              /\ job.loaded # None
        /\ job.at \in {"encrypt", "save"} => job.current # None

(* Both an open session and a running check have guesses left.              *)
GuessesLeft ==
    (session # None \/ (job # None /\ job.at \in {"reauthLoad", "reauthDecrypt"}))
        => failedReauth < MaxFailures

Typed ==
    /\ vault \in OpenVaults \cup {None}
    /\ session \in OpenVaults \cup {None}
    /\ pairing \in BOOLEAN
    /\ failedReauth \in 0 .. MaxFailures
    /\ queue \in Seq([page : Pages, request : Requests])
    /\ job \in OpenJobs \cup {None}
    /\ answer \in [Pages -> Answers \cup {None}]
    /\ alarm \in 0 .. IdleTicks

TypeInv == Typed /\ JobShape /\ GuessesLeft

(* The bounds are positive numbers.                                         *)
LEMMA Bounds == MaxFailures \in Nat /\ MaxFailures > 0 /\ IdleTicks \in Nat /\ IdleTicks > 0
  <1>1. MaxFailures \in Nat \ {0} /\ IdleTicks \in Nat \ {0}
    BY SignerAssumption
  <1> QED BY <1>1

(* null is none of the values it stands in for.                             *)
LEMMA NoneIsNew == None \notin OpenVaults /\ None \notin OpenDatas /\ None \notin OpenJobs
  BY OpenIsHeld, SignerAssumption

(* The initial states have their types.                                     *)
LEMMA TypeInit == Init => TypeInv
  <1> SUFFICES ASSUME Init PROVE TypeInv
    OBVIOUS
  <1>1. queue \in Seq([page : Pages, request : Requests])
    BY EmptySeq DEF Init
  <1>2. answer \in [Pages -> Answers \cup {None}]
    BY DEF Init, Answers
  <1>3. vault = None /\ session = None /\ pairing \in BOOLEAN /\ job = None
    BY DEF Init
  <1>4. failedReauth < MaxFailures /\ failedReauth \in 0 .. MaxFailures
    BY Bounds DEF Init
  <1>5. alarm \in 0 .. IdleTicks
    BY Bounds DEF Init
  <1> QED BY <1>1, <1>2, <1>3, <1>4, <1>5 DEF TypeInv, Typed, JobShape, GuessesLeft

(* The wallets that the operations on the vault's contents make.            *)
LEMMA DataTypes ==
    /\ \A secret \in Phrases \cup RawKeys : NewWallet(secret) \in OpenDatas
    /\ \A data \in OpenDatas, index \in Indices :
          data.phrase # NoPhrase => AddIndex(data, index) \in OpenDatas
    /\ \A data \in OpenDatas, key \in Accounts : AddKey(data, key) \in OpenDatas
    /\ \A data \in OpenDatas, account \in Accounts :
          [data EXCEPT !.active = account] \in OpenDatas
    /\ \A data \in OpenDatas, urls \in SUBSET Urls :
          [data EXCEPT !.cookies = urls] \in OpenDatas
    /\ \A data \in WalletDatas : Validated(data) \subseteq OpenDatas
    /\ \A data, incoming \in OpenDatas : Merged(data, incoming) \in OpenDatas
  <1> USE DataAssumption
  <1>1. ASSUME NEW phrase \in Phrases PROVE FromPhrase(phrase) \in OpenDatas
    <2>1. Derive(phrase, 0) \in Accounts
      BY DeriveIsAccount
    <2> QED BY <2>1 DEF FromPhrase, OpenDatas, Indices
  <1>2. ASSUME NEW key \in RawKeys PROVE FromKey(key) \in OpenDatas
    BY DEF FromKey, OpenDatas, Accounts
  <1>3. ASSUME NEW data \in OpenDatas, NEW index \in Indices, data.phrase # NoPhrase
        PROVE  AddIndex(data, index) \in OpenDatas
    <2>1. Derive(data.phrase, index) \in Accounts
      BY <1>3, DeriveIsAccount DEF OpenDatas, Indices
    <2> QED BY <2>1 DEF AddIndex, OpenDatas
  <1>4. ASSUME NEW data \in OpenDatas, NEW key \in Accounts PROVE AddKey(data, key) \in OpenDatas
    BY DEF AddKey, OpenDatas
  <1>5. ASSUME NEW data \in OpenDatas, NEW account \in Accounts
        PROVE  [data EXCEPT !.active = account] \in OpenDatas
    BY DEF OpenDatas
  <1>6. ASSUME NEW data \in OpenDatas, NEW urls \in SUBSET Urls
        PROVE  [data EXCEPT !.cookies = urls] \in OpenDatas
    BY DEF OpenDatas
  <1>7. ASSUME NEW data \in WalletDatas PROVE Validated(data) \subseteq OpenDatas
    <2>1. ASSUME NEW account \in AccountsOf(data)
          PROVE  [data EXCEPT !.active = account] \in OpenDatas
      BY AccountsOfType DEF WalletDatas, OpenDatas
    <2> QED BY <2>1 DEF Validated
  <1>8. ASSUME NEW data \in OpenDatas, NEW incoming \in OpenDatas
        PROVE  Merged(data, incoming) \in OpenDatas
    <2>1. data.active # NoAccount
      BY DEF OpenDatas, Accounts
    <2> QED BY <2>1 DEF Merged, MergedPhrase, OpenDatas
  <1> QED BY <1>1, <1>2, <1>3, <1>4, <1>5, <1>6, <1>7, <1>8 DEF NewWallet

(* A refusal keeps the types.                                               *)
LEMMA RefuseType ==
    ASSUME TypeInv, job # None, NEW text \in Answers, Refuse(text),
           vault' = vault, queue' = queue, alarm' \in 0 .. IdleTicks
    PROVE  TypeInv'
  <1>1. Typed'
    BY DEF TypeInv, Typed, Refuse, Reply
  <1> QED BY <1>1 DEF TypeInv, JobShape, GuessesLeft, Refuse, Reply

(* A change of the open wallet keeps the types.                             *)
LEMMA ChangeType ==
    ASSUME TypeInv, job # None, session # None, NEW data \in OpenDatas, Change(data),
           vault' = vault, queue' = queue, alarm' = alarm
    PROVE  TypeInv'
  <1>1. [session EXCEPT !.data = data] \in OpenVaults
    BY DEF TypeInv, Typed, OpenVaults
  <1>2. Typed'
    BY <1>1 DEF TypeInv, Typed, Change, Persist, OpenJobs, Awaits
  <1>3. JobShape'
    BY <1>1, NoneIsNew DEF TypeInv, Typed, Change, Persist, OpenJobs, JobShape
  <1>4. GuessesLeft'
    BY DEF TypeInv, Typed, Change, Persist, OpenJobs, GuessesLeft
  <1> QED BY <1>2, <1>3, <1>4 DEF TypeInv

(* An opening that starts keeps the types.                                  *)
LEMMA StartOpeningType ==
    ASSUME TypeInv, job # None, NEW data \in OpenDatas, StartOpening(data),
           job.request.type \in {"createWallet", "unlock", "importBackup"},
           UNCHANGED <<vault, session, pairing, failedReauth, queue, answer, alarm>>
    PROVE  TypeInv'
  <1>1. Typed'
    BY DEF TypeInv, Typed, StartOpening, OpenJobs, Awaits
  <1>2. JobShape'
    BY NoneIsNew DEF TypeInv, Typed, StartOpening, OpenJobs, JobShape
  <1>3. GuessesLeft'
    BY DEF TypeInv, Typed, StartOpening, OpenJobs, GuessesLeft
  <1> QED BY <1>1, <1>2, <1>3 DEF TypeInv

(* A reauthentication that starts keeps the types.                          *)
LEMMA StartReauthType ==
    ASSUME TypeInv, job # None, NEW checking \in OpenJobs, StartReauth(checking),
           checking.request.type \in Exports \cup {"importBackup"},
           vault' = vault, queue' = queue, alarm' = alarm
    PROVE  TypeInv'
  <1>1. CASE Refuse("Locked")
    BY <1>1, RefuseType DEF Answers, TypeInv, Typed
  <1>2. CASE ~Refuse("Locked")
    <2>1. Typed'
      BY <1>2 DEF TypeInv, Typed, StartReauth, OpenJobs, Awaits
    <2>2. JobShape'
      BY <1>2, NoneIsNew DEF TypeInv, Typed, StartReauth, OpenJobs, JobShape
    <2>3. GuessesLeft'
      BY <1>2 DEF TypeInv, Typed, StartReauth, OpenJobs, GuessesLeft
    <2> QED BY <2>1, <2>2, <2>3 DEF TypeInv
  <1> QED BY <1>1, <1>2

(* A reauthentication that fails keeps the types.                           *)
LEMMA ReauthFailedType ==
    ASSUME TypeInv, job # None, job.at \in {"reauthLoad", "reauthDecrypt"}, ReauthFailed,
           vault' = vault, queue' = queue, alarm' = alarm
    PROVE  TypeInv'
  <1>1. failedReauth < MaxFailures /\ failedReauth \in Nat
    BY DEF TypeInv, Typed, GuessesLeft
  <1>2. Typed'
    <2>1. failedReauth' \in 0 .. MaxFailures
      BY <1>1, Bounds DEF ReauthFailed
    <2>2. session' \in OpenVaults \cup {None}
      BY DEF TypeInv, Typed, ReauthFailed, WipeSession
    <2>3. pairing' \in BOOLEAN
      BY DEF TypeInv, Typed, ReauthFailed, WipeSession
    <2>4. job' = None
      BY DEF ReauthFailed, Reply
    <2>5. answer' \in [Pages -> Answers \cup {None}]
      BY DEF TypeInv, Typed, ReauthFailed, Reply, Answers
    <2> QED BY <2>1, <2>2, <2>3, <2>4, <2>5 DEF TypeInv, Typed
  <1>3. GuessesLeft'
    <2>1. CASE failedReauth' >= MaxFailures
      BY <2>1 DEF ReauthFailed, Reply, WipeSession, GuessesLeft
    <2>2. CASE ~(failedReauth' >= MaxFailures)
      BY <1>1, <2>2, Bounds DEF ReauthFailed, GuessesLeft
    <2> QED BY <2>1, <2>2
  <1> QED BY <1>2, <1>3 DEF TypeInv, JobShape, ReauthFailed, Reply

(* Every step keeps the types.                                              *)
LEMMA TypeStep == TypeInv /\ [Next]_vars => TypeInv'
  <1> SUFFICES ASSUME TypeInv, [Next]_vars PROVE TypeInv'
    OBVIOUS
  <1> USE NoneIsNew DEF TypeInv, Typed
  <1>1. CASE UNCHANGED vars
    BY <1>1 DEF vars, JobShape, GuessesLeft
  <1>2. CASE \E page \in Pages, request \in Offered : Send(page, request)
    <2> PICK page \in Pages, request \in Offered : Send(page, request)
      BY <1>2
    <2>1. [page |-> page, request |-> request] \in [page : Pages, request : Requests]
      BY SignerAssumption
    <2>2. queue' \in Seq([page : Pages, request : Requests])
      BY <2>1, AppendProperties DEF Send
    <2>3. answer' \in [Pages -> Answers \cup {None}]
      BY DEF Send
    <2>4. alarm' \in 0 .. IdleTicks
      BY Bounds DEF Send
    <2> QED BY <2>2, <2>3, <2>4 DEF Send, JobShape, GuessesLeft
  <1>3. CASE Begin
    <2>1. Head(queue) \in [page : Pages, request : Requests]
      BY <1>3, HeadTailProperties DEF Begin
    <2>2. queue' \in Seq([page : Pages, request : Requests])
      BY <1>3, HeadTailProperties DEF Begin
    <2>3. job' \in OpenJobs /\ job'.at = "start"
      BY <1>3, <2>1 DEF Begin, OpenJobs, Awaits
    <2> QED BY <1>3, <2>2, <2>3 DEF Begin, JobShape, GuessesLeft
  <1>4. CASE StartLoad
    BY <1>4
    DEF StartLoad, Running, Suspend, Awaits, OpenJobs, JobShape, GuessesLeft
  <1>5. CASE CreateWallet
    <2>1. CASE /\ StartOpening(NewWallet(job.request.secret)) /\ job.request.secret # Malformed
               /\ UNCHANGED <<session, pairing, failedReauth, answer>>
      <3>1. NewWallet(job.request.secret) \in OpenDatas
        BY <1>5, <2>1, RequestFields, DataTypes DEF CreateWallet, Running, OpenJobs
      <3> QED BY <1>5, <2>1, <3>1, StartOpeningType DEF CreateWallet, Running
    <2>2. CASE Refuse("WalletExists") \/ Refuse("Refused")
      BY <1>5, <2>2, RefuseType DEF CreateWallet, Running, Answers
    <2> QED BY <1>5, <2>1, <2>2 DEF CreateWallet
  <1>6. CASE UnlockLoaded
    BY <1>6
    DEF UnlockLoaded, Running, Refuse, Reply, Answers, Awaits, OpenJobs, JobShape, GuessesLeft
  <1>7. CASE UnlockDecrypted
    <2>1. CASE Refuse("WrongPassword")
      BY <1>7, <2>1, RefuseType DEF UnlockDecrypted, Running, Answers
    <2>2. CASE StartOpening(job.loaded.data) /\ UNCHANGED <<session, pairing, failedReauth, answer>>
      <3>1. job.loaded.data \in OpenDatas
        BY <1>7 DEF UnlockDecrypted, Running, OpenJobs, JobShape, OpenVaults
      <3> QED BY <1>7, <2>2, <3>1, StartOpeningType DEF UnlockDecrypted, Running
    <2> QED BY <1>7, <2>1, <2>2 DEF UnlockDecrypted
  <1>8. CASE SessionOpened
    <2> DEFINE opened == [password |-> job.request.password, data |-> job.incoming]
    <2>1. CASE job.stale
      BY <1>8, <2>1, RefuseType DEF SessionOpened, Answers
    <2>2. CASE ~job.stale
      <3>1. opened \in OpenVaults
        BY <1>8, RequestFields DEF SessionOpened, JobShape, OpenJobs, OpenVaults
      <3>2. /\ session' = opened
            /\ job' \in OpenJobs
            /\ job'.at = "view" \/ (job'.at = "encrypt" /\ job'.current = opened)
        BY <1>8, <2>2, <3>1 DEF SessionOpened, Suspend, Persist, OpenJobs, Awaits
      <3>3. failedReauth' \in 0 .. MaxFailures /\ failedReauth' < MaxFailures
        BY <1>8, <2>2, Bounds DEF SessionOpened
      <3>4. alarm' \in 0 .. IdleTicks
        BY <1>8, <2>2, Bounds DEF SessionOpened, TouchAutoLock
      <3>5. UNCHANGED <<vault, pairing, queue, answer>>
        BY <1>8, <2>2 DEF SessionOpened
      <3>6. JobShape' /\ GuessesLeft'
        BY <3>1, <3>2, <3>3 DEF JobShape, GuessesLeft
      <3> QED BY <3>1, <3>2, <3>3, <3>4, <3>5, <3>6
    <2> QED BY <2>1, <2>2
  <1>9. CASE Encrypted
    BY <1>9
    DEF Encrypted, Suspend, Refuse, Reply, Answers, Awaits, OpenJobs, JobShape, GuessesLeft
  <1>10. CASE Saved
    <2>1. alarm' \in 0 .. IdleTicks
      BY <1>10, Bounds DEF Saved, TouchAutoLock
    <2>2. vault' \in OpenVaults
      BY <1>10 DEF Saved, JobShape, OpenJobs
    <2>3. /\ job' \in OpenJobs \cup {None}
          /\ job' # None => job'.at = "view"
          /\ answer' \in [Pages -> Answers \cup {None}]
      BY <1>10 DEF Saved, Reply, Suspend, OpenJobs, Awaits, Answers
    <2> QED BY <1>10, <2>1, <2>2, <2>3 DEF Saved, JobShape, GuessesLeft
  <1>11. CASE SaveFailed
    BY <1>11
    DEF SaveFailed, Reply, WipeSession, Answers, OpenJobs, JobShape, GuessesLeft
  <1>12. CASE Viewed
    BY <1>12
    DEF Viewed, Reply, Answers, OpenJobs, JobShape, GuessesLeft
  <1>13. CASE LoadFailed
    BY <1>13
    DEF LoadFailed, Running, Reply, Answers, OpenJobs, JobShape, GuessesLeft
  <1>14. CASE GetState
    BY <1>14
    DEF GetState, Running, Suspend, Awaits, OpenJobs, JobShape, GuessesLeft
  <1>15. CASE LockRequest
    BY <1>15
    DEF LockRequest, Running, Suspend, WipeSession, Awaits, OpenJobs, JobShape, GuessesLeft
  <1>16. CASE Reset
    BY <1>16
    DEF Reset, Running, Suspend, WipeSession, Awaits, OpenJobs, JobShape, GuessesLeft
  <1>17. CASE Removed
    BY <1>17
    DEF Removed, Suspend, Reply, Answers, Awaits, OpenJobs, JobShape, GuessesLeft
  <1>18. CASE AddAccount
    <2>1. CASE Refuse("LockedOrNoPhrase") \/ Refuse("Refused")
      BY <1>18, <2>1, RefuseType DEF AddAccount, Running, Answers
    <2>2. ASSUME HasPhrase, NEW index \in Indices, Change(AddIndex(session.data, index))
          PROVE  TypeInv'
      <3>1. AddIndex(session.data, index) \in OpenDatas
        BY <2>2, DataTypes DEF HasPhrase, OpenVaults
      <3> QED BY <1>18, <2>2, <3>1, ChangeType DEF AddAccount, Running, HasPhrase
    <2> QED BY <1>18, <2>1, <2>2 DEF AddAccount
  <1>19. CASE ImportKey
    <2>1. CASE Refuse("Locked") \/ Refuse("Refused")
      BY <1>19, <2>1, RefuseType DEF ImportKey, Running, Answers
    <2>2. CASE session # None /\ Importable(job.request.key) /\ Change(AddKey(session.data, job.request.key))
      <3>1. job.request.key \in Accounts
        BY <1>19, <2>2, RequestFields DEF ImportKey, Running, OpenJobs, Importable
      <3>2. AddKey(session.data, job.request.key) \in OpenDatas
        BY <2>2, <3>1, DataTypes DEF OpenVaults
      <3> QED BY <1>19, <2>2, <3>2, ChangeType DEF ImportKey, Running
    <2> QED BY <1>19, <2>1, <2>2 DEF ImportKey
  <1>20. CASE SetActive
    <2> DEFINE data == [session.data EXCEPT !.active = job.request.account]
    <2>1. CASE Refuse("Locked") \/ Refuse("Refused")
      BY <1>20, <2>1, RefuseType DEF SetActive, Running, Answers
    <2>2. CASE session # None /\ Change(data)
      <3>1. data \in OpenDatas
        BY <1>20, <2>2, RequestFields, DataTypes
        DEF SetActive, Running, OpenJobs, OpenVaults
      <3> QED BY <1>20, <2>2, <3>1, ChangeType DEF SetActive, Running
    <2> QED BY <1>20, <2>1, <2>2 DEF SetActive
  <1>21. CASE SetNodeCookie
    <2> DEFINE urls ==
                 IF job.request.present THEN session.data.cookies \cup {job.request.url}
                 ELSE session.data.cookies \ {job.request.url}
               data == [session.data EXCEPT !.cookies = urls]
    <2>1. CASE Refuse("Locked")
      BY <1>21, <2>1, RefuseType DEF SetNodeCookie, Running, Answers
    <2>2. CASE session # None /\ Change(data)
      <3>1. session.data \in OpenDatas
        BY <2>2 DEF OpenVaults
      <3>2. job.request.url \in Urls
        BY <1>21, RequestFields DEF SetNodeCookie, Running, OpenJobs
      <3>3. urls \in SUBSET Urls
        BY <3>1, <3>2 DEF OpenDatas
      <3>4. data \in OpenDatas
        BY <3>1, <3>3, DataTypes
      <3> QED BY <1>21, <2>2, <3>4, ChangeType DEF SetNodeCookie, Running
    <2> QED BY <1>21, <2>1, <2>2 DEF SetNodeCookie
  <1>22. CASE NodeAuthorization
    BY <1>22
    DEF NodeAuthorization, Running, Refuse, Reply, Answers, OpenJobs, JobShape, GuessesLeft
  <1>23. CASE Sign
    BY <1>23
    DEF Sign, Running, Refuse, Reply, Answers, OpenJobs, JobShape, GuessesLeft
  <1>24. CASE StartExport
    BY <1>24, StartReauthType DEF StartExport, Running
  <1>25. CASE ReauthLoaded
    <2>1. CASE ReauthFailed
      BY <1>25, <2>1, ReauthFailedType DEF ReauthLoaded
    <2>2. CASE ~ReauthFailed
      <3>1. job' \in OpenJobs /\ job'.at = "reauthDecrypt" /\ job'.loaded = vault
            /\ job'.request = job.request /\ vault # None
        BY <1>25, <2>2 DEF ReauthLoaded, OpenJobs, Awaits
      <3> QED BY <1>25, <2>2, <3>1 DEF ReauthLoaded, JobShape, GuessesLeft
    <2> QED BY <2>1, <2>2
  <1>26. CASE ReauthDecrypted
    <2>1. CASE ReauthFailed
      BY <1>26, <2>1, ReauthFailedType DEF ReauthDecrypted
    <2>2. CASE Refuse("Locked")
      BY <1>26, <2>2, RefuseType DEF ReauthDecrypted, Answers
    <2>3. CASE failedReauth' = 0 /\ Reauthenticated /\ UNCHANGED <<session, pairing>>
      <3>1. /\ job' \in OpenJobs \cup {None}
            /\ job' # None => job'.at \in {"open", "seal"}
            /\ answer' \in [Pages -> Answers \cup {None}]
        BY <1>26, <2>3
        DEF ReauthDecrypted, Reauthenticated, JobShape, Reply, Suspend, OpenJobs, Awaits, Answers, Exports
      <3>2. failedReauth' \in 0 .. MaxFailures /\ failedReauth' < MaxFailures
        BY <2>3, Bounds
      <3> QED BY <1>26, <2>3, <3>1, <3>2 DEF ReauthDecrypted, JobShape, GuessesLeft
    <2> QED BY <1>26, <2>1, <2>2, <2>3 DEF ReauthDecrypted
  <1>27. CASE Sealed
    BY <1>27
    DEF Sealed, Refuse, Reply, Answers, OpenJobs, JobShape, GuessesLeft
  <1>28. CASE ImportLoaded
    <2> DEFINE loaded == [job EXCEPT !.loaded = vault]
    <2>1. loaded \in OpenJobs /\ loaded.request = job.request
      BY <1>28 DEF ImportLoaded, Running, OpenJobs
    <2>2. CASE Refuse("UnlockFirst")
      BY <1>28, <2>2, RefuseType DEF ImportLoaded, Running, Answers
    <2>3. CASE StartReauth(loaded)
      BY <1>28, <2>1, <2>3, StartReauthType DEF ImportLoaded, Running
    <2>4. CASE job' = [loaded EXCEPT !.at = "open"] /\ UNCHANGED <<session, pairing, failedReauth, answer>>
      <3>1. job' \in OpenJobs /\ job'.at = "open"
        BY <2>1, <2>4 DEF OpenJobs, Awaits
      <3> QED BY <1>28, <2>4, <3>1 DEF ImportLoaded, JobShape, GuessesLeft
    <2> QED BY <1>28, <2>2, <2>3, <2>4 DEF ImportLoaded
  <1>29. CASE BackupOpened
    <2>1. CASE Refuse("Refused")
      BY <1>29, <2>1, RefuseType DEF BackupOpened, Running, Answers
    <2>2. ASSUME NEW data \in Validated(job.request.backup.data),
                 job' = [job EXCEPT !.at = "recheck", !.incoming = data],
                 UNCHANGED <<session, pairing, failedReauth, answer>>
          PROVE  TypeInv'
      <3>1. job.request.backup.data \in WalletDatas
        BY <1>29, RequestFields DEF BackupOpened, Running, OpenJobs, Vaults
      <3>2. data \in OpenDatas
        BY <2>2, <3>1, DataTypes
      <3>3. job' \in OpenJobs /\ job'.at = "recheck" /\ job'.incoming = data /\ job'.request = job.request
        BY <1>29, <2>2, <3>2 DEF BackupOpened, Running, OpenJobs, Awaits
      <3> QED BY <1>29, <2>2, <3>2, <3>3 DEF BackupOpened, Running, JobShape, GuessesLeft
    <2> QED BY <1>29, <2>1, <2>2 DEF BackupOpened
  <1>30. CASE ImportRechecked
    <2>1. job # None /\ job.request.type = "importBackup" /\ job.incoming \in OpenDatas
      BY <1>30 DEF ImportRechecked, Running, JobShape, OpenJobs
    <2>2. UNCHANGED <<vault, queue, alarm>>
      BY <1>30 DEF ImportRechecked
    <2>3. CASE \E text \in Answers : Refuse(text)
      BY <2>1, <2>2, <2>3, RefuseType
    <2>4. CASE StartOpening(job.incoming) /\ UNCHANGED <<session, pairing, failedReauth, answer>>
      BY <2>1, <2>2, <2>4, StartOpeningType
    <2>5. ASSUME session # None, NEW data \in {job.incoming, Merged(session.data, job.incoming)},
                 Change(data)
          PROVE  TypeInv'
      <3>1. data \in OpenDatas
        BY <2>1, <2>5, DataTypes DEF OpenVaults
      <3> QED BY <2>1, <2>2, <2>5, <3>1, ChangeType
    <2>6. job.request.mode \in {"merge", "replace"}
      BY <2>1 DEF OpenJobs, Requests, Exports, Signs
    <2>7. CASE WalletChanged
      BY <1>30, <2>3, <2>7 DEF ImportRechecked, Answers
    <2>8. CASE ~WalletChanged
      <3>1. Import
        BY <1>30, <2>8 DEF ImportRechecked
      <3>2. CASE job.loaded = None
        BY <2>4, <3>1, <3>2 DEF Import
      <3>3. CASE job.loaded # None /\ session = None
        BY <2>3, <3>1, <3>3 DEF Import, Answers
      <3>4. CASE job.loaded # None /\ session # None
        BY <2>3, <2>5, <2>6, <3>1, <3>4 DEF Import, Answers
      <3> QED BY <3>2, <3>3, <3>4
    <2> QED BY <2>7, <2>8
  <1>31. CASE TransferOffer
    BY <1>31
    DEF TransferOffer, Running, Reply, Answers, OpenJobs, JobShape, GuessesLeft
  <1>32. CASE TransferOpen
    BY <1>32
    DEF TransferOpen, Running, Suspend, Reply, Answers, Awaits, OpenJobs, JobShape, GuessesLeft
  <1>33. CASE EnvelopeOpened
    BY <1>33
    DEF EnvelopeOpened, Running, Refuse, Reply, Answers, OpenJobs, JobShape, GuessesLeft
  <1>34. CASE Tick
    BY <1>34, Bounds DEF Tick, JobShape, GuessesLeft
  <1>35. CASE AutoLock
    <2>1. /\ job' \in OpenJobs \cup {None}
          /\ job' # None =>
                /\ job # None
                /\ job'.at = job.at /\ job'.request = job.request
                /\ job'.loaded = job.loaded /\ job'.current = job.current
                /\ job'.incoming = job.incoming
      BY <1>35 DEF AutoLock, OpenJobs
    <2>2. pairing' \in BOOLEAN /\ session' = None
      BY <1>35 DEF AutoLock, WipeSession
    <2>3. alarm' \in 0 .. IdleTicks
      BY <1>35, Bounds DEF AutoLock
    <2>4. JobShape'
      BY <2>1 DEF JobShape
    <2>5. GuessesLeft'
      BY <1>35, <2>1, <2>2 DEF AutoLock, GuessesLeft
    <2> QED BY <1>35, <2>1, <2>2, <2>3, <2>4, <2>5 DEF AutoLock
  <1>36. CASE Teardown
    <2>1. queue' \in Seq([page : Pages, request : Requests])
      BY <1>36, EmptySeq DEF Teardown
    <2>2. answer' \in [Pages -> Answers \cup {None}]
      BY <1>36 DEF Teardown, Answers
    <2>3. failedReauth' \in 0 .. MaxFailures
      BY <1>36, Bounds DEF Teardown
    <2>4. session' = None /\ job' = None /\ pairing' \in BOOLEAN
      BY <1>36 DEF Teardown, WipeSession
    <2> QED BY <1>36, <2>1, <2>2, <2>3, <2>4 DEF Teardown, JobShape, GuessesLeft
  <1> QED
    BY <1>1, <1>2, <1>3, <1>4, <1>5, <1>6, <1>7, <1>8, <1>9, <1>10, <1>11,
       <1>12, <1>13, <1>14, <1>15, <1>16, <1>17, <1>18, <1>19, <1>20, <1>21,
       <1>22, <1>23, <1>24, <1>25, <1>26, <1>27, <1>28, <1>29, <1>30, <1>31,
       <1>32, <1>33, <1>34, <1>35, <1>36
    DEF Next, Handler

(* Every variable keeps its type, whatever the pages send and however often *)
(* the wallet locks, fails to save or is torn down.                         *)
THEOREM TypeCorrect == Spec => []TypeOK
  <1>1. TypeInv => TypeOK
    BY OpenIsHeld DEF TypeInv, Typed, TypeOK
  <1> QED BY <1>1, TypeInit, TypeStep, PTL DEF Spec

(* Whatever the number of pages, passwords and allowed failures, a session  *)
(* that is open has survived fewer than MaxFailures wrong passwords.        *)
THEOREM GuessesBounded == Spec => []OpenSessionGuessedLittle
  <1>1. TypeInv => OpenSessionGuessedLittle
    BY DEF TypeInv, GuessesLeft, OpenSessionGuessedLittle
  <1> QED BY <1>1, TypeInit, TypeStep, PTL DEF Spec

----------------------------------------------------------------------------
(* The auto-lock alarm                                                      *)

(* Every step keeps an unlocked wallet timed.                               *)
LEMMA TimedStep == TypeInv /\ UnlockedIsTimed /\ [Next]_vars => UnlockedIsTimed'
  <1> SUFFICES ASSUME TypeInv, UnlockedIsTimed, [Next]_vars PROVE UnlockedIsTimed'
    OBVIOUS
  <1> USE Bounds DEF UnlockedIsTimed
  <1>1. CASE UNCHANGED vars
    BY <1>1 DEF vars
  <1>2. CASE \E page \in Pages, request \in Offered : Send(page, request)
    BY <1>2 DEF Send
  <1>3. CASE Begin
    BY <1>3 DEF Begin
  <1>4. CASE StartLoad
    BY <1>4 DEF StartLoad, Running, Suspend
  <1>5. CASE CreateWallet
    BY <1>5 DEF CreateWallet, Running, Refuse, Reply, StartOpening
  <1>6. CASE UnlockLoaded
    BY <1>6 DEF UnlockLoaded, Running, Refuse, Reply
  <1>7. CASE UnlockDecrypted
    BY <1>7 DEF UnlockDecrypted, Running, Refuse, Reply, StartOpening
  <1>8. CASE SessionOpened
    BY <1>8 DEF SessionOpened, Suspend, Refuse, Reply, Persist, TouchAutoLock
  <1>9. CASE Encrypted
    BY <1>9 DEF Encrypted, Suspend, Refuse, Reply
  <1>10. CASE Saved
    BY <1>10 DEF Saved, Suspend, Reply, TouchAutoLock
  <1>11. CASE SaveFailed
    BY <1>11 DEF SaveFailed, Reply, WipeSession
  <1>12. CASE Viewed
    BY <1>12 DEF Viewed, Reply
  <1>13. CASE LoadFailed
    BY <1>13 DEF LoadFailed, Running, Reply
  <1>14. CASE GetState
    BY <1>14 DEF GetState, Running, Suspend
  <1>15. CASE LockRequest
    BY <1>15 DEF LockRequest, Running, Suspend, WipeSession
  <1>16. CASE Reset
    BY <1>16 DEF Reset, Running, Suspend, WipeSession
  <1>17. CASE Removed
    BY <1>17 DEF Removed, Suspend, Reply
  <1>18. CASE AddAccount
    BY <1>18 DEF AddAccount, Running, Refuse, Reply, Persist, Change, HasPhrase
  <1>19. CASE ImportKey
    BY <1>19 DEF ImportKey, Running, Refuse, Reply, Persist, Change
  <1>20. CASE SetActive
    BY <1>20 DEF SetActive, Running, Refuse, Reply, Persist, Change
  <1>21. CASE SetNodeCookie
    BY <1>21 DEF SetNodeCookie, Running, Refuse, Reply, Persist, Change
  <1>22. CASE NodeAuthorization
    BY <1>22 DEF NodeAuthorization, Running, Refuse, Reply
  <1>23. CASE Sign
    BY <1>23 DEF Sign, Running, Refuse, Reply
  <1>24. CASE StartExport
    BY <1>24 DEF StartExport, Running, Refuse, Reply, StartReauth
  <1>25. CASE ReauthLoaded
    BY <1>25 DEF ReauthLoaded, Reply, WipeSession, ReauthFailed
  <1>26. CASE ReauthDecrypted
    BY <1>26
    DEF ReauthDecrypted, Suspend, Refuse, Reply, WipeSession, ReauthFailed, Reauthenticated
  <1>27. CASE Sealed
    BY <1>27 DEF Sealed, Refuse, Reply
  <1>28. CASE ImportLoaded
    BY <1>28 DEF ImportLoaded, Running, Refuse, Reply, StartReauth
  <1>29. CASE BackupOpened
    BY <1>29 DEF BackupOpened, Running, Refuse, Reply
  <1>30. CASE ImportRechecked
    BY <1>30
    DEF ImportRechecked, Running, Refuse, Reply, StartOpening, Persist, Change, Import
  <1>31. CASE TransferOffer
    BY <1>31 DEF TransferOffer, Running, Reply
  <1>32. CASE TransferOpen
    BY <1>32 DEF TransferOpen, Running, Suspend, Reply
  <1>33. CASE EnvelopeOpened
    BY <1>33 DEF EnvelopeOpened, Running, Refuse, Reply
  <1>34. CASE Tick
    BY <1>34 DEF Tick, TypeInv, Typed
  <1>35. CASE AutoLock
    BY <1>35 DEF AutoLock, WipeSession
  <1>36. CASE Teardown
    BY <1>36 DEF Teardown, WipeSession
  <1> QED
    BY <1>1, <1>2, <1>3, <1>4, <1>5, <1>6, <1>7, <1>8, <1>9, <1>10, <1>11,
       <1>12, <1>13, <1>14, <1>15, <1>16, <1>17, <1>18, <1>19, <1>20, <1>21,
       <1>22, <1>23, <1>24, <1>25, <1>26, <1>27, <1>28, <1>29, <1>30, <1>31,
       <1>32, <1>33, <1>34, <1>35, <1>36
    DEF Next, Handler

(* A wallet that is unlocked always has its auto-lock alarm pending.        *)
THEOREM UnlockedTimed == Spec => []UnlockedIsTimed
  <1>1. Init => UnlockedIsTimed
    BY DEF Init, UnlockedIsTimed
  <1> QED BY <1>1, TypeInit, TypeStep, TimedStep, PTL DEF Spec

----------------------------------------------------------------------------
(* The session and the stored vault                                         *)

(* What the running handler knows about the vault it works on: nobody else  *)
(* writes it, and a session it made is the one it is about to save.         *)
HandlerKnows ==
    job # None =>
        /\ job.at \in {"encrypt", "save"} => session \in {None, job.current}
        /\ job.at = "remove" => session = None
        /\ job.at \in {"decrypt", "reauthDecrypt"} => job.loaded = vault
        /\ job.at = "derive" =>
              IF job.request.type = "unlock"
              THEN vault = [password |-> job.request.password, data |-> job.incoming]
              ELSE vault = None

SavedInv == UnlockedIsSaved /\ HandlerKnows

(* A refusal changes nothing that is saved.                                 *)
LEMMA RefuseSaved ==
    ASSUME TypeInv, SavedInv, job # None, job.at \notin {"encrypt", "save"},
           NEW text, Refuse(text), vault' = vault
    PROVE  SavedInv'
  BY DEF Refuse, Reply, SavedInv, UnlockedIsSaved, Saving, HandlerKnows

(* A change saves what it opens.                                            *)
LEMMA ChangeSaved ==
    ASSUME TypeInv, SavedInv, job # None, session # None,
           NEW data \in OpenDatas, Change(data), vault' = vault
    PROVE  SavedInv'
  <1>1. [session EXCEPT !.data = data] \in OpenVaults
    BY DEF TypeInv, Typed, OpenVaults
  <1>2. job' # None /\ job'.at = "encrypt" /\ job'.current = session'
    BY <1>1, NoneIsNew DEF TypeInv, Typed, Change, Persist, OpenJobs, Awaits
  <1> QED BY <1>2 DEF SavedInv, UnlockedIsSaved, Saving, HandlerKnows

(* Every step keeps what is open saved.                                     *)
LEMMA SavedStep == TypeInv /\ SavedInv /\ [Next]_vars => SavedInv'
  <1> SUFFICES ASSUME TypeInv, SavedInv, [Next]_vars PROVE SavedInv'
    OBVIOUS
  <1> USE NoneIsNew DEF TypeInv, Typed, SavedInv, UnlockedIsSaved, Saving, HandlerKnows
  <1>1. CASE UNCHANGED vars
    BY <1>1 DEF vars
  <1>2. CASE \E page \in Pages, request \in Offered : Send(page, request)
    BY <1>2 DEF Send
  <1>3. CASE Begin
    BY <1>3 DEF Begin
  <1>4. CASE StartLoad
    BY <1>4 DEF StartLoad, Running, Suspend, OpenJobs, OpenVaults, JobShape
  <1>5. CASE CreateWallet
    BY <1>5
    DEF CreateWallet, Running, Refuse, Reply, StartOpening, OpenJobs, OpenVaults, JobShape
  <1>6. CASE UnlockLoaded
    BY <1>6 DEF UnlockLoaded, Running, Refuse, Reply, OpenJobs, OpenVaults, JobShape
  <1>7. CASE UnlockDecrypted
    BY <1>7
    DEF UnlockDecrypted, Running, Refuse, Reply, StartOpening, OpenJobs, OpenVaults, JobShape
  <1>8. CASE SessionOpened
    <2> DEFINE opened == [password |-> job.request.password, data |-> job.incoming]
    <2>1. CASE job.stale
      BY <1>8, <2>1, RefuseSaved DEF SessionOpened
    <2>2. CASE ~job.stale /\ job.request.type = "unlock"
      <3>1. vault = opened /\ session' = opened /\ job' # None /\ job'.at = "view"
        BY <1>8, <2>2 DEF SessionOpened, Suspend, OpenJobs, Awaits
      <3> QED BY <1>8, <3>1 DEF SessionOpened
    <2>3. CASE ~job.stale /\ job.request.type # "unlock"
      <3>1. opened \in OpenVaults
        BY <1>8, RequestFields DEF SessionOpened, JobShape, OpenJobs, OpenVaults
      <3>2. Persist(opened) /\ job # None
        BY <1>8, <2>3 DEF SessionOpened
      <3>3. session' = opened /\ job' # None /\ job'.at = "encrypt" /\ job'.current = opened
        BY <3>1, <3>2 DEF Persist, OpenJobs, Awaits
      <3> QED BY <3>3
    <2> QED BY <2>1, <2>2, <2>3
  <1>9. CASE Encrypted
    <2>1. CASE session # job.current
      BY <1>9, <2>1 DEF Encrypted, Refuse, Reply
    <2>2. CASE session = job.current
      BY <1>9, <2>2 DEF Encrypted, Suspend, OpenJobs, Awaits
    <2> QED BY <2>1, <2>2
  <1>10. CASE Saved
    BY <1>10 DEF Saved, Suspend, Reply, TouchAutoLock, OpenJobs, OpenVaults,
       JobShape
  <1>11. CASE SaveFailed
    BY <1>11 DEF SaveFailed, Reply, WipeSession, OpenJobs, OpenVaults, JobShape
  <1>12. CASE Viewed
    BY <1>12 DEF Viewed, Reply, OpenJobs, OpenVaults, JobShape
  <1>13. CASE LoadFailed
    BY <1>13 DEF LoadFailed, Running, Reply, OpenJobs, OpenVaults, JobShape
  <1>14. CASE GetState
    BY <1>14 DEF GetState, Running, Suspend, OpenJobs, OpenVaults, JobShape
  <1>15. CASE LockRequest
    BY <1>15
    DEF LockRequest, Running, Suspend, WipeSession, OpenJobs, OpenVaults, JobShape
  <1>16. CASE Reset
    BY <1>16 DEF Reset, Running, Suspend, WipeSession, OpenJobs, OpenVaults,
       JobShape
  <1>17. CASE Removed
    BY <1>17 DEF Removed, Suspend, Reply, OpenJobs, OpenVaults, JobShape
  <1>18. CASE AddAccount
    <2>1. CASE Refuse("LockedOrNoPhrase") \/ Refuse("Refused")
      BY <1>18, <2>1, RefuseSaved DEF AddAccount, Running
    <2>2. ASSUME HasPhrase, NEW index \in Indices, Change(AddIndex(session.data, index))
          PROVE  SavedInv'
      <3>1. AddIndex(session.data, index) \in OpenDatas
        BY <2>2, DataTypes DEF HasPhrase, OpenVaults
      <3> QED BY <1>18, <2>2, <3>1, ChangeSaved DEF AddAccount, Running, HasPhrase
    <2> QED BY <1>18, <2>1, <2>2 DEF AddAccount
  <1>19. CASE ImportKey
    <2>1. CASE Refuse("Locked") \/ Refuse("Refused")
      BY <1>19, <2>1, RefuseSaved DEF ImportKey, Running
    <2>2. CASE session # None /\ Importable(job.request.key) /\ Change(AddKey(session.data, job.request.key))
      <3>1. job.request.key \in Accounts
        BY <1>19, <2>2, RequestFields DEF ImportKey, Running, OpenJobs, Importable
      <3>2. AddKey(session.data, job.request.key) \in OpenDatas
        BY <2>2, <3>1, DataTypes DEF OpenVaults
      <3> QED BY <1>19, <2>2, <3>2, ChangeSaved DEF ImportKey, Running
    <2> QED BY <1>19, <2>1, <2>2 DEF ImportKey
  <1>20. CASE SetActive
    <2>1. CASE Refuse("Locked") \/ Refuse("Refused")
      BY <1>20, <2>1, RefuseSaved DEF SetActive, Running
    <2>2. CASE session # None /\ Change([session.data EXCEPT !.active = job.request.account])
      <3>1. job.request.account \in Accounts /\ session.data \in OpenDatas
        BY <1>20, <2>2, RequestFields DEF SetActive, Running, OpenJobs, OpenVaults
      <3>2. [session.data EXCEPT !.active = job.request.account] \in OpenDatas
        BY <3>1, DataTypes
      <3> QED BY <1>20, <2>2, <3>2, ChangeSaved DEF SetActive, Running
    <2> QED BY <1>20, <2>1, <2>2 DEF SetActive
  <1>21. CASE SetNodeCookie
    <2> DEFINE urls ==
                 IF job.request.present THEN session.data.cookies \cup {job.request.url}
                 ELSE session.data.cookies \ {job.request.url}
               data == [session.data EXCEPT !.cookies = urls]
    <2>1. CASE Refuse("Locked")
      BY <1>21, <2>1, RefuseSaved DEF SetNodeCookie, Running
    <2>2. CASE session # None /\ Change(data)
      <3>1. session.data \in OpenDatas /\ job.request.url \in Urls
        BY <1>21, <2>2, RequestFields DEF SetNodeCookie, Running, OpenJobs,
           OpenVaults
      <3>2. urls \in SUBSET Urls
        BY <3>1 DEF OpenDatas
      <3>3. data \in OpenDatas
        BY <3>1, <3>2, DataTypes
      <3> QED BY <1>21, <2>2, <3>3, ChangeSaved DEF SetNodeCookie, Running
    <2> QED BY <1>21, <2>1, <2>2 DEF SetNodeCookie
  <1>22. CASE NodeAuthorization
    BY <1>22
    DEF NodeAuthorization, Running, Refuse, Reply, OpenJobs, OpenVaults, JobShape
  <1>23. CASE Sign
    BY <1>23 DEF Sign, Running, Refuse, Reply, OpenJobs, OpenVaults, JobShape
  <1>24. CASE StartExport
    BY <1>24
    DEF StartExport, Running, Refuse, Reply, StartReauth, OpenJobs, OpenVaults, JobShape
  <1>25. CASE ReauthLoaded
    BY <1>25
    DEF ReauthLoaded, Reply, WipeSession, ReauthFailed, OpenJobs, OpenVaults, JobShape
  <1>26. CASE ReauthDecrypted
    <2>1. CASE Refuse("Locked")
      BY <1>26, <2>1, RefuseSaved DEF ReauthDecrypted
    <2>2. CASE ReauthFailed
      BY <1>26, <2>2 DEF ReauthDecrypted, ReauthFailed, Reply, WipeSession
    <2>3. CASE Reauthenticated /\ UNCHANGED <<session, pairing>>
      <3>1. job' # None => job'.at \in {"open", "seal"}
        BY <1>26, <2>3
        DEF ReauthDecrypted, Reauthenticated, JobShape, Reply, Suspend, OpenJobs, Exports
      <3> QED BY <1>26, <2>3, <3>1 DEF ReauthDecrypted
    <2> QED BY <1>26, <2>1, <2>2, <2>3 DEF ReauthDecrypted
  <1>27. CASE Sealed
    BY <1>27 DEF Sealed, Refuse, Reply, OpenJobs, OpenVaults, JobShape
  <1>28. CASE ImportLoaded
    BY <1>28
    DEF ImportLoaded, Running, Refuse, Reply, StartReauth, OpenJobs, OpenVaults, JobShape
  <1>29. CASE BackupOpened
    BY <1>29 DEF BackupOpened, Running, Refuse, Reply, OpenJobs, OpenVaults,
       JobShape
  <1>30. CASE ImportRechecked
    <2>1. /\ job # None /\ job.request.type = "importBackup" /\ job.at = "recheck"
          /\ job.incoming \in OpenDatas /\ vault' = vault
      BY <1>30 DEF ImportRechecked, Running, JobShape, OpenJobs
    <2>2. CASE \E text \in Answers : Refuse(text)
      BY <2>1, <2>2, RefuseSaved
    <2>3. ASSUME session # None, NEW data \in {job.incoming, Merged(session.data, job.incoming)},
                 Change(data)
          PROVE  SavedInv'
      <3>1. data \in OpenDatas
        BY <2>1, <2>3, DataTypes DEF OpenVaults
      <3> QED BY <2>1, <2>3, <3>1, ChangeSaved
    <2>4. CASE WalletChanged
      BY <1>30, <2>2, <2>4 DEF ImportRechecked, Answers
    <2>5. CASE ~WalletChanged
      <3>1. Import /\ job.request.mode \in {"merge", "replace"}
        BY <1>30, <2>1, <2>5 DEF ImportRechecked, OpenJobs, Requests, Exports, Signs
      <3>2. CASE job.loaded = None
        <4>1. vault = None
          BY <2>5, <3>2 DEF WalletChanged
        <4>2. StartOpening(job.incoming) /\ session' = session
          BY <3>1, <3>2 DEF Import
        <4>3. job' \in OpenJobs /\ job'.at = "derive" /\ job'.request = job.request
          BY <2>1, <4>2 DEF StartOpening, OpenJobs, Awaits
        <4> QED BY <2>1, <4>1, <4>2, <4>3
      <3>3. CASE job.loaded # None /\ session = None
        BY <2>2, <3>1, <3>3 DEF Import, Answers
      <3>4. CASE job.loaded # None /\ session # None
        BY <2>2, <2>3, <3>1, <3>4 DEF Import, Answers
      <3> QED BY <3>2, <3>3, <3>4
    <2> QED BY <2>4, <2>5
  <1>31. CASE TransferOffer
    BY <1>31 DEF TransferOffer, Running, Reply, OpenJobs, OpenVaults, JobShape
  <1>32. CASE TransferOpen
    BY <1>32 DEF TransferOpen, Running, Suspend, Reply, OpenJobs, OpenVaults,
       JobShape
  <1>33. CASE EnvelopeOpened
    BY <1>33
    DEF EnvelopeOpened, Running, Refuse, Reply, OpenJobs, OpenVaults, JobShape
  <1>34. CASE Tick
    BY <1>34 DEF Tick
  <1>35. CASE AutoLock
    BY <1>35 DEF AutoLock, WipeSession, OpenJobs
  <1>36. CASE Teardown
    BY <1>36 DEF Teardown, WipeSession
  <1> QED
    BY <1>1, <1>2, <1>3, <1>4, <1>5, <1>6, <1>7, <1>8, <1>9, <1>10, <1>11,
       <1>12, <1>13, <1>14, <1>15, <1>16, <1>17, <1>18, <1>19, <1>20, <1>21,
       <1>22, <1>23, <1>24, <1>25, <1>26, <1>27, <1>28, <1>29, <1>30, <1>31,
       <1>32, <1>33, <1>34, <1>35, <1>36
    DEF Next, Handler

(* At first nothing is open.                                                *)
LEMMA SavedInit == Init => SavedInv
  BY DEF Init, SavedInv, UnlockedIsSaved, HandlerKnows

(* Whatever is unlocked, and not just being saved, is what is stored.       *)
THEOREM SessionIsSaved == Spec => []UnlockedIsSaved
  <1>1. SavedInv => UnlockedIsSaved
    BY DEF SavedInv
  <1> QED BY <1>1, TypeInit, TypeStep, SavedInit, SavedStep, PTL DEF Spec

(* A step that opens the wallet was given the password of what is stored.   *)
LEMMA OpeningStep ==
    TypeInv /\ SavedInv /\ [Next]_vars /\ session = None /\ session' # None =>
        /\ session'.password = job.request.password
        /\ vault # None => session' = vault
  <1> SUFFICES ASSUME TypeInv, SavedInv, [Next]_vars, session = None, session' # None
               PROVE  /\ session'.password = job.request.password
                      /\ vault # None => session' = vault
    OBVIOUS
  <1>1. CASE SessionOpened
    <2> DEFINE opened == [password |-> job.request.password, data |-> job.incoming]
    <2>1. session' = opened
      BY <1>1 DEF SessionOpened, Refuse, Persist
    <2>2. vault # None => vault = opened
      BY <1>1 DEF SessionOpened, SavedInv, HandlerKnows
    <2> QED BY <2>1, <2>2
  <1>2. CASE Handler /\ ~SessionOpened
    BY <1>2
    DEF Handler, StartLoad, CreateWallet, UnlockLoaded, UnlockDecrypted,
       Encrypted, Saved, SaveFailed, Viewed, LoadFailed,
        GetState, LockRequest, Reset, Removed, AddAccount, ImportKey, SetActive, SetNodeCookie, NodeAuthorization, Sign, StartExport,
        ReauthLoaded, ReauthDecrypted, Sealed, ImportLoaded, BackupOpened, ImportRechecked, TransferOffer, TransferOpen, EnvelopeOpened,
        Running, Suspend, Refuse, Reply, StartOpening, TouchAutoLock, WipeSession, Persist, Change, HasPhrase, StartReauth, ReauthFailed, Reauthenticated, Import
  <1>3. CASE Begin \/ Tick \/ AutoLock \/ Teardown \/ UNCHANGED vars
    BY <1>3 DEF Begin, Tick, AutoLock, Teardown, WipeSession, vars
  <1>4. CASE \E page \in Pages, request \in Offered : Send(page, request)
    BY <1>4 DEF Send
  <1> QED BY <1>1, <1>2, <1>3, <1>4 DEF Next

(* A wallet opens only for the password of what is stored, and with it.     *)
THEOREM OpenedByPassword == Spec => OpensWithPassword
  <1>1. TypeInv /\ SavedInv /\ [Next]_vars =>
          [ session = None /\ session' # None =>
              /\ session'.password = job.request.password
              /\ vault # None => session' = vault ]_vars
    BY OpeningStep
  <1> QED
    BY <1>1, TypeInit, TypeStep, SavedInit, SavedStep, PTL DEF Spec,
       OpensWithPassword

----------------------------------------------------------------------------
(* The keys in the vault                                                    *)

(* No operation on a wallet but a replacement takes an account away.        *)
LEMMA AccountsGrow ==
    ASSUME NEW data \in OpenDatas
    PROVE  /\ \A index \in Indices : AccountsOf(data) \subseteq AccountsOf(AddIndex(data, index))
           /\ \A key \in Accounts : AccountsOf(data) \subseteq AccountsOf(AddKey(data, key))
           /\ \A account \in Accounts :
                 AccountsOf([data EXCEPT !.active = account]) = AccountsOf(data)
           /\ \A urls \in SUBSET Urls :
                 AccountsOf([data EXCEPT !.cookies = urls]) = AccountsOf(data)
           /\ \A incoming \in OpenDatas : AccountsOf(data) \subseteq AccountsOf(Merged(data, incoming))
  <1>1. ASSUME NEW index \in Indices PROVE AccountsOf(data) \subseteq AccountsOf(AddIndex(data, index))
    BY DEF OpenDatas, AccountsOf, HdAccounts, AddIndex
  <1>2. ASSUME NEW key \in Accounts PROVE AccountsOf(data) \subseteq AccountsOf(AddKey(data, key))
    BY DEF OpenDatas, AccountsOf, HdAccounts, AddKey
  <1>3. ASSUME NEW account \in Accounts
        PROVE  AccountsOf([data EXCEPT !.active = account]) = AccountsOf(data)
    BY DEF OpenDatas, AccountsOf, HdAccounts
  <1>4. ASSUME NEW urls \in SUBSET Urls
        PROVE  AccountsOf([data EXCEPT !.cookies = urls]) = AccountsOf(data)
    BY DEF OpenDatas, AccountsOf, HdAccounts
  <1>5. ASSUME NEW incoming \in OpenDatas
        PROVE  AccountsOf(data) \subseteq AccountsOf(Merged(data, incoming))
    <2> DEFINE merged == Merged(data, incoming)
    <2>1. HdAccounts(data.phrase, data.hd) \subseteq HdAccounts(merged.phrase, merged.hd)
      BY DEF Merged, MergedPhrase, HdAccounts
    <2>2. data.imported \subseteq merged.imported \cup HdAccounts(merged.phrase, merged.hd)
      BY DEF Merged
    <2> QED BY <2>1, <2>2 DEF AccountsOf
  <1> QED BY <1>1, <1>2, <1>3, <1>4, <1>5

(* The running handler was asked to replace the wallet and checked the      *)
(* password of the stored one.                                              *)
MayReplace ==
    /\ job.request.type = "importBackup"
    /\ job.request.mode = "replace"
    /\ vault # None
    /\ job.request.currentPassword = vault.password

(* What is on its way to storage has every stored key, or may replace them; *)
(* a replacing import that found a vault has its password before it goes on.*)
KeysInv ==
    job # None =>
        /\ job.at \in {"encrypt", "save"} =>
              KeysIn(vault) \subseteq KeysIn(job.current) \/ MayReplace
        /\ /\ job.at \in {"open", "recheck"}
           /\ job.request.type = "importBackup" /\ job.request.mode = "replace"
           /\ job.loaded # None
           => MayReplace
        /\ job.at = "remove" => job.request.type = "reset"

(* An answer ends the job: nothing will be saved for it.                    *)
LEMMA RefuseKeys == ASSUME NEW text, Refuse(text) PROVE KeysInv'
  BY DEF Refuse, Reply, KeysInv

(* A change of the open session keeps its keys, and its keys are the        *)
(* vault's.                                                                 *)
LEMMA ChangeKeys ==
    ASSUME TypeInv, SavedInv, job # None, ~Saving, session # None,
           NEW data \in OpenDatas, Change(data), vault' = vault,
           AccountsOf(session.data) \subseteq AccountsOf(data)
    PROVE  KeysInv'
  <1>1. [session EXCEPT !.data = data] \in OpenVaults /\ session \in OpenVaults
    BY DEF TypeInv, Typed, OpenVaults
  <1>2. session'.data = data
    BY <1>1 DEF Change, Persist, OpenVaults
  <1>3. job' \in OpenJobs /\ job'.at = "encrypt" /\ job'.current = session' /\ session' # None
    BY <1>1, NoneIsNew DEF TypeInv, Typed, Change, Persist, OpenJobs, Awaits
  <1>4. KeysIn(vault) \subseteq AccountsOf(session.data)
    BY DEF SavedInv, UnlockedIsSaved, KeysIn
  <1>5. KeysIn(job'.current) = AccountsOf(data)
    BY <1>2, <1>3 DEF KeysIn
  <1>6. KeysIn(vault') \subseteq KeysIn(job'.current)
    BY <1>4, <1>5
  <1> QED BY <1>3, <1>6 DEF KeysInv

(* Every step keeps that what a job will save has the saved keys.           *)
LEMMA KeysStep == TypeInv /\ SavedInv /\ KeysInv /\ [Next]_vars => KeysInv'
  <1> SUFFICES ASSUME TypeInv, SavedInv, KeysInv, [Next]_vars PROVE KeysInv'
    OBVIOUS
  <1> USE NoneIsNew DEF TypeInv, Typed, KeysInv, MayReplace
  <1>1. CASE UNCHANGED vars
    BY <1>1 DEF vars
  <1>2. CASE \E page \in Pages, request \in Offered : Send(page, request)
    BY <1>2 DEF Send
  <1>3. CASE Begin
    BY <1>3 DEF Begin
  <1>4. CASE StartLoad
    BY <1>4 DEF StartLoad, Running, Suspend, OpenJobs, JobShape
  <1>5. CASE CreateWallet
    BY <1>5 DEF CreateWallet, Running, Refuse, Reply, StartOpening, OpenJobs,
       JobShape
  <1>6. CASE UnlockLoaded
    BY <1>6 DEF UnlockLoaded, Running, Refuse, Reply, OpenJobs, JobShape
  <1>7. CASE UnlockDecrypted
    BY <1>7
    DEF UnlockDecrypted, Running, Refuse, Reply, StartOpening, OpenJobs, JobShape
  <1>8. CASE SessionOpened
    <2>1. CASE job.stale
      BY <1>8, <2>1, RefuseKeys DEF SessionOpened
    <2>2. CASE ~job.stale /\ job.request.type = "unlock"
      BY <1>8, <2>2 DEF SessionOpened, Suspend, OpenJobs
    <2>3. CASE ~job.stale /\ job.request.type # "unlock"
      <3>1. vault' = None
        BY <1>8, <2>3 DEF SessionOpened, SavedInv, HandlerKnows
      <3>2. KeysIn(vault') = {}
        BY <3>1 DEF KeysIn
      <3>3. job' = [job EXCEPT !.at = "encrypt", !.current =
                      [password |-> job.request.password, data |-> job.incoming]]
        BY <1>8, <2>3 DEF SessionOpened, Persist
      <3> QED BY <1>8, <3>2, <3>3 DEF SessionOpened, OpenJobs
    <2> QED BY <2>1, <2>2, <2>3
  <1>9. CASE Encrypted
    BY <1>9 DEF Encrypted, Suspend, Refuse, Reply, OpenJobs, JobShape
  <1>10. CASE Saved
    BY <1>10 DEF Saved, Suspend, Reply, TouchAutoLock, OpenJobs, JobShape
  <1>11. CASE SaveFailed
    BY <1>11 DEF SaveFailed, Reply, WipeSession, OpenJobs, JobShape
  <1>12. CASE Viewed
    BY <1>12 DEF Viewed, Reply, OpenJobs, JobShape
  <1>13. CASE LoadFailed
    BY <1>13 DEF LoadFailed, Running, Reply, OpenJobs, JobShape
  <1>14. CASE GetState
    BY <1>14 DEF GetState, Running, Suspend, OpenJobs, JobShape
  <1>15. CASE LockRequest
    BY <1>15 DEF LockRequest, Running, Suspend, WipeSession, OpenJobs, JobShape
  <1>16. CASE Reset
    BY <1>16 DEF Reset, Running, Suspend, WipeSession, OpenJobs, JobShape
  <1>17. CASE Removed
    BY <1>17 DEF Removed, Suspend, Reply, OpenJobs, JobShape
  <1>18. CASE AddAccount
    <2>1. CASE Refuse("LockedOrNoPhrase") \/ Refuse("Refused")
      BY <1>18, <2>1, RefuseKeys DEF AddAccount
    <2>2. ASSUME HasPhrase, NEW index \in Indices, Change(AddIndex(session.data, index))
          PROVE  KeysInv'
      <3>1. AddIndex(session.data, index) \in OpenDatas /\ session.data \in OpenDatas
        BY <2>2, DataTypes DEF HasPhrase, OpenVaults
      <3> QED BY <1>18, <2>2, <3>1, ChangeKeys, AccountsGrow DEF AddAccount, Running, HasPhrase, Saving
    <2> QED BY <1>18, <2>1, <2>2 DEF AddAccount
  <1>19. CASE ImportKey
    <2>1. CASE Refuse("Locked") \/ Refuse("Refused")
      BY <1>19, <2>1, RefuseKeys DEF ImportKey
    <2>2. CASE session # None /\ Importable(job.request.key) /\ Change(AddKey(session.data, job.request.key))
      <3>1. job.request.key \in Accounts
        BY <1>19, <2>2, RequestFields DEF ImportKey, Running, OpenJobs, Importable
      <3>2. AddKey(session.data, job.request.key) \in OpenDatas /\ session.data \in OpenDatas
        BY <2>2, <3>1, DataTypes DEF OpenVaults
      <3> QED BY <1>19, <2>2, <3>1, <3>2, ChangeKeys, AccountsGrow DEF ImportKey, Running, Saving
    <2> QED BY <1>19, <2>1, <2>2 DEF ImportKey
  <1>20. CASE SetActive
    <2>1. CASE Refuse("Locked") \/ Refuse("Refused")
      BY <1>20, <2>1, RefuseKeys DEF SetActive
    <2>2. CASE session # None /\ Change([session.data EXCEPT !.active = job.request.account])
      <3>1. job.request.account \in Accounts /\ session.data \in OpenDatas
        BY <1>20, <2>2, RequestFields DEF SetActive, Running, OpenJobs, OpenVaults
      <3>2. [session.data EXCEPT !.active = job.request.account] \in OpenDatas
        BY <3>1, DataTypes
      <3>3. AccountsOf([session.data EXCEPT !.active = job.request.account]) = AccountsOf(session.data)
        BY <3>1, AccountsGrow
      <3> QED BY <1>20, <2>2, <3>2, <3>3, ChangeKeys DEF SetActive, Running, Saving
    <2> QED BY <1>20, <2>1, <2>2 DEF SetActive
  <1>21. CASE SetNodeCookie
    <2> DEFINE urls ==
                 IF job.request.present THEN session.data.cookies \cup {job.request.url}
                 ELSE session.data.cookies \ {job.request.url}
               data == [session.data EXCEPT !.cookies = urls]
    <2>1. CASE Refuse("Locked")
      BY <1>21, <2>1, RefuseKeys DEF SetNodeCookie
    <2>2. CASE session # None /\ Change(data)
      <3>1. session.data \in OpenDatas /\ job.request.url \in Urls
        BY <1>21, <2>2, RequestFields DEF SetNodeCookie, Running, OpenJobs,
           OpenVaults
      <3>2. urls \in SUBSET Urls
        BY <3>1 DEF OpenDatas
      <3>3. data \in OpenDatas /\ AccountsOf(data) = AccountsOf(session.data)
        BY <3>1, <3>2, DataTypes, AccountsGrow
      <3> QED BY <1>21, <2>2, <3>3, ChangeKeys DEF SetNodeCookie, Running, Saving
    <2> QED BY <1>21, <2>1, <2>2 DEF SetNodeCookie
  <1>22. CASE NodeAuthorization
    BY <1>22 DEF NodeAuthorization, Running, Refuse, Reply, OpenJobs, JobShape
  <1>23. CASE Sign
    BY <1>23 DEF Sign, Running, Refuse, Reply, OpenJobs, JobShape
  <1>24. CASE StartExport
    BY <1>24 DEF StartExport, Running, Refuse, Reply, StartReauth, OpenJobs,
       JobShape
  <1>25. CASE ReauthLoaded
    BY <1>25 DEF ReauthLoaded, Reply, WipeSession, ReauthFailed, OpenJobs, JobShape
  <1>26. CASE ReauthDecrypted
    <2>1. CASE Refuse("Locked") \/ ReauthFailed
      BY <1>26, <2>1, RefuseKeys DEF ReauthDecrypted, ReauthFailed, Reply
    <2>2. CASE TypedPassword = job.loaded.password /\ Reauthenticated
      <3>1. job' # None => job'.at \in {"open", "seal"} /\ job'.request = job.request
        BY <1>26, <2>2
        DEF ReauthDecrypted, Reauthenticated, JobShape, Reply, Suspend, OpenJobs, Exports
      <3>2. vault' = vault /\ job.loaded = vault /\ vault # None
        BY <1>26 DEF ReauthDecrypted, SavedInv, HandlerKnows, JobShape
      <3> QED BY <1>26, <2>2, <3>1, <3>2 DEF ReauthDecrypted, TypedPassword
    <2> QED BY <1>26, <2>1, <2>2 DEF ReauthDecrypted
  <1>27. CASE Sealed
    BY <1>27 DEF Sealed, Refuse, Reply, OpenJobs, JobShape
  <1>28. CASE ImportLoaded
    <2>1. CASE Refuse("UnlockFirst")
      BY <1>28, <2>1, RefuseKeys DEF ImportLoaded
    <2>2. CASE StartReauth([job EXCEPT !.loaded = vault])
      <3>1. CASE Refuse("Locked")
        BY <3>1, RefuseKeys
      <3>2. CASE ~Refuse("Locked")
        <4>1. job' = [[job EXCEPT !.loaded = vault] EXCEPT !.at = "reauthLoad", !.current = session]
          BY <2>2, <3>2 DEF StartReauth
        <4>2. job'.at = "reauthLoad"
          BY <1>28, <4>1 DEF ImportLoaded, Running, OpenJobs
        <4> QED BY <4>2
      <3> QED BY <3>1, <3>2
    <2>3. CASE /\ vault = None \/ job.request.mode = "merge"
               /\ job' = [[job EXCEPT !.loaded = vault] EXCEPT !.at = "open"]
      BY <1>28, <2>3 DEF ImportLoaded, Running, OpenJobs
    <2> QED BY <1>28, <2>1, <2>2, <2>3 DEF ImportLoaded
  <1>29. CASE BackupOpened
    BY <1>29 DEF BackupOpened, Running, Refuse, Reply, OpenJobs, JobShape
  <1>30. CASE ImportRechecked
    <2>1. /\ job \in OpenJobs /\ job.request.type = "importBackup" /\ job.at = "recheck"
          /\ job.incoming \in OpenDatas /\ vault' = vault
      BY <1>30 DEF ImportRechecked, Running, JobShape, OpenJobs
    <2>2. CASE \E text \in Answers : Refuse(text)
      BY <2>2, RefuseKeys
    <2>3. CASE StartOpening(job.incoming)
      BY <2>1, <2>3 DEF StartOpening, OpenJobs
    <2>4. CASE /\ session # None /\ job.loaded # None
               /\ job.request.mode = "replace" /\ Change(job.incoming)
      BY <2>1, <2>4 DEF Change, Persist, OpenJobs
    <2>5. CASE session # None /\ Change(Merged(session.data, job.incoming))
      <3>1. session.data \in OpenDatas
        BY <2>5 DEF OpenVaults
      <3>2. Merged(session.data, job.incoming) \in OpenDatas
        BY <2>1, <3>1, DataTypes
      <3>3. AccountsOf(session.data) \subseteq AccountsOf(Merged(session.data, job.incoming))
        BY <2>1, <3>1, AccountsGrow
      <3> QED BY <2>1, <2>5, <3>2, <3>3, ChangeKeys DEF Saving
    <2>6. CASE WalletChanged
      BY <1>30, <2>2, <2>6 DEF ImportRechecked, Answers
    <2>7. CASE ~WalletChanged
      <3>1. Import /\ job.request.mode \in {"merge", "replace"}
        BY <1>30, <2>1, <2>7 DEF ImportRechecked, OpenJobs, Requests, Exports, Signs
      <3>2. CASE job.loaded = None
        BY <2>3, <3>1, <3>2 DEF Import
      <3>3. CASE job.loaded # None /\ session = None
        BY <2>2, <3>1, <3>3 DEF Import, Answers
      <3>4. CASE job.loaded # None /\ session # None
        BY <2>2, <2>4, <2>5, <3>1, <3>4 DEF Import, Answers
      <3> QED BY <3>2, <3>3, <3>4
    <2> QED BY <2>6, <2>7
  <1>31. CASE TransferOffer
    BY <1>31 DEF TransferOffer, Running, Reply, OpenJobs, JobShape
  <1>32. CASE TransferOpen
    BY <1>32 DEF TransferOpen, Running, Suspend, Reply, OpenJobs, JobShape
  <1>33. CASE EnvelopeOpened
    BY <1>33 DEF EnvelopeOpened, Running, Refuse, Reply, OpenJobs, JobShape
  <1>34. CASE Tick
    BY <1>34 DEF Tick
  <1>35. CASE AutoLock
    BY <1>35 DEF AutoLock, WipeSession, OpenJobs
  <1>36. CASE Teardown
    BY <1>36 DEF Teardown, WipeSession
  <1> QED
    BY <1>1, <1>2, <1>3, <1>4, <1>5, <1>6, <1>7, <1>8, <1>9, <1>10, <1>11,
       <1>12, <1>13, <1>14, <1>15, <1>16, <1>17, <1>18, <1>19, <1>20, <1>21,
       <1>22, <1>23, <1>24, <1>25, <1>26, <1>27, <1>28, <1>29, <1>30, <1>31,
       <1>32, <1>33, <1>34, <1>35, <1>36
    DEF Next, Handler

(* At first no job runs.                                                    *)
LEMMA KeysInit == Init => KeysInv
  BY DEF Init, KeysInv

(* The stored keys change only when a handler saves or removes the vault.   *)
LEMMA LeavingStep ==
    TypeInv /\ SavedInv /\ KeysInv /\ [Next]_vars =>
        \/ KeysIn(vault) \subseteq KeysIn(vault')
        \/ /\ job # None
           /\ job.request.type = "reset" \/ MayReplace
  <1> SUFFICES ASSUME TypeInv, KeysInv, [Next]_vars, vault' # vault
               PROVE  \/ KeysIn(vault) \subseteq KeysIn(vault')
                      \/ /\ job # None
                         /\ job.request.type = "reset" \/ MayReplace
    OBVIOUS
  <1>1. CASE Saved
    BY <1>1 DEF Saved, KeysInv
  <1>2. CASE Removed
    BY <1>2 DEF Removed, KeysInv
  <1>3. CASE Handler /\ ~Saved /\ ~Removed
    BY <1>3
    DEF Handler, StartLoad, CreateWallet, UnlockLoaded, UnlockDecrypted,
       SessionOpened, Encrypted, SaveFailed, Viewed, LoadFailed,
        GetState, LockRequest, Reset, AddAccount, ImportKey, SetActive, SetNodeCookie, NodeAuthorization, Sign, StartExport,
        ReauthLoaded, ReauthDecrypted, Sealed, ImportLoaded, BackupOpened, ImportRechecked, TransferOffer, TransferOpen, EnvelopeOpened
  <1>4. CASE Begin \/ Tick \/ AutoLock \/ Teardown \/ UNCHANGED vars
    BY <1>4 DEF Begin, Tick, AutoLock, Teardown, vars
  <1>5. CASE \E page \in Pages, request \in Offered : Send(page, request)
    BY <1>5 DEF Send
  <1> QED BY <1>1, <1>2, <1>3, <1>4, <1>5 DEF Next

(* A stored key is lost only by a reset, or by a replacing import that was  *)
(* given the stored wallet's password, for every interleaving of requests,  *)
(* locks, failed saves and teardowns.                                       *)
THEOREM KeysKept == Spec => KeysLeaveByChoice
  <1>1. TypeInv /\ SavedInv /\ KeysInv /\ [Next]_vars =>
          [ KeysIn(vault) \subseteq KeysIn(vault') \/
              /\ job # None
              /\ \/ job.request.type = "reset"
                 \/ /\ job.request.type = "importBackup"
                    /\ job.request.mode = "replace"
                    /\ job.request.currentPassword = vault.password ]_vars
    BY LeavingStep DEF MayReplace
  <1> QED
    BY <1>1, TypeInit, TypeStep, SavedInit, SavedStep, KeysInit, KeysStep, PTL
    DEF Spec, KeysLeaveByChoice
----------------------------------------------------------------------------
(* Locks during a handler                                                   *)

(* A creation that was interrupted is about to find that it is stale, and a *)
(* check of the password holds the session it is made for.                  *)
LocksInv ==
    /\ NoNullSession
    /\ job # None =>
          /\ job.at \in {"reauthLoad", "reauthDecrypt"} => job.current # None
          /\ job.request.type = "createWallet" =>
                /\ job.at \in {"start", "load", "derive", "encrypt", "save", "view"}
                /\ job.interrupted => job.at = "derive" /\ job.stale /\ session = None

(* An answer ends the job a lock could have interrupted.                    *)
LEMMA RefuseLocks ==
    ASSUME TypeInv, LocksInv, job # None, NEW text \in Answers, text # "TypeError", Reply(text)
    PROVE  LocksInv'
  BY DEF TypeInv, Typed, Reply, LocksInv, NoNullSession

(* Every step keeps a creation that was interrupted stale.                  *)
LEMMA LocksStep == TypeInv /\ LocksInv /\ [Next]_vars => LocksInv'
  <1> SUFFICES ASSUME TypeInv, LocksInv, [Next]_vars PROVE LocksInv'
    OBVIOUS
  <1> USE NoneIsNew DEF TypeInv, Typed, LocksInv, NoNullSession
  <1> None # "TypeError"
    BY SignerAssumption DEF Answers
  <1>1. CASE UNCHANGED vars
    BY <1>1 DEF vars
  <1>2. CASE \E page \in Pages, request \in Offered : Send(page, request)
    BY <1>2 DEF Send
  <1>3. CASE Begin \/ Tick \/ Teardown
    BY <1>3 DEF Begin, Tick, Teardown
  <1>4. CASE AutoLock
    BY <1>4 DEF AutoLock, WipeSession, OpenJobs
  <1>5. CASE StartLoad \/ CreateWallet \/ UnlockLoaded \/ UnlockDecrypted
    BY <1>5
    DEF StartLoad, CreateWallet, UnlockLoaded, UnlockDecrypted, Running, Suspend, Refuse, Reply,
        StartOpening, OpenJobs
  <1>6. CASE SessionOpened
    BY <1>6 DEF SessionOpened, Suspend, Refuse, Reply, Persist, OpenJobs
  <1>7. CASE Encrypted \/ Saved \/ SaveFailed
    BY <1>7
    DEF Encrypted, Saved, SaveFailed, WipeSession, Suspend, Refuse, Reply, OpenJobs
  <1>8. CASE Viewed \/ LoadFailed \/ GetState \/ LockRequest \/ Reset \/ Removed
    BY <1>8
    DEF Viewed, LoadFailed, GetState, LockRequest, Reset, Removed, Running, WipeSession, Suspend,
        Refuse, Reply, OpenJobs
  <1>9. CASE AddAccount \/ ImportKey \/ SetActive \/ SetNodeCookie \/ NodeAuthorization \/ Sign
    BY <1>9
    DEF AddAccount, ImportKey, SetActive, SetNodeCookie, NodeAuthorization, Sign, Signs, Running,
        Refuse, Reply, Change, Persist, OpenJobs
  <1>10. CASE StartExport \/ ImportLoaded
    BY <1>10
    DEF StartExport, ImportLoaded, Exports, StartReauth, Running, Refuse, Reply, OpenJobs
  <1>11. CASE ReauthLoaded
    BY <1>11 DEF ReauthLoaded, JobShape, Exports, ReauthFailed, WipeSession, Reply, OpenJobs
  <1>12. CASE ReauthDecrypted
    <2>1. CASE ReauthFailed
      BY <1>12, <2>1 DEF ReauthDecrypted, ReauthFailed, WipeSession, Reply
    <2>2. CASE Refuse("Locked")
      BY <1>12, <2>2 DEF ReauthDecrypted, Refuse, Reply
    <2>3. CASE session = job.current /\ Reauthenticated /\ UNCHANGED <<session, pairing>>
      BY <1>12, <2>3
      DEF ReauthDecrypted, Reauthenticated, JobShape, Exports, Suspend, Reply, OpenJobs
    <2> QED BY <1>12, <2>1, <2>2, <2>3 DEF ReauthDecrypted
  <1>13. CASE Sealed \/ BackupOpened \/ TransferOffer \/ TransferOpen \/ EnvelopeOpened
    BY <1>13
    DEF Sealed, BackupOpened, TransferOffer, TransferOpen, EnvelopeOpened, Running, Suspend,
        Refuse, Reply, OpenJobs
  <1>14. CASE ImportRechecked
    <2>1. job \in OpenJobs /\ job.request.type = "importBackup" /\ job.at = "recheck"
      BY <1>14 DEF ImportRechecked, Running
    <2>2. CASE Refuse("WalletChanged") \/ Refuse("Refused")
      BY <2>1, <2>2, RefuseLocks DEF Refuse, Answers
    <2>3. CASE StartOpening(job.incoming) /\ UNCHANGED <<session, answer>>
      BY <2>1, <2>3 DEF StartOpening, OpenJobs
    <2>4. ASSUME NEW data, Change(data) PROVE LocksInv'
      BY <2>1, <2>4 DEF Change, Persist, OpenJobs
    <2>5. CASE WalletChanged
      BY <1>14, <2>2, <2>5 DEF ImportRechecked
    <2>6. CASE ~WalletChanged
      <3>1. Import /\ (job.loaded # None => session # None)
        BY <1>14, <2>6 DEF ImportRechecked, WalletChanged
      <3>2. job.request.mode \in {"merge", "replace"}
        BY <2>1 DEF OpenJobs, Requests, Exports, Signs
      <3> QED BY <2>2, <2>3, <2>4, <3>1, <3>2 DEF Import
    <2> QED BY <2>5, <2>6
  <1> QED
    BY <1>1, <1>2, <1>3, <1>4, <1>5, <1>6, <1>7, <1>8, <1>9, <1>10, <1>11,
       <1>12, <1>13, <1>14
    DEF Next, Handler

(* A lock during a key's derivation is not undone by a creation, and no     *)
(* handler reads through a session that a lock has taken away.              *)
THEOREM LocksLast == Spec => []LocksAreFinal
  <1>1. Init => LocksInv
    BY DEF Init, LocksInv, NoNullSession
  <1>2. LocksInv => LocksAreFinal
    BY DEF LocksInv, LocksAreFinal, LockStopsCreation
  <1> QED BY <1>1, <1>2, TypeInit, TypeStep, LocksStep, PTL DEF Spec

----------------------------------------------------------------------------
(* Answers                                                                  *)

(* A page waits for the one answer of the request that it sent last.        *)
WaitInv ==
    /\ \A i \in 1 .. Len(queue) : answer[queue[i].page] = None
    /\ \A i, j \in 1 .. Len(queue) : queue[i].page = queue[j].page => i = j
    /\ job # None =>
          /\ answer[job.page] = None
          /\ \A i \in 1 .. Len(queue) : queue[i].page # job.page

(* The queue is a sequence of requests of pages.                            *)
LEMMA QueueFields ==
    ASSUME TypeInv
    PROVE  Len(queue) \in Nat /\ \A i \in 1 .. Len(queue) : queue[i].page \in Pages
  <1>1. queue \in Seq([page : Pages, request : Requests])
    BY DEF TypeInv, Typed
  <1>2. Len(queue) \in Nat /\ \A i \in 1 .. Len(queue) : queue[i] \in [page : Pages, request : Requests]
    BY <1>1, ElementOfSeq, LenProperties
  <1> QED BY <1>2

(* A handler goes on or answers its page; the others wait as before.        *)
HandlerMoves == job # None /\ queue' = queue
                /\ \/ answer' = answer /\ (job' = None \/ job'.page = job.page)
                   \/ job' = None /\ \E text : answer' = [answer EXCEPT ![job.page] = text]

(* A handler answers only its own page, and ends when it does.              *)
LEMMA HandlerStep == TypeInv /\ Handler => HandlerMoves
  <1> SUFFICES ASSUME TypeInv, Handler PROVE HandlerMoves
    OBVIOUS
  <1> USE NoneIsNew DEF TypeInv, Typed, HandlerMoves
  <1>1. CASE StartLoad \/ CreateWallet \/ UnlockLoaded \/ UnlockDecrypted \/ SessionOpened
    BY <1>1
    DEF StartLoad, CreateWallet, UnlockLoaded, UnlockDecrypted, SessionOpened, Running, Suspend,
        Refuse, Reply, StartOpening, Persist, OpenJobs
  <1>2. CASE Encrypted \/ Saved \/ SaveFailed \/ Viewed \/ LoadFailed
    BY <1>2 DEF Encrypted, Saved, SaveFailed, Viewed, LoadFailed, Suspend, Refuse, Reply, OpenJobs
  <1>3. CASE GetState \/ LockRequest \/ Reset \/ Removed
    BY <1>3 DEF GetState, LockRequest, Reset, Removed, Running, Suspend, Reply, OpenJobs
  <1>4. CASE AddAccount \/ ImportKey \/ SetActive \/ SetNodeCookie \/ NodeAuthorization \/ Sign
    BY <1>4
    DEF AddAccount, ImportKey, SetActive, SetNodeCookie, NodeAuthorization, Sign, Running,
        Refuse, Reply, Change, Persist, OpenJobs
  <1>5. CASE StartExport \/ ImportLoaded
    BY <1>5 DEF StartExport, ImportLoaded, StartReauth, Running, Refuse, Reply, OpenJobs
  <1>6. CASE ReauthLoaded
    BY <1>6 DEF ReauthLoaded, ReauthFailed, Reply, OpenJobs
  <1>7. CASE ReauthDecrypted
    <2>1. CASE ReauthFailed \/ Refuse("Locked")
      BY <1>7, <2>1 DEF ReauthDecrypted, ReauthFailed, Refuse, Reply
    <2>2. CASE Reauthenticated
      BY <1>7, <2>2
      DEF ReauthDecrypted, Reauthenticated, JobShape, Exports, Suspend, Reply, OpenJobs
    <2> QED BY <1>7, <2>1, <2>2 DEF ReauthDecrypted
  <1>8. CASE Sealed \/ BackupOpened \/ TransferOffer \/ TransferOpen \/ EnvelopeOpened
    BY <1>8
    DEF Sealed, BackupOpened, TransferOffer, TransferOpen, EnvelopeOpened, Running, Suspend,
        Refuse, Reply, OpenJobs
  <1>9. CASE ImportRechecked
    <2>1. job \in OpenJobs /\ queue' = queue
      BY <1>9 DEF ImportRechecked, Running
    <2>2. ASSUME NEW text, Refuse(text) PROVE HandlerMoves
      BY <2>1, <2>2 DEF Refuse, Reply
    <2>3. CASE StartOpening(job.incoming) /\ UNCHANGED answer
      BY <2>1, <2>3 DEF StartOpening, OpenJobs
    <2>4. ASSUME NEW data, Change(data) PROVE HandlerMoves
      BY <2>1, <2>4 DEF Change, Persist, OpenJobs
    <2>5. job.request.mode \in {"merge", "replace"}
      BY <1>9, <2>1 DEF ImportRechecked, Running, OpenJobs, Requests, Exports, Signs
    <2> QED BY <1>9, <2>2, <2>3, <2>4, <2>5 DEF ImportRechecked, Import
  <1> QED BY <1>1, <1>2, <1>3, <1>4, <1>5, <1>6, <1>7, <1>8, <1>9 DEF Handler

(* Every step keeps who waits waiting for one answer.                       *)
LEMMA WaitStep == TypeInv /\ WaitInv /\ [Next]_vars => WaitInv'
  <1> SUFFICES ASSUME TypeInv, WaitInv, [Next]_vars PROVE WaitInv'
    OBVIOUS
  <1> USE NoneIsNew DEF TypeInv, Typed
  <1>1. CASE UNCHANGED vars \/ Tick
    BY <1>1 DEF vars, Tick, WaitInv
  <1>2. ASSUME NEW page \in Pages, NEW request \in Offered, Send(page, request)
        PROVE  WaitInv'
    <2>1. /\ queue \in Seq([page : Pages, request : Requests])
          /\ [page |-> page, request |-> request] \in [page : Pages, request : Requests]
      BY SignerAssumption
    <2>2. /\ Len(queue') = Len(queue) + 1
          /\ \A i \in 1 .. Len(queue) : queue'[i] = queue[i]
          /\ queue'[Len(queue) + 1].page = page
      BY <1>2, <2>1, AppendProperties DEF Send
    <2>3. /\ answer[page] # None /\ job' = job
          /\ answer'[page] = None
          /\ \A other \in Pages \ {page} : answer'[other] = answer[other]
      BY <1>2 DEF Send, Waiting
    <2>4. \A i \in 1 .. Len(queue) : queue[i].page # page
      BY <2>3 DEF WaitInv
    <2>5. job # None => job.page # page /\ job.page \in Pages
      BY <2>3 DEF WaitInv, OpenJobs
    <2> QED BY <2>2, <2>3, <2>4, <2>5, QueueFields DEF WaitInv
  <1>3. CASE Begin
    <2>1. /\ queue \in Seq([page : Pages, request : Requests]) /\ queue # <<>>
          /\ queue' = Tail(queue) /\ answer' = answer
      BY <1>3 DEF Begin
    <2>2. /\ Len(queue') = Len(queue) - 1 /\ Len(queue) \in Nat \ {0}
          /\ \A i \in 1 .. Len(queue) - 1 : queue'[i] = queue[i + 1]
      BY <2>1, HeadTailProperties, EmptySeq, LenProperties
    <2>3. job'.page = queue[1].page /\ job' # None
      <3>1. job'.page = Head(queue).page
        BY <1>3 DEF Begin
      <3>2. Head(queue) = queue[1]
        BY <2>1, HeadTailProperties
      <3>3. job' \in OpenJobs
        <4>1. Head(queue) \in [page : Pages, request : Requests]
          BY <2>1, HeadTailProperties
        <4> QED BY <1>3, <4>1 DEF Begin, OpenJobs, Awaits
      <3> QED BY <3>1, <3>2, <3>3
    <2> QED BY <2>1, <2>2, <2>3 DEF WaitInv
  <1>4. CASE Handler
    <2>1. HandlerMoves
      BY <1>4, HandlerStep
    <2>2. \A i \in 1 .. Len(queue) : queue[i].page \in Pages /\ queue[i].page # job.page
      BY <2>1, QueueFields DEF HandlerMoves, WaitInv
    <2> QED BY <2>1, <2>2 DEF HandlerMoves, WaitInv, OpenJobs
  <1>5. CASE AutoLock
    BY <1>5 DEF AutoLock, OpenJobs, WaitInv
  <1>6. CASE Teardown
    BY <1>6 DEF Teardown, WaitInv
  <1> QED BY <1>1, <1>2, <1>3, <1>4, <1>5, <1>6 DEF Next

(* What each of a handler's awaits has earned: an export its password, a    *)
(* change that it is in what is saved.                                      *)
EarnedInv ==
    job # None =>
        /\ job.request.type \in Exports =>
              job.at \in {"start", "reauthLoad", "reauthDecrypt", "seal"}
        /\ job.at = "seal" =>
              /\ job.request.type \in Exports
              /\ vault # None /\ job.request.password = vault.password
        /\ job.at = "open" => job.request.type \in {"importBackup", "transferOpen"}
        /\ job.at = "derive" /\ job.request.type = "createWallet" =>
              /\ job.request.secret # Malformed
              /\ job.incoming = NewWallet(job.request.secret)
        /\ job.at \in {"derive", "recheck"} /\ job.request.type = "importBackup" =>
              AccountsOf(job.request.backup.data) \subseteq AccountsOf(job.incoming)
        /\ job.at \in {"encrypt", "save"} => Holds(job.request, job.current)
        /\ job.at = "view" => Holds(job.request, vault)

Asked == {"createWallet", "importKey", "setActive", "setNodeCookie", "importBackup", "reset"}

(* A request that asks nothing of the vault holds of any.                   *)
LEMMA NothingAskedHolds ==
    ASSUME NEW request, NEW stored, request.type \notin Asked
    PROVE  Holds(request, stored)
  BY DEF Holds, Asked

(* A new wallet starts with an account of its own.                          *)
LEMMA CreationHolds ==
    ASSUME NEW secret \in Phrases \cup RawKeys
    PROVE  NewWallet(secret).active \in AccountsOf(NewWallet(secret))
  <1>1. CASE secret \in Phrases
    BY <1>1, DataAssumption DEF NewWallet, FromPhrase, AccountsOf, HdAccounts
  <1>2. CASE secret \notin Phrases
    BY <1>2 DEF NewWallet, FromKey, AccountsOf
  <1> QED BY <1>1, <1>2

(* Validation may select another account; it keeps them all.                *)
LEMMA ValidatedHolds ==
    ASSUME NEW data \in WalletDatas, NEW validated \in Validated(data)
    PROVE  AccountsOf(validated) = AccountsOf(data)
  <1>1. PICK account : validated = [data EXCEPT !.active = account]
    BY DEF Validated
  <1> QED BY <1>1 DEF WalletDatas, AccountsOf, HdAccounts

(* A merge has every account of what it imports.                            *)
LEMMA MergeHolds ==
    ASSUME NEW data \in OpenDatas, NEW incoming \in OpenDatas, Mergeable(data, incoming)
    PROVE  AccountsOf(incoming) \subseteq AccountsOf(Merged(data, incoming))
  <1> DEFINE merged == Merged(data, incoming)
  <1>1. /\ merged.phrase = MergedPhrase(data, incoming)
        /\ merged.hd = data.hd \cup incoming.hd
        /\ merged.imported =
              (data.imported \cup incoming.imported) \ HdAccounts(merged.phrase, merged.hd)
    BY DEF Merged
  <1>2. incoming.phrase \in {NoPhrase, merged.phrase}
    BY <1>1 DEF Mergeable
  <1>3. HdAccounts(incoming.phrase, incoming.hd) \subseteq HdAccounts(merged.phrase, merged.hd)
    BY <1>1, <1>2 DEF HdAccounts
  <1>4. incoming.imported \subseteq merged.imported \cup HdAccounts(merged.phrase, merged.hd)
    BY <1>1
  <1> QED BY <1>3, <1>4 DEF AccountsOf

(* An answer ends the job, and with it what an ok rests on.                 *)
LEMMA RefuseEarned == ASSUME NEW text, Reply(text) PROVE EarnedInv'
  BY DEF Reply, EarnedInv

(* A change earns its ok when it is saved.                                  *)
LEMMA ChangeEarned ==
    ASSUME TypeInv, EarnedInv, job # None, job.request.type \notin Exports, session # None,
           NEW data \in OpenDatas, Change(data),
           Holds(job.request, [session EXCEPT !.data = data])
    PROVE  EarnedInv'
  <1>1. [session EXCEPT !.data = data] \in OpenVaults
    BY DEF TypeInv, Typed, OpenVaults
  <1>2. /\ job' # None /\ job'.at = "encrypt" /\ job'.request = job.request
        /\ job'.current = [session EXCEPT !.data = data]
    BY <1>1, NoneIsNew DEF TypeInv, Typed, Change, Persist, OpenJobs, Awaits
  <1> QED BY <1>2 DEF EarnedInv

(* Every step keeps what an ok rests on.                                    *)
LEMMA EarnedStep == TypeInv /\ SavedInv /\ KeysInv /\ EarnedInv /\ [Next]_vars => EarnedInv'
  <1> SUFFICES ASSUME TypeInv, SavedInv, KeysInv, EarnedInv, [Next]_vars PROVE EarnedInv'
    OBVIOUS
  <1> USE NoneIsNew DEF TypeInv, Typed, EarnedInv
  <1>1. CASE UNCHANGED vars \/ Tick
    BY <1>1 DEF vars, Tick
  <1>2. CASE \E page \in Pages, request \in Offered : Send(page, request)
    BY <1>2 DEF Send
  <1>3. CASE Begin \/ Teardown
    BY <1>3 DEF Begin, Teardown
  <1>4. CASE AutoLock
    BY <1>4 DEF AutoLock, OpenJobs
  <1>5. CASE StartLoad \/ CreateWallet \/ UnlockLoaded \/ UnlockDecrypted
    BY <1>5
    DEF StartLoad, CreateWallet, UnlockLoaded, UnlockDecrypted, Running, Suspend, Refuse, Reply,
        StartOpening, OpenJobs, Exports
  <1>6. CASE SessionOpened
    <2> DEFINE opened == [password |-> job.request.password, data |-> job.incoming]
    <2>1. CASE job.stale
      BY <1>6, <2>1, RefuseEarned DEF SessionOpened, Refuse
    <2>2. CASE ~job.stale /\ job.request.type = "unlock"
      <3>1. Holds(job.request, vault)
        BY <2>2, NothingAskedHolds DEF Asked
      <3> QED BY <1>6, <2>2, <3>1 DEF SessionOpened, Suspend, OpenJobs, Exports
    <2>3. CASE ~job.stale /\ job.request.type = "createWallet"
      <3>1. job.request \in Requests /\ job.request.secret \in Phrases \cup RawKeys
        BY <1>6, <2>3, RequestFields DEF SessionOpened, OpenJobs
      <3>2. opened # None /\ opened.data = NewWallet(job.request.secret)
        <4>1. opened \in OpenVaults
          BY <1>6, RequestFields DEF SessionOpened, JobShape, OpenJobs, OpenVaults
        <4> QED BY <1>6, <2>3, <4>1 DEF SessionOpened
      <3>3. Holds(job.request, opened)
        BY <2>3, <3>1, <3>2, CreationHolds DEF Holds, KeysIn
      <3> QED BY <1>6, <2>3, <3>3 DEF SessionOpened, Persist, OpenJobs, Exports
    <2>4. CASE ~job.stale /\ job.request.type = "importBackup"
      <3>1. opened # None
        BY <1>6, RequestFields DEF SessionOpened, JobShape, OpenJobs, OpenVaults
      <3>2. Holds(job.request, opened)
        BY <1>6, <2>4, <3>1 DEF SessionOpened, Holds, KeysIn
      <3> QED BY <1>6, <2>4, <3>2 DEF SessionOpened, Persist, OpenJobs, Exports
    <2> QED BY <1>6, <2>1, <2>2, <2>3, <2>4 DEF SessionOpened, JobShape
  <1>7. CASE Encrypted
    BY <1>7 DEF Encrypted, Suspend, Refuse, Reply, OpenJobs
  <1>8. CASE Saved
    BY <1>8 DEF Saved, Suspend, Reply, OpenJobs
  <1>9. CASE SaveFailed \/ Viewed \/ LoadFailed
    BY <1>9, RefuseEarned DEF SaveFailed, Viewed, LoadFailed
  <1>10. CASE GetState \/ LockRequest
    <2>1. job \in OpenJobs /\ vault' = vault /\ job' = [job EXCEPT !.at = "view"]
      BY <1>10 DEF GetState, LockRequest, Running, Suspend
    <2>2. job.request.type \in {"getState", "lock"}
      BY <1>10 DEF GetState, LockRequest, Running
    <2>3. Holds(job.request, vault)
      BY <2>2, NothingAskedHolds DEF Asked
    <2> QED BY <2>1, <2>2, <2>3 DEF OpenJobs, Exports
  <1>11. CASE Reset
    BY <1>11 DEF Reset, Running, Suspend, OpenJobs, Exports
  <1>12. CASE Removed
    <2>1. job.request.type = "reset" /\ job \in OpenJobs
      BY <1>12 DEF Removed, KeysInv
    <2>2. Holds(job.request, None)
      BY <2>1 DEF Holds
    <2> QED BY <1>12, <2>1, <2>2, RefuseEarned DEF Removed, Suspend, OpenJobs, Exports
  <1>13. CASE AddAccount
    <2>1. CASE Refuse("LockedOrNoPhrase") \/ Refuse("Refused")
      BY <2>1, RefuseEarned DEF Refuse
    <2>2. ASSUME HasPhrase, NEW index \in Indices, Change(AddIndex(session.data, index))
          PROVE  EarnedInv'
      <3>1. AddIndex(session.data, index) \in OpenDatas
        BY <2>2, DataTypes DEF HasPhrase, OpenVaults
      <3>2. /\ job # None /\ job.request.type = "addAccount" /\ session # None
            /\ Holds(job.request, [session EXCEPT !.data = AddIndex(session.data, index)])
        BY <1>13, <2>2, NothingAskedHolds DEF AddAccount, Running, HasPhrase, Asked
      <3> QED BY <2>2, <3>1, <3>2, ChangeEarned DEF Exports
    <2> QED BY <1>13, <2>1, <2>2 DEF AddAccount
  <1>14. CASE ImportKey
    <2> DEFINE data == AddKey(session.data, job.request.key)
    <2>1. CASE Refuse("Locked") \/ Refuse("Refused")
      BY <2>1, RefuseEarned DEF Refuse
    <2>2. CASE session # None /\ Importable(job.request.key) /\ Change(data)
      <3>1. job.request.key \in Accounts /\ session.data \in OpenDatas
        BY <1>14, <2>2, RequestFields DEF ImportKey, Running, OpenJobs, Importable, OpenVaults
      <3>2. data \in OpenDatas /\ job.request.key \in AccountsOf(data)
        BY <3>1, DataTypes DEF AddKey, AccountsOf, OpenDatas
      <3>3. [session EXCEPT !.data = data] \in OpenVaults /\ [session EXCEPT !.data = data].data = data
        BY <2>2, <3>2 DEF OpenVaults
      <3>4. Holds(job.request, [session EXCEPT !.data = data])
        BY <1>14, <3>2, <3>3 DEF ImportKey, Running, Holds, KeysIn
      <3> QED BY <1>14, <2>2, <3>2, <3>4, ChangeEarned DEF ImportKey, Running, Exports
    <2> QED BY <1>14, <2>1, <2>2 DEF ImportKey
  <1>15. CASE SetActive
    <2> DEFINE data == [session.data EXCEPT !.active = job.request.account]
    <2>1. CASE Refuse("Locked") \/ Refuse("Refused")
      BY <2>1, RefuseEarned DEF Refuse
    <2>2. CASE session # None /\ Change(data)
      <3>1. job.request.account \in Accounts /\ session.data \in OpenDatas
        BY <1>15, <2>2, RequestFields DEF SetActive, Running, OpenJobs, OpenVaults
      <3>2. data \in OpenDatas /\ data.active = job.request.account
        BY <3>1, DataTypes DEF OpenDatas
      <3>3. [session EXCEPT !.data = data] \in OpenVaults /\ [session EXCEPT !.data = data].data = data
        BY <2>2, <3>2 DEF OpenVaults
      <3>4. Holds(job.request, [session EXCEPT !.data = data])
        BY <1>15, <3>2, <3>3 DEF SetActive, Running, Holds
      <3> QED BY <1>15, <2>2, <3>2, <3>4, ChangeEarned DEF SetActive, Running, Exports
    <2> QED BY <1>15, <2>1, <2>2 DEF SetActive
  <1>16. CASE SetNodeCookie
    <2> DEFINE urls ==
                 IF job.request.present THEN session.data.cookies \cup {job.request.url}
                 ELSE session.data.cookies \ {job.request.url}
               data == [session.data EXCEPT !.cookies = urls]
    <2>1. CASE Refuse("Locked")
      BY <2>1, RefuseEarned DEF Refuse
    <2>2. CASE session # None /\ Change(data)
      <3>1. session.data \in OpenDatas /\ job.request.url \in Urls /\ job.request.present \in BOOLEAN
        BY <1>16, <2>2 DEF SetNodeCookie, Running, OpenJobs, OpenVaults, Requests, Exports, Signs
      <3>2. urls \in SUBSET Urls
        BY <3>1 DEF OpenDatas
      <3>3. data \in OpenDatas /\ data.cookies = urls
        BY <3>1, <3>2, DataTypes DEF OpenDatas
      <3>4. /\ [session EXCEPT !.data = data] \in OpenVaults
            /\ [session EXCEPT !.data = data].data = data
        BY <2>2, <3>3 DEF OpenVaults
      <3>5. job.request.url \in urls <=> job.request.present
        BY <3>1
      <3>6. Holds(job.request, [session EXCEPT !.data = data])
        BY <1>16, <3>3, <3>4, <3>5 DEF SetNodeCookie, Running, Holds
      <3> QED BY <1>16, <2>2, <3>3, <3>6, ChangeEarned DEF SetNodeCookie, Running, Exports
    <2> QED BY <1>16, <2>1, <2>2 DEF SetNodeCookie
  <1>17. CASE NodeAuthorization \/ Sign \/ Sealed \/ TransferOffer \/ EnvelopeOpened
    BY <1>17, RefuseEarned
    DEF NodeAuthorization, Sign, Sealed, TransferOffer, EnvelopeOpened, Refuse
  <1>18. CASE StartExport
    BY <1>18 DEF StartExport, StartReauth, Running, Refuse, Reply, OpenJobs
  <1>19. CASE ReauthLoaded
    BY <1>19 DEF ReauthLoaded, ReauthFailed, Reply, OpenJobs
  <1>20. CASE ReauthDecrypted
    <2>1. CASE ReauthFailed \/ Refuse("Locked")
      BY <2>1, RefuseEarned DEF ReauthFailed, Refuse
    <2>2. CASE TypedPassword = job.loaded.password /\ Reauthenticated
      <3>1. /\ job \in OpenJobs /\ vault' = vault /\ job.loaded = vault /\ vault # None
            /\ job.request.type \in Exports \cup {"importBackup"}
        BY <1>20 DEF ReauthDecrypted, SavedInv, HandlerKnows, JobShape
      <3>2. \/ job' = None
            \/ job' = [job EXCEPT !.at = "open"] /\ job.request.type = "importBackup"
            \/ job' = [job EXCEPT !.at = "seal"] /\ job.request.type \in Exports
        BY <2>2, <3>1 DEF Reauthenticated, Suspend, Reply, Exports
      <3> QED BY <2>2, <3>1, <3>2 DEF TypedPassword, OpenJobs, Exports
    <2> QED BY <1>20, <2>1, <2>2 DEF ReauthDecrypted
  <1>21. CASE ImportLoaded
    BY <1>21 DEF ImportLoaded, StartReauth, Running, Refuse, Reply, OpenJobs, Exports
  <1>22. CASE BackupOpened
    <2>1. CASE Refuse("Refused")
      BY <2>1, RefuseEarned DEF Refuse
    <2>2. ASSUME NEW data \in Validated(job.request.backup.data),
                 job' = [job EXCEPT !.at = "recheck", !.incoming = data]
          PROVE  EarnedInv'
      <3>1. job \in OpenJobs /\ job.request.type = "importBackup"
        BY <1>22 DEF BackupOpened, Running
      <3>2. job.request.backup.data \in WalletDatas
        BY <3>1, RequestFields DEF OpenJobs, Vaults
      <3>3. AccountsOf(job.request.backup.data) \subseteq AccountsOf(data)
        BY <3>2, ValidatedHolds
      <3> QED BY <2>2, <3>1, <3>3 DEF OpenJobs, Exports
    <2> QED BY <1>22, <2>1, <2>2 DEF BackupOpened
  <1>23. CASE ImportRechecked
    <2>1. /\ job \in OpenJobs /\ job.request.type = "importBackup" /\ job.at = "recheck"
          /\ job.incoming \in OpenDatas /\ vault' = vault
      BY <1>23 DEF ImportRechecked, Running, JobShape, OpenJobs
    <2>2. ASSUME NEW text, Refuse(text) PROVE EarnedInv'
      BY <2>2, RefuseEarned DEF Refuse
    <2>3. CASE StartOpening(job.incoming)
      BY <2>1, <2>3 DEF StartOpening, OpenJobs, Exports
    <2>4. ASSUME session # None, NEW data \in OpenDatas, Change(data),
                 AccountsOf(job.incoming) \subseteq AccountsOf(data)
          PROVE  EarnedInv'
      <3>1. [session EXCEPT !.data = data] \in OpenVaults /\ [session EXCEPT !.data = data].data = data
        BY <2>4 DEF OpenVaults
      <3>2. Holds(job.request, [session EXCEPT !.data = data])
        BY <2>1, <2>4, <3>1 DEF Holds, KeysIn
      <3> QED BY <2>1, <2>4, <3>2, ChangeEarned DEF Exports
    <2>5. CASE WalletChanged
      BY <1>23, <2>2, <2>5 DEF ImportRechecked
    <2>6. CASE ~WalletChanged
      <3>1. Import /\ job.request.mode \in {"merge", "replace"}
        BY <1>23, <2>1, <2>6 DEF ImportRechecked, OpenJobs, Requests, Exports, Signs
      <3>2. CASE job.loaded = None \/ session = None
        BY <2>2, <2>3, <3>1, <3>2 DEF Import
      <3>3. CASE job.loaded # None /\ session # None /\ job.request.mode = "replace"
        BY <2>1, <2>4, <3>1, <3>3 DEF Import
      <3>4. CASE job.loaded # None /\ session # None /\ job.request.mode = "merge"
        <4>1. CASE Refuse("Refused")
          BY <2>2, <4>1
        <4>2. CASE Mergeable(session.data, job.incoming) /\ Change(Merged(session.data, job.incoming))
          <5>1. session.data \in OpenDatas
            BY <3>4 DEF OpenVaults
          <5>2. Merged(session.data, job.incoming) \in OpenDatas
            BY <2>1, <5>1, DataTypes
          <5>3. AccountsOf(job.incoming) \subseteq AccountsOf(Merged(session.data, job.incoming))
            BY <2>1, <4>2, <5>1, MergeHolds
          <5> QED BY <2>4, <3>4, <4>2, <5>2, <5>3
        <4> QED BY <3>1, <3>4, <4>1, <4>2 DEF Import
      <3> QED BY <3>1, <3>2, <3>3, <3>4
    <2> QED BY <2>5, <2>6
  <1>24. CASE TransferOpen
    BY <1>24 DEF TransferOpen, Running, Suspend, Reply, OpenJobs, Exports
  <1> QED
    BY <1>1, <1>2, <1>3, <1>4, <1>5, <1>6, <1>7, <1>8, <1>9, <1>10, <1>11,
       <1>12, <1>13, <1>14, <1>15, <1>16, <1>17, <1>18, <1>19, <1>20, <1>21,
       <1>22, <1>23, <1>24
    DEF Next, Handler

(* A step that answers "ok" has earned it.                                  *)
Earned ==
    /\ Holds(job.request, vault')
    /\ job.request.type \in Exports => vault # None /\ job.request.password = vault.password

(* An ok is answered only when it was earned.                               *)
LEMMA OkStep ==
    TypeInv /\ SavedInv /\ KeysInv /\ WaitInv /\ EarnedInv /\ [Next]_vars /\ AnswersOk => Earned
  <1> SUFFICES ASSUME TypeInv, SavedInv, KeysInv, WaitInv, EarnedInv, [Next]_vars, AnswersOk
               PROVE  Earned
    OBVIOUS
  <1> USE NoneIsNew DEF TypeInv, Typed
  <1>0. job # None /\ job' = None /\ job \in OpenJobs
    BY DEF AnswersOk
  <1>1. job.page \in Pages /\ answer'[job.page] = "ok" /\ answer' # answer
    <2>1. answer[job.page] = None /\ None # "ok"
      BY <1>0, SignerAssumption DEF WaitInv, Answers
    <2> QED BY <1>0, <2>1 DEF AnswersOk, OpenJobs
  <1>2. ASSUME job.request.type \notin Asked, job.request.type \notin Exports PROVE Earned
    BY <1>2, NothingAskedHolds DEF Earned
  <1>3. CASE UNCHANGED vars \/ Tick \/ Begin \/ AutoLock
    BY <1>0, <1>3 DEF vars, Tick, Begin, AutoLock, OpenJobs
  <1>4. CASE \E page \in Pages, request \in Offered : Send(page, request)
    BY <1>0, <1>4 DEF Send
  <1>5. CASE Teardown
    <2>1. job.page \in Pages /\ Waiting(job.page)
      BY <1>0 DEF WaitInv, Waiting, OpenJobs
    <2>2. answer'[job.page] = "PortClosed" /\ answer'[job.page] = "ok"
      BY <1>5, <2>1 DEF Teardown, AnswersOk
    <2> QED BY <2>2
  <1>6. CASE Saved
    BY <1>0, <1>6 DEF Saved, Suspend, EarnedInv, Earned, Exports, OpenJobs
  <1>7. CASE Viewed
    BY <1>0, <1>7 DEF Viewed, EarnedInv, Earned, Exports
  <1>8. CASE Sealed
    <2>1. job.request.type \in Exports /\ vault # None /\ job.request.password = vault.password
      BY <1>8 DEF Sealed, EarnedInv
    <2> QED BY <2>1, NothingAskedHolds DEF Earned, Asked, Exports
  <1>9. CASE ReauthDecrypted
    <2>1. CASE ReauthFailed \/ Refuse("Locked")
      BY <1>1, <2>1 DEF ReauthFailed, Refuse, Reply
    <2>2. CASE TypedPassword = job.loaded.password /\ Reauthenticated
      <3>1. job.request.type \in Exports /\ job.loaded = vault /\ vault # None
        <4>1. job.request.type # "importBackup"
          BY <1>1, <2>2 DEF Reauthenticated, Exports
        <4> QED BY <1>9, <4>1 DEF ReauthDecrypted, SavedInv, HandlerKnows, JobShape
      <3>2. job.request.password = vault.password
        BY <2>2, <3>1 DEF TypedPassword, Exports
      <3> QED BY <3>1, <3>2, NothingAskedHolds DEF Earned, Asked, Exports
    <2> QED BY <1>9, <2>1, <2>2 DEF ReauthDecrypted
  <1>10. CASE NodeAuthorization \/ Sign \/ TransferOffer \/ EnvelopeOpened
    BY <1>2, <1>10
    DEF NodeAuthorization, Sign, Signs, TransferOffer, EnvelopeOpened, Running, Asked, Exports
  <1>11. CASE StartLoad \/ CreateWallet \/ UnlockLoaded \/ UnlockDecrypted
    BY <1>1, <1>11
    DEF StartLoad, CreateWallet, UnlockLoaded, UnlockDecrypted, Running, Refuse,
        Reply
  <1>12. CASE SessionOpened
    BY <1>1, <1>12 DEF SessionOpened, Refuse, Reply
  <1>13. CASE Encrypted \/ SaveFailed
    BY <1>1, <1>13 DEF Encrypted, SaveFailed, Refuse, Reply
  <1>14. CASE LoadFailed
    <2>1. CASE Running({"unlock"}, "view")
      BY <1>1, <1>14, <2>1 DEF LoadFailed, Reply
    <2>2. CASE ~Running({"unlock"}, "view")
      BY <1>1, <1>14, <2>2 DEF LoadFailed, Reply
    <2> QED BY <2>1, <2>2
  <1>15. CASE GetState \/ LockRequest \/ Reset \/ Removed
    BY <1>1, <1>15 DEF GetState, LockRequest, Reset, Removed, Running, Reply
  <1>16. CASE AddAccount \/ ImportKey \/ SetActive \/ SetNodeCookie
    BY <1>1, <1>16
    DEF AddAccount, ImportKey, SetActive, SetNodeCookie, Refuse, Change, Reply
  <1>17. CASE StartExport \/ ImportLoaded
    BY <1>1, <1>17 DEF StartExport, ImportLoaded, StartReauth, Refuse, Reply
  <1>18. CASE ReauthLoaded
    BY <1>1, <1>18 DEF ReauthLoaded, ReauthFailed, Reply
  <1>19. CASE BackupOpened \/ TransferOpen
    BY <1>1, <1>19 DEF BackupOpened, TransferOpen, Running, Refuse, Reply
  <1>20. CASE ImportRechecked
    <2>1. job.request.mode \in {"merge", "replace"}
      BY <1>0, <1>20 DEF ImportRechecked, Running, OpenJobs, Requests, Exports, Signs
    <2>2. ASSUME NEW data, Change(data) PROVE FALSE
      BY <1>1, <2>2 DEF Change
    <2>3. CASE Refuse("WalletChanged") \/ Refuse("TypeError") \/ Refuse("Refused")
      BY <1>1, <2>3 DEF Refuse, Reply
    <2> QED BY <1>1, <1>20, <2>1, <2>2, <2>3 DEF ImportRechecked, Import
  <1> QED
    BY <1>3, <1>4, <1>5, <1>6, <1>7, <1>8, <1>9, <1>10, <1>11, <1>12, <1>13,
       <1>14, <1>15, <1>16, <1>17, <1>18, <1>19, <1>20
    DEF Next, Handler

(* "ok" to an export was earned by the stored vault's password, and "ok" to *)
(* a change by its being in storage, whatever locks, failed saves and       *)
(* teardowns come between.                                                  *)
THEOREM OkEarned == Spec => OkIsEarned
  <1> DEFINE Inv == TypeInv /\ SavedInv /\ KeysInv /\ WaitInv /\ EarnedInv
  <1>1. Init => Inv
    <2>1. Init => WaitInv
      BY EmptySeq DEF Init, WaitInv
    <2>2. Init => EarnedInv
      BY DEF Init, EarnedInv
    <2> QED BY <2>1, <2>2, TypeInit, SavedInit, KeysInit
  <1>2. Inv /\ [Next]_vars => Inv'
    BY TypeStep, SavedStep, KeysStep, WaitStep, EarnedStep
  <1>3. Inv /\ [Next]_vars =>
          [ AnswersOk /\ job.request.type \in Exports =>
              vault # None /\ job.request.password = vault.password ]_vars
    BY OkStep DEF Earned
  <1>4. Inv /\ [Next]_vars => [ AnswersOk => Holds(job.request, vault') ]_vars
    BY OkStep DEF Earned
  <1> QED
    BY <1>1, <1>2, <1>3, <1>4, PTL
    DEF Spec, OkIsEarned, ExportNeedsPassword, OkIsStored
=============================================================================
