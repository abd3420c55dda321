--------------------------- MODULE TransferProofs ---------------------------
(***************************************************************************)
(* Moving a wallet, for any number of devices, pages, offers and accounts: *)
(* an offer opens one transfer, an exported backup can be restored, merges *)
(* lose no account, and an animated code is read whatever its parts.       *)
(*                                                                         *)
(* A page that waits for an answer polls, which keeps the signer's worker  *)
(* and so the offer's secret until the offer's time is up.  Contents are   *)
(* sound, that is valid, finite and within the limit of accounts, after    *)
(* every operation; what is exported is what was sound, provided that no   *)
(* index wraps.  A decoder of animated codes keeps every fragment that it  *)
(* received, known or in a part it holds of the same mix, until it drops a *)
(* mix: so none that can be found is left unfound.                         *)
(***************************************************************************)
EXTENDS MCTransfer, FiniteSetTheorems, SequenceTheorems, WellFoundedInduction, TLAPS

(* Nothing else is shown, tried or held than what was made.                 *)
OffersAreMade ==
    /\ session \in made \cup {None} /\ attempted \subseteq made
    /\ \A p \in Pages : Waits(p) => page[p].offer \in made

(* Time that passed without a poll since a page began to wait is time that  *)
(* the offer had no more.                                                   *)
WaitingKeepsAwake == \A p \in Pages : Waits(p) /\ left[page[p].offer] >= 0 => idle = 0

(* Making an offer was a message, so the wallet outlasts the offer.         *)
AlarmOutlasts == \A offer \in made : left[offer] >= 0 => alarm > left[offer] + 1

PairingInv ==
    /\ TypeOK
    /\ OffersAreMade
    /\ WaitingKeepsAwake
    /\ AlarmOutlasts
    /\ ShownIsHeld /\ OneAttempt /\ UsedIsErased

USE PairingAssumption

(* The initial states satisfy the inductive invariant.                      *)
LEMMA PairingInit == Init => PairingInv
<1> SUFFICES ASSUME Init PROVE PairingInv
    OBVIOUS
<1>1. made = {} /\ \A p \in Pages : ~Waits(p)
    BY DEF Init, made, Waits, Menu
<1>2. TypeOK
    BY <1>1 DEF Init, TypeOK, Menu, made
<1> QED
    BY <1>1, <1>2 DEF Init, PairingInv, OffersAreMade, WaitingKeepsAwake, AlarmOutlasts,
       ShownIsHeld, OneAttempt, UsedIsErased

(* What a page's screen may do when nothing else changes: it goes on to     *)
(* wait only with an offer it was waiting with.                             *)
LEMMA ScreenInv ==
    ASSUME PairingInv, UNCHANGED <<signer, timers, history>>, TypeOK',
           \A p \in Pages : Waits(p)' => Waits(p) /\ page'[p].offer = page[p].offer
    PROVE  PairingInv'
<1>1. UNCHANGED <<session, secrets, job, idle, alarm, left, made, attempted, ended>>
    BY DEF signer, timers, history, made
<1>2. OffersAreMade' /\ AlarmOutlasts' /\ OneAttempt' /\ UsedIsErased'
    BY <1>1 DEF PairingInv, OffersAreMade, AlarmOutlasts, OneAttempt, UsedIsErased
<1>3. WaitingKeepsAwake' /\ ShownIsHeld'
    BY <1>1 DEF PairingInv, WaitingKeepsAwake, ShownIsHeld
<1> QED
    BY <1>2, <1>3 DEF PairingInv

(* A new offer is the youngest one; the message that made it set the alarm. *)
LEMMA OfferInv == ASSUME PairingInv, NEW p \in Pages, transferOffer(p) PROVE PairingInv'
<1>1. PICK offer \in Offers \ made :
        /\ session' = offer /\ secrets' = secrets \cup {offer}
        /\ left' = [o \in made \cup {offer} |-> IF o = offer THEN TTL ELSE left[o]]
        /\ page' = [page EXCEPT ![p] = [Menu EXCEPT !.at = "showing", !.offer = offer]]
    BY DEF transferOffer, Menu
<1>2. /\ job = None /\ ended' = Noted(ended) /\ idle' = 0 /\ alarm' = AlarmDelay
      /\ UNCHANGED <<job, sealed, attempted>>
    BY DEF transferOffer, Message
<1>3. /\ made' = made \cup {offer} /\ left'[offer] = TTL
      /\ \A o \in made : left'[o] = left[o]
    BY <1>1 DEF made
<1>4. /\ page'[p] = [at |-> "showing", offer |-> offer, transfer |-> None]
      /\ \A q \in Pages \ {p} : page'[q] = page[q]
    BY <1>1 DEF PairingInv, TypeOK, Menu
<1>5. TypeOK'
    BY <1>1, <1>2, <1>3, <1>4 DEF PairingInv, TypeOK, Noted, Menu
<1>6. OffersAreMade'
    BY <1>1, <1>2, <1>3, <1>4 DEF PairingInv, OffersAreMade, Waits
<1>7. WaitingKeepsAwake'
    BY <1>2 DEF WaitingKeepsAwake
<1>8. AlarmOutlasts'
    BY <1>2, <1>3 DEF PairingInv, AlarmOutlasts, TypeOK
<1>9. ShownIsHeld'
  <2> SUFFICES ASSUME NEW q \in Pages, Waits(q)', left'[page'[q].offer] >= 0
               PROVE  page'[q].offer \in {session'} \cup ended'
      BY DEF ShownIsHeld
  <2>1. CASE q = p
      BY <2>1, <1>1, <1>4
  <2>2. CASE q # p
    <3>1. Waits(q) /\ page'[q].offer = page[q].offer /\ page[q].offer \in made
        BY <2>2, <1>4 DEF Waits, PairingInv, OffersAreMade
    <3>2. page[q].offer \in {session} \cup ended
        BY <3>1, <1>3 DEF PairingInv, ShownIsHeld
    <3> QED
        BY <3>1, <3>2, <1>2 DEF Noted, PairingInv, TypeOK
  <2> QED
      BY <2>1, <2>2
<1>10. OneAttempt' /\ UsedIsErased'
    BY <1>1, <1>2 DEF PairingInv, OneAttempt, UsedIsErased, OffersAreMade
<1> QED
    BY <1>5, <1>6, <1>7, <1>8, <1>9, <1>10 DEF PairingInv

(* A transfer is opened with the offer that is held, which is then given    *)
(* up.                                                                      *)
LEMMA OpenInv == ASSUME PairingInv, NEW p \in Pages, transferOpen(p) PROVE PairingInv'
<1>1. /\ job = None /\ session' = None /\ idle' = 0 /\ alarm' = AlarmDelay
      /\ attempted' = Noted(attempted) /\ ended' = Noted(ended)
      /\ job' = [page |-> p, offer |-> session, opens |-> Opens(session, page[p].transfer)]
      /\ UNCHANGED <<secrets, left, page, sealed, made>>
    BY DEF transferOpen, Message, made
<1>2. TypeOK'
  <2>1. job' \in Jobs
      BY <1>1 DEF PairingInv, TypeOK, Opens, Jobs
  <2> QED
      BY <1>1, <2>1 DEF PairingInv, TypeOK, Noted
<1>3. OffersAreMade' /\ WaitingKeepsAwake'
    BY <1>1 DEF PairingInv, OffersAreMade, WaitingKeepsAwake, Waits, Noted
<1>4. AlarmOutlasts'
    BY <1>1 DEF PairingInv, AlarmOutlasts, TypeOK
<1>5. ShownIsHeld' /\ OneAttempt'
    BY <1>1 DEF PairingInv, ShownIsHeld, OneAttempt, OffersAreMade, Waits, Noted, TypeOK
<1>6. UsedIsErased'
  <2>1. job' \in Jobs /\ job'.offer = session
      BY <1>1 DEF PairingInv, TypeOK, Opens, Jobs
  <2> QED
      BY <1>1, <2>1 DEF PairingInv, UsedIsErased, Noted
<1> QED
    BY <1>2, <1>3, <1>4, <1>5, <1>6 DEF PairingInv

(* The answer about a transfer ends the job it was opened by.               *)
LEMMA EndInv == PairingInv /\ End => PairingInv'
<1> SUFFICES ASSUME PairingInv, End PROVE PairingInv'
    OBVIOUS
<1>1. /\ job # None /\ job' = None /\ secrets' = secrets \ {job.offer}
      /\ UNCHANGED <<session, idle, alarm, left, made, sealed, attempted, ended>>
    BY DEF End, timers, history, made
<1>2. /\ page' \in [Pages -> [at : {"menu", "showing", "scanning", "opening", "compare", "failed"},
                              offer : Offers \cup {None}, transfer : Transfers \cup {None}]]
      /\ \A p \in Pages : Waits(p)' => Waits(p) /\ page'[p].offer = page[p].offer
    BY DEF End, Answered, Waits, PairingInv, TypeOK, Jobs
<1>3. TypeOK'
    BY <1>1, <1>2 DEF PairingInv, TypeOK
<1>4. OffersAreMade' /\ AlarmOutlasts' /\ OneAttempt'
    BY <1>1, <1>2 DEF PairingInv, OffersAreMade, AlarmOutlasts, OneAttempt
<1>5. WaitingKeepsAwake' /\ ShownIsHeld' /\ UsedIsErased'
    BY <1>1, <1>2 DEF PairingInv, WaitingKeepsAwake, ShownIsHeld, UsedIsErased
<1> QED
    BY <1>3, <1>4, <1>5 DEF PairingInv

(* The wallet is locked by a user, who sees it, or by the alarm, which no   *)
(* valid offer meets.                                                       *)
LEMMA LockInv ==
    ASSUME PairingInv, lock, UNCHANGED <<job, left, page, sealed, attempted>>,
           \/ ended' = Noted(ended) /\ idle' = 0 /\ alarm' = AlarmDelay
           \/ alarm = 1 /\ alarm' = 0 /\ UNCHANGED <<idle, ended>>
    PROVE  PairingInv'
<1>1. session' = None /\ secrets' = secrets \ {session} /\ made' = made /\ idle' \in {0, idle}
    BY DEF lock, made
<1>2. TypeOK'
    BY <1>1 DEF PairingInv, TypeOK, Noted
<1>3. OffersAreMade' /\ WaitingKeepsAwake' /\ OneAttempt' /\ UsedIsErased'
    BY <1>1 DEF PairingInv, OffersAreMade, WaitingKeepsAwake, Waits, OneAttempt, UsedIsErased,
       TypeOK
<1>4. AlarmOutlasts'
    BY <1>1 DEF PairingInv, AlarmOutlasts, TypeOK
<1>5. ShownIsHeld'
  <2> SUFFICES ASSUME NEW p \in Pages, Waits(p), left[page[p].offer] >= 0
               PROVE  page[p].offer \in ended'
      BY DEF ShownIsHeld, Waits
  <2>1. page[p].offer \in made /\ page[p].offer \in {session} \cup ended
      BY DEF PairingInv, OffersAreMade, ShownIsHeld
  <2>2. alarm # 1
      BY <2>1 DEF PairingInv, AlarmOutlasts, TypeOK
  <2> QED
      BY <2>1, <2>2 DEF Noted, PairingInv, TypeOK
<1> QED
    BY <1>2, <1>3, <1>4, <1>5 DEF PairingInv

(* A unit of time: who waits polls, and only the alarm, which outlasts      *)
(* offers, ends them.                                                       *)
LEMMA TickInv == PairingInv /\ Tick => PairingInv'
<1> SUFFICES ASSUME PairingInv, Tick PROVE PairingInv'
    OBVIOUS
<1>1. /\ alarm # 1 /\ UNCHANGED <<session, secrets, job, page, sealed, attempted, ended>>
      /\ idle' = IF \E p \in Pages : Polls(p) THEN 0 ELSE IF idle < IdleLimit THEN idle + 1 ELSE idle
      /\ alarm' = IF alarm = 0 THEN 0 ELSE alarm - 1
    BY DEF Tick, signer, history
<1>2. /\ made' = made
      /\ \A offer \in made : left'[offer] = IF left[offer] < 0 THEN left[offer] ELSE left[offer] - 1
    BY DEF Tick, made
<1>3. TypeOK'
    BY <1>1, <1>2 DEF PairingInv, TypeOK
<1>4. OffersAreMade' /\ OneAttempt' /\ UsedIsErased'
    BY <1>1, <1>2 DEF PairingInv, OffersAreMade, Waits, OneAttempt, UsedIsErased
<1>5. \A p \in Pages : Waits(p) /\ left'[page[p].offer] >= 0 => Polls(p) /\ left[page[p].offer] >= 0
    BY <1>2 DEF PairingInv, OffersAreMade, TypeOK, Polls
<1>6. WaitingKeepsAwake' /\ ShownIsHeld'
    BY <1>1, <1>5 DEF PairingInv, WaitingKeepsAwake, ShownIsHeld, Waits
<1>7. AlarmOutlasts'
    BY <1>1, <1>2 DEF PairingInv, AlarmOutlasts, TypeOK
<1> QED
    BY <1>3, <1>4, <1>6, <1>7 DEF PairingInv

(* No page waits with a valid offer when the browser stops the worker.      *)
LEMMA TeardownInv == PairingInv /\ Teardown => PairingInv'
<1> SUFFICES ASSUME PairingInv, Teardown PROVE PairingInv'
    OBVIOUS
<1>1. /\ idle # 0 /\ session' = None /\ secrets' = {}
      /\ UNCHANGED <<job, idle, alarm, left, made, page, sealed, attempted, ended>>
    BY DEF Teardown, timers, history, made, PairingInv, TypeOK
<1>2. TypeOK' /\ OffersAreMade' /\ WaitingKeepsAwake' /\ AlarmOutlasts' /\ OneAttempt' /\ UsedIsErased'
    BY <1>1 DEF PairingInv, TypeOK, OffersAreMade, WaitingKeepsAwake, Waits, AlarmOutlasts,
       OneAttempt, UsedIsErased
<1>3. ShownIsHeld'
    BY <1>1 DEF PairingInv, ShownIsHeld, WaitingKeepsAwake, Waits
<1> QED
    BY <1>2, <1>3 DEF PairingInv

(* Every step of the component keeps the inductive invariant.               *)
LEMMA PairingNext == PairingInv /\ [Next]_vars => PairingInv'
<1> SUFFICES ASSUME PairingInv, [Next]_vars PROVE PairingInv'
    OBVIOUS
<1>1. CASE \E p \in Pages : transferOffer(p)
    BY <1>1, OfferInv
<1>2. ASSUME NEW p \in Pages, scanTransfer(p) \/ onText(p) \/ back(p) \/ Reopen(p) PROVE PairingInv'
  <2>1. UNCHANGED <<signer, timers, sealed, history>>
      BY <1>2 DEF scanTransfer, onText, back, Reopen
  <2>2. /\ page' \in [Pages -> [at : {"menu", "showing", "scanning", "opening", "compare", "failed"},
                                offer : Offers \cup {None}, transfer : Transfers \cup {None}]]
        /\ \A q \in Pages : Waits(q)' => Waits(q) /\ page'[q].offer = page[q].offer
    <3> USE DEF Waits, PairingInv, TypeOK
    <3>1. CASE scanTransfer(p)
        BY <3>1 DEF scanTransfer
    <3>2. CASE onText(p)
      <4>1. PICK transfer \in Transfers :
               /\ page[p].at = "scanning"
               /\ page' = [page EXCEPT ![p].at = "opening", ![p].transfer = transfer]
          BY <3>2 DEF onText
      <4> QED
          BY <4>1
    <3>3. CASE back(p) \/ Reopen(p)
        BY <3>3 DEF back, Reopen, Menu
    <3> QED
        BY <1>2, <3>1, <3>2, <3>3
  <2>3. TypeOK'
      BY <2>1, <2>2 DEF PairingInv, TypeOK, signer, timers, history, made
  <2> QED
      BY <2>1, <2>2, <2>3, ScreenInv
<1>3. CASE \E p \in Pages : transferOpen(p)
    BY <1>3, OpenInv
<1>4. CASE \E p \in Pages : Lock(p)
    BY <1>4, LockInv DEF Lock, Message
<1>5. CASE \E s \in Senders : transferSend(s)
  <2>1. UNCHANGED <<signer, timers, page, history>> /\ sealed' \subseteq Transfers
      BY <1>5 DEF transferSend, PairingInv, TypeOK, Transfers
  <2>2. TypeOK'
      BY <2>1 DEF PairingInv, TypeOK, signer, timers, history, made
  <2> QED
      BY <2>1, <2>2, ScreenInv DEF Waits
<1>6. CASE End \/ Tick \/ Teardown
    BY <1>6, EndInv, TickInv, TeardownInv
<1>7. CASE AutoLock
    BY <1>7, LockInv DEF AutoLock, history
<1>8. CASE UNCHANGED vars
  <2>1. UNCHANGED <<signer, timers, history, sealed, page>>
      BY <1>8 DEF vars, signer, timers, history
  <2>2. TypeOK'
      BY <2>1 DEF PairingInv, TypeOK, signer, timers, history, made
  <2> QED
      BY <2>1, <2>2, ScreenInv DEF Waits
<1> QED
    BY <1>1, <1>2, <1>3, <1>4, <1>5, <1>6, <1>7, <1>8 DEF Next

(* One offer is held, shown and tried at a time (OneOffer).                 *)
THEOREM OffersAreKept == AllSpec => []OneOffer
<1>1. PairingInv => OneOffer
    BY DEF PairingInv, OneOffer
<1>2. AllInit => PairingInv
    BY PairingInit DEF AllInit
<1>3. PairingInv /\ [OfferStep \/ DecoderStep \/ ContentsStep]_all => PairingInv'
  <2>1. [OfferStep \/ DecoderStep \/ ContentsStep]_all => [Next]_vars
      BY DEF OfferStep, DecoderStep, ContentsStep, all
  <2> QED
      BY <2>1, PairingNext
<1> QED
    BY <1>1, <1>2, <1>3, PTL DEF AllSpec

----------------------------------------------------------------------------
(* What becomes of the wallets                                              *)

(* What is assumed of indices, phrases and the limit of accounts.           *)
LEMMA DataFacts ==
    /\ IndexSpace \in Nat \ {0} /\ MaxIndex \in Nat /\ AccountLimit \in Nat \ {0}
    /\ NoPhrase \notin Phrases
    /\ NoAccount \notin (Phrases \X (0 .. IndexSpace - 1)) \cup RawKeys
BY TransferAssumption DEF Contents!DataAssumption

(* The operators on sets that the contents' module has are the library's.   *)
LEMMA SameSets ==
    ASSUME NEW S
    PROVE  Contents!Cardinality(S) = Cardinality(S) /\ Contents!IsFiniteSet(S) = IsFiniteSet(S)
<1>1. Contents!IsFiniteSet(S) = IsFiniteSet(S)
    BY DEF Contents!IsFiniteSet, IsFiniteSet
<1>2. Contents!Cardinality(S) = Cardinality(S)
    BY <1>1 DEF Contents!Cardinality, Cardinality
<1> QED
    BY <1>1, <1>2

(* The count of accounts in terms of the library's Cardinality.             *)
LEMMA CountOf ==
    ASSUME NEW data
    PROVE  Contents!AccountCount(data) = Cardinality(data.hd) + Cardinality(data.imported)
BY SameSets DEF Contents!AccountCount

(* What is assumed of keys and of the contents of others' backups.          *)
LEMMA ContentsFacts ==
    /\ Keys \subseteq Contents!Accounts
    /\ Foreign \subseteq Contents!WalletDatas /\ \A data \in Foreign : IsFiniteSet(data.imported)
    /\ MaxExports \in Nat /\ None \notin Contents!WalletDatas
BY TransferAssumption, SameSets DEF Contents!ContentsAssumption

(* What is asked of a backup's contents besides their shape.                *)
Finite(data) == data \in Contents!WalletDatas /\ IsFiniteSet(data.imported)

(* What a reader asks of all rows together.                                 *)
WellMade(data) ==
    /\ data.hd # {} => data.phrase # NoPhrase
    /\ Contents!AccountCount(data) \in 1 .. AccountLimit

(* A wallet that is open.                                                   *)
Sound(data) == Finite(data) /\ data.active \in Contents!AccountsOf(data) /\ WellMade(data)

ContentsInv ==
    /\ DOMAIN wallet = Devices
    /\ \A d \in Devices : Contents!Has(d) => Sound(wallet[d])
    /\ \A data \in backups : Finite(data)

(* The naturals are well ordered.                                           *)
LEMMA Smallest == ASSUME NEW T \in SUBSET Nat, T # {} PROVE \E x \in T : \A y \in T : x <= y
<1> DEFINE Less == {ss \in Nat \X Nat : ss[1] < ss[2]}
<1>1. IsWellFoundedOn(Less, Nat)
    BY NatLessThanWellFounded, Zenon DEF OpToRel
<1>2. \A x, y \in Nat : <<x, y>> \in Less <=> x < y
    OBVIOUS
<1> HIDE DEF Less
<1>3. PICK x \in T : \A y \in T : <<y, x>> \notin Less
    BY <1>1, WFMin, Zenon
<1>4. ASSUME NEW y \in T PROVE x <= y
  <2>1. x \in Nat /\ y \in Nat
      OBVIOUS
  <2>2. ~(y < x)
      BY <1>2, <1>3, <2>1, Zenon
  <2> QED
      BY <2>1, <2>2
<1> QED
    BY <1>4

(* A set of numbers up to n has a least and a greatest one.                 *)
LEMMA ExtremeNumbers ==
    ASSUME NEW n \in Nat, NEW S \in SUBSET (0 .. n), S # {}
    PROVE  Contents!Min(S) \in S /\ Contents!Max(S) \in S /\ \A m \in S : m <= Contents!Max(S)
<1>1. Contents!Min(S) \in S
  <2>1. \E x \in S : \A y \in S : x <= y
      BY Smallest
  <2> QED
      BY <2>1 DEF Contents!Min
<1>2. \E x \in S : \A y \in S : y <= x
  <2> DEFINE T == {i \in 0 .. n : n - i \in S}
  <2>1. \A m \in S : n - m \in T /\ n - (n - m) = m
      OBVIOUS
  <2>5. T \in SUBSET Nat /\ T # {}
    <3>1. PICK m \in S : TRUE
        OBVIOUS
    <3>2. T \subseteq Nat
        OBVIOUS
    <3>3. n - m \in T
        BY <2>1
    <3> QED
        BY <3>2, <3>3
  <2>6. \E i \in T : \A j \in T : i <= j
    <3> HIDE DEF T
    <3> QED
        BY <2>5, Smallest
  <2>2. PICK i \in T : \A j \in T : i <= j
      BY <2>6
  <2>3. \A m \in S : m <= n - i
    <3>1. ASSUME NEW m \in S PROVE m <= n - i
      <4>1. i <= n - m
          BY <2>1, <2>2
      <4> QED
          BY <4>1
    <3> QED
        BY <3>1
  <2> QED
      BY <2>2, <2>3
<1> QED
    BY <1>1, <1>2 DEF Contents!Max

(* Two disjoint finite sets have as many elements as both together.         *)
LEMMA DisjointCount ==
    ASSUME NEW S, NEW T, IsFiniteSet(S), IsFiniteSet(T), S \cap T = {}
    PROVE  Cardinality(S \cup T) = Cardinality(S) + Cardinality(T)
<1>1. Cardinality(S \cup T) = Cardinality(S) + Cardinality(T) - Cardinality(S \cap T)
    BY FS_Union, Zenon
<1>2. Cardinality(S \cap T) = 0
    BY FS_EmptySet
<1>3. Cardinality(S) \in Nat /\ Cardinality(T) \in Nat
    BY FS_CardinalityType
<1> QED
    BY <1>1, <1>2, <1>3

(* How many elements there are in the smallest sets.                        *)
LEMMA EmptyAndSingle ==
    /\ IsFiniteSet({}) /\ Cardinality({}) = 0
    /\ \A x : IsFiniteSet({x}) /\ Cardinality({x}) = 1
<1>1. IsFiniteSet({}) /\ Cardinality({}) = 0
    BY FS_EmptySet, Zenon
<1>2. ASSUME NEW x PROVE IsFiniteSet({x}) /\ Cardinality({x}) = 1
    BY FS_Singleton, Zenon
<1> QED
    BY <1>1, <1>2, Zenon

(* There are finitely many indices.                                         *)
LEMMA FiniteIndices == ASSUME NEW hd \in SUBSET Contents!Indices PROVE IsFiniteSet(hd)
<1>1. IsFiniteSet(Contents!Indices)
    BY FS_Interval, DataFacts DEF Contents!Indices
<1> QED
    BY <1>1, FS_Subset

(* The index of a path's last level does not wrap below IndexSpace.         *)
LEMMA HdAccountsCount ==
    ASSUME NEW phrase \in Phrases, NEW hd \in SUBSET Contents!Indices, \A i \in hd : i < IndexSpace
    PROVE  /\ IsFiniteSet(Contents!HdAccounts(phrase, hd))
           /\ Cardinality(Contents!HdAccounts(phrase, hd)) = Cardinality(hd)
<1> DEFINE f == [i \in hd |-> Contents!Derive(phrase, i)]
<1>1. phrase # NoPhrase
    BY DataFacts
<1>2. \A i \in hd : i % IndexSpace = i
    BY DataFacts DEF Contents!Indices
<1>3. f \in Bijection(hd, Contents!HdAccounts(phrase, hd))
    BY <1>1, <1>2 DEF Contents!HdAccounts, Contents!Derive, Bijection, Injection, Surjection,
       IsInjective
<1>4. IsFiniteSet(hd)
    BY FiniteIndices
<1> QED
    BY <1>3, <1>4, FS_Bijection DEF ExistsBijection

(* The accounts of a wallet and the sets of them.                           *)
LEMMA DataTypes ==
    ASSUME NEW data, Finite(data)
    PROVE  /\ Contents!AccountsOf(data) \subseteq Contents!Accounts
           /\ IsFiniteSet(data.hd) /\ Cardinality(data.hd) \in Nat
           /\ IsFiniteSet(data.imported) /\ Cardinality(data.imported) \in Nat
           /\ Contents!AccountCount(data) \in Nat
<1>1. data.hd \subseteq Contents!Indices /\ data.imported \subseteq Contents!Accounts /\ data.phrase \in Phrases \cup {NoPhrase}
    BY DEF Finite, Contents!WalletDatas
<1>2. \A i \in data.hd : i % IndexSpace \in 0 .. IndexSpace - 1
    BY <1>1, DataFacts DEF Contents!Indices
<1>3. Contents!AccountsOf(data) \subseteq Contents!Accounts
    BY <1>1, <1>2 DEF Contents!AccountsOf, Contents!HdAccounts, Contents!Derive, Contents!Accounts
<1>4. IsFiniteSet(data.hd)
    BY <1>1, FiniteIndices
<1> QED
    BY <1>3, <1>4, FS_CardinalityType, CountOf DEF Finite

(* Both names of a row are unique in a wallet without repeated keys.        *)
LEMMA AccountsFinite ==
    ASSUME NEW data, Finite(data), data.hd # {} => data.phrase # NoPhrase,
           \A i \in data.hd : i < IndexSpace
    PROVE  IsFiniteSet(Contents!AccountsOf(data))
<1>1. data.hd \in SUBSET Contents!Indices /\ data.phrase \in Phrases \cup {NoPhrase}
    BY DEF Finite, Contents!WalletDatas
<1>2. IsFiniteSet(Contents!HdAccounts(data.phrase, data.hd))
  <2>1. CASE data.phrase = NoPhrase
      BY <2>1, FS_EmptySet DEF Contents!HdAccounts
  <2>2. CASE data.phrase # NoPhrase
      BY <2>2, <1>1, HdAccountsCount
  <2> QED
      BY <2>1, <2>2
<1> QED
    BY <1>2, FS_Union DEF Contents!AccountsOf, Finite

(* Merging two valid contents keeps every account once, and counts them so. *)
LEMMA MergedCount ==
    ASSUME NEW one, NEW two, Finite(one), Finite(two), Contents!ValidWalletData(one), Contents!ValidWalletData(two),
           Contents!Mergeable(one, two)
    PROVE  /\ Finite(Contents!Merged(one, two))
           /\ Contents!Merged(one, two).hd # {} => Contents!Merged(one, two).phrase # NoPhrase
           /\ \A i \in Contents!Merged(one, two).hd : i < IndexSpace
           /\ Contents!AccountsOf(Contents!Merged(one, two)) = Contents!AccountsOf(one) \cup Contents!AccountsOf(two)
           /\ Contents!AccountCount(Contents!Merged(one, two)) = Cardinality(Contents!AccountsOf(Contents!Merged(one, two)))
<1> DEFINE phrase == Contents!MergedPhrase(one, two)
           hd     == one.hd \cup two.hd
           keys    == one.imported \cup two.imported
           data   == Contents!Merged(one, two)
<1>1. /\ one.hd \subseteq Contents!Indices /\ two.hd \subseteq Contents!Indices
      /\ one.imported \subseteq Contents!Accounts /\ two.imported \subseteq Contents!Accounts
      /\ {one.phrase, two.phrase} \subseteq Phrases \cup {NoPhrase}
      /\ one.active \in Contents!Accounts \cup {NoAccount}
      /\ one.cookies \cup two.cookies \subseteq Urls
      /\ one.longNames \cup two.longNames \subseteq Contents!Indices
      /\ one.unfitKeys \cup two.unfitKeys \subseteq Contents!Accounts
    BY DEF Finite, Contents!WalletDatas
<1>2. /\ one.hd # {} => one.phrase # NoPhrase
      /\ two.hd # {} => two.phrase # NoPhrase
      /\ \A i \in hd : i < IndexSpace
      /\ two.phrase \in {NoPhrase, phrase}
    BY DEF Contents!ValidWalletData, Contents!Mergeable
<1>3. /\ data.phrase = phrase /\ data.hd = hd
      /\ data.imported = keys \ Contents!HdAccounts(phrase, hd)
      /\ data.cookies = one.cookies \cup two.cookies
      /\ data.longNames \subseteq one.longNames \cup two.longNames
      /\ data.unfitKeys \subseteq one.unfitKeys \cup two.unfitKeys
      /\ data = [phrase |-> data.phrase, hd |-> data.hd, imported |-> data.imported,
                 active |-> data.active, cookies |-> data.cookies,
                 longNames |-> data.longNames, unfitKeys |-> data.unfitKeys]
    BY DEF Contents!Merged
<1>4. /\ phrase \in Phrases \cup {NoPhrase} /\ (hd # {} => phrase \in Phrases)
      /\ Contents!HdAccounts(one.phrase, one.hd) \cup Contents!HdAccounts(two.phrase, two.hd) = Contents!HdAccounts(phrase, hd)
    BY <1>1, <1>2 DEF Contents!MergedPhrase, Contents!HdAccounts
<1>5. IsFiniteSet(data.imported)
    BY <1>3, FS_Union, FS_Subset DEF Finite
<1>6. data.active \in Contents!Accounts \cup {NoAccount}
  <2>1. CASE one.active # NoAccount \/ phrase = NoPhrase \/ hd = {}
      BY <2>1, <1>1 DEF Contents!Merged
  <2>2. CASE ~(one.active # NoAccount \/ phrase = NoPhrase \/ hd = {})
    <3>1. data.active = Contents!Derive(phrase, Contents!Min(hd))
        BY <2>2 DEF Contents!Merged
    <3>2. Contents!Min(hd) \in Contents!Indices
        BY <1>1, <2>2, ExtremeNumbers, DataFacts DEF Contents!Indices
    <3> QED
        BY <3>1, <3>2, <1>4, <2>2, DataFacts DEF Contents!Derive, Contents!Accounts,
           Contents!Indices
  <2> QED
      BY <2>1, <2>2
<1>7. Finite(data)
    BY <1>1, <1>3, <1>4, <1>5, <1>6 DEF Finite, Contents!WalletDatas
<1>8. Contents!AccountsOf(data) = Contents!HdAccounts(phrase, hd) \cup keys
    BY <1>3 DEF Contents!AccountsOf
<1>9. Contents!AccountsOf(data) = Contents!AccountsOf(one) \cup Contents!AccountsOf(two)
    BY <1>8, <1>4 DEF Contents!AccountsOf
<1>10. IsFiniteSet(Contents!HdAccounts(phrase, hd)) /\ Cardinality(Contents!HdAccounts(phrase, hd)) = Cardinality(hd)
  <2>1. CASE hd = {}
      BY <2>1, FS_EmptySet DEF Contents!HdAccounts
  <2>2. CASE hd # {}
      BY <2>2, <1>1, <1>2, <1>4, HdAccountsCount
  <2> QED
      BY <2>1, <2>2
<1>11. Contents!AccountCount(data) = Cardinality(Contents!AccountsOf(data))
  <2>1. Contents!AccountsOf(data) = Contents!HdAccounts(phrase, hd) \cup data.imported
        /\ Contents!HdAccounts(phrase, hd) \cap data.imported = {}
      BY <1>3, <1>8
  <2>2. Cardinality(Contents!AccountsOf(data)) = Cardinality(Contents!HdAccounts(phrase, hd)) + Cardinality(data.imported)
      BY <2>1, <1>5, <1>10, DisjointCount, Zenon
  <2> QED
      BY <2>2, <1>3, <1>10, CountOf
<1> QED
    BY <1>2, <1>3, <1>4, <1>7, <1>9, <1>11, DataFacts

(* Merging is the same from either side.                                    *)
LEMMA MergeableBothWays ==
    ASSUME NEW one, NEW two, Finite(one), Finite(two), Contents!ValidWalletData(one), Contents!ValidWalletData(two),
           Contents!Mergeable(one, two)
    PROVE  Contents!Mergeable(two, one)
<1>1. /\ Contents!MergedPhrase(two, one) = Contents!MergedPhrase(one, two)
      /\ one.phrase \in {NoPhrase, Contents!MergedPhrase(two, one)}
    BY DEF Contents!Mergeable, Contents!MergedPhrase
<1>2. Contents!Merged(two, one).hd = Contents!Merged(one, two).hd /\ Contents!Merged(two, one).imported = Contents!Merged(one, two).imported
    BY <1>1 DEF Contents!Merged
<1> QED
    BY <1>1, <1>2 DEF Contents!Mergeable, Contents!AccountCount


(* A merged wallet has an account, and those of the first.                  *)
LEMMA MergedSound ==
    ASSUME NEW one, NEW two, Sound(one), Finite(two), Contents!ValidWalletData(two), Contents!Mergeable(one, two)
    PROVE  Sound(Contents!Merged(one, two))
<1> DEFINE new == Contents!Merged(one, two)
<1>1. /\ Finite(one) /\ one.active \in Contents!AccountsOf(one) /\ one.active \in Contents!Accounts
      /\ one.phrase \in Phrases \cup {NoPhrase} /\ two.phrase \in Phrases \cup {NoPhrase}
      /\ one.hd \cup two.hd \subseteq Contents!Indices /\ one.imported \cup two.imported \subseteq Contents!Accounts
      /\ one.cookies \cup two.cookies \subseteq Urls
      /\ one.longNames \cup two.longNames \subseteq Contents!Indices
      /\ one.unfitKeys \cup two.unfitKeys \subseteq Contents!Accounts
    BY DataTypes DEF Sound, Finite, Contents!WalletDatas
<1>2. one.active # NoAccount
    BY <1>1, DataFacts DEF Contents!Accounts
<1>3. /\ new.phrase = Contents!MergedPhrase(one, two) /\ new.hd = one.hd \cup two.hd
      /\ new.imported = (one.imported \cup two.imported) \ Contents!HdAccounts(new.phrase, new.hd)
      /\ new.active = one.active /\ new \in Contents!WalletDatas
    BY <1>1, <1>2 DEF Contents!Merged, Contents!WalletDatas, Contents!MergedPhrase
<1>4. Finite(new)
    BY <1>1, <1>3, FS_Union, FS_Subset DEF Finite
<1>5. new.active \in Contents!AccountsOf(new)
    BY <1>1, <1>3 DEF Contents!AccountsOf, Contents!HdAccounts, Contents!MergedPhrase
<1>6. WellMade(new)
  <2>1. new.hd # {} => new.phrase # NoPhrase
      BY <1>3, DataFacts DEF Sound, WellMade, Contents!ValidWalletData, Contents!Mergeable, Contents!MergedPhrase
  <2>2. Contents!AccountCount(new) # 0
    <3>1. new.hd # {} \/ new.imported # {}
        BY <1>5 DEF Contents!AccountsOf, Contents!HdAccounts
    <3>2. /\ IsFiniteSet(new.hd) /\ Cardinality(new.hd) \in Nat
          /\ IsFiniteSet(new.imported) /\ Cardinality(new.imported) \in Nat
        BY <1>4, DataTypes, Zenon
    <3>3. Cardinality(new.hd) # 0 \/ Cardinality(new.imported) # 0
        BY <3>1, <3>2, FS_EmptySet
    <3> HIDE DEF new
    <3> QED
        BY <3>2, <3>3, CountOf
  <2>3. Contents!AccountCount(new) \in 1 .. AccountLimit
      BY <1>4, <2>2, DataTypes, DataFacts DEF Contents!Mergeable
  <2> QED
      BY <2>1, <2>3 DEF WellMade
<1> QED
    BY <1>4, <1>5, <1>6 DEF Sound

(* A wallet made of a phrase or a key.                                      *)
LEMMA NewSound ==
    /\ \A phrase \in Phrases : Sound(Contents!FromPhrase(phrase))
    /\ \A key \in Keys : Sound(Contents!FromKey(key))
<1>1. ASSUME NEW phrase \in Phrases PROVE Sound(Contents!FromPhrase(phrase))
  <2> DEFINE data == Contents!FromPhrase(phrase)
  <2>0. 0 % IndexSpace = 0
      BY DataFacts
  <2>1. data = [phrase |-> phrase, hd |-> {0}, imported |-> {}, active |-> <<phrase, 0>>, cookies |-> {},
              longNames |-> {}, unfitKeys |-> {}]
      BY <2>0, Zenon DEF Contents!FromPhrase, Contents!Derive
  <2>2. data \in Contents!WalletDatas /\ phrase # NoPhrase
      BY <2>1, DataFacts DEF Contents!WalletDatas, Contents!Indices, Contents!Accounts
  <2>3. IsFiniteSet(data.imported) /\ Contents!AccountCount(data) = 1
    <3>1. IsFiniteSet({}) /\ Cardinality({}) = 0 /\ Cardinality({0}) = 1
        BY EmptyAndSingle, Zenon
    <3>2. data.hd = {0} /\ data.imported = {}
        BY <2>1
    <3>3. Contents!AccountCount(data) = Cardinality(data.hd) + Cardinality(data.imported)
        BY CountOf
    <3> QED
        BY <3>1, <3>2, <3>3
  <2>4. data.active \in Contents!AccountsOf(data)
      BY <2>1, <2>2, DataFacts DEF Contents!AccountsOf, Contents!HdAccounts, Contents!Derive
  <2> QED
      BY <2>1, <2>2, <2>3, <2>4, DataFacts DEF Sound, Finite, WellMade
<1>2. ASSUME NEW key \in Keys PROVE Sound(Contents!FromKey(key))
  <2> DEFINE data == Contents!FromKey(key)
  <2>1. data = [phrase |-> NoPhrase, hd |-> {}, imported |-> {key}, active |-> key, cookies |-> {},
              longNames |-> {}, unfitKeys |-> {}]
      BY DEF Contents!FromKey
  <2>2. data \in Contents!WalletDatas
      BY <2>1, ContentsFacts DEF Contents!WalletDatas
  <2>3. IsFiniteSet(data.imported) /\ Contents!AccountCount(data) = 1
    <3>1. IsFiniteSet({key}) /\ Cardinality({key}) = 1 /\ Cardinality({}) = 0
        BY EmptyAndSingle, Zenon
    <3> QED
        BY <2>1, <3>1, CountOf
  <2> QED
      BY <2>1, <2>2, <2>3, DataFacts DEF Sound, Finite, WellMade, Contents!AccountsOf
<1> QED
    BY <1>1, <1>2

(* A row is added where there is room for it.                               *)
LEMMA AddIndexSound ==
    ASSUME NEW data, Sound(data), data.phrase # NoPhrase, Contents!AccountCount(data) < AccountLimit,
           Contents!NextIndex(data) <= MaxIndex
    PROVE  Sound(Contents!AddIndex(data, Contents!NextIndex(data))) /\ Contents!NextIndex(data) \in Contents!Indices
<1> DEFINE index == Contents!NextIndex(data)
           new   == Contents!AddIndex(data, index)
<1>1. Finite(data) /\ data.hd \in SUBSET Contents!Indices /\ data.phrase \in Phrases
    BY DEF Sound, Finite, Contents!WalletDatas
<1>2. index \in Nat \ data.hd
  <2>1. CASE data.hd = {}
      BY <2>1 DEF Contents!NextIndex
  <2>2. CASE data.hd # {}
    <3>1. Contents!Max(data.hd) \in data.hd /\ \A m \in data.hd : m <= Contents!Max(data.hd)
        BY <2>2, <1>1, ExtremeNumbers, DataFacts DEF Contents!Indices
    <3>2. Contents!Max(data.hd) \in Nat /\ index = Contents!Max(data.hd) + 1 /\ data.hd \subseteq Nat
        BY <2>2, <3>1, <1>1, DataFacts DEF Contents!NextIndex, Contents!Indices
    <3> QED
        BY <3>1, <3>2
  <2> QED
      BY <2>1, <2>2
<1>3. index \in Contents!Indices
    BY <1>2, DataFacts DEF Contents!Indices
<1> HIDE DEF index
<1>4. index % IndexSpace \in 0 .. IndexSpace - 1
    BY <1>3, DataFacts DEF Contents!Indices
<1>5. /\ new.phrase = data.phrase /\ new.hd = data.hd \cup {index} /\ new.imported = data.imported
      /\ new.active = Contents!Derive(data.phrase, index) /\ new \in Contents!WalletDatas
    BY <1>1, <1>3, <1>4 DEF Contents!AddIndex, Finite, Contents!WalletDatas, Contents!Derive,
       Contents!Accounts
<1>6. Contents!AccountCount(new) = Contents!AccountCount(data) + 1
  <2>1. IsFiniteSet(data.hd) /\ Cardinality(data.hd) \in Nat /\ Cardinality(data.imported) \in Nat
      BY <1>1, DataTypes, Zenon
  <2>2. Cardinality(data.hd \cup {index}) = Cardinality(data.hd) + 1
      BY <2>1, <1>2, FS_AddElement
  <2> QED
    <3>1. /\ Contents!AccountCount(new) = Cardinality(new.hd) + Cardinality(new.imported)
          /\ Contents!AccountCount(data) = Cardinality(data.hd) + Cardinality(data.imported)
        BY CountOf
    <3> QED
        BY <2>1, <2>2, <1>5, <3>1
<1>7. Contents!AccountCount(new) \in 1 .. AccountLimit
    BY <1>6, <1>1, DataTypes, DataFacts
<1>8. new.active \in Contents!AccountsOf(new)
    BY <1>1, <1>5, DataFacts DEF Contents!AccountsOf, Contents!HdAccounts
<1> QED
    BY <1>1, <1>3, <1>5, <1>7, <1>8, DataFacts DEF Sound, Finite, WellMade, index

(* Importing a new key below the limit leaves sound contents.               *)
LEMMA AddKeySound ==
    ASSUME NEW data, Sound(data), NEW key \in Keys \ Contents!AccountsOf(data), Contents!AccountCount(data) < AccountLimit
    PROVE  Sound(Contents!AddKey(data, key))
<1> DEFINE new == Contents!AddKey(data, key)
<1>1. Finite(data) /\ key \notin data.imported /\ key \in Contents!Accounts
    BY ContentsFacts DEF Sound, Contents!AccountsOf
<1>2. /\ new.phrase = data.phrase /\ new.hd = data.hd /\ new.imported = data.imported \cup {key}
      /\ new.active = key /\ new \in Contents!WalletDatas
    BY <1>1 DEF Contents!AddKey, Finite, Contents!WalletDatas
<1>3. Contents!AccountCount(new) = Contents!AccountCount(data) + 1 /\ IsFiniteSet(new.imported)
  <2>1. /\ IsFiniteSet(data.imported) /\ Cardinality(data.hd) \in Nat
        /\ Cardinality(data.imported) \in Nat
      BY <1>1, DataTypes, Zenon
  <2>2. /\ IsFiniteSet(data.imported \cup {key})
        /\ Cardinality(data.imported \cup {key}) = Cardinality(data.imported) + 1
      BY <2>1, <1>1, FS_AddElement
  <2>3. /\ Contents!AccountCount(new) = Cardinality(new.hd) + Cardinality(new.imported)
        /\ Contents!AccountCount(data) = Cardinality(data.hd) + Cardinality(data.imported)
      BY CountOf
  <2> QED
      BY <2>1, <2>2, <2>3, <1>2
<1>4. Contents!AccountCount(new) \in 1 .. AccountLimit
    BY <1>3, <1>1, DataTypes, DataFacts
<1> QED
    BY <1>1, <1>2, <1>3, <1>4 DEF Sound, Finite, WellMade, Contents!AccountsOf

(* What is noted of a row changes nothing else.                             *)
LEMMA NotedSound ==
    ASSUME NEW data, Sound(data)
    PROVE  /\ \A index \in Contents!Indices : Sound(Contents!NamedLong(data, index))
           /\ \A key \in Contents!Accounts : Sound(Contents!KeptUnfit(data, key))
<1>1. ASSUME NEW new, new \in Contents!WalletDatas, new.phrase = data.phrase, new.hd = data.hd,
             new.imported = data.imported, new.active = data.active
      PROVE  Sound(new)
    BY <1>1 DEF Sound, Finite, WellMade, Contents!AccountsOf, Contents!AccountCount
<1>2. ASSUME NEW index \in Contents!Indices PROVE Sound(Contents!NamedLong(data, index))
    BY <1>1 DEF Sound, Finite, Contents!WalletDatas, Contents!NamedLong
<1>3. ASSUME NEW key \in Contents!Accounts PROVE Sound(Contents!KeptUnfit(data, key))
    BY <1>1 DEF Sound, Finite, Contents!WalletDatas, Contents!KeptUnfit
<1> QED
    BY <1>2, <1>3

(* Another account of the wallet is selected, or the one of a backup.       *)
LEMMA SelectedSound ==
    ASSUME NEW data, Finite(data), WellMade(data), NEW account \in Contents!AccountsOf(data)
    PROVE  Sound([data EXCEPT !.active = account])
<1> DEFINE new == [data EXCEPT !.active = account]
<1>1. account \in Contents!Accounts
    BY DataTypes
<1>2. /\ new.phrase = data.phrase /\ new.hd = data.hd /\ new.imported = data.imported
      /\ new.active = account /\ new \in Contents!WalletDatas
    BY <1>1 DEF Finite, Contents!WalletDatas
<1>3. Contents!AccountsOf(new) = Contents!AccountsOf(data) /\ WellMade(new)
    BY <1>2 DEF Contents!AccountsOf, Contents!AccountCount, WellMade
<1> QED
    BY <1>2, <1>3 DEF Sound, Finite

(* What a restore makes of valid contents is sound.                         *)
LEMMA ValidatedSound ==
    ASSUME NEW data, Finite(data), Contents!ValidWalletData(data), NEW valid \in Contents!Validated(data)
    PROVE  Sound(valid)
BY SelectedSound DEF Contents!Validated, Contents!ValidWalletData, WellMade

(* A backup of sound contents is sound.                                     *)
LEMMA BackupFinite == ASSUME NEW data, Sound(data) PROVE Sound(Contents!BackupContents(data, FALSE))
<1> DEFINE new == Contents!BackupContents(data, FALSE)
<1>1. /\ new.phrase = data.phrase /\ new.hd = data.hd /\ new.imported = data.imported
      /\ new.active = data.active /\ new \in Contents!WalletDatas
    BY DEF Sound, Finite, Contents!WalletDatas, Contents!BackupContents
<1> QED
    BY <1>1 DEF Sound, Finite, WellMade, Contents!AccountsOf, Contents!AccountCount

(* At first there is nothing on any device.                                 *)
LEMMA ContentsInit == Contents!Init => ContentsInv
BY ContentsFacts DEF Contents!Init, ContentsInv, Contents!Has, Finite

(* A device whose contents become sound ones.                               *)
LEMMA BecomesInv ==
    ASSUME ContentsInv, NEW d \in Devices, NEW data, Contents!Becomes(d, data), data = None \/ Sound(data)
    PROVE  ContentsInv'
BY DEF ContentsInv, Contents!Becomes, Contents!Has

(* Every operation on contents keeps them sound.                            *)
LEMMA ContentsNext == ASSUME ContentsInv, [Contents!Next]_(Contents!vars) PROVE ContentsInv'
<1>1. ASSUME NEW d \in Devices, Contents!createWallet(d) PROVE ContentsInv'
    BY <1>1, NewSound, NotedSound, ContentsFacts, BecomesInv DEF Contents!createWallet
<1>2. ASSUME NEW d \in Devices, Contents!addAccount(d) PROVE ContentsInv'
  <2> DEFINE index == Contents!NextIndex(wallet[d])
             new   == Contents!AddIndex(wallet[d], index)
  <2>1. Sound(wallet[d])
      BY <1>2 DEF Contents!addAccount, ContentsInv
  <2>2. Sound(new) /\ index \in Contents!Indices
      BY <1>2, <2>1, AddIndexSound DEF Contents!addAccount, Contents!HasRoom
  <2>3. Contents!Becomes(d, new) \/ Contents!Becomes(d, Contents!NamedLong(new, index))
      BY <1>2 DEF Contents!addAccount
  <2>4. Sound(Contents!NamedLong(new, index))
      BY <2>2, NotedSound
  <2> HIDE DEF new, index
  <2> QED
      BY <2>2, <2>3, <2>4, BecomesInv
<1>3. ASSUME NEW d \in Devices, Contents!importKey(d) PROVE ContentsInv'
  <2>1. Sound(wallet[d])
      BY <1>3 DEF Contents!importKey, ContentsInv
  <2>2. PICK key \in Keys \ Contents!AccountsOf(wallet[d]) :
             \/ Contents!Becomes(d, Contents!AddKey(wallet[d], key))
             \/ Contents!Becomes(d, Contents!KeptUnfit(Contents!AddKey(wallet[d], key), key))
      BY <1>3 DEF Contents!importKey
  <2>3. Sound(Contents!AddKey(wallet[d], key)) /\ key \in Contents!Accounts
      BY <1>3, <2>1, AddKeySound, ContentsFacts DEF Contents!importKey, Contents!HasRoom
  <2>4. Sound(Contents!KeptUnfit(Contents!AddKey(wallet[d], key), key))
      BY <2>3, NotedSound
  <2> QED
      BY <2>2, <2>3, <2>4, BecomesInv
<1>4. ASSUME NEW d \in Devices, Contents!setActive(d) PROVE ContentsInv'
    BY <1>4, SelectedSound, BecomesInv DEF Contents!setActive, ContentsInv, Sound
<1>5. ASSUME NEW d \in Devices, Contents!exportBackup(d) PROVE ContentsInv'
    BY <1>5, BackupFinite DEF Contents!exportBackup, ContentsInv, Contents!Has, Sound
<1>6. ASSUME NEW d \in Devices, Contents!Restore(d) \/ Contents!Replace(d) PROVE ContentsInv'
  <2>1. PICK data \in backups : Contents!ValidWalletData(data) /\ \E valid \in Contents!Validated(data) : Contents!Becomes(d, valid)
      BY <1>6 DEF Contents!Restore, Contents!Replace
  <2>2. PICK valid \in Contents!Validated(data) : Contents!Becomes(d, valid)
      BY <2>1
  <2>3. Finite(data)
      BY DEF ContentsInv
  <2> QED
      BY <2>1, <2>2, <2>3, ValidatedSound, BecomesInv
<1>7. ASSUME NEW d \in Devices, Contents!Merge(d) PROVE ContentsInv'
    BY <1>7, MergedSound, BecomesInv DEF Contents!Merge, ContentsInv
<1>8. ASSUME NEW d \in Devices, Contents!reset(d) PROVE ContentsInv'
    BY <1>8, BecomesInv DEF Contents!reset
<1>9. CASE UNCHANGED Contents!vars
    BY <1>9 DEF Contents!vars, ContentsInv, Contents!Has
<1> QED
    BY <1>1, <1>2, <1>3, <1>4, <1>5, <1>6, <1>7, <1>8, <1>9 DEF Contents!Next

(* The wallets are what a behaviour of that stage made them.                *)
AllContentsInv == stage = "contents" => ContentsInv

(* Contents are sound at first, whichever stage runs.                       *)
LEMMA AllContentsInit == AllInit => AllContentsInv
BY ContentsInit DEF AllInit, AllContentsInv

(* And they stay so while other stages run.                                 *)
LEMMA AllContentsNext ==
    AllContentsInv /\ [OfferStep \/ DecoderStep \/ ContentsStep]_all => AllContentsInv'
<1> SUFFICES ASSUME AllContentsInv, [OfferStep \/ DecoderStep \/ ContentsStep]_all, stage' = "contents"
             PROVE  ContentsInv'
    BY DEF AllContentsInv
<1>1. CASE ContentsStep
    BY <1>1, ContentsNext DEF ContentsStep, AllContentsInv
<1>2. CASE UNCHANGED <<stage, contentsVars>>
    BY <1>2, ContentsNext DEF AllContentsInv, contentsVars, Contents!vars
<1> QED
    BY <1>1, <1>2 DEF OfferStep, DecoderStep, ContentsStep, all

(* Whatever wallets are made of, a backup is refused only for a row that a  *)
(* reader refuses by itself (backup.ts:86, 99, 106; slip10.ts:28).          *)
THEOREM ContentsAreRestorable == AllSpec => []ExportsRestoreUnlessUnfit
<1>1. ASSUME NEW data, Sound(data), ~Contents!HasUnfitRow(data)
      PROVE  Contents!ValidWalletData(Contents!BackupContents(data, FALSE))
  <2> DEFINE backup == Contents!BackupContents(data, FALSE)
  <2>1. /\ backup.phrase = data.phrase /\ backup.hd = data.hd
        /\ backup.longNames = data.longNames /\ backup.unfitKeys = data.unfitKeys
      BY <1>1 DEF Sound, Finite, Contents!WalletDatas, Contents!BackupContents
  <2>2. \A i \in data.hd : i < IndexSpace
    <3>1. data.hd \subseteq Nat
        BY <1>1, DataFacts DEF Sound, Finite, Contents!WalletDatas, Contents!Indices
    <3> QED
        BY <1>1, <3>1, DataFacts DEF Contents!HasUnfitRow
  <2>3. WellMade(backup)
      BY <1>1, BackupFinite DEF Sound
  <2> QED
      BY <1>1, <2>1, <2>2, <2>3 DEF Contents!ValidWalletData, Contents!HasUnfitRow, WellMade
<1>2. AllContentsInv => ExportsRestoreUnlessUnfit
    BY <1>1 DEF AllContentsInv, ContentsInv, ExportsRestoreUnlessUnfit, Contents!ExportsRestoreUnlessUnfit
<1> QED
    BY <1>2, AllContentsInit, AllContentsNext, PTL DEF AllSpec

(* Merging keeps the accounts of both and each of them once (MergesAgree),  *)
(* and the active account is one of those held.                             *)
THEOREM MergesKeepAccounts == AllSpec => []MergesAgree
<1>1. ContentsInv => Contents!MergesAgree
    BY MergedCount, MergeableBothWays, SameSets DEF ContentsInv, Contents!MergesAgree
<1>2. ContentsInv => Contents!ActiveIsHeld
    BY DEF ContentsInv, Contents!ActiveIsHeld, Sound
<1>3. AllContentsInv => MergesAgree
    BY <1>1, <1>2 DEF AllContentsInv, MergesAgree
<1> QED
    BY <1>3, AllContentsInit, AllContentsNext, PTL DEF AllSpec


----------------------------------------------------------------------------
(* The parts of an animated code                                            *)

(* The parts that hold what they say: data and indexes are the same.        *)
Wholes == {Decoder!Part(indexes) : indexes \in SUBSET Fragments}

Items(s) == Decoder!ToSet(s)

(* A fragment of a mix that was received is known, or a part that is still  *)
(* held has it and comes of this mix or of others within it.                *)
Kept(mix, fragment) ==
    \/ fragment \in Decoder!Known
    \/ \E part \in Items(mixed) \cup Items(queue) :
            fragment \in part.indexes /\ part.indexes \subseteq mix

(* The mixes held are of two fragments or more, none of them known.         *)
MixesAreMixed ==
    \A part \in Items(mixed) :
        /\ part.indexes # {} /\ ~Decoder!Single(part)
        /\ part.indexes \cap Decoder!Known = {}

(* What is held are such parts, one fragment each among the simple ones.   *)
PartsShape ==
    /\ simple \in Seq(Wholes) /\ mixed \in Seq(Wholes) /\ queue \in Seq(Wholes)
    /\ scanned \subseteq SUBSET Fragments /\ seen \subseteq scanned /\ full \in BOOLEAN
    /\ result \in Messages \cup Short \cup {None}
    /\ queue # <<>> => meta \in Messages
    /\ \A part \in Items(simple) : Decoder!Single(part)

(* Until the message is read, mixes are mixes.  A plain fragment that was   *)
(* received is known or queued; every fragment of every part received is    *)
(* kept, unless a mix was dropped.                                          *)
PartsInv ==
    /\ PartsShape
    /\ result = None => MixesAreMixed /\ Decoder!Known # Fragments
    /\ \A fragment \in Fragments : {fragment} \in scanned =>
            fragment \in Decoder!Known \/ Decoder!Part({fragment}) \in Items(queue)
    /\ ~full => \A mix \in scanned : \A fragment \in mix : Kept(mix, fragment)

(* The parts of a sequence.                                                 *)
LEMMA ItemsOf ==
    ASSUME NEW S, NEW s \in Seq(S)
    PROVE  /\ Items(s) \subseteq S
           /\ \A i \in 1 .. Len(s) : s[i] \in Items(s)
           /\ \A x \in Items(s) : \E i \in 1 .. Len(s) : x = s[i]
<1>1. Items(s) \subseteq S /\ \A i \in 1 .. Len(s) : s[i] \in Items(s)
    BY DEF Items, Decoder!ToSet
<1>2. \A x \in Items(s) : \E i \in 1 .. Len(s) : x = s[i]
    BY DEF Items, Decoder!ToSet
<1> QED
    BY <1>1, <1>2

(* The parts of the empty sequence and of one part.                         *)
LEMMA ItemsOfFew == Items(<<>>) = {} /\ \A x : Items(<<x>>) = {x}
BY DEF Items, Decoder!ToSet

(* The parts of two sequences, one after the other.                         *)
LEMMA ItemsOfBoth ==
    ASSUME NEW S, NEW s \in Seq(S), NEW t \in Seq(S)
    PROVE  s \o t \in Seq(S) /\ Items(s \o t) = Items(s) \cup Items(t)
<1> USE DEF Items, Decoder!ToSet
<1>1. ASSUME NEW x \in Items(s \o t) PROVE x \in Items(s) \cup Items(t)
    OBVIOUS
<1>2. ASSUME NEW x \in Items(s) PROVE x \in Items(s \o t)
    OBVIOUS
<1>3. ASSUME NEW x \in Items(t) PROVE x \in Items(s \o t)
  <2>1. PICK i \in 1 .. Len(t) : x = t[i]
      OBVIOUS
  <2>2. (s \o t)[Len(s) + i] = x /\ Len(s) + i \in DOMAIN (s \o t)
      BY <2>1
  <2> QED
      BY <2>2
<1> HIDE DEF Items
<1> QED
    BY <1>1, <1>2, <1>3

(* The parts of a sequence and one more.                                    *)
LEMMA ItemsOfAppend ==
    ASSUME NEW S, NEW s \in Seq(S), NEW x \in S
    PROVE  Append(s, x) \in Seq(S) /\ Items(Append(s, x)) = Items(s) \cup {x}
<1>1. \A i \in DOMAIN s : Append(s, x)[i] = s[i] /\ i \in DOMAIN Append(s, x)
    OBVIOUS
<1>2. Append(s, x)[Len(s) + 1] = x /\ Len(s) + 1 \in DOMAIN Append(s, x)
    OBVIOUS
<1>3. \A i \in DOMAIN Append(s, x) : i \in DOMAIN s \/ i = Len(s) + 1
    OBVIOUS
<1>4. Items(Append(s, x)) = Items(s) \cup {x}
    BY <1>1, <1>2, <1>3 DEF Items, Decoder!ToSet
<1> QED
    BY <1>4

(* The parts of a queue: its head and the rest.                             *)
LEMMA ItemsOfTail ==
    ASSUME NEW S, NEW s \in Seq(S), s # <<>>
    PROVE  /\ Head(s) \in S /\ Tail(s) \in Seq(S)
           /\ Items(s) = {Head(s)} \cup Items(Tail(s))
<1>1. Head(s) = s[1] /\ Tail(s) \in Seq(S) /\ Len(Tail(s)) = Len(s) - 1 /\ Len(s) > 0
    BY HeadTailProperties
<1>2. \A i \in 1 .. Len(Tail(s)) : Tail(s)[i] = s[i + 1]
    BY HeadTailProperties
<1>3. \A i \in 1 .. Len(s) : i = 1 \/ (i - 1 \in 1 .. Len(Tail(s)) /\ s[i] = Tail(s)[i - 1])
    BY <1>1, <1>2
<1>4. \A i \in 1 .. Len(Tail(s)) : i + 1 \in 1 .. Len(s)
    BY <1>1
<1>5. ASSUME NEW x \in Items(s) PROVE x = Head(s) \/ x \in Items(Tail(s))
  <2>1. PICK i \in 1 .. Len(s) : x = s[i]
      BY DEF Items, Decoder!ToSet
  <2>2. CASE i # 1
    <3>1. i - 1 \in DOMAIN Tail(s) /\ x = Tail(s)[i - 1]
        BY <2>1, <2>2, <1>1, <1>3
    <3> QED
        BY <3>1 DEF Items, Decoder!ToSet
  <2> QED
      BY <2>1, <2>2, <1>1
<1>6. Head(s) \in Items(s) /\ Head(s) \in S
    BY <1>1 DEF Items, Decoder!ToSet
<1>7. ASSUME NEW x \in Items(Tail(s)) PROVE x \in Items(s)
    BY <1>1, <1>2, <1>4 DEF Items, Decoder!ToSet
<1> QED
    BY <1>1, <1>5, <1>6, <1>7

(* Reducing keeps the data that of the indexes.                             *)
LEMMA ReduceWhole ==
    ASSUME NEW part \in Wholes, NEW by \in Wholes
    PROVE  /\ Decoder!Reduce(part, by) \in Wholes
           /\ by.indexes \subseteq part.indexes =>
                Decoder!Reduce(part, by).indexes = part.indexes \ by.indexes
           /\ ~(by.indexes \subseteq part.indexes) => Decoder!Reduce(part, by) = part
           /\ part.indexes \subseteq Fragments /\ part.data = part.indexes
<1>1. PICK one \in SUBSET Fragments : part = Decoder!Part(one)
    BY DEF Wholes
<1>2. PICK two \in SUBSET Fragments : by = Decoder!Part(two)
    BY DEF Wholes
<1>3. two \subseteq one => Decoder!Xor(one, two) = one \ two
    BY DEF Decoder!Xor
<1>4. Decoder!Reduce(part, by) = Decoder!Part(IF two \subseteq one THEN one \ two ELSE one)
    BY <1>1, <1>2, <1>3 DEF Decoder!Reduce, Decoder!Part
<1> QED
    BY <1>1, <1>2, <1>4 DEF Wholes, Decoder!Part

(* What a loop over parts has made of a part after n of them.               *)
Reduces(part, parts, n, after) ==
    /\ after \in [0 .. n -> Wholes] /\ after[0] = part
    /\ \A i \in 1 .. n : after[i] = Decoder!Reduce(after[i - 1], parts[i])

(* The loop goes as far as there are parts: induction on how far it went.   *)
LEMMA ReducesFar ==
    ASSUME NEW part \in Wholes, NEW parts \in Seq(Wholes), NEW n \in 0 .. Len(parts)
    PROVE  \E after : Reduces(part, parts, n, after)
<1> DEFINE Bad == {k \in 0 .. Len(parts) : ~\E after : Reduces(part, parts, k, after)}
<1> SUFFICES ASSUME Bad # {} PROVE FALSE
    OBVIOUS
<1>1. PICK m \in Bad : \A k \in Bad : m <= k
  <2>1. Bad \in SUBSET Nat
      OBVIOUS
  <2> QED
      BY <2>1, Smallest
<1>2. m # 0
  <2>1. Reduces(part, parts, 0, [i \in 0 .. 0 |-> part])
      BY DEF Reduces
  <2> QED
      BY <2>1
<1>3. PICK after : Reduces(part, parts, m - 1, after)
    BY <1>1, <1>2
<1>4. Reduces(part, parts, m, [i \in 0 .. m |-> IF i = m THEN Decoder!Reduce(after[m - 1], parts[m]) ELSE after[i]])
    BY <1>1, <1>2, <1>3, ReduceWhole DEF Reduces
<1> QED
    BY <1>4

(* The function the loop is written as is what the loop makes.              *)
LEMMA ReducedIs ==
    ASSUME NEW part \in Wholes, NEW parts \in Seq(Wholes)
    PROVE  \E after : Reduces(part, parts, Len(parts), after) /\ Decoder!Reduced(part, parts) = after[Len(parts)]
<1>1. PICK after : Reduces(part, parts, Len(parts), after)
    BY ReducesFar
<1> DEFINE loop[n \in 0 .. Len(parts)] == IF n = 0 THEN part ELSE Decoder!Reduce(loop[n - 1], parts[n])
<1>2. after = [n \in 0 .. Len(parts) |-> IF n = 0 THEN part ELSE Decoder!Reduce(after[n - 1], parts[n])]
    BY <1>1 DEF Reduces
<1>3. loop = [n \in 0 .. Len(parts) |-> IF n = 0 THEN part ELSE Decoder!Reduce(loop[n - 1], parts[n])]
    BY <1>2
<1>4. Decoder!Reduced(part, parts) = loop[Len(parts)]
    BY DEF Decoder!Reduced
<1>5. \A n \in 0 .. Len(parts) : loop[n] = after[n]
  <2> DEFINE Bad == {n \in 0 .. Len(parts) : loop[n] # after[n]}
  <2> HIDE DEF loop
  <2> SUFFICES ASSUME Bad # {} PROVE FALSE
      OBVIOUS
  <2>1. PICK m \in Bad : \A n \in Bad : m <= n
    <3>1. Bad \in SUBSET Nat
        OBVIOUS
    <3> QED
        BY <3>1, Smallest
  <2> QED
      BY <2>1, <1>2, <1>3
<1> QED
    BY <1>1, <1>4, <1>5

(* A part reduced by n others has nothing of them in full; what it lost is  *)
(* in some that were within it.                                             *)
ReducedBy(part, parts, n, now) ==
    /\ now.indexes \subseteq part.indexes
    /\ \A i \in 1 .. n : ~(parts[i].indexes \subseteq now.indexes)
    /\ \A fragment \in part.indexes \ now.indexes :
            \E i \in 1 .. n : fragment \in parts[i].indexes /\ parts[i].indexes \subseteq part.indexes

(* A part reduced by others is whole, and reduced by all of them: induction *)
(* on how many the loop has tried.                                          *)
LEMMA ReducedFacts ==
    ASSUME NEW part \in Wholes, NEW parts \in Seq(Wholes),
           \A i \in 1 .. Len(parts) : parts[i].indexes # {}
    PROVE  /\ Decoder!Reduced(part, parts) \in Wholes
           /\ ReducedBy(part, parts, Len(parts), Decoder!Reduced(part, parts))
<1>1. PICK after : Reduces(part, parts, Len(parts), after) /\ Decoder!Reduced(part, parts) = after[Len(parts)]
    BY ReducedIs
<1> DEFINE Bad == {n \in 0 .. Len(parts) : ~ReducedBy(part, parts, n, after[n])}
<1>2. ASSUME Bad # {} PROVE FALSE
  <2>1. PICK m \in Bad : \A n \in Bad : m <= n
    <3>1. Bad \in SUBSET Nat
        OBVIOUS
    <3> QED
        BY <3>1, <1>2, Smallest
  <2>2. m # 0
      BY <1>1, <2>1 DEF Reduces, ReducedBy
  <2>3. ReducedBy(part, parts, m - 1, after[m - 1])
      BY <2>1, <2>2
  <2>4. /\ m - 1 \in 0 .. Len(parts) /\ m \in 1 .. Len(parts)
        /\ after[m - 1] \in Wholes /\ parts[m] \in Wholes
      BY <2>1, <2>2, <1>1 DEF Reduces
  <2>5. /\ parts[m].indexes \subseteq after[m - 1].indexes =>
              after[m].indexes = after[m - 1].indexes \ parts[m].indexes
        /\ ~(parts[m].indexes \subseteq after[m - 1].indexes) => after[m] = after[m - 1]
    <3>1. after[m] = Decoder!Reduce(after[m - 1], parts[m])
        BY <2>4, <1>1 DEF Reduces
    <3> QED
        BY <3>1, <2>4, ReduceWhole
  <2>6. after[m].indexes \subseteq part.indexes
    <3>1. after[m - 1].indexes \subseteq part.indexes
        BY <2>3 DEF ReducedBy
    <3> QED
        BY <3>1, <2>5
  <2>7. \A i \in 1 .. m : ~(parts[i].indexes \subseteq after[m].indexes)
    <3>1. ASSUME NEW i \in 1 .. m - 1 PROVE ~(parts[i].indexes \subseteq after[m].indexes)
        BY <2>3, <2>5 DEF ReducedBy
    <3>2. ~(parts[m].indexes \subseteq after[m].indexes)
        BY <2>4, <2>5
    <3> QED
        BY <3>1, <3>2, <2>4
  <2>8. ASSUME NEW fragment \in part.indexes \ after[m].indexes
        PROVE  \E i \in 1 .. m : fragment \in parts[i].indexes /\ parts[i].indexes \subseteq part.indexes
    <3>1. CASE fragment \in after[m - 1].indexes
        BY <3>1, <2>3, <2>4, <2>5 DEF ReducedBy
    <3>2. CASE fragment \notin after[m - 1].indexes
        BY <3>2, <2>3, <2>4 DEF ReducedBy
    <3> QED
        BY <3>1, <3>2
  <2>9. ReducedBy(part, parts, m, after[m])
      BY <2>6, <2>7, <2>8 DEF ReducedBy
  <2> QED
      BY <2>1, <2>9
<1>3. ReducedBy(part, parts, Len(parts), after[Len(parts)])
    BY <1>2
<1> QED
    BY <1>1, <1>3 DEF Reduces

(* A part of one fragment is that fragment, plain.                          *)
LEMMA SingleIs ==
    ASSUME NEW part \in Wholes
    PROVE  /\ Decoder!Single(part) => \E fragment \in Fragments :
                    part = Decoder!Part({fragment}) /\ part.indexes = {fragment}
           /\ \A fragment : part.indexes = {fragment} =>
                    Decoder!Single(part) /\ part = Decoder!Part({fragment})
BY DEF Wholes, Decoder!Part, Decoder!Single

(* What the loop over the mixes does with the next one.                     *)
SortNext(lists, mix) ==
    IF Decoder!Single(mix)
    THEN [lists EXCEPT !.queue = Append(@, mix)]
    ELSE [lists EXCEPT !.mixed = Append(@, mix)]

(* The two lists the loop over the mixes fills.                             *)
Lists == [mixed : Seq(Wholes), queue : Seq(Wholes)]

(* What it has made of the lists after n of them.                           *)
Sorts(by, n, after) ==
    /\ after \in [0 .. n -> Lists]
    /\ after[0] = [mixed |-> <<>>, queue |-> Tail(queue)]
    /\ \A i \in 1 .. n : after[i] = SortNext(after[i - 1], Decoder!Reduce(mixed[i], by))

(* A part is being processed.                                               *)
Listed == mixed \in Seq(Wholes) /\ queue \in Seq(Wholes) /\ queue # <<>>

(* One turn of the loop adds to one of the lists.                           *)
LEMMA SortNextLists ==
    ASSUME NEW lists \in Lists, NEW mix \in Wholes
    PROVE  /\ SortNext(lists, mix) \in Lists
           /\ SortNext(lists, mix).queue =
                IF Decoder!Single(mix) THEN Append(lists.queue, mix) ELSE lists.queue
           /\ SortNext(lists, mix).mixed =
                IF Decoder!Single(mix) THEN lists.mixed ELSE Append(lists.mixed, mix)
<1>1. /\ lists.queue \in Seq(Wholes) /\ lists.mixed \in Seq(Wholes)
      /\ Append(lists.queue, mix) \in Seq(Wholes) /\ Append(lists.mixed, mix) \in Seq(Wholes)
    BY DEF Lists
<1> QED
    BY <1>1 DEF SortNext, Lists

(* The loop reaches every mix: induction on how far it went.                *)
LEMMA SortsFar ==
    ASSUME Listed, NEW by \in Wholes, NEW n \in 0 .. Len(mixed)
    PROVE  \E after : Sorts(by, n, after)
<1> DEFINE Bad == {k \in 0 .. Len(mixed) : ~\E after : Sorts(by, k, after)}
<1> SUFFICES ASSUME Bad # {} PROVE FALSE
    OBVIOUS
<1>0. Tail(queue) \in Seq(Wholes) /\ mixed \in Seq(Wholes) /\ Len(mixed) \in Nat
    BY ItemsOfTail DEF Listed
<1>1. PICK m \in Bad : \A k \in Bad : m <= k
  <2>1. Bad \in SUBSET Nat
      BY <1>0
  <2> QED
      BY <2>1, Smallest
<1>2. m # 0
  <2>1. Sorts(by, 0, [i \in 0 .. 0 |-> [mixed |-> <<>>, queue |-> Tail(queue)]])
      BY <1>0 DEF Sorts, Lists
  <2> QED
      BY <2>1
<1>3. PICK after : Sorts(by, m - 1, after)
    BY <1>0, <1>1, <1>2
<1>4. m \in 1 .. Len(mixed) /\ m - 1 \in 0 .. m - 1 /\ m \in Nat
    BY <1>0, <1>1, <1>2
<1> DEFINE next == [i \in 0 .. m |-> IF i = m THEN SortNext(after[m - 1], Decoder!Reduce(mixed[m], by))
                                              ELSE after[i]]
<1>5. mixed[m] \in Wholes /\ after[m - 1] \in Lists
    BY <1>0, <1>3, <1>4 DEF Sorts
<1>6. SortNext(after[m - 1], Decoder!Reduce(mixed[m], by)) \in Lists
    BY <1>5, ReduceWhole, SortNextLists
<1>7. next \in [0 .. m -> Lists] /\ next[0] = after[0]
  <2>1. \A i \in 0 .. m : next[i] \in Lists
    <3>1. \A i \in 0 .. m : i = m \/ i \in 0 .. m - 1
        BY <1>4
    <3> QED
        BY <3>1, <1>3, <1>6 DEF Sorts
  <2>2. 0 \in 0 .. m /\ 0 # m
      BY <1>4
  <2> QED
      BY <2>1, <2>2
<1>8. \A i \in 1 .. m : next[i] = SortNext(next[i - 1], Decoder!Reduce(mixed[i], by))
  <2>1. ASSUME NEW i \in 1 .. m - 1 PROVE next[i] = SortNext(next[i - 1], Decoder!Reduce(mixed[i], by))
    <3>1. next[i] = after[i] /\ next[i - 1] = after[i - 1]
        BY <1>4
    <3> QED
        BY <3>1, <1>3 DEF Sorts
  <2>2. next[m] = SortNext(next[m - 1], Decoder!Reduce(mixed[m], by))
      BY <1>4
  <2>3. \A i \in 1 .. m : i = m \/ i \in 1 .. m - 1
      BY <1>4
  <2> HIDE DEF next
  <2> QED
      BY <2>1, <2>2, <2>3
<1>9. Sorts(by, m, next)
  <2> HIDE DEF next
  <2> QED
      BY <1>3, <1>7, <1>8 DEF Sorts
<1> QED
    BY <1>9

(* The function the loop is written as is what the loop makes.              *)
LEMMA SortedIs ==
    ASSUME Listed, NEW by \in Wholes
    PROVE  \E after : Sorts(by, Len(mixed), after) /\ Decoder!Sorted(by) = after[Len(mixed)]
<1>0. Len(mixed) \in Nat
    BY DEF Listed
<1>1. PICK after : Sorts(by, Len(mixed), after)
    BY <1>0, SortsFar
<1> DEFINE first == [mixed |-> <<>>, queue |-> Tail(queue)]
           loop[n \in 0 .. Len(mixed)] ==
              IF n = 0 THEN first ELSE SortNext(loop[n - 1], Decoder!Reduce(mixed[n], by))
<1>2. after = [n \in 0 .. Len(mixed) |->
                  IF n = 0 THEN first ELSE SortNext(after[n - 1], Decoder!Reduce(mixed[n], by))]
  <2>1. \A n \in 0 .. Len(mixed) :
            after[n] = IF n = 0 THEN first ELSE SortNext(after[n - 1], Decoder!Reduce(mixed[n], by))
      BY <1>0, <1>1 DEF Sorts
  <2> QED
      BY <2>1, <1>1 DEF Sorts
<1>3. loop = [n \in 0 .. Len(mixed) |->
                  IF n = 0 THEN first ELSE SortNext(loop[n - 1], Decoder!Reduce(mixed[n], by))]
    BY <1>2
<1>4. Decoder!Sorted(by) = loop[Len(mixed)]
    BY DEF Decoder!Sorted, SortNext
<1>5. \A n \in 0 .. Len(mixed) : loop[n] = after[n]
  <2> DEFINE Bad == {n \in 0 .. Len(mixed) : loop[n] # after[n]}
  <2> HIDE DEF loop, first
  <2> SUFFICES ASSUME Bad # {} PROVE FALSE
      OBVIOUS
  <2>1. PICK m \in Bad : \A n \in Bad : m <= n
    <3>1. Bad \in SUBSET Nat
        BY <1>0
    <3> QED
        BY <3>1, Smallest
  <2>2. m \in 0 .. Len(mixed) /\ (m # 0 => m - 1 \in 0 .. Len(mixed) /\ m - 1 < m)
      BY <1>0, <2>1
  <2>3. m # 0 => loop[m - 1] = after[m - 1]
      BY <2>1, <2>2
  <2>4. loop[m] = after[m]
      BY <1>2, <1>3, <2>2, <2>3
  <2> QED
      BY <2>1, <2>4
<1> HIDE DEF loop
<1> QED
    BY <1>0, <1>1, <1>4, <1>5

(* After n mixes: those on the list were reduced and are still mixes, and   *)
(* none was lost.                                                           *)
SortedBy(by, n, lists) ==
    /\ \A mix \in Items(lists.mixed) :
            ~Decoder!Single(mix) /\ \E i \in 1 .. n : mix = Decoder!Reduce(mixed[i], by)
    /\ \A i \in 1 .. n : Decoder!Reduce(mixed[i], by) \in Items(lists.mixed) \cup Items(lists.queue)
    /\ Items(Tail(queue)) \subseteq Items(lists.queue)

(* The loop over the mixes loses none: induction on how many it has tried.  *)
LEMMA SortedFacts ==
    ASSUME Listed, NEW by \in Wholes
    PROVE  /\ Decoder!Sorted(by) \in Lists
           /\ SortedBy(by, Len(mixed), Decoder!Sorted(by))
<1>0. Len(mixed) \in Nat /\ mixed \in Seq(Wholes)
    BY DEF Listed
<1>1. PICK after : Sorts(by, Len(mixed), after) /\ Decoder!Sorted(by) = after[Len(mixed)]
    BY SortedIs
<1> DEFINE Bad == {n \in 0 .. Len(mixed) : ~SortedBy(by, n, after[n])}
<1>2. ASSUME Bad # {} PROVE FALSE
  <2>1. PICK m \in Bad : \A n \in Bad : m <= n
    <3>1. Bad \in SUBSET Nat
        BY <1>0
    <3> QED
        BY <3>1, <1>2, Smallest
  <2>2. m # 0
    <3>1. SortedBy(by, 0, after[0])
        BY <1>1 DEF Sorts, SortedBy, Items, Decoder!ToSet
    <3> QED
        BY <3>1, <2>1
  <2>3. m - 1 \in 0 .. Len(mixed) /\ m \in 1 .. Len(mixed) /\ m - 1 < m
      BY <1>0, <2>1, <2>2
  <2>4. SortedBy(by, m - 1, after[m - 1])
      BY <2>1, <2>3
  <2> DEFINE mix == Decoder!Reduce(mixed[m], by)
  <2>5. after[m] = SortNext(after[m - 1], mix) /\ after[m - 1] \in Lists /\ mix \in Wholes
    <3>1. mixed[m] \in Wholes
        BY <1>0, <2>3
    <3> QED
        BY <3>1, <1>1, <2>3, ReduceWhole DEF Sorts
  <2> HIDE DEF mix
  <2>6. /\ Decoder!Single(mix) => after[m].mixed = after[m - 1].mixed
                                 /\ Items(after[m].queue) = Items(after[m - 1].queue) \cup {mix}
        /\ ~Decoder!Single(mix) => after[m].queue = after[m - 1].queue
                                 /\ Items(after[m].mixed) = Items(after[m - 1].mixed) \cup {mix}
    <3>1. after[m - 1].mixed \in Seq(Wholes) /\ after[m - 1].queue \in Seq(Wholes)
        BY <2>5 DEF Lists
    <3>2. /\ Items(Append(after[m - 1].mixed, mix)) = Items(after[m - 1].mixed) \cup {mix}
          /\ Items(Append(after[m - 1].queue, mix)) = Items(after[m - 1].queue) \cup {mix}
        BY <2>5, <3>1, ItemsOfAppend
    <3> QED
        BY <2>5, <3>2, SortNextLists
  <2>7. \A i \in 1 .. m : i = m \/ i \in 1 .. m - 1
      BY <2>3
  <2>8. \A i \in 1 .. m - 1 : i \in 1 .. m
      BY <2>3
  <2>9. ASSUME NEW x \in Items(after[m].mixed)
        PROVE  ~Decoder!Single(x) /\ \E i \in 1 .. m : x = Decoder!Reduce(mixed[i], by)
    <3>1. CASE x \in Items(after[m - 1].mixed)
        BY <3>1, <2>4, <2>8 DEF SortedBy
    <3>2. CASE x = mix /\ ~Decoder!Single(mix)
      <4>1. m \in 1 .. m
          BY <2>3
      <4> QED
          BY <3>2, <4>1 DEF mix
    <3> QED
        BY <3>1, <3>2, <2>6
  <2>10. ASSUME NEW i \in 1 .. m
         PROVE  Decoder!Reduce(mixed[i], by) \in Items(after[m].mixed) \cup Items(after[m].queue)
    <3>1. CASE i = m
        BY <3>1, <2>6 DEF mix
    <3>2. CASE i \in 1 .. m - 1
        BY <3>2, <2>4, <2>6 DEF SortedBy
    <3> QED
        BY <3>1, <3>2, <2>7
  <2>11. Items(Tail(queue)) \subseteq Items(after[m].queue)
      BY <2>4, <2>6 DEF SortedBy
  <2>12. SortedBy(by, m, after[m])
      BY <2>9, <2>10, <2>11 DEF SortedBy
  <2> QED
      BY <2>1, <2>12
<1>3. Len(mixed) \in 0 .. Len(mixed)
    BY <1>0
<1>4. SortedBy(by, Len(mixed), after[Len(mixed)])
    BY <1>2, <1>3
<1> QED
    BY <1>1, <1>3, <1>4 DEF Sorts

(* What is known are the simple parts' fragments.                           *)
LEMMA KnownIs ==
    ASSUME PartsShape
    PROVE  /\ Decoder!Known \subseteq Fragments
           /\ \A part \in Items(simple) : part.indexes \subseteq Decoder!Known
           /\ \A fragment \in Decoder!Known : \E part \in Items(simple) : part.indexes = {fragment}
<1>1. \A part \in Items(simple) : part \in Wholes /\ Decoder!Single(part)
    BY ItemsOf DEF PartsShape
<1>2. \A part \in Items(simple) : \E fragment \in Fragments : part.indexes = {fragment}
    BY <1>1 DEF Decoder!Single
<1> QED
    BY <1>2 DEF Decoder!Known, Items

(* What reducing a part by all that is held leaves of it.                   *)
LEMMA MixReduced ==
    ASSUME PartsShape, MixesAreMixed, NEW part \in Wholes
    PROVE  LET reduced == Decoder!Reduced(part, simple \o mixed)
           IN  /\ reduced \in Wholes /\ reduced.indexes \subseteq part.indexes
               /\ reduced.indexes \cap Decoder!Known = {}
               /\ \A mix \in Items(mixed) : ~(mix.indexes \subseteq reduced.indexes)
               /\ \A fragment \in part.indexes \ reduced.indexes :
                    \/ fragment \in Decoder!Known
                    \/ \E mix \in Items(mixed) : fragment \in mix.indexes /\ mix.indexes \subseteq part.indexes
<1> DEFINE held == simple \o mixed
           reduced == Decoder!Reduced(part, held)
<1>1. held \in Seq(Wholes) /\ Items(held) = Items(simple) \cup Items(mixed)
    BY ItemsOfBoth DEF PartsShape
<1>2. \A x \in Items(held) : x.indexes # {}
  <2>1. \A x \in Items(simple) : Decoder!Single(x)
      BY DEF PartsShape
  <2>2. \A x \in Items(simple) : x.indexes # {}
      BY <2>1 DEF Decoder!Single
  <2>3. \A x \in Items(mixed) : x.indexes # {}
      BY DEF MixesAreMixed
  <2> QED
      BY <1>1, <2>2, <2>3
<1> HIDE DEF held
<1>3. /\ \A i \in 1 .. Len(held) : held[i] \in Items(held)
      /\ \A x \in Items(held) : \E i \in 1 .. Len(held) : x = held[i]
    BY <1>1, ItemsOf
<1>4. reduced \in Wholes /\ ReducedBy(part, held, Len(held), reduced)
    BY <1>1, <1>2, <1>3, ReducedFacts
<1> HIDE DEF reduced
<1>5. \A x \in Items(held) : ~(x.indexes \subseteq reduced.indexes)
    BY <1>3, <1>4 DEF ReducedBy
<1>6. reduced.indexes \cap Decoder!Known = {}
  <2>1. ASSUME NEW fragment \in Decoder!Known PROVE fragment \notin reduced.indexes
    <3>1. PICK x \in Items(simple) : x.indexes = {fragment}
        BY KnownIs
    <3>2. ~({fragment} \subseteq reduced.indexes)
        BY <1>1, <1>5, <3>1
    <3> QED
        BY <3>2
  <2> QED
      BY <2>1
<1>7. ASSUME NEW fragment \in part.indexes \ reduced.indexes
      PROVE  \/ fragment \in Decoder!Known
             \/ \E mix \in Items(mixed) : fragment \in mix.indexes /\ mix.indexes \subseteq part.indexes
  <2>1. PICK x \in Items(held) : fragment \in x.indexes /\ x.indexes \subseteq part.indexes
      BY <1>3, <1>4 DEF ReducedBy
  <2> QED
      BY <2>1, <1>1, KnownIs
<1> QED
    BY <1>1, <1>4, <1>5, <1>6, <1>7 DEF ReducedBy, reduced, held

(* A message has fragments, and is no failure.                              *)
LEMMA FountainFacts ==
    /\ Fragments # {} /\ None \notin Messages \cup Short
    /\ "mismatch" \notin Messages \cup Short \cup {None}
<1>1. Decoder!FountainAssumption
    BY TransferAssumption
<1>2. Decoder!IsFiniteSet(Fragments) = IsFiniteSet(Fragments)
    BY DEF Decoder!IsFiniteSet, IsFiniteSet
<1>3. Decoder!Cardinality(Fragments) = Cardinality(Fragments)
    BY <1>2 DEF Decoder!Cardinality, Cardinality
<1>4. Fragments # {}
    BY <1>1, <1>3, FS_EmptySet DEF Decoder!FountainAssumption
<1> QED
    BY <1>1, <1>4 DEF Decoder!FountainAssumption

(* A decoder that has received nothing.                                     *)
NoParts ==
    /\ simple = <<>> /\ mixed = <<>> /\ queue = <<>> /\ seen = {} /\ scanned = {}
    /\ full = FALSE /\ result = None

(* The initial states satisfy the inductive invariant.                      *)
LEMMA PartsStart == NoParts => PartsInv
<1> SUFFICES ASSUME NoParts PROVE PartsInv
    OBVIOUS
<1>0. /\ simple = <<>> /\ mixed = <<>> /\ queue = <<>> /\ seen = {} /\ scanned = {}
      /\ full = FALSE /\ result = None
    BY DEF NoParts
<1>1. Items(simple) = {} /\ Items(mixed) = {}
    BY <1>0, ItemsOfFew
<1>2. Decoder!Known = {}
    BY <1>1 DEF Decoder!Known, Items
<1>3. PartsShape
  <2>1. \A S : <<>> \in Seq(S)
      OBVIOUS
  <2>2. simple \in Seq(Wholes) /\ mixed \in Seq(Wholes) /\ queue \in Seq(Wholes)
      BY <1>0, <2>1
  <2>3. scanned \subseteq SUBSET Fragments /\ seen \subseteq scanned /\ full \in BOOLEAN
      BY <1>0
  <2> QED
      BY <1>0, <1>1, <2>2, <2>3 DEF PartsShape
<1>4. MixesAreMixed
    BY <1>1 DEF MixesAreMixed
<1>5. Decoder!Known # Fragments
    BY <1>2, FountainFacts
<1> QED
    BY <1>0, <1>3, <1>4, <1>5 DEF PartsInv

(* A part is received: its fragments are those of what is queued, or it was *)
(* received before.                                                         *)
LEMMA PartsReceived ==
    ASSUME PartsInv, NEW message \in Messages, NEW indexes \in SUBSET Fragments \ {{}},
           Decoder!Receive(message, indexes)
    PROVE  PartsInv'
<1> DEFINE part == Decoder!Part(indexes)
<1>1. /\ queue = <<>> /\ result = None /\ meta' = message /\ scanned' = scanned \cup {indexes}
      /\ UNCHANGED <<simple, mixed, result, full>>
    BY DEF Decoder!Receive
<1>2. part \in Wholes /\ part.indexes = indexes
    BY DEF Wholes, Decoder!Part
<1>3. Items(queue) = {}
    BY <1>1, ItemsOfFew
<1>4. UNCHANGED <<Decoder!Known, Items(simple), Items(mixed)>>
    BY <1>1 DEF Decoder!Known, Items
<1>5. CASE indexes \in seen
  <2>1. scanned' = scanned /\ UNCHANGED <<seen, queue, Items(queue)>>
      BY <1>1, <1>5 DEF Decoder!Receive, PartsInv, PartsShape
  <2>2. PartsShape'
      BY <1>1, <1>4, <2>1 DEF PartsInv, PartsShape, Decoder!Single
  <2> QED
      BY <1>1, <1>4, <2>1, <2>2 DEF PartsInv, MixesAreMixed, Kept, Decoder!Single
<1>6. CASE indexes \notin seen
  <2>1. queue' = <<part>> /\ seen' \subseteq seen \cup {indexes} /\ Items(queue)' = {part}
    <3>1. queue' = <<part>> /\ seen' \subseteq seen \cup {indexes}
        BY <1>6 DEF Decoder!Receive
    <3> QED
        BY <3>1, ItemsOfFew DEF Items
  <2>2. PartsShape'
      BY <1>1, <1>2, <1>4, <2>1 DEF PartsInv, PartsShape, Decoder!Single
  <2>3. ASSUME NEW fragment \in Fragments, {fragment} \in scanned'
        PROVE  fragment \in Decoder!Known' \/ Decoder!Part({fragment}) \in Items(queue)'
      BY <1>1, <1>3, <1>4, <2>1, <2>3 DEF PartsInv
  <2>4. ASSUME ~full', NEW mix \in scanned', NEW fragment \in mix PROVE Kept(mix, fragment)'
      BY <1>1, <1>2, <1>3, <1>4, <2>1, <2>4 DEF PartsInv, Kept
  <2> QED
      BY <1>1, <1>4, <2>2, <2>3, <2>4 DEF PartsInv, MixesAreMixed, Decoder!Single
<1> QED
    BY <1>5, <1>6

(* A fragment is learned: the mixes that have it lose it, the others stay.  *)
LEMMA PartsLearned ==
    ASSUME PartsInv, queue # <<>>, result = None, Decoder!Learn(Head(queue)), UNCHANGED <<meta, scanned>>
    PROVE  PartsInv'
<1> DEFINE part == Head(queue)
<1>1. /\ part \in Wholes /\ Tail(queue) \in Seq(Wholes) /\ Items(queue) = {part} \cup Items(Tail(queue))
      /\ Decoder!Single(part) /\ UNCHANGED <<seen, full, meta, scanned>> /\ meta \in Messages
      /\ PartsShape /\ MixesAreMixed
    BY ItemsOfTail DEF PartsInv, PartsShape, Decoder!Learn
<1>2. PICK new \in Fragments : part = Decoder!Part({new}) /\ part.indexes = {new}
    BY <1>1, SingleIs
<1>3. CASE new \in Decoder!Known
  <2>1. queue' = Tail(queue) /\ UNCHANGED <<simple, mixed, result>>
      BY <1>2, <1>3 DEF Decoder!Learn
  <2>2. /\ UNCHANGED <<Decoder!Known, Items(simple), Items(mixed)>>
        /\ Items(queue)' = Items(Tail(queue))
      BY <2>1 DEF Decoder!Known, Items
  <2>3. PartsShape'
      BY <1>1, <2>1, <2>2 DEF PartsShape, Decoder!Single
  <2>4. ASSUME NEW fragment \in Fragments, {fragment} \in scanned'
        PROVE  fragment \in Decoder!Known' \/ Decoder!Part({fragment}) \in Items(queue)'
    <3>1. Decoder!Part({fragment}) = part => fragment = new
        BY <1>2 DEF Decoder!Part
    <3> QED
        BY <1>1, <1>3, <2>2, <2>4, <3>1 DEF PartsInv
  <2>5. ASSUME ~full', NEW mix \in scanned', NEW fragment \in mix PROVE Kept(mix, fragment)'
      BY <1>1, <1>2, <1>3, <2>2, <2>5 DEF PartsInv, Kept
  <2> QED
      BY <1>1, <2>1, <2>2, <2>3, <2>4, <2>5 DEF PartsInv, MixesAreMixed, Decoder!Single
<1>4. CASE new \notin Decoder!Known
  <2>1. simple' = Append(simple, part)
      BY <1>2, <1>4 DEF Decoder!Learn
  <2>2. simple' \in Seq(Wholes) /\ Items(simple)' = Items(simple) \cup {part}
    <3>1. simple \in Seq(Wholes)
        BY <1>1 DEF PartsShape
    <3>2. simple' \in Seq(Wholes) /\ Items(simple') = Items(simple) \cup {part}
        BY <1>1, <2>1, <3>1, ItemsOfAppend
    <3> QED
        BY <3>2 DEF Items
  <2>3. Decoder!Known' = Decoder!Known \cup {new}
      BY <1>2, <2>2 DEF Decoder!Known, Items
  <2>4. \A x \in Items(simple)' : Decoder!Single(x)
      BY <1>1, <2>2 DEF PartsShape
  <2>5. CASE Decoder!Known' = Fragments
    <3>1. result' = Decoder!Finish(simple') /\ queue' = Tail(queue) /\ mixed' = mixed
        BY <1>2, <1>4, <2>5 DEF Decoder!Learn
    <3>2. \A x \in Items(simple') : x.data = x.indexes
        BY <2>2, ItemsOf DEF Wholes, Decoder!Part
    <3>3. result' = meta
        BY <3>1, <3>2 DEF Decoder!Finish, Items
    <3>4. PartsShape'
        BY <1>1, <2>2, <2>4, <3>1, <3>3 DEF PartsShape, Decoder!Single
    <3>5. ASSUME NEW mix \in scanned', NEW fragment \in mix PROVE fragment \in Decoder!Known'
        BY <1>1, <2>5 DEF PartsShape
    <3> QED
        BY <1>1, <2>5, <3>3, <3>4, <3>5, FountainFacts DEF PartsInv, Kept
  <2>6. CASE Decoder!Known' # Fragments
    <3>1. result' = None /\ queue' = Decoder!Sorted(part).queue /\ mixed' = Decoder!Sorted(part).mixed
        BY <1>2, <1>4, <2>6 DEF Decoder!Learn
    <3>2. /\ Decoder!Sorted(part) \in Lists
          /\ SortedBy(part, Len(mixed), Decoder!Sorted(part))
        BY <1>1, SortedFacts DEF PartsShape, Listed
    <3>3. mixed' \in Seq(Wholes) /\ queue' \in Seq(Wholes)
        BY <3>1, <3>2 DEF Lists
    <3>4. /\ \A x \in Items(mixed)' : ~Decoder!Single(x) /\ \E mix \in Items(mixed) : x = Decoder!Reduce(mix, part)
          /\ \A mix \in Items(mixed) : Decoder!Reduce(mix, part) \in Items(mixed)' \cup Items(queue)'
          /\ Items(Tail(queue)) \subseteq Items(queue)'
          /\ Items(mixed) \subseteq Wholes
      <4>1. /\ \A i \in 1 .. Len(mixed) : mixed[i] \in Items(mixed)
            /\ \A x \in Items(mixed) : \E i \in 1 .. Len(mixed) : x = mixed[i]
            /\ Items(mixed) \subseteq Wholes
          BY <1>1, ItemsOf DEF PartsShape
      <4>2. Items(mixed)' = Items(Decoder!Sorted(part).mixed) /\ Items(queue)' = Items(Decoder!Sorted(part).queue)
          BY <3>1 DEF Items
      <4> QED
          BY <3>2, <4>1, <4>2 DEF SortedBy
    <3>5. PartsShape'
        BY <1>1, <2>2, <2>4, <3>1, <3>3 DEF PartsShape, Decoder!Single
    <3>6. MixesAreMixed'
      <4>1. ASSUME NEW x \in Items(mixed)'
            PROVE  x.indexes # {} /\ ~Decoder!Single(x) /\ x.indexes \cap Decoder!Known' = {}
        <5>1. PICK mix \in Items(mixed) : x = Decoder!Reduce(mix, part)
            BY <3>4
        <5>2. mix \in Wholes /\ mix.indexes # {} /\ mix.indexes # {new} /\ mix.indexes \cap Decoder!Known = {}
            BY <1>1, <1>2, <3>4 DEF MixesAreMixed, Decoder!Single
        <5>3. x.indexes = mix.indexes \ {new}
            BY <1>1, <1>2, <5>1, <5>2, ReduceWhole
        <5> QED
            BY <2>3, <3>4, <5>2, <5>3
      <4> QED
          BY <4>1 DEF MixesAreMixed, Decoder!Single
    <3>7. ASSUME NEW fragment \in Fragments, {fragment} \in scanned'
          PROVE  fragment \in Decoder!Known' \/ Decoder!Part({fragment}) \in Items(queue)'
      <4>1. Decoder!Part({fragment}) = part => fragment = new
          BY <1>2 DEF Decoder!Part
      <4> QED
          BY <1>1, <2>3, <3>4, <3>7, <4>1 DEF PartsInv
    <3>8. ASSUME ~full', NEW mix \in scanned', NEW fragment \in mix PROVE Kept(mix, fragment)'
      <4>1. Kept(mix, fragment)
          BY <1>1, <3>8 DEF PartsInv
      <4>2. CASE fragment \in Decoder!Known \/ fragment = new
          BY <2>3, <4>2 DEF Kept
      <4>3. ASSUME NEW h \in Items(mixed), fragment \in h.indexes, h.indexes \subseteq mix, fragment # new
            PROVE  Kept(mix, fragment)'
        <5>1. fragment \in Decoder!Reduce(h, part).indexes /\ Decoder!Reduce(h, part).indexes \subseteq mix
            BY <1>1, <1>2, <3>4, <4>3, ReduceWhole
        <5> QED
            BY <3>4, <5>1 DEF Kept
      <4>4. ASSUME NEW h \in Items(Tail(queue)), fragment \in h.indexes, h.indexes \subseteq mix
            PROVE  Kept(mix, fragment)'
          BY <3>4, <4>4 DEF Kept
      <4> QED
          BY <1>1, <1>2, <4>1, <4>2, <4>3, <4>4 DEF Kept
    <3> QED
        BY <2>6, <3>5, <3>6, <3>7, <3>8 DEF PartsInv
  <2> QED
      BY <2>5, <2>6
<1> QED
    BY <1>3, <1>4

(* A mix is reduced and then reduces the others: what it takes out of them  *)
(* it holds itself.                                                         *)
LEMMA PartsMixed ==
    ASSUME PartsInv, queue # <<>>, result = None, Decoder!Mix(Head(queue)), UNCHANGED <<meta, scanned>>
    PROVE  PartsInv'
<1> DEFINE part == Head(queue)
           reduced == Decoder!Reduced(part, simple \o mixed)
<1>1. /\ part \in Wholes /\ Tail(queue) \in Seq(Wholes) /\ Items(queue) = {part} \cup Items(Tail(queue))
      /\ ~Decoder!Single(part) /\ UNCHANGED <<simple, seen, result, meta, scanned>> /\ meta \in Messages
      /\ PartsShape /\ MixesAreMixed
    BY ItemsOfTail DEF PartsInv, PartsShape, Decoder!Mix
<1>2. UNCHANGED <<Decoder!Known, Items(simple)>>
    BY <1>1 DEF Decoder!Known, Items
<1>3. /\ reduced \in Wholes /\ reduced.indexes \subseteq part.indexes
      /\ reduced.indexes \cap Decoder!Known = {}
      /\ \A mix \in Items(mixed) : ~(mix.indexes \subseteq reduced.indexes)
      /\ \A fragment \in part.indexes \ reduced.indexes :
            \/ fragment \in Decoder!Known
            \/ \E mix \in Items(mixed) : fragment \in mix.indexes /\ mix.indexes \subseteq part.indexes
    BY <1>1, MixReduced
<1>4. ASSUME NEW fragment \in Fragments, {fragment} \in scanned'
      PROVE  fragment \in Decoder!Known' \/ Decoder!Part({fragment}) \in Items(Tail(queue))
  <2>1. Decoder!Part({fragment}) # part
      BY <1>1, SingleIs DEF Decoder!Part
  <2> QED
      BY <1>1, <1>2, <1>4, <2>1 DEF PartsInv
(* What is still held of a part that was queued is within the mixes, but for*)
(* what is left of it.                                                      *)
<1>5. ASSUME ~full, NEW mix \in scanned, NEW fragment \in mix
      PROVE  \/ fragment \in Decoder!Known
             \/ fragment \in reduced.indexes /\ reduced.indexes \subseteq mix
             \/ \E x \in Items(mixed) \cup Items(Tail(queue)) : fragment \in x.indexes /\ x.indexes \subseteq mix
  <2>1. Kept(mix, fragment)
      BY <1>5 DEF PartsInv
  <2>2. CASE fragment \in part.indexes /\ part.indexes \subseteq mix
      BY <1>3, <2>2
  <2> QED
      BY <1>1, <2>1, <2>2 DEF Kept
<1>6. CASE reduced.indexes = {} /\ queue' = Tail(queue) /\ UNCHANGED <<mixed, full>>
  <2>1. Items(queue)' = Items(Tail(queue)) /\ Items(mixed)' = Items(mixed)
      BY <1>6 DEF Items
  <2>2. PartsShape'
      BY <1>1, <1>2, <1>6 DEF PartsShape, Decoder!Single
  <2>3. ASSUME ~full', NEW mix \in scanned', NEW fragment \in mix PROVE Kept(mix, fragment)'
      BY <1>1, <1>2, <1>5, <1>6, <2>1, <2>3 DEF Kept
  <2> QED
      BY <1>1, <1>2, <1>4, <2>1, <2>2, <2>3 DEF PartsInv, MixesAreMixed, Decoder!Single
<1>7. CASE Decoder!Single(reduced) /\ queue' = Append(Tail(queue), reduced) /\ UNCHANGED <<mixed, full>>
  <2>1. /\ Items(queue)' = Items(Tail(queue)) \cup {reduced} /\ Items(mixed)' = Items(mixed)
        /\ queue' \in Seq(Wholes)
    <3>1. Items(queue') = Items(Tail(queue)) \cup {reduced} /\ queue' \in Seq(Wholes)
        <4>1. reduced \in Wholes /\ Tail(queue) \in Seq(Wholes) /\ queue' = Append(Tail(queue), reduced)
            BY <1>1, <1>3, <1>7
        <4> QED
            BY <4>1, ItemsOfAppend
    <3> QED
        BY <3>1, <1>7 DEF Items
  <2>2. PartsShape'
      BY <1>1, <1>2, <1>7, <2>1 DEF PartsShape, Decoder!Single
  <2>3. ASSUME ~full', NEW mix \in scanned', NEW fragment \in mix PROVE Kept(mix, fragment)'
      BY <1>1, <1>2, <1>5, <1>7, <2>1, <2>3 DEF Kept
  <2> QED
      BY <1>1, <1>2, <1>4, <2>1, <2>2, <2>3 DEF PartsInv, MixesAreMixed, Decoder!Single
<1>8. CASE queue' = Tail(queue) /\ full' = TRUE /\ UNCHANGED mixed
  <2>1. Items(queue)' = Items(Tail(queue)) /\ Items(mixed)' = Items(mixed)
      BY <1>8 DEF Items
  <2>2. PartsShape'
      BY <1>1, <1>2, <1>8 DEF PartsShape, Decoder!Single
  <2> QED
      BY <1>1, <1>2, <1>4, <1>8, <2>1, <2>2 DEF PartsInv, MixesAreMixed, Decoder!Single
<1>9. CASE /\ reduced.indexes # {} /\ ~Decoder!Single(reduced) /\ full' = full
           /\ queue' = Decoder!Sorted(reduced).queue
           /\ mixed' = Append(Decoder!Sorted(reduced).mixed, reduced)
  <2> DEFINE sorted == Decoder!Sorted(reduced)
  <2>1. sorted \in Lists /\ SortedBy(reduced, Len(mixed), sorted)
      BY <1>1, <1>3, SortedFacts DEF PartsShape, Listed
  <2> HIDE DEF reduced, sorted
  <2>2. /\ mixed' \in Seq(Wholes) /\ Items(mixed') = Items(sorted.mixed) \cup {reduced}
        /\ queue' \in Seq(Wholes)
    <3>1. sorted.mixed \in Seq(Wholes) /\ sorted.queue \in Seq(Wholes)
        BY <2>1 DEF Lists
    <3>2. mixed' = Append(sorted.mixed, reduced) /\ queue' = sorted.queue
        BY <1>9 DEF sorted
    <3> QED
        BY <1>3, <3>1, <3>2, ItemsOfAppend
  <2>3. /\ \A x \in Items(sorted.mixed) :
              ~Decoder!Single(x) /\ \E mix \in Items(mixed) : x = Decoder!Reduce(mix, reduced)
        /\ \A mix \in Items(mixed) : Decoder!Reduce(mix, reduced) \in Items(mixed)' \cup Items(queue)'
        /\ Items(Tail(queue)) \subseteq Items(queue)'
        /\ Items(mixed) \subseteq Wholes
        /\ Items(mixed)' = Items(sorted.mixed) \cup {reduced}
    <3>1. /\ \A i \in 1 .. Len(mixed) : mixed[i] \in Items(mixed)
          /\ \A x \in Items(mixed) : \E i \in 1 .. Len(mixed) : x = mixed[i]
          /\ Items(mixed) \subseteq Wholes
        BY <1>1, ItemsOf DEF PartsShape
    <3>2. Items(mixed)' = Items(mixed') /\ Items(queue)' = Items(sorted.queue)
        BY <1>9 DEF Items, sorted
    <3> QED
        BY <2>1, <2>2, <3>1, <3>2 DEF SortedBy
  <2>4. PartsShape'
      BY <1>1, <1>2, <1>9, <2>2 DEF PartsShape, Decoder!Single
  <2>5. MixesAreMixed'
    <3>1. ASSUME NEW x \in Items(sorted.mixed)
          PROVE  x.indexes # {} /\ ~Decoder!Single(x) /\ x.indexes \cap Decoder!Known = {}
      <4>1. PICK mix \in Items(mixed) : x = Decoder!Reduce(mix, reduced)
          BY <2>3
      <4>2. mix \in Wholes /\ mix.indexes \cap Decoder!Known = {} /\ ~(mix.indexes \subseteq reduced.indexes)
          BY <1>1, <1>3, <2>3 DEF MixesAreMixed
      <4>3. x.indexes = mix.indexes \ reduced.indexes \/ x = mix
          BY <1>3, <4>1, <4>2, ReduceWhole
      <4> QED
          BY <2>3, <4>2, <4>3
    <3> QED
        BY <1>2, <1>3, <1>9, <2>3, <3>1 DEF MixesAreMixed, Decoder!Single
  <2>6. ASSUME ~full', NEW mix \in scanned', NEW fragment \in mix PROVE Kept(mix, fragment)'
    <3>1. CASE fragment \in reduced.indexes /\ reduced.indexes \subseteq mix
        BY <2>3, <3>1 DEF Kept
    <3>2. ASSUME NEW h \in Items(mixed), fragment \in h.indexes, h.indexes \subseteq mix
          PROVE  Kept(mix, fragment)'
      <4>1. h \in Wholes
          BY <2>3
      <4>2. CASE fragment \in reduced.indexes /\ reduced.indexes \subseteq h.indexes
          BY <3>1, <3>2, <4>2
      <4>3. CASE ~(fragment \in reduced.indexes /\ reduced.indexes \subseteq h.indexes)
        <5>1. fragment \in Decoder!Reduce(h, reduced).indexes /\ Decoder!Reduce(h, reduced).indexes \subseteq mix
            BY <1>3, <3>2, <4>1, <4>3, ReduceWhole
        <5> QED
            BY <2>3, <5>1 DEF Kept
      <4> QED
          BY <4>2, <4>3
    <3>3. ASSUME NEW h \in Items(Tail(queue)), fragment \in h.indexes, h.indexes \subseteq mix
          PROVE  Kept(mix, fragment)'
        BY <2>3, <3>3 DEF Kept
    <3>4. CASE fragment \in Decoder!Known
        BY <1>2, <3>4 DEF Kept
    <3> QED
        BY <1>1, <1>5, <1>9, <2>6, <3>1, <3>2, <3>3, <3>4
  <2> QED
      BY <1>1, <1>2, <1>4, <2>3, <2>4, <2>5, <2>6 DEF PartsInv
<1> QED
    BY <1>6, <1>7, <1>8, <1>9 DEF Decoder!Mix

(* Every step of the decoder preserves the inductive invariant.             *)
LEMMA PartsNext == PartsInv /\ [Decoder!Next]_(Decoder!vars) => PartsInv'
<1> SUFFICES ASSUME PartsInv, [Decoder!Next]_(Decoder!vars) PROVE PartsInv'
    OBVIOUS
<1>1. ASSUME NEW message \in Short, Decoder!ReceiveSinglePart(message) PROVE PartsInv'
  <2>1. result' = message /\ UNCHANGED <<meta, simple, mixed, seen, queue, scanned, full>>
      BY <1>1 DEF Decoder!ReceiveSinglePart
  <2>2. UNCHANGED <<Decoder!Known, Items(simple), Items(mixed), Items(queue)>>
      BY <2>1 DEF Decoder!Known, Items
  <2> QED
      BY <2>1, <2>2, FountainFacts DEF PartsInv, PartsShape, Kept, Decoder!Single
<1>2. ASSUME NEW message \in Messages, NEW indexes \in SUBSET Fragments \ {{}}, Decoder!Receive(message, indexes)
      PROVE  PartsInv'
    BY <1>2, PartsReceived
<1>3. CASE Decoder!Process
    BY <1>3, PartsLearned, PartsMixed DEF Decoder!Process
<1>4. CASE Decoder!StartOver
  <2>1. NoParts'
      BY <1>4 DEF Decoder!StartOver, NoParts
  <2> QED
      BY <2>1, PartsStart, PTL
<1>5. CASE UNCHANGED Decoder!vars
  <2>1. UNCHANGED <<meta, simple, mixed, seen, queue, result, scanned, full>>
      BY <1>5 DEF Decoder!vars
  <2>2. UNCHANGED <<Decoder!Known, Items(simple), Items(mixed), Items(queue)>>
      BY <2>1 DEF Decoder!Known, Items
  <2> QED
      BY <2>1, <2>2 DEF PartsInv, PartsShape, MixesAreMixed, Kept, Decoder!Single
<1> QED
    BY <1>1, <1>2, <1>3, <1>4, <1>5 DEF Decoder!Next

(* Between parts nothing is queued: a fragment that a mix gives away is in a*)
(* part held of it alone, which would be simple, or it is known.            *)
LEMMA PartsTell == PartsInv => DecodesAllThatFollows
<1> SUFFICES ASSUME PartsInv PROVE DecodesAllThatFollows
    OBVIOUS
<1>1. Decoder!HoldsWhatWasSent
  <2>1. Items(simple \o mixed \o queue) \subseteq Wholes
    <3>1. simple \o mixed \o queue \in Seq(Wholes)
        BY DEF PartsInv, PartsShape
    <3> QED
        BY <3>1, ItemsOf
  <2>2. result # "mismatch"
      BY FountainFacts DEF PartsInv, PartsShape
  <2> QED
      BY <2>1, <2>2 DEF Decoder!HoldsWhatWasSent, Items, Wholes, Decoder!Part
<1>2. Decoder!AllFragmentsComplete
  <2> SUFFICES ASSUME queue = <<>>, {{fragment} : fragment \in Fragments} \subseteq scanned PROVE result # None
      BY DEF Decoder!AllFragmentsComplete
  <2>1. Items(queue) = {}
      BY ItemsOfFew
  <2>2. Fragments \subseteq Decoder!Known
      BY <2>1 DEF PartsInv
  <2>3. Decoder!Known \subseteq Fragments
      BY KnownIs DEF PartsInv
  <2> QED
      BY <2>2, <2>3 DEF PartsInv
<1>3. Decoder!FindsAllThatFollows
  <2> SUFFICES ASSUME queue = <<>>, result = None, ~full, NEW fragment \in Decoder!Peeled(scanned)
               PROVE  fragment \in Decoder!Known
      BY DEF Decoder!FindsAllThatFollows
  <2>1. Items(queue) = {}
      BY ItemsOfFew
  <2>2. Decoder!Known \in SUBSET Fragments
      BY KnownIs DEF PartsInv
  <2>3. ASSUME NEW mix \in scanned, NEW other \in mix, mix \ {other} \subseteq Decoder!Known
        PROVE  other \in Decoder!Known
    <3>1. SUFFICES ASSUME other \notin Decoder!Known PROVE FALSE
        OBVIOUS
    <3>2. PICK h \in Items(mixed) : other \in h.indexes /\ h.indexes \subseteq mix
        BY <2>1, <3>1 DEF PartsInv, Kept
    <3>3. h.indexes \cap Decoder!Known = {} /\ ~Decoder!Single(h)
        BY DEF PartsInv, MixesAreMixed
    <3>4. h.indexes = {other}
        BY <2>3, <3>2, <3>3
    <3>5. other \in Fragments
        BY DEF PartsInv, PartsShape
    <3> QED
        BY <3>3, <3>4, <3>5 DEF Decoder!Single
  <2> QED
      BY <2>2, <2>3 DEF Decoder!Peeled
<1> QED
    BY <1>1, <1>2, <1>3 DEF DecodesAllThatFollows

(* However many fragments there are and whatever parts of a message are     *)
(* missed, repeated or out of order, what is decoded is what was sent, all  *)
(* plain fragments complete it, and every fragment that the parts received  *)
(* give away is found (ur.ts process; docs/qr-formats.md).                  *)
THEOREM FragmentsAreFound == AllSpec => []DecodesAllThatFollows
<1>1. AllInit => PartsInv
    BY PartsStart DEF AllInit, Decoder!Init, NoParts
<1>2. PartsInv /\ [OfferStep \/ DecoderStep \/ ContentsStep]_all => PartsInv'
  <2>1. [OfferStep \/ DecoderStep \/ ContentsStep]_all => [Decoder!Next]_(Decoder!vars)
      BY DEF OfferStep, DecoderStep, ContentsStep, all, fountainVars, Decoder!vars
  <2> QED
      BY <2>1, PartsNext
<1> QED
    BY <1>1, <1>2, PartsTell, PTL DEF AllSpec
=============================================================================
