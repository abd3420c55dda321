----------------------------- MODULE MCTransfer -----------------------------
(***************************************************************************)
(* The stages of moving a wallet to another device, for TLC: the offer and *)
(* the one transfer it opens, the parts its animated code is shown in, and *)
(* what becomes of the wallets' contents.  A stage hands the next one a    *)
(* text; they share no variable, so a behaviour runs one of them.          *)
(***************************************************************************)
EXTENDS Pairing, TLC

CONSTANTS
    Messages, Short, Fragments, MixedFactor,      \* Fountain
    words, otherWords, key1, NoPhrase, NoAccount, \* WalletContents
    Phrases, RawKeys, Keys, Urls,
    IndexSpace, MaxIndex, AccountLimit, Devices, Foreign, MaxExports

VARIABLES
    stage,
    meta, simple, mixed, seen, queue, result, scanned, full,
    wallet, backups

fountainVars == <<meta, simple, mixed, seen, queue, result, scanned, full>>
contentsVars == <<wallet, backups>>
all          == <<stage, vars, fountainVars, contentsVars>>

Contents == INSTANCE WalletContents
Decoder  == INSTANCE Fountain

ASSUME TransferAssumption ==
    /\ Contents!DataAssumption /\ Contents!ContentsAssumption
    /\ Decoder!FountainAssumption

(* A key no phrase derives and one that the first phrase derives.           *)
UserKeys == {key1, <<words, 1>>}

Data(phrase, hd, imported, active) ==
    [phrase |-> phrase, hd |-> hd, imported |-> imported, active |-> active, cookies |-> {},
     longNames |-> {}, unfitKeys |-> {}]

(* Backups with a gap, the last index a path has and a repeated account;    *)
(* with another phrase and an account they lack; with an index beyond the   *)
(* last; with too many accounts and with none; without a phrase; with a     *)
(* label that is too long.                                                  *)
ForeignBackups ==
    {Data(words, {IndexSpace - 1}, {<<words, IndexSpace - 1>>}, NoAccount),
     Data(otherWords, {1}, {}, key1), Data(words, {IndexSpace}, {}, NoAccount),
     Data(words, {0, 1}, {key1, <<otherWords, 0>>}, NoAccount), Data(NoPhrase, {}, {}, NoAccount),
     Data(NoPhrase, {0}, {key1}, key1),
     [Data(words, {0}, {}, <<words, 0>>) EXCEPT !.longNames = {0}]}

AllInit ==
    /\ stage \in {"offer", "parts", "contents"}
    /\ Init /\ Decoder!Init
    /\ IF stage = "contents" THEN Contents!Init ELSE wallet = None /\ backups = None

OfferStep    == stage = "offer" /\ Next /\ UNCHANGED <<stage, fountainVars, contentsVars>>
DecoderStep  == stage = "parts" /\ Decoder!Next /\ UNCHANGED <<stage, vars, contentsVars>>
ContentsStep == stage = "contents" /\ Contents!Next /\ UNCHANGED <<stage, vars, fountainVars>>

AllSpec == AllInit /\ [][OfferStep \/ DecoderStep \/ ContentsStep]_all

Symmetry == Permutations(Messages) \cup Permutations(Devices)

----------------------------------------------------------------------------
(* What the modules state of the stages.                                    *)

(* The code a page waits with is the offer the signer holds; its secret is  *)
(* used once, and erased when it was (signer.ts:295-308), whichever pages   *)
(* scan what, close or lock.                                                *)
OneOffer == ShownIsHeld /\ OneAttempt /\ UsedIsErased

(* The decoder holds only what was sent, finds every fragment that what it  *)
(* received gives away, and is done when it has all.                        *)
DecodesAllThatFollows ==
    Decoder!HoldsWhatWasSent /\ Decoder!AllFragmentsComplete /\ Decoder!FindsAllThatFollows

(* A backup of any wallet can be restored (README.md:215); a claim.         *)
ExportsRestore == stage = "contents" => Contents!ExportsRestore

(* It can, unless it has a row that the signer keeps as it came and a       *)
(* backup's reader refuses (backup.ts:86, 99, 106; slip10.ts:28).           *)
ExportsRestoreUnlessUnfit == stage = "contents" => Contents!ExportsRestoreUnlessUnfit

(* Merging keeps the accounts of both wallets and each of them once, and    *)
(* the active account is always one of those held.                          *)
MergesAgree == stage = "contents" => Contents!MergesAgree /\ Contents!ActiveIsHeld
=============================================================================
