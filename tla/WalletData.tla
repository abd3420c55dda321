----------------------------- MODULE WalletData -----------------------------
(***************************************************************************)
(* The contents of the vault (src/src/lib/wallet/types.ts, WalletData) and *)
(* the pure operations the signer applies to them: deriving the accounts,  *)
(* numbering the next one, reading a backup's contents and merging them.   *)
(*                                                                         *)
(* A private key and its address determine each other, so both are one     *)
(* value here.  Of labels, and of the text a key is kept as, only what a   *)
(* backup's reader refuses is told apart.                                  *)
(***************************************************************************)
EXTENDS Integers, FiniteSets, FiniteSetsExt

CONSTANTS
    Phrases,       \* BIP39 recovery phrases
    RawKeys,       \* private keys that no phrase derives
    Urls,          \* node endpoints that may have a cookie
    NoPhrase,      \* data.mnemonic = null
    NoAccount,     \* data.active = null
    IndexSpace,    \* account indices a SLIP-0010 path tells apart: 2^31 in the code
    MaxIndex,      \* bound on the HD indices a run reaches
    AccountLimit   \* accounts a wallet holds at most: 256 in the code

ASSUME DataAssumption ==
    /\ IndexSpace \in Nat \ {0}
    /\ MaxIndex \in Nat
    /\ AccountLimit \in Nat \ {0}
    /\ NoPhrase \notin Phrases
    /\ NoAccount \notin (Phrases \X (0 .. IndexSpace - 1)) \cup RawKeys

Indices == 0 .. MaxIndex

Accounts == (Phrases \X (0 .. IndexSpace - 1)) \cup RawKeys

WalletDatas ==
    [phrase   : Phrases \cup {NoPhrase},
     hd       : SUBSET Indices,
     imported : SUBSET Accounts,
     active   : Accounts \cup {NoAccount},
     cookies  : SUBSET Urls,
     longNames : SUBSET Indices,   \* with a label of more than 64 characters
     unfitKeys : SUBSET Accounts]  \* imported with such a label, or kept as "0X" and 64 digits

(* Every level of the path is hardened by OR-ing 2^31 into 32 bits, so an   *)
(* index and the index 2^31 above it derive the same key.                   *)
Derive(phrase, index) == <<phrase, index % IndexSpace>>

HdAccounts(phrase, hd) ==
    IF phrase = NoPhrase THEN {} ELSE {Derive(phrase, i) : i \in hd}

AccountsOf(data) == HdAccounts(data.phrase, data.hd) \cup data.imported

AccountCount(data) == Cardinality(data.hd) + Cardinality(data.imported)

(* One above the highest index in use; indices of gaps are not reused.      *)
NextIndex(data) == IF data.hd = {} THEN 0 ELSE Max(data.hd) + 1

FromPhrase(phrase) ==
    [phrase |-> phrase, hd |-> {0}, imported |-> {},
     active |-> Derive(phrase, 0), cookies |-> {}, longNames |-> {}, unfitKeys |-> {}]

FromKey(key) ==
    [phrase |-> NoPhrase, hd |-> {}, imported |-> {key},
     active |-> key, cookies |-> {}, longNames |-> {}, unfitKeys |-> {}]

AddIndex(data, index) ==
    [data EXCEPT !.hd = @ \cup {index}, !.active = Derive(data.phrase, index)]

AddKey(data, key) ==
    [data EXCEPT !.imported = @ \cup {key}, !.active = key]

(* addAccount and importKey keep the label they are sent, of any length; and*)
(* of a key as it was typed they take off "0x" only, although               *)
(* importPrivateKey reads it in lower case.                                 *)
NamedLong(data, index) == [data EXCEPT !.longNames = @ \cup {index}]

KeptUnfit(data, key) == [data EXCEPT !.unfitKeys = @ \cup {key}]

----------------------------------------------------------------------------
(* Backups                                                                  *)

(* Node cookies travel only when the user opts in.                          *)
BackupContents(data, withCookies) ==
    IF withCookies THEN data ELSE [data EXCEPT !.cookies = {}]

(* The contents a decrypted backup must have before the signer uses them.   *)
ValidWalletData(data) ==
    /\ data.hd # {} => data.phrase # NoPhrase
    /\ \A i \in data.hd : i < IndexSpace
    /\ AccountCount(data) \in 1 .. AccountLimit
    /\ data.longNames = {} /\ data.unfitKeys = {}

(* What validWalletData may return: an active account the wallet does not   *)
(* hold is replaced by one it does (the first of the list in the code; the  *)
(* model keeps no order, so any of them).                                   *)
Validated(data) ==
    {[data EXCEPT !.active = account] :
        account \in IF data.active \in AccountsOf(data) THEN {data.active}
                    ELSE AccountsOf(data)}

MergedPhrase(current, incoming) ==
    IF current.phrase # NoPhrase THEN current.phrase ELSE incoming.phrase

(* Mutant: the keys of both are kept although the phrase derives them.      *)
MergedRows(current, incoming) ==
    [current EXCEPT !.phrase = MergedPhrase(current, incoming), !.hd = @ \cup incoming.hd,
                    !.imported = @ \cup incoming.imported,
                    !.longNames = @ \cup (incoming.longNames \ current.hd),
                    !.unfitKeys = @ \cup (incoming.unfitKeys \ current.imported)]

Merged(current, incoming) ==
    LET phrase == MergedPhrase(current, incoming)
        hd     == current.hd \cup incoming.hd
    IN  [phrase   |-> phrase,
         hd       |-> hd,
         imported |-> (current.imported \cup incoming.imported) \ HdAccounts(phrase, hd),
         active   |-> IF current.active # NoAccount \/ phrase = NoPhrase \/ hd = {}
                      THEN current.active ELSE Derive(phrase, Min(hd)),
         cookies  |-> current.cookies \cup incoming.cookies,
         (* The open wallet's rows come first.                              *)
         longNames |-> current.longNames \cup (incoming.longNames \ current.hd),
         unfitKeys |-> (current.unfitKeys \cup (incoming.unfitKeys \ current.imported))
                       \ HdAccounts(phrase, hd)]

(* A wallet holds one phrase and AccountLimit accounts; mergeWalletData     *)
(* throws when the union would not fit.                                     *)
Mergeable(current, incoming) ==
    /\ incoming.phrase \in {NoPhrase, MergedPhrase(current, incoming)}
    /\ AccountCount(Merged(current, incoming)) <= AccountLimit
=============================================================================
