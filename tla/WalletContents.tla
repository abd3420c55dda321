-------------------------- MODULE WalletContents --------------------------
(***************************************************************************)
(* The contents of the wallets of several devices, between which backups   *)
(* are carried (src/src/lib/wallet/signer.ts; backup.ts; session.ts).      *)
(* Module Signer has the passwords, the locks and the failures of the same *)
(* requests; here each is one step and changes an open wallet.             *)
(*                                                                         *)
(* Another program may write backups, too: whatever validWalletData lets   *)
(* pass becomes a wallet.                                                  *)
(***************************************************************************)
EXTENDS WalletData

CONSTANTS
    Devices,
    Foreign,     \* backups of other programs
    Keys,        \* private keys the user has, some of which a phrase may derive
    MaxExports,  \* bound on the exported backups
    None

ContentsAssumption ==
    /\ Keys \subseteq Accounts
    /\ Foreign \subseteq WalletDatas /\ \A data \in Foreign : IsFiniteSet(data.imported)
    /\ MaxExports \in Nat
    /\ None \notin WalletDatas

VARIABLES
    wallet,     \* each device's wallet, or None
    backups     \* what was exported so far, and Foreign

vars == <<wallet, backups>>

Init == wallet = [d \in Devices |-> None] /\ backups = Foreign

Has(d) == wallet[d] # None

Becomes(d, data) == wallet' = [wallet EXCEPT ![d] = data] /\ UNCHANGED backups

(* Mutant: the limit is checked after a row too many.                       *)
HasRoomAtLimit(d) == AccountCount(wallet[d]) <= AccountLimit

(* deriveAccounts throws for a wallet over the limit, the signer's handlers *)
(* refuse to add one more row at it.                                        *)
HasRoom(d) == AccountCount(wallet[d]) < AccountLimit

createWallet(d) ==
    /\ ~Has(d)
    /\ \/ \E phrase \in Phrases : Becomes(d, FromPhrase(phrase))
       \/ \E key \in Keys : Becomes(d, FromKey(key)) \/ Becomes(d, KeptUnfit(FromKey(key), key))

(* MaxIndex bounds the run.                                                 *)
addAccount(d) ==
    /\ Has(d) /\ wallet[d].phrase # NoPhrase /\ HasRoom(d)
    /\ NextIndex(wallet[d]) <= MaxIndex
    /\ LET index == NextIndex(wallet[d])
           data  == AddIndex(wallet[d], index)
       IN  Becomes(d, data) \/ Becomes(d, NamedLong(data, index))

importKey(d) ==
    /\ Has(d) /\ HasRoom(d)
    /\ \E key \in Keys \ AccountsOf(wallet[d]) :
          LET data == AddKey(wallet[d], key)
          IN  Becomes(d, data) \/ Becomes(d, KeptUnfit(data, key))

setActive(d) ==
    /\ Has(d)
    /\ \E account \in AccountsOf(wallet[d]) : Becomes(d, [wallet[d] EXCEPT !.active = account])

exportBackup(d) ==
    /\ Has(d) /\ Cardinality(backups \ Foreign) < MaxExports
    /\ backups' = backups \cup {BackupContents(wallet[d], FALSE)}
    /\ UNCHANGED wallet

Restore(d) ==
    /\ ~Has(d)
    /\ \E data \in backups : ValidWalletData(data) /\ \E valid \in Validated(data) : Becomes(d, valid)

Replace(d) ==
    /\ Has(d)
    /\ \E data \in backups : ValidWalletData(data) /\ \E valid \in Validated(data) : Becomes(d, valid)

Merge(d) ==
    /\ Has(d)
    /\ \E data \in backups : /\ ValidWalletData(data)
                             /\ Mergeable(wallet[d], data)
                             /\ Becomes(d, Merged(wallet[d], data))

reset(d) == Has(d) /\ Becomes(d, None)

Next == \E d \in Devices :
    \/ createWallet(d) \/ addAccount(d) \/ importKey(d) \/ setActive(d)
    \/ exportBackup(d) \/ Restore(d) \/ Replace(d) \/ Merge(d) \/ reset(d)

Spec == Init /\ [][Next]_vars

----------------------------------------------------------------------------
(* Properties                                                               *)

TypeOK ==
    /\ wallet \in [Devices -> WalletDatas \cup {None}]
    /\ backups \subseteq WalletDatas

(* Whatever a wallet was made of, its backup can be restored (README.md:215,*)
(* "Restore it on a new device, or merge it into / replace an open wallet").*)
(* A claim: the three rows below are kept and exported, and refused.        *)
ExportsRestore ==
    \A d \in Devices : Has(d) => ValidWalletData(BackupContents(wallet[d], FALSE))

(* A row the signer keeps as it came and a reader refuses: a label of more  *)
(* than 64 characters, a key as "0X" and 64 digits, or an index at which    *)
(* the derivation repeats.                                                  *)
HasUnfitRow(data) ==
    data.longNames # {} \/ data.unfitKeys # {} \/ \E i \in data.hd : i >= IndexSpace

(* No other row, and no way rows come together, makes a backup that is      *)
(* refused: adding, importing, merging and replacing keep to the limit of   *)
(* accounts, to one phrase and to wallets with an account, and a merge      *)
(* drops with a row what a reader would refuse of it (signer.ts:165, 176;   *)
(* backup.ts:130).                                                          *)
ExportsRestoreUnlessUnfit ==
    \A d \in Devices : Has(d) =>
        \/ ValidWalletData(BackupContents(wallet[d], FALSE))
        \/ HasUnfitRow(wallet[d])

(* The account the screens show is one the wallet can sign for, also after  *)
(* merges that drop rows and backups that name an account they lack.        *)
ActiveIsHeld ==
    \A d \in Devices : Has(d) => wallet[d].active \in AccountsOf(wallet[d])

(* Merging any two backups keeps the accounts of both and adds no account   *)
(* twice, in either order (backup.ts:126, "the backup's accounts are        *)
(* added"; test/backup.test.ts:74, "no duplicate keys").                    *)
MergesAgree ==
    \A a, b \in {data \in backups : ValidWalletData(data)} : Mergeable(a, b) =>
        /\ Mergeable(b, a)
        /\ AccountsOf(Merged(a, b)) = AccountsOf(a) \cup AccountsOf(b)
        /\ AccountCount(Merged(a, b)) = Cardinality(AccountsOf(Merged(a, b)))
=============================================================================
