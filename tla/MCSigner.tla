------------------------------ MODULE MCSigner ------------------------------
(***************************************************************************)
(* Signer for TLC.  Each run offers the requests that can interfere in the *)
(* question it asks.                                                       *)
(***************************************************************************)
EXTENDS Signer, TLC

CONSTANTS page1, page2, own, other, words, key1, url

Wallet(data) == [password |-> own, data |-> data]

(* A backup of a wallet with one raw key, under its own password.           *)
KeyBackup == [password |-> other, data |-> FromKey(key1)]

(* One that a reader refuses.                                               *)
UnfitBackup == [password |-> other, data |-> KeptUnfit(FromKey(key1), key1)]

Request(type) == [type |-> type]

(* Every kind of request: two ways to create a wallet, right and wrong      *)
(* passwords, and a backup to merge or to replace the wallet with.          *)
AllRequests ==
    {[type |-> "createWallet", password |-> own, secret |-> words],
     [type |-> "createWallet", password |-> other, secret |-> key1],
     [type |-> "createWallet", password |-> own, secret |-> Malformed],
     [type |-> "unlock", password |-> own],
     [type |-> "unlock", password |-> other],
     Request("addAccount"), Request("getState"), Request("reset"), Request("lock"),
     [type |-> "importKey", key |-> key1],
     [type |-> "setActive", account |-> key1],
     [type |-> "setNodeCookie", url |-> url, present |-> TRUE],
     [type |-> "nodeAuthorization", url |-> url],
     [type |-> "exportBackup", password |-> own],
     [type |-> "exportBackup", password |-> other],
     [type |-> "exportSeedQR", password |-> own],
     [type |-> "transferSend", password |-> own, offerOk |-> TRUE],
     [type |-> "transferSend", password |-> own, offerOk |-> FALSE],
     [type |-> "importBackup", mode |-> "merge", password |-> other,
      currentPassword |-> other, backup |-> KeyBackup],
     [type |-> "importBackup", mode |-> "replace", password |-> other,
      currentPassword |-> own, backup |-> KeyBackup],
     [type |-> "importBackup", mode |-> "replace", password |-> own,
      currentPassword |-> other, backup |-> KeyBackup],
     [type |-> "importBackup", mode |-> "replace", password |-> other,
      currentPassword |-> own, backup |-> UnfitBackup],
     Request("transferOffer"),
     [type |-> "transferOpen", matches |-> TRUE],
     [type |-> "signTransfer", account |-> key1]}

(* Unlocking an existing wallet while the idle alarm is due.                *)
UnlockRequests ==
    {[type |-> "createWallet", password |-> own, secret |-> words],
     [type |-> "unlock", password |-> own],
     Request("lock"), Request("getState")}

Symmetry == Permutations({page1, page2})
=============================================================================
