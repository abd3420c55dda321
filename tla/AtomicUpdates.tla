--------------------------- MODULE AtomicUpdates ---------------------------
(***************************************************************************)
(* What the wallet's pages expect of an update of the settings             *)
(* (src/src/popup/app.ts, update): it changes what is stored at one        *)
(* moment, whatever other pages are saving, and its caller is told ok      *)
(* exactly when it did.  Modules Purchase, Sale and Endpoint take their    *)
(* updates for single steps; SettingsLock shows that they are.             *)
(*                                                                         *)
(* The settings are, here, the set of the updates that made them.          *)
(***************************************************************************)
CONSTANT Updates

VARIABLES
    applied,   \* the updates in what is stored
    outcome    \* what each update's caller was told; "open" for ever if its page closed

Init == applied = {} /\ outcome = [u \in Updates |-> "open"]

Apply(u) ==
    /\ outcome[u] = "open" /\ u \notin applied
    /\ applied' = applied \cup {u} /\ outcome' = outcome

Answer(u) ==
    /\ outcome[u] = "open"
    /\ outcome' = [outcome EXCEPT ![u] = IF u \in applied THEN "ok" ELSE "failed"]
    /\ applied' = applied

Next == \E u \in Updates : Apply(u) \/ Answer(u)

Spec == Init /\ [][Next]_<<applied, outcome>>
=============================================================================
