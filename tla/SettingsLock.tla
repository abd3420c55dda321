---------------------------- MODULE SettingsLock ----------------------------
(***************************************************************************)
(* Updates of the stored settings by several pages (src/src/popup/app.ts,  *)
(* withSettingsLock, update; settings.ts, loadSettings, saveSettings).  A  *)
(* page runs its updates one behind the other; each takes a lock that the  *)
(* pages of the browser share and that is granted in the order of the      *)
(* requests, loads, changes and saves.  Reads of the settings take no lock.*)
(*                                                                         *)
(* A line, of a page or of the lock, is the set of those that stand in it; *)
(* each knows who still stands there before it.  A settings object is the  *)
(* set of the updates that made it.                                        *)
(***************************************************************************)
CONSTANTS
    Pages, Updates,
    Locks            \* navigator.locks exists

LockAssumption == Locks \in BOOLEAN /\ (Locks \/ \A p, q \in Pages : p = q)

VARIABLES
    stored,    \* the settings in storage
    known,     \* each page's copy, settings
    reading,   \* what its refresh has read and not yet taken, NotReading at other times
    queue,     \* each page's updates that have not ended, updateQueue
    earlier,   \* those of them that each update waits for
    at,        \* where each update is
    loaded,    \* what it loaded
    locks,     \* the updates that have the lock or have requested it
    ahead      \* those of them that each waits for

lines == <<queue, earlier, locks, ahead>>
vars  == <<stored, known, reading, queue, earlier, at, loaded, locks, ahead>>

NotReading == {{}}

Init ==
    /\ stored = {} /\ known = [p \in Pages |-> {}]
    /\ reading = [p \in Pages |-> NotReading]
    /\ queue = [p \in Pages |-> {}] /\ earlier = [u \in Updates |-> {}]
    /\ at = [u \in Updates |-> "unasked"]
    /\ loaded = [u \in Updates |-> {}]
    /\ locks = {} /\ ahead = [u \in Updates |-> {}]

Granted(u) == ahead[u] = {}

(* Those who leave a line are no longer waited for.                         *)
Behind(gone, line) == [u \in Updates |-> line[u] \ gone]

(* An update is asked for and waits for the page's earlier ones.            *)
update(p, u) ==
    /\ at[u] = "unasked" /\ at' = [at EXCEPT ![u] = "queued"]
    /\ earlier' = [earlier EXCEPT ![u] = queue[p]]
    /\ queue' = [queue EXCEPT ![p] = @ \cup {u}]
    /\ UNCHANGED <<stored, known, reading, loaded, locks, ahead>>

Begin(p, u) ==
    /\ u \in queue[p] /\ earlier[u] = {}
    /\ at[u] = "queued" /\ at' = [at EXCEPT ![u] = "waiting"]
    /\ ahead' = [ahead EXCEPT ![u] = locks]
    /\ locks' = IF Locks THEN locks \cup {u} ELSE locks
    /\ UNCHANGED <<stored, known, reading, queue, earlier, loaded>>

Load(p, u) ==
    /\ u \in queue[p] /\ at[u] = "waiting" /\ Granted(u)
    /\ at' = [at EXCEPT ![u] = "loaded"] /\ loaded' = [loaded EXCEPT ![u] = stored]
    /\ UNCHANGED <<stored, known, reading, lines>>

Write(p, u) ==
    /\ u \in queue[p] /\ at[u] = "loaded" /\ at' = [at EXCEPT ![u] = "written"]
    /\ stored' = loaded[u] \cup {u}
    /\ UNCHANGED <<known, reading, loaded, lines>>

(* The update leaves its page's queue and the lock.                         *)
End(p, u, outcome) ==
    /\ at' = [at EXCEPT ![u] = outcome]
    /\ queue' = [queue EXCEPT ![p] = @ \ {u}] /\ locks' = locks \ {u}
    /\ earlier' = Behind({u}, earlier) /\ ahead' = Behind({u}, ahead)

Saved(p, u) ==
    /\ u \in queue[p] /\ at[u] = "written"
    /\ known' = [known EXCEPT ![p] = loaded[u] \cup {u}]
    /\ End(p, u, "ok") /\ UNCHANGED <<stored, reading, loaded>>

(* Mutant: a failed update keeps the lock.                                  *)
FailsHolding(p, u) ==
    /\ u \in queue[p]
    /\ (at[u] = "waiting" /\ Granted(u)) \/ at[u] = "loaded"
    /\ at' = [at EXCEPT ![u] = "failed"] /\ queue' = [queue EXCEPT ![p] = @ \ {u}]
    /\ earlier' = Behind({u}, earlier)
    /\ UNCHANGED <<stored, known, reading, loaded, locks, ahead>>

(* Mutant: a refused save is swallowed.                                     *)
FailsSilently(p, u) ==
    /\ u \in queue[p]
    /\ (at[u] = "waiting" /\ Granted(u)) \/ at[u] = "loaded"
    /\ End(p, u, "ok") /\ UNCHANGED <<stored, known, reading, loaded>>

(* The load fails, the change throws, or storage refuses.                   *)
Fails(p, u) ==
    /\ u \in queue[p]
    /\ (at[u] = "waiting" /\ Granted(u)) \/ at[u] = "loaded"
    /\ End(p, u, "failed") /\ UNCHANGED <<stored, known, reading, loaded>>

(* refresh: the settings are read without the lock and taken later.         *)
Refresh(p) ==
    /\ reading[p] = NotReading /\ reading' = [reading EXCEPT ![p] = stored]
    /\ UNCHANGED <<stored, known, at, loaded, lines>>

Refreshed(p) ==
    /\ reading[p] # NotReading /\ reading' = [reading EXCEPT ![p] = NotReading]
    /\ known' = [known EXCEPT ![p] = reading[p]]
    /\ UNCHANGED <<stored, at, loaded, lines>>

(* A page closes, whether it holds the lock, waits for it or has saved      *)
(* without being told, and is opened again.                                 *)
Reopen(p) ==
    /\ queue' = [queue EXCEPT ![p] = {}] /\ locks' = locks \ queue[p]
    /\ at' = [u \in Updates |-> IF u \in queue[p] THEN "gone" ELSE at[u]]
    /\ known' = [known EXCEPT ![p] = stored] /\ reading' = [reading EXCEPT ![p] = NotReading]
    /\ earlier' = Behind(queue[p], earlier) /\ ahead' = Behind(queue[p], ahead)
    /\ UNCHANGED <<stored, loaded>>

Settles(p, u) == Load(p, u) \/ Write(p, u) \/ Saved(p, u) \/ Fails(p, u)

Next == \E p \in Pages :
    \/ \E u \in Updates : update(p, u) \/ Begin(p, u) \/ Settles(p, u)
    \/ Refresh(p) \/ Refreshed(p) \/ Reopen(p)

(* Promises run, storage answers or refuses, the browser hands locks on.    *)
Fairness == \A p \in Pages, u \in Updates : WF_vars(Begin(p, u)) /\ WF_vars(Settles(p, u))

Spec == Init /\ [][Next]_vars /\ Fairness

----------------------------------------------------------------------------
(* Properties                                                               *)

TypeOK ==
    /\ stored \subseteq Updates /\ known \in [Pages -> SUBSET Updates]
    /\ reading \in [Pages -> (SUBSET Updates) \cup {NotReading}]
    /\ queue \in [Pages -> SUBSET Updates] /\ locks \subseteq UNION {queue[p] : p \in Pages}
    /\ earlier \in [Updates -> SUBSET Updates] /\ ahead \in [Updates -> SUBSET Updates]
    /\ at \in [Updates -> {"unasked", "queued", "waiting", "loaded", "written", "ok", "failed", "gone"}]
    /\ loaded \in [Updates -> SUBSET Updates]

Abstract == INSTANCE AtomicUpdates WITH
    applied <- stored,
    outcome <- [u \in Updates |-> IF at[u] \in {"ok", "failed"} THEN at[u] ELSE "open"]

(* No page's save undoes another's, closed pages and failing storage        *)
(* included, and "ok" and "failed" are true (app.ts update; test/           *)
(* wallet-ui-e2e.test.ts:525, "a locked update re-reads storage and         *)
(* preserves another page's recovery bytes").                               *)
ImplementsAtomicUpdates == Abstract!Spec

(* A page's updates are saved in the order it asked for them.               *)
SavedInOrder ==
    \A u \in Updates : earlier[u] # {} => u \notin stored

(* A page never goes by what is not saved: a record storage refused, or one *)
(* whose page closed before the save, is on no page's list (app.ts:151-153, *)
(* the copy is taken after the save; refresh reads what is saved).          *)
ShownIsStored == \A p \in Pages : known[p] \subseteq stored

(* Every update ends, unless its page closes: none waits for ever behind    *)
(* another one's page, closed or failing.                                   *)
UpdatesEnd == \A u \in Updates : [](at[u] = "queued" => <>(at[u] \in {"ok", "failed", "gone"}))
=============================================================================
