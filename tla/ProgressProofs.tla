--------------------------- MODULE ProgressProofs ---------------------------
(***************************************************************************)
(* Four of the parts that wait for an answer, for any number of pages,     *)
(* updates, cameras, requests and prompts, whatever is fair and what is    *)
(* not: the final answers of a status check are true, updates of the       *)
(* settings are atomic, a screen takes one text at most, and a request     *)
(* that finds the signer locked is done once at most.                      *)
(*                                                                         *)
(* A status check that has seen a nonce spent may still trust that when it *)
(* reads the transaction again.  An update that holds the lock has loaded  *)
(* what is stored.  A prompt that ends takes all who wait for it along.    *)
(***************************************************************************)
EXTENDS MCProgress, TLAPS

(* Only a spent nonce sends a check back to the transaction.                *)
AgainIsSpent == at = "again" => spent # "nobody"

Inv == TypeOK /\ FinalAnswersAreTrue /\ AgainIsSpent

(* The inductive invariant holds initially and across every step.           *)
LEMMA InvHolds == Steps => []Inv
<1>1. AllInit => Inv
    BY DEF AllInit, Init, Inv, TypeOK, FinalAnswersAreTrue, AgainIsSpent, Reads, Results
<1>2. [AllNext]_all => [Next]_vars
    BY DEF AllNext, StatusStep, LockStep, ScannerStep, SignerStep, PromptStep, Rest, all, vars
<1>3. Inv /\ [Next]_vars => Inv'
  <2> SUFFICES ASSUME Inv, [Next]_vars PROVE Inv'
      OBVIOUS
  <2> USE DEF Inv, TypeOK, FinalAnswersAreTrue, AgainIsSpent, Reads, Results
  <2>1. CASE Check
    <3> USE DEF asked, chain, Return, GoOn
    <3>1. CASE ReadTransaction \/ ReadAccountUnknown
        BY <3>1 DEF ReadTransaction, ReadAccountUnknown
    <3>2. CASE ReadMempool \/ ReadAccount
        BY <3>2 DEF ReadMempool, ReadAccount
    <3>3. CASE ReadAgain \/ ReadFails
        BY <3>3 DEF ReadAgain, ReadFails
    <3> QED
        BY <2>1, <3>1, <3>2, <3>3 DEF Check
  <2>2. CASE ShareListing
      BY <2>2 DEF ShareListing, asked, chain
  <2>3. CASE Mine \/ Learn \/ Forget
      BY <2>3 DEF Mine, Learn, Forget, asked
  <2>4. CASE UNCHANGED vars
      BY <2>4 DEF vars
  <2> QED
      BY <2>1, <2>2, <2>3, <2>4 DEF Next
<1> QED
    BY <1>1, <1>2, <1>3, PTL DEF Steps

(* What node.ts sentStatus calls included, replaced or spent is so, when it *)
(* returns and for good, however the node moved between its four reads.     *)
THEOREM AnswersAreTrue == Steps => []FinalAnswersAreTrue
<1>1. Inv => FinalAnswersAreTrue
    BY DEF Inv
<1> QED
    BY <1>1, InvHolds, PTL

----------------------------------------------------------------------------
(* Updates of the settings                                                  *)

Open  == {"queued", "waiting", "loaded", "written"}
Begun == {"waiting", "loaded", "written"}

(* The lines.  Of two in one line, one waits for the other; only the first  *)
(* of its page's line has begun, and only the first of the lock's has it.   *)
PageLines ==
    /\ \A p, q \in Pages : updates[p] \cap updates[q] # {} => p = q
    /\ \A p \in Pages : \A u, v \in updates[p] : u = v \/ u \in earlier[v] \/ v \in earlier[u]
    /\ \A p \in Pages : \A u \in updates[p] : place[u] \in Open /\ earlier[u] \subseteq updates[p]
    /\ \A u \in Updates : place[u] \in Open => \E p \in Pages : u \in updates[p]
    /\ \A u \in Updates : earlier[u] # {} => place[u] = "queued"

LockLine ==
    /\ \A u, v \in locks : u = v \/ u \in ahead[v] \/ v \in ahead[u]
    /\ \A u \in Updates : /\ ahead[u] \subseteq locks
                          /\ place[u] \in {"loaded", "written"} => ahead[u] = {}
                          /\ u \in locks => place[u] \in Begun
                          /\ Locks /\ place[u] \in Begun => u \in locks

(* Who has loaded will write to what is stored, who has written wrote it;   *)
(* what is stored is of those that were told so, or not yet, or not at all. *)
HolderKnows ==
    \A u \in Updates : /\ place[u] = "loaded" => loaded[u] = stored
                       /\ place[u] = "written" => stored = loaded[u] \cup {u}
                       /\ u \in stored => place[u] \in {"written", "ok", "gone"}
                       /\ place[u] = "ok" => u \in stored

ReadIsStored == \A p \in Pages : reading[p] # Lock!NotReading => reading[p] \subseteq stored

LockInv ==
    /\ Lock!TypeOK
    /\ PageLines
    /\ LockLine
    /\ HolderKnows
    /\ ReadIsStored
    /\ Lock!ShownIsStored

(* At most one update has loaded or written.                                *)
LEMMA OneHolds ==
    ASSUME LockInv, NEW u \in Updates, NEW v \in Updates,
           place[u] \in {"loaded", "written"}, place[v] \in {"loaded", "written"}
    PROVE  u = v
<1>1. CASE Locks
    BY <1>1 DEF LockInv, LockLine, Begun
<1>2. CASE ~Locks
  <2>1. PICK p, q \in Pages : u \in updates[p] /\ v \in updates[q]
      BY DEF LockInv, PageLines, Open
  <2>2. p = q
      BY <1>2, ProgressAssumption DEF Lock!LockAssumption
  <2>3. u = v \/ earlier[u] # {} \/ earlier[v] # {}
      BY <2>1, <2>2 DEF LockInv, PageLines
  <2> QED
      BY <2>3 DEF LockInv, PageLines
<1> QED
    BY <1>1, <1>2, ProgressAssumption DEF Lock!LockAssumption

(* At first nobody stands in a line and nothing is stored.                  *)
LEMMA LockInit == Lock!Init => LockInv
<1> SUFFICES ASSUME Lock!Init PROVE LockInv
    OBVIOUS
<1>1. Lock!TypeOK
    BY DEF Lock!Init, Lock!TypeOK
<1>2. \A u \in Updates : place[u] = "unasked" /\ earlier[u] = {} /\ ahead[u] = {}
    BY DEF Lock!Init
<1>3. /\ \A p \in Pages : updates[p] = {} /\ known[p] = {} /\ reading[p] = Lock!NotReading
      /\ stored = {} /\ locks = {}
    BY DEF Lock!Init
<1>4. PageLines /\ LockLine
    BY <1>2, <1>3 DEF PageLines, LockLine, Open, Begun
<1>5. HolderKnows /\ ReadIsStored /\ Lock!ShownIsStored
    BY <1>2, <1>3 DEF HolderKnows, ReadIsStored, Lock!ShownIsStored
<1> QED
    BY <1>1, <1>4, <1>5 DEF LockInv

(* An update leaves the lines.                                              *)
LEMMA LeaveKeeps ==
    ASSUME LockInv, NEW p \in Pages, NEW gone \in SUBSET updates[p], NEW end \in {"ok", "failed", "gone"},
           gone = updates[p] \/ \E u \in updates[p] : gone = {u} /\ earlier[u] = {},
           place' = [u \in Updates |-> IF u \in gone THEN end ELSE place[u]],
           updates' = [updates EXCEPT ![p] = @ \ gone], locks' = locks \ gone,
           earlier' = Lock!Behind(gone, earlier), ahead' = Lock!Behind(gone, ahead)
    PROVE  /\ PageLines' /\ LockLine'
           /\ updates' \in [Pages -> SUBSET Updates] /\ locks' \subseteq UNION {updates'[q] : q \in Pages}
           /\ earlier' \in [Updates -> SUBSET Updates] /\ ahead' \in [Updates -> SUBSET Updates]
           /\ place' \in [Updates -> {"unasked", "queued", "waiting", "loaded", "written", "ok", "failed", "gone"}]
<1>1. /\ updates'[p] = updates[p] \ gone /\ \A q \in Pages \ {p} : updates'[q] = updates[q] /\ updates[q] \cap gone = {}
      /\ updates' \in [Pages -> SUBSET Updates] /\ gone \subseteq Updates
    BY DEF LockInv, Lock!TypeOK, PageLines
<1>2. \A u \in Updates : earlier'[u] = earlier[u] \ gone /\ ahead'[u] = ahead[u] \ gone
    BY DEF Lock!Behind
<1>3. locks' \subseteq UNION {updates'[q] : q \in Pages}
  <2>1. ASSUME NEW u \in locks' PROVE \E q \in Pages : u \in updates'[q]
    <3>1. PICK q \in Pages : u \in updates[q]
        BY DEF LockInv, Lock!TypeOK
    <3> QED
        BY <3>1, <1>1
  <2> QED
      BY <2>1
<1>4. /\ earlier' \in [Updates -> SUBSET Updates] /\ ahead' \in [Updates -> SUBSET Updates]
      /\ place' \in [Updates -> {"unasked", "queued", "waiting", "loaded", "written", "ok", "failed", "gone"}]
    BY DEF Lock!Behind, LockInv, Lock!TypeOK
<1>5. \A u \in Updates : place'[u] \in Open <=> place[u] \in Open /\ u \notin gone
    BY <1>1 DEF Open, LockInv, PageLines
<1>6. PageLines'
  <2>1. \A q, r \in Pages : updates'[q] \cap updates'[r] # {} => q = r
      BY <1>1 DEF LockInv, PageLines
  <2>2. \A q \in Pages : \A u, v \in updates'[q] : u = v \/ u \in earlier'[v] \/ v \in earlier'[u]
      BY <1>1, <1>2 DEF LockInv, PageLines, Lock!TypeOK
  <2>3. \A q \in Pages : \A u \in updates'[q] : place'[u] \in Open /\ earlier'[u] \subseteq updates'[q]
      BY <1>1, <1>2, <1>5 DEF LockInv, PageLines, Lock!TypeOK
  <2>4. \A u \in Updates : place'[u] \in Open => \E q \in Pages : u \in updates'[q]
      BY <1>1, <1>5 DEF LockInv, PageLines
  <2>5. \A u \in Updates : earlier'[u] # {} => place'[u] = "queued"
    <3>1. \A u \in gone : earlier[u] \subseteq gone
        BY <1>1 DEF LockInv, PageLines
    <3> QED
        BY <1>2, <3>1, <1>1 DEF LockInv, PageLines
  <2> QED
      BY <2>1, <2>2, <2>3, <2>4, <2>5 DEF PageLines
<1>7. LockLine'
  <2>1. \A u, v \in locks' : u = v \/ u \in ahead'[v] \/ v \in ahead'[u]
      BY <1>1, <1>2 DEF LockInv, LockLine, Lock!TypeOK
  <2>2. \A u \in Updates : ahead'[u] \subseteq locks'
      BY <1>2 DEF LockInv, LockLine
  <2>3. \A u \in Updates : place'[u] \in Open => place'[u] = place[u] /\ u \notin gone
      BY <1>5 DEF Open
  <2>4. ASSUME NEW u \in Updates
        PROVE  /\ place'[u] \in {"loaded", "written"} => ahead'[u] = {}
               /\ u \in locks' => place'[u] \in Begun
               /\ Locks /\ place'[u] \in Begun => u \in locks'
      BY <1>2, <2>3 DEF LockInv, LockLine, Open, Begun
  <2> QED
      BY <2>1, <2>2, <2>4 DEF LockLine
<1> QED
    BY <1>1, <1>3, <1>4, <1>6, <1>7

(* An update that is asked for is the last of its page's line.              *)
LEMMA AskInv == ASSUME LockInv, NEW p \in Pages, NEW u \in Updates, Lock!update(p, u) PROVE LockInv'
<1>1. /\ place[u] = "unasked" /\ place' = [place EXCEPT ![u] = "queued"]
      /\ earlier' = [earlier EXCEPT ![u] = updates[p]] /\ updates' = [updates EXCEPT ![p] = @ \cup {u}]
      /\ UNCHANGED <<stored, known, reading, loaded, locks, ahead>>
    BY DEF Lock!update
<1>2. \A q \in Pages : u \notin updates[q]
    BY <1>1 DEF LockInv, PageLines, Open
<1>3. /\ updates'[p] = updates[p] \cup {u} /\ \A q \in Pages \ {p} : updates'[q] = updates[q]
      /\ \A v \in Updates : /\ place'[v] = IF v = u THEN "queued" ELSE place[v]
                            /\ earlier'[v] = IF v = u THEN updates[p] ELSE earlier[v]
    BY <1>1 DEF LockInv, Lock!TypeOK
<1>4. Lock!TypeOK'
  <2>1. locks' \subseteq UNION {updates'[q] : q \in Pages}
    <3>1. ASSUME NEW v \in locks PROVE \E q \in Pages : v \in updates'[q]
      <4>1. PICK q \in Pages : v \in updates[q]
          BY DEF LockInv, Lock!TypeOK
      <4> QED
          BY <1>3, <4>1
    <3> QED
        BY <1>1, <3>1
  <2> QED
      BY <1>1, <2>1 DEF LockInv, Lock!TypeOK
<1>5. PageLines'
  <2>1. \A q, r \in Pages : updates'[q] \cap updates'[r] # {} => q = r
      BY <1>2, <1>3 DEF LockInv, PageLines
  <2>2. \A q \in Pages : \A v, w \in updates'[q] : v = w \/ v \in earlier'[w] \/ w \in earlier'[v]
    <3>1. ASSUME NEW q \in Pages, NEW v \in updates'[q], NEW w \in updates'[q]
          PROVE  v = w \/ v \in earlier'[w] \/ w \in earlier'[v]
      <4>1. {v, w} \subseteq Updates /\ updates[q] \subseteq Updates
          BY <1>3 DEF LockInv, Lock!TypeOK
      <4>2. CASE v = u \/ w = u
          BY <1>2, <1>3, <4>1, <4>2
      <4>3. CASE v # u /\ w # u
        <5>1. v \in updates[q] /\ w \in updates[q]
            BY <1>3, <4>3
        <5> QED
            BY <1>3, <4>1, <4>3, <5>1 DEF LockInv, PageLines
      <4> QED
          BY <4>2, <4>3
    <3> QED
        BY <3>1
  <2>3. \A q \in Pages : \A v \in updates'[q] : place'[v] \in Open /\ earlier'[v] \subseteq updates'[q]
    <3>1. ASSUME NEW q \in Pages, NEW v \in updates'[q] PROVE place'[v] \in Open /\ earlier'[v] \subseteq updates'[q]
      <4>1. v \in Updates
          BY <1>3 DEF LockInv, Lock!TypeOK
      <4>2. CASE v = u
          BY <1>2, <1>3, <4>1, <4>2 DEF Open
      <4>3. CASE v # u
          BY <1>3, <4>1, <4>3 DEF LockInv, PageLines
      <4> QED
          BY <4>2, <4>3
    <3> QED
        BY <3>1
  <2>4. \A v \in Updates : place'[v] \in Open => \E q \in Pages : v \in updates'[q]
      BY <1>3 DEF LockInv, PageLines
  <2>5. \A v \in Updates : earlier'[v] # {} => place'[v] = "queued"
      BY <1>3 DEF LockInv, PageLines
  <2> QED
      BY <2>1, <2>2, <2>3, <2>4, <2>5 DEF PageLines
<1>6. LockLine'
    BY <1>1, <1>3 DEF LockInv, LockLine, Begun
<1>7. HolderKnows' /\ ReadIsStored' /\ Lock!ShownIsStored'
    BY <1>1, <1>3 DEF LockInv, HolderKnows, ReadIsStored, Lock!ShownIsStored
<1> QED
    BY <1>4, <1>5, <1>6, <1>7 DEF LockInv

(* One that begins is the last of the lock's line.                          *)
LEMMA BeginInv ==
    ASSUME LockInv, NEW p \in Pages, NEW u \in Updates, Lock!Begin(p, u)
    PROVE  LockInv'
<1>1. /\ u \in updates[p] /\ earlier[u] = {} /\ place[u] = "queued" /\ place' = [place EXCEPT ![u] = "waiting"]
      /\ ahead' = [ahead EXCEPT ![u] = locks] /\ locks' = IF Locks THEN locks \cup {u} ELSE locks
      /\ UNCHANGED <<stored, known, reading, updates, earlier, loaded>>
    BY DEF Lock!Begin
<1>2. u \notin locks /\ locks \subseteq Updates
    BY <1>1 DEF LockInv, LockLine, Begun, Lock!TypeOK
<1>3. \A v \in Updates : /\ place'[v] = IF v = u THEN "waiting" ELSE place[v]
                         /\ ahead'[v] = IF v = u THEN locks ELSE ahead[v]
    BY <1>1 DEF LockInv, Lock!TypeOK
<1>4. Lock!TypeOK'
    BY <1>1, <1>2 DEF LockInv, Lock!TypeOK
<1>5. PageLines'
    BY <1>1, <1>3 DEF LockInv, PageLines, Open
<1>6. LockLine'
    BY <1>1, <1>2, <1>3 DEF LockInv, LockLine, Begun
<1>7. HolderKnows' /\ ReadIsStored' /\ Lock!ShownIsStored'
    BY <1>1, <1>3 DEF LockInv, HolderKnows, ReadIsStored, Lock!ShownIsStored
<1> QED
    BY <1>4, <1>5, <1>6, <1>7 DEF LockInv

(* The holder of the lock goes on.                                          *)
LEMMA MoveKeeps ==
    ASSUME LockInv, NEW u \in Updates, NEW spot \in {"loaded", "written"},
           place[u] \in Begun, ahead[u] = {}, place' = [place EXCEPT ![u] = spot], UNCHANGED Lock!lines
    PROVE  PageLines' /\ LockLine' /\ \A v \in Updates : place'[v] = IF v = u THEN spot ELSE place[v]
<1>1. \A v \in Updates : place'[v] = IF v = u THEN spot ELSE place[v]
    BY DEF LockInv, Lock!TypeOK
<1>2. UNCHANGED <<updates, earlier, locks, ahead>>
    BY DEF Lock!lines
<1>3. PageLines'
    BY <1>1, <1>2 DEF LockInv, PageLines, Open, Begun
<1>4. LockLine'
    BY <1>1, <1>2 DEF LockInv, LockLine, Begun
<1> QED
    BY <1>1, <1>3, <1>4

(* One that has the lock loads what is stored, and nobody else has it.      *)
LEMMA LoadInv == ASSUME LockInv, NEW p \in Pages, NEW u \in Updates, Lock!Load(p, u) PROVE LockInv'
<1>1. /\ place[u] = "waiting" /\ ahead[u] = {} /\ place' = [place EXCEPT ![u] = "loaded"]
      /\ loaded' = [loaded EXCEPT ![u] = stored] /\ UNCHANGED <<stored, known, reading, Lock!lines>>
    BY DEF Lock!Load, Lock!Granted
<1>2. PageLines' /\ LockLine' /\ \A v \in Updates : place'[v] = IF v = u THEN "loaded" ELSE place[v]
    BY <1>1, MoveKeeps DEF Begun
<1>3. Lock!TypeOK'
    BY <1>1 DEF LockInv, Lock!TypeOK, Lock!lines
<1>4. HolderKnows'
    BY <1>1, <1>2 DEF LockInv, Lock!TypeOK, HolderKnows
<1>5. ReadIsStored' /\ Lock!ShownIsStored'
    BY <1>1 DEF LockInv, ReadIsStored, Lock!ShownIsStored
<1> QED
    BY <1>2, <1>3, <1>4, <1>5 DEF LockInv

(* It writes what it loaded and itself, which nobody changed meanwhile.     *)
LEMMA WriteInv ==
    ASSUME LockInv, NEW p \in Pages, NEW u \in Updates, Lock!Write(p, u)
    PROVE  LockInv'
<1>1. /\ place[u] = "loaded" /\ place' = [place EXCEPT ![u] = "written"]
      /\ stored' = loaded[u] \cup {u} /\ UNCHANGED <<known, reading, loaded, Lock!lines>>
    BY DEF Lock!Write
<1>2. ahead[u] = {} /\ loaded[u] = stored
    BY <1>1 DEF LockInv, LockLine, HolderKnows
<1>3. PageLines' /\ LockLine' /\ \A v \in Updates : place'[v] = IF v = u THEN "written" ELSE place[v]
    BY <1>1, <1>2, MoveKeeps DEF Begun
<1>4. Lock!TypeOK'
    BY <1>1 DEF LockInv, Lock!TypeOK, Lock!lines
<1>5. \A v \in Updates \ {u} : place[v] \notin {"loaded", "written"}
    BY <1>1, OneHolds
<1>6. HolderKnows'
    BY <1>1, <1>2, <1>3, <1>5 DEF LockInv, HolderKnows
<1>7. ReadIsStored' /\ Lock!ShownIsStored'
    BY <1>1, <1>2 DEF LockInv, ReadIsStored, Lock!ShownIsStored
<1> QED
    BY <1>3, <1>4, <1>6, <1>7 DEF LockInv

(* It leaves both lines, told what is so.                                   *)
LEMMA EndInv ==
    ASSUME LockInv, NEW p \in Pages, NEW u \in Updates, Lock!Saved(p, u) \/ Lock!Fails(p, u)
    PROVE  LockInv'
<1>1. PICK end \in {"ok", "failed"} :
        /\ Lock!End(p, u, end) /\ UNCHANGED <<stored, reading, loaded>> /\ u \in updates[p] /\ place[u] \in Begun
        /\ end = "ok" => place[u] = "written" /\ known' = [known EXCEPT ![p] = loaded[u] \cup {u}]
        /\ end = "failed" => place[u] \in {"waiting", "loaded"} /\ known' = known
    BY DEF Lock!Saved, Lock!Fails, Begun
<1>2. earlier[u] = {}
    BY <1>1 DEF LockInv, PageLines, Begun
<1>3. place' = [v \in Updates |-> IF v \in {u} THEN end ELSE place[v]]
    BY <1>1 DEF Lock!End, LockInv, Lock!TypeOK
<1>4. /\ PageLines' /\ LockLine'
      /\ updates' \in [Pages -> SUBSET Updates] /\ locks' \subseteq UNION {updates'[q] : q \in Pages}
      /\ earlier' \in [Updates -> SUBSET Updates] /\ ahead' \in [Updates -> SUBSET Updates]
      /\ place' \in [Updates -> {"unasked", "queued", "waiting", "loaded", "written", "ok", "failed", "gone"}]
  <2> DEFINE gone == {u}
  <2>1. /\ gone \in SUBSET updates[p] /\ \E v \in updates[p] : gone = {v} /\ earlier[v] = {}
        /\ place' = [v \in Updates |-> IF v \in gone THEN end ELSE place[v]]
        /\ updates' = [updates EXCEPT ![p] = @ \ gone] /\ locks' = locks \ gone
        /\ earlier' = Lock!Behind(gone, earlier) /\ ahead' = Lock!Behind(gone, ahead)
      BY <1>1, <1>2, <1>3 DEF Lock!End
  <2> HIDE DEF gone
  <2> QED
      BY <2>1, LeaveKeeps
<1>5. end = "ok" => stored = loaded[u] \cup {u}
    BY <1>1 DEF LockInv, HolderKnows
<1>6. Lock!TypeOK'
    BY <1>1, <1>4, <1>5 DEF LockInv, Lock!TypeOK
<1>7. HolderKnows'
    BY <1>1, <1>3, <1>5 DEF LockInv, HolderKnows
<1>8. ReadIsStored' /\ Lock!ShownIsStored'
    BY <1>1, <1>5 DEF LockInv, Lock!TypeOK, ReadIsStored, Lock!ShownIsStored
<1> QED
    BY <1>4, <1>6, <1>7, <1>8 DEF LockInv

(* A page that closes takes all its updates out of both lines.              *)
LEMMA ReopenInv == ASSUME LockInv, NEW p \in Pages, Lock!Reopen(p) PROVE LockInv'
<1>1. /\ updates' = [updates EXCEPT ![p] = {}] /\ locks' = locks \ updates[p]
      /\ earlier' = Lock!Behind(updates[p], earlier) /\ ahead' = Lock!Behind(updates[p], ahead)
      /\ place' = [u \in Updates |-> IF u \in updates[p] THEN "gone" ELSE place[u]]
      /\ known' = [known EXCEPT ![p] = stored] /\ reading' = [reading EXCEPT ![p] = Lock!NotReading]
      /\ UNCHANGED <<stored, loaded>>
    BY DEF Lock!Reopen
<1>2. /\ PageLines' /\ LockLine'
      /\ updates' \in [Pages -> SUBSET Updates] /\ locks' \subseteq UNION {updates'[q] : q \in Pages}
      /\ earlier' \in [Updates -> SUBSET Updates] /\ ahead' \in [Updates -> SUBSET Updates]
      /\ place' \in [Updates -> {"unasked", "queued", "waiting", "loaded", "written", "ok", "failed", "gone"}]
  <2> DEFINE gone == updates[p]
  <2>1. updates' = [updates EXCEPT ![p] = @ \ gone] /\ gone \in SUBSET updates[p]
      BY <1>1
  <2>2. /\ place' = [u \in Updates |-> IF u \in gone THEN "gone" ELSE place[u]]
        /\ locks' = locks \ gone /\ earlier' = Lock!Behind(gone, earlier) /\ ahead' = Lock!Behind(gone, ahead)
      BY <1>1
  <2>3. gone = updates[p]
      OBVIOUS
  <2> HIDE DEF gone
  <2> QED
      BY <2>1, <2>2, <2>3, LeaveKeeps
<1>3. Lock!TypeOK'
    BY <1>1, <1>2 DEF LockInv, Lock!TypeOK
<1>4. HolderKnows'
  <2>1. \A u \in Updates : place'[u] = place[u] \/ (place'[u] = "gone" /\ u \in updates[p] /\ place[u] \in Open)
      BY <1>1 DEF LockInv, PageLines
  <2> QED
      BY <1>1, <2>1 DEF LockInv, HolderKnows
<1>5. ReadIsStored' /\ Lock!ShownIsStored'
    BY <1>1 DEF LockInv, Lock!TypeOK, ReadIsStored, Lock!ShownIsStored
<1> QED
    BY <1>2, <1>3, <1>4, <1>5 DEF LockInv

(* What a page reads without the lock is stored, and stays so: the stored   *)
(* updates only grow.                                                       *)
LEMMA RefreshInv ==
    ASSUME LockInv, NEW p \in Pages, Lock!Refresh(p) \/ Lock!Refreshed(p)
    PROVE  LockInv'
<1>1. /\ UNCHANGED <<stored, place, loaded, updates, earlier, locks, ahead>>
      /\ \/ reading' = [reading EXCEPT ![p] = stored] /\ known' = known
         \/ /\ reading' = [reading EXCEPT ![p] = Lock!NotReading] /\ reading[p] # Lock!NotReading
            /\ known' = [known EXCEPT ![p] = reading[p]]
    BY DEF Lock!Refresh, Lock!Refreshed, Lock!lines
<1>2. reading[p] # Lock!NotReading => reading[p] \in SUBSET Updates
    BY DEF LockInv, Lock!TypeOK
<1>3. Lock!TypeOK'
    BY <1>1, <1>2 DEF LockInv, Lock!TypeOK
<1>4. PageLines' /\ LockLine' /\ HolderKnows'
    BY <1>1 DEF LockInv, PageLines, LockLine, HolderKnows
<1>5. ReadIsStored' /\ Lock!ShownIsStored'
    BY <1>1 DEF LockInv, Lock!TypeOK, ReadIsStored, Lock!ShownIsStored
<1> QED
    BY <1>3, <1>4, <1>5 DEF LockInv

(* Every step keeps the invariant.                                          *)
LEMMA LockNext == ASSUME LockInv, [Lock!Next]_(Lock!vars) PROVE LockInv'
<1>1. CASE UNCHANGED Lock!vars
    BY <1>1 DEF Lock!vars, LockInv, Lock!TypeOK, PageLines, LockLine, HolderKnows, ReadIsStored,
       Lock!ShownIsStored
<1> QED
    BY <1>1, AskInv, BeginInv, LoadInv, WriteInv, EndInv, ReopenInv, RefreshInv DEF Lock!Next,
       Lock!Settles

(* Every step is one of AtomicUpdates, or changes nothing there.            *)
Told == [u \in Updates |-> IF place[u] \in {"ok", "failed"} THEN place[u] ELSE "open"]

(* A write applies an update, an end answers it, all else is a stutter.     *)
LEMMA StepRefines ==
    ASSUME LockInv, [Lock!Next]_(Lock!vars)
    PROVE  [Lock!Abstract!Next]_<<stored, Told>>
<1>1. ASSUME NEW u \in Updates, NEW spot, spot \notin {"ok", "failed"}, place[u] \notin {"ok", "failed"},
             place' = [place EXCEPT ![u] = spot]
      PROVE  UNCHANGED Told
    BY <1>1 DEF Told, LockInv, Lock!TypeOK
<1>2. ASSUME NEW p \in Pages, NEW u \in Updates, Lock!update(p, u) \/ Lock!Begin(p, u) \/ Lock!Load(p, u)
      PROVE  UNCHANGED <<stored, Told>>
    BY <1>1, <1>2 DEF Lock!update, Lock!Begin, Lock!Load
<1>3. ASSUME NEW p \in Pages, NEW u \in Updates, Lock!Write(p, u) PROVE Lock!Abstract!Apply(u)
  <2>1. place[u] = "loaded" /\ place' = [place EXCEPT ![u] = "written"] /\ stored' = loaded[u] \cup {u}
      BY <1>3 DEF Lock!Write
  <2>2. u \notin stored /\ loaded[u] = stored
      BY <2>1 DEF LockInv, HolderKnows
  <2>3. UNCHANGED Told
      BY <1>1, <2>1
  <2> QED
      BY <2>1, <2>2, <2>3 DEF Lock!Abstract!Apply, Told
<1>4. ASSUME NEW p \in Pages, NEW u \in Updates, Lock!Saved(p, u) \/ Lock!Fails(p, u) PROVE Lock!Abstract!Answer(u)
  <2>1. PICK end \in {"ok", "failed"} :
          /\ place' = [place EXCEPT ![u] = end] /\ stored' = stored /\ place[u] \in Begun
          /\ end = "ok" <=> place[u] = "written"
      BY <1>4 DEF Lock!Saved, Lock!Fails, Lock!End, Begun
  <2>2. end = IF u \in stored THEN "ok" ELSE "failed"
      BY <2>1 DEF LockInv, HolderKnows, Begun
  <2>3. Told' = [Told EXCEPT ![u] = end] /\ Told[u] = "open"
      BY <2>1 DEF Told, LockInv, Lock!TypeOK, Begun
  <2> QED
      BY <2>1, <2>2, <2>3 DEF Lock!Abstract!Answer, Told
<1>5. ASSUME NEW p \in Pages, Lock!Reopen(p) PROVE UNCHANGED <<stored, Told>>
  <2>1. stored' = stored /\ \A u \in updates[p] : place[u] \in Open
      BY <1>5 DEF Lock!Reopen, LockInv, PageLines
  <2> QED
      BY <1>5, <2>1 DEF Lock!Reopen, Told, Open, LockInv, Lock!TypeOK
<1>6. ASSUME NEW p \in Pages, Lock!Refresh(p) \/ Lock!Refreshed(p) PROVE UNCHANGED <<stored, Told>>
    BY <1>6 DEF Lock!Refresh, Lock!Refreshed, Told
<1>7. CASE UNCHANGED Lock!vars
    BY <1>7 DEF Lock!vars, Told
<1> QED
    BY <1>2, <1>3, <1>4, <1>5, <1>6, <1>7 DEF Lock!Next, Lock!Settles, Lock!Abstract!Next

(* Only the lock's own steps touch its variables.                           *)
LEMMA LockSteps == Steps => Lock!Init /\ [][Lock!Next]_(Lock!vars)
<1>1. AllInit => Lock!Init
    BY DEF AllInit
<1>2. [AllNext]_all => [Lock!Next]_(Lock!vars)
  <2> SUFFICES ASSUME StatusStep \/ ScannerStep \/ SignerStep \/ PromptStep \/ Rest \/ UNCHANGED all
               PROVE  UNCHANGED Lock!vars
      BY DEF AllNext, LockStep
  <2> QED
      BY DEF StatusStep, ScannerStep, SignerStep, PromptStep, Rest, all, lockVars, Lock!vars
<1> QED
    BY <1>1, <1>2, PTL DEF Steps

(* Every page's update of the settings changes what is stored at one moment *)
(* and is told ok exactly when it did, updates of one page are saved in its *)
(* order, and no page goes by what is not saved: of any number of pages,    *)
(* closing or failing at any step (app.ts withSettingsLock, update).        *)
THEOREM UpdatesOfSettings == Steps => UpdatesAreAtomic
<1>1. LockInv => Lock!SavedInOrder /\ Lock!ShownIsStored
    BY DEF LockInv, Lock!SavedInOrder, HolderKnows, PageLines
<1>2. Lock!Init => Lock!Abstract!Init
    BY DEF Lock!Init, Lock!Abstract!Init
<1>3. LockInv /\ [Lock!Next]_(Lock!vars) => [Lock!Abstract!Next]_<<stored, Told>>
    BY StepRefines
<1>4. LockInv /\ [Lock!Next]_(Lock!vars) => LockInv'
    BY LockNext
<1> QED
    BY <1>1, <1>2, <1>3, <1>4, LockInit, LockSteps, PTL
       DEF UpdatesAreAtomic, Lock!ImplementsAtomicUpdates, Lock!Abstract!Spec, Told

----------------------------------------------------------------------------
(* Texts that a screen scans                                                *)

(* A screen that took a text wants no more.                                 *)
ScanInv == taken \in {0, 1} /\ (taken = 1 => done)

(* A text that is fed is of no use, is taken, or ends the scanning.         *)
LEMMA FeedKeeps == ASSUME ScanInv, Scanner!feed PROVE ScanInv'
BY DEF ScanInv, Scanner!feed, Scanner!controls

(* The first of a camera's frame, a file and a pasted text that gives the   *)
(* screen what it needs is the only one it takes (scanner.ts, feed).        *)
THEOREM OneTextIsTaken == Steps => []Scanner!TakenOnce
<1>1. AllInit => ScanInv
    BY DEF AllInit, Scanner!Init, ScanInv
<1>2. ScanInv /\ [AllNext]_all => ScanInv'
  <2> SUFFICES ASSUME ScanInv, [AllNext]_all PROVE ScanInv'
      OBVIOUS
  <2>1. CASE ScannerStep
    <3>1. CASE Scanner!FileRead \/ Scanner!Paste \/ \E c \in Cameras : Scanner!FrameRead(c)
        BY <3>1, FeedKeeps DEF Scanner!FileRead, Scanner!Paste, Scanner!FrameRead
    <3>2. CASE Scanner!startCamera \/ Scanner!loadFile \/ Scanner!Leave
        BY <3>2 DEF Scanner!startCamera, Scanner!loadFile, Scanner!Leave, ScanInv
    <3>3. CASE \E c \in Cameras : Scanner!Opened(c) \/ Scanner!Refused(c) \/ Scanner!Frame(c)
        BY <3>3 DEF Scanner!Opened, Scanner!Refused, Scanner!Frame, ScanInv
    <3> QED
        BY <2>1, <3>1, <3>2, <3>3 DEF ScannerStep, Scanner!Next
  <2>2. CASE StatusStep \/ LockStep \/ SignerStep \/ PromptStep \/ Rest \/ UNCHANGED all
      BY <2>2 DEF StatusStep, LockStep, SignerStep, PromptStep, Rest, all, scannerVars, ScanInv
  <2> QED
      BY <2>1, <2>2 DEF AllNext
<1>3. ScanInv => Scanner!TakenOnce
    BY DEF ScanInv, Scanner!TakenOnce
<1> QED
    BY <1>1, <1>2, <1>3, PTL DEF Steps

----------------------------------------------------------------------------
(* Requests that find the signer locked                                     *)

(* Nothing was done for a request that may still be sent, or was answered   *)
(* that it was not done.                                                    *)
UndoneYet(r) ==
    \/ request[r].at \in {"idle", "sent", "waiting", "sentAgain"}
    \/ request[r].answer \in {"Locked", "lockedMessage"}

RequestStates    == [at : Overlay!Places, answer : Overlay!Answers, prompt : Prompts \cup {None}]
SubmissionStates == [prompt : Prompts \cup {None}, answer : {"none", "ok", "wrong"}]

PromptInv ==
    /\ Overlay!TypeOK
    /\ Overlay!WaitersCanAnswer
    /\ \A r \in Messages : effects[r] <= 1 /\ (UndoneYet(r) => effects[r] = 0)

(* At first no request was sent.                                            *)
LEMMA PromptStarts == Overlay!Init => PromptInv
<1> SUFFICES ASSUME Overlay!Init PROVE PromptInv
    OBVIOUS
<1>1. Overlay!Idle \in RequestStates /\ Overlay!NoSubmission \in SubmissionStates
    BY DEF Overlay!Idle, Overlay!NoSubmission, RequestStates, SubmissionStates, Overlay!Places,
       Overlay!Answers
<1>2. request \in [Messages -> RequestStates] /\ submission \in [Submissions -> SubmissionStates]
    BY <1>1 DEF Overlay!Init
<1>3. effects \in [Messages -> 0 .. 2] /\ \A r \in Messages : effects[r] = 0
    BY DEF Overlay!Init
<1>4. Overlay!TypeOK
    BY <1>2, <1>3 DEF Overlay!Init, Overlay!TypeOK, RequestStates, SubmissionStates
<1> QED
    BY <1>3, <1>4 DEF Overlay!Init, Overlay!Idle, PromptInv, Overlay!WaitersCanAnswer

(* What the invariant says of a request that a step leaves alone.           *)
LEMMA OthersKeep ==
    ASSUME PromptInv, Overlay!TypeOK', NEW r \in Messages, shown \subseteq shown',
           \A another \in Messages \ {r} :
               request'[another] = request[another] /\ effects'[another] = effects[another],
           request'[r].at = "waiting" => request'[r].prompt \in shown',
           effects'[r] <= 1, UndoneYet(r)' => effects'[r] = 0
    PROVE  PromptInv'
<1>1. Overlay!WaitersCanAnswer'
    BY DEF PromptInv, Overlay!WaitersCanAnswer
<1>2. \A another \in Messages : effects'[another] <= 1 /\ (UndoneYet(another)' => effects'[another] = 0)
    BY DEF PromptInv, UndoneYet
<1> QED
    BY <1>1, <1>2 DEF PromptInv

(* A prompt is on the page when it is asked for.                            *)
LEMMA PromptIsShown ==
    ASSUME Overlay!TypeOK, NEW prompt \in Prompts, Overlay!Prompt(prompt)
    PROVE  prompt \in shown' /\ shown' \subseteq Prompts /\ shown \subseteq shown'
           /\ unlocking' \in shown' \cup {None}
BY ProgressAssumption DEF Overlay!UnlockPromptAssumption, Overlay!TypeOK, Overlay!Prompt,
   Overlay!Unused

(* Ending a prompt wakes those who wait for it.                             *)
LEMMA FinishKeeps ==
    ASSUME PromptInv, NEW prompt, NEW unlocked \in BOOLEAN, Overlay!Finish(prompt, unlocked),
           UNCHANGED <<effects, refused, prompted>>,
           {open, believed, visible, notice}' \subseteq BOOLEAN,
           submission' \in [Submissions -> [prompt : Prompts \cup {None}, answer : {"none", "ok", "wrong"}]],
           UNCHANGED Overlay!reads
    PROVE  PromptInv'
<1> DEFINE again == [Overlay!Idle EXCEPT !.at = "sentAgain"]
           told  == [Overlay!Idle EXCEPT !.at = "done", !.answer = "lockedMessage"]
<1>1. /\ again \in RequestStates /\ again.at = "sentAgain"
      /\ told \in RequestStates /\ told.at = "done"
    BY DEF Overlay!Idle, RequestStates, Overlay!Places, Overlay!Answers
<1>2. shown' = shown \ {prompt} /\ unlocking' = None /\ request' = [r \in Messages |->
         IF r \notin Overlay!Waiters(prompt) THEN request[r] ELSE IF unlocked THEN again ELSE told]
    BY DEF Overlay!Finish
<1>3. \A r \in Overlay!Waiters(prompt) : effects[r] = 0
    BY DEF Overlay!Waiters, PromptInv, UndoneYet
<1> HIDE DEF again, told
<1>4. Overlay!TypeOK'
  <2>1. request' \in [Messages -> RequestStates]
      BY <1>1, <1>2 DEF PromptInv, Overlay!TypeOK, RequestStates
  <2> QED
      BY <1>2, <2>1 DEF PromptInv, Overlay!TypeOK, Overlay!reads, RequestStates
<1>5. Overlay!WaitersCanAnswer'
    BY <1>1, <1>2 DEF PromptInv, Overlay!WaitersCanAnswer, Overlay!Waiters
<1>6. \A r \in Messages : effects'[r] <= 1 /\ (UndoneYet(r)' => effects'[r] = 0)
    BY <1>1, <1>2, <1>3 DEF PromptInv, UndoneYet, Overlay!Waiters
<1> QED
    BY <1>4, <1>5, <1>6 DEF PromptInv

(* The signer does what is asked only if it answers so, or the answer is    *)
(* lost.                                                                    *)
LEMMA HandleInv == ASSUME PromptInv, NEW r \in Messages, Overlay!Handle(r) PROVE PromptInv'
<1>1. request[r].at \in {"sent", "sentAgain"} /\ effects[r] = 0
    BY DEF Overlay!Handle, PromptInv, UndoneYet
<1>2. PICK reply \in {"ok", "lost", "error", "Locked", "LockedOrNoPhrase"} : request' = Overlay!Replied(r, reply)
    BY DEF Overlay!Handle, Overlay!Refusal
<1>3. /\ \/ effects' = [effects EXCEPT ![r] = @ + 1] /\ reply \in {"ok", "lost"}
         \/ effects' = effects
      /\ refused' \subseteq Messages
      /\ UNCHANGED <<open, believed, visible, notice, prompted, shown, unlocking, submission, check, reload>>
  <2>1. refused' \subseteq Messages /\ UNCHANGED <<open, Overlay!page, prompted, Overlay!prompts, Overlay!reads>>
      BY DEF Overlay!Handle, PromptInv, Overlay!TypeOK
  <2>2. \/ effects' = [effects EXCEPT ![r] = @ + 1] /\ (request' = Overlay!Replied(r, "ok") \/ request' = Overlay!Replied(r, "lost"))
        \/ effects' = effects
      BY DEF Overlay!Handle
  <2>3. request'[r].answer = reply /\ \A another \in {"ok", "lost"} : Overlay!Replied(r, another)[r].answer = another
      BY <1>2 DEF Overlay!Replied, PromptInv, Overlay!TypeOK
  <2> QED
      BY <2>1, <2>2, <2>3 DEF Overlay!page, Overlay!prompts, Overlay!reads
<1>4. /\ request'[r].at \in {"answered", "answeredAgain"} /\ request'[r].answer = reply
      /\ \A another \in Messages \ {r} : request'[another] = request[another]
      /\ request' \in [Messages -> [at : Overlay!Places, answer : Overlay!Answers, prompt : Prompts \cup {None}]]
  <2> DEFINE spot == IF request[r].at = "sent" THEN "answered" ELSE "answeredAgain"
             new   == [request[r] EXCEPT !.at = spot, !.answer = reply]
  <2>1. new \in RequestStates /\ new.at = spot /\ new.answer = reply
      BY DEF PromptInv, Overlay!TypeOK, RequestStates, Overlay!Places, Overlay!Answers
  <2>2. request' = [request EXCEPT ![r] = new]
      BY <1>2 DEF Overlay!Replied, PromptInv, Overlay!TypeOK
  <2> HIDE DEF new
  <2> QED
      BY <2>1, <2>2 DEF PromptInv, Overlay!TypeOK, RequestStates
<1>5. effects'[r] \in 0 .. 1 /\ effects' \in [Messages -> 0 .. 2]
      /\ \A another \in Messages \ {r} : effects'[another] = effects[another]
    BY <1>1, <1>3 DEF PromptInv, Overlay!TypeOK
<1>6. Overlay!TypeOK'
    BY <1>3, <1>4, <1>5 DEF PromptInv, Overlay!TypeOK
<1>7. UndoneYet(r)' => effects'[r] = 0
    BY <1>1, <1>3, <1>4 DEF UndoneYet
<1> QED
    BY <1>3, <1>4, <1>5, <1>6, <1>7, OthersKeep

(* A request that was answered Locked waits for a prompt on the page; any   *)
(* other ends.                                                              *)
LEMMA ReceiveInv == ASSUME PromptInv, NEW r \in Messages, Overlay!Receive(r) PROVE PromptInv'
<1>1. /\ request[r].at = "answered"
      /\ UNCHANGED <<open, believed, visible, notice, effects, refused, submission, check, reload>>
    BY DEF Overlay!Receive, Overlay!page, Overlay!reads
<1>2. CASE request[r].answer = "Locked"
  <2>1. PICK prompt \in Prompts :
          /\ Overlay!Prompt(prompt) /\ prompted' = prompted \cup {r}
          /\ request' = [request EXCEPT ![r] = [at |-> "waiting", answer |-> "none", prompt |-> prompt]]
      BY <1>2 DEF Overlay!Receive
  <2>2. effects[r] = 0
      BY <1>2 DEF PromptInv, UndoneYet
  <2>3. prompt \in shown' /\ shown' \subseteq Prompts /\ shown \subseteq shown' /\ unlocking' \in shown' \cup {None}
      BY <2>1, PromptIsShown DEF PromptInv
  <2>4. Overlay!TypeOK'
      BY <1>1, <2>1, <2>3 DEF PromptInv, Overlay!TypeOK, Overlay!Places, Overlay!Answers
  <2>5. /\ request'[r].prompt = prompt /\ effects'[r] = 0
        /\ \A another \in Messages \ {r} : request'[another] = request[another]
      BY <1>1, <2>1, <2>2 DEF PromptInv, Overlay!TypeOK
  <2> QED
      BY <1>1, <2>3, <2>4, <2>5, OthersKeep
<1>3. CASE request[r].answer # "Locked"
  <2>1. request' = [request EXCEPT ![r].at = "done"] /\ UNCHANGED <<prompted, shown, unlocking>>
      BY <1>3 DEF Overlay!Receive
  <2>2. Overlay!TypeOK'
      BY <1>1, <2>1 DEF PromptInv, Overlay!TypeOK, Overlay!Places
  <2>3. /\ request'[r].at = "done" /\ request'[r].answer = request[r].answer
        /\ \A another \in Messages \ {r} : request'[another] = request[another]
      BY <2>1 DEF PromptInv, Overlay!TypeOK
  <2>4. effects'[r] <= 1 /\ (UndoneYet(r)' => effects'[r] = 0)
      BY <1>1, <2>3 DEF PromptInv, UndoneYet
  <2> QED
      BY <1>1, <2>1, <2>2, <2>3, <2>4, OthersKeep
<1> QED
    BY <1>2, <1>3

(* Steps of a request that its prompts and the signer have no part in.      *)
LEMMA MoveInv ==
    ASSUME PromptInv, NEW r \in Messages, Overlay!Send(r) \/ Overlay!ReceiveAgain(r)
    PROVE  PromptInv'
<1>1. UNCHANGED <<open, believed, visible, notice, effects, refused, prompted, shown, unlocking, submission, check, reload>>
    BY DEF Overlay!Send, Overlay!ReceiveAgain, Overlay!page, Overlay!prompts, Overlay!reads
<1>2. PICK spot \in {"sent", "done"} :
        /\ request' = [request EXCEPT ![r].at = spot]
        /\ spot = "sent" => request[r].at = "idle"
    BY DEF Overlay!Send, Overlay!ReceiveAgain
<1>3. /\ request'[r].at = spot /\ request'[r].answer = request[r].answer
      /\ \A another \in Messages \ {r} : request'[another] = request[another]
    BY <1>2 DEF PromptInv, Overlay!TypeOK
<1>4. Overlay!TypeOK'
    BY <1>1, <1>2 DEF PromptInv, Overlay!TypeOK, Overlay!Places
<1>5. effects'[r] <= 1 /\ (UndoneYet(r)' => effects'[r] = 0)
    BY <1>1, <1>2, <1>3 DEF PromptInv, UndoneYet
<1> QED
    BY <1>1, <1>3, <1>4, <1>5, OthersKeep

(* What becomes of a password, and of those that wait for its prompt.       *)
LEMMA SubmissionInv ==
    ASSUME PromptInv, NEW s \in Submissions,
           Overlay!HandleUnlock(s) \/ Overlay!Answered(s) \/ \E prompt \in Prompts : Overlay!Submit(s, prompt)
    PROVE  PromptInv'
<1>1. submission' \in [Submissions -> [prompt : Prompts \cup {None}, answer : {"none", "ok", "wrong"}]]
  <2>1. /\ submission[s] \in SubmissionStates /\ Overlay!NoSubmission \in SubmissionStates
        /\ \A reply \in {"ok", "wrong"} : [submission[s] EXCEPT !.answer = reply] \in SubmissionStates
        /\ \A prompt \in Prompts : [submission[s] EXCEPT !.prompt = prompt] \in SubmissionStates
      BY DEF PromptInv, Overlay!TypeOK, SubmissionStates, Overlay!NoSubmission
  <2>2. PICK new \in SubmissionStates : submission' = [submission EXCEPT ![s] = new]
      BY <2>1 DEF Overlay!HandleUnlock, Overlay!Answered, Overlay!Submit
  <2> QED
      BY <2>2 DEF PromptInv, Overlay!TypeOK, SubmissionStates
<1>2. CASE Overlay!Answered(s) /\ submission[s].answer = "ok"
  <2>1. /\ believed' = TRUE /\ notice' = FALSE /\ Overlay!Finish(submission[s].prompt, TRUE)
        /\ UNCHANGED <<open, visible, effects, refused, prompted, Overlay!reads>>
      BY <1>2 DEF Overlay!Answered
  <2> QED
      BY <1>1, <2>1, FinishKeeps DEF PromptInv, Overlay!TypeOK
<1>3. CASE ~(Overlay!Answered(s) /\ submission[s].answer = "ok")
  <2>1. /\ open' \in BOOLEAN
        /\ UNCHANGED <<believed, visible, notice, request, effects, refused, prompted, shown, unlocking, check, reload>>
      BY <1>3 DEF Overlay!HandleUnlock, Overlay!Answered, Overlay!Submit, Overlay!page,
         Overlay!calls, Overlay!reads, PromptInv, Overlay!TypeOK
  <2>2. Overlay!TypeOK'
      BY <1>1, <2>1 DEF PromptInv, Overlay!TypeOK
  <2> QED
      BY <2>1, <2>2 DEF PromptInv, Overlay!WaitersCanAnswer, UndoneYet
<1> QED
    BY <1>2, <1>3

(* Every step keeps the invariant.                                          *)
LEMMA PromptNext == ASSUME PromptInv, [Overlay!Next]_(Overlay!vars) PROVE PromptInv'
<1>1. ASSUME NEW prompt \in Prompts, Overlay!NotNow(prompt) PROVE PromptInv'
  <2>1. /\ Overlay!Finish(prompt, FALSE) /\ notice' \in BOOLEAN
        /\ UNCHANGED <<open, believed, visible, effects, refused, prompted, submission, Overlay!reads>>
      BY <1>1 DEF Overlay!NotNow, PromptInv, Overlay!TypeOK
  <2> QED
      BY <2>1, FinishKeeps DEF PromptInv, Overlay!TypeOK
<1>2. CASE Overlay!ClickUnlock
  <2>1. PICK prompt \in Prompts : Overlay!Prompt(prompt)
      BY <1>2 DEF Overlay!ClickUnlock
  <2>2. UNCHANGED <<open, believed, visible, notice, request, effects, refused, prompted, submission, check, reload>>
      BY <1>2 DEF Overlay!ClickUnlock, Overlay!page, Overlay!calls, Overlay!reads
  <2>3. shown' \subseteq Prompts /\ shown \subseteq shown' /\ unlocking' \in shown' \cup {None}
      BY <2>1, PromptIsShown DEF PromptInv
  <2>4. Overlay!TypeOK'
      BY <2>2, <2>3 DEF PromptInv, Overlay!TypeOK
  <2> QED
      BY <2>2, <2>3, <2>4 DEF PromptInv, Overlay!WaitersCanAnswer, UndoneYet
<1>3. CASE Overlay!Lock \/ Overlay!Unlock \/ Overlay!Look \/ Overlay!UnlockScreen \/ Overlay!Checked \/ Overlay!Reloaded
  <2>1. /\ {open, believed, visible, notice}' \subseteq BOOLEAN /\ {check, reload}' \subseteq {"none", "sent", "open", "locked"}
        /\ UNCHANGED <<request, effects, refused, prompted, shown, unlocking, submission>>
      BY <1>3 DEF Overlay!Lock, Overlay!Unlock, Overlay!Look, Overlay!UnlockScreen,
         Overlay!Checked, Overlay!Reloaded, Overlay!page, Overlay!calls, Overlay!prompts,
         Overlay!reads, PromptInv, Overlay!TypeOK
  <2> QED
      BY <2>1 DEF PromptInv, Overlay!TypeOK, Overlay!WaitersCanAnswer, UndoneYet
<1>4. CASE Overlay!Check \/ Overlay!CheckAnswer \/ Overlay!CheckFails \/ Overlay!Reload \/ Overlay!ReloadAnswer
  <2>1. /\ {check, reload}' \subseteq {"none", "sent", "open", "locked"}
        /\ UNCHANGED <<open, believed, visible, notice, request, effects, refused, prompted, shown, unlocking, submission>>
      BY <1>4 DEF Overlay!Check, Overlay!CheckAnswer, Overlay!CheckFails, Overlay!Reload,
         Overlay!ReloadAnswer, Overlay!State, Overlay!page, Overlay!calls, Overlay!prompts,
         PromptInv, Overlay!TypeOK
  <2> QED
      BY <2>1 DEF PromptInv, Overlay!TypeOK, Overlay!WaitersCanAnswer, UndoneYet
<1>5. CASE UNCHANGED Overlay!vars
    BY <1>5 DEF Overlay!vars, PromptInv, Overlay!TypeOK, Overlay!WaitersCanAnswer, UndoneYet
<1> QED
    BY <1>1, <1>2, <1>3, <1>4, <1>5, HandleInv, ReceiveInv, MoveInv, SubmissionInv DEF Overlay!Next

(* Only the prompt's own steps touch its variables.                         *)
LEMMA PromptHolds == Steps => []PromptInv
<1>1. AllInit => PromptInv
    BY PromptStarts DEF AllInit
<1>2. PromptInv /\ [AllNext]_all => PromptInv'
  <2> SUFFICES ASSUME PromptInv, [AllNext]_all PROVE PromptInv'
      OBVIOUS
  <2>1. CASE PromptStep
      BY <2>1, PromptNext DEF PromptStep
  <2>2. CASE StatusStep \/ LockStep \/ ScannerStep \/ SignerStep \/ Rest \/ UNCHANGED all
    <3>1. UNCHANGED Overlay!vars
        BY <2>2 DEF StatusStep, LockStep, ScannerStep, SignerStep, Rest, all, promptVars,
           Overlay!vars
    <3> QED
        BY <3>1, PromptNext
  <2> QED
      BY <2>1, <2>2 DEF AllNext
<1> QED
    BY <1>1, <1>2, PTL DEF Steps

(* Whatever the signer's idle timer, lost answers and left prompts do: who  *)
(* waits for a prompt finds it on the page, and no request is done twice or *)
(* done and reported as locked (app.ts unlockingWallet).                    *)
THEOREM RequestsAreDoneOnce == Steps => []AnsweredOnce
<1>1. PromptInv => AnsweredOnce
    BY DEF PromptInv, UndoneYet, AnsweredOnce, Overlay!ActsOnce
<1> QED
    BY <1>1, PromptHolds, PTL
=============================================================================
