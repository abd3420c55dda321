---------------------------- MODULE MCOrderCheck ----------------------------
(***************************************************************************)
(* What the wallet concludes from nodes' answers, for TLC: the check of    *)
(* sell orders, read by read, and the verification of the state proof that *)
(* an answer is.  A behaviour runs one of them, which AllInit chooses.     *)
(*                                                                         *)
(* For the check: child blocks c1 - c2 - c3 and c1 - d2; parent blocks p1, *)
(* p2 and their rival q2.  The purchase names deposits 1 and 3; deposit 2  *)
(* is somebody else's.  With one deposit a page and two pages, c2 has too  *)
(* many.  The parent q2 commits the branch of d2.                          *)
(*                                                                         *)
(* For the proof: two blocks with a deposit and a receipt dictionary each. *)
(* One is a tree of four nodes in which "a", "aab" and "bb" have a value;  *)
(* one has two children for "a", one is its own child, and one has a child *)
(* that does not decode and one whose children are no list.                *)
(***************************************************************************)
EXTENDS OrderCheck, Sequences, TLC

CONSTANTS
    p1, p2, q2, c1, c2, c3, d2,                              \* the check's blocks
    tip1, tip2, state1, state2, deposits, receipts, a, b, v, \* the proof's
    tree, nodeA, nodeAAB, nodeBB, twice, cycle, broken, noNode, noList,
    Tips, States, Kinds, PostState, Dictionary, CIDs, Content, Chars, Keys, Values,
    Absent, Undecodable, NoList, Below, Height, MaxClaims

VARIABLES
    part,
    tip, kind, answer, stage, claims, key, expected, cid, remaining, visited

proofVars == <<tip, kind, answer, stage, claims, key, expected, cid, remaining, visited>>
all       == <<part, vars, proofVars>>

Proof == INSTANCE StateProof WITH at <- stage

ASSUME ProofAssumption == Proof!StateProofAssumption /\ Proof!BelowAssumption

AllInit ==
    /\ part \in {"check", "proof"}
    /\ Init /\ Proof!Init
    (* What does not run waits in one of its initial states.                *)
    /\ part # "check" => parentTip = p1 /\ childTip = c1
    /\ part # "proof" =>
         /\ tip = tip1 /\ kind = deposits
         /\ answer = [blockHash |-> tip1, dictionary |-> deposits, stateRoot |-> state1,
                      dictionaryRoot |-> tree, entries |-> {}]

CheckStep == part = "check" /\ Next /\ UNCHANGED <<part, proofVars>>
ProofStep == part = "proof" /\ Proof!Next /\ UNCHANGED <<part, vars>>

(* A verification that has ended rests.                                     *)
ProofRests == part = "proof" /\ stage \in {"accepted", "rejected"} /\ UNCHANGED all

AllSpec ==
    /\ AllInit /\ [][CheckStep \/ ProofStep \/ ProofRests]_all
    /\ WF_vars(part = "check" /\ Check)

----------------------------------------------------------------------------
(* What StateProof states of the proofs, and OrderCheck of each check.      *)

(* A verified claim is what the expected block's dictionary holds (node.ts, *)
(* verifySparseProof).                                                      *)
ClaimsHold == Proof!ClaimsHold

(* A true claim about a tree the answer brings whole is verified (node.ts,  *)
(* verifySparseProof).                                                      *)
TrueClaimsAreVerified == Proof!TrueClaimsAreVerified

(* However the chains move, a check ends (node.ts, withStableTip).          *)
ChecksEnd == part = "check" => CheckEnds

----------------------------------------------------------------------------
(* The blocks of the check                                                  *)

MCChain   == c1 :> {c1} @@ c2 :> {c1, c2} @@ c3 :> {c1, c2, c3} @@ d2 :> {c1, d2}
MCCommits == p1 :> c1 @@ p2 :> c2 @@ q2 :> d2
MCLocked  == c1 :> {1, 2} @@ c2 :> {1, 2, 3} @@ c3 :> {1, 3} @@ d2 :> {1, 3}
MCPaid    == p1 :> {} @@ p2 :> {3} @@ q2 :> {}

----------------------------------------------------------------------------
(* The trees of the proof                                                   *)

MCPostState  == tip1 :> state1 @@ tip2 :> state2
MCDictionary == state1 :> (deposits :> tree @@ receipts :> twice)
             @@ state2 :> (deposits :> cycle @@ receipts :> broken)

Node(prefix, value, children) == [prefix |-> prefix, value |-> value, children |-> children]
Child(char, c) == [key |-> char, cid |-> c]

MCContent ==
    tree    :> Node(<<>>, Absent, <<Child(a, nodeA), Child(b, nodeBB)>>)
 @@ nodeA   :> Node(<<a>>, v, <<Child(a, nodeAAB)>>)
 @@ nodeAAB :> Node(<<a, b>>, v, <<>>)
 @@ nodeBB  :> Node(<<b, b>>, v, <<>>)
 @@ twice   :> Node(<<>>, Absent, <<Child(a, nodeA), Child(a, nodeAAB)>>)
 @@ cycle   :> Node(<<>>, Absent, <<Child(a, cycle)>>)
 @@ broken  :> Node(<<>>, v, <<Child(a, noNode), Child(b, noList)>>)
 @@ noList  :> Node(<<b>>, Absent, NoList)
 @@ noNode  :> Undecodable

MCKeys == {<<>>, <<a>>, <<b>>, <<a, b>>, <<a, a, b>>, <<b, b>>, <<b, b, a>>, <<b, a>>}

MCHeight == [c \in CIDs |-> CASE c \in {tree, twice, broken} -> 2 [] c = nodeA -> 1 [] OTHER -> 0]

(* The words at the ends of each node's paths; of what lies behind doubled  *)
(* children, behind the cycle and in what is no list no node says anything. *)
MCHolds ==
    tree    :> {<<a>>, <<a, a, b>>, <<b, b>>}
 @@ nodeA   :> {<<a>>, <<a, a, b>>}
 @@ nodeAAB :> {<<a, b>>}
 @@ nodeBB  :> {<<b, b>>}
 @@ broken  :> {<<>>}

MCBelow == [c \in CIDs |-> [word \in Keys |->
               IF c \in DOMAIN MCHolds /\ word \in MCHolds[c] THEN v ELSE Absent]]
=============================================================================
