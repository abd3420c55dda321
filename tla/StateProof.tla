----------------------------- MODULE StateProof -----------------------------
(***************************************************************************)
(* The verification of a node's state proof (src/src/lib/wallet/node.ts,   *)
(* verifyStateProof and verifySparseProof).  A node answers for a block    *)
(* with claims of what keys of one of its dictionaries hold; the answer is *)
(* anchored in the block the wallet expects, and each claim is walked down *)
(* the dictionary's radix tree through the tree nodes the answer brings.   *)
(*                                                                         *)
(* Everything is content-addressed: a CID stands for one content, whoever  *)
(* sends it, and an answer only chooses which contents it brings.          *)
(***************************************************************************)
EXTENDS Naturals, Sequences, FiniteSets

CONSTANTS
    Tips, States, Kinds,   \* block hashes, state roots, dictionaries
    PostState,             \* the state root in each block
    Dictionary,            \* the dictionaries' roots in each state
    CIDs, Content,         \* the tree nodes
    Chars, Keys, Values,
    Absent,                \* no value
    Undecodable, NoList,   \* a content that is no node, children that are no list of nodes
    Below,                 \* what each tree node says of each key: its dictionary
    Height,                \* the longest path below a node, if there is one
    MaxClaims              \* bound: claims of one answer

Nodes == [prefix : Seq(Chars), value : Values \cup {Absent},
          children : Seq([key : Chars, cid : CIDs]) \cup {NoList}]

Drop(word, length) == SubSeq(word, length + 1, Len(word))

StartsWith(word, prefix) == Len(prefix) <= Len(word) /\ SubSeq(word, 1, Len(prefix)) = prefix

ChildrenAt(node, char) == {i \in DOMAIN node.children : node.children[i].key = char}

(* A node says of a key what is at the end of the only path with its        *)
(* characters; of two children with one character it says nothing.          *)
Says(node, word, value) ==
    LET rest == Drop(word, Len(node.prefix)) IN
    IF ~StartsWith(word, node.prefix) THEN value = Absent
    ELSE IF rest = <<>> THEN value = node.value
    ELSE node.children # NoList =>
         /\ ChildrenAt(node, rest[1]) = {} => value = Absent
         /\ \A i \in ChildrenAt(node, rest[1]) :
              ChildrenAt(node, rest[1]) = {i} => value = Below[node.children[i].cid][rest]

StateProofAssumption ==
    /\ PostState \in [Tips -> States]
    /\ Dictionary \in [States -> [Kinds -> CIDs]]
    /\ Content \in [CIDs -> Nodes \cup {Undecodable}]
    /\ Keys \subseteq Seq(Chars)
    /\ \A word \in Keys : \A length \in 0 .. Len(word) : Drop(word, length) \in Keys
    /\ Below \in [CIDs -> [Keys -> Values \cup {Absent}]]
    /\ Height \in [CIDs -> Nat]
    /\ MaxClaims \in Nat

BelowAssumption ==
    \A c \in CIDs, word \in Keys : Content[c] # Undecodable => Says(Content[c], word, Below[c][word])

VARIABLES
    tip, kind,   \* the block and the dictionary the wallet asks about
    answer,      \* the node's answer, its claims left aside
    at,          \* the part of the verification that is next, or how it ended
    claims,      \* the keys verified so far, with their values
    key, expected,            \* the claim that is walked
    cid, remaining, visited   \* the node it has come to, the rest of the key, the nodes before

asked == <<tip, kind, answer>>
claim == <<key, expected>>
place == <<cid, remaining, visited>>
vars  == <<tip, kind, answer, at, claims, key, expected, cid, remaining, visited>>

Answers == [blockHash : Tips, dictionary : Kinds, stateRoot : States, dictionaryRoot : CIDs,
            entries : SUBSET CIDs]

NoClaims == [k \in {} |-> Absent]

Init ==
    /\ tip \in Tips /\ kind \in Kinds /\ answer \in Answers
    /\ at = "anchor" /\ claims = NoClaims
    /\ key = <<>> /\ expected = Absent
    /\ cid = answer.dictionaryRoot /\ remaining = <<>> /\ visited = {}

End(how) == at' = how /\ UNCHANGED <<asked, claims, claim, place>>

----------------------------------------------------------------------------
(* verifyStateProof                                                         *)

(* Block, state and dictionary each name the next by its hash.              *)
Anchored ==
    /\ answer.blockHash = tip /\ answer.dictionary = kind
    /\ PostState[tip] = answer.stateRoot
    /\ Dictionary[answer.stateRoot][kind] = answer.dictionaryRoot

Anchor ==
    /\ at = "anchor"
    /\ End(IF Anchored THEN "claim" ELSE "rejected")

(* The next claim; a key may not be claimed twice.  The answer's contents   *)
(* must include the root (verifyVolume).                                    *)
Claim(k, value) ==
    /\ at = "claim" /\ Cardinality(DOMAIN claims) < MaxClaims
    /\ key' = k /\ expected' = value
    /\ cid' = answer.dictionaryRoot /\ remaining' = k /\ visited' = {}
    /\ at' = IF k \notin DOMAIN claims /\ answer.dictionaryRoot \in answer.entries
             THEN "walk" ELSE "rejected"
    /\ UNCHANGED <<asked, claims>>

Accept == at = "claim" /\ End("accepted")

----------------------------------------------------------------------------
(* verifySparseProof: one turn of its loop                                  *)

(* The walk ends with what the dictionary has for the key.                  *)
Find(value) ==
    IF value = expected
    THEN /\ claims' = [k \in DOMAIN claims \cup {key} |-> IF k = key THEN value ELSE claims[k]]
         /\ at' = "claim" /\ UNCHANGED <<asked, claim, place>>
    ELSE End("rejected")

(* Mutant: the character that chose the child is taken off the key, too.    *)
GoPast(next, rest) ==
    /\ cid' = next /\ remaining' = Drop(rest, 1) /\ visited' = visited \cup {cid}
    /\ UNCHANGED <<asked, at, claims, claim>>

GoTo(next, rest) ==
    /\ cid' = next /\ remaining' = rest /\ visited' = visited \cup {cid}
    /\ UNCHANGED <<asked, at, claims, claim>>

(* Mutant: what the answer leaves out is absent.                            *)
FollowOrAbsent(next, rest) ==
    IF next \in answer.entries THEN GoTo(next, rest) ELSE Find(Absent)

Follow(next, rest) ==
    IF next \in answer.entries THEN GoTo(next, rest) ELSE End("rejected")

Descend(node, rest) ==
    LET matching == ChildrenAt(node, rest[1]) IN
    \/ node.children = NoList /\ End("rejected")
    \/ node.children # NoList /\ matching = {} /\ Find(Absent)
    \/ node.children # NoList /\ \E i \in matching : matching = {i} /\ Follow(node.children[i].cid, rest)
    \/ node.children # NoList /\ (\E i, j \in matching : i # j) /\ End("rejected")

Visit(node, rest) ==
    \/ ~StartsWith(remaining, node.prefix) /\ Find(Absent)
    \/ StartsWith(remaining, node.prefix) /\ rest = <<>> /\ Find(node.value)
    \/ StartsWith(remaining, node.prefix) /\ rest # <<>> /\ Descend(node, rest)

Walk ==
    /\ at = "walk"
    /\ IF cid \in visited \/ cid \notin answer.entries \/ Content[cid] = Undecodable
       THEN End("rejected")
       ELSE Visit(Content[cid], Drop(remaining, Len(Content[cid].prefix)))

Next ==
    \/ Anchor \/ Accept \/ Walk
    \/ \E k \in Keys, value \in Values \cup {Absent} : Claim(k, value)

Spec == Init /\ [][Next]_vars

----------------------------------------------------------------------------
(* Properties                                                               *)

Root == Dictionary[PostState[tip]][kind]

TypeOK ==
    /\ tip \in Tips /\ kind \in Kinds /\ answer \in Answers
    /\ at \in {"anchor", "claim", "walk", "accepted", "rejected"}
    /\ DOMAIN claims \subseteq Keys /\ \A k \in DOMAIN claims : claims[k] \in Values \cup {Absent}
    /\ expected \in Values \cup {Absent}
    /\ cid \in CIDs /\ visited \subseteq answer.entries
    /\ at = "walk" => key \in Keys /\ remaining \in Keys /\ cid \in answer.entries

(* Whatever an answer brings or leaves out, a verified claim is what the    *)
(* expected block's dictionary holds, and a key verified absent is absent.  *)
ClaimsHold == \A k \in DOMAIN claims : claims[k] = Below[Root][k]

Linked(node) == {node.children[i].cid : i \in DOMAIN node.children}

(* A dictionary as a node keeps it: a tree of nodes with one child each for *)
(* the characters that go on from them.                                     *)
IsTree(tree) ==
    \A c \in tree :
        /\ Content[c] # Undecodable /\ Content[c].children # NoList
        /\ \A i, j \in DOMAIN Content[c].children :
             Content[c].children[i].key = Content[c].children[j].key => i = j
        /\ \A next \in Linked(Content[c]) : next \in tree /\ Height[next] < Height[c]

(* True claims are not refused: an answer is rejected only if it is not     *)
(* about what was asked, claims a key twice or wrongly, or leaves out a     *)
(* part of the tree.                                                        *)
TrueClaimsAreVerified ==
    at = "rejected" =>
        \/ ~Anchored
        \/ key \in DOMAIN claims
        \/ expected # Below[Root][key]
        \/ \A tree \in SUBSET answer.entries : ~(Root \in tree /\ IsTree(tree))
=============================================================================
