------------------------------ MODULE Fountain ------------------------------
(***************************************************************************)
(* Reading an animated QR code (src/src/lib/qr/ur.ts, urDecoder): a long   *)
(* message is cut into fragments and shown as parts, each the exclusive or *)
(* of some fragments.  A camera misses parts, sees some twice and starts   *)
(* anywhere; several codes may be shown to it.  Parts carry checksums, so  *)
(* one that is read is one that was shown.                                 *)
(*                                                                         *)
(* The data of a part is written as the set of fragments it is the         *)
(* exclusive or of.  Which fragments the sampler mixes into a part is left *)
(* open.  receive() works its queue off before it returns: Process steps   *)
(* come before anything else.                                              *)
(***************************************************************************)
EXTENDS Naturals, FiniteSets, Sequences, SequencesExt

CONSTANTS
    Messages,      \* long messages, all of one length here
    Short,         \* messages that fit in one part
    Fragments,
    None,
    MixedFactor    \* mixes kept per fragment: 4 in the code

FountainAssumption ==
    /\ IsFiniteSet(Fragments) /\ Cardinality(Fragments) > 1
    /\ Messages \cap Short = {}
    /\ None # "mismatch" /\ {None, "mismatch"} \cap (Messages \cup Short) = {}
    /\ MixedFactor \in Nat

VARIABLES
    meta,     \* the long message whose parts are collected
    simple,   \* parts reduced to one fragment, in the order they were found
    mixed,    \* parts still of several, in order
    seen,     \* seenMixed: the mixes that were received
    queue,    \* parts to process
    result,   \* the message read, "mismatch" when the fragments do not fit it
    scanned,  \* history: what the parts received were mixed from
    full      \* history: a mix was dropped for want of room

vars == <<meta, simple, mixed, seen, queue, result, scanned, full>>

Part(indexes) == [indexes |-> indexes, data |-> indexes]

Init ==
    /\ meta = None /\ simple = <<>> /\ mixed = <<>> /\ seen = {} /\ queue = <<>>
    /\ result = None /\ scanned = {} /\ full = FALSE

Single(part) == \E fragment \in Fragments : part.indexes = {fragment}

Known == UNION {part.indexes : part \in ToSet(simple)}

Xor(one, two) == (one \ two) \cup (two \ one)

Reduce(part, by) ==
    IF by.indexes \subseteq part.indexes
    THEN [indexes |-> part.indexes \ by.indexes, data |-> Xor(part.data, by.data)]
    ELSE part

(* A part reduced by others, one after the other.                           *)
Reduced(part, parts) ==
    LET after[n \in 0 .. Len(parts)] ==
            IF n = 0 THEN part ELSE Reduce(after[n - 1], parts[n])
    IN  after[Len(parts)]

(* Every fragment is known: the message is what they hold.                  *)
Finish(parts) ==
    IF \A part \in ToSet(parts) : part.data = part.indexes THEN meta ELSE "mismatch"

(* The mixes reduced by a new part; those left with one fragment are queued.*)
Sorted(by) ==
    LET after[n \in 0 .. Len(mixed)] ==
            IF n = 0 THEN [mixed |-> <<>>, queue |-> Tail(queue)]
            ELSE LET mix == Reduce(mixed[n], by)
                 IN  IF Single(mix)
                     THEN [after[n - 1] EXCEPT !.queue = Append(@, mix)]
                     ELSE [after[n - 1] EXCEPT !.mixed = Append(@, mix)]
    IN  after[Len(mixed)]

----------------------------------------------------------------------------
(* receive()                                                                *)

ReceiveSinglePart(message) ==
    /\ queue = <<>> /\ result = None
    /\ result' = message
    /\ UNCHANGED <<meta, simple, mixed, seen, queue, scanned, full>>

(* The first part decides whose parts are collected; others are rejected.   *)
(* A mix that was received before is not processed again.                   *)
Receive(message, indexes) ==
    /\ queue = <<>> /\ result = None
    /\ meta \in {None, message}
    /\ meta' = message
    /\ scanned' = scanned \cup {indexes}
    /\ IF indexes \in seen
       THEN UNCHANGED <<seen, queue>>
       ELSE /\ seen' = IF Single(Part(indexes)) THEN seen ELSE seen \cup {indexes}
            /\ queue' = <<Part(indexes)>>
    /\ UNCHANGED <<simple, mixed, result, full>>

(* Mutant: a new fragment is not tried on the mixes.                        *)
LearnOnly(part) ==
    /\ Single(part)
    /\ queue' = Tail(queue)
    /\ IF part.indexes \subseteq Known
       THEN UNCHANGED <<simple, result>>
       ELSE /\ simple' = Append(simple, part)
            /\ result' = IF Known' = Fragments THEN Finish(simple') ELSE None
    /\ UNCHANGED <<mixed, seen, full>>

Learn(part) ==
    /\ Single(part)
    /\ \/ /\ part.indexes \subseteq Known
          /\ queue' = Tail(queue) /\ UNCHANGED <<simple, mixed, result>>
       \/ /\ ~(part.indexes \subseteq Known) /\ simple' = Append(simple, part)
          /\ IF Known' = Fragments
             THEN result' = Finish(simple') /\ queue' = Tail(queue) /\ mixed' = mixed
             ELSE LET sorted == Sorted(part)
                  IN  result' = None /\ queue' = sorted.queue /\ mixed' = sorted.mixed
    /\ UNCHANGED <<seen, full>>

Room == Len(mixed) < MixedFactor * Cardinality(Fragments)

(* A mix is reduced by all that is known, then by the other mixes, and then *)
(* reduces those.                                                           *)
Mix(part) ==
    LET reduced == Reduced(part, simple \o mixed)
    IN  /\ ~Single(part)
        /\ \/ /\ reduced.indexes = {}
              /\ queue' = Tail(queue) /\ UNCHANGED <<mixed, full>>
           \/ /\ Single(reduced)
              /\ queue' = Append(Tail(queue), reduced) /\ UNCHANGED <<mixed, full>>
           \/ /\ reduced.indexes # {} /\ ~Single(reduced) /\ ~Room
              /\ queue' = Tail(queue) /\ full' = TRUE /\ UNCHANGED mixed
           \/ /\ reduced.indexes # {} /\ ~Single(reduced) /\ Room
              /\ LET sorted == Sorted(reduced)
                 IN  queue' = sorted.queue /\ mixed' = Append(sorted.mixed, reduced)
              /\ full' = full
        /\ UNCHANGED <<simple, seen, result>>

Process ==
    /\ queue # <<>> /\ result = None
    /\ Learn(Head(queue)) \/ Mix(Head(queue))
    /\ UNCHANGED <<meta, scanned>>

(* A new scan has a new decoder.                                            *)
StartOver ==
    /\ queue = <<>> \/ result # None
    /\ meta' = None /\ simple' = <<>> /\ mixed' = <<>> /\ seen' = {} /\ queue' = <<>>
    /\ result' = None /\ scanned' = {} /\ full' = FALSE

Next ==
    \/ \E message \in Short : ReceiveSinglePart(message)
    \/ \E message \in Messages, indexes \in SUBSET Fragments \ {{}} : Receive(message, indexes)
    \/ Process
    \/ StartOver

Spec == Init /\ [][Next]_vars

----------------------------------------------------------------------------
(* Properties                                                               *)

(* Whatever parts are mixed, missed, repeated or out of order, what is held *)
(* for a set of fragments is their exclusive or, so a message that is read  *)
(* never fails its checksum (ur.ts reduce, process, finish).                *)
HoldsWhatWasSent ==
    /\ \A part \in ToSet(simple \o mixed \o queue) : part.data = part.indexes
    /\ result # "mismatch"

(* docs/qr-formats.md: printed, a message is its plain fragments; "scanning *)
(* all of them, in any order, completes it", whatever mixes were scanned    *)
(* before and dropped.                                                      *)
AllFragmentsComplete ==
    queue = <<>> /\ {{fragment} : fragment \in Fragments} \subseteq scanned => result # None

(* What can be found by taking known fragments out of the mixes received,   *)
(* as the least set closed under doing so.                                  *)
Peeled(mixes) ==
    {fragment \in Fragments :
        \A found \in SUBSET Fragments :
            (\A mix \in mixes : \A other \in mix : mix \ {other} \subseteq found => other \in found)
            => fragment \in found}

(* "A scanner that drops frames still completes" (docs/qr-formats.md): until*)
(* a mix is dropped for want of room, the decoder has found every fragment  *)
(* that the parts it received, in whatever order, give away.                *)
FindsAllThatFollows ==
    queue = <<>> /\ result = None /\ ~full => Peeled(scanned) \subseteq Known
=============================================================================
