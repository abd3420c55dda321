------------------------------ MODULE Scanner ------------------------------
(***************************************************************************)
(* One QR input of a screen (src/src/popup/scanner.ts): a camera read frame*)
(* by frame, files and pasted text, all of which feed decoded texts to the *)
(* screen until it has what it needs.                                      *)
(*                                                                         *)
(* A press of the camera's button starts a frame loop of its own, named by *)
(* the camera it opens; `camera' and `cancel' are shared by all presses, and*)
(* nothing keeps the user from pressing again before the first is granted. *)
(***************************************************************************)
EXTENDS Naturals

CONSTANTS
    Cameras,        \* one for each press of the button; bounds them
    None

ScannerAssumption == None \notin Cameras

VARIABLES
    connected,    \* the scanner is on the page
    done,         \* no text is wanted any more
    pressed,      \* presses so far
    opening,      \* cameras asked for and not yet granted or refused
    on,           \* cameras that are recording
    camera,       \* the one the scanner would stop
    loops,        \* frame loops that run
    cancel,       \* the one the scanner would cancel
    reading,      \* loops with a frame being read
    decoding,     \* a file is being decoded
    taken,        \* how often the screen took a text
    replaced      \* history: cameras that were on when another took their place

controls == <<on, camera, loops, cancel>>
vars     == <<connected, done, pressed, opening, on, camera, loops, cancel, reading, decoding, taken, replaced>>

Init ==
    /\ connected = TRUE /\ done = FALSE
    /\ pressed = {} /\ opening = {} /\ on = {} /\ camera = None
    /\ loops = {} /\ cancel = None /\ reading = {} /\ decoding = FALSE
    /\ taken = 0 /\ replaced = {}

stop ==
    /\ loops' = loops \ {cancel} /\ cancel' = None
    /\ on' = on \ {camera} /\ camera' = None

(* A text is of no use, or is what the screen needs, which then shows       *)
(* another, or is one no further text can help.                             *)
feed ==
    \/ UNCHANGED <<connected, done, taken, controls>>
    \/ ~done /\ connected' = FALSE /\ done' = TRUE /\ taken' = taken + 1 /\ stop
    \/ ~done /\ done' = TRUE /\ stop /\ UNCHANGED <<connected, taken>>

startCamera ==
    /\ connected
    /\ \E c \in Cameras \ pressed : pressed' = pressed \cup {c} /\ opening' = opening \cup {c}
    /\ UNCHANGED <<connected, done, controls, reading, decoding, taken, replaced>>

(* Mutant: no frame loop watches the page.                                  *)
OpenedAndReadOnce(c) ==
    /\ c \in opening /\ opening' = opening \ {c}
    /\ on' = on \cup {c} /\ camera' = c /\ UNCHANGED <<loops, cancel>>
    /\ replaced' = replaced \cup ({camera} \ {None})
    /\ UNCHANGED <<connected, done, pressed, reading, decoding, taken>>

Opened(c) ==
    /\ c \in opening /\ opening' = opening \ {c}
    /\ on' = on \cup {c} /\ camera' = c
    /\ replaced' = replaced \cup ({camera} \ {None})
    /\ loops' = loops \cup {c} /\ cancel' = c
    /\ UNCHANGED <<connected, done, pressed, reading, decoding, taken>>

Refused(c) ==
    /\ c \in opening /\ opening' = opening \ {c}
    /\ UNCHANGED <<connected, done, pressed, controls, reading, decoding, taken, replaced>>

Frame(c) ==
    /\ c \in loops
    /\ \/ ~connected /\ stop /\ reading' = reading
       \/ connected /\ c \notin reading /\ camera # None /\ reading' = reading \cup {c} /\ UNCHANGED controls
    /\ UNCHANGED <<connected, done, pressed, opening, decoding, taken, replaced>>

(* A frame has a code, or none, or could not be read.                       *)
FrameRead(c) ==
    /\ c \in reading /\ reading' = reading \ {c}
    /\ feed
    /\ UNCHANGED <<pressed, opening, decoding, replaced>>

loadFile ==
    /\ connected /\ ~decoding /\ decoding' = TRUE
    /\ UNCHANGED <<connected, done, pressed, opening, controls, reading, taken, replaced>>

FileRead ==
    /\ decoding /\ decoding' = FALSE
    /\ feed
    /\ UNCHANGED <<pressed, opening, reading, replaced>>

Paste ==
    /\ connected
    /\ feed
    /\ UNCHANGED <<pressed, opening, reading, decoding, replaced>>

(* A Cancel button stops the scanner first; another screen may also come    *)
(* over it without that.                                                    *)
Leave ==
    /\ connected /\ connected' = FALSE
    /\ stop \/ UNCHANGED controls
    /\ UNCHANGED <<done, pressed, opening, reading, decoding, taken, replaced>>

Next ==
    \/ startCamera \/ loadFile \/ FileRead \/ Paste \/ Leave
    \/ \E c \in Cameras : Opened(c) \/ Refused(c) \/ Frame(c) \/ FrameRead(c)

(* The browser answers a request for a camera, and shows the page.          *)
Fairness == \A c \in Cameras : WF_vars(Opened(c) \/ Refused(c)) /\ WF_vars(Frame(c)) /\ WF_vars(FrameRead(c))

Spec == Init /\ [][Next]_vars /\ Fairness

----------------------------------------------------------------------------
(* Properties                                                               *)

TypeOK ==
    /\ connected \in BOOLEAN /\ done \in BOOLEAN /\ decoding \in BOOLEAN
    /\ pressed \subseteq Cameras /\ opening \subseteq pressed /\ on \subseteq pressed \ opening
    /\ camera \in on \cup {None}
    /\ loops \subseteq pressed \ opening /\ cancel \in loops \cup {None}
    /\ reading \subseteq pressed
    /\ taken \in Nat /\ replaced \subseteq pressed

(* Whatever the camera, files and pasted texts deliver, and however late,   *)
(* the screen is left for another one once (scanner.ts:56).                 *)
TakenOnce == taken <= 1

(* Once another screen is shown no camera records, though one may be granted*)
(* only then and though no one stopped the scanner (scanner.ts:3, "the      *)
(* camera stops as soon as it is, or when the scanner leaves the page").  A *)
(* claim: a second press before the first camera is granted, or while it is *)
(* on, leaves the first one without anybody who stops it.                   *)
LeftIsOff == ~connected ~> [](on = {})

(* Such a camera alone goes on: whatever is granted, refused, read or left  *)
(* and in whatever order, the last one granted and its loop are stopped, so *)
(* that a scanner whose button was pressed once at a time is off.           *)
LeftIsOffUnlessReplaced == ~connected ~> [](on \subseteq replaced)
=============================================================================
