------------------------------- MODULE MCPage -------------------------------
(***************************************************************************)
(* What a page believes of the world, for TLC: which node serves a chain,  *)
(* the statuses it keeps for half a minute, and what its screens show.     *)
(* The modules share no variable, so a behaviour runs one of them.         *)
(***************************************************************************)
EXTENDS Endpoint, Naturals, TLC

CONSTANTS
    hosted, own, child, MaxStarts,               \* Endpoint
    Transfers, Attempts, Calls, MaxReceived,     \* StatusCache
    Accounts, MaxOpenings, MaxFlows              \* Screens

VARIABLES
    part,
    starts,   \* handlers started so far; bounds them
    recorded, sent, received, calls, resent, first, recent, cache, pass, view,
    selected, settings, active, account, auth, authURL, drawn, refreshing, openings,
    reading, signing, requests, signed, feeFor

cacheVars  == <<recorded, sent, received, calls, resent, first, recent, cache, pass, view>>
screenVars == <<selected, settings, active, account, auth, authURL, drawn, refreshing, openings,
                reading, signing, requests, signed, feeFor>>
all        == <<part, starts, vars, cacheVars, screenVars>>

(* A hosted node serves the root chain only, the user's own both.           *)
ServesSome == {<<hosted, Root>>, <<own, Root>>, <<own, child>>}

(* The nodes a chain may be read from.                                      *)
Serving == [chain \in Chains |-> {url \in Urls : <<url, chain>> \in Serves}]

Statuses == INSTANCE StatusCache WITH screen <- view
Screens  == INSTANCE Screens WITH
              stored <- selected, screen <- drawn, Nodes <- Urls

ASSUME PageAssumption == Statuses!StatusCacheAssumption /\ Screens!ScreensAssumption

AllInit ==
    /\ part \in {"node", "statuses", "screens"} /\ starts = 0
    /\ Init /\ Statuses!Init /\ Screens!Init
    (* StatusCache and Screens have several initial states, and wait in one.*)
    /\ part # "statuses" => recorded = {}
    /\ part # "screens" => selected = [chain |-> Root, node |-> [chain \in Chains |-> own]]

Started == {t \in Tasks : At(t, "idle") /\ task'[t].at # "idle"}

NodeStep ==
    /\ part = "node" /\ Next /\ UNCHANGED <<part, cacheVars, screenVars>>
    /\ starts' = starts + Cardinality(Started) /\ starts' <= MaxStarts

(* At the bound the pages may all be closed.                                *)
Rest == part = "node" /\ starts = MaxStarts /\ UNCHANGED all

StatusesStep == part = "statuses" /\ Statuses!Next /\ UNCHANGED <<part, starts, vars, screenVars>>
ScreensStep  == part = "screens" /\ Screens!Next /\ UNCHANGED <<part, starts, vars, cacheVars>>

AllSpec == AllInit /\ [][NodeStep \/ Rest \/ StatusesStep \/ ScreensStep]_all

(* Some parts alone.                                                        *)
NodeInit    == AllInit /\ part = "node"
BeliefInit  == AllInit /\ part # "screens"
ScreensInit == AllInit /\ part = "screens"

NodeSpec    == NodeInit /\ [][NodeStep \/ Rest]_all
BeliefSpec  == BeliefInit /\ [][NodeStep \/ Rest \/ StatusesStep]_all
ScreensSpec == ScreensInit /\ [][ScreensStep]_all

Symmetry == Permutations(Tasks) \cup Permutations(Pages) \cup Permutations(Calls)

----------------------------------------------------------------------------
(* What StatusCache states of the statuses, and Screens of what is shown.   *)

(* Neither the cache nor a screen has a status from before a rebroadcast    *)
(* that had returned when it was read or opened (app.ts:323).               *)
RebroadcastsAreKnown == Statuses!CacheKnowsRebroadcasts /\ Statuses!ShownKnowsRebroadcasts

(* What is signed, and the node it goes to, are those of the review that    *)
(* was confirmed, whatever was selected meanwhile (app.ts:1785).            *)
SentAsReviewed == Screens!SentAsReviewed

(* Home screens that wait at the same time: no node gets another's cookie,  *)
(* and none is drawn over a screen the user went to meanwhile               *)
(* (app.ts:133-143, 892-902).                                               *)
HomesDoNotMix == []Screens!CookieToItsNode /\ Screens!HomeOnRequest

(* The fee is saved for the chain the screen names (app.ts:2194).           *)
FeeAsShown == Screens!FeeAsShown
=============================================================================
