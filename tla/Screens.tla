------------------------------ MODULE Screens ------------------------------
(***************************************************************************)
(* A page's way from the home screen to a sent transfer (src/src/popup/    *)
(* app.ts, mainScreen, sendFlow, reviewScreen, feeScreen).  Screens await  *)
(* the signer and the node, and are left, or drawn over, meanwhile.  Other *)
(* pages change what is stored and the active account; the page takes over *)
(* the stored settings whenever it saves anything itself, in the           *)
(* background too.                                                         *)
(*                                                                         *)
(* Every chain has a node.  A cookie is named after the node it belongs    *)
(* to.  What the signer answers about cookies and accounts is read in the  *)
(* step that uses it.                                                      *)
(***************************************************************************)
EXTENDS Naturals, FiniteSets

CONSTANTS
    Accounts, Chains, Nodes, None,
    Serving,       \* the nodes that a chain may be read from
    MaxOpenings,   \* bound: home screens that await a cookie
    MaxFlows       \* bound: account reads and signings under way, together

ScreensAssumption ==
    None \notin Accounts \cup Chains \cup Nodes /\ Serving \in [Chains -> SUBSET Nodes]

Settings ==
    [chain : Chains, node : {f \in [Chains -> Nodes] : \A c \in Chains : f[c] \in Serving[c]}]

(* A screen, with the values its handlers have in their closures.           *)
Shown == [at : {"start", "home", "send", "review", "fee", "sent"}, account : Accounts,
          chain : Chains, node : Nodes, cookie : Nodes \cup {None}]

VARIABLES
    stored,     \* the settings in storage
    settings,   \* the page's copy
    active,     \* the signer's active account
    account,    \* the page's copy, activeAccount()
    auth,       \* nodeAuth
    authURL,    \* nodeAuthURL
    screen,
    refreshing, \* a refresh awaits the signer
    openings,   \* home screens that await their node's cookie, with the screen they began under
    reading,    \* prepareReview, for the send screen's values
    signing,    \* confirm, for the review's values
    requests,   \* what the last step sent to nodes
    signed,     \* what it signed and submitted, with the review the user confirmed
    feeFor      \* what it saved a default fee for, with the chain the screen named

world   == <<stored, active>>
held    == <<settings, account, auth, authURL>>
waiting == <<reading, signing>>
effects == <<requests, signed, feeFor>>
vars    == <<world, held, screen, refreshing, openings, waiting, effects>>

Here(at) == [at |-> at, account |-> account, chain |-> settings.chain,
             node |-> settings.node[settings.chain], cookie |-> None]

Init ==
    /\ stored \in Settings /\ settings = stored
    /\ active \in Accounts /\ account = active
    /\ auth = None /\ authURL = None
    /\ screen = Here("start") /\ refreshing = TRUE
    /\ openings = {} /\ reading = {} /\ signing = {}
    /\ requests = {} /\ signed = {} /\ feeFor = {}

Quiet == requests' = {} /\ signed' = {} /\ feeFor' = {}
Sends(rs) == requests' = rs /\ signed' = {} /\ feeFor' = {}

(* authorizationFor: the node's own cookie, if it has one and the wallet is *)
(* open.                                                                    *)
CookiesOf(node) == {None, node}

(* client: the cookie the last home screen read, if it is the node's.       *)
ClientCookie(url) == IF authURL = url THEN auth ELSE None

(* A new screen; openings that began before it give up when they wake.      *)
Render(s) ==
    /\ screen' = s
    /\ openings' = {[o EXCEPT !.current = FALSE] : o \in openings}

(* mainScreen, up to its first await, after the page's copies changed.      *)
Open ==
    LET o == [Here("home")' EXCEPT !.at = screen.at] IN
    /\ Cardinality(openings) < MaxOpenings
    /\ openings' = openings \cup {[shows |-> o, current |-> TRUE]}
    /\ screen' = screen

Back ==
    /\ screen.at \notin {"start", "home"}
    /\ UNCHANGED held /\ Open
    /\ Quiet /\ UNCHANGED <<world, refreshing, waiting>>

(* Mutant: the version is not looked at again after the await.              *)
OpenedAnyway(o, cookie) ==
    /\ o \in openings /\ cookie \in CookiesOf(o.shows.node)
    /\ auth' = cookie /\ authURL' = o.shows.node
    /\ screen' = [o.shows EXCEPT !.at = "home", !.cookie = cookie]
    /\ openings' = {[p EXCEPT !.current = FALSE] : p \in openings \ {o}}
    /\ Sends({[to |-> o.shows.node, cookie |-> cookie]})
    /\ UNCHANGED <<world, settings, account, refreshing, waiting>>

(* The cookie arrives: it is kept even if the screen is given up, else the  *)
(* home screen is drawn and reads the balance.                              *)
Opened(o, cookie) ==
    /\ o \in openings /\ cookie \in CookiesOf(o.shows.node)
    /\ auth' = cookie /\ authURL' = o.shows.node
    /\ \/ /\ o.current
          /\ screen' = [o.shows EXCEPT !.at = "home", !.cookie = cookie]
          /\ openings' = {[p EXCEPT !.current = FALSE] : p \in openings \ {o}}
          /\ Sends({[to |-> o.shows.node, cookie |-> cookie]})
       \/ /\ ~o.current /\ openings' = openings \ {o}
          /\ Quiet /\ UNCHANGED screen
    /\ UNCHANGED <<world, settings, account, refreshing, waiting>>

loadBalance ==
    /\ screen.at = "home"
    /\ Sends({[to |-> screen.node, cookie |-> screen.cookie]})
    /\ UNCHANGED <<world, held, screen, refreshing, openings, waiting>>

(* The account picker: setActive, then refresh.                             *)
PickAccount(a) ==
    /\ screen.at = "home" /\ ~refreshing
    /\ active' = a /\ refreshing' = TRUE
    /\ Quiet /\ UNCHANGED <<stored, held, screen, openings, waiting>>

refresh ==
    /\ refreshing /\ refreshing' = FALSE
    /\ account' = active /\ settings' = stored
    /\ UNCHANGED <<auth, authURL>> /\ Open
    /\ Quiet /\ UNCHANGED <<world, waiting>>

(* The chain menu, on every screen, lists the child chains the node knows.  *)
toggleChainMenu ==
    /\ screen.at # "start"
    /\ Sends({[to |-> Here("home").node, cookie |-> ClientCookie(Here("home").node)]})
    /\ UNCHANGED <<world, held, screen, refreshing, openings, waiting>>

switchToChain(chain) ==
    /\ screen.at # "start" /\ chain # settings.chain
    /\ stored' = [stored EXCEPT !.chain = chain] /\ settings' = stored'
    /\ UNCHANGED <<active, account, auth, authURL>> /\ Open
    /\ Quiet /\ UNCHANGED <<refreshing, waiting>>

sendFlow ==
    /\ screen.at = "home"
    /\ Render(Here("send"))
    /\ \E cookie \in CookiesOf(Here("send").node) : Sends({[to |-> Here("send").node, cookie |-> cookie]})
    /\ UNCHANGED <<world, held, refreshing, waiting>>

MoreFlows == Cardinality(reading) + Cardinality(signing) < MaxFlows

prepareReview ==
    /\ screen.at = "send"
    /\ MoreFlows /\ reading' = reading \cup {screen}
    /\ Quiet /\ UNCHANGED <<world, held, screen, refreshing, openings, signing>>

(* The account's nonce and balance arrive, or do not: the review is drawn   *)
(* whatever the user went to meanwhile.                                     *)
Reviewed(s) ==
    /\ s \in reading /\ reading' = reading \ {s}
    /\ \E cookie \in CookiesOf(s.node) : Sends({[to |-> s.node, cookie |-> cookie]})
    /\ Render([s EXCEPT !.at = "review"]) \/ UNCHANGED <<screen, openings>>
    /\ UNCHANGED <<world, held, refreshing, signing>>

confirm ==
    /\ screen.at = "review"
    /\ MoreFlows /\ signing' = signing \cup {screen}
    /\ Quiet /\ UNCHANGED <<world, held, screen, refreshing, openings, reading>>

Refused(s) ==
    /\ s \in signing /\ signing' = signing \ {s}
    /\ Quiet /\ UNCHANGED <<world, held, screen, refreshing, openings, reading>>

(* Mutant: the transfer is made for what the page has selected by now.      *)
SubmitSelected(s, cookie) ==
    /\ s \in signing /\ signing' = signing \ {s} /\ cookie \in CookiesOf(s.node)
    /\ settings' = stored
    /\ signed' = {[reviewed |-> s, account |-> account, chain |-> settings.chain, node |-> s.node]}
    /\ requests' = {[to |-> s.node, cookie |-> cookie]} /\ feeFor' = {}
    /\ Render([s EXCEPT !.at = "sent"])
    /\ UNCHANGED <<world, account, auth, authURL, refreshing, reading>>

(* The transfer is signed and saved, which takes over the stored settings,  *)
(* and submitted.                                                           *)
Submit(s, cookie) ==
    /\ s \in signing /\ signing' = signing \ {s} /\ cookie \in CookiesOf(s.node)
    /\ settings' = stored
    /\ signed' = {[reviewed |-> s, account |-> s.account, chain |-> s.chain, node |-> s.node]}
    /\ requests' = {[to |-> s.node, cookie |-> cookie]} /\ feeFor' = {}
    /\ Render([s EXCEPT !.at = "sent"])
    /\ UNCHANGED <<world, account, auth, authURL, refreshing, reading>>

(* From the home screen, by way of the settings screen.                     *)
feeScreen ==
    /\ screen.at = "home"
    /\ Render(Here("fee"))
    /\ Sends({[to |-> Here("fee").node, cookie |-> ClientCookie(Here("fee").node)]})
    /\ UNCHANGED <<world, held, refreshing, waiting>>

SaveFee ==
    /\ screen.at = "fee"
    /\ feeFor' = {[shown |-> screen.chain, saved |-> settings.chain]}
    /\ settings' = stored /\ requests' = {} /\ signed' = {}
    /\ UNCHANGED <<account, auth, authURL>> /\ Open
    /\ UNCHANGED <<world, refreshing, waiting>>

(* Another page selects a chain, a node or an account.                      *)
Elsewhere ==
    /\ \/ stored' \in Settings /\ active' = active
       \/ active' \in Accounts /\ stored' = stored
    /\ Quiet /\ UNCHANGED <<held, screen, refreshing, openings, waiting>>

(* update, of a reconciliation in the background.                           *)
Adopt ==
    /\ settings' = stored
    /\ Quiet /\ UNCHANGED <<world, account, auth, authURL, screen, refreshing, openings, waiting>>

Next ==
    \/ Back \/ loadBalance \/ refresh \/ sendFlow \/ prepareReview \/ confirm
    \/ toggleChainMenu \/ feeScreen \/ SaveFee \/ Elsewhere \/ Adopt
    \/ \E a \in Accounts : PickAccount(a)
    \/ \E c \in Chains : switchToChain(c)
    \/ \E s \in reading : Reviewed(s)
    \/ \E s \in signing : Refused(s)
    \/ \E n \in Nodes \cup {None} :
          (\E o \in openings : Opened(o, n)) \/ (\E s \in signing : Submit(s, n))

Spec == Init /\ [][Next]_vars

----------------------------------------------------------------------------
(* Properties                                                               *)

TypeOK ==
    /\ stored \in Settings /\ settings \in Settings
    /\ active \in Accounts /\ account \in Accounts
    /\ auth \in Nodes \cup {None} /\ authURL \in Nodes \cup {None}
    /\ screen \in Shown /\ reading \subseteq Shown /\ signing \subseteq Shown
    /\ refreshing \in BOOLEAN
    /\ openings \subseteq [shows : Shown, current : BOOLEAN]
    /\ \A o \in openings : o.current => o.shows.at = screen.at
    /\ requests \subseteq [to : Nodes, cookie : Nodes \cup {None}]

(* What is signed, and the node it goes to, are those of the review that    *)
(* was confirmed, whatever other pages or the background selected meanwhile *)
(* (app.ts:1785; test/wallet-ui-e2e.test.ts:564).                           *)
SentAsReviewed ==
    \A r \in signed : /\ r.account = r.reviewed.account /\ r.chain = r.reviewed.chain
                      /\ r.node = r.reviewed.node

(* A cookie is sent to its own node only (README.md:47-48), although the    *)
(* page keeps one in two variables that overlapping home screens assign     *)
(* (app.ts:133-138, 900-901).                                               *)
CookieToItsNode == \A r \in requests : r.cookie \in {None, r.to}

(* A home screen is drawn only over the screen mainScreen was called under: *)
(* it takes nobody away from one opened while it waited (app.ts:902).       *)
HomeOnRequest ==
    [][screen # screen' /\ screen'.at = "home" => \E o \in openings : o.shows.at = screen.at]_vars

(* The fee is saved for the chain the screen names: "The fee a new send on  *)
(* this chain starts with" (app.ts:2194).                                   *)
FeeAsShown == \A f \in feeFor : f.saved = f.shown
=============================================================================
