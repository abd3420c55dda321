------------------------------ MODULE Endpoint ------------------------------
(***************************************************************************)
(* Choosing the node a chain is read from and submitted to                 *)
(* (src/src/popup/app.ts).  A choice asks the browser for permission to    *)
(* reach the node, which closes a popup; asks the node which chain it      *)
(* serves; and saves it.  What is pending is saved first, so that the page *)
(* resumes it when it opens again.  Wallet pages share the stored settings *)
(* and each works on its own copy, which its own updates refresh.          *)
(*                                                                         *)
(* A handler that waits for the node, the browser or storage leaves its    *)
(* page usable: the node screen's buttons, those of a list of nodes, the   *)
(* header's chain menu and settings start others meanwhile, so a page runs *)
(* as many as there are Tasks.  What a node serves does not change, but it *)
(* may stop answering, or accepting transactions, at any time.  Discovery  *)
(* may name any node.  Automatic or custom choice is up to the user at any *)
(* time, so both are always possible; the host of an own node is left out. *)
(***************************************************************************)
EXTENDS FiniteSets

CONSTANTS
    Pages,
    Tasks,     \* handlers that may be waiting at a time
    Root,      \* the root chain, "Nexus" in the code
    Children,  \* child chains
    Urls,
    Hosted,    \* nodes that need no permission
    Loopback,  \* nodes on this computer, whose cookie the user may paste
    Serves,    \* which node serves which chain
    None

Chains == Children \cup {Root}

ASSUME EndpointAssumption ==
    /\ Hosted \subseteq Urls /\ Loopback \subseteq Urls
    /\ Serves \subseteq Urls \X Chains
    /\ None \notin Urls \cup Chains \cup Pages

Nodes       == [url : Urls, accepts : BOOLEAN]     \* acceptsSubmit
Requests    == [chain : Chains, url : Urls, required : BOOLEAN, clear : BOOLEAN]
Discoveries == [chain : Chains, url : Urls, auto : BOOLEAN]

ASSUME RequestsAssumption == None \notin Nodes \cup Requests \cup Discoveries

Settings ==
    [chain     : Chains,                       \* the selected chain
     endpoints : [Chains -> Nodes \cup {None}],
     pending   : Requests \cup {None},         \* pendingEndpoint
     automatic : Chains \cup {None},           \* pendingAutomaticChain
     discovery : Discoveries \cup {None}]      \* pendingDiscovery

Jobs == {"none", "request", "resume", "automatic", "discovery", "pick"}

Stages == {"idle", "refresh", "resumed", "route", "node", "pend", "ask", "switch", "askAutomatic",
           "askDiscovery", "discover", "probe", "save", "saved", "failed", "release"}

Asking == {"ask", "askAutomatic", "askDiscovery"}

(* What may have come between a choice and the node it saved; a choice      *)
(* that did not require it may have saved a node that accepts nothing.      *)
Caveats == {"switched", "released", "readOnly"}

VARIABLES
    stored,   \* the settings in storage
    cookies,  \* nodes whose cookie the signer keeps
    granted,  \* nodes the browser lets the wallet reach
    known,    \* each page's copy of the settings
    screen,   \* what each page shows
    task,     \* the handlers that wait
    caveats   \* history: what to allow for in the node saved for each chain

vars == <<stored, cookies, granted, known, screen, task, caveats>>

Handlers ==
    [at : Stages, page : Pages \cup {None}, job : Jobs,
     url     : Urls \cup {None},                  \* the node asked for or tried
     chain   : Chains \cup {None},                \* the chain pressed in the menu
     request : Requests \cup Discoveries \cup {None},
     accepts : BOOLEAN,                           \* what the node answered
     keep    : SUBSET Urls,                       \* permissions to keep
     since   : SUBSET Urls,                       \* history: nodes saved since they were read
     caveats : SUBSET Caveats]                    \* history: what came after the answer

Fresh == [chain |-> Root, endpoints |-> [chain \in Chains |-> None],
          pending |-> None, automatic |-> None, discovery |-> None]

Idle == [at |-> "idle", page |-> None, job |-> "none", url |-> None, chain |-> None,
         request |-> None, accepts |-> FALSE, keep |-> {}, since |-> {}, caveats |-> {}]

Init ==
    /\ stored = Fresh /\ cookies = {} /\ granted = Hosted
    /\ known = [p \in Pages |-> Fresh] /\ screen = [p \in Pages |-> "closed"]
    /\ task = [t \in Tasks |-> Idle]
    /\ caveats = [chain \in Chains |-> {}]

At(t, stage) == task[t].at = stage

Of(t) == task[t].page

NoEndpoint(settings) == settings.endpoints[settings.chain] = None

SavedUrls(settings) == {settings.endpoints[chain].url :
                          chain \in {c \in Chains : settings.endpoints[c] # None}}

(* A page takes the user's presses once it is drawn; its header also before,*)
(* where its chain has a node.  The screens and the menu the header opens   *)
(* stay when another handler switches the chain.                            *)
Live(p) == screen[p] \in {"shown", "listed"} \/ (screen[p] = "blank" /\ ~NoEndpoint(known[p]))

Header(p) == Live(p) /\ SavedUrls(known[p]) # {}

Starts(t, p, handler) == At(t, "idle") /\ task' = [task EXCEPT ![t] = [handler EXCEPT !.page = p]]

Becomes(t, handler) == task' = [task EXCEPT ![t] = handler]

Go(t, stage) == Becomes(t, [task[t] EXCEPT !.at = stage])

Ends(t) == Becomes(t, Idle)

Trying(t, job, url) == [Idle EXCEPT !.at = "probe", !.page = Of(t), !.job = job, !.url = url]

(* update(): the page then works on what it saved.                          *)
Update(p, settings) == stored' = settings /\ known' = [known EXCEPT ![p] = settings]

(* A choice whose node has answered saves it under the chain that is        *)
(* selected by then.                                                        *)
SwitchTo(t, settings, handler) ==
    /\ Update(Of(t), settings)
    /\ task' = [u \in Tasks |->
                  IF u = t THEN handler
                  ELSE IF At(u, "save") /\ settings.chain # stored.chain
                       THEN [task[u] EXCEPT !.caveats = @ \cup {"switched"}] ELSE task[u]]

(* The node of the root chain, or a hosted one, is asked for others.        *)
BootstrapGranted(settings) ==
    settings.endpoints[Root] # None => settings.endpoints[Root].url \in granted

(* A cookie that came with a request is removed, unless the signer is       *)
(* locked and its user does not unlock it.                                  *)
ClearCookie(request) ==
    \/ request.clear /\ cookies' = cookies \ {request.url}
    \/ cookies' = cookies

----------------------------------------------------------------------------
(* Opening a page                                                           *)

Open(t, p) ==
    /\ screen[p] = "closed"
    /\ Starts(t, p, [Idle EXCEPT !.at = "refresh"])
    /\ known' = [known EXCEPT ![p] = stored] /\ screen' = [screen EXCEPT ![p] = "blank"]
    /\ UNCHANGED <<stored, cookies, granted, caveats>>

(* The main screen refreshes after a change of accounts; any other update   *)
(* of the page takes over what is stored.                                   *)
Refresh(t, p) ==
    /\ Header(p)
    /\ Starts(t, p, [Idle EXCEPT !.at = "refresh"])
    /\ known' = [known EXCEPT ![p] = stored]
    /\ UNCHANGED <<stored, cookies, granted, screen, caveats>>

Adopt(p) ==
    /\ Live(p)
    /\ known' = [known EXCEPT ![p] = stored]
    /\ UNCHANGED <<stored, cookies, granted, screen, task, caveats>>

Resumable(settings) ==
    settings.pending # None /\ settings.pending.chain = settings.chain /\ NoEndpoint(settings)

ResumePending(t) ==
    LET pending == known[Of(t)].pending IN
    /\ At(t, "refresh")
    /\ \/ /\ ~Resumable(known[Of(t)]) /\ Go(t, "resumed")
          /\ UNCHANGED <<stored, cookies, known>>
       \/ /\ Resumable(known[Of(t)]) /\ pending.url \in granted
          /\ Becomes(t, [Trying(t, "resume", pending.url) EXCEPT !.request = pending])
          /\ UNCHANGED <<stored, cookies, known>>
       \/ /\ Resumable(known[Of(t)]) /\ pending.url \notin granted
          /\ ClearCookie(pending)
          /\ Update(Of(t), [stored EXCEPT !.pending = None]) /\ Go(t, "resumed")
    /\ UNCHANGED <<granted, screen, caveats>>

ResumeAutomatic(t) ==
    LET settings == known[Of(t)]
        waits    == settings.automatic = settings.chain /\ NoEndpoint(settings)
    IN
    /\ At(t, "resumed")
    /\ \/ ~waits /\ Go(t, "route") /\ UNCHANGED <<stored, known>>
       \/ /\ waits /\ BootstrapGranted(settings)
          /\ Becomes(t, [task[t] EXCEPT !.at = "discover", !.job = "automatic"])
          /\ UNCHANGED <<stored, known>>
       \/ /\ waits /\ ~BootstrapGranted(settings)
          /\ Update(Of(t), [stored EXCEPT !.automatic = None]) /\ Go(t, "route")
    /\ UNCHANGED <<cookies, granted, screen, caveats>>

(* The node screen resumes a discovery for its chain.                       *)
Resuming(p) ==
    LET discovery == known[p].discovery IN
    IF discovery # None /\ discovery.chain = known[p].chain
    THEN [Idle EXCEPT !.at = "node", !.page = p, !.request = discovery] ELSE Idle

(* The main screen, or, where the chain has no node, the node screen.       *)
Route(t) ==
    /\ At(t, "route")
    /\ screen' = [screen EXCEPT ![Of(t)] = "shown"]
    /\ Becomes(t, IF NoEndpoint(known[Of(t)]) THEN Resuming(Of(t)) ELSE Idle)
    /\ UNCHANGED <<stored, cookies, granted, known, caveats>>

(* Opening the node screen, also to leave a list of nodes.                  *)
ShowNode(t, p) ==
    /\ Live(p) /\ At(t, "idle")
    /\ screen' = [screen EXCEPT ![p] = "shown"] /\ Becomes(t, Resuming(p))
    /\ UNCHANGED <<stored, cookies, granted, known, caveats>>

ResumeDiscovery(t) ==
    /\ At(t, "node")
    /\ \/ /\ task[t].request.url \in granted
          /\ Becomes(t, [task[t] EXCEPT !.at = "discover", !.job = "discovery"])
          /\ UNCHANGED <<stored, known>>
       \/ /\ task[t].request.url \notin granted
          /\ Update(Of(t), [stored EXCEPT !.discovery = None]) /\ Ends(t)
    /\ UNCHANGED <<cookies, granted, screen, caveats>>

(* A page closes anywhere.  A permission prompt outlives its page.          *)
Close(p) ==
    /\ screen[p] # "closed"
    /\ screen' = [screen EXCEPT ![p] = "closed"] /\ known' = [known EXCEPT ![p] = Fresh]
    /\ task' = [t \in Tasks |-> IF Of(t) = p THEN Idle ELSE task[t]]
    /\ LET asked == {task[t].url : t \in {u \in Tasks : Of(u) = p /\ task[u].at \in Asking}} \ {None}
       IN \E yes \in SUBSET asked : granted' = granted \cup yes
    /\ UNCHANGED <<stored, cookies, caveats>>

----------------------------------------------------------------------------
(* Choosing a node                                                          *)

(* A hosted node is required to accept transactions; the address may be     *)
(* typed as well, and a cookie pasted with it.                              *)
RequestNode(t, p, url, required, paste) ==
    /\ Live(p)
    /\ required => url \in Hosted
    /\ paste => url \in Loopback /\ ~required
    /\ cookies' = IF paste THEN cookies \cup {url} ELSE cookies
    /\ LET request == [chain |-> known[p].chain, url |-> url, required |-> required, clear |-> paste]
       IN Starts(t, p, [Idle EXCEPT !.at = "pend", !.url = url, !.request = request])
    /\ UNCHANGED <<stored, granted, known, screen, caveats>>

SavePending(t) ==
    /\ At(t, "pend")
    /\ Update(Of(t), [stored EXCEPT !.pending = task[t].request]) /\ Go(t, "ask")
    /\ UNCHANGED <<cookies, granted, screen, caveats>>

(* What goes on is the request the page now finds pending, for the selected *)
(* chain.                                                                   *)
Ask(t) ==
    LET pending == known[Of(t)].pending IN
    /\ At(t, "ask")
    /\ \/ /\ granted' = granted \cup {task[t].url}
          /\ Becomes(t, IF pending # None /\ pending.chain = known[Of(t)].chain
                        THEN [Trying(t, "request", pending.url) EXCEPT !.request = pending] ELSE Idle)
          /\ UNCHANGED <<stored, cookies, known>>
       \/ /\ task[t].url \notin granted /\ granted' = granted
          /\ ClearCookie(task[t].request)
          /\ Update(Of(t), [stored EXCEPT !.pending = None]) /\ Ends(t)
    /\ UNCHANGED <<screen, caveats>>

(* Whether the choice is refused where the node accepts no transactions:    *)
(* hosted nodes and those found automatically.                              *)
Required(handler) ==
    \/ handler.job \in {"automatic", "discovery"}
    \/ handler.job \in {"request", "resume"} /\ handler.request.required

(* The page may not have heard of the last switch when the node answers.    *)
Answered(t, accepts) ==
    Becomes(t, [task[t] EXCEPT !.at = "save", !.accepts = accepts,
                  !.caveats = (IF known[Of(t)].chain = stored.chain THEN {} ELSE {"switched"})
                              \cup (IF Required(task[t]) THEN {} ELSE {"readOnly"})])

(* Mutant: any answer of the node will do.                                  *)
ProbeAnyChain(t) ==
    /\ At(t, "probe")
    /\ \/ /\ task[t].url \in granted
          /\ \E chain \in Chains : <<task[t].url, chain>> \in Serves
          /\ \E accepts \in BOOLEAN : (Required(task[t]) => accepts) /\ Answered(t, accepts)
       \/ Go(t, "failed")
    /\ UNCHANGED <<stored, cookies, granted, known, screen, caveats>>

(* The node answers for the chain the page shows, and accepts transactions  *)
(* where that is required; or the probe fails.                              *)
Probe(t) ==
    /\ At(t, "probe")
    /\ \/ /\ task[t].url \in granted
          /\ <<task[t].url, known[Of(t)].chain>> \in Serves
          /\ \E accepts \in BOOLEAN : (Required(task[t]) => accepts) /\ Answered(t, accepts)
       \/ Go(t, "failed")
    /\ UNCHANGED <<stored, cookies, granted, known, screen, caveats>>

(* It is saved for the chain that is selected in storage by then.           *)
Save(t) ==
    LET node == [url |-> task[t].url, accepts |-> task[t].accepts] IN
    /\ At(t, "save")
    /\ Update(Of(t), [stored EXCEPT !.endpoints[stored.chain] = node])
    /\ caveats' = [caveats EXCEPT ![stored.chain] = task[t].caveats]
    /\ task' = [u \in Tasks |->
                  IF u = t THEN [Idle EXCEPT !.at = "saved", !.page = Of(t), !.job = task[t].job]
                  ELSE IF At(u, "release") THEN [task[u] EXCEPT !.since = @ \cup {node.url}]
                  ELSE task[u]]
    /\ UNCHANGED <<cookies, granted, screen>>

Saved(t) ==
    LET job == task[t].job IN
    /\ At(t, "saved")
    /\ \/ job \in {"request", "resume"} /\ Update(Of(t), [stored EXCEPT !.pending = None])
       \/ job = "automatic" /\ Update(Of(t), [stored EXCEPT !.automatic = None])
       \/ job = "discovery" /\ Update(Of(t), [stored EXCEPT !.discovery = None])
       \/ job = "pick" /\ UNCHANGED <<stored, known>>
    /\ Becomes(t, [Idle EXCEPT !.at = "route", !.page = Of(t)])
    /\ UNCHANGED <<cookies, granted, screen, caveats>>

(* The handler tries another node, or gives up what was pending.            *)
Failed(t) ==
    LET job == task[t].job IN
    /\ At(t, "failed")
    /\ \/ /\ job \in {"request", "resume"}
          /\ ClearCookie(task[t].request)
          /\ Update(Of(t), [stored EXCEPT !.pending = None])
          /\ Becomes(t, IF job = "request" THEN Idle
                        ELSE [Idle EXCEPT !.at = "resumed", !.page = Of(t)])
       \/ /\ job \in {"automatic", "discovery"} /\ Go(t, "discover")
          /\ UNCHANGED <<stored, known, cookies>>
       \/ job = "pick" /\ Ends(t) /\ UNCHANGED <<stored, known, cookies>>
    /\ UNCHANGED <<granted, screen, caveats>>

----------------------------------------------------------------------------
(* Discovery                                                                *)

(* From the node screen of a child chain.                                   *)
DiscoverFrom(t, p, url, auto) ==
    LET discovery == [chain |-> stored.chain, url |-> url, auto |-> auto] IN
    /\ Live(p) /\ known[p].chain \in Children
    /\ Update(p, [stored EXCEPT !.discovery = discovery])
    /\ Starts(t, p, [Idle EXCEPT !.at = "askDiscovery", !.url = url, !.request = discovery])
    /\ UNCHANGED <<cookies, granted, screen, caveats>>

AskDiscovery(t) ==
    /\ At(t, "askDiscovery")
    /\ \/ /\ granted' = granted \cup {task[t].url}
          /\ Becomes(t, [task[t] EXCEPT !.at = "discover", !.job = "discovery"])
          /\ UNCHANGED <<stored, known>>
       \/ /\ task[t].url \notin granted /\ granted' = granted
          /\ Update(Of(t), [stored EXCEPT !.discovery = None]) /\ Ends(t)
    /\ UNCHANGED <<cookies, screen, caveats>>

(* The next candidate is tried.                                             *)
TryNext(t, url) ==
    /\ At(t, "discover")
    /\ task[t].job = "discovery" => task[t].request.auto
    /\ Becomes(t, [task[t] EXCEPT !.at = "probe", !.url = url])
    /\ UNCHANGED <<stored, cookies, granted, known, screen, caveats>>

(* No candidate is left, or the list is shown.                              *)
Discovered(t) ==
    LET p == Of(t) IN
    /\ At(t, "discover")
    /\ \/ /\ task[t].job = "automatic"
          /\ Update(p, [stored EXCEPT !.automatic = None])
          /\ Becomes(t, [Idle EXCEPT !.at = "route", !.page = p]) /\ screen' = screen
       \/ /\ task[t].job = "discovery"
          /\ \/ known[p].discovery # None /\ Update(p, [stored EXCEPT !.discovery = None])
             \/ known[p].discovery = None /\ UNCHANGED <<stored, known>>
          /\ screen' = IF task[t].request.auto THEN screen ELSE [screen EXCEPT ![p] = "listed"]
          /\ Ends(t)
    /\ UNCHANGED <<cookies, granted, caveats>>

Pick(t, p, url) ==
    /\ screen[p] = "listed"
    /\ Starts(t, p, [Idle EXCEPT !.at = "probe", !.job = "pick", !.url = url])
    /\ UNCHANGED <<stored, cookies, granted, known, screen, caveats>>

----------------------------------------------------------------------------
(* Switching chains; permissions                                            *)

(* The chain is pressed in the menu, on the chain screen or the parent      *)
(* button, and selected when the page's earlier updates are done.           *)
Press(t, p, chain) ==
    /\ Live(p)
    /\ LET automatic == chain \in Children /\ known[p].endpoints[chain] = None
                        /\ chain # known[p].chain /\ Header(p)
       IN \E job \in {"none"} \cup (IF automatic THEN {"automatic"} ELSE {}) :
            Starts(t, p, [Idle EXCEPT !.at = "switch", !.job = job, !.chain = chain])
    /\ UNCHANGED <<stored, cookies, granted, known, screen, caveats>>

(* From the menu, a child without a node gets one by itself.                *)
Switch(t) ==
    LET chain == task[t].chain
        automatic == [stored EXCEPT !.chain = chain, !.automatic = chain]
        bootstrap == automatic.endpoints[Root]
    IN
    /\ At(t, "switch")
    /\ \/ /\ task[t].job = "none"
          /\ SwitchTo(t, [stored EXCEPT !.chain = chain], [Idle EXCEPT !.at = "route", !.page = Of(t)])
       \/ /\ task[t].job = "automatic"
          /\ SwitchTo(t, automatic,
                      [Idle EXCEPT !.at = "askAutomatic", !.page = Of(t),
                                   !.url = IF bootstrap = None THEN None ELSE bootstrap.url])
    /\ UNCHANGED <<cookies, granted, screen, caveats>>

AskAutomatic(t) ==
    /\ At(t, "askAutomatic")
    /\ \/ /\ granted' = granted \cup ({task[t].url} \ {None})
          /\ Becomes(t, [Idle EXCEPT !.at = "discover", !.page = Of(t), !.job = "automatic"])
          /\ UNCHANGED <<stored, known>>
       \/ /\ task[t].url \notin granted \cup {None} /\ granted' = granted
          /\ Update(Of(t), [stored EXCEPT !.automatic = None])
          /\ Becomes(t, [Idle EXCEPT !.at = "route", !.page = Of(t)])
    /\ UNCHANGED <<cookies, screen, caveats>>

Pending == {request.url : request \in {stored.pending, stored.discovery} \ {None}}

(* Mutant: only the selected chain's node is kept.                          *)
ReadOthers(t, p) ==
    /\ Header(p)
    /\ LET node == stored.endpoints[stored.chain]
       IN Starts(t, p, [Idle EXCEPT !.at = "release",
                                    !.keep = Pending \cup (IF node = None THEN {} ELSE {node.url})])
    /\ UNCHANGED <<stored, cookies, granted, known, screen, caveats>>

ReadUnused(t, p) ==
    /\ Header(p)
    /\ Starts(t, p, [Idle EXCEPT !.at = "release", !.keep = Pending \cup SavedUrls(stored)])
    /\ UNCHANGED <<stored, cookies, granted, known, screen, caveats>>

ReleaseUnused(t) ==
    LET kept == task[t].keep \cup Hosted IN
    /\ At(t, "release")
    /\ granted' = granted \cap kept
    /\ task' = [u \in Tasks |->
                  IF u = t THEN Idle
                  ELSE IF At(u, "save") /\ task[u].url \notin kept
                       THEN [task[u] EXCEPT !.caveats = @ \cup {"released"}] ELSE task[u]]
    /\ caveats' = [chain \in Chains |->
                     IF stored.endpoints[chain] # None /\ stored.endpoints[chain].url \in task[t].since \ kept
                     THEN caveats[chain] \cup {"released"} ELSE caveats[chain]]
    /\ UNCHANGED <<stored, cookies, known, screen>>

Next ==
    \/ \E p \in Pages : Close(p) \/ Adopt(p)
    \/ \E t \in Tasks, p \in Pages :
        \/ Open(t, p) \/ Refresh(t, p) \/ ShowNode(t, p) \/ ReadUnused(t, p)
        \/ \E url \in Urls, required, paste \in BOOLEAN : RequestNode(t, p, url, required, paste)
        \/ \E url \in Urls, auto \in BOOLEAN : DiscoverFrom(t, p, url, auto)
        \/ \E url \in Urls : Pick(t, p, url)
        \/ \E chain \in Chains : Press(t, p, chain)
    \/ \E t \in Tasks :
        \/ ResumePending(t) \/ ResumeAutomatic(t) \/ Route(t) \/ ResumeDiscovery(t)
        \/ SavePending(t) \/ Ask(t) \/ Probe(t) \/ Save(t) \/ Saved(t) \/ Failed(t)
        \/ AskDiscovery(t) \/ Discovered(t) \/ Switch(t) \/ AskAutomatic(t) \/ ReleaseUnused(t)
        \/ \E url \in Urls : TryNext(t, url)

Spec == Init /\ [][Next]_vars

----------------------------------------------------------------------------
(* Properties                                                               *)

TypeOK ==
    /\ stored \in Settings
    /\ cookies \subseteq Urls
    /\ Hosted \subseteq granted /\ granted \subseteq Urls
    /\ known \in [Pages -> Settings]
    /\ screen \in [Pages -> {"closed", "blank", "shown", "listed"}]
    /\ task \in [Tasks -> Handlers]
    /\ caveats \in [Chains -> SUBSET Caveats]

(* The node saved for a chain serves that chain: its transactions and reads *)
(* go nowhere else (app.ts:723, "The wallet checks that it serves this      *)
(* chain and accepts transactions before saving it"), although handlers are *)
(* interrupted by prompts and resumed after the chain was switched.         *)
EndpointsServe ==
    \A chain \in Chains :
        stored.endpoints[chain] # None => <<stored.endpoints[chain].url, chain>> \in Serves

(* What the code does keep of it: a node that does not serve its chain was  *)
(* saved by a choice of a page that had not heard of the last switch when   *)
(* the node answered, or that a switch overtook after the answer            *)
(* (app.ts:669-676); and hosted nodes and those found automatically         *)
(* accepted transactions (app.ts:670).                                      *)
EndpointsServeUnlessSwitched ==
    \A chain \in Chains :
        LET node == stored.endpoints[chain] IN
        node # None =>
            /\ <<node.url, chain>> \in Serves \/ "switched" \in caveats[chain]
            /\ node.accepts \/ "readOnly" \in caveats[chain]

(* Every saved node can be reached: releasing permissions spares it         *)
(* (app.ts:1361, "Saved nodes and hosted discovery remain available").      *)
EndpointsReachable == SavedUrls(stored) \subseteq granted

(* What the code does keep of it: a saved node that cannot be reached was   *)
(* saved after a release read what to keep (app.ts:1356), or released       *)
(* between its answer and its save.                                         *)
EndpointsReachableUnlessReleased ==
    \A chain \in Chains :
        stored.endpoints[chain] # None =>
            stored.endpoints[chain].url \in granted \/ "released" \in caveats[chain]

(* A request that was granted while its page was closed is taken up when    *)
(* a page opens, or its node is the saved one (settings.ts:88, "Resumes     *)
(* selecting any node after Chrome's host-permission prompt closes the      *)
(* popup").                                                                 *)
RequestsResume ==
    [][\A t \in Tasks :
          LET settings == known[Of(t)] IN
          At(t, "resumed") /\ At(t, "route")' /\ settings.pending # None =>
              \/ settings.pending.chain # settings.chain
              \/ settings.pending.url \in Urls \ granted
              \/ settings.endpoints[settings.chain] # None
                 /\ settings.endpoints[settings.chain].url = settings.pending.url]_vars
=============================================================================
