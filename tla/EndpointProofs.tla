--------------------------- MODULE EndpointProofs ---------------------------
(***************************************************************************)
(* Endpoint, for any number of pages, handlers, chains and nodes: a saved  *)
(* node serves its chain and can be reached, unless a switch, or a release,*)
(* came between an answer or a reading and the step that goes by it.       *)
(* What a handler that waits may rely on is followed through the steps of  *)
(* all the others.                                                         *)
(***************************************************************************)
EXTENDS MCPage, TLAPS

(* What a handler carries at its stages.                                    *)
Carries(h) ==
    /\ h.at = "pend" => h.request \in Requests
    /\ h.at \in {"pend", "ask", "askDiscovery", "save"} => h.url \in Urls
    /\ h.at = "switch" => h.chain \in Chains

MayWait(h) == h \in Handlers /\ Carries(h) /\ (h.at # "idle" => h.page \in Pages)

(* A node that answered serves the chain it would be saved for, can be      *)
(* reached and accepts transactions, but for what came after the answer.    *)
SaveKnows ==
    \A t \in Tasks : At(t, "save") =>
        /\ <<task[t].url, stored.chain>> \in Serves \/ "switched" \in task[t].caveats
        /\ task[t].url \in granted \/ "released" \in task[t].caveats
        /\ task[t].accepts \/ "readOnly" \in task[t].caveats

(* A release keeps every saved node but those saved since it read them.     *)
ReleaseKnows ==
    \A t \in Tasks : At(t, "release") =>
        \A chain \in Chains : stored.endpoints[chain] # None =>
            stored.endpoints[chain].url \in task[t].keep \cup task[t].since

Inv ==
    /\ TypeOK
    /\ \A t \in Tasks : MayWait(task[t])
    /\ SaveKnows
    /\ ReleaseKnows
    /\ EndpointsServeUnlessSwitched
    /\ EndpointsReachableUnlessReleased

(* The settings of a fresh installation choose no node.                     *)
LEMMA FreshIsSettings == Fresh \in Settings /\ \A chain \in Chains : Fresh.endpoints[chain] = None
BY DEF Fresh, Settings, Chains

(* A handler that does not run is one.                                      *)
LEMMA IdleWaits == MayWait(Idle) /\ Idle.at = "idle"
<1>1. Idle \in Handlers /\ Idle.at = "idle"
    BY DEF Idle, Handlers, Stages, Jobs
<1> QED
    BY <1>1 DEF MayWait, Carries

(* At first no node is saved and no handler runs.                           *)
LEMMA InitInv == Init => Inv
<1> SUFFICES ASSUME Init PROVE Inv
    OBVIOUS
<1> USE EndpointAssumption
<1>1. \A t \in Tasks : MayWait(task[t]) /\ task[t].at = "idle"
    BY IdleWaits DEF Init
<1>2. TypeOK
    BY FreshIsSettings, IdleWaits DEF Init, TypeOK, MayWait
<1>3. SaveKnows /\ ReleaseKnows
    BY <1>1 DEF SaveKnows, ReleaseKnows, At
<1>4. EndpointsServeUnlessSwitched /\ EndpointsReachableUnlessReleased
    BY FreshIsSettings DEF Init, EndpointsServeUnlessSwitched, EndpointsReachableUnlessReleased
<1> QED
    BY <1>1, <1>2, <1>3, <1>4 DEF Inv

(* What a step leaves alone, or changes within its type, when it neither    *)
(* saves a node, selects a chain nor releases a permission.                 *)
Minor ==
    /\ stored' \in Settings
    /\ stored'.chain = stored.chain /\ stored'.endpoints = stored.endpoints
    /\ cookies' \subseteq Urls
    /\ granted \subseteq granted' /\ granted' \subseteq Urls
    /\ known' \in [Pages -> Settings]
    /\ screen' \in [Pages -> {"closed", "blank", "shown", "listed"}]
    /\ caveats' = caveats

(* Such a step keeps the invariant when no handler begins to save or to     *)
(* release.                                                                 *)
LEMMA MinorInv ==
    ASSUME Inv, Minor, task' \in [Tasks -> Handlers],
           \A t \in Tasks : \/ task'[t] = task[t]
                            \/ MayWait(task'[t]) /\ task'[t].at \notin {"save", "release"}
    PROVE  Inv'
<1> USE EndpointAssumption
<1>1. TypeOK'
    BY DEF Inv, Minor, TypeOK
<1>2. \A t \in Tasks : MayWait(task'[t])
    BY DEF Inv
<1>3. SaveKnows'
    BY DEF Inv, Minor, SaveKnows, At
<1>4. ReleaseKnows'
    BY DEF Inv, Minor, ReleaseKnows, At
<1>5. EndpointsServeUnlessSwitched'
    BY DEF Inv, Minor, EndpointsServeUnlessSwitched
<1>6. EndpointsReachableUnlessReleased'
    BY DEF Inv, Minor, EndpointsReachableUnlessReleased
<1> QED
    BY <1>1, <1>2, <1>3, <1>4, <1>5, <1>6 DEF Inv, MayWait, Carries

(* A handler becomes another.                                               *)
LEMMA BecomesInv ==
    ASSUME Inv, Minor, NEW t \in Tasks, NEW h, MayWait(h), h.at \notin {"save", "release"},
           Becomes(t, h)
    PROVE  Inv'
<1>1. task \in [Tasks -> Handlers] /\ h \in Handlers
    BY DEF Inv, TypeOK, MayWait
<1>2. task' \in [Tasks -> Handlers] /\ \A u \in Tasks : task'[u] = IF u = t THEN h ELSE task[u]
    BY <1>1 DEF Becomes
<1> QED
    BY <1>2, MinorInv

(* A handler that waits goes to another stage, where it carries no more.    *)
LEMMA GoInv ==
    ASSUME Inv, Minor, NEW t \in Tasks, ~At(t, "idle"),
           NEW stage \in Stages \ {"save", "release", "pend", "ask", "askDiscovery", "switch"},
           Go(t, stage)
    PROVE  Inv'
<1>1. PICK h : h = [task[t] EXCEPT !.at = stage]
    OBVIOUS
<1>2. task[t] \in Handlers /\ task[t].page \in Pages
    BY DEF Inv, MayWait, At
<1>3. h \in Handlers /\ h.at = stage /\ h.page = task[t].page
    BY <1>1, <1>2 DEF Handlers
<1>4. MayWait(h)
    BY <1>2, <1>3 DEF MayWait, Carries
<1> QED
    BY <1>1, <1>3, <1>4, BecomesInv DEF Go

(* A handler ends.                                                          *)
LEMMA EndsInv ==
    ASSUME Inv, Minor, NEW t \in Tasks, Ends(t)
    PROVE  Inv'
BY IdleWaits, BecomesInv DEF Ends

(* A handler starts over at a stage for which it carries nothing.           *)
LEMMA AgainInv ==
    ASSUME Inv, Minor, NEW t \in Tasks, ~At(t, "idle"), NEW stage \in {"resumed", "route"},
           Becomes(t, [Idle EXCEPT !.at = stage, !.page = Of(t)])
    PROVE  Inv'
<1>1. PICK h : h = [Idle EXCEPT !.at = stage, !.page = Of(t)]
    OBVIOUS
<1>2. Idle \in Handlers /\ Of(t) \in Pages
    BY IdleWaits DEF Inv, MayWait, At, Of
<1>3. h \in Handlers /\ h.at = stage /\ h.page = Of(t)
    BY <1>1, <1>2 DEF Handlers, Stages
<1>4. MayWait(h)
    BY <1>2, <1>3 DEF MayWait, Carries
<1> QED
    BY <1>1, <1>3, <1>4, BecomesInv

(* The user's press starts a handler.                                       *)
LEMMA StartsInv ==
    ASSUME Inv, Minor, NEW t \in Tasks, NEW p \in Pages, NEW h \in Handlers, Carries(h),
           h.at \notin {"idle", "save", "release"}, Starts(t, p, h)
    PROVE  Inv'
<1>1. PICK g : g = [h EXCEPT !.page = p]
    OBVIOUS
<1>2. /\ g \in Handlers /\ g.page = p /\ g.at = h.at /\ g.request = h.request
      /\ g.url = h.url /\ g.chain = h.chain
    BY <1>1 DEF Handlers
<1>3. MayWait(g)
    BY <1>2 DEF MayWait, Carries
<1> QED
    BY <1>1, <1>2, <1>3, BecomesInv DEF Starts, Becomes

(* What a handler tries next.                                               *)
LEMMA TryingWaits ==
    ASSUME Inv, NEW t \in Tasks, ~At(t, "idle"), NEW job \in Jobs, NEW url \in Urls
    PROVE  /\ MayWait(Trying(t, job, url)) /\ Trying(t, job, url).at = "probe"
           /\ \A request \in Requests :
                 /\ MayWait([Trying(t, job, url) EXCEPT !.request = request])
                 /\ [Trying(t, job, url) EXCEPT !.request = request].at = "probe"
<1>1. PICK h : h = Trying(t, job, url)
    OBVIOUS
<1>2. Idle \in Handlers /\ Of(t) \in Pages
    BY IdleWaits DEF Inv, MayWait, At, Of
<1>3. h \in Handlers /\ h.at = "probe" /\ h.page = Of(t)
    BY <1>1, <1>2 DEF Trying, Handlers, Stages
<1>4. ASSUME NEW request \in Requests
      PROVE  MayWait([h EXCEPT !.request = request]) /\ [h EXCEPT !.request = request].at = "probe"
  <2>1. PICK g : g = [h EXCEPT !.request = request]
      OBVIOUS
  <2>2. g \in Handlers /\ g.at = "probe" /\ g.page = Of(t)
      BY <1>3, <2>1 DEF Handlers
  <2> QED
      BY <1>2, <2>1, <2>2 DEF MayWait, Carries
<1> QED
    BY <1>1, <1>2, <1>3, <1>4 DEF MayWait, Carries

(* An update of what is pending touches neither chain nor nodes.            *)
LEMMA UpdateIsMinor ==
    ASSUME Inv, NEW p \in Pages, NEW next \in Settings,
           next.chain = stored.chain, next.endpoints = stored.endpoints,
           Update(p, next), cookies' \subseteq Urls, granted \subseteq granted', granted' \subseteq Urls,
           screen' \in [Pages -> {"closed", "blank", "shown", "listed"}], caveats' = caveats
    PROVE  Minor
BY DEF Inv, TypeOK, Minor, Update

(* What was pending may be given up, and set to what was asked.             *)
LEMMA GivingUp ==
    ASSUME Inv
    PROVE  \A next \in {[stored EXCEPT !.pending = None], [stored EXCEPT !.automatic = None],
                        [stored EXCEPT !.discovery = None]}
                       \cup {[stored EXCEPT !.pending = request] : request \in Requests}
                       \cup {[stored EXCEPT !.discovery = discovery] : discovery \in Discoveries} :
               next \in Settings /\ next.chain = stored.chain /\ next.endpoints = stored.endpoints
<1>1. stored \in Settings
    BY DEF Inv, TypeOK
<1>2. \A next \in {[stored EXCEPT !.pending = None], [stored EXCEPT !.automatic = None],
                   [stored EXCEPT !.discovery = None]} :
          next \in Settings /\ next.chain = stored.chain /\ next.endpoints = stored.endpoints
    BY <1>1 DEF Settings
<1>3. \A request \in Requests :
          LET next == [stored EXCEPT !.pending = request] IN
          next \in Settings /\ next.chain = stored.chain /\ next.endpoints = stored.endpoints
    BY <1>1 DEF Settings
<1>4. \A discovery \in Discoveries :
          LET next == [stored EXCEPT !.discovery = discovery] IN
          next \in Settings /\ next.chain = stored.chain /\ next.endpoints = stored.endpoints
    BY <1>1 DEF Settings
<1> QED
    BY <1>2, <1>3, <1>4

(* The request a page resumes, and the handler of its node screen.          *)
LEMMA ResumingWaits ==
    ASSUME Inv, NEW p \in Pages
    PROVE  MayWait(Resuming(p)) /\ Resuming(p).at \in {"node", "idle"}
<1>1. PICK h : h = [Idle EXCEPT !.at = "node", !.page = p, !.request = known[p].discovery]
    OBVIOUS
<1>2. known[p].discovery # None => known[p].discovery \in Discoveries
    BY DEF Inv, TypeOK, Settings
<1>3. Idle \in Handlers
    BY IdleWaits DEF MayWait
<1>4. known[p].discovery # None => h \in Handlers /\ h.at = "node" /\ h.page = p
    BY <1>1, <1>2, <1>3 DEF Handlers, Stages
<1> QED
    BY <1>1, <1>4, IdleWaits DEF Resuming, MayWait, Carries

(* A handler's page opens, refreshes and resumes what was pending.          *)
LEMMA OpeningInv ==
    ASSUME Inv, NEW t \in Tasks,
           \/ \E p \in Pages : Open(t, p) \/ Refresh(t, p) \/ ShowNode(t, p)
           \/ ResumePending(t) \/ ResumeAutomatic(t) \/ Route(t) \/ ResumeDiscovery(t)
    PROVE  Inv'
<1>0. /\ stored \in Settings /\ cookies \subseteq Urls /\ granted \subseteq Urls
      /\ known \in [Pages -> Settings] /\ task[t] \in Handlers
      /\ screen \in [Pages -> {"closed", "blank", "shown", "listed"}]
      /\ ~At(t, "idle") => Of(t) \in Pages /\ known[Of(t)] \in Settings
    BY DEF Inv, TypeOK, MayWait, At, Of
<1>1. ASSUME NEW p \in Pages, Open(t, p) \/ Refresh(t, p) PROVE Inv'
  <2>1. PICK h : h = [Idle EXCEPT !.at = "refresh"]
      OBVIOUS
  <2>2. Idle \in Handlers
      BY IdleWaits DEF MayWait
  <2>3. h \in Handlers /\ h.at = "refresh"
      BY <2>1, <2>2 DEF Handlers, Stages
  <2>4. Minor /\ Starts(t, p, h)
      BY <1>0, <1>1, <2>1 DEF Open, Refresh, Minor
  <2> QED
      BY <2>3, <2>4, StartsInv DEF Carries
<1>2. ASSUME NEW p \in Pages, ShowNode(t, p) PROVE Inv'
  <2>1. Minor /\ Becomes(t, Resuming(p))
      BY <1>0, <1>2 DEF ShowNode, Minor
  <2> QED
      BY <2>1, ResumingWaits, BecomesInv
<1>3. CASE ResumePending(t)
  <2>1. ~At(t, "idle") /\ UNCHANGED <<granted, screen, caveats>>
      BY <1>3 DEF ResumePending, At
  <2>2. CASE Go(t, "resumed") /\ UNCHANGED <<stored, cookies, known>>
      BY <1>0, <2>1, <2>2, GoInv DEF Minor, Stages
  <2>3. CASE /\ Resumable(known[Of(t)])
             /\ Becomes(t, [Trying(t, "resume", known[Of(t)].pending.url) EXCEPT !.request = known[Of(t)].pending])
             /\ UNCHANGED <<stored, cookies, known>>
    <3>1. known[Of(t)].pending \in Requests /\ known[Of(t)].pending.url \in Urls
        BY <1>0, <2>1, <2>3 DEF Resumable, Settings, Requests
    <3>2. Minor
        BY <1>0, <2>1, <2>3 DEF Minor
    <3>3. "resume" \in Jobs
        BY DEF Jobs
    <3> QED
        BY <2>1, <2>3, <3>1, <3>2, <3>3, TryingWaits, BecomesInv
  <2>4. CASE /\ ClearCookie(known[Of(t)].pending)
             /\ Update(Of(t), [stored EXCEPT !.pending = None]) /\ Go(t, "resumed")
    <3>1. cookies' \subseteq Urls
        BY <1>0, <2>4 DEF ClearCookie
    <3>2. Minor
        BY <1>0, <2>1, <2>4, <3>1, GivingUp, UpdateIsMinor
    <3> QED
        BY <2>1, <2>4, <3>2, GoInv DEF Stages
  <2> QED
      BY <1>3, <2>2, <2>3, <2>4 DEF ResumePending
<1>4. CASE ResumeAutomatic(t)
  <2>1. ~At(t, "idle") /\ UNCHANGED <<cookies, granted, screen, caveats>>
      BY <1>4 DEF ResumeAutomatic, At
  <2>2. CASE Go(t, "route") /\ UNCHANGED <<stored, known>>
      BY <1>0, <2>1, <2>2, GoInv DEF Minor, Stages
  <2>3. CASE /\ Becomes(t, [task[t] EXCEPT !.at = "discover", !.job = "automatic"])
             /\ UNCHANGED <<stored, known>>
    <3>1. PICK h : h = [task[t] EXCEPT !.at = "discover", !.job = "automatic"]
        OBVIOUS
    <3>2. h \in Handlers /\ h.at = "discover" /\ h.page = Of(t)
        BY <1>0, <3>1 DEF Handlers, Stages, Jobs, Of
    <3>3. MayWait(h)
        BY <1>0, <2>1, <3>2 DEF MayWait, Carries
    <3>4. Minor
        BY <1>0, <2>1, <2>3 DEF Minor
    <3> QED
        BY <2>3, <3>1, <3>2, <3>3, <3>4, BecomesInv
  <2>4. CASE Update(Of(t), [stored EXCEPT !.automatic = None]) /\ Go(t, "route")
    <3>1. Minor
        BY <1>0, <2>1, <2>4, GivingUp, UpdateIsMinor
    <3> QED
        BY <2>1, <2>4, <3>1, GoInv DEF Stages
  <2> QED
      BY <1>4, <2>2, <2>3, <2>4 DEF ResumeAutomatic
<1>5. CASE Route(t)
  <2>1. ~At(t, "idle") /\ UNCHANGED <<stored, cookies, granted, known, caveats>>
        /\ screen' \in [Pages -> {"closed", "blank", "shown", "listed"}]
      BY <1>0, <1>5 DEF Route, At
  <2>2. Minor /\ (Ends(t) \/ Becomes(t, Resuming(Of(t))))
      BY <1>0, <1>5, <2>1 DEF Route, Minor, Ends
  <2> QED
      BY <1>0, <2>1, <2>2, EndsInv, ResumingWaits, BecomesInv
<1>6. CASE ResumeDiscovery(t)
  <2>1. ~At(t, "idle") /\ UNCHANGED <<cookies, granted, screen, caveats>>
      BY <1>6 DEF ResumeDiscovery, At
  <2>2. CASE /\ Becomes(t, [task[t] EXCEPT !.at = "discover", !.job = "discovery"])
             /\ UNCHANGED <<stored, known>>
    <3>1. PICK h : h = [task[t] EXCEPT !.at = "discover", !.job = "discovery"]
        OBVIOUS
    <3>2. h \in Handlers /\ h.at = "discover" /\ h.page = Of(t)
        BY <1>0, <3>1 DEF Handlers, Stages, Jobs, Of
    <3>3. MayWait(h)
        BY <1>0, <2>1, <3>2 DEF MayWait, Carries
    <3>4. Minor
        BY <1>0, <2>1, <2>2 DEF Minor
    <3> QED
        BY <2>2, <3>1, <3>2, <3>3, <3>4, BecomesInv
  <2>3. CASE Update(Of(t), [stored EXCEPT !.discovery = None]) /\ Ends(t)
    <3>1. Minor
        BY <1>0, <2>1, <2>3, GivingUp, UpdateIsMinor
    <3> QED
        BY <2>3, <3>1, EndsInv
  <2> QED
      BY <1>6, <2>2, <2>3 DEF ResumeDiscovery
<1> QED
    BY <1>1, <1>2, <1>3, <1>4, <1>5, <1>6

(* A page closes, or takes over what is stored.                             *)
LEMMA ClosingInv ==
    ASSUME Inv, NEW p \in Pages, Close(p) \/ Adopt(p)
    PROVE  Inv'
<1>1. CASE Adopt(p)
  <2>1. Minor /\ task' = task
      BY <1>1 DEF Adopt, Minor, Inv, TypeOK
  <2> QED
      BY <2>1, MinorInv DEF Inv, TypeOK
<1>2. CASE Close(p)
  <2>1. granted \subseteq granted' /\ granted' \subseteq Urls
      BY <1>2 DEF Close, Inv, TypeOK, Handlers
  <2>2. Minor
      BY <1>2, <2>1, FreshIsSettings DEF Close, Minor, Inv, TypeOK
  <2>3. \A t \in Tasks : task'[t] = task[t] \/ task'[t] = Idle
      BY <1>2 DEF Close
  <2>4. task' \in [Tasks -> Handlers]
      BY <1>2, IdleWaits DEF Close, Inv, TypeOK, MayWait
  <2> QED
      BY <2>2, <2>3, <2>4, IdleWaits, MinorInv
<1> QED
    BY <1>1, <1>2

(* The user asks for a node, and a choice ends.                             *)
LEMMA ChoosingInv ==
    ASSUME Inv, NEW t \in Tasks,
           \/ \E p \in Pages, url \in Urls, required, paste \in BOOLEAN :
                 RequestNode(t, p, url, required, paste)
           \/ SavePending(t) \/ Ask(t) \/ Saved(t) \/ Failed(t)
    PROVE  Inv'
<1>0. /\ stored \in Settings /\ cookies \subseteq Urls /\ granted \subseteq Urls
      /\ known \in [Pages -> Settings] /\ task[t] \in Handlers
      /\ screen \in [Pages -> {"closed", "blank", "shown", "listed"}]
      /\ ~At(t, "idle") => Of(t) \in Pages /\ known[Of(t)] \in Settings
    BY DEF Inv, TypeOK, MayWait, At, Of
<1>1. ASSUME NEW p \in Pages, NEW url \in Urls, NEW required \in BOOLEAN, NEW paste \in BOOLEAN,
             RequestNode(t, p, url, required, paste)
      PROVE  Inv'
  <2>1. PICK request : request = [chain |-> known[p].chain, url |-> url,
                                  required |-> required, clear |-> paste]
      OBVIOUS
  <2>2. request \in Requests
      BY <1>0, <2>1 DEF Requests, Settings
  <2>3. PICK h : h = [Idle EXCEPT !.at = "pend", !.url = url, !.request = request]
      OBVIOUS
  <2>4. Idle \in Handlers
      BY IdleWaits DEF MayWait
  <2>5. h \in Handlers /\ h.at = "pend" /\ h.url = url /\ h.request = request
      BY <2>2, <2>3, <2>4 DEF Handlers, Stages
  <2>6. Minor /\ Starts(t, p, h)
      BY <1>0, <1>1, <2>1, <2>3 DEF RequestNode, Minor
  <2> QED
      BY <2>2, <2>5, <2>6, StartsInv DEF Carries
<1>2. CASE SavePending(t)
  <2>1. task[t].request \in Requests /\ task[t].url \in Urls /\ ~At(t, "idle")
      BY <1>2 DEF SavePending, Inv, MayWait, Carries, At
  <2>2. Minor
      BY <1>0, <1>2, <2>1, GivingUp, UpdateIsMinor DEF SavePending
  <2>3. PICK h : h = [task[t] EXCEPT !.at = "ask"]
      OBVIOUS
  <2>4. h \in Handlers /\ h.at = "ask" /\ h.url = task[t].url /\ h.page = Of(t)
      BY <1>0, <2>3 DEF Handlers, Stages, Of
  <2>5. MayWait(h)
      BY <1>0, <2>1, <2>4 DEF MayWait, Carries
  <2>6. Becomes(t, h)
      BY <1>2, <2>3 DEF SavePending, Go
  <2> QED
      BY <2>2, <2>4, <2>5, <2>6, BecomesInv
<1>3. CASE Ask(t)
  <2>1. task[t].url \in Urls /\ ~At(t, "idle") /\ UNCHANGED <<screen, caveats>>
      BY <1>3 DEF Ask, Inv, MayWait, Carries, At
  <2>2. CASE granted' = granted \cup {task[t].url} /\ UNCHANGED <<stored, cookies, known>>
    <3>1. Minor
        BY <1>0, <2>1, <2>2 DEF Minor
    <3>2. CASE Ends(t)
        BY <3>1, <3>2, EndsInv
    <3>3. CASE /\ known[Of(t)].pending # None
               /\ Becomes(t, [Trying(t, "request", known[Of(t)].pending.url) EXCEPT !.request = known[Of(t)].pending])
      <4>1. known[Of(t)].pending \in Requests /\ known[Of(t)].pending.url \in Urls
          BY <1>0, <2>1, <3>3 DEF Settings, Requests
      <4>2. "request" \in Jobs
          BY DEF Jobs
      <4> QED
          BY <2>1, <3>1, <3>3, <4>1, <4>2, TryingWaits, BecomesInv
    <3>4. \/ Ends(t)
          \/ /\ known[Of(t)].pending # None
             /\ Becomes(t, [Trying(t, "request", known[Of(t)].pending.url) EXCEPT !.request = known[Of(t)].pending])
        BY <1>3 DEF Ask, Ends
    <3> QED
        BY <3>2, <3>3, <3>4
  <2>3. CASE /\ granted' = granted /\ ClearCookie(task[t].request)
             /\ Update(Of(t), [stored EXCEPT !.pending = None]) /\ Ends(t)
    <3>1. cookies' \subseteq Urls
        BY <1>0, <2>3 DEF ClearCookie
    <3>2. Minor
        BY <1>0, <2>1, <2>3, <3>1, GivingUp, UpdateIsMinor
    <3> QED
        BY <2>3, <3>2, EndsInv
  <2> QED
      BY <1>3, <2>2, <2>3 DEF Ask
<1>4. CASE Saved(t)
  <2>1. ~At(t, "idle") /\ UNCHANGED <<cookies, granted, screen, caveats>>
      BY <1>4 DEF Saved, At
  <2>2. \/ UNCHANGED <<stored, known>>
        \/ \E next \in {[stored EXCEPT !.pending = None], [stored EXCEPT !.automatic = None],
                        [stored EXCEPT !.discovery = None]} : Update(Of(t), next)
      BY <1>4 DEF Saved
  <2>3. Minor
      BY <1>0, <2>1, <2>2, GivingUp, UpdateIsMinor DEF Minor
  <2>4. Becomes(t, [Idle EXCEPT !.at = "route", !.page = Of(t)])
      BY <1>4 DEF Saved
  <2> QED
      BY <2>1, <2>3, <2>4, AgainInv
<1>5. CASE Failed(t)
  <2>1. ~At(t, "idle") /\ UNCHANGED <<granted, screen, caveats>>
      BY <1>5 DEF Failed, At
  <2>2. CASE /\ ClearCookie(task[t].request) /\ Update(Of(t), [stored EXCEPT !.pending = None])
             /\ Ends(t) \/ Becomes(t, [Idle EXCEPT !.at = "resumed", !.page = Of(t)])
    <3>1. cookies' \subseteq Urls
        BY <1>0, <2>2 DEF ClearCookie
    <3>2. Minor
        BY <1>0, <2>1, <2>2, <3>1, GivingUp, UpdateIsMinor
    <3> QED
        BY <2>1, <2>2, <3>2, EndsInv, AgainInv
  <2>3. CASE (Go(t, "discover") \/ Ends(t)) /\ UNCHANGED <<stored, known, cookies>>
    <3>1. Minor
        BY <1>0, <2>1, <2>3 DEF Minor
    <3> QED
        BY <2>1, <2>3, <3>1, EndsInv, GoInv DEF Stages
  <2> QED
      BY <1>5, <2>2, <2>3 DEF Failed, Ends
<1> QED
    BY <1>1, <1>2, <1>3, <1>4, <1>5

(* Nodes are looked for, and one is picked.                                 *)
LEMMA DiscoveryInv ==
    ASSUME Inv, NEW t \in Tasks,
           \/ \E p \in Pages, url \in Urls, auto \in BOOLEAN : DiscoverFrom(t, p, url, auto)
           \/ \E p \in Pages, url \in Urls : Pick(t, p, url)
           \/ \E url \in Urls : TryNext(t, url)
           \/ AskDiscovery(t) \/ Discovered(t) \/ AskAutomatic(t)
    PROVE  Inv'
<1>0. /\ stored \in Settings /\ cookies \subseteq Urls /\ granted \subseteq Urls
      /\ known \in [Pages -> Settings] /\ task[t] \in Handlers
      /\ screen \in [Pages -> {"closed", "blank", "shown", "listed"}]
      /\ ~At(t, "idle") => Of(t) \in Pages /\ known[Of(t)] \in Settings
      /\ Idle \in Handlers
    BY IdleWaits DEF Inv, TypeOK, MayWait, At, Of
<1>1. ASSUME NEW p \in Pages, NEW url \in Urls, NEW auto \in BOOLEAN, DiscoverFrom(t, p, url, auto)
      PROVE  Inv'
  <2>1. PICK discovery : discovery = [chain |-> stored.chain, url |-> url, auto |-> auto]
      OBVIOUS
  <2>2. discovery \in Discoveries
      BY <1>0, <2>1 DEF Discoveries, Settings
  <2>3. PICK h : h = [Idle EXCEPT !.at = "askDiscovery", !.url = url, !.request = discovery]
      OBVIOUS
  <2>4. h \in Handlers /\ h.at = "askDiscovery" /\ h.url = url
      BY <1>0, <2>2, <2>3 DEF Handlers, Stages
  <2>5. /\ Update(p, [stored EXCEPT !.discovery = discovery]) /\ Starts(t, p, h)
        /\ UNCHANGED <<cookies, granted, screen, caveats>>
      BY <1>1, <2>1, <2>3 DEF DiscoverFrom
  <2>6. Minor
      BY <1>0, <2>2, <2>5, GivingUp, UpdateIsMinor
  <2> QED
      BY <2>4, <2>5, <2>6, StartsInv DEF Carries
<1>2. ASSUME NEW p \in Pages, NEW url \in Urls, Pick(t, p, url) PROVE Inv'
  <2>1. PICK h : h = [Idle EXCEPT !.at = "probe", !.job = "pick", !.url = url]
      OBVIOUS
  <2>2. h \in Handlers /\ h.at = "probe"
      BY <1>0, <2>1 DEF Handlers, Stages, Jobs
  <2>3. Minor /\ Starts(t, p, h)
      BY <1>0, <1>2, <2>1 DEF Pick, Minor
  <2> QED
      BY <2>2, <2>3, StartsInv DEF Carries
<1>3. ASSUME NEW url \in Urls, TryNext(t, url) PROVE Inv'
  <2>1. PICK h : h = [task[t] EXCEPT !.at = "probe", !.url = url]
      OBVIOUS
  <2>2. h \in Handlers /\ h.at = "probe" /\ h.page = Of(t)
      BY <1>0, <2>1 DEF Handlers, Stages, Of
  <2>3. Minor /\ Becomes(t, h) /\ ~At(t, "idle")
      BY <1>0, <1>3, <2>1 DEF TryNext, Minor, At
  <2> QED
      BY <1>0, <2>2, <2>3, BecomesInv DEF MayWait, Carries
<1>4. CASE AskDiscovery(t)
  <2>1. task[t].url \in Urls /\ ~At(t, "idle") /\ UNCHANGED <<cookies, screen, caveats>>
      BY <1>4 DEF AskDiscovery, Inv, MayWait, Carries, At
  <2>2. CASE /\ granted' = granted \cup {task[t].url} /\ UNCHANGED <<stored, known>>
             /\ Becomes(t, [task[t] EXCEPT !.at = "discover", !.job = "discovery"])
    <3>1. PICK h : h = [task[t] EXCEPT !.at = "discover", !.job = "discovery"]
        OBVIOUS
    <3>2. h \in Handlers /\ h.at = "discover" /\ h.page = Of(t)
        BY <1>0, <3>1 DEF Handlers, Stages, Jobs, Of
    <3>3. Minor
        BY <1>0, <2>1, <2>2 DEF Minor
    <3>4. MayWait(h)
        BY <1>0, <2>1, <3>2 DEF MayWait, Carries
    <3> QED
        BY <2>2, <3>1, <3>2, <3>3, <3>4, BecomesInv
  <2>3. CASE granted' = granted /\ Update(Of(t), [stored EXCEPT !.discovery = None]) /\ Ends(t)
    <3>1. Minor
        BY <1>0, <2>1, <2>3, GivingUp, UpdateIsMinor
    <3> QED
        BY <2>3, <3>1, EndsInv
  <2> QED
      BY <1>4, <2>2, <2>3 DEF AskDiscovery
<1>5. CASE Discovered(t)
  <2>1. ~At(t, "idle") /\ UNCHANGED <<cookies, granted, caveats>>
      BY <1>5 DEF Discovered, At
  <2>2. screen' \in [Pages -> {"closed", "blank", "shown", "listed"}]
      BY <1>0, <1>5 DEF Discovered
  <2>3. \/ UNCHANGED <<stored, known>>
        \/ \E next \in {[stored EXCEPT !.automatic = None], [stored EXCEPT !.discovery = None]} :
              Update(Of(t), next)
      BY <1>5 DEF Discovered
  <2>4. Minor
      BY <1>0, <2>1, <2>2, <2>3, GivingUp, UpdateIsMinor DEF Minor
  <2>5. Ends(t) \/ Becomes(t, [Idle EXCEPT !.at = "route", !.page = Of(t)])
      BY <1>5 DEF Discovered
  <2> QED
      BY <2>1, <2>4, <2>5, EndsInv, AgainInv
<1>6. CASE AskAutomatic(t)
  <2>1. ~At(t, "idle") /\ UNCHANGED <<cookies, screen, caveats>>
      BY <1>6 DEF AskAutomatic, At
  <2>2. CASE /\ granted' = granted \cup ({task[t].url} \ {None}) /\ UNCHANGED <<stored, known>>
             /\ Becomes(t, [Idle EXCEPT !.at = "discover", !.page = Of(t), !.job = "automatic"])
    <3>1. PICK h : h = [Idle EXCEPT !.at = "discover", !.page = Of(t), !.job = "automatic"]
        OBVIOUS
    <3>2. h \in Handlers /\ h.at = "discover" /\ h.page = Of(t)
        BY <1>0, <2>1, <3>1 DEF Handlers, Stages, Jobs
    <3>3. granted' \subseteq Urls
        BY <1>0, <2>2 DEF Handlers
    <3>4. Minor
        BY <1>0, <2>1, <2>2, <3>3 DEF Minor
    <3>5. MayWait(h)
        BY <1>0, <2>1, <3>2 DEF MayWait, Carries
    <3> QED
        BY <2>2, <3>1, <3>2, <3>4, <3>5, BecomesInv
  <2>3. CASE /\ granted' = granted /\ Update(Of(t), [stored EXCEPT !.automatic = None])
             /\ Becomes(t, [Idle EXCEPT !.at = "route", !.page = Of(t)])
    <3>1. Minor
        BY <1>0, <2>1, <2>3, GivingUp, UpdateIsMinor
    <3> QED
        BY <2>1, <2>3, <3>1, AgainInv
  <2> QED
      BY <1>6, <2>2, <2>3 DEF AskAutomatic
<1> QED
    BY <1>1, <1>2, <1>3, <1>4, <1>5, <1>6

(* The node answers: what it is saved for is what it answered for, unless   *)
(* the page has not heard of a switch.                                      *)
LEMMA ProbeInv == ASSUME Inv, NEW t \in Tasks, Probe(t) PROVE Inv'
<1>0. /\ task[t] \in Handlers /\ Of(t) \in Pages /\ ~At(t, "idle")
      /\ UNCHANGED <<stored, cookies, granted, known, screen, caveats>>
    BY DEF Inv, MayWait, Probe, At, Of
<1>1. CASE Go(t, "failed")
  <2>1. Minor
      BY <1>0 DEF Minor, Inv, TypeOK
  <2> QED
      BY <1>0, <1>1, <2>1, GoInv DEF Stages
<1>2. ASSUME task[t].url \in granted, <<task[t].url, known[Of(t)].chain>> \in Serves,
             NEW accepts \in BOOLEAN, Required(task[t]) => accepts, Answered(t, accepts)
      PROVE  Inv'
  <2>1. PICK allow : allow = (IF known[Of(t)].chain = stored.chain THEN {} ELSE {"switched"})
                             \cup (IF Required(task[t]) THEN {} ELSE {"readOnly"})
      OBVIOUS
  <2>2. /\ allow \in SUBSET Caveats
        /\ known[Of(t)].chain # stored.chain => "switched" \in allow
        /\ ~Required(task[t]) => "readOnly" \in allow
      BY <2>1 DEF Caveats
  <2>3. PICK h : h = [task[t] EXCEPT !.at = "save", !.accepts = accepts, !.caveats = allow]
      OBVIOUS
  <2>4. /\ h \in Handlers /\ h.at = "save" /\ h.accepts = accepts /\ h.caveats = allow
        /\ h.url = task[t].url /\ h.page = Of(t)
      BY <1>0, <2>2, <2>3 DEF Handlers, Stages, Of
  <2>5. task \in [Tasks -> Handlers] /\ granted \subseteq Urls
      BY DEF Inv, TypeOK
  <2>6. Becomes(t, h)
      BY <1>2, <2>1, <2>3 DEF Answered
  <2>7. task' \in [Tasks -> Handlers] /\ \A u \in Tasks : task'[u] = IF u = t THEN h ELSE task[u]
      BY <2>4, <2>5, <2>6 DEF Becomes
  <2>8. TypeOK'
      BY <1>0, <2>7 DEF Inv, TypeOK
  <2>9. \A u \in Tasks : MayWait(task'[u])
      BY <1>0, <1>2, <2>4, <2>5, <2>7 DEF Inv, MayWait, Carries
  <2>10. SaveKnows'
      BY <1>0, <1>2, <2>2, <2>4, <2>7 DEF Inv, SaveKnows, At
  <2>11. ReleaseKnows'
      BY <1>0, <2>4, <2>7 DEF Inv, ReleaseKnows, At
  <2>12. EndpointsServeUnlessSwitched' /\ EndpointsReachableUnlessReleased'
      BY <1>0 DEF Inv, EndpointsServeUnlessSwitched, EndpointsReachableUnlessReleased
  <2> QED
      BY <2>8, <2>9, <2>10, <2>11, <2>12 DEF Inv, MayWait, Carries
<1> QED
    BY <1>1, <1>2 DEF Probe

(* The node is saved, and releases that read the saved nodes before learn   *)
(* of it in their history.                                                  *)
LEMMA SaveInv == ASSUME Inv, NEW t \in Tasks, Save(t) PROVE Inv'
<1>0. /\ stored \in Settings /\ stored.chain \in Chains
      /\ task \in [Tasks -> Handlers] /\ Of(t) \in Pages
      /\ UNCHANGED <<cookies, granted, screen>>
    BY DEF Inv, TypeOK, MayWait, Save, At, Of, Settings
<1>1. /\ task[t].url \in Urls
      /\ <<task[t].url, stored.chain>> \in Serves \/ "switched" \in task[t].caveats
      /\ task[t].url \in granted \/ "released" \in task[t].caveats
      /\ task[t].accepts \/ "readOnly" \in task[t].caveats
    BY DEF Inv, MayWait, Carries, SaveKnows, Save, At
<1>2. PICK node : node = [url |-> task[t].url, accepts |-> task[t].accepts]
    OBVIOUS
<1>3. node \in Nodes /\ node.url = task[t].url /\ node.accepts = task[t].accepts
    BY <1>0, <1>1, <1>2 DEF Nodes, Handlers
<1>4. node # None
    BY <1>3, RequestsAssumption
<1>5. PICK next : next = [stored EXCEPT !.endpoints[stored.chain] = node]
    OBVIOUS
<1>6. /\ next \in Settings /\ next.chain = stored.chain
      /\ \A chain \in Chains : next.endpoints[chain] =
            IF chain = stored.chain THEN node ELSE stored.endpoints[chain]
    BY <1>0, <1>3, <1>5 DEF Settings
<1>7. stored' = next /\ known' = [known EXCEPT ![Of(t)] = next]
    BY <1>2, <1>5 DEF Save, Update
<1>8. /\ caveats' \in [Chains -> SUBSET Caveats]
      /\ \A chain \in Chains : caveats'[chain] =
            IF chain = stored.chain THEN task[t].caveats ELSE caveats[chain]
    BY <1>0 DEF Save, Inv, TypeOK, Handlers
<1>9. PICK h : h = [Idle EXCEPT !.at = "saved", !.page = Of(t), !.job = task[t].job]
    OBVIOUS
<1>10. h \in Handlers /\ h.at = "saved" /\ h.page = Of(t)
    BY <1>0, <1>9, IdleWaits DEF MayWait, Handlers, Stages
<1>11. task' = [u \in Tasks |-> IF u = t THEN h
                               ELSE IF At(u, "release") THEN [task[u] EXCEPT !.since = @ \cup {node.url}]
                               ELSE task[u]]
    BY <1>2, <1>9 DEF Save
<1>12. \A u \in Tasks : At(u, "release") =>
           LET g == [task[u] EXCEPT !.since = @ \cup {node.url}]
           IN  /\ g \in Handlers /\ g.at = "release" /\ g.page = task[u].page
               /\ g.keep = task[u].keep /\ g.since = task[u].since \cup {node.url}
    BY <1>0, <1>1, <1>3 DEF Handlers, At
<1>13. /\ task' \in [Tasks -> Handlers] /\ task'[t] = h
       /\ \A u \in Tasks \ {t} :
             \/ task'[u] = task[u] /\ task[u].at # "release"
             \/ /\ task[u].at = "release" /\ task'[u].at = "release" /\ task'[u].page = task[u].page
                /\ task'[u].keep = task[u].keep /\ task'[u].since = task[u].since \cup {node.url}
    BY <1>0, <1>10, <1>11, <1>12 DEF At
<1>14. TypeOK'
    BY <1>0, <1>6, <1>7, <1>8, <1>13 DEF Inv, TypeOK
<1>15. \A u \in Tasks : MayWait(task'[u])
    BY <1>0, <1>10, <1>13 DEF Inv, MayWait, Carries
<1>16. SaveKnows'
    BY <1>0, <1>6, <1>7, <1>10, <1>13 DEF Inv, SaveKnows, At
<1>17. ReleaseKnows'
    BY <1>6, <1>7, <1>10, <1>13 DEF Inv, ReleaseKnows, At
<1>18. EndpointsServeUnlessSwitched'
    BY <1>1, <1>3, <1>6, <1>7, <1>8 DEF Inv, EndpointsServeUnlessSwitched
<1>19. EndpointsReachableUnlessReleased'
    BY <1>0, <1>1, <1>3, <1>6, <1>7, <1>8 DEF Inv, EndpointsReachableUnlessReleased
<1> QED
    BY <1>14, <1>15, <1>16, <1>17, <1>18, <1>19 DEF Inv, MayWait, Carries

(* The user presses a chain, which is selected later.                       *)
LEMMA PressInv ==
    ASSUME Inv, NEW t \in Tasks, NEW p \in Pages, NEW chain \in Chains, Press(t, p, chain)
    PROVE  Inv'
<1>1. PICK job \in {"none", "automatic"} :
          Starts(t, p, [Idle EXCEPT !.at = "switch", !.job = job, !.chain = chain])
    BY DEF Press
<1>2. PICK h : h = [Idle EXCEPT !.at = "switch", !.job = job, !.chain = chain]
    OBVIOUS
<1>3. h \in Handlers /\ h.at = "switch" /\ h.chain = chain
    BY <1>1, <1>2, IdleWaits DEF MayWait, Handlers, Stages, Jobs
<1>4. Minor
    BY DEF Press, Minor, Inv, TypeOK
<1> QED
    BY <1>1, <1>2, <1>3, <1>4, StartsInv DEF Carries

(* The chain is selected: choices that have their answer are overtaken.     *)
LEMMA SwitchInv == ASSUME Inv, NEW t \in Tasks, Switch(t) PROVE Inv'
<1>0. /\ stored \in Settings /\ task \in [Tasks -> Handlers]
      /\ Of(t) \in Pages /\ task[t].chain \in Chains
      /\ UNCHANGED <<cookies, granted, screen, caveats>>
      /\ Idle \in Handlers
    BY IdleWaits DEF Inv, TypeOK, MayWait, Carries, Switch, At, Of
<1>1. PICK next, h : /\ SwitchTo(t, next, h)
                     /\ next \in Settings /\ next.endpoints = stored.endpoints
                     /\ h \in Handlers /\ h.at \in {"route", "askAutomatic"} /\ h.page = Of(t)
  <2>1. PICK chosen : chosen = [stored EXCEPT !.chain = task[t].chain]
      OBVIOUS
  <2>2. PICK automatic : automatic = [stored EXCEPT !.chain = task[t].chain, !.automatic = task[t].chain]
      OBVIOUS
  <2>3. /\ {chosen, automatic} \subseteq Settings
        /\ chosen.endpoints = stored.endpoints /\ automatic.endpoints = stored.endpoints
      BY <1>0, <2>1, <2>2 DEF Settings
  <2>4. PICK url : url = IF automatic.endpoints[Root] = None THEN None ELSE automatic.endpoints[Root].url
      OBVIOUS
  <2>5. url \in Urls \cup {None}
      BY <2>3, <2>4 DEF Settings, Chains, Nodes
  <2>6. PICK g : g = [Idle EXCEPT !.at = "route", !.page = Of(t)]
      OBVIOUS
  <2>7. PICK a : a = [Idle EXCEPT !.at = "askAutomatic", !.page = Of(t), !.url = url]
      OBVIOUS
  <2>8. /\ g \in Handlers /\ g.at = "route" /\ g.page = Of(t)
        /\ a \in Handlers /\ a.at = "askAutomatic" /\ a.page = Of(t)
      BY <1>0, <2>5, <2>6, <2>7 DEF Handlers, Stages
  <2>9. SwitchTo(t, chosen, g) \/ SwitchTo(t, automatic, a)
      BY <2>1, <2>2, <2>4, <2>6, <2>7 DEF Switch
  <2> QED
      BY <2>3, <2>8, <2>9
<1>2. stored' = next /\ known' = [known EXCEPT ![Of(t)] = next]
    BY <1>1 DEF SwitchTo, Update
<1>3. task' = [u \in Tasks |-> IF u = t THEN h
                               ELSE IF At(u, "save") /\ next.chain # stored.chain
                                    THEN [task[u] EXCEPT !.caveats = @ \cup {"switched"}] ELSE task[u]]
    BY <1>1 DEF SwitchTo
<1>4. \A u \in Tasks : At(u, "save") =>
          LET g == [task[u] EXCEPT !.caveats = @ \cup {"switched"}]
          IN  /\ g \in Handlers /\ g.at = "save" /\ g.page = task[u].page /\ g.url = task[u].url
              /\ g.accepts = task[u].accepts /\ g.caveats = task[u].caveats \cup {"switched"}
    BY <1>0 DEF Handlers, At, Caveats
<1>5. /\ task' \in [Tasks -> Handlers] /\ task'[t] = h
      /\ \A u \in Tasks \ {t} :
            \/ task'[u] = task[u] /\ (task[u].at = "save" => next.chain = stored.chain)
            \/ /\ task[u].at = "save" /\ task'[u].at = "save" /\ task'[u].page = task[u].page
               /\ task'[u].url = task[u].url /\ task'[u].accepts = task[u].accepts
               /\ task'[u].caveats = task[u].caveats \cup {"switched"}
    BY <1>0, <1>1, <1>3, <1>4 DEF At
<1>6. TypeOK'
    BY <1>0, <1>1, <1>2, <1>5 DEF Inv, TypeOK
<1>7. \A u \in Tasks : MayWait(task'[u])
    BY <1>0, <1>1, <1>5 DEF Inv, MayWait, Carries
<1>8. SaveKnows'
    BY <1>0, <1>1, <1>2, <1>5 DEF Inv, SaveKnows, At
<1>9. ReleaseKnows'
    BY <1>1, <1>2, <1>5 DEF Inv, ReleaseKnows, At
<1>10. EndpointsServeUnlessSwitched' /\ EndpointsReachableUnlessReleased'
    BY <1>0, <1>1, <1>2 DEF Inv, EndpointsServeUnlessSwitched, EndpointsReachableUnlessReleased
<1> QED
    BY <1>6, <1>7, <1>8, <1>9, <1>10 DEF Inv, MayWait, Carries

(* The nodes to keep are read: the saved ones are among them.               *)
LEMMA ReadUnusedInv == ASSUME Inv, NEW t \in Tasks, NEW p \in Pages, ReadUnused(t, p) PROVE Inv'
<1>0. /\ stored \in Settings /\ task \in [Tasks -> Handlers]
      /\ UNCHANGED <<stored, cookies, granted, known, screen, caveats>>
    BY DEF Inv, TypeOK, ReadUnused
<1>1. PICK keep : keep = Pending \cup SavedUrls(stored)
    OBVIOUS
<1>2. \A chain \in Chains : stored.endpoints[chain] # None => stored.endpoints[chain].url \in keep
    BY <1>1 DEF SavedUrls
<1>3. keep \in SUBSET Urls
  <2>1. \A request \in {stored.pending, stored.discovery} \ {None} : request.url \in Urls
      BY <1>0 DEF Settings, Requests, Discoveries
  <2>2. \A chain \in Chains : stored.endpoints[chain] # None => stored.endpoints[chain].url \in Urls
      BY <1>0 DEF Settings, Nodes
  <2> QED
      BY <1>1, <2>1, <2>2 DEF Pending, SavedUrls
<1>4. PICK h : h = [Idle EXCEPT !.at = "release", !.page = p, !.keep = keep]
    OBVIOUS
<1>5. h \in Handlers /\ h.at = "release" /\ h.page = p /\ h.keep = keep
    BY <1>3, <1>4, IdleWaits DEF MayWait, Handlers, Stages
<1>6. task' = [task EXCEPT ![t] = h]
    BY <1>1, <1>4 DEF ReadUnused, Starts
<1>7. task' \in [Tasks -> Handlers] /\ \A u \in Tasks : task'[u] = IF u = t THEN h ELSE task[u]
    BY <1>0, <1>5, <1>6
<1>8. TypeOK'
    BY <1>0, <1>7 DEF Inv, TypeOK
<1>9. \A u \in Tasks : MayWait(task'[u])
    BY <1>5, <1>7 DEF Inv, MayWait, Carries
<1>10. SaveKnows' /\ ReleaseKnows'
    BY <1>0, <1>2, <1>5, <1>7 DEF Inv, SaveKnows, ReleaseKnows, At
<1>11. EndpointsServeUnlessSwitched' /\ EndpointsReachableUnlessReleased'
    BY <1>0 DEF Inv, EndpointsServeUnlessSwitched, EndpointsReachableUnlessReleased
<1> QED
    BY <1>8, <1>9, <1>10, <1>11 DEF Inv, MayWait, Carries

(* Permissions are released: only nodes saved since, and choices that have  *)
(* their answer, can lose theirs.                                           *)
LEMMA ReleaseInv == ASSUME Inv, NEW t \in Tasks, ReleaseUnused(t) PROVE Inv'
<1>0. /\ stored \in Settings /\ task \in [Tasks -> Handlers] /\ caveats \in [Chains -> SUBSET Caveats]
      /\ UNCHANGED <<stored, cookies, known, screen>>
      /\ Hosted \subseteq granted /\ granted \subseteq Urls
    BY DEF Inv, TypeOK, ReleaseUnused
<1>1. PICK kept : kept = task[t].keep \cup Hosted
    OBVIOUS
<1>2. granted' = granted \cap kept
    BY <1>1 DEF ReleaseUnused
<1>3. \A chain \in Chains : stored.endpoints[chain] # None =>
          stored.endpoints[chain].url \in kept \cup task[t].since
    BY <1>1 DEF Inv, ReleaseKnows, ReleaseUnused, At
<1>4. task' = [u \in Tasks |-> IF u = t THEN Idle
                               ELSE IF At(u, "save") /\ task[u].url \notin kept
                                    THEN [task[u] EXCEPT !.caveats = @ \cup {"released"}] ELSE task[u]]
    BY <1>1 DEF ReleaseUnused
<1>5. \A u \in Tasks : At(u, "save") =>
          LET g == [task[u] EXCEPT !.caveats = @ \cup {"released"}]
          IN  /\ g \in Handlers /\ g.at = "save" /\ g.page = task[u].page /\ g.url = task[u].url
              /\ g.accepts = task[u].accepts /\ g.caveats = task[u].caveats \cup {"released"}
    BY <1>0 DEF Handlers, At, Caveats
<1>6. /\ task' \in [Tasks -> Handlers] /\ task'[t] = Idle
      /\ \A u \in Tasks \ {t} :
            \/ task'[u] = task[u] /\ (task[u].at = "save" => task[u].url \in kept)
            \/ /\ task[u].at = "save" /\ task'[u].at = "save" /\ task'[u].page = task[u].page
               /\ task'[u].url = task[u].url /\ task'[u].accepts = task[u].accepts
               /\ task'[u].caveats = task[u].caveats \cup {"released"}
    BY <1>0, <1>4, <1>5, IdleWaits DEF At, MayWait
<1>7. caveats' = [chain \in Chains |->
                     IF stored.endpoints[chain] # None
                        /\ stored.endpoints[chain].url \in task[t].since \ kept
                     THEN caveats[chain] \cup {"released"} ELSE caveats[chain]]
    BY <1>1 DEF ReleaseUnused
<1>8. /\ caveats' \in [Chains -> SUBSET Caveats]
      /\ \A chain \in Chains :
            /\ caveats[chain] \subseteq caveats'[chain]
            /\ stored.endpoints[chain] # None => \/ stored.endpoints[chain].url \in kept
                                                 \/ "released" \in caveats'[chain]
    BY <1>0, <1>3, <1>7 DEF Caveats
<1>9. TypeOK'
    BY <1>0, <1>1, <1>2, <1>6, <1>8 DEF Inv, TypeOK
<1>10. \A u \in Tasks : MayWait(task'[u])
    BY <1>6, IdleWaits DEF Inv, MayWait, Carries
<1>11. SaveKnows'
    BY <1>0, <1>2, <1>6, IdleWaits DEF Inv, SaveKnows, At
<1>12. ReleaseKnows'
    BY <1>0, <1>6, IdleWaits DEF Inv, ReleaseKnows, At
<1>13. EndpointsServeUnlessSwitched'
    BY <1>0, <1>8 DEF Inv, EndpointsServeUnlessSwitched
<1>14. EndpointsReachableUnlessReleased'
    BY <1>0, <1>2, <1>8 DEF Inv, EndpointsReachableUnlessReleased
<1> QED
    BY <1>9, <1>10, <1>11, <1>12, <1>13, <1>14 DEF Inv, MayWait, Carries

(* Every step keeps the inductive invariant.                                *)
LEMMA StepInv == Inv /\ [Next]_vars => Inv'
<1> SUFFICES ASSUME Inv, [Next]_vars PROVE Inv'
    OBVIOUS
<1>1. CASE UNCHANGED vars
  <2>1. Minor /\ task' = task
      BY <1>1 DEF vars, Minor, Inv, TypeOK
  <2> QED
      BY <2>1, MinorInv DEF Inv, TypeOK
<1>2. CASE Next
    BY <1>2, ClosingInv, OpeningInv, ChoosingInv, DiscoveryInv, ProbeInv, SaveInv, PressInv,
       SwitchInv, ReadUnusedInv, ReleaseInv DEF Next
<1> QED
    BY <1>1, <1>2

(* The inductive invariant holds in every reachable state.                  *)
LEMMA InvHolds == Spec => []Inv
<1>1. Init => Inv
    BY InitInv
<1>2. Inv /\ [Next]_vars => Inv'
    BY StepInv
<1> QED
    BY <1>1, <1>2, PTL DEF Spec

(* The state of the node choices is always of its type.                     *)
THEOREM EndpointTypes == Spec => []TypeOK
<1>1. Inv => TypeOK
    BY DEF Inv
<1> QED
    BY <1>1, InvHolds, PTL

(* A saved node serves its chain, unless the choice that saved it was       *)
(* overtaken by a switch, and accepts transactions where that was required: *)
(* app.ts chooseEndpoint, whatever else its page and the others do          *)
(* meanwhile.                                                               *)
THEOREM SavedNodesServe == Spec => []EndpointsServeUnlessSwitched
<1>1. Inv => EndpointsServeUnlessSwitched
    BY DEF Inv
<1> QED
    BY <1>1, InvHolds, PTL

(* A saved node can be reached, unless a release that had read before what  *)
(* to keep, or that came between its answer and its save, took it: app.ts   *)
(* connectionScreen and popup.ts releaseUnusedOrigins.                      *)
THEOREM SavedNodesAreReachable == Spec => []EndpointsReachableUnlessReleased
<1>1. Inv => EndpointsReachableUnlessReleased
    BY DEF Inv
<1> QED
    BY <1>1, InvHolds, PTL

----------------------------------------------------------------------------
(* The statuses a page keeps                                                *)

(* A pass reads nothing older than when it began, and what was resent by    *)
(* then had been received.  While nothing invalidates it nothing is resent. *)
PassKnows ==
    /\ \A tx \in Statuses!Txs : resent[tx] <= received[tx]
    /\ pass.on =>
        /\ {pass.from, pass.floor} \subseteq [Statuses!Txs -> 0 .. MaxReceived]
        /\ \A tx \in Statuses!Txs : pass.floor[tx] <= pass.from[tx] /\ pass.from[tx] <= received[tx]
        /\ Statuses!Knows(pass.statuses, pass.from)
        /\ pass.current => pass.floor = resent

(* Who waits, waits for the pass that is under way.                         *)
WaitingForPass == view.at = "waiting" => pass.on /\ view.floor = pass.floor

CacheInv ==
    /\ Statuses!TypeOK
    /\ PassKnows
    /\ WaitingForPass
    /\ Statuses!CacheKnowsRebroadcasts
    /\ Statuses!ShownKnowsRebroadcasts

(* A function of Statuses tells of some of the transactions.                *)
LEMMA StatusesAre ==
    ASSUME NEW told
    PROVE  told \in Statuses!Statuses <=> DOMAIN told \subseteq Statuses!Txs /\ told \in [DOMAIN told -> 0 .. MaxReceived]
<1>1. ASSUME told \in Statuses!Statuses
      PROVE  DOMAIN told \subseteq Statuses!Txs /\ told \in [DOMAIN told -> 0 .. MaxReceived]
    BY <1>1 DEF Statuses!Statuses
<1>2. ASSUME DOMAIN told \subseteq Statuses!Txs, told \in [DOMAIN told -> 0 .. MaxReceived]
      PROVE  told \in Statuses!Statuses
  <2> DEFINE read == DOMAIN told
  <2>1. read \in SUBSET Statuses!Txs /\ told \in [read -> 0 .. MaxReceived]
      BY <1>2
  <2> HIDE DEF read
  <2> QED
      BY <2>1, Zenon DEF Statuses!Statuses
<1> QED
    BY <1>1, <1>2

(* The bound on receptions is a number.                                     *)
LEMMA BoundIsNat == MaxReceived \in Nat
BY PageAssumption DEF Statuses!StatusCacheAssumption

(* The statuses in the model's own constants.                               *)
LEMMA NoStatusIs == Statuses!NoStatus \in Statuses!Statuses /\ DOMAIN Statuses!NoStatus = {}
BY StatusesAre DEF Statuses!NoStatus

(* At first nothing is cached, read or shown.                               *)
LEMMA CacheInit == Statuses!Init => CacheInv
<1> SUFFICES ASSUME Statuses!Init PROVE CacheInv
    OBVIOUS
<1>1. /\ recorded \subseteq sent /\ sent \subseteq Statuses!Txs
      /\ {received, resent, first} \subseteq [Statuses!Txs -> 0 .. MaxReceived]
      /\ calls \in [Calls -> {Statuses!NoCall} \cup (Statuses!Txs \X {"first", "again"})]
      /\ recent \in BOOLEAN /\ cache \in Statuses!Statuses
  <2>1. 0 \in 0 .. MaxReceived
      BY BoundIsNat
  <2>2. received \in [Statuses!Txs -> 0 .. MaxReceived] /\ resent = received /\ first = received
      BY <2>1 DEF Statuses!Init
  <2> HIDE DEF Statuses!NoCall
  <2>3. calls \in [Calls -> {Statuses!NoCall} \cup (Statuses!Txs \X {"first", "again"})]
      BY DEF Statuses!Init
  <2> QED
      BY <2>2, <2>3, NoStatusIs DEF Statuses!Init
<1>2. /\ pass \in [on : BOOLEAN, current : BOOLEAN, unread : SUBSET Statuses!Txs, statuses : Statuses!Statuses,
                   deep : SUBSET DOMAIN pass.statuses, from : Statuses!Statuses, floor : Statuses!Statuses]
      /\ view \in [at : {"none", "waiting", "shown"}, statuses : Statuses!Statuses, floor : Statuses!Statuses]
    BY NoStatusIs DEF Statuses!Init, Statuses!NoPass, Statuses!NoScreen
<1>3. PassKnows /\ WaitingForPass /\ Statuses!CacheKnowsRebroadcasts /\ Statuses!ShownKnowsRebroadcasts
    BY BoundIsNat DEF Statuses!Init, Statuses!NoPass, Statuses!NoScreen, PassKnows,
       WaitingForPass, Statuses!CacheKnowsRebroadcasts, Statuses!ShownKnowsRebroadcasts
<1> QED
    BY <1>1, <1>2, <1>3 DEF CacheInv, Statuses!TypeOK

(* What a new pass begins with.                                             *)
LEMMA NewPassKnows ==
    ASSUME CacheInv
    PROVE  /\ Statuses!NewPass \in [on : BOOLEAN, current : BOOLEAN, unread : SUBSET Statuses!Txs, statuses : Statuses!Statuses,
                           deep : SUBSET DOMAIN Statuses!NewPass.statuses, from : Statuses!Statuses, floor : Statuses!Statuses]
           /\ Statuses!NewPass.on /\ Statuses!NewPass.floor = resent /\ Statuses!NewPass.from = received
           /\ Statuses!NewPass.floor \in [Statuses!Txs -> 0 .. MaxReceived] /\ Statuses!NewPass.from \in [Statuses!Txs -> 0 .. MaxReceived]
           /\ DOMAIN Statuses!NewPass.statuses = {}
<1>1. /\ recorded \in SUBSET Statuses!Txs
      /\ received \in [Statuses!Txs -> 0 .. MaxReceived] /\ resent \in [Statuses!Txs -> 0 .. MaxReceived]
    BY DEF CacheInv, Statuses!TypeOK
<1>2. received \in Statuses!Statuses /\ resent \in Statuses!Statuses
    BY <1>1, StatusesAre
<1> QED
    BY <1>1, <1>2, NoStatusIs DEF Statuses!NewPass

(* A step that leaves the network alone keeps what it does not disturb: the *)
(* pass may be the same, one more step on, a new one, or none.              *)
LEMMA SubmitInv ==
    ASSUME CacheInv, NEW call \in Calls, NEW tx \in Statuses!Txs, Statuses!Submit(call, tx) \/ Statuses!Resubmit(call, tx)
    PROVE  CacheInv'
<1>1. CASE Statuses!Submit(call, tx)
  <2> DEFINE kept == [x \in DOMAIN cache \ {tx} |-> cache[x]]
  <2>1. /\ recorded' = recorded \cup {tx} /\ sent' = sent \cup {tx} /\ recent' = FALSE /\ cache' = kept
        /\ pass' = [pass EXCEPT !.current = FALSE]
        /\ calls' = [calls EXCEPT ![call] = <<tx, "first">>]
        /\ UNCHANGED <<received, resent, first, view>>
      BY <1>1 DEF Statuses!Submit, Statuses!Invalidate
  <2>2. kept \in Statuses!Statuses
      BY StatusesAre DEF CacheInv, Statuses!TypeOK
  <2>3. Statuses!TypeOK'
      BY <2>1, <2>2 DEF CacheInv, Statuses!TypeOK
  <2>4. PassKnows' /\ WaitingForPass' /\ Statuses!CacheKnowsRebroadcasts' /\ Statuses!ShownKnowsRebroadcasts'
      BY <2>1 DEF CacheInv, Statuses!TypeOK, PassKnows, WaitingForPass,
         Statuses!CacheKnowsRebroadcasts, Statuses!ShownKnowsRebroadcasts, Statuses!Knows
  <2> QED
      BY <2>3, <2>4 DEF CacheInv
<1>2. CASE Statuses!Resubmit(call, tx)
  <2>1. Statuses!TypeOK'
      BY <1>2 DEF Statuses!Resubmit, Statuses!store, CacheInv, Statuses!TypeOK
  <2>2. PassKnows' /\ WaitingForPass' /\ Statuses!CacheKnowsRebroadcasts' /\ Statuses!ShownKnowsRebroadcasts'
      BY <1>2 DEF Statuses!Resubmit, CacheInv, PassKnows, WaitingForPass,
         Statuses!CacheKnowsRebroadcasts, Statuses!ShownKnowsRebroadcasts
  <2> QED
      BY <2>1, <2>2 DEF CacheInv
<1> QED
    BY <1>1, <1>2

(* A node that receives a transaction knows no less than before.            *)
LEMMA ReceiveInv == ASSUME CacheInv, NEW tx \in Statuses!Txs, Statuses!Receive(tx) PROVE CacheInv'
<1>1. /\ received[tx] < MaxReceived /\ received' = [received EXCEPT ![tx] = @ + 1]
      /\ UNCHANGED <<recorded, sent, calls, resent, first, recent, cache, pass, view>>
    BY DEF Statuses!Receive, Statuses!store
<1>2. received \in [Statuses!Txs -> 0 .. MaxReceived] /\ resent \in [Statuses!Txs -> 0 .. MaxReceived]
    BY DEF CacheInv, Statuses!TypeOK
<1>3. received' \in [Statuses!Txs -> 0 .. MaxReceived] /\ \A x \in Statuses!Txs : received[x] <= received'[x]
    BY <1>1, <1>2, BoundIsNat
<1>4. Statuses!TypeOK'
    BY <1>1, <1>3 DEF CacheInv, Statuses!TypeOK
<1>5. \A x \in Statuses!Txs : resent'[x] <= received'[x]
    BY <1>1, <1>2, <1>3, BoundIsNat DEF CacheInv, PassKnows
<1>6. pass.on => \A x \in Statuses!Txs : pass.from[x] <= received'[x]
    BY <1>2, <1>3, BoundIsNat DEF CacheInv, PassKnows
<1>7. PassKnows'
    BY <1>1, <1>5, <1>6 DEF CacheInv, PassKnows
<1>8. WaitingForPass' /\ Statuses!CacheKnowsRebroadcasts' /\ Statuses!ShownKnowsRebroadcasts'
    BY <1>1 DEF CacheInv, WaitingForPass, Statuses!CacheKnowsRebroadcasts,
       Statuses!ShownKnowsRebroadcasts
<1> QED
    BY <1>4, <1>7, <1>8 DEF CacheInv

(* A rebroadcast returns: it raises the floor of what is shown from then    *)
(* on, and the pass that runs is no longer current.                         *)
LEMMA ReturnInv == ASSUME CacheInv, NEW call \in Calls, Statuses!Return(call) PROVE CacheInv'
<1> DEFINE tx == calls[call][1]
           kept == [x \in DOMAIN cache \ {tx} |-> cache[x]]
<1>1. calls[call] \in Statuses!Txs \X {"first", "again"}
    BY DEF Statuses!Return, CacheInv, Statuses!TypeOK
<1>2. tx \in Statuses!Txs /\ received[tx] \in 0 .. MaxReceived
    BY <1>1 DEF CacheInv, Statuses!TypeOK
<1>3. /\ calls' = [calls EXCEPT ![call] = Statuses!NoCall]
      /\ UNCHANGED <<recorded, sent, received, view>>
    BY DEF Statuses!Return, Statuses!store
<1>4. CASE calls[call][2] = "again"
  <2>1. /\ resent' = [resent EXCEPT ![tx] = received[tx]] /\ first' = first /\ recent' = FALSE
        /\ cache' = kept /\ pass' = [pass EXCEPT !.current = FALSE]
      BY <1>4 DEF Statuses!Return, Statuses!Invalidate
  <2>2. kept \in Statuses!Statuses
      BY StatusesAre DEF CacheInv, Statuses!TypeOK
  <2>3. Statuses!TypeOK'
      BY <1>2, <1>3, <2>1, <2>2 DEF CacheInv, Statuses!TypeOK
  <2>4. \A x \in Statuses!Txs : resent'[x] <= received'[x]
      BY <1>2, <1>3, <2>1, BoundIsNat DEF CacheInv, Statuses!TypeOK, PassKnows
  <2>5. PassKnows'
      BY <1>3, <2>1, <2>4 DEF CacheInv, Statuses!TypeOK, PassKnows, Statuses!Knows
  <2>6. WaitingForPass' /\ Statuses!CacheKnowsRebroadcasts' /\ Statuses!ShownKnowsRebroadcasts'
      BY <1>3, <2>1 DEF CacheInv, Statuses!TypeOK, WaitingForPass,
         Statuses!CacheKnowsRebroadcasts, Statuses!ShownKnowsRebroadcasts, Statuses!Knows
  <2> QED
      BY <2>3, <2>5, <2>6 DEF CacheInv
<1>5. CASE calls[call][2] # "again"
  <2>1. first' = [first EXCEPT ![tx] = received[tx]] /\ UNCHANGED <<resent, recent, cache, pass>>
      BY <1>5 DEF Statuses!Return
  <2>2. Statuses!TypeOK'
      BY <1>2, <1>3, <2>1 DEF CacheInv, Statuses!TypeOK
  <2>3. PassKnows' /\ WaitingForPass' /\ Statuses!CacheKnowsRebroadcasts' /\ Statuses!ShownKnowsRebroadcasts'
      BY <1>3, <2>1 DEF CacheInv, PassKnows, WaitingForPass, Statuses!CacheKnowsRebroadcasts,
         Statuses!ShownKnowsRebroadcasts
  <2> QED
      BY <2>2, <2>3 DEF CacheInv
<1> QED
    BY <1>4, <1>5

(* A pass reads what the node has received by now.                          *)
LEMMA ReadInv == ASSUME CacheInv, NEW tx \in Statuses!Txs, Statuses!Read(tx) PROVE CacheInv'
<1>1. UNCHANGED <<recorded, sent, received, calls, resent, first, recent, cache, view>> /\ pass.on
    BY DEF Statuses!Read, Statuses!store, Statuses!network
<1>2. CASE pass' = [pass EXCEPT !.unread = @ \ {tx}]
  <2>1. Statuses!TypeOK'
      BY <1>1, <1>2 DEF CacheInv, Statuses!TypeOK
  <2>2. PassKnows' /\ WaitingForPass' /\ Statuses!CacheKnowsRebroadcasts' /\ Statuses!ShownKnowsRebroadcasts'
      BY <1>1, <1>2 DEF CacheInv, Statuses!TypeOK, PassKnows, WaitingForPass,
         Statuses!CacheKnowsRebroadcasts, Statuses!ShownKnowsRebroadcasts
  <2> QED
      BY <2>1, <2>2 DEF CacheInv
<1>3. ASSUME NEW deep \in SUBSET {tx}, NEW word \in pass.from[tx] .. received[tx],
             pass' = [pass EXCEPT !.unread = @ \ {tx}, !.deep = @ \cup deep,
                                  !.statuses = [other \in DOMAIN @ \cup {tx} |->
                                                  IF other = tx THEN word ELSE @[other]]]
      PROVE  CacheInv'
  <2> DEFINE read == DOMAIN pass.statuses \cup {tx}
             told == [other \in read |-> IF other = tx THEN word ELSE pass.statuses[other]]
  <2>1. /\ pass.statuses \in Statuses!Statuses /\ received[tx] \in 0 .. MaxReceived
        /\ pass.from[tx] \in 0 .. MaxReceived
      BY <1>1 DEF CacheInv, Statuses!TypeOK, PassKnows
  <2>2. word \in 0 .. MaxReceived /\ word >= pass.from[tx]
      BY <2>1, BoundIsNat
  <2>3. told \in Statuses!Statuses /\ DOMAIN told = read
      BY <2>1, <2>2, StatusesAre
  <2>4. Statuses!Knows(told, pass.from)
      BY <1>1, <2>2 DEF Statuses!Knows, CacheInv, PassKnows
  <2>5. pass' = [pass EXCEPT !.unread = @ \ {tx}, !.deep = @ \cup deep, !.statuses = told]
      BY <1>3
  <2> HIDE DEF told
  <2>6. Statuses!TypeOK'
      BY <1>1, <2>3, <2>5 DEF CacheInv, Statuses!TypeOK
  <2>7. PassKnows' /\ WaitingForPass' /\ Statuses!CacheKnowsRebroadcasts' /\ Statuses!ShownKnowsRebroadcasts'
      BY <1>1, <2>4, <2>5 DEF CacheInv, Statuses!TypeOK, PassKnows, WaitingForPass,
         Statuses!CacheKnowsRebroadcasts, Statuses!ShownKnowsRebroadcasts
  <2> QED
      BY <2>6, <2>7 DEF CacheInv
<1> QED
    BY <1>2, <1>3 DEF Statuses!Read

(* A pass ends: its result is cached only if nothing invalidated it         *)
(* meanwhile.                                                               *)
LEMMA EndInv == ASSUME CacheInv, Statuses!End PROVE CacheInv'
<1>1. /\ UNCHANGED <<recorded, sent, received, calls, resent, first>> /\ pass.on /\ pass' = Statuses!NoPass
      /\ \/ pass.current /\ cache' = pass.statuses /\ recent' = TRUE
         \/ UNCHANGED <<cache, recent>>
      /\ \/ /\ view.at = "waiting"
            /\ view' = [view EXCEPT !.at = "shown", !.statuses = pass.statuses]
         \/ view.at # "waiting" /\ view' = view
    BY DEF Statuses!End, Statuses!Answer, Statuses!store, Statuses!network
<1>2. Statuses!Knows(pass.statuses, pass.floor) /\ pass.statuses \in Statuses!Statuses
  <2>1. /\ DOMAIN pass.statuses \subseteq Statuses!Txs
        /\ pass.statuses \in [DOMAIN pass.statuses -> 0 .. MaxReceived]
        /\ pass.statuses \in Statuses!Statuses
      BY StatusesAre DEF CacheInv, Statuses!TypeOK
  <2>2. ASSUME NEW x \in DOMAIN pass.statuses PROVE pass.statuses[x] >= pass.floor[x]
    <3>1. /\ pass.statuses[x] \in Nat /\ pass.from[x] \in Nat /\ pass.floor[x] \in Nat
          /\ pass.floor[x] <= pass.from[x] /\ pass.statuses[x] >= pass.from[x]
        BY <1>1, <2>1, BoundIsNat DEF CacheInv, PassKnows, Statuses!Knows
    <3> QED
        BY <3>1
  <2> QED
      BY <2>1, <2>2 DEF Statuses!Knows
<1>3. Statuses!TypeOK'
    BY <1>1, <1>2, NoStatusIs DEF CacheInv, Statuses!TypeOK, Statuses!NoPass
<1>4. PassKnows'
    BY <1>1 DEF CacheInv, PassKnows, Statuses!NoPass
<1>5. Statuses!CacheKnowsRebroadcasts'
    BY <1>1, <1>2 DEF CacheInv, PassKnows, Statuses!CacheKnowsRebroadcasts
<1>6. WaitingForPass' /\ Statuses!ShownKnowsRebroadcasts'
  <2>1. CASE view' = view /\ view.at # "waiting"
      BY <2>1 DEF CacheInv, WaitingForPass, Statuses!ShownKnowsRebroadcasts
  <2>2. CASE view.at = "waiting" /\ view' = [view EXCEPT !.at = "shown", !.statuses = pass.statuses]
    <3>1. view'.at = "shown" /\ view'.statuses = pass.statuses /\ view'.floor = pass.floor
        BY <2>2 DEF CacheInv, Statuses!TypeOK, WaitingForPass
    <3> QED
        BY <3>1, <1>2 DEF WaitingForPass, Statuses!ShownKnowsRebroadcasts
  <2> QED
      BY <1>1, <2>1, <2>2
<1> QED
    BY <1>3, <1>4, <1>5, <1>6 DEF CacheInv

(* A screen asks: it is served the cache, joins the pass or begins one.     *)
LEMMA AskInv == ASSUME CacheInv, Statuses!Open \/ Statuses!Visit \/ Statuses!Refresh PROVE CacheInv'
<1>1. UNCHANGED <<recorded, sent, received, calls, resent, first, cache>> /\ recent' \in {recent, FALSE}
    BY DEF Statuses!Open, Statuses!Visit, Statuses!Refresh, Statuses!store, Statuses!network
<1>2. \/ pass' = pass
      \/ pass' = Statuses!NewPass /\ ~pass.on
      \/ pass' = [pass EXCEPT !.current = FALSE] /\ pass.on
    BY DEF Statuses!Open, Statuses!Visit, Statuses!Refresh, Statuses!Serve
<1>3. \/ view' = Statuses!NoScreen
      \/ recent /\ view' = [at |-> "shown", statuses |-> cache, floor |-> resent]
      \/ view' = [at |-> "waiting", statuses |-> Statuses!NoStatus, floor |-> pass'.floor] /\ pass'.on
  <2>1. Statuses!NewPass.on
      BY DEF Statuses!NewPass
  <2>2. pass.on => [pass EXCEPT !.current = FALSE].on
      BY DEF CacheInv, Statuses!TypeOK
  <2> QED
      BY <1>2, <2>1, <2>2 DEF Statuses!Open, Statuses!Visit, Statuses!Refresh, Statuses!Serve
<1>4. /\ pass' \in [on : BOOLEAN, current : BOOLEAN, unread : SUBSET Statuses!Txs, statuses : Statuses!Statuses,
                    deep : SUBSET DOMAIN pass'.statuses, from : Statuses!Statuses, floor : Statuses!Statuses]
      /\ pass'.floor \in Statuses!Statuses
  <2>1. CASE pass' = pass \/ pass' = [pass EXCEPT !.current = FALSE]
      BY <2>1 DEF CacheInv, Statuses!TypeOK
  <2>2. CASE pass' = Statuses!NewPass
      BY <2>2, NewPassKnows
  <2> QED
      BY <1>2, <2>1, <2>2
<1>5. resent \in Statuses!Statuses /\ cache \in Statuses!Statuses
    BY StatusesAre DEF CacheInv, Statuses!TypeOK
<1>6. view' \in [at : {"none", "waiting", "shown"}, statuses : Statuses!Statuses, floor : Statuses!Statuses]
    BY <1>3, <1>4, <1>5, NoStatusIs DEF Statuses!NoScreen
<1>7. Statuses!TypeOK'
    BY <1>1, <1>4, <1>6 DEF CacheInv, Statuses!TypeOK
<1>8. PassKnows'
  <2>1. CASE pass' = pass \/ (pass' = [pass EXCEPT !.current = FALSE] /\ pass.on)
      BY <2>1, <1>1 DEF CacheInv, Statuses!TypeOK, PassKnows
  <2>2. CASE pass' = Statuses!NewPass
      BY <2>2, <1>1, NewPassKnows, BoundIsNat DEF CacheInv, PassKnows, Statuses!TypeOK,
         Statuses!Knows
  <2> QED
      BY <1>2, <2>1, <2>2
<1>9. Statuses!CacheKnowsRebroadcasts'
    BY <1>1 DEF CacheInv, Statuses!CacheKnowsRebroadcasts
<1>10. WaitingForPass' /\ Statuses!ShownKnowsRebroadcasts'
    BY <1>1, <1>3, NoStatusIs DEF CacheInv, WaitingForPass, Statuses!CacheKnowsRebroadcasts,
       Statuses!ShownKnowsRebroadcasts, Statuses!NoScreen
<1> QED
    BY <1>7, <1>8, <1>9, <1>10 DEF CacheInv

(* Every step keeps the invariant.                                          *)
LEMMA CacheNext == ASSUME CacheInv, [Statuses!Next]_(Statuses!vars) PROVE CacheInv'
<1>1. ASSUME NEW tx \in Statuses!Txs, Statuses!Dismiss(tx) PROVE CacheInv'
    BY <1>1 DEF Statuses!Dismiss, Statuses!network, CacheInv, Statuses!TypeOK, PassKnows,
       WaitingForPass, Statuses!CacheKnowsRebroadcasts, Statuses!ShownKnowsRebroadcasts
<1>2. CASE Statuses!Archive
  <2>1. /\ recorded' \subseteq recorded /\ pass' = [pass EXCEPT !.deep = {}]
        /\ UNCHANGED <<sent, received, calls, resent, first, recent, cache, view>>
      BY <1>2 DEF Statuses!Archive, Statuses!network
  <2>2. Statuses!TypeOK'
      BY <2>1 DEF CacheInv, Statuses!TypeOK
  <2>3. PassKnows' /\ WaitingForPass' /\ Statuses!CacheKnowsRebroadcasts' /\ Statuses!ShownKnowsRebroadcasts'
      BY <2>1 DEF CacheInv, Statuses!TypeOK, PassKnows, WaitingForPass,
         Statuses!CacheKnowsRebroadcasts, Statuses!ShownKnowsRebroadcasts
  <2> QED
      BY <2>2, <2>3 DEF CacheInv
<1>3. CASE Statuses!Expire
    BY <1>3 DEF Statuses!Expire, Statuses!store, Statuses!network, CacheInv, Statuses!TypeOK,
       PassKnows, WaitingForPass, Statuses!CacheKnowsRebroadcasts, Statuses!ShownKnowsRebroadcasts
<1>4. CASE UNCHANGED Statuses!vars
    BY <1>4 DEF Statuses!vars, CacheInv, Statuses!TypeOK, PassKnows, WaitingForPass,
       Statuses!CacheKnowsRebroadcasts, Statuses!ShownKnowsRebroadcasts
<1> QED
    BY <1>1, <1>2, <1>3, <1>4, SubmitInv, ReceiveInv, ReturnInv, ReadInv, EndInv, AskInv DEF
       Statuses!Next, Statuses!Pass

(* In the page as a whole, only the cache's own steps touch it.             *)
LEMMA CacheHolds == AllSpec => []CacheInv
<1>1. AllInit => CacheInv
    BY CacheInit DEF AllInit
<1>2. CacheInv /\ [NodeStep \/ Rest \/ StatusesStep \/ ScreensStep]_all => CacheInv'
  <2> SUFFICES ASSUME CacheInv, [NodeStep \/ Rest \/ StatusesStep \/ ScreensStep]_all PROVE CacheInv'
      OBVIOUS
  <2>1. CASE StatusesStep
      BY <2>1, CacheNext DEF StatusesStep
  <2>2. CASE NodeStep \/ ScreensStep \/ Rest \/ UNCHANGED all
    <3>1. UNCHANGED Statuses!vars
        BY <2>2 DEF NodeStep, Rest, ScreensStep, all, cacheVars, Statuses!vars
    <3> QED
        BY <3>1, CacheNext
  <2> QED
      BY <2>1, <2>2
<1> QED
    BY <1>1, <1>2, PTL DEF AllSpec

(* Whatever passes of reads are under way, joined and invalidated: neither  *)
(* the cache nor a screen has a status from before a rebroadcast that had   *)
(* returned (app.ts:323, reconcileRecovery).                                *)
THEOREM StatusesAreFresh == AllSpec => []RebroadcastsAreKnown
<1>1. CacheInv => RebroadcastsAreKnown
    BY DEF CacheInv, RebroadcastsAreKnown
<1> QED
    BY <1>1, CacheHolds, PTL

----------------------------------------------------------------------------
(* What the screens show                                                    *)

(* A cookie that is held is that of the node it is held for.                *)
CookiesKept ==
    /\ auth \in {None, authURL}
    /\ drawn.at = "home" => drawn.cookie \in {None, drawn.node}

ScreensInv ==
    /\ Screens!TypeOK
    /\ CookiesKept
    /\ Screens!SentAsReviewed
    /\ Screens!CookieToItsNode

(* The selected chain of any settings has a node.                           *)
LEMMA NodeOfChain ==
    ASSUME NEW s \in Screens!Settings
    PROVE  s.chain \in Chains /\ s.node[s.chain] \in Urls
BY DEF Screens!Settings

(* A screen with the page's present choices.                                *)
LEMMA HereIsShown ==
    ASSUME Screens!TypeOK, NEW at \in {"start", "home", "send", "review", "fee", "sent"}
    PROVE  /\ Screens!Here(at) \in Screens!Shown /\ Screens!Here(at).at = at /\ Screens!Here(at).node \in Urls
           /\ Screens!Here(at).cookie = None
<1>1. settings.chain \in Chains /\ settings.node[settings.chain] \in Urls
    BY NodeOfChain DEF Screens!TypeOK
<1> QED
    BY <1>1 DEF Screens!Here, Screens!Shown, Screens!TypeOK

(* mainScreen, called when the page's copies have changed.                  *)
LEMMA OpenKeeps ==
    ASSUME Screens!TypeOK, settings' \in Screens!Settings, account' \in Accounts, Screens!Open
    PROVE  /\ drawn' = drawn
           /\ openings' \subseteq [shows : Screens!Shown, current : BOOLEAN]
           /\ \A o \in openings' : o.current => o.shows.at = drawn.at
<1> DEFINE o == [Screens!Here("home")' EXCEPT !.at = drawn.at]
           new == [shows |-> o, current |-> TRUE]
<1>1. settings'.chain \in Chains /\ settings'.node[settings'.chain] \in Urls
    BY NodeOfChain
<1>2. Screens!Here("home")' = [at |-> "home", account |-> account', chain |-> settings'.chain,
                       node |-> settings'.node[settings'.chain], cookie |-> None]
    BY DEF Screens!Here
<1>3. Screens!Here("home")' \in Screens!Shown
    BY <1>1, <1>2 DEF Screens!Shown
<1>4. drawn.at \in {"start", "home", "send", "review", "fee", "sent"}
    BY DEF Screens!TypeOK, Screens!Shown
<1>5. o \in Screens!Shown /\ o.at = drawn.at
    BY <1>3, <1>4 DEF Screens!Shown
<1> HIDE DEF o
<1>6. openings' = openings \cup {new} /\ drawn' = drawn
    BY DEF Screens!Open, o
<1>7. new \in [shows : Screens!Shown, current : BOOLEAN] /\ new.shows.at = drawn.at
    BY <1>5
<1> QED
    BY <1>6, <1>7 DEF Screens!TypeOK

(* What the page's client sends to a node, with what it kept of a cookie.   *)
LEMMA RequestKeeps ==
    ASSUME ScreensInv, NEW at \in {"start", "home", "send", "review", "fee", "sent"}, NEW cookie,
           cookie \in Screens!CookiesOf(Screens!Here(at).node) \/ cookie = Screens!ClientCookie(Screens!Here(at).node)
    PROVE  \E r \in [to : Urls, cookie : Urls \cup {None}] :
             r = [to |-> Screens!Here(at).node, cookie |-> cookie] /\ r.cookie \in {None, r.to}
<1>1. Screens!Here(at).node \in Urls
    BY HereIsShown DEF ScreensInv
<1>2. cookie \in {None, Screens!Here(at).node}
    BY DEF Screens!CookiesOf, Screens!ClientCookie, ScreensInv, CookiesKept
<1> DEFINE r == [to |-> Screens!Here(at).node, cookie |-> cookie]
<1>3. r \in [to : Urls, cookie : Urls \cup {None}] /\ r.cookie \in {None, r.to}
    BY <1>1, <1>2
<1> QED
    BY <1>3, Zenon

(* A new screen makes every opening before it stale.                        *)
LEMMA RenderKeeps ==
    ASSUME Screens!TypeOK, NEW s \in Screens!Shown, Screens!Render(s)
    PROVE  /\ drawn' = s
           /\ openings' \subseteq [shows : Screens!Shown, current : BOOLEAN]
           /\ \A o \in openings' : ~o.current
BY DEF Screens!Render, Screens!TypeOK

(* What is kept when a step signs nothing that was not reviewed and sends   *)
(* no cookie to another node.                                               *)
LEMMA QuietKeeps ==
    ASSUME ScreensInv, Screens!TypeOK', signed' = {}, UNCHANGED <<auth, authURL, requests>> \/ requests' = {},
           auth' \in {None, authURL'}, drawn' = drawn \/ drawn'.at # "home"
    PROVE  ScreensInv'
BY DEF ScreensInv, CookiesKept, Screens!SentAsReviewed, Screens!CookieToItsNode

(* At first nothing was sent and no cookie is kept.                         *)
LEMMA ScreensStart == Screens!Init => ScreensInv
<1> SUFFICES ASSUME Screens!Init PROVE ScreensInv
    OBVIOUS
<1>1. settings.chain \in Chains /\ settings.node[settings.chain] \in Urls
    BY NodeOfChain DEF Screens!Init
<1>2. drawn \in Screens!Shown /\ drawn.at = "start"
    BY <1>1 DEF Screens!Init, Screens!Here, Screens!Shown
<1> QED
    BY <1>2 DEF Screens!Init, ScreensInv, Screens!TypeOK, CookiesKept, Screens!SentAsReviewed,
       Screens!CookieToItsNode

(* Every action keeps the invariant; what it sends is of the node it names. *)
LEMMA ScreensNext == ASSUME ScreensInv, [Screens!Next]_(Screens!vars) PROVE ScreensInv'
<1> USE DEF ScreensInv
<1>1. CASE Screens!Back
  <2>1. /\ UNCHANGED <<selected, active, settings, account, auth, authURL, refreshing, reading, signing>>
        /\ requests' = {} /\ signed' = {} /\ Screens!Open
      BY <1>1 DEF Screens!Back, Screens!Quiet, Screens!world, Screens!held, Screens!waiting
  <2>2. Screens!TypeOK'
      BY <2>1, OpenKeeps DEF Screens!TypeOK
  <2> QED
      BY <2>1, <2>2, OpenKeeps, QuietKeeps DEF CookiesKept, Screens!Open
<1>2. CASE Screens!loadBalance \/ Screens!toggleChainMenu
  <2>1. PICK r \in [to : Urls, cookie : Urls \cup {None}] :
          requests' = {r} /\ r.cookie \in {None, r.to}
    <3>1. CASE Screens!loadBalance
      <4>1. requests' = {[to |-> drawn.node, cookie |-> drawn.cookie]}
          BY <3>1 DEF Screens!loadBalance, Screens!Sends
      <4>2. drawn.node \in Urls /\ drawn.cookie \in {None, drawn.node}
          BY <3>1 DEF Screens!loadBalance, CookiesKept, Screens!TypeOK, Screens!Shown
      <4> DEFINE message == [to |-> drawn.node, cookie |-> drawn.cookie]
      <4>3. message \in [to : Urls, cookie : Urls \cup {None}] /\ message.cookie \in {None, message.to}
          BY <4>2
      <4> QED
          BY <4>1, <4>3, Zenon
    <3>2. CASE Screens!toggleChainMenu
      <4>1. requests' = {[to |-> Screens!Here("home").node, cookie |-> Screens!ClientCookie(Screens!Here("home").node)]}
          BY <3>2 DEF Screens!toggleChainMenu, Screens!Sends
      <4>2. \E r \in [to : Urls, cookie : Urls \cup {None}] :
              /\ r = [to |-> Screens!Here("home").node, cookie |-> Screens!ClientCookie(Screens!Here("home").node)]
              /\ r.cookie \in {None, r.to}
          BY RequestKeeps
      <4> QED
          BY <4>1, <4>2
    <3> QED
        BY <1>2, <3>1, <3>2
  <2>2. /\ UNCHANGED <<selected, active, settings, account, auth, authURL, drawn, refreshing, openings, reading, signing>>
        /\ signed' = {}
      BY <1>2 DEF Screens!loadBalance, Screens!toggleChainMenu, Screens!Sends, Screens!world,
         Screens!held, Screens!waiting
  <2>3. Screens!TypeOK'
      BY <2>1, <2>2 DEF Screens!TypeOK
  <2> QED
      BY <2>1, <2>2, <2>3 DEF CookiesKept, Screens!SentAsReviewed, Screens!CookieToItsNode
<1>3. CASE Screens!refresh
  <2>1. /\ UNCHANGED <<selected, active, auth, authURL, reading, signing>> /\ refreshing' = FALSE
        /\ account' = active /\ settings' = selected /\ requests' = {} /\ signed' = {} /\ Screens!Open
      BY <1>3 DEF Screens!refresh, Screens!Quiet, Screens!world, Screens!waiting
  <2>2. settings' \in Screens!Settings /\ account' \in Accounts
      BY <2>1 DEF Screens!TypeOK
  <2>3. Screens!TypeOK'
      BY <2>1, <2>2, OpenKeeps DEF Screens!TypeOK
  <2> QED
      BY <2>1, <2>3, QuietKeeps DEF CookiesKept, Screens!Open
<1>4. CASE Screens!sendFlow \/ Screens!feeScreen
  <2>1. PICK at \in {"send", "fee"}, r \in [to : Urls, cookie : Urls \cup {None}] :
          Screens!Render(Screens!Here(at)) /\ requests' = {r} /\ r.cookie \in {None, r.to}
    <3>1. CASE Screens!sendFlow
      <4>1. PICK cookie \in Screens!CookiesOf(Screens!Here("send").node) :
              Screens!Render(Screens!Here("send")) /\ requests' = {[to |-> Screens!Here("send").node, cookie |-> cookie]}
          BY <3>1 DEF Screens!sendFlow, Screens!Sends
      <4> QED
          BY <4>1, RequestKeeps, Zenon
    <3>2. CASE Screens!feeScreen
      <4>1. Screens!Render(Screens!Here("fee"))
            /\ requests' = {[to |-> Screens!Here("fee").node, cookie |-> Screens!ClientCookie(Screens!Here("fee").node)]}
          BY <3>2 DEF Screens!feeScreen, Screens!Sends
      <4> QED
          BY <4>1, RequestKeeps, Zenon
    <3> QED
        BY <1>4, <3>1, <3>2
  <2>2. /\ UNCHANGED <<selected, active, settings, account, auth, authURL, refreshing, reading, signing>>
        /\ signed' = {}
      BY <1>4 DEF Screens!sendFlow, Screens!feeScreen, Screens!Sends, Screens!world, Screens!held,
         Screens!waiting
  <2>3. Screens!TypeOK' /\ drawn'.at # "home"
      BY <2>1, <2>2, HereIsShown, RenderKeeps DEF Screens!TypeOK
  <2> QED
      BY <2>1, <2>2, <2>3 DEF CookiesKept, Screens!SentAsReviewed, Screens!CookieToItsNode
<1>5. CASE Screens!prepareReview \/ Screens!confirm \/ (\E s \in signing : Screens!Refused(s))
  <2>1. /\ reading' \subseteq reading \cup {drawn} /\ signing' \subseteq signing \cup {drawn}
        /\ UNCHANGED <<selected, active, settings, account, auth, authURL, drawn, refreshing, openings>>
        /\ requests' = {} /\ signed' = {}
      BY <1>5 DEF Screens!prepareReview, Screens!confirm, Screens!Refused, Screens!Quiet,
         Screens!world, Screens!held
  <2>2. Screens!TypeOK'
      BY <2>1 DEF Screens!TypeOK
  <2> QED
      BY <2>1, <2>2, QuietKeeps DEF CookiesKept
<1>6. CASE Screens!Elsewhere \/ Screens!Adopt \/ (\E a \in Accounts : Screens!PickAccount(a))
  <2>1. /\ selected' \in Screens!Settings /\ active' \in Accounts /\ settings' \in Screens!Settings
        /\ refreshing' \in BOOLEAN
        /\ UNCHANGED <<account, auth, authURL, drawn, openings, reading, signing>>
        /\ requests' = {} /\ signed' = {}
      BY <1>6 DEF Screens!Elsewhere, Screens!Adopt, Screens!PickAccount, Screens!Quiet,
         Screens!world, Screens!held, Screens!waiting, Screens!TypeOK
  <2>2. Screens!TypeOK'
      BY <2>1 DEF Screens!TypeOK
  <2> QED
      BY <2>1, <2>2, QuietKeeps DEF CookiesKept
<1>7. CASE (\E c \in Chains : Screens!switchToChain(c)) \/ Screens!SaveFee
  <2>1. /\ UNCHANGED <<active, account, auth, authURL, refreshing, reading, signing>>
        /\ selected' \in Screens!Settings /\ settings' \in Screens!Settings /\ requests' = {} /\ signed' = {} /\ Screens!Open
      BY <1>7 DEF Screens!switchToChain, Screens!SaveFee, Screens!Quiet, Screens!world,
         Screens!waiting, Screens!TypeOK, Screens!Settings
  <2>2. Screens!TypeOK'
      BY <2>1, OpenKeeps DEF Screens!TypeOK
  <2> QED
      BY <2>1, <2>2, QuietKeeps DEF CookiesKept, Screens!Open
<1>8. ASSUME NEW s \in reading, Screens!Reviewed(s) PROVE ScreensInv'
  <2>1. s \in Screens!Shown /\ [s EXCEPT !.at = "review"] \in Screens!Shown /\ [s EXCEPT !.at = "review"].at = "review"
      BY DEF Screens!TypeOK, Screens!Shown
  <2>2. PICK cookie \in {None, s.node} : requests' = {[to |-> s.node, cookie |-> cookie]}
      BY <1>8 DEF Screens!Reviewed, Screens!Sends, Screens!CookiesOf
  <2>3. /\ UNCHANGED <<selected, active, settings, account, auth, authURL, refreshing, signing>>
        /\ reading' \subseteq reading /\ signed' = {}
      BY <1>8 DEF Screens!Reviewed, Screens!Sends, Screens!world, Screens!held
  <2>4. \/ Screens!Render([s EXCEPT !.at = "review"])
        \/ UNCHANGED <<drawn, openings>>
      BY <1>8 DEF Screens!Reviewed
  <2>5. [to |-> s.node, cookie |-> cookie] \in [to : Urls, cookie : Urls \cup {None}]
      BY <2>1 DEF Screens!Shown
  <2>6. Screens!TypeOK' /\ (drawn'.at = "home" => drawn' = drawn)
      BY <2>1, <2>2, <2>3, <2>4, <2>5, RenderKeeps DEF Screens!TypeOK
  <2> QED
      BY <2>2, <2>3, <2>6 DEF CookiesKept, Screens!SentAsReviewed, Screens!CookieToItsNode
<1>9. ASSUME NEW o \in openings, NEW n \in Urls \cup {None}, Screens!Opened(o, n) PROVE ScreensInv'
  <2> DEFINE home == [o.shows EXCEPT !.at = "home", !.cookie = n]
             message == [to |-> o.shows.node, cookie |-> n]
  <2>1. o \in [shows : Screens!Shown, current : BOOLEAN] /\ n \in {None, o.shows.node}
      BY <1>9 DEF Screens!TypeOK, Screens!Opened, Screens!CookiesOf
  <2>2. o.shows \in Screens!Shown /\ o.shows.node \in Urls
      BY <2>1 DEF Screens!Shown
  <2>3. /\ home \in Screens!Shown /\ home.at = "home" /\ home.cookie = n /\ home.node = o.shows.node
        /\ message \in [to : Urls, cookie : Urls \cup {None}]
      BY <2>2 DEF Screens!Shown
  <2>4. /\ auth' = n /\ authURL' = o.shows.node /\ signed' = {}
        /\ UNCHANGED <<selected, active, settings, account, refreshing, reading, signing>>
      BY <1>9 DEF Screens!Opened, Screens!Sends, Screens!Quiet, Screens!world, Screens!waiting
  <2>5. \/ /\ drawn' = home /\ openings' = {[p EXCEPT !.current = FALSE] : p \in openings \ {o}}
           /\ requests' = {message}
        \/ drawn' = drawn /\ openings' = openings \ {o} /\ requests' = {}
      BY <1>9 DEF Screens!Opened, Screens!Sends, Screens!Quiet
  <2> HIDE DEF home, message
  <2>6. Screens!TypeOK'
    <3>1. selected' \in Screens!Settings /\ settings' \in Screens!Settings /\ active' \in Accounts /\ account' \in Accounts
          /\ auth' \in Urls \cup {None} /\ authURL' \in Urls \cup {None}
          /\ reading' \subseteq Screens!Shown /\ signing' \subseteq Screens!Shown /\ refreshing' \in BOOLEAN
        BY <2>1, <2>2, <2>4 DEF Screens!TypeOK
    <3>2. drawn' \in Screens!Shown /\ requests' \subseteq [to : Urls, cookie : Urls \cup {None}]
        BY <2>3, <2>5 DEF Screens!TypeOK
    <3>3. \A p \in openings : /\ p \in [shows : Screens!Shown, current : BOOLEAN]
                              /\ p.current => p.shows.at = drawn.at
        BY DEF Screens!TypeOK
    <3>4. \A p \in openings' : /\ p \in [shows : Screens!Shown, current : BOOLEAN]
                               /\ p.current => p.shows.at = drawn'.at
      <4>1. CASE openings' = {[p EXCEPT !.current = FALSE] : p \in openings \ {o}}
          BY <3>3, <4>1
      <4>2. CASE drawn' = drawn /\ openings' = openings \ {o}
          BY <3>3, <4>2
      <4> QED
          BY <2>5, <4>1, <4>2
    <3> QED
      <4>1. /\ openings' \subseteq [shows : Screens!Shown, current : BOOLEAN]
            /\ \A p \in openings' : p.current => p.shows.at = drawn'.at
          BY <3>4
      <4> QED
          BY <3>1, <3>2, <4>1 DEF Screens!TypeOK
  <2>7. \A r \in requests' : r.cookie \in {None, r.to}
      BY <2>1, <2>5 DEF message
  <2> QED
      BY <2>1, <2>3, <2>4, <2>5, <2>6, <2>7 DEF CookiesKept, Screens!SentAsReviewed,
         Screens!CookieToItsNode
<1>10. ASSUME NEW s \in signing, NEW n \in Urls \cup {None}, Screens!Submit(s, n) PROVE ScreensInv'
  <2> DEFINE done == [s EXCEPT !.at = "sent"]
             message == [to |-> s.node, cookie |-> n]
             made == [reviewed |-> s, account |-> s.account, chain |-> s.chain, node |-> s.node]
  <2>1. s \in Screens!Shown /\ n \in {None, s.node}
      BY <1>10 DEF Screens!TypeOK, Screens!Submit, Screens!CookiesOf
  <2>2. done \in Screens!Shown /\ done.at = "sent" /\ message \in [to : Urls, cookie : Urls \cup {None}]
      BY <2>1 DEF Screens!Shown
  <2>3. /\ settings' = selected /\ signed' = {made} /\ requests' = {message} /\ Screens!Render(done)
        /\ signing' \subseteq signing
        /\ UNCHANGED <<selected, active, account, auth, authURL, refreshing, reading>>
      BY <1>10 DEF Screens!Submit, Screens!world
  <2> HIDE DEF done
  <2>4. Screens!TypeOK'
      BY <2>2, <2>3, RenderKeeps DEF Screens!TypeOK
  <2> QED
      BY <2>1, <2>2, <2>3, <2>4, RenderKeeps DEF CookiesKept, Screens!SentAsReviewed,
         Screens!CookieToItsNode
<1>11. CASE UNCHANGED Screens!vars
    BY <1>11 DEF Screens!vars, Screens!world, Screens!held, Screens!waiting, Screens!effects,
       Screens!TypeOK, CookiesKept, Screens!SentAsReviewed, Screens!CookieToItsNode
<1> QED
    BY <1>1, <1>2, <1>3, <1>4, <1>5, <1>6, <1>7, <1>8, <1>9, <1>10, <1>11 DEF Screens!Next

(* Only a home screen that was asked for on this screen is drawn.           *)
LEMMA HomeStep == ASSUME ScreensInv, [Screens!Next]_(Screens!vars), drawn # drawn', drawn'.at = "home"
                  PROVE  \E o \in openings : o.shows.at = drawn.at
<1>1. ASSUME NEW o \in openings, NEW n \in Urls \cup {None}, Screens!Opened(o, n)
      PROVE  \E p \in openings : p.shows.at = drawn.at
    BY <1>1 DEF Screens!Opened, ScreensInv, Screens!TypeOK
<1>2. ~(Screens!Back \/ Screens!loadBalance \/ Screens!refresh \/ Screens!prepareReview \/ Screens!confirm \/ Screens!toggleChainMenu \/ Screens!SaveFee \/ Screens!Elsewhere \/ Screens!Adopt)
    BY DEF Screens!Back, Screens!loadBalance, Screens!refresh, Screens!prepareReview,
       Screens!confirm, Screens!toggleChainMenu, Screens!SaveFee, Screens!Elsewhere,
       Screens!Adopt, Screens!Open
<1>3. ~(Screens!sendFlow \/ Screens!feeScreen)
    BY HereIsShown, RenderKeeps DEF Screens!sendFlow, Screens!feeScreen, ScreensInv
<1>4. ~(\E a \in Accounts : Screens!PickAccount(a)) /\ ~(\E c \in Chains : Screens!switchToChain(c)) /\ ~(\E s \in signing : Screens!Refused(s))
    BY DEF Screens!PickAccount, Screens!switchToChain, Screens!Refused, Screens!Open
<1>5. ~(\E s \in reading : Screens!Reviewed(s)) /\ ~(\E s \in signing, n \in Urls \cup {None} : Screens!Submit(s, n))
  <2>1. \A s \in reading \cup signing : s \in Screens!Shown
      BY DEF ScreensInv, Screens!TypeOK
  <2> QED
      BY <2>1 DEF Screens!Reviewed, Screens!Submit, Screens!Render, Screens!Shown
<1>6. ~(UNCHANGED Screens!vars)
    BY DEF Screens!vars
<1> QED
    BY <1>1, <1>2, <1>3, <1>4, <1>5, <1>6 DEF Screens!Next

(* In the page as a whole, only the screens' own steps touch them.          *)
LEMMA ScreensHold == AllSpec => []ScreensInv /\ [][Screens!Next]_(Screens!vars)
<1>1. AllInit => ScreensInv
    BY ScreensStart DEF AllInit
<1>2. [NodeStep \/ Rest \/ StatusesStep \/ ScreensStep]_all => [Screens!Next]_(Screens!vars)
  <2> SUFFICES ASSUME NodeStep \/ Rest \/ StatusesStep \/ UNCHANGED all PROVE UNCHANGED Screens!vars
      BY DEF ScreensStep
  <2> QED
      BY DEF NodeStep, Rest, StatusesStep, all, screenVars, Screens!vars, Screens!world, Screens!held,
             Screens!waiting, Screens!effects
<1>3. ScreensInv /\ [Screens!Next]_(Screens!vars) => ScreensInv'
    BY ScreensNext
<1> QED
    BY <1>1, <1>2, <1>3, PTL DEF AllSpec

(* What is signed and submitted is what the user confirmed, whichever chain,*)
(* node or account other pages and the background selected while the node   *)
(* and the signer were waited for (app.ts reviewScreen, confirm).           *)
THEOREM SendsWhatWasReviewed == AllSpec => []SentAsReviewed
<1>1. ScreensInv => SentAsReviewed
    BY DEF ScreensInv, SentAsReviewed
<1> QED
    BY <1>1, ScreensHold, PTL

(* Overlapping home screens give no node another's cookie and take nobody   *)
(* away from a screen opened since (app.ts mainScreen).                     *)
THEOREM HomesStayApart == AllSpec => HomesDoNotMix
<1>1. ScreensInv => Screens!CookieToItsNode
    BY DEF ScreensInv
<1>2. ScreensInv /\ [Screens!Next]_(Screens!vars)
         => [drawn # drawn' /\ drawn'.at = "home" => \E o \in openings : o.shows.at = drawn.at]_(Screens!vars)
    BY HomeStep
<1> QED
    BY <1>1, <1>2, ScreensHold, PTL DEF HomesDoNotMix, Screens!HomeOnRequest
=============================================================================
