SPECIFICATION BeliefSpec
CONSTANTS
    None = None
    hosted = hosted
    own = own
    child = child
    Pages = {page1, page2}
    Tasks = {task1, task2}
    MaxStarts = 4
    Root = Root
    Children = {child}
    Urls = {hosted, own}
    Hosted = {hosted}
    Loopback = {own}
    Serves <- ServesSome
    Transfers = {transfer}
    Attempts = {withdrawal}
    Calls = {call1, call2}
    MaxReceived = 1
    Accounts = {account1}
    MaxOpenings = 2
    MaxFlows = 1
SYMMETRY Symmetry
INVARIANTS
    EndpointsServeUnlessSwitched
    EndpointsReachableUnlessReleased
    RebroadcastsAreKnown
