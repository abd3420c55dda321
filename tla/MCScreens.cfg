SPECIFICATION ScreensSpec
CONSTANTS
    None = None
    hosted = hosted
    own = own
    child = child
    Pages = {}
    Tasks = {task1, task2}
    MaxStarts = 0
    Root = Root
    Children = {child}
    Urls = {hosted, own}
    Hosted = {hosted}
    Loopback = {own}
    Serves <- ServesSome
    Transfers = {transfer}
    Attempts = {withdrawal}
    Calls = {call1, call2}
    MaxReceived = 1
    Accounts = {account1}
    MaxOpenings = 2
    MaxFlows = 1
INVARIANT SentAsReviewed
PROPERTY HomesDoNotMix
