SPECIFICATION Spec
CONSTANTS
    page1 = page1
    page2 = page2
    own = own
    other = other
    words = words
    key1 = key1
    url = url
    Pages = {page1, page2}
    Passwords = {own, other}
    Phrases = {words}
    RawKeys = {key1}
    Urls = {url}
    NoPhrase = NoPhrase
    NoAccount = NoAccount
    None = None
    Malformed = Malformed
    Offered <- UnlockRequests
    MaxFailures = 2
    IdleTicks = 1
    QueueBound = 2
    IndexSpace = 3
    MaxIndex = 2
    AccountLimit = 2
INVARIANT LockStopsOpening
