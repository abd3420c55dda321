SPECIFICATION AllSpec
CONSTANTS
    None = None
    Pages = {page1, page2}
    Senders = {sender}
    Offers = {offer1, offer2}
    TTL = 3
    IdleLimit = 2
    AlarmDelay = 6
    Messages = {long1, long2}
    Short = {short1}
    Fragments = {f1, f2, f3, f4}
    MixedFactor = 1
    words = words
    otherWords = otherWords
    key1 = key1
    Phrases = {words, otherWords}
    RawKeys = {key1}
    Keys <- UserKeys
    Urls = {}
    NoPhrase = NoPhrase
    NoAccount = NoAccount
    IndexSpace = 2
    MaxIndex = 2
    AccountLimit = 3
    Devices = {device}
    Foreign <- ForeignBackups
    MaxExports = 1
SYMMETRY Symmetry
INVARIANT ExportsRestore
