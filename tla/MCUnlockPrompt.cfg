SPECIFICATION PromptSpec
CONSTANTS
    None = None
    Pages = {page1, page2}
    Updates = {update1, update2, update3}
    Locks = TRUE
    Cameras = {camera1, camera2}
    own = own
    other = other
    words = words
    key1 = key1
    url = url
    NoPhrase = NoPhrase
    NoAccount = NoAccount
    Malformed = Malformed
    MaxFailures = 2
    IdleTicks = 2
    QueueBound = 2
    IndexSpace = 3
    MaxIndex = 2
    AccountLimit = 2
    Messages = {request1}
    Adds = {}
    Submissions = {submission1}
    Prompts = {prompt1, prompt2}
INVARIANT AnsweredOnce
PROPERTIES
    PromptsEnd
    NoticeFollowsLock
