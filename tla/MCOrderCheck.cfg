SPECIFICATION AllSpec
CONSTANTS
    p1 = p1
    p2 = p2
    q2 = q2
    c1 = c1
    c2 = c2
    c3 = c3
    d2 = d2
    None = None
    Parents = {p1, p2, q2}
    Children = {c1, c2, c3, d2}
    Chain <- MCChain
    Commits <- MCCommits
    Deposits = {1, 2, 3}
    Locked <- MCLocked
    Paid <- MCPaid
    Offers = {1, 3}
    PageSize = 1
    MaxPages = 2
    MaxTries = 3
    tip1 = tip1
    tip2 = tip2
    state1 = state1
    state2 = state2
    deposits = deposits
    receipts = receipts
    a = a
    b = b
    v = v
    tree = tree
    nodeA = nodeA
    nodeAAB = nodeAAB
    nodeBB = nodeBB
    twice = twice
    cycle = cycle
    broken = broken
    noNode = noNode
    noList = noList
    Tips = {tip1, tip2}
    States = {state1, state2}
    Kinds = {deposits, receipts}
    PostState <- MCPostState
    Dictionary <- MCDictionary
    CIDs = {tree, nodeA, nodeAAB, nodeBB, twice, cycle, broken, noNode, noList}
    Content <- MCContent
    Chars = {a, b}
    Keys <- MCKeys
    Values = {v}
    Absent = Absent
    Undecodable = Undecodable
    NoList = NoList
    Below <- MCBelow
    Height <- MCHeight
    MaxClaims = 2
INVARIANTS
    AnswersAreOfOneState
    ProvenUnlessLost
    ClaimsHold
    TrueClaimsAreVerified
PROPERTY ChecksEnd
