SPECIFICATION AllSpec
CONSTANTS
    Pages = {page1, page2}
    Receipts = {receipt1}
    None = None
    Empty = Empty
    Foreign = Foreign
    ConfirmationDepth = 1
    MaxNonce = 1
    MaxFee = 1
    MaxHeight = 2
    MaxDismissals = 1
    Flows = {flow1, flow2}
    Old = Old
    NewSales = {sale1, sale2}
SYMMETRY Symmetry
INVARIANTS
    ClaimsAreOwned
    LiveClaimsAreSaved
    RestartIsSafe
    ArchivedIsWithdrawn
    OneDepositPerSale
PROPERTIES
    ImplementsOutbox
    SalesImplementOutbox
