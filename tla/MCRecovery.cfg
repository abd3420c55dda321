SPECIFICATION Spec
CONSTANTS
    page1 = page1
    page2 = page2
    pay = pay
    Pages = {page1, page2}
    Payments = {pay}
    None = None
    Empty = Empty
    ConfirmationDepth = 2
    MaxNonce = 1
    MaxFee = 1
    MaxHeight = 3
    MaxDismissals = 1
CONSTRAINT Explored
SYMMETRY Symmetry
INVARIANTS
    PaysTwiceKnowingly
    ArchivedIsConfirmed
PROPERTIES
    ImplementsOutbox
    ReplacementOutbids
