SPECIFICATION Spec
CONSTANTS
    page1 = page1
    page2 = page2
    pay = pay
    Pages = {page1, page2}
    Payments = {pay}
    None = None
    Empty = Empty
    ConfirmationDepth = 2
    MaxNonce = 0
    MaxFee = 1
    MaxHeight = 2
    MaxDismissals = 0
SYMMETRY Symmetry
PROPERTY SavedAcknowledged
