SPECIFICATION Spec
CONSTANTS
    flour = flour
    oil = oil
    ann = ann
    bob = bob
    r1 = r1
    r2 = r2
    Nobody = Nobody
    Products = {flour, oil}
    Users = {ann}
    Calls = {r1, r2}
    OrderItems <- MCOrderItems
    InitialStock <- MCInitialStock
    Quantities = {1, 2}
    MaxEntries <- MCMaxEntries
INVARIANT TypeOK
INVARIANT LedgerBalances
INVARIANT EachSalePosted
INVARIANT ReversedMeansReversal
INVARIANT RetrySellsOnce
PROPERTY KeepsAccount
SYMMETRY MCSymmetry
