SPECIFICATION Spec
CONSTANTS
    flour = flour
    oil = oil
    ann = ann
    bob = bob
    r1 = r1
    r2 = r2
    Nobody = Nobody
    Products = {flour}
    Users = {ann}
    Calls = {r1, r2}
    OrderItems <- MCOneItem
    InitialStock <- MCInitialStock
    Quantities = {1}
    MaxEntries <- MCMaxEntries
INVARIANT ReversedOnce
SYMMETRY MCSymmetry
