---------------------------- MODULE MCProduction -----------------------------
EXTENDS Production, TLC
CONSTANTS flour, oil, bread
McPlain   == [quantity |-> 1, waste |-> 0, active |-> TRUE]
McStock   == (flour :> 3) @@ (oil :> 0)
McRecipes == [r \in [good : {bread}, material : {flour}] |-> McPlain]
McForms   == {McPlain, [quantity |-> 1, waste |-> 50, active |-> FALSE]}
McEdited  == [good : {bread}, material : {oil}]
McEntries == (flour :> 3) @@ (oil :> 3)
=============================================================================
