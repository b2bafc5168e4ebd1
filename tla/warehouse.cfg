SPECIFICATION ProdSpec
CONSTANTS
  flour = flour
  oil = oil
  bread = bread
  Materials = {flour, oil}
  Goods = {bread}
  Requests = {1, 2}
  InitialRaw <- McStock
  InitialRecipes <- McRecipes
  RecipeForms <- McForms
  Edited <- McEdited
  Amounts = {2}
  MaxRawEntries <- McEntries
  MaxBatches = 2
INVARIANTS ProdTypeOK BatchWhole
PROPERTIES DriftByStaleWrites CheckedTakesLeaveStock BatchEnds
CHECK_DEADLOCK FALSE
