SPECIFICATION ServicesSpec
CONSTANTS
  ann = ann
  ben = ben
  l1 = l1
  cem = cem
  l2 = l2
  l3 = l3
  rice1 = rice1
  rice10 = rice10
  Staff = {ann, ben, cem}
  Admins = {ann, cem}
  Holders = {ann, ben, cem}
  Creator = ben
  Lines = {l1, l2, l3}
  LineOf <- McLineOf
  Events = {1}
  Stocked = {rice1, rice10}
  Matches <- McMatches
  StartStock <- McStart
  Threshold = 1
  Moves = {1}
  MaxStock <- McMax
  m1 = m1
  m2 = m2
  Movers = {m1, m2}
  MaxAlerts = 2
  Files = {1, 2}
  Deleters = {1}
  Names = {"ann", "ben"}
  Registrations = {1, 2}
  MaxGenerals = 3
  MaxStops = 1
SYMMETRY MoverSymmetry
VIEW ServicesView
INVARIANTS ServicesTypeOK NoticesExplained FileGapsExplained RegistrationExplained
PROPERTIES AlertsExplained
CHECK_DEADLOCK FALSE
