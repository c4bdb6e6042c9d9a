SPECIFICATION Spec
CONSTANTS
  c1 = c1
  c2 = c2
  g1 = g1
  g2 = g2
  Charger = {c1}
  Trained = {c1}
  Firings <- Few
  Config = {g1}
  SeverityMin <- Minimum
  NoCharger = NoCharger
  Watched = {1, 2, 3}
  MaxWindow = 2
  MaxFaults = 1
INVARIANTS TypeOK OneVectorPerWindow OpenOncePerMessage StreamsFollowTables
INVARIANT AlertsAreExplained
PROPERTY AlertedOnce
