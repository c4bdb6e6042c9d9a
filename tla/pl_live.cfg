SPECIFICATION FairSpec
CONSTANTS
  c1 = c1
  c2 = c2
  g1 = g1
  g2 = g2
  Charger = {c1}
  Trained = {c1}
  Firings <- Mixed
  Config = {g1}
  SeverityMin <- Minimum
  NoCharger = NoCharger
  Watched = {1, 2, 3}
  MaxWindow = 1
  MaxFaults = 0
PROPERTIES FiredRuleIsRaised IncidentIsAlerted
