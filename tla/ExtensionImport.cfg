CONSTANTS
  m1 = m1
  m2 = m2
  p1 = p1
  p2 = p2
  noport = noport
  k1 = k1
  k2 = k2
  nokey = nokey
  Panels <- MCPanels
  Ports <- MCPorts
  NoPort <- noport
  Usual <- MCUsual
  Keys <- MCKeys
  NoKey <- nokey
  OwnKey <- nokey
  KeyOf <- MCKeyOf
SPECIFICATION EIFairSpec
INVARIANTS
  EITypeOK
PROPERTIES
  NamedForThisFlow
  DoneIsHeld
  PanelsHear
  FlowsEnd
