SPECIFICATION Spec
CONSTANTS
  Peers = {p1}
  Clients = {c1, c2}
  Services = {s1}
  Servers = {v1}
  Users = {u1, u2, u3}
  Modes = {"inherit"}
  Shutdowns = {"reset"}
  MaxStreams = 2
  None = None
SYMMETRY Symmetry
INVARIANT TypeOK
INVARIANT OwnerExact
INVARIANT HandedOnce
INVARIANT ConnectedMeansServed
INVARIANT LookupsAreHeard
INVARIANT SearchesEnd
CHECK_DEADLOCK FALSE
