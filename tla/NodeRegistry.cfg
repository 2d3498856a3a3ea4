SPECIFICATION FairSpec
CONSTANTS
  bob = bob
  carol = carol
  eve = eve
  dave = dave
  bobLabel = bobLabel
  clash = clash
  Node = {bob, carol, eve, dave}
  LabelOf <- Labels
  RoleOf <- Roles
  Session = {s1}
  None = None
  NoLabel = NoLabel
  MaxIds = 7
  MaxFaults <- OneOfEach
INVARIANTS TypeOK StreamHasOneOwner JoinedByNamed AddresseeIsNode
PROPERTIES OpenIsHandled
CHECK_DEADLOCK FALSE
