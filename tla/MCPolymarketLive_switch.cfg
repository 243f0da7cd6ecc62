SPECIFICATION FairSpec
CONSTANTS
  None = None
  c1 = c1
  Clients = {c1}
  SegmentRecords = 2
  Generations = {1, 2}
  CatalogOf <- Catalogs
  Kinds = {"gap"}
  Faults = {"append"}
  RecentCapacity = 3
  StreamCapacity = 1
  MaxCursor = 5
  MaxBoots = 2
CHECK_DEADLOCK FALSE

  
  
PROPERTIES
  SwitchReachesClients
