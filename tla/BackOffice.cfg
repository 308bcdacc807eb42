SPECIFICATION BackSpec
CONSTANTS
  w1 = w1 w2 = w2 p1 = p1 p2 = p2 d1 = d1 d2 = d2 c1 = c1 s1 = s1 k1 = k1
  x1 = x1 x2 = x2 o1 = o1 o2 = o2
  i1 = i1 i2 = i2 sku1 = sku1 a1 = a1 a2 = a2 l1 = l1 l2 = l2
  NoParty = NoParty NoCenter = NoCenter NoExternal = NoExternal NoProduct = NoProduct
  NoRate = NoRate NoDay = NoDay NoSku = NoSku NoId = NoId
  Workers <- AWorkers
  Products <- AProducts
  Tracked <- ATracked
  Docs <- ADocs
  Parties <- AParties
  Centers <- ACenters
  Orders <- AOrders
  Entries <- AEntries
  Edits <- AEdits
  Agendas <- AAgendas
  InitialStock = 1
  MaxShifts = 2
  Pullers <- APullers
  Externals <- AExternals
  Feed <- AFeed
  Fetches <- AFetches
  StartListings <- AListings
  Sellers <- ASellers
  Stores <- AStores
  SaleIds <- ASaleIds
  Baskets <- ABaskets
  Price <- APrice
  RateValues <- ARates
  TicksPerDay = 3
  LastTick = 3
  Queries <- AQueries
  DefaultDays = 1
  CoverageDays = 2
  AlertDays = 1
  TargetMargin = 30
  Clerks <- AClerks
  Ids <- AIds
  Skus <- ASkus
  MaxRefs = 1
SYMMETRY Interchangeable
INVARIANTS BackInv EffectsMatchStatus OrdersAllOrNothing ReportsAgree
PROPERTIES DecidedIsFrozen FinalizeSetsShelf HistoryOutlivesRows
CHECK_DEADLOCK FALSE
