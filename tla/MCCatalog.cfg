CONSTANTS
  cny = cny
  jpy = jpy
  point = point
  eur = eur
  usd = usd
  chf = chf
  MaxMinor = 40
  Units <- MCUnits
  Quantities <- MCQuantities
  Rates <- MCRates
  WeightLists <- MCWeightLists
  Counts = {0, 3}
  Literals <- MCLiterals
  SeedMinors <- MCSeedMinors
  keep = keep
  null = null
  Writers = {c1, c2}
  Registry <- MCRegistry
  Amounts <- MCAmounts
  Edits <- MCEdits
  NoWriter = nobody
  Keep = keep
  NoAmount = null
  MaxConnections = 2
  MaxEdits = 1
  k1 = k1
  k2 = k2
  p1 = p1
  v1 = v1
  Editors = {e1, e2}
  Categories = {k1, k2}
  Products = {p1}
  AttributeValues = {v1}
  Attachments <- MCAttachments
  Changes <- MCChanges
  Same = same
  Resource <- MCResource
  NoEditor = nobody
  MaxMedia = 2
  absent = absent
  Absent = absent
  Walks <- MCWalks
  DefaultSize = 2
  MaxSize = 2
  RowBodies <- MCRowBodies
  FirstRows <- MCFirstRows
  Unpriced = 4
  MaxListed = 4
  MaxDepartures = 2
  red = red
  blue = blue
  blank = blank
  Clerks = {d1, d2}
  AttributeNos = {n1, n2}
  ValueCodes = {red, blue, blank}
  ValueLists <- MCValueLists
  Blank = blank
  Templates = {t1}
  Omitted = omitted
  MaxBindings = 2
  ListNos = {l1}
  ListCurrencies = {cny, jpy}
  Instants = {1, 2}
  Unset = unset
  Planners = {f1, f2}
  MaxRevisions = 2
SPECIFICATION CatalogSpec
INVARIANTS
  RoundsAsDeclared
  AllocationIsExact
  TextRoundTrips
  PricesAreCoherent
  AmountsInCurrency
  PricingIInv
  ReferencesIInv
  MissesAreDepartures
  DictionaryIsWhole
  OneRoleEach
  WindowsAreMeant
PROPERTIES
  PricedRequestsEnd
  RetiredCategoryWasEmpty
  RetiredOwnerIsClosed
  WalkEnds
CHECK_DEADLOCK FALSE
