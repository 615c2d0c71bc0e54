CONSTANTS
  None = None
  h1 = h1
  h2 = h2
  a1 = a1
  a2 = a2
  Broken = Broken
  Handler = {h1, h2}
  Admin = {a1, a2}
  Service = {"vpn", "proxy"}
  StarBase = 176
  PremiumBase <- MCPremiumBase
  DefaultGifts <- MCDefaultGifts
  Product <- MCProduct
  Settings <- MCSettings
  FirstSettings <- MCPlain
  Offers <- MCOffers
  FirstCatalog <- MCFirstCatalog
  Icon <- MCIcon
  Amounts = {500, 20000}
  MinTopup = 1000
  MaxTopup = 10000000
  MinStars = 50
  MaxStars = 50000
  Packages = {50, 100}
  Opening = 150000
  Shown = {"stars", "premium", "vpn", "confirm"}
  MaxBusy = 2
  MaxSelections = 1
  MaxRecords = 1
  MaxCredits = 1
  MaxRevisions = 1
SYMMETRY MCHands
SPECIFICATION Spec
INVARIANTS TypeOK ChargedAsTold  SuccessIsCredited
