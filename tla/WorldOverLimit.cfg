CONSTANTS
  Selectable = {1, 2, 3, 4, 5, 6, 7, 8}
  NetworkOf <- MCNetworkOf
  CityOf <- MCNetworkOf
  WithIPv6 = {}
  IndexOf <- MCIndexOf
  UserTagsOf <- MCNothing
  AddressesOf <- MCNothing
  FixedWords <- MCNoWords
  GatheredFrom = {}
  Containing <- MCNoWords
  Places = {1, 2, 3, 4, 5, 6}
  PlainMatch <- MCPlainMatch
  Magic <- MCMagic
  AsIndexed = {}
  Continents = {1, 2, 3, 4, 5, 6}
  WeightOf <- MCWeightOf
  EarlierIPs <- MCNoIPs
  MaxTests = 500
  MaxPlaces = 0
  Limits = {7}
  ReadyLists <- MCReadyLists
  Unready = {}
SPECIFICATION SelectionSpec
INVARIANTS
  LimitIsKept
CHECK_DEADLOCK FALSE
