SPECIFICATION Spec
CONSTANTS
  app = app  x = x  y = y  one = one  two = two
  content = content  localContent = localContent
  NoRecord = NoRecord
  Faces <- MCFaces
  LocalFaces = {app, x}
  Keys = {one, two}
  LocalhostKeys = {two}
  LocalhopKeys = {}
  Nonces = {n1, n2}
  Lifetimes = {1, 2}
  Cost <- MCCost
  NameOf <- MCNameOf
  Fib <- OtherFaces
  StrategyOf <- Multicast
  MustBeFresh = {two}
  Datas = {content, localContent}
  Match <- PrefixMatch
  LocalhostDatas = {localContent}
  ShortLived = {content, localContent}
  MayFail = {}
  Straggler = 1
  MaxPackets = 4
PROPERTY ImplementsInterestData
SYMMETRY SymmetricNonces
CHECK_DEADLOCK FALSE
