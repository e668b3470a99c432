SPECIFICATION FairSpec
CONSTANTS
  app = app  x = x  y = y  one = one  two = two
  content = content  localContent = localContent
  NoRecord = NoRecord
  Faces <- MCFaces
  LocalFaces = {app}
  Keys = {one}
  LocalhostKeys = {}
  LocalhopKeys = {}
  Nonces = {n1, n2}
  Lifetimes = {0, 2}
  Cost <- MCCost
  NameOf <- MCNameOf
  Fib <- AnyFace
  StrategyOf <- AnyStrategy
  MustBeFresh = {one}
  Datas = {content}
  Match <- AnyMatch
  LocalhostDatas = {}
  ShortLived = {content}
  MayFail = {x}
  Straggler = 1
  MaxPackets = 4
INVARIANTS TypeOK OneTimer ExpiresLast NoDeadNoncePending
PROPERTIES ImplementsInterestData EntriesFinish
CHECK_DEADLOCK FALSE
