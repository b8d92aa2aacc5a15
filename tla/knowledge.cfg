SPECIFICATION Spec
CONSTANTS
  Sources = {"s1", "s2"}
  Contents = {"c1", "c2"}
  Parsers = {"p1", "p2"}
  Pieces <- MCPieces
  HomeOf <- MCHomeOf
  LinksOf <- MCLinksOf
  Order <- MCOrder
  Deliveries <- MCDeliveries
  Spaces = {"qwen", "cpu"}
  Cpu = "cpu"
  Preferred = "qwen"
  Deployments <- MCDeployments
  Threads = {t1, t2}
  MaxRequests = 3
  Nothing = Nothing
INVARIANTS TypeOK BundleWhole NoneHidden OutcomeTold
PROPERTIES RetirementSticks LedgerContract
SYMMETRY Symmetry
CHECK_DEADLOCK FALSE
