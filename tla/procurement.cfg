SPECIFICATION Spec
CONSTANTS
  LastDay = 3
  None = None
  Strategies <- MCStrategies
  Stocks <- MCStocks
  Demands <- MCDemands
  Offers <- MCOffers
  Rules <- MCRules
INVARIANTS FefoWastesLeast OrdersOnlyHelp OrderReachesTarget MoreDemandOrdersMore
