SPECIFICATION Spec
CONSTANTS
  Id = {}
  Port = {}
  Name = {}
  StaleWarning = 1
  StaleCritical = 2
  ExpiryMargin = 3
  Server <- MCServer
  Domain <- MCDomain
  Condition <- MCCondition
  FactsOf <- MCFactsOf
  Route <- MCRoute
  RouteOf <- MCRouteOf
  Fleet <- MCFleet
  ProjectOf <- MCProjectOf
  Starts <- MCStarts
  Changes <- MCChanges
  Sound <- MCSound
  Apart <- MCApart
  Well <- MCWell
  Thread = {t1, t2}
  Observer = {o1}
  Prober = {p1}
  Refresh = 2
INVARIANTS TypeOK CompliantIsSound ShownHealthIsTrue ServedIsRecent OkMeansObserved EvidenceIsWhole
PROPERTY RequestsAreAnswered
