SPECIFICATION FairSpec
CONSTANTS
  Clients = {c1, c2}
  MaxRequests = 1
  MaxConnects = 2
  MaxGdb = 1
INVARIANT UpdatesOnTheWay
PROPERTY PagesFollow
