CONSTANTS
  Auctions = {1, 2}
  AuctionClients = {tab}
  Watches <- MCWatches
  UserClients = {app}
  BidWorkers = {b1, b2}
  CloseWorkers = {c1}
  ReadCalls = {r1}
  MaxNotifications = 2
  Stories <- MCStories
  MaxWeeks = 1
  MaxFaults = 1
SPECIFICATION Spec
INVARIANTS InboxInv WatchersAreTold NothingIsLost CountCoversUnread
CONSTRAINT MCBound
SYMMETRY MCSlots
CHECK_DEADLOCK FALSE
