CONSTANTS
  Process = {p1}
  Socket = {tab1, tab2, feed}
  Event = {e1, e2}
  Case = {c1}
  Feed = Feed
  UserOf <- Users
  ChannelOf <- Channels
  CaseOf <- Events
  TTL = 1
  Nil = Nil
  tab1 = tab1
  tab2 = tab2
  feed = feed
  alice = alice
  bob = bob
  c1 = c1
  e1 = e1
  e2 = e2
SPECIFICATION FairHubSpec
INVARIANTS HubTypeOK NoMessageLost ViewersWereThere
PROPERTY WatcherReturns
