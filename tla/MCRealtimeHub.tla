--------------------------- MODULE MCRealtimeHub ----------------------------
EXTENDS RealtimeHub, TLC

CONSTANTS tab1, tab2, feed, alice, bob, c1, e1, e2

\* One user with two tabs on a case; another with the tenant's feed.
Users == tab1 :> alice @@ tab2 :> alice @@ feed :> bob
Channels == tab1 :> c1 @@ tab2 :> c1 @@ feed :> Feed

\* An event of the case and one of the tenant: the feed is sent both.
Events == e1 :> c1 @@ e2 :> Feed
=============================================================================
