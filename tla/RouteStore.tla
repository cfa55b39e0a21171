----------------------------- MODULE RouteStore -----------------------------
(***************************************************************************)
(* What the RIB of the BMP provider promises: a set of routes with one     *)
(* next hop for each prefix, peer and NLRI.                                *)
(***************************************************************************)
CONSTANTS PrefixSet, Peers, NLRIs, NextHops

VARIABLE routes

Route(prefix, peer, nlri, nextHop) ==
  [prefix |-> prefix, peer |-> peer, nlri |-> nlri, nextHop |-> nextHop]

Routes == [prefix : PrefixSet, peer : Peers, nlri : NLRIs, nextHop : NextHops]

RoutesOf(prefix) == {r \in routes : r.prefix = prefix}

Same(prefix, peer, nlri) ==
  {r \in routes : r.prefix = prefix /\ r.peer = peer /\ r.nlri = nlri}

StoreInit == routes = {}

AddRoute(prefix, peer, nlri, nextHop) ==
  routes' = (routes \ Same(prefix, peer, nlri)) \cup {Route(prefix, peer, nlri, nextHop)}

RemoveRoute(prefix, peer, nlri) == routes' = routes \ Same(prefix, peer, nlri)

FlushPeer(peer) == routes' = {r \in routes : r.peer # peer}

StoreNext ==
  \/ \E prefix \in PrefixSet, peer \in Peers, nlri \in NLRIs :
       \/ \E nextHop \in NextHops : AddRoute(prefix, peer, nlri, nextHop)
       \/ RemoveRoute(prefix, peer, nlri)
  \/ \E peer \in Peers : FlushPeer(peer)

StoreSpec == StoreInit /\ [][StoreNext]_routes
=============================================================================
