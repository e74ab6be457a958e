-------------------------- MODULE MCControlExchange --------------------------
(* Deployments for ControlExchange. *)
EXTENDS ControlExchange

Loc(a, prio, state) == [addr |-> a, prio |-> prio, weight |-> 50, state |-> state]
Map(eid, locs) == [eid |-> eid, ttl |-> 10, act |-> ACT_NO_ACTION, auth |-> TRUE, locs |-> locs]

Path(last) == ELP(<<[flags |-> 1, addr |-> IP(4, 4)], [flags |-> 0, addr |-> last]>>)

Own(eid, afis) == Map(eid, {Loc(IP(f, 3), 1, "up") : f \in afis})

Deployment(itr, ms, etr, rtr, eid, mappings, mode, site, samekey, proxy0) ==
  [afis |-> [n \in Nodes |-> CASE n = "itr" -> itr [] n = "ms" -> ms [] n = "etr" -> etr [] n = "rtr" -> rtr],
   eid |-> eid, mappings |-> mappings, mode |-> mode, site |-> site, samekey |-> samekey,
   proxy |-> proxy0]

E4 == IPPREF(4, 200, 24)
E6 == IPPREF(6, 200, 64)
EMC == MC(IP(4, 100), IP(4, 224), 32, 32)
D == {4, 6}

(* mappings with a locator that is down, with a path, with a replication    *)
(* list                                                                     *)
Mixed(eid) == Map(eid, {Loc(IP(4, 3), 1, "up"), Loc(IP(6, 3), 2, "down"), Loc(Path(IP(6, 3)), 1, "up")})
Replicated(eid) ==
  Map(eid, {Loc(RLE(<<[flags |-> 0, addr |-> IP(4, 3)], [flags |-> 1, addr |-> IP(6, 3)]>>), 1, "up")})

MCConfigs ==
  {Deployment({4}, {4}, {4}, {4}, E4, {Own(E4, {4})}, "xtr", "open", TRUE, FALSE),
   Deployment({6}, {6}, {6}, {6}, E6, {Own(E6, {6})}, "xtr", "open", TRUE, FALSE),
   Deployment({6}, {6}, {6}, {6}, E4, {Own(E4, {6})}, "xtr", "open", TRUE, TRUE),
   Deployment({4, 6}, {4}, {4, 6}, {6}, E6, {Own(E6, D), Mixed(E6)}, "xtr", "open", TRUE, FALSE),
   Deployment({6}, D, D, {4}, E4, {Mixed(E4)}, "xtr", "open", TRUE, FALSE),
   Deployment({4}, D, {6}, {4}, E4, {Own(E4, {6})}, "xtr", "open", TRUE, TRUE),
   Deployment({4}, {4, 6}, {6}, D, E4, {Own(E4, {6})}, "xtr", "open", TRUE, FALSE),
   Deployment({4}, {4}, D, {4}, E4, {Own(E4, {4})}, "rtr", "open", TRUE, FALSE),
   Deployment({4}, {4}, {4}, {4}, E4, {Own(E4, {4})}, "xtr", "open", FALSE, FALSE),
   Deployment({4}, {4}, {4}, {4}, E4, {Own(E4, {4})}, "xtr", "none", TRUE, FALSE),
   Deployment({4}, {4}, {4}, {4}, EMC, {Own(EMC, {4}), Replicated(EMC)}, "xtr", "open", TRUE, FALSE)}

(* a path whose second node changes while the first stays *)
PathConfigs ==
  {Deployment({4}, {4}, {4}, {4}, E4,
     {Map(E4, {Loc(Path(IP(4, 3)), 1, "up")}), Map(E4, {Loc(Path(IP(4, 5)), 1, "up")})},
     "xtr", "open", TRUE, TRUE)}
=============================================================================
