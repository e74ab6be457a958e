------------------------------ MODULE MCConfig ------------------------------
(* Instance of ManagementApi: two interfaces, e0 with an address of each   *)
(* family and e1 with an IPv4 address only.                                *)
EXTENDS ManagementApi

MCKernelAddr == [e0 |-> [v4 |-> IP("a1"), v6 |-> IP("b1")],
                 e1 |-> [v4 |-> IP("a2"), v6 |-> NO_ADDR]]
MCLiteralAfi == [a1 |-> "v4", a2 |-> "v4", b1 |-> "v6", r4 |-> "v4", r6 |-> "v6"]
MCPrefixAfi == [P |-> "v4", Q |-> "v4", X |-> "v6"]
MCCovers == {<<"P", "P">>, <<"Q", "Q">>, <<"X", "X">>, <<"P", "Q">>}
MCDns == [self |-> <<"a1", "b1">>, far |-> <<"r4", "r6">>]

RL(a, p) == [address |-> a, priority |-> p, weight |-> 1]
IF4(i, p) == [interface |-> i, afi |-> "v4", priority |-> p, weight |-> 1]
IF6(i, p) == [interface |-> i, afi |-> "v6", priority |-> p, weight |-> 1]
Map(e, rs, is) == [eid |-> e, rlocs |-> rs, ifaces |-> is]
Far == Map("P", <<RL("far", 1), RL("r4", 0)>>, <<>>)
Srv(a, kt, k) == [address |-> a, key_type |-> kt, key |-> k]
Petr(a, p) == [address |-> a, priority |-> p, weight |-> 1]
Rtr(i, f, p) == [interface |-> i, afi |-> f, priority |-> p, weight |-> 1]
Site(e, n) == [eid |-> e, iid |-> n]

Mappings == {Map("P", <<RL("a1", 2), RL("self", 257)>>, <<IF4("e0", 1)>>),
             Map("P", <<RL("a2", 1)>>, <<>>),
             Map("Q", <<RL("path", 1), RL("a1", 3)>>,
                      <<IF6("e1", 1), [IF4("e1", 1) EXCEPT !.afi = "v5"], IF4("e1", 2)>>),
             Map("X", <<RL("tree", 1), RL("r4", 1), RL("Q", 1)>>,
                      <<IF6("e0", 4), IF6("e1", 4), IF4("e9", 1)>>),
             Map("self", <<>>, <<>>)}

Confuse ==
    [elp |-> {[name |-> "path", nodes |-> <<"r4", "no", "a1">>]},
     rle |-> {[name |-> "tree", nodes |-> <<"a1", "a2">>]},
     mcinfo |-> {[name |-> "group", source |-> "a1", group |-> "a2"]},
     retries |-> {0, 7},
     probing |-> {[interval |-> 3, retries |-> 9, pause |-> 8],
                  [interval |-> -1, retries |-> 1, pause |-> 0]},
     nat |-> {[aware |-> TRUE, ids |-> TRUE], [aware |-> TRUE, ids |-> FALSE]},
     resolver |-> {"far", "none"},
     server |-> {Srv("r4", 1, TRUE), Srv("far", 1, TRUE), Srv("r4", 2, TRUE), Srv("", 1, TRUE)},
     petr |-> {Petr("far", 3), Petr("r4", 2), Petr("r6", 300)},
     pitr |-> {"r4"},
     mapping |-> Mappings,
     rtr_mapping |-> {Map("P", <<RL("a1", 1)>>, <<>>), Map("Q", <<RL("a2", 1), RL("a2", 2)>>, <<>>)},
     static |-> {Far, Map("X", <<RL("group", 1)>>, <<>>)},
     rtr_iface |-> {Rtr("e0", "v4", 2), Rtr("e0", "v4", 1), Rtr("e1", "v6", 1),
                    Rtr("e1", "v5", 1), Rtr("e0", "v4", -1)},
     control |-> {"e0", "e9"},
     site |-> {Site("P", 16777216), Site("Q", 2), Site("path", 0), Site("no", 0)},
     registered |-> {Far, Map("Q", <<RL("r6", 1)>>, <<>>)}]

Rloc(n, a, p) == [name |-> n, address |-> a, interface |-> "", afi |-> "", priority |-> p,
                  weight |-> 1, complete |-> TRUE]
RlocIf(n, i, f, p) == [name |-> n, address |-> "", interface |-> i, afi |-> f,
                       priority |-> p, weight |-> 1, complete |-> TRUE]
Uci ==
    [elp |-> {[name |-> "path", nodes |-> <<"r4", "a1">>]},
     rloc |-> {Rloc("one", "a1", 2), Rloc("two", "self", 1), RlocIf("two", "e0", "v4", 1),
               RlocIf("three", "e1", "v6", 1), RlocIf("three", "e9", "v4", 1),
               Rloc("one", "path", 300)},
     rloc_set |-> {[name |-> "set", rlocs |-> <<"one", "two">>],
                   [name |-> "set", rlocs |-> <<"three", "four">>]},
     retries |-> {-1, 7},
     probing |-> {[interval |-> 3, retries |-> 9, pause |-> 8]},
     nat |-> {[aware |-> TRUE, ids |-> FALSE]},
     resolver |-> {"far"},
     server |-> {Srv("r4", 1, TRUE)},
     petr |-> {Petr("far", 10)},
     pitr |-> {"r4"},
     mapping |-> {[eid |-> "P", rloc_set |-> "set"], [eid |-> "X", rloc_set |-> "none"]},
     static |-> {[eid |-> "Q", rloc_set |-> "set"]},
     rtr_iface |-> {Rtr("e0", "v4", 2), Rtr("e1", "unset", 1)},
     control |-> {"e0"},
     site |-> {Site("P", 1), Site("Q", 2), Site("", 0)},
     registered |-> {[eid |-> "P", rloc_set |-> "set"]}]

MCSections == [confuse |-> Confuse, uci |-> Uci]
MCMaxSections == [confuse |-> 3, uci |-> 4]
MCMaxSteps == 3

Change(d, o, data) == [dev |-> d, op |-> o, data |-> data, too_large |-> FALSE]
A(a) == [address |-> a]
ApiRl(a, p) == [address |-> a, priority |-> p]
MCChanges ==
    [MR |-> {Change("xTR", "ADD", <<A("r4"), A("r6")>>), Change("xTR", "MOD", <<A("r4"), A("r4")>>),
             Change("xTR", "REM", <<>>), Change("RTR", "CHAIN", <<A("r6")>>)},
     MS |-> {Change("xTR", "ADD", <<Srv("r4", 1, TRUE), Srv("r6", 1, TRUE)>>),
             Change("xTR", "ADD", <<Srv("r4", 1, TRUE), Srv("r6", 2, TRUE)>>),
             Change("xTR", "ADD", <<Srv("r4", 1, TRUE), Srv("r4", 1, TRUE)>>),
             Change("xTR", "MOD", <<>>), Change("xTR", "REM", <<>>)},
     PETR |-> {Change("xTR", "ADD", <<A("r6")>>), Change("xTR", "ADD", <<A("r6"), A("no")>>),
               Change("xTR", "REM", <<>>), [Change("xTR", "ADD", <<A("r4")>>) EXCEPT !.too_large = TRUE]},
     MAPDB |->
        {Change("xTR", "REM", <<>>),
         Change("xTR", "ADD",
            <<[eid |-> "Q", rlocs |-> <<ApiRl("a2", 1), ApiRl("a1", UNSET)>>, ifaces |-> <<>>],
              [eid |-> "P", rlocs |-> <<>>, ifaces |-> <<"e0">>]>>),
         Change("xTR", "MOD",
            <<[eid |-> "self", rlocs |-> <<>>, ifaces |-> <<>>],
              [eid |-> "X", rlocs |-> <<>>, ifaces |-> <<"e1">>]>>),
         Change("xTR", "MOD", <<[eid |-> "", rlocs |-> <<>>, ifaces |-> <<>>]>>)}]
=============================================================================
