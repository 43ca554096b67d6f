------------------------------ MODULE MCLuaPool ------------------------------
(* Instance of LuaPool for TLC.                                            *)
EXTENDS LuaPool

CONSTANTS t1, t2

Ask(host, path, method) == [host |-> host, path |-> path, method |-> method]

MCTarget ==
    {Ask(<<"api", "x">>, <<"/", "a", "/", "b">>, "GET"),
     Ask(<<"x">>, <<"/", "a", "x">>, "POST")}

\* Every kind of pattern, and predicates that fail and that accept.
First ==
    [defaults |-> [prefer_tags |-> {"ipv6"}, max_attempts |-> 0,
                   hedge |-> [max_parallel |-> -1]],
     routes |->
        <<[match |-> [host |-> <<"api", "x">>, path |-> <<"/", "?", "/", "*">>,
                      methods |-> {"GET"}, predicate |-> "fails"],
           fail_streak |-> U32 + 1, probe |-> [url |-> "u", ok_statuses |-> {U16 + 1}]],
          [match |-> [host |-> <<"*", "x">>, path |-> <<"/", "**">>,
                      predicate |-> "other"],
           prefer_tags |-> {}, hedge |-> [delay_ms |-> 5]]>>]

\* The same ids for other routes; and there is no route for some requests.
Second ==
    [routes |->
        <<[match |-> [host |-> <<"*">>, path |-> <<"/", "a", "/", "**">>,
                      predicate |-> "nil"], on_request |-> "f", max_attempts |-> -1],
          [match |-> [host_regex |-> {<<"x">>}, path |-> <<"/", "a", "/", "**">>],
           selector |-> "unknown"]>>]

MCTables == {First, Second, NoKeys}
=============================================================================
