------------------------------- MODULE MCUrl -------------------------------
(* Every delimiter can appear in the tail, numbers where a port could be,  *)
(* and each part can be missing but the host.                              *)
EXTENDS Url

MCCharacters == {"a", "1", ":", "/", "@"}
MCProtos == {<<>>, <<"a">>}
MCUsers == [login : {<<"a">>, <<"1">>}, pass : {<<"a">>, <<"1">>, <<"1", "a">>}]
MCHosts == {<<"a">>, <<"1">>}
MCPorts == {<<>>, <<"1">>, <<"1", "1">>}
MCTails == {<<>>, <<"/">>, <<"/", "a">>, <<"/", "1">>, <<"/", "/">>, <<"/", "a", ":", "1">>,
            <<"/", "a", ":", "/", "/", "a">>, <<"/", "a", ":", "a", "@", "a">>, <<"/", "@", "/">>}
MCParses == 2
=============================================================================
