---------------------------- MODULE MCItemStates ----------------------------
(* A service on a host with two parents, one of which is behind the other:  *)
(* the shortest topology where an item has two source problems and one      *)
(* problem becomes the impact of another.                                   *)
EXTENDS ItemStates

CONSTANTS router, switch, host, svc

MCActDependOf == [i \in Items |-> CASE i = svc -> {host}
                                    [] i = host -> {router, switch}
                                    [] i = switch -> {router}
                                    [] i = router -> {}]

MCRank == [i \in Items |-> CASE i = svc -> 3 [] i = host -> 2
                             [] i = switch -> 1 [] i = router -> 0]

MCMaxAttempts == [i \in Items |-> IF i = host THEN 3 ELSE 1]
=============================================================================
