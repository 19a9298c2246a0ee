------------------------- MODULE MCSchedulerChecks -------------------------
(* Small instances of SchedulerChecks for TLC: a service, the host it       *)
(* depends on and the router that host depends on, with one or two checks   *)
(* each.                                                                    *)
EXTENDS SchedulerChecks

CONSTANTS router, host, svc,       \* items
          r1, h1, h2, s1, s2       \* uuids of their checks

MCItemOf == [c \in CheckIds |-> CASE c = r1 -> router
                                  [] c \in {h1, h2} -> host
                                  [] c \in {s1, s2} -> svc]

MCActDependOf == [i \in Items |-> CASE i = svc -> {host}
                                    [] i = host -> Items \cap {router}
                                    [] i = router -> {}]

\* The external commands of the runs.
NoCommands == [i \in Items |-> {}]
PassiveAndToggle ==
  [i \in Items |-> IF i = host THEN {"passive", "disable", "enable"}
                            ELSE {"passive"}]
ForceAndSchedule ==
  [i \in Items |-> IF i = host THEN {"force", "schedule"} ELSE {}]
ForceHost == [i \in Items |-> IF i = host THEN {"force"} ELSE {}]

\* The checks of one item are interchangeable.
CheckSymmetry == Permutations({h1, h2} \cap CheckIds)
                   \cup Permutations({s1, s2} \cap CheckIds)
=============================================================================
