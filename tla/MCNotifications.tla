-------------------------- MODULE MCNotifications --------------------------
(* Small instances of Notifications: two contacts, one for the item and one  *)
(* for its escalations, and items that differ in what the code looks at.     *)
EXTENDS Notifications

CONSTANTS admin, boss, mail, pager

AllOptions == {"w", "c", "u", "r", "f", "s"}
MCWaysOf == admin :> {mail} @@ boss :> {pager}
MCWays == mail :> [options |-> AllOptions, period |-> 0..Cycle - 1]
          @@ pager :> [options |-> {"c", "r"}, period |-> 0..Cycle - 1]
MCEscalations ==
  { [first |-> 2, last |-> 0, timed |-> FALSE, options |-> {"c", "w"},
     period |-> {0}, contacts |-> {boss}, interval |-> -1] }

Item == [type |-> "service", interval |-> 2, delay |-> 0, options |-> AllOptions,
         period |-> 0..Cycle - 1, max |-> 1, volatile |-> FALSE, flap |-> FALSE, depends |-> FALSE,
         contacts |-> {admin}, states |-> {"OK", "CRITICAL"},
         commands |-> {"ack", "toggle", "downtime", "host", "contact"}]
MCConfs ==
  { [Item EXCEPT !.period = {0}, !.commands = @ \ {"contact"}],
    [Item EXCEPT !.states = @ \cup {"UNKNOWN"}, !.commands = {"toggle"}],
    [Item EXCEPT !.interval = 0, !.flap = TRUE, !.max = 2,
                 !.states = @ \cup {"UNKNOWN"}, !.commands = {"contact", "ack"}],
    [Item EXCEPT !.depends = TRUE, !.commands = {"downtime"}],
    [Item EXCEPT !.volatile = TRUE, !.max = 2, !.commands = {"ack"}],
    [Item EXCEPT !.type = "host", !.commands = {"ack", "toggle", "downtime"}] }

\* What NotifiedSoon is proved from holds in these instances.
ASSUME MCAttentive == Attentive
=============================================================================
