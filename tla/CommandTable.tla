---------------------------- MODULE CommandTable ----------------------------
(***************************************************************************)
(* What the external commands do to the objects of a scheduler: the        *)
(* handlers of ExternalCommandManager, in the order of the source. A       *)
(* command is a record: its kind, the objects it is for, the attribute it  *)
(* is about and the value it gives. The part of the configuration that a   *)
(* scheduler manages has one host with two services, one contact, and the  *)
(* program; a group holds the host, or the first service, or the contact.  *)
(*                                                                         *)
(* An attribute is FALSE or TRUE; for one that is not a flag, TRUE stands  *)
(* for the configured value. Checks, results, acknowledgements and         *)
(* downtimes have modules of their own: here they are counted only.        *)
(***************************************************************************)
EXTENDS Integers, FiniteSets, Sequences, SequencesExt

CONSTANT MaxCount   \* bound: comments and downtimes of an object

ASSUME TableConstants == MaxCount \in Nat \ {0}

Hosts    == {"host"}
Services == {"svc1", "svc2"}
Objects  == Hosts \cup Services \cup {"contact", "program"}

\* Whom the argument of a command designates: get_hosts, get_services and
\* get_contacts of the groups, and the loops of the handlers over them.
Targets ==
  [host |-> Hosts, svc |-> {"svc1"}, contact |-> {"contact"}, program |-> {"program"},
   hostgroup_host |-> Hosts, hostgroup_svc |-> Services, host_svc |-> Services,
   servicegroup_host |-> Hosts, servicegroup_svc |-> {"svc1"},
   contactgroup |-> {"contact"}]

\* DICT_MODATTR: the bit of modified_attributes that stands for an attribute.
Shared ==
  [snapshot_command |-> "event_handler",
   host_notifications |-> "notifications", svc_notifications |-> "notifications",
   passive_host_checks |-> "passive_checks", passive_svc_checks |-> "passive_checks",
   host_checks |-> "active_checks", svc_checks |-> "active_checks",
   host_freshness |-> "freshness", svc_freshness |-> "freshness",
   host_period |-> "notification_period", svc_period |-> "notification_period"]
Bit(attr) == IF attr \in DOMAIN Shared THEN Shared[attr] ELSE attr

\* A contact has three masks: modified_attributes, modified_host_attributes and
\* modified_service_attributes; the other objects have the first.
Masks == {"all", "host", "service"}
MaskOf(attr) ==
  CASE attr = "host_period" -> "host" [] attr = "svc_period" -> "service" [] OTHER -> "all"

Flags == {"notifications", "active_checks", "passive_checks", "event_handlers",
          "flap_detection", "freshness", "performance_data"}
Settings == {"check_command", "event_handler", "snapshot_command", "check_period",
             "max_attempts", "check_interval", "retry_interval", "notification_period",
             "delay", "customs"}
ProgramFlags == {"event_handlers", "flap_detection", "notifications", "performance_data",
                 "host_freshness", "svc_freshness", "passive_host_checks",
                 "passive_svc_checks", "host_checks", "svc_checks"}
ContactFlags == {"host_notifications", "svc_notifications"}
Attributes == Flags \cup Settings \cup ProgramFlags \cup ContactFlags
              \cup {"host_period", "svc_period"}

-----------------------------------------------------------------------------
(* The commands, by their place in the source *)

Command(kind, on, attr, to) == [kind |-> kind, on |-> on, attr |-> attr, to |-> to]
\* Set the attribute unless it has that value; give it a new value.
Toggle(on, attrs, to) == { Command("toggle", on, a, to) : a \in attrs }
Assign(on, attrs) == { Command("assign", on, a, FALSE) : a \in attrs }
Plain(kind, ons) == { Command(kind, on, "none", FALSE) : on \in ons }
\* "is not currently implemented in Alignak": a log, and nothing changes.
NotImplemented(ons) == Plain("log", ons)

\* CHANGE_CONTACT_MODSATTR, CHANGE_CONTACT_MODHATTR, CHANGE_CONTACT_MODATTR: the mask is
\* replaced by a number, here 0.
ContactModattrs ==
  { Command("mask", "contact", mask, FALSE) : mask \in Masks } \cup Assign("contact", {"host_period"})
AddComments == Plain("comment", {"svc"}) \cup Plain("comment_raises", {"host"})
Acknowledges == Plain("ack", {"host", "svc"})
CustomVariables ==
  Assign("contact", {"svc_period", "customs"}) \cup Assign("host", {"customs"})
  \cup Assign("svc", {"customs"})
GlobalEventHandlers == NotImplemented({"program"})
ChangeHost ==
  Assign("host", {"check_command", "check_period", "event_handler", "snapshot_command"})
HostModattr ==
  { Command("modattr", "host", bit, FALSE) :
      bit \in (Flags \cup Settings) \ {"delay", "snapshot_command"} }
ChangeAttempts == Assign("host", {"max_attempts"}) \cup Assign("svc", {"max_attempts"})
\* When the old check interval is 0, the handlers go on to schedule a check if
\* checks_enabled, an attribute that neither hosts nor services have: they raise once the
\* value is changed, and schedule is never called.
ChangeIntervals ==
  { Command("assign", on, a, FALSE) :
      on \in {"host", "svc"}, a \in {"check_interval", "retry_interval"} }
  \cup { Command("assign_raises", on, "check_interval", FALSE) : on \in {"host", "svc"} }
ChangeService ==
  Assign("svc", {"check_command", "check_period", "event_handler", "snapshot_command"})
ServiceModattr == { [c EXCEPT !.on = "svc"] : c \in HostModattr }
DelayNotifications ==
  Assign("svc", {"notification_period"})
  \cup { Command("silent", on, "delay", FALSE) : on \in {"host", "svc"} }
DeleteAll ==
  Plain("del_downtimes", {"contact", "host", "svc"}) \cup Plain("del_comments", {"host", "svc"})
DeleteOne ==
  Plain("del_downtime", {"contact", "host", "svc"}) \cup Plain("del_comment", {"host", "svc"})

DisableContacts ==
  NotImplemented({"host"}) \cup Toggle("contactgroup", ContactFlags, FALSE)
  \cup Toggle("contact", ContactFlags, FALSE)
DisableProgram == Toggle("program", {"event_handlers", "flap_detection"}, FALSE)
DisableHostgroup ==
  Toggle("hostgroup_host", {"active_checks", "notifications", "passive_checks"}, FALSE)
  \cup Toggle("hostgroup_svc", {"passive_checks", "active_checks", "notifications"}, FALSE)
DisableHost ==
  NotImplemented({"host"}) \cup Toggle("program", {"host_freshness"}, FALSE)
  \cup Toggle("host", {"active_checks", "event_handlers", "flap_detection", "freshness",
                       "notifications"}, FALSE)
DisableHostServices ==
  Toggle("host_svc", {"active_checks", "notifications"}, FALSE)
  \cup Toggle("program", {"notifications", "performance_data"}, FALSE)
  \cup Toggle("host", {"passive_checks"}, FALSE) \cup Toggle("svc", {"passive_checks"}, FALSE)
DisableServicegroup ==
  Toggle("servicegroup_host", {"active_checks", "notifications", "passive_checks"}, FALSE)
  \cup Toggle("servicegroup_svc", {"passive_checks", "active_checks", "notifications"}, FALSE)
DisableService ==
  Toggle("program", {"svc_freshness"}, FALSE)
  \cup Toggle("svc", {"flap_detection", "freshness", "active_checks", "event_handlers",
                      "notifications"}, FALSE)

EnableContacts ==
  NotImplemented({"host"}) \cup Toggle("contactgroup", ContactFlags, TRUE)
  \cup Toggle("contact", ContactFlags, TRUE)
  \cup Toggle("program", {"event_handlers", "flap_detection"}, TRUE)
EnableHostgroup ==
  Toggle("hostgroup_host", {"active_checks", "notifications", "passive_checks"}, TRUE)
  \cup Toggle("hostgroup_svc", {"passive_checks", "active_checks", "notifications"}, TRUE)
EnableHost ==
  NotImplemented({"host"}) \cup Toggle("program", {"host_freshness"}, TRUE)
  \cup Toggle("host", {"active_checks", "event_handlers", "flap_detection", "freshness",
                       "notifications"}, TRUE)
EnableHostServices ==
  Toggle("host_svc", {"active_checks", "notifications"}, TRUE)
  \cup Toggle("program", {"notifications", "performance_data"}, TRUE)
  \cup Toggle("host", {"passive_checks"}, TRUE) \cup Toggle("svc", {"passive_checks"}, TRUE)
EnableServicegroup ==
  Toggle("servicegroup_host", {"active_checks", "notifications", "passive_checks"}, TRUE)
  \cup Toggle("servicegroup_svc", {"passive_checks", "active_checks", "notifications"}, TRUE)
EnableService ==
  Toggle("program", {"svc_freshness"}, TRUE)
  \cup Toggle("svc", {"active_checks", "event_handlers", "freshness", "flap_detection",
                      "notifications"}, TRUE)

ProcessResults == NotImplemented({"program"}) \cup Plain("result", {"host", "svc"})
RemoveAcknowledgements == NotImplemented({"program"}) \cup Plain("unack", {"host", "svc"})
\* RESTART_PROGRAM and RELOAD_CONFIG run a command line and wait for it.
RestartProgram == Plain("run", {"program"})
StateInformation == NotImplemented({"program", "host"})
ContactDowntimes == Plain("contact_downtime", {"contact"})
ForcedChecks == Plain("check", {"host", "host_svc", "svc"})
HostgroupDowntimes == Plain("downtime", {"hostgroup_host", "hostgroup_svc"})
ScheduleHost == Plain("check", {"host"}) \cup Plain("downtime", {"host"})
\* The loop passes an identifier where schedule_svc_downtime and
\* schedule_host_downtime expect the object: they raise.
ScheduleGroups ==
  Plain("check", {"host_svc"})
  \cup Plain("raises", {"host_svc", "servicegroup_host", "servicegroup_svc"})
ScheduleService == Plain("check", {"svc"}) \cup Plain("downtime", {"svc"})
CustomNotifications == NotImplemented({"host", "svc", "program"})
StartProgram ==
  Toggle("program", {"passive_host_checks", "passive_svc_checks", "host_checks", "svc_checks"},
         TRUE)
StopProgram ==
  Toggle("program", {"passive_host_checks", "passive_svc_checks", "host_checks", "svc_checks"},
         FALSE)
LaunchEventHandlers == Plain("handler", {"host", "svc"})

\* commands, the table of the class: the names that are known.
Commands ==
  UNION {ContactModattrs, AddComments, Acknowledges, CustomVariables, GlobalEventHandlers,
         ChangeHost, HostModattr, ChangeAttempts, ChangeIntervals, ChangeService,
         ServiceModattr, DelayNotifications, DeleteAll, DeleteOne, DisableContacts,
         DisableProgram, DisableHostgroup, DisableHost, DisableHostServices,
         DisableServicegroup, DisableService, EnableContacts, EnableHostgroup, EnableHost,
         EnableHostServices, EnableServicegroup, EnableService, ProcessResults,
         RemoveAcknowledgements, RestartProgram, StateInformation, ContactDowntimes,
         ForcedChecks, HostgroupDowntimes, ScheduleHost, ScheduleGroups, ScheduleService,
         CustomNotifications, StartProgram, StopProgram, LaunchEventHandlers}

-----------------------------------------------------------------------------
(* Their effect *)

\* An object as the configuration gives it; ok: HARD and UP, or HARD and OK.
Object == [values |-> [a \in Attributes |-> TRUE], modified |-> [m \in Masks |-> {}],
           ok |-> TRUE, attempt |-> 1, flapping |-> FALSE, comments |-> 0, downtimes |-> 0,
           ack |-> FALSE]
Configured == [o \in Objects |-> Object]

More(n) == IF n < MaxCount THEN n + 1 ELSE n
Less(n) == IF n > 0 THEN n - 1 ELSE n

\* Mutant: the flag changes and modified_attributes does not.
Toggled_Unmarked(o, attr, to) ==
  IF o.values[attr] = to THEN o
  ELSE [o EXCEPT !.values[attr] = to,
                 !.flapping = @ /\ ~(attr = "flap_detection" /\ ~to)]

\* A command that enables or disables: without effect if nothing would change. An
\* item that flaps stops to when its detection is disabled.
Toggled(o, attr, to) ==
  IF o.values[attr] = to THEN o
  ELSE [o EXCEPT !.values[attr] = to, !.modified.all = @ \cup {Bit(attr)},
                 !.flapping = @ /\ ~(attr = "flap_detection" /\ ~to)]

\* max_check_attempts: the configured value and another one
CheckAttempts(o) == IF o.values["max_attempts"] THEN 3 ELSE 2

\* An item that is OK takes the new number of attempts, if it has had more than one.
Assigned(o, attr) ==
  LET set == [o EXCEPT !.values[attr] = FALSE, !.modified[MaskOf(attr)] = @ \cup {Bit(attr)}]
  IN [set EXCEPT !.attempt = IF attr = "max_attempts" /\ o.ok /\ @ > 1 THEN CheckAttempts(set)
                             ELSE @]

\* change_host_modattr, change_svc_modattr: the loop toggles each attribute of the
\* mask, the freshness twice, and the mask is xored into modified_attributes.
Xored(o, bit) ==
  [o EXCEPT !.values[bit] = IF bit = "freshness" THEN @ ELSE ~@,
            !.modified.all = IF bit \in @ THEN @ \ {bit} ELSE @ \cup {bit}]

Applied(o, c) ==
  CASE c.kind = "toggle" -> Toggled(o, c.attr, c.to)
    [] c.kind \in {"assign", "assign_raises"} -> Assigned(o, c.attr)
    [] c.kind = "silent" -> [o EXCEPT !.values[c.attr] = FALSE]
    [] c.kind = "modattr" -> Xored(o, c.attr)
    [] c.kind = "mask" -> [o EXCEPT !.modified[c.attr] = {}]
    [] c.kind \in {"comment", "comment_raises"} -> [o EXCEPT !.comments = More(@)]
    [] c.kind = "ack" -> [o EXCEPT !.ack = TRUE]
    [] c.kind = "unack" -> [o EXCEPT !.ack = FALSE]
    [] c.kind = "contact_downtime" -> [o EXCEPT !.downtimes = More(@)]
    [] c.kind = "downtime" -> [o EXCEPT !.downtimes = More(@), !.comments = More(@)]
    [] c.kind = "del_downtimes" -> [o EXCEPT !.downtimes = 0]
    [] c.kind = "del_downtime" -> [o EXCEPT !.downtimes = Less(@)]
    [] c.kind = "del_comments" -> [o EXCEPT !.comments = 0]
    [] c.kind = "del_comment" -> [o EXCEPT !.comments = Less(@)]
    [] OTHER -> o

\* Whether the handler raises an exception, before or after its effect.
Raises(c) == c.kind \in {"raises", "comment_raises", "assign_raises"}

\* Disabling the flap detection of the program ends the flapping of every item.
Apply(part, c) ==
  [o \in Objects |->
     IF o \in Targets[c.on] THEN Applied(part[o], c)
     ELSE IF /\ c.on = "program" /\ c.kind = "toggle" /\ c.attr = "flap_detection"
             /\ ~c.to /\ part["program"].values[c.attr]
     THEN [part[o] EXCEPT !.flapping = FALSE]
     ELSE part[o]]

-----------------------------------------------------------------------------
(* The arguments of a command *)

\* No argument is at the place 0.
Rejected == <<0>>

\* Whether the arguments are as many as the table says.
Complete(types, p) == Len(p.args) = Len(types) - p.obsolete

\* One element of the command line: a host, a service (the names of the host and of
\* the service, two elements), an object that must exist ("object"), a value, or an
\* argument that is ignored. An unknown host or service ends the command; an unknown
\* object is skipped. An argument is the position of its element.
ParseElement(types, elts, p, k) ==
  IF p.failed THEN p
  ELSE IF p.service THEN [p EXCEPT !.service = FALSE, !.args = Append(@, k),
                                   !.failed = elts[k] = "unknown"]
  ELSE LET type == types[p.next]
           q == [p EXCEPT !.next = @ + 1]
       IN CASE type = "host" /\ elts[k] = "unknown" -> [q EXCEPT !.failed = TRUE]
            [] type = "object" /\ elts[k] = "unknown" -> q
            [] type = "obsolete" -> [q EXCEPT !.obsolete = @ + 1]
            [] type = "service" -> [q EXCEPT !.service = TRUE]
            [] OTHER -> [q EXCEPT !.args = Append(@, k)]

\* split_semicolon is told the number of arguments: a line has no more elements.
ArgumentCount(types) == Len(types) + (IF "service" \in ToSet(types) THEN 1 ELSE 0)

\* get_command_and_args in the scheduler
Arguments(types, elts) ==
  LET start == [next |-> 1, args |-> <<>>, service |-> FALSE, obsolete |-> 0, failed |-> FALSE]
      p == FoldLeft(LAMBDA q, k : ParseElement(types, elts, q, k), start, [k \in DOMAIN elts |-> k])
  IN IF ~p.failed /\ Complete(types, p) THEN p.args ELSE Rejected

-----------------------------------------------------------------------------
(* The livestate that the endpoint `host` of the arbiter gets *)

HostStateToId == [UP |-> 0, DOWN |-> 1, UNREACHABLE |-> 2]
ServiceStateToId == [OK |-> 0, WARNING |-> 1, CRITICAL |-> 2, UNKNOWN |-> 3, UNREACHABLE |-> 4]

\* A state that is not known becomes an issue in the answer and no command.
Livestates(given, ids) == SelectSeq(given, LAMBDA state : state \in DOMAIN ids)
\* The commands of a request: the livestates of the host, then those of the service.
HostCommands(hosts, services) ==
  [k \in DOMAIN Livestates(hosts, HostStateToId) |->
     HostStateToId[Livestates(hosts, HostStateToId)[k]]]
  \o [k \in DOMAIN Livestates(services, ServiceStateToId) |->
     ServiceStateToId[Livestates(services, ServiceStateToId)[k]]]

\* What the result makes of the item: consume_result turns 1 into 2 for a host.
HostState(code) ==
  LET status == IF code = 1 THEN 2 ELSE code
  IN CASE status = 0 -> "UP" [] status = 4 -> "UNREACHABLE" [] OTHER -> "DOWN"
ServiceState(code) ==
  IF code \in 0..4 THEN <<"OK", "WARNING", "CRITICAL", "UNKNOWN", "UNREACHABLE">>[code + 1]
  ELSE "CRITICAL"
=============================================================================
