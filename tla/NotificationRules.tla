-------------------------- MODULE NotificationRules --------------------------
(***************************************************************************)
(* The decisions of the notification code, as functions of the item, the   *)
(* notification and the time: what blocks a notification on the level of   *)
(* the item, which contacts want it, which escalations take it over, when  *)
(* it is repeated, and whether an item is flapping.                        *)
(*                                                                         *)
(* Time is counted in seconds from now: a wait of 2 is a t_to_go two       *)
(* seconds ahead. The time periods repeat every Cycle seconds: a period is *)
(* the set of the phases of the cycle that it covers.                      *)
(***************************************************************************)
EXTENDS Integers, Sequences, FiniteSets

CONSTANTS
  Contacts,      \* the contacts of the item and of its escalations
  WaysOf,        \* contact -> its notification ways
  Ways,          \* way -> [options, period], for hosts and services alike
  Escalations,   \* set of [first, last, timed, options,
                 \* period, contacts, interval]
  Cycle,         \* bound: the time periods repeat after this many seconds
  FlapHistory,   \* flap_history, the samples kept
  LowFlap, HighFlap  \* the flap thresholds, in percent

Phases == 0..Cycle - 1

ASSUME RuleConstants ==
  /\ Cycle \in Nat \ {0} /\ FlapHistory \in Nat \ {0}
  /\ LowFlap \in 0..100 /\ HighFlap \in 0..100 /\ LowFlap <= HighFlap
  /\ IsFiniteSet(Contacts) /\ IsFiniteSet(DOMAIN Ways)
  /\ WaysOf \in [Contacts -> SUBSET DOMAIN Ways]
  /\ Escalations \subseteq [first : Nat, last : Nat, timed : BOOLEAN,
                            options : SUBSET {"w", "c", "u", "o"}, period : SUBSET Phases,
                            contacts : SUBSET Contacts, interval : Int]

Flaps     == {"FLAPPINGSTART", "FLAPPINGSTOP"}
Downtimes == {"DOWNTIMESTART", "DOWNTIMEEND"}
Types     == {"PROBLEM", "RECOVERY", "ACKNOWLEDGEMENT"} \cup Flaps \cup Downtimes

\* The letter of a state in notification_options; a host is DOWN where a
\* service is CRITICAL.
Letter(state) == CASE state = "OK" -> "r"
                   [] state = "WARNING" -> "w"
                   [] state = "CRITICAL" -> "c"
                   [] state = "UNKNOWN" -> "u"

-----------------------------------------------------------------------------
(* Time periods *)

\* Timeperiod.is_time_valid, t seconds from now.
IsTimeValid(period, phase, t) == (phase + t) % Cycle \in period

\* Timeperiod.get_next_valid_time_from_t.
GetNextValidTime(period, phase, t) ==
  CHOOSE k \in t..t + Cycle :
    /\ IsTimeValid(period, phase, k)
    /\ \A j \in t..k - 1 : ~IsTimeValid(period, phase, j)

-----------------------------------------------------------------------------
(* The item *)

\* What the options of the item or of a way let through.
OptionsAllow(options, state, type) ==
  CASE type \in {"PROBLEM", "RECOVERY"} -> Letter(state) \in options
    [] type \in Flaps -> "f" \in options
    [] type \in Downtimes -> "s" \in options
    [] OTHER -> TRUE

\* Service.is_blocking_notifications, t seconds from now; hostQuiet: the host is
\* in a downtime or not UP.
ServiceBlocks(i, conf, hostQuiet, phase, type, t) ==
  \/ ~i.enabled \/ "n" \in conf.options
  \/ ~IsTimeValid(conf.period, phase, t)
  \/ ~OptionsAllow(conf.options, i.state, type)
  \/ type = "ACKNOWLEDGEMENT" /\ i.state = "OK"
  \/ hostQuiet
  \/ i.depth > 1 /\ type # "DOWNTIMEEND"
  \/ i.depth > 0 /\ type \notin Downtimes
  \/ i.kind = "SOFT" /\ type = "PROBLEM"
  \/ i.ack # "none" /\ type # "ACKNOWLEDGEMENT"
  \/ i.flapping /\ type \notin Flaps

\* Host.is_blocking_notifications: an acknowledged host still tells of downtimes.
HostBlocks(i, conf, phase, type, t) ==
  \/ ~i.enabled \/ "n" \in conf.options
  \/ ~IsTimeValid(conf.period, phase, t)
  \/ ~OptionsAllow(conf.options, i.state, type)
  \/ type = "ACKNOWLEDGEMENT" /\ i.state = "OK"
  \/ i.depth > 1 /\ type # "DOWNTIMEEND"
  \/ i.depth > 0 /\ type \notin Downtimes
  \/ i.kind = "SOFT" /\ type = "PROBLEM"
  \/ i.ack # "none" /\ type \notin {"ACKNOWLEDGEMENT"} \cup Downtimes
  \/ i.flapping /\ type \notin Flaps

-----------------------------------------------------------------------------
(* Contacts *)

\* NotificationWay.want_service_notification, want_host_notification. The time
\* is that of the item's last check, not the time of the notification.
WayWants(way, state, type, checked) ==
  /\ "n" \notin Ways[way].options
  /\ checked \in Ways[way].period
  /\ CASE type = "PROBLEM" -> state # "OK" /\ Letter(state) \in Ways[way].options
       [] type = "RECOVERY" -> "r" \in Ways[way].options
       [] OTHER -> OptionsAllow(Ways[way].options, state, type)

\* Contact.want_service_notification for the command of one of its ways: only
\* that way has the command.
ContactWants(c, way, away, state, type, checked) ==
  /\ c \notin away
  /\ way \in WaysOf[c] /\ WayWants(way, state, type, checked)

-----------------------------------------------------------------------------
(* Escalations *)

\* escalation_options has a letter of its own for UP and OK.
EscalationLetter(state) == IF state = "OK" THEN "o" ELSE Letter(state)

\* Escalation.is_eligible for the master notification m.
IsEligible(e, state, m, phase) ==
  LET n == IF e.timed THEN m.age ELSE m.nb
  IN /\ e.first <= n /\ (e.last # 0 => n <= e.last)
     /\ EscalationLetter(state) \in e.options
     /\ IsTimeValid(e.period, phase, m.wait)

Eligible(state, m, phase) == { e \in Escalations : IsEligible(e, state, m, phase) }

\* Escalation.get_next_notif_time, seconds from now: a timed escalation may ask
\* for an earlier notification than the one wished.
EarlyStart(e, state, age, wished, phase) ==
  LET start == e.first - age
  IN IF /\ e.timed /\ EscalationLetter(state) \in e.options
        /\ start <= wished /\ IsTimeValid(e.period, phase, start)
     THEN {start} ELSE {}

\* SchedulingItem.get_next_notification_time of a notification that was due
\* wait <= 0 seconds from now.
GetNextNotificationTime(m, state, interval, phase) ==
  LET shorter == { e.interval : e \in Eligible(state, m, phase) } \cap 0..interval - 1
      int == IF shorter = {} THEN interval
             ELSE CHOOSE x \in shorter : \A y \in shorter : x <= y
      std == IF m.wait + int < 0 THEN int ELSE m.wait + int
      early == { t \in UNION { EarlyStart(e, state, m.age, std, phase) :
                                 e \in Escalations \ m.started } : 0 < t /\ t < std }
  IN IF early = {} THEN std ELSE CHOOSE t \in early : \A u \in early : t <= u

-----------------------------------------------------------------------------
(* Flapping *)

\* add_flapping_change.
AddFlappingChange(changes, sample) ==
  LET s == Append(changes, sample)
  IN IF Len(s) > FlapHistory THEN Tail(s) ELSE s

\* The percentage of update_flapping, times FlapHistory^2 * 10: the sample k of
\* the history weighs (0.8 + 0.4 k / FlapHistory) / FlapHistory.
Weight(changes) ==
  LET w[k \in 0..Len(changes)] ==
        IF k = 0 THEN 0
        ELSE w[k - 1] + (IF changes[k] THEN 8 * FlapHistory + 4 * k ELSE 0)
  IN w[Len(changes)]

Over(changes, threshold) ==
  Weight(changes) * 100 >= threshold * 10 * FlapHistory * FlapHistory

\* Only a full history is accurate enough to change is_flapping.
UpdateFlapping(flapping, changes) ==
  IF Len(changes) < FlapHistory THEN flapping
  ELSE IF flapping THEN Over(changes, LowFlap) ELSE Over(changes, HighFlap)
=============================================================================
