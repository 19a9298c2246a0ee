----------------------------- MODULE Dispatcher -----------------------------
(***************************************************************************)
(* The master arbiter and the daemons it configures. The arbiter connects  *)
(* to every daemon, prepares a configuration for each, sends it, checks    *)
(* that it is managed, and then keeps looking at the daemons in its main   *)
(* loop, until it is killed or told to reload the monitored configuration. *)
(* Daemons crash and restart, and requests time out, at any moment. One    *)
(* request of the arbiter to one daemon is one step.                       *)
(*                                                                         *)
(* ConfParts says which parts a daemon is given: it depends on the         *)
(* configuration only, for a Dispatcher object is created for each         *)
(* configuration and prepares it once.                                     *)
(***************************************************************************)
EXTENDS ConfParts, Integers

CONSTANTS
  Schedulers,   \* sequence of the scheduler links of the configuration
  Spares,       \* the spare ones among them
  Satellites,   \* sequence of the satellite links
  Types,        \* sequence of the satellite types
  Realms,       \* sequence of the realms (see ConfParts)
  Must,         \* realm index -> type -> get_nb_of_must_have_satellites
  LaunchList,   \* links of the daemons the arbiter launched, in this order (my_daemons)
  MaxAttempts,  \* max_check_attempts of the links
  Tries,        \* tries of configuration_dispatch before it bails out (3)
  MaxRestarts,  \* bound: daemon crashes
  MaxTimeouts,  \* bound: requests that time out
  MaxReloads    \* bound: configuration reloads

\* all_daemons_links; the order of dispatch() is schedulers first.
Links     == Satellites \o Schedulers
PushOrder == Schedulers \o Satellites
Daemons   == ToSet(Links)
Launched  == ToSet(LaunchList)
Versions  == 1..(1 + MaxReloads)

Prepared == PrepareDispatch(Realms, Schedulers, Spares, Satellites, Types)
Parts    == DOMAIN Prepared.owner
Assigned(d) == IF d \in ToSet(Schedulers)
               THEN {p \in Parts : Prepared.owner[p] = d}
               ELSE Prepared.given[d]

\* A configuration as managed_configurations reports it: the version of the
\* whole configuration it comes from (push_flavor) and the parts.
Conf(v, ps) == [ver |-> v, parts |-> ps]
Unasked == Conf(-1, {})   \* cfg_managed = None
NoConf  == Conf(0, {})    \* {}: nothing managed

ASSUME DispatcherConstants ==
  /\ Schedulers \in Seq(ToSet(Schedulers)) /\ Satellites \in Seq(ToSet(Satellites))
  /\ LaunchList \in Seq(Daemons)
  /\ ToSet(Schedulers) \cap ToSet(Satellites) = {}
  /\ MaxAttempts \in Nat \ {0} /\ Tries \in Nat \ {0}
  /\ MaxRestarts \in Nat /\ MaxTimeouts \in Nat /\ MaxReloads \in Nat

\* fill_default_satellites makes a scheduler when none is defined.
ASSUME SomeScheduler == Schedulers # <<>>

\* What prepare_dispatch fills in: a part is given to a scheduler link or to
\* none, and to satellites, and a satellite is given parts.
ASSUME PreparedTypes ==
  /\ Prepared.owner \in [Parts -> ToSet(Schedulers) \cup {NoLink}]
  /\ Prepared.managedBy \in [Parts -> [ToSet(Types) -> SUBSET Daemons]]
  /\ Prepared.given \in [ToSet(Satellites) -> SUBSET Parts]

VARIABLES
  daemon,    \* daemon -> "up", "waiting" (death-wait mode) or "down" (external)
  pushed,    \* daemon -> new_conf, NoConf when it is {}
  current,   \* daemon -> what managed_configurations answers
  link,      \* daemon -> the arbiter's link: "alive", "unreachable" or "dead"
  attempt,   \* daemon -> failed attempts of the link
  managed,   \* daemon -> cfg_managed, the last answer the arbiter got
  sent,      \* daemon -> configuration_sent
  satsOf,    \* part -> type -> to_satellites_managed_by
  recent,    \* daemons asked so recently that the next ping may be too early
  ver,       \* the version of the configuration the arbiter dispatches
  toDispatch,\* new_to_dispatch
  firstDone, \* first_dispatch_done
  ok,        \* dispatch_ok
  pc,        \* stage of the arbiter
  back,      \* for whom check_reachable runs
  todo,      \* links left in the loop of the stage
  unconf,    \* not_configured
  connected, \* all_connected
  tries,     \* connection or dispatching tries
  restarts, timeouts, reloads

daemonVars == <<daemon, pushed, current>>
linkVars   == <<link, attempt, managed, sent, recent>>
flagVars   == <<toDispatch, firstDone, ok>>
scanVars   == <<back, unconf>>
countVars  == <<restarts, timeouts, reloads>>
vars == <<daemonVars, linkVars, flagVars, scanVars, countVars, satsOf, ver, pc,
          todo, connected, tries>>

Init ==
  /\ daemon = [d \in Daemons |-> IF d \in Launched THEN "down" ELSE "up"]
  /\ pushed = [d \in Daemons |-> NoConf]
  /\ current = [d \in Daemons |-> NoConf]
  /\ link = [d \in Daemons |-> "dead"]
  /\ attempt = [d \in Daemons |-> 0]
  /\ managed = [d \in Daemons |-> Unasked]
  /\ sent = [d \in Daemons |-> FALSE]
  /\ satsOf = [p \in Parts |-> [t \in ToSet(Types) |-> {}]]
  /\ recent = {}
  /\ ver = 1
  /\ toDispatch = FALSE /\ firstDone = FALSE /\ ok = FALSE
  /\ pc = "start" /\ todo = LaunchList /\ connected = TRUE /\ tries = 1
  /\ back = "first" /\ unconf = {}
  /\ restarts = 0 /\ timeouts = 0 /\ reloads = 0

-----------------------------------------------------------------------------
(* Requests: SatelliteLink.communicate.                                    *)

\* What can become of a request to daemon d: answered, refused because
\* nothing listens, or timed out before or after the daemon has served it.
Outcome(d) ==
  IF daemon[d] = "down" THEN {"refused"}
  ELSE {"ok"} \cup IF timeouts < MaxTimeouts THEN {"lost", "late"} ELSE {}

Served(out) == out \in {"ok", "late"}
TimedOut(out) == out \in {"lost", "late"}
CountTimeout(out) == timeouts' = IF TimedOut(out) THEN timeouts + 1 ELSE timeouts

\* add_failed_check_attempt: <<link, attempt>> after one more failure.
Failed(a) == IF a + 1 >= MaxAttempts THEN <<"dead", 0>> ELSE <<"unreachable", a + 1>>

\* The link after a request: no request is made on a dead or an unreachable
\* link, but the latter counts as a failed attempt.
After(l, out) ==
  CASE l[1] = "dead"        -> l
    [] l[1] = "unreachable" -> Failed(l[2])
    [] out = "ok"           -> l
    [] out = "refused"      -> <<"dead", 0>>
    [] OTHER                -> Failed(l[2])

Link(d) == <<link[d], attempt[d]>>
SetLink(d, l) == link' = [link EXCEPT ![d] = l[1]] /\ attempt' = [attempt EXCEPT ![d] = l[2]]

\* Daemon.daemon_connection_init: assume the link alive and ask the running
\* id. A first request that fails takes all the others with it: the link is
\* then unreachable, so each further try is one more failed attempt, and dead
\* at the last one.
ConnectionInit(out) == IF out = "ok" THEN <<"alive", 0>> ELSE <<"dead", 0>>

\* The daemons' side: _wait_new_conf, _push_configuration (new_conf replaces
\* one that was not set up yet) and the answer to managed_configurations.
WaitNewConf(d) == [current EXCEPT ![d] = NoConf]
PushConfiguration(d, conf) == [pushed EXCEPT ![d] = conf]
ManagedConfigurations(d) == current[d]

\* Processes that end forget everything.
Gone(ds) ==
  /\ daemon' = [d \in Daemons |-> IF d \in ds THEN "down" ELSE daemon[d]]
  /\ pushed' = [d \in Daemons |-> IF d \in ds THEN NoConf ELSE pushed[d]]
  /\ current' = [d \in Daemons |-> IF d \in ds THEN NoConf ELSE current[d]]

\* request_stop of the master: daemons_stop terminates what it launched.
Exit == pc' = "stopped" /\ Gone(Launched)

-----------------------------------------------------------------------------
(* do_before_loop: the daemons are started.                                *)

\* start_daemon, one daemon: it runs, or could not be launched.
StartDaemon ==
  /\ pc = "start" /\ todo # <<>>
  /\ \/ /\ daemon' = [daemon EXCEPT ![Head(todo)] = "up"]
        /\ UNCHANGED <<connected, restarts>>
     \/ /\ restarts < MaxRestarts
        /\ restarts' = restarts + 1 /\ connected' = FALSE
        /\ UNCHANGED daemon
  /\ todo' = Tail(todo)
  /\ UNCHANGED <<pushed, current, linkVars, flagVars, scanVars, timeouts, reloads, satsOf,
                 ver, pc, tries>>

\* All were launched: go and connect to them. Else bail out.
Started ==
  /\ pc = "start" /\ todo = <<>>
  /\ \/ connected /\ pc' = "connect" /\ UNCHANGED daemonVars
     \/ ~connected /\ Exit
  /\ todo' = Links
  /\ UNCHANGED <<linkVars, flagVars, scanVars, countVars, satsOf, ver, connected, tries>>

-----------------------------------------------------------------------------
(* configuration_dispatch: connection, preparation, dispatching, check.    *)

\* One daemon: connection init, then wait_new_conf when it is connected, as a
\* second request with its own outcome. The daemon drops what it manages.
Connect ==
  /\ pc = "connect" /\ todo # <<>>
  /\ LET d == Head(todo)
     IN  \E out \in Outcome(d) :
           \/ /\ out # "ok"
              /\ SetLink(d, ConnectionInit(out))
              /\ CountTimeout(out)
              /\ connected' = FALSE
              /\ UNCHANGED current
           \/ /\ out = "ok"
              /\ \E wait \in Outcome(d) :
                   /\ SetLink(d, After(ConnectionInit(out), wait))
                   /\ current' = IF Served(wait) THEN WaitNewConf(d) ELSE current
                   /\ CountTimeout(wait)
              /\ UNCHANGED connected
  /\ todo' = Tail(todo)
  /\ UNCHANGED <<daemon, pushed, managed, sent, recent, flagVars, scanVars, restarts,
                 reloads, satsOf, ver, pc, tries>>

\* All connected: check_reachable is called; else one more round, or stop.
Connected ==
  /\ pc = "connect" /\ todo = <<>>
  /\ \/ /\ connected
        /\ pc' = "scan" /\ back' = "first" /\ todo' = Links
        /\ tries' = 1 /\ unconf' = {}
        /\ UNCHANGED <<connected, daemonVars>>
     \/ /\ ~connected /\ tries < Tries
        /\ tries' = tries + 1 /\ connected' = TRUE /\ todo' = Links
        /\ UNCHANGED <<pc, scanVars, daemonVars>>
     \/ /\ ~connected /\ tries = Tries
        /\ Exit
        /\ UNCHANGED <<tries, connected, todo, scanVars>>
  /\ UNCHANGED <<linkVars, flagVars, countVars, satsOf, ver>>

\* Mutant: the daemon without configuration stays marked as configured.
Unsent_Kept(d) == sent

\* A daemon without configuration must be sent its own again.
Unsent(d) == [sent EXCEPT ![d] = FALSE]

\* check_reachable, one daemon: update_infos. The result of the request inside
\* it (get_conf) is ignored: after a failure cfg_managed is the former answer.
\* The result is None when the last ping is too recent or cfg_managed is still
\* None, False on a link that was not usable.
Scan ==
  /\ pc = "scan" /\ todo # <<>>
  /\ LET d == Head(todo)
     IN  \/ /\ d \in recent /\ link[d] = "alive"
            /\ back = "loop" /\ ~toDispatch
            /\ recent' = recent \ {d}
            /\ UNCHANGED <<link, attempt, managed, sent, unconf, timeouts>>
         \/ /\ link[d] # "alive"
            /\ SetLink(d, After(Link(d), "none"))
            /\ unconf' = unconf \cup {d}
            /\ UNCHANGED <<managed, sent, recent, timeouts>>
         \/ /\ link[d] = "alive"
            /\ \E out \in Outcome(d) :
                 /\ SetLink(d, After(Link(d), out))
                 /\ CountTimeout(out)
                 /\ managed' = IF out = "ok" THEN [managed EXCEPT ![d] = ManagedConfigurations(d)]
                               ELSE managed
                 /\ recent' = recent \cup {d}
                 /\ LET result == managed'[d]
                    IN  \/ /\ result = Unasked
                           /\ UNCHANGED <<unconf, sent>>
                        \/ /\ result.parts # {}
                           /\ unconf' = IF firstDone THEN unconf ELSE unconf \cup {d}
                           /\ UNCHANGED sent
                        \/ /\ result # Unasked /\ result.parts = {}
                           /\ unconf' = unconf \cup {d}
                           /\ sent' = Unsent(d)
  /\ todo' = Tail(todo)
  /\ UNCHANGED <<daemonVars, flagVars, back, restarts, reloads, satsOf, ver, pc,
                 connected, tries>>

\* Where check_reachable returns to.
Return(flags) ==
  CASE back = "first"    -> "prepare"
    [] back = "dispatch" -> IF flags.firstDone THEN "check" ELSE "error"
    [] back = "check"    -> "verify"
    [] OTHER             -> "status"

\* Mutant: only a configuration dispatched before is dispatched again.
NeedsDispatch_Again == unconf # {} /\ firstDone

\* Some daemon is not configured and a configuration is ready, or was
\* dispatched before.
NeedsDispatch == unconf # {} /\ (toDispatch \/ firstDone)

\* The end of check_reachable, which calls dispatch() itself.
Scanned ==
  /\ pc = "scan" /\ todo = <<>>
  /\ IF NeedsDispatch
     THEN /\ pc' = "push" /\ todo' = PushOrder
          /\ toDispatch' = TRUE /\ firstDone' = FALSE /\ ok' = TRUE
     ELSE /\ pc' = Return([firstDone |-> firstDone])
          /\ todo' = IF pc' = "status" THEN Links ELSE <<>>
          /\ UNCHANGED flagVars
  /\ UNCHANGED <<daemonVars, linkVars, scanVars, countVars, satsOf, ver, connected, tries>>

\* Mutant: the configuration prepared first is sent after a reload as well.
Cfg_First(d) == Conf(1, Assigned(d))

\* link.cfg as prepare_dispatch filled it.
Cfg(d) == Conf(ver, Assigned(d))

\* dispatch(), one link: skipped when sent already or not reachable. The
\* request may fail; configuration_sent is set whatever becomes of it.
Push ==
  /\ pc = "push" /\ todo # <<>>
  /\ LET d == Head(todo)
     IN  \/ /\ sent[d] \/ link[d] # "alive"
            /\ UNCHANGED <<link, attempt, sent, pushed, timeouts>>
         \/ /\ ~sent[d] /\ link[d] = "alive"
            /\ \E out \in Outcome(d) :
                 /\ SetLink(d, After(Link(d), out))
                 /\ CountTimeout(out)
                 /\ pushed' = IF Served(out)
                              THEN PushConfiguration(d, Cfg(d))
                              ELSE pushed
            /\ sent' = [sent EXCEPT ![d] = TRUE]
  /\ todo' = Tail(todo)
  /\ UNCHANGED <<daemon, current, managed, recent, flagVars, scanVars, restarts, reloads,
                 satsOf, ver, pc, connected, tries>>

PushEnd ==
  /\ pc = "push" /\ todo = <<>>
  /\ toDispatch' = FALSE /\ firstDone' = TRUE /\ UNCHANGED ok
  /\ pc' = Return([firstDone |-> TRUE])
  /\ todo' = IF pc' = "status" THEN Links ELSE <<>>
  /\ UNCHANGED <<daemonVars, linkVars, scanVars, countVars, satsOf, ver, connected, tries>>

\* prepare_dispatch: raises when a configuration is prepared already. The
\* satellites and the schedulers that were given parts must be sent them.
Prepare ==
  /\ pc = "prepare"
  /\ IF toDispatch
     THEN pc' = "error" /\ UNCHANGED <<toDispatch, firstDone, sent, satsOf, todo, scanVars>>
     ELSE /\ toDispatch' = TRUE /\ firstDone' = FALSE
          /\ sent' = [d \in Daemons |-> IF Assigned(d) # {} THEN FALSE ELSE sent[d]]
          /\ satsOf' = Prepared.managedBy
          /\ pc' = "scan" /\ back' = "dispatch" /\ todo' = Links /\ unconf' = {}
  /\ UNCHANGED <<daemonVars, link, attempt, managed, recent, ok, countVars, ver, connected,
                 tries>>

\* check_dispatch begins with its own check_reachable.
Check ==
  /\ pc = "check"
  /\ ok' = TRUE
  /\ pc' = "scan" /\ back' = "check" /\ todo' = Links /\ unconf' = {}
  /\ UNCHANGED <<daemonVars, linkVars, toDispatch, firstDone, countVars, satsOf, ver,
                 connected, tries>>

\* SatelliteLink.manages, from the last answer.
Manages(d, p) == managed[d].ver = ver /\ p \in managed[d].parts

\* The rest of check_dispatch for the satellites of one type and one part:
\* there must be enough of them, and those that are reachable must manage it.
RealmOf(p) == CHOOSE i \in 1..Len(Realms) : p \in ToSet(Realms[i].parts)
SatsMissing(p, t) == Cardinality(satsOf[p][t]) < Must[RealmOf(p)][t]
SatsWrong(p, t) == \E d \in satsOf[p][t] : link[d] = "alive" /\ ~Manages(d, p)

\* Mutant: a scheduler that is not reachable is assumed to manage its part.
SchedulerWrong_Assumed(p) ==
  Prepared.owner[p] = NoLink
  \/ (link[Prepared.owner[p]] = "alive" /\ ~Manages(Prepared.owner[p], p))

SchedulerWrong(p) == Prepared.owner[p] = NoLink \/ ~Manages(Prepared.owner[p], p)

\* A part without a scheduler link is reported and its satellites are not
\* looked at. A wrong satellite or scheduler makes a new try, up to Tries.
Verify ==
  /\ pc = "verify"
  /\ LET bad(p, t) == Prepared.owner[p] # NoLink /\ (SatsMissing(p, t) \/ SatsWrong(p, t))
         fine == \A p \in Parts : /\ ~SchedulerWrong(p)
                                  /\ \A t \in ToSet(Types) : ~bad(p, t)
     IN  /\ satsOf' = [p \in Parts |-> [t \in ToSet(Types) |->
                         IF bad(p, t) THEN {} ELSE satsOf[p][t]]]
         /\ ok' = (ok /\ fine)
  /\ \/ /\ ok'
        /\ pc' = "loop" /\ UNCHANGED <<tries, scanVars, todo, daemonVars>>
     \/ /\ ~ok' /\ tries < Tries
        /\ tries' = tries + 1
        /\ pc' = "scan" /\ back' = "dispatch" /\ todo' = Links /\ unconf' = {}
        /\ UNCHANGED daemonVars
     \/ /\ ~ok' /\ tries = Tries
        /\ Exit /\ UNCHANGED <<tries, scanVars, todo>>
  /\ UNCHANGED <<linkVars, toDispatch, firstDone, countVars, ver, connected>>

-----------------------------------------------------------------------------
(* The main loop of the arbiter.                                           *)

\* A turn begins with daemons_check over the launched daemons.
Turn ==
  /\ pc = "loop"
  /\ pc' = "revive" /\ todo' = LaunchList
  /\ UNCHANGED <<daemonVars, linkVars, flagVars, scanVars, countVars, satsOf, ver,
                 connected, tries>>

\* daemons_check, one launched daemon: a lost connection is initialized again.
\* my_daemons keeps the link objects of the first configuration: after a
\* reload the links the dispatcher uses are not those.
Revive ==
  /\ pc = "revive" /\ todo # <<>>
  /\ LET d == Head(todo)
     IN  IF link[d] = "dead" /\ ver = 1
         THEN \E out \in Outcome(d) : SetLink(d, ConnectionInit(out)) /\ CountTimeout(out)
         ELSE UNCHANGED <<link, attempt, timeouts>>
  /\ todo' = Tail(todo)
  /\ UNCHANGED <<daemonVars, managed, sent, recent, flagVars, scanVars, restarts, reloads,
                 satsOf, ver, pc, connected, tries>>

\* daemons_reachability_check: check_reachable, not forced.
Revived ==
  /\ pc = "revive" /\ todo = <<>>
  /\ pc' = "scan" /\ back' = "loop" /\ todo' = Links /\ unconf' = {}
  /\ UNCHANGED <<daemonVars, linkVars, flagVars, countVars, satsOf, ver, connected, tries>>

\* check_status_and_get_events, one daemon: two requests, whose answers go to
\* the logs. On an unreachable link each is a failed attempt.
Status ==
  /\ pc = "status" /\ todo # <<>>
  /\ LET d == Head(todo)
     IN  \E out \in Outcome(d) :
           /\ \/ SetLink(d, After(After(Link(d), out), "ok"))
              \/ SetLink(d, After(After(Link(d), "ok"), out))
           /\ CountTimeout(IF link[d] = "alive" THEN out ELSE "none")
  /\ todo' = Tail(todo)
  /\ UNCHANGED <<daemonVars, managed, sent, recent, flagVars, scanVars, restarts, reloads,
                 satsOf, ver, pc, connected, tries>>

TurnEnd ==
  /\ pc = "status" /\ todo = <<>>
  /\ pc' = "loop"
  /\ UNCHANGED <<daemonVars, linkVars, flagVars, scanVars, countVars, satsOf, ver, todo,
                 connected, tries>>

\* reload_configuration: out of the main loop, a new configuration with new
\* link objects and a new Dispatcher.
Reload ==
  /\ pc = "loop" /\ reloads < MaxReloads
  /\ reloads' = reloads + 1 /\ ver' = ver + 1
  /\ link' = [d \in Daemons |-> "dead"] /\ attempt' = [d \in Daemons |-> 0]
  /\ managed' = [d \in Daemons |-> Unasked] /\ sent' = [d \in Daemons |-> FALSE]
  /\ recent' = {}
  /\ satsOf' = [p \in Parts |-> [t \in ToSet(Types) |-> {}]]
  /\ toDispatch' = FALSE /\ firstDone' = FALSE /\ ok' = FALSE
  /\ pc' = "connect" /\ todo' = Links /\ connected' = TRUE /\ tries' = 1
  /\ UNCHANGED <<daemonVars, scanVars, restarts, timeouts>>

\* SIGTERM: kill_request is looked at in the loop turn.
Kill ==
  /\ pc = "loop"
  /\ pc' = "stop" /\ todo' = Links /\ connected' = TRUE
  /\ UNCHANGED <<daemonVars, linkVars, flagVars, scanVars, countVars, satsOf, ver, tries>>

\* The daemon's stop_request: the death-wait mode, or the end of its loop.
Told(d) == \/ pc = "stop" /\ daemon' = [daemon EXCEPT ![d] = "waiting"]
                         /\ UNCHANGED <<pushed, current>>
           \/ pc = "stopNow" /\ Gone({d})

\* Dispatcher.stop_request, one daemon: told to go to the death-wait mode, or
\* to stop at once when the stop delay is over. A link without connection
\* counts as told; an unreachable one does not.
StopRequest ==
  /\ pc \in {"stop", "stopNow"} /\ todo # <<>>
  /\ LET d == Head(todo)
     IN  \E out \in Outcome(d) :
           /\ SetLink(d, After(Link(d), out))
           /\ CountTimeout(IF link[d] = "alive" THEN out ELSE "none")
           /\ IF link[d] = "alive" /\ Served(out) THEN Told(d) ELSE UNCHANGED daemonVars
           /\ connected' = (connected /\ (link[d] = "dead" \/ (link[d] = "alive" /\ out = "ok")))
  /\ todo' = Tail(todo)
  /\ UNCHANGED <<managed, sent, recent, flagVars, scanVars, restarts, reloads, satsOf, ver,
                 pc, tries>>

\* daemons_stop_timeout has passed since the kill: stop now.
DelayOver == pc = "stop" /\ pc' = "stopNow" /\ todo' = Links

\* connected is stop_request_sent here: the daemons are told again in each
\* turn until all are, and in any case the delay ends.
StopRound ==
  /\ todo = <<>>
  /\ \/ /\ pc = "stop" /\ ~connected /\ todo' = Links /\ connected' = TRUE
        /\ UNCHANGED <<pc, daemonVars>>
     \/ DelayOver /\ UNCHANGED <<connected, daemonVars>>
     \/ /\ pc = "stopNow" /\ Exit
        /\ UNCHANGED <<connected, todo>>
  /\ UNCHANGED <<linkVars, flagVars, scanVars, countVars, satsOf, ver, tries>>

-----------------------------------------------------------------------------
(* The daemons.                                                            *)

\* The main loop sees new_conf and sets the configuration up. A daemon that
\* was given no part reports {} as before.
SetupNewConf(d) ==
  /\ daemon[d] = "up" /\ pushed[d] # NoConf
  /\ current' = [current EXCEPT ![d] = pushed[d]]
  /\ pushed' = [pushed EXCEPT ![d] = NoConf]
  /\ UNCHANGED <<daemon, linkVars, flagVars, scanVars, countVars, satsOf, ver, pc, todo,
                 connected, tries>>

Crash(d) ==
  /\ daemon[d] # "down" /\ restarts < MaxRestarts
  /\ restarts' = restarts + 1
  /\ Gone({d})
  /\ UNCHANGED <<linkVars, flagVars, scanVars, timeouts, reloads, satsOf, ver, pc, todo,
                 connected, tries>>

\* Started again by the operating system, unless the whole is stopping.
Restart(d) ==
  /\ daemon[d] = "down" /\ pc \notin {"start", "stop", "stopNow", "stopped"}
  /\ daemon' = [daemon EXCEPT ![d] = "up"]
  /\ UNCHANGED <<pushed, current, linkVars, flagVars, scanVars, countVars, satsOf, ver, pc,
                 todo, connected, tries>>

Arbiter == \/ StartDaemon \/ Started \/ Connect \/ Connected \/ Scan \/ Scanned \/ Push \/ PushEnd \/ Prepare
           \/ Check \/ Verify \/ Turn \/ Revive \/ Revived \/ Status \/ TurnEnd
           \/ StopRequest \/ StopRound

Done == pc \in {"stopped", "error"} /\ UNCHANGED vars

Next == \/ Arbiter \/ Reload \/ Kill
        \/ \E d \in Daemons : SetupNewConf(d) \/ Crash(d) \/ Restart(d)
        \/ Done

Spec == Init /\ [][Next]_vars

\* The arbiter's own loop goes on, a daemon's main loop sees its new
\* configuration, and a daemon that crashed is started again.
FairSpec == /\ Spec /\ WF_vars(Arbiter)
            /\ \A d \in Daemons : WF_vars(SetupNewConf(d)) /\ WF_vars(Restart(d))

-----------------------------------------------------------------------------
(* Properties.                                                             *)

Confs == [ver : {-1, 0} \cup Versions, parts : SUBSET Parts]

\* Every variable has its type.
TypeOK ==
  /\ daemon \in [Daemons -> {"up", "waiting", "down"}]
  /\ pushed \in [Daemons -> Confs] /\ current \in [Daemons -> Confs]
  /\ link \in [Daemons -> {"alive", "unreachable", "dead"}]
  /\ attempt \in [Daemons -> 0..(MaxAttempts - 1)]
  /\ managed \in [Daemons -> Confs] /\ sent \in [Daemons -> BOOLEAN]
  /\ satsOf \in [Parts -> [ToSet(Types) -> SUBSET Daemons]]
  /\ recent \subseteq Daemons /\ unconf \subseteq Daemons
  /\ ver \in Versions
  /\ toDispatch \in BOOLEAN /\ firstDone \in BOOLEAN /\ ok \in BOOLEAN
  /\ pc \in {"start", "connect", "scan", "push", "prepare", "check", "verify", "loop", "revive",
             "status", "stop", "stopNow", "stopped", "error"}
  /\ back \in {"first", "dispatch", "check", "loop"}
  /\ connected \in BOOLEAN /\ tries \in 1..Tries
  /\ restarts \in 0..MaxRestarts /\ timeouts \in 0..MaxTimeouts
  /\ reloads \in 0..MaxReloads

\* The dispatcher is never asked for something out of order: no preparation
\* while one is waiting, no check before a dispatch (DispatcherError).
NeverRaises == pc # "error"

\* Once the arbiter is in its main loop, every part of the configuration is
\* really managed by the scheduler it was given to, whatever requests were
\* lost on the way, as long as no daemon crashed.
SchedulersReady ==
  pc \in {"loop", "revive", "status"} /\ restarts = 0 =>
    \A p \in Parts : LET s == Prepared.owner[p]
                     IN  s # NoLink /\ current[s] = Conf(ver, Assigned(s))

\* What the daemons get is the delivery ConfDelivery promises: a daemon holds
\* its own share of one configuration, and never goes back to an older one.
Delivery == INSTANCE ConfDelivery WITH
              mail <- pushed, held <- current, Share <- [d \in Daemons |-> Assigned(d)]
Delivered == Delivery!Spec

Stopping == pc \in {"stop", "stopNow", "stopped"}

\* Under the first configuration, a launched daemon that crashed, or whose
\* requests were lost, has its configuration again in the end.
Reconfigured ==
  \A d \in Launched : Assigned(d) # {} =>
    []<>(current[d] = Conf(ver, Assigned(d)) \/ ver > 1 \/ Stopping)
=============================================================================
