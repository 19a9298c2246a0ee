------------------------- MODULE Dispatcher_proofs -------------------------
(***************************************************************************)
(* Proofs about Dispatcher, for every set of daemons, every configuration  *)
(* that PreparedTypes admits, and any number of crashes, lost requests and *)
(* reloads.                                                                *)
(***************************************************************************)
EXTENDS Dispatcher, SequenceTheorems, TLAPS

\* A configuration that was sent to daemon d, or none.
Genuine(d, conf) == conf = NoConf \/ \E v \in 1..ver : conf = Conf(v, Assigned(d))

\* A daemon has its own share of the configurations published so far, and
\* what waits to be installed is not older than what is installed.
OwnShare ==
  \A d \in Daemons : /\ Genuine(d, pushed[d]) /\ Genuine(d, current[d])
                     /\ pushed[d] # NoConf => pushed[d].ver >= current[d].ver

\* The types, with what the stages of the arbiter go through.
TypeInv == TypeOK /\ todo \in Seq(Daemons) /\ ver = 1 + reloads

-----------------------------------------------------------------------------
(* The use of the dispatcher *)

\* The daemons, but those of s, answered once or are out of reach.
Asked(s) == \A d \in Daemons : d \in ToSet(s) \/ managed[d] # Unasked \/ link[d] # "alive"

\* The flags at each stage. In the check_reachable that follows the first
\* preparation, every daemon counts as not configured.
Stages ==
  /\ pc \in {"start", "connect"} => ~toDispatch /\ ~firstDone
  /\ pc = "scan" /\ back = "first" => ~toDispatch /\ ~firstDone /\ Asked(todo)
  /\ pc = "prepare" => ~toDispatch /\ ~firstDone /\ Asked(<<>>)
  /\ pc = "scan" /\ back = "dispatch" =>
       firstDone \/ (toDispatch /\ Asked(<<>>) /\ (todo # <<>> \/ unconf # {}))
  /\ pc = "push" => back # "first"
  /\ pc = "scan" /\ back \in {"check", "loop"} => firstDone
  /\ pc \in {"check", "verify", "loop", "revive", "status"} => firstDone

-----------------------------------------------------------------------------
(* What the arbiter knows of the daemons *)

\* While nothing crashed, what a daemon answered is still true of it.
Known ==
  restarts = 0 /\ pc \notin {"stopNow", "stopped"} =>
    \A d \in Daemons : managed[d].ver = ver => current[d] = Conf(ver, Assigned(d))

\* Nobody is asked before the connections are made.
NotAsked == pc \in {"start", "connect"} => \A d \in Daemons : managed[d] = Unasked

\* The arbiter is in its main loop.
InLoop == pc \in {"loop", "revive", "status"} \/ (pc \in {"scan", "push"} /\ back = "loop")

\* Every part has a scheduler that answered that it has this configuration.
Confirmed ==
  restarts = 0 /\ InLoop =>
    \A p \in Parts : /\ Prepared.owner[p] # NoLink
                     /\ managed[Prepared.owner[p]].ver = ver

ReadyInv == Known /\ NotAsked /\ Confirmed

-----------------------------------------------------------------------------
(* Lists of daemons *)

\* The two orders of the daemons are lists of daemons, and not empty.
LEMMA Orders ==
  /\ Links \in Seq(Daemons) /\ PushOrder \in Seq(Daemons) /\ LaunchList \in Seq(Daemons)
  /\ Links # <<>> /\ Launched \subseteq Daemons
<1>1. /\ Schedulers \in Seq(ToSet(Schedulers)) /\ Satellites \in Seq(ToSet(Satellites))
      /\ LaunchList \in Seq(Daemons) /\ Schedulers # <<>>
  BY DispatcherConstants, SomeScheduler
<1>2. /\ Len(Links) = Len(Satellites) + Len(Schedulers) /\ DOMAIN Links = 1..Len(Links)
      /\ \A i \in 1..Len(Satellites) : Links[i] = Satellites[i]
      /\ \A i \in 1..Len(Schedulers) : Links[Len(Satellites) + i] = Schedulers[i]
  BY <1>1 DEF Links
<1>3. ToSet(Schedulers) \subseteq Daemons /\ ToSet(Satellites) \subseteq Daemons
  <2>1. \A i \in 1..Len(Satellites) : i \in DOMAIN Links
    BY <1>1, <1>2
  <2>2. \A i \in 1..Len(Schedulers) : Len(Satellites) + i \in DOMAIN Links
    BY <1>1, <1>2
  <2>3. DOMAIN Satellites = 1..Len(Satellites) /\ DOMAIN Schedulers = 1..Len(Schedulers)
    BY <1>1
  <2> QED BY <1>2, <2>1, <2>2, <2>3 DEF Daemons, ToSet
<1>4. Schedulers \in Seq(Daemons) /\ Satellites \in Seq(Daemons)
  BY <1>1, <1>3
<1>5. Links \in Seq(Daemons) /\ PushOrder \in Seq(Daemons)
  BY <1>4 DEF Links, PushOrder
<1>6. Links # <<>>
  BY <1>1, <1>2
<1>7. Launched \subseteq Daemons
  <2>1. \A i \in DOMAIN LaunchList : LaunchList[i] \in Daemons
    BY <1>1
  <2> QED BY <2>1 DEF Launched, ToSet
<1> QED BY <1>1, <1>5, <1>6, <1>7

\* A scheduler is one of the daemons.
LEMMA SchedulerDaemons == ToSet(Schedulers) \subseteq Daemons
<1>1. Schedulers \in Seq(ToSet(Schedulers)) /\ Satellites \in Seq(ToSet(Satellites))
  BY DispatcherConstants
<1>2. \A i \in 1..Len(Schedulers) : /\ Len(Satellites) + i \in DOMAIN Links
                                    /\ Links[Len(Satellites) + i] = Schedulers[i]
  BY <1>1 DEF Links
<1>3. DOMAIN Schedulers = 1..Len(Schedulers)
  BY <1>1
<1> QED BY <1>2, <1>3 DEF Daemons, ToSet

\* Taking the first daemon off a list leaves the others.
LEMMA Rest ==
  ASSUME NEW s \in Seq(Daemons), s # <<>>
  PROVE  /\ Head(s) \in Daemons /\ Tail(s) \in Seq(Daemons)
         /\ \A d \in ToSet(s) : d = Head(s) \/ d \in ToSet(Tail(s))
<1>1. Head(s) \in Daemons /\ Tail(s) \in Seq(Daemons)
  OBVIOUS
<1>2. ASSUME NEW i \in DOMAIN s
      PROVE  s[i] = Head(s) \/ s[i] \in ToSet(Tail(s))
  <2>1. CASE i = 1
    BY <2>1
  <2>2. CASE i # 1
    <3>1. i - 1 \in DOMAIN Tail(s) /\ Tail(s)[i - 1] = s[i]
      BY <1>2, <2>2
    <3> QED BY <3>1 DEF ToSet
  <2> QED BY <2>1, <2>2
<1> QED BY <1>1, <1>2 DEF ToSet

\* Every share is made of parts.
LEMMA AssignedType == \A d \in Daemons : Assigned(d) \in SUBSET Parts
<1> SUFFICES ASSUME NEW d \in Daemons PROVE Assigned(d) \in SUBSET Parts
  OBVIOUS
<1>1. CASE d \in ToSet(Schedulers)
  BY <1>1 DEF Assigned
<1>2. CASE d \notin ToSet(Schedulers)
  <2>1. d \in ToSet(Satellites)
    BY <1>2, DispatcherConstants DEF Daemons, Links, ToSet
  <2> QED BY <1>2, <2>1, PreparedTypes DEF Assigned
<1> QED BY <1>1, <1>2

-----------------------------------------------------------------------------
(* Type correctness *)

LinkStates == {"alive", "unreachable", "dead"} \X (0..(MaxAttempts - 1))

\* A request leaves the link in a state of a link.
LEMMA AfterType ==
  /\ \A l \in LinkStates : \A out : After(l, out) \in LinkStates
  /\ \A out : ConnectionInit(out) \in LinkStates
BY DispatcherConstants DEF After, Failed, ConnectionInit, LinkStates

LEMMA SetLinkType ==
  ASSUME TypeOK, NEW d \in Daemons, NEW l \in LinkStates, SetLink(d, l)
  PROVE  /\ link' \in [Daemons -> {"alive", "unreachable", "dead"}]
         /\ attempt' \in [Daemons -> 0..(MaxAttempts - 1)]
BY DEF TypeOK, SetLink, LinkStates

LEMMA LinkType ==
  ASSUME TypeOK, NEW d \in Daemons
  PROVE  Link(d) \in LinkStates
BY DEF TypeOK, Link, LinkStates

\* A request that times out is one more of at most MaxTimeouts.
LEMMA TimeoutType ==
  ASSUME TypeOK, NEW d \in Daemons, NEW out \in Outcome(d) \cup {"none"}, CountTimeout(out)
  PROVE  timeouts' \in 0..MaxTimeouts
BY DispatcherConstants DEF TypeOK, Outcome, CountTimeout, TimedOut

\* The processes that end leave the others as they are.
LEMMA GoneType ==
  ASSUME TypeOK, NEW ds, Gone(ds)
  PROVE  /\ daemon' \in [Daemons -> {"up", "waiting", "down"}]
         /\ pushed' \in [Daemons -> Confs] /\ current' \in [Daemons -> Confs]
<1>1. NoConf \in Confs
  BY DEF NoConf, Conf, Confs
<1> QED BY <1>1 DEF TypeOK, Gone

LEMMA InitType == Init => TypeInv
<1> SUFFICES ASSUME Init PROVE TypeInv
  OBVIOUS
<1>1. NoConf \in Confs /\ Unasked \in Confs
  BY DEF NoConf, Unasked, Conf, Confs
<1>2. /\ daemon \in [Daemons -> {"up", "waiting", "down"}]
      /\ pushed \in [Daemons -> Confs] /\ current \in [Daemons -> Confs]
      /\ link \in [Daemons -> {"alive", "unreachable", "dead"}]
      /\ attempt \in [Daemons -> 0..(MaxAttempts - 1)]
      /\ managed \in [Daemons -> Confs] 
  BY <1>1, DispatcherConstants DEF Init
<1>3. sent \in [Daemons -> BOOLEAN]
  BY Zenon DEF Init
<1>4. satsOf \in [Parts -> [ToSet(Types) -> SUBSET Daemons]]
  BY DEF Init
<1>5. /\ ver \in Versions /\ tries \in 1..Tries
      /\ restarts \in 0..MaxRestarts /\ timeouts \in 0..MaxTimeouts
      /\ reloads \in 0..MaxReloads /\ ver = 1 + reloads
  BY DispatcherConstants DEF Init, Versions
<1>6. /\ toDispatch \in BOOLEAN /\ firstDone \in BOOLEAN /\ ok \in BOOLEAN
      /\ connected \in BOOLEAN
  BY Zenon DEF Init
<1>7. todo \in Seq(Daemons)
  BY Orders DEF Init
<1> QED BY <1>2, <1>3, <1>4, <1>5, <1>6, <1>7 DEF Init, TypeInv, TypeOK

LEMMA StartDaemonType == TypeInv /\ StartDaemon => TypeInv'
<1> SUFFICES ASSUME TypeInv, StartDaemon PROVE TypeInv'
  OBVIOUS
<1>1. Head(todo) \in Daemons /\ todo' \in Seq(Daemons)
  BY Rest DEF TypeInv, StartDaemon
<1>2. connected' \in BOOLEAN
  BY Zenon DEF TypeInv, TypeOK, StartDaemon
<1>3. daemon' \in [Daemons -> {"up", "waiting", "down"}]
  BY <1>1 DEF TypeInv, TypeOK, StartDaemon
<1>4. restarts' \in 0..MaxRestarts
  BY DispatcherConstants DEF TypeInv, TypeOK, StartDaemon
<1> QED BY <1>1, <1>2, <1>3, <1>4
        DEF TypeInv, TypeOK, StartDaemon, linkVars, flagVars, scanVars, countVars

LEMMA StartedType == TypeInv /\ Started => TypeInv'
<1> SUFFICES ASSUME TypeInv, Started PROVE TypeInv'
  OBVIOUS
<1>1. todo' \in Seq(Daemons)
  BY Orders DEF Started
<1>2. /\ daemon' \in [Daemons -> {"up", "waiting", "down"}]
      /\ pushed' \in [Daemons -> Confs] /\ current' \in [Daemons -> Confs]
  BY GoneType DEF TypeInv, TypeOK, Started, Exit, daemonVars
<1> QED BY <1>1, <1>2
        DEF TypeInv, TypeOK, Started, Exit, linkVars, flagVars, scanVars, countVars

LEMMA ConnectType == TypeInv /\ Connect => TypeInv'
<1> SUFFICES ASSUME TypeInv, Connect PROVE TypeInv'
  OBVIOUS
<1> DEFINE d == Head(todo)
<1>1. d \in Daemons /\ todo' \in Seq(Daemons)
  BY Rest DEF TypeInv, Connect
<1> HIDE DEF d
<1>2. /\ link' \in [Daemons -> {"alive", "unreachable", "dead"}]
      /\ attempt' \in [Daemons -> 0..(MaxAttempts - 1)]
  BY <1>1, SetLinkType, AfterType DEF TypeInv, Connect, d
<1>3. timeouts' \in 0..MaxTimeouts
  BY <1>1, TimeoutType DEF TypeInv, Connect, d
<1>4. current' \in [Daemons -> Confs]
  <2>1. NoConf \in Confs
    BY DEF NoConf, Conf, Confs
  <2> QED BY <1>1, <2>1 DEF TypeInv, TypeOK, Connect, WaitNewConf, d
<1>5. connected' \in BOOLEAN
  BY Zenon DEF TypeInv, TypeOK, Connect
<1> QED BY <1>1, <1>2, <1>3, <1>4, <1>5
        DEF TypeInv, TypeOK, Connect, flagVars, scanVars, countVars, linkVars

LEMMA ConnectedType == TypeInv /\ Connected => TypeInv'
<1> SUFFICES ASSUME TypeInv, Connected PROVE TypeInv'
  OBVIOUS
<1>1. todo' \in Seq(Daemons)
  BY Orders DEF TypeInv, Connected
<1>2. /\ daemon' \in [Daemons -> {"up", "waiting", "down"}]
      /\ pushed' \in [Daemons -> Confs] /\ current' \in [Daemons -> Confs]
  BY GoneType DEF TypeInv, TypeOK, Connected, Exit, daemonVars
<1>3. connected' \in BOOLEAN
  BY Zenon DEF TypeInv, TypeOK, Connected
<1>4. tries' \in 1..Tries
  BY DispatcherConstants DEF TypeInv, TypeOK, Connected
<1>5. unconf' \subseteq Daemons /\ back' \in {"first", "dispatch", "check", "loop"}
  BY DEF TypeInv, TypeOK, Connected, scanVars
<1> QED BY <1>1, <1>2, <1>3, <1>4, <1>5
        DEF TypeInv, TypeOK, Connected, Exit, linkVars, flagVars, countVars

LEMMA ScanType == TypeInv /\ Scan => TypeInv'
<1> SUFFICES ASSUME TypeInv, Scan PROVE TypeInv'
  OBVIOUS
<1> DEFINE d == Head(todo)
<1>1. d \in Daemons /\ todo' \in Seq(Daemons)
  BY Rest DEF TypeInv, Scan
<1> HIDE DEF d
<1>2. /\ link' \in [Daemons -> {"alive", "unreachable", "dead"}]
      /\ attempt' \in [Daemons -> 0..(MaxAttempts - 1)]
  <2>1. CASE UNCHANGED <<link, attempt>>
    BY <2>1 DEF TypeInv, TypeOK
  <2>2. CASE \E out : SetLink(d, After(Link(d), out))
    BY <1>1, <2>2, SetLinkType, LinkType, AfterType DEF TypeInv
  <2> QED BY <2>1, <2>2 DEF Scan, d
<1>3. timeouts' \in 0..MaxTimeouts
  <2>1. CASE UNCHANGED timeouts
    BY <2>1 DEF TypeInv, TypeOK
  <2>2. CASE \E out \in Outcome(d) : CountTimeout(out)
    BY <1>1, <2>2, TimeoutType DEF TypeInv
  <2> QED BY <2>1, <2>2 DEF Scan, d
<1>4. managed' \in [Daemons -> Confs]
  BY <1>1 DEF TypeInv, TypeOK, Scan, ManagedConfigurations, d
<1>5. sent' \in [Daemons -> BOOLEAN]
  <2>1. sent' = sent \/ sent' = [sent EXCEPT ![d] = FALSE]
    BY DEF Scan, Unsent, d
  <2> QED BY <2>1, Zenon DEF TypeInv, TypeOK
<1>6. recent' \subseteq Daemons /\ unconf' \subseteq Daemons
  BY <1>1 DEF TypeInv, TypeOK, Scan, d
<1> QED BY <1>1, <1>2, <1>3, <1>4, <1>5, <1>6
        DEF TypeInv, TypeOK, Scan, daemonVars, flagVars

LEMMA ScannedType == TypeInv /\ Scanned => TypeInv'
<1> SUFFICES ASSUME TypeInv, Scanned PROVE TypeInv'
  OBVIOUS
<1>1. todo' \in Seq(Daemons)
  <2>1. todo' = PushOrder \/ todo' = Links \/ todo' = <<>>
    BY Zenon DEF Scanned
  <2>2. <<>> \in Seq(Daemons)
    OBVIOUS
  <2> QED BY <2>1, <2>2, Orders, Zenon
<1>2. toDispatch' \in BOOLEAN /\ firstDone' \in BOOLEAN /\ ok' \in BOOLEAN
  BY Zenon DEF TypeInv, TypeOK, Scanned, flagVars
<1>3. pc' \in {"push", "prepare", "check", "error", "verify", "status"}
  BY DEF Scanned, Return
<1> QED BY <1>1, <1>2, <1>3
        DEF TypeInv, TypeOK, Scanned, daemonVars, linkVars, scanVars, countVars

LEMMA PushType == TypeInv /\ Push => TypeInv'
<1> SUFFICES ASSUME TypeInv, Push PROVE TypeInv'
  OBVIOUS
<1> DEFINE d == Head(todo)
<1>1. d \in Daemons /\ todo' \in Seq(Daemons)
  BY Rest DEF TypeInv, Push
<1> HIDE DEF d
<1>2. /\ link' \in [Daemons -> {"alive", "unreachable", "dead"}]
      /\ attempt' \in [Daemons -> 0..(MaxAttempts - 1)]
  <2>1. CASE UNCHANGED <<link, attempt>>
    BY <2>1 DEF TypeInv, TypeOK
  <2>2. CASE \E out : SetLink(d, After(Link(d), out))
    BY <1>1, <2>2, SetLinkType, LinkType, AfterType DEF TypeInv
  <2> QED BY <2>1, <2>2 DEF Push, d
<1>3. timeouts' \in 0..MaxTimeouts
  <2>1. CASE UNCHANGED timeouts
    BY <2>1 DEF TypeInv, TypeOK
  <2>2. CASE \E out \in Outcome(d) : CountTimeout(out)
    BY <1>1, <2>2, TimeoutType DEF TypeInv
  <2> QED BY <2>1, <2>2 DEF Push, d
<1>4. sent' \in [Daemons -> BOOLEAN]
  <2>1. sent' = sent \/ sent' = [sent EXCEPT ![d] = TRUE]
    BY DEF Push, d
  <2> QED BY <2>1, Zenon DEF TypeInv, TypeOK
<1>5. pushed' \in [Daemons -> Confs]
  <2>1. Cfg(d) \in Confs
    BY <1>1, AssignedType DEF TypeInv, TypeOK, Cfg, Conf, Confs
  <2> QED BY <2>1 DEF TypeInv, TypeOK, Push, PushConfiguration, d
<1> QED BY <1>1, <1>2, <1>3, <1>4, <1>5
        DEF TypeInv, TypeOK, Push, flagVars, scanVars

LEMMA PushEndType == TypeInv /\ PushEnd => TypeInv'
<1> SUFFICES ASSUME TypeInv, PushEnd PROVE TypeInv'
  OBVIOUS
<1>1. todo' \in Seq(Daemons)
  BY Orders DEF PushEnd
<1>2. toDispatch' \in BOOLEAN /\ firstDone' \in BOOLEAN /\ ok' \in BOOLEAN
  BY Zenon DEF TypeInv, TypeOK, PushEnd
<1>3. pc' \in {"prepare", "check", "error", "verify", "status"}
  BY DEF PushEnd, Return
<1> QED BY <1>1, <1>2, <1>3
        DEF TypeInv, TypeOK, PushEnd, daemonVars, linkVars, scanVars, countVars

LEMMA PrepareType == TypeInv /\ Prepare => TypeInv'
<1> SUFFICES ASSUME TypeInv, Prepare PROVE TypeInv'
  OBVIOUS
<1>1. todo' \in Seq(Daemons)
  BY Orders DEF TypeInv, Prepare
<1>2. toDispatch' \in BOOLEAN /\ firstDone' \in BOOLEAN
  BY Zenon DEF TypeInv, TypeOK, Prepare
<1>3. sent' \in [Daemons -> BOOLEAN]
  <2>1. CASE sent' = sent
    BY <2>1 DEF TypeInv, TypeOK
  <2>2. CASE sent' = [d \in Daemons |-> IF Assigned(d) # {} THEN FALSE ELSE sent[d]]
    BY <2>2, Zenon DEF TypeInv, TypeOK
  <2> QED BY <2>1, <2>2 DEF Prepare
<1>4. satsOf' \in [Parts -> [ToSet(Types) -> SUBSET Daemons]]
  BY PreparedTypes DEF TypeInv, TypeOK, Prepare
<1>5. /\ unconf' \subseteq Daemons /\ back' \in {"first", "dispatch", "check", "loop"}
      /\ pc' \in {"scan", "error"}
  BY DEF TypeInv, TypeOK, Prepare, scanVars
<1> QED BY <1>1, <1>2, <1>3, <1>4, <1>5
        DEF TypeInv, TypeOK, Prepare, daemonVars, countVars

LEMMA CheckType == TypeInv /\ Check => TypeInv'
<1> SUFFICES ASSUME TypeInv, Check PROVE TypeInv'
  OBVIOUS
<1>1. todo' \in Seq(Daemons)
  BY Orders DEF Check
<1>2. ok' \in BOOLEAN
  BY Zenon DEF Check
<1> QED BY <1>1, <1>2 DEF TypeInv, TypeOK, Check, daemonVars, linkVars, countVars

LEMMA VerifyType == TypeInv /\ Verify => TypeInv'
<1> SUFFICES ASSUME TypeInv, Verify PROVE TypeInv'
  OBVIOUS
<1>1. todo' \in Seq(Daemons)
  BY Orders DEF TypeInv, Verify
<1>2. /\ daemon' \in [Daemons -> {"up", "waiting", "down"}]
      /\ pushed' \in [Daemons -> Confs] /\ current' \in [Daemons -> Confs]
  BY GoneType DEF TypeInv, TypeOK, Verify, Exit, daemonVars
<1>3. satsOf' \in [Parts -> [ToSet(Types) -> SUBSET Daemons]]
  <2> DEFINE bad(p, t) == Prepared.owner[p] # NoLink /\ (SatsMissing(p, t) \/ SatsWrong(p, t))
  <2>1. satsOf' = [p \in Parts |-> [t \in ToSet(Types) |->
                         IF bad(p, t) THEN {} ELSE satsOf[p][t]]]
    BY DEF Verify
  <2> HIDE DEF bad
  <2> QED BY <2>1 DEF TypeInv, TypeOK
<1>4. ok' \in BOOLEAN
  BY Zenon DEF Verify
<1>5. tries' \in 1..Tries
  BY DispatcherConstants DEF TypeInv, TypeOK, Verify
<1>6. /\ unconf' \subseteq Daemons /\ back' \in {"first", "dispatch", "check", "loop"}
      /\ pc' \in {"scan", "loop", "stopped"}
  BY DEF TypeInv, TypeOK, Verify, Exit, scanVars
<1>7. UNCHANGED <<linkVars, toDispatch, firstDone, countVars, ver, connected>>
  BY DEF Verify
<1> QED BY <1>1, <1>2, <1>3, <1>4, <1>5, <1>6, <1>7
        DEF TypeInv, TypeOK, linkVars, countVars

LEMMA TurnType == TypeInv /\ (Turn \/ Revived \/ TurnEnd \/ Kill) => TypeInv'
<1> SUFFICES ASSUME TypeInv, Turn \/ Revived \/ TurnEnd \/ Kill PROVE TypeInv'
  OBVIOUS
<1>1. todo' \in Seq(Daemons)
  BY Orders DEF TypeInv, Turn, Revived, TurnEnd, Kill
<1>2. connected' \in BOOLEAN
  BY Zenon DEF TypeInv, TypeOK, Turn, Revived, TurnEnd, Kill
<1>3. UNCHANGED <<daemonVars, linkVars, flagVars, countVars, satsOf, ver, tries>>
  BY DEF Turn, Revived, TurnEnd, Kill
<1>4. /\ unconf' \subseteq Daemons /\ back' \in {"first", "dispatch", "check", "loop"}
      /\ pc' \in {"revive", "scan", "loop", "stop"}
  BY DEF TypeInv, TypeOK, Turn, Revived, TurnEnd, Kill, scanVars
<1> QED BY <1>1, <1>2, <1>3, <1>4
        DEF TypeInv, TypeOK, daemonVars, linkVars, flagVars, countVars

LEMMA ReviveType == TypeInv /\ Revive => TypeInv'
<1> SUFFICES ASSUME TypeInv, Revive PROVE TypeInv'
  OBVIOUS
<1> DEFINE d == Head(todo)
<1>1. d \in Daemons /\ todo' \in Seq(Daemons)
  BY Rest DEF TypeInv, Revive
<1> HIDE DEF d
<1>2. /\ link' \in [Daemons -> {"alive", "unreachable", "dead"}]
      /\ attempt' \in [Daemons -> 0..(MaxAttempts - 1)]
      /\ timeouts' \in 0..MaxTimeouts
  <2>1. CASE UNCHANGED <<link, attempt, timeouts>>
    BY <2>1 DEF TypeInv, TypeOK
  <2>2. CASE \E out \in Outcome(d) : SetLink(d, ConnectionInit(out)) /\ CountTimeout(out)
    BY <1>1, <2>2, SetLinkType, AfterType, TimeoutType DEF TypeInv
  <2> QED BY <2>1, <2>2 DEF Revive, d
<1> QED BY <1>1, <1>2 DEF TypeInv, TypeOK, Revive, daemonVars, flagVars, scanVars

LEMMA StatusType == TypeInv /\ Status => TypeInv'
<1> SUFFICES ASSUME TypeInv, Status PROVE TypeInv'
  OBVIOUS
<1> DEFINE d == Head(todo)
<1>1. d \in Daemons /\ todo' \in Seq(Daemons)
  BY Rest DEF TypeInv, Status
<1> HIDE DEF d
<1>2. PICK out \in Outcome(d) :
        /\ \/ SetLink(d, After(After(Link(d), out), "ok"))
           \/ SetLink(d, After(After(Link(d), "ok"), out))
        /\ CountTimeout(IF link[d] = "alive" THEN out ELSE "none")
  BY DEF Status, d
<1>3. /\ link' \in [Daemons -> {"alive", "unreachable", "dead"}]
      /\ attempt' \in [Daemons -> 0..(MaxAttempts - 1)]
  BY <1>1, <1>2, SetLinkType, LinkType, AfterType DEF TypeInv
<1>4. timeouts' \in 0..MaxTimeouts
  BY <1>1, <1>2, TimeoutType DEF TypeInv
<1> QED BY <1>1, <1>3, <1>4 DEF TypeInv, TypeOK, Status, daemonVars, flagVars, scanVars

LEMMA ReloadType == TypeInv /\ Reload => TypeInv'
<1> SUFFICES ASSUME TypeInv, Reload PROVE TypeInv'
  OBVIOUS
<1>1. todo' \in Seq(Daemons)
  BY Orders DEF Reload
<1>2. sent' \in [Daemons -> BOOLEAN]
  BY Zenon DEF Reload
<1>3. /\ toDispatch' \in BOOLEAN /\ firstDone' \in BOOLEAN /\ ok' \in BOOLEAN
      /\ connected' \in BOOLEAN
  BY Zenon DEF Reload
<1>4. Unasked \in Confs
  BY DEF Unasked, Conf, Confs
<1>5. /\ reloads' \in 0..MaxReloads /\ ver' \in Versions /\ ver' = 1 + reloads'
      /\ tries' \in 1..Tries
  BY DispatcherConstants DEF TypeInv, TypeOK, Reload, Versions
<1>6. satsOf' \in [Parts -> [ToSet(Types) -> SUBSET Daemons]]
  BY DEF Reload
<1>7. /\ link' \in [Daemons -> {"alive", "unreachable", "dead"}]
      /\ attempt' \in [Daemons -> 0..(MaxAttempts - 1)]
      /\ managed' \in [Daemons -> Confs] /\ recent' \subseteq Daemons /\ pc' = "connect"
  BY <1>4, DispatcherConstants DEF Reload
<1>8. UNCHANGED <<daemonVars, scanVars, restarts, timeouts>>
  BY DEF Reload
<1> QED BY <1>1, <1>2, <1>3, <1>5, <1>6, <1>7, <1>8 DEF TypeInv, TypeOK, daemonVars, scanVars

LEMMA StopRequestType == TypeInv /\ StopRequest => TypeInv'
<1> SUFFICES ASSUME TypeInv, StopRequest PROVE TypeInv'
  OBVIOUS
<1> DEFINE d == Head(todo)
<1>1. d \in Daemons /\ todo' \in Seq(Daemons)
  BY Rest DEF TypeInv, StopRequest
<1> HIDE DEF d
<1>2. PICK out \in Outcome(d) :
        /\ SetLink(d, After(Link(d), out))
        /\ CountTimeout(IF link[d] = "alive" THEN out ELSE "none")
        /\ IF link[d] = "alive" /\ Served(out) THEN Told(d) ELSE UNCHANGED daemonVars
        /\ connected' = (connected /\ (link[d] = "dead" \/ (link[d] = "alive" /\ out = "ok")))
  BY DEF StopRequest, d
<1>3. /\ link' \in [Daemons -> {"alive", "unreachable", "dead"}]
      /\ attempt' \in [Daemons -> 0..(MaxAttempts - 1)]
  BY <1>1, <1>2, SetLinkType, LinkType, AfterType DEF TypeInv
<1>4. timeouts' \in 0..MaxTimeouts
  BY <1>1, <1>2, TimeoutType DEF TypeInv
<1>5. /\ daemon' \in [Daemons -> {"up", "waiting", "down"}]
      /\ pushed' \in [Daemons -> Confs] /\ current' \in [Daemons -> Confs]
  BY <1>1, <1>2, GoneType DEF TypeInv, TypeOK, Told, daemonVars
<1>6. connected' \in BOOLEAN
  BY <1>2, Zenon
<1> QED BY <1>1, <1>3, <1>4, <1>5, <1>6 DEF TypeInv, TypeOK, StopRequest, flagVars, scanVars

LEMMA StopRoundType == TypeInv /\ StopRound => TypeInv'
<1> SUFFICES ASSUME TypeInv, StopRound PROVE TypeInv'
  OBVIOUS
<1>1. todo' \in Seq(Daemons)
  BY Orders DEF TypeInv, StopRound, DelayOver
<1>2. /\ daemon' \in [Daemons -> {"up", "waiting", "down"}]
      /\ pushed' \in [Daemons -> Confs] /\ current' \in [Daemons -> Confs]
  BY GoneType DEF TypeInv, TypeOK, StopRound, Exit, daemonVars
<1>3. connected' \in BOOLEAN
  BY Zenon DEF TypeInv, TypeOK, StopRound
<1>4. pc' \in {"stop", "stopNow", "stopped"}
  BY DEF StopRound, Exit, DelayOver
<1> QED BY <1>1, <1>2, <1>3, <1>4
        DEF TypeInv, TypeOK, StopRound, linkVars, flagVars, scanVars, countVars

LEMMA DaemonType ==
  ASSUME TypeInv, NEW d \in Daemons, SetupNewConf(d) \/ Crash(d) \/ Restart(d)
  PROVE  TypeInv'
<1>1. /\ daemon' \in [Daemons -> {"up", "waiting", "down"}]
      /\ pushed' \in [Daemons -> Confs] /\ current' \in [Daemons -> Confs]
  <2>1. NoConf \in Confs
    BY DEF NoConf, Conf, Confs
  <2> QED BY <2>1, GoneType, ZenonT(40) DEF TypeInv, TypeOK, SetupNewConf, Crash, Restart
<1>2. restarts' \in 0..MaxRestarts
  BY DispatcherConstants, SMTT(30) DEF TypeInv, TypeOK, SetupNewConf, Crash, Restart, countVars
<1>3. UNCHANGED <<linkVars, flagVars, scanVars, timeouts, reloads, satsOf, ver, pc, todo,
                  connected, tries>>
  BY DEF SetupNewConf, Crash, Restart, countVars
<1> QED BY <1>1, <1>2, <1>3 DEF TypeInv, TypeOK, linkVars, flagVars, scanVars

LEMMA NextType == TypeInv /\ [Next]_vars => TypeInv'
<1> SUFFICES ASSUME TypeInv, [Next]_vars PROVE TypeInv'
  OBVIOUS
<1>1. CASE Arbiter
  BY <1>1, StartDaemonType, StartedType, ConnectType, ConnectedType, ScanType, ScannedType,
     PushType, PushEndType, PrepareType, CheckType, VerifyType, TurnType, ReviveType,
     StatusType, StopRequestType, StopRoundType DEF Arbiter
<1>2. CASE Reload \/ Kill
  BY <1>2, ReloadType, TurnType
<1>3. CASE \E d \in Daemons : SetupNewConf(d) \/ Crash(d) \/ Restart(d)
  BY <1>3, DaemonType
<1>4. CASE UNCHANGED vars
  BY <1>4 DEF vars, daemonVars, linkVars, flagVars, scanVars, countVars, TypeInv, TypeOK
<1> QED BY <1>1, <1>2, <1>3, <1>4 DEF Next, Done

\* Every variable of the dispatcher has its type in every state.
THEOREM TypeCorrect == Spec => []TypeOK
<1>1. Init => TypeInv
  BY InitType
<1>2. TypeInv /\ [Next]_vars => TypeInv'
  BY NextType
<1>3. TypeInv => TypeOK
  BY DEF TypeInv
<1> QED BY <1>1, <1>2, <1>3, PTL DEF Spec

-----------------------------------------------------------------------------
(* What the daemons are given *)

\* new_conf is set up, whatever its version.
SetUp(d) == /\ pushed[d] # NoConf
            /\ current' = [current EXCEPT ![d] = pushed[d]]
            /\ pushed' = [pushed EXCEPT ![d] = NoConf]
            /\ UNCHANGED ver

\* What a step does to the configurations of the daemons.
LEMMA StepKinds ==
  ASSUME TypeInv, [Next]_vars
  PROVE  \/ UNCHANGED <<ver, pushed, current>>
         \/ Delivery!Publish
         \/ \E d \in Daemons : Delivery!Post(d) \/ Delivery!Drop(d) \/ SetUp(d)
         \/ \E ds \in SUBSET Daemons : Delivery!Lose(ds)
<1> DEFINE Kinds == \/ UNCHANGED <<ver, pushed, current>>
                    \/ Delivery!Publish
                    \/ \E d \in Daemons : Delivery!Post(d) \/ Delivery!Drop(d) \/ SetUp(d)
                    \/ \E ds \in SUBSET Daemons : Delivery!Lose(ds)
<1>1. ASSUME NEW ds \in SUBSET Daemons, Gone(ds), UNCHANGED ver
      PROVE  Delivery!Lose(ds)
  BY <1>1 DEF Gone, Delivery!Lose, Delivery!None, NoConf, Conf
<1>2. CASE Exit /\ UNCHANGED ver
  BY <1>1, <1>2, Orders DEF Exit
<1>3. CASE Connect
  <2>1. Head(todo) \in Daemons
    BY <1>3, Rest DEF TypeInv, Connect
  <2>2. UNCHANGED <<ver, pushed>> /\ (UNCHANGED current \/ current' = WaitNewConf(Head(todo)))
    BY <1>3 DEF Connect
  <2>3. CASE current' = WaitNewConf(Head(todo))
    <3>1. Delivery!Drop(Head(todo))
      BY <2>2, <2>3 DEF WaitNewConf, Delivery!Drop, Delivery!None, NoConf, Conf
    <3> QED BY <2>1, <3>1
  <2> QED BY <2>2, <2>3
<1>4. CASE Push
  <2>1. Head(todo) \in Daemons
    BY <1>4, Rest DEF TypeInv, Push
  <2>2. /\ UNCHANGED <<ver, current>>
        /\ UNCHANGED pushed \/ pushed' = PushConfiguration(Head(todo), Cfg(Head(todo)))
    BY <1>4 DEF Push
  <2>3. CASE pushed' = PushConfiguration(Head(todo), Cfg(Head(todo)))
    <3>1. Delivery!Post(Head(todo))
      BY <2>1, <2>2, <2>3 DEF PushConfiguration, Cfg, Conf, Delivery!Post
    <3> QED BY <2>1, <3>1
  <2> QED BY <2>2, <2>3
<1>5. CASE StopRequest
  <2>1. Head(todo) \in Daemons
    BY <1>5, Rest DEF TypeInv, StopRequest
  <2>2. UNCHANGED ver /\ (UNCHANGED <<pushed, current>> \/ Gone({Head(todo)}))
    BY <1>5 DEF StopRequest, Told, daemonVars
  <2>3. CASE Gone({Head(todo)})
    BY <1>1, <2>1, <2>2, <2>3
  <2> QED BY <2>2, <2>3
<1>6. CASE Reload
  BY <1>6 DEF Reload, daemonVars, Delivery!Publish
<1>7. CASE \E d \in Daemons : SetupNewConf(d) \/ Crash(d) \/ Restart(d)
  <2>1. PICK d \in Daemons : SetupNewConf(d) \/ Crash(d) \/ Restart(d)
    BY <1>7
  <2>2. CASE SetupNewConf(d)
    BY <2>2 DEF SetupNewConf, SetUp
  <2>3. CASE Crash(d)
    <3>1. Gone({d}) /\ UNCHANGED ver
      BY <2>3 DEF Crash
    <3> QED BY <1>1, <3>1
  <2>4. CASE Restart(d)
    BY <2>4 DEF Restart
  <2> QED BY <2>1, <2>2, <2>3, <2>4
<1>8. CASE Started \/ Connected \/ Verify \/ StopRound
  <2>1. (Exit /\ UNCHANGED ver) \/ UNCHANGED <<ver, pushed, current>>
    BY <1>8 DEF Started, Connected, Verify, StopRound, daemonVars
  <2> QED BY <1>2, <2>1
<1>9. CASE StartDaemon \/ Scan \/ Scanned \/ PushEnd \/ Prepare \/ Check \/ Turn \/ Revive
           \/ Revived \/ Status \/ TurnEnd \/ Kill
  BY <1>9 DEF StartDaemon, Scan, Scanned, PushEnd, Prepare, Check, Turn, Revive, Revived,
              Status, TurnEnd, Kill, daemonVars
<1>10. CASE UNCHANGED vars
  BY <1>10 DEF vars, daemonVars
<1> QED BY <1>3, <1>4, <1>5, <1>6, <1>7, <1>8, <1>9, <1>10 DEF Next, Arbiter, Done

\* No configuration is newer than the one the arbiter dispatches.
LEMMA GenuineVersion ==
  ASSUME TypeInv, NEW d \in Daemons, NEW conf, Genuine(d, conf)
  PROVE  conf.ver \in Nat /\ conf.ver <= ver
<1>1. ver \in Nat
  BY DispatcherConstants DEF TypeInv, TypeOK, Versions
<1>2. CASE conf = NoConf
  BY <1>1, <1>2 DEF NoConf, Conf
<1>3. CASE \E v \in 1..ver : conf = Conf(v, Assigned(d))
  BY <1>1, <1>3 DEF Conf
<1> QED BY <1>2, <1>3 DEF Genuine

\* A daemon keeps having its own share, of a configuration that is not older
\* than the one it has.
LEMMA OwnShareStep ==
  ASSUME TypeInv, OwnShare, [Next]_vars
  PROVE  OwnShare'
<1>1. ver \in Nat /\ ver >= 1
  BY DispatcherConstants DEF TypeInv, TypeOK, Versions
<1>2. CASE UNCHANGED <<ver, pushed, current>>
  BY <1>2 DEF OwnShare, Genuine
<1>3. CASE Delivery!Publish
  BY <1>1, <1>3 DEF OwnShare, Genuine, Delivery!Publish
<1>4. ASSUME NEW d \in Daemons, Delivery!Post(d)
      PROVE  OwnShare'
  <2>1. /\ UNCHANGED <<ver, current>>
        /\ pushed' = [pushed EXCEPT ![d] = Conf(ver, Assigned(d))]
    BY <1>4 DEF Delivery!Post, Conf
  <2>2. current[d].ver <= ver
    BY <1>1, GenuineVersion DEF OwnShare
  <2>3. Genuine(d, Conf(ver, Assigned(d))) /\ Conf(ver, Assigned(d)).ver = ver
    BY <1>1 DEF Genuine, Conf
  <2> QED BY <1>1, <2>1, <2>2, <2>3 DEF OwnShare, Genuine, TypeInv, TypeOK
<1>5. ASSUME NEW d \in Daemons, Delivery!Drop(d)
      PROVE  OwnShare'
  <2>1. UNCHANGED <<ver, pushed>> /\ current' = [current EXCEPT ![d] = NoConf]
    BY <1>5 DEF Delivery!Drop, Delivery!None, NoConf, Conf
  <2>2. pushed[d].ver >= 0
    BY <1>1, GenuineVersion DEF OwnShare
  <2>3. NoConf.ver = 0
    BY DEF NoConf, Conf
  <2> QED BY <1>1, <2>1, <2>2, <2>3 DEF OwnShare, Genuine, TypeInv, TypeOK
<1>6. ASSUME NEW d \in Daemons, SetUp(d)
      PROVE  OwnShare'
  BY <1>6 DEF SetUp, OwnShare, Genuine, TypeInv, TypeOK
<1>7. ASSUME NEW ds \in SUBSET Daemons, Delivery!Lose(ds)
      PROVE  OwnShare'
  <2>1. /\ current' = [d \in Daemons |-> IF d \in ds THEN NoConf ELSE current[d]]
        /\ pushed' = [d \in Daemons |-> IF d \in ds THEN NoConf ELSE pushed[d]]
        /\ UNCHANGED ver
    BY <1>7 DEF Delivery!Lose, Delivery!None, NoConf, Conf
  <2> QED BY <2>1 DEF OwnShare, Genuine
<1> QED BY <1>2, <1>3, <1>4, <1>5, <1>6, <1>7, StepKinds

LEMMA InitShare == Init => OwnShare
BY DEF Init, OwnShare, Genuine

\* The dispatcher implements ConfDelivery: a daemon holds its own share of one
\* configuration and never goes back to an older one, whatever requests are
\* lost and whoever crashes.
THEOREM DeliveryRefined == Spec => Delivered
<1>1. Init => TypeInv /\ OwnShare
  BY InitType, InitShare
<1>2. TypeInv /\ OwnShare /\ [Next]_vars => (TypeInv /\ OwnShare)'
  BY NextType, OwnShareStep
<1>3. Init => Delivery!Init
  BY DEF Init, Delivery!Init, Delivery!None, NoConf, Conf
<1>4. TypeInv /\ OwnShare /\ [Next]_vars => [Delivery!Next]_<<ver, pushed, current>>
  <2> SUFFICES ASSUME TypeInv, OwnShare, [Next]_vars
               PROVE  [Delivery!Next]_<<ver, pushed, current>>
    OBVIOUS
  <2>1. ASSUME NEW d \in Daemons, SetUp(d)
        PROVE  Delivery!Install(d)
    <3>1. pushed[d].ver >= current[d].ver
      BY <2>1 DEF SetUp, OwnShare
    <3> QED BY <2>1, <3>1 DEF SetUp, Delivery!Install, Delivery!None, NoConf, Conf
  <2> QED BY <2>1, StepKinds DEF Delivery!Next
<1> QED BY <1>1, <1>2, <1>3, <1>4, PTL DEF Spec, Delivered, Delivery!Spec

-----------------------------------------------------------------------------
(* The order of the calls to the dispatcher *)

\* A step that leaves the arbiter's stage, flags and knowledge alone.
LEMMA StagesFrame ==
  ASSUME Stages, UNCHANGED <<pc, back, toDispatch, firstDone, managed, link, todo, unconf>>
  PROVE  Stages'
BY DEF Stages, Asked

\* check_reachable looks at one daemon. An answer is what the daemon has,
\* which is never None: a daemon that did not answer is out of reach.
LEMMA ScanStages ==
  ASSUME TypeInv, OwnShare, Stages, Scan
  PROVE  Stages'
<1> DEFINE d == Head(todo)
<1>1. /\ d \in Daemons /\ todo \in Seq(Daemons) /\ todo # <<>>
      /\ \A e \in ToSet(todo) : e = d \/ e \in ToSet(Tail(todo))
  BY Rest DEF TypeInv, Scan
<1> HIDE DEF d
<1>2. pc = "scan" /\ UNCHANGED <<pc, back, toDispatch, firstDone>> /\ todo' = Tail(todo)
  BY DEF Scan, flagVars
<1>3. current[d] # Unasked
  <2>1. current[d].ver \in Nat
    BY <1>1, GenuineVersion DEF OwnShare
  <2> QED BY <2>1 DEF Unasked, Conf
<1>4. \/ UNCHANGED <<managed, link>>
      \/ /\ link[d] # "alive" /\ managed' = managed /\ SetLink(d, After(Link(d), "none"))
      \/ /\ link[d] = "alive"
         /\ \E out : /\ SetLink(d, After(Link(d), out))
                     /\ managed' = IF out = "ok" THEN [managed EXCEPT ![d] = current[d]]
                                                 ELSE managed
  BY DEF Scan, ManagedConfigurations, d
<1>5. \A e \in Daemons \ {d} : link'[e] = link[e] /\ managed'[e] = managed[e]
  BY <1>1, <1>4 DEF SetLink, TypeInv, TypeOK
<1>6. managed[d] # Unasked => managed'[d] # Unasked
  BY <1>1, <1>3, <1>4 DEF TypeInv, TypeOK
<1>7. link[d] # "alive" => link'[d] # "alive"
  BY <1>1, <1>4 DEF SetLink, After, Link, Failed, TypeInv, TypeOK
<1>8. back # "loop" => managed'[d] # Unasked \/ link'[d] # "alive"
  <2>1. CASE link[d] # "alive"
    BY <1>7, <2>1
  <2>2. CASE link[d] = "alive" /\ back # "loop"
    <3>1. PICK out \in Outcome(d) :
            /\ SetLink(d, After(Link(d), out))
            /\ managed' = IF out = "ok" THEN [managed EXCEPT ![d] = current[d]] ELSE managed
      BY <2>2 DEF Scan, ManagedConfigurations, d
    <3>2. CASE out = "ok"
      BY <1>1, <1>3, <3>1, <3>2 DEF TypeInv, TypeOK
    <3>3. CASE out # "ok"
      BY <1>1, <2>2, <3>1, <3>3 DEF SetLink, After, Link, Failed, TypeInv, TypeOK
    <3> QED BY <3>2, <3>3
  <2> QED BY <2>1, <2>2
<1>9. back = "first" => Asked(todo)'
  BY <1>1, <1>2, <1>5, <1>6, <1>7, <1>8 DEF Stages, Asked
<1>10. CASE back = "dispatch" /\ ~firstDone
  <2>1. toDispatch /\ Asked(<<>>)
    BY <1>2, <1>10 DEF Stages
  <2>2. managed[d] # Unasked \/ link[d] # "alive"
    BY <1>1, <2>1 DEF Asked, ToSet
  <2>3. Asked(<<>>)'
    BY <1>5, <1>6, <1>7, <2>1 DEF Asked
  <2>4. d \in unconf'
    BY <1>1, <1>6, <1>10, <2>2 DEF Scan, d
  <2> QED BY <1>2, <1>10, <2>1, <2>3, <2>4 DEF Stages
<1> QED BY <1>2, <1>9, <1>10 DEF Stages

\* check_reachable ends: the first one comes before the preparation, the one
\* after it dispatches.
LEMMA ScannedStages ==
  ASSUME TypeInv, Stages, Scanned
  PROVE  Stages' /\ NeverRaises'
<1>1. UNCHANGED <<back, managed, link>> /\ pc = "scan" /\ todo = <<>>
  BY DEF Scanned, scanVars, linkVars
<1>2. CASE NeedsDispatch
  <2>1. pc' = "push" /\ back # "first"
    BY <1>1, <1>2 DEF Scanned, NeedsDispatch, Stages
  <2> QED BY <1>1, <2>1 DEF Stages, NeverRaises
<1>3. CASE ~NeedsDispatch
  <2>1. pc' = Return([firstDone |-> firstDone]) /\ UNCHANGED <<toDispatch, firstDone>>
    BY <1>3 DEF Scanned, flagVars
  <2>2. CASE back = "first"
    <3>1. pc' = "prepare"
      BY <2>1, <2>2 DEF Return
    <3>2. ~toDispatch /\ ~firstDone /\ Asked(<<>>)
      BY <1>1, <2>2 DEF Stages
    <3> QED BY <1>1, <2>1, <3>1, <3>2 DEF Stages, Asked, NeverRaises
  <2>3. CASE back # "first"
    <3>1. firstDone
      BY <1>1, <1>3, <2>3 DEF Stages, NeedsDispatch, TypeInv, TypeOK
    <3>2. pc' \in {"check", "verify", "status"}
      BY <2>1, <2>3, <3>1 DEF Return
    <3> QED BY <2>1, <3>1, <3>2 DEF Stages, NeverRaises
  <2> QED BY <2>2, <2>3
<1> QED BY <1>2, <1>3

LEMMA StagesStep ==
  ASSUME TypeInv, OwnShare, Stages, NeverRaises, [Next]_vars
  PROVE  Stages' /\ NeverRaises'
<1>1. CASE StartDaemon \/ Started \/ Connect
  BY <1>1 DEF StartDaemon, Started, Exit, Connect, flagVars, Stages, NeverRaises
<1>2. CASE Connected
  <2>1. Asked(Links)'
    BY DEF Asked, Daemons
  <2> QED BY <1>2, <2>1 DEF Connected, Exit, flagVars, Stages, NeverRaises
<1>3. CASE Scan
  BY <1>3, ScanStages DEF Scan, NeverRaises
<1>4. CASE Scanned
  BY <1>4, ScannedStages
<1>5. CASE Push
  BY <1>5 DEF Push, scanVars, Stages, NeverRaises
<1>6. CASE PushEnd
  <2>1. back # "first" /\ firstDone' /\ pc' = Return([firstDone |-> TRUE])
    BY <1>6 DEF PushEnd, Stages
  <2>2. pc' \in {"check", "verify", "status"}
    BY <2>1 DEF Return
  <2> QED BY <2>1, <2>2 DEF Stages, NeverRaises
<1>7. CASE Prepare
  <2>1. ~toDispatch /\ Asked(<<>>)
    BY <1>7 DEF Prepare, Stages
  <2>2. /\ pc' = "scan" /\ back' = "dispatch" /\ toDispatch' /\ todo' = Links
        /\ UNCHANGED <<managed, link>>
    BY <1>7, <2>1 DEF Prepare
  <2>3. Asked(<<>>)'
    BY <2>1, <2>2 DEF Asked
  <2> QED BY <2>2, <2>3, Orders DEF Stages, NeverRaises
<1>8. CASE Check \/ Verify
  BY <1>8 DEF Check, Verify, Exit, Stages, NeverRaises
<1>9. CASE Turn \/ Revive \/ Revived \/ Status \/ TurnEnd
  BY <1>9 DEF Turn, Revive, Revived, Status, TurnEnd, flagVars, Stages, NeverRaises
<1>10. CASE Reload \/ Kill \/ StopRequest \/ StopRound
  BY <1>10 DEF Reload, Kill, StopRequest, StopRound, DelayOver, Exit, Stages, NeverRaises
<1>11. CASE \E d \in Daemons : SetupNewConf(d) \/ Crash(d) \/ Restart(d)
  <2>1. UNCHANGED <<pc, back, toDispatch, firstDone, managed, link, todo, unconf>>
    BY <1>11 DEF SetupNewConf, Crash, Restart, linkVars, flagVars, scanVars
  <2> QED BY <2>1, StagesFrame DEF NeverRaises
<1>12. CASE UNCHANGED vars
  BY <1>12, StagesFrame DEF vars, linkVars, flagVars, scanVars, NeverRaises
<1> QED BY <1>1, <1>2, <1>3, <1>4, <1>5, <1>6, <1>7, <1>8, <1>9, <1>10, <1>11, <1>12
        DEF Next, Arbiter, Done

\* The dispatcher is never asked for something out of order, whatever the
\* daemons answer, and whenever requests are lost.
THEOREM NeverOutOfOrder == Spec => []NeverRaises
<1>1. Init => TypeInv /\ OwnShare /\ Stages /\ NeverRaises
  <2>1. Init => Stages /\ NeverRaises
    BY DEF Init, Stages, NeverRaises
  <2> QED BY <2>1, InitType, InitShare
<1>2. TypeInv /\ OwnShare /\ Stages /\ NeverRaises /\ [Next]_vars
        => (TypeInv /\ OwnShare /\ Stages /\ NeverRaises)'
  BY NextType, OwnShareStep, StagesStep
<1> QED BY <1>1, <1>2, PTL DEF Spec

-----------------------------------------------------------------------------
(* The schedulers, when the main loop begins *)

LEMMA VersionType ==
  ASSUME TypeInv
  PROVE  ver \in Nat /\ ver >= 1 /\ restarts \in Nat
BY DispatcherConstants DEF TypeInv, TypeOK, Versions

\* Nobody is asked before the connections are made.
LEMMA NotAskedStep ==
  ASSUME NotAsked, [Next]_vars
  PROVE  NotAsked'
<1>1. CASE StartDaemon \/ Started \/ Connect \/ Connected
  BY <1>1 DEF NotAsked, StartDaemon, Started, Exit, Connect, Connected, linkVars
<1>2. CASE Reload
  BY <1>2 DEF NotAsked, Reload
<1>3. CASE Scan \/ Scanned \/ Push \/ PushEnd \/ Prepare \/ Check \/ Verify
  <2>1. pc' \notin {"start", "connect"}
    BY <1>3 DEF Scan, Scanned, Push, PushEnd, Prepare, Check, Verify, Return, Exit
  <2> QED BY <2>1 DEF NotAsked
<1>4. CASE Turn \/ Revive \/ Revived \/ Status \/ TurnEnd \/ Kill \/ StopRequest \/ StopRound
  <2>1. pc' \notin {"start", "connect"}
    BY <1>4 DEF Turn, Revive, Revived, Status, TurnEnd, Kill, StopRequest, StopRound,
                DelayOver, Exit
  <2> QED BY <2>1 DEF NotAsked
<1>5. CASE \E d \in Daemons : SetupNewConf(d) \/ Crash(d) \/ Restart(d)
  BY <1>5 DEF NotAsked, SetupNewConf, Crash, Restart, linkVars
<1>6. CASE UNCHANGED vars
  BY <1>6 DEF NotAsked, vars, linkVars
<1> QED BY <1>1, <1>2, <1>3, <1>4, <1>5, <1>6 DEF Next, Arbiter, Done

\* What a daemon answered stays true as long as it does not forget it.
LEMMA KnownStep ==
  ASSUME TypeInv, OwnShare, Known, NotAsked, [Next]_vars
  PROVE  Known'
<1>1. ASSUME UNCHANGED <<ver, managed, current, restarts>>,
             pc \notin {"stopNow", "stopped"} \/ pc' \in {"stopNow", "stopped"}
      PROVE  Known'
  BY <1>1 DEF Known
<1>2. ASSUME Exit
      PROVE  Known'
  BY <1>2 DEF Exit, Known
<1>3. CASE StartDaemon
  BY <1>3, VersionType DEF StartDaemon, Known, linkVars
<1>4. CASE Started \/ Connected \/ Verify \/ StopRound
  <2>1. \/ Exit
        \/ UNCHANGED <<ver, managed, current, restarts>> /\ pc \notin {"stopNow", "stopped"}
    BY <1>4 DEF Started, Connected, Verify, StopRound, DelayOver, linkVars, countVars, daemonVars
  <2> QED BY <1>1, <1>2, <2>1
<1>5. CASE Connect
  <2>1. UNCHANGED <<ver, managed>> /\ \A d \in Daemons : managed[d] = Unasked
    BY <1>5 DEF Connect, NotAsked
  <2> QED BY <2>1, VersionType DEF Known, Unasked, Conf
<1>6. CASE Scan
  <2> DEFINE d == Head(todo)
  <2>1. d \in Daemons
    BY <1>6, Rest DEF TypeInv, Scan
  <2>2. /\ UNCHANGED <<ver, current, restarts, pc>>
        /\ managed' = managed \/ managed' = [managed EXCEPT ![d] = current[d]]
    BY <1>6 DEF Scan, ManagedConfigurations, daemonVars
  <2> HIDE DEF d
  <2>3. current[d].ver = ver => current[d] = Conf(ver, Assigned(d))
    <3>1. Genuine(d, current[d])
      BY <2>1 DEF OwnShare
    <3>2. CASE current[d] = NoConf
      BY <3>2, VersionType DEF NoConf, Conf
    <3>3. CASE \E v \in 1..ver : current[d] = Conf(v, Assigned(d))
      BY <3>3 DEF Conf
    <3> QED BY <3>1, <3>2, <3>3 DEF Genuine
  <2> QED BY <2>1, <2>2, <2>3 DEF Known, TypeInv, TypeOK
<1>7. CASE Scanned \/ Push \/ PushEnd \/ Prepare \/ Check
  <2>1. UNCHANGED <<ver, managed, current, restarts>> /\ pc \notin {"stopNow", "stopped"}
    BY <1>7 DEF Scanned, Push, PushEnd, Prepare, Check, linkVars, countVars, daemonVars
  <2> QED BY <1>1, <2>1
<1>8. CASE Turn \/ Revive \/ Revived \/ Status \/ TurnEnd \/ Kill
  <2>1. UNCHANGED <<ver, managed, current, restarts>> /\ pc \notin {"stopNow", "stopped"}
    BY <1>8 DEF Turn, Revive, Revived, Status, TurnEnd, Kill, linkVars, countVars, daemonVars
  <2> QED BY <1>1, <2>1
<1>9. CASE Reload
  <2>1. \A d \in Daemons : managed'[d].ver # ver'
    BY <1>9, VersionType DEF Reload, Unasked, Conf
  <2> QED BY <2>1 DEF Known
<1>10. CASE StopRequest
  <2>1. CASE pc = "stop"
    <3>1. UNCHANGED <<ver, managed, current, restarts, pc>>
      BY <1>10, <2>1 DEF StopRequest, Told, daemonVars
    <3> QED BY <1>1, <2>1, <3>1
  <2>2. CASE pc = "stopNow"
    BY <1>10, <2>2 DEF StopRequest, Known
  <2> QED BY <1>10, <2>1, <2>2 DEF StopRequest
<1>11. ASSUME NEW d \in Daemons, SetupNewConf(d)
       PROVE  Known'
  <2>1. /\ UNCHANGED <<ver, managed, restarts, pc>> /\ pushed[d] # NoConf
        /\ current' = [current EXCEPT ![d] = pushed[d]]
    BY <1>11 DEF SetupNewConf, linkVars, countVars
  <2>2. current[d] = Conf(ver, Assigned(d)) => pushed[d] = Conf(ver, Assigned(d))
    <3>1. Genuine(d, pushed[d]) /\ pushed[d].ver >= current[d].ver
      BY <2>1 DEF OwnShare
    <3>2. PICK v \in 1..ver : pushed[d] = Conf(v, Assigned(d))
      BY <2>1, <3>1 DEF Genuine
    <3> QED BY <3>1, <3>2, VersionType DEF Conf
  <2> QED BY <2>1, <2>2 DEF Known, TypeInv, TypeOK
<1>12. ASSUME NEW d \in Daemons, Crash(d)
       PROVE  Known'
  BY <1>12, VersionType DEF Crash, Known
<1>13. ASSUME NEW d \in Daemons, Restart(d)
       PROVE  Known'
  BY <1>1, <1>13 DEF Restart, linkVars, countVars
<1>14. CASE UNCHANGED vars
  BY <1>14 DEF vars, daemonVars, linkVars, countVars, Known
<1> QED BY <1>3, <1>4, <1>5, <1>6, <1>7, <1>8, <1>9, <1>10, <1>11, <1>12, <1>13, <1>14
        DEF Next, Arbiter, Done

\* The main loop begins when every scheduler has answered that it has its
\* part, and a later answer says the same.
LEMMA ConfirmedStep ==
  ASSUME TypeInv, Known, Confirmed, [Next]_vars
  PROVE  Confirmed'
<1>1. ASSUME UNCHANGED <<ver, managed, restarts>>, InLoop
      PROVE  Confirmed'
  BY <1>1 DEF Confirmed
<1>2. ASSUME ~InLoop'
      PROVE  Confirmed'
  BY <1>2 DEF Confirmed
<1>3. CASE StartDaemon \/ Started \/ Connect \/ Connected
  <2>1. ~InLoop'
    BY <1>3 DEF StartDaemon, Started, Connect, Connected, Exit, InLoop
  <2> QED BY <1>2, <2>1
<1>4. CASE Scan
  <2>1. CASE ~InLoop
    <3>1. ~InLoop'
      BY <1>4, <2>1 DEF Scan, InLoop
    <3> QED BY <1>2, <3>1
  <2>2. CASE InLoop /\ restarts = 0
    <3> DEFINE d == Head(todo)
    <3>1. d \in Daemons
      BY <1>4, Rest DEF TypeInv, Scan
    <3>2. /\ UNCHANGED <<ver, restarts>>
          /\ managed' = managed \/ managed' = [managed EXCEPT ![d] = current[d]]
      BY <1>4 DEF Scan, ManagedConfigurations
    <3> HIDE DEF d
    <3>3. managed[d].ver = ver => current[d].ver = ver
      <4>1. pc \notin {"stopNow", "stopped"}
        BY <2>2 DEF InLoop
      <4>2. Conf(ver, Assigned(d)).ver = ver
        BY DEF Conf
      <4> QED BY <2>2, <3>1, <4>1, <4>2 DEF Known
    <3>4. \A e \in Daemons : managed[e].ver = ver => managed'[e].ver = ver
      BY <3>1, <3>2, <3>3 DEF TypeInv, TypeOK
    <3>5. \A p \in Parts : Prepared.owner[p] # NoLink => Prepared.owner[p] \in Daemons
      BY PreparedTypes, SchedulerDaemons
    <3> QED BY <2>2, <3>2, <3>4, <3>5 DEF Confirmed
  <2>3. CASE restarts # 0
    BY <1>4, <2>3 DEF Scan, Confirmed
  <2> QED BY <2>1, <2>2, <2>3
<1>5. CASE Scanned \/ PushEnd \/ Push
  <2>1. UNCHANGED <<ver, managed, restarts, back>>
    BY <1>5 DEF Scanned, PushEnd, Push, linkVars, countVars, scanVars
  <2>2. InLoop' => InLoop
    BY <1>5, <2>1 DEF Scanned, PushEnd, Push, Return, InLoop, TypeInv, TypeOK
  <2> QED BY <1>1, <1>2, <2>1, <2>2
<1>6. CASE Prepare \/ Check
  <2>1. ~InLoop'
    BY <1>6 DEF Prepare, Check, InLoop
  <2> QED BY <1>2, <2>1
<1>7. CASE Verify
  <2>1. CASE ok'
    <3>1. \A p \in Parts : ~SchedulerWrong(p)
      BY <1>7, <2>1 DEF Verify
    <3>2. UNCHANGED <<ver, managed>>
      BY <1>7 DEF Verify, linkVars
    <3> QED BY <3>1, <3>2 DEF SchedulerWrong, Manages, Confirmed
  <2>2. CASE ~ok'
    <3>1. ~InLoop'
      BY <1>7, <2>2 DEF Verify, Exit, InLoop
    <3> QED BY <1>2, <3>1
  <2> QED BY <2>1, <2>2
<1>8. CASE Turn \/ Revive \/ Revived \/ Status \/ TurnEnd
  <2>1. UNCHANGED <<ver, managed, restarts>> /\ InLoop
    BY <1>8 DEF Turn, Revive, Revived, Status, TurnEnd, linkVars, countVars, InLoop
  <2> QED BY <1>1, <2>1
<1>9. CASE Reload \/ Kill \/ StopRequest \/ StopRound
  <2>1. ~InLoop'
    BY <1>9 DEF Reload, Kill, StopRequest, StopRound, DelayOver, Exit, InLoop
  <2> QED BY <1>2, <2>1
<1>10. ASSUME NEW d \in Daemons, SetupNewConf(d) \/ Restart(d)
       PROVE  Confirmed'
  BY <1>10 DEF SetupNewConf, Restart, linkVars, countVars, scanVars, InLoop, Confirmed
<1>11. ASSUME NEW d \in Daemons, Crash(d)
       PROVE  Confirmed'
  BY <1>11, VersionType DEF Crash, Confirmed
<1>12. CASE UNCHANGED vars
  BY <1>12 DEF vars, linkVars, countVars, scanVars, InLoop, Confirmed
<1> QED BY <1>3, <1>4, <1>5, <1>6, <1>7, <1>8, <1>9, <1>10, <1>11, <1>12
        DEF Next, Arbiter, Done

\* In the main loop, and while no daemon crashed, every part of the
\* configuration is managed by the scheduler it was given to.
THEOREM SchedulersManage == Spec => []SchedulersReady
<1> DEFINE Inv == TypeInv /\ OwnShare /\ ReadyInv
<1>1. Init => Inv
  <2>1. Init => ReadyInv
    BY DEF Init, ReadyInv, Known, NotAsked, Confirmed, InLoop, Unasked, Conf
  <2> QED BY <2>1, InitType, InitShare
<1>2. Inv /\ [Next]_vars => Inv'
  BY NextType, OwnShareStep, NotAskedStep, KnownStep, ConfirmedStep DEF ReadyInv
<1>3. Inv => SchedulersReady
  <2> SUFFICES ASSUME Inv, pc \in {"loop", "revive", "status"}, restarts = 0, NEW p \in Parts
               PROVE  /\ Prepared.owner[p] # NoLink
                      /\ current[Prepared.owner[p]] = Conf(ver, Assigned(Prepared.owner[p]))
    BY DEF SchedulersReady
  <2>1. Prepared.owner[p] # NoLink /\ managed[Prepared.owner[p]].ver = ver
    BY DEF ReadyInv, Confirmed, InLoop
  <2>2. Prepared.owner[p] \in Daemons
    BY <2>1, PreparedTypes, SchedulerDaemons
  <2> QED BY <2>1, <2>2 DEF ReadyInv, Known
<1> QED BY <1>1, <1>2, <1>3, PTL DEF Spec
=============================================================================
