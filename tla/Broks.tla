------------------------------- MODULE Broks --------------------------------
(***************************************************************************)
(* The broks, from the schedulers to the modules of the broker. A          *)
(* scheduler queues what happens for the broker; the main thread of the    *)
(* broker asks each scheduler for its initial broks, then gets the broks   *)
(* in every turn of its loop, puts them in the queues of the external      *)
(* modules (processes of their own) and has the internal modules manage    *)
(* them, as long as the turn has time for. The threads of a scheduler that *)
(* answer the broker take no lock of its main loop: while give_broks binds *)
(* the list of the broks it keeps, more may come. The answer may be lost,  *)
(* a process of a module may die or go on with a queue that the broker has *)
(* forgotten, and the arbiter may send the schedulers and the broker a new *)
(* configuration.                                                          *)
(***************************************************************************)
EXTENDS Integers, Sequences, SequencesExt, FiniteSets

CONSTANTS
  Schedulers,   \* the scheduler links of the broker, in their order
  Modules,      \* the external modules of the broker
  Internal,     \* whether the broker has an internal module
  None,         \* a queue that is None, and a list that is not there
  MaxQueue,     \* max_queue_size of the daemon, 0 for none
  MaxKept,      \* max_broks of clean_queues
  InitPeriod,   \* MODULE_INIT_PERIOD, in turns of the loop
  MaxBroks,     \* bound: scheduler -> its broks, the initial ones not counted
  MaxFaults     \* bound: lost answers, dead processes, new configurations

Links == ToSet(Schedulers)

BrokTypes == [from : Links, n : Nat, sent : BOOLEAN]

ASSUME BroksConstants ==
  /\ Internal \in BOOLEAN /\ Schedulers \in Seq(Links) /\ Schedulers # <<>>
  /\ MaxQueue \in Nat /\ MaxKept \in Nat \ {0} /\ InitPeriod \in Nat \ {0}
  /\ MaxBroks \in [Links -> Nat] /\ MaxFaults \in Nat

ASSUME NoList == None \notin Seq(Seq(BrokTypes)) \cup Seq([n : Nat, sent : BOOLEAN])

VARIABLES
  ready,        \* scheduler -> it has a configuration
  made,         \* scheduler -> number of broks so far
  broks,        \* scheduler -> broks of its link to the broker, [n, sent]
  kept,         \* the list that give_broks is about to bind to its link, or None
  initialized,  \* scheduler -> initialized of that link
  link,         \* scheduler -> the broker's link: "alive", "unreachable" or "dead"
  pc, todo,     \* where the main thread of the broker is, links left
  gotInitial,   \* got_initial_broks
  external,     \* external_broks: [from, n, sent], sent unless to_be_sent
  queue,        \* module -> to_q, lists of broks, or None
  process,      \* module -> the process that has its queue: "live", or "dead" if none
  old,          \* module -> its former processes, the queue each has and what it read
  toRestart,    \* module -> its entries in to_restart, their order tells nothing
  early,        \* module -> turns before an initialization may be tried again
  managed,      \* history: what the internal module was given to manage
  received,     \* history: module -> the broks its process read
  lost,         \* history: <<scheduler, n>> of the broks added to a list that is not kept,
                \* and of those whose manage_brok raised
  faults, nfaults  \* history: the schedulers, "broker" and the modules that failed

scheduler == <<ready, made, broks, initialized>>
modules == <<queue, process, toRestart, early, old>>
history == <<managed, received, lost>>
vars == <<scheduler, kept, link, pc, todo, gotInitial, external, modules, history,
          faults, nfaults>>

Init ==
  /\ ready = [s \in Links |-> FALSE] /\ made = [s \in Links |-> 0]
  /\ broks = [s \in Links |-> <<>>] /\ kept = None
  /\ initialized = [s \in Links |-> FALSE]
  /\ link = [s \in Links |-> "alive"]
  /\ pc = "begin" /\ todo = <<>> /\ gotInitial = FALSE /\ external = <<>>
  /\ queue = [m \in Modules |-> <<>>] /\ process = [m \in Modules |-> "live"]
  /\ toRestart = [m \in Modules |-> 0] /\ early = [m \in Modules |-> InitPeriod]
  /\ old = [m \in Modules |-> <<>>]
  /\ managed = <<>> /\ received = [m \in Modules |-> <<>>] /\ lost = {}
  /\ faults = {} /\ nfaults = 0

Fault(xs) == /\ nfaults < MaxFaults /\ nfaults' = nfaults + 1
             /\ faults' = faults \cup xs

-----------------------------------------------------------------------------
(* The schedulers *)

Brok(s, sent) == [n |-> made[s] + 1, sent |-> sent]

\* give_broks is about to bind the list it made to the link of the scheduler.
Rebinding(s) == kept # None /\ s = Head(todo)

\* add_brok
AddBrok(s) ==
  /\ ready[s] /\ made[s] < MaxBroks[s]
  /\ broks' = [broks EXCEPT ![s] = Append(@, Brok(s, FALSE))]
  /\ made' = [made EXCEPT ![s] = @ + 1]
  /\ lost' = IF Rebinding(s) THEN lost \cup {<<s, made[s] + 1>>} ELSE lost
  /\ UNCHANGED <<ready, kept, initialized, link, pc, todo, gotInitial, external, modules,
                 managed, received, faults, nfaults>>

\* Mutant: nothing is marked, as if there were nothing to do without a module.
AllSent_Not(bs) == bs

\* How many of the broks were sent: they are the first ones, since all those of a list
\* are sent at once.
Marked(bs) ==
  CHOOSE k \in 0..Len(bs) : /\ \A j \in 1..k : bs[j].sent
                            /\ k < Len(bs) => ~bs[k + 1].sent

Unsent(bs) == SubSeq(bs, Marked(bs) + 1, Len(bs))

\* send_broks_to_modules: only what went to the scheduler's own modules is given.
AllSent(bs) == [k \in DOMAIN bs |-> [bs[k] EXCEPT !.sent = TRUE]]

\* The broks of two lists are the same objects.
SentIn(bs, other) ==
  [k \in DOMAIN bs |-> [bs[k] EXCEPT !.sent = @ \/ \E b \in ToSet(other) : b.n = bs[k].n]]

SendBroksToModules(s) ==
  /\ \E k \in DOMAIN broks[s] : ~broks[s][k].sent
  /\ broks' = [broks EXCEPT ![s] = AllSent(@)]
  /\ kept' = IF Rebinding(s) THEN SentIn(kept, broks[s]) ELSE kept
  /\ UNCHANGED <<ready, made, initialized, link, pc, todo, gotInitial, external, modules,
                 history, faults, nfaults>>

\* clean_queues keeps the first max_broks, the oldest.
CleanQueues(s) ==
  /\ Len(broks[s]) > MaxKept
  /\ broks' = [broks EXCEPT ![s] = SubSeq(@, 1, MaxKept)]
  /\ faults' = faults \cup {s}
  /\ UNCHANGED <<ready, made, kept, initialized, link, pc, todo, gotInitial, external, modules,
                 history, nfaults>>

\* The arbiter configures the scheduler, again perhaps: the link to the broker is new, and
\* what is bound to the one before tells nothing.
SetupScheduler(s) ==
  /\ IF ready[s] THEN Fault({s}) ELSE UNCHANGED <<faults, nfaults>>
  /\ ready' = [ready EXCEPT ![s] = TRUE]
  /\ broks' = [broks EXCEPT ![s] = <<>>]
  /\ kept' = IF Rebinding(s) THEN None ELSE kept
  /\ initialized' = [initialized EXCEPT ![s] = FALSE]
  /\ UNCHANGED <<made, link, pc, todo, gotInitial, external, modules, history>>

-----------------------------------------------------------------------------
(* The requests of the broker *)

\* A link fails twice before it is dead: max_check_attempts.
Fail(s) == link' = [link EXCEPT ![s] = IF @ = "alive" THEN "unreachable" ELSE "dead"]

\* do_main_loop restores the connections that are dead.
Begin ==
  /\ pc = "begin"
  /\ link' = [s \in Links |-> IF link[s] = "dead" THEN "alive" ELSE link[s]]
  /\ IF gotInitial THEN pc' = "check" /\ UNCHANGED todo
                   ELSE pc' = "initial" /\ todo' = Schedulers
  /\ UNCHANGED <<scheduler, kept, gotInitial, external, modules, history, faults, nfaults>>

\* fill_initial_broks: nothing without a configuration, nor a second time.
Fillable(s) == ready[s] /\ ~initialized[s]

\* The initial broks of a scheduler, one brok for all of them.
FillInitialBroks(s) ==
  /\ made' = [made EXCEPT ![s] = @ + 1]
  /\ broks' = [broks EXCEPT ![s] = AllSent(Append(@, Brok(s, TRUE)))]
  /\ initialized' = [initialized EXCEPT ![s] = TRUE]
  /\ UNCHANGED ready

Asked == /\ todo' = Tail(todo)
         /\ pc' = IF Len(todo) = 1 THEN "check" ELSE "initial"

\* get_initial_broks for the next scheduler: an answer without broks ends the turn.
AskInitialBroks ==
  /\ pc = "initial"
  /\ LET s == Head(todo)
     IN \/ /\ link[s] = "alive" /\ Fillable(s)
           /\ FillInitialBroks(s) /\ gotInitial' = TRUE /\ Asked
           /\ UNCHANGED <<link, faults, nfaults>>
        \/ /\ link[s] = "alive" /\ ~Fillable(s)
           /\ pc' = "begin" /\ todo' = <<>>
           /\ UNCHANGED <<scheduler, gotInitial, link, faults, nfaults>>
        \/ \* the answer is lost, and the broks are made
           /\ link[s] = "alive" /\ Fillable(s)
           /\ FillInitialBroks(s) /\ Fault({s, "broker"}) /\ Fail(s)
           /\ pc' = "begin" /\ todo' = <<>> /\ UNCHANGED gotInitial
        \/ /\ link[s] = "unreachable" /\ Fail(s)
           /\ pc' = "begin" /\ todo' = <<>>
           /\ UNCHANGED <<scheduler, gotInitial, faults, nfaults>>
        \/ /\ link[s] = "dead" /\ Asked
           /\ UNCHANGED <<scheduler, gotInitial, link, faults, nfaults>>
  /\ UNCHANGED <<kept, external, modules, history>>

\* Mutant: the broks are marked as sent when they come.
Taken_Marked(s, bs) == [k \in DOMAIN bs |-> [from |-> s, n |-> bs[k].n, sent |-> TRUE]]

Taken(s, bs) == [k \in DOMAIN bs |-> [from |-> s, n |-> bs[k].n, sent |-> FALSE]]

\* Mutant: those that may not be given yet are removed too.
Left_None(bs) == <<>>

\* give_broks: what was given is removed.
Left(bs) == Unsent(bs)

\* _broks: the scheduler gives what its own modules have had.
Given(s) == SubSeq(broks[s], 1, Marked(broks[s]))

\* get_new_broks goes on with the next scheduler.
NextLink == todo' = Tail(todo) /\ pc' = IF Len(todo) = 1 THEN "send" ELSE "get"

\* give_broks made the answer, and the list of the broks it keeps. The broker gets the
\* answer, or not, when that list is bound; it does nothing else until then.
AskBroks(s) ==
  /\ link[s] = "alive" /\ kept' = Left(broks[s])
  /\ \/ external' = external \o Taken(s, Given(s)) /\ UNCHANGED <<link, faults, nfaults>>
     \/ Fault({s}) /\ Fail(s) /\ UNCHANGED external
  /\ pc' = "given" /\ UNCHANGED todo

\* get_new_broks
GetNewBroks ==
  /\ pc = "get"
  /\ LET s == Head(todo)
     IN \/ AskBroks(s)
        \/ link[s] = "unreachable" /\ Fail(s) /\ NextLink /\ UNCHANGED <<kept, external, faults, nfaults>>
        \/ link[s] = "dead" /\ NextLink /\ UNCHANGED <<kept, external, link, faults, nfaults>>
  /\ UNCHANGED <<scheduler, gotInitial, modules, history>>

\* give_broks binds the list to the link it found: what was added since is not in it.
BindBroks ==
  /\ pc = "given" /\ NextLink
  /\ broks' = IF kept = None THEN broks ELSE [broks EXCEPT ![Head(todo)] = kept]
  /\ kept' = None
  /\ UNCHANGED <<ready, made, initialized, link, gotInitial, external, modules, history,
                 faults, nfaults>>

\* setup_new_conf of the broker: the broks stay, the initial ones are asked again.
SetupBroker ==
  /\ pc = "begin" /\ Fault({"broker"})
  /\ gotInitial' = FALSE /\ link' = [s \in Links |-> "alive"]
  /\ UNCHANGED <<scheduler, kept, pc, todo, external, modules, history>>

-----------------------------------------------------------------------------
(* The modules *)

\* check_alive_instances: a process that died, or a queue that is too long
Failed(m) ==
  /\ toRestart[m] = 0
  /\ \/ process[m] = "dead"
     \/ MaxQueue # 0 /\ queue[m] # None /\ Len(queue[m]) > MaxQueue

\* clear_queues
ClearQueues(failed) == [m \in Modules |-> IF m \in failed THEN None ELSE queue[m]]

\* set_to_restart: nothing says that a module is in the list already.
SetToRestart(ms) == [m \in Modules |-> IF m \in ms THEN toRestart[m] + 1 ELSE toRestart[m]]

\* try_instance_init, unless it is too early after the last try: new queues are made,
\* whatever init() answers then. A second entry of a module is always too early.
TryInstanceInit(tried) ==
  /\ queue' = [m \in Modules |->
                 IF m \in tried THEN <<>> ELSE ClearQueues({x \in Modules : Failed(x)})[m]]
  /\ early' = [m \in Modules |-> IF m \in tried THEN InitPeriod
                                 ELSE IF early[m] > 0 THEN early[m] - 1 ELSE 0]

\* The process of a module as it is, with the queue it has.
Process(m) ==
  [read |-> received[m], queue |-> IF process[m] = "live" THEN queue[m] ELSE <<>>]

\* The queues of these modules were cleared or made anew: the manager closes nothing, and a
\* process that lives goes on with the queue it has. One without a brok tells nothing.
SetAside(ms) ==
  /\ old' = [m \in Modules |->
               IF m \in ms /\ \E bs \in {received[m]} \cup ToSet(Process(m).queue) : bs # <<>>
               THEN Append(old[m], Process(m)) ELSE old[m]]
  /\ received' = [m \in Modules |-> IF m \in ms THEN <<>> ELSE received[m]]

\* start: the reference to the process there was is just forgotten, none is stopped.
Start(ms, others) ==
  process' = [m \in Modules |-> IF m \in ms THEN "live"
                                ELSE IF m \in others THEN "dead" ELSE process[m]]

\* check_and_del_zombie_modules, then try_to_restart_deads. The modules of refused fail to
\* initialize.
CheckModules ==
  /\ pc = "check" /\ pc' = "get" /\ todo' = Schedulers
  /\ LET list == SetToRestart({m \in Modules : Failed(m)})
         tried == {m \in Modules : list[m] > 0 /\ early[m] <= 1}
         aside == tried \cup {m \in Modules : Failed(m)}
     IN \E refused \in SUBSET tried :
          /\ TryInstanceInit(tried) /\ SetAside(aside) /\ Start(tried \ refused, aside)
          /\ toRestart' = [m \in Modules |-> IF m \in tried \ refused THEN list[m] - 1 ELSE list[m]]
          /\ faults' = faults \cup {m \in Modules : list[m] > 0}
  /\ UNCHANGED <<scheduler, kept, link, gotInitial, external, managed, lost, nfaults>>

\* Mutant: the broks that a turn had no time for are sent again in the next one.
Sent_Again(bs) == bs

\* "No more need to send them": to_be_sent becomes False.
Sent(bs) == [k \in DOMAIN bs |-> [bs[k] EXCEPT !.sent = TRUE]]

\* The broks that were not sent yet go to every external module, as one list, even an
\* empty one, those to restart included: a queue that is None raises, and the module is put in
\* to_restart once more.
SendBroks ==
  /\ pc = "send" /\ pc' = "manage"
  /\ LET list == Unsent(external)
         broken == {m \in Modules : queue[m] = None}
     IN /\ queue' = [m \in Modules |-> IF m \in broken THEN None ELSE Append(queue[m], list)]
        /\ toRestart' = SetToRestart(broken)
        /\ faults' = faults \cup broken
  /\ external' = Sent(external)
  /\ UNCHANGED <<scheduler, kept, link, todo, gotInitial, process, early, old, history, nfaults>>

\* manage_brok, for broks that are taken from the list. When it raises for one of them, the
\* module is set to restart, and as an internal module it is given the next one all the same.
ManageBrok(bs) ==
  /\ managed' = IF Internal THEN managed \o bs ELSE managed
  /\ \/ UNCHANGED <<lost, faults, nfaults>>
     \/ /\ Internal /\ Fault({})
        /\ \E b \in ToSet(bs) : lost' = lost \cup {<<b.from, b.n>>}

\* The internal modules manage the first broks, until 0.8 seconds are over.
ManageBroks ==
  /\ pc = "manage" /\ pc' = "begin"
  /\ \E k \in (IF external = <<>> THEN {0} ELSE 1..Len(external)) :
       /\ external' = SubSeq(external, k + 1, Len(external))
       /\ ManageBrok(SubSeq(external, 1, k))
  /\ UNCHANGED <<scheduler, kept, link, todo, gotInitial, modules, received>>

\* The process of a module reads its queue.
ReadQueue(m) ==
  /\ process[m] = "live" /\ queue[m] # None /\ queue[m] # <<>>
  /\ received' = [received EXCEPT ![m] = @ \o Head(queue[m])]
  /\ queue' = [queue EXCEPT ![m] = Tail(@)]
  /\ UNCHANGED <<scheduler, kept, link, pc, todo, gotInitial, external, process, toRestart,
                 early, old, managed, lost, faults, nfaults>>

\* A former process reads the queue it still has.
ReadOld(m) ==
  /\ \E j \in DOMAIN old[m] :
       /\ old[m][j].queue # <<>>
       /\ old' = [old EXCEPT ![m][j] = [read |-> @.read \o Head(@.queue), queue |-> Tail(@.queue)]]
  /\ UNCHANGED <<scheduler, kept, link, pc, todo, gotInitial, external, queue, process,
                 toRestart, early, history, faults, nfaults>>

ProcessDies(m) ==
  /\ process[m] = "live" /\ Fault({m})
  /\ process' = [process EXCEPT ![m] = "dead"]
  /\ UNCHANGED <<scheduler, kept, link, pc, todo, gotInitial, external, queue, toRestart,
                 early, old, history>>

Turn == \/ Begin \/ AskInitialBroks \/ CheckModules \/ GetNewBroks \/ BindBroks \/ SendBroks
        \/ ManageBroks

Next ==
  \/ \E s \in Links : AddBrok(s) \/ SendBroksToModules(s) \/ CleanQueues(s) \/ SetupScheduler(s)
  \/ Turn \/ SetupBroker
  \/ \E m \in Modules : ReadQueue(m) \/ ReadOld(m) \/ ProcessDies(m)

Spec == Init /\ [][Next]_vars

\* The loops of the broker and of the schedulers go on, the arbiter configures every
\* scheduler, and a process reads its queue.
FairSpec ==
  /\ Spec /\ WF_vars(Turn)
  /\ \A s \in Links : WF_vars(SendBroksToModules(s)) /\ WF_vars(~ready[s] /\ SetupScheduler(s))
  /\ \A m \in Modules : WF_vars(ReadQueue(m))

-----------------------------------------------------------------------------
(* Properties *)

TypeOK ==
  /\ ready \in [Links -> BOOLEAN] /\ made \in [Links -> Nat]
  /\ broks \in [Links -> Seq([n : Nat, sent : BOOLEAN])] /\ initialized \in [Links -> BOOLEAN]
  /\ kept \in Seq([n : Nat, sent : BOOLEAN]) \cup {None} /\ (pc # "given" => kept = None)
  /\ link \in [Links -> {"alive", "unreachable", "dead"}]
  /\ pc \in {"begin", "initial", "check", "get", "given", "send", "manage"}
  /\ todo \in Seq(Links) /\ (pc \in {"initial", "get", "given"} => todo # <<>>)
  /\ gotInitial \in BOOLEAN /\ external \in Seq(BrokTypes)
  /\ queue \in [Modules -> Seq(Seq(BrokTypes)) \cup {None}]
  /\ process \in [Modules -> {"live", "dead"}]
  /\ \A m \in Modules : process[m] = "live" => queue[m] # None
  /\ toRestart \in [Modules -> Nat] /\ early \in [Modules -> 0..InitPeriod]
  /\ old \in [Modules -> Seq([read : Seq(BrokTypes), queue : Seq(Seq(BrokTypes))])]
  /\ managed \in Seq(BrokTypes) /\ received \in [Modules -> Seq(BrokTypes)]
  /\ nfaults \in 0..MaxFaults

Increasing(seq) ==
  \A j, k \in DOMAIN seq : (j < k /\ seq[j].from = seq[k].from) => seq[j].n < seq[k].n

\* What is in A was made before what is in B, for the broks of one scheduler.
Ahead(A, B) == \A a \in A, b \in B : a.from = b.from => a.n < b.n

\* A module never gets a brok twice, and each process of it gets those of one scheduler in
\* the order they were made, although the turns end before every brok is managed and modules
\* restart. The queue that a process is left with has nothing that a later process gets: the
\* two side by side are the only reason for the module to get an older brok after a newer one.
InOrderOnce ==
  /\ Increasing(managed)
  /\ \A m \in Modules :
       /\ Increasing(received[m])
       /\ \A j \in DOMAIN old[m] :
            /\ Increasing(old[m][j].read) /\ Ahead(ToSet(old[m][j].read), ToSet(received[m]))
            /\ \A k \in DOMAIN old[m] :
                 j < k => Ahead(ToSet(old[m][j].read), ToSet(old[m][k].read))

Got(m) == ToSet(received[m]) \cup (IF queue[m] = None THEN {}
                                   ELSE UNION {ToSet(queue[m][k]) : k \in DOMAIN queue[m]})

\* What the internal module managed was given to each external module that never
\* failed: the modules of the broker see the same broks.
SameBroks ==
  \A m \in Modules \ faults :
    {<<b.from, b.n>> : b \in ToSet(managed)} \subseteq {<<b.from, b.n>> : b \in Got(m)}

\* The broks that the link of a scheduler has when a list that is to be bound is bound.
Remaining(s) == IF Rebinding(s) THEN kept ELSE broks[s]

\* The broks of a scheduler are never lost while it does not fail, whatever happens to the
\* broker and its modules: each is still in the scheduler, in the broker or was given to the
\* internal module. The only ones that may be missing are those added while give_broks binds
\* the list it made before.
NothingLost ==
  Internal => \A s \in Links \ faults :
    \A n \in 1..made[s] :
      \/ \E b \in ToSet(Remaining(s)) : b.n = n
      \/ \E b \in ToSet(external) \cup ToSet(managed) : b.from = s /\ b.n = n
      \/ <<s, n>> \in lost

\* A brok is managed in the end, unless it was added to the list that give_broks drops or
\* manage_brok raised for it. All the schedulers count: while one of them has no initial
\* broks to give, the broker gets nothing from the others.
Managed ==
  Internal => \A s \in Links : \A n \in 1..(MaxBroks[s] + 1) :
    (made[s] >= n) ~> (\/ \E b \in ToSet(managed) : b.from = s /\ b.n = n
                       \/ <<s, n>> \in lost
                       \/ (Links \cup {"broker"}) \cap faults # {})
=============================================================================
