------------------------------ MODULE Commands ------------------------------
(***************************************************************************)
(* The way of an external command: it is queued in the arbiter (the        *)
(* command endpoints) or by a module of the receiver, the receiver gets    *)
(* it, finds the schedulers it is for and pushes it to them, and a thread  *)
(* of the scheduler runs the handlers of a whole batch under the lock of   *)
(* the daemon. The main thread of the receiver makes one request at a      *)
(* time; a request may be lost or its answer come too late, a scheduler    *)
(* may crash, and a command may kill the receiver.                         *)
(***************************************************************************)
EXTENDS CommandTable, Sequences, SequencesExt

CONSTANTS
  Schedulers,    \* the scheduler links of the receiver, in their order
  Lines,         \* the command lines: [to, cmd], to a scheduler, "all" or "nobody"
  MaxAttempts,   \* max_check_attempts of a link
  MaxCommands,   \* bound: commands that are sent
  MaxFaults      \* bound: requests that fail and schedulers that crash

Peers   == ToSet(Schedulers) \cup {"arbiter"}
Sources == {"arbiter", "module"}

ASSUME CommandsConstants ==
  /\ Schedulers \in Seq(ToSet(Schedulers))
  /\ \A l \in Lines : l.cmd \in Commands /\ l.to \in ToSet(Schedulers) \cup {"all", "nobody"}
  /\ MaxAttempts \in Nat \ {0} /\ MaxCommands \in Nat /\ MaxFaults \in Nat

VARIABLES
  lines,        \* every command so far; a command is its index here
  queue,        \* source -> commands waiting: external_commands of the arbiter,
                \* the from_q of the modules
  unprocessed,  \* unprocessed_external_commands of the receiver
  pushed,       \* scheduler -> pushed_commands of its link
  kept,         \* external_commands of the receiver, with the scheduler
  link,         \* peer -> "alive", "unreachable" or "dead"
  attempt,      \* peer -> failed attempts of the link
  pc,           \* where the main thread of the receiver is
  todo,         \* the schedulers it has still to push to
  answered,     \* the scheduler answered the request the receiver waits for
  batches,      \* scheduler -> the requests that wait for the lock
  sched,        \* scheduler -> "ready", "unconfigured" or "down"
  executed,     \* history: scheduler -> the commands it ran, in order
  faults,       \* history: the peers that failed, and "receiver"
  nfaults

receiver == <<unprocessed, pushed, kept, link, attempt, pc, todo>>
vars == <<lines, queue, receiver, answered, batches, sched, executed, faults, nfaults>>

Ids == 1..Len(lines)
\* The schedulers that a command is for.
For(i) == {s \in ToSet(Schedulers) : lines[i].to \in {s, "all"}}

Init ==
  /\ lines = <<>> /\ queue = [q \in Sources |-> <<>>]
  /\ unprocessed = <<>> /\ pushed = [s \in ToSet(Schedulers) |-> <<>>] /\ kept = {}
  /\ link = [p \in Peers |-> "alive"] /\ attempt = [p \in Peers |-> 0]
  /\ pc = "restore" /\ todo = <<>> /\ answered = FALSE
  /\ batches = [s \in ToSet(Schedulers) |-> {}]
  /\ sched = [s \in ToSet(Schedulers) |-> "ready"]
  /\ executed = [s \in ToSet(Schedulers) |-> <<>>] /\ faults = {} /\ nfaults = 0

-----------------------------------------------------------------------------
(* The links *)

\* add_failed_check_attempt, set_dead
Fail(p) ==
  LET dead == attempt[p] + 1 >= MaxAttempts
  IN /\ link' = [link EXCEPT ![p] = IF dead THEN "dead" ELSE "unreachable"]
     /\ attempt' = [attempt EXCEPT ![p] = IF dead THEN 0 ELSE @ + 1]

SetDead(p) ==
  /\ link' = [link EXCEPT ![p] = "dead"]
  /\ attempt' = [attempt EXCEPT ![p] = 0]

Fault(ps) == /\ nfaults < MaxFaults
             /\ nfaults' = nfaults + 1
             /\ faults' = faults \cup ps

-----------------------------------------------------------------------------
(* The senders of commands *)

\* The endpoints command and host of the arbiter, a module of the receiver.
Add(q, l) ==
  /\ Len(lines) < MaxCommands
  /\ lines' = Append(lines, [to |-> l.to, cmd |-> l.cmd, from |-> q])
  /\ queue' = [queue EXCEPT ![q] = Append(@, Len(lines) + 1)]
  /\ UNCHANGED <<receiver, answered, batches, sched, executed, faults, nfaults>>

-----------------------------------------------------------------------------
(* The main loop of the receiver *)

\* do_main_loop tries to restore the connections that are dead; the arbiter answers.
RestoreConnections ==
  /\ pc = "restore" /\ pc' = "get"
  /\ LET restored == {p \in Peers : link[p] = "dead" /\ (p = "arbiter" \/ sched[p] # "down")}
     IN /\ link' = [p \in Peers |-> IF p \in restored THEN "alive" ELSE link[p]]
        /\ attempt' = [p \in Peers |-> IF p \in restored THEN 0 ELSE attempt[p]]
  /\ UNCHANGED <<lines, queue, unprocessed, pushed, kept, todo, answered, batches, sched,
                 executed, faults, nfaults>>

\* Mutant: the loop over the queue is left before its first object.
GetObjects_Left ==
  /\ pc = "get" /\ pc' = "fetch"
  /\ UNCHANGED <<lines, queue, unprocessed, pushed, kept, link, attempt, todo, answered, batches,
                 sched, executed, faults, nfaults>>

\* get_objects_from_from_queues
GetObjects ==
  /\ pc = "get" /\ pc' = "fetch"
  /\ unprocessed' = unprocessed \o queue["module"]
  /\ queue' = [queue EXCEPT !["module"] = <<>>]
  /\ UNCHANGED <<lines, pushed, kept, link, attempt, todo, answered, batches, sched, executed,
                 faults, nfaults>>

\* Mutant: the last command is taken off the list, the first ones stay.
TakeFromArbiter_Kept == queue' = [queue EXCEPT !["arbiter"] = IF @ = <<>> THEN @ ELSE Front(@)]

\* get_external_commands of the arbiter: get and clear.
TakeFromArbiter == queue' = [queue EXCEPT !["arbiter"] = <<>>]

\* get_external_commands_from_arbiters: an answer that is lost takes the commands
\* with it, if the arbiter got the request at all.
Fetch ==
  /\ pc = "fetch" /\ pc' = "resolve"
  /\ \/ /\ link["arbiter"] = "alive"
        /\ unprocessed' = unprocessed \o queue["arbiter"]
        /\ TakeFromArbiter
        /\ UNCHANGED <<link, attempt, faults, nfaults>>
     \/ /\ link["arbiter"] = "alive"
        /\ TakeFromArbiter \/ UNCHANGED queue
        /\ Fault({"arbiter"}) /\ Fail("arbiter")
        /\ UNCHANGED unprocessed
     \/ /\ link["arbiter"] = "unreachable"
        /\ Fail("arbiter")
        /\ UNCHANGED <<unprocessed, queue, faults, nfaults>>
     \/ /\ link["arbiter"] = "dead"
        /\ UNCHANGED <<unprocessed, queue, link, attempt, faults, nfaults>>
  /\ UNCHANGED <<lines, pushed, kept, todo, answered, batches, sched, executed>>

\* RESTART_PROGRAM and RELOAD_CONFIG are for the receiver itself, which looks for
\* their command line in the table of the class: the exception ends the daemon.
Deadly(i) == lines[i].cmd.kind = "run"

\* What resolve_command does with a command: one for a host or service that a scheduler
\* manages (search_host_and_dispatch), or a global one, is queued for it. The others,
\* malformed or for an unknown host, end in a log.
Route(i) ==
  [s \in ToSet(Schedulers) |-> IF s \in For(i) THEN Append(pushed[s], i) ELSE pushed[s]]

\* push_external_commands_to_schedulers, one turn of its first loop; what it does when
\* there is nothing to process, or no scheduler, too.
Resolve ==
  /\ pc = "resolve"
  /\ \/ /\ unprocessed = <<>> /\ pc' = "restore"
        /\ UNCHANGED <<unprocessed, pushed, kept, todo, faults>>
     \/ /\ unprocessed # <<>> /\ ~Deadly(Head(unprocessed))
        /\ pushed' = Route(Head(unprocessed))
        /\ unprocessed' = Tail(unprocessed) /\ todo' = Schedulers
        /\ pc' = IF Len(unprocessed) > 1 THEN "resolve"
                 ELSE IF Schedulers = <<>> THEN "restore" ELSE "push"
        /\ UNCHANGED <<kept, faults>>
     \/ /\ unprocessed # <<>> /\ Deadly(Head(unprocessed))
        /\ pc' = "died" /\ faults' = faults \cup {"receiver"}
        /\ pushed' = [s \in ToSet(Schedulers) |-> <<>>] /\ todo' = <<>>
        /\ unprocessed' = <<>> /\ kept' = {}
  /\ UNCHANGED <<lines, queue, link, attempt, answered, batches, sched, executed, nfaults>>

\* pushed_commands is emptied whatever happened, and what was not sent is kept.
Pushed(s, sent) ==
  /\ pushed' = [pushed EXCEPT ![s] = <<>>]
  /\ kept' = IF sent THEN kept ELSE kept \cup {<<i, s>> : i \in ToSet(pushed[s])}
  /\ todo' = Tail(todo)
  /\ pc' = IF Len(todo) = 1 THEN "restore" ELSE "push"

\* One turn of the loop over the links: nothing to push, or a request that is not
\* sent, or one that reaches the scheduler and is waited for.
Push ==
  /\ pc = "push"
  /\ LET s == Head(todo)
     IN \/ /\ pushed[s] = <<>> /\ Pushed(s, TRUE)
           /\ UNCHANGED <<link, attempt, batches, faults>>
        \/ /\ pushed[s] # <<>> /\ link[s] = "dead" /\ Pushed(s, FALSE)
           /\ faults' = faults \cup {s}
           /\ UNCHANGED <<link, attempt, batches>>
        \/ /\ pushed[s] # <<>> /\ link[s] = "unreachable" /\ Pushed(s, FALSE) /\ Fail(s)
           /\ faults' = faults \cup {s}
           /\ UNCHANGED batches
        \/ /\ pushed[s] # <<>> /\ link[s] = "alive" /\ sched[s] = "down"
           /\ Pushed(s, FALSE) /\ SetDead(s)
           /\ faults' = faults \cup {s}
           /\ UNCHANGED batches
        \/ /\ pushed[s] # <<>> /\ link[s] = "alive" /\ sched[s] # "down"
           /\ batches' = [batches EXCEPT ![s] = @ \cup {[cmds |-> pushed[s], awaited |-> TRUE]}]
           /\ pc' = "wait"
           /\ UNCHANGED <<pushed, kept, todo, link, attempt, faults>>
  /\ UNCHANGED <<lines, queue, unprocessed, answered, sched, executed, nfaults>>

Answered ==
  /\ pc = "wait" /\ answered
  /\ Pushed(Head(todo), TRUE) /\ answered' = FALSE
  /\ UNCHANGED <<lines, queue, unprocessed, link, attempt, batches, sched, executed, faults,
                 nfaults>>

\* The request times out; it may still be running, or be run later.
TimeOut ==
  /\ pc = "wait"
  /\ LET s == Head(todo)
     IN /\ Fault({s}) /\ Fail(s) /\ Pushed(s, FALSE)
        /\ batches' = [batches EXCEPT ![s] = {[b EXCEPT !.awaited = FALSE] : b \in @}]
  /\ answered' = FALSE
  /\ UNCHANGED <<lines, queue, unprocessed, sched, executed>>

\* The daemon is launched again, with its configuration.
Relaunch ==
  /\ pc = "died" /\ pc' = "restore"
  /\ link' = [p \in Peers |-> IF p = "arbiter" \/ sched[p] # "down" THEN "alive" ELSE "dead"]
  /\ attempt' = [p \in Peers |-> 0]
  /\ UNCHANGED <<lines, queue, unprocessed, pushed, kept, todo, answered, batches, sched,
                 executed, faults, nfaults>>

-----------------------------------------------------------------------------
(* The schedulers *)

\* Mutant: the list is emptied from its end, pop() by pop().
Ran_Popped(cmds) == Reverse(cmds)

\* The commands of a batch that run: the whole loop is in one try, and the exception
\* of a handler ends it.
Ran(cmds) ==
  LET raising == {k \in DOMAIN cmds : Raises(lines[cmds[k]].cmd)}
  IN IF raising = {} THEN cmds ELSE SubSeq(cmds, 1, Min(raising))

\* _run_external_commands and run_external_commands: a thread that gets the lock.
RunBatch(s, b) ==
  /\ b \in batches[s] /\ sched[s] # "down"
  /\ batches' = [batches EXCEPT ![s] = @ \ {b}]
  /\ answered' = (answered \/ b.awaited)
  /\ IF sched[s] = "ready"
     THEN /\ executed' = [executed EXCEPT ![s] = @ \o Ran(b.cmds)]
          /\ faults' = IF Len(Ran(b.cmds)) < Len(b.cmds) THEN faults \cup {s} ELSE faults
     ELSE /\ faults' = faults \cup {s} /\ UNCHANGED executed
  /\ UNCHANGED <<lines, queue, receiver, sched, nfaults>>

Crash(s) ==
  /\ sched[s] # "down" /\ sched' = [sched EXCEPT ![s] = "down"]
  /\ Fault({s})
  /\ batches' = [batches EXCEPT ![s] = {}]
  /\ UNCHANGED <<lines, queue, receiver, answered, executed>>

Restart(s) ==
  /\ sched[s] = "down" /\ sched' = [sched EXCEPT ![s] = "unconfigured"]
  /\ UNCHANGED <<lines, queue, receiver, answered, batches, executed, faults, nfaults>>

\* setup_new_conf gives the scheduler an external commands manager.
SetupNewConf(s) ==
  /\ sched[s] = "unconfigured" /\ sched' = [sched EXCEPT ![s] = "ready"]
  /\ UNCHANGED <<lines, queue, receiver, answered, batches, executed, faults, nfaults>>

\* The scheduler is gone: the request of the receiver fails.
Broken ==
  /\ pc = "wait" /\ ~answered
  /\ LET s == Head(todo)
     IN /\ ~\E b \in batches[s] : b.awaited
        /\ SetDead(s) /\ Pushed(s, FALSE)
  /\ UNCHANGED <<lines, queue, unprocessed, answered, batches, sched, executed, faults, nfaults>>

Turn == RestoreConnections \/ GetObjects \/ Fetch \/ Resolve \/ Push \/ Answered \/ Broken
        \/ Relaunch

Next ==
  \/ \E q \in Sources, l \in Lines : Add(q, l)
  \/ Turn \/ TimeOut
  \/ \E s \in ToSet(Schedulers) :
       \/ \E b \in batches[s] : RunBatch(s, b)
       \/ Crash(s) \/ Restart(s) \/ SetupNewConf(s)

Spec == Init /\ [][Next]_vars

\* The main thread of the receiver runs on, a thread that waits for the lock gets it,
\* and a scheduler that crashed is launched and configured again.
FairSpec ==
  /\ Spec /\ WF_vars(Turn)
  /\ \A s \in ToSet(Schedulers) :
       /\ WF_vars(\E b \in batches[s] : RunBatch(s, b))
       /\ WF_vars(Restart(s) \/ SetupNewConf(s))

-----------------------------------------------------------------------------
(* Properties *)

TypeOK ==
  /\ lines \in Seq([to : ToSet(Schedulers) \cup {"all", "nobody"}, cmd : Commands, from : Sources])
  /\ queue \in [Sources -> Seq(Ids)] /\ unprocessed \in Seq(Ids)
  /\ pushed \in [ToSet(Schedulers) -> Seq(Ids)] /\ kept \in SUBSET (Ids \X ToSet(Schedulers))
  /\ link \in [Peers -> {"alive", "unreachable", "dead"}]
  /\ attempt \in [Peers -> 0..(MaxAttempts - 1)]
  /\ pc \in {"restore", "get", "fetch", "resolve", "push", "wait", "died"}
  /\ todo \in Seq(ToSet(Schedulers)) /\ (pc \in {"push", "wait"} => todo # <<>>)
  /\ answered \in BOOLEAN
  /\ batches \in [ToSet(Schedulers) -> SUBSET [cmds : Seq(Ids), awaited : BOOLEAN]]
  /\ sched \in [ToSet(Schedulers) -> {"ready", "unconfigured", "down"}]
  /\ executed \in [ToSet(Schedulers) -> Seq(Ids)]
  /\ faults \in SUBSET (Peers \cup {"receiver"}) /\ nfaults \in 0..MaxFaults

\* A scheduler runs a command at most once, and only one that is for it, although
\* requests time out, connections are made again and the receiver forgets what it sent.
AtMostOnce ==
  \A s \in ToSet(Schedulers) :
    /\ IsInjective(executed[s])
    /\ \A i \in ToSet(executed[s]) : s \in For(i)

\* The commands of one source run in the order they were sent, unless a request to
\* that scheduler failed: a batch that timed out may run after the next one.
InOrder ==
  \A s \in ToSet(Schedulers) \ faults :
    \A j, k \in DOMAIN executed[s] :
      (j < k /\ lines[executed[s][j]].from = lines[executed[s][k]].from)
         => executed[s][j] < executed[s][k]

\* A command for a scheduler does run there, in the end, unless the receiver, the link with
\* the arbiter or that scheduler fails: the failure of one scheduler costs the others nothing.
Executed ==
  \A s \in ToSet(Schedulers) : \A i \in 1..MaxCommands :
    (i \in Ids /\ s \in For(i))
      ~> (i \in ToSet(executed[s]) \/ faults \cap {"receiver", "arbiter", s} # {})
=============================================================================
