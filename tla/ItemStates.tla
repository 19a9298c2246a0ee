----------------------------- MODULE ItemStates -----------------------------
(***************************************************************************)
(* What consume_result does to an item: its state, the SOFT and HARD state *)
(* types, and the problem/impact hierarchy. A root problem registers       *)
(* itself in everything that depends on it, recursively; an impacted item  *)
(* is shown UNREACHABLE and its own state is kept aside                    *)
(* (enable_problem_impacts_states_change).                                 *)
(*                                                                         *)
(* Results are consumed one at a time by the main loop. Registering a      *)
(* problem is a recursion over the dependencies: the module keeps its call *)
(* stack, one step per call. Business rules, acknowledgements, downtimes   *)
(* and notifications do not change these variables.                        *)
(***************************************************************************)
EXTENDS Integers, Sequences

CONSTANTS
  Items,        \* the hosts and the services
  ActDependOf,  \* item -> the hosts of its act_depend_of
  Rank,         \* item -> its distance from the root of the dependencies
  MaxAttempts,  \* item -> max_check_attempts
  Volatile,     \* the services with is_volatile
  None,         \* no item
  MaxRestarts   \* bound: restarts of the scheduler

\* Hosts.is_correct refuses a loop in the parents; a service depends on its host.
ASSUME ItemConstants ==
  /\ ActDependOf \in [Items -> SUBSET Items]
  /\ Rank \in [Items -> Nat]
  /\ \A i \in Items : \A d \in ActDependOf[i] : Rank[d] < Rank[i]
  /\ MaxAttempts \in [Items -> Nat \ {0}]
  /\ Volatile \subseteq Items
  /\ None \notin Items
  /\ MaxRestarts \in Nat

VARIABLES
  state,    \* "ok" (UP, OK), "bad" (DOWN, WARNING, CRITICAL, UNKNOWN), "unreachable"
  kind,     \* state_type
  attempt,  \* attempt
  before,   \* state_before_impact
  own,      \* state_changed_since_impact
  problem,  \* is_problem
  impacts,  \* impacts
  sources,  \* source_problems; is_impact is its non-emptiness
  root,     \* the item that runs set_myself_as_problem
  stack,    \* its calls of register_a_problem: the dependents left to visit
  found,    \* the impacts those calls have returned
  fails,    \* history: failing results in a row, up to max_check_attempts
  restarts

itemVars == <<state, kind, attempt, before, own>>
linkVars == <<problem, impacts, sources>>
callVars == <<root, stack, found>>
vars     == <<itemVars, linkVars, callVars, fails, restarts>>

States == {"ok", "bad", "unreachable"}

TypeOK ==
  /\ state \in [Items -> States]
  /\ kind \in [Items -> {"SOFT", "HARD"}]
  /\ attempt \in [Items -> Nat]
  /\ \A i \in Items : attempt[i] <= MaxAttempts[i]
  /\ before \in [Items -> States \cup {"pending"}]
  /\ own \in [Items -> BOOLEAN]
  /\ problem \in [Items -> BOOLEAN]
  /\ impacts \in [Items -> SUBSET Items]
  /\ sources \in [Items -> SUBSET Items]
  /\ root \in Items \cup {None}
  /\ stack \in Seq(SUBSET Items)
  /\ found \in SUBSET Items
  /\ fails \in [Items -> Nat]
  /\ restarts \in 0..MaxRestarts

Init ==
  /\ state = [i \in Items |-> "ok"]
  /\ kind = [i \in Items |-> "HARD"]
  /\ attempt = [i \in Items |-> 0]
  /\ before = [i \in Items |-> "pending"]
  /\ own = [i \in Items |-> FALSE]
  /\ problem = [i \in Items |-> FALSE]
  /\ impacts = [i \in Items |-> {}]
  /\ sources = [i \in Items |-> {}]
  /\ root = None /\ stack = <<>> /\ found = {}
  /\ fails = [i \in Items |-> 0]
  /\ restarts = 0

-----------------------------------------------------------------------------
(* Helpers *)

IsImpact(i) == sources[i] # {}

\* The last_state that set_state_from_exit_status keeps: an item that is shown
\* UNREACHABLE as an impact has its own state in state_before_impact.
LastState(i) == IF IsImpact(i) /\ ~own[i] THEN before[i] ELSE state[i]

\* act_depend_of_me. A host's failure criteria are d and x: the dependents
\* are impacted while it is DOWN or UNREACHABLE.
DependOfMe(i) == { d \in Items : i \in ActDependOf[d] }
Impacted(i, s) == IF s # "ok" THEN DependOfMe(i) ELSE {}

\* is_enable_action_dependent: one of the dependencies does not explain the
\* failure. When none of them does, check_and_set_unreachability applies.
EnableAction(i) ==
  ActDependOf[i] = {} \/ \E d \in ActDependOf[i] : state[d] = "ok"

IsMax(i, n) == n >= MaxAttempts[i]

\* add_attempt, not called for a check that another item's check asked for.
AddAttempt(i, dependent) ==
  IF dependent \/ IsMax(i, attempt[i]) THEN attempt[i] ELSE attempt[i] + 1

-----------------------------------------------------------------------------
(* Problems and impacts *)

\* unregister_a_problem(p) in each of p's impacts, and no_more_a_problem. The
\* uuid is removed from each source_problems list, an exception if it is not
\* there (ImpactsLinked). An item with no problem left shows its own state
\* again, unless a result has replaced it.
SourcesWithout(p) ==
  [z \in Items |-> IF z \in impacts[p] THEN sources[z] \ {p} ELSE sources[z]]

Restored(p, z) == z \in impacts[p] /\ sources[z] = {p} /\ ~own[z]

StatesWithout(p) ==
  [z \in Items |-> IF problem[p] /\ Restored(p, z) THEN before[z] ELSE state[z]]

ImpactsWithout(p) == [impacts EXCEPT ![p] = {}]

\* The call in progress, and the call once it has visited y.
Top == stack[Len(stack)]
Visited(y) == [stack EXCEPT ![Len(stack)] = @ \ {y}]

\* register_a_problem of the dependent y that already knows the problem.
RegisterKnown(y) ==
  /\ stack # <<>> /\ y \in Top /\ root \in sources[y]
  /\ stack' = Visited(y)
  /\ UNCHANGED <<itemVars, linkVars, root, found, fails, restarts>>

\* Mutant: an item that becomes an impact keeps its own impacts.
BecomeImpact_StaysProblem(y) ==
  /\ problem' = [problem EXCEPT ![y] = FALSE]
  /\ sources' = [sources EXCEPT ![y] = @ \cup {root}]
  /\ state' = [state EXCEPT ![y] = IF IsImpact(y) THEN @ ELSE "unreachable"]
  /\ before' = [before EXCEPT ![y] = IF IsImpact(y) THEN @ ELSE state[y]]
  /\ own' = [own EXCEPT ![y] = IsImpact(y) /\ @]
  /\ stack' = Append(Visited(y), Impacted(y, state'[y]))
  /\ UNCHANGED impacts

\* Mutant: the state is put aside again for each new problem.
BecomeImpact_Again(y) ==
  /\ problem' = [problem EXCEPT ![y] = FALSE]
  /\ impacts' = IF problem[y] THEN ImpactsWithout(y) ELSE impacts
  /\ sources' = [IF problem[y] THEN SourcesWithout(y) ELSE sources
                   EXCEPT ![y] = @ \cup {root}]
  /\ state' = [StatesWithout(y) EXCEPT ![y] = "unreachable"]
  /\ before' = [before EXCEPT ![y] = state[y]]
  /\ own' = [own EXCEPT ![y] = FALSE]
  /\ stack' = Append(Visited(y), Impacted(y, "unreachable"))

\* If the item was a problem itself, it is no more; if it was no impact, it is
\* shown UNREACHABLE; then it passes the problem on to what depends on it.
BecomeImpact(y) ==
  LET was == problem[y]
      shown == IF IsImpact(y) THEN state[y] ELSE "unreachable"
  IN /\ problem' = [problem EXCEPT ![y] = FALSE]
     /\ impacts' = IF was THEN ImpactsWithout(y) ELSE impacts
     /\ sources' = [IF was THEN SourcesWithout(y) ELSE sources
                      EXCEPT ![y] = @ \cup {root}]
     /\ state' = [StatesWithout(y) EXCEPT ![y] = shown]
     /\ before' = [before EXCEPT ![y] = IF IsImpact(y) THEN @ ELSE state[y]]
     /\ own' = [own EXCEPT ![y] = IsImpact(y) /\ @]
     /\ stack' = Append(Visited(y), Impacted(y, shown))

\* Mutant: an item that is already an impact does not look at a new problem.
Register_FirstOnly(y) ==
  /\ stack # <<>> /\ y \in Top /\ root \notin sources[y]
  /\ IF IsImpact(y)
     THEN /\ stack' = Visited(y)
          /\ UNCHANGED <<state, before, own, linkVars, found>>
     ELSE BecomeImpact(y) /\ found' = found \cup {y}
  /\ UNCHANGED <<kind, attempt, root, fails, restarts>>

\* register_a_problem of another dependent.
Register(y) ==
  /\ stack # <<>> /\ y \in Top /\ root \notin sources[y]
  /\ BecomeImpact(y)
  /\ found' = found \cup {y}
  /\ UNCHANGED <<kind, attempt, root, fails, restarts>>

\* A call has visited all its dependents and returns.
Return ==
  /\ stack # <<>> /\ Top = {}
  /\ stack' = SubSeq(stack, 1, Len(stack) - 1)
  /\ UNCHANGED <<itemVars, linkVars, root, found, fails, restarts>>

\* The end of set_myself_as_problem.
SetImpacts ==
  /\ root # None /\ stack = <<>>
  /\ impacts' = [impacts EXCEPT ![root] = @ \cup found]
  /\ root' = None /\ found' = {}
  /\ UNCHANGED <<itemVars, problem, sources, stack, fails, restarts>>

\* set_myself_as_problem of an item whose new state is s.
SetMyselfAsProblem(i, s) ==
  /\ problem' = [problem EXCEPT ![i] = TRUE]
  /\ root' = i /\ stack' = <<Impacted(i, s)>> /\ found' = {}
  /\ UNCHANGED <<impacts, sources>>

-----------------------------------------------------------------------------
(* consume_result *)

NewStateType(i, n, k) ==
  /\ attempt' = [attempt EXCEPT ![i] = n]
  /\ kind' = [kind EXCEPT ![i] = k]

\* set_state_from_exit_status, then state_changed_since_impact.
NewState(i, s) ==
  /\ own' = [own EXCEPT ![i] = TRUE]
  /\ UNCHANGED before
  /\ fails' = [fails EXCEPT ![i] = IF s = "ok" THEN 0
                                   ELSE IF @ < MaxAttempts[i] THEN @ + 1 ELSE @]

\* from UP/OK to UP/OK
StaysOk(i) ==
  /\ root = None /\ LastState(i) = "ok"
  /\ state' = [state EXCEPT ![i] = "ok"] /\ NewState(i, "ok")
  /\ IF kind[i] = "SOFT"
     THEN NewStateType(i, attempt[i],
                       IF IsMax(i, attempt[i]) THEN "HARD" ELSE "SOFT")
     ELSE NewStateType(i, 1, "HARD")
  /\ UNCHANGED <<linkVars, callVars, restarts>>

\* Mutant: the impacts are dropped without telling them.
Recovers_DropsImpacts(i) ==
  /\ root = None /\ LastState(i) # "ok"
  /\ NewState(i, "ok") /\ NewStateType(i, 1, "HARD")
  /\ state' = [state EXCEPT ![i] = "ok"]
  /\ problem' = [problem EXCEPT ![i] = FALSE]
  /\ impacts' = ImpactsWithout(i)
  /\ UNCHANGED <<sources, callVars, restarts>>

\* from a failing state to UP/OK; no_more_a_problem after a HARD state only.
Recovers(i) ==
  /\ root = None /\ LastState(i) # "ok"
  /\ NewState(i, "ok") /\ NewStateType(i, 1, "HARD")
  /\ IF kind[i] = "HARD" /\ problem[i]
     THEN /\ state' = [StatesWithout(i) EXCEPT ![i] = "ok"]
          /\ problem' = [problem EXCEPT ![i] = FALSE]
          /\ sources' = SourcesWithout(i) /\ impacts' = ImpactsWithout(i)
     ELSE state' = [state EXCEPT ![i] = "ok"] /\ UNCHANGED linkVars
  /\ UNCHANGED <<callVars, restarts>>

\* The state of a failing item: when it has dependencies its check waited for
\* them, and the item is UNREACHABLE if all of them are down.
Failure(i, s) == IF EnableAction(i) THEN s ELSE "unreachable"

\* What follows a failing result that leaves the item in state type k.
Fails(i, s, n, k) ==
  /\ state' = [state EXCEPT ![i] = Failure(i, s)] /\ NewState(i, s)
  /\ NewStateType(i, n, k)
  /\ IF k = "HARD" /\ EnableAction(i)
     THEN SetMyselfAsProblem(i, Failure(i, s))
     ELSE UNCHANGED <<linkVars, callVars>>
  /\ UNCHANGED restarts

\* A volatile service is in a HARD state at once.
FailsVolatile(i, s) ==
  /\ root = None /\ i \in Volatile
  /\ Fails(i, s, 1, "HARD")

\* from UP/OK to a failing state
StartsFailing(i, s) ==
  /\ root = None /\ i \notin Volatile /\ LastState(i) = "ok"
  /\ Fails(i, s, 1, IF IsMax(i, 1) THEN "HARD" ELSE "SOFT")

\* Mutant: HARD comes one attempt too early.
StillFailing_Early(i, s, dependent) ==
  /\ root = None /\ i \notin Volatile /\ LastState(i) # "ok"
  /\ IF kind[i] = "SOFT"
     THEN LET n == AddAttempt(i, dependent)
          IN Fails(i, s, n, IF IsMax(i, n + 1) THEN "HARD" ELSE "SOFT")
     ELSE Fails(i, s, attempt[i], "HARD")

\* from a failing state to a failing state
StillFailing(i, s, dependent) ==
  /\ root = None /\ i \notin Volatile /\ LastState(i) # "ok"
  /\ IF kind[i] = "SOFT"
     THEN LET n == AddAttempt(i, dependent)
          IN Fails(i, s, n, IF IsMax(i, n) THEN "HARD" ELSE "SOFT")
     ELSE Fails(i, s, attempt[i], "HARD")

-----------------------------------------------------------------------------
(* Restart with the retention: state, state_type and attempt are kept, the    *)
(* problem/impact hierarchy and state_before_impact are not.                  *)

Restart ==
  /\ root = None /\ restarts < MaxRestarts
  /\ restarts' = restarts + 1
  /\ before' = [i \in Items |-> "pending"]
  /\ own' = [i \in Items |-> FALSE]
  /\ problem' = [i \in Items |-> FALSE]
  /\ impacts' = [i \in Items |-> {}]
  /\ sources' = [i \in Items |-> {}]
  /\ UNCHANGED <<state, kind, attempt, callVars, fails>>

-----------------------------------------------------------------------------
(* Specification *)

ConsumeResult(i) ==
  \/ StaysOk(i)
  \/ Recovers(i)
  \/ \E s \in States \ {"ok"} :
       \/ FailsVolatile(i, s)
       \/ StartsFailing(i, s)
       \/ \E dependent \in BOOLEAN : StillFailing(i, s, dependent)

Next ==
  \/ \E i \in Items : ConsumeResult(i)
  \/ \E y \in Items : RegisterKnown(y) \/ Register(y)
  \/ Return
  \/ SetImpacts
  \/ Restart

Spec == Init /\ [][Next]_vars

-----------------------------------------------------------------------------
(* Properties *)

\* Both sides of the problem/impact links agree, so source_problems.remove in
\* unregister_a_problem never raises (it would end the main loop) and no item
\* stays an impact of something that is no longer a problem.
ImpactsLinked ==
  root = None => \A p, y \in Items : y \in impacts[p] <=> p \in sources[y]

\* Only a failing item in a HARD state is a problem, it loses its impacts when
\* it stops being one, and it is no impact whose shown state hides its own.
ProblemsAreReal ==
  \A p \in Items :
    /\ problem[p] => kind[p] = "HARD" /\ state[p] # "ok" /\ (IsImpact(p) => own[p])
    /\ impacts[p] # {} => problem[p]

\* A problem is known to everything that depends directly on it, whatever
\* other problems come, recover or become impacts in the meantime.
DependentsKnow ==
  root = None =>
    \A p \in Items : problem[p] => \A y \in DependOfMe(p) : p \in sources[y]

\* Showing an item UNREACHABLE because of others never loses its own state: one
\* that is no impact is shown OK exactly when its last result was OK. An impact
\* without a result of its own is shown UNREACHABLE.
OwnStateKept ==
  /\ restarts = 0 =>
       \A i \in Items : ~IsImpact(i) => (state[i] = "ok" <=> fails[i] = 0)
  /\ \A i \in Items : IsImpact(i) /\ ~own[i] => state[i] = "unreachable"

\* A non-volatile item is in a HARD failing state only after max_check_attempts
\* failing results in a row, whatever its dependencies did to the state shown.
HardAfterMaxAttempts ==
  restarts = 0 =>
    \A i \in Items \ Volatile :
      kind[i] = "HARD" /\ LastState(i) # "ok" => fails[i] >= MaxAttempts[i]

-----------------------------------------------------------------------------
(* The inductive invariant of the properties above: what holds while a         *)
(* problem is being registered as well.                                        *)

\* Between two results, no call is pending.
Idle == root = None => stack = <<>> /\ found = {}

\* The calls visit what lies below the problem, so they never come back to it.
Below ==
  root # None =>
    /\ problem[root]
    /\ \A k \in DOMAIN stack : \A y \in stack[k] : Rank[root] < Rank[y]

\* The links agree once the impacts already found are counted.
Links ==
  \A p, y \in Items :
    p \in sources[y] <=> y \in impacts[p] \/ (p = root /\ y \in found)

\* The first call of the stack holds the direct dependents still to be told.
Told ==
  \A p \in Items : problem[p] =>
    \A y \in DependOfMe(p) :
      p \in sources[y] \/ (p = root /\ stack # <<>> /\ y \in stack[1])

\* The state put aside is a state, and the item's own one.
Aside == \A i \in Items : IsImpact(i) /\ ~own[i] =>
           state[i] = "unreachable" /\ before[i] \in States

Counted ==
  restarts = 0 =>
    \A i \in Items :
      /\ LastState(i) = "ok" <=> fails[i] = 0
      /\ LastState(i) # "ok" /\ i \notin Volatile =>
           /\ attempt[i] <= fails[i]
           /\ kind[i] = "HARD" => fails[i] >= MaxAttempts[i]

IInv ==
  /\ TypeOK
  /\ Idle
  /\ Below
  /\ Links
  /\ Told
  /\ ProblemsAreReal
  /\ Aside
  /\ Counted
=============================================================================
