---------------------- MODULE SchedulerChecks_proofs ----------------------
(***************************************************************************)
(* Proofs about SchedulerChecks, for every set of items, checks and        *)
(* dependencies and every choice of external commands.                     *)
(***************************************************************************)
EXTENDS SchedulerChecks, SequenceTheorems, TLAPS

-----------------------------------------------------------------------------
(* Lists of uuids and new checks *)

\* Removing a uuid from checks_in_progress leaves a list of uuids.
LEMMA WithoutType ==
  ASSUME NEW S, NEW s \in Seq(S), NEW c
  PROVE  Without(s, c) \in Seq(S)
<1>1. CASE c \in Range(s)
  <2> DEFINE k == CHOOSE k \in DOMAIN s : s[k] = c
  <2>1. k \in 1..Len(s)
    BY <1>1 DEF Range
  <2> HIDE DEF k
  <2>2. SubSeq(s, 1, k-1) \in Seq(S) /\ SubSeq(s, k+1, Len(s)) \in Seq(S)
    BY <2>1
  <2>3. SubSeq(s, 1, k-1) \o SubSeq(s, k+1, Len(s)) \in Seq(S)
    BY <2>2
  <2> QED BY <1>1, <2>3 DEF Without, RemoveAt, k
<1>2. CASE c \notin Range(s)
  BY <1>2 DEF Without
<1> QED BY <1>1, <1>2

\* A uuid that occurs once in checks_in_progress is gone after its removal, and
\* the others stay, each once.
LEMMA WithoutUnique ==
  ASSUME NEW S, NEW s \in Seq(S), NEW c,
         \A m, n \in DOMAIN s : s[m] = s[n] => m = n
  PROVE  /\ Range(Without(s, c)) = Range(s) \ {c}
         /\ \A m, n \in DOMAIN Without(s, c) :
              Without(s, c)[m] = Without(s, c)[n] => m = n
<1>1. CASE c \in Range(s)
  <2> DEFINE k == CHOOSE k \in DOMAIN s : s[k] = c
             t == SubSeq(s, 1, k-1) \o SubSeq(s, k+1, Len(s))
  <2>1. k \in 1..Len(s) /\ s[k] = c
    BY <1>1 DEF Range
  <2>2. Without(s, c) = t
    BY <1>1 DEF Without, RemoveAt
  <2> HIDE DEF k
  <2>3. /\ Len(t) = Len(s) - 1 /\ DOMAIN t = 1..(Len(s) - 1)
        /\ \A m \in 1..(Len(s) - 1) : t[m] = IF m < k THEN s[m] ELSE s[m + 1]
    <3> DEFINE u == SubSeq(s, 1, k-1)
               v == SubSeq(s, k+1, Len(s))
    <3>1. /\ u \in Seq(S) /\ Len(u) = k - 1 /\ \A m \in 1..(k-1) : u[m] = s[m]
      BY <2>1
    <3>2. /\ v \in Seq(S) /\ Len(v) = Len(s) - k
          /\ \A m \in 1..(Len(s) - k) : v[m] = s[k + m]
      BY <2>1
    <3> HIDE DEF u, v
    <3>3. /\ u \o v \in Seq(S) /\ Len(u \o v) = Len(s) - 1
          /\ \A m \in 1..(Len(s) - 1) :
               (u \o v)[m] = IF m <= k - 1 THEN u[m] ELSE v[m - (k - 1)]
      <4>1. /\ u \o v \in Seq(S) /\ Len(u \o v) = Len(u) + Len(v)
            /\ \A m \in 1..(Len(u) + Len(v)) :
                 (u \o v)[m] = IF m <= Len(u) THEN u[m] ELSE v[m - Len(u)]
        BY <3>1, <3>2, ConcatProperties
      <4> QED BY <2>1, <3>1, <3>2, <4>1
    <3>4. \A m \in 1..(Len(s) - 1) : (u \o v)[m] = IF m < k THEN s[m] ELSE s[m + 1]
      <4> SUFFICES ASSUME NEW m \in 1..(Len(s) - 1)
                   PROVE  (u \o v)[m] = IF m < k THEN s[m] ELSE s[m + 1]
        OBVIOUS
      <4>1. CASE m < k
        BY <2>1, <3>1, <3>3, <4>1
      <4>2. CASE ~(m < k)
        <5>1. m - (k - 1) \in 1..(Len(s) - k) /\ k + (m - (k - 1)) = m + 1
          BY <2>1, <4>2
        <5> QED BY <2>1, <3>2, <3>3, <4>2, <5>1
      <4> QED BY <4>1, <4>2
    <3>5. t = u \o v
      BY DEF u, v
    <3> HIDE DEF t
    <3>6. DOMAIN t = 1..Len(t)
      BY <3>3, <3>5
    <3> QED BY <3>3, <3>4, <3>5, <3>6
  <2> HIDE DEF t
  <2>4. \A m, n \in DOMAIN t : t[m] = t[n] => m = n
    <3> SUFFICES ASSUME NEW m \in DOMAIN t, NEW n \in DOMAIN t, t[m] = t[n]
                 PROVE  m = n
      OBVIOUS
    <3> DEFINE a == IF m < k THEN m ELSE m + 1
               b == IF n < k THEN n ELSE n + 1
    <3>1. m \in 1..(Len(s) - 1) /\ n \in 1..(Len(s) - 1)
      BY <2>3
    <3>2. a \in DOMAIN s /\ b \in DOMAIN s /\ s[a] = s[b]
      BY <2>1, <2>3, <3>1
    <3>3. a = b
      BY <3>2
    <3> QED BY <2>1, <3>1, <3>3
  <2>5. \A x \in Range(t) : x \in Range(s) \ {c}
    <3> SUFFICES ASSUME NEW m \in 1..(Len(s) - 1) PROVE t[m] \in Range(s) \ {c}
      BY <2>3 DEF Range
    <3> DEFINE a == IF m < k THEN m ELSE m + 1
    <3>1. a \in DOMAIN s /\ t[m] = s[a] /\ a # k
      BY <2>1, <2>3
    <3>2. s[a] # s[k]
      BY <2>1, <3>1
    <3> QED BY <2>1, <3>1, <3>2 DEF Range
  <2>6. \A x \in Range(s) \ {c} : x \in Range(t)
    <3> SUFFICES ASSUME NEW n \in 1..Len(s), s[n] # c PROVE s[n] \in Range(t)
      BY DEF Range
    <3> DEFINE b == IF n < k THEN n ELSE n - 1
    <3>1. n # k
      BY <2>1
    <3>2. b \in DOMAIN t /\ t[b] = s[n]
      BY <2>1, <2>3, <3>1
    <3> QED BY <3>2 DEF Range
  <2> QED BY <2>2, <2>4, <2>5, <2>6
<1>2. CASE c \notin Range(s)
  BY <1>2 DEF Without
<1> QED BY <1>1, <1>2

LEMMA AppendRange ==
  ASSUME NEW S, NEW s \in Seq(S), NEW c \in S
  PROVE  Range(Append(s, c)) = Range(s) \cup {c}
<1>1. \A x \in Range(Append(s, c)) : x \in Range(s) \cup {c}
  BY DEF Range
<1>2. \A x \in Range(s) : x \in Range(Append(s, c))
  <2> SUFFICES ASSUME NEW k \in 1..Len(s) PROVE s[k] \in Range(Append(s, c))
    BY DEF Range
  <2>1. k \in DOMAIN Append(s, c) /\ Append(s, c)[k] = s[k]
    OBVIOUS
  <2> QED BY <2>1 DEF Range
<1>3. c \in Range(Append(s, c))
  <2>1. Len(s) + 1 \in DOMAIN Append(s, c) /\ Append(s, c)[Len(s) + 1] = c
    OBVIOUS
  <2> QED BY <2>1 DEF Range
<1> QED BY <1>1, <1>2, <1>3

\* What the lists of uuids hold after launch_check.
LEMMA LaunchTypes ==
  ASSUME TypeOK, NEW N \in SUBSET CheckIds
  PROVE  /\ InProgressWith(N) \in [Items -> Seq(CheckIds)]
         /\ ActionsWith(N) \in [Items -> SUBSET CheckIds]
<1>1. ASSUME NEW i \in Items, NewFor(N, i) # {}
      PROVE  (CHOOSE c \in NewFor(N, i) : TRUE) \in CheckIds
  BY <1>1 DEF NewFor
<1>2. InProgressWith(N) \in [Items -> Seq(CheckIds)]
  BY <1>1 DEF InProgressWith, TypeOK
<1>3. ActionsWith(N) \in [Items -> SUBSET CheckIds]
  BY DEF ActionsWith, NewFor, TypeOK
<1> QED BY <1>2, <1>3

LEMMA BeginType ==
  ASSUME NEW T, NEW f \in [CheckIds -> T], NEW N, NEW v \in T
  PROVE  Begin(f, N, v) \in [CheckIds -> T]
BY DEF Begin

LEMMA ExitTypes == DefaultExit \in Exits /\ TimeoutExit \in Exits
BY CheckConstants

LEMMA MarkedType ==
  ASSUME TypeOK, NEW N, NEW m \in Mishaps
  PROVE  Marked(N, m) \in [CheckIds -> SUBSET Mishaps]
BY DEF Marked, TypeOK

LEMMA AddChecksType ==
  ASSUME TypeOK, NEW N \in SUBSET CheckIds, AddChecks(N)
  PROVE  checks' \in SUBSET CheckIds /\ mishap' \in [CheckIds -> SUBSET Mishaps]
BY MarkedType DEF AddChecks, TypeOK, Mishaps

LEMMA LaunchStep ==
  ASSUME TypeOK, NEW I, NEW N \in FreshSets(I),
         NEW st \in Statuses, NEW e \in Exits, NEW t \in {"future", "due", "late"},
         Launch(N, st, e, t)
  PROVE  /\ N \in SUBSET CheckIds
         /\ inProgress' \in [Items -> Seq(CheckIds)]
         /\ actions' \in [Items -> SUBSET CheckIds]
         /\ status' \in [CheckIds -> Statuses]
         /\ exit' \in [CheckIds -> Exits]
         /\ when' \in [CheckIds -> {"future", "due", "late"}]
         /\ dependOn' \in [CheckIds -> SUBSET CheckIds]
         /\ dependMe' \in [CheckIds -> SUBSET CheckIds]
         /\ mishap' \in [CheckIds -> SUBSET Mishaps]
<1>1. N \in SUBSET CheckIds
  BY DEF FreshSets
<1>2. {} \in SUBSET CheckIds /\ {} \in SUBSET Mishaps
  OBVIOUS
<1> QED BY <1>1, <1>2, LaunchTypes, BeginType DEF Launch, TypeOK

\* What consume_result writes when check c waits for the dependencies D, N being
\* the checks launched for them.
Waits(c, D, N) ==
  /\ adding' = N
  /\ inProgress' = InProgressWith(N)
  /\ actions' = ActionsWith(N)
  /\ status' = [Begin(status, N, "scheduled") EXCEPT ![c] = "wait_depend"]
  /\ exit' = Begin(exit, N, DefaultExit)
  /\ when' = Begin(when, N, "due")
  /\ dependOn' = [Begin(dependOn, N, {}) EXCEPT
                    ![c] = dependOn[c] \cup N \cup HeadsOf(D)]
  /\ dependMe' = [d \in CheckIds |->
                    IF d \in N THEN {c}
                    ELSE IF d \in HeadsOf(D) THEN dependMe[d] \cup {c}
                    ELSE dependMe[d]]
  /\ mishap' = Begin(mishap, N, {})

-----------------------------------------------------------------------------
(* Type correctness *)

LEMMA TypeStep ==
  ASSUME TypeOK, [Next]_vars
  PROVE  TypeOK'
<1> USE ExitTypes
<1>1. ASSUME NEW i \in Items, Schedule(i) PROVE TypeOK'
  <2>1. PICK N \in FreshSets({i}) :
          Launch(N, "scheduled", DefaultExit, "future") /\ adding' = N
    BY <1>1 DEF Schedule
  <2> QED BY <1>1, <2>1, LaunchStep DEF Schedule, TypeOK, outVars, satVars, Statuses
<1>2. CASE ScheduleEnd
  BY <1>2, CheckConstants
     DEF ScheduleEnd, Goto, TypeOK, Works, itemVars, objVars, outVars, satVars
<1>3. ASSUME NEW i \in Items, NEW e \in Exits, CheckFreshness(i, e) PROVE TypeOK'
  <2>1. PICK N \in FreshSets({i}) : Launch(N, "scheduled", e, "due") /\ adding' = N
    BY <1>3 DEF CheckFreshness
  <2> QED BY <1>3, <2>1, LaunchStep DEF CheckFreshness, TypeOK, outVars, satVars, Statuses
<1>32. ASSUME NEW c \in CheckIds, Register(c) PROVE TypeOK'
  <2>1. [id |-> c, kind |-> "self", exit |-> exit[c]] \in Results
    BY DEF Results, TypeOK
  <2>2. waiting' \in Seq(Results)
    BY <1>32, <2>1 DEF Register, TypeOK
  <2> QED BY <1>32, <2>2, AddChecksType DEF Register, TypeOK, itemVars
<1>4. CASE FreshnessEnd
  BY <1>4 DEF FreshnessEnd, Goto, TypeOK, Works, itemVars, objVars, outVars,
                 satVars
<1>5. CASE Drain
  <2>1. Head(waiting) \in Results /\ waiting' \in Seq(Results)
    BY <1>5 DEF Drain, TypeOK
  <2>2. left' \in Nat
    BY <1>5 DEF Drain, TypeOK
  <2>3. status' \in [CheckIds -> Statuses] /\ exit' \in [CheckIds -> Exits]
    BY <1>5, <2>1 DEF Drain, TypeOK, Results, Statuses
  <2> QED BY <1>5, <2>1, <2>2, <2>3 DEF Drain, TypeOK, itemVars
<1>6. CASE DrainEnd
  BY <1>6 DEF DrainEnd, Goto, TypeOK, Works, itemVars, objVars, outVars,
                 satVars
<1>7. ASSUME NEW c \in CheckIds, WaitForDependencies(c) PROVE TypeOK'
  <2>1. PICK D \in SUBSET ActDependOf[ItemOf[c]] :
          HeadsOf(D) \subseteq checks
          /\ \E N \in FreshSets(IdleOf(D)) : Waits(c, D, N)
    BY <1>7 DEF WaitForDependencies, Waits
  <2>2. PICK N \in FreshSets(IdleOf(D)) : Waits(c, D, N)
    BY <2>1
  <2>3. N \in SUBSET CheckIds /\ HeadsOf(D) \in SUBSET CheckIds
    BY <2>1 DEF FreshSets, TypeOK
  <2>4. /\ inProgress' \in [Items -> Seq(CheckIds)]
        /\ actions' \in [Items -> SUBSET CheckIds]
    BY <2>2, <2>3, LaunchTypes DEF Waits
  <2>5. /\ status' \in [CheckIds -> Statuses]
        /\ exit' \in [CheckIds -> Exits]
        /\ when' \in [CheckIds -> {"future", "due", "late"}]
        /\ mishap' \in [CheckIds -> SUBSET Mishaps]
    BY <2>2, <2>3 DEF Begin, TypeOK, Statuses, Waits
  <2>6. /\ dependOn' \in [CheckIds -> SUBSET CheckIds]
        /\ dependMe' \in [CheckIds -> SUBSET CheckIds]
    BY <2>2, <2>3 DEF Begin, TypeOK, Waits
  <2>7. adding' \in SUBSET CheckIds
    BY <2>2, <2>3 DEF Waits
  <2> QED BY <1>7, <2>4, <2>5, <2>6, <2>7
          DEF WaitForDependencies, TypeOK, outVars, satVars
<1>8. ASSUME NEW c \in CheckIds, DependencyKeyError(c) PROVE TypeOK'
  BY <1>8 DEF DependencyKeyError, Crash, Goto, TypeOK, Works, itemVars, objVars,
              outVars, satVars
<1>9. ASSUME NEW c \in CheckIds, Consumed(c), UNCHANGED pc PROVE TypeOK'
  <2>1. ItemOf[c] \in Items /\ Without(inProgress[ItemOf[c]], c) \in Seq(CheckIds)
    BY CheckConstants, WithoutType DEF TypeOK
  <2>2. inProgress' \in [Items -> Seq(CheckIds)]
    BY <1>9, <2>1 DEF Consumed, TypeOK
  <2> QED BY <1>9, <2>2 DEF Consumed, TypeOK, Statuses, outVars, satVars
<1>10. ASSUME NEW c \in CheckIds, Resolve(c) PROVE TypeOK'
  <2>1. CASE Crash
    BY <2>1 DEF Crash, Goto, TypeOK, Works, itemVars, objVars, outVars, satVars
  <2>2. CASE ~Crash
    <3>1. status' \in [CheckIds -> Statuses] /\ resolved' \in BOOLEAN
      BY <1>10, <2>2 DEF Resolve, TypeOK, Statuses
    <3>2. dependOn' \in [CheckIds -> SUBSET CheckIds]
      <4>1. dependOn' = [d \in CheckIds |-> IF d \in dependMe[c]
                                            THEN dependOn[d] \ {c}
                                            ELSE dependOn[d]]
        BY <1>10, <2>2 DEF Resolve
      <4>2. \A d \in CheckIds : dependOn[d] \in SUBSET CheckIds
        BY DEF TypeOK
      <4> QED BY <4>1, <4>2
    <3> QED BY <1>10, <2>2, <3>1, <3>2 DEF Resolve, TypeOK, itemVars, outVars, satVars
  <2> QED BY <2>1, <2>2
<1>11. ASSUME NEW c \in CheckIds, PassOver(c) PROVE TypeOK'
  BY <1>11 DEF PassOver, TypeOK, itemVars, objVars, outVars, satVars
<1>12. CASE ConsumeEnd \/ ResolveEnd \/ IncludeEnd \/ TakeEnd \/ TurnEnd
  BY <1>12 DEF ConsumeEnd, ResolveEnd, IncludeEnd, TakeEnd, TurnEnd, Goto, TypeOK,
               Works, itemVars, objVars, outVars, satVars
<1>13. ASSUME NEW i \in Items, TakeActions(i) PROVE TypeOK'
  <2>1. actions[i] \in SUBSET CheckIds
    BY DEF TypeOK
  <2> QED BY <1>13, <2>1, AddChecksType
          DEF TakeActions, Goto, TypeOK, Works, itemVars, outVars, satVars
<1>14. CASE ClearActions
  <2>1. mishap' \in [CheckIds -> SUBSET Mishaps]
    BY <1>14, MarkedType DEF ClearActions, Mishaps
  <2> QED BY <1>14, <2>1 DEF ClearActions, Goto, TypeOK, Works, outVars, satVars
<1>15. CASE DeleteZombieChecks
  BY <1>15 DEF DeleteZombieChecks, Begin, Goto, TypeOK, Works, Statuses, itemVars,
               outVars, satVars
<1>16. CASE CheckOrphaned
  BY <1>16 DEF CheckOrphaned, Begin, Goto, TypeOK, Works, Statuses, itemVars,
               outVars, satVars
<1>17. ASSUME NEW c \in CheckIds, NEW e \in Exits, ManageInternalCheck(c, e)
       PROVE  TypeOK'
  <2>1. mishap' \in [CheckIds -> SUBSET Mishaps]
    BY <1>17, MarkedType DEF ManageInternalCheck, Mishaps
  <2> QED BY <1>17, <2>1
          DEF ManageInternalCheck, TypeOK, Statuses, itemVars, outVars, satVars
<1>18. ASSUME NEW c \in CheckIds, Poll(c) PROVE TypeOK'
  BY <1>18 DEF Poll, TypeOK, Statuses, itemVars, loopVars
<1>19. ASSUME NEW c \in CheckIds, NEW e \in Exits, NEW kind \in {"done", "timeout"},
              Return(c, kind, e)
       PROVE  TypeOK'
  <2>1. [id |-> c, kind |-> kind, exit |-> e] \in Results
    BY DEF Results
  <2> QED BY <1>19, <2>1 DEF Return, TypeOK, itemVars, objVars, loopVars
<1>20. ASSUME NEW c \in CheckIds, Lose(c) PROVE TypeOK'
  BY <1>20 DEF Lose, TypeOK, itemVars, objVars, loopVars
<1>21. ASSUME NEW c \in CheckIds, Elapse(c) PROVE TypeOK'
  BY <1>21 DEF Elapse, TypeOK, itemVars, outVars, satVars, loopVars
<1>33. ASSUME NEW i \in Items, Hijackable(i), Hijack(Head(inProgress[i]))
       PROVE  /\ Head(inProgress[i]) \in CheckIds
              /\ when' \in [CheckIds -> {"future", "due", "late"}]
              /\ UNCHANGED <<inProgress, actions, status, exit, dependOn, dependMe,
                             mishap>>
  BY <1>33 DEF Hijackable, Hijack, TypeOK
<1>22. ASSUME NEW i \in Items, ScheduleForcedCheck(i) PROVE TypeOK'
  <2>1. CASE Hijackable(i)
    BY <1>22, <1>33, <2>1 DEF ScheduleForcedCheck, TypeOK, satVars, loopVars
  <2>2. CASE ~Hijackable(i)
    BY <1>22, <2>2, LaunchStep
       DEF ScheduleForcedCheck, TypeOK, Statuses, satVars, loopVars
  <2> QED BY <2>1, <2>2
<1>23. ASSUME NEW i \in Items, ScheduleCheck(i) PROVE TypeOK'
  BY <1>23, LaunchStep DEF ScheduleCheck, TypeOK, Statuses, satVars, loopVars
<1>24. ASSUME NEW i \in Items, NEW e \in Exits, ProcessCheckResult(i, e) PROVE TypeOK'
  <2>1. CASE Hijackable(i)
    <3>1. /\ Hijack(Head(inProgress[i]))
          /\ command' = [stage |-> "passive", checks |-> {Head(inProgress[i])},
                         exit |-> e]
      BY <1>24, <2>1 DEF ProcessCheckResult
    <3>2. command' \in [stage : Stages, checks : SUBSET CheckIds, exit : Exits]
      BY <1>33, <2>1, <3>1 DEF Stages
    <3> QED BY <1>24, <1>33, <2>1, <3>1, <3>2
            DEF ProcessCheckResult, TypeOK, satVars, loopVars
  <2>2. CASE ~Hijackable(i)
    <3>1. PICK N \in FreshSets({i}) :
            /\ Launch(N, "scheduled", DefaultExit, "due")
            /\ command' = [stage |-> "passive", checks |-> N, exit |-> e]
      BY <1>24, <2>2 DEF ProcessCheckResult
    <3>2. N \in SUBSET CheckIds
      BY DEF FreshSets
    <3>3. command' \in [stage : Stages, checks : SUBSET CheckIds, exit : Exits]
      BY <3>1, <3>2 DEF Stages
    <3> QED BY <1>24, <3>1, <3>3, LaunchStep
            DEF ProcessCheckResult, TypeOK, Statuses, satVars, loopVars
  <2> QED BY <2>1, <2>2
<1>34. Idle \in [stage : Stages, checks : SUBSET CheckIds, exit : Exits]
  BY DEF Idle, Stages
<1>25. ASSUME NEW i \in Items, NEW e \in Exits, DisableActiveChecks(i, e) PROVE TypeOK'
  <2>1. Reached(i) \in SUBSET CheckIds
    BY DEF Reached, TypeOK
  <2>2. command' \in [stage : Stages, checks : SUBSET CheckIds, exit : Exits]
    BY <1>25, <1>34, <2>1 DEF DisableActiveChecks, Stages
  <2> QED BY <1>25, <2>2
          DEF DisableActiveChecks, TypeOK, objVars, satVars, loopVars
<1>35. CASE WriteResult
  <2>1. mishap' \in [CheckIds -> SUBSET Mishaps]
    BY <1>35, MarkedType DEF WriteResult, Mishaps
  <2>2. command' \in [stage : Stages, checks : SUBSET CheckIds, exit : Exits]
    BY <1>34, <1>35 DEF WriteResult, Stages, TypeOK
  <2>3. command.exit \in Exits
    BY DEF TypeOK
  <2>4. status' \in [CheckIds -> Statuses] /\ exit' \in [CheckIds -> Exits]
    BY <1>35, <2>3 DEF WriteResult, Begin, TypeOK, Statuses
  <2> QED BY <1>35, <2>1, <2>2, <2>4 DEF WriteResult, TypeOK, itemVars, satVars, loopVars
<1>36. CASE SendResult
  <2>1. command.checks \in SUBSET CheckIds
    BY DEF TypeOK
  <2> QED BY <1>34, <1>36, <2>1, AddChecksType
          DEF SendResult, TypeOK, itemVars, satVars, loopVars
<1>26. ASSUME NEW i \in Items, EnableActiveChecks(i) PROVE TypeOK'
  BY <1>26 DEF EnableActiveChecks, TypeOK, objVars, satVars, loopVars
<1>27. CASE UNCHANGED vars
  BY <1>27 DEF vars, TypeOK, itemVars, objVars, satVars, loopVars
<1>28. ASSUME NEW c \in CheckIds, Consume(c) \/ IncludeDependent(c) PROVE TypeOK'
  BY <1>9, <1>28 DEF Consume, IncludeDependent, Consumed
<1>29. CASE MainLoop
  BY <1>29, <1>1, <1>2, <1>3, <1>32, <1>4, <1>5, <1>6, <1>7, <1>8, <1>10, <1>11, <1>12,
     <1>13, <1>14, <1>15, <1>16, <1>17, <1>28 DEF MainLoop
<1>30. CASE Satellites
  BY <1>30, <1>18, <1>19, <1>20 DEF Satellites
<1>31. CASE ExternalCommands
  BY <1>31, <1>22, <1>23, <1>24, <1>25, <1>26, <1>35, <1>36
     DEF ExternalCommands
<1> QED BY <1>21, <1>27, <1>29, <1>30, <1>31 DEF Next

LEMMA InitType ==
  ASSUME Init
  PROVE  TypeOK
<1>1. pc \in Works /\ todo \in SUBSET (Items \cup CheckIds)
  BY DEF Init, Works
<1>2. status \in [CheckIds -> Statuses] /\ exit \in [CheckIds -> Exits]
  BY ExitTypes DEF Init, Statuses
<1>3. /\ inProgress \in [Items -> Seq(CheckIds)] /\ waiting \in Seq(Results)
      /\ actions \in [Items -> SUBSET CheckIds] /\ active \in [Items -> BOOLEAN]
  BY DEF Init
<1>4. /\ when \in [CheckIds -> {"future", "due", "late"}]
      /\ dependOn \in [CheckIds -> SUBSET CheckIds]
      /\ dependMe \in [CheckIds -> SUBSET CheckIds]
      /\ copies \in [CheckIds -> Nat]
  BY DEF Init
<1>5. checks \in SUBSET CheckIds /\ cur \in SUBSET Items
      /\ left \in Nat /\ resolved \in BOOLEAN /\ adding \in SUBSET CheckIds
      /\ mishap \in [CheckIds -> SUBSET Mishaps]
  BY DEF Init
<1>6. command \in [stage : Stages, checks : SUBSET CheckIds, exit : Exits]
  BY ExitTypes DEF Init, Idle, Stages
<1> QED BY <1>1, <1>2, <1>3, <1>4, <1>5, <1>6 DEF TypeOK

\* The variables keep their types whatever the commands: in particular the
\* count of results left to drain never goes below zero.
THEOREM TypeCorrect == Spec => []TypeOK
<1>1. Init => TypeOK
  BY InitType
<1>2. TypeOK /\ [Next]_vars => TypeOK'
  BY TypeStep
<1> QED BY <1>1, <1>2, PTL DEF Spec

-----------------------------------------------------------------------------
(* The books of the main loop *)

\* While consume_results drains the queue, the others only add to it.
LEMMA DrainStep ==
  ASSUME TypeOK, DrainHasResults, [Next]_vars
  PROVE  DrainHasResults'
<1>1. waiting \in Seq(Results) /\ left \in Nat /\ Len(waiting) \in Nat
  BY DEF TypeOK
<1>2. CASE FreshnessEnd
  BY <1>1, <1>2 DEF FreshnessEnd, Goto, outVars, satVars, DrainHasResults
<1>3. CASE Drain
  <2>1. Len(Tail(waiting)) = Len(waiting) - 1
    BY <1>1, <1>3 DEF Drain
  <2> QED BY <1>1, <1>3, <2>1 DEF Drain, DrainHasResults
<1>4. ASSUME NEW c, NEW kind, NEW e, Return(c, kind, e)
      PROVE  DrainHasResults'
  <2>1. Len(waiting') = Len(waiting) + 1
    BY <1>1, <1>4 DEF Return
  <2> QED BY <1>1, <1>4, <2>1 DEF Return, loopVars, DrainHasResults
<1>11. ASSUME NEW c \in CheckIds, Register(c)
       PROVE  DrainHasResults'
  <2>1. waiting' = waiting \/ Len(waiting') = Len(waiting) + 1
    BY <1>1, <1>11 DEF Register
  <2> QED BY <1>1, <1>11, <2>1 DEF Register, DrainHasResults
<1>5. ASSUME pc' # "drain" \/ UNCHANGED <<pc, left, waiting>>
      PROVE  DrainHasResults'
  BY <1>5 DEF DrainHasResults
<1>6. CASE \/ \E i \in Items : Schedule(i)
           \/ ScheduleEnd \/ DrainEnd \/ ConsumeEnd \/ ResolveEnd \/ IncludeEnd
           \/ \E i \in Items, e \in Exits : CheckFreshness(i, e)
           \/ \E c \in CheckIds : \/ WaitForDependencies(c) \/ DependencyKeyError(c)
                                  \/ Consume(c) \/ IncludeDependent(c) \/ PassOver(c)
  <2>1. pc' # "drain"
    BY <1>6 DEF Schedule, ScheduleEnd, CheckFreshness, At, DrainEnd, WaitForDependencies,
                DependencyKeyError, Consume, IncludeDependent, PassOver, ConsumeEnd,
                ResolveEnd, IncludeEnd, Consumed, Crash, At, Goto
  <2> QED BY <1>5, <2>1
<1>7. CASE \/ ClearActions \/ TakeEnd \/ CheckOrphaned \/ TurnEnd
           \/ \E i \in Items : TakeActions(i)
           \/ \E c \in CheckIds : Resolve(c)
  <2>1. pc' # "drain"
    BY <1>7 DEF Resolve, TakeActions, ClearActions, TakeEnd, CheckOrphaned, TurnEnd, Goto,
                Crash, At
  <2> QED BY <1>5, <2>1
<1>10. CASE \/ DeleteZombieChecks
            \/ \E c \in CheckIds, e \in Exits : ManageInternalCheck(c, e)
  <2>1. pc' # "drain"
    BY <1>10 DEF DeleteZombieChecks, ManageInternalCheck, At, Goto
  <2> QED BY <1>5, <2>1
<1>8. CASE ExternalCommands
  <2>1. UNCHANGED <<pc, left, waiting>>
    BY <1>8 DEF ExternalCommands, ScheduleForcedCheck, ScheduleCheck, ProcessCheckResult,
                DisableActiveChecks, WriteResult, SendResult, EnableActiveChecks, satVars, loopVars
  <2> QED BY <1>5, <2>1
<1>9. CASE \/ \E c \in CheckIds : Poll(c) \/ Lose(c) \/ Elapse(c)
           \/ UNCHANGED vars
  <2>1. UNCHANGED <<pc, left, waiting>>
    BY <1>9 DEF Poll, Lose, Elapse, satVars, loopVars, vars
  <2> QED BY <1>5, <2>1
<1> QED BY <1>2, <1>3, <1>4, <1>6, <1>7, <1>8, <1>9, <1>10, <1>11
    DEF Next, MainLoop, Satellites

\* Only the works that launch checks have some to register.
LEMMA AddingStep ==
  ASSUME AddingAtWork, [Next]_vars
  PROVE  AddingAtWork'
<1>1. ASSUME UNCHANGED <<pc, adding>> PROVE AddingAtWork'
  BY <1>1 DEF AddingAtWork
<1>2. ASSUME adding = {}, UNCHANGED adding PROVE AddingAtWork'
  BY <1>2 DEF AddingAtWork
<1>3. ASSUME pc' = pc, pc \in {"schedule", "freshness", "consume"} PROVE AddingAtWork'
  BY <1>3 DEF AddingAtWork
<1>4. CASE \/ \E i \in Items : Schedule(i)
           \/ \E i \in Items, e \in Exits : CheckFreshness(i, e)
           \/ \E c \in CheckIds : WaitForDependencies(c)
  BY <1>3, <1>4 DEF Schedule, CheckFreshness, WaitForDependencies, At
<1>5. CASE \E c \in CheckIds : Register(c)
  BY <1>5 DEF Register, AddingAtWork
<1>6. CASE \/ ScheduleEnd \/ FreshnessEnd \/ Drain \/ DrainEnd \/ ConsumeEnd
           \/ ResolveEnd \/ IncludeEnd
           \/ \E c \in CheckIds : \/ DependencyKeyError(c) \/ Consume(c) \/ Resolve(c)
                                  \/ IncludeDependent(c) \/ PassOver(c)
  BY <1>2, <1>6 DEF ScheduleEnd, FreshnessEnd, Drain, DrainEnd, ConsumeEnd, ResolveEnd,
        IncludeEnd, DependencyKeyError, Consume, Resolve, IncludeDependent, PassOver,
        Consumed, Crash, At
<1>7. CASE \/ ClearActions \/ TakeEnd \/ DeleteZombieChecks \/ CheckOrphaned \/ TurnEnd
           \/ \E i \in Items : TakeActions(i)
           \/ \E c \in CheckIds, e \in Exits : ManageInternalCheck(c, e)
  BY <1>2, <1>7 DEF ClearActions, TakeEnd, DeleteZombieChecks, CheckOrphaned, TurnEnd,
        TakeActions, ManageInternalCheck, At
<1>8. CASE Satellites \/ (\E c \in CheckIds : Elapse(c)) \/ UNCHANGED vars
  BY <1>1, <1>8 DEF Satellites, Poll, Return, Lose, Elapse, loopVars, vars
<1>9. CASE ExternalCommands
  BY <1>1, <1>9 DEF ExternalCommands, ScheduleForcedCheck, ScheduleCheck,
        ProcessCheckResult, DisableActiveChecks, WriteResult, SendResult,
        EnableActiveChecks, loopVars
<1> QED BY <1>4, <1>5, <1>6, <1>7, <1>8, <1>9 DEF Next, MainLoop

\* The loops of consume_results start from the keys of Scheduler.checks, and
\* nothing is deleted before they end.
LEMMA TodoStep ==
  ASSUME TodoKnown, [Next]_vars
  PROVE  TodoKnown'
<1>1. ASSUME pc' = pc, todo' \subseteq todo, checks \subseteq checks' PROVE TodoKnown'
  BY <1>1 DEF TodoKnown
<1>2. ASSUME pc' \notin {"consume", "resolve", "include"} PROVE TodoKnown'
  BY <1>2 DEF TodoKnown
<1>3. ASSUME todo' = checks, UNCHANGED checks PROVE TodoKnown'
  BY <1>3 DEF TodoKnown
<1>4. CASE DrainEnd \/ ConsumeEnd \/ ResolveEnd
  BY <1>3, <1>4 DEF DrainEnd, ConsumeEnd, ResolveEnd, Goto
<1>5. CASE IncludeEnd
  BY <1>2, <1>3, <1>5 DEF IncludeEnd, Goto
<1>6. CASE \/ ScheduleEnd \/ FreshnessEnd \/ ClearActions \/ TakeEnd
           \/ DeleteZombieChecks \/ CheckOrphaned \/ TurnEnd
           \/ \E i \in Items : TakeActions(i)
           \/ \E c \in CheckIds : DependencyKeyError(c)
  BY <1>2, <1>6 DEF ScheduleEnd, FreshnessEnd, ClearActions, TakeEnd, DeleteZombieChecks,
        CheckOrphaned, TurnEnd, TakeActions, DependencyKeyError, Crash, Goto
<1>7. CASE \/ \E i \in Items : Schedule(i)
           \/ \E i \in Items, e \in Exits : CheckFreshness(i, e)
           \/ \E c \in CheckIds : \/ WaitForDependencies(c) \/ Register(c)
                                  \/ Consume(c) \/ IncludeDependent(c) \/ PassOver(c)
           \/ \E c \in CheckIds, e \in Exits : ManageInternalCheck(c, e)
           \/ Drain
  BY <1>1, <1>7 DEF Schedule, CheckFreshness, WaitForDependencies, Register, Consume,
        IncludeDependent, PassOver, Consumed, ManageInternalCheck, Drain, AddChecks
<1>8. ASSUME NEW c \in CheckIds, Resolve(c) PROVE TodoKnown'
  BY <1>1, <1>2, <1>8 DEF Resolve, Crash, Goto
<1>9. CASE Satellites \/ (\E c \in CheckIds : Elapse(c)) \/ UNCHANGED vars
  BY <1>1, <1>9 DEF Satellites, Poll, Return, Lose, Elapse, loopVars, vars
<1>10. CASE ExternalCommands
  BY <1>1, <1>10 DEF ExternalCommands, ScheduleForcedCheck, ScheduleCheck,
        ProcessCheckResult, DisableActiveChecks, WriteResult, SendResult,
        EnableActiveChecks, AddChecks, loopVars
<1> QED BY <1>4, <1>5, <1>6, <1>7, <1>8, <1>9, <1>10 DEF Next, MainLoop

LEMMA BooksStep ==
  ASSUME Books, [Next]_vars
  PROVE  Books'
BY TypeStep, DrainStep, AddingStep, TodoStep DEF Books

-----------------------------------------------------------------------------
(* Launching checks *)

\* A uuid without a check leads nowhere and nothing leads to it.
LEMMA FreshFacts ==
  ASSUME NEW I, NEW N \in FreshSets(I), NEW c \in N
  PROVE  /\ c \in CheckIds /\ ItemOf[c] \in I
         /\ c \notin checks /\ c \notin adding /\ c \notin command.checks
         /\ \A d \in CheckIds : c \notin dependOn[d] /\ c \notin dependMe[d]
         /\ \A i \in Items : c \notin InProgress(i) /\ c \notin actions[i]
BY DEF FreshSets, Fresh, InProgress

LEMMA InProgressType ==
  ASSUME TypeOK, NEW i \in Items
  PROVE  InProgress(i) \subseteq CheckIds
BY DEF InProgress, TypeOK, Range

\* What launch_check makes of checks_in_progress and of the actions.
LEMMA LaunchInProgress ==
  ASSUME TypeOK, NoDuplicates, NEW I, NEW N \in FreshSets(I), NEW i \in Items
  PROVE  LET s == InProgressWith(N)[i] IN
         /\ Range(s) = InProgress(i) \cup { c \in N : ItemOf[c] = i }
         /\ \A m, n \in DOMAIN s : s[m] = s[n] => m = n
<1>1. inProgress[i] \in Seq(CheckIds)
  BY DEF TypeOK
<1>2. CASE NewFor(N, i) = {}
  BY <1>2 DEF InProgressWith, NewFor, NoDuplicates, InProgress
<1>3. CASE NewFor(N, i) # {}
  <2>1. PICK c \in N : ItemOf[c] = i
    BY <1>3 DEF NewFor
  <2>2. NewFor(N, i) = {c} /\ { d \in N : ItemOf[d] = i } = {c}
    BY <2>1 DEF NewFor, FreshSets
  <2>3. InProgressWith(N)[i] = Append(inProgress[i], c)
    BY <1>3, <2>1, <2>2 DEF InProgressWith
  <2>4. c \in CheckIds /\ c \notin Range(inProgress[i])
    BY <2>1, FreshFacts DEF InProgress
  <2>5. Range(Append(inProgress[i], c)) = Range(inProgress[i]) \cup {c}
    BY <1>1, <2>4, AppendRange
  <2> DEFINE t == Append(inProgress[i], c)
  <2>6. ASSUME NEW m \in DOMAIN t, NEW n \in DOMAIN t, t[m] = t[n]
        PROVE  m = n
    <3>1. \A k \in DOMAIN inProgress[i] : inProgress[i][k] # c
      BY <2>4 DEF Range
    <3>2. /\ DOMAIN t = 1..(Len(inProgress[i]) + 1)
          /\ DOMAIN inProgress[i] = 1..Len(inProgress[i])
          /\ \A k \in DOMAIN t : t[k] = IF k = Len(inProgress[i]) + 1 THEN c
                                        ELSE inProgress[i][k]
      BY <1>1
    <3> QED BY <2>6, <3>1, <3>2 DEF NoDuplicates
  <2> QED BY <2>2, <2>3, <2>5, <2>6 DEF InProgress
<1> QED BY <1>2, <1>3

LEMMA LaunchActions ==
  ASSUME NEW N, NEW i \in Items
  PROVE  ActionsWith(N)[i] = actions[i] \cup { c \in N : ItemOf[c] = i }
BY DEF ActionsWith, NewFor

\* Launching checks keeps the checks in progress and the dependency links
\* right: until they are registered the new checks are in the actions.
LEMMA LaunchSafe ==
  ASSUME IInv, NEW I, NEW N \in FreshSets(I), NEW e, NEW t,
         Launch(N, "scheduled", e, t), UNCHANGED <<checks, pc>>,
         adding \subseteq adding', Held \subseteq Held'
  PROVE  Links'
<1> USE FreshFacts DEF IInv, Books, Links
<1>1. \A c \in CheckIds :
        /\ status'[c] = IF c \in N THEN "scheduled" ELSE status[c]
        /\ dependOn'[c] = IF c \in N THEN {} ELSE dependOn[c]
        /\ dependMe'[c] = IF c \in N THEN {} ELSE dependMe[c]
        /\ mishap'[c] = IF c \in N THEN {} ELSE mishap[c]
  BY DEF Launch, Begin
<1>2. \A i \in Items :
        /\ InProgress(i)' = InProgress(i) \cup { c \in N : ItemOf[c] = i }
        /\ actions'[i] = actions[i] \cup { c \in N : ItemOf[c] = i }
        /\ \A m, n \in DOMAIN inProgress'[i] :
             inProgress'[i][m] = inProgress'[i][n] => m = n
  BY LaunchInProgress, LaunchActions DEF InProgress, Launch
<1>3. NoDuplicates'
  BY <1>2 DEF NoDuplicates
<1>4. InProgressAccounted'
  <2> SUFFICES ASSUME NEW i \in Items, NEW c \in InProgress(i)'
               PROVE  /\ ItemOf[c] = i
                      /\ \/ Live(c)' /\ (c \in checks \/ Unregistered(c)')
                         \/ "dropped" \in mishap'[c]
    BY DEF InProgressAccounted
  <2>1. CASE c \in N
    <3>1. ItemOf[c] = i /\ c \in actions'[i]
      BY <1>2, <2>1
    <3> QED BY <1>1, <2>1, <3>1 DEF Live, Unregistered
  <2>2. CASE c \notin N
    <3>1. c \in InProgress(i) /\ c \in CheckIds
      BY <1>2, <2>2, InProgressType
    <3>2. ItemOf[c] = i /\ actions[i] \subseteq actions'[i]
      BY <1>2, <3>1 DEF InProgressAccounted
    <3>3. Unregistered(c) => Unregistered(c)'
      BY <1>1, <2>2, <3>1, <3>2 DEF Unregistered
    <3> QED BY <1>1, <2>2, <3>1, <3>2, <3>3 DEF InProgressAccounted, Live
  <2> QED BY <2>1, <2>2
<1>5. AwaitedKnown'
  BY <1>1 DEF AwaitedKnown, TypeOK
<1>6. AwaitingLinked'
  BY <1>1 DEF AwaitingLinked, TypeOK
<1> QED BY <1>3, <1>4, <1>5, <1>6

-----------------------------------------------------------------------------
(* What keeps the checks in progress and the links right *)

\* When awaited zombies may be left over.
Releasing == {"resolve", "include", "take", "clear", "zombies", "crashed"}

\* Steps that move no check and no link: they may answer, poll or offer again
\* a check, drop a scheduled one, or revive one that has released the others.
LEMMA FrameSafe ==
  ASSUME IInv, UNCHANGED <<checks, adding, inProgress, dependOn, dependMe>>,
         pc' # "crashed", pc \notin Releasing \/ pc' \in Releasing,
         \A d \in CheckIds :
           /\ mishap[d] \subseteq mishap'[d]
           /\ Unregistered(d) => Unregistered(d)'
           /\ \/ status'[d] = status[d]
              \/ /\ status'[d] \in {"scheduled", "polled", "wait_consume"}
                 /\ \/ status[d] # "zombie"
                    \/ "revived" \in mishap'[d]
                    \/ d \in checks /\ pc \notin Releasing
              \/ status'[d] = "zombie" /\ "dropped" \in mishap'[d]
                 /\ status[d] = "scheduled"
  PROVE  Links' /\ CrashExplained'
<1> USE DEF IInv, Books, Links
<1>1. \A i \in Items : InProgress(i) \subseteq CheckIds /\ InProgress(i)' = InProgress(i)
  BY InProgressType DEF InProgress
<1>2. NoDuplicates' /\ CrashExplained'
  BY DEF NoDuplicates, CrashExplained
<1>3. InProgressAccounted'
  <2> SUFFICES ASSUME NEW i \in Items, NEW c \in InProgress(i)
               PROVE  /\ ItemOf[c] = i
                      /\ \/ Live(c)' /\ (c \in checks \/ Unregistered(c)')
                         \/ "dropped" \in mishap'[c]
    BY <1>1 DEF InProgressAccounted
  <2>1. c \in CheckIds /\ ItemOf[c] = i
    BY <1>1 DEF InProgressAccounted
  <2>2. \/ Live(c) /\ (c \in checks \/ Unregistered(c))
        \/ "dropped" \in mishap[c]
    BY DEF InProgressAccounted
  <2>3. Live(c) => Live(c)' \/ "dropped" \in mishap'[c]
    BY <2>1 DEF Live
  <2> QED BY <2>1, <2>2, <2>3
<1>4. AwaitedKnown'
  <2> SUFFICES ASSUME NEW w \in CheckIds, NEW d \in dependOn[w]
               PROVE  \/ "dropped" \in mishap'[d]
                      \/ /\ d \in checks \cup adding
                         /\ status'[d] \notin {"none", "zombie"}
                         /\ w \in dependMe[d]
    BY DEF AwaitedKnown
  <2>1. d \in CheckIds
    BY DEF TypeOK
  <2>2. \/ "dropped" \in mishap[d]
        \/ /\ d \in checks \cup adding
           /\ status[d] \notin {"none", "zombie"}
           /\ w \in dependMe[d]
    BY DEF AwaitedKnown
  <2> QED BY <2>1, <2>2
<1>5. AwaitingLinked'
  <2> SUFFICES ASSUME NEW d \in CheckIds, NEW w \in dependMe[d], d \notin dependOn[w],
                      "revived" \notin mishap'[d]
               PROVE  status'[d] = "zombie" /\ (d \in checks => pc' \in Releasing)
    BY DEF AwaitingLinked, Releasing
  <2>1. "revived" \notin mishap[d]
    OBVIOUS
  <2>2. status[d] = "zombie" /\ (d \in checks => pc \in Releasing)
    BY <2>1 DEF AwaitingLinked, Releasing
  <2> QED BY <2>2
<1> QED BY <1>2, <1>3, <1>4, <1>5

\* Scheduler.add_check, whoever calls it.
LEMMA AddSafe ==
  ASSUME IInv, NEW N \in SUBSET CheckIds, AddChecks(N),
         UNCHANGED <<inProgress, status, dependOn, dependMe>>,
         checks \cup adding \subseteq checks' \cup adding',
         \A c \in CheckIds \ N : Unregistered(c) => Unregistered(c)',
         pc' # "crashed", pc \notin Releasing \/ pc' \in Releasing
  PROVE  Links' /\ CrashExplained'
<1> USE DEF IInv, Books, Links
<1>1. /\ checks' = checks \cup N
      /\ \A c \in CheckIds :
           /\ mishap[c] \subseteq mishap'[c]
           /\ c \in N \ checks /\ status[c] = "zombie" => "revived" \in mishap'[c]
  BY DEF AddChecks, Marked
<1>2. \A i \in Items : InProgress(i) \subseteq CheckIds /\ InProgress(i)' = InProgress(i)
  BY InProgressType DEF InProgress
<1>3. NoDuplicates' /\ CrashExplained'
  BY DEF NoDuplicates, CrashExplained
<1>4. InProgressAccounted'
  <2> SUFFICES ASSUME NEW i \in Items, NEW c \in InProgress(i)
               PROVE  /\ ItemOf[c] = i
                      /\ \/ Live(c)' /\ (c \in checks' \/ Unregistered(c)')
                         \/ "dropped" \in mishap'[c]
    BY <1>2 DEF InProgressAccounted
  <2>1. c \in CheckIds /\ (Live(c) => Live(c)')
    BY <1>2 DEF Live
  <2> QED BY <1>1, <2>1 DEF InProgressAccounted
<1>5. AwaitedKnown'
  <2> SUFFICES ASSUME NEW w \in CheckIds, NEW d \in dependOn[w]
               PROVE  \/ "dropped" \in mishap'[d]
                      \/ /\ d \in checks' \cup adding'
                         /\ status[d] \notin {"none", "zombie"}
                         /\ w \in dependMe[d]
    BY DEF AwaitedKnown
  <2>1. d \in CheckIds
    BY DEF TypeOK
  <2> QED BY <1>1, <2>1 DEF AwaitedKnown
<1>6. AwaitingLinked'
  <2> SUFFICES ASSUME NEW d \in CheckIds, NEW w \in dependMe[d], d \notin dependOn[w],
                      "revived" \notin mishap'[d]
               PROVE  status[d] = "zombie" /\ (d \in checks' => pc' \in Releasing)
    BY DEF AwaitingLinked, Releasing
  <2>1. "revived" \notin mishap[d]
    BY <1>1
  <2>2. status[d] = "zombie" /\ (d \in checks => pc \in Releasing)
    BY <2>1 DEF AwaitingLinked, Releasing
  <2> QED BY <1>1, <2>2
<1> QED BY <1>3, <1>4, <1>5, <1>6

-----------------------------------------------------------------------------
(* The steps of consume_results *)

\* The end of consume_result, for a check that no longer waits.
LEMMA ConsumedSafe ==
  ASSUME IInv, NEW c \in CheckIds, c \in checks, Consumed(c), UNCHANGED pc,
         pc # "crashed", status[c] \in {"wait_consume", "wait_depend"}
  PROVE  Links' /\ CrashExplained'
<1> USE DEF IInv, Books, Links
<1>1. /\ inProgress' = [inProgress EXCEPT ![ItemOf[c]] = Without(@, c)]
      /\ status' = [status EXCEPT ![c] = IF dependMe[c] # {} THEN "waiting_me"
                                         ELSE "zombie"]
      /\ UNCHANGED <<checks, actions, adding, dependOn, dependMe, mishap, command>>
  BY DEF Consumed, outVars
<1>2. \A d \in CheckIds : status'[d] = IF d # c THEN status[d]
                                       ELSE IF dependMe[c] # {} THEN "waiting_me"
                                       ELSE "zombie"
  BY <1>1 DEF TypeOK
<1>3. \A i \in Items :
        /\ InProgress(i)' = IF i = ItemOf[c] THEN InProgress(i) \ {c} ELSE InProgress(i)
        /\ \A m, n \in DOMAIN inProgress'[i] :
             inProgress'[i][m] = inProgress'[i][n] => m = n
  <2> TAKE i \in Items
  <2>1. /\ inProgress[i] \in Seq(CheckIds)
        /\ \A m, n \in DOMAIN inProgress[i] : inProgress[i][m] = inProgress[i][n] => m = n
    BY DEF TypeOK, NoDuplicates
  <2>2. inProgress'[i] = IF i = ItemOf[c] THEN Without(inProgress[i], c)
                         ELSE inProgress[i]
    BY <1>1 DEF TypeOK
  <2>3. CASE i = ItemOf[c]
    <3>1. /\ Range(Without(inProgress[i], c)) = Range(inProgress[i]) \ {c}
          /\ \A m, n \in DOMAIN Without(inProgress[i], c) :
               Without(inProgress[i], c)[m] = Without(inProgress[i], c)[n] => m = n
      BY <2>1, WithoutUnique
    <3> QED BY <2>2, <2>3, <3>1 DEF InProgress
  <2>4. CASE i # ItemOf[c]
    BY <2>1, <2>2, <2>4 DEF InProgress
  <2> QED BY <2>3, <2>4
<1>4. NoDuplicates'
  BY <1>3 DEF NoDuplicates
<1>5. InProgressAccounted'
  <2> SUFFICES ASSUME NEW i \in Items, NEW d \in InProgress(i)'
               PROVE  /\ ItemOf[d] = i
                      /\ \/ Live(d)' /\ (d \in checks \/ Unregistered(d)')
                         \/ "dropped" \in mishap[d]
    BY <1>1 DEF InProgressAccounted
  <2>1. d \in InProgress(i) /\ d \in CheckIds /\ ItemOf[d] = i
    BY <1>3, InProgressType DEF InProgressAccounted
  <2>2. d # c
    BY <1>3, <2>1
  <2>3. Unregistered(d) => Unregistered(d)'
    BY <1>1 DEF Unregistered, Held
  <2> QED BY <1>2, <2>1, <2>2, <2>3 DEF InProgressAccounted, Live
<1>6. AwaitedKnown'
  BY <1>1, <1>2 DEF AwaitedKnown, TypeOK
<1>7. AwaitingLinked'
  BY <1>1, <1>2 DEF AwaitingLinked, TypeOK
<1>8. CrashExplained'
  BY DEF CrashExplained
<1> QED BY <1>4, <1>5, <1>6, <1>7, <1>8

\* consume_result sets a check aside: the checks it waits for know it.
LEMMA WaitSafe ==
  ASSUME IInv, NEW c \in CheckIds, WaitForDependencies(c)
  PROVE  Links' /\ CrashExplained'
<1> USE DEF IInv, Books, Links
<1>1. PICK D \in SUBSET ActDependOf[ItemOf[c]] :
        HeadsOf(D) \subseteq checks /\ \E N \in FreshSets(IdleOf(D)) : Waits(c, D, N)
  BY DEF WaitForDependencies, Waits
<1>2. PICK N \in FreshSets(IdleOf(D)) : Waits(c, D, N)
  BY <1>1
<1>3. /\ c \in checks /\ status[c] = "wait_consume" /\ pc = "consume" /\ pc' = pc
      /\ adding = {} /\ UNCHANGED <<checks, command>>
  BY DEF WaitForDependencies, MustWait, At, TodoKnown, outVars
<1>4. D \subseteq Items /\ \A d \in D : inProgress[d] \in Seq(CheckIds)
  BY CheckConstants DEF TypeOK
<1>5. \A n \in N : /\ n \in CheckIds /\ n \notin checks /\ n # c
                   /\ \A d \in CheckIds : n \notin dependOn[d] /\ n \notin dependMe[d]
                   /\ \A i \in Items : n \notin InProgress(i)
  BY <1>3, FreshFacts
<1>6. \A h \in HeadsOf(D) : /\ h \in CheckIds /\ h \in checks
                            /\ Live(h) \/ "dropped" \in mishap[h]
  <2> SUFFICES ASSUME NEW d \in D, inProgress[d] # <<>>
               PROVE  Head(inProgress[d]) \in CheckIds /\
                      (Live(Head(inProgress[d])) \/ "dropped" \in mishap[Head(inProgress[d])])
    BY <1>1 DEF HeadsOf, BusyOf
  <2>1. d \in Items /\ inProgress[d] \in Seq(CheckIds)
    BY <1>4
  <2>2. Head(inProgress[d]) \in InProgress(d) /\ Head(inProgress[d]) \in CheckIds
    BY <2>1 DEF InProgress, Range
  <2> QED BY <2>1, <2>2 DEF InProgressAccounted
<1>7. \A d \in CheckIds :
        /\ status'[d] = IF d = c THEN "wait_depend"
                        ELSE IF d \in N THEN "scheduled" ELSE status[d]
        /\ dependOn'[d] = IF d = c THEN dependOn[c] \cup N \cup HeadsOf(D)
                          ELSE IF d \in N THEN {} ELSE dependOn[d]
        /\ dependMe'[d] = IF d \in N THEN {c}
                          ELSE IF d \in HeadsOf(D) THEN dependMe[d] \cup {c}
                          ELSE dependMe[d]
        /\ mishap'[d] = IF d \in N THEN {} ELSE mishap[d]
  BY <1>2 DEF Begin, Waits
<1>8. \A i \in Items :
        /\ InProgress(i)' = InProgress(i) \cup { n \in N : ItemOf[n] = i }
        /\ actions'[i] = actions[i] \cup { n \in N : ItemOf[n] = i }
        /\ \A m, n \in DOMAIN inProgress'[i] :
             inProgress'[i][m] = inProgress'[i][n] => m = n
  BY <1>2, LaunchInProgress, LaunchActions DEF InProgress, Waits
<1>9. adding' = N
  BY <1>2 DEF Waits
<1>10. NoDuplicates' /\ CrashExplained'
  BY <1>3, <1>8 DEF NoDuplicates, CrashExplained
<1>11. InProgressAccounted'
  <2> SUFFICES ASSUME NEW i \in Items, NEW x \in InProgress(i)'
               PROVE  /\ ItemOf[x] = i
                      /\ \/ Live(x)' /\ (x \in checks' \/ Unregistered(x)')
                         \/ "dropped" \in mishap'[x]
    BY DEF InProgressAccounted
  <2>1. CASE x \in N
    <3>1. x \in CheckIds /\ x \notin InProgress(i) /\ x # c
      BY <1>5, <2>1
    <3>2. ItemOf[x] = i
      BY <1>8, <3>1
    <3>3. Live(x)' /\ x \in adding' /\ x \notin checks'
      BY <1>3, <1>5, <1>7, <1>9, <2>1, <3>1 DEF Live
    <3> QED BY <3>2, <3>3 DEF Unregistered
  <2>2. CASE x \notin N
    <3>1. x \in InProgress(i) /\ x \in CheckIds
      BY <1>8, <2>2, InProgressType
    <3>2. ItemOf[x] = i /\ actions[i] \subseteq actions'[i]
      BY <1>8, <3>1 DEF InProgressAccounted
    <3>3. Unregistered(x) => Unregistered(x)'
      BY <1>3, <1>7, <2>2, <3>1, <3>2 DEF Unregistered, Held
    <3>4. Live(x) => Live(x)'
      BY <1>7, <2>2, <3>1 DEF Live
    <3> QED BY <1>3, <1>7, <2>2, <3>1, <3>2, <3>3, <3>4 DEF InProgressAccounted
  <2> QED BY <2>1, <2>2
<1>12. AwaitedKnown'
  <2> SUFFICES ASSUME NEW w \in CheckIds, NEW d \in dependOn'[w]
               PROVE  \/ "dropped" \in mishap'[d]
                      \/ /\ d \in checks' \cup adding'
                         /\ status'[d] \notin {"none", "zombie"}
                         /\ w \in dependMe'[d]
    BY DEF AwaitedKnown
  <2>1. d \in CheckIds
    BY <1>5, <1>6, <1>7 DEF TypeOK
  <2>2. CASE d \in N
    <3>1. w = c
      BY <1>5, <1>7, <2>2
    <3> QED BY <1>5, <1>7, <1>9, <2>1, <2>2, <3>1
  <2>3. CASE d \notin N /\ d \in dependOn[w]
    <3>1. \/ "dropped" \in mishap[d]
          \/ d \in checks /\ status[d] \notin {"none", "zombie"} /\ w \in dependMe[d]
      BY <1>3, <2>3 DEF AwaitedKnown
    <3> QED BY <1>3, <1>7, <2>1, <2>3, <3>1
  <2>4. CASE d \notin N /\ w = c /\ d \in HeadsOf(D)
    BY <1>3, <1>6, <1>7, <2>1, <2>4 DEF Live
  <2> QED BY <1>7, <2>2, <2>3, <2>4
<1>13. AwaitingLinked'
  <2> SUFFICES ASSUME NEW d \in CheckIds, NEW w \in dependMe'[d], d \notin dependOn'[w],
                      "revived" \notin mishap'[d]
               PROVE  /\ status'[d] = "zombie"
                      /\ d \in checks' => pc' \in Releasing
    BY DEF AwaitingLinked, Releasing
  <2>5. dependOn'[c] = dependOn[c] \cup N \cup HeadsOf(D)
    BY <1>7
  <2>1. d \notin N /\ w \in dependMe[d] /\ w \in CheckIds
    <3>3. dependMe'[d] = IF d \in N THEN {c}
                         ELSE IF d \in HeadsOf(D) THEN dependMe[d] \cup {c}
                         ELSE dependMe[d]
      BY <1>7
    <3>1. CASE d \in N
      <4>1. w = c
        BY <3>1, <3>3
      <4> QED BY <2>5, <3>1, <4>1
    <3>2. CASE d \notin N
      <4>1. w \in dependMe[d] \/ (w = c /\ d \in HeadsOf(D))
        BY <3>2, <3>3
      <4>2. w \in dependMe[d]
        BY <2>5, <4>1
      <4> QED BY <3>2, <4>2 DEF TypeOK
    <3> QED BY <3>1, <3>2
  <2>2. w \notin N
    BY <1>5, <2>1
  <2>3. d \notin dependOn[w] /\ "revived" \notin mishap[d]
    BY <1>7, <2>1, <2>2
  <2>4. status[d] = "zombie" /\ (d \in checks => pc \in Releasing)
    BY <2>1, <2>3 DEF AwaitingLinked, Releasing
  <2> QED BY <1>3, <1>7, <2>1, <2>4
<1> QED BY <1>10, <1>11, <1>12, <1>13

\* An exception leaves everything else where it was.
LEMMA CrashFrame ==
  ASSUME IInv, pc' = "crashed", LookupFailed' \/ ReleaseFailed',
         UNCHANGED <<checks, adding, inProgress, actions, status, dependOn, dependMe,
                     mishap, command>>,
         pc \notin {"schedule", "freshness", "drain", "internal", "orphans"}
  PROVE  Links' /\ CrashExplained'
<1> USE DEF IInv, Books, Links
<1>1. NoDuplicates' /\ AwaitedKnown' /\ CrashExplained'
  BY DEF NoDuplicates, AwaitedKnown, CrashExplained
<1>2. InProgressAccounted'
  BY DEF InProgressAccounted, InProgress, Live, Unregistered, Held
<1>3. AwaitingLinked'
  BY DEF AwaitingLinked
<1> QED BY <1>1, <1>2, <1>3

\* Resolving a check releases those that wait for it, and finds each of them,
\* unless the check has been revived.
LEMMA ResolveSafe ==
  ASSUME IInv, NEW c \in CheckIds, Resolve(c)
  PROVE  Links' /\ CrashExplained'
<1> USE DEF IInv, Books, Links
<1>1. c \in checks /\ status[c] = "waiting_me" /\ pc = "resolve"
  BY DEF Resolve, At, TodoKnown
<1>2. CASE \A d \in dependMe[c] : c \in dependOn[d]
  <2>1. /\ dependOn' = [d \in CheckIds |-> IF d \in dependMe[c]
                                          THEN dependOn[d] \ {c} ELSE dependOn[d]]
        /\ status' = [status EXCEPT ![c] = "zombie"]
        /\ UNCHANGED <<checks, adding, inProgress, actions, dependMe, mishap, command, pc>>
    BY <1>2 DEF Resolve, itemVars, outVars
  <2>2. \A d \in CheckIds :
          /\ status'[d] = IF d = c THEN "zombie" ELSE status[d]
          /\ dependOn'[d] = IF d \in dependMe[c] THEN dependOn[d] \ {c} ELSE dependOn[d]
    BY <2>1 DEF TypeOK
  <2>3. NoDuplicates' /\ CrashExplained'
    BY <1>1, <2>1 DEF NoDuplicates, CrashExplained
  <2>4. InProgressAccounted'
    <3>1. \A i \in Items : InProgress(i) \subseteq CheckIds /\ InProgress(i)' = InProgress(i)
      BY <2>1, InProgressType DEF InProgress
    <3>2. \A d \in CheckIds : (Live(d) => Live(d)') /\ (Unregistered(d) => Unregistered(d)')
      BY <1>1, <2>1, <2>2 DEF Live, Unregistered, Held
    <3> QED BY <2>1, <3>1, <3>2 DEF InProgressAccounted
  <2>5. AwaitedKnown'
    BY <2>1, <2>2 DEF AwaitedKnown, TypeOK
  <2>6. AwaitingLinked'
    BY <1>1, <2>1, <2>2 DEF AwaitingLinked, TypeOK
  <2> QED BY <2>3, <2>4, <2>5, <2>6
<1>3. CASE ~ \A d \in dependMe[c] : c \in dependOn[d]
  <2>1. /\ pc' = "crashed"
        /\ UNCHANGED <<checks, adding, inProgress, actions, status, dependOn, dependMe,
                       mishap, command>>
    BY <1>3 DEF Resolve, Crash, Goto, itemVars, objVars
  <2>2. "revived" \in mishap[c]
    BY <1>1, <1>3 DEF AwaitingLinked
  <2>3. ReleaseFailed'
    BY <1>1, <2>1, <2>2 DEF ReleaseFailed
  <2> QED BY <1>1, <2>1, <2>3, CrashFrame
<1> QED BY <1>2, <1>3

\* A failed lookup meets a check that is launched and not registered, or dropped.
LEMMA LookupSafe ==
  ASSUME IInv, NEW c \in CheckIds, DependencyKeyError(c)
  PROVE  Links' /\ CrashExplained'
<1> USE DEF IInv, Books, Links
<1>1. /\ MustWait(c) /\ adding = {} /\ pc' = "crashed" /\ pc = "consume"
      /\ UNCHANGED <<checks, adding, inProgress, actions, active, status, exit, dependOn,
                     dependMe, mishap, command>>
  BY DEF DependencyKeyError, At, Crash, Goto, itemVars, objVars
<1>2. PICK d \in BusyOf(ActDependOf[ItemOf[c]]) : Head(inProgress[d]) \notin checks
  BY DEF DependencyKeyError, HeadsOf
<1> DEFINE h == Head(inProgress[d])
<1>3. d \in Items /\ inProgress[d] \in Seq(CheckIds) /\ inProgress[d] # <<>>
  BY <1>2, CheckConstants DEF BusyOf, TypeOK
<1>4. h \in InProgress(d)
  BY <1>3 DEF InProgress, Range
<1>5. "dropped" \in mishap[h] \/ Unregistered(h)
  BY <1>2, <1>3, <1>4 DEF InProgressAccounted
<1>6. LookupFailed'
  <2>1. MustWait(c)' /\ d \in BusyOf(ActDependOf[ItemOf[c]])'
    BY <1>1, <1>2 DEF MustWait, BusyOf
  <2>2. /\ Head(inProgress[d])' = h /\ h \notin checks'
        /\ "dropped" \in mishap'[h] \/ Unregistered(h)'
    BY <1>1, <1>2, <1>5 DEF Unregistered, Held
  <2> QED BY <2>1, <2>2 DEF LookupFailed
<1> QED BY <1>1, <1>6, CrashFrame

\* A result is drained into a known check.
LEMMA DrainSafe ==
  ASSUME IInv, Drain
  PROVE  Links' /\ CrashExplained'
<1> USE DEF IInv, Books, Links
<1> DEFINE r == Head(waiting)
<1>1. r.id \in CheckIds
  <2>1. r \in Results
    BY DEF Drain, TypeOK
  <2> QED BY <2>1 DEF Results
<1>2. /\ pc = "drain"
      /\ status' = IF r.id \in checks THEN [status EXCEPT ![r.id] = "wait_consume"]
                                      ELSE status
      /\ UNCHANGED <<checks, adding, inProgress, actions, dependOn, dependMe, mishap,
                     command, pc>>
  BY DEF Drain, At, itemVars
<1> HIDE DEF r
<1>3. \A d \in CheckIds :
        status'[d] = IF d \in checks /\ d = r.id THEN "wait_consume" ELSE status[d]
  BY <1>1, <1>2 DEF TypeOK
<1>4. \A d \in CheckIds : Unregistered(d) => Unregistered(d)'
  BY <1>2 DEF Unregistered, Held
<1> QED BY <1>2, <1>3, <1>4, FrameSafe DEF Releasing

-----------------------------------------------------------------------------
(* The other steps of the main loop *)

\* The steps that launch checks.
LEMMA ScheduleSafe ==
  ASSUME IInv, NEW i \in Items,
         Schedule(i) \/ \E e \in Exits : CheckFreshness(i, e)
  PROVE  Links' /\ CrashExplained'
<1>1. PICK N \in FreshSets({i}), e \in Exits \cup {DefaultExit}, t \in {"future", "due"} :
        Launch(N, "scheduled", e, t) /\ adding' = N
  BY DEF Schedule, CheckFreshness
<1>2. adding = {} /\ pc \in {"schedule", "freshness"} /\ UNCHANGED <<checks, command, pc>>
  BY DEF Schedule, CheckFreshness, At, outVars
<1>3. CrashExplained'
  BY <1>2 DEF CrashExplained
<1>4. Held \subseteq Held' /\ adding \subseteq adding'
  BY <1>2 DEF Held
<1> QED BY <1>1, <1>2, <1>3, <1>4, LaunchSafe

\* The main loop registers what it has launched.
LEMMA RegisterSafe ==
  ASSUME IInv, NEW c \in CheckIds, Register(c)
  PROVE  Links' /\ CrashExplained'
<1>1. /\ AddChecks({c}) /\ adding' = adding \ {c} /\ checks' = checks \cup {c}
      /\ pc \in {"schedule", "freshness", "consume"}
      /\ UNCHANGED <<inProgress, actions, status, dependOn, dependMe, pc, command>>
  BY DEF Register, AddChecks, itemVars, IInv, Books, AddingAtWork
<1>2. \A d \in CheckIds \ {c} : Unregistered(d) => Unregistered(d)'
  BY <1>1 DEF Unregistered, Held, AddChecks, Marked
<1> QED BY <1>1, <1>2, AddSafe DEF Releasing

\* get_new_actions registers what it finds in the actions of an item ...
LEMMA TakeSafe ==
  ASSUME IInv, NEW i \in Items, TakeActions(i)
  PROVE  Links' /\ CrashExplained'
<1>1. /\ AddChecks(actions[i]) /\ pc = "take" /\ pc' = "clear"
      /\ checks' = checks \cup actions[i]
      /\ UNCHANGED <<inProgress, actions, adding, status, dependOn, dependMe, command>>
  BY DEF TakeActions, AddChecks, At, Goto, itemVars, outVars
<1>2. actions[i] \in SUBSET CheckIds
  BY DEF IInv, Books, TypeOK
<1>3. \A d \in CheckIds \ actions[i] : Unregistered(d) => Unregistered(d)'
  BY <1>1 DEF Unregistered, Held, AddChecks, Marked
<1> QED BY <1>1, <1>2, <1>3, AddSafe DEF Releasing

\* ... and then empties the list: what it throws away unread is overlooked.
LEMMA ClearSafe ==
  ASSUME IInv, ClearActions
  PROVE  Links' /\ CrashExplained'
<1>1. /\ pc = "clear" /\ pc' = "take"
      /\ UNCHANGED <<checks, adding, inProgress, status, dependOn, dependMe, command>>
  BY DEF ClearActions, At, Goto, outVars
<1> DEFINE U == UNION { actions[i] : i \in cur }
<1>4. mishap' = [c \in CheckIds |-> IF c \in U \ (checks \cup Held)
                                   THEN mishap[c] \cup {"overlooked"} ELSE mishap[c]]
  BY DEF ClearActions, Marked
<1>2. \A d \in CheckIds : mishap[d] \subseteq mishap'[d]
  BY <1>4
<1>3. ASSUME NEW d \in CheckIds, Unregistered(d)
      PROVE  Unregistered(d)'
  <2>1. ItemOf[d] \in Items /\ Held' = Held
    BY <1>1, CheckConstants DEF Held
  <2>2. CASE ItemOf[d] \in cur /\ d \in actions[ItemOf[d]] /\ d \notin Held
    <3>1. actions[ItemOf[d]] \in { actions[i] : i \in cur } /\ d \notin checks
      BY <1>3, <2>2 DEF Unregistered
    <3>3. d \in U
      BY <2>2, <3>1, Zenon
    <3> HIDE DEF U
    <3>2. "overlooked" \in mishap'[d]
      BY <1>4, <2>2, <3>1, <3>3
    <3> QED BY <1>1, <1>3, <3>2 DEF Unregistered
  <2>3. CASE ~(ItemOf[d] \in cur /\ d \in actions[ItemOf[d]] /\ d \notin Held)
    <3>1. d \in actions[ItemOf[d]] => d \in Held \/ d \in actions'[ItemOf[d]]
      BY <2>1, <2>3 DEF ClearActions
    <3> QED BY <1>1, <1>2, <1>3, <2>1, <3>1 DEF Unregistered
  <2> QED BY <2>2, <2>3
<1> QED BY <1>1, <1>2, <1>3, FrameSafe DEF Releasing

\* delete_zombie_checks deletes nothing that is still to be consumed or awaited.
LEMMA DeleteSafe ==
  ASSUME IInv, DeleteZombieChecks
  PROVE  Links' /\ CrashExplained'
<1> USE DEF IInv, Books, Links
<1> DEFINE Z    == { c \in checks : status[c] = "zombie" }
           Gone == Z \ Held
<1>1. /\ pc' = "orphans" /\ adding = {} /\ checks' = checks \ Z
      /\ UNCHANGED <<adding, inProgress, actions, dependOn, command>>
      /\ \A c \in CheckIds :
           /\ status'[c] = IF c \in Gone THEN "none" ELSE status[c]
           /\ dependMe'[c] = IF c \in Gone THEN {} ELSE dependMe[c]
           /\ mishap'[c] = IF c \in Gone /\ ~Mentioned(c) THEN {} ELSE mishap[c]
  BY DEF DeleteZombieChecks, Begin, At, Goto, itemVars, outVars
<1>2. Held' = Held /\ \A i \in Items : InProgress(i)' = InProgress(i)
  BY <1>1 DEF Held, InProgress
<1>3. NoDuplicates' /\ CrashExplained'
  BY <1>1 DEF NoDuplicates, CrashExplained
<1> HIDE DEF Gone
<1>4. InProgressAccounted'
  <2> SUFFICES ASSUME NEW i \in Items, NEW c \in InProgress(i)
               PROVE  /\ ItemOf[c] = i
                      /\ \/ Live(c)' /\ (c \in checks' \/ Unregistered(c)')
                         \/ "dropped" \in mishap'[c]
    BY <1>2 DEF InProgressAccounted
  <2>1. c \in CheckIds /\ ItemOf[c] = i /\ Mentioned(c)
    BY InProgressType DEF InProgressAccounted, Mentioned, InProgress
  <2>2. mishap'[c] = mishap[c]
    BY <1>1, <2>1
  <2>3. CASE "dropped" \in mishap[c]
    BY <2>1, <2>2, <2>3
  <2>4. CASE Live(c) /\ (c \in checks \/ Unregistered(c))
    <3>1. c \notin Z /\ c \notin Gone
      BY <2>4 DEF Live, Gone
    <3>2. Live(c)' /\ (c \in checks => c \in checks')
      BY <1>1, <2>1, <2>4, <3>1 DEF Live
    <3>3. Unregistered(c) => Unregistered(c)'
      BY <1>1, <1>2, <2>2 DEF Unregistered
    <3> QED BY <2>1, <2>4, <3>2, <3>3
  <2> QED BY <2>3, <2>4 DEF InProgressAccounted
<1>5. AwaitedKnown'
  <2> SUFFICES ASSUME NEW w \in CheckIds, NEW d \in dependOn[w]
               PROVE  \/ "dropped" \in mishap'[d]
                      \/ /\ d \in checks' \cup adding'
                         /\ status'[d] \notin {"none", "zombie"}
                         /\ w \in dependMe'[d]
    BY <1>1 DEF AwaitedKnown
  <2>1. d \in CheckIds /\ Mentioned(d)
    BY DEF TypeOK, Mentioned
  <2>2. mishap'[d] = mishap[d]
    BY <1>1, <2>1
  <2>3. CASE "dropped" \in mishap[d]
    BY <2>2, <2>3
  <2>4. CASE d \in checks /\ status[d] \notin {"none", "zombie"} /\ w \in dependMe[d]
    <3>1. d \notin Z /\ d \notin Gone
      BY <2>4 DEF Gone
    <3> QED BY <1>1, <2>1, <2>4, <3>1
  <2> QED BY <1>1, <2>3, <2>4 DEF AwaitedKnown
<1>6. AwaitingLinked'
  <2> SUFFICES ASSUME NEW d \in CheckIds, NEW w \in dependMe'[d], d \notin dependOn[w],
                      "revived" \notin mishap'[d]
               PROVE  status'[d] = "zombie" /\ d \notin checks'
    BY <1>1 DEF AwaitingLinked
  <2>1. d \notin Gone /\ w \in dependMe[d]
    BY <1>1
  <2>2. status[d] = "zombie"
    BY <1>1, <2>1 DEF AwaitingLinked, TypeOK
  <2> QED BY <1>1, <2>1, <2>2
<1> QED BY <1>3, <1>4, <1>5, <1>6

\* manage_internal_checks answers a check, or drops it.
LEMMA InternalSafe ==
  ASSUME IInv, NEW c \in CheckIds, NEW e, ManageInternalCheck(c, e)
  PROVE  Links' /\ CrashExplained'
<1>1. /\ pc = "internal" /\ pc' = pc
      /\ UNCHANGED <<checks, adding, inProgress, actions, dependOn, dependMe, command>>
  BY DEF ManageInternalCheck, At, itemVars, outVars
<1>2. \A d \in CheckIds :
        /\ mishap[d] \subseteq mishap'[d]
        /\ \/ status'[d] = status[d]
           \/ status'[d] = "wait_consume" /\ status[d] = "scheduled"
           \/ status'[d] = "zombie" /\ "dropped" \in mishap'[d] /\ status[d] = "scheduled"
  BY DEF ManageInternalCheck, Marked, IInv, Books, TypeOK
<1>3. \A d \in CheckIds : Unregistered(d) => Unregistered(d)'
  BY <1>1, <1>2 DEF Unregistered, Held
<1> QED BY <1>1, <1>2, <1>3, FrameSafe DEF Releasing

\* check_orphaned offers polled checks again.
LEMMA OrphanSafe ==
  ASSUME IInv, CheckOrphaned
  PROVE  Links' /\ CrashExplained'
<1>1. /\ pc = "orphans" /\ pc' = "internal"
      /\ UNCHANGED <<checks, adding, inProgress, actions, dependOn, dependMe, command,
                     mishap>>
  BY DEF CheckOrphaned, At, Goto, itemVars, outVars
<1>2. \A d \in CheckIds : \/ status'[d] = status[d]
                          \/ status'[d] = "scheduled" /\ status[d] = "polled"
  BY DEF CheckOrphaned, Begin
<1>3. \A d \in CheckIds : Unregistered(d) => Unregistered(d)'
  BY <1>1 DEF Unregistered, Held
<1> QED BY <1>1, <1>2, <1>3, FrameSafe DEF Releasing

\* The steps from one loop to the next, and those of a loop that passes over a
\* check, leave checks and links alone.
LEMMA LoopSafe ==
  ASSUME IInv,
         \/ ScheduleEnd \/ FreshnessEnd \/ DrainEnd \/ ConsumeEnd \/ ResolveEnd
         \/ IncludeEnd \/ TakeEnd \/ TurnEnd \/ \E c \in CheckIds : PassOver(c)
  PROVE  Links' /\ CrashExplained'
<1>1. /\ UNCHANGED <<checks, adding, inProgress, actions, status, dependOn, dependMe,
                     mishap, command>>
      /\ pc' # "crashed" /\ (pc \notin Releasing \/ pc' \in Releasing)
  <2>1. CASE ScheduleEnd \/ FreshnessEnd \/ DrainEnd \/ ConsumeEnd \/ ResolveEnd
    BY <2>1 DEF ScheduleEnd, FreshnessEnd, DrainEnd, ConsumeEnd, ResolveEnd, At, Goto,
                itemVars, objVars, outVars, Releasing
  <2>2. CASE IncludeEnd \/ TakeEnd \/ TurnEnd
    BY <2>2 DEF IncludeEnd, TakeEnd, TurnEnd, At, Goto, itemVars, objVars, outVars,
                Releasing
  <2>3. CASE \E c \in CheckIds : PassOver(c)
    BY <2>3 DEF PassOver, At, itemVars, objVars, outVars, Releasing
  <2> QED BY <2>1, <2>2, <2>3
<1>2. \A d \in CheckIds : Unregistered(d) => Unregistered(d)'
  BY <1>1 DEF Unregistered, Held
<1> QED BY <1>1, <1>2, FrameSafe

-----------------------------------------------------------------------------
(* The steps of the satellites, of the clock and of external commands *)

LEMMA SatelliteSafe ==
  ASSUME IInv, Satellites \/ \E c \in CheckIds : Elapse(c)
  PROVE  Links' /\ CrashExplained'
<1>1. /\ UNCHANGED <<checks, adding, inProgress, actions, dependOn, dependMe, mishap,
                     command, pc>>
      /\ pc # "crashed"
      /\ \A d \in CheckIds : \/ status'[d] = status[d]
                             \/ status'[d] = "polled" /\ status[d] = "scheduled"
  BY DEF Satellites, Poll, Return, Lose, Elapse, itemVars, objVars, loopVars, IInv, Books,
         TypeOK
<1>2. \A d \in CheckIds : Unregistered(d) => Unregistered(d)'
  BY <1>1 DEF Unregistered, Held
<1> QED BY <1>1, <1>2, FrameSafe

\* A command that launches a check, or takes over one in progress.
LEMMA CommandSafe ==
  ASSUME IInv, NEW i \in Items,
         \/ ScheduleForcedCheck(i) \/ ScheduleCheck(i)
         \/ \E e \in Exits : ProcessCheckResult(i, e)
  PROVE  Links' /\ CrashExplained'
<1>1. /\ pc # "crashed" /\ Held = {}
      /\ UNCHANGED <<checks, adding, pc>>
  BY DEF ScheduleForcedCheck, ScheduleCheck, ProcessCheckResult, Arrives, Idle, Held,
         loopVars
<1>2. CASE \E N \in FreshSets({i}), t \in {"future", "due"} :
             Launch(N, "scheduled", DefaultExit, t)
  <2>1. CrashExplained'
    BY <1>1 DEF CrashExplained
  <2> QED BY <1>1, <1>2, <2>1, LaunchSafe
<1>3. CASE Hijack(Head(inProgress[i]))
  <2>1. UNCHANGED <<inProgress, actions, status, dependOn, dependMe, mishap>>
    BY <1>3 DEF Hijack
  <2>2. \A d \in CheckIds : Unregistered(d) => Unregistered(d)'
    BY <1>1, <2>1 DEF Unregistered
  <2> QED BY <1>1, <2>1, <2>2, FrameSafe
<1> QED BY <1>2, <1>3 DEF ScheduleForcedCheck, ScheduleCheck, ProcessCheckResult

\* The command writes its result, on a check that may have been consumed.
LEMMA WriteSafe ==
  ASSUME IInv, WriteResult
  PROVE  Links' /\ CrashExplained'
<1> DEFINE S == Held \cup (command.checks \cap checks)
<1>1. /\ pc # "crashed" /\ command.stage \in {"passive", "disable"}
      /\ UNCHANGED <<checks, adding, inProgress, actions, dependOn, dependMe, pc>>
  BY DEF WriteResult, itemVars, loopVars
<1>2. \A d \in CheckIds :
        /\ status'[d] = IF d \in S THEN "wait_consume" ELSE status[d]
        /\ mishap[d] \subseteq mishap'[d]
        /\ d \in S /\ status[d] = "zombie" => "revived" \in mishap'[d]
  BY DEF WriteResult, Begin, Marked
<1> HIDE DEF S
<1>3. Held \subseteq Held'
  BY <1>1 DEF WriteResult, Held, IInv, Books, TypeOK
<1>4. \A d \in CheckIds : Unregistered(d) => Unregistered(d)'
  BY <1>1, <1>2, <1>3 DEF Unregistered
<1> QED BY <1>1, <1>2, <1>4, FrameSafe

\* ... and registers it.
LEMMA SendSafe ==
  ASSUME IInv, SendResult
  PROVE  Links' /\ CrashExplained'
<1>1. /\ pc # "crashed" /\ command.stage = "send" /\ AddChecks(command.checks)
      /\ checks' = checks \cup command.checks
      /\ UNCHANGED <<inProgress, actions, adding, status, dependOn, dependMe, pc>>
  BY DEF SendResult, AddChecks, itemVars, loopVars
<1>2. command.checks \in SUBSET CheckIds
  BY DEF IInv, Books, TypeOK
<1>3. \A d \in CheckIds \ command.checks : Unregistered(d) => Unregistered(d)'
  BY <1>1 DEF Unregistered, Held, AddChecks, Marked
<1> QED BY <1>1, <1>2, <1>3, AddSafe

\* Enabling and disabling the active checks, until the results are written.
LEMMA ToggleSafe ==
  ASSUME IInv, NEW i \in Items,
         EnableActiveChecks(i) \/ \E e \in Exits : DisableActiveChecks(i, e)
  PROVE  Links' /\ CrashExplained'
<1>1. /\ pc # "crashed" /\ Held = {}
      /\ UNCHANGED <<checks, adding, inProgress, actions, status, dependOn, dependMe,
                     mishap, pc>>
  BY DEF EnableActiveChecks, DisableActiveChecks, Arrives, Idle, Held, objVars, loopVars
<1>2. \A d \in CheckIds : Unregistered(d) => Unregistered(d)'
  BY <1>1 DEF Unregistered
<1> QED BY <1>1, <1>2, FrameSafe

-----------------------------------------------------------------------------
(* The invariant and the theorems *)

LEMMA SafetyInit ==
  ASSUME Init
  PROVE  IInv
<1>1. TypeOK
  BY InitType
<1>2. DrainHasResults /\ AddingAtWork /\ TodoKnown /\ CrashExplained
  BY DEF Init, DrainHasResults, AddingAtWork, TodoKnown, CrashExplained
<1>3. NoDuplicates /\ InProgressAccounted
  BY DEF Init, NoDuplicates, InProgressAccounted, InProgress, Range
<1>4. AwaitedKnown /\ AwaitingLinked
  BY DEF Init, AwaitedKnown, AwaitingLinked
<1> QED BY <1>1, <1>2, <1>3, <1>4 DEF IInv, Books, Links

LEMMA SafetyStep ==
  ASSUME IInv, [Next]_vars
  PROVE  IInv'
<1>1. SUFFICES Links' /\ CrashExplained'
  BY BooksStep DEF IInv
<1>2. ASSUME NEW c \in CheckIds, Consume(c) \/ IncludeDependent(c)
      PROVE  Links' /\ CrashExplained'
  <2>1. /\ c \in checks /\ Consumed(c) /\ UNCHANGED pc /\ pc # "crashed"
        /\ status[c] \in {"wait_consume", "wait_depend"}
    BY <1>2 DEF Consume, IncludeDependent, Consumed, At, IInv, Books, TodoKnown
  <2> QED BY <2>1, ConsumedSafe
<1>3. CASE MainLoop
  BY <1>2, <1>3, ScheduleSafe, RegisterSafe, DrainSafe, WaitSafe, LookupSafe, ResolveSafe,
     TakeSafe, ClearSafe, DeleteSafe, InternalSafe, OrphanSafe, LoopSafe
     DEF MainLoop
<1>4. CASE Satellites \/ \E c \in CheckIds : Elapse(c)
  BY <1>4, SatelliteSafe
<1>5. CASE ExternalCommands
  BY <1>5, CommandSafe, WriteSafe, SendSafe, ToggleSafe DEF ExternalCommands
<1>6. CASE UNCHANGED vars
  <2>1. /\ UNCHANGED <<checks, adding, inProgress, actions, active, status, exit, dependOn,
                       dependMe, mishap, command, pc>>
    BY <1>6 DEF vars, itemVars, objVars, loopVars
  <2>2. NoDuplicates' /\ InProgressAccounted' /\ AwaitedKnown' /\ AwaitingLinked'
    BY <2>1 DEF IInv, Links, NoDuplicates, InProgressAccounted, InProgress, Live,
                Unregistered, Held, AwaitedKnown, AwaitingLinked
  <2>3. CrashExplained'
    BY <2>1 DEF IInv, CrashExplained, LookupFailed, ReleaseFailed, BusyOf, MustWait,
                Unregistered, Held
  <2> QED BY <2>2, <2>3 DEF Links
<1> QED BY <1>3, <1>4, <1>5, <1>6 DEF Next

\* The inductive invariant holds whatever external commands arrive, and wherever
\* they fall between the steps of the main loop and of the satellites.
THEOREM Safety == Spec => []IInv
<1> QED BY SafetyInit, SafetyStep, PTL DEF Spec

\* A check that keeps its item in checking will be consumed, or awaits its
\* registration, or has met one of the two mishaps that strand it.
THEOREM InProgressSafe == Spec => []InProgressAccounted
<1>1. IInv => InProgressAccounted
  BY DEF IInv, Links
<1> QED BY <1>1, Safety, PTL

\* A check set aside by consume_result waits for checks that will answer and
\* that know it, unless manage_internal_checks has dropped them.
THEOREM WaitsSafe == Spec => []NoAbandonedWait
<1>1. IInv => NoAbandonedWait
  BY DEF IInv, Books, Links, NoAbandonedWait, AwaitedKnown, TypeOK
<1> QED BY <1>1, Safety, PTL

\* No exception ends the main loop but in the windows that external commands
\* open.
THEOREM LoopGoesOn == Spec => []CrashExplained
<1>1. IInv => CrashExplained
  BY DEF IInv
<1> QED BY <1>1, Safety, PTL

\* consume_results never waits for a result that is not there.
THEOREM DrainNeverBlocks == Spec => []DrainHasResults
<1>1. IInv => DrainHasResults
  BY DEF IInv, Books
<1> QED BY <1>1, Safety, PTL

=============================================================================
