------------------------- MODULE Satellite_proofs -------------------------
(***************************************************************************)
(* Proofs about Satellite, for every set of actions, any number of workers *)
(* and any number of failures, resets and deaths. That the satellite works *)
(* for every action it has holds as long as one worker process runs at     *)
(* every moment: without one, assign_to_a_queue has no queue to use.       *)
(***************************************************************************)
EXTENDS Satellite, FiniteSetTheorems, TLAPS

\* The pool of workers: those that run are watched and not to be deleted, and
\* cur is the worker deleted last.
Pool ==
  /\ alive \subseteq known /\ dying \cap alive = {}
  /\ started >= MinWorkers /\ started - Cardinality(alive) <= MaxDeaths
  /\ pc # "requeue" => cur = NoWorker

TypeInv == TypeOK /\ Pool

\* WorkingForIt, where the worker of an action is one.
Working ==
  \A a \in actions :
    \/ Contains(returns, a)
    \/ /\ worker[a] \in Workers /\ worker[a] \in known \cup {cur}
       /\ Contains(queue[worker[a]], a) \/ Contains(held[worker[a]], a)

\* Nothing failed so far: the link is alive, and what was received is added
\* before more is asked.
Smooth ==
  /\ failures = 0 => network
  /\ failures = 0 /\ resets = 0 => link = "alive"
  /\ pc # "add" => incoming = {} \/ pc = "exited"

-----------------------------------------------------------------------------
(* Lists of actions *)

LEMMA AppendContains ==
  ASSUME NEW S, NEW s \in Seq(S), NEW a \in S
  PROVE  /\ Append(s, a) \in Seq(S) /\ Contains(Append(s, a), a)
         /\ \A e : Contains(s, e) => Contains(Append(s, a), e)
<1>1. /\ Append(s, a) \in Seq(S) /\ Len(Append(s, a)) = Len(s) + 1
      /\ Append(s, a)[Len(s) + 1] = a
      /\ \A i \in 1..Len(s) : Append(s, a)[i] = s[i] /\ i \in 1..(Len(s) + 1)
  OBVIOUS
<1>2. Contains(Append(s, a), a)
  <2>1. Len(s) + 1 \in 1..Len(Append(s, a))
    BY <1>1
  <2> QED BY <1>1, <2>1 DEF Contains
<1>3. ASSUME NEW e, Contains(s, e)
      PROVE  Contains(Append(s, a), e)
  BY <1>1, <1>3 DEF Contains
<1> QED BY <1>1, <1>2, <1>3

LEMMA TailContains ==
  ASSUME NEW S, NEW s \in Seq(S), s # <<>>
  PROVE  /\ Head(s) \in S /\ Tail(s) \in Seq(S)
         /\ \A e : Contains(s, e) /\ e # Head(s) => Contains(Tail(s), e)
<1>1. /\ Head(s) \in S /\ Tail(s) \in Seq(S) /\ Head(s) = s[1]
      /\ Len(Tail(s)) = Len(s) - 1 /\ \A i \in 1..Len(Tail(s)) : Tail(s)[i] = s[i + 1]
  OBVIOUS
<1>2. ASSUME NEW e, Contains(s, e), e # Head(s)
      PROVE  Contains(Tail(s), e)
  <2>1. PICK i \in 1..Len(s) : s[i] = e
    BY <1>2 DEF Contains
  <2>2. i - 1 \in 1..Len(Tail(s)) /\ (i - 1) + 1 = i
    BY <1>1, <1>2, <2>1
  <2>3. Tail(s)[i - 1] = e
    BY <1>1, <2>1, <2>2
  <2> QED BY <2>2, <2>3 DEF Contains
<1> QED BY <1>1, <1>2

LEMMA RemoveContains ==
  ASSUME NEW S, NEW s \in Seq(S), NEW k \in DOMAIN s
  PROVE  /\ RemoveAt(s, k) \in Seq(S)
         /\ \A e : Contains(s, e) /\ e # s[k] => Contains(RemoveAt(s, k), e)
<1> DEFINE r == RemoveAt(s, k)
<1>1. k \in 1..Len(s) /\ Len(s) \in Nat
  OBVIOUS
<1>2. SubSeq(s, 1, k - 1) \in Seq(S) /\ SubSeq(s, k + 1, Len(s)) \in Seq(S)
  BY <1>1
<1>3. r \in Seq(S)
  BY <1>2 DEF RemoveAt
<1>4. /\ Len(SubSeq(s, 1, k - 1)) = k - 1 /\ Len(SubSeq(s, k + 1, Len(s))) = Len(s) - k
      /\ \A i \in 1..(k - 1) : SubSeq(s, 1, k - 1)[i] = s[i]
      /\ \A i \in 1..(Len(s) - k) : SubSeq(s, k + 1, Len(s))[i] = s[k + i]
  BY <1>1
<1>5. /\ Len(r) = Len(s) - 1
      /\ \A i \in 1..(k - 1) : r[i] = s[i]
      /\ \A i \in k..(Len(s) - 1) : r[i] = s[i + 1]
  <2> DEFINE p == SubSeq(s, 1, k - 1)
             q == SubSeq(s, k + 1, Len(s))
  <2>1. r = p \o q
    BY DEF RemoveAt
  <2>2. /\ p \in Seq(S) /\ q \in Seq(S) /\ Len(p) = k - 1 /\ Len(q) = Len(s) - k
        /\ \A i \in 1..(k - 1) : p[i] = s[i]
        /\ \A i \in 1..(Len(s) - k) : q[i] = s[k + i]
    BY <1>2, <1>4
  <2> HIDE DEF p, q, r
  <2>3. /\ Len(r) = Len(p) + Len(q) /\ \A i \in 1..Len(p) : r[i] = p[i]
        /\ \A i \in (Len(p) + 1)..(Len(p) + Len(q)) : r[i] = q[i - Len(p)]
    BY <2>1, <2>2, SMTT(30)
  <2>4. Len(r) = Len(s) - 1 /\ \A i \in 1..(k - 1) : r[i] = s[i]
    BY <1>1, <2>2, <2>3, SMTT(30)
  <2>5. ASSUME NEW i \in k..(Len(s) - 1) PROVE r[i] = s[i + 1]
    <3>1. i \in (Len(p) + 1)..(Len(p) + Len(q)) /\ i - Len(p) = i - k + 1
      BY <1>1, <2>2, <2>5
    <3>2. i - k + 1 \in 1..(Len(s) - k) /\ k + (i - k + 1) = i + 1
      BY <1>1, <2>5
    <3> QED BY <2>2, <2>3, <3>1, <3>2, SMTT(30)
  <2> QED BY <2>4, <2>5
<1> HIDE DEF r
<1>6. ASSUME NEW e, Contains(s, e), e # s[k]
      PROVE  Contains(r, e)
  <2>1. PICK i \in 1..Len(s) : s[i] = e
    BY <1>6 DEF Contains
  <2>2. CASE i < k
    <3>1. i \in 1..Len(r) /\ i \in 1..(k - 1)
      BY <1>1, <1>5, <2>2
    <3> QED BY <1>5, <2>1, <3>1 DEF Contains
  <2>3. CASE i > k
    <3>1. i - 1 \in 1..Len(r) /\ i - 1 \in k..(Len(s) - 1) /\ (i - 1) + 1 = i
      BY <1>1, <1>5, <2>3
    <3>2. r[i - 1] = e
      BY <1>5, <2>1, <3>1
    <3> QED BY <3>1, <3>2 DEF Contains
  <2> QED BY <1>1, <1>6, <2>1, <2>2, <2>3
<1> QED BY <1>3, <1>6 DEF r

-----------------------------------------------------------------------------
(* Types and the pool of workers *)

\* The workers that run are finitely many.
LEMMA PoolFinite ==
  ASSUME TypeOK
  PROVE  /\ started \in Nat
         /\ IsFiniteSet(alive) /\ Cardinality(alive) \in Nat
         /\ IsFiniteSet(known) /\ Cardinality(known) \in Nat
<1>1. started \in Nat /\ alive \in SUBSET (1..started) /\ known \in SUBSET (1..started)
  BY SatelliteConstants DEF TypeOK
<1>2. IsFiniteSet(1..started)
  BY <1>1, FS_Interval
<1> QED BY <1>1, <1>2, FS_Subset, FS_CardinalityType

LEMMA InitType == Init => TypeInv
<1> SUFFICES ASSUME Init PROVE TypeInv
  OBVIOUS
<1>1. network \in BOOLEAN /\ restarted \in BOOLEAN
  BY Zenon DEF Init
<1>2. /\ failures \in 0..MaxFailures /\ resets \in 0..MaxResets
      /\ attempt \in 0..(MaxAttempts - 1) /\ started \in 0..(MinWorkers + MaxDeaths)
  BY SatelliteConstants DEF Init
<1>3. /\ worker \in [Actions -> Workers \cup {NoWorker}]
      /\ sched \in [Actions -> {"none", "due", "polled", "done"}]
      /\ queue \in [Workers -> Seq(Actions)] /\ held \in [Workers -> Seq(Actions)]
  BY DEF Init
<1>4. TypeOK
  BY <1>1, <1>2, <1>3 DEF Init, TypeOK, Stages
<1>5. Cardinality(alive) = MinWorkers
  BY SatelliteConstants, FS_Interval DEF Init
<1> QED BY <1>4, <1>5, SatelliteConstants DEF Init, TypeInv, Pool

\* The steps of the link and of the network.
LEMMA LinkType ==
  ASSUME TypeInv, NewConf \/ Restore
  PROVE  TypeInv'
<1>1. /\ restarted' \in BOOLEAN
  BY Zenon DEF TypeInv, TypeOK, NewConf, Restore
<1>2. worker' \in [Actions -> Workers \cup {NoWorker}]
  BY DEF TypeInv, TypeOK, NewConf, Restore, actVars
<1>3. attempt' \in 0..(MaxAttempts - 1) /\ resets' \in 0..MaxResets
  BY SatelliteConstants DEF TypeInv, TypeOK, NewConf, Restore
<1>4. link' \in {"new", "alive", "unreachable", "dead"}
  BY DEF TypeInv, TypeOK, NewConf, Restore
<1>5. /\ actions' \in SUBSET Actions /\ homerun' \in SUBSET Actions
      /\ pc' \in {"restore", "zombies"} /\ pc = "restore"
  BY DEF TypeInv, TypeOK, NewConf, Restore, Goto, actVars, loopVars
<1>6. UNCHANGED <<sched, network, failures, workerVars, dealVars, returns, dying, cur, incoming>>
  BY DEF NewConf, Restore, loopVars
<1> QED BY <1>1, <1>2, <1>3, <1>4, <1>5, <1>6
        DEF TypeInv, TypeOK, Pool, Stages, workerVars, dealVars

LEMMA EnvironmentType ==
  ASSUME TypeInv, Environment
  PROVE  TypeInv'
<1>1. network' \in BOOLEAN /\ restarted' \in BOOLEAN
  BY Zenon DEF TypeInv, TypeOK, Environment, Schedule, Orphan, NetworkDown, NetworkUp
<1>2. sched' \in [Actions -> {"none", "due", "polled", "done"}]
  BY DEF TypeInv, TypeOK, Environment, Schedule, Orphan, NetworkDown, NetworkUp
<1>3. failures' \in 0..MaxFailures /\ resets' \in 0..MaxResets
  BY SatelliteConstants
     DEF TypeInv, TypeOK, Environment, Schedule, Orphan, NetworkDown, NetworkUp
<1>4. UNCHANGED <<linkVars, actVars, homerun, workerVars, dealVars, returns, loopVars>>
  BY DEF Environment, Schedule, Orphan, NetworkDown, NetworkUp
<1> QED BY <1>1, <1>2, <1>3, <1>4
        DEF TypeInv, TypeOK, Pool, linkVars, actVars, workerVars, dealVars, loopVars

\* The steps that only go to the next stage of the loop.
LEMMA GotoType ==
  ASSUME TypeInv,
         \/ NoticeDead \/ RequeueEnd \/ ForgetEnd \/ AdjustEnd \/ ReturnsEnd
         \/ PushNothing \/ GetNothing \/ AddEnd
  PROVE  TypeInv'
<1>1. UNCHANGED <<envVars, linkVars, actVars, homerun, workerVars, dealVars, returns, incoming>>
  BY DEF NoticeDead, RequeueEnd, ForgetEnd, AdjustEnd, ReturnsEnd, PushNothing, GetNothing, AddEnd
<1>2. /\ pc' \in Stages \ {"requeue"}
      /\ cur' = NoWorker
      /\ dying' \in SUBSET known /\ dying' \cap alive = {}
  BY DEF NoticeDead, RequeueEnd, ForgetEnd, AdjustEnd, ReturnsEnd, PushNothing, GetNothing,
         AddEnd, Goto, Stages, TypeInv, TypeOK, Pool
<1> QED BY <1>1, <1>2
        DEF TypeInv, TypeOK, Pool, envVars, linkVars, actVars, workerVars, dealVars

\* A worker that is deleted does not run.
LEMMA ForgetQueueType ==
  ASSUME TypeInv, NEW w \in Workers, ForgetQueue(w)
  PROVE  TypeInv'
<1>1. /\ known' = known \ {w} /\ dying' = dying \ {w} /\ cur' = w /\ pc' = "requeue"
      /\ w \in dying
      /\ UNCHANGED <<envVars, linkVars, actVars, homerun, workerVars, queue, returns, incoming>>
  BY DEF ForgetQueue, Goto
<1> QED BY <1>1 DEF TypeInv, TypeOK, Pool, Stages, envVars, linkVars, actVars, workerVars

LEMMA AssignType ==
  ASSUME TypeInv, NEW a \in Actions, NEW w \in known, Assign(a, w)
  PROVE  /\ worker' \in [Actions -> Workers \cup {NoWorker}]
         /\ queue' \in [Workers -> Seq(Actions)]
         /\ w \in Workers
<1>1. w \in Workers
  BY SatelliteConstants DEF TypeInv, TypeOK, Workers
<1>2. Append(queue[w], a) \in Seq(Actions)
  BY <1>1, AppendContains DEF TypeInv, TypeOK
<1> QED BY <1>1, <1>2 DEF TypeInv, TypeOK, Assign

LEMMA RequeueType ==
  ASSUME TypeInv, NEW a \in Actions, Requeue(a)
  PROVE  TypeInv'
<1>1. /\ worker' \in [Actions -> Workers \cup {NoWorker}]
      /\ queue' \in [Workers -> Seq(Actions)]
  BY AssignType DEF Requeue
<1> QED BY <1>1
        DEF TypeInv, TypeOK, Pool, Requeue, envVars, linkVars, workerVars, loopVars

\* There is always room for one more worker.
LEMMA CreateWorkerType ==
  ASSUME TypeInv, CreateWorker
  PROVE  TypeInv'
<1>1. /\ started \in Nat /\ alive \in SUBSET (1..started) /\ known \in SUBSET (1..started)
      /\ IsFiniteSet(alive) /\ Cardinality(alive) \in Nat
      /\ IsFiniteSet(known) /\ Cardinality(known) \in Nat
  BY PoolFinite, SatelliteConstants DEF TypeInv, TypeOK
<1>2. Cardinality(alive) <= Cardinality(known)
  BY <1>1, FS_Subset DEF TypeInv, Pool
<1>3. /\ started' = started + 1 /\ alive' = alive \cup {started + 1}
      /\ known' = known \cup {started + 1} /\ Cardinality(known) < MinWorkers
  BY DEF CreateWorker
<1>4. started' \in 0..(MinWorkers + MaxDeaths)
  BY <1>1, <1>2, <1>3, SatelliteConstants DEF TypeInv, Pool
<1>5. Cardinality(alive') = Cardinality(alive) + 1
  <2>1. started + 1 \notin alive
    BY <1>1
  <2> QED BY <1>1, <1>3, <2>1, FS_AddElement
<1>6. alive' \in SUBSET (1..started') /\ known' \in SUBSET (1..started')
  BY <1>1, <1>3
<1>7. /\ dying' \in SUBSET known' /\ dying' \cap alive' = {} /\ alive' \subseteq known'
  <2>1. started + 1 \notin dying
    BY <1>1 DEF TypeInv, TypeOK
  <2> QED BY <1>3, <2>1 DEF TypeInv, TypeOK, Pool, CreateWorker, loopVars
<1>8. started' >= MinWorkers /\ started' - Cardinality(alive') <= MaxDeaths
  BY <1>1, <1>3, <1>5, SatelliteConstants DEF TypeInv, Pool
<1> QED BY <1>4, <1>6, <1>7, <1>8
        DEF TypeInv, TypeOK, Pool, CreateWorker, envVars, linkVars, actVars, loopVars

LEMMA ReturnType ==
  ASSUME TypeInv, ManageActionReturn
  PROVE  TypeInv'
<1>1. /\ Head(returns) \in Actions /\ returns' \in Seq(Actions)
  BY TailContains DEF TypeInv, TypeOK, ManageActionReturn
<1>2. worker' \in [Actions -> Workers \cup {NoWorker}]
  BY <1>1 DEF TypeInv, TypeOK, ManageActionReturn
<1> QED BY <1>1, <1>2
        DEF TypeInv, TypeOK, Pool, ManageActionReturn, envVars, linkVars, workerVars, dealVars,
            loopVars

\* The requests to the scheduler.
LEMMA RequestType ==
  ASSUME TypeInv, PushOk \/ PushFails \/ GetOk \/ GetFails
  PROVE  TypeInv'
<1>1. sched' \in [Actions -> {"none", "due", "polled", "done"}]
  BY DEF TypeInv, TypeOK, PushOk, PushFails, GetOk, GetFails, Received, Polled
<1>2. /\ link' \in {"new", "alive", "unreachable", "dead"}
      /\ attempt' \in 0..(MaxAttempts - 1)
  BY SatelliteConstants
     DEF TypeInv, TypeOK, PushOk, PushFails, GetOk, GetFails, SetDead, AddFailedAttempt, linkVars
<1>3. failures' \in 0..MaxFailures
  BY SatelliteConstants DEF TypeInv, TypeOK, PushOk, PushFails, GetOk, GetFails
<1>4. /\ pc' \in {"get", "add", "exited"} /\ homerun' \in SUBSET Actions
      /\ incoming' \in SUBSET Actions /\ pc # "requeue"
  BY DEF TypeInv, TypeOK, PushOk, PushFails, GetOk, GetFails, Goto, Due
<1>5. UNCHANGED <<network, resets, restarted, actVars, workerVars, dealVars, returns, dying, cur>>
  BY DEF PushOk, PushFails, GetOk, GetFails
<1> QED BY <1>1, <1>2, <1>3, <1>4, <1>5
        DEF TypeInv, TypeOK, Pool, Stages, actVars, workerVars, dealVars

LEMMA AddActionType ==
  ASSUME TypeInv, NEW a \in Actions, AddAction(a)
  PROVE  TypeInv'
<1>1. /\ worker' \in [Actions -> Workers \cup {NoWorker}]
      /\ queue' \in [Workers -> Seq(Actions)]
  <2>1. CASE UNCHANGED <<worker, queue>>
    BY <2>1 DEF TypeInv, TypeOK
  <2>2. CASE \E w \in known : Assign(a, w)
    BY <2>2, AssignType
  <2> QED BY <2>1, <2>2 DEF AddAction
<1> QED BY <1>1 DEF TypeInv, TypeOK, Pool, AddAction, envVars, linkVars, workerVars

\* The steps of the worker processes.
LEMMA WorkerType ==
  ASSUME TypeInv, NEW w \in Workers,
         TakeAction(w) \/ (\E a \in Actions : FinishAction(w, a)) \/ Die(w)
  PROVE  TypeInv'
<1>1. queue[w] \in Seq(Actions) /\ held[w] \in Seq(Actions) /\ returns \in Seq(Actions)
  BY DEF TypeInv, TypeOK
<1>2. CASE TakeAction(w)
  <2>1. Tail(queue[w]) \in Seq(Actions) /\ Append(held[w], Head(queue[w])) \in Seq(Actions)
    BY <1>1, <1>2, TailContains, AppendContains DEF TakeAction
  <2>2. queue' \in [Workers -> Seq(Actions)] /\ held' \in [Workers -> Seq(Actions)]
    BY <1>2, <2>1 DEF TypeInv, TypeOK, TakeAction
  <2> QED BY <1>2, <2>2
          DEF TypeInv, TypeOK, Pool, TakeAction, envVars, linkVars, actVars, loopVars
<1>3. ASSUME NEW a \in Actions, FinishAction(w, a)
      PROVE  TypeInv'
  <2>1. returns' \in Seq(Actions)
    BY <1>1, <1>3, AppendContains DEF FinishAction
  <2>2. held' \in [Workers -> Seq(Actions)]
    <3>1. PICK k \in DOMAIN held[w] : held' = [held EXCEPT ![w] = RemoveAt(held[w], k)]
      BY <1>3 DEF FinishAction
    <3>2. RemoveAt(held[w], k) \in Seq(Actions)
      BY <1>1, RemoveContains
    <3> QED BY <3>1, <3>2 DEF TypeInv, TypeOK
  <2> QED BY <1>3, <2>1, <2>2
          DEF TypeInv, TypeOK, Pool, FinishAction, envVars, linkVars, actVars, dealVars, loopVars
<1>4. CASE Die(w)
  <2>1. started \in Nat /\ IsFiniteSet(alive) /\ Cardinality(alive) \in Nat
    BY PoolFinite DEF TypeInv
  <2>2. Cardinality(alive') = Cardinality(alive) - 1
    BY <1>4, <2>1, FS_RemoveElement DEF Die
  <2>3. started - Cardinality(alive') <= MaxDeaths
    BY <1>4, <2>1, <2>2, SatelliteConstants DEF Die
  <2> QED BY <1>4, <2>3
          DEF TypeInv, TypeOK, Pool, Die, envVars, linkVars, actVars, dealVars, loopVars
<1> QED BY <1>2, <1>3, <1>4

LEMMA NextType == TypeInv /\ [Next]_vars => TypeInv'
<1> SUFFICES ASSUME TypeInv, [Next]_vars PROVE TypeInv'
  OBVIOUS
<1>1. CASE LoopTurn
  BY <1>1, LinkType, GotoType, ForgetQueueType, RequeueType, CreateWorkerType, ReturnType,
     RequestType, AddActionType DEF LoopTurn
<1>2. CASE \/ \E w \in Workers : TakeAction(w) \/ Die(w)
           \/ \E w \in Workers, a \in Actions : FinishAction(w, a)
  BY <1>2, WorkerType
<1>3. CASE Environment
  BY <1>3, EnvironmentType
<1>4. CASE UNCHANGED vars
  BY <1>4 DEF vars, envVars, linkVars, actVars, workerVars, dealVars, loopVars,
              TypeInv, TypeOK, Pool
<1> QED BY <1>1, <1>2, <1>3, <1>4 DEF Next

\* Every variable of the satellite has its type in every state: in particular
\* the workers created never outnumber those that died by more than the
\* minimum.
THEOREM TypeCorrect == Spec => []TypeOK
<1>1. Init => TypeInv
  BY InitType
<1>2. TypeInv /\ [Next]_vars => TypeInv'
  BY NextType
<1>3. TypeInv => TypeOK
  BY DEF TypeInv
<1> QED BY <1>1, <1>2, <1>3, PTL DEF Spec

-----------------------------------------------------------------------------
(* The satellite works for the actions it has *)

\* Where an action is, when it is in the hands of a worker.
LEMMA WorkingFrame ==
  ASSUME Working, UNCHANGED <<actions, worker, known, queue, held, cur, returns>>
  PROVE  Working'
BY DEF Working

\* A step that deals action a to a watched worker.
LEMMA AssignWorking ==
  ASSUME TypeInv, Working, NEW a \in Actions, NEW w \in known, Assign(a, w),
         actions' = actions \cup {a}, UNCHANGED <<known, held, cur, returns>>
  PROVE  Working'
<1>1. w \in Workers
  BY AssignType
<1>2. queue[w] \in Seq(Actions)
  BY <1>1 DEF TypeInv, TypeOK
<1>3. worker'[a] = w /\ \A b \in Actions \ {a} : worker'[b] = worker[b]
  BY DEF Assign, TypeInv, TypeOK
<1>4. Contains(queue'[w], a)
  BY <1>1, <1>2, AppendContains DEF Assign, TypeInv, TypeOK
<1>5. ASSUME NEW v \in Workers, NEW b, Contains(queue[v], b)
      PROVE  Contains(queue'[v], b)
  <2>1. CASE v = w
    BY <1>2, <1>5, <2>1, AppendContains DEF Assign, TypeInv, TypeOK
  <2>2. CASE v # w
    BY <1>5, <2>2 DEF Assign, TypeInv, TypeOK
  <2> QED BY <2>1, <2>2
<1>6. ASSUME NEW b \in actions', ~Contains(returns', b)
      PROVE  /\ worker'[b] \in Workers /\ worker'[b] \in known' \cup {cur'}
             /\ Contains(queue'[worker'[b]], b) \/ Contains(held'[worker'[b]], b)
  <2>1. CASE b = a
    BY <1>1, <1>3, <1>4, <2>1
  <2>2. CASE b # a
    <3>1. b \in actions /\ b \in Actions /\ worker'[b] = worker[b]
      BY <1>3, <1>6, <2>2 DEF TypeInv, TypeOK
    <3>2. /\ worker[b] \in Workers /\ worker[b] \in known \cup {cur}
          /\ Contains(queue[worker[b]], b) \/ Contains(held[worker[b]], b)
      BY <1>6, <3>1 DEF Working
    <3> QED BY <1>5, <3>1, <3>2
  <2> QED BY <2>1, <2>2
<1> QED BY <1>6 DEF Working

\* A worker takes an action from its queue, or ends one.
LEMMA WorkerWorking ==
  ASSUME TypeInv, Working, NEW w \in Workers,
         TakeAction(w) \/ \E a \in Actions : FinishAction(w, a)
  PROVE  Working'
<1>1. queue[w] \in Seq(Actions) /\ held[w] \in Seq(Actions) /\ returns \in Seq(Actions)
  BY DEF TypeInv, TypeOK
<1>2. UNCHANGED <<actions, worker, known, cur>>
  BY DEF TakeAction, FinishAction, actVars, dealVars, loopVars
<1>3. ASSUME NEW v \in Workers, NEW b, ~Contains(returns', b),
             Contains(queue[v], b) \/ Contains(held[v], b)
      PROVE  Contains(queue'[v], b) \/ Contains(held'[v], b)
  <2>1. CASE TakeAction(w)
    <3>1. queue'[w] = Tail(queue[w]) /\ held'[w] = Append(held[w], Head(queue[w]))
      BY <2>1 DEF TakeAction, TypeInv, TypeOK
    <3>2. v # w => queue'[v] = queue[v] /\ held'[v] = held[v]
      BY <2>1 DEF TakeAction, TypeInv, TypeOK
    <3>3. queue[w] # <<>> /\ Head(queue[w]) \in Actions
      BY <1>1, <2>1, TailContains DEF TakeAction
    <3>4. \A e : Contains(held[w], e) \/ e = Head(queue[w]) => Contains(held'[w], e)
      <4> DEFINE h == held[w]
      <4> DEFINE e1 == Head(queue[w])
      <4>1. h \in Seq(Actions) /\ e1 \in Actions
        BY <1>1, <3>3
      <4>2. \A e : Contains(h, e) \/ e = e1 => Contains(Append(h, e1), e)
        <5> HIDE DEF h, e1
        <5> QED BY <4>1, AppendContains
      <4> QED BY <3>1, <4>2
    <3>5. \A e : Contains(queue[w], e) => e = Head(queue[w]) \/ Contains(queue'[w], e)
      <4> DEFINE q == queue[w]
      <4>1. q \in Seq(Actions) /\ q # <<>>
        BY <1>1, <3>3
      <4>2. \A e : Contains(q, e) => e = Head(q) \/ Contains(Tail(q), e)
        <5> HIDE DEF q
        <5> QED BY <4>1, TailContains
      <4> QED BY <3>1, <4>2
    <3>6. CASE v = w
      BY <1>3, <3>4, <3>5, <3>6
    <3> QED BY <1>3, <3>2, <3>6
  <2>2. CASE \E a \in Actions : FinishAction(w, a)
    <3>1. PICK a \in Actions : FinishAction(w, a)
      BY <2>2
    <3>2. UNCHANGED queue /\ returns' = Append(returns, a)
      BY <3>1 DEF FinishAction, dealVars
    <3>3. PICK k \in DOMAIN held[w] :
            held[w][k] = a /\ held' = [held EXCEPT ![w] = RemoveAt(held[w], k)]
      BY <3>1 DEF FinishAction
    <3>4. b # a
      BY <1>1, <1>3, <3>2, AppendContains
    <3>5. Contains(held[v], b) => Contains(held'[v], b)
      <4>1. CASE v = w
        BY <1>1, <3>3, <3>4, <4>1, RemoveContains DEF TypeInv, TypeOK
      <4>2. CASE v # w
        BY <3>3, <4>2 DEF TypeInv, TypeOK
      <4> QED BY <4>1, <4>2
    <3> QED BY <1>3, <3>2, <3>5
  <2> QED BY <2>1, <2>2
<1>4. \A b : Contains(returns, b) => Contains(returns', b)
  <2>1. CASE TakeAction(w)
    BY <2>1 DEF TakeAction
  <2>2. CASE \E a \in Actions : FinishAction(w, a)
    <3>1. PICK a \in Actions : returns' = Append(returns, a)
      BY <2>2 DEF FinishAction
    <3> QED BY <1>1, <3>1, AppendContains
  <2> QED BY <2>1, <2>2
<1> QED BY <1>2, <1>3, <1>4 DEF Working

\* As long as one worker runs, there is a queue for every action.
LEMMA WorkingStep ==
  ASSUME TypeInv, Working, alive # {}, [Next]_vars
  PROVE  Working'
<1>1. known # {}
  BY DEF TypeInv, Pool
<1>2. CASE NewConf \/ Restore
  <2>1. actions' = {} \/ UNCHANGED <<actions, worker, known, queue, held, cur, returns>>
    BY <1>2 DEF NewConf, Restore, actVars, dealVars, workerVars, loopVars
  <2> QED BY <2>1, WorkingFrame DEF Working
<1>3. CASE NoticeDead \/ ForgetEnd \/ AdjustEnd \/ ReturnsEnd \/ PushNothing \/ GetNothing \/ AddEnd
  <2>1. UNCHANGED <<actions, worker, known, queue, held, cur, returns>>
    BY <1>3 DEF NoticeDead, ForgetEnd, AdjustEnd, ReturnsEnd, PushNothing, GetNothing, AddEnd,
                actVars, dealVars, workerVars
  <2> QED BY <2>1, WorkingFrame
<1>4. CASE PushOk \/ PushFails \/ GetOk \/ GetFails
  <2>1. UNCHANGED <<actions, worker, known, queue, held, cur, returns>>
    BY <1>4 DEF PushOk, PushFails, GetOk, GetFails, actVars, dealVars, workerVars
  <2> QED BY <2>1, WorkingFrame
<1>5. CASE \E w \in Workers : ForgetQueue(w)
  <2>1. PICK w \in Workers : ForgetQueue(w)
    BY <1>5
  <2>2. cur \notin Workers /\ known' \cup {cur'} = known \cup {w} /\ w \in known
    BY <2>1, SatelliteConstants DEF ForgetQueue, TypeInv, TypeOK, Pool, NoWorker, Workers
  <2>3. UNCHANGED <<actions, worker, queue, held, returns>>
    BY <2>1 DEF ForgetQueue, actVars, workerVars
  <2> QED BY <2>2, <2>3 DEF Working
<1>6. CASE \E a \in Actions : Requeue(a)
  <2>1. PICK a \in Actions : Requeue(a)
    BY <1>6
  <2>2. PICK w \in known : Assign(a, w)
    BY <2>1 DEF Requeue
  <2>3. actions' = actions \cup {a} /\ UNCHANGED <<known, held, cur, returns>>
    BY <2>1 DEF Requeue, workerVars, loopVars
  <2> QED BY <2>2, <2>3, AssignWorking
<1>7. CASE RequeueEnd
  <2>1. \A a \in actions : worker[a] # cur
    BY <1>1, <1>7 DEF RequeueEnd
  <2>2. UNCHANGED <<actions, worker, known, queue, held, returns>>
    BY <1>7 DEF RequeueEnd, actVars, dealVars, workerVars
  <2> QED BY <2>1, <2>2 DEF Working
<1>8. CASE CreateWorker
  <2>1. known \subseteq known' /\ UNCHANGED <<actions, worker, queue, held, cur, returns>>
    BY <1>8 DEF CreateWorker, actVars, loopVars
  <2> QED BY <2>1 DEF Working
<1>9. CASE ManageActionReturn
  <2> DEFINE r == Head(returns)
  <2>1. /\ actions' = actions \ {r} /\ worker' = [worker EXCEPT ![r] = NoWorker]
        /\ returns' = Tail(returns) /\ UNCHANGED <<known, queue, held, cur>>
    BY <1>9 DEF ManageActionReturn, dealVars, workerVars, loopVars
  <2>2. r \in Actions /\ \A b : Contains(returns, b) /\ b # r => Contains(returns', b)
    BY <1>9, TailContains DEF ManageActionReturn, TypeInv, TypeOK
  <2> HIDE DEF r
  <2>3. \A b \in actions' : b \in actions /\ b # r /\ worker'[b] = worker[b]
    BY <2>1, <2>2 DEF TypeInv, TypeOK
  <2> QED BY <2>1, <2>2, <2>3 DEF Working
<1>10. CASE \E a \in Actions : AddAction(a)
  <2>1. PICK a \in Actions : AddAction(a)
    BY <1>10
  <2>2. actions' = actions \cup {a} /\ UNCHANGED <<known, held, cur, returns>>
    BY <2>1 DEF AddAction, workerVars
  <2>3. CASE a \in actions
    <3>1. UNCHANGED <<actions, worker, queue>>
      BY <2>1, <2>2, <2>3 DEF AddAction
    <3> QED BY <2>2, <3>1, WorkingFrame
  <2>4. CASE a \notin actions
    <3>1. \E w \in known : Assign(a, w)
      BY <1>1, <2>1, <2>4 DEF AddAction
    <3> QED BY <2>2, <3>1, AssignWorking
  <2> QED BY <2>3, <2>4
<1>11. CASE \/ \E w \in Workers : TakeAction(w)
            \/ \E w \in Workers, a \in Actions : FinishAction(w, a)
  BY <1>11, WorkerWorking
<1>12. CASE Environment \/ (\E w \in Workers : Die(w)) \/ UNCHANGED vars
  <2>1. UNCHANGED <<actions, worker, known, queue, held, cur, returns>>
    BY <1>12 DEF Environment, Schedule, Orphan, NetworkDown, NetworkUp, Die, vars, actVars,
                 dealVars, workerVars, loopVars
  <2> QED BY <2>1, WorkingFrame
<1> QED BY <1>2, <1>3, <1>4, <1>5, <1>6, <1>7, <1>8, <1>9, <1>10, <1>11, <1>12
        DEF Next, LoopTurn

\* "If we already have this action, we are already working for it": as long as
\* a worker process runs at every moment, every action of the satellite is with
\* a watched worker or on its way back, over any number of deaths.
THEOREM WorkingWhileOneRuns == Spec /\ [](alive # {}) => []WorkingForIt
<1>1. Init => TypeInv /\ Working
  BY InitType DEF Init, Working
<1>2. TypeInv /\ Working /\ alive # {} /\ [Next]_vars => (TypeInv /\ Working)'
  BY NextType, WorkingStep
<1>3. Working => WorkingForIt
  BY DEF Working, WorkingForIt
<1> QED BY <1>1, <1>2, <1>3, PTL DEF Spec

\* The same without a hypothesis on the behaviour, when fewer workers die than
\* the pool has.
THEOREM WorkingForAll ==
  ASSUME MaxDeaths < MinWorkers
  PROVE  Spec => []WorkingForIt
<1>1. TypeInv => alive # {}
  <2> SUFFICES ASSUME TypeInv, alive = {} PROVE FALSE
    OBVIOUS
  <2>1. Cardinality(alive) = 0
    BY FS_EmptySet
  <2> QED BY <2>1, PoolFinite, SatelliteConstants DEF TypeInv, Pool
<1>2. Init => TypeInv
  BY InitType
<1>3. TypeInv /\ [Next]_vars => TypeInv'
  BY NextType
<1> QED BY <1>1, <1>2, <1>3, WorkingWhileOneRuns, PTL DEF Spec

-----------------------------------------------------------------------------
(* Nothing is lost without a failure *)

\* As long as no request fails, the link is alive.
LEMMA SmoothStep ==
  ASSUME TypeInv, Smooth, [Next]_vars
  PROVE  Smooth'
<1>1. failures \in Nat /\ resets \in Nat
  BY SatelliteConstants DEF TypeInv, TypeOK
<1>2. CASE NewConf \/ Restore
  BY <1>1, <1>2 DEF NewConf, Restore, Goto, Smooth, NoConnection, loopVars
<1>3. CASE \/ NoticeDead \/ RequeueEnd \/ ForgetEnd \/ AdjustEnd \/ ReturnsEnd \/ PushNothing
           \/ GetNothing \/ AddEnd \/ \E w \in Workers : ForgetQueue(w)
  <2>1. UNCHANGED <<failures, network, resets, link, incoming>>
    BY <1>3 DEF NoticeDead, RequeueEnd, ForgetEnd, AdjustEnd, ReturnsEnd, PushNothing,
                GetNothing, AddEnd, ForgetQueue, envVars, linkVars
  <2>2. pc # "exited" /\ (pc = "add" => incoming = {})
    BY <1>3 DEF NoticeDead, RequeueEnd, ForgetEnd, AdjustEnd, ReturnsEnd, PushNothing,
                GetNothing, AddEnd, ForgetQueue
  <2> QED BY <2>1, <2>2 DEF Smooth
<1>4. CASE PushOk \/ GetOk
  BY <1>4 DEF PushOk, GetOk, Goto, Smooth, linkVars
<1>5. CASE PushFails \/ GetFails
  <2>1. /\ UNCHANGED <<network, resets, incoming>> /\ pc' # "add" /\ pc \in {"push", "get"}
    BY <1>5 DEF PushFails, GetFails, Goto
  <2>2. failures' = failures + 1 \/ (failures' = failures /\ (UNCHANGED link \/ link # "alive" \/ ~network))
    BY <1>5 DEF PushFails, GetFails, linkVars
  <2> QED BY <1>1, <2>1, <2>2 DEF Smooth
<1>6. CASE \/ \E a \in Actions : Requeue(a) \/ AddAction(a)
           \/ CreateWorker \/ ManageActionReturn
  BY <1>6 DEF Requeue, AddAction, CreateWorker, ManageActionReturn, Smooth, envVars, linkVars,
              loopVars
<1>7. CASE \/ \E w \in Workers : TakeAction(w) \/ Die(w)
           \/ \E w \in Workers, a \in Actions : FinishAction(w, a)
           \/ UNCHANGED vars
  BY <1>7 DEF TakeAction, Die, FinishAction, Smooth, vars, envVars, linkVars, loopVars
<1>8. CASE Environment
  BY <1>1, <1>8 DEF Environment, Schedule, Orphan, NetworkDown, NetworkUp, Smooth, linkVars,
                    loopVars
<1> QED BY <1>2, <1>3, <1>4, <1>5, <1>6, <1>7, <1>8 DEF Next, LoopTurn

\* An action the scheduler counts on stays in the satellite until it is pushed.
LEMMA NothingLostStep ==
  ASSUME TypeInv, Smooth, NothingLost, [Next]_vars
  PROVE  NothingLost'
<1> DEFINE Here(a) == a \in actions \cup homerun \cup incoming \/ Contains(returns, a)
<1>1. failures \in Nat /\ resets \in Nat
  BY SatelliteConstants DEF TypeInv, TypeOK
<1>2. ASSUME failures' # 0 \/ resets' # 0
      PROVE  NothingLost'
  BY <1>2 DEF NothingLost
<1>3. ASSUME UNCHANGED <<failures, resets>>,
             \A a \in Actions : /\ sched'[a] = "polled" => sched[a] = "polled"
                                /\ sched'[a] = "polled" /\ Here(a) => Here(a)'
      PROVE  NothingLost'
  BY <1>3 DEF NothingLost
<1>4. CASE NewConf
  BY <1>1, <1>2, <1>4 DEF NewConf
<1>5. CASE Restore
  <2>1. /\ UNCHANGED <<failures, resets, sched, returns, incoming>>
        /\ NoConnection \/ UNCHANGED <<actions, homerun>>
    BY <1>5 DEF Restore, actVars
  <2>2. CASE failures = 0 /\ resets = 0
    <3>1. UNCHANGED <<actions, homerun>>
      BY <2>1, <2>2 DEF Smooth, NoConnection
    <3> QED BY <1>3, <2>1, <3>1
  <2>3. CASE ~(failures = 0 /\ resets = 0)
    BY <1>2, <2>1, <2>3
  <2> QED BY <2>2, <2>3
<1>6. CASE \/ NoticeDead \/ RequeueEnd \/ ForgetEnd \/ AdjustEnd \/ ReturnsEnd \/ PushNothing
           \/ GetNothing \/ AddEnd \/ (\E w \in Workers : ForgetQueue(w)) \/ CreateWorker
           \/ \E a \in Actions : Requeue(a)
  <2>1. UNCHANGED <<failures, resets, sched, actions, homerun, incoming, returns>>
    BY <1>6 DEF NoticeDead, RequeueEnd, ForgetEnd, AdjustEnd, ReturnsEnd, PushNothing,
                GetNothing, AddEnd, ForgetQueue, CreateWorker, Requeue, envVars, actVars, loopVars
  <2> QED BY <1>3, <2>1
<1>7. CASE ManageActionReturn
  <2>1. /\ UNCHANGED <<failures, resets, sched, incoming>>
        /\ actions' = actions \ {Head(returns)} /\ homerun' = homerun \cup {Head(returns)}
        /\ returns' = Tail(returns)
    BY <1>7 DEF ManageActionReturn, envVars, loopVars
  <2>2. \A b : Contains(returns, b) /\ b # Head(returns) => Contains(returns', b)
    BY <1>7, <2>1, TailContains DEF ManageActionReturn, TypeInv, TypeOK
  <2>3. \A b \in Actions : Here(b) => Here(b)'
    BY <2>1, <2>2
  <2> QED BY <1>3, <2>1, <2>3
<1>8. CASE PushOk
  <2>1. /\ UNCHANGED <<failures, resets, actions, incoming, returns>>
        /\ sched' = [a \in Actions |-> IF a \in homerun THEN "done" ELSE sched[a]]
    BY <1>8 DEF PushOk, Received, actVars
  <2>2. \A b \in Actions : sched'[b] = "polled" => sched[b] = "polled" /\ b \notin homerun
    BY <2>1
  <2> QED BY <1>3, <2>1, <2>2
<1>9. CASE PushFails \/ GetFails
  <2>1. UNCHANGED resets /\ (failures' = failures + 1 \/ link # "alive" \/ ~network)
    BY <1>9 DEF PushFails, GetFails, NoConnection
  <2>2. failures' = failures \/ failures' = failures + 1
    BY <1>9 DEF PushFails, GetFails
  <2> QED BY <1>1, <1>2, <2>1, <2>2 DEF Smooth
<1>10. CASE GetOk
  <2>1. /\ UNCHANGED <<failures, resets, actions, homerun, returns>>
        /\ incoming' = Due /\ incoming = {}
        /\ sched' = [a \in Actions |-> IF a \in Due THEN "polled" ELSE sched[a]]
    BY <1>10 DEF GetOk, Polled, actVars, Smooth
  <2> QED BY <2>1 DEF NothingLost
<1>11. CASE \E a \in Actions : AddAction(a)
  <2>1. PICK a \in Actions : AddAction(a)
    BY <1>11
  <2>2. /\ UNCHANGED <<failures, resets, sched, homerun, returns>>
        /\ actions' = actions \cup {a} /\ incoming' = incoming \ {a}
    BY <2>1 DEF AddAction, envVars
  <2> QED BY <1>3, <2>2
<1>12. CASE \E w \in Workers, a \in Actions : FinishAction(w, a)
  <2>1. PICK w \in Workers, a \in Actions : FinishAction(w, a)
    BY <1>12
  <2>2. /\ UNCHANGED <<failures, resets, sched, actions, homerun, incoming>>
        /\ returns' = Append(returns, a)
    BY <2>1 DEF FinishAction, envVars, actVars, loopVars
  <2>3. \A b : Contains(returns, b) => Contains(returns', b)
    BY <2>2, AppendContains DEF TypeInv, TypeOK
  <2> QED BY <1>3, <2>2, <2>3
<1>13. CASE (\E w \in Workers : TakeAction(w) \/ Die(w)) \/ UNCHANGED vars
  <2>1. UNCHANGED <<failures, resets, sched, actions, homerun, incoming, returns>>
    BY <1>13 DEF TakeAction, Die, vars, envVars, actVars, loopVars
  <2> QED BY <1>3, <2>1
<1>14. CASE \E a \in Actions : Schedule(a) \/ Orphan(a)
  <2>1. UNCHANGED <<failures, resets, actions, homerun, incoming, returns>>
    BY <1>14 DEF Schedule, Orphan, actVars, loopVars
  <2>2. \A b \in Actions : sched'[b] = "polled" => sched[b] = "polled"
    BY <1>14 DEF Schedule, Orphan, TypeInv, TypeOK
  <2> QED BY <1>3, <2>1, <2>2
<1>15. CASE NetworkDown
  BY <1>1, <1>2, <1>15 DEF NetworkDown
<1>16. CASE NetworkUp
  BY <1>2, <1>16 DEF NetworkUp, Smooth
<1> QED BY <1>4, <1>5, <1>6, <1>7, <1>8, <1>9, <1>10, <1>11, <1>12, <1>13, <1>14, <1>15, <1>16
        DEF Next, LoopTurn, Environment

\* Unless a request fails or a configuration arrives, an action the scheduler
\* counts on is somewhere in the satellite, however many workers die.
THEOREM NothingIsLost == Spec => []NothingLost
<1>1. Init => TypeInv /\ Smooth /\ NothingLost
  BY InitType DEF Init, Smooth, NothingLost
<1>2. TypeInv /\ Smooth /\ NothingLost /\ [Next]_vars => (TypeInv /\ Smooth /\ NothingLost)'
  BY NextType, SmoothStep, NothingLostStep
<1> QED BY <1>1, <1>2, PTL DEF Spec
=============================================================================
