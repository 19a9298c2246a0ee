------------------------- MODULE Downtimes_proofs -------------------------
(***************************************************************************)
(* Proofs about Downtimes, for every set of items and downtimes, every     *)
(* schedule and every trigger, and whatever commands delete and when:      *)
(* excess counts the downtimes that cancel took off the depth although     *)
(* they were not in effect, and the statements are exact about it.         *)
(***************************************************************************)
EXTENDS Downtimes, FiniteSetTheorems, TLAPS

\* The depth covers the downtimes in effect, but for those cancelled while they
\* were not.
Covered == \A i \in Items : depth[i] >= Cardinality(Active(i)) - excess[i]

IInv == TypeOK /\ Covered /\ FlagAgrees

-----------------------------------------------------------------------------
(* Lists of pending calls, and the downtimes in effect of an item *)

\* An order of some downtimes is a list of them.
LEMMA OrdersType ==
  ASSUME NEW D \in SUBSET Downtimes, NEW s \in Orders(D)
  PROVE  s \in Seq(D)
<1>1. Cardinality(D) \in Nat
  BY DowntimeConstants, FS_Subset, FS_CardinalityType
<1> QED BY <1>1 DEF Orders

\* A list of downtimes stays one when downtimes are added.
LEMMA SeqGrows ==
  ASSUME NEW S, NEW T, S \subseteq T, NEW s \in Seq(S)
  PROVE  s \in Seq(T)
OBVIOUS

\* An item has finitely many downtimes in effect.
LEMMA ActiveFinite ==
  ASSUME TypeOK, NEW i \in Items
  PROVE  IsFiniteSet(Active(i)) /\ Cardinality(Active(i)) \in Nat
<1>1. Active(i) \in SUBSET Downtimes
  BY DEF TypeOK, Active
<1> QED BY <1>1, DowntimeConstants, FS_Subset, FS_CardinalityType

-----------------------------------------------------------------------------
(* Type correctness *)

LEMMA InitType == Init => TypeOK
<1> SUFFICES ASSUME Init PROVE TypeOK
  OBVIOUS
<1>1. now \in 0..MaxTime /\ at \in 0..now
  BY DowntimeConstants DEF Init
<1>2. realEnd \in [Downtimes -> Nat]
  BY DowntimeConstants DEF Init
<1>3. /\ activate \in [Downtimes -> SUBSET Downtimes]
      /\ upkeep \in [Items -> Downtimes \cup {None}]
  BY DEF Init
<1>4. depth \in [Items -> Int] /\ flag \in [Items -> BOOLEAN]
  BY DEF Init
<1>5. pc \in Stages /\ todo \in SUBSET (IF pc = "startstop" THEN known ELSE Items)
  BY DEF Init, Stages
<1>6. entering \in Seq(known)
  BY DEF Init
<1>7. again \in BOOLEAN /\ excess \in [Items -> 0..MaxExcess]
  <2>1. again \in BOOLEAN
    BY Zenon DEF Init
  <2>2. excess \in [Items -> 0..MaxExcess]
    BY DowntimeConstants DEF Init
  <2> QED BY <2>1, <2>2
<1> QED BY <1>1, <1>2, <1>3, <1>4, <1>5, <1>6, <1>7 DEF Init, TypeOK

LEMMA EnterType ==
  ASSUME TypeOK, Enter
  PROVE  TypeOK'
<1> DEFINE d == Head(entering)
<1>1. d \in known /\ d \in Downtimes /\ Ref[d] \in Items
  <2>1. entering \in Seq(known) /\ entering # <<>>
    BY DEF TypeOK, Enter
  <2>2. d \in known
    BY <2>1
  <2>3. d \in Downtimes
    BY <2>2 DEF TypeOK
  <2> QED BY <2>2, <2>3, DowntimeConstants
<1> HIDE DEF d
<1>2. entering' \in Seq(known')
  <2>1. PICK s \in Orders(activate[d] \cap known) : entering' = s \o Tail(entering)
    BY DEF Enter, d
  <2>2. s \in Seq(known)
    <3>1. activate[d] \cap known \in SUBSET Downtimes
      BY DEF TypeOK
    <3> QED BY <3>1, <2>1, OrdersType, SeqGrows
  <2>3. Tail(entering) \in Seq(known)
    BY DEF TypeOK, Enter
  <2>4. s \o Tail(entering) \in Seq(known)
    BY <2>2, <2>3
  <2> QED BY <2>1, <2>4 DEF Enter
<1>3. realEnd' \in [Downtimes -> Nat]
  <2>1. now + Duration[d] \in Nat
    <3>1. MaxTime \in Nat /\ now \in 0..MaxTime
      BY DowntimeConstants DEF TypeOK
    <3>2. Duration[d] \in Nat
      BY <1>1, DowntimeConstants
    <3> QED BY <3>1, <3>2
  <2> QED BY <1>1, <2>1 DEF TypeOK, Enter, d
<1>4. depth' \in [Items -> Int] /\ flag' \in [Items -> BOOLEAN]
  BY <1>1 DEF TypeOK, Enter, d
<1>5. inEffect' \in SUBSET known'
  BY <1>1 DEF TypeOK, Enter, d
<1>6. pc' = "maintenance" => entering' = <<>>
  BY DEF TypeOK, Enter
<1>7. again' \in BOOLEAN /\ excess' \in [Items -> 0..MaxExcess]
  BY Zenon DEF TypeOK, Enter
<1> QED
  BY <1>2, <1>3, <1>4, <1>5, <1>6, <1>7 DEF TypeOK, Enter

\* Exit and Cancel of a known downtime keep the types of what they change.
LEMMA ExitType ==
  ASSUME TypeOK, NEW d \in known, Exit(d), known' = known
  PROVE  /\ inEffect' \in SUBSET known' /\ deletable' \in SUBSET known'
         /\ depth' \in [Items -> Int] /\ flag' \in [Items -> BOOLEAN]
<1>1. Ref[d] \in Items
  BY DowntimeConstants DEF TypeOK
<1>2. inEffect' \in SUBSET known' /\ deletable' \in SUBSET known'
  BY DEF TypeOK, Exit
<1>3. depth' \in [Items -> Int]
  BY <1>1 DEF TypeOK, Exit, itemVars
<1>4. flag' \in [Items -> BOOLEAN]
  BY <1>1 DEF TypeOK, Exit, itemVars
<1> QED BY <1>2, <1>3, <1>4

LEMMA CancelType ==
  ASSUME TypeOK, NEW d \in known, Cancel(d), known' = known
  PROVE  /\ inEffect' \in SUBSET known' /\ deletable' \in SUBSET known'
         /\ depth' \in [Items -> Int] /\ flag' \in [Items -> BOOLEAN]
<1>1. Ref[d] \in Items
  BY DowntimeConstants DEF TypeOK
<1>2. inEffect' \in SUBSET known' /\ deletable' \in SUBSET known'
  BY DEF TypeOK, Cancel
<1>3. depth' \in [Items -> Int]
  BY <1>1 DEF TypeOK, Cancel
<1>4. flag' \in [Items -> BOOLEAN]
  BY <1>1 DEF TypeOK, Cancel
<1> QED BY <1>2, <1>3, <1>4

\* Every step keeps the types and the loop's bookkeeping.
LEMMA StepType == TypeOK /\ [Next]_vars => TypeOK'
<1> SUFFICES ASSUME TypeOK, [Next]_vars PROVE TypeOK'
  OBVIOUS
<1>1. ASSUME NEW i \in Items, Maintain(i) PROVE TypeOK'
  <2>1. used' \in SUBSET Downtimes /\ known' \in SUBSET used' /\ known \subseteq known'
    BY <1>1, DowntimeConstants DEF TypeOK, Maintain, Add
  <2>2. upkeep' \in [Items -> Downtimes \cup {None}]
    BY <1>1, DowntimeConstants DEF TypeOK, Maintain
  <2>3. entering' \in Seq(known') /\ (pc' = "maintenance" => entering' = <<>>)
    BY <1>1, <2>1, SeqGrows DEF TypeOK, Maintain
  <2>4. todo' \in SUBSET (IF pc' = "startstop" THEN known' ELSE Items)
    BY <1>1 DEF TypeOK, Maintain
  <2>5. UNCHANGED <<now, at, inEffect, deletable, realEnd, activate, depth, flag, hard, pc, again,
                    excess>>
    BY <1>1 DEF Maintain, itemVars, history
  <2> QED BY <2>1, <2>2, <2>3, <2>4, <2>5 DEF TypeOK
<1>2. ASSUME DeleteMarked PROVE TypeOK'
  <2>1. known' = known \ deletable
    BY <1>2 DEF DeleteMarked, Remove
  <2>2. inEffect' \in SUBSET known' /\ deletable' \in SUBSET known'
    BY <1>2 DEF TypeOK, DeleteMarked, Remove
  <2>3. realEnd' \in [Downtimes -> Nat]
    BY <1>2, DowntimeConstants DEF TypeOK, DeleteMarked, Remove
  <2>4. activate' \in [Downtimes -> SUBSET Downtimes]
    BY <1>2 DEF TypeOK, DeleteMarked, Remove
  <2>5. entering' = <<>>
    BY <1>2 DEF TypeOK, DeleteMarked
  <2>6. entering' \in Seq(known')
    BY <2>5
  <2>7. pc' = "startstop" /\ todo' = known'
    BY <1>2 DEF DeleteMarked, Goto
  <2>8. UNCHANGED <<now, at, used, upkeep, depth, flag, hard, again, excess>>
    BY <1>2 DEF DeleteMarked, itemVars, history
  <2> QED BY <2>1, <2>2, <2>3, <2>4, <2>5, <2>6, <2>7, <2>8 DEF TypeOK, Stages
<1>3. ASSUME NEW d \in Downtimes, StartStop(d) PROVE TypeOK'
  <2>1. d \in known /\ pc = "startstop" /\ entering = <<>>
    BY <1>3 DEF TypeOK, StartStop
  <2>2. UNCHANGED <<now, at, used, known, realEnd, activate, upkeep, hard, pc, again, excess>>
    BY <1>3 DEF StartStop, history
  <2>3. /\ inEffect' \in SUBSET known' /\ deletable' \in SUBSET known'
        /\ depth' \in [Items -> Int] /\ flag' \in [Items -> BOOLEAN]
    <3>1. CASE realEnd[d] < at
      BY <1>3, <2>1, <2>2, <3>1, ExitType DEF StartStop
    <3>2. CASE ~(realEnd[d] < at)
      BY <1>3, <2>2, <3>2 DEF StartStop, TypeOK, itemVars
    <3> QED BY <3>1, <3>2
  <2>4. entering' = <<>> \/ entering' = <<d>>
    BY <1>3, <2>1 DEF StartStop
  <2>5. entering' \in Seq(known)
    <3>1. <<>> \in Seq(known) /\ <<d>> \in Seq(known)
      BY <2>1
    <3> QED BY <2>4, <3>1
  <2>6. todo' \in SUBSET known
    BY <1>3, <2>1 DEF TypeOK, StartStop
  <2> QED BY <2>1, <2>2, <2>3, <2>5, <2>6 DEF TypeOK
<1>4. CASE StartStopEnd
  BY <1>4 DEF TypeOK, StartStopEnd, Goto, Stages, downVars, itemVars, history
<1>5. CASE Enter
  BY <1>5, EnterType
<1>6. ASSUME NEW i \in Items, ConsumeOk(i) PROVE TypeOK'
  BY <1>6 DEF TypeOK, ConsumeOk, downVars, itemVars, history
<1>7. ASSUME NEW i \in Items, NEW t \in CheckTimes, ConsumeFailure(i, t) PROVE TypeOK'
  <2>1. entering' \in Seq(known)
    <3>1. CASE i \notin hard
      <4>1. PICK s \in Orders(Flexible(i, t)) : entering' = s
        BY <1>7, <3>1 DEF ConsumeFailure
      <4>2. Flexible(i, t) \in SUBSET known /\ known \subseteq Downtimes
        BY DEF Flexible, TypeOK
      <4> QED BY <4>1, <4>2, OrdersType, SeqGrows
    <3>2. CASE ~(i \notin hard)
      BY <1>7, <3>2 DEF ConsumeFailure, TypeOK
    <3> QED BY <3>1, <3>2
  <2>2. pc = "consume" /\ todo' = todo \ {i} /\ hard' = (hard \cup {i}) \ Volatile
    BY <1>7 DEF ConsumeFailure
  <2>3. UNCHANGED <<now, at, used, known, inEffect, deletable, realEnd, activate, upkeep,
                    depth, flag, pc, again, excess>>
    BY <1>7 DEF ConsumeFailure, downVars, itemVars, history
  <2> QED BY <2>1, <2>2, <2>3 DEF TypeOK
<1>8. CASE ConsumeEnd
  BY <1>8 DEF TypeOK, ConsumeEnd, Goto, Stages, downVars, itemVars, history
<1>9. ASSUME NEW d \in Downtimes, ScheduleDowntime(d) PROVE TypeOK'
  <2>1. used' \in SUBSET Downtimes /\ known' \in SUBSET used' /\ known \subseteq known'
    BY <1>9 DEF TypeOK, ScheduleDowntime, Add
  <2>2. activate' \in [Downtimes -> SUBSET Downtimes]
    BY <1>9 DEF TypeOK, ScheduleDowntime
  <2>3. UNCHANGED <<now, at, inEffect, deletable, realEnd, upkeep, depth, flag, hard, pc, todo,
                    entering, again, excess>>
    BY <1>9 DEF ScheduleDowntime, itemVars, loopVars, history
  <2>4. entering' \in Seq(known')
    BY <2>1, <2>3, SeqGrows DEF TypeOK
  <2> QED BY <2>1, <2>2, <2>3, <2>4 DEF TypeOK
<1>10. ASSUME NEW d \in Downtimes, DeleteDowntime(d) PROVE TypeOK'
  <2>1. d \in known /\ Cancel(d)
    BY <1>10 DEF DeleteDowntime
  <2>2. UNCHANGED <<now, at, used, known, realEnd, activate, upkeep, hard, pc, todo, entering,
                    again>>
    BY <1>10 DEF DeleteDowntime, loopVars
  <2>3. /\ inEffect' \in SUBSET known' /\ deletable' \in SUBSET known'
        /\ depth' \in [Items -> Int] /\ flag' \in [Items -> BOOLEAN]
    BY <2>1, <2>2, CancelType
  <2>4. excess' \in [Items -> 0..MaxExcess]
    <3>1. Ref[d] \in Items /\ MaxExcess \in Nat
      BY <1>10, DowntimeConstants
    <3>2. CASE d \in inEffect
      BY <1>10, <3>2 DEF DeleteDowntime, TypeOK
    <3>3. CASE d \notin inEffect
      BY <1>10, <3>1, <3>3 DEF DeleteDowntime, TypeOK
    <3> QED BY <3>2, <3>3
  <2> QED BY <2>2, <2>3, <2>4 DEF TypeOK
<1>11. CASE Tick
  <2>1. now' \in 0..MaxTime /\ at' \in 0..now'
    BY <1>11, DowntimeConstants DEF TypeOK, Tick
  <2> QED BY <1>11, <2>1 DEF TypeOK, Tick, downVars, itemVars, loopVars, history
<1>12. CASE UNCHANGED vars
  BY <1>12 DEF TypeOK, vars, downVars, itemVars, loopVars, history
<1> QED
  BY <1>1, <1>2, <1>3, <1>4, <1>5, <1>6, <1>7, <1>8, <1>9, <1>10, <1>11, <1>12
  DEF Next, MainLoop, Commands

\* Type correctness; the loop enters and visits known downtimes only.
THEOREM TypeCorrect == Spec => []TypeOK
BY InitType, StepType, PTL DEF Spec

-----------------------------------------------------------------------------
(* The depth *)

\* Entering a downtime: the depth grows, the set of downtimes by one at most.
LEMMA EnterCovered ==
  ASSUME IInv, NEW d \in Downtimes,
         inEffect' = inEffect \cup {d},
         depth' = [depth EXCEPT ![Ref[d]] = @ + 1],
         flag' = [flag EXCEPT ![Ref[d]] = TRUE],
         excess' = excess
  PROVE  Covered' /\ FlagAgrees'
<1> DEFINE r == Ref[d]
<1>1. /\ r \in Items /\ depth \in [Items -> Int] /\ flag \in [Items -> BOOLEAN]
      /\ \A i \in Items : excess[i] \in Nat
  <2>1. MaxExcess \in Nat /\ excess \in [Items -> 0..MaxExcess]
    BY DowntimeConstants DEF IInv, TypeOK
  <2>2. \A i \in Items : excess[i] \in Nat
    BY <2>1
  <2> QED BY <2>2, DowntimeConstants DEF IInv, TypeOK
<1>2. ASSUME NEW i \in Items
      PROVE  /\ depth'[i] >= Cardinality(Active(i)') - excess'[i]
             /\ depth'[i] > 0 => flag'[i]
             /\ flag'[i] => depth'[i] > 0 \/ excess'[i] > 0
  <2>1. /\ IsFiniteSet(Active(i)) /\ Cardinality(Active(i)) \in Nat
        /\ depth[i] \in Int /\ depth[i] >= Cardinality(Active(i)) - excess[i]
        /\ depth[i] > 0 => flag[i]
        /\ flag[i] => depth[i] > 0 \/ excess[i] > 0
    BY <1>1, ActiveFinite DEF IInv, Covered, FlagAgrees
  <2>2. excess[i] \in Int /\ excess[i] >= 0
    BY <1>1
  <2>3. CASE i = r
    <3>1. Active(i)' = Active(i) \cup {d}
      BY <2>3 DEF Active
    <3>2. Cardinality(Active(i)') <= Cardinality(Active(i)) + 1
      <4>1. Cardinality(Active(i) \cup {d})
              = IF d \in Active(i) THEN Cardinality(Active(i)) ELSE Cardinality(Active(i)) + 1
        BY <2>1, FS_AddElement
      <4> QED BY <2>1, <3>1, <4>1
    <3>3. Cardinality(Active(i)') \in Nat
      BY <2>1, <3>1, FS_AddElement, FS_CardinalityType
    <3>4. depth'[i] = depth[i] + 1 /\ flag'[i] = TRUE
      BY <1>1, <2>3
    <3> QED BY <2>2, <2>1, <3>2, <3>3, <3>4
  <2>4. CASE i # r
    <3>1. Active(i)' = Active(i)
      BY <2>4 DEF Active
    <3>2. depth'[i] = depth[i] /\ flag'[i] = flag[i]
      BY <1>1, <2>4
    <3> QED BY <2>1, <3>1, <3>2
  <2> QED BY <2>3, <2>4
<1> QED BY <1>2 DEF Covered, FlagAgrees

\* Leaving a downtime in effect: both shrink by one, and the flag falls with
\* the last one.
LEMMA LeaveCovered ==
  ASSUME IInv, NEW d \in inEffect,
         inEffect' = inEffect \ {d},
         depth' = [depth EXCEPT ![Ref[d]] = @ - 1],
         flag' = [flag EXCEPT ![Ref[d]] = @ /\ depth'[Ref[d]] # 0],
         excess' = excess
  PROVE  Covered' /\ FlagAgrees'
<1> DEFINE r == Ref[d]
<1>1. /\ r \in Items /\ depth \in [Items -> Int] /\ flag \in [Items -> BOOLEAN]
      /\ \A i \in Items : excess[i] \in Nat
  <2>1. MaxExcess \in Nat /\ excess \in [Items -> 0..MaxExcess]
    BY DowntimeConstants DEF IInv, TypeOK
  <2>2. \A i \in Items : excess[i] \in Nat
    BY <2>1
  <2> QED BY <2>2, DowntimeConstants DEF IInv, TypeOK
<1>2. ASSUME NEW i \in Items
      PROVE  /\ depth'[i] >= Cardinality(Active(i)') - excess'[i]
             /\ depth'[i] > 0 => flag'[i]
             /\ flag'[i] => depth'[i] > 0 \/ excess'[i] > 0
  <2>1. /\ IsFiniteSet(Active(i)) /\ Cardinality(Active(i)) \in Nat
        /\ depth[i] \in Int /\ depth[i] >= Cardinality(Active(i)) - excess[i]
        /\ depth[i] > 0 => flag[i]
        /\ flag[i] => depth[i] > 0 \/ excess[i] > 0
    BY <1>1, ActiveFinite DEF IInv, Covered, FlagAgrees
  <2>2. excess[i] \in Int /\ excess[i] >= 0
    BY <1>1
  <2>3. CASE i = r
    <3>1. Active(i)' = Active(i) \ {d} /\ d \in Active(i)
      BY <2>3 DEF Active
    <3>2. Cardinality(Active(i)') = Cardinality(Active(i)) - 1
      BY <2>1, <3>1, FS_RemoveElement
    <3>3. Cardinality(Active(i)') \in Nat
      BY <2>1, <3>1, FS_RemoveElement, FS_CardinalityType
    <3>4. depth'[i] = depth[i] - 1
      BY <1>1, <2>3
    <3>5. depth'[i] >= Cardinality(Active(i)') - excess[i]
      BY <2>2, <2>1, <3>2, <3>3, <3>4
    <3>6. flag'[i] <=> flag[i] /\ depth'[i] # 0
      BY <1>1, <2>3
    <3>7. depth'[i] > 0 => flag'[i]
      BY <2>1, <3>4, <3>6
    <3>8. flag'[i] => depth'[i] > 0 \/ excess[i] > 0
      <4>1. depth'[i] # 0 => depth'[i] > 0 \/ excess[i] > 0
        BY <2>2, <2>1, <3>3, <3>4, <3>5
      <4> QED BY <3>6, <4>1
    <3> QED BY <3>5, <3>7, <3>8
  <2>4. CASE i # r
    <3>1. Active(i)' = Active(i)
      BY <2>4 DEF Active
    <3>2. depth'[i] = depth[i] /\ flag'[i] = flag[i]
      BY <1>1, <2>4
    <3> QED BY <2>1, <3>1, <3>2
  <2> QED BY <2>3, <2>4
<1> QED BY <1>2 DEF Covered, FlagAgrees

\* Cancelling a downtime that is not in effect: the depth shrinks all the same,
\* and excess tells.
LEMMA MissCovered ==
  ASSUME IInv, NEW d \in Downtimes, d \notin inEffect,
         inEffect' = inEffect \ {d},
         depth' = [depth EXCEPT ![Ref[d]] = @ - 1],
         flag' = [flag EXCEPT ![Ref[d]] = @ /\ depth'[Ref[d]] # 0],
         excess' = [excess EXCEPT ![Ref[d]] = @ + 1]
  PROVE  Covered' /\ FlagAgrees'
<1> DEFINE r == Ref[d]
<1>1. /\ r \in Items /\ depth \in [Items -> Int] /\ flag \in [Items -> BOOLEAN]
      /\ MaxExcess \in Nat /\ excess \in [Items -> 0..MaxExcess]
  BY DowntimeConstants DEF IInv, TypeOK
<1>2. ASSUME NEW i \in Items
      PROVE  /\ depth'[i] >= Cardinality(Active(i)') - excess'[i]
             /\ depth'[i] > 0 => flag'[i]
             /\ flag'[i] => depth'[i] > 0 \/ excess'[i] > 0
  <2>1. /\ Cardinality(Active(i)) \in Nat
        /\ depth[i] \in Int /\ depth[i] >= Cardinality(Active(i)) - excess[i]
        /\ depth[i] > 0 => flag[i]
        /\ flag[i] => depth[i] > 0 \/ excess[i] > 0
    BY <1>1, ActiveFinite DEF IInv, Covered, FlagAgrees
  <2>2. excess[i] \in Int /\ excess[i] >= 0
    BY <1>1
  <2>3. Active(i)' = Active(i)
    BY DEF Active
  <2>4. CASE i = r
    <3>1. depth'[i] = depth[i] - 1 /\ excess'[i] = excess[i] + 1
      BY <1>1, <2>4
    <3>2. flag'[i] <=> flag[i] /\ depth'[i] # 0
      BY <1>1, <2>4
    <3>3. depth'[i] > 0 => flag'[i]
      BY <2>1, <3>1, <3>2
    <3>4. depth'[i] >= Cardinality(Active(i)) - excess'[i] /\ excess'[i] > 0
      BY <2>1, <2>2, <3>1
    <3> QED BY <2>3, <3>3, <3>4
  <2>5. CASE i # r
    <3>1. depth'[i] = depth[i] /\ flag'[i] = flag[i] /\ excess'[i] = excess[i]
      BY <1>1, <2>5
    <3> QED BY <2>1, <2>3, <3>1
  <2> QED BY <2>4, <2>5
<1> QED BY <1>2 DEF Covered, FlagAgrees

\* Forgetting downtimes leaves the depth where it is.
LEMMA ForgetCovered ==
  ASSUME IInv, inEffect' \subseteq inEffect, UNCHANGED <<depth, flag, excess>>
  PROVE  Covered' /\ FlagAgrees'
<1>1. ASSUME NEW i \in Items PROVE depth'[i] >= Cardinality(Active(i)') - excess'[i]
  <2>1. /\ IsFiniteSet(Active(i)) /\ Cardinality(Active(i)) \in Nat
        /\ depth[i] \in Int /\ depth[i] >= Cardinality(Active(i)) - excess[i]
    BY ActiveFinite DEF IInv, TypeOK, Covered
  <2>2. MaxExcess \in Nat /\ excess \in [Items -> 0..MaxExcess]
    BY DowntimeConstants DEF IInv, TypeOK
  <2>3. excess[i] \in Int
    BY <2>2
  <2>4. Active(i)' \in SUBSET Active(i)
    BY DEF Active
  <2>5. Cardinality(Active(i)') <= Cardinality(Active(i)) /\ Cardinality(Active(i)') \in Nat
    BY <2>1, <2>4, FS_Subset, FS_CardinalityType
  <2> QED BY <2>1, <2>5, <2>3
<1> QED BY <1>1 DEF IInv, Covered, FlagAgrees

LEMMA InitCovered == Init => Covered /\ FlagAgrees
<1> SUFFICES ASSUME Init, NEW i \in Items
             PROVE  /\ depth[i] >= Cardinality(Active(i)) - excess[i]
                    /\ depth[i] > 0 => flag[i]
                    /\ flag[i] => depth[i] > 0 \/ excess[i] > 0
  BY DEF Covered, FlagAgrees
<1>1. Active(i) = {} /\ depth[i] = 0 /\ excess[i] = 0
  BY DEF Init, Active
<1>2. ~flag[i]
  BY DEF Init
<1> QED BY <1>1, <1>2, FS_EmptySet

\* Every step keeps the depth at least at the number of downtimes in effect,
\* less those cancelled while they were not.
LEMMA StepCovered == IInv /\ [Next]_vars => Covered' /\ FlagAgrees'
<1> SUFFICES ASSUME IInv, [Next]_vars PROVE Covered' /\ FlagAgrees'
  OBVIOUS
<1>1. ASSUME UNCHANGED <<inEffect, depth, flag, excess>> PROVE Covered' /\ FlagAgrees'
  BY <1>1, ForgetCovered
<1>2. CASE DeleteMarked
  BY <1>2, ForgetCovered DEF DeleteMarked, Remove, itemVars, history
<1>3. ASSUME NEW d \in Downtimes, StartStop(d) PROVE Covered' /\ FlagAgrees'
  <2>1. CASE realEnd[d] < at /\ d \in inEffect
    BY <1>3, <2>1, LeaveCovered DEF StartStop, Exit, history
  <2>2. CASE realEnd[d] < at /\ d \notin inEffect
    BY <1>3, <2>2, ForgetCovered DEF StartStop, Exit, itemVars, history
  <2>3. CASE ~(realEnd[d] < at)
    BY <1>3, <2>3, <1>1 DEF StartStop, itemVars, history
  <2> QED BY <2>1, <2>2, <2>3
<1>4. CASE Enter
  <2> DEFINE d == Head(entering)
  <2>1. entering \in Seq(known) /\ entering # <<>> /\ known \subseteq Downtimes
    BY <1>4 DEF IInv, TypeOK, Enter
  <2>2. d \in Downtimes
    BY <2>1
  <2>3. /\ inEffect' = inEffect \cup {d}
        /\ depth' = [depth EXCEPT ![Ref[d]] = @ + 1]
        /\ flag' = [flag EXCEPT ![Ref[d]] = TRUE]
        /\ excess' = excess
    BY <1>4 DEF Enter
  <2> HIDE DEF d
  <2> QED BY <2>2, <2>3, EnterCovered
<1>5. ASSUME NEW d \in Downtimes, DeleteDowntime(d) PROVE Covered' /\ FlagAgrees'
  <2>1. CASE d \in inEffect
    BY <1>5, <2>1, LeaveCovered DEF DeleteDowntime, Cancel
  <2>2. CASE d \notin inEffect
    BY <1>5, <2>2, MissCovered DEF DeleteDowntime, Cancel
  <2> QED BY <2>1, <2>2
<1>6. ASSUME NEW i \in Items, Maintain(i) PROVE Covered' /\ FlagAgrees'
  BY <1>6, <1>1 DEF Maintain, itemVars, history
<1>7. CASE StartStopEnd
  BY <1>7, <1>1 DEF StartStopEnd, downVars, itemVars, history
<1>8. ASSUME NEW i \in Items, ConsumeOk(i) PROVE Covered' /\ FlagAgrees'
  BY <1>8, <1>1 DEF ConsumeOk, downVars, itemVars, history
<1>9. ASSUME NEW i \in Items, NEW t \in CheckTimes, ConsumeFailure(i, t)
      PROVE  Covered' /\ FlagAgrees'
  BY <1>9, <1>1 DEF ConsumeFailure, downVars, itemVars, history
<1>10. CASE ConsumeEnd
  BY <1>10, <1>1 DEF ConsumeEnd, downVars, itemVars, history
<1>11. ASSUME NEW d \in Downtimes, ScheduleDowntime(d) PROVE Covered' /\ FlagAgrees'
  BY <1>11, <1>1 DEF ScheduleDowntime, itemVars, history
<1>12. CASE Tick
  BY <1>12, <1>1 DEF Tick, downVars, itemVars, history
<1>13. CASE UNCHANGED vars
  BY <1>13, <1>1 DEF vars, downVars, itemVars, history
<1> QED
  BY <1>2, <1>3, <1>4, <1>5, <1>6, <1>7, <1>8, <1>9, <1>10, <1>11, <1>12, <1>13
  DEF Next, MainLoop, Commands

\* The depth covers every downtime in effect, less those that commands
\* cancelled while they were not, and the flag follows the depth.
THEOREM DepthCovers == Spec => []IInv
<1>1. Init => IInv
  BY InitType, InitCovered DEF IInv
<1>2. IInv /\ [Next]_vars => IInv'
  BY StepType, StepCovered DEF IInv
<1> QED BY <1>1, <1>2, PTL DEF Spec

\* So notifications are blocked for as long as more downtimes are in effect
\* than were cancelled while they were not, whatever overlaps, triggers and
\* deletions there are: before the first such deletion, while any is.
THEOREM SilenceKept == Spec => []SilentInDowntime
<1>1. IInv => SilentInDowntime
  <2> SUFFICES ASSUME IInv, NEW i \in Items, Cardinality(Active(i)) > excess[i]
               PROVE  depth[i] > 0
    BY DEF SilentInDowntime
  <2>1. /\ Cardinality(Active(i)) \in Nat
        /\ depth[i] \in Int /\ depth[i] >= Cardinality(Active(i)) - excess[i]
    BY ActiveFinite DEF IInv, TypeOK, Covered
  <2>2. MaxExcess \in Nat /\ excess \in [Items -> 0..MaxExcess]
    BY DowntimeConstants DEF IInv, TypeOK
  <2>3. excess[i] \in Int
    BY <2>2
  <2> QED BY <2>1, <2>3
<1> QED BY <1>1, DepthCovers, PTL

\* What event handlers and business rules read is set whenever what
\* notifications read is positive, and the other way round until a downtime of
\* the item is cancelled that is not in effect.
THEOREM FlagSafe == Spec => []FlagAgrees
<1>1. IInv => FlagAgrees
  BY DEF IInv
<1> QED BY <1>1, DepthCovers, PTL

-----------------------------------------------------------------------------
(* The depth is the number of downtimes in effect *)

\* The downtimes whose call of enter is pending.
Pending == {entering[k] : k \in DOMAIN entering}

\* A downtime that was in effect once, or will be deleted: the uuids are never
\* given again.
Past(d) == d \in inEffect \cup deletable \cup (used \ known)

\* What activate_me holds waits for another downtime, its trigger.
Linked == \A d \in Downtimes : \A t \in activate[d] : Trigger[t] = d /\ t # d

\* No downtime is entered twice: those pending are different ones and not in
\* effect, and one that waits for its trigger is entered once the trigger was.
Fresh ==
  ~again => /\ inEffect \cap deletable = {}
            /\ Pending \cap inEffect = {}
            /\ \A j, k \in DOMAIN entering : entering[j] = entering[k] => j = k
            /\ \A t \in inEffect \cup Pending : Trigger[t] = None \/ Past(Trigger[t])

Once == TypeOK /\ Linked /\ Fresh

\* An order of some downtimes has each of them once.
LEMMA OrdersOnce ==
  ASSUME NEW D \in SUBSET Downtimes, NEW s \in Orders(D)
  PROVE  /\ \A k \in DOMAIN s : s[k] \in D
         /\ \A j, k \in DOMAIN s : s[j] = s[k] => j = k
<1>1. IsFiniteSet(D) /\ Cardinality(D) \in Nat
  BY DowntimeConstants, FS_Subset, FS_CardinalityType
<1> DEFINE N == 1..Cardinality(D)
<1>2. IsFiniteSet(N) /\ Cardinality(N) = Cardinality(D)
  BY <1>1, FS_Interval
<1>3. s \in [N -> D] /\ \A d \in D : \E k \in N : s[k] = d
  BY DEF Orders
<1>4. s \in Surjection(N, D)
  BY <1>3 DEF Surjection
<1> HIDE DEF N
<1>5. s \in Injection(N, D)
  BY <1>2, <1>4, FS_SurjSameCardinalityImpliesInj
<1> QED BY <1>3, <1>5 DEF Injection, IsInjective

\* The list after a call of enter: the downtimes triggered, then the others.
LEMMA Concatenated ==
  ASSUME NEW S, NEW s \in Seq(S), NEW q \in Seq(S), q # <<>>,
         \A j, k \in DOMAIN s : s[j] = s[k] => j = k,
         \A j, k \in DOMAIN q : q[j] = q[k] => j = k,
         \A j \in DOMAIN s, k \in DOMAIN q : s[j] # q[k]
  PROVE  /\ \A j, k \in DOMAIN (s \o Tail(q)) :
              (s \o Tail(q))[j] = (s \o Tail(q))[k] => j = k
         /\ \A k \in DOMAIN (s \o Tail(q)) :
              \/ \E j \in DOMAIN s : (s \o Tail(q))[k] = s[j]
              \/ \E j \in DOMAIN q : (s \o Tail(q))[k] = q[j] /\ q[j] # Head(q)
<1> DEFINE r == s \o Tail(q)
<1>1. /\ Len(s) \in Nat /\ Len(q) \in Nat /\ Len(q) > 0
      /\ DOMAIN s = 1..Len(s) /\ DOMAIN q = 1..Len(q)
      /\ Tail(q) \in Seq(S) /\ Len(Tail(q)) = Len(q) - 1
      /\ \A k \in 1..(Len(q) - 1) : Tail(q)[k] = q[k + 1]
      /\ Head(q) = q[1]
  OBVIOUS
<1>2. /\ r \in Seq(S) /\ Len(r) = Len(s) + Len(q) - 1 /\ DOMAIN r = 1..(Len(s) + Len(q) - 1)
      /\ \A k \in 1..Len(s) : r[k] = s[k]
  BY <1>1
<1>3. ASSUME NEW k \in DOMAIN r, k > Len(s)
      PROVE  /\ k - Len(s) + 1 \in DOMAIN q /\ k - Len(s) + 1 # 1
             /\ r[k] = q[k - Len(s) + 1]
  <2>1. k - Len(s) \in 1..(Len(q) - 1)
    BY <1>1, <1>2, <1>3
  <2>2. r[k] = Tail(q)[k - Len(s)]
    BY <1>1, <1>2, <1>3, <2>1
  <2> QED BY <1>1, <2>1, <2>2
<1>4. ASSUME NEW k \in DOMAIN r, ~(k > Len(s))
      PROVE  k \in DOMAIN s /\ r[k] = s[k]
  BY <1>1, <1>2, <1>4
<1> HIDE DEF r
<1>5. ASSUME NEW j \in DOMAIN r, NEW k \in DOMAIN r, r[j] = r[k]
      PROVE  j = k
  <2>1. j \in Nat /\ k \in Nat
    BY <1>1, <1>2
  <2>2. CASE j > Len(s) /\ k > Len(s)
    BY <1>1, <1>3, <1>5, <2>1, <2>2
  <2>3. CASE ~(j > Len(s)) /\ ~(k > Len(s))
    BY <1>4, <1>5, <2>3
  <2>4. CASE j > Len(s) /\ ~(k > Len(s))
    BY <1>3, <1>4, <1>5, <2>4
  <2>5. CASE ~(j > Len(s)) /\ k > Len(s)
    BY <1>3, <1>4, <1>5, <2>5
  <2> QED BY <2>2, <2>3, <2>4, <2>5
<1>6. ASSUME NEW k \in DOMAIN r
      PROVE  \/ \E j \in DOMAIN s : r[k] = s[j]
             \/ \E j \in DOMAIN q : r[k] = q[j] /\ q[j] # Head(q)
  <2>1. CASE k > Len(s)
    <3>1. k - Len(s) + 1 \in DOMAIN q /\ k - Len(s) + 1 # 1 /\ r[k] = q[k - Len(s) + 1]
      BY <1>3, <2>1
    <3>2. 1 \in DOMAIN q
      BY <1>1
    <3> QED BY <1>1, <3>1, <3>2
  <2>2. CASE ~(k > Len(s))
    BY <1>4, <2>2
  <2> QED BY <2>1, <2>2
<1> QED BY <1>5, <1>6 DEF r

\* Entering a downtime keeps the next calls of enter fresh.
LEMMA EnterFresh ==
  ASSUME Once, Enter
  PROVE  Fresh'
<1> SUFFICES ASSUME ~again' PROVE Fresh'
  BY DEF Fresh
<1>1. /\ entering \in Seq(known) /\ entering # <<>> /\ known \in SUBSET used
      /\ known \in SUBSET Downtimes /\ inEffect \in SUBSET known
  BY DEF Once, TypeOK, Enter
<1>2. PICK d \in known : d = Head(entering) /\ 1 \in DOMAIN entering /\ d = entering[1]
  BY <1>1
<1>3. ~again /\ d \notin deletable
  BY <1>2 DEF Enter
<1>4. inEffect' = inEffect \cup {d} /\ UNCHANGED <<deletable, used, known, activate>>
  BY <1>2 DEF Enter
<1>5. PICK s \in Orders(activate[d] \cap known) : entering' = s \o Tail(entering)
  BY <1>2 DEF Enter
<1>6. /\ inEffect \cap deletable = {} /\ Pending \cap inEffect = {}
      /\ \A j, k \in DOMAIN entering : entering[j] = entering[k] => j = k
      /\ \A t \in inEffect \cup Pending : Trigger[t] = None \/ Past(Trigger[t])
  BY <1>3 DEF Once, Fresh
<1>7. d \in Pending /\ ~Past(d) /\ Past(d)'
  BY <1>2, <1>3, <1>4, <1>6 DEF Pending, Past
<1>8. /\ s \in Seq(known) /\ \A k \in DOMAIN s : s[k] \in activate[d] \cap known
      /\ \A j, k \in DOMAIN s : s[j] = s[k] => j = k
  <2>1. activate[d] \cap known \in SUBSET Downtimes /\ activate[d] \cap known \subseteq known
    BY <1>1
  <2> QED BY <2>1, <1>5, OrdersOnce, OrdersType, SeqGrows
<1>9. ASSUME NEW t \in activate[d] \cap known
      PROVE  Trigger[t] = d /\ Trigger[t] # None /\ t # d /\ t \notin inEffect \cup Pending
  <2>1. Trigger[t] = d /\ t # d
    BY <1>1, <1>2 DEF Once, Linked
  <2>2. d # None
    BY <1>1, <1>2, DowntimeConstants
  <2> QED BY <1>6, <1>7, <2>1, <2>2
<1>10. \A j \in DOMAIN s, k \in DOMAIN entering : s[j] # entering[k]
  BY <1>8, <1>9 DEF Pending
<1>11. /\ \A j, k \in DOMAIN entering' : entering'[j] = entering'[k] => j = k
       /\ \A k \in DOMAIN entering' :
            \/ \E j \in DOMAIN s : entering'[k] = s[j]
            \/ \E j \in DOMAIN entering : entering'[k] = entering[j] /\ entering[j] # d
  <2> DEFINE r == s \o Tail(entering)
  <2>1. /\ \A j, k \in DOMAIN r : r[j] = r[k] => j = k
        /\ \A k \in DOMAIN r :
             \/ \E j \in DOMAIN s : r[k] = s[j]
             \/ \E j \in DOMAIN entering : r[k] = entering[j] /\ entering[j] # Head(entering)
    BY ONLY <1>1, <1>6, <1>8, <1>10, Concatenated
  <2> HIDE DEF r
  <2>2. entering' = r
    BY <1>5 DEF r
  <2> QED BY <1>2, <2>1, <2>2
<1>12. \A t \in Pending' : t \in activate[d] \cap known \/ (t \in Pending /\ t # d)
  BY <1>8, <1>11 DEF Pending
<1>13. Pending' \cap inEffect' = {}
  BY <1>4, <1>6, <1>9, <1>12
<1>14. inEffect' \cap deletable' = {}
  BY <1>3, <1>4, <1>6
<1>15. \A t : Past(t) => Past(t)'
  BY <1>4 DEF Past
<1>16. ASSUME NEW t \in inEffect' \cup Pending'
       PROVE  Trigger[t] = None \/ Past(Trigger[t])'
  <2>1. CASE t \in activate[d] \cap known
    BY <1>7, <1>9, <2>1
  <2>2. CASE t \notin activate[d] \cap known
    BY <1>4, <1>6, <1>7, <1>12, <1>15, <2>2
  <2> QED BY <2>1, <2>2
<1> QED BY <1>11, <1>13, <1>14, <1>16 DEF Fresh

\* What leaves the calls of enter alone, or adds none, keeps them fresh when no downtime
\* is forgotten and none is in effect that was not.
LEMMA FreshFrame ==
  ASSUME Once, again' = again, inEffect' \subseteq inEffect,
         inEffect' \cap deletable' = {} \/ again,
         \A t \in Downtimes : Past(t) => Past(t)',
         entering' = entering \/ entering' = <<>>
  PROVE  Fresh'
<1> SUFFICES ASSUME ~again' PROVE Fresh'
  BY DEF Fresh
<1>1. /\ inEffect \cap deletable = {} /\ Pending \cap inEffect = {}
      /\ \A j, k \in DOMAIN entering : entering[j] = entering[k] => j = k
      /\ \A t \in inEffect \cup Pending : Trigger[t] = None \/ Past(Trigger[t])
  BY DEF Once, Fresh
<1>2. Pending' \subseteq Pending
  BY DEF Pending
<1>3. \A j, k \in DOMAIN entering' : entering'[j] = entering'[k] => j = k
  BY <1>1
<1>4. inEffect \in SUBSET Downtimes /\ Pending \in SUBSET Downtimes
  <2>1. entering \in Seq(Downtimes) /\ inEffect \in SUBSET Downtimes
    BY SeqGrows DEF Once, TypeOK
  <2> QED BY <2>1 DEF Pending
<1>5. \A t \in inEffect' \cup Pending' : Trigger[t] = None \/ Past(Trigger[t])'
  <2> SUFFICES ASSUME NEW t \in inEffect' \cup Pending', Trigger[t] # None
               PROVE  Past(Trigger[t])'
    OBVIOUS
  <2>1. t \in Downtimes /\ Past(Trigger[t])
    BY <1>1, <1>2, <1>4
  <2>2. Trigger[t] \in Downtimes
    BY <2>1, DowntimeConstants
  <2> QED BY <2>1, <2>2
<1> QED BY <1>1, <1>2, <1>3, <1>5 DEF Fresh

\* The calls of enter that the loop makes itself: for downtimes that wait for
\* no trigger and are not in effect.
LEMMA FreshStart ==
  ASSUME Once, again' = again, UNCHANGED <<inEffect, deletable, used, known>>,
         \A k \in DOMAIN entering' : entering'[k] \notin inEffect /\ Trigger[entering'[k]] = None,
         \A j, k \in DOMAIN entering' : entering'[j] = entering'[k] => j = k
  PROVE  Fresh'
<1> SUFFICES ASSUME ~again' PROVE Fresh'
  BY DEF Fresh
<1>1. /\ inEffect \cap deletable = {}
      /\ \A t \in inEffect : Trigger[t] = None \/ Past(Trigger[t])
  BY DEF Once, Fresh
<1>2. \A t : Past(t) => Past(t)'
  BY DEF Past
<1>3. \A t \in Pending' : t \notin inEffect /\ Trigger[t] = None
  BY DEF Pending
<1> QED BY <1>1, <1>2, <1>3 DEF Fresh

\* Every step keeps the calls of enter fresh.
LEMMA FreshStep ==
  ASSUME Once, [Next]_vars
  PROVE  Fresh'
<1>1. ASSUME again' = again, UNCHANGED <<inEffect, deletable, used, known, entering>>
      PROVE  Fresh'
  <2>1. \A t : Past(t) => Past(t)'
    BY <1>1 DEF Past
  <2>2. inEffect' \cap deletable' = {} \/ again
    BY <1>1 DEF Once, Fresh
  <2> QED BY <1>1, <2>1, <2>2, FreshFrame
<1>2. CASE DeleteMarked
  <2>1. /\ again' = again /\ entering' = entering /\ used' = used
        /\ known' = known \ deletable /\ inEffect' = inEffect \ deletable
        /\ deletable' = deletable \ deletable
    BY <1>2 DEF DeleteMarked, Remove, history
  <2>2. \A t \in Downtimes : Past(t) => Past(t)'
    BY <2>1 DEF Past, Once, TypeOK
  <2> QED BY <2>1, <2>2, FreshFrame
<1>3. ASSUME NEW d \in Downtimes, StartStop(d) PROVE Fresh'
  <2>1. again' = again /\ UNCHANGED <<used, known>> /\ entering = <<>>
    BY <1>3 DEF StartStop, history
  <2>2. CASE realEnd[d] < at
    <3>1. inEffect' = inEffect \ {d} /\ deletable' = deletable \cup {d} /\ entering' = entering
      BY <1>3, <2>2 DEF StartStop, Exit
    <3>2. \A t \in Downtimes : Past(t) => Past(t)'
      BY <2>1, <3>1 DEF Past
    <3>3. inEffect' \cap deletable' = {} \/ again
      BY <3>1 DEF Once, Fresh
    <3> QED BY <2>1, <3>1, <3>2, <3>3, FreshFrame
  <2>3. CASE ~(realEnd[d] < at) /\ Starts(d)
    <3>1. entering' = <<d>> /\ UNCHANGED <<inEffect, deletable>>
      BY <1>3, <2>3 DEF StartStop
    <3>2. d \notin inEffect /\ Trigger[d] = None
      BY <2>3, DowntimeConstants DEF Starts
    <3>3. DOMAIN <<d>> = {1} /\ <<d>>[1] = d
      OBVIOUS
    <3> QED BY <2>1, <3>1, <3>2, <3>3, FreshStart
  <2>4. CASE ~(realEnd[d] < at) /\ ~Starts(d)
    BY <1>1, <1>3, <2>1, <2>4 DEF StartStop
  <2> QED BY <2>2, <2>3, <2>4
<1>4. CASE Enter
  BY <1>4, EnterFresh
<1>5. ASSUME NEW d \in Downtimes, DeleteDowntime(d) PROVE Fresh'
  <2>1. /\ again' = again /\ UNCHANGED <<used, known, entering>>
        /\ inEffect' = inEffect \ {d} /\ deletable' = deletable \cup {d}
    BY <1>5 DEF DeleteDowntime, Cancel, loopVars
  <2>2. \A t \in Downtimes : Past(t) => Past(t)'
    BY <2>1 DEF Past
  <2>3. inEffect' \cap deletable' = {} \/ again
    BY <2>1 DEF Once, Fresh
  <2> QED BY <2>1, <2>2, <2>3, FreshFrame
<1>6. ASSUME NEW d \in Downtimes, Add(d), again' = again,
             UNCHANGED <<inEffect, deletable, entering>>
      PROVE  Fresh'
  <2>1. \A t \in Downtimes : Past(t) => Past(t)'
    BY <1>6 DEF Past, Add
  <2>2. inEffect' \cap deletable' = {} \/ again
    BY <1>6 DEF Once, Fresh
  <2> QED BY <1>6, <2>1, <2>2, FreshFrame
<1>7. ASSUME NEW i \in Items, Maintain(i) PROVE Fresh'
  <2>1. again' = again /\ UNCHANGED <<inEffect, deletable, entering>>
    BY <1>7 DEF Maintain, history
  <2>2. (\E d \in Downtimes : Add(d)) \/ UNCHANGED <<used, known>>
    BY <1>7, DowntimeConstants DEF Maintain
  <2> QED BY <1>1, <1>6, <2>1, <2>2
<1>8. ASSUME NEW d \in Downtimes, ScheduleDowntime(d) PROVE Fresh'
  BY <1>6, <1>8 DEF ScheduleDowntime, loopVars, history
<1>9. ASSUME NEW i \in Items, NEW t \in CheckTimes, ConsumeFailure(i, t) PROVE Fresh'
  <2>1. again' = again /\ UNCHANGED <<inEffect, deletable, used, known>>
    BY <1>9 DEF ConsumeFailure, downVars, history
  <2>2. CASE i \notin hard
    <3>1. entering' \in Orders(Flexible(i, t))
      BY <1>9, <2>2 DEF ConsumeFailure
    <3>2. Flexible(i, t) \in SUBSET Downtimes
      BY DEF Flexible, Once, TypeOK
    <3>3. /\ \A k \in DOMAIN entering' : entering'[k] \in Flexible(i, t)
          /\ \A j, k \in DOMAIN entering' : entering'[j] = entering'[k] => j = k
      BY <3>1, <3>2, OrdersOnce
    <3>4. \A d \in Flexible(i, t) : d \notin inEffect /\ Trigger[d] = None
      BY DEF Flexible
    <3> QED BY <2>1, <3>3, <3>4, FreshStart
  <2>3. CASE ~(i \notin hard)
    BY <1>1, <1>9, <2>1, <2>3 DEF ConsumeFailure
  <2> QED BY <2>2, <2>3
<1>10. CASE StartStopEnd
  BY <1>10, <1>1 DEF StartStopEnd, downVars, history
<1>11. ASSUME NEW i \in Items, ConsumeOk(i) PROVE Fresh'
  BY <1>11, <1>1 DEF ConsumeOk, downVars, history
<1>12. CASE ConsumeEnd
  BY <1>12, <1>1 DEF ConsumeEnd, downVars, history
<1>13. CASE Tick
  BY <1>13, <1>1 DEF Tick, downVars, loopVars, history
<1>14. CASE UNCHANGED vars
  BY <1>14, <1>1 DEF vars, downVars, loopVars, history
<1> QED
  BY <1>2, <1>3, <1>4, <1>5, <1>7, <1>8, <1>9, <1>10, <1>11, <1>12, <1>13, <1>14
  DEF Next, MainLoop, Commands

\* activate_me is only written when a downtime is scheduled or removed.
LEMMA LinkedStep ==
  ASSUME Once, [Next]_vars
  PROVE  Linked'
<1>1. ASSUME UNCHANGED activate PROVE Linked'
  BY <1>1 DEF Once, Linked
<1>2. CASE DeleteMarked
  BY <1>2 DEF DeleteMarked, Remove, Once, Linked
<1>3. ASSUME NEW d \in Downtimes, ScheduleDowntime(d) PROVE Linked'
  <2>1. d \notin known
    BY <1>3 DEF ScheduleDowntime, Add, Once, TypeOK
  <2>2. \A t \in Downtimes : \A e \in activate'[t] :
          e \in activate[t] \/ (e = d /\ t = Trigger[d] /\ t \in known)
    BY <1>3 DEF ScheduleDowntime
  <2> QED BY <2>1, <2>2 DEF Once, Linked
<1>4. CASE UNCHANGED vars
  BY <1>1, <1>4 DEF vars, downVars
<1>5. CASE ~DeleteMarked /\ ~\E d \in Downtimes : ScheduleDowntime(d)
  <2>1. CASE Next
    BY <1>1, <1>5, <2>1 DEF Next, MainLoop, Commands, Maintain, StartStop, StartStopEnd, Enter,
       ConsumeOk, ConsumeFailure, ConsumeEnd, DeleteDowntime, Tick, downVars
  <2> QED BY <1>4, <2>1
<1> QED BY <1>2, <1>3, <1>5

\* The number of cancels of downtimes not in effect is an integer.
LEMMA ExcessType ==
  ASSUME TypeOK, NEW i \in Items
  PROVE  excess[i] \in Int
<1>1. MaxExcess \in Nat /\ excess \in [Items -> 0..MaxExcess]
  BY DowntimeConstants DEF TypeOK
<1> QED BY <1>1

\* A downtime that comes into effect counts one more.
LEMMA EnterExact ==
  ASSUME Once, DepthExact, ~again, NEW d \in Downtimes, d \notin inEffect, excess' = excess,
         inEffect' = inEffect \cup {d}, depth' = [depth EXCEPT ![Ref[d]] = @ + 1]
  PROVE  DepthExact'
<1>1. ASSUME NEW i \in Items PROVE depth'[i] = Cardinality(Active(i)') - excess'[i]
  <2>1. /\ IsFiniteSet(Active(i)) /\ Cardinality(Active(i)) \in Nat
        /\ depth \in [Items -> Int] /\ depth[i] = Cardinality(Active(i)) - excess[i]
        /\ excess[i] \in Int
    BY ActiveFinite, ExcessType DEF Once, TypeOK, DepthExact
  <2>2. CASE i = Ref[d]
    <3>1. Active(i)' = Active(i) \cup {d} /\ d \notin Active(i)
      BY <2>2 DEF Active
    <3>2. Cardinality(Active(i)') = Cardinality(Active(i)) + 1
      BY <2>1, <3>1, FS_AddElement
    <3> QED BY <2>1, <2>2, <3>2
  <2>3. CASE i # Ref[d]
    <3>1. Active(i)' = Active(i)
      BY <2>3 DEF Active
    <3> QED BY <2>1, <2>3, <3>1
  <2> QED BY <2>2, <2>3
<1> QED BY <1>1 DEF DepthExact

\* One that is over counts one less.
LEMMA LeaveExact ==
  ASSUME Once, DepthExact, ~again, NEW d \in inEffect, excess' = excess,
         inEffect' = inEffect \ {d}, depth' = [depth EXCEPT ![Ref[d]] = @ - 1]
  PROVE  DepthExact'
<1>1. ASSUME NEW i \in Items PROVE depth'[i] = Cardinality(Active(i)') - excess'[i]
  <2>1. /\ IsFiniteSet(Active(i)) /\ Cardinality(Active(i)) \in Nat
        /\ depth \in [Items -> Int] /\ depth[i] = Cardinality(Active(i)) - excess[i]
        /\ excess[i] \in Int
    BY ActiveFinite, ExcessType DEF Once, TypeOK, DepthExact
  <2>2. CASE i = Ref[d]
    <3>1. Active(i)' = Active(i) \ {d} /\ d \in Active(i)
      BY <2>2 DEF Active
    <3>2. Cardinality(Active(i)') = Cardinality(Active(i)) - 1
      BY <2>1, <3>1, FS_RemoveElement
    <3> QED BY <2>1, <2>2, <3>2
  <2>3. CASE i # Ref[d]
    <3>1. Active(i)' = Active(i)
      BY <2>3 DEF Active
    <3> QED BY <2>1, <2>3, <3>1
  <2> QED BY <2>2, <2>3
<1> QED BY <1>1 DEF DepthExact

\* One cancelled while it is not in effect is counted by excess.
LEMMA MissExact ==
  ASSUME Once, DepthExact, ~again, NEW d \in Downtimes, d \notin inEffect,
         inEffect' = inEffect \ {d}, depth' = [depth EXCEPT ![Ref[d]] = @ - 1],
         excess' = [excess EXCEPT ![Ref[d]] = @ + 1]
  PROVE  DepthExact'
<1>1. ASSUME NEW i \in Items PROVE depth'[i] = Cardinality(Active(i)') - excess'[i]
  <2>1. /\ Cardinality(Active(i)) \in Nat
        /\ depth \in [Items -> Int] /\ depth[i] = Cardinality(Active(i)) - excess[i]
        /\ excess[i] \in Int /\ excess \in [Items -> 0..MaxExcess]
    BY ActiveFinite, ExcessType DEF Once, TypeOK, DepthExact
  <2>2. Active(i)' = Active(i)
    BY DEF Active
  <2>3. CASE i = Ref[d]
    <3>1. depth'[i] = depth[i] - 1 /\ excess'[i] = excess[i] + 1
      BY <2>1, <2>3
    <3> QED BY <2>1, <2>2, <3>1
  <2>4. CASE i # Ref[d]
    <3>1. depth'[i] = depth[i] /\ excess'[i] = excess[i]
      BY <2>1, <2>4
    <3> QED BY <2>1, <2>2, <3>1
  <2> QED BY <2>3, <2>4
<1> QED BY <1>1 DEF DepthExact

\* Every step keeps count.
LEMMA ExactStep ==
  ASSUME Once, DepthExact, [Next]_vars
  PROVE  DepthExact'
<1>1. ASSUME UNCHANGED <<inEffect, depth, again, excess>> PROVE DepthExact'
  BY <1>1 DEF DepthExact, Active
<1>2. again => again'
  BY DEF Next, MainLoop, Commands, Maintain, DeleteMarked, StartStop, StartStopEnd, Enter, ConsumeOk,
     ConsumeFailure, ConsumeEnd, ScheduleDowntime, DeleteDowntime, Tick, vars, history
<1>3. again' => DepthExact'
  BY DEF DepthExact
<1> SUFFICES ASSUME ~again, ~again' PROVE DepthExact'
  BY <1>2, <1>3
<1>4. inEffect \cap deletable = {} /\ Pending \cap inEffect = {}
  BY DEF Once, Fresh
<1>5. CASE DeleteMarked
  <2>1. inEffect' = inEffect \ deletable /\ UNCHANGED <<depth, again, excess>>
    BY <1>5 DEF DeleteMarked, Remove, itemVars, history
  <2>2. inEffect' = inEffect
    BY <1>4, <2>1
  <2> QED BY <1>1, <2>1, <2>2
<1>6. ASSUME NEW d \in Downtimes, StartStop(d) PROVE DepthExact'
  <2>1. CASE realEnd[d] < at /\ d \in inEffect
    BY <1>6, <2>1, LeaveExact DEF StartStop, Exit, history
  <2>2. CASE realEnd[d] < at /\ d \notin inEffect
    <3>1. inEffect' = inEffect /\ UNCHANGED <<depth, again, excess>>
      BY <1>6, <2>2 DEF StartStop, Exit, itemVars, history
    <3> QED BY <1>1, <3>1
  <2>3. CASE ~(realEnd[d] < at)
    BY <1>1, <1>6, <2>3 DEF StartStop, itemVars, history
  <2> QED BY <2>1, <2>2, <2>3
<1>7. CASE Enter
  <2>1. PICK d \in Downtimes : d = Head(entering) /\ d \in Pending
    <3>1. entering \in Seq(Downtimes) /\ entering # <<>>
      BY <1>7, SeqGrows DEF Enter, Once, TypeOK
    <3>2. Head(entering) \in Downtimes /\ 1 \in DOMAIN entering /\ Head(entering) = entering[1]
      BY <3>1
    <3> QED BY <3>2 DEF Pending
  <2>2. inEffect' = inEffect \cup {d} /\ depth' = [depth EXCEPT ![Ref[d]] = @ + 1] /\ excess' = excess
    BY <1>7, <2>1 DEF Enter
  <2>3. d \notin inEffect
    BY <1>4, <2>1
  <2> QED BY <2>2, <2>3, EnterExact
<1>8. ASSUME NEW d \in Downtimes, DeleteDowntime(d) PROVE DepthExact'
  <2>1. CASE d \in inEffect
    BY <1>8, <2>1, LeaveExact DEF DeleteDowntime, Cancel
  <2>2. CASE d \notin inEffect
    BY <1>8, <2>2, MissExact DEF DeleteDowntime, Cancel
  <2> QED BY <2>1, <2>2
<1>9. ASSUME NEW i \in Items, Maintain(i) PROVE DepthExact'
  BY <1>1, <1>9 DEF Maintain, itemVars, history
<1>10. CASE StartStopEnd
  BY <1>1, <1>10 DEF StartStopEnd, downVars, itemVars, history
<1>11. ASSUME NEW i \in Items, ConsumeOk(i) PROVE DepthExact'
  BY <1>1, <1>11 DEF ConsumeOk, downVars, itemVars, history
<1>12. ASSUME NEW i \in Items, NEW t \in CheckTimes, ConsumeFailure(i, t)
       PROVE  DepthExact'
  BY <1>1, <1>12 DEF ConsumeFailure, downVars, itemVars, history
<1>13. CASE ConsumeEnd
  BY <1>1, <1>13 DEF ConsumeEnd, downVars, itemVars, history
<1>14. ASSUME NEW d \in Downtimes, ScheduleDowntime(d) PROVE DepthExact'
  BY <1>1, <1>14 DEF ScheduleDowntime, itemVars, history
<1>15. CASE Tick
  BY <1>1, <1>15 DEF Tick, downVars, itemVars, history
<1>16. CASE UNCHANGED vars
  BY <1>1, <1>16 DEF vars, downVars, itemVars, history
<1> QED
  BY <1>5, <1>6, <1>7, <1>8, <1>9, <1>10, <1>11, <1>12, <1>13, <1>14, <1>15, <1>16
  DEF Next, MainLoop, Commands

\* As long as no downtime marked for deletion is entered, the depth is the number of
\* downtimes in effect, triggered ones and those of maintenance periods included, less
\* those that commands cancelled while they were not.
THEOREM DepthCounts == Spec => []DepthExact
<1>1. Init => Once /\ DepthExact
  <2> SUFFICES ASSUME Init PROVE Once /\ DepthExact
    OBVIOUS
  <2>1. Linked
    BY DEF Init, Linked
  <2>2. Fresh
    BY DEF Init, Fresh, Pending
  <2>3. \A i \in Items : depth[i] = 0 /\ Active(i) = {} /\ excess[i] = 0
    BY DEF Init, Active
  <2>4. DepthExact
    BY <2>3, FS_EmptySet DEF DepthExact
  <2> QED BY <2>1, <2>2, <2>4, InitType DEF Once
<1>2. Once /\ DepthExact /\ [Next]_vars => (Once /\ DepthExact)'
  BY StepType, FreshStep, LinkedStep, ExactStep DEF Once
<1> QED BY <1>1, <1>2, PTL DEF Spec
====
