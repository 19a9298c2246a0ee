----------------------------- MODULE Downtimes -----------------------------
(***************************************************************************)
(* Downtimes of the hosts and services of a scheduler. A downtime in       *)
(* effect adds one to its item's scheduled_downtime_depth, and the item's  *)
(* notifications are blocked while that depth is positive.                 *)
(*                                                                         *)
(* The main loop starts, stops and deletes downtimes                       *)
(* (update_downtimes_and_comments) and starts the flexible ones when it    *)
(* consumes a failing result; commands that schedule and delete downtimes  *)
(* run in an HTTP thread, between any two of its steps. Notifications,     *)
(* comments, and the acknowledgement that a starting downtime gives a      *)
(* failing host are left out: nothing here reads them. A restart changes   *)
(* nothing either: the retention keeps the downtimes and the depths.       *)
(***************************************************************************)
EXTENDS Integers, Sequences, FiniteSets

CONSTANTS
  Items,         \* hosts and services
  Volatile,      \* services with is_volatile
  Downtimes,     \* uuids
  Ref,           \* downtime -> its item
  Fixed,         \* the downtimes scheduled with fixed
  Start, End,    \* downtime -> start_time, end_time
  Duration,      \* downtime -> duration of a flexible one
  Trigger,       \* downtime -> the downtime of its trigger_id, or None
  Maintenance,   \* the downtimes of maintenance periods, all fixed
  None,          \* no downtime
  MaxTime,       \* bound: the clock
  MaxExcess      \* bound: an item's downtimes cancelled while not in effect

ASSUME DowntimeConstants ==
  /\ Volatile \subseteq Items
  /\ None \notin Downtimes
  /\ IsFiniteSet(Downtimes)
  /\ Ref \in [Downtimes -> Items]
  /\ Fixed \subseteq Downtimes /\ Maintenance \subseteq Fixed
  /\ Start \in [Downtimes -> Nat] /\ End \in [Downtimes -> Nat]
  /\ Duration \in [Downtimes -> Nat]
  /\ Trigger \in [Downtimes -> Downtimes \cup {None}]
  /\ \A d \in Fixed : Trigger[d] = None
  /\ MaxTime \in Nat /\ MaxExcess \in Nat

VARIABLES
  now,       \* the clock
  at,        \* the time update_downtimes_and_comments has read
  used,      \* uuids given so far
  known,     \* keys of the items' downtimes
  inEffect,  \* the downtimes with is_in_effect
  deletable, \* the downtimes with can_be_deleted
  realEnd,   \* downtime -> real_end_time
  activate,  \* downtime -> activate_me
  upkeep,    \* item -> in_maintenance
  depth,     \* item -> scheduled_downtime_depth
  flag,      \* item -> in_scheduled_downtime
  hard,      \* the items that fail in a HARD state; volatile ones are not kept
  pc,        \* the stage of the main loop
  todo,      \* what its loop has still to visit
  entering,  \* pending calls of Downtime.enter, the next one first
  again,     \* history: a downtime marked for deletion has been entered
  excess     \* history: item -> cancels of its downtimes while not in effect

downVars == <<used, known, inEffect, deletable, realEnd, activate, upkeep>>
itemVars == <<depth, flag>>
loopVars == <<pc, todo, entering>>
history  == <<again, excess>>
vars     == <<now, at, downVars, itemVars, hard, loopVars, history>>

Stages == {"maintenance", "startstop", "consume"}

\* Types, and the loop's own bookkeeping: only known downtimes are visited and
\* entered, and no call of enter is pending when downtimes are deleted.
TypeOK ==
  /\ now \in 0..MaxTime /\ at \in 0..now
  /\ used \in SUBSET Downtimes /\ known \in SUBSET used
  /\ inEffect \in SUBSET known /\ deletable \in SUBSET known
  /\ realEnd \in [Downtimes -> Nat]
  /\ activate \in [Downtimes -> SUBSET Downtimes]
  /\ upkeep \in [Items -> Downtimes \cup {None}]
  /\ depth \in [Items -> Int] /\ flag \in [Items -> BOOLEAN]
  /\ hard \in SUBSET (Items \ Volatile)
  /\ pc \in Stages
  /\ todo \in SUBSET (IF pc = "startstop" THEN known ELSE Items)
  /\ entering \in Seq(known) /\ (pc = "maintenance" => entering = <<>>)
  /\ again \in BOOLEAN /\ excess \in [Items -> 0..MaxExcess]

Init ==
  /\ now = 0 /\ at = 0
  /\ used = {} /\ known = {} /\ inEffect = {} /\ deletable = {}
  /\ realEnd = End
  /\ activate = [d \in Downtimes |-> {}]
  /\ upkeep = [i \in Items |-> None]
  /\ depth = [i \in Items |-> 0] /\ flag = [i \in Items |-> FALSE]
  /\ hard = {}
  /\ pc = "maintenance" /\ todo = Items /\ entering = <<>>
  /\ again = FALSE /\ excess = [i \in Items |-> 0]

Goto(stage, what) == pc' = stage /\ todo' = what

\* The downtimes of D in some order, that of the dictionary or list which a
\* loop over them follows.
Orders(D) == { s \in [1..Cardinality(D) -> D] : \A d \in D : \E k \in DOMAIN s : s[k] = d }

-----------------------------------------------------------------------------
(* Downtime.enter, exit, cancel *)

\* Downtime.enter of the next pending call, then of the downtimes that this one
\* triggers. It never looks whether the downtime is in effect or marked for
\* deletion already.
Enter ==
  /\ entering # <<>>
  /\ LET d == Head(entering)
         i == Ref[d]
     IN /\ inEffect' = inEffect \cup {d}
        /\ realEnd' = [realEnd EXCEPT ![d] = IF d \in Fixed THEN @ ELSE now + Duration[d]]
        /\ depth' = [depth EXCEPT ![i] = @ + 1]
        /\ flag' = [flag EXCEPT ![i] = TRUE]
        /\ \E s \in Orders(activate[d] \cap known) : entering' = s \o Tail(entering)
        /\ again' = (again \/ d \in deletable)
  /\ UNCHANGED <<now, at, used, known, deletable, activate, upkeep, hard, pc, todo, excess>>

\* Mutant: the depth is decremented for a downtime that never started.
Exit_Unconditional(d) ==
  /\ inEffect' = inEffect \ {d}
  /\ deletable' = deletable \cup {d}
  /\ depth' = [depth EXCEPT ![Ref[d]] = @ - 1]
  /\ flag' = [flag EXCEPT ![Ref[d]] = @ /\ depth'[Ref[d]] # 0]

\* Mutant: a downtime that never started is not marked for deletion.
Exit_KeepsUnstarted(d) ==
  /\ inEffect' = inEffect \ {d}
  /\ deletable' = IF d \in inEffect THEN deletable \cup {d} ELSE deletable
  /\ IF d \in inEffect
     THEN /\ depth' = [depth EXCEPT ![Ref[d]] = @ - 1]
          /\ flag' = [flag EXCEPT ![Ref[d]] = @ /\ depth'[Ref[d]] # 0]
     ELSE UNCHANGED itemVars

\* Downtime.exit: a downtime that never started leaves the depth alone.
Exit(d) ==
  /\ inEffect' = inEffect \ {d}
  /\ deletable' = deletable \cup {d}
  /\ IF d \in inEffect
     THEN /\ depth' = [depth EXCEPT ![Ref[d]] = @ - 1]
          /\ flag' = [flag EXCEPT ![Ref[d]] = @ /\ depth'[Ref[d]] # 0]
     ELSE UNCHANGED itemVars

\* Downtime.cancel: the depth is decremented in any case. The loop over
\* activate_me, which holds uuids, ends in an exception when there is one: the
\* downtimes triggered stay as they are, and nothing follows the loop.
Cancel(d) ==
  /\ inEffect' = inEffect \ {d}
  /\ deletable' = deletable \cup {d}
  /\ depth' = [depth EXCEPT ![Ref[d]] = @ - 1]
  /\ flag' = [flag EXCEPT ![Ref[d]] = @ /\ depth'[Ref[d]] # 0]

-----------------------------------------------------------------------------
(* Commands, run by an HTTP thread *)

\* A new Downtime, added to its item.
Add(d) ==
  /\ d \notin used
  /\ used' = used \cup {d} /\ known' = known \cup {d}

\* SCHEDULE_HOST_DOWNTIME, SCHEDULE_SVC_DOWNTIME. The trigger is looked for
\* among all the items, but then taken from the item of the new downtime: one
\* of another item raises a KeyError and is not told.
ScheduleDowntime(d) ==
  /\ d \notin Maintenance
  /\ Add(d)
  /\ activate' = [t \in Downtimes |->
                    IF t = Trigger[d] /\ t \in known /\ Ref[t] = Ref[d]
                    THEN activate[t] \cup {d} ELSE activate[t]]
  /\ UNCHANGED <<now, at, inEffect, deletable, realEnd, upkeep, itemVars, hard,
                 loopVars, history>>

\* DEL_HOST_DOWNTIME, DEL_SVC_DOWNTIME; DEL_ALL_* delete one after the other.
\* Nothing asks whether the downtime has started or was deleted already.
DeleteDowntime(d) ==
  /\ d \in known
  /\ d \in inEffect \/ excess[Ref[d]] < MaxExcess
  /\ Cancel(d)
  /\ excess' = IF d \in inEffect THEN excess ELSE [excess EXCEPT ![Ref[d]] = @ + 1]
  /\ UNCHANGED <<now, at, used, known, realEnd, activate, upkeep, hard, loopVars, again>>

-----------------------------------------------------------------------------
(* update_downtimes_and_comments *)

\* The maintenance period of item i runs and its downtime d is to be made.
InPeriod(d, i) == Ref[d] = i /\ Start[d] <= at /\ at <= End[d]

\* Maintenance periods: a fixed downtime for the rest of the period, another
\* one when it has gone and the period has not.
Maintain(i) ==
  /\ pc = "maintenance" /\ i \in todo
  /\ IF upkeep[i] = None
     THEN \/ \E d \in Maintenance :
               /\ InPeriod(d, i)
               /\ Add(d)
               /\ upkeep' = [upkeep EXCEPT ![i] = d]
          \/ /\ \A d \in Maintenance \ used : ~InPeriod(d, i)
             /\ UNCHANGED <<used, known, upkeep>>
     ELSE /\ upkeep' = [upkeep EXCEPT ![i] = IF @ \in known THEN @ ELSE None]
          /\ UNCHANGED <<used, known>>
  /\ todo' = todo \ {i}
  /\ UNCHANGED <<now, at, inEffect, deletable, realEnd, activate, itemVars, hard, pc,
                 entering, history>>

\* The downtimes D are no longer in their items' downtimes, the only references
\* to them.
Remove(D) ==
  /\ known' = known \ D /\ inEffect' = inEffect \ D /\ deletable' = deletable \ D
  /\ realEnd' = [d \in Downtimes |-> IF d \in D THEN End[d] ELSE realEnd[d]]
  /\ activate' = [d \in Downtimes |-> IF d \in D THEN {} ELSE activate[d]]

\* The downtimes marked for deletion are removed from their items.
DeleteMarked ==
  /\ pc = "maintenance" /\ todo = {}
  /\ Remove(deletable)
  /\ Goto("startstop", known')
  /\ UNCHANGED <<now, at, used, upkeep, itemVars, hard, entering, history>>

\* Mutant: a fixed downtime is started on every turn.
Starts_Always(d) == Start[d] <= at /\ d \in Fixed

\* It is time to start the downtime, which is not in effect yet.
Starts(d) == Start[d] <= at /\ d \in Fixed /\ d \notin inEffect

\* Start and stop times, one downtime.
StartStop(d) ==
  /\ pc = "startstop" /\ d \in todo /\ entering = <<>>
  /\ IF realEnd[d] < at
     THEN Exit(d) /\ UNCHANGED entering
     ELSE /\ entering' = IF Starts(d) THEN <<d>> ELSE <<>>
          /\ UNCHANGED <<inEffect, deletable, itemVars>>
  /\ todo' = todo \ {d}
  /\ UNCHANGED <<now, at, used, known, realEnd, activate, upkeep, hard, pc, history>>

StartStopEnd ==
  /\ pc = "startstop" /\ todo = {} /\ entering = <<>>
  /\ Goto("consume", Items)
  /\ UNCHANGED <<now, at, downVars, itemVars, hard, entering, history>>

-----------------------------------------------------------------------------
(* consume_result, as far as downtimes go *)

\* check_for_flexible_downtime at the time t of the check.
Flexible(i, t) ==
  { d \in known \ (Fixed \cup inEffect) :
      Ref[d] = i /\ Trigger[d] = None /\ Start[d] <= t /\ t <= End[d] }

ConsumeOk(i) ==
  /\ pc = "consume" /\ i \in todo /\ entering = <<>>
  /\ hard' = hard \ {i}
  /\ todo' = todo \ {i}
  /\ UNCHANGED <<now, at, downVars, itemVars, pc, entering, history>>

\* A failing result, of a check executed at time t, that gives or keeps a HARD
\* state; one that gives a SOFT state changes nothing here. A step to the HARD
\* state, and every failure of a volatile service, whatever its state was,
\* starts the flexible downtimes.
ConsumeFailure(i, t) ==
  /\ pc = "consume" /\ i \in todo /\ entering = <<>>
  /\ hard' = (hard \cup {i}) \ Volatile
  /\ IF i \notin hard
     THEN \E s \in Orders(Flexible(i, t)) : entering' = s
     ELSE UNCHANGED entering
  /\ todo' = todo \ {i}
  /\ UNCHANGED <<now, at, downVars, itemVars, pc, history>>

\* No result for the items left: the next turn begins.
ConsumeEnd ==
  /\ pc = "consume" /\ entering = <<>>
  /\ Goto("maintenance", Items)
  /\ at' = now
  /\ UNCHANGED <<now, downVars, itemVars, hard, entering, history>>

\* One unit of time is longer than the calls of enter that follow one another.
Tick ==
  /\ now < MaxTime /\ entering = <<>>
  /\ now' = now + 1
  /\ UNCHANGED <<at, downVars, itemVars, hard, loopVars, history>>

-----------------------------------------------------------------------------
(* Specification *)

\* The check whose result is consumed ran at most one unit of time ago.
CheckTimes == { t \in 0..MaxTime : t \in now - 1..now }

MainLoop ==
  \/ \E i \in Items : Maintain(i)
  \/ DeleteMarked
  \/ \E d \in Downtimes : StartStop(d)
  \/ StartStopEnd
  \/ Enter
  \/ \E i \in Items : ConsumeOk(i)
  \/ \E i \in Items, t \in CheckTimes : ConsumeFailure(i, t)
  \/ ConsumeEnd

Commands == \E d \in Downtimes : ScheduleDowntime(d) \/ DeleteDowntime(d)

Next == MainLoop \/ Commands \/ Tick

Spec == Init /\ [][Next]_vars

\* The main loop turns and time passes.
FairSpec == Spec /\ WF_vars(MainLoop) /\ WF_vars(Tick)

-----------------------------------------------------------------------------
(* Properties *)

Active(i) == { d \in inEffect : Ref[d] = i }

\* "Notifications for the item will not be sent out for this time period": the
\* depth that blocks notifications is positive while a downtime is in effect,
\* unless as many were cancelled while they were not: each of these takes one
\* off the depth that had never been added.
SilentInDowntime == \A i \in Items : Cardinality(Active(i)) > excess[i] => depth[i] > 0

\* The depth counts the downtimes in effect, less those cancelled while they
\* were not, so the silence ends with the last of them: the one other way to
\* lose count is to enter a downtime that is already marked for deletion, and
\* will be deleted while it is in effect.
DepthExact == ~again => \A i \in Items : depth[i] = Cardinality(Active(i)) - excess[i]

\* Event handlers and business rules read in_scheduled_downtime, notifications
\* read the depth: the flag is set whenever the depth is positive, and falls
\* with it unless a downtime was cancelled while it was not in effect.
FlagAgrees ==
  \A i \in Items : /\ depth[i] > 0 => flag[i]
                   /\ flag[i] => depth[i] > 0 \/ excess[i] > 0

\* Every downtime, started or not, triggered or deleted, is eventually over
\* and removed from its item.
DowntimeEnds == \A d \in Downtimes : d \in known ~> d \notin known
=============================================================================
