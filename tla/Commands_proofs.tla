-------------------------- MODULE Commands_proofs --------------------------
(***************************************************************************)
(* Proofs about Commands, for every list of schedulers, every set of       *)
(* command lines and any number of commands, failures and crashes: a       *)
(* scheduler runs a command at most once, and the commands of one source   *)
(* in the order they were sent unless a request to it failed.              *)
(*                                                                         *)
(* A command moves one way, from the queue of its source to the receiver,  *)
(* to the list for a scheduler, to a request and to the scheduler, and     *)
(* what is ahead on that way was sent before.                              *)
(***************************************************************************)
EXTENDS Commands, WellFoundedInduction, TLAPS

SS == ToSet(Schedulers)

\* The pairs of commands in the order they were sent, those of two sources in any.
Before == {p \in Ids \X Ids : lines[p[1]].from = lines[p[2]].from => p[1] < p[2]}

Distinct == {p \in Nat \X Nat : p[1] # p[2]}

\* The elements of a list, and those of two sets, in the order R.
Ordered(seq, R) == \A j, k \in DOMAIN seq : j < k => <<seq[j], seq[k]>> \in R
Precede(A, B, R) == \A a \in A, b \in B : <<a, b>> \in R

\* The commands that wait in the receiver to be sent to a scheduler, that were sent
\* to it, that are not resolved, and that wait in the arbiter and the modules.
Waiting(s) == IF pc = "wait" /\ s = Head(todo) THEN {} ELSE ToSet(pushed[s])
Sent(s) == ToSet(executed[s]) \cup UNION {ToSet(b.cmds) : b \in batches[s]}
Unrouted == ToSet(unprocessed)
Queued == UNION {ToSet(queue[q]) : q \in Sources}

\* Each list is in order, and so are the places on the way.
Sourced == \A q \in Sources : /\ Ordered(queue[q], Before)
                              /\ \A i \in ToSet(queue[q]) : lines[i].from = q
Received == Ordered(unprocessed, Before) /\ Precede(Unrouted, Queued, Before)
Routed == \A s \in SS : /\ Ordered(pushed[s], Before)
                        /\ Precede(ToSet(pushed[s]), Unrouted \cup Queued, Before)
Left == \A s \in SS : Precede(Sent(s), Waiting(s) \cup Unrouted \cup Queued, Before)
Addressed == \A s \in SS : \A i \in Sent(s) \cup ToSet(pushed[s]) : s \in For(i)
Chain == Sourced /\ Received /\ Routed /\ Left /\ Addressed

\* No command is in two requests, twice in one, or in one and executed.
Apart ==
  \A s \in SS :
    /\ IsInjective(executed[s])
    /\ \A b \in batches[s] :
         /\ IsInjective(b.cmds) /\ ToSet(b.cmds) \cap ToSet(executed[s]) = {}
         /\ \A c \in batches[s] : c = b \/ ToSet(b.cmds) \cap ToSet(c.cmds) = {}

\* The request that the receiver waits for.
Awaited ==
  /\ answered => pc = "wait"
  /\ \A s \in SS : \A b \in batches[s] :
       b.awaited => pc = "wait" /\ s = Head(todo) /\ ~answered /\ b.cmds = pushed[s]

\* No request to a scheduler is late unless one failed.
OnTime ==
  \A s \in SS \ faults :
    /\ Ordered(executed[s], Before)
    /\ \A b \in batches[s] : /\ b.awaited /\ Ordered(b.cmds, Before)
                             /\ Precede(ToSet(executed[s]), ToSet(b.cmds), Before)

IInv == TypeOK /\ Chain /\ Apart /\ Awaited /\ OnTime

-----------------------------------------------------------------------------
(* Lists *)

LEMMA EmptyList == ToSet(<<>>) = {} /\ \A R : Ordered(<<>>, R)
BY DEF ToSet, Ordered

LEMMA SeqGrows ==
  ASSUME NEW S, NEW T, S \subseteq T, NEW s \in Seq(S)
  PROVE  s \in Seq(T)
OBVIOUS

LEMMA ListType ==
  ASSUME NEW S, NEW s \in Seq(S)
  PROVE  ToSet(s) \subseteq S /\ (s = <<>> <=> ToSet(s) = {})
<1>1. DOMAIN s = 1..Len(s) /\ Len(s) \in Nat /\ \A i \in 1..Len(s) : s[i] \in S
  OBVIOUS
<1>2. s # <<>> => 1 \in DOMAIN s
  BY <1>1
<1> QED BY <1>1, <1>2, EmptyList DEF ToSet

LEMMA AppendSet ==
  ASSUME NEW S, NEW s \in Seq(S), NEW e \in S
  PROVE  ToSet(Append(s, e)) = ToSet(s) \cup {e}
<1> DEFINE t == Append(s, e)
<1>1. /\ Len(s) \in Nat /\ DOMAIN s = 1..Len(s) /\ DOMAIN t = 1..(Len(s) + 1)
      /\ t[Len(s) + 1] = e /\ \A i \in 1..Len(s) : t[i] = s[i]
  OBVIOUS
<1> HIDE DEF t
<1>2. \A i \in DOMAIN s : i \in DOMAIN t /\ t[i] = s[i]
  BY <1>1
<1>3. Len(s) + 1 \in DOMAIN t
  BY <1>1
<1>4. \A i \in DOMAIN t : i \in DOMAIN s \/ i = Len(s) + 1
  BY <1>1
<1>5. ToSet(t) = ToSet(s) \cup {e}
  BY <1>1, <1>2, <1>3, <1>4 DEF ToSet
<1> QED BY <1>5 DEF t

LEMMA AppendOrdered ==
  ASSUME NEW S, NEW s \in Seq(S), NEW e \in S, NEW R, Ordered(s, R),
         \A x \in ToSet(s) : <<x, e>> \in R
  PROVE  Ordered(Append(s, e), R)
<1> DEFINE t == Append(s, e)
<1>1. /\ Len(s) \in Nat /\ DOMAIN s = 1..Len(s) /\ DOMAIN t = 1..(Len(s) + 1)
      /\ t[Len(s) + 1] = e /\ \A i \in 1..Len(s) : t[i] = s[i]
  OBVIOUS
<1> HIDE DEF t
<1>2. ASSUME NEW j \in DOMAIN t, NEW k \in DOMAIN t, j < k
      PROVE  <<t[j], t[k]>> \in R
  <2>1. j \in DOMAIN s /\ t[j] = s[j] /\ s[j] \in ToSet(s)
    BY <1>1, <1>2 DEF ToSet
  <2>2. CASE k = Len(s) + 1
    BY <1>1, <2>1, <2>2
  <2>3. CASE k # Len(s) + 1
    BY <1>1, <1>2, <2>1, <2>3 DEF Ordered
  <2> QED BY <2>2, <2>3
<1>3. Ordered(t, R)
  BY <1>2 DEF Ordered
<1> QED BY <1>3 DEF t

LEMMA ConcatList ==
  ASSUME NEW S, NEW s \in Seq(S), NEW u \in Seq(S)
  PROVE  /\ s \o u \in Seq(S) /\ ToSet(s \o u) = ToSet(s) \cup ToSet(u)
         /\ \A R : Ordered(s, R) /\ Ordered(u, R) /\ Precede(ToSet(s), ToSet(u), R)
                      => Ordered(s \o u, R)
<1> DEFINE t == s \o u
<1>1. /\ t \in Seq(S) /\ Len(s) \in Nat /\ Len(u) \in Nat
      /\ DOMAIN s = 1..Len(s) /\ DOMAIN u = 1..Len(u) /\ DOMAIN t = 1..(Len(s) + Len(u))
      /\ \A i \in 1..Len(s) : t[i] = s[i]
      /\ \A i \in 1..(Len(s) + Len(u)) : i > Len(s) => t[i] = u[i - Len(s)]
  OBVIOUS
<1> HIDE DEF t
<1>2. \A i \in DOMAIN t : \/ i <= Len(s) /\ i \in DOMAIN s /\ t[i] = s[i]
                          \/ /\ i > Len(s) /\ i - Len(s) \in DOMAIN u /\ t[i] = u[i - Len(s)]
  BY <1>1
<1>3. \A i \in DOMAIN s : i \in DOMAIN t /\ t[i] = s[i]
  BY <1>1
<1>4. \A i \in DOMAIN u : i + Len(s) \in DOMAIN t /\ t[i + Len(s)] = u[i]
  <2> TAKE i \in DOMAIN u
  <2>1. i + Len(s) \in 1..(Len(s) + Len(u)) /\ i + Len(s) > Len(s) /\ i + Len(s) - Len(s) = i
    BY <1>1
  <2> QED BY <1>1, <2>1
<1>5. ToSet(t) = ToSet(s) \cup ToSet(u)
  BY <1>2, <1>3, <1>4 DEF ToSet
<1>6. ASSUME NEW R, Ordered(s, R), Ordered(u, R), Precede(ToSet(s), ToSet(u), R),
             NEW j \in DOMAIN t, NEW k \in DOMAIN t, j < k
      PROVE  <<t[j], t[k]>> \in R
  <2>1. CASE k <= Len(s)
    BY <1>1, <1>2, <1>6, <2>1 DEF Ordered
  <2>2. CASE j > Len(s)
    <3>1. j - Len(s) \in DOMAIN u /\ k - Len(s) \in DOMAIN u /\ j - Len(s) < k - Len(s)
      BY <1>1, <1>6, <2>2
    <3> QED BY <1>1, <1>2, <1>6, <2>2, <3>1 DEF Ordered
  <2>3. CASE j <= Len(s) /\ k > Len(s)
    <3>1. t[j] \in ToSet(s) /\ t[k] \in ToSet(u)
      BY <1>1, <1>2, <2>3 DEF ToSet
    <3> QED BY <1>6, <3>1 DEF Precede
  <2> QED BY <1>1, <2>1, <2>2, <2>3
<1> QED BY <1>1, <1>5, <1>6 DEF Ordered, t

LEMMA TailList ==
  ASSUME NEW S, NEW s \in Seq(S), s # <<>>
  PROVE  /\ Head(s) \in S /\ Head(s) \in ToSet(s)
         /\ Tail(s) \in Seq(S) /\ ToSet(Tail(s)) \subseteq ToSet(s)
         /\ \A R : Ordered(s, R) => Ordered(Tail(s), R) /\ Precede({Head(s)}, ToSet(Tail(s)), R)
<1> DEFINE t == Tail(s)
<1>1. /\ t \in Seq(S) /\ Len(s) \in Nat /\ Len(s) > 0 /\ DOMAIN s = 1..Len(s)
      /\ DOMAIN t = 1..(Len(s) - 1) /\ Head(s) = s[1] /\ Head(s) \in S
      /\ \A i \in 1..(Len(s) - 1) : t[i] = s[i + 1]
  OBVIOUS
<1> HIDE DEF t
<1>2. \A i \in DOMAIN t : i + 1 \in DOMAIN s /\ 1 < i + 1 /\ t[i] = s[i + 1]
  BY <1>1
<1>3. 1 \in DOMAIN s
  BY <1>1
<1>4. ASSUME NEW R, Ordered(s, R)
      PROVE  Ordered(t, R) /\ Precede({Head(s)}, ToSet(t), R)
  <2>1. ASSUME NEW j \in DOMAIN t, NEW k \in DOMAIN t, j < k
        PROVE  <<t[j], t[k]>> \in R
    <3>1. j + 1 < k + 1
      BY <1>1, <2>1
    <3> QED BY <1>2, <1>4, <3>1 DEF Ordered
  <2>2. \A k \in DOMAIN t : <<s[1], t[k]>> \in R
    BY <1>2, <1>3, <1>4 DEF Ordered
  <2>3. Ordered(t, R)
    BY <2>1 DEF Ordered
  <2>4. Precede({Head(s)}, ToSet(t), R)
    BY <1>1, <2>2 DEF Precede, ToSet
  <2> QED BY <2>3, <2>4
<1>5. ToSet(t) \subseteq ToSet(s) /\ Head(s) \in ToSet(s)
  BY <1>1, <1>2, <1>3 DEF ToSet
<1> QED BY <1>1, <1>4, <1>5 DEF t

\* A list without repetition.
LEMMA InjectiveList ==
  ASSUME NEW s \in Seq(Nat)
  PROVE  IsInjective(s) <=> Ordered(s, Distinct)
<1>1. DOMAIN s = 1..Len(s) /\ Len(s) \in Nat /\ \A i \in DOMAIN s : i \in Nat /\ s[i] \in Nat
  OBVIOUS
<1>2. ASSUME IsInjective(s), NEW j \in DOMAIN s, NEW k \in DOMAIN s, j < k
      PROVE  <<s[j], s[k]>> \in Distinct
  BY <1>1, <1>2 DEF IsInjective, Distinct
<1>3. ASSUME Ordered(s, Distinct), NEW j \in DOMAIN s, NEW k \in DOMAIN s, s[j] = s[k]
      PROVE  j = k
  <2>1. CASE j < k
    BY <1>1, <1>3, <2>1 DEF Ordered, Distinct
  <2>2. CASE k < j
    BY <1>1, <1>3, <2>2 DEF Ordered, Distinct
  <2> QED BY <1>1, <2>1, <2>2
<1> QED BY <1>2, <1>3 DEF IsInjective, Ordered

\* A set of numbers that has one has a smallest one.
LEMMA Smallest ==
  ASSUME NEW T \in SUBSET Nat, T # {}
  PROVE  Min(T) \in T /\ \A y \in T : Min(T) <= y
<1>1. \E x \in T : \A y \in T : ~(<<y, x>> \in OpToRel(<, Nat))
  BY NatLessThanWellFounded, WFMin
<1>2. PICK x \in T : \A y \in T : ~(<<y, x>> \in OpToRel(<, Nat))
  BY <1>1
<1>3. \A y \in T : x <= y
  <2> TAKE y \in T
  <2>1. ~(y < x)
    BY <1>2 DEF OpToRel
  <2> QED BY <2>1
<1> QED BY <1>3 DEF Min

\* The commands of a request that run are the first ones.
LEMMA RanList ==
  ASSUME NEW cmds \in Seq(Ids)
  PROVE  /\ Ran(cmds) \in Seq(Ids) /\ ToSet(Ran(cmds)) \subseteq ToSet(cmds)
         /\ \A R : Ordered(cmds, R) => Ordered(Ran(cmds), R)
<1> DEFINE raising == {k \in DOMAIN cmds : Raises(lines[cmds[k]].cmd)}
<1> DEFINE m == Min(raising)
<1>1. CASE raising = {}
  BY <1>1 DEF Ran
<1>2. CASE raising # {}
  <2>1. DOMAIN cmds = 1..Len(cmds) /\ Len(cmds) \in Nat
    OBVIOUS
  <2>2. m \in raising
    <3>1. raising \in SUBSET Nat
      BY <2>1
    <3> HIDE DEF raising
    <3> QED BY <1>2, <3>1, Smallest
  <2>3. m \in 1..Len(cmds)
    BY <2>1, <2>2
  <2>4. Ran(cmds) = SubSeq(cmds, 1, m)
    BY <1>2 DEF Ran
  <2> HIDE DEF m
  <2> DEFINE r == SubSeq(cmds, 1, m)
  <2>5. /\ r \in Seq(Ids) /\ Len(r) = m /\ DOMAIN r = 1..m
        /\ \A i \in 1..m : r[i] = cmds[i] /\ i \in DOMAIN cmds
    BY <2>1, <2>3
  <2> HIDE DEF r
  <2>6. ToSet(r) \subseteq ToSet(cmds) /\ \A R : Ordered(cmds, R) => Ordered(r, R)
    BY <2>5 DEF ToSet, Ordered
  <2> QED BY <2>4, <2>5, <2>6 DEF r
<1> QED BY <1>1, <1>2

-----------------------------------------------------------------------------
(* Type correctness *)

\* What concerns the commands on their way, and the rest.
WayOK ==
  /\ lines \in Seq([to : SS \cup {"all", "nobody"}, cmd : Commands, from : Sources])
  /\ queue \in [Sources -> Seq(Ids)] /\ unprocessed \in Seq(Ids)
  /\ pushed \in [SS -> Seq(Ids)] /\ kept \in SUBSET (Ids \X SS)
  /\ batches \in [SS -> SUBSET [cmds : Seq(Ids), awaited : BOOLEAN]]
  /\ executed \in [SS -> Seq(Ids)]

LinkOK ==
  /\ link \in [Peers -> {"alive", "unreachable", "dead"}]
  /\ attempt \in [Peers -> 0..(MaxAttempts - 1)]

LoopOK ==
  /\ pc \in {"restore", "get", "fetch", "resolve", "push", "wait", "died"}
  /\ todo \in Seq(SS) /\ (pc \in {"push", "wait"} => todo # <<>>)
  /\ answered \in BOOLEAN

RestOK ==
  /\ sched \in [SS -> {"ready", "unconfigured", "down"}]
  /\ faults \in SUBSET (Peers \cup {"receiver"}) /\ nfaults \in 0..MaxFaults

LEMMA TypeParts ==
  /\ TypeOK <=> WayOK /\ LinkOK /\ LoopOK /\ RestOK
  /\ TypeOK' <=> WayOK' /\ LinkOK' /\ LoopOK' /\ RestOK'
BY DEF TypeOK, WayOK, LinkOK, LoopOK, RestOK, SS

\* The links.
LEMMA LinkType ==
  ASSUME LinkOK, NEW p \in Peers, Fail(p) \/ SetDead(p)
  PROVE  LinkOK'
<1>1. MaxAttempts \in Nat \ {0}
  BY CommandsConstants
<1>2. CASE Fail(p)
  <2>1. attempt[p] \in 0..(MaxAttempts - 1)
    BY DEF LinkOK
  <2>2. link' \in [Peers -> {"alive", "unreachable", "dead"}]
    BY <1>2 DEF Fail, LinkOK
  <2>3. 0 \in 0..(MaxAttempts - 1) /\ (attempt[p] + 1 < MaxAttempts => attempt[p] + 1 \in 0..(MaxAttempts - 1))
    BY <1>1, <2>1
  <2>4. attempt' \in [Peers -> 0..(MaxAttempts - 1)]
    <3>1. CASE attempt[p] + 1 >= MaxAttempts
      BY <1>2, <2>3, <3>1 DEF Fail, LinkOK
    <3>2. CASE ~(attempt[p] + 1 >= MaxAttempts)
      <4>1. attempt' = [attempt EXCEPT ![p] = attempt[p] + 1]
        BY <1>2, <3>2 DEF Fail
      <4>2. attempt[p] + 1 \in 0..(MaxAttempts - 1)
        BY <1>1, <2>1, <3>2
      <4> QED BY <4>1, <4>2 DEF LinkOK
    <3> QED BY <3>1, <3>2
  <2> QED BY <2>2, <2>4 DEF LinkOK
<1>3. CASE SetDead(p)
  <2>1. 0 \in 0..(MaxAttempts - 1)
    BY <1>1
  <2> QED BY <1>3, <2>1 DEF SetDead, LinkOK
<1> QED BY <1>2, <1>3

\* A fault is counted.
LEMMA FaultType ==
  ASSUME RestOK, NEW ps \in SUBSET Peers, Fault(ps), sched' = sched
  PROVE  RestOK'
<1>1. MaxFaults \in Nat
  BY CommandsConstants
<1> QED BY <1>1 DEF RestOK, Fault

\* The end of a turn of the loop over the links.
LEMMA PushedType ==
  ASSUME WayOK, LoopOK, pc \in {"push", "wait"}, NEW s \in SS, NEW sent \in BOOLEAN,
         Pushed(s, sent), UNCHANGED <<lines, queue, unprocessed, executed>>, answered' \in BOOLEAN,
         batches' \in [SS -> SUBSET [cmds : Seq(Ids), awaited : BOOLEAN]]
  PROVE  WayOK' /\ LoopOK'
<1>1. Ids' = Ids
  BY DEF Ids
<1>2. <<>> \in Seq(Ids)
  OBVIOUS
<1>3. pushed' \in [SS -> Seq(Ids)]
  BY <1>2 DEF Pushed, WayOK
<1>4. kept' \in SUBSET (Ids \X SS)
  <2>1. ToSet(pushed[s]) \subseteq Ids
    BY ListType DEF WayOK
  <2> QED BY <2>1 DEF Pushed, WayOK
<1>5. todo \in Seq(SS) /\ todo # <<>>
  BY DEF LoopOK
<1>6. todo' \in Seq(SS) /\ (Len(todo) # 1 => todo' # <<>>)
  <2>1. todo' = Tail(todo)
    BY DEF Pushed
  <2>2. Tail(todo) \in Seq(SS) /\ Len(Tail(todo)) = Len(todo) - 1 /\ Len(todo) \in Nat
    BY <1>5
  <2>3. \A q \in Seq(SS) : q = <<>> => Len(q) = 0
    OBVIOUS
  <2>4. Len(todo) # 1 => Tail(todo) # <<>>
    <3> DEFINE t == Tail(todo)
    <3>1. t \in Seq(SS) /\ (Len(todo) # 1 => Len(t) # 0)
      BY <2>2
    <3> HIDE DEF t
    <3>2. t = <<>> => Len(t) = 0
      BY <2>3, <3>1
    <3> QED BY <3>1, <3>2 DEF t
  <2> QED BY <2>1, <2>2, <2>4
<1>7. pc' = (IF Len(todo) = 1 THEN "restore" ELSE "push")
  BY DEF Pushed
<1> QED BY <1>1, <1>3, <1>4, <1>6, <1>7 DEF WayOK, LoopOK

LEMMA AddType ==
  ASSUME TypeOK, NEW q \in Sources, NEW l \in Lines, Add(q, l)
  PROVE  TypeOK'
<1>1. WayOK /\ LinkOK /\ LoopOK /\ RestOK
  BY TypeParts
<1> DEFINE new == [to |-> l.to, cmd |-> l.cmd, from |-> q]
<1> DEFINE L == [to : SS \cup {"all", "nobody"}, cmd : Commands, from : Sources]
<1>2. new \in L
  BY CommandsConstants DEF SS
<1>3. lines \in Seq(L) /\ lines' = Append(lines, new)
  BY <1>1 DEF WayOK, Add
<1> HIDE DEF L, new
<1>4. lines' \in Seq(L) /\ Len(lines') = Len(lines) + 1 /\ Len(lines) \in Nat
  BY <1>2, <1>3
<1>5. Ids \subseteq Ids' /\ Len(lines) + 1 \in Ids'
  BY <1>4 DEF Ids
<1>6. /\ queue \in [Sources -> Seq(Ids')] /\ unprocessed \in Seq(Ids')
      /\ pushed \in [SS -> Seq(Ids')] /\ kept \in SUBSET (Ids' \X SS)
      /\ executed \in [SS -> Seq(Ids')]
  <2>1. \A s : s \in Seq(Ids) => s \in Seq(Ids')
    BY <1>5, SeqGrows
  <2> QED BY <1>1, <1>5, <2>1 DEF WayOK
<1>7. batches \in [SS -> SUBSET [cmds : Seq(Ids'), awaited : BOOLEAN]]
  <2>1. [cmds : Seq(Ids), awaited : BOOLEAN] \subseteq [cmds : Seq(Ids'), awaited : BOOLEAN]
    BY <1>5, SeqGrows
  <2> QED BY <1>1, <2>1 DEF WayOK
<1>8. queue' \in [Sources -> Seq(Ids')]
  <2>1. Append(queue[q], Len(lines) + 1) \in Seq(Ids')
    BY <1>5, <1>6
  <2>2. queue' = [queue EXCEPT ![q] = Append(queue[q], Len(lines) + 1)]
    BY DEF Add
  <2> QED BY <1>6, <2>1, <2>2
<1>9. UNCHANGED <<receiver, answered, batches, sched, executed, faults, nfaults>>
  BY DEF Add
<1>10. WayOK'
  BY <1>4, <1>6, <1>7, <1>8, <1>9 DEF WayOK, receiver, L
<1>11. LinkOK' /\ LoopOK' /\ RestOK'
  BY <1>1, <1>9 DEF LinkOK, LoopOK, RestOK, receiver
<1> QED BY <1>10, <1>11, TypeParts

\* The first half of the receiver's loop.
LEMMA ReceiveType ==
  ASSUME TypeOK, RestoreConnections \/ GetObjects \/ Fetch \/ Resolve \/ Relaunch
  PROVE  TypeOK'
<1>1. WayOK /\ LinkOK /\ LoopOK /\ RestOK
  BY TypeParts
<1>2. 0 \in 0..(MaxAttempts - 1) /\ "arbiter" \in Peers
  BY CommandsConstants DEF Peers
<1>3. Ids' = Ids /\ lines' = lines
  BY DEF RestoreConnections, GetObjects, Fetch, Resolve, Relaunch, Ids
<1>4. queue["module"] \in Seq(Ids) /\ queue["arbiter"] \in Seq(Ids) /\ unprocessed \in Seq(Ids)
  BY <1>1 DEF WayOK, Sources
<1>5. <<>> \in Seq(Ids) /\ <<>> \in Seq(SS)
  OBVIOUS
<1>6. CASE RestoreConnections \/ Relaunch
  <2>1. LinkOK'
    BY <1>1, <1>2, <1>6 DEF RestoreConnections, Relaunch, LinkOK
  <2>2. WayOK' /\ LoopOK' /\ RestOK'
    BY <1>1, <1>3, <1>6 DEF RestoreConnections, Relaunch, WayOK, LoopOK, RestOK
  <2> QED BY <2>1, <2>2, TypeParts
<1>7. CASE GetObjects
  <2>1. unprocessed' \in Seq(Ids)
    BY <1>4, <1>7 DEF GetObjects
  <2>2. queue' \in [Sources -> Seq(Ids)]
    BY <1>1, <1>5, <1>7 DEF GetObjects, WayOK
  <2>3. WayOK' /\ LinkOK' /\ LoopOK' /\ RestOK'
    BY <1>1, <1>3, <1>7, <2>1, <2>2 DEF GetObjects, WayOK, LinkOK, LoopOK, RestOK
  <2> QED BY <2>3, TypeParts
<1>8. CASE Fetch
  <2>1. queue' \in [Sources -> Seq(Ids)]
    BY <1>1, <1>5, <1>8 DEF Fetch, TakeFromArbiter, WayOK
  <2>2. unprocessed' \in Seq(Ids)
    <3>1. unprocessed \o queue["arbiter"] \in Seq(Ids)
      BY <1>4
    <3> QED BY <1>4, <1>8, <3>1 DEF Fetch
  <2>3. LinkOK' /\ RestOK'
    <3>1. CASE Fault({"arbiter"}) /\ Fail("arbiter")
      BY <1>1, <1>2, <1>8, <3>1, LinkType, FaultType DEF Fetch
    <3>2. CASE Fail("arbiter") /\ UNCHANGED <<faults, nfaults>>
      BY <1>1, <1>2, <1>8, <3>2, LinkType DEF Fetch, RestOK
    <3>3. CASE UNCHANGED <<link, attempt, faults, nfaults>>
      BY <1>1, <1>8, <3>3 DEF Fetch, RestOK, LinkOK
    <3> QED BY <1>8, <3>1, <3>2, <3>3 DEF Fetch
  <2>4. WayOK' /\ LoopOK'
    BY <1>1, <1>3, <1>8, <2>1, <2>2 DEF Fetch, WayOK, LoopOK
  <2> QED BY <2>3, <2>4, TypeParts
<1>9. CASE Resolve
  <2>1. UNCHANGED <<lines, queue, link, attempt, answered, batches, sched, executed, nfaults>>
    BY <1>9 DEF Resolve
  <2>2. LinkOK' /\ RestOK'
    <3>1. faults' \in SUBSET (Peers \cup {"receiver"})
      BY <1>1, <1>9 DEF Resolve, RestOK
    <3> QED BY <1>1, <2>1, <3>1 DEF LinkOK, RestOK
  <2>3. unprocessed' \in Seq(Ids)
    <3>1. unprocessed # <<>> => Tail(unprocessed) \in Seq(Ids)
      BY <1>4
    <3> QED BY <1>4, <1>5, <1>9, <3>1 DEF Resolve
  <2>4. pushed' \in [SS -> Seq(Ids)]
    <3>1. CASE unprocessed = <<>>
      BY <1>1, <1>9, <3>1 DEF Resolve, WayOK
    <3>2. CASE unprocessed # <<>> /\ Deadly(Head(unprocessed))
      BY <1>5, <1>9, <3>2 DEF Resolve, SS
    <3>3. CASE unprocessed # <<>> /\ ~Deadly(Head(unprocessed))
      <4>1. pushed' = Route(Head(unprocessed))
        BY <1>9, <3>3 DEF Resolve
      <4>2. Head(unprocessed) \in Ids
        BY <1>4, <3>3
      <4>3. \A s \in SS : pushed[s] \in Seq(Ids) /\ Append(pushed[s], Head(unprocessed)) \in Seq(Ids)
        BY <1>1, <4>2 DEF WayOK
      <4> QED BY <4>1, <4>3 DEF Route, SS
    <3> QED BY <3>1, <3>2, <3>3
  <2>5. kept' \in SUBSET (Ids \X SS)
    BY <1>1, <1>9 DEF Resolve, WayOK
  <2>6. WayOK'
    BY <1>1, <1>3, <2>1, <2>3, <2>4, <2>5 DEF WayOK
  <2>7. LoopOK'
    <3>1. Schedulers \in Seq(SS)
      BY CommandsConstants DEF SS
    <3> QED BY <1>1, <1>5, <1>9, <2>1, <3>1 DEF Resolve, LoopOK
  <2> QED BY <2>2, <2>6, <2>7, TypeParts
<1> QED BY <1>6, <1>7, <1>8, <1>9

\* The loop over the links.
LEMMA PushType ==
  ASSUME TypeOK, Push \/ Answered \/ TimeOut \/ Broken
  PROVE  TypeOK'
<1>1. WayOK /\ LinkOK /\ LoopOK /\ RestOK
  BY TypeParts
<1>2. UNCHANGED <<lines, queue, unprocessed, sched, executed>> /\ Ids' = Ids
  BY DEF Push, Answered, TimeOut, Broken, Ids
<1>3. pc \in {"push", "wait"}
  BY DEF Push, Answered, TimeOut, Broken
<1>4. PICK s \in SS : s = Head(todo)
  BY <1>1, <1>3 DEF LoopOK
<1>5. s \in Peers
  BY DEF Peers, SS
<1>6. CASE Push
  <2>1. UNCHANGED <<answered, nfaults>>
    BY <1>6 DEF Push
  <2>2. LinkOK'
    <3>1. Fail(s) \/ SetDead(s) \/ UNCHANGED <<link, attempt>>
      BY <1>4, <1>6 DEF Push
    <3>2. CASE UNCHANGED <<link, attempt>>
      BY <1>1, <3>2 DEF LinkOK
    <3> QED BY <1>1, <1>5, <3>1, <3>2, LinkType
  <2>3. RestOK'
    <3>1. faults' = faults \/ faults' = faults \cup {s}
      BY <1>4, <1>6 DEF Push
    <3> QED BY <1>1, <1>2, <1>5, <2>1, <3>1 DEF RestOK
  <2>4. CASE UNCHANGED batches
    <3>1. Pushed(s, TRUE) \/ Pushed(s, FALSE) \/ batches' = [batches EXCEPT ![s] = batches[s] \cup {[cmds |-> pushed[s], awaited |-> TRUE]}]
      BY <1>4, <1>6 DEF Push
    <3>2. CASE Pushed(s, TRUE) \/ Pushed(s, FALSE)
      <4>1. WayOK' /\ LoopOK'
        BY <1>1, <1>2, <1>3, <2>1, <2>4, <3>2, PushedType DEF WayOK, LoopOK
      <4> QED BY <2>2, <2>3, <4>1, TypeParts
    <3>3. CASE ~(Pushed(s, TRUE) \/ Pushed(s, FALSE))
      <4>1. pc' = "wait" /\ UNCHANGED <<pushed, kept, todo>>
        BY <1>4, <1>6, <3>3 DEF Push
      <4>2. WayOK' /\ LoopOK'
        BY <1>1, <1>2, <1>3, <2>1, <2>4, <4>1 DEF WayOK, LoopOK
      <4> QED BY <2>2, <2>3, <4>2, TypeParts
    <3> QED BY <3>2, <3>3
  <2>5. CASE ~UNCHANGED batches
    <3>1. /\ batches' = [batches EXCEPT ![s] = batches[s] \cup {[cmds |-> pushed[s], awaited |-> TRUE]}]
          /\ pc' = "wait" /\ UNCHANGED <<pushed, kept, todo>>
      BY <1>4, <1>6, <2>5 DEF Push
    <3>2. [cmds |-> pushed[s], awaited |-> TRUE] \in [cmds : Seq(Ids), awaited : BOOLEAN]
      BY <1>1 DEF WayOK
    <3>3. batches' \in [SS -> SUBSET [cmds : Seq(Ids), awaited : BOOLEAN]]
      BY <1>1, <3>1, <3>2 DEF WayOK
    <3>4. WayOK' /\ LoopOK'
      BY <1>1, <1>2, <1>3, <2>1, <3>1, <3>3 DEF WayOK, LoopOK
    <3> QED BY <2>2, <2>3, <3>4, TypeParts
  <2> QED BY <2>4, <2>5
<1>7. CASE Answered
  <2>1. /\ Pushed(s, TRUE) /\ answered' \in BOOLEAN
        /\ UNCHANGED <<link, attempt, batches, faults, nfaults>>
    BY <1>4, <1>7 DEF Answered
  <2>2. WayOK' /\ LoopOK'
    BY <1>1, <1>2, <1>3, <2>1, PushedType DEF WayOK
  <2>3. LinkOK' /\ RestOK'
    BY <1>1, <1>2, <2>1 DEF LinkOK, RestOK
  <2> QED BY <2>2, <2>3, TypeParts
<1>8. CASE TimeOut
  <2>1. /\ Pushed(s, FALSE) /\ answered' \in BOOLEAN /\ Fault({s}) /\ Fail(s)
        /\ batches' = [batches EXCEPT ![s] = {[b EXCEPT !.awaited = FALSE] : b \in batches[s]}]
    BY <1>4, <1>8 DEF TimeOut
  <2>2. batches' \in [SS -> SUBSET [cmds : Seq(Ids), awaited : BOOLEAN]]
    <3> DEFINE R == [cmds : Seq(Ids), awaited : BOOLEAN]
    <3>1. \A b \in R : [b EXCEPT !.awaited = FALSE] \in R
      OBVIOUS
    <3>2. batches \in [SS -> SUBSET R]
      BY <1>1 DEF WayOK
    <3> HIDE DEF R
    <3>3. batches' \in [SS -> SUBSET R]
      BY <2>1, <3>1, <3>2
    <3> QED BY <3>3 DEF R
  <2>3. WayOK' /\ LoopOK'
    BY <1>1, <1>2, <1>3, <2>1, <2>2, PushedType
  <2>4. LinkOK' /\ RestOK'
    <3>1. {s} \in SUBSET Peers
      BY <1>5
    <3> QED BY <1>1, <1>2, <1>5, <2>1, <3>1, LinkType, FaultType
  <2> QED BY <2>3, <2>4, TypeParts
<1>9. CASE Broken
  <2>1. Pushed(s, FALSE) /\ SetDead(s) /\ UNCHANGED <<answered, batches, faults, nfaults>>
    BY <1>4, <1>9 DEF Broken
  <2>2. WayOK' /\ LoopOK'
    BY <1>1, <1>2, <1>3, <2>1, PushedType DEF WayOK, LoopOK
  <2>3. LinkOK' /\ RestOK'
    BY <1>1, <1>2, <1>5, <2>1, LinkType DEF RestOK
  <2> QED BY <2>2, <2>3, TypeParts
<1> QED BY <1>6, <1>7, <1>8, <1>9

\* The schedulers.
LEMMA SchedulerType ==
  ASSUME TypeOK, NEW s \in SS,
         (\E b \in batches[s] : RunBatch(s, b)) \/ Crash(s) \/ Restart(s) \/ SetupNewConf(s)
  PROVE  TypeOK'
<1>1. WayOK /\ LinkOK /\ LoopOK /\ RestOK
  BY TypeParts
<1>2. UNCHANGED <<lines, queue, receiver>> /\ Ids' = Ids
  BY DEF RunBatch, Crash, Restart, SetupNewConf, Ids
<1>3. LinkOK' /\ s \in Peers
  BY <1>1, <1>2 DEF LinkOK, receiver, Peers, SS
<1>4. CASE \E b \in batches[s] : RunBatch(s, b)
  <2>1. PICK b \in batches[s] : RunBatch(s, b)
    BY <1>4
  <2>2. b \in [cmds : Seq(Ids), awaited : BOOLEAN]
    BY <1>1 DEF WayOK
  <2>3. /\ batches' = [batches EXCEPT ![s] = batches[s] \ {b}] /\ answered' = (answered \/ b.awaited)
        /\ executed' = [executed EXCEPT ![s] = executed[s] \o Ran(b.cmds)] \/ UNCHANGED executed
        /\ faults' \in {faults, faults \cup {s}} /\ UNCHANGED <<sched, nfaults>>
    BY <2>1 DEF RunBatch
  <2>4. executed[s] \o Ran(b.cmds) \in Seq(Ids)
    <3>1. executed[s] \in Seq(Ids) /\ Ran(b.cmds) \in Seq(Ids)
      BY <1>1, <2>2, RanList DEF WayOK
    <3> QED BY <3>1
  <2>5. WayOK'
    BY <1>1, <1>2, <2>3, <2>4 DEF WayOK, receiver
  <2>6. answered' \in BOOLEAN
    BY <2>3
  <2>7. LoopOK' /\ RestOK'
    BY <1>1, <1>2, <1>3, <2>3, <2>6 DEF LoopOK, RestOK, receiver
  <2> QED BY <1>3, <2>5, <2>7, TypeParts
<1>5. CASE Crash(s)
  <2>1. WayOK' /\ LoopOK'
    BY <1>1, <1>2, <1>5 DEF Crash, WayOK, LoopOK, receiver
  <2>2. RestOK'
    BY <1>1, <1>3, <1>5, CommandsConstants DEF Crash, Fault, RestOK
  <2> QED BY <1>3, <2>1, <2>2, TypeParts
<1>6. CASE Restart(s) \/ SetupNewConf(s)
  <2>1. WayOK' /\ LoopOK' /\ RestOK'
    BY <1>1, <1>2, <1>6 DEF Restart, SetupNewConf, WayOK, LoopOK, RestOK, receiver
  <2> QED BY <1>3, <2>1, TypeParts
<1> QED BY <1>4, <1>5, <1>6

LEMMA StepType == TypeOK /\ [Next]_vars => TypeOK'
<1> SUFFICES ASSUME TypeOK, [Next]_vars PROVE TypeOK'
  OBVIOUS
<1>1. CASE UNCHANGED vars
  BY <1>1 DEF TypeOK, vars, receiver, Ids
<1>2. CASE Next
  BY <1>2, AddType, ReceiveType, PushType, SchedulerType DEF Next, Turn, SS
<1> QED BY <1>1, <1>2

LEMMA InitType == Init => TypeOK
<1> SUFFICES ASSUME Init PROVE TypeOK
  OBVIOUS
<1>1. \A S : <<>> \in Seq(S)
  OBVIOUS
<1>2. WayOK
  BY <1>1 DEF Init, WayOK, SS
<1>3. 0 \in 0..(MaxAttempts - 1) /\ 0 \in 0..MaxFaults
  BY CommandsConstants
<1>4. LinkOK
  BY <1>3 DEF Init, LinkOK
<1>5. answered \in BOOLEAN
  BY Zenon DEF Init
<1>6. LoopOK /\ RestOK
  BY <1>1, <1>3, <1>5 DEF Init, LoopOK, RestOK, SS
<1> QED BY <1>2, <1>4, <1>6, TypeParts

\* Type correctness: only numbers of commands that were sent travel, and the loop over
\* the links always has a link to visit.
THEOREM TypeCorrect == Spec => []TypeOK
BY InitType, StepType, PTL DEF Spec

-----------------------------------------------------------------------------
(* The way of the commands *)

LEMMA SameOrder ==
  ASSUME UNCHANGED lines
  PROVE  Before' = Before /\ Ids' = Ids /\ \A i : For(i)' = For(i)
BY DEF Before, Ids, For

\* Less to order keeps the order.
LEMMA PrecedeLess ==
  ASSUME NEW A, NEW B, NEW R, Precede(A, B, R), NEW C, C \subseteq A, NEW D, D \subseteq B
  PROVE  Precede(C, D, R)
BY DEF Precede

\* What only takes commands off the lists keeps the order.
LEMMA ChainFrame ==
  ASSUME Chain, UNCHANGED lines,
         \A q \in Sources : queue'[q] = queue[q] \/ queue'[q] = <<>>,
         unprocessed' = unprocessed \/ unprocessed' = <<>>,
         \A s \in SS : /\ pushed'[s] = pushed[s] \/ pushed'[s] = <<>>
                       /\ Sent(s)' \subseteq Sent(s) /\ Waiting(s)' \subseteq Waiting(s)
  PROVE  Chain'
<1>1. Before' = Before /\ \A i : For(i)' = For(i)
  BY SameOrder
<1>2. Unrouted' \subseteq Unrouted /\ Queued' \subseteq Queued
  BY EmptyList DEF Unrouted, Queued
<1>3. \A s \in SS : ToSet(pushed[s])' \subseteq ToSet(pushed[s])
  BY EmptyList
<1>4. Sourced'
  <2> SUFFICES ASSUME NEW q \in Sources
               PROVE  /\ Ordered(queue'[q], Before)
                      /\ \A i \in ToSet(queue'[q]) : lines[i].from = q
    BY <1>1 DEF Sourced
  <2> QED BY EmptyList DEF Chain, Sourced
<1>5. Received'
  <2>1. Ordered(unprocessed', Before)
    BY EmptyList DEF Chain, Received
  <2>2. Precede(Unrouted', Queued', Before)
    BY <1>2, PrecedeLess DEF Chain, Received
  <2> QED BY <1>1, <2>1, <2>2 DEF Received
<1>6. Routed'
  <2> SUFFICES ASSUME NEW s \in SS
               PROVE  /\ Ordered(pushed'[s], Before)
                      /\ Precede(ToSet(pushed'[s]), Unrouted' \cup Queued', Before)
    BY <1>1 DEF Routed
  <2>1. Ordered(pushed'[s], Before)
    BY EmptyList DEF Chain, Routed
  <2>2. Unrouted' \cup Queued' \subseteq Unrouted \cup Queued
    BY <1>2
  <2> QED BY <1>3, <2>1, <2>2, PrecedeLess DEF Chain, Routed
<1>7. Left'
  <2> SUFFICES ASSUME NEW s \in SS
               PROVE  Precede(Sent(s)', Waiting(s)' \cup Unrouted' \cup Queued', Before)
    BY <1>1 DEF Left
  <2>1. Waiting(s)' \cup Unrouted' \cup Queued' \subseteq Waiting(s) \cup Unrouted \cup Queued
    BY <1>2
  <2>2. Precede(Sent(s), Waiting(s) \cup Unrouted \cup Queued, Before)
    BY DEF Chain, Left
  <2> QED BY <2>1, <2>2, PrecedeLess
<1>8. Addressed'
  BY <1>1, <1>3 DEF Chain, Addressed
<1> QED BY <1>4, <1>5, <1>6, <1>7, <1>8 DEF Chain

\* What was sent to a scheduler and waits for it, when neither changes.
LEMMA WayFrame ==
  ASSUME UNCHANGED <<executed, batches, pushed>>, pc # "wait", pc' # "wait", NEW s
  PROVE  Sent(s)' = Sent(s) /\ Waiting(s)' = Waiting(s)
BY DEF Sent, Waiting

\* A command that is sent comes last.
LEMMA AddChain ==
  ASSUME TypeOK, Chain, NEW q \in Sources, NEW l \in Lines, Add(q, l)
  PROVE  Chain' /\ Before \subseteq Before'
<1> DEFINE n == Len(lines) + 1
<1>1. WayOK
  BY TypeParts
<1>2. /\ lines' = Append(lines, [to |-> l.to, cmd |-> l.cmd, from |-> q])
      /\ queue' = [queue EXCEPT ![q] = Append(queue[q], n)]
      /\ UNCHANGED <<unprocessed, pushed, pc, todo, batches, executed>>
  BY DEF Add, receiver
<1>3. /\ Len(lines) \in Nat /\ Ids' = Ids \cup {n} /\ n \notin Ids /\ lines'[n].from = q
      /\ \A i \in Ids : lines'[i] = lines[i] /\ i < n
  BY <1>1, <1>2 DEF WayOK, Ids
<1> HIDE DEF n
<1>4. Before \subseteq Before' /\ \A i \in Ids : <<i, n>> \in Before'
  BY <1>3 DEF Before
<1>5. ASSUME NEW A, NEW B, Precede(A, B, Before) PROVE Precede(A, B, Before')
  BY <1>4, <1>5 DEF Precede
<1>6. ASSUME NEW A, A \subseteq Ids PROVE Precede(A, {n}, Before')
  BY <1>4, <1>6 DEF Precede
<1>7. ASSUME NEW s, Ordered(s, Before) PROVE Ordered(s, Before')
  BY <1>4, <1>7 DEF Ordered
<1>8. /\ \A r \in Sources : queue[r] \in Seq(Ids) /\ ToSet(queue[r]) \subseteq Ids
      /\ Unrouted \subseteq Ids
      /\ \A s \in SS : ToSet(pushed[s]) \subseteq Ids /\ Sent(s) \subseteq Ids
  <2>1. \A r \in Sources : queue[r] \in Seq(Ids)
    BY <1>1 DEF WayOK
  <2>2. unprocessed \in Seq(Ids)
    BY <1>1 DEF WayOK
  <2>3. \A s \in SS : pushed[s] \in Seq(Ids) /\ executed[s] \in Seq(Ids)
    BY <1>1 DEF WayOK
  <2>4. \A s \in SS : \A b \in batches[s] : b.cmds \in Seq(Ids)
    BY <1>1 DEF WayOK
  <2>5. \A s \in SS : \A b \in batches[s] : ToSet(b.cmds) \subseteq Ids
    BY <2>4, ListType
  <2> QED BY <2>1, <2>2, <2>3, <2>5, ListType DEF Unrouted, Sent
<1>9. /\ \A r \in Sources \ {q} : queue'[r] = queue[r]
      /\ ToSet(queue'[q]) = ToSet(queue[q]) \cup {n} /\ Ordered(queue'[q], Before')
  <2>1. queue[q] \in Seq(Ids') /\ n \in Ids'
    BY <1>3, <1>8, SeqGrows
  <2>2. queue'[q] = Append(queue[q], n)
    BY <1>1, <1>2 DEF WayOK
  <2>3. \A r \in Sources \ {q} : queue'[r] = queue[r]
    BY <1>1, <1>2 DEF WayOK
  <2>4. ToSet(queue'[q]) = ToSet(queue[q]) \cup {n}
    BY <2>1, <2>2, AppendSet
  <2>5. Ordered(queue[q], Before') /\ \A x \in ToSet(queue[q]) : <<x, n>> \in Before'
    BY <1>4, <1>7, <1>8 DEF Chain, Sourced
  <2>6. Ordered(queue'[q], Before')
    BY <2>1, <2>2, <2>5, AppendOrdered
  <2> QED BY <2>3, <2>4, <2>6
<1>10. Queued' = Queued \cup {n}
  BY <1>9 DEF Queued
<1>11. Sourced'
  <2> SUFFICES ASSUME NEW r \in Sources
               PROVE  Ordered(queue'[r], Before') /\ \A i \in ToSet(queue'[r]) : lines'[i].from = r
    BY DEF Sourced
  <2>1. Ordered(queue[r], Before') /\ \A i \in ToSet(queue[r]) : lines'[i].from = r
    BY <1>3, <1>7, <1>8 DEF Chain, Sourced
  <2>2. CASE r = q
    BY <1>3, <1>9, <2>1, <2>2
  <2>3. CASE r # q
    BY <1>9, <2>1, <2>3
  <2> QED BY <2>2, <2>3
<1>12. ASSUME NEW A, A \subseteq Ids, NEW B, Precede(A, B \cup Queued, Before)
       PROVE  Precede(A, B \cup Queued', Before')
  BY <1>5, <1>6, <1>10, <1>12 DEF Precede
<1>13. Received'
  <2>1. Precede(Unrouted, {} \cup Queued, Before)
    BY DEF Chain, Received
  <2>2. Precede(Unrouted, {} \cup Queued', Before')
    BY <1>8, <1>12, <2>1
  <2>3. Ordered(unprocessed', Before') /\ Unrouted' = Unrouted
    BY <1>2, <1>7 DEF Chain, Received, Unrouted
  <2> QED BY <2>2, <2>3 DEF Received
<1>14. Routed'
  <2> SUFFICES ASSUME NEW s \in SS
               PROVE  /\ Ordered(pushed[s], Before')
                      /\ Precede(ToSet(pushed[s]), Unrouted \cup Queued', Before')
    BY <1>2 DEF Routed, Unrouted
  <2> QED BY <1>7, <1>8, <1>12 DEF Chain, Routed
<1>15. Left'
  <2> SUFFICES ASSUME NEW s \in SS
               PROVE  Precede(Sent(s), (Waiting(s) \cup Unrouted) \cup Queued', Before')
    BY <1>2 DEF Left, Unrouted, Sent, Waiting
  <2> QED BY <1>8, <1>12 DEF Chain, Left
<1>16. Addressed'
  <2>1. \A i \in Ids : For(i)' = For(i)
    BY <1>3 DEF For
  <2>2. \A s \in SS : Sent(s)' = Sent(s) /\ pushed'[s] = pushed[s]
    BY <1>2 DEF Sent
  <2> QED BY <1>8, <2>1, <2>2 DEF Chain, Addressed
<1> QED BY <1>4, <1>11, <1>13, <1>14, <1>15, <1>16 DEF Chain

\* Taking the commands of a source to the receiver.
LEMMA TakeChain ==
  ASSUME TypeOK, Chain, NEW q \in Sources,
         unprocessed' = unprocessed \o queue[q], queue' = [queue EXCEPT ![q] = <<>>],
         UNCHANGED <<lines, pushed, batches, executed>>, pc # "wait", pc' # "wait"
  PROVE  Chain'
<1>1. /\ unprocessed \in Seq(Ids) /\ queue \in [Sources -> Seq(Ids)]
  BY TypeParts DEF WayOK
<1>2. Before' = Before /\ \A i : For(i)' = For(i)
  BY SameOrder
<1> DEFINE taken == queue[q]
<1>3. taken \in Seq(Ids)
  BY <1>1
<1>4. queue'[q] = <<>> /\ \A r \in Sources \ {q} : queue'[r] = queue[r]
  BY <1>1
<1>5. Ordered(taken, Before) /\ \A i \in ToSet(taken) : lines[i].from = q
  BY DEF Chain, Sourced
<1>6. ToSet(taken) \subseteq Queued /\ ToSet(taken) \subseteq Ids
  BY <1>3, ListType DEF Queued
<1>7. Queued' \subseteq Queued /\ \A i \in Queued' : lines[i].from # q /\ i \in Ids
  <2>1. \A r \in Sources \ {q} : \A i \in ToSet(queue[r]) : lines[i].from = r /\ i \in Ids
    <3>1. \A r \in Sources : queue[r] \in Seq(Ids)
      BY <1>1
    <3> QED BY <3>1, ListType DEF Chain, Sourced
  <2> QED BY <1>4, <2>1, EmptyList DEF Queued
<1> HIDE DEF taken
<1>8. /\ Unrouted' = Unrouted \cup ToSet(taken)
      /\ Ordered(unprocessed, Before) /\ Precede(Unrouted, Queued, Before)
      /\ Ordered(unprocessed, Before) /\ Ordered(taken, Before)
           /\ Precede(ToSet(unprocessed), ToSet(taken), Before) => Ordered(unprocessed', Before)
  <2>1. unprocessed' = unprocessed \o taken
    BY DEF taken
  <2> QED BY <1>1, <1>3, <2>1, ConcatList DEF Unrouted, Chain, Received
<1>9. Precede(Unrouted, ToSet(taken), Before)
  BY <1>6, <1>8, PrecedeLess
<1>10. Precede(ToSet(taken), Queued', Before)
  <2> SUFFICES ASSUME NEW i \in ToSet(taken), NEW j \in Queued' PROVE <<i, j>> \in Before
    BY DEF Precede
  <2>1. i \in Ids /\ j \in Ids /\ lines[i].from # lines[j].from
    BY <1>5, <1>6, <1>7
  <2> QED BY <2>1 DEF Before
<1>11. Received'
  <2>1. Ordered(unprocessed', Before)
    BY <1>5, <1>8, <1>9 DEF Unrouted
  <2>2. Precede(Unrouted', Queued', Before)
    BY <1>7, <1>8, <1>10 DEF Precede
  <2> QED BY <1>2, <2>1, <2>2 DEF Received
<1>12. Sourced'
  <2> SUFFICES ASSUME NEW r \in Sources
               PROVE  /\ Ordered(queue'[r], Before)
                      /\ \A i \in ToSet(queue'[r]) : lines[i].from = r
    BY <1>2 DEF Sourced
  <2> QED BY <1>4, EmptyList DEF Chain, Sourced
<1>13. Unrouted' \cup Queued' \subseteq Unrouted \cup Queued
  BY <1>6, <1>7, <1>8
<1>14. \A s \in SS : Sent(s)' = Sent(s) /\ Waiting(s)' = Waiting(s)
  BY WayFrame
<1>15. Routed'
  <2> SUFFICES ASSUME NEW s \in SS
               PROVE  /\ Ordered(pushed[s], Before)
                      /\ Precede(ToSet(pushed[s]), Unrouted' \cup Queued', Before)
    BY <1>2 DEF Routed
  <2> QED BY <1>13, PrecedeLess DEF Chain, Routed
<1>16. Left'
  <2> SUFFICES ASSUME NEW s \in SS
               PROVE  Precede(Sent(s), Waiting(s) \cup Unrouted' \cup Queued', Before)
    BY <1>2, <1>14 DEF Left
  <2>1. Waiting(s) \cup Unrouted' \cup Queued' \subseteq Waiting(s) \cup Unrouted \cup Queued
    BY <1>13
  <2>2. Precede(Sent(s), Waiting(s) \cup Unrouted \cup Queued, Before)
    BY DEF Chain, Left
  <2> QED BY <2>1, <2>2, PrecedeLess
<1>17. Addressed'
  BY <1>2, <1>14 DEF Chain, Addressed
<1> QED BY <1>11, <1>12, <1>15, <1>16, <1>17 DEF Chain

\* Queueing the next command for the schedulers it is for.
LEMMA RouteChain ==
  ASSUME TypeOK, Chain, unprocessed # <<>>, pushed' = Route(Head(unprocessed)),
         unprocessed' = Tail(unprocessed), UNCHANGED <<lines, queue, batches, executed>>,
         pc # "wait", pc' # "wait"
  PROVE  Chain'
<1>1. unprocessed \in Seq(Ids) /\ pushed \in [SS -> Seq(Ids)]
  BY TypeParts DEF WayOK
<1>2. Before' = Before /\ \A i : For(i)' = For(i)
  BY SameOrder
<1>3. PICK n : n = Head(unprocessed)
  OBVIOUS
<1>4. /\ n \in Ids /\ n \in Unrouted /\ Unrouted' \subseteq Unrouted
      /\ Ordered(unprocessed', Before) /\ Precede({n}, Unrouted', Before)
  BY <1>1, <1>3, TailList DEF Unrouted, Chain, Received
<1>5. Queued' = Queued
  BY DEF Queued
<1>6. \A s \in SS : s \notin For(n) => pushed'[s] = pushed[s]
  BY <1>3 DEF Route, SS
<1>7. ASSUME NEW s \in SS, s \in For(n)
      PROVE  ToSet(pushed'[s]) = ToSet(pushed[s]) \cup {n} /\ Ordered(pushed'[s], Before)
  <2>1. pushed'[s] = Append(pushed[s], n)
    BY <1>3, <1>7 DEF Route, SS
  <2>2. pushed[s] \in Seq(Ids) /\ n \in Ids
    BY <1>1, <1>4
  <2>3. ToSet(pushed'[s]) = ToSet(pushed[s]) \cup {n}
    <3>1. PICK u : u = pushed[s]
      OBVIOUS
    <3>2. ToSet(Append(u, n)) = ToSet(u) \cup {n}
      BY <2>2, <3>1, AppendSet
    <3> QED BY <2>1, <3>1, <3>2
  <2>4. Ordered(pushed[s], Before) /\ \A x \in ToSet(pushed[s]) : <<x, n>> \in Before
    BY <1>4 DEF Chain, Routed, Precede
  <2>5. Ordered(pushed'[s], Before)
    BY <2>1, <2>2, <2>4, AppendOrdered
  <2> QED BY <2>3, <2>5
<1>8. \A s \in SS : ToSet(pushed'[s]) \subseteq ToSet(pushed[s]) \cup {n}
  BY <1>6, <1>7
<1>9. Received'
  <2>1. Precede(Unrouted', Queued, Before)
    BY <1>4, PrecedeLess DEF Chain, Received
  <2> QED BY <1>2, <1>4, <1>5, <2>1 DEF Received
<1>10. Precede({n}, Unrouted' \cup Queued, Before)
  BY <1>4 DEF Precede, Chain, Received
<1>11. Routed'
  <2> SUFFICES ASSUME NEW s \in SS
               PROVE  /\ Ordered(pushed'[s], Before)
                      /\ Precede(ToSet(pushed'[s]), Unrouted' \cup Queued, Before)
    BY <1>2, <1>5 DEF Routed
  <2>1. Ordered(pushed[s], Before) /\ Precede(ToSet(pushed[s]), Unrouted \cup Queued, Before)
    BY DEF Chain, Routed
  <2>2. Ordered(pushed'[s], Before)
    BY <1>6, <1>7, <2>1
  <2>3. Precede(ToSet(pushed'[s]), Unrouted' \cup Queued, Before)
    BY <1>4, <1>8, <1>10, <2>1 DEF Precede
  <2> QED BY <2>2, <2>3
<1>12. \A s \in SS : Sent(s)' = Sent(s) /\ Waiting(s)' \subseteq Waiting(s) \cup {n}
  BY <1>8 DEF Sent, Waiting
<1>13. Left'
  <2> SUFFICES ASSUME NEW s \in SS
               PROVE  Precede(Sent(s), Waiting(s)' \cup Unrouted' \cup Queued, Before)
    BY <1>2, <1>5, <1>12 DEF Left
  <2>1. Precede(Sent(s), Waiting(s) \cup Unrouted \cup Queued, Before)
    BY DEF Chain, Left
  <2> QED BY <1>4, <1>12, <2>1, PrecedeLess DEF Precede
<1>14. Addressed'
  <2> SUFFICES ASSUME NEW s \in SS, NEW i \in Sent(s) \cup ToSet(pushed'[s])
               PROVE  s \in For(i)
    BY <1>2, <1>12 DEF Addressed
  <2>1. CASE i \in Sent(s) \cup ToSet(pushed[s])
    BY <2>1 DEF Chain, Addressed
  <2>2. CASE i \notin Sent(s) \cup ToSet(pushed[s])
    BY <1>6, <1>8, <2>2
  <2> QED BY <2>1, <2>2
<1>15. Sourced'
  BY <1>2 DEF Chain, Sourced
<1> QED BY <1>9, <1>11, <1>13, <1>14, <1>15 DEF Chain

\* The request with the commands for a scheduler.
LEMMA SendChain ==
  ASSUME TypeOK, Chain, NEW s \in SS, s = Head(todo), pc = "push", pc' = "wait",
         batches' = [batches EXCEPT ![s] = @ \cup {[cmds |-> pushed[s], awaited |-> TRUE]}],
         UNCHANGED <<lines, queue, unprocessed, pushed, todo, executed>>
  PROVE  Chain'
<1>1. batches \in [SS -> SUBSET [cmds : Seq(Ids), awaited : BOOLEAN]]
  BY TypeParts DEF WayOK
<1>2. Before' = Before /\ \A i : For(i)' = For(i)
  BY SameOrder
<1>3. Unrouted' = Unrouted /\ Queued' = Queued
  BY DEF Unrouted, Queued
<1>4. Sent(s)' \subseteq Sent(s) \cup ToSet(pushed[s]) /\ Waiting(s)' = {}
  BY <1>1 DEF Sent, Waiting
<1>5. \A t \in SS \ {s} : Sent(t)' = Sent(t) /\ Waiting(t)' = Waiting(t)
  BY <1>1 DEF Sent, Waiting
<1>6. Sourced' /\ Received' /\ Routed'
  BY <1>2, <1>3 DEF Chain, Sourced, Received, Routed
<1>7. Left'
  <2> SUFFICES ASSUME NEW t \in SS
               PROVE  Precede(Sent(t)', Waiting(t)' \cup Unrouted \cup Queued, Before)
    BY <1>2, <1>3 DEF Left
  <2>1. CASE t = s
    BY <1>4, <2>1 DEF Chain, Left, Routed, Precede
  <2>2. CASE t # s
    BY <1>5, <2>2 DEF Chain, Left
  <2> QED BY <2>1, <2>2
<1>8. Addressed'
  BY <1>2, <1>4, <1>5 DEF Chain, Addressed
<1> QED BY <1>6, <1>7, <1>8 DEF Chain

\* The end of a turn of the loop over the links: nothing waits for that scheduler.
LEMMA PushedFrame ==
  ASSUME TypeOK, NEW s \in SS, s = Head(todo), NEW sent \in BOOLEAN, Pushed(s, sent)
  PROVE  /\ pc' # "wait" /\ pushed'[s] = <<>>
         /\ \A t \in SS : (pushed'[t] = pushed[t] \/ pushed'[t] = <<>>)
                          /\ Waiting(t)' \subseteq Waiting(t)
<1>1. pushed \in [SS -> Seq(Ids)]
  BY TypeParts DEF WayOK
<1>2. pc' # "wait" /\ pushed' = [pushed EXCEPT ![s] = <<>>]
  BY DEF Pushed
<1>3. pushed'[s] = <<>> /\ \A t \in SS \ {s} : pushed'[t] = pushed[t]
  BY <1>1, <1>2
<1> QED BY <1>2, <1>3, EmptyList DEF Waiting

\* A request of a scheduler is run.
LEMMA RunSent ==
  ASSUME TypeOK, NEW s \in SS, NEW b \in batches[s],
         batches' = [batches EXCEPT ![s] = batches[s] \ {b}],
         executed' = [executed EXCEPT ![s] = executed[s] \o Ran(b.cmds)] \/ UNCHANGED executed
  PROVE  \A t \in SS : Sent(t)' \subseteq Sent(t)
<1>1. /\ executed \in [SS -> Seq(Ids)]
      /\ batches \in [SS -> SUBSET [cmds : Seq(Ids), awaited : BOOLEAN]]
  BY TypeParts DEF WayOK
<1>2. b.cmds \in Seq(Ids) /\ executed[s] \in Seq(Ids)
  BY <1>1
<1>3. Ran(b.cmds) \in Seq(Ids) /\ ToSet(Ran(b.cmds)) \subseteq ToSet(b.cmds)
  BY <1>2, RanList
<1>4. ToSet(executed[s] \o Ran(b.cmds)) = ToSet(executed[s]) \cup ToSet(Ran(b.cmds))
  BY <1>2, <1>3, ConcatList
<1>5. ToSet(executed'[s]) \subseteq ToSet(executed[s]) \cup ToSet(b.cmds)
  <2>1. CASE executed' = [executed EXCEPT ![s] = executed[s] \o Ran(b.cmds)]
    BY <1>1, <1>3, <1>4, <2>1
  <2>2. CASE UNCHANGED executed
    BY <2>2
  <2> QED BY <2>1, <2>2
<1>6. \A t \in SS \ {s} : executed'[t] = executed[t] /\ batches'[t] = batches[t]
  BY <1>1
<1>7. batches'[s] = batches[s] \ {b}
  BY <1>1
<1> QED BY <1>5, <1>6, <1>7 DEF Sent

\* Every step keeps the order of the places on the way.
LEMMA ChainStep ==
  ASSUME TypeOK, Chain, [Next]_vars
  PROVE  Chain'
<1>1. /\ queue \in [Sources -> Seq(Ids)]
      /\ batches \in [SS -> SUBSET [cmds : Seq(Ids), awaited : BOOLEAN]]
  BY TypeParts DEF WayOK
<1>2. ASSUME UNCHANGED <<lines, unprocessed, queue, pushed, executed, batches>>,
             UNCHANGED <<pc, todo>> \/ (pc # "wait" /\ pc' # "wait")
      PROVE  Chain'
  <2>1. \A s \in SS : Sent(s)' = Sent(s) /\ Waiting(s)' = Waiting(s)
    BY <1>2 DEF Sent, Waiting
  <2> QED BY <1>2, <2>1, ChainFrame
<1>3. ASSUME NEW q \in Sources, NEW l \in Lines, Add(q, l) PROVE Chain'
  BY <1>3, AddChain
<1>4. CASE RestoreConnections \/ Relaunch
  BY <1>2, <1>4 DEF RestoreConnections, Relaunch
<1>5. CASE GetObjects
  <2>1. "module" \in Sources
    BY DEF Sources
  <2> QED BY <1>5, <2>1, TakeChain DEF GetObjects
<1>6. CASE Fetch
  <2>1. "arbiter" \in Sources /\ pc # "wait" /\ pc' # "wait"
        /\ UNCHANGED <<lines, pushed, batches, executed>>
    BY <1>6 DEF Fetch, Sources
  <2>2. CASE unprocessed' = unprocessed \o queue["arbiter"] /\ TakeFromArbiter
    BY <2>1, <2>2, TakeChain DEF TakeFromArbiter
  <2>3. CASE unprocessed' = unprocessed /\ (TakeFromArbiter \/ UNCHANGED queue)
    <3>1. \A q \in Sources : queue'[q] = queue[q] \/ queue'[q] = <<>>
      BY <1>1, <2>3 DEF TakeFromArbiter
    <3>2. \A s \in SS : Sent(s)' = Sent(s) /\ Waiting(s)' = Waiting(s)
      BY <2>1, WayFrame
    <3> QED BY <2>1, <2>3, <3>1, <3>2, ChainFrame
  <2> QED BY <1>6, <2>2, <2>3 DEF Fetch
<1>7. CASE Resolve
  <2>1. UNCHANGED <<lines, queue, batches, executed>> /\ pc # "wait" /\ pc' # "wait"
    BY <1>7 DEF Resolve
  <2>2. CASE unprocessed = <<>>
    BY <1>2, <1>7, <2>1, <2>2 DEF Resolve
  <2>3. CASE unprocessed # <<>> /\ ~Deadly(Head(unprocessed))
    BY <1>7, <2>1, <2>3, RouteChain DEF Resolve
  <2>4. CASE unprocessed # <<>> /\ Deadly(Head(unprocessed))
    <3>1. unprocessed' = <<>> /\ \A s \in SS : pushed'[s] = <<>>
      BY <1>7, <2>4 DEF Resolve, SS
    <3>2. \A s \in SS : Sent(s)' = Sent(s) /\ Waiting(s)' = {}
      BY <2>1, <3>1, EmptyList DEF Sent, Waiting
    <3> QED BY <2>1, <3>1, <3>2, ChainFrame
  <2> QED BY <2>2, <2>3, <2>4
<1>8. CASE Push \/ Answered \/ TimeOut \/ Broken
  <2>1. UNCHANGED <<lines, queue, unprocessed, executed>> /\ pc \in {"push", "wait"}
    BY <1>8 DEF Push, Answered, TimeOut, Broken
  <2>2. PICK s \in SS : s = Head(todo)
    BY <2>1, TypeParts DEF LoopOK
  <2>3. ASSUME NEW sent \in BOOLEAN, Pushed(s, sent), \A t \in SS : Sent(t)' \subseteq Sent(t)
        PROVE  Chain'
    BY <2>1, <2>2, <2>3, PushedFrame, ChainFrame
  <2>4. UNCHANGED batches => \A t \in SS : Sent(t)' = Sent(t)
    BY <2>1 DEF Sent
  <2>5. CASE Answered \/ Broken
    BY <2>2, <2>3, <2>4, <2>5 DEF Answered, Broken
  <2>6. CASE TimeOut
    <3>1. /\ Pushed(s, FALSE)
          /\ batches' = [batches EXCEPT ![s] = {[b EXCEPT !.awaited = FALSE] : b \in batches[s]}]
      BY <2>2, <2>6 DEF TimeOut
    <3>2. batches'[s] = {[b EXCEPT !.awaited = FALSE] : b \in batches[s]}
          /\ \A t \in SS \ {s} : batches'[t] = batches[t]
      BY <1>1, <3>1
    <3>3. \A b \in batches[s] : [b EXCEPT !.awaited = FALSE].cmds = b.cmds
      BY <1>1
    <3>4. ASSUME NEW t \in SS, NEW c \in batches'[t]
          PROVE  \E b \in batches[t] : c.cmds = b.cmds
      <4>1. CASE t = s
        <5>1. PICK b \in batches[s] : c = [b EXCEPT !.awaited = FALSE]
          BY <3>2, <4>1
        <5> QED BY <3>3, <4>1, <5>1
      <4>2. CASE t # s
        BY <3>2, <4>2
      <4> QED BY <4>1, <4>2
    <3>5. \A t \in SS : Sent(t)' \subseteq Sent(t)
      BY <2>1, <3>4 DEF Sent
    <3> QED BY <2>3, <3>1, <3>5
  <2>7. CASE Push
    <3>1. CASE Pushed(s, TRUE) /\ UNCHANGED batches
      BY <2>3, <2>4, <3>1
    <3>2. CASE Pushed(s, FALSE) /\ UNCHANGED batches
      BY <2>3, <2>4, <3>2
    <3>3. CASE /\ batches' = [batches EXCEPT ![s] = @ \cup {[cmds |-> pushed[s], awaited |-> TRUE]}]
               /\ pc' = "wait" /\ UNCHANGED <<pushed, todo>>
      BY <2>1, <2>2, <2>7, <3>3, SendChain DEF Push
    <3> QED BY <2>2, <2>7, <3>1, <3>2, <3>3 DEF Push
  <2> QED BY <1>8, <2>5, <2>6, <2>7
<1>9. ASSUME NEW s \in SS, NEW b \in batches[s], RunBatch(s, b) PROVE Chain'
  <2>1. /\ batches' = [batches EXCEPT ![s] = batches[s] \ {b}]
        /\ executed' = [executed EXCEPT ![s] = executed[s] \o Ran(b.cmds)] \/ UNCHANGED executed
        /\ UNCHANGED <<lines, queue, unprocessed, pushed, pc, todo>>
    BY <1>9 DEF RunBatch, receiver
  <2>2. \A t \in SS : Sent(t)' \subseteq Sent(t)
    BY <2>1, RunSent
  <2>3. \A t \in SS : Waiting(t)' = Waiting(t)
    BY <2>1 DEF Waiting
  <2> QED BY <2>1, <2>2, <2>3, ChainFrame
<1>10. ASSUME NEW s \in SS, Crash(s) PROVE Chain'
  <2>1. batches' = [batches EXCEPT ![s] = {}]
        /\ UNCHANGED <<lines, queue, unprocessed, pushed, pc, todo, executed>>
    BY <1>10 DEF Crash, receiver
  <2>2. \A t \in SS : Sent(t)' \subseteq Sent(t)
    BY <1>1, <2>1 DEF Sent
  <2>3. \A t \in SS : Waiting(t)' = Waiting(t)
    BY <2>1 DEF Waiting
  <2> QED BY <2>1, <2>2, <2>3, ChainFrame
<1>11. ASSUME NEW s \in SS, Restart(s) \/ SetupNewConf(s) PROVE Chain'
  BY <1>2, <1>11 DEF Restart, SetupNewConf, receiver
<1>12. CASE UNCHANGED vars
  BY <1>2, <1>12 DEF vars, receiver
<1> QED
  BY <1>3, <1>4, <1>5, <1>6, <1>7, <1>8, <1>9, <1>10, <1>11, <1>12 DEF Next, Turn, SS

-----------------------------------------------------------------------------
(* Requests *)

\* Only the receiver's loop, a thread of a scheduler and a crash change the requests.
LEMMA BatchFrame ==
  ASSUME Next
  PROVE  \/ UNCHANGED <<batches, executed>>
         \/ Push \/ TimeOut
         \/ \E s \in SS : Crash(s) \/ \E b \in batches[s] : RunBatch(s, b)
<1>1. ASSUME NEW q \in Sources, NEW l \in Lines, Add(q, l) PROVE UNCHANGED <<batches, executed>>
  BY <1>1 DEF Add
<1>2. CASE Turn
  BY <1>2 DEF Turn, RestoreConnections, GetObjects, Fetch, Resolve, Answered, Broken, Relaunch
<1>3. ASSUME NEW s \in SS, Restart(s) \/ SetupNewConf(s) PROVE UNCHANGED <<batches, executed>>
  BY <1>3 DEF Restart, SetupNewConf
<1> QED BY <1>1, <1>2, <1>3 DEF Next, SS

\* The commands for a scheduler become a request that is waited for.
Sends(s) ==
  /\ s = Head(todo) /\ pc = "push" /\ pc' = "wait"
  /\ batches'[s] = batches[s] \cup {[cmds |-> pushed[s], awaited |-> TRUE]}
  /\ \A t \in SS \ {s} : batches'[t] = batches[t]
  /\ UNCHANGED <<lines, pushed, todo, executed, answered, faults>>

\* What Push does to the requests.
LEMMA PushBatch ==
  ASSUME TypeOK, Push
  PROVE  \/ UNCHANGED <<batches, executed>> /\ pc' # "wait"
         \/ \E s \in SS : Sends(s)
<1>1. batches \in [SS -> SUBSET [cmds : Seq(Ids), awaited : BOOLEAN]]
  BY TypeParts DEF WayOK
<1>2. PICK s \in SS : s = Head(todo)
  BY TypeParts DEF Push, LoopOK
<1>3. UNCHANGED <<lines, executed, answered>> /\ pc = "push"
  BY DEF Push
<1>4. CASE Pushed(s, TRUE) /\ UNCHANGED batches
  BY <1>3, <1>4 DEF Pushed
<1>5. CASE Pushed(s, FALSE) /\ UNCHANGED batches
  BY <1>3, <1>5 DEF Pushed
<1>6. CASE /\ batches' = [batches EXCEPT ![s] = @ \cup {[cmds |-> pushed[s], awaited |-> TRUE]}]
           /\ pc' = "wait" /\ UNCHANGED <<pushed, todo, faults>>
  <2>1. batches'[s] = batches[s] \cup {[cmds |-> pushed[s], awaited |-> TRUE]}
    BY <1>1, <1>6
  <2>2. \A t \in SS \ {s} : batches'[t] = batches[t]
    BY <1>1, <1>6
  <2> QED BY <1>2, <1>3, <1>6, <2>1, <2>2 DEF Sends
<1> QED BY <1>2, <1>4, <1>5, <1>6 DEF Push

\* The request the receiver waits for is the only one that is awaited.
LEMMA AwaitedStep ==
  ASSUME TypeOK, Awaited, [Next]_vars
  PROVE  Awaited'
<1>1. batches \in [SS -> SUBSET [cmds : Seq(Ids), awaited : BOOLEAN]]
  BY TypeParts DEF WayOK
<1>2. ASSUME UNCHANGED <<pc, todo, answered, pushed>>, \A s \in SS : batches'[s] \subseteq batches[s]
      PROVE  Awaited'
  BY <1>2 DEF Awaited
<1>3. ASSUME pc # "wait", pc' # "wait", UNCHANGED <<answered, batches>> PROVE Awaited'
  BY <1>3 DEF Awaited
<1>4. CASE UNCHANGED vars
  BY <1>2, <1>4 DEF vars, receiver
<1>5. ASSUME NEW q \in Sources, NEW l \in Lines, Add(q, l) PROVE Awaited'
  BY <1>2, <1>5 DEF Add, receiver
<1>6. CASE RestoreConnections \/ GetObjects \/ Fetch \/ Resolve \/ Relaunch
  BY <1>3, <1>6 DEF RestoreConnections, GetObjects, Fetch, Resolve, Relaunch
<1>7. ASSUME Push PROVE Awaited'
  <2>1. pc = "push" /\ answered' = answered
    BY <1>7 DEF Push
  <2>2. ~answered /\ \A s \in SS : \A b \in batches[s] : ~b.awaited
    BY <2>1 DEF Awaited
  <2>3. CASE UNCHANGED <<batches, executed>> /\ pc' # "wait"
    BY <1>3, <2>1, <2>3
  <2>4. CASE ~(UNCHANGED <<batches, executed>> /\ pc' # "wait")
    <3>1. PICK s \in SS : Sends(s)
      BY <1>7, <2>4, PushBatch
    <3>2. ASSUME NEW t \in SS, NEW b \in batches'[t], b.awaited
          PROVE  t = Head(todo) /\ b.cmds = pushed[t]
      <4>1. t = s /\ b = [cmds |-> pushed[s], awaited |-> TRUE]
        BY <2>2, <3>1, <3>2 DEF Sends
      <4> QED BY <3>1, <4>1 DEF Sends
    <3> QED BY <2>1, <2>2, <3>1, <3>2 DEF Awaited, Sends
  <2> QED BY <2>3, <2>4
<1>8. ASSUME Answered \/ Broken \/ TimeOut PROVE Awaited'
  <2>1. PICK s \in SS : s = Head(todo)
    <3>1. todo \in Seq(SS) /\ todo # <<>>
      BY <1>8, TypeParts DEF Answered, Broken, TimeOut, LoopOK
    <3> QED BY <3>1
  <2>2. pc = "wait" /\ pc' # "wait" /\ ~answered'
    BY <1>8 DEF Answered, Broken, TimeOut, Pushed
  <2>3. \A t \in SS : \A b \in batches'[t] : ~b.awaited
    <3>1. \A t \in SS \ {s} : \A b \in batches[t] : ~b.awaited
      BY <2>1 DEF Awaited
    <3>2. CASE Answered
      BY <2>1, <3>1, <3>2 DEF Answered, Awaited
    <3>3. CASE Broken
      BY <2>1, <3>1, <3>3 DEF Broken
    <3>4. CASE TimeOut
      <4>1. batches' = [batches EXCEPT ![s] = {[b EXCEPT !.awaited = FALSE] : b \in batches[s]}]
        BY <2>1, <3>4 DEF TimeOut
      <4>2. batches'[s] = {[b EXCEPT !.awaited = FALSE] : b \in batches[s]}
            /\ \A t \in SS \ {s} : batches'[t] = batches[t]
        BY <1>1, <4>1
      <4>3. \A b \in batches[s] : ~[b EXCEPT !.awaited = FALSE].awaited
        BY <1>1
      <4>4. \A b \in batches'[s] : ~b.awaited
        BY <4>2, <4>3
      <4> QED BY <3>1, <4>2, <4>4
    <3> QED BY <1>8, <3>2, <3>3, <3>4
  <2> QED BY <2>2, <2>3 DEF Awaited
<1>9. ASSUME NEW s \in SS, NEW b \in batches[s], RunBatch(s, b) PROVE Awaited'
  <2>1. /\ batches' = [batches EXCEPT ![s] = batches[s] \ {b}]
        /\ answered' = (answered \/ b.awaited)
        /\ UNCHANGED <<pushed, pc, todo>>
    BY <1>9 DEF RunBatch, receiver
  <2>2. batches'[s] = batches[s] \ {b} /\ \A t \in SS \ {s} : batches'[t] = batches[t]
    BY <1>1, <2>1
  <2>3. CASE ~b.awaited
    BY <2>1, <2>2, <2>3 DEF Awaited
  <2>4. CASE b.awaited
    <3>1. pc = "wait" /\ s = Head(todo) /\ b.cmds = pushed[s]
      BY <2>4 DEF Awaited
    <3>2. ASSUME NEW t \in SS, NEW c \in batches'[t], c.awaited PROVE FALSE
      <4>1. c \in batches[t] /\ t = s /\ c.cmds = b.cmds /\ c # b
        BY <2>2, <3>1, <3>2 DEF Awaited
      <4>2. c \in [cmds : Seq(Ids), awaited : BOOLEAN] /\ b \in [cmds : Seq(Ids), awaited : BOOLEAN]
        BY <1>1, <4>1
      <4>3. c.awaited = TRUE /\ b.awaited = TRUE
        BY <2>4, <3>2, <4>2
      <4> QED BY <4>1, <4>2, <4>3
    <3> QED BY <2>1, <3>1, <3>2 DEF Awaited
  <2> QED BY <2>3, <2>4
<1>10. ASSUME NEW s \in SS, Crash(s) PROVE Awaited'
  <2>1. \A t \in SS : batches'[t] \subseteq batches[t]
    BY <1>1, <1>10 DEF Crash
  <2> QED BY <1>2, <1>10, <2>1 DEF Crash, receiver
<1>11. ASSUME NEW s \in SS, Restart(s) \/ SetupNewConf(s) PROVE Awaited'
  BY <1>2, <1>11 DEF Restart, SetupNewConf, receiver
<1> QED
  BY <1>4, <1>5, <1>6, <1>7, <1>8, <1>9, <1>10, <1>11 DEF Next, Turn, SS

\* Commands in order are different ones.
LEMMA InOrderApart ==
  /\ \A i, j : <<i, j>> \in Before => i # j /\ i \in Nat /\ j \in Nat
  /\ Before \subseteq Distinct
<1>1. \A i, j : <<i, j>> \in Before => i # j /\ i \in Nat /\ j \in Nat
  BY DEF Before, Ids
<1>2. \A p \in Before : p = <<p[1], p[2]>>
  BY DEF Before
<1> QED BY <1>1, <1>2 DEF Distinct

LEMMA OrderedApart ==
  ASSUME NEW s \in Seq(Ids), Ordered(s, Before)
  PROVE  IsInjective(s)
<1>1. Ordered(s, Distinct)
  BY InOrderApart DEF Ordered
<1>2. s \in Seq(Nat)
  BY SeqGrows DEF Ids
<1> QED BY <1>1, <1>2, InjectiveList

\* What is in a request is its scheduler's and nobody else's.
LEMMA ApartStep ==
  ASSUME TypeOK, Chain, Apart, [Next]_vars
  PROVE  Apart'
<1>1. /\ batches \in [SS -> SUBSET [cmds : Seq(Ids), awaited : BOOLEAN]]
      /\ executed \in [SS -> Seq(Ids)] /\ pushed \in [SS -> Seq(Ids)]
  BY TypeParts DEF WayOK
<1>2. ASSUME UNCHANGED executed, \A s \in SS : batches'[s] \subseteq batches[s] PROVE Apart'
  BY <1>2 DEF Apart
<1>3. CASE UNCHANGED vars
  BY <1>2, <1>3 DEF vars
<1>4. CASE UNCHANGED <<batches, executed>>
  BY <1>2, <1>4
<1>5. ASSUME NEW s \in SS, Sends(s) PROVE Apart'
  <2> DEFINE new == [cmds |-> pushed[s], awaited |-> TRUE]
  <2>1. IsInjective(pushed[s])
    BY <1>1, OrderedApart DEF Chain, Routed
  <2>2. Precede(Sent(s), ToSet(pushed[s]), Before)
    BY <1>5 DEF Chain, Left, Precede, Waiting, Sends
  <2>3. Sent(s) \cap ToSet(pushed[s]) = {}
    BY <2>2, InOrderApart DEF Precede
  <2>4. new.cmds = pushed[s]
    OBVIOUS
  <2> HIDE DEF new
  <2>5. /\ batches'[s] = batches[s] \cup {new} /\ executed' = executed
        /\ \A t \in SS \ {s} : batches'[t] = batches[t]
    BY <1>5 DEF Sends, new
  <2>6. /\ ToSet(new.cmds) \cap ToSet(executed[s]) = {}
        /\ \A c \in batches[s] : ToSet(new.cmds) \cap ToSet(c.cmds) = {}
    BY <2>3, <2>4 DEF Sent
  <2> QED BY <2>1, <2>4, <2>5, <2>6 DEF Apart
<1>6. CASE TimeOut
  <2>1. PICK s \in SS : s = Head(todo)
    <3>1. todo \in Seq(SS) /\ todo # <<>>
      BY <1>6, TypeParts DEF TimeOut, LoopOK
    <3> QED BY <3>1
  <2>2. /\ batches' = [batches EXCEPT ![s] = {[b EXCEPT !.awaited = FALSE] : b \in batches[s]}]
        /\ executed' = executed
    BY <1>6, <2>1 DEF TimeOut
  <2>3. batches'[s] = {[b EXCEPT !.awaited = FALSE] : b \in batches[s]}
        /\ \A t \in SS \ {s} : batches'[t] = batches[t]
    BY <1>1, <2>2
  <2>4. \A b \in batches[s] : [b EXCEPT !.awaited = FALSE].cmds = b.cmds
    BY <1>1
  <2>5. \A b \in batches'[s] : \E c \in batches[s] : b = [c EXCEPT !.awaited = FALSE] /\ b.cmds = c.cmds
    BY <2>3, <2>4
  <2>6. ASSUME NEW b \in batches'[s]
        PROVE  /\ IsInjective(b.cmds) /\ ToSet(b.cmds) \cap ToSet(executed[s]) = {}
               /\ \A c \in batches'[s] : c = b \/ ToSet(b.cmds) \cap ToSet(c.cmds) = {}
    <3>1. PICK b0 \in batches[s] : b = [b0 EXCEPT !.awaited = FALSE] /\ b.cmds = b0.cmds
      BY <2>5
    <3>2. ASSUME NEW c \in batches'[s] PROVE c = b \/ ToSet(b.cmds) \cap ToSet(c.cmds) = {}
      <4>1. PICK c0 \in batches[s] : c = [c0 EXCEPT !.awaited = FALSE] /\ c.cmds = c0.cmds
        BY <2>5
      <4> QED BY <3>1, <4>1 DEF Apart
    <3> QED BY <3>1, <3>2 DEF Apart
  <2> QED BY <2>2, <2>3, <2>6, SMTT(30) DEF Apart
<1>7. ASSUME NEW s \in SS, Crash(s) PROVE Apart'
  <2>1. \A t \in SS : batches'[t] \subseteq batches[t]
    BY <1>1, <1>7 DEF Crash
  <2> QED BY <1>2, <1>7, <2>1 DEF Crash
<1>8. ASSUME NEW s \in SS, NEW b \in batches[s], RunBatch(s, b) PROVE Apart'
  <2>1. /\ batches' = [batches EXCEPT ![s] = batches[s] \ {b}]
        /\ executed' = [executed EXCEPT ![s] = executed[s] \o Ran(b.cmds)] \/ UNCHANGED executed
    BY <1>8 DEF RunBatch
  <2>2. batches'[s] = batches[s] \ {b} /\ \A t \in SS \ {s} : batches'[t] = batches[t]
    BY <1>1, <2>1
  <2>3. CASE UNCHANGED executed
    BY <1>2, <2>2, <2>3
  <2>4. CASE executed' = [executed EXCEPT ![s] = executed[s] \o Ran(b.cmds)]
    <3>1. executed[s] \in Seq(Ids) /\ b.cmds \in Seq(Ids)
      BY <1>1
    <3>2. /\ Ran(b.cmds) \in Seq(Ids) /\ ToSet(Ran(b.cmds)) \subseteq ToSet(b.cmds)
          /\ \A R : Ordered(b.cmds, R) => Ordered(Ran(b.cmds), R)
      BY <3>1, RanList
    <3>3. \A u \in Seq(Ids) : u \in Seq(Nat) /\ ToSet(u) \subseteq Nat
      BY ListType, SeqGrows DEF Ids
    <3>4. Ordered(executed[s], Distinct) /\ Ordered(Ran(b.cmds), Distinct)
      BY <3>1, <3>2, <3>3, InjectiveList DEF Apart
    <3>5. Precede(ToSet(executed[s]), ToSet(Ran(b.cmds)), Distinct)
      <4>1. ToSet(executed[s]) \cap ToSet(b.cmds) = {}
        BY DEF Apart
      <4> QED BY <3>1, <3>2, <3>3, <4>1 DEF Precede, Distinct
    <3>6. PICK e : e = executed[s] \o Ran(b.cmds)
      OBVIOUS
    <3>7. e \in Seq(Ids) /\ ToSet(e) = ToSet(executed[s]) \cup ToSet(Ran(b.cmds)) /\ Ordered(e, Distinct)
      BY <3>1, <3>2, <3>4, <3>5, <3>6, ConcatList
    <3>8. IsInjective(e)
      BY <3>3, <3>7, InjectiveList
    <3>9. executed'[s] = e /\ \A t \in SS \ {s} : executed'[t] = executed[t]
      BY <1>1, <2>4, <3>6
    <3>10. ASSUME NEW c \in batches'[s]
           PROVE  /\ IsInjective(c.cmds) /\ ToSet(c.cmds) \cap ToSet(e) = {}
                  /\ \A d \in batches'[s] : d = c \/ ToSet(c.cmds) \cap ToSet(d.cmds) = {}
      <4>1. c \in batches[s] /\ c # b
        BY <2>2
      <4>2. ToSet(c.cmds) \cap ToSet(b.cmds) = {} /\ ToSet(c.cmds) \cap ToSet(executed[s]) = {}
        BY <4>1 DEF Apart
      <4>3. ToSet(c.cmds) \cap ToSet(e) = {}
        BY <3>2, <3>7, <4>2
      <4> QED BY <2>2, <4>1, <4>3 DEF Apart
    <3> QED BY <2>2, <3>8, <3>9, <3>10 DEF Apart
  <2> QED BY <2>1, <2>3, <2>4
<1>9. CASE Push
  BY <1>4, <1>5, <1>9, PushBatch
<1> QED BY <1>3, <1>4, <1>6, <1>7, <1>8, <1>9, BatchFrame

\* The requests of a scheduler that did not fail.
LEMMA OnTimeStep ==
  ASSUME TypeOK, Chain, Awaited, OnTime, [Next]_vars
  PROVE  OnTime'
<1>1. /\ batches \in [SS -> SUBSET [cmds : Seq(Ids), awaited : BOOLEAN]]
      /\ executed \in [SS -> Seq(Ids)] /\ pushed \in [SS -> Seq(Ids)]
  BY TypeParts DEF WayOK
<1>2. faults \subseteq faults'
  BY DEF Next, Turn, Add, RestoreConnections, GetObjects, Fetch, Resolve, Push, Answered, Broken,
     Relaunch, TimeOut, RunBatch, Crash, Restart, SetupNewConf, Fault, vars
<1>3. ASSUME UNCHANGED <<lines, executed>>, \A s \in SS \ faults' : batches'[s] \subseteq batches[s]
      PROVE  OnTime'
  <2>1. Before' = Before
    BY <1>3, SameOrder
  <2> QED BY <1>2, <1>3, <2>1 DEF OnTime
<1>4. ASSUME NEW q \in Sources, NEW l \in Lines, Add(q, l), Chain' PROVE OnTime'
  <2>1. UNCHANGED <<executed, batches, faults>> /\ Before \subseteq Before'
    BY <1>4, AddChain DEF Add
  <2> QED BY <2>1 DEF OnTime, Ordered, Precede
<1>5. CASE UNCHANGED vars
  BY <1>3, <1>5 DEF vars
<1>6. CASE RestoreConnections \/ GetObjects \/ Fetch \/ Resolve \/ Answered \/ Broken \/ Relaunch
  BY <1>3, <1>6 DEF RestoreConnections, GetObjects, Fetch, Resolve, Answered, Broken, Relaunch
<1>7. ASSUME NEW s \in SS, Sends(s) PROVE OnTime'
  <2> DEFINE new == [cmds |-> pushed[s], awaited |-> TRUE]
  <2>1. Ordered(pushed[s], Before) /\ Precede(ToSet(executed[s]), ToSet(pushed[s]), Before)
    BY <1>7 DEF Chain, Left, Routed, Precede, Waiting, Sent, Sends
  <2>2. new.cmds = pushed[s] /\ new.awaited
    OBVIOUS
  <2> HIDE DEF new
  <2>3. /\ batches'[s] = batches[s] \cup {new} /\ executed' = executed /\ faults' = faults
        /\ \A t \in SS \ {s} : batches'[t] = batches[t]
    BY <1>7 DEF Sends, new
  <2>4. Before' = Before
    BY <1>7, SameOrder DEF Sends
  <2> QED BY <2>1, <2>2, <2>3, <2>4 DEF OnTime
<1>8. CASE Push
  <2>1. lines' = lines
    BY <1>8 DEF Push
  <2>2. CASE UNCHANGED <<batches, executed>>
    BY <1>3, <2>1, <2>2
  <2> QED BY <1>7, <1>8, <2>2, PushBatch
<1>9. CASE TimeOut
  <2>1. PICK s \in SS : s = Head(todo)
    <3>1. todo \in Seq(SS) /\ todo # <<>>
      BY <1>9, TypeParts DEF TimeOut, LoopOK
    <3> QED BY <3>1
  <2>2. /\ batches' = [batches EXCEPT ![s] = {[b EXCEPT !.awaited = FALSE] : b \in batches[s]}]
        /\ UNCHANGED <<executed, lines>> /\ faults' = faults \cup {s}
    BY <1>9, <2>1 DEF TimeOut, Fault
  <2>3. \A t \in SS \ {s} : batches'[t] = batches[t]
    BY <1>1, <2>2
  <2> QED BY <1>3, <2>2, <2>3
<1>10. ASSUME NEW s \in SS, Crash(s) \/ Restart(s) \/ SetupNewConf(s) PROVE OnTime'
  <2>1. \A t \in SS : batches'[t] \subseteq batches[t]
    BY <1>1, <1>10 DEF Crash, Restart, SetupNewConf
  <2> QED BY <1>3, <1>10, <2>1 DEF Crash, Restart, SetupNewConf
<1>11. ASSUME NEW s \in SS, NEW b \in batches[s], RunBatch(s, b) PROVE OnTime'
  <2>1. /\ batches' = [batches EXCEPT ![s] = batches[s] \ {b}] /\ lines' = lines
        /\ executed' = [executed EXCEPT ![s] = executed[s] \o Ran(b.cmds)] \/ UNCHANGED executed
    BY <1>11 DEF RunBatch
  <2>2. batches'[s] = batches[s] \ {b} /\ \A t \in SS \ {s} : batches'[t] = batches[t]
    BY <1>1, <2>1
  <2>3. CASE UNCHANGED executed
    BY <1>3, <2>1, <2>2, <2>3
  <2>4. CASE executed' = [executed EXCEPT ![s] = executed[s] \o Ran(b.cmds)]
    <3>1. executed[s] \in Seq(Ids) /\ b.cmds \in Seq(Ids)
      BY <1>1
    <3>2. /\ Ran(b.cmds) \in Seq(Ids) /\ ToSet(Ran(b.cmds)) \subseteq ToSet(b.cmds)
          /\ \A R : Ordered(b.cmds, R) => Ordered(Ran(b.cmds), R)
      BY <3>1, RanList
    <3>3. executed'[s] = executed[s] \o Ran(b.cmds) /\ \A t \in SS \ {s} : executed'[t] = executed[t]
      BY <1>1, <2>4
    <3>4. Before' = Before
      BY <2>1, SameOrder
    <3>5. ASSUME s \notin faults
          PROVE  Ordered(executed'[s], Before) /\ batches'[s] = {}
      <4>1. /\ Ordered(executed[s], Before) /\ Ordered(b.cmds, Before)
            /\ Precede(ToSet(executed[s]), ToSet(b.cmds), Before)
        BY <3>5 DEF OnTime
      <4>2. Ordered(Ran(b.cmds), Before) /\ Precede(ToSet(executed[s]), ToSet(Ran(b.cmds)), Before)
        BY <3>2, <4>1 DEF Precede
      <4>3. Ordered(executed[s] \o Ran(b.cmds), Before)
        BY <3>1, <3>2, <4>1, <4>2, ConcatList
      <4>4. ASSUME NEW c \in batches[s] PROVE c = b
        <5>1. c.awaited /\ b.awaited /\ c.cmds = pushed[s] /\ b.cmds = pushed[s]
          BY <3>5 DEF OnTime, Awaited
        <5>2. c \in [cmds : Seq(Ids), awaited : BOOLEAN] /\ b \in [cmds : Seq(Ids), awaited : BOOLEAN]
          BY <1>1
        <5>3. c.awaited = TRUE /\ b.awaited = TRUE
          BY <5>1, <5>2
        <5> QED BY <5>1, <5>2, <5>3
      <4> QED BY <2>2, <3>3, <4>3, <4>4
    <3> QED BY <1>2, <2>2, <3>3, <3>4, <3>5 DEF OnTime
  <2> QED BY <2>1, <2>3, <2>4
<1> QED
  BY <1>4, <1>5, <1>6, <1>8, <1>9, <1>10, <1>11, AddChain DEF Next, Turn, SS

-----------------------------------------------------------------------------
(* The theorems *)

\* The inductive invariant.
THEOREM Safety == Spec => []IInv
<1>1. Init => IInv
  <2> SUFFICES ASSUME Init PROVE IInv
    OBVIOUS
  <2>1. \A s \in SS : pushed[s] = <<>> /\ executed[s] = <<>> /\ batches[s] = {}
    BY DEF Init, SS
  <2>2. \A q \in Sources : queue[q] = <<>>
    BY DEF Init
  <2>3. unprocessed = <<>> /\ ~answered
    BY DEF Init
  <2>4. \A s \in SS : Sent(s) = {} /\ ToSet(pushed[s]) = {}
    BY <2>1, EmptyList DEF Sent
  <2>5. Unrouted = {} /\ Queued = {}
    BY <2>2, <2>3, EmptyList DEF Unrouted, Queued
  <2>6. Sourced /\ Received /\ Routed /\ Left /\ Addressed
    BY <2>1, <2>2, <2>3, <2>4, <2>5, EmptyList
    DEF Sourced, Received, Routed, Left, Addressed, Precede
  <2>7. Apart /\ Awaited /\ OnTime
    BY <2>1, <2>3, EmptyList DEF Apart, Awaited, OnTime, IsInjective
  <2> QED BY <2>6, <2>7, InitType DEF IInv, Chain
<1>2. IInv /\ [Next]_vars => IInv'
  BY StepType, ChainStep, ApartStep, AwaitedStep, OnTimeStep DEF IInv
<1> QED BY <1>1, <1>2, PTL DEF Spec

\* However many requests time out and schedulers crash, no scheduler runs a command twice,
\* nor one that is for another: the receiver never sends again what it kept.
THEOREM RunOnce == Spec => []AtMostOnce
<1>1. IInv => AtMostOnce
  <2> SUFFICES ASSUME IInv, NEW s \in ToSet(Schedulers)
               PROVE  IsInjective(executed[s]) /\ \A i \in ToSet(executed[s]) : s \in For(i)
    BY DEF AtMostOnce
  <2>1. s \in SS
    BY DEF SS
  <2>2. \A i \in Sent(s) : s \in For(i)
    BY <2>1 DEF IInv, Chain, Addressed
  <2> QED BY <2>1, <2>2 DEF IInv, Apart, Sent
<1> QED BY <1>1, Safety, PTL

\* A scheduler to which no request failed runs the commands of each source in the order
\* they were sent, whatever happens to the others.
THEOREM RunInOrder == Spec => []InOrder
<1>1. IInv => InOrder
  <2> SUFFICES ASSUME IInv, NEW s \in ToSet(Schedulers) \ faults,
                      NEW j \in DOMAIN executed[s], NEW k \in DOMAIN executed[s], j < k,
                      lines[executed[s][j]].from = lines[executed[s][k]].from
               PROVE  executed[s][j] < executed[s][k]
    BY DEF InOrder
  <2>1. <<executed[s][j], executed[s][k]>> \in Before
    BY DEF IInv, OnTime, Ordered, SS
  <2> QED BY <2>1 DEF Before
<1> QED BY <1>1, Safety, PTL
====
