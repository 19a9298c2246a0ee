------------------------- MODULE Notifications_proofs -------------------------
(***************************************************************************)
(* Proofs about Notifications, for every set of items, contacts, ways and  *)
(* escalations, and any number of commands and lost children.              *)
(***************************************************************************)
EXTENDS Notifications, FiniteSetTheorems, SequenceTheorems, WellFoundedInduction, TLAPS

-----------------------------------------------------------------------------
(* Numbers and lists *)

\* A set of natural numbers that has one has a smallest one.
LEMMA Least ==
  ASSUME NEW T \in SUBSET Nat, T # {}
  PROVE  \E x \in T : \A y \in T : x <= y
<1>1. PICK x \in T : \A y \in T : ~(<<y, x>> \in OpToRel(<, Nat))
  BY NatLessThanWellFounded, WFMin
<1>2. \A y \in T : x <= y
  <2> TAKE y \in T
  <2>1. ~(y < x)
    BY <1>1 DEF OpToRel
  <2> QED BY <2>1
<1> QED BY <1>2

LEMMA LeastChosen ==
  ASSUME NEW T \in SUBSET Nat, T # {}
  PROVE  (CHOOSE x \in T : \A y \in T : x <= y) \in T
BY Least

Stays(m) == m.type \in Downtimes \cup {"ACKNOWLEDGEMENT"}

\* The list that Preserved builds, up to the n-th master of ms.
Keeps(g, ms, n) ==
  g = [k \in 0..n |-> IF k = 0 THEN <<>>
                      ELSE IF Stays(ms[k]) THEN Append(g[k - 1], ms[k]) ELSE g[k - 1]]

LEMMA KeepsExists ==
  ASSUME NEW S, NEW ms \in Seq(S), NEW n \in Nat
  PROVE  \E g : Keeps(g, ms, n)
<1> DEFINE T == {k \in Nat : ~\E g : Keeps(g, ms, k)}
<1>1. 0 \notin T
  <2> DEFINE g == [k \in 0..0 |-> <<>>]
  <2>1. Keeps(g, ms, 0)
    BY DEF Keeps
  <2> QED BY <2>1
<1>2. ASSUME NEW x \in T PROVE x - 1 \in T
  <2>0. x \in Nat \ {0} /\ x - 1 \in Nat
    BY <1>1, <1>2
  <2> SUFFICES ASSUME NEW g, Keeps(g, ms, x - 1) PROVE FALSE
    BY <2>0
  <2> DEFINE last == IF Stays(ms[x]) THEN Append(g[x - 1], ms[x]) ELSE g[x - 1]
             h == [k \in 0..x |-> IF k = x THEN last ELSE g[k]]
  <2>1. \A k \in 0..x : k # x => k \in 0..(x - 1)
    BY <2>0
  <2>2. \A k \in 0..(x - 1) : h[k] = g[k] /\ (k # 0 => k - 1 \in 0..(x - 1))
    BY <2>0
  <2>3. h[x] = IF Stays(ms[x]) THEN Append(h[x - 1], ms[x]) ELSE h[x - 1]
    BY <2>0, <2>2
  <2> HIDE DEF last
  <2>4. \A k \in 0..x : h[k] = IF k = 0 THEN <<>>
                               ELSE IF Stays(ms[k]) THEN Append(h[k - 1], ms[k]) ELSE h[k - 1]
    <3> TAKE k \in 0..x
    <3>1. CASE k = x
      BY <2>0, <2>3, <3>1
    <3>2. CASE k # x
      <4>1. k \in 0..(x - 1) /\ h[k] = g[k] /\ (k # 0 => h[k - 1] = g[k - 1])
        BY <2>1, <2>2, <3>2
      <4>2. g[k] = IF k = 0 THEN <<>>
                   ELSE IF Stays(ms[k]) THEN Append(g[k - 1], ms[k]) ELSE g[k - 1]
        BY <4>1 DEF Keeps
      <4> QED BY <4>1, <4>2
    <3> QED BY <3>1, <3>2
  <2>5. h = [k \in 0..x |-> h[k]]
    OBVIOUS
  <2> HIDE DEF h
  <2>6. Keeps(h, ms, x)
    BY <2>4, <2>5 DEF Keeps
  <2> QED BY <2>0, <2>6
<1>3. T = {}
  <2> SUFFICES ASSUME T # {} PROVE FALSE
    OBVIOUS
  <2>1. T \in SUBSET Nat
    OBVIOUS
  <2> HIDE DEF T
  <2>2. PICK x \in T : \A y \in T : x <= y
    BY <2>1, Least
  <2>3. x - 1 \in T /\ x \in Nat
    BY <1>2, <2>1
  <2> QED BY <2>2, <2>3
<1> QED BY <1>3

\* What remove_in_progress_notifications leaves of a list.
LEMMA PreservedList ==
  ASSUME NEW S, NEW ms \in Seq(S)
  PROVE  /\ Preserved(ms) \in Seq(S)
         /\ \A k \in DOMAIN Preserved(ms) : Stays(Preserved(ms)[k])
<1> DEFINE kept == CHOOSE g : Keeps(g, ms, Len(ms))
           K == {m \in S : Stays(m)}
           T == {k \in Nat : k <= Len(ms) /\ kept[k] \notin Seq(K)}
<1>0. Len(ms) \in Nat /\ \A k \in 1..Len(ms) : ms[k] \in S
  OBVIOUS
<1>1. Preserved(ms) = kept[Len(ms)]
  BY DEF Preserved, Keeps, Stays
<1>2. Keeps(kept, ms, Len(ms))
  BY <1>0, KeepsExists
<1>3. /\ kept[0] = <<>>
      /\ \A k \in 1..Len(ms) : kept[k] = IF Stays(ms[k]) THEN Append(kept[k - 1], ms[k])
                                         ELSE kept[k - 1]
  <2> HIDE DEF kept
  <2>1. \A k \in 0..Len(ms) : kept[k] = IF k = 0 THEN <<>>
                                        ELSE IF Stays(ms[k]) THEN Append(kept[k - 1], ms[k])
                                        ELSE kept[k - 1]
    BY <1>2 DEF Keeps
  <2>2. 0 \in 0..Len(ms) /\ \A k \in 1..Len(ms) : k \in 0..Len(ms) /\ k # 0
    BY <1>0
  <2> QED BY <2>1, <2>2
<1> HIDE DEF kept
<1>4. T = {}
  <2> SUFFICES ASSUME T # {} PROVE FALSE
    OBVIOUS
  <2>1. PICK x \in T : \A y \in T : x <= y
    <3> HIDE DEF T
    <3>1. T \in SUBSET Nat
      BY DEF T
    <3> QED BY <3>1, Least
  <2>0. x \in Nat /\ x <= Len(ms) /\ kept[x] \notin Seq(K)
    BY <2>1
  <2>a. x # 0
    <3>1. <<>> \in Seq(K)
      BY EmptySeq
    <3> QED BY <1>3, <2>0, <3>1
  <2>2. x \in 1..Len(ms) /\ x - 1 \in Nat /\ x - 1 <= Len(ms) /\ ~(x <= x - 1)
    BY <1>0, <2>0, <2>a
  <2>3. kept[x - 1] \in Seq(K)
    BY <2>1, <2>2
  <2>4. Stays(ms[x]) => ms[x] \in K
    BY <1>0, <2>2
  <2> HIDE DEF K
  <2>5. kept[x] \in Seq(K)
    <3>1. CASE Stays(ms[x])
      <4>1. Append(kept[x - 1], ms[x]) \in Seq(K)
        BY <2>3, <2>4, <3>1
      <4> QED BY <1>3, <2>2, <3>1, <4>1
    <3>2. CASE ~Stays(ms[x])
      BY <1>3, <2>2, <2>3, <3>2
    <3> QED BY <3>1, <3>2
  <2> QED BY <2>0, <2>5
<1>5. kept[Len(ms)] \in Seq(K)
  BY <1>0, <1>4
<1>6. \A t \in Seq(K) : t \in Seq(S) /\ \A k \in DOMAIN t : Stays(t[k])
  OBVIOUS
<1> QED BY <1>1, <1>5, <1>6

-----------------------------------------------------------------------------
(* Times *)

LEMMA Modulo ==
  ASSUME NEW C \in Nat \ {0}, NEW x \in Int, NEW p \in 0..C - 1
  PROVE  \E k \in 0..C - 1 : (x + k) % C = p
<1> DEFINE q == x \div C
           r == x % C
           k == IF r <= p THEN p - r ELSE p - r + C
           d == IF r <= p THEN q ELSE q + 1
<1>1. q \in Int /\ r \in 0..C - 1 /\ x = C * q + r
  OBVIOUS
<1>2. k \in 0..C - 1 /\ d \in Int
  BY <1>1
<1>3. C * (q + 1) = C * q + C
  BY <1>1
<1>4. x + k = C * d + p
  BY <1>1, <1>3
<1>5. (C * d + p) % C = p
  <2> HIDE DEF d
  <2> DEFINE y == C * d + p
             a == y \div C
             b == y % C
             e == d - a
  <2>1. y \in Int /\ p \in Int
    BY <1>2
  <2>2. a \in Int /\ b \in 0..C - 1 /\ y = C * a + b
    <3> HIDE DEF y
    <3> QED BY <2>1
  <2> HIDE DEF a, b
  <2>3. C * e = C * d - C * a
    BY <1>2, <2>2
  <2>4. C * e = b - p
    BY <1>2, <2>1, <2>2, <2>3
  <2>5. e \in Int
    BY <1>2, <2>2
  <2> HIDE DEF e
  <2>6. ASSUME e >= 1 PROVE FALSE
    <3>1. C * e >= C
      BY <2>5, <2>6
    <3> QED BY <2>1, <2>2, <2>4, <3>1
  <2>7. ASSUME e <= -1 PROVE FALSE
    <3>1. C * (-e) >= C /\ C * (-e) = -(C * e)
      BY <2>5, <2>7
    <3> QED BY <2>1, <2>2, <2>4, <3>1
  <2>8. e = 0
    BY <2>5, <2>6, <2>7
  <2>9. C * e = 0
    BY <2>8
  <2>10. b = p
    BY <2>1, <2>2, <2>4, <2>9
  <2> QED BY <2>10 DEF b
<1> QED BY <1>2, <1>4, <1>5

\* The phase p comes round again within a cycle.
LEMMA NextValidTime ==
  ASSUME NEW period \in (SUBSET Phases) \ {{}}, NEW x \in Phases, NEW t \in Int
  PROVE  GetNextValidTime(period, x, t) \in Int
<1> DEFINE T == {k \in Nat : IsTimeValid(period, x, t + k)}
<1>1. Cycle \in Nat \ {0} /\ x \in Int
  BY RuleConstants DEF Phases
<1>2. PICK p \in Phases : p \in period
  <2>1. period # {} /\ period \subseteq Phases
    OBVIOUS
  <2> QED BY <2>1
<1>3. PICK k \in 0..Cycle - 1 : ((x + t) + k) % Cycle = p
  <2>1. x + t \in Int /\ p \in 0..Cycle - 1
    BY <1>1, <1>2 DEF Phases
  <2> QED BY <1>1, <2>1, Modulo
<1>4. k \in T
  <2>1. (x + t) + k = x + (t + k) /\ k \in Nat
    BY <1>1
  <2> QED BY <1>2, <1>3, <2>1 DEF IsTimeValid
<1>5. PICK n \in T : \A y \in T : n <= y
  <2>1. T \in SUBSET Nat /\ T # {}
    BY <1>4
  <2> HIDE DEF T
  <2> QED BY <2>1, Least
<1>6. n \in Nat /\ n <= k /\ t + n \in t..t + Cycle
  BY <1>1, <1>3, <1>4, <1>5
<1>7. IsTimeValid(period, x, t + n)
  BY <1>5
<1>8. ASSUME NEW j \in t..(t + n) - 1 PROVE ~IsTimeValid(period, x, j)
  <2>1. j - t \in Nat /\ t + (j - t) = j /\ ~(n <= j - t)
    BY <1>6
  <2> QED BY <1>5, <2>1
<1>9. \E z \in t..t + Cycle : /\ IsTimeValid(period, x, z)
                              /\ \A j \in t..z - 1 : ~IsTimeValid(period, x, j)
  BY <1>6, <1>7, <1>8
<1>10. GetNextValidTime(period, x, t) \in t..t + Cycle
  <2> DEFINE V(z) == /\ IsTimeValid(period, x, z)
                     /\ \A j \in t..z - 1 : ~IsTimeValid(period, x, j)
  <2>1. \E z \in t..t + Cycle : V(z)
    BY <1>9
  <2>2. GetNextValidTime(period, x, t) = CHOOSE z \in t..t + Cycle : V(z)
    BY DEF GetNextValidTime
  <2> HIDE DEF V
  <2> QED BY <2>1, <2>2
<1> QED BY <1>1, <1>10

\* The age of the last time an item was not OK.
LEMMA LastTime ==
  ASSUME NEW i \in Items
  PROVE  /\ LastTimeNonOk(i) \in -1..MaxAge
         /\ \A s \in Statuses : i.seen[s] <= LastTimeNonOk(i)
<1> DEFINE T == {MaxAge - i.seen[s] : s \in Statuses}
<1>1. /\ MaxAge \in Nat /\ "OK" \in Statuses
      /\ \A s \in Statuses : i.seen[s] \in -1..MaxAge
  BY NotificationConstants DEF Items
<1>2. T \in SUBSET Nat /\ T # {}
  BY <1>1
<1>3. PICK x \in T : \A y \in T : x <= y
  <2> HIDE DEF T
  <2> QED BY <1>2, Least
<1>4. PICK u \in Statuses : x = MaxAge - i.seen[u]
  BY <1>3
<1>5. ASSUME NEW s \in Statuses PROVE i.seen[s] <= i.seen[u]
  <2>1. MaxAge - i.seen[s] \in T
    OBVIOUS
  <2>2. x <= MaxAge - i.seen[s]
    BY <1>3, <2>1
  <2> QED BY <1>1, <1>4, <2>2
<1>6. \E a \in -1..MaxAge : /\ \E s \in Statuses : i.seen[s] = a
                            /\ \A s \in Statuses : i.seen[s] <= a
  BY <1>1, <1>5
<1> QED BY <1>6 DEF LastTimeNonOk

LEMMA NextNotificationTime ==
  ASSUME NEW m \in Masters, NEW state, NEW interval \in Nat, NEW x \in Phases
  PROVE  GetNextNotificationTime(m, state, interval, x) \in Int
<1> DEFINE shorter == { e.interval : e \in Eligible(state, m, x) } \cap 0..interval - 1
           int == IF shorter = {} THEN interval
                  ELSE CHOOSE y \in shorter : \A z \in shorter : y <= z
           std == IF m.wait + int < 0 THEN int ELSE m.wait + int
           early == { t \in UNION { EarlyStart(e, state, m.age, std, x) :
                                      e \in Escalations \ m.started } : 0 < t /\ t < std }
<1>1. m.wait \in Int /\ m.age \in Int
  BY NotificationConstants DEF Masters
<1>2. int \in Int
  <2>1. CASE shorter = {}
    BY <2>1
  <2>2. CASE shorter # {}
    <3>1. shorter \in SUBSET Nat
      OBVIOUS
    <3> HIDE DEF shorter
    <3>2. (CHOOSE y \in shorter : \A z \in shorter : y <= z) \in shorter
      BY <2>2, <3>1, LeastChosen
    <3>3. int \in shorter
      BY <2>2, <3>2, Zenon
    <3>4. int \in Nat
      BY <3>1, <3>3, Zenon
    <3> HIDE DEF int
    <3> QED BY <3>4
  <2> QED BY <2>1, <2>2
<1> HIDE DEF int
<1>3. std \in Int
  BY <1>1, <1>2
<1> HIDE DEF std
<1>4. \A e \in Escalations : EarlyStart(e, state, m.age, std, x) \subseteq Int
  BY <1>1, RuleConstants DEF EarlyStart
<1>5. early \in SUBSET Nat
  BY <1>3, <1>4
<1>6. GetNextNotificationTime(m, state, interval, x)
        = IF early = {} THEN std ELSE CHOOSE t \in early : \A u \in early : t <= u
  BY DEF GetNextNotificationTime, early, std, int
<1> HIDE DEF early
<1>7. early # {} => (CHOOSE t \in early : \A u \in early : t <= u) \in early
  BY <1>5, LeastChosen
<1>8. CASE early = {}
  BY <1>3, <1>6, <1>8, Zenon
<1>9. CASE early # {}
  <2>1. GetNextNotificationTime(m, state, interval, x) \in early
    BY <1>6, <1>7, <1>9, Zenon
  <2>2. GetNextNotificationTime(m, state, interval, x) \in Nat
    BY <1>5, <2>1, Zenon
  <2> QED BY <2>2
<1> QED BY <1>8, <1>9

\* A number is compared with the threshold: the outcome is a Boolean.
LEMMA Booleans ==
  \A changes, threshold : Over(changes, threshold) \in BOOLEAN
BY DEF Over

-----------------------------------------------------------------------------
(* What the operators of an item do to it *)

Configured == conf \in Confs /\ phase \in Phases

Problems(i) == {k \in DOMAIN i.masters : i.masters[k].type = "PROBLEM"}
AtMostOne(i) == \A j, k \in Problems(i) : j = k

\* What the creation of notifications leaves alone.
Same(i, r) == /\ r.state = i.state /\ r.last = i.last
              /\ r.kind = i.kind /\ r.lastKind = i.lastKind
              /\ r.attempt = i.attempt /\ r.notified = i.notified

\* Every PROBLEM master of r is one of i.
Fewer(i, r) == \A k \in Problems(r) : k \in Problems(i) /\ r.masters[k] = i.masters[k]

LEMMA ConfType ==
  ASSUME Configured
  PROVE  /\ conf.interval \in Nat /\ conf.delay \in Nat /\ conf.max \in Nat \ {0}
         /\ conf.period \in (SUBSET Phases) \ {{}} /\ conf.contacts \subseteq Contacts
BY NotificationConstants DEF Configured

LEMMA Bounds == MaxNumber \in Nat /\ MaxAge \in Nat /\ CheckInterval \in Nat
BY NotificationConstants

LEMMA CappedBound == ASSUME NEW n \in Nat PROVE Capped(n) \in 0..MaxNumber
BY Bounds DEF Capped

LEMMA ItemType ==
  ASSUME NEW i \in Items, NEW n \in 0..MaxNumber, NEW ms \in Seq(Masters)
  PROVE  [i EXCEPT !.number = n, !.masters = ms] \in Items
BY DEF Items

LEMMA WishedTime ==
  ASSUME Configured, NEW i \in Items, NEW type
  PROVE  Wished(i, type) \in Int
<1>1. LastTimeNonOk(i) \in Int
  BY LastTime, Bounds
<1> QED BY <1>1, ConfType DEF Wished

\* create_notifications adds one master, which waits in item.actions, or nothing.
LEMMA Creates ==
  ASSUME Configured, NEW i \in Items, NEW type \in Types, ~Dropped(i, type)
  PROVE  LET r == CreateNotifications(i, type)
             n == IF type = "RECOVERY" THEN 0 ELSE i.number
         IN \E m \in Masters : /\ m.type = type /\ m.at = "item"
                               /\ r = [i EXCEPT !.number = n, !.masters = Append(@, m)]
<1> DEFINE number == IF type = "RECOVERY" THEN 0 ELSE i.number
           nb == IF type = "PROBLEM" THEN Capped(number + 1) ELSE number
           wait == GetNextValidTime(conf.period, phase, Wished(i, type))
           m == [type |-> type, nb |-> nb, wait |-> wait,
                 age |-> 0, started |-> {}, at |-> "item"]
<1>1. number \in 0..MaxNumber
  BY Bounds DEF Items
<1>2. nb \in 0..MaxNumber
  BY <1>1, Bounds, CappedBound
<1>3. wait \in Int
  BY ConfType, WishedTime, NextValidTime DEF Configured
<1> HIDE DEF nb, wait
<1>4. m \in Masters
  BY <1>2, <1>3, Bounds DEF Masters
<1>5. CreateNotifications(i, type)
        = [i EXCEPT !.number = number, !.masters = Append(@, m)]
  BY DEF CreateNotifications, nb, wait
<1> QED BY <1>4, <1>5

LEMMA CreateType ==
  ASSUME Configured, NEW i \in Items, NEW type \in Types
  PROVE  LET r == CreateNotifications(i, type)
         IN /\ r \in Items /\ Same(i, r)
            /\ type # "RECOVERY" => r.number = i.number
            /\ ~Dropped(i, type) /\ type = "RECOVERY" => r.number = 0
            /\ r.number \in {i.number, 0}
<1> DEFINE r == CreateNotifications(i, type)
           n == IF type = "RECOVERY" THEN 0 ELSE i.number
<1>1. CASE Dropped(i, type)
  <2>1. r = i
    BY <1>1 DEF CreateNotifications
  <2> QED BY <1>1, <2>1 DEF Same
<1>2. CASE ~Dropped(i, type)
  <2>1. PICK m \in Masters : /\ m.type = type /\ m.at = "item"
                             /\ r = [i EXCEPT !.number = n, !.masters = Append(@, m)]
    BY <1>2, Creates
  <2>2. n \in 0..MaxNumber /\ Append(i.masters, m) \in Seq(Masters)
    BY Bounds DEF Items
  <2>3. r = [i EXCEPT !.number = n, !.masters = Append(i.masters, m)]
    BY <2>1
  <2>4. r \in Items
    <3> DEFINE ms == Append(i.masters, m)
    <3>1. ms \in Seq(Masters) /\ r = [i EXCEPT !.number = n, !.masters = ms]
      BY <2>2, <2>3
    <3>2. n \in 0..MaxNumber
      BY <2>2
    <3> HIDE DEF ms, r, n
    <3>3. [i EXCEPT !.number = n, !.masters = ms] \in Items
      BY <3>1, <3>2, ItemType
    <3> QED BY <3>1, <3>3
  <2>5. Same(i, r) /\ r.number = n
    BY <2>3 DEF Items, Same
  <2> QED BY <2>4, <2>5
<1> QED BY <1>1, <1>2

LEMMA CreateProblems ==
  ASSUME Configured, NEW i \in Items, NEW type \in Types
  PROVE  LET r == CreateNotifications(i, type)
         IN /\ type # "PROBLEM" => Problems(r) = Problems(i) /\ Fewer(i, r)
            /\ Problems(i) = {} => /\ AtMostOne(r)
                                   /\ \A k \in Problems(r) : r.masters[k].at = "item"
            /\ type = "PROBLEM" /\ ~Dropped(i, type) => Problems(r) # {}
<1> DEFINE r == CreateNotifications(i, type)
           n == IF type = "RECOVERY" THEN 0 ELSE i.number
<1>1. CASE Dropped(i, type)
  <2>1. r = i
    BY <1>1 DEF CreateNotifications
  <2> QED BY <1>1, <2>1 DEF Fewer, AtMostOne
<1>2. CASE ~Dropped(i, type)
  <2>1. PICK m \in Masters : /\ m.type = type /\ m.at = "item"
                             /\ r = [i EXCEPT !.number = n, !.masters = Append(@, m)]
    BY <1>2, Creates
  <2>2. i.masters \in Seq(Masters) /\ r.masters = Append(i.masters, m)
    BY <2>1 DEF Items
  <2> DEFINE s == i.masters
             u == r.masters
  <2>3. /\ DOMAIN u = 1..Len(s) + 1 /\ DOMAIN s = 1..Len(s) /\ Len(s) \in Nat
        /\ u[Len(s) + 1] = m /\ \A k \in 1..Len(s) : u[k] = s[k]
    BY <2>2
  <2>4. \A k \in 1..Len(s) + 1 : k \in 1..Len(s) \/ k = Len(s) + 1
    BY <2>3
  <2>5. \A k \in 1..Len(s) : k \in 1..Len(s) + 1 /\ k # Len(s) + 1
    BY <2>3
  <2>6. Len(s) + 1 \in 1..Len(s) + 1
    BY <2>3
  <2> HIDE DEF r
  <2>7. \A k \in Problems(r) : \/ k \in Problems(i) /\ u[k] = s[k]
                               \/ k = Len(s) + 1 /\ type = "PROBLEM"
    BY <2>1, <2>3, <2>4 DEF Problems
  <2>8. Problems(i) \subseteq Problems(r)
    BY <2>3, <2>5 DEF Problems
  <2>9. type = "PROBLEM" => Len(s) + 1 \in Problems(r)
    BY <2>1, <2>3, <2>6 DEF Problems
  <2>10. type # "PROBLEM" => Problems(r) = Problems(i) /\ Fewer(i, r)
    BY <2>7, <2>8 DEF Fewer
  <2>11. Problems(i) = {} => /\ AtMostOne(r)
                             /\ \A k \in Problems(r) : r.masters[k].at = "item"
    BY <2>1, <2>3, <2>7 DEF AtMostOne
  <2> QED BY <2>9, <2>10, <2>11 DEF r
<1> QED BY <1>1, <1>2

LEMMA RemovedMasters ==
  ASSUME NEW i \in Items
  PROVE  LET r == RemoveInProgressNotifications(i)
         IN /\ r \in Items /\ Same(i, r) /\ r.number = i.number
            /\ Problems(r) = {}
<1> DEFINE r == RemoveInProgressNotifications(i)
           ms == Preserved(i.masters)
<1>1. i.masters \in Seq(Masters) /\ i.number \in 0..MaxNumber
  BY DEF Items
<1>2. ms \in Seq(Masters) /\ \A k \in DOMAIN ms : Stays(ms[k])
  BY <1>1, PreservedList
<1>3. r = [i EXCEPT !.masters = ms]
  BY DEF RemoveInProgressNotifications
<1> HIDE DEF ms
<1>4. r \in Items /\ Same(i, r) /\ r.number = i.number /\ r.masters = ms
  BY <1>2, <1>3 DEF Items, Same
<1>5. Problems(r) = {}
  BY <1>2, <1>4 DEF Problems, Stays, Downtimes
<1> QED BY <1>4, <1>5

\* The masters in progress give way to one new master, if enable.
LEMMA RenewType ==
  ASSUME Configured, NEW i \in Items, NEW type \in Types, NEW enable \in BOOLEAN
  PROVE  LET r == Renew(i, type, enable)
         IN /\ r \in Items /\ Same(i, r)
            /\ type # "RECOVERY" => r.number = i.number
            /\ r.number \in {i.number, 0}
            /\ AtMostOne(r) /\ \A k \in Problems(r) : r.masters[k].at = "item"
            /\ type # "PROBLEM" => Problems(r) = {}
<1> DEFINE j == RemoveInProgressNotifications(i)
           r == Renew(i, type, enable)
<1>1. j \in Items /\ Same(i, j) /\ j.number = i.number /\ Problems(j) = {}
  BY RemovedMasters
<1>2. CASE ~enable
  <2>1. r = j
    BY <1>2 DEF Renew
  <2> QED BY <1>1, <2>1 DEF AtMostOne
<1>3. CASE enable
  <2>1. r = CreateNotifications(j, type)
    BY <1>3 DEF Renew
  <2> HIDE DEF j, r
  <2>2. /\ r \in Items /\ Same(j, r) /\ r.number \in {j.number, 0}
        /\ type # "RECOVERY" => r.number = j.number
    BY <1>1, <2>1, CreateType
  <2>3. /\ type # "PROBLEM" => Problems(r) = Problems(j)
        /\ AtMostOne(r) /\ \A k \in Problems(r) : r.masters[k].at = "item"
    BY <1>1, <2>1, CreateProblems
  <2>4. Same(i, r)
    BY <1>1, <2>2 DEF Same
  <2> QED BY <1>1, <2>2, <2>3, <2>4 DEF r
<1> QED BY <1>2, <1>3

\* With an interval, a PROBLEM is never dropped; nor is a RECOVERY with a delay.
LEMMA RenewCreates ==
  ASSUME Configured, NEW i \in Items
  PROVE  /\ conf.interval # 0 => Problems(Renew(i, "PROBLEM", TRUE)) # {}
         /\ conf.interval # 0 \/ conf.delay # 0 => Renew(i, "RECOVERY", TRUE).number = 0
<1> DEFINE j == RemoveInProgressNotifications(i)
<1>1. j \in Items /\ Problems(j) = {}
  BY RemovedMasters
<1>2. \A type : Renew(i, type, TRUE) = CreateNotifications(j, type)
  BY DEF Renew
<1>3. \A type : conf.interval # 0 \/ conf.delay # 0 => ~Dropped(j, type)
  BY DEF Dropped
<1>4. "PROBLEM" \in Types /\ "RECOVERY" \in Types
  BY DEF Types
<1> HIDE DEF j
<1>5. conf.interval # 0 => Problems(CreateNotifications(j, "PROBLEM")) # {}
  BY <1>1, <1>3, <1>4, CreateProblems
<1>6. conf.interval # 0 \/ conf.delay # 0 => CreateNotifications(j, "RECOVERY").number = 0
  BY <1>1, <1>3, <1>4, CreateType
<1> QED BY <1>2, <1>5, <1>6

LEMMA FlappingChanges ==
  ASSUME Configured, NEW i \in Items, NEW sample \in BOOLEAN
  PROVE  LET changes == AddFlappingChange(i.changes, sample)
         IN changes \in Seq(BOOLEAN) /\ UpdateFlapping(i.flapping, changes) \in BOOLEAN
<1> DEFINE changes == AddFlappingChange(i.changes, sample)
           s == Append(i.changes, sample)
<1>1. i.changes \in Seq(BOOLEAN) /\ i.flapping \in BOOLEAN
  BY DEF Items
<1>2. s \in Seq(BOOLEAN) /\ s # <<>>
  BY <1>1
<1>3. Tail(s) \in Seq(BOOLEAN)
  BY <1>2
<1>4. changes \in Seq(BOOLEAN)
  BY <1>2, <1>3 DEF AddFlappingChange
<1> HIDE DEF changes
<1>5. UpdateFlapping(i.flapping, changes) \in BOOLEAN
  BY <1>1, Booleans DEF UpdateFlapping
<1> QED BY <1>4, <1>5 DEF changes

LEMMA FlappingType ==
  ASSUME Configured, NEW i \in Items
  PROVE  LET r == Flapping(i)
         IN /\ r \in Items /\ Same(i, r) /\ r.number = i.number
            /\ Problems(r) = {} \/ (Problems(r) = Problems(i) /\ Fewer(i, r))
            /\ ~conf.flap => r = i
<1> DEFINE r == Flapping(i)
           changes == AddFlappingChange(i.changes, i.state # i.last)
           now == UpdateFlapping(i.flapping, changes)
           j == [i EXCEPT !.changes = changes, !.flapping = now]
<1>1. CASE ~conf.flap
  <2>1. r = i
    BY <1>1 DEF Flapping
  <2> QED BY <1>1, <2>1 DEF Same, Fewer
<1>2. CASE conf.flap
  <2>1. changes \in Seq(BOOLEAN) /\ now \in BOOLEAN
    BY FlappingChanges
  <2> HIDE DEF changes, now
  <2>2. /\ j \in Items /\ Same(i, j) /\ j.number = i.number
        /\ Problems(j) = Problems(i) /\ Fewer(i, j)
    BY <2>1 DEF Items, Same, Problems, Fewer
  <2>3. r = IF now = i.flapping THEN j
            ELSE Renew(j, IF now THEN "FLAPPINGSTART" ELSE "FLAPPINGSTOP", TRUE)
    BY <1>2 DEF Flapping, now, changes
  <2> HIDE DEF j, r
  <2>4. CASE now = i.flapping
    <3>1. r = j
      BY <2>3, <2>4
    <3> QED BY <1>2, <2>2, <3>1 DEF r
  <2>5. CASE now # i.flapping
    <3> DEFINE type == IF now THEN "FLAPPINGSTART" ELSE "FLAPPINGSTOP"
    <3>1. type \in Types /\ type # "RECOVERY" /\ type # "PROBLEM"
      BY <2>1 DEF Types, Flaps
    <3>2. r = Renew(j, type, TRUE)
      BY <2>3, <2>5
    <3> HIDE DEF type
    <3>3. r \in Items /\ Same(j, r) /\ r.number = j.number /\ Problems(r) = {}
      BY <2>2, <3>1, <3>2, RenewType
    <3>4. Same(i, r)
      BY <2>2, <3>3 DEF Same
    <3> QED BY <1>2, <2>2, <3>3, <3>4 DEF r
  <2> QED BY <2>4, <2>5
<1> QED BY <1>1, <1>2

-----------------------------------------------------------------------------
(* A result of the item *)

\* A PROBLEM goes with a HARD failing state, there is never more than one, and
\* the number is that of a problem, where nothing else may take a notification
\* away: no flapping, no dependency, no notification that is dropped.
Sound(i) ==
  /\ i.state = "OK" => i.kind = "HARD"
  /\ Problems(i) # {} => Failing(i)
  /\ AtMostOne(i)
  /\ ~conf.flap /\ ~conf.depends /\ conf.interval # 0 /\ Failing(i) => Problems(i) # {}
  /\ ~conf.depends /\ (conf.interval # 0 \/ conf.delay # 0) /\ ~Failing(i) => i.number = 0

\* The same after set_state_from_exit_status, when the state the item had is
\* its last_state.
Ready(i) ==
  /\ i.last = "OK" => i.kind = "HARD"
  /\ Problems(i) # {} => i.last # "OK" /\ i.kind = "HARD"
  /\ AtMostOne(i)
  /\ ~conf.flap /\ ~conf.depends /\ conf.interval # 0 /\ i.last # "OK" /\ i.kind = "HARD"
       => Problems(i) # {}
  /\ ~conf.depends /\ (conf.interval # 0 \/ conf.delay # 0)
       /\ ~(i.last # "OK" /\ i.kind = "HARD") => i.number = 0

\* A PROBLEM master of r was one of i, or waits in item.actions.
Fresh(i, r) ==
  \A k \in Problems(r) : \/ r.masters[k].at = "item"
                         \/ k \in Problems(i) /\ r.masters[k] = i.masters[k]

\* What every branch of consume_result achieves.
Handled(i, r) ==
  /\ r \in Items /\ r.attempt \in 1..conf.max /\ r.notified = i.notified
  /\ Sound(r) /\ Fresh(i, r)

LEMMA SetStateReady ==
  ASSUME Configured, NEW i \in Items, NEW s \in Statuses, Sound(i)
  PROVE  LET r == SetState(i, s)
         IN /\ r \in Items /\ Ready(r) /\ r.state = s /\ r.last = i.state
            /\ r.attempt = i.attempt /\ r.notified = i.notified /\ Fresh(i, r)
<1> DEFINE seen == IF s = "OK" THEN [x \in Statuses |-> -1] ELSE [i.seen EXCEPT ![s] = 0]
           h == [i EXCEPT !.last = i.state, !.state = s, !.seen = seen]
           j == Flapping(h)
           r == SetState(i, s)
<1>1. seen \in [Statuses -> -1..MaxAge]
  BY Bounds DEF Items
<1>2. r = [j EXCEPT !.lastKind = j.kind]
  BY DEF SetState
<1> HIDE DEF seen, r
<1>3. /\ h \in Items /\ h.state = s /\ h.last = i.state /\ h.kind = i.kind
      /\ h.attempt = i.attempt /\ h.notified = i.notified /\ h.number = i.number
      /\ h.masters = i.masters
  BY <1>1 DEF Items
<1>4. Problems(h) = Problems(i)
  BY <1>3 DEF Problems
<1> HIDE DEF h
<1>5. /\ j \in Items /\ Same(h, j) /\ j.number = h.number
      /\ Problems(j) = {} \/ (Problems(j) = Problems(h) /\ Fewer(h, j))
      /\ ~conf.flap => j = h
  BY <1>3, FlappingType
<1> HIDE DEF j
<1>6. /\ r \in Items /\ r.state = s /\ r.last = i.state /\ r.kind = i.kind
      /\ r.attempt = i.attempt /\ r.notified = i.notified /\ r.number = i.number
      /\ r.masters = j.masters
  BY <1>2, <1>3, <1>5 DEF Items, Same
<1>7. Problems(r) = Problems(j)
  BY <1>6 DEF Problems
<1>8. Fresh(i, r)
  BY <1>3, <1>4, <1>5, <1>6, <1>7 DEF Fresh, Fewer
<1>9. AtMostOne(r)
  BY <1>4, <1>5, <1>7 DEF AtMostOne, Sound
<1>10. Ready(r)
  BY <1>3, <1>4, <1>5, <1>6, <1>7, <1>9 DEF Ready, Sound, Failing
<1> QED BY <1>6, <1>8, <1>10 DEF r

LEMMA UnknownPhase ==
  ASSUME NEW i \in Items
  PROVE  LET r == UpdateUnknownPhase(i)
         IN /\ r \in Items /\ Same(i, r) /\ r.number = i.number /\ r.masters = i.masters
<1> DEFINE in == UpdateUnknownPhase(i).inUnknown
           was == UpdateUnknownPhase(i).wasUnknown
           before == UpdateUnknownPhase(i).before
<1>1. i.inUnknown \in BOOLEAN /\ i.before \in Statuses /\ i.last \in Statuses
  BY DEF Items
<1>2. UpdateUnknownPhase(i)
        = [i EXCEPT !.inUnknown = in, !.wasUnknown = was, !.before = before]
  BY DEF UpdateUnknownPhase, Items
<1>3. in \in BOOLEAN /\ was \in BOOLEAN /\ before \in Statuses
  BY <1>1 DEF UpdateUnknownPhase, Items
<1> HIDE DEF in, was, before
<1>4. UpdateUnknownPhase(i) \in Items
  BY <1>2, <1>3 DEF Items
<1>5. Same(i, UpdateUnknownPhase(i))
  BY <1>2 DEF Items, Same
<1>6. /\ UpdateUnknownPhase(i).number = i.number
      /\ UpdateUnknownPhase(i).masters = i.masters
  BY <1>2 DEF Items
<1> QED BY <1>4, <1>5, <1>6

\* To UP/OK.
LEMMA HandledOk ==
  ASSUME Configured, NEW i \in Items, Ready(i), i.state = "OK", i.attempt \in 1..conf.max,
         NEW enable \in BOOLEAN, enable \/ conf.depends
  PROVE  Handled(i, ToOk(i, enable))
<1> DEFINE j == Unacknowledge(i)
           k == Renew(j, "RECOVERY", enable)
           r == ToOk(i, enable)
<1>1. /\ j \in Items /\ Same(i, j) /\ j.number = i.number /\ j.masters = i.masters
  BY DEF Unacknowledge, Items, Same
<1>2. Problems(j) = Problems(i)
  BY <1>1 DEF Problems
<1>3. 1 \in 1..conf.max /\ 1 \in Nat
  BY ConfType
<1> HIDE DEF j
<1>4. CASE i.last = "OK"
  <2>1. r = [j EXCEPT !.attempt = 1]
    BY <1>1, <1>4 DEF ToOk, Ready, j
  <2> HIDE DEF r
  <2>2. /\ r \in Items /\ r.state = "OK" /\ r.kind = "HARD" /\ r.attempt = 1
        /\ r.notified = i.notified /\ r.number = i.number /\ r.masters = i.masters
    BY <1>1, <1>3, <1>4, <2>1 DEF Items, Same, Ready
  <2>3. Problems(r) = Problems(i)
    BY <2>2 DEF Problems
  <2>4. Sound(r) /\ Fresh(i, r)
    BY <1>4, <2>2, <2>3 DEF Ready, Sound, Failing, AtMostOne, Fresh
  <2> QED BY <1>3, <2>2, <2>4 DEF Handled, r
<1>5. CASE i.last # "OK" /\ i.kind = "HARD"
  <2>1. r = [k EXCEPT !.kind = "HARD", !.attempt = 1]
    BY <1>5 DEF ToOk, j
  <2>2. "RECOVERY" \in Types
    BY DEF Types
  <2>3. k \in Items /\ Same(j, k) /\ Problems(k) = {} /\ k.number \in {j.number, 0}
    BY <1>1, <2>2, RenewType
  <2>4. ~conf.depends /\ (conf.interval # 0 \/ conf.delay # 0) => k.number = 0
    <3>1. ~conf.depends => enable = TRUE
      OBVIOUS
    <3> QED BY <1>1, <3>1, RenewCreates
  <2> HIDE DEF k, r
  <2>5. /\ r \in Items /\ r.state = "OK" /\ r.kind = "HARD" /\ r.attempt = 1
        /\ r.notified = i.notified /\ r.number = k.number /\ r.masters = k.masters
    BY <1>1, <1>3, <2>1, <2>3 DEF Items, Same
  <2>6. Problems(r) = {}
    BY <2>3, <2>5 DEF Problems
  <2>7. Sound(r) /\ Fresh(i, r)
    BY <2>4, <2>5, <2>6 DEF Sound, Failing, AtMostOne, Fresh
  <2> QED BY <1>3, <2>5, <2>7 DEF Handled, r
<1>6. CASE i.last # "OK" /\ i.kind # "HARD"
  <2>1. r = [j EXCEPT !.kind = "HARD", !.attempt = 1]
    BY <1>6 DEF ToOk, j
  <2> HIDE DEF r
  <2>2. /\ r \in Items /\ r.state = "OK" /\ r.kind = "HARD" /\ r.attempt = 1
        /\ r.notified = i.notified /\ r.number = i.number /\ r.masters = i.masters
    BY <1>1, <1>3, <2>1 DEF Items, Same
  <2>3. Problems(r) = Problems(i)
    BY <2>2 DEF Problems
  <2>4. Sound(r) /\ Fresh(i, r)
    BY <1>6, <2>2, <2>3 DEF Ready, Sound, Failing, AtMostOne, Fresh
  <2> QED BY <1>3, <2>2, <2>4 DEF Handled, r
<1> QED BY <1>4, <1>5, <1>6

\* A new PROBLEM of an item in a HARD failing state.
LEMMA NewProblem ==
  ASSUME Configured, NEW i, NEW h \in Items, Failing(h), h.attempt \in 1..conf.max,
         h.notified = i.notified, NEW enable \in BOOLEAN, enable \/ conf.depends
  PROVE  /\ Handled(i, Renew(h, "PROBLEM", enable))
         /\ Failing(Renew(h, "PROBLEM", enable))
<1> DEFINE r == Renew(h, "PROBLEM", enable)
<1>1. "PROBLEM" \in Types /\ "PROBLEM" # "RECOVERY"
  BY DEF Types
<1>2. /\ r \in Items /\ Same(h, r) /\ r.number = h.number
      /\ AtMostOne(r) /\ \A k \in Problems(r) : r.masters[k].at = "item"
  BY <1>1, RenewType
<1>3. ~conf.depends /\ conf.interval # 0 => Problems(r) # {}
  <2>1. ~conf.depends => enable = TRUE
    OBVIOUS
  <2> QED BY <2>1, RenewCreates
<1> HIDE DEF r
<1>4. Failing(r)
  BY <1>2 DEF Failing, Same
<1>5. Sound(r)
  BY <1>2, <1>3, <1>4 DEF Sound, Failing
<1>6. Fresh(i, r)
  BY <1>2 DEF Fresh
<1>7. Handled(i, r)
  BY <1>2, <1>5, <1>6 DEF Handled, Same
<1> QED BY <1>4, <1>7 DEF r

\* A volatile service that fails.
LEMMA HandledVolatile ==
  ASSUME Configured, NEW i \in Items, i.state # "OK", NEW enable \in BOOLEAN, enable \/ conf.depends
  PROVE  Handled(i, FailsVolatile(i, enable))
<1> DEFINE h == Hard([i EXCEPT !.attempt = 1])
<1>1. 1 \in 1..conf.max /\ 1 \in Nat
  BY ConfType
<1>2. /\ h \in Items /\ h.state = i.state /\ h.kind = "HARD" /\ h.attempt = 1
      /\ h.notified = i.notified
  BY <1>1 DEF Hard, Items
<1>3. FailsVolatile(i, enable) = Renew(h, "PROBLEM", enable)
  BY DEF FailsVolatile
<1> HIDE DEF h
<1> QED BY <1>1, <1>2, <1>3, NewProblem DEF Failing

\* From UP/OK to a failing state.
LEMMA HandledStart ==
  ASSUME Configured, NEW i \in Items, Ready(i), i.state # "OK", i.last = "OK",
         NEW enable \in BOOLEAN, enable \/ conf.depends
  PROVE  Handled(i, StartsFailing(i, enable))
<1> DEFINE j == [i EXCEPT !.attempt = 1]
           r == StartsFailing(i, enable)
<1>1. 1 \in 1..conf.max /\ 1 \in Nat
  BY ConfType
<1>2. CASE IsMax(j)
  <2> DEFINE h == Hard(j)
  <2>1. /\ h \in Items /\ h.state = i.state /\ h.kind = "HARD" /\ h.attempt = 1
        /\ h.notified = i.notified
    BY <1>1 DEF Hard, Items
  <2>2. r = Renew(h, "PROBLEM", enable)
    BY <1>2 DEF StartsFailing
  <2> HIDE DEF h
  <2> QED BY <1>1, <2>1, <2>2, NewProblem DEF Failing
<1>3. CASE ~IsMax(j)
  <2>1. r = [j EXCEPT !.kind = "SOFT"]
    BY <1>3 DEF StartsFailing
  <2> HIDE DEF r
  <2>2. /\ r \in Items /\ r.state = i.state /\ r.kind = "SOFT" /\ r.attempt = 1
        /\ r.notified = i.notified /\ r.number = i.number /\ r.masters = i.masters
    BY <1>1, <2>1 DEF Items
  <2>3. Problems(r) = {}
    BY <2>2 DEF Problems, Ready
  <2>4. Sound(r) /\ Fresh(i, r)
    BY <2>2, <2>3 DEF Ready, Sound, Failing, AtMostOne, Fresh
  <2> QED BY <1>1, <2>2, <2>4 DEF Handled, r
<1> QED BY <1>2, <1>3

LEMMA AckType ==
  ASSUME NEW i \in Items, NEW ack \in {"none", "normal", "sticky"}
  PROVE  LET r == [i EXCEPT !.ack = ack]
         IN /\ r \in Items /\ r.state = i.state /\ r.kind = i.kind /\ r.attempt = i.attempt
            /\ r.notified = i.notified /\ r.number = i.number /\ r.masters = i.masters
BY DEF Items

\* From a failing state in a SOFT state type to a failing state.
LEMMA HandledSoft ==
  ASSUME Configured, NEW i \in Items, Ready(i), i.state # "OK", i.last # "OK", i.kind = "SOFT",
         i.attempt \in 1..conf.max, NEW enable \in BOOLEAN, enable \/ conf.depends,
         NEW dependent \in BOOLEAN
  PROVE  Handled(i, SoftFailing(i, enable, dependent))
<1> DEFINE attempt == IF dependent \/ IsMax(i) THEN i.attempt ELSE i.attempt + 1
           j == [i EXCEPT !.attempt = attempt]
           k == IF i.state # i.last THEN UnacknowledgeIfNotSticky(j) ELSE j
           r == SoftFailing(i, enable, dependent)
<1>1. attempt \in 1..conf.max /\ attempt \in Nat
  BY ConfType DEF IsMax
<1> HIDE DEF attempt
<1>2. /\ j \in Items /\ j.state = i.state /\ j.kind = "SOFT" /\ j.attempt = attempt
      /\ j.notified = i.notified /\ j.number = i.number /\ j.masters = i.masters
  BY <1>1 DEF Items
<1>3. r = IF IsMax(k) THEN Renew(Hard(k), "PROBLEM", enable) ELSE k
  BY DEF SoftFailing, attempt
<1> HIDE DEF j, r
<1>4. /\ k \in Items /\ k.state = i.state /\ k.kind = "SOFT" /\ k.attempt = attempt
      /\ k.notified = i.notified /\ k.number = i.number /\ k.masters = i.masters
  <2>1. CASE i.state # i.last
    <3> DEFINE ack == IF j.ack = "sticky" THEN j.ack ELSE "none"
    <3>1. ack \in {"none", "normal", "sticky"} /\ k = [j EXCEPT !.ack = ack]
      BY <2>1 DEF UnacknowledgeIfNotSticky
    <3>2. /\ k \in Items /\ k.state = j.state /\ k.kind = j.kind /\ k.attempt = j.attempt
          /\ k.notified = j.notified /\ k.number = j.number /\ k.masters = j.masters
      <4> HIDE DEF ack, k
      <4> QED BY <1>2, <3>1, AckType
    <3> QED BY <1>2, <3>2
  <2>2. CASE i.state = i.last
    BY <1>2, <2>2
  <2> QED BY <2>1, <2>2
<1> HIDE DEF k
<1>5. CASE IsMax(k)
  <2> DEFINE h == Hard(k)
  <2>1. /\ h \in Items /\ h.state = i.state /\ h.kind = "HARD" /\ h.attempt = attempt
        /\ h.notified = i.notified
    BY <1>4 DEF Hard, Items
  <2>2. r = Renew(h, "PROBLEM", enable)
    BY <1>3, <1>5
  <2> HIDE DEF h
  <2>3. Handled(i, r)
    BY <1>1, <2>1, <2>2, NewProblem DEF Failing
  <2> QED BY <2>3 DEF r
<1>6. CASE ~IsMax(k)
  <2>1. r = k
    BY <1>3, <1>6
  <2>2. Problems(r) = {}
    BY <1>4, <2>1 DEF Problems, Ready
  <2>3. Sound(r) /\ Fresh(i, r)
    BY <1>4, <2>1, <2>2 DEF Ready, Sound, Failing, AtMostOne, Fresh
  <2>4. Handled(i, r)
    BY <1>1, <1>4, <2>1, <2>3 DEF Handled
  <2> QED BY <2>4 DEF r
<1> QED BY <1>5, <1>6

\* An item in a HARD failing state that changes only elsewhere.
LEMMA HandledSame ==
  ASSUME NEW i, Ready(i), i.last # "OK", NEW j \in Items, Failing(j),
         j.kind = i.kind, j.attempt \in 1..conf.max,
         j.notified = i.notified, j.number = i.number, j.masters = i.masters
  PROVE  Handled(i, j)
<1>1. Problems(j) = Problems(i)
  BY DEF Problems
<1>2. Sound(j)
  BY <1>1 DEF Sound, Ready, Failing, AtMostOne
<1>3. Fresh(i, j)
  BY <1>1 DEF Fresh
<1> QED BY <1>2, <1>3 DEF Handled

\* From a failing state in a HARD state type to a failing state.
LEMMA HandledHard ==
  ASSUME Configured, NEW i \in Items, Ready(i), i.state # "OK", i.last # "OK", i.kind = "HARD",
         i.attempt \in 1..conf.max, NEW enable \in BOOLEAN, enable \/ conf.depends
  PROVE  Handled(i, HardFailing(i, enable))
<1> DEFINE j == IF i.state # i.last THEN HardChanged(i, enable)
                ELSE IF i.ended THEN Renew(i, "PROBLEM", enable) ELSE i
           r == HardFailing(i, enable)
           u == UpdateUnknownPhase(i)
           a == UnacknowledgeIfNotSticky(u)
<1>1. Failing(i)
  BY DEF Failing
<1>2. Handled(i, i)
  BY <1>1, HandledSame
<1>3. /\ u \in Items /\ Same(i, u) /\ u.number = i.number /\ u.masters = i.masters
  BY UnknownPhase
<1> HIDE DEF u
<1>4. Failing(u) /\ Handled(i, u)
  <2>1. Failing(u) /\ u.kind = i.kind /\ u.attempt \in 1..conf.max /\ u.notified = i.notified
    BY <1>1, <1>3 DEF Failing, Same
  <2> QED BY <1>3, <2>1, HandledSame
<1>5. /\ a \in Items /\ Failing(a) /\ a.attempt \in 1..conf.max
      /\ a.notified = i.notified
  BY <1>3, <1>4 DEF UnacknowledgeIfNotSticky, Items, Failing, Same
<1>6. HardChanged(i, enable) = IF u.inUnknown \/ u.wasUnknown THEN u
                               ELSE Renew(a, "PROBLEM", enable)
  BY DEF HardChanged, u
<1> HIDE DEF a
<1>7. Failing(HardChanged(i, enable)) /\ Handled(i, HardChanged(i, enable))
  <2>1. Failing(Renew(a, "PROBLEM", enable)) /\ Handled(i, Renew(a, "PROBLEM", enable))
    BY <1>5, NewProblem
  <2> QED BY <1>4, <1>6, <2>1, Zenon
<1>8. Failing(Renew(i, "PROBLEM", enable)) /\ Handled(i, Renew(i, "PROBLEM", enable))
  BY <1>1, NewProblem
<1>9. Failing(j) /\ Handled(i, j)
  BY <1>1, <1>2, <1>7, <1>8, Zenon
<1>10. r = FirstAgain(j, enable)
  BY DEF HardFailing
<1> HIDE DEF j, r
<1>11. CASE enable /\ j.enabled /\ j.number = 0
  <2>1. r = Renew(j, "PROBLEM", TRUE)
    BY <1>10, <1>11 DEF FirstAgain
  <2>2. j \in Items /\ j.attempt \in 1..conf.max /\ j.notified = i.notified
    BY <1>9 DEF Handled
  <2>3. Handled(i, Renew(j, "PROBLEM", TRUE))
    BY <1>9, <2>2, NewProblem
  <2> QED BY <2>1, <2>3 DEF r
<1>12. CASE ~(enable /\ j.enabled /\ j.number = 0)
  <2>1. r = j
    BY <1>10, <1>12 DEF FirstAgain
  <2> QED BY <1>9, <2>1 DEF r
<1> QED BY <1>11, <1>12

\* consume_result.
LEMMA ConsumeHandled ==
  ASSUME Configured, NEW i \in Items, Sound(i), i.attempt \in 1..conf.max,
         NEW s \in Statuses, NEW enable \in BOOLEAN, NEW dependent \in BOOLEAN,
         conf.depends \/ (enable /\ ~dependent)
  PROVE  Handled(i, ConsumeResult(i, s, enable, dependent))
<1> DEFINE j == SetState(i, s)
           k == CASE s = "OK" -> ToOk(j, enable)
                  [] s # "OK" /\ Volatile -> FailsVolatile(j, enable)
                  [] s # "OK" /\ ~Volatile /\ j.last = "OK" -> StartsFailing(j, enable)
                  [] s # "OK" /\ ~Volatile /\ j.last # "OK" /\ j.kind = "SOFT" ->
                       SoftFailing(j, enable, dependent)
                  [] OTHER -> HardFailing(j, enable)
           u == UpdateUnknownPhase(k)
           r == [u EXCEPT !.ended = FALSE]
<1>0. ConsumeResult(i, s, enable, dependent) = r
  BY DEF ConsumeResult
<1>1. /\ j \in Items /\ Ready(j) /\ j.state = s /\ j.last = i.state
      /\ j.attempt = i.attempt /\ j.notified = i.notified /\ Fresh(i, j)
  BY SetStateReady
<1> HIDE DEF j
<1>2. j.kind \in {"SOFT", "HARD"} /\ (enable \/ conf.depends)
  BY <1>1 DEF Items
<1>3. Handled(j, k)
  <2>1. CASE s = "OK"
    <3>1. k = ToOk(j, enable)
      BY <2>1
    <3> HIDE DEF k
    <3> QED BY <1>1, <1>2, <2>1, <3>1, HandledOk
  <2>v. CASE s # "OK" /\ Volatile
    <3>1. k = FailsVolatile(j, enable)
      BY <2>v
    <3> HIDE DEF k
    <3> QED BY <1>1, <1>2, <2>v, <3>1, HandledVolatile
  <2>2. CASE s # "OK" /\ ~Volatile /\ j.last = "OK"
    <3>1. k = StartsFailing(j, enable)
      BY <2>2
    <3> HIDE DEF k
    <3> QED BY <1>1, <1>2, <2>2, <3>1, HandledStart
  <2>3. CASE s # "OK" /\ ~Volatile /\ j.last # "OK" /\ j.kind = "SOFT"
    <3>1. k = SoftFailing(j, enable, dependent)
      BY <2>3
    <3> HIDE DEF k
    <3> QED BY <1>1, <1>2, <2>3, <3>1, HandledSoft
  <2>4. CASE s # "OK" /\ ~Volatile /\ j.last # "OK" /\ j.kind # "SOFT"
    <3>1. k = HardFailing(j, enable)
      BY <2>4
    <3> HIDE DEF k
    <3> QED BY <1>1, <1>2, <2>4, <3>1, HandledHard
  <2> QED BY <2>1, <2>v, <2>2, <2>3, <2>4
<1> HIDE DEF k
<1>4. /\ u \in Items /\ Same(k, u) /\ u.number = k.number /\ u.masters = k.masters
  BY <1>3, UnknownPhase DEF Handled
<1> HIDE DEF u
<1>5. /\ r \in Items /\ r.state = k.state /\ r.kind = k.kind /\ r.attempt = k.attempt
      /\ r.notified = k.notified /\ r.number = k.number /\ r.masters = k.masters
  BY <1>4 DEF Items, Same
<1> HIDE DEF r
<1>6. Problems(r) = Problems(k)
  BY <1>5 DEF Problems
<1>7. Sound(r)
  BY <1>3, <1>5, <1>6 DEF Handled, Sound, Failing, AtMostOne
<1>8. Fresh(i, r)
  BY <1>1, <1>3, <1>5, <1>6 DEF Handled, Fresh
<1>9. Handled(i, r)
  BY <1>1, <1>3, <1>5, <1>7, <1>8 DEF Handled
<1> QED BY <1>0, <1>9

-----------------------------------------------------------------------------
(* Lists of masters and of children *)

LEMMA RemovedAt ==
  ASSUME NEW S, NEW s \in Seq(S), NEW r \in 1..Len(s)
  PROVE  LET u == RemoveAt(s, r)
         IN /\ u \in Seq(S) /\ DOMAIN u = 1..Len(s) - 1
            /\ \A k \in DOMAIN u : u[k] = IF k < r THEN s[k] ELSE s[k + 1]
<1> DEFINE a == SubSeq(s, 1, r - 1)
           b == SubSeq(s, r + 1, Len(s))
           u == RemoveAt(s, r)
<1>1. Len(s) \in Nat /\ r \in Nat /\ 1 <= r /\ r <= Len(s)
  OBVIOUS
<1>2. a \in Seq(S) /\ Len(a) = r - 1 /\ \A k \in 1..r - 1 : a[k] = s[k]
  <2>1. \A k \in 1..r - 1 : s[k] \in S
    BY <1>1
  <2>2. r - 1 \in Int /\ (IF 1 <= r - 1 THEN (r - 1) - 1 + 1 ELSE 0) = r - 1
    BY <1>1
  <2>3. /\ a \in Seq(S) /\ Len(a) = IF 1 <= r - 1 THEN (r - 1) - 1 + 1 ELSE 0
        /\ \A k \in 1..(r - 1) - 1 + 1 : a[k] = s[1 + k - 1]
    BY <2>1, <2>2, SubSeqProperties
  <2> HIDE DEF a
  <2>4. (r - 1) - 1 + 1 = r - 1 /\ \A k \in 1..r - 1 : 1 + k - 1 = k
    BY <1>1
  <2> QED BY <2>2, <2>3, <2>4
<1>3. /\ b \in Seq(S) /\ Len(b) = Len(s) - r
      /\ \A k \in 1..Len(s) - r : b[k] = s[r + k]
  <2>1. \A k \in r + 1..Len(s) : s[k] \in S
    BY <1>1
  <2>2. r + 1 \in Int /\ Len(s) \in Int
    BY <1>1
  <2>3. /\ b \in Seq(S) /\ Len(b) = IF r + 1 <= Len(s) THEN Len(s) - (r + 1) + 1 ELSE 0
        /\ \A k \in 1..Len(s) - (r + 1) + 1 : b[k] = s[(r + 1) + k - 1]
    BY <2>1, <2>2, SubSeqProperties
  <2> HIDE DEF b
  <2>4. /\ Len(s) - (r + 1) + 1 = Len(s) - r
        /\ (IF r + 1 <= Len(s) THEN Len(s) - (r + 1) + 1 ELSE 0) = Len(s) - r
        /\ \A k \in 1..Len(s) - r : (r + 1) + k - 1 = r + k
    BY <1>1
  <2> QED BY <2>3, <2>4
<1> HIDE DEF a, b
<1>4. u = a \o b
  BY DEF RemoveAt, a, b
<1>5. /\ u \in Seq(S) /\ Len(u) = Len(a) + Len(b)
      /\ \A k \in 1..Len(a) + Len(b) :
           u[k] = IF k <= Len(a) THEN a[k] ELSE b[k - Len(a)]
  <2>1. a \in Seq(S) /\ b \in Seq(S)
    BY <1>2, <1>3
  <2>2. /\ a \o b \in Seq(S) /\ Len(a \o b) = Len(a) + Len(b)
        /\ \A k \in 1..Len(a) + Len(b) :
             (a \o b)[k] = IF k <= Len(a) THEN a[k] ELSE b[k - Len(a)]
    BY <2>1, ConcatProperties
  <2> QED BY <1>4, <2>2
<1> HIDE DEF u
<1>6. Len(a) + Len(b) = Len(s) - 1
  BY <1>1, <1>2, <1>3
<1>7. DOMAIN u = 1..Len(s) - 1
  BY <1>5, <1>6
<1>8. ASSUME NEW k \in 1..Len(s) - 1 PROVE u[k] = IF k < r THEN s[k] ELSE s[k + 1]
  <2>1. CASE k < r
    <3>1. k <= Len(a) /\ k \in 1..r - 1
      BY <1>1, <1>2, <2>1
    <3> QED BY <1>2, <1>5, <1>6, <2>1, <3>1
  <2>2. CASE ~(k < r)
    <3>1. ~(k <= Len(a)) /\ k - Len(a) \in 1..Len(s) - r /\ r + (k - Len(a)) = k + 1
      BY <1>1, <1>2, <2>2
    <3> QED BY <1>3, <1>5, <1>6, <2>2, <3>1
  <2> QED BY <2>1, <2>2
<1> QED BY <1>5, <1>7, <1>8 DEF u

\* The list of a finite set holds its elements and no other.
LEMMA ListOf ==
  ASSUME NEW S, IsFiniteSet(S)
  PROVE  SetToSeq(S) \in Seq(S) /\ ToSet(SetToSeq(S)) = S
<1> DEFINE n == Cardinality(S)
           f == SetToSeq(S)
<1>1. n \in Nat /\ ExistsBijection(1..n, S)
  BY FS_CardinalityType
<1>2. PICK b : b \in Bijection(1..n, S)
  BY <1>1 DEF ExistsBijection
<1>3. b \in [1..n -> S] /\ IsInjective(b)
  BY <1>2 DEF Bijection, Injection, IsInjective
<1>4. f \in [1..n -> S] /\ IsInjective(f)
  <2>1. \E g \in [1..n -> S] : IsInjective(g)
    BY <1>3
  <2> QED BY <2>1 DEF SetToSeq
<1> HIDE DEF f
<1>5. f \in Seq(S)
  BY <1>1, <1>4
<1>6. f \in Injection(1..n, S)
  BY <1>4 DEF Injection, IsInjective
<1>7. f \in Surjection(1..n, S)
  <2>1. IsFiniteSet(1..n) /\ Cardinality(1..n) = n
    <3>1. 1 \in Int /\ n \in Int
      BY <1>1
    <3>2. IsFiniteSet(1..n) /\ Cardinality(1..n) = IF 1 > n THEN 0 ELSE n - 1 + 1
      BY <3>1, FS_Interval
    <3> HIDE DEF n
    <3> QED BY <1>1, <3>2
  <2> QED BY <1>6, <2>1, FS_Injection
<1>8. ToSet(f) = S
  BY <1>4, <1>7 DEF Surjection, ToSet
<1> QED BY <1>5, <1>8 DEF f

Kids == [type : Types, contact : Contacts, way : DOMAIN Ways,
         status : {"scheduled", "polled"}]

\* The children of the list ch that wait for the contact c.
In(ch, c) == { k \in DOMAIN ch : ch[k].contact = c /\ ch[k].status = "scheduled"
                                 /\ ch[k].type \in {"PROBLEM", "RECOVERY"} }
\* The last of them is a PROBLEM.
Owed(ch, c) == \E k \in In(ch, c) : ch[k].type = "PROBLEM" /\ \A j \in In(ch, c) : j <= k

\* A child that was handed out goes: nothing changes for those that wait.
LEMMA ChildRemoved ==
  ASSUME NEW ch \in Seq(Kids), NEW r \in DOMAIN ch, ch[r].status = "polled", NEW c
  PROVE  LET u == RemoveAt(ch, r)
         IN (Owed(u, c) => Owed(ch, c)) /\ (In(ch, c) # {} => In(u, c) # {})
<1> DEFINE u == RemoveAt(ch, r)
<1>1. DOMAIN ch = 1..Len(ch) /\ Len(ch) \in Nat /\ r \in 1..Len(ch)
  OBVIOUS
<1>2. /\ DOMAIN u = 1..Len(ch) - 1
      /\ \A k \in DOMAIN u : u[k] = IF k < r THEN ch[k] ELSE ch[k + 1]
  BY <1>1, RemovedAt
<1> HIDE DEF u
<1>3. r \notin In(ch, c)
  BY DEF In
<1>4. ASSUME NEW k \in In(ch, c)
      PROVE  IF k < r THEN k \in In(u, c) ELSE k - 1 \in In(u, c) /\ k > r
  <2>1. k \in 1..Len(ch) /\ k # r
    BY <1>1, <1>3 DEF In
  <2>2. CASE k < r
    <3>1. k \in DOMAIN u /\ u[k] = ch[k]
      BY <1>1, <1>2, <2>1, <2>2
    <3> QED BY <2>2, <3>1 DEF In
  <2>3. CASE ~(k < r)
    <3>1. /\ k - 1 \in DOMAIN u /\ k > r /\ ~(k - 1 < r) /\ (k - 1) + 1 = k
      BY <1>1, <1>2, <2>1, <2>3
    <3>2. u[k - 1] = ch[k]
      BY <1>2, <3>1
    <3> QED BY <2>3, <3>1, <3>2 DEF In
  <2> QED BY <2>2, <2>3
<1>5. ASSUME NEW k \in In(u, c), u[k].type = "PROBLEM", \A j \in In(u, c) : j <= k
      PROVE  Owed(ch, c)
  <2> DEFINE n == IF k < r THEN k ELSE k + 1
  <2>1. k \in 1..Len(ch) - 1 /\ u[k] = ch[n] /\ n \in 1..Len(ch)
    BY <1>1, <1>2 DEF In
  <2>2. n \in In(ch, c) /\ ch[n].type = "PROBLEM"
    BY <1>1, <1>5, <2>1 DEF In
  <2>3. ASSUME NEW j \in In(ch, c) PROVE j <= n
    <3>1. j \in 1..Len(ch)
      BY <1>1 DEF In
    <3>2. IF j < r THEN j <= k ELSE j - 1 <= k /\ j > r
      BY <1>4, <1>5
    <3> QED BY <1>1, <2>1, <3>1, <3>2
  <2> QED BY <2>2, <2>3 DEF Owed
<1>6. Owed(u, c) => Owed(ch, c)
  BY <1>5 DEF Owed
<1>7. In(ch, c) # {} => In(u, c) # {}
  BY <1>4
<1> QED BY <1>6, <1>7 DEF u

\* New children come after those that wait.
LEMMA ChildrenAdded ==
  ASSUME NEW ch \in Seq(Kids), NEW new \in Seq(Kids), NEW c
  PROVE  LET u == ch \o new
         IN /\ In(ch, c) # {} \/ In(new, c) # {} => In(u, c) # {}
            /\ Owed(u, c) => \/ In(new, c) = {} /\ Owed(ch, c)
                             \/ \E k \in In(new, c) : new[k].type = "PROBLEM"
<1> DEFINE u == ch \o new
           n == Len(ch)
<1>1. /\ n \in Nat /\ Len(new) \in Nat /\ DOMAIN ch = 1..n /\ DOMAIN new = 1..Len(new)
      /\ DOMAIN u = 1..n + Len(new)
      /\ \A k \in DOMAIN ch : k \in DOMAIN u /\ u[k] = ch[k]
      /\ \A k \in DOMAIN new : n + k \in DOMAIN u /\ u[n + k] = new[k]
  OBVIOUS
<1>2. \A k \in DOMAIN u : \/ k \in DOMAIN ch
                          \/ k > n /\ k - n \in DOMAIN new /\ n + (k - n) = k
  BY <1>1
<1> HIDE DEF u, n
<1>3. In(ch, c) \subseteq In(u, c) /\ \A k \in In(new, c) : n + k \in In(u, c)
  BY <1>1 DEF In
<1>4. ASSUME NEW k \in In(u, c), u[k].type = "PROBLEM", \A j \in In(u, c) : j <= k
      PROVE  \/ In(new, c) = {} /\ Owed(ch, c)
             \/ \E j \in In(new, c) : new[j].type = "PROBLEM"
  <2>1. k \in DOMAIN u
    BY DEF In
  <2>2. CASE k \in DOMAIN ch
    <3>1. k \in In(ch, c) /\ ch[k].type = "PROBLEM"
      BY <1>1, <1>4, <2>2 DEF In
    <3>2. \A j \in In(ch, c) : j <= k
      BY <1>3, <1>4
    <3>3. In(new, c) = {}
      <4> SUFFICES ASSUME NEW j \in In(new, c) PROVE FALSE
        OBVIOUS
      <4>1. n + j <= k /\ k <= n /\ j \in 1..Len(new)
        BY <1>1, <1>3, <1>4, <2>2 DEF In
      <4> QED BY <1>1, <2>2, <4>1
    <3> QED BY <3>1, <3>2, <3>3 DEF Owed
  <2>3. CASE k > n /\ k - n \in DOMAIN new /\ n + (k - n) = k
    <3>1. u[k] = new[k - n]
      BY <1>1, <2>3
    <3>2. k - n \in In(new, c) /\ new[k - n].type = "PROBLEM"
      BY <1>4, <2>3, <3>1 DEF In
    <3> QED BY <3>2
  <2> QED BY <1>2, <2>1, <2>2, <2>3
<1>5. Owed(u, c) => \/ In(new, c) = {} /\ Owed(ch, c)
                    \/ \E k \in In(new, c) : new[k].type = "PROBLEM"
  BY <1>4 DEF Owed
<1> QED BY <1>3, <1>5 DEF u

-----------------------------------------------------------------------------
(* The invariant *)

\* A PROBLEM master is never lost; between two turns it is in the scheduler.
Placed ==
  \A k \in Problems(item) :
    /\ item.masters[k].at # "lost"
    /\ item.masters[k].at = "item" => pc = "get"
    /\ item.masters[k].at = "due" => pc = "scatter"

\* Who is to be told of a problem is in notified_contacts_ids.
Tracked == \A c \in Contacts \ excused : Owed(children, c) => c \in item.notified

IInv == TypeOK /\ Sound(item) /\ Placed /\ Tracked /\ NobodyForgotten

LEMMA WaitingIn == \A c : Waiting(c) = In(children, c)
BY DEF Waiting, In

LEMMA InitIInv == Init => IInv
<1> SUFFICES ASSUME Init PROVE IInv
  OBVIOUS
<1>1. Configured
  BY RuleConstants DEF Init, Configured, Phases
<1>2. /\ MaxCommands \in Nat /\ MaxOrphans \in Nat /\ "OK" \in Statuses
      /\ 0 \in Phases /\ Cycle \in Nat \ {0}
  BY NotificationConstants, RuleConstants DEF Phases
<1>3. /\ <<>> \in Seq(BOOLEAN) /\ <<>> \in Seq(Masters) /\ <<>> \in Seq(Kids)
      /\ DOMAIN <<>> = {}
  BY EmptySeq
<1>4. item \in Items /\ item.attempt = 1 /\ item.masters = <<>> /\ item.notified = {}
      /\ item.number = 0 /\ item.state = "OK" /\ item.kind = "HARD"
  BY <1>2, <1>3, Bounds DEF Init, Items
<1>5. TypeOK
  <2>1. item.attempt \in 1..conf.max
    BY <1>1, <1>4, ConfType
  <2>2. told \in [Contacts -> Types \cup {"nothing"}] /\ excused \subseteq Contacts
    BY DEF Init
  <2>3. /\ rest \in 0..CheckInterval /\ commands \in 0..MaxCommands
        /\ orphans \in 0..MaxOrphans /\ silent \in 0..4
    BY <1>2, Bounds DEF Init
  <2>4. /\ pc \in {"consume", "get", "clear", "due", "scatter", "idle"}
        /\ phase \in Phases /\ checked \in Phases
        /\ hostQuiet \in BOOLEAN /\ away \subseteq Contacts
    BY <1>2 DEF Init
  <2>5. children \in Seq(Kids)
    BY <1>3 DEF Init
  <2> QED BY <1>1, <1>4, <2>1, <2>2, <2>3, <2>4, <2>5 DEF TypeOK, Configured, Kids
<1>6. Problems(item) = {}
  BY <1>3, <1>4 DEF Problems
<1>7. Sound(item) /\ Placed
  BY <1>4, <1>6 DEF Sound, Failing, AtMostOne, Placed
<1>8. Tracked
  BY <1>3 DEF Init, Tracked, Owed, In
<1>9. NobodyForgotten
  BY DEF Init, NobodyForgotten
<1> QED BY <1>5, <1>7, <1>8, <1>9 DEF IInv

\* An item with the same masters and numbers is as sound.
LEMMA SoundSame ==
  ASSUME NEW i, NEW r, Sound(i), r.state = i.state, r.kind = i.kind, r.number = i.number,
         Problems(r) = Problems(i)
  PROVE  Sound(r)
BY DEF Sound, Failing, AtMostOne

LEMMA SoundNext ==
  ASSUME conf' = conf, Sound(item')
  PROVE  Sound(item)'
BY DEF Sound, Failing, AtMostOne, Problems

\* A step that leaves the children alone, and whom they are for.
LEMMA NobodyElse ==
  ASSUME IInv, item'.notified = item.notified, UNCHANGED <<children, told, excused>>
  PROVE  Tracked' /\ NobodyForgotten'
BY DEF IInv, Tracked, NobodyForgotten, Waiting, In, Owed

\* What a command does to an item: its PROBLEM masters stay what they are.
Kept(i, r) ==
  /\ r \in Items /\ r.state = i.state /\ r.kind = i.kind /\ r.attempt = i.attempt
  /\ r.notified = i.notified /\ r.number = i.number
  /\ Problems(r) = Problems(i) /\ Fewer(i, r)

LEMMA KeptStep ==
  ASSUME IInv, Kept(item, item'), UNCHANGED <<conf, children, pc, told, excused>>
  PROVE  /\ item' \in Items /\ item'.attempt \in 1..conf'.max
         /\ Sound(item)' /\ Placed' /\ Tracked' /\ NobodyForgotten'
<1>1. item' \in Items /\ item'.attempt \in 1..conf'.max
  BY DEF IInv, TypeOK, Kept
<1>2. Sound(item')
  BY SoundSame DEF IInv, Kept
<1>3. Sound(item)'
  BY <1>2, SoundNext
<1>4. \A k \in Problems(item') : k \in Problems(item) /\ item'.masters[k] = item.masters[k]
  BY DEF Kept, Fewer
<1>5. Problems(item)' = Problems(item')
  BY DEF Problems
<1>6. Placed'
  BY <1>4, <1>5 DEF IInv, Placed
<1> QED BY <1>1, <1>3, <1>6, NobodyElse DEF Kept

LEMMA KeptTwice ==
  ASSUME NEW i, NEW j, NEW r, Kept(i, j), Kept(j, r)
  PROVE  Kept(i, r)
BY DEF Kept, Fewer

LEMMA KeptAnyway ==
  ASSUME NEW i, NEW r \in Items, r.state = i.state, r.kind = i.kind, r.attempt = i.attempt,
         r.notified = i.notified, r.number = i.number, r.masters = i.masters
  PROVE  Kept(i, r)
BY DEF Kept, Fewer, Problems

\* A command that creates a notification, which is no PROBLEM and no RECOVERY.
LEMMA KeptCreates ==
  ASSUME Configured, NEW i \in Items, NEW type \in Types \ {"PROBLEM", "RECOVERY"}
  PROVE  Kept(i, CreateNotifications(i, type))
<1>1. type \in Types /\ type # "PROBLEM" /\ type # "RECOVERY"
  OBVIOUS
<1> DEFINE r == CreateNotifications(i, type)
<1>2. r \in Items /\ Same(i, r) /\ r.number = i.number
  BY <1>1, CreateType
<1>3. Problems(r) = Problems(i) /\ Fewer(i, r)
  BY <1>1, CreateProblems
<1> HIDE DEF r
<1>4. Kept(i, r)
  BY <1>2, <1>3 DEF Kept, Same
<1> QED BY <1>4 DEF r

-----------------------------------------------------------------------------
(* The turn of the main loop *)

LEMMA ConsumeStep ==
  ASSUME IInv, NEW s \in Statuses, NEW enable \in BOOLEAN, NEW dependent \in BOOLEAN,
         Consume(s, enable, dependent)
  PROVE  IInv'
<1>1. Configured /\ item \in Items /\ item.attempt \in 1..conf.max /\ Sound(item)
  BY DEF IInv, TypeOK, Configured
<1>2. conf.depends \/ (enable /\ ~dependent)
  BY DEF Consume
<1>3. /\ item' = ConsumeResult(item, s, enable, dependent)
      /\ rest' = CheckInterval /\ checked' = phase /\ pc = "consume" /\ pc' = "get"
      /\ UNCHANGED <<conf, children, phase, hostQuiet, away, commands, orphans, told, excused>>
  BY DEF Consume
<1>4. Handled(item, item')
  BY <1>1, <1>2, <1>3, ConsumeHandled
<1>5. silent' \in 0..4
  BY DEF IInv, TypeOK, Consume
<1>6. TypeOK'
  BY <1>3, <1>4, <1>5, Bounds DEF IInv, TypeOK, Handled
<1>7. Sound(item)'
  BY <1>3, <1>4, SoundNext DEF Handled
<1>8. Problems(item)' = Problems(item')
  BY DEF Problems
<1>9. Placed'
  BY <1>3, <1>4, <1>8 DEF IInv, Placed, Handled, Fresh
<1>10. Tracked' /\ NobodyForgotten'
  BY <1>3, <1>4, NobodyElse DEF Handled
<1> QED BY <1>6, <1>7, <1>9, <1>10 DEF IInv

\* A master elsewhere, or a second later.
LEMMA Elsewhere ==
  ASSUME NEW m \in Masters, NEW to \in {"item", "scheduler", "due", "lost"}
  PROVE  LET n == [m EXCEPT !.at = to]
         IN n \in Masters /\ n.type = m.type /\ n.at = to /\ n.nb = m.nb /\ n.wait = m.wait
BY DEF Masters

LEMMA Later ==
  ASSUME NEW m \in Masters
  PROVE  /\ Aged(m) \in Masters /\ Aged(m).type = m.type /\ Aged(m).at = m.at
         /\ Aged(m).nb = m.nb
         /\ m.wait > 0 => Aged(m).wait = m.wait - 1
<1> DEFINE wait == IF m.wait + MaxAge > 0 THEN m.wait - 1 ELSE m.wait
           age == IF m.age < MaxAge THEN m.age + 1 ELSE m.age
           n == [m EXCEPT !.wait = wait, !.age = age]
<1>1. m.wait \in Int /\ m.age \in 0..MaxAge
  BY DEF Masters
<1>2. wait \in Int /\ age \in 0..MaxAge
  BY <1>1, Bounds
<1>3. n = Aged(m)
  BY DEF Aged, Masters
<1> HIDE DEF wait, age
<1>4. n \in Masters /\ n.type = m.type /\ n.at = m.at /\ n.nb = m.nb /\ n.wait = wait
  BY <1>2 DEF Masters
<1>5. m.wait > 0 => wait = m.wait - 1
  BY <1>1, Bounds DEF wait
<1> QED BY <1>3, <1>4, <1>5

LEMMA Listed ==
  ASSUME NEW S, NEW n \in Nat, NEW f \in [1..n -> S]
  PROVE  f \in Seq(S) /\ DOMAIN f = 1..n
OBVIOUS

\* A step that only moves the masters along.
LEMMA MovedAlong ==
  ASSUME IInv, NEW ms \in Seq(Masters), DOMAIN ms = DOMAIN item.masters,
         \A k \in DOMAIN ms : ms[k].type = item.masters[k].type,
         item' = [item EXCEPT !.masters = ms], UNCHANGED <<conf, children, told, excused>>
  PROVE  /\ item' \in Items /\ item'.attempt \in 1..conf'.max
         /\ Sound(item)' /\ Tracked' /\ NobodyForgotten'
         /\ Problems(item)' = Problems(item) /\ item'.masters = ms
<1>1. item \in Items /\ item.attempt \in 1..conf.max
  BY DEF IInv, TypeOK
<1>2. /\ item' \in Items /\ item'.state = item.state /\ item'.kind = item.kind
      /\ item'.attempt = item.attempt /\ item'.number = item.number
      /\ item'.notified = item.notified /\ item'.masters = ms
  BY <1>1 DEF Items
<1>3. Problems(item') = Problems(item)
  BY <1>2 DEF Problems
<1>4. Sound(item')
  BY <1>2, <1>3, SoundSame DEF IInv
<1>5. Sound(item)' /\ Problems(item)' = Problems(item')
  BY <1>4, SoundNext DEF Problems
<1> QED BY <1>1, <1>2, <1>3, <1>5, NobodyElse

\* get_new_actions, before and after the list is emptied.
LEMMA MovedType ==
  ASSUME NEW i \in Items, NEW from, NEW to \in {"scheduler", "lost"}
  PROVE  \E ms \in Seq(Masters) :
           /\ Moved(i, from, to) = [i EXCEPT !.masters = ms]
           /\ DOMAIN ms = DOMAIN i.masters
           /\ \A k \in DOMAIN ms : /\ ms[k].type = i.masters[k].type
                                   /\ ms[k].nb = i.masters[k].nb
                                   /\ ms[k].wait = i.masters[k].wait
                                   /\ ms[k].at = IF i.masters[k].at = from THEN to
                                                 ELSE i.masters[k].at
<1> DEFINE s == i.masters
           ms == [k \in DOMAIN s |-> IF s[k].at = from THEN [s[k] EXCEPT !.at = to] ELSE s[k]]
<1>1. s \in Seq(Masters) /\ DOMAIN s = 1..Len(s) /\ Len(s) \in Nat
  BY DEF Items
<1>2. ASSUME NEW k \in DOMAIN s
      PROVE  /\ ms[k] \in Masters /\ ms[k].type = s[k].type
             /\ ms[k].nb = s[k].nb /\ ms[k].wait = s[k].wait
             /\ ms[k].at = IF s[k].at = from THEN to ELSE s[k].at
  <2>1. s[k] \in Masters
    BY <1>1
  <2>2. CASE s[k].at = from
    <3>1. ms[k] = [s[k] EXCEPT !.at = to]
      BY <2>2
    <3>2. to \in {"item", "scheduler", "due", "lost"}
      OBVIOUS
    <3> HIDE DEF ms, s
    <3>3. [s[k] EXCEPT !.at = to] \in Masters
      BY <2>1, <3>2, Elsewhere
    <3>4. /\ [s[k] EXCEPT !.at = to].type = s[k].type /\ [s[k] EXCEPT !.at = to].at = to
          /\ [s[k] EXCEPT !.at = to].nb = s[k].nb /\ [s[k] EXCEPT !.at = to].wait = s[k].wait
      BY <2>1, <3>2, Elsewhere
    <3> QED BY <2>2, <3>1, <3>3, <3>4
  <2>3. CASE s[k].at # from
    BY <2>1, <2>3
  <2> QED BY <2>2, <2>3
<1>3. ms \in Seq(Masters) /\ DOMAIN ms = DOMAIN s
  <2>1. ms \in [1..Len(s) -> Masters]
    BY <1>1, <1>2
  <2> QED BY <1>1, <2>1, Listed
<1>4. \A k \in DOMAIN ms : /\ ms[k].type = s[k].type
                          /\ ms[k].nb = s[k].nb /\ ms[k].wait = s[k].wait
                          /\ ms[k].at = IF s[k].at = from THEN to ELSE s[k].at
  BY <1>2, <1>3
<1>5. Moved(i, from, to) = [i EXCEPT !.masters = ms]
  BY DEF Moved, Items
<1> QED BY <1>3, <1>4, <1>5

LEMMA GetNewActionsStep == ASSUME IInv, GetNewActions PROVE IInv'
<1>1. item \in Items
  BY DEF IInv, TypeOK
<1>2. PICK ms \in Seq(Masters) :
        /\ item' = [item EXCEPT !.masters = ms] /\ DOMAIN ms = DOMAIN item.masters
        /\ \A k \in DOMAIN ms : /\ ms[k].type = item.masters[k].type
                                /\ ms[k].at = IF item.masters[k].at = "item" THEN "scheduler"
                                              ELSE item.masters[k].at
  BY <1>1, MovedType DEF GetNewActions
<1>3. /\ item' \in Items /\ item'.attempt \in 1..conf'.max
      /\ Sound(item)' /\ Tracked' /\ NobodyForgotten'
      /\ Problems(item)' = Problems(item) /\ item'.masters = ms
  BY <1>2, MovedAlong DEF GetNewActions
<1>4. TypeOK'
  BY <1>3 DEF IInv, TypeOK, GetNewActions, envVars
<1>5. Placed'
  BY <1>2, <1>3 DEF IInv, Placed, GetNewActions, Problems
<1> QED BY <1>3, <1>4, <1>5 DEF IInv

LEMMA ClearActionsStep == ASSUME IInv, ClearActions PROVE IInv'
<1>1. item \in Items
  BY DEF IInv, TypeOK
<1>2. PICK ms \in Seq(Masters) :
        /\ item' = [item EXCEPT !.masters = ms] /\ DOMAIN ms = DOMAIN item.masters
        /\ \A k \in DOMAIN ms : /\ ms[k].type = item.masters[k].type
                                /\ ms[k].at = IF item.masters[k].at = "item" THEN "lost"
                                              ELSE item.masters[k].at
  BY <1>1, MovedType DEF ClearActions
<1>3. /\ item' \in Items /\ item'.attempt \in 1..conf'.max
      /\ Sound(item)' /\ Tracked' /\ NobodyForgotten'
      /\ Problems(item)' = Problems(item) /\ item'.masters = ms
  BY <1>2, MovedAlong DEF ClearActions
<1>4. TypeOK'
  BY <1>3 DEF IInv, TypeOK, ClearActions, envVars
<1>5. Placed'
  BY <1>2, <1>3 DEF IInv, Placed, ClearActions, Problems
<1> QED BY <1>3, <1>4, <1>5 DEF IInv

LEMMA DueMastersStep == ASSUME IInv, DueMasters PROVE IInv'
<1> DEFINE s == item.masters
           ms == [k \in DOMAIN s |-> IF s[k].at = "scheduler" /\ s[k].wait <= 0
                                     THEN [s[k] EXCEPT !.at = "due"] ELSE s[k]]
<1>1. /\ item \in Items /\ s \in Seq(Masters) /\ DOMAIN s = 1..Len(s) /\ Len(s) \in Nat
  BY DEF IInv, TypeOK, Items
<1>2. ASSUME NEW k \in DOMAIN s
      PROVE  ms[k] \in Masters /\ ms[k].type = s[k].type /\ ms[k].at \in {s[k].at, "due"}
  <2>1. s[k] \in Masters
    BY <1>1
  <2>2. CASE s[k].at = "scheduler" /\ s[k].wait <= 0
    <3> DEFINE n == [s[k] EXCEPT !.at = "due"]
    <3>1. ms[k] = n
      BY <2>2
    <3>2. n \in Masters /\ n.type = s[k].type /\ n.at = "due"
      <4> HIDE DEF s
      <4> QED BY <2>1, Elsewhere
    <3> HIDE DEF ms, s, n
    <3> QED BY <3>1, <3>2
  <2>3. CASE ~(s[k].at = "scheduler" /\ s[k].wait <= 0)
    <3>1. ms[k] = s[k]
      BY <2>3
    <3> HIDE DEF ms, s
    <3> QED BY <2>1, <3>1
  <2> QED BY <2>2, <2>3
<1>3. ms \in Seq(Masters) /\ DOMAIN ms = DOMAIN s
  <2>1. ms \in [1..Len(s) -> Masters]
    BY <1>1, <1>2
  <2> QED BY <1>1, <2>1, Listed
<1>4. \A k \in DOMAIN ms : ms[k].type = s[k].type /\ ms[k].at \in {s[k].at, "due"}
  BY <1>2, <1>3
<1>5. item' = [item EXCEPT !.masters = ms]
  BY <1>1 DEF DueMasters, Items
<1>6. pc = "due" /\ pc' = "scatter"
      /\ UNCHANGED <<conf, children, envVars, commands, orphans, silent, told, excused>>
  BY DEF DueMasters
<1> HIDE DEF ms
<1>7. /\ item' \in Items /\ item'.attempt \in 1..conf'.max
      /\ Sound(item)' /\ Tracked' /\ NobodyForgotten'
      /\ Problems(item)' = Problems(item) /\ item'.masters = ms
  BY <1>3, <1>4, <1>5, <1>6, MovedAlong
<1>8. TypeOK'
  BY <1>6, <1>7 DEF IInv, TypeOK, envVars
<1>9. Placed'
  BY <1>3, <1>4, <1>6, <1>7 DEF IInv, Placed, Problems
<1> QED BY <1>7, <1>8, <1>9 DEF IInv

LEMMA TickStep == ASSUME IInv, Tick PROVE IInv'
<1> DEFINE s == item.masters
           ms == [k \in DOMAIN s |-> Aged(s[k])]
           seen == [x \in Statuses |->
                      IF item.seen[x] \in 0..MaxAge - 1 THEN item.seen[x] + 1
                      ELSE item.seen[x]]
<1>1. /\ item \in Items /\ s \in Seq(Masters) /\ DOMAIN s = 1..Len(s) /\ Len(s) \in Nat
      /\ item.attempt \in 1..conf.max
  BY DEF IInv, TypeOK, Items
<1>2. ASSUME NEW k \in DOMAIN s
      PROVE  ms[k] \in Masters /\ ms[k].type = s[k].type /\ ms[k].at = s[k].at
  <2>1. s[k] \in Masters
    BY <1>1
  <2> HIDE DEF s
  <2> QED BY <2>1, Later
<1>3. ms \in Seq(Masters) /\ DOMAIN ms = DOMAIN s
  <2>1. ms \in [1..Len(s) -> Masters]
    BY <1>1, <1>2
  <2>2. DOMAIN ms = 1..Len(s) /\ Len(s) \in Nat
    BY <1>1
  <2> HIDE DEF ms, s
  <2> QED BY <1>1, <2>1, <2>2, Listed, SMTT(30)
<1>4. \A k \in DOMAIN ms : ms[k].type = s[k].type /\ ms[k].at = s[k].at
  BY <1>2, <1>3
<1>5. seen \in [Statuses -> -1..MaxAge]
  <2>1. item.seen \in [Statuses -> -1..MaxAge]
    BY DEF IInv, TypeOK, Items
  <2>2. \A x \in Statuses : item.seen[x] \in 0..MaxAge - 1 => item.seen[x] + 1 \in -1..MaxAge
    BY <2>1, Bounds
  <2> QED BY <2>1, <2>2
<1>6. item' = [item EXCEPT !.masters = ms, !.seen = seen]
  <2> DEFINE h == [item EXCEPT !.masters = ms]
  <2>1. h.seen = item.seen
    BY <1>1 DEF Items
  <2>2. item' = [h EXCEPT !.seen = [x \in Statuses |->
                   IF h.seen[x] \in 0..MaxAge - 1 THEN h.seen[x] + 1 ELSE h.seen[x]]]
    BY DEF Tick
  <2> QED BY <2>1, <2>2
<1>7. /\ pc = "idle" /\ pc' = "consume" /\ phase' = (phase + 1) % Cycle
      /\ rest' = IF rest = 0 THEN 0 ELSE rest - 1
      /\ UNCHANGED <<conf, children, checked, hostQuiet, away, commands, orphans, silent,
                     told, excused>>
  BY DEF Tick
<1> HIDE DEF ms, seen
<1>8. /\ item' \in Items /\ item'.state = item.state /\ item'.kind = item.kind
      /\ item'.attempt = item.attempt /\ item'.number = item.number
      /\ item'.notified = item.notified /\ item'.masters = ms
  BY <1>1, <1>3, <1>5, <1>6 DEF Items
<1>9. Problems(item') = Problems(item)
  BY <1>3, <1>4, <1>8 DEF Problems
<1>10. Sound(item)'
  BY <1>7, <1>8, <1>9, SoundSame, SoundNext DEF IInv
<1>11. phase' \in Phases /\ rest' \in 0..CheckInterval
  <2>1. phase + 1 \in Int /\ Cycle \in Nat \ {0}
    BY RuleConstants DEF IInv, TypeOK, Phases
  <2>2. (phase + 1) % Cycle \in 0..Cycle - 1
    BY <2>1
  <2>3. phase' \in Phases
    BY <1>7, <2>2 DEF Phases
  <2> QED BY <1>7, <2>3, Bounds DEF IInv, TypeOK
<1>12. TypeOK'
  BY <1>1, <1>7, <1>8, <1>11 DEF IInv, TypeOK
<1>13. Placed'
  BY <1>3, <1>4, <1>7, <1>8, <1>9 DEF IInv, Placed, Problems
<1>14. Tracked' /\ NobodyForgotten'
  BY <1>7, <1>8, NobodyElse
<1> QED BY <1>10, <1>12, <1>13, <1>14 DEF IInv

-----------------------------------------------------------------------------
(* The scattering of a master *)

LEMMA RecipientsType ==
  ASSUME Configured, NEW i \in Items, NEW m
  PROVE  Recipients(i, m) \subseteq Contacts
<1>1. i.notified \subseteq Contacts /\ conf.contacts \subseteq Contacts
  BY ConfType DEF Items
<1>2. \A e \in Eligible(i.state, m, phase) : e.contacts \subseteq Contacts
  BY RuleConstants DEF Eligible
<1> QED BY <1>1, <1>2 DEF Recipients

LEMMA NewChildren ==
  ASSUME Configured, NEW i \in Items, NEW m \in Masters
  PROVE  LET new == ChildrenOf(i, m)
         IN /\ IsFiniteSet(new) /\ new \subseteq Kids
            /\ \A x \in new : x.type = m.type /\ x.status = "scheduled"
<1> DEFINE new == ChildrenOf(i, m)
           R == Recipients(i, m)
           Kid(p) == [type |-> m.type, contact |-> p[1], way |-> p[2], status |-> "scheduled"]
           Q == { q \in R \X DOMAIN Ways :
                    ContactWants(q[1], q[2], away, i.state, m.type, checked) }
<1>1. CASE Blocks(i, m.type, 0)
  <2>1. new = {}
    BY <1>1 DEF ChildrenOf
  <2> QED BY <2>1, FS_EmptySet
<1>2. CASE ~Blocks(i, m.type, 0)
  <2>1. new = { Kid(p) : p \in Q }
    BY <1>2 DEF ChildrenOf
  <2>2. R \subseteq Contacts
    BY RecipientsType
  <2>3. IsFiniteSet(Q)
    <3>1. IsFiniteSet(R) /\ IsFiniteSet(DOMAIN Ways)
      BY <2>2, RuleConstants, FS_Subset
    <3>2. IsFiniteSet(R \X DOMAIN Ways)
      BY <3>1, FS_Product
    <3>3. Q \in SUBSET (R \X DOMAIN Ways)
      OBVIOUS
    <3> HIDE DEF Q, R
    <3> QED BY <3>2, <3>3, FS_Subset
  <2>4. \A p \in Q : p[1] \in Contacts /\ p[2] \in DOMAIN Ways
    BY <2>2
  <2> HIDE DEF new, Q
  <2>5. \A p \in Q : Kid(p) \in Kids
    BY <2>4 DEF Kids, Masters
  <2> DEFINE f == [p \in Q |-> Kid(p)]
  <2>6. f \in Surjection(Q, new)
    BY <2>1 DEF Surjection
  <2>7. IsFiniteSet(new)
    <3> HIDE DEF f
    <3> QED BY <2>3, <2>6, FS_Surjection
  <2>8. \A x \in new : x \in Kids /\ x.type = m.type /\ x.status = "scheduled"
    BY <2>1, <2>5
  <2> QED BY <2>7, <2>8 DEF new
<1> QED BY <1>1, <1>2

\* A RECOVERY that is not blocked has a child for each notified contact, unless
\* the contact wants none.
LEMMA RecoveryChildren ==
  ASSUME TypeOK, NEW m, m.type = "RECOVERY", ~Blocks(item, m.type, 0),
         NEW c \in item.notified, ~Refuses(c)
  PROVE  \E x \in ChildrenOf(item, m) : x.contact = c
<1>1. c \in Contacts
  BY DEF TypeOK, Items
<1>2. PICK w \in WaysOf[c] : ContactWants(c, w, away, item.state, "RECOVERY", checked)
  BY DEF Refuses
<1>3. w \in DOMAIN Ways
  BY <1>1, RuleConstants
<1>4. c \in Recipients(item, m)
  BY DEF Recipients
<1> DEFINE q == <<c, w>>
<1>5. q \in Recipients(item, m) \X DOMAIN Ways /\ q[1] = c /\ q[2] = w
  BY <1>3, <1>4
<1>6. ContactWants(q[1], q[2], away, item.state, m.type, checked)
  BY <1>2, <1>5
<1> DEFINE Kid(p) == [type |-> m.type, contact |-> p[1], way |-> p[2], status |-> "scheduled"]
           Q == { p \in Recipients(item, m) \X DOMAIN Ways :
                    ContactWants(p[1], p[2], away, item.state, m.type, checked) }
<1>7. ChildrenOf(item, m) = { Kid(p) : p \in Q }
  BY DEF ChildrenOf
<1>8. Kid(q).contact = c
  BY <1>5
<1> HIDE DEF q
<1>9. q \in Q
  BY <1>5, <1>6
<1> HIDE DEF Q, Kid
<1> QED BY <1>7, <1>8, <1>9

\* The PROBLEM masters of a list.
InList(ms) == {k \in DOMAIN ms : ms[k].type = "PROBLEM"}

LEMMA MasterRemoved ==
  ASSUME NEW ms \in Seq(Masters), NEW k \in DOMAIN ms, \A a, b \in InList(ms) : a = b
  PROVE  LET u == RemoveAt(ms, k)
         IN /\ u \in Seq(Masters) /\ \A a, b \in InList(u) : a = b
            /\ \A a \in InList(u) : \E b \in InList(ms) : u[a] = ms[b]
            /\ ms[k].type # "PROBLEM" /\ InList(ms) # {} => InList(u) # {}
<1> DEFINE u == RemoveAt(ms, k)
<1>1. DOMAIN ms = 1..Len(ms) /\ Len(ms) \in Nat /\ k \in 1..Len(ms)
  OBVIOUS
<1>2. /\ u \in Seq(Masters) /\ DOMAIN u = 1..Len(ms) - 1
      /\ \A a \in DOMAIN u : u[a] = IF a < k THEN ms[a] ELSE ms[a + 1]
  BY <1>1, RemovedAt
<1> HIDE DEF u
<1> DEFINE at(a) == IF a < k THEN a ELSE a + 1
<1>3. ASSUME NEW a \in InList(u)
      PROVE  at(a) \in InList(ms) /\ u[a] = ms[at(a)] /\ a \in Int
  <2>1. a \in 1..Len(ms) - 1 /\ at(a) \in 1..Len(ms) /\ u[a] = ms[at(a)]
    BY <1>1, <1>2 DEF InList
  <2> QED BY <1>1, <2>1 DEF InList
<1>4. ASSUME NEW a \in InList(u), NEW b \in InList(u) PROVE a = b
  <2>1. at(a) = at(b)
    BY <1>3
  <2> QED BY <1>1, <1>3, <2>1
<1>5. ASSUME NEW a \in InList(ms), ms[k].type # "PROBLEM" PROVE InList(u) # {}
  <2> DEFINE b == IF a < k THEN a ELSE a - 1
  <2>1. a \in 1..Len(ms) /\ a # k
    BY <1>1, <1>5 DEF InList
  <2>2. b \in 1..Len(ms) - 1 /\ at(b) = a
    BY <1>1, <2>1
  <2>3. u[b] = ms[a]
    BY <1>2, <2>2
  <2> QED BY <1>2, <2>2, <2>3 DEF InList
<1>6. \A a \in InList(u) : \E b \in InList(ms) : u[a] = ms[b]
  BY <1>3
<1> HIDE DEF at
<1> QED BY <1>2, <1>4, <1>5, <1>6 DEF u

\* The masters after a scattering.
LEMMA RepeatedList ==
  ASSUME Configured, NEW i \in Items, AtMostOne(i), NEW k \in DOMAIN i.masters,
         NEW number \in 0..MaxNumber
  PROVE  LET u == Repeated(i, k, number)
         IN /\ u \in Seq(Masters) /\ \A a, b \in InList(u) : a = b
            /\ \A a \in InList(u) : \/ u[a].at = "scheduler" /\ u[a].nb = Capped(number + 1)
                                    \/ \E b \in Problems(i) : u[a] = i.masters[b]
            /\ InList(u) # {} => Problems(i) # {}
            /\ conf.interval # 0 /\ Problems(i) # {} => InList(u) # {}
<1> DEFINE ms == i.masters
           m == ms[k]
           u == Repeated(i, k, number)
<1>1. ms \in Seq(Masters) /\ m \in Masters /\ DOMAIN ms = 1..Len(ms)
  BY DEF Items
<1>2. Problems(i) = InList(ms) /\ \A a, b \in InList(ms) : a = b
  BY DEF Problems, InList, AtMostOne
<1>3. CASE m.type = "PROBLEM" /\ conf.interval # 0
  <2> DEFINE tag == IF Blocks(i, m.type, 0) THEN {} ELSE Eligible(i.state, m, phase)
             n == [m EXCEPT !.started = @ \cup tag, !.at = "scheduler"]
             x == [n EXCEPT !.wait = GetNextNotificationTime(n, i.state, conf.interval, phase),
                            !.nb = Capped(number + 1)]
  <2>1. tag \subseteq Escalations
    BY DEF Eligible
  <2>2. u = [ms EXCEPT ![k] = x]
    BY <1>3 DEF Repeated
  <2> HIDE DEF tag
  <2>3. n \in Masters /\ n.type = m.type /\ n.at = "scheduler"
    BY <1>1, <2>1 DEF Masters
  <2> HIDE DEF n
  <2>4. GetNextNotificationTime(n, i.state, conf.interval, phase) \in Int
    BY <2>3, ConfType, NextNotificationTime DEF Configured
  <2>5. Capped(number + 1) \in 0..MaxNumber
    BY Bounds, CappedBound
  <2>6. /\ x \in Masters /\ x.type = "PROBLEM" /\ x.at = "scheduler"
        /\ x.nb = Capped(number + 1)
    BY <1>3, <2>3, <2>4, <2>5 DEF Masters
  <2> HIDE DEF x, u, m, ms
  <2>7. /\ u \in Seq(Masters) /\ DOMAIN u = DOMAIN ms /\ u[k] = x
        /\ \A j \in DOMAIN ms : j # k => u[j] = ms[j]
    BY <1>1, <2>2, <2>6 DEF ms
  <2>8. k \in DOMAIN ms /\ k \in InList(ms)
    BY <1>3 DEF InList, m, ms
  <2>9. InList(u) = InList(ms)
    BY <1>3, <2>6, <2>7, <2>8 DEF InList, m
  <2>10. \A a \in InList(u) : a = k
    BY <1>2, <2>8, <2>9
  <2>11. \A a \in InList(u) : u[a].at = "scheduler" /\ u[a].nb = Capped(number + 1)
    BY <2>6, <2>7, <2>10
  <2> QED BY <1>2, <2>7, <2>9, <2>11 DEF u
<1>4. CASE ~(m.type = "PROBLEM" /\ conf.interval # 0)
  <2>1. u = RemoveAt(ms, k)
    BY <1>4 DEF Repeated
  <2>2. conf.interval # 0 => ms[k].type # "PROBLEM"
    BY <1>4
  <2> HIDE DEF u, ms, m
  <2>3. k \in DOMAIN ms
    BY DEF ms
  <2>4. /\ u \in Seq(Masters) /\ \A a, b \in InList(u) : a = b
        /\ \A a \in InList(u) : \E b \in InList(ms) : u[a] = ms[b]
        /\ ms[k].type # "PROBLEM" /\ InList(ms) # {} => InList(u) # {}
    <3>1. ms \in Seq(Masters) /\ \A a, b \in InList(ms) : a = b
      BY <1>1, <1>2
    <3> QED BY <2>1, <2>3, <3>1, MasterRemoved
  <2>5. \A a \in InList(u) : \E b \in Problems(i) : u[a] = i.masters[b]
    BY <1>2, <2>4 DEF ms
  <2> QED BY <1>2, <2>2, <2>4, <2>5 DEF u
<1> QED BY <1>3, <1>4

LEMMA ScatterMasterStep ==
  ASSUME IInv, NEW k \in DOMAIN item.masters, ScatterMaster(k)
  PROVE  IInv'
<1> DEFINE m == item.masters[k]
           new == ChildrenOf(item, m)
           ls == SetToSeq(new)
           number == IF m.type = "PROBLEM" /\ new # {} THEN m.nb ELSE item.number
           ms == Repeated(item, k, number)
           blocked == Blocks(item, m.type, 0)
<1>1. Configured /\ item \in Items /\ TypeOK /\ Sound(item) /\ AtMostOne(item)
  BY DEF IInv, TypeOK, Configured, Sound
<1>2. m \in Masters
  BY <1>1 DEF Items
<1>3. /\ IsFiniteSet(new) /\ new \subseteq Kids
      /\ \A x \in new : x.type = m.type /\ x.status = "scheduled"
  BY <1>1, <1>2, NewChildren
<1>4. number \in 0..MaxNumber
  BY <1>1, <1>2 DEF Items, Masters
<1>5. /\ item' = [item EXCEPT !.number = number, !.notified = Notified(item, m, new),
                              !.masters = ms]
      /\ children' = children \o ls
      /\ excused' = IF m.type = "RECOVERY" /\ ~blocked
                    THEN excused \cup { c \in item.notified : Refuses(c) } ELSE excused
      /\ pc = "scatter" /\ UNCHANGED <<conf, pc, envVars, commands, orphans, silent, told>>
  BY DEF ScatterMaster
<1>6. ls \in Seq(Kids) /\ ToSet(ls) = new
  <2> HIDE DEF new
  <2>1. ls \in Seq(new) /\ ToSet(ls) = new
    BY <1>3, ListOf
  <2> QED BY <1>3, <2>1
<1>7. Notified(item, m, new) \subseteq Contacts
  <2>1. \A x \in new : x.contact \in Contacts
    BY <1>3 DEF Kids
  <2> HIDE DEF new
  <2> QED BY <1>1, <2>1 DEF Notified, Items
<1>8. /\ ms \in Seq(Masters) /\ \A a, b \in InList(ms) : a = b
      /\ \A a \in InList(ms) : \/ ms[a].at = "scheduler"
                               \/ \E b \in Problems(item) : ms[a] = item.masters[b]
      /\ InList(ms) # {} => Problems(item) # {}
      /\ conf.interval # 0 /\ Problems(item) # {} => InList(ms) # {}
  <2> HIDE DEF number
  <2> QED BY <1>1, <1>4, RepeatedList
<1>n. m.type # "PROBLEM" => number = item.number
  OBVIOUS
<1>p. m.type = "PROBLEM" => Problems(item) # {}
  BY DEF Problems
<1>c. excused \subseteq excused' /\ excused' \subseteq Contacts
  BY <1>1, <1>5 DEF TypeOK, Items
<1>i. \A c : \A x \in DOMAIN ls : ls[x] \in new /\ ls[x] \in Kids
  BY <1>6 DEF ToSet
<1>t. \A x \in new : \E y \in DOMAIN ls : ls[y] = x
  BY <1>6 DEF ToSet
<1> HIDE DEF number, ms, ls, new, m
<1>9. /\ item' \in Items /\ item'.state = item.state /\ item'.kind = item.kind
      /\ item'.attempt = item.attempt /\ item'.number = number
      /\ item'.notified = Notified(item, m, new) /\ item'.masters = ms
  BY <1>1, <1>4, <1>5, <1>7, <1>8 DEF Items
<1>10. Problems(item') = InList(ms)
  BY <1>9 DEF Problems, InList
<1>11. Sound(item)'
  <2>1. Sound(item')
    BY <1>1, <1>8, <1>9, <1>10, <1>n, <1>p DEF Sound, Failing, AtMostOne
  <2> QED BY <1>5, <2>1, SoundNext
<1>12. Placed'
  <2>1. Problems(item)' = InList(ms)
    BY <1>10 DEF Problems
  <2> QED BY <1>5, <1>8, <1>9, <2>1 DEF IInv, Placed
<1>13. children' \in Seq(Kids) /\ children \in Seq(Kids)
  BY <1>1, <1>5, <1>6, ConcatProperties DEF TypeOK, Kids
<1>14. TypeOK'
  BY <1>1, <1>5, <1>9, <1>13, <1>c DEF TypeOK, envVars, Kids
<1>15. \A c : /\ In(children, c) # {} \/ In(ls, c) # {} => In(children', c) # {}
              /\ Owed(children', c) => \/ In(ls, c) = {} /\ Owed(children, c)
                                       \/ \E x \in In(ls, c) : ls[x].type = "PROBLEM"
  BY <1>5, <1>6, <1>13, ChildrenAdded
<1>16. ASSUME NEW c \in item.notified, m.type = "RECOVERY", ~blocked, c \notin excused'
       PROVE  In(ls, c) # {}
  <2>1. ~Refuses(c)
    BY <1>5, <1>16
  <2>2. PICK x \in new : x.contact = c
    BY <1>1, <1>16, <2>1, RecoveryChildren DEF new
  <2>3. PICK y \in DOMAIN ls : ls[y] = x
    BY <1>t
  <2> QED BY <1>3, <1>16, <2>2, <2>3 DEF In
<1>17. m.type = "PROBLEM" => item'.notified = item.notified \cup { x.contact : x \in new }
  BY <1>9 DEF Notified
<1>18. m.type # "PROBLEM" /\ ~(m.type = "RECOVERY" /\ ~blocked)
         => item'.notified = item.notified
  BY <1>9 DEF Notified
<1>19. ASSUME NEW c \in Contacts \ excused', Owed(children', c)
       PROVE  c \in item'.notified
  <2>1. CASE In(ls, c) = {} /\ Owed(children, c)
    <3>1. c \in item.notified
      BY <1>c, <2>1 DEF IInv, Tracked
    <3>2. ~(m.type = "RECOVERY" /\ ~blocked)
      BY <1>16, <2>1, <3>1
    <3> QED BY <1>17, <1>18, <3>1, <3>2
  <2>2. CASE \E x \in In(ls, c) : ls[x].type = "PROBLEM"
    <3>1. PICK x \in In(ls, c) : ls[x].type = "PROBLEM"
      BY <2>2
    <3>2. ls[x] \in new /\ ls[x].contact = c /\ m.type = "PROBLEM"
      BY <1>3, <1>i, <3>1 DEF In
    <3> QED BY <1>17, <3>2
  <2> QED BY <1>15, <1>19, <2>1, <2>2
<1>20. Tracked'
  BY <1>19 DEF Tracked, Owed, In
<1>21. ASSUME NEW c \in Contacts, told'[c] = "PROBLEM", c \notin excused'
       PROVE  c \in item'.notified \/ In(children', c) # {}
  <2>1. c \in item.notified \/ In(children, c) # {}
    BY <1>5, <1>21, <1>c, WaitingIn DEF IInv, NobodyForgotten
  <2>2. CASE In(children, c) # {}
    BY <1>15, <2>2
  <2>3. CASE c \in item.notified /\ m.type = "RECOVERY" /\ ~blocked
    BY <1>15, <1>16, <1>21, <2>3
  <2>4. CASE c \in item.notified /\ ~(m.type = "RECOVERY" /\ ~blocked)
    BY <1>17, <1>18, <2>4
  <2> QED BY <2>1, <2>2, <2>3, <2>4
<1>22. NobodyForgotten'
  BY <1>21 DEF NobodyForgotten, Waiting, In
<1> QED BY <1>11, <1>12, <1>14, <1>20, <1>22 DEF IInv

LEMMA ScatterEndStep == ASSUME IInv, ScatterEnd PROVE IInv'
<1>1. UNCHANGED <<conf, item, children, envVars, commands, orphans, silent, told, excused>>
      /\ pc = "scatter" /\ pc' = "idle"
      /\ \A k \in DOMAIN item.masters : item.masters[k].at # "due"
  BY DEF ScatterEnd
<1>2. TypeOK'
  BY <1>1 DEF IInv, TypeOK, envVars
<1>3. Sound(item)'
  BY <1>1, SoundNext DEF IInv
<1>4. Placed'
  BY <1>1 DEF IInv, Placed, Problems
<1> QED BY <1>1, <1>2, <1>3, <1>4, NobodyElse DEF IInv

LEMMA NoResultStep == ASSUME IInv, NoResult PROVE IInv'
<1>1. UNCHANGED <<conf, item, children, envVars, commands, orphans, silent, told, excused>>
      /\ pc = "consume" /\ pc' = "get"
  BY DEF NoResult
<1>2. TypeOK'
  BY <1>1 DEF IInv, TypeOK, envVars
<1>3. Sound(item)'
  BY <1>1, SoundNext DEF IInv
<1>4. Placed'
  BY <1>1 DEF IInv, Placed, Problems
<1> QED BY <1>1, <1>2, <1>3, <1>4, NobodyElse DEF IInv

-----------------------------------------------------------------------------
(* Commands and downtimes *)

\* A command changes the item, who is away and whether the host is quiet.
LEMMA CommandStep ==
  ASSUME IInv, NEW kind, Command(kind), Kept(item, item'),
         hostQuiet' \in BOOLEAN, away' \subseteq Contacts
  PROVE  IInv'
<1>1. /\ UNCHANGED <<conf, children, pc, phase, checked, rest, orphans, told, excused>>
      /\ commands < MaxCommands /\ commands' = commands + 1 /\ silent' = 0
  BY DEF Command
<1>2. /\ item' \in Items /\ item'.attempt \in 1..conf'.max
      /\ Sound(item)' /\ Placed' /\ Tracked' /\ NobodyForgotten'
  BY <1>1, KeptStep
<1>3. commands' \in 0..MaxCommands
  BY <1>1, NotificationConstants DEF IInv, TypeOK
<1>4. TypeOK'
  BY <1>1, <1>2, <1>3 DEF IInv, TypeOK
<1> QED BY <1>2, <1>4 DEF IInv

LEMMA KeptAcknowledged ==
  ASSUME Configured, NEW i \in Items, NEW sticky \in BOOLEAN, NEW notify \in BOOLEAN
  PROVE  Kept(i, Acknowledged(i, sticky, notify))
<1> DEFINE j == IF notify THEN CreateNotifications(i, "ACKNOWLEDGEMENT") ELSE i
           r == [j EXCEPT !.ack = IF sticky THEN "sticky" ELSE "normal"]
<1>1. "ACKNOWLEDGEMENT" \in Types \ {"PROBLEM", "RECOVERY"}
  BY DEF Types
<1>2. Kept(i, CreateNotifications(i, "ACKNOWLEDGEMENT"))
  BY <1>1, KeptCreates
<1>3. Kept(i, i)
  BY KeptAnyway
<1>4. Kept(i, j)
  BY <1>2, <1>3, Zenon
<1> HIDE DEF j
<1>5. j \in Items
  BY <1>4 DEF Kept
<1>6. /\ r \in Items /\ r.state = j.state /\ r.kind = j.kind /\ r.attempt = j.attempt
      /\ r.notified = j.notified /\ r.number = j.number /\ r.masters = j.masters
  BY <1>5 DEF Items
<1> HIDE DEF r
<1>7. Kept(j, r)
  BY <1>6, KeptAnyway
<1>8. Kept(i, r)
  BY <1>4, <1>7, KeptTwice
<1>9. Acknowledged(i, sticky, notify) = IF i.state = "OK" THEN i ELSE r
  BY DEF Acknowledged, j, r
<1> QED BY <1>3, <1>8, <1>9, Zenon

LEMMA AcknowledgeProblemStep ==
  ASSUME IInv, NEW sticky \in BOOLEAN, NEW notify \in BOOLEAN,
         AcknowledgeProblem(sticky, notify)
  PROVE  IInv'
<1>1. Configured /\ item \in Items /\ hostQuiet \in BOOLEAN /\ away \subseteq Contacts
  BY DEF IInv, TypeOK, Configured
<1>2. /\ Command("ack") /\ item' = Acknowledged(item, sticky, notify)
      /\ UNCHANGED <<hostQuiet, away>>
  BY DEF AcknowledgeProblem
<1>3. Kept(item, item')
  BY <1>1, <1>2, KeptAcknowledged
<1> QED BY <1>1, <1>2, <1>3, CommandStep

LEMMA ToggleNotificationsStep == ASSUME IInv, ToggleNotifications PROVE IInv'
<1>1. item \in Items /\ hostQuiet \in BOOLEAN /\ away \subseteq Contacts
  BY DEF IInv, TypeOK
<1>2. /\ Command("toggle") /\ item' = [item EXCEPT !.enabled = ~@]
      /\ UNCHANGED <<hostQuiet, away>>
  BY DEF ToggleNotifications
<1>3. /\ item' \in Items /\ item'.state = item.state /\ item'.kind = item.kind
      /\ item'.attempt = item.attempt /\ item'.notified = item.notified
      /\ item'.number = item.number /\ item'.masters = item.masters
  BY <1>1, <1>2 DEF Items
<1>4. Kept(item, item')
  BY <1>3, KeptAnyway
<1> QED BY <1>1, <1>2, <1>4, CommandStep

LEMMA HostChangesStep == ASSUME IInv, HostChanges PROVE IInv'
<1>1. item \in Items /\ hostQuiet \in BOOLEAN /\ away \subseteq Contacts
  BY DEF IInv, TypeOK
<1>2. Command("host") /\ hostQuiet' = ~hostQuiet /\ UNCHANGED <<item, away>>
  BY DEF HostChanges
<1>3. Kept(item, item')
  BY <1>1, <1>2, KeptAnyway
<1>4. hostQuiet' \in BOOLEAN /\ away' \subseteq Contacts
  BY <1>1, <1>2
<1> QED BY <1>2, <1>3, <1>4, CommandStep

LEMMA ContactAwayStep == ASSUME IInv, NEW c \in Contacts, ContactAway(c) PROVE IInv'
<1>1. item \in Items /\ hostQuiet \in BOOLEAN /\ away \subseteq Contacts
  BY DEF IInv, TypeOK
<1>2. /\ Command("contact") /\ UNCHANGED <<item, hostQuiet>>
      /\ away' = IF c \in away THEN away \ {c} ELSE away \cup {c}
  BY DEF ContactAway
<1>3. Kept(item, item')
  BY <1>1, <1>2, KeptAnyway
<1>4. hostQuiet' \in BOOLEAN /\ away' \subseteq Contacts
  BY <1>1, <1>2
<1> QED BY <1>2, <1>3, <1>4, CommandStep

\* Entering a downtime: the depth, the notification, and for a host that begins
\* one the acknowledgement.
LEMMA EnterDowntimeStep == ASSUME IInv, EnterDowntime PROVE IInv'
<1> DEFINE i == [item EXCEPT !.depth = item.depth + 1]
           j == CreateNotifications(i, "DOWNTIMESTART")
           a == Acknowledged(j, TRUE, TRUE)
<1>1. Configured /\ item \in Items /\ hostQuiet \in BOOLEAN /\ away \subseteq Contacts
  BY DEF IInv, TypeOK, Configured
<1>2. /\ Command("downtime") /\ item.depth < 2 /\ UNCHANGED <<hostQuiet, away>>
      /\ item' \in {i, j, a}
  BY DEF EnterDowntime
<1>3. item.depth + 1 \in 0..2
  BY <1>1, <1>2 DEF Items
<1>4. /\ i \in Items /\ i.state = item.state /\ i.kind = item.kind
      /\ i.attempt = item.attempt /\ i.notified = item.notified
      /\ i.number = item.number /\ i.masters = item.masters
  BY <1>1, <1>3 DEF Items
<1> HIDE DEF i
<1>5. Kept(item, i)
  BY <1>4, KeptAnyway
<1>6. Kept(i, j)
  <2>1. "DOWNTIMESTART" \in Types \ {"PROBLEM", "RECOVERY"}
    BY DEF Types, Downtimes
  <2> QED BY <1>1, <1>4, <2>1, KeptCreates
<1>7. Kept(item, j) /\ j \in Items
  BY <1>5, <1>6, KeptTwice DEF Kept
<1> HIDE DEF j
<1>8. Kept(j, a)
  BY <1>1, <1>7, KeptAcknowledged
<1>9. Kept(item, a)
  BY <1>7, <1>8, KeptTwice
<1> HIDE DEF a
<1>10. Kept(item, item')
  BY <1>2, <1>5, <1>7, <1>9
<1> QED BY <1>1, <1>2, <1>10, CommandStep

\* What ends by itself: an acknowledgement or a downtime.
LEMMA EndStep ==
  ASSUME IInv, Kept(item, item'), silent' = 0,
         UNCHANGED <<conf, children, pc, envVars, commands, orphans, told, excused>>
  PROVE  IInv'
<1>1. /\ item' \in Items /\ item'.attempt \in 1..conf'.max
      /\ Sound(item)' /\ Placed' /\ Tracked' /\ NobodyForgotten'
  BY KeptStep
<1>2. TypeOK'
  BY <1>1 DEF IInv, TypeOK, envVars
<1> QED BY <1>1, <1>2 DEF IInv

LEMMA RemoveAcknowledgementStep == ASSUME IInv, RemoveAcknowledgement PROVE IInv'
<1>1. item \in Items
  BY DEF IInv, TypeOK
<1>2. /\ item' \in Items /\ item'.state = item.state /\ item'.kind = item.kind
      /\ item'.attempt = item.attempt /\ item'.notified = item.notified
      /\ item'.number = item.number /\ item'.masters = item.masters
  BY <1>1 DEF RemoveAcknowledgement, Unacknowledge, Items
<1>3. Kept(item, item')
  BY <1>2, KeptAnyway
<1> QED BY <1>3, EndStep DEF RemoveAcknowledgement

LEMMA ExitDowntimeStep == ASSUME IInv, ExitDowntime PROVE IInv'
<1> DEFINE i == [item EXCEPT !.depth = item.depth - 1]
           j == IF i.depth = 0 THEN CreateNotifications(i, "DOWNTIMEEND") ELSE i
<1>1. Configured /\ item \in Items
  BY DEF IInv, TypeOK, Configured
<1>2. item.depth > 0 /\ item' = [j EXCEPT !.ended = TRUE]
  BY DEF ExitDowntime
<1>3. item.depth - 1 \in 0..2
  BY <1>1, <1>2 DEF Items
<1>4. /\ i \in Items /\ i.state = item.state /\ i.kind = item.kind
      /\ i.attempt = item.attempt /\ i.notified = item.notified
      /\ i.number = item.number /\ i.masters = item.masters
  BY <1>1, <1>3 DEF Items
<1> HIDE DEF i
<1>5. Kept(item, i) /\ Kept(i, i)
  BY <1>4, KeptAnyway
<1>6. Kept(i, CreateNotifications(i, "DOWNTIMEEND"))
  <2>1. "DOWNTIMEEND" \in Types \ {"PROBLEM", "RECOVERY"}
    BY DEF Types, Downtimes
  <2> QED BY <1>1, <1>4, <2>1, KeptCreates
<1>7. Kept(i, j)
  BY <1>5, <1>6, Zenon
<1> HIDE DEF j
<1>8. j \in Items
  BY <1>7 DEF Kept
<1>9. /\ item' \in Items /\ item'.state = j.state /\ item'.kind = j.kind
      /\ item'.attempt = j.attempt /\ item'.notified = j.notified
      /\ item'.number = j.number /\ item'.masters = j.masters
  BY <1>2, <1>8 DEF Items
<1>10. Kept(j, item')
  BY <1>9, KeptAnyway
<1>11. Kept(item, item')
  BY <1>5, <1>7, <1>10, KeptTwice
<1> QED BY <1>11, EndStep DEF ExitDowntime

-----------------------------------------------------------------------------
(* The reactionner *)

\* The item stays.
LEMMA ItemStays ==
  ASSUME IInv, UNCHANGED <<conf, item, pc>>
  PROVE  Sound(item)' /\ Placed'
BY SoundNext DEF IInv, Placed, Problems

LEMMA PollStep == ASSUME IInv, Poll PROVE IInv'
<1>1. /\ children' = [k \in DOMAIN children |-> [children[k] EXCEPT !.status = "polled"]]
      /\ told' = [c \in Contacts |->
                    IF Waiting(c) = {} THEN told[c]
                    ELSE children[CHOOSE k \in Waiting(c) : \A j \in Waiting(c) : j <= k].type]
      /\ UNCHANGED <<conf, item, pc, envVars, commands, orphans, silent, excused>>
  BY DEF Poll
<1>2. children \in Seq(Kids) /\ DOMAIN children = 1..Len(children) /\ Len(children) \in Nat
  BY DEF IInv, TypeOK, Kids
<1>3. /\ children' \in Seq(Kids) /\ DOMAIN children' = DOMAIN children
      /\ \A k \in DOMAIN children : children'[k].status = "polled"
  <2>1. ASSUME NEW k \in DOMAIN children
        PROVE  children'[k] \in Kids /\ children'[k].status = "polled"
    <3>1. children[k] \in Kids
      BY <1>2
    <3>2. children'[k] = [children[k] EXCEPT !.status = "polled"]
      BY <1>1
    <3> QED BY <3>1, <3>2 DEF Kids
  <2>2. children' \in [1..Len(children) -> Kids]
    BY <1>1, <1>2, <2>1
  <2> QED BY <1>2, <2>1, <2>2, Listed
<1>4. \A c : In(children', c) = {}
  BY <1>3 DEF In
\* The child that a contact is told of last.
<1>5. ASSUME NEW c \in Contacts, In(children, c) # {}
      PROVE  \E k \in In(children, c) :
               /\ \A j \in In(children, c) : j <= k
               /\ told'[c] = children[k].type
  <2> DEFINE W == In(children, c)
             T == {Len(children) - k : k \in W}
             k == CHOOSE k \in W : \A j \in W : j <= k
  <2>1. W \subseteq 1..Len(children)
    BY <1>2 DEF In
  <2>2. T \in SUBSET Nat /\ T # {}
    BY <1>2, <1>5, <2>1
  <2>3. PICK x \in T : \A y \in T : x <= y
    <3> HIDE DEF T
    <3> QED BY <2>2, Least
  <2>4. PICK n \in W : x = Len(children) - n
    BY <2>3
  <2>5. ASSUME NEW j \in W PROVE j <= n
    <3>1. Len(children) - j \in T
      OBVIOUS
    <3>2. x <= Len(children) - j
      BY <2>3, <3>1
    <3> QED BY <1>2, <2>1, <2>4, <3>2
  <2>6. \E z \in W : \A j \in W : j <= z
    BY <2>5
  <2> HIDE DEF W
  <2>7. k \in W /\ \A j \in W : j <= k
    BY <2>6
  <2>8. Waiting(c) = W
    BY WaitingIn DEF W
  <2>9. W # {}
    BY <1>5 DEF W
  <2>10. told'[c] = children[k].type
    BY <1>1, <2>8, <2>9, Zenon
  <2> HIDE DEF k
  <2> QED BY <2>7, <2>10 DEF W
<1>6. told' \in [Contacts -> Types \cup {"nothing"}]
  <2>1. \A c \in Contacts : told'[c] \in Types \cup {"nothing"}
    <3> TAKE c \in Contacts
    <3>1. CASE In(children, c) = {}
      <4>1. told'[c] = told[c]
        BY <1>1, <3>1, WaitingIn
      <4> QED BY <4>1 DEF IInv, TypeOK
    <3>2. CASE In(children, c) # {}
      <4>1. PICK k \in In(children, c) : told'[c] = children[k].type
        BY <1>5, <3>2
      <4>2. children[k] \in Kids
        BY <1>2 DEF In
      <4> QED BY <4>1, <4>2 DEF Kids
    <3> QED BY <3>1, <3>2
  <2>2. told' = [c \in Contacts |-> told'[c]]
    BY <1>1
  <2> QED BY <2>1, <2>2
<1>7. TypeOK'
  BY <1>1, <1>3, <1>6 DEF IInv, TypeOK, Kids, envVars
<1>8. Tracked'
  BY <1>4 DEF Tracked, Owed, In
<1>9. ASSUME NEW c \in Contacts, told'[c] = "PROBLEM", c \notin excused'
      PROVE  c \in item'.notified
  <2>1. CASE In(children, c) = {}
    <3>1. told'[c] = told[c] /\ Waiting(c) = {}
      BY <1>1, <2>1, WaitingIn
    <3> QED BY <1>1, <1>9, <3>1 DEF IInv, NobodyForgotten
  <2>2. CASE In(children, c) # {}
    <3>1. Owed(children, c)
      BY <1>5, <1>9, <2>2 DEF Owed
    <3> QED BY <1>1, <1>9, <3>1 DEF IInv, Tracked
  <2> QED BY <2>1, <2>2
<1>10. NobodyForgotten'
  BY <1>9 DEF NobodyForgotten
<1> QED BY <1>1, <1>7, <1>8, <1>10, ItemStays DEF IInv

LEMMA ResultStep == ASSUME IInv, NEW r \in DOMAIN children, Result(r) PROVE IInv'
<1>1. /\ children[r].status = "polled" /\ children' = RemoveAt(children, r)
      /\ UNCHANGED <<conf, item, pc, envVars, commands, orphans, silent, told, excused>>
  BY DEF Result
<1>2. children \in Seq(Kids) /\ DOMAIN children = 1..Len(children)
  BY DEF IInv, TypeOK, Kids
<1>3. children' \in Seq(Kids)
  BY <1>1, <1>2, RemovedAt
<1>4. \A c : /\ Owed(children', c) => Owed(children, c)
             /\ In(children, c) # {} => In(children', c) # {}
  BY <1>1, <1>2, ChildRemoved
<1>5. TypeOK'
  BY <1>1, <1>3 DEF IInv, TypeOK, Kids, envVars
<1>6. ASSUME NEW c \in Contacts \ excused', Owed(children', c) PROVE c \in item'.notified
  BY <1>1, <1>4, <1>6 DEF IInv, Tracked
<1>7. Tracked'
  BY <1>6 DEF Tracked, Owed, In
<1>8. ASSUME NEW c \in Contacts, told'[c] = "PROBLEM", c \notin excused'
      PROVE  c \in item'.notified \/ In(children', c) # {}
  BY <1>1, <1>4, <1>8, WaitingIn DEF IInv, NobodyForgotten
<1>9. NobodyForgotten'
  BY <1>8 DEF NobodyForgotten, Waiting, In
<1> QED BY <1>1, <1>5, <1>7, <1>9, ItemStays DEF IInv

LEMMA OrphanedStep == ASSUME IInv, NEW r \in DOMAIN children, Orphaned(r) PROVE IInv'
<1>1. /\ orphans < MaxOrphans
      /\ children' = [children EXCEPT ![r].status = "scheduled"]
      /\ orphans' = orphans + 1 /\ excused' = excused \cup {children[r].contact}
      /\ UNCHANGED <<conf, item, pc, envVars, commands, silent, told>>
  BY DEF Orphaned
<1>2. /\ children \in Seq(Kids) /\ DOMAIN children = 1..Len(children)
      /\ Len(children) \in Nat /\ children[r] \in Kids
  <2>1. children \in Seq(Kids)
    BY DEF IInv, TypeOK, Kids
  <2> QED BY <2>1
<1> DEFINE x == [children[r] EXCEPT !.status = "scheduled"]
<1>3. x \in Kids /\ x.contact = children[r].contact
  BY <1>2 DEF Kids
<1>4. children' = [children EXCEPT ![r] = x]
  BY <1>1
<1> HIDE DEF x
<1>5. /\ children' \in Seq(Kids) /\ DOMAIN children' = DOMAIN children
      /\ children'[r] = x /\ \A k \in DOMAIN children : k # r => children'[k] = children[k]
  BY <1>2, <1>3, <1>4
<1>6. \A c \in Contacts : c # children[r].contact => In(children', c) = In(children, c)
  BY <1>3, <1>5 DEF In
<1>7. \A c \in Contacts : c # children[r].contact /\ Owed(children', c) => Owed(children, c)
  <2> TAKE c \in Contacts
  <2> SUFFICES ASSUME c # children[r].contact, Owed(children', c) PROVE Owed(children, c)
    OBVIOUS
  <2>1. PICK k \in In(children', c) : /\ children'[k].type = "PROBLEM"
                                      /\ \A j \in In(children', c) : j <= k
    BY DEF Owed
  <2>2. k # r /\ k \in DOMAIN children
    BY <1>3, <1>5, <2>1 DEF In
  <2>3. children[k].type = "PROBLEM"
    BY <1>5, <2>1, <2>2
  <2> QED BY <1>6, <2>1, <2>3 DEF Owed
<1>8. orphans' \in 0..MaxOrphans /\ excused' \subseteq Contacts
  <2>1. orphans \in 0..MaxOrphans /\ MaxOrphans \in Nat /\ excused \subseteq Contacts
    BY NotificationConstants DEF IInv, TypeOK
  <2>2. children[r].contact \in Contacts
    BY <1>2 DEF Kids
  <2> QED BY <1>1, <1>2, <2>1, <2>2
<1>9. TypeOK'
  BY <1>1, <1>5, <1>8 DEF IInv, TypeOK, Kids, envVars
<1>10. ASSUME NEW c \in Contacts \ excused', Owed(children', c) PROVE c \in item'.notified
  BY <1>1, <1>7, <1>10 DEF IInv, Tracked
<1>11. Tracked'
  BY <1>10 DEF Tracked, Owed, In
<1>12. ASSUME NEW c \in Contacts, told'[c] = "PROBLEM", c \notin excused'
       PROVE  c \in item'.notified \/ In(children', c) # {}
  BY <1>1, <1>6, <1>12, WaitingIn DEF IInv, NobodyForgotten
<1>13. NobodyForgotten'
  BY <1>12 DEF NobodyForgotten, Waiting, In
<1> QED BY <1>1, <1>9, <1>11, <1>13, ItemStays DEF IInv

-----------------------------------------------------------------------------
(* Theorems *)

LEMMA Inductive == IInv /\ [Next]_vars => IInv'
<1> SUFFICES ASSUME IInv, [Next]_vars PROVE IInv'
  OBVIOUS
<1>1. CASE MainLoop
  <2>1. ASSUME NEW s \in Statuses, NEW enable \in BOOLEAN, NEW dependent \in BOOLEAN,
               Consume(s, enable, dependent)
        PROVE  IInv'
    BY <2>1, ConsumeStep
  <2>2. ASSUME NEW k \in DOMAIN item.masters, ScatterMaster(k) PROVE IInv'
    BY <2>2, ScatterMasterStep
  <2> QED BY <1>1, <2>1, <2>2, NoResultStep, GetNewActionsStep, ClearActionsStep,
             DueMastersStep, ScatterEndStep DEF MainLoop
<1>2. CASE Tick
  BY <1>2, TickStep
<1>3. CASE Commands
  <2>1. ASSUME NEW sticky \in BOOLEAN, NEW notify \in BOOLEAN,
               AcknowledgeProblem(sticky, notify)
        PROVE  IInv'
    BY <2>1, AcknowledgeProblemStep
  <2>2. ASSUME NEW c \in Contacts, ContactAway(c) PROVE IInv'
    BY <2>2, ContactAwayStep
  <2> QED BY <1>3, <2>1, <2>2, RemoveAcknowledgementStep, ToggleNotificationsStep,
             EnterDowntimeStep, HostChangesStep DEF Commands
<1>4. CASE ExitDowntime
  BY <1>4, ExitDowntimeStep
<1>5. CASE Reactionner
  <2>1. ASSUME NEW k \in DOMAIN children, Result(k) PROVE IInv'
    BY <2>1, ResultStep
  <2>2. ASSUME NEW k \in DOMAIN children, Orphaned(k) PROVE IInv'
    BY <2>2, OrphanedStep
  <2> QED BY <1>5, <2>1, <2>2, PollStep DEF Reactionner
<1>6. CASE UNCHANGED vars
  <2>1. UNCHANGED <<conf, item, children, pc, envVars, commands, orphans, silent, told, excused>>
    BY <1>6 DEF vars
  <2>2. TypeOK'
    BY <2>1 DEF IInv, TypeOK, envVars
  <2>3. Tracked' /\ NobodyForgotten'
    BY <2>1, NobodyElse
  <2> QED BY <2>1, <2>2, <2>3, ItemStays DEF IInv
<1> QED BY <1>1, <1>2, <1>3, <1>4, <1>5, <1>6 DEF Next

\* The inductive invariant holds, for every set of items, contacts, ways and
\* escalations.
THEOREM Safety == Spec => []IInv
<1> QED BY InitIInv, Inductive, PTL DEF Spec

\* Every record keeps its type: whatever consume_result, get_new_actions,
\* scatter_master_notifications, the commands and the reactionner do to them.
THEOREM TypeCorrect == Spec => []TypeOK
<1>1. IInv => TypeOK
  BY DEF IInv
<1> QED BY <1>1, Safety, PTL

\* A contact that was last told of a problem is in notified_contacts_ids, or has
\* a notification on its way, unless it refused the RECOVERY or an orphaned child
\* was handed out for it again.
THEOREM EverybodyTold == Spec => []NobodyForgotten
<1>1. IInv => NobodyForgotten
  BY DEF IInv
<1> QED BY <1>1, Safety, PTL

\* Never two PROBLEM masters, whatever creates and removes them; and always one,
\* not lost, for a HARD problem that is to be repeated.
THEOREM OneReminderRuns == Spec => []OneReminder
<1>1. IInv => OneReminder
  <2> SUFFICES ASSUME IInv PROVE OneReminder
    OBVIOUS
  <2>1. ProblemMasters = Problems(item)
    BY DEF ProblemMasters, Problems
  <2>2. Cardinality(ProblemMasters) <= 1
    <3>1. CASE ProblemMasters = {}
      BY <3>1, FS_EmptySet
    <3>2. CASE ProblemMasters # {}
      <4>1. PICK x : ProblemMasters = {x}
        BY <2>1, <3>2 DEF IInv, Sound, AtMostOne
      <4> QED BY <4>1, FS_Singleton
    <3> QED BY <3>1, <3>2
  <2>3. Failing(item) /\ conf.interval # 0 /\ ~conf.flap /\ ~conf.depends =>
          \E k \in ProblemMasters : item.masters[k].at # "lost"
    BY <2>1 DEF IInv, Sound, Placed
  <2> QED BY <2>2, <2>3 DEF OneReminder
<1> QED BY <1>1, Safety, PTL

\* After a HARD recovery the notifications are counted from zero, where the
\* RECOVERY that resets the number cannot be dropped.
THEOREM NumberRestarts == Spec => []CountRestarts
<1>1. IInv => CountRestarts
  BY DEF IInv, Sound, Failing, CountRestarts
<1> QED BY <1>1, Safety, PTL

-----------------------------------------------------------------------------
(* A problem is told soon *)

\* A repeated item whose notification period never ends.
Attended == conf.interval # 0 /\ conf.period = Phases /\ MaxNumber # 0

\* A PROBLEM that waits no longer than first_notification_delay after it began.
Awaited(r) ==
  \E k \in Problems(r) : r.masters[k].nb > 0 /\ r.masters[k].wait <= conf.delay + 1

LEMMA ValidAlways ==
  ASSUME NEW x \in Phases, NEW t \in Int
  PROVE  IsTimeValid(Phases, x, t) /\ GetNextValidTime(Phases, x, t) = t
<1>1. Cycle \in Nat \ {0} /\ x \in Int
  BY RuleConstants DEF Phases
<1>2. \A k \in Int : IsTimeValid(Phases, x, k)
  BY <1>1 DEF IsTimeValid, Phases
<1>3. t \in t..t + Cycle /\ \A j \in t..t - 1 : FALSE
  BY <1>1
<1>4. \A k \in t..t + Cycle : (\A j \in t..k - 1 : FALSE) => k = t
  <2> SUFFICES ASSUME NEW k \in t..t + Cycle, \A j \in t..k - 1 : FALSE PROVE k = t
    OBVIOUS
  <2>1. t \notin t..k - 1
    OBVIOUS
  <2> QED BY <1>1, <2>1
<1> DEFINE V(k) == /\ IsTimeValid(Phases, x, k)
                   /\ \A j \in t..k - 1 : ~IsTimeValid(Phases, x, j)
<1>5. V(t)
  BY <1>2, <1>3
<1>6. \A k \in t..t + Cycle : V(k) => k = t
  <2> SUFFICES ASSUME NEW k \in t..t + Cycle, V(k) PROVE k = t
    OBVIOUS
  <2>1. \A j \in t..k - 1 : FALSE
    BY <1>2
  <2> QED BY <1>4, <2>1
<1>7. GetNextValidTime(Phases, x, t) = CHOOSE k \in t..t + Cycle : V(k)
  BY DEF GetNextValidTime
<1> HIDE DEF V
<1> QED BY <1>2, <1>3, <1>5, <1>6, <1>7

\* What the creation of a PROBLEM, and the rest of consume_result, leave alone.
Carried(i, r) == /\ r.state = i.state /\ r.seen = i.seen
                 /\ r.enabled = i.enabled /\ r.number = i.number

LEMMA RemovedCarries ==
  ASSUME NEW i \in Items
  PROVE  Carried(i, RemoveInProgressNotifications(i))
BY DEF Carried, RemoveInProgressNotifications, Items

LEMMA CreateCarries ==
  ASSUME Configured, NEW i \in Items, NEW type \in Types, type # "RECOVERY"
  PROVE  Carried(i, CreateNotifications(i, type))
<1> DEFINE r == CreateNotifications(i, type)
           n == IF type = "RECOVERY" THEN 0 ELSE i.number
<1>1. CASE Dropped(i, type)
  BY <1>1 DEF CreateNotifications, Carried
<1>2. CASE ~Dropped(i, type)
  <2>1. PICK m \in Masters : /\ m.type = type /\ m.at = "item"
                             /\ r = [i EXCEPT !.number = n, !.masters = Append(@, m)]
    BY <1>2, Creates
  <2> HIDE DEF r
  <2>2. Carried(i, r)
    BY <2>1 DEF Carried, Items
  <2> QED BY <2>2 DEF r
<1> QED BY <1>1, <1>2

LEMMA RenewCarries ==
  ASSUME Configured, NEW i \in Items, NEW type \in Types \ {"RECOVERY"}
  PROVE  Renew(i, type, TRUE) \in Items /\ Carried(i, Renew(i, type, TRUE))
<1> DEFINE j == RemoveInProgressNotifications(i)
<1>1. j \in Items /\ Carried(i, j)
  BY RemovedMasters, RemovedCarries
<1>2. Renew(i, type, TRUE) = CreateNotifications(j, type)
  BY DEF Renew
<1> HIDE DEF j
<1>3. CreateNotifications(j, type) \in Items /\ Carried(j, CreateNotifications(j, type))
  <2>1. type \in Types /\ type # "RECOVERY"
    OBVIOUS
  <2> QED BY <1>1, <2>1, CreateType, CreateCarries
<1> QED BY <1>1, <1>2, <1>3 DEF Carried

\* The first PROBLEM of an item that was just seen failing.
LEMMA FirstProblem ==
  ASSUME Configured, Attended, NEW i \in Items, i.number = 0,
         NEW s \in Statuses, i.seen[s] >= 0
  PROVE  Awaited(Renew(i, "PROBLEM", TRUE))
<1> DEFINE j == RemoveInProgressNotifications(i)
           r == Renew(i, "PROBLEM", TRUE)
           wait == GetNextValidTime(conf.period, phase, Wished(j, "PROBLEM"))
           m == [type |-> "PROBLEM", nb |-> Capped(1), wait |-> wait,
                 age |-> 0, started |-> {}, at |-> "item"]
<1>1. j \in Items /\ j.number = 0 /\ j.seen = i.seen /\ conf.delay \in Nat /\ conf.interval # 0
  BY RemovedMasters, RemovedCarries, ConfType DEF Carried, Attended
<1>2. r = CreateNotifications(j, "PROBLEM")
  BY DEF Renew
<1> HIDE DEF j, r
<1>3. LastTimeNonOk(j) \in 0..MaxAge /\ MaxAge \in Nat
  <2>1. LastTimeNonOk(j) \in -1..MaxAge /\ j.seen[s] <= LastTimeNonOk(j)
    BY <1>1, LastTime
  <2>2. j.seen[s] \in -1..MaxAge /\ j.seen[s] >= 0
    BY <1>1 DEF Items
  <2> QED BY <2>1, <2>2, Bounds
<1>4. Wished(j, "PROBLEM") \in Int /\ Wished(j, "PROBLEM") <= conf.delay + 1
  BY <1>1, <1>3 DEF Wished
<1>5. wait <= conf.delay + 1
  <2>1. wait = Wished(j, "PROBLEM")
    BY <1>4, ValidAlways DEF Attended, Configured
  <2> QED BY <1>4, <2>1
<1>6. Capped(1) > 0
  BY Bounds DEF Capped, Attended
<1>7. ~Dropped(j, "PROBLEM")
  BY <1>1 DEF Dropped
<1>8. r.masters = Append(j.masters, m)
  BY <1>1, <1>2, <1>7 DEF CreateNotifications, Items
<1>9. j.masters \in Seq(Masters)
  BY <1>1 DEF Items
<1> DEFINE k == Len(j.masters) + 1
<1>10. k \in DOMAIN r.masters /\ r.masters[k] = m
  BY <1>8, <1>9
<1> HIDE DEF k, wait
<1>11. m.type = "PROBLEM" /\ m.nb > 0 /\ m.wait <= conf.delay + 1
  BY <1>5, <1>6
<1> HIDE DEF m
<1>12. Awaited(r)
  BY <1>10, <1>11 DEF Awaited, Problems
<1> QED BY <1>12 DEF r

\* What a branch of consume_result makes of an item that fails: if its problem is
\* HARD and nobody was told of it, a PROBLEM waits.
Followed(i, r) ==
  /\ r \in Items /\ r.state = i.state /\ r.number = i.number
  /\ Failing(r) /\ r.enabled /\ r.number = 0 => Awaited(r)

LEMMA ProblemFollowed ==
  ASSUME Configured, Attended, NEW i, NEW h \in Items, Carried(i, h),
         NEW s \in Statuses, i.seen[s] >= 0
  PROVE  Followed(i, Renew(h, "PROBLEM", TRUE))
<1> DEFINE r == Renew(h, "PROBLEM", TRUE)
<1>1. "PROBLEM" \in Types \ {"RECOVERY"}
  BY DEF Types
<1>2. r \in Items /\ Carried(h, r)
  BY <1>1, RenewCarries
<1>3. h.number = 0 => Awaited(r)
  BY FirstProblem DEF Carried
<1> HIDE DEF r
<1>4. Followed(i, r)
  BY <1>2, <1>3 DEF Followed, Carried
<1> QED BY <1>4 DEF r

LEMMA FollowedVolatile ==
  ASSUME Configured, Attended, NEW i \in Items, NEW s \in Statuses, i.seen[s] >= 0
  PROVE  Followed(i, FailsVolatile(i, TRUE))
<1> DEFINE h == Hard([i EXCEPT !.attempt = 1])
<1>1. h \in Items /\ Carried(i, h)
  BY DEF Hard, Items, Carried
<1>2. FailsVolatile(i, TRUE) = Renew(h, "PROBLEM", TRUE)
  BY DEF FailsVolatile
<1> HIDE DEF h
<1> QED BY <1>1, <1>2, ProblemFollowed

LEMMA FollowedStart ==
  ASSUME Configured, Attended, NEW i \in Items, NEW s \in Statuses, i.seen[s] >= 0
  PROVE  Followed(i, StartsFailing(i, TRUE))
<1> DEFINE j == [i EXCEPT !.attempt = 1]
           r == StartsFailing(i, TRUE)
<1>1. CASE IsMax(j)
  <2> DEFINE h == Hard(j)
  <2>1. h \in Items /\ Carried(i, h)
    BY DEF Hard, Items, Carried
  <2>2. r = Renew(h, "PROBLEM", TRUE)
    BY <1>1 DEF StartsFailing
  <2> HIDE DEF h
  <2> QED BY <2>1, <2>2, ProblemFollowed
<1>2. CASE ~IsMax(j)
  <2>1. r = [j EXCEPT !.kind = "SOFT"]
    BY <1>2 DEF StartsFailing
  <2> HIDE DEF r
  <2>2. r \in Items /\ r.state = i.state /\ r.number = i.number /\ r.kind = "SOFT"
    BY <2>1 DEF Items
  <2> QED BY <2>2 DEF Followed, Failing, r
<1> QED BY <1>1, <1>2

LEMMA AckCarries ==
  ASSUME NEW i \in Items
  PROVE  LET r == UnacknowledgeIfNotSticky(i)
         IN r \in Items /\ Carried(i, r) /\ r.kind = i.kind
BY DEF UnacknowledgeIfNotSticky, Items, Carried

LEMMA FollowedSoft ==
  ASSUME Configured, Attended, NEW i \in Items, i.kind = "SOFT",
         NEW s \in Statuses, i.seen[s] >= 0, NEW dependent \in BOOLEAN
  PROVE  Followed(i, SoftFailing(i, TRUE, dependent))
<1> DEFINE attempt == IF dependent \/ IsMax(i) THEN i.attempt ELSE i.attempt + 1
           j == [i EXCEPT !.attempt = attempt]
           k == IF i.state # i.last THEN UnacknowledgeIfNotSticky(j) ELSE j
           r == SoftFailing(i, TRUE, dependent)
<1>1. attempt \in Nat
  BY DEF Items
<1> HIDE DEF attempt
<1>2. j \in Items /\ Carried(i, j) /\ j.kind = "SOFT"
  BY <1>1 DEF Items, Carried
<1>3. r = IF IsMax(k) THEN Renew(Hard(k), "PROBLEM", TRUE) ELSE k
  BY DEF SoftFailing, attempt
<1> HIDE DEF j, r
<1>4. k \in Items /\ Carried(i, k) /\ k.kind = "SOFT"
  <2>1. /\ UnacknowledgeIfNotSticky(j) \in Items /\ Carried(j, UnacknowledgeIfNotSticky(j))
        /\ UnacknowledgeIfNotSticky(j).kind = "SOFT"
    BY <1>2, AckCarries
  <2>2. CASE i.state # i.last
    <3>1. k = UnacknowledgeIfNotSticky(j)
      BY <2>2
    <3> HIDE DEF k
    <3> QED BY <1>2, <2>1, <3>1 DEF Carried
  <2>3. CASE i.state = i.last
    BY <1>2, <2>3
  <2> QED BY <2>2, <2>3
<1> HIDE DEF k
<1>5. CASE IsMax(k)
  <2> DEFINE h == Hard(k)
  <2>1. h \in Items /\ Carried(i, h)
    BY <1>4 DEF Hard, Items, Carried
  <2>2. r = Renew(h, "PROBLEM", TRUE)
    BY <1>3, <1>5
  <2> HIDE DEF h
  <2> QED BY <2>1, <2>2, ProblemFollowed DEF r
<1>6. CASE ~IsMax(k)
  <2>1. Followed(i, r)
    BY <1>3, <1>4, <1>6 DEF Followed, Carried, Failing
  <2> QED BY <2>1 DEF r
<1> QED BY <1>5, <1>6

LEMMA PhaseCarries ==
  ASSUME NEW i \in Items
  PROVE  LET r == UpdateUnknownPhase(i)
         IN r \in Items /\ Carried(i, r) /\ r.kind = i.kind /\ r.masters = i.masters
<1> DEFINE in == UpdateUnknownPhase(i).inUnknown
           was == UpdateUnknownPhase(i).wasUnknown
           before == UpdateUnknownPhase(i).before
           r == [i EXCEPT !.inUnknown = in, !.wasUnknown = was, !.before = before]
<1>1. UpdateUnknownPhase(i) = r
  BY DEF UpdateUnknownPhase, Items
<1>2. UpdateUnknownPhase(i) \in Items
  BY UnknownPhase
<1> HIDE DEF in, was, before
<1>3. Carried(i, r) /\ r.kind = i.kind /\ r.masters = i.masters
  BY DEF Items, Carried
<1> QED BY <1>1, <1>2, <1>3

LEMMA FollowedHard ==
  ASSUME Configured, Attended, NEW i \in Items, NEW s \in Statuses, i.seen[s] >= 0
  PROVE  Followed(i, HardFailing(i, TRUE))
<1> DEFINE u == UpdateUnknownPhase(i)
           a == UnacknowledgeIfNotSticky(u)
           j == IF i.state # i.last THEN HardChanged(i, TRUE)
                ELSE IF i.ended THEN Renew(i, "PROBLEM", TRUE) ELSE i
           r == HardFailing(i, TRUE)
<1>1. "PROBLEM" \in Types \ {"RECOVERY"}
  BY DEF Types
<1>2. u \in Items /\ Carried(i, u)
  BY PhaseCarries
<1>3. HardChanged(i, TRUE) = IF u.inUnknown \/ u.wasUnknown THEN u
                             ELSE Renew(a, "PROBLEM", TRUE)
  BY DEF HardChanged
<1> HIDE DEF u
<1>4. a \in Items /\ Carried(i, a)
  BY <1>2, AckCarries DEF Carried
<1> HIDE DEF a
<1>5. Renew(a, "PROBLEM", TRUE) \in Items /\ Carried(i, Renew(a, "PROBLEM", TRUE))
  <2>1. Renew(a, "PROBLEM", TRUE) \in Items /\ Carried(a, Renew(a, "PROBLEM", TRUE))
    BY <1>1, <1>4, RenewCarries
  <2> QED BY <1>4, <2>1 DEF Carried
<1>6. Renew(i, "PROBLEM", TRUE) \in Items /\ Carried(i, Renew(i, "PROBLEM", TRUE))
  BY <1>1, RenewCarries
<1>7. Carried(i, i)
  BY DEF Carried
<1>8. j \in Items /\ Carried(i, j)
  BY <1>2, <1>3, <1>5, <1>6, <1>7, Zenon
<1>9. r = FirstAgain(j, TRUE)
  BY DEF HardFailing
<1> HIDE DEF j, r
<1>10. CASE j.enabled /\ j.number = 0
  <2>1. r = Renew(j, "PROBLEM", TRUE)
    BY <1>9, <1>10 DEF FirstAgain
  <2> QED BY <1>8, <2>1, ProblemFollowed DEF r
<1>11. CASE ~(j.enabled /\ j.number = 0)
  <2>1. r = j
    BY <1>9, <1>11 DEF FirstAgain
  <2>2. Followed(i, r)
    BY <1>8, <1>11, <2>1 DEF Followed, Carried
  <2> QED BY <2>2 DEF r
<1> QED BY <1>10, <1>11

\* set_state_from_exit_status: the state was just seen.
LEMMA StateSet ==
  ASSUME Configured, NEW i \in Items, NEW s \in Statuses
  PROVE  LET r == SetState(i, s)
         IN /\ r \in Items /\ r.state = s /\ r.number = i.number
            /\ s # "OK" => r.seen[s] >= 0
<1> DEFINE seen == IF s = "OK" THEN [x \in Statuses |-> -1] ELSE [i.seen EXCEPT ![s] = 0]
           h == [i EXCEPT !.last = i.state, !.state = s, !.seen = seen]
           changes == AddFlappingChange(h.changes, h.state # h.last)
           now == UpdateFlapping(h.flapping, changes)
           f == [h EXCEPT !.changes = changes, !.flapping = now]
           j == Flapping(h)
           r == SetState(i, s)
<1>1. seen \in [Statuses -> -1..MaxAge] /\ (s # "OK" => seen[s] = 0)
  BY Bounds DEF Items
<1>2. r = [j EXCEPT !.lastKind = j.kind]
  BY DEF SetState
<1> HIDE DEF seen, r
<1>3. h \in Items /\ h.state = s /\ h.number = i.number /\ h.seen = seen
  BY <1>1 DEF Items
<1> HIDE DEF h
<1>4. changes \in Seq(BOOLEAN) /\ now \in BOOLEAN
  BY <1>3, FlappingChanges
<1>5. j = IF ~conf.flap THEN h
          ELSE IF now = h.flapping THEN f
          ELSE Renew(f, IF now THEN "FLAPPINGSTART" ELSE "FLAPPINGSTOP", TRUE)
  BY DEF Flapping
<1> HIDE DEF changes, now, j
<1>6. f \in Items /\ Carried(h, f)
  BY <1>3, <1>4 DEF Items, Carried
<1> HIDE DEF f
<1> DEFINE type == IF now THEN "FLAPPINGSTART" ELSE "FLAPPINGSTOP"
<1>7. type \in Types \ {"RECOVERY"}
  BY DEF Types, Flaps
<1> HIDE DEF type
<1>8. Renew(f, type, TRUE) \in Items /\ Carried(f, Renew(f, type, TRUE))
  BY <1>6, <1>7, RenewCarries
<1>9. j \in Items /\ Carried(h, j)
  <2>1. j \in {h, f, Renew(f, type, TRUE)}
    BY <1>5 DEF type
  <2>2. Carried(h, h) /\ Carried(h, Renew(f, type, TRUE))
    BY <1>6, <1>8 DEF Carried
  <2> QED BY <1>3, <1>6, <1>8, <2>1, <2>2
<1>10. /\ r \in Items /\ r.state = j.state /\ r.number = j.number /\ r.seen = j.seen
  BY <1>2, <1>9 DEF Items
<1>11. r \in Items /\ r.state = s /\ r.number = i.number /\ (s # "OK" => r.seen[s] >= 0)
  BY <1>1, <1>3, <1>9, <1>10 DEF Carried
<1> QED BY <1>11 DEF r

\* consume_result, of a result that is OK and of one that is not.
LEMMA ConsumeOk ==
  ASSUME Configured, NEW i \in Items
  PROVE  ConsumeResult(i, "OK", TRUE, FALSE).state = "OK"
<1> DEFINE j == SetState(i, "OK")
           a == Unacknowledge(j)
           k == ToOk(j, TRUE)
           u == UpdateUnknownPhase(k)
<1>1. ConsumeResult(i, "OK", TRUE, FALSE) = [u EXCEPT !.ended = FALSE]
  BY DEF ConsumeResult
<1>2. j \in Items /\ j.state = "OK"
  BY StateSet, NotificationConstants
<1> HIDE DEF j
<1>3. a \in Items /\ a.state = "OK" /\ a.attempt \in Nat
  BY <1>2 DEF Unacknowledge, Items
<1>4. Renew(a, "RECOVERY", TRUE) \in Items /\ Renew(a, "RECOVERY", TRUE).state = "OK"
  <2>1. "RECOVERY" \in Types
    BY DEF Types
  <2> QED BY <1>3, <2>1, RenewType DEF Same
<1>5. k \in Items /\ k.state = "OK"
  <2> DEFINE c == IF j.kind = "HARD" THEN Renew(a, "RECOVERY", TRUE) ELSE a
  <2>1. c \in Items /\ c.state = "OK"
    BY <1>3, <1>4
  <2>2. k = IF j.last = "OK"
            THEN IF j.kind = "SOFT" THEN [a EXCEPT !.kind = IF IsMax(a) THEN "HARD" ELSE "SOFT"]
                 ELSE [a EXCEPT !.attempt = 1]
            ELSE [c EXCEPT !.kind = "HARD", !.attempt = 1]
    BY DEF ToOk
  <2> HIDE DEF a, c, k
  <2>3. /\ [a EXCEPT !.kind = IF IsMax(a) THEN "HARD" ELSE "SOFT"] \in Items
        /\ [a EXCEPT !.kind = IF IsMax(a) THEN "HARD" ELSE "SOFT"].state = "OK"
        /\ [a EXCEPT !.attempt = 1] \in Items /\ [a EXCEPT !.attempt = 1].state = "OK"
    BY <1>3 DEF Items
  <2>4. /\ [c EXCEPT !.kind = "HARD", !.attempt = 1] \in Items
        /\ [c EXCEPT !.kind = "HARD", !.attempt = 1].state = "OK"
    BY <2>1 DEF Items
  <2> QED BY <2>2, <2>3, <2>4, Zenon
<1> HIDE DEF k
<1>6. u \in Items /\ u.state = "OK"
  BY <1>5, PhaseCarries DEF Carried
<1> HIDE DEF u
<1> QED BY <1>1, <1>6 DEF Items

LEMMA ConsumeFollowed ==
  ASSUME Configured, Attended, NEW i \in Items, NEW s \in Statuses, s # "OK"
  PROVE  LET r == ConsumeResult(i, s, TRUE, FALSE)
         IN /\ r.number = i.number
            /\ Failing(r) /\ r.enabled /\ r.number = 0 => Awaited(r)
<1> DEFINE j == SetState(i, s)
           k == CASE s = "OK" -> ToOk(j, TRUE)
                  [] s # "OK" /\ Volatile -> FailsVolatile(j, TRUE)
                  [] s # "OK" /\ ~Volatile /\ j.last = "OK" -> StartsFailing(j, TRUE)
                  [] s # "OK" /\ ~Volatile /\ j.last # "OK" /\ j.kind = "SOFT" ->
                       SoftFailing(j, TRUE, FALSE)
                  [] OTHER -> HardFailing(j, TRUE)
           u == UpdateUnknownPhase(k)
           r == [u EXCEPT !.ended = FALSE]
<1>1. ConsumeResult(i, s, TRUE, FALSE) = r
  BY DEF ConsumeResult
<1>2. /\ j \in Items /\ j.state = s /\ j.number = i.number
      /\ j.seen[s] >= 0
  BY StateSet
<1> HIDE DEF j
<1>3. Followed(j, k)
  <2>v. CASE Volatile
    <3>1. k = FailsVolatile(j, TRUE)
      BY <2>v
    <3> HIDE DEF k
    <3> QED BY <1>2, <3>1, FollowedVolatile
  <2>1. CASE ~Volatile /\ j.last = "OK"
    <3>1. k = StartsFailing(j, TRUE)
      BY <2>1
    <3> HIDE DEF k
    <3> QED BY <1>2, <3>1, FollowedStart
  <2>2. CASE ~Volatile /\ j.last # "OK" /\ j.kind = "SOFT"
    <3>1. k = SoftFailing(j, TRUE, FALSE)
      BY <2>2
    <3> HIDE DEF k
    <3> QED BY <1>2, <2>2, <3>1, FollowedSoft
  <2>3. CASE ~Volatile /\ j.last # "OK" /\ j.kind # "SOFT"
    <3>1. k = HardFailing(j, TRUE)
      BY <2>3
    <3> HIDE DEF k
    <3> QED BY <1>2, <3>1, FollowedHard
  <2> QED BY <2>v, <2>1, <2>2, <2>3
<1> HIDE DEF k
<1>4. u \in Items /\ Carried(k, u) /\ u.kind = k.kind /\ u.masters = k.masters
  BY <1>3, PhaseCarries DEF Followed
<1> HIDE DEF u
<1>5. /\ r.state = k.state /\ r.number = k.number /\ r.enabled = k.enabled
      /\ r.kind = k.kind /\ r.masters = k.masters
  BY <1>4 DEF Items, Carried
<1> HIDE DEF r
<1>6. Awaited(k) => Awaited(r)
  BY <1>5 DEF Awaited, Problems
<1>7. r.number = i.number /\ (Failing(r) /\ r.enabled /\ r.number = 0 => Awaited(r))
  BY <1>2, <1>3, <1>5, <1>6 DEF Followed, Failing
<1> QED BY <1>1, <1>7

\* A PROBLEM that is scattered before the next result, at this stage of the loop.
Prompt(m, stage, left) ==
  /\ m.nb > 0 /\ m.wait < left
  /\ stage = "consume" => m.wait >= 0
  /\ stage = "scatter" => m.at = "due" \/ m.wait > 0
  /\ stage = "idle" => m.wait > 0

\* A problem that a result has left untold is the first such result's, nothing
\* blocks it still, and its PROBLEM will be scattered before the next result.
Prompted ==
  /\ silent = 1 /\ Unblocked(item)
  /\ \A k \in Problems(item) : item.masters[k].nb > 0
  /\ item.number = 0 => \E k \in Problems(item) : Prompt(item.masters[k], pc, rest)

Soon == conf.interval # 0 /\ conf.delay + 1 < CheckInterval /\ silent > 0 => Prompted

\* Nothing blocks a PROBLEM at any time: the notification period never ends.
LEMMA UnblockedAlways ==
  ASSUME Configured, NEW i, Unblocked(i)
  PROVE  conf.period = Phases
<1>1. Cycle \in Nat \ {0} /\ phase \in Int /\ conf.period \subseteq Phases
  BY RuleConstants, ConfType DEF Configured, Phases
<1>2. ASSUME NEW p \in Phases PROVE p \in conf.period
  <2>1. PICK t \in 0..Cycle - 1 : (phase + t) % Cycle = p
    BY <1>1, Modulo DEF Phases
  <2>2. ~Blocks(i, "PROBLEM", t)
    BY <2>1 DEF Unblocked
  <2>3. IsTimeValid(conf.period, phase, t)
    BY <2>2 DEF Blocks, HostBlocks, ServiceBlocks
  <2> QED BY <2>1, <2>3 DEF IsTimeValid
<1> QED BY <1>1, <1>2

\* What may happen to an item without blocking its PROBLEM.
Unharmed(i, r) == /\ r.state = i.state /\ r.kind = i.kind /\ r.enabled = i.enabled
                  /\ r.depth = i.depth /\ r.ack = i.ack /\ r.flapping = i.flapping

LEMMA UnblockedNext ==
  ASSUME Configured, phase' \in Phases, Unblocked(item), Unharmed(item, item'),
         UNCHANGED <<conf, hostQuiet, away>>
  PROVE  Unblocked(item)'
<1>1. conf.period = Phases
  BY UnblockedAlways
<1>2. ASSUME NEW t \in 0..Cycle - 1 PROVE ~Blocks(item, "PROBLEM", t)'
  <2>1. t \in Int
    OBVIOUS
  <2>2. IsTimeValid(conf'.period, phase', t)
    BY <1>1, <2>1, ValidAlways
  <2>3. ~Blocks(item, "PROBLEM", t)
    BY DEF Unblocked
  <2>4. CASE conf.type = "host"
    <3>1. ~HostBlocks(item, conf, phase, "PROBLEM", t)
      BY <2>3, <2>4 DEF Blocks
    <3>2. ~HostBlocks(item', conf', phase', "PROBLEM", t)
      BY <2>2, <3>1 DEF HostBlocks, Unharmed, OptionsAllow
    <3> QED BY <2>4, <3>2 DEF Blocks
  <2>5. CASE conf.type # "host"
    <3>1. ~ServiceBlocks(item, conf, hostQuiet, phase, "PROBLEM", t)
      BY <2>3, <2>5 DEF Blocks
    <3>2. ~ServiceBlocks(item', conf', hostQuiet', phase', "PROBLEM", t)
      BY <2>2, <3>1 DEF ServiceBlocks, Unharmed, OptionsAllow
    <3> QED BY <2>5, <3>2 DEF Blocks
  <2> QED BY <2>4, <2>5
<1>3. Failing(item)' /\ away' = {} /\ ~conf'.depends
  BY DEF Unblocked, Unharmed, Failing
<1> QED BY <1>2, <1>3 DEF Unblocked

\* A step of the loop that leaves the item as it was but for its masters.
LEMMA SoonNext ==
  ASSUME IInv, Soon, Unharmed(item, item'), phase' \in Phases,
         UNCHANGED <<conf, hostQuiet, away, silent>>,
         Prompted => /\ \A k \in Problems(item') : item'.masters[k].nb > 0
                     /\ item'.number = 0 =>
                          \E k \in Problems(item') : Prompt(item'.masters[k], pc', rest')
  PROVE  Soon'
<1> SUFFICES ASSUME conf.interval # 0, conf.delay + 1 < CheckInterval, silent > 0
             PROVE  Prompted'
  BY DEF Soon
<1>1. Prompted
  BY DEF Soon
<1>2. Configured
  BY DEF IInv, TypeOK, Configured
<1>3. Unblocked(item)'
  BY <1>1, <1>2, UnblockedNext DEF Prompted
<1>4. Problems(item)' = Problems(item')
  BY DEF Problems
<1> QED BY <1>1, <1>3, <1>4 DEF Prompted, Prompt

\* A PROBLEM that somebody wants has a child.
LEMMA ProblemChildren ==
  ASSUME TypeOK, Attentive, Unblocked(item), conf.interval # 0,
         NEW m, m.type = "PROBLEM"
  PROVE  ChildrenOf(item, m) # {}
<1> DEFINE escalations == Eligible(item.state, m, phase)
           R == Recipients(item, m)
<1>1. /\ item.state \in Statuses \ {"OK"} /\ away = {} /\ checked \in Phases
      /\ conf \in Confs /\ 0 \in 0..Cycle - 1
  BY RuleConstants DEF TypeOK, Items, Unblocked, Failing
<1>2. ~Blocks(item, m.type, 0)
  BY <1>1 DEF Unblocked
<1>3. R = IF escalations = {} THEN conf.contacts ELSE UNION {e.contacts : e \in escalations}
  BY DEF Recipients
<1>4. \E c \in R : \E w \in WaysOf[c] : WayWants(w, item.state, "PROBLEM", checked)
  <2>1. CASE escalations = {}
    <3>1. R = conf.contacts
      BY <1>3, <2>1
    <3>2. Heard(conf.contacts, item.state)
      BY <1>1 DEF Attentive
    <3> QED BY <1>1, <3>1, <3>2 DEF Heard
  <2>2. CASE escalations # {}
    <3>1. PICK e \in Escalations : IsEligible(e, item.state, m, phase)
      BY <2>2 DEF Eligible
    <3>2. Heard(e.contacts, item.state)
      BY <1>1, <3>1 DEF Attentive, IsEligible
    <3>3. e.contacts \subseteq R
      BY <1>3, <2>2, <3>1 DEF Eligible
    <3> QED BY <1>1, <3>2, <3>3 DEF Heard
  <2> QED BY <2>1, <2>2
<1>c. PICK c \in R : \E w \in WaysOf[c] : WayWants(w, item.state, "PROBLEM", checked)
  BY <1>4
<1>5. PICK w \in WaysOf[c] : WayWants(w, item.state, "PROBLEM", checked)
  BY <1>c
<1>6. c \in Contacts /\ w \in DOMAIN Ways
  <2>1. Configured /\ item \in Items
    BY DEF TypeOK, Configured
  <2> QED BY <1>5, <2>1, RecipientsType, RuleConstants
<1> DEFINE q == <<c, w>>
           Q == { p \in R \X DOMAIN Ways :
                    ContactWants(p[1], p[2], away, item.state, m.type, checked) }
           Kid(p) == [type |-> m.type, contact |-> p[1], way |-> p[2], status |-> "scheduled"]
<1>7. q \in R \X DOMAIN Ways /\ q[1] = c /\ q[2] = w
  BY <1>5, <1>6
<1>8. ContactWants(c, w, away, item.state, m.type, checked)
  BY <1>1, <1>5 DEF ContactWants
<1>9. ChildrenOf(item, m) = { Kid(p) : p \in Q }
  BY <1>2 DEF ChildrenOf
<1> HIDE DEF q
<1>10. q \in Q
  BY <1>7, <1>8
<1> HIDE DEF Q, Kid
<1> QED BY <1>9, <1>10

LEMMA MasterType ==
  ASSUME NEW i \in Items, NEW k \in DOMAIN i.masters
  PROVE  LET m == i.masters[k]
         IN m \in Masters /\ m.wait \in Int /\ m.at \in {"item", "scheduler", "due", "lost"}
<1>1. i.masters[k] \in Masters
  BY DEF Items
<1> QED BY <1>1 DEF Masters

LEMMA SoonConsume ==
  ASSUME Attentive, IInv, Soon, NEW s \in Statuses, NEW enable \in BOOLEAN,
         NEW dependent \in BOOLEAN, Consume(s, enable, dependent)
  PROVE  Soon'
<1> SUFFICES ASSUME conf'.interval # 0, conf'.delay + 1 < CheckInterval, silent' > 0
             PROVE  Prompted'
  BY DEF Soon
<1>1. /\ item' = ConsumeResult(item, s, enable, dependent)
      /\ rest = 0 /\ rest' = CheckInterval /\ pc = "consume" /\ pc' = "get"
      /\ conf.depends \/ (enable /\ ~dependent)
      /\ UNCHANGED <<conf, children, phase, hostQuiet, away, commands, orphans, told, excused>>
      /\ silent' = IF ~Unblocked(item') \/ item'.number > 0 THEN 0
                   ELSE IF silent < 4 THEN silent + 1 ELSE silent
  BY DEF Consume
<1>2. Unblocked(item') /\ ~(item'.number > 0)
  BY <1>1
<1>3. /\ Configured /\ item \in Items /\ silent \in 0..4 /\ item.number \in 0..MaxNumber
      /\ Sound(item) /\ item.attempt \in 1..conf.max
  BY DEF IInv, TypeOK, Items, Configured
<1>4. enable = TRUE /\ dependent = FALSE
  BY <1>1, <1>2 DEF Unblocked
<1>5. Handled(item, item')
  BY <1>1, <1>3, ConsumeHandled
<1>6. item'.number = 0
  BY <1>2, <1>5, Bounds DEF Handled, Items
<1>7. Attended
  BY <1>1, <1>2, <1>3, UnblockedAlways DEF Attended, Attentive
<1>8. s # "OK"
  BY <1>1, <1>2, <1>3, <1>4, ConsumeOk DEF Unblocked, Failing
<1>9. item'.number = item.number /\ Awaited(item')
  <2>1. Failing(item') /\ item'.enabled
    <3>1. Failing(item') /\ ~Blocks(item', "PROBLEM", 0)
      BY <1>2, RuleConstants DEF Unblocked
    <3> QED BY <3>1 DEF Blocks, HostBlocks, ServiceBlocks
  <2> QED BY <1>1, <1>3, <1>4, <1>6, <1>7, <1>8, <2>1, ConsumeFollowed
<1>10. silent = 0
  <2> SUFFICES ASSUME silent > 0 PROVE FALSE
    BY <1>3
  <2>1. Prompted
    BY <1>1 DEF Soon
  <2>2. PICK k \in Problems(item) : Prompt(item.masters[k], pc, rest)
    BY <1>6, <1>9, <2>1 DEF Prompted
  <2>3. item.masters[k].wait \in Int
    BY <1>3, <2>2, MasterType DEF Problems
  <2> QED BY <1>1, <2>2, <2>3 DEF Prompt
<1>11. PICK k \in Problems(item') : /\ item'.masters[k].nb > 0
                                    /\ item'.masters[k].wait <= conf.delay + 1
  BY <1>9 DEF Awaited
<1>12. \A j \in Problems(item') : j = k
  BY <1>5 DEF Handled, Sound, AtMostOne
<1>13. Prompt(item'.masters[k], pc', rest')
  <2>1. item'.masters[k].wait \in Int
    BY <1>5, <1>11, MasterType DEF Handled, Problems
  <2> QED BY <1>1, <1>3, <1>11, <2>1, ConfType, Bounds DEF Prompt
<1>14. Unblocked(item)'
  BY <1>1, <1>2 DEF Unblocked, Failing, Blocks
<1>15. Problems(item)' = Problems(item')
  BY DEF Problems
<1>16. silent' = 1
  BY <1>1, <1>2, <1>10
<1> QED BY <1>11, <1>12, <1>13, <1>14, <1>15, <1>16 DEF Prompted, Prompt

\* A step that moves the masters along, in their order.
LEMMA SoonMoved ==
  ASSUME IInv, Soon, NEW ms \in Seq(Masters), DOMAIN ms = DOMAIN item.masters,
         \A k \in DOMAIN ms : ms[k].type = item.masters[k].type /\ ms[k].nb = item.masters[k].nb,
         item'.masters = ms, item'.number = item.number, Unharmed(item, item'),
         phase' \in Phases, UNCHANGED <<conf, hostQuiet, away, silent>>,
         \A k \in Problems(item) : Prompt(item.masters[k], pc, rest) => Prompt(ms[k], pc', rest')
  PROVE  Soon'
<1>1. Problems(item') = Problems(item)
  BY DEF Problems
<1>2. \A k \in Problems(item) : k \in DOMAIN ms
  BY DEF Problems
<1>3. Prompted => /\ \A k \in Problems(item') : item'.masters[k].nb > 0
                  /\ item'.number = 0 =>
                       \E k \in Problems(item') : Prompt(item'.masters[k], pc', rest')
  BY <1>1, <1>2 DEF Prompted
<1> QED BY <1>3, SoonNext

\* get_new_actions, with its two halves.
LEMMA SoonGet ==
  ASSUME IInv, Soon, NEW from, NEW to \in {"scheduler", "lost"},
         item' = Moved(item, from, to), pc' \in {"clear", "due"},
         UNCHANGED <<conf, envVars, silent>>
  PROVE  Soon'
<1>1. item \in Items /\ phase' \in Phases
  BY DEF IInv, TypeOK, envVars
<1>2. PICK ms \in Seq(Masters) :
        /\ item' = [item EXCEPT !.masters = ms] /\ DOMAIN ms = DOMAIN item.masters
        /\ \A k \in DOMAIN ms : /\ ms[k].type = item.masters[k].type
                                /\ ms[k].nb = item.masters[k].nb
                                /\ ms[k].wait = item.masters[k].wait
                                /\ ms[k].at = IF item.masters[k].at = from THEN to
                                              ELSE item.masters[k].at
  BY <1>1, MovedType
<1>3. item'.masters = ms /\ item'.number = item.number /\ Unharmed(item, item')
  BY <1>1, <1>2 DEF Items, Unharmed
<1>4. rest' = rest /\ UNCHANGED <<hostQuiet, away>>
  BY DEF envVars
<1>5. \A k \in Problems(item) : Prompt(item.masters[k], pc, rest) => Prompt(ms[k], pc', rest')
  BY <1>2, <1>4 DEF Prompt, Problems
<1> QED BY <1>1, <1>2, <1>3, <1>4, <1>5, SoonMoved

LEMMA SoonDue == ASSUME IInv, Soon, DueMasters PROVE Soon'
<1> DEFINE s == item.masters
           ms == [k \in DOMAIN s |-> IF s[k].at = "scheduler" /\ s[k].wait <= 0
                                     THEN [s[k] EXCEPT !.at = "due"] ELSE s[k]]
<1>1. /\ item \in Items /\ s \in Seq(Masters) /\ DOMAIN s = 1..Len(s) /\ Len(s) \in Nat
      /\ phase \in Phases
  BY DEF IInv, TypeOK, Items
<1>2. ASSUME NEW k \in DOMAIN s
      PROVE  /\ ms[k] \in Masters /\ ms[k].type = s[k].type /\ ms[k].nb = s[k].nb
             /\ ms[k].wait = s[k].wait
             /\ s[k].at = "scheduler" => ms[k].at = "due" \/ ms[k].wait > 0
  <2>1. s[k] \in Masters /\ s[k].wait \in Int
    BY <1>1, MasterType
  <2>2. CASE s[k].at = "scheduler" /\ s[k].wait <= 0
    <3> DEFINE n == [s[k] EXCEPT !.at = "due"]
    <3>1. ms[k] = n
      BY <2>2
    <3>2. n \in Masters /\ n.type = s[k].type /\ n.at = "due" /\ n.nb = s[k].nb
          /\ n.wait = s[k].wait
      <4> HIDE DEF s
      <4> QED BY <2>1, Elsewhere
    <3> HIDE DEF ms, s, n
    <3> QED BY <3>1, <3>2
  <2>3. CASE ~(s[k].at = "scheduler" /\ s[k].wait <= 0)
    <3>1. ms[k] = s[k]
      BY <2>3
    <3> HIDE DEF ms, s
    <3> QED BY <2>1, <2>3, <3>1
  <2> QED BY <2>2, <2>3
<1>3. ms \in Seq(Masters) /\ DOMAIN ms = DOMAIN s
  <2>1. ms \in [1..Len(s) -> Masters]
    BY <1>1, <1>2
  <2> QED BY <1>1, <2>1, Listed
<1>4. item' = [item EXCEPT !.masters = ms]
  BY <1>1 DEF DueMasters, Items
<1>5. pc = "due" /\ pc' = "scatter" /\ UNCHANGED <<conf, phase, rest, hostQuiet, away, silent>>
  BY DEF DueMasters, envVars
<1>6. ASSUME NEW k \in Problems(item), Prompt(s[k], pc, rest) PROVE Prompt(ms[k], pc', rest')
  <2>1. k \in DOMAIN s /\ s[k] \in Masters
    BY <1>1 DEF Problems
  <2>2. s[k].at = "scheduler"
    BY <1>5, <2>1 DEF IInv, Placed, Masters
  <2> QED BY <1>2, <1>5, <1>6, <2>1, <2>2 DEF Prompt
<1> HIDE DEF ms
<1>7. item'.masters = ms /\ item'.number = item.number /\ Unharmed(item, item')
  BY <1>1, <1>4 DEF Items, Unharmed
<1>8. \A k \in DOMAIN ms : ms[k].type = s[k].type /\ ms[k].nb = s[k].nb
  BY <1>2, <1>3
<1> QED BY <1>1, <1>3, <1>5, <1>6, <1>7, <1>8, SoonMoved

LEMMA SoonTick == ASSUME IInv, Soon, Tick PROVE Soon'
<1> DEFINE s == item.masters
           ms == [k \in DOMAIN s |-> Aged(s[k])]
<1>1. /\ item \in Items /\ s \in Seq(Masters) /\ DOMAIN s = 1..Len(s) /\ Len(s) \in Nat
      /\ phase \in Phases /\ rest \in Nat
  BY Bounds DEF IInv, TypeOK, Items
<1>2. ASSUME NEW k \in DOMAIN s
      PROVE  /\ s[k] \in Masters /\ ms[k] \in Masters
             /\ ms[k].type = s[k].type /\ ms[k].nb = s[k].nb
             /\ s[k].wait > 0 => ms[k].wait = s[k].wait - 1
  <2>1. s[k] \in Masters /\ ms[k] = Aged(s[k])
    BY <1>1
  <2> HIDE DEF s, ms
  <2> QED BY <2>1, Later
<1>3. ms \in Seq(Masters) /\ DOMAIN ms = DOMAIN s
  <2>1. ms \in [1..Len(s) -> Masters]
    BY <1>1, <1>2
  <2>2. DOMAIN ms = 1..Len(s) /\ Len(s) \in Nat
    BY <1>1
  <2> HIDE DEF ms, s
  <2> QED BY <1>1, <2>1, <2>2, Listed
<1>4. /\ pc = "idle" /\ pc' = "consume" /\ phase' = (phase + 1) % Cycle
      /\ rest' = IF rest = 0 THEN 0 ELSE rest - 1
      /\ UNCHANGED <<conf, hostQuiet, away, silent>>
  BY DEF Tick
<1>5. phase' \in Phases
  BY <1>1, <1>4, RuleConstants DEF Phases
<1>6. item'.masters = ms /\ item'.number = item.number /\ Unharmed(item, item')
  BY <1>1 DEF Tick, Items, Unharmed
<1>7. ASSUME NEW k \in Problems(item), Prompt(s[k], pc, rest) PROVE Prompt(ms[k], pc', rest')
  <2>1. k \in DOMAIN s /\ s[k].wait \in Int
    BY <1>1, MasterType DEF Problems
  <2>2. s[k].nb > 0 /\ s[k].wait > 0 /\ s[k].wait < rest
    BY <1>4, <1>7 DEF Prompt
  <2>3. rest' = rest - 1
    BY <1>1, <1>4, <2>1, <2>2
  <2>n. ms[k].nb = s[k].nb /\ ms[k].wait = s[k].wait - 1
    BY <1>2, <2>1, <2>2
  <2>4. ms[k].wait >= 0 /\ ms[k].wait < rest'
    BY <1>1, <2>1, <2>2, <2>3, <2>n
  <2> QED BY <1>4, <2>2, <2>n, <2>4 DEF Prompt
<1>8. \A k \in DOMAIN ms : ms[k].type = s[k].type /\ ms[k].nb = s[k].nb
  BY <1>2, <1>3
<1> HIDE DEF ms
<1> QED BY <1>3, <1>4, <1>5, <1>6, <1>7, <1>8, SoonMoved

LEMMA SoonScatter ==
  ASSUME Attentive, IInv, Soon, NEW k \in DOMAIN item.masters, ScatterMaster(k)
  PROVE  Soon'
<1> DEFINE m == item.masters[k]
           new == ChildrenOf(item, m)
           number == IF m.type = "PROBLEM" /\ new # {} THEN m.nb ELSE item.number
           ms == Repeated(item, k, number)
<1>1. /\ Configured /\ item \in Items /\ TypeOK /\ AtMostOne(item)
      /\ m \in Masters /\ MaxNumber \in Nat /\ MaxNumber # 0
  <2>1. Configured /\ item \in Items /\ TypeOK /\ AtMostOne(item)
    BY DEF IInv, TypeOK, Configured, Sound
  <2> QED BY <2>1, Bounds, MasterType DEF Attentive
<1>2. number \in 0..MaxNumber
  BY <1>1 DEF Items, Masters
<1>3. /\ item' = [item EXCEPT !.number = number, !.notified = Notified(item, m, new),
                              !.masters = ms]
      /\ UNCHANGED <<conf, pc, envVars, silent>>
  BY DEF ScatterMaster
<1>4. UNCHANGED <<phase, rest, hostQuiet, away>> /\ phase \in Phases
  BY <1>1, <1>3 DEF envVars, Configured
<1>5. /\ \A a \in InList(ms) : \/ ms[a].at = "scheduler" /\ ms[a].nb = Capped(number + 1)
                               \/ \E b \in Problems(item) : ms[a] = item.masters[b]
      /\ conf.interval # 0 /\ Problems(item) # {} => InList(ms) # {}
  <2> HIDE DEF number
  <2>1. number \in 0..MaxNumber
    BY <1>2
  <2> QED BY <1>1, <2>1, RepeatedList
<1>6. Capped(number + 1) > 0
  <2> HIDE DEF number
  <2> QED BY <1>1, <1>2 DEF Capped
<1> HIDE DEF ms
<1>7. item'.masters = ms /\ item'.number = number /\ Unharmed(item, item')
  <2> HIDE DEF number, new, m
  <2> QED BY <1>1, <1>3 DEF Items, Unharmed
<1>8. Problems(item') = InList(ms)
  BY <1>7 DEF Problems, InList
<1> SUFFICES ASSUME conf.interval # 0 PROVE Soon'
  BY <1>3 DEF Soon
<1>9. Prompted => \A a \in Problems(item') : item'.masters[a].nb > 0
  BY <1>5, <1>6, <1>7, <1>8 DEF Prompted
<1>10. ASSUME Prompted, number = 0
       PROVE  \E a \in Problems(item') : Prompt(item'.masters[a], pc', rest')
  <2>1. CASE m.type = "PROBLEM"
    <3>1. k \in Problems(item) /\ m.nb > 0
      BY <1>10, <2>1 DEF Prompted, Problems
    <3>2. new # {}
      BY <1>1, <1>10, <2>1, ProblemChildren DEF Prompted
    <3> QED BY <1>10, <2>1, <3>1, <3>2
  <2>2. CASE m.type # "PROBLEM"
    <3>1. item.number = 0
      BY <1>10, <2>2
    <3>2. PICK b \in Problems(item) : Prompt(item.masters[b], pc, rest)
      BY <1>10, <3>1 DEF Prompted
    <3>3. \A a \in Problems(item) : a = b
      BY <1>1 DEF AtMostOne
    <3>4. ms = RemoveAt(item.masters, k)
      BY <2>2 DEF Repeated, ms
    <3>5. /\ InList(ms) # {}
          /\ \A a \in InList(ms) : \E x \in InList(item.masters) : ms[a] = item.masters[x]
      <4>1. item.masters \in Seq(Masters) /\ InList(item.masters) = Problems(item)
        BY <1>1 DEF Items, InList, Problems
      <4>2. \A x, y \in InList(item.masters) : x = y
        BY <1>1, <4>1 DEF AtMostOne
      <4> QED BY <1>5, <3>2, <3>4, <4>1, <4>2, MasterRemoved
    <3>6. PICK a \in InList(ms) : ms[a] = item.masters[b]
      BY <3>3, <3>5 DEF InList, Problems
    <3>7. pc' = pc /\ rest' = rest
      BY <1>3, <1>4
    <3> QED BY <1>7, <1>8, <3>2, <3>6, <3>7
  <2> QED BY <2>1, <2>2
<1>11. Prompted => /\ \A a \in Problems(item') : item'.masters[a].nb > 0
                   /\ item'.number = 0 =>
                        \E a \in Problems(item') : Prompt(item'.masters[a], pc', rest')
  <2> HIDE DEF number, new, m
  <2> QED BY <1>7, <1>9, <1>10
<1>12. UNCHANGED <<conf, hostQuiet, away, silent>> /\ phase' \in Phases
  BY <1>3, <1>4
<1> QED BY <1>7, <1>11, <1>12, SoonNext

\* A step that leaves the item alone, and the time.
LEMMA SoonStays ==
  ASSUME IInv, Soon, UNCHANGED <<conf, item, phase, rest, hostQuiet, away, silent>>,
         \A k \in Problems(item) :
           Prompt(item.masters[k], pc, rest) => Prompt(item.masters[k], pc', rest)
  PROVE  Soon'
<1>1. Unharmed(item, item') /\ phase' \in Phases
  BY DEF IInv, TypeOK, Unharmed
<1> QED BY <1>1, SoonNext DEF Prompted

LEMMA SoonReset == ASSUME silent' = 0 PROVE Soon'
BY DEF Soon

LEMMA SoonInductive == ASSUME Attentive PROVE IInv /\ Soon /\ [Next]_vars => Soon'
<1> SUFFICES ASSUME IInv, Soon, [Next]_vars PROVE Soon'
  OBVIOUS
<1>1. CASE MainLoop
  <2>1. ASSUME NEW s \in Statuses, NEW enable \in BOOLEAN, NEW dependent \in BOOLEAN,
               Consume(s, enable, dependent)
        PROVE  Soon'
    BY <2>1, SoonConsume
  <2>2. CASE NoResult
    BY <2>2, SoonStays DEF NoResult, envVars, Prompt
  <2>3. CASE GetNewActions
    BY <2>3, SoonGet DEF GetNewActions
  <2>4. CASE ClearActions
    BY <2>4, SoonGet DEF ClearActions
  <2>5. CASE DueMasters
    BY <2>5, SoonDue
  <2>6. ASSUME NEW k \in DOMAIN item.masters, ScatterMaster(k) PROVE Soon'
    BY <2>6, SoonScatter
  <2>7. CASE ScatterEnd
    <3>1. \A k \in Problems(item) : item.masters[k].at # "due"
      BY <2>7 DEF ScatterEnd, Problems
    <3> QED BY <2>7, <3>1, SoonStays DEF ScatterEnd, envVars, Prompt
  <2> QED BY <1>1, <2>1, <2>2, <2>3, <2>4, <2>5, <2>6, <2>7 DEF MainLoop
<1>2. CASE Tick
  BY <1>2, SoonTick
<1>3. CASE Commands
  <2>1. silent' = 0
    BY <1>3 DEF Commands, AcknowledgeProblem, RemoveAcknowledgement, ToggleNotifications,
                EnterDowntime, HostChanges, ContactAway, Command
  <2> QED BY <2>1, SoonReset
<1>4. CASE ExitDowntime
  BY <1>4, SoonReset DEF ExitDowntime
<1>5. CASE Reactionner
  <2>1. UNCHANGED <<conf, item, pc, envVars, silent>>
    BY <1>5 DEF Reactionner, Poll, Result, Orphaned
  <2> QED BY <2>1, SoonStays DEF envVars
<1>6. CASE UNCHANGED vars
  BY <1>6, SoonStays DEF vars, envVars
<1> QED BY <1>1, <1>2, <1>3, <1>4, <1>5, <1>6 DEF Next

\* If somebody wants the first notification of every problem, a HARD problem of a
\* repeated item that nothing blocks is notified before its next result, whatever
\* the order in which the loop, the commands and the reactionner come.
THEOREM ToldSoon ==
  ASSUME Attentive
  PROVE  Spec => [](conf.interval # 0 => NotifiedSoon)
<1>1. Init => Soon
  BY DEF Init, Soon
<1>2. IInv /\ Soon => (conf.interval # 0 => NotifiedSoon)
  BY DEF IInv, TypeOK, Soon, Prompted, NotifiedSoon
<1>3. IInv /\ Soon /\ [Next]_vars => Soon'
  BY SoonInductive
<1> QED BY <1>1, <1>2, <1>3, Safety, PTL DEF Spec
=============================================================================
