---------------------------- MODULE Broks_proofs ----------------------------
(***************************************************************************)
(* Proofs about Broks, for any schedulers, modules, limits and failures: a *)
(* module gets the broks of a scheduler once and in order, the external    *)
(* modules that never failed get what the internal one manages, and the    *)
(* broks of a scheduler that did not fail are not lost.                    *)
(*                                                                         *)
(* A brok moves one way, from the scheduler to external_broks, and from    *)
(* there to the internal module and, when it is marked, to the queues of   *)
(* the others. What is ahead on that way was made before, and the marks    *)
(* are always on the first broks of a list. While give_broks binds a list  *)
(* to its link, that list is what is left of the scheduler's broks.        *)
(***************************************************************************)
EXTENDS Broks, WellFoundedInduction, TLAPS

SchedulerBroks == [n : Nat, sent : BOOLEAN]

\* The marked broks of a list are the first ones.
FirstMarked(bs) == \A j, k \in DOMAIN bs : (j < k /\ bs[k].sent) => bs[j].sent


\* The lists in the queue of a module, and the broks the modules have yet to get.
Lists(m) == IF queue[m] = None THEN <<>> ELSE queue[m]
Pending == {external[k] : k \in {j \in DOMAIN external : ~external[j].sent}}

\* The broks of a list come in the order they were made, up to the n-th.
Rising(bs, n) == /\ \A k \in DOMAIN bs : bs[k].n <= n
                 /\ \A j, k \in DOMAIN bs : j < k => bs[j].n < bs[k].n

\* The broks of a scheduler, none before a configuration.
Made == \A s \in Links : /\ ~ready[s] => made[s] = 0
                         /\ FirstMarked(broks[s]) /\ Rising(broks[s], made[s])

\* A list of the scheduler has the brok n.
Numbered(bs, n) == \E i \in DOMAIN bs : bs[i].n = n

\* When the list to be bound has a brok of the list of the link, that list has those before
\* it too: clean_queues takes the last ones.
Closed(ks, bs) ==
  \A j, k \in DOMAIN ks : (j < k /\ Numbered(bs, ks[k].n)) => Numbered(bs, ks[j].n)

\* The list that is to be bound is like the others.
KeptFine ==
  kept # None => /\ FirstMarked(kept) /\ Rising(kept, made[Head(todo)])
                 /\ Closed(kept, broks[Head(todo)])

\* What left a scheduler was made before what is still in it.
Gone(A) ==
  \A b \in A : /\ b.n <= made[b.from]
               /\ \A k \in DOMAIN Remaining(b.from) : b.n < Remaining(b.from)[k].n

InBroker ==
  /\ FirstMarked(external) /\ Increasing(external)
  /\ Increasing(managed) /\ Ahead(ToSet(managed), ToSet(external))
  /\ pc = "manage" => Pending = {}

\* The list read, those in the lists ls after it, and the set A after them, in order.
Lined(read, ls, A) ==
  /\ Increasing(read) /\ Ahead(ToSet(read), A)
  /\ \A k \in DOMAIN ls : /\ Increasing(ls[k]) /\ Ahead(ToSet(ls[k]), A)
                          /\ Ahead(ToSet(read), ToSet(ls[k]))
  /\ \A j, k \in DOMAIN ls : j < k => Ahead(ToSet(ls[j]), ToSet(ls[k]))

\* What a module read, the lists of its queue and what it has yet to get.
InModule(m) == Lined(received[m], Lists(m), Pending)

\* The broks of a process, read or in its queue.
Brs(p) == ToSet(p.read) \cup UNION {ToSet(p.queue[k]) : k \in DOMAIN p.queue}

\* What a former process of a module has was made before what later processes get.
InOld(m) ==
  \A j \in DOMAIN old[m] :
    /\ Lined(old[m][j].read, old[m][j].queue, {}) /\ Gone(Brs(old[m][j]))
    /\ Ahead(Brs(old[m][j]), Got(m) \cup Pending)
    /\ \A k \in DOMAIN old[m] : j < k => Ahead(Brs(old[m][j]), Brs(old[m][k]))

\* A module has the broks of the set A.
Has(m, A) == \A b \in A : \E g \in Got(m) : g.from = b.from /\ g.n = b.n

\* A module that never failed has a queue, and got every brok that is marked.
Served ==
  \A m \in Modules \ faults :
    queue[m] # None /\ Has(m, ToSet(managed)) /\ Has(m, ToSet(external) \ Pending)

Order == /\ Made /\ KeptFine /\ InBroker /\ Gone(ToSet(external)) /\ Gone(ToSet(managed))
         /\ \A m \in Modules : InModule(m) /\ Gone(Got(m)) /\ InOld(m)

IInv == TypeOK /\ Order /\ Served /\ NothingLost
-----------------------------------------------------------------------------
(* Lists *)

LEMMA EmptyList == ToSet(<<>>) = {} /\ Increasing(<<>>) /\ FirstMarked(<<>>)
BY DEF ToSet, Increasing, FirstMarked

LEMMA ListType ==
  ASSUME NEW S, NEW s \in Seq(S)
  PROVE  ToSet(s) \subseteq S /\ \A k \in DOMAIN s : s[k] \in ToSet(s)
BY DEF ToSet

LEMMA ConcatList ==
  ASSUME NEW S, NEW s \in Seq(S), NEW u \in Seq(S)
  PROVE  /\ s \o u \in Seq(S) /\ ToSet(s \o u) = ToSet(s) \cup ToSet(u)
         /\ DOMAIN s = 1..Len(s) /\ DOMAIN u = 1..Len(u) /\ Len(s) \in Nat /\ Len(u) \in Nat
         /\ DOMAIN (s \o u) = 1..(Len(s) + Len(u))
         /\ \A i \in 1..Len(s) : (s \o u)[i] = s[i]
         /\ \A i \in 1..(Len(s) + Len(u)) : i > Len(s) =>
              i - Len(s) \in DOMAIN u /\ (s \o u)[i] = u[i - Len(s)]
<1> DEFINE t == s \o u
<1>1. /\ t \in Seq(S) /\ Len(s) \in Nat /\ Len(u) \in Nat
      /\ DOMAIN s = 1..Len(s) /\ DOMAIN u = 1..Len(u) /\ DOMAIN t = 1..(Len(s) + Len(u))
      /\ \A i \in 1..Len(s) : t[i] = s[i]
      /\ \A i \in 1..(Len(s) + Len(u)) : i > Len(s) => t[i] = u[i - Len(s)]
  OBVIOUS
<1> HIDE DEF t
<1>2. \A i \in DOMAIN t : i > Len(s) => i - Len(s) \in DOMAIN u
  BY <1>1
<1>3. \A i \in DOMAIN s : i \in DOMAIN t /\ t[i] = s[i]
  BY <1>1
<1>4. \A i \in DOMAIN u : i + Len(s) \in DOMAIN t /\ t[i + Len(s)] = u[i]
  <2> TAKE i \in DOMAIN u
  <2>1. i + Len(s) \in 1..(Len(s) + Len(u)) /\ i + Len(s) > Len(s) /\ i + Len(s) - Len(s) = i
    BY <1>1
  <2> QED BY <1>1, <2>1
<1>5. \A i \in DOMAIN t : i \in DOMAIN s \/ i > Len(s)
  BY <1>1
<1>6. ToSet(t) = ToSet(s) \cup ToSet(u)
  BY <1>1, <1>2, <1>3, <1>4, <1>5 DEF ToSet
<1> QED BY <1>1, <1>2, <1>6 DEF t

LEMMA ConcatIncreasing ==
  ASSUME NEW s \in Seq(BrokTypes), NEW u \in Seq(BrokTypes),
         Increasing(s), Increasing(u), Ahead(ToSet(s), ToSet(u))
  PROVE  Increasing(s \o u)
<1> PICK t : t = s \o u
  OBVIOUS
<1>1. /\ DOMAIN s = 1..Len(s) /\ DOMAIN u = 1..Len(u) /\ Len(s) \in Nat /\ Len(u) \in Nat
      /\ DOMAIN t = 1..(Len(s) + Len(u))
      /\ \A i \in 1..Len(s) : t[i] = s[i]
      /\ \A i \in 1..(Len(s) + Len(u)) : i > Len(s) => i - Len(s) \in DOMAIN u /\ t[i] = u[i - Len(s)]
  BY ConcatList
<1> SUFFICES ASSUME NEW j \in DOMAIN t, NEW k \in DOMAIN t, j < k, t[j].from = t[k].from
             PROVE  t[j].n < t[k].n
  BY DEF Increasing
<1>2. CASE k <= Len(s)
  BY <1>1, <1>2 DEF Increasing
<1>3. CASE j > Len(s)
  <2>1. j - Len(s) \in DOMAIN u /\ k - Len(s) \in DOMAIN u /\ j - Len(s) < k - Len(s)
    BY <1>1, <1>3
  <2>2. t[j] = u[j - Len(s)] /\ t[k] = u[k - Len(s)]
    BY <1>1, <1>3
  <2> QED BY <2>1, <2>2 DEF Increasing
<1>4. CASE j <= Len(s) /\ k > Len(s)
  <2>1. t[j] \in ToSet(s) /\ t[k] \in ToSet(u)
    BY <1>1, <1>4 DEF ToSet
  <2> QED BY <2>1 DEF Ahead
<1> QED BY <1>1, <1>2, <1>3, <1>4

LEMMA AppendList ==
  ASSUME NEW S, NEW s \in Seq(S), NEW e \in S
  PROVE  /\ Append(s, e) \in Seq(S) /\ Len(s) \in Nat /\ DOMAIN s = 1..Len(s)
         /\ DOMAIN Append(s, e) = 1..(Len(s) + 1) /\ Append(s, e)[Len(s) + 1] = e
         /\ \A i \in 1..Len(s) : Append(s, e)[i] = s[i]
OBVIOUS

LEMMA TailList ==
  ASSUME NEW S, NEW s \in Seq(S), s # <<>>
  PROVE  /\ Head(s) \in S /\ Head(s) = s[1] /\ 1 \in DOMAIN s
         /\ Tail(s) \in Seq(S) /\ DOMAIN Tail(s) = 1..(Len(s) - 1)
         /\ \A i \in DOMAIN Tail(s) : i + 1 \in DOMAIN s /\ Tail(s)[i] = s[i + 1]
         /\ \A i \in DOMAIN s : i = 1 \/ (i - 1 \in DOMAIN Tail(s) /\ Tail(s)[i - 1] = s[i])
<1> DEFINE t == Tail(s)
<1>1. /\ t \in Seq(S) /\ Len(s) \in Nat /\ Len(s) > 0 /\ DOMAIN s = 1..Len(s)
      /\ DOMAIN t = 1..(Len(s) - 1) /\ Head(s) = s[1] /\ Head(s) \in S
      /\ \A i \in 1..(Len(s) - 1) : t[i] = s[i + 1]
  OBVIOUS
<1> HIDE DEF t
<1>2. \A i \in DOMAIN t : i + 1 \in DOMAIN s
  BY <1>1
<1>3. \A i \in DOMAIN s : i = 1 \/ (i - 1 \in DOMAIN t /\ t[i - 1] = s[i])
  <2> SUFFICES ASSUME NEW i \in DOMAIN s, i # 1
               PROVE  i - 1 \in DOMAIN t /\ t[i - 1] = s[i]
    OBVIOUS
  <2>1. i - 1 \in DOMAIN t /\ (i - 1) + 1 = i
    BY <1>1
  <2> QED BY <1>1, <2>1
<1> QED BY <1>1, <1>2, <1>3 DEF t

\* The first k elements and the others.
LEMMA Cut ==
  ASSUME NEW S, NEW s \in Seq(S), NEW k \in 0..Len(s)
  PROVE  /\ SubSeq(s, 1, k) \in Seq(S) /\ DOMAIN SubSeq(s, 1, k) = 1..k
         /\ \A i \in 1..k : i \in DOMAIN s /\ SubSeq(s, 1, k)[i] = s[i]
         /\ SubSeq(s, k + 1, Len(s)) \in Seq(S)
         /\ DOMAIN SubSeq(s, k + 1, Len(s)) = 1..(Len(s) - k)
         /\ \A i \in 1..(Len(s) - k) : /\ i + k \in DOMAIN s /\ i + k > k
                                       /\ SubSeq(s, k + 1, Len(s))[i] = s[i + k]
         /\ \A i \in DOMAIN s : i > k => /\ i - k \in 1..(Len(s) - k)
                                         /\ SubSeq(s, k + 1, Len(s))[i - k] = s[i]
<1> DEFINE t == SubSeq(s, 1, k)
           u == SubSeq(s, k + 1, Len(s))
<1>0. Len(s) \in Nat /\ DOMAIN s = 1..Len(s) /\ k \in Nat /\ k <= Len(s)
  OBVIOUS
<1>1. t \in Seq(S) /\ Len(t) = k /\ \A i \in 1..k : t[i] = s[i]
  BY <1>0
<1>2. u \in Seq(S) /\ Len(u) = Len(s) - k /\ \A i \in 1..(Len(s) - k) : u[i] = s[i + k]
  <2>1. CASE k = Len(s)
    BY <1>0, <2>1
  <2>2. CASE k < Len(s)
    <3>1. k + 1 \in 1..Len(s) /\ k + 1 <= Len(s) /\ k + 1 \in Nat
      BY <1>0, <2>2
    <3>2. Len(u) = Len(s) - (k + 1) + 1 /\ \A i \in 1..Len(u) : u[i] = s[(k + 1) + i - 1]
      BY <1>0, <3>1
    <3>3. \A i \in 1..(Len(s) - k) : (k + 1) + i - 1 = i + k
      BY <1>0
    <3>4. u \in Seq(S)
      BY <1>0, <3>1
    <3> HIDE DEF u
    <3>5. Len(u) = Len(s) - k
      BY <1>0, <3>2
    <3> QED BY <3>2, <3>3, <3>4, <3>5
  <2> QED BY <1>0, <2>1, <2>2
<1> HIDE DEF t, u
<1>3. DOMAIN t = 1..k /\ DOMAIN u = 1..(Len(s) - k)
  BY <1>1, <1>2
<1>4. \A i \in 1..(Len(s) - k) : i + k \in DOMAIN s /\ i + k > k
  BY <1>0
<1>5. \A i \in DOMAIN s : i > k => i - k \in 1..(Len(s) - k) /\ (i - k) + k = i
  BY <1>0
<1>6. \A i \in DOMAIN s : i > k => u[i - k] = s[i]
  BY <1>2, <1>5
<1>7. \A i \in 1..k : i \in DOMAIN s
  BY <1>0
<1> QED BY <1>1, <1>2, <1>3, <1>4, <1>5, <1>6, <1>7 DEF t, u

\* The marked broks of a list are cut off the others.
LEMMA MarkedFirst ==
  ASSUME NEW S, \A b \in S : b.sent \in BOOLEAN, NEW bs \in Seq(S)
  PROVE  /\ Marked(bs) \in 0..Len(bs)
         /\ FirstMarked(bs) => \A k \in DOMAIN bs : bs[k].sent <=> k <= Marked(bs)
<1> DEFINE T == {k \in Nat : k \in DOMAIN bs /\ ~bs[k].sent}
           P(k) == (\A j \in 1..k : bs[j].sent) /\ (k < Len(bs) => ~bs[k + 1].sent)
<1>0. Len(bs) \in Nat /\ DOMAIN bs = 1..Len(bs) /\ \A k \in DOMAIN bs : bs[k].sent \in BOOLEAN
  OBVIOUS
<1>1. \E k \in 0..Len(bs) : P(k)
  <2>1. CASE T = {}
    BY <1>0, <2>1
  <2>2. CASE T # {}
    <3>1. \E x \in T : \A y \in T : ~(<<y, x>> \in OpToRel(<, Nat))
      BY <2>2, NatLessThanWellFounded, WFMin
    <3>2. PICK x \in T : \A y \in T : ~(<<y, x>> \in OpToRel(<, Nat))
      BY <3>1
    <3>3. \A y \in T : x <= y
      <4> TAKE y \in T
      <4>1. ~(y < x)
        BY <3>2 DEF OpToRel
      <4> QED BY <4>1
    <3>4. x - 1 \in 0..Len(bs) /\ (x - 1) + 1 = x
      BY <1>0
    <3>5. \A j \in 1..(x - 1) : j \in DOMAIN bs /\ j \in Nat /\ ~(x <= j)
      BY <1>0
    <3>6. P(x - 1)
      BY <1>0, <3>3, <3>4, <3>5
    <3> QED BY <3>4, <3>6
  <2> QED BY <2>1, <2>2
<1> PICK m : m = Marked(bs)
  OBVIOUS
<1>2. m \in 0..Len(bs) /\ P(m)
  BY <1>1 DEF Marked
<1>3. ASSUME FirstMarked(bs), NEW k \in DOMAIN bs
      PROVE  bs[k].sent <=> k <= m
  <2>1. CASE k <= m
    BY <1>0, <1>2, <2>1
  <2>2. CASE k = m + 1
    BY <1>0, <1>2, <2>2
  <2>3. CASE k > m + 1
    <3>1. m + 1 \in DOMAIN bs /\ m + 1 < k /\ ~bs[m + 1].sent
      BY <1>0, <1>2, <2>3
    <3> QED BY <1>0, <1>2, <1>3, <2>3, <3>1 DEF FirstMarked
  <2> QED BY <1>0, <1>2, <2>1, <2>2, <2>3
<1> QED BY <1>2, <1>3

LEMMA Records ==
  /\ \A b \in BrokTypes : b.sent \in BOOLEAN /\ b.n \in Nat /\ b.from \in Links
  /\ \A b \in SchedulerBroks : b.sent \in BOOLEAN /\ b.n \in Nat
BY DEF BrokTypes, SchedulerBroks

LEMMA MarkAll ==
  ASSUME NEW bs \in Seq(SchedulerBroks)
  PROVE  /\ AllSent(bs) \in Seq(SchedulerBroks) /\ DOMAIN AllSent(bs) = DOMAIN bs
         /\ \A k \in DOMAIN bs : AllSent(bs)[k].sent /\ AllSent(bs)[k].n = bs[k].n
<1> PICK t : t = AllSent(bs)
  OBVIOUS
<1>1. DOMAIN bs = 1..Len(bs) /\ Len(bs) \in Nat /\ \A k \in DOMAIN bs : bs[k] \in SchedulerBroks
  OBVIOUS
<1>2. DOMAIN t = DOMAIN bs /\ \A k \in DOMAIN bs : t[k] = [bs[k] EXCEPT !.sent = TRUE]
  BY DEF AllSent
<1>3. \A k \in DOMAIN bs : t[k] \in SchedulerBroks /\ t[k].sent /\ t[k].n = bs[k].n
  <2> TAKE k \in DOMAIN bs
  <2>1. PICK b \in SchedulerBroks : b = bs[k]
    BY <1>1
  <2>2. t[k] = [b EXCEPT !.sent = TRUE]
    BY <1>2, <2>1
  <2> QED BY <2>1, <2>2 DEF SchedulerBroks
<1>4. t = [k \in 1..Len(bs) |-> t[k]]
  BY <1>1 DEF AllSent
<1>5. t \in Seq(SchedulerBroks)
  BY <1>1, <1>3, <1>4
<1> QED BY <1>2, <1>3, <1>5

LEMMA MarkExternal ==
  ASSUME NEW bs \in Seq(BrokTypes)
  PROVE  /\ Sent(bs) \in Seq(BrokTypes) /\ DOMAIN Sent(bs) = DOMAIN bs
         /\ \A k \in DOMAIN bs : /\ Sent(bs)[k].sent /\ Sent(bs)[k].n = bs[k].n
                                  /\ Sent(bs)[k].from = bs[k].from
<1> PICK t : t = Sent(bs)
  OBVIOUS
<1>1. DOMAIN bs = 1..Len(bs) /\ Len(bs) \in Nat /\ \A k \in DOMAIN bs : bs[k] \in BrokTypes
  OBVIOUS
<1>2. DOMAIN t = DOMAIN bs /\ \A k \in DOMAIN bs : t[k] = [bs[k] EXCEPT !.sent = TRUE]
  BY DEF Sent
<1>3. \A k \in DOMAIN bs : /\ t[k] \in BrokTypes /\ t[k].sent
                            /\ t[k].n = bs[k].n /\ t[k].from = bs[k].from
  <2> TAKE k \in DOMAIN bs
  <2>1. PICK b \in BrokTypes : b = bs[k]
    BY <1>1
  <2>2. t[k] = [b EXCEPT !.sent = TRUE]
    BY <1>2, <2>1
  <2> QED BY <2>1, <2>2 DEF BrokTypes
<1>4. t = [k \in 1..Len(bs) |-> t[k]]
  BY <1>1 DEF Sent
<1>5. t \in Seq(BrokTypes)
  BY <1>1, <1>3, <1>4
<1> QED BY <1>2, <1>3, <1>5

LEMMA TakenList ==
  ASSUME NEW s \in Links, NEW bs \in Seq(SchedulerBroks)
  PROVE  /\ Taken(s, bs) \in Seq(BrokTypes) /\ DOMAIN Taken(s, bs) = DOMAIN bs
         /\ \A k \in DOMAIN bs : Taken(s, bs)[k] = [from |-> s, n |-> bs[k].n, sent |-> FALSE]
<1>1. DOMAIN bs = 1..Len(bs) /\ Len(bs) \in Nat /\ \A k \in DOMAIN bs : bs[k] \in SchedulerBroks
  OBVIOUS
<1>2. \A n \in Nat : [from |-> s, n |-> n, sent |-> FALSE] \in BrokTypes
  BY DEF BrokTypes
<1>3. \A k \in DOMAIN bs : [from |-> s, n |-> bs[k].n, sent |-> FALSE] \in BrokTypes
  BY <1>1, <1>2, Records
<1> QED BY <1>1, <1>3 DEF Taken

-----------------------------------------------------------------------------
(* Types *)

LEMMA CutTypes ==
  ASSUME NEW S, \A b \in S : b.sent \in BOOLEAN, NEW bs \in Seq(S)
  PROVE  SubSeq(bs, 1, Marked(bs)) \in Seq(S) /\ Unsent(bs) \in Seq(S)
<1>1. Marked(bs) \in 0..Len(bs)
  BY MarkedFirst
<1> QED BY <1>1, Cut DEF Unsent

LEMMA CutMarked ==
  ASSUME NEW S, \A b \in S : b.sent \in BOOLEAN, NEW bs \in Seq(S), FirstMarked(bs)
  PROVE  /\ \A i \in DOMAIN SubSeq(bs, 1, Marked(bs)) :
              i \in DOMAIN bs /\ SubSeq(bs, 1, Marked(bs))[i] = bs[i]
         /\ \A i \in DOMAIN Unsent(bs) :
              /\ i + Marked(bs) \in DOMAIN bs /\ i \in Nat /\ Marked(bs) \in Nat
              /\ Unsent(bs)[i] = bs[i + Marked(bs)] /\ ~Unsent(bs)[i].sent
         /\ \A k \in DOMAIN bs :
              /\ bs[k].sent => /\ k \in DOMAIN SubSeq(bs, 1, Marked(bs))
                               /\ SubSeq(bs, 1, Marked(bs))[k] = bs[k]
              /\ ~bs[k].sent => /\ k - Marked(bs) \in DOMAIN Unsent(bs)
                                /\ Unsent(bs)[k - Marked(bs)] = bs[k]
<1> PICK m : m = Marked(bs)
  OBVIOUS
<1> PICK t : t = SubSeq(bs, 1, m)
  OBVIOUS
<1> PICK u : u = SubSeq(bs, m + 1, Len(bs))
  OBVIOUS
<1>1. m \in 0..Len(bs) /\ \A k \in DOMAIN bs : bs[k].sent <=> k <= m
  BY MarkedFirst
<1>2. /\ t \in Seq(S) /\ DOMAIN t = 1..m /\ \A i \in 1..m : i \in DOMAIN bs /\ t[i] = bs[i]
      /\ u \in Seq(S) /\ DOMAIN u = 1..(Len(bs) - m)
      /\ \A i \in 1..(Len(bs) - m) : i + m \in DOMAIN bs /\ i + m > m /\ u[i] = bs[i + m]
      /\ \A i \in DOMAIN bs : i > m => i - m \in 1..(Len(bs) - m) /\ u[i - m] = bs[i]
  BY <1>1, Cut, SMTT(30)
<1>3. DOMAIN bs = 1..Len(bs) /\ Len(bs) \in Nat
  OBVIOUS
<1>4. ASSUME NEW i \in DOMAIN u
      PROVE  i + m \in DOMAIN bs /\ i \in Nat /\ m \in Nat /\ u[i] = bs[i + m] /\ ~u[i].sent
  <2>1. i + m \in DOMAIN bs /\ i + m > m /\ u[i] = bs[i + m]
    BY <1>2
  <2>2. i \in 1..(Len(bs) - m) /\ m \in 0..Len(bs)
    BY <1>1, <1>2
  <2>3. ~(i + m <= m) /\ i \in Nat /\ m \in Nat
    BY <1>3, <2>2
  <2> QED BY <1>1, <2>1, <2>3
<1>5. ASSUME NEW k \in DOMAIN bs
      PROVE  /\ bs[k].sent => k \in DOMAIN t /\ t[k] = bs[k]
             /\ ~bs[k].sent => k - m \in DOMAIN u /\ u[k - m] = bs[k]
  <2>1. bs[k].sent <=> k <= m
    BY <1>1
  <2>2. k <= m => k \in 1..m
    BY <1>1, <1>3
  <2>3. ~(k <= m) => k > m
    BY <1>1, <1>3
  <2> QED BY <1>2, <2>1, <2>2, <2>3
<1>6. Unsent(bs) = u
  BY DEF Unsent
<1> QED BY <1>2, <1>4, <1>5, <1>6

LEMMA SeqConstant == Schedulers \in Seq(Links) /\ Schedulers # <<>>
BY BroksConstants

LEMMA TailTodo ==
  ASSUME NEW s \in Seq(Links), s # <<>>
  PROVE  /\ Head(s) \in Links /\ Tail(s) \in Seq(Links) /\ (Len(s) # 1 => Tail(s) # <<>>)
<1> PICK t : t = Tail(s)
  OBVIOUS
<1>1. Head(s) \in Links /\ t \in Seq(Links) /\ Len(t) = Len(s) - 1 /\ Len(s) \in Nat
  OBVIOUS
<1>2. t = <<>> => Len(t) = 0
  OBVIOUS
<1>3. Len(s) # 1 => Len(t) # 0
  BY <1>1
<1> QED BY <1>1, <1>2, <1>3

LEMMA FillTypes ==
  ASSUME TypeOK, NEW s \in Links, FillInitialBroks(s)
  PROVE  /\ made' \in [Links -> Nat] /\ ready' \in [Links -> BOOLEAN]
         /\ broks' \in [Links -> Seq(SchedulerBroks)] /\ initialized' \in [Links -> BOOLEAN]
<1>1. broks[s] \in Seq(SchedulerBroks) /\ made[s] \in Nat
  BY DEF TypeOK, SchedulerBroks
<1>2. Brok(s, TRUE) \in SchedulerBroks
  BY <1>1 DEF Brok, SchedulerBroks
<1>3. Append(broks[s], Brok(s, TRUE)) \in Seq(SchedulerBroks)
  BY <1>1, <1>2, AppendList
<1>4. AllSent(Append(broks[s], Brok(s, TRUE))) \in Seq(SchedulerBroks)
  BY <1>3, MarkAll
<1>5. broks \in [Links -> Seq(SchedulerBroks)]
  BY DEF TypeOK, SchedulerBroks
<1>6. broks' \in [Links -> Seq(SchedulerBroks)]
  BY <1>4, <1>5 DEF FillInitialBroks
<1>7. made \in [Links -> Nat] /\ initialized \in [Links -> BOOLEAN] /\ ready \in [Links -> BOOLEAN]
  BY DEF TypeOK
<1>8. made' \in [Links -> Nat]
  BY <1>1, <1>7 DEF FillInitialBroks
<1>9. initialized' \in [Links -> BOOLEAN] /\ ready' \in [Links -> BOOLEAN]
  BY <1>7 DEF FillInitialBroks
<1> QED BY <1>6, <1>8, <1>9

\* The marked broks of a link are given, the others are kept.
LEMMA GetTypes ==
  ASSUME TypeOK, GetNewBroks
  PROVE  /\ external' \in Seq(BrokTypes) /\ kept' \in Seq(SchedulerBroks) \cup {None}
         /\ todo' \in Seq(Links) /\ (pc' \in {"get", "given"} => todo' # <<>>)
         /\ (pc' # "given" => kept' = None) /\ pc' \in {"get", "given", "send"}
<1>s. PICK s : s = Head(todo)
  OBVIOUS
<1>1. s \in Links /\ Tail(todo) \in Seq(Links) /\ (Len(todo) # 1 => Tail(todo) # <<>>)
  BY <1>s, TailTodo DEF TypeOK, GetNewBroks
<1>2. external \in Seq(BrokTypes) /\ broks[s] \in Seq(SchedulerBroks) /\ kept = None
  BY <1>1 DEF TypeOK, SchedulerBroks, GetNewBroks
<1>3. Given(s) \in Seq(SchedulerBroks) /\ Left(broks[s]) \in Seq(SchedulerBroks)
  BY <1>2, CutTypes, Records DEF Given, Left
<1>4. Taken(s, Given(s)) \in Seq(BrokTypes)
  BY <1>1, <1>3, TakenList
<1>5. external \o Taken(s, Given(s)) \in Seq(BrokTypes)
  BY <1>2, <1>4, ConcatList
<1>6. CASE AskBroks(s)
  <2>1. external' = external \/ external' = external \o Taken(s, Given(s))
    BY <1>6 DEF AskBroks
  <2>2. kept' = Left(broks[s]) /\ pc' = "given" /\ todo' = todo
    BY <1>6 DEF AskBroks
  <2>3. todo \in Seq(Links) /\ todo # <<>>
    BY DEF TypeOK, GetNewBroks
  <2> QED BY <1>2, <1>3, <1>5, <2>1, <2>2, <2>3
<1>7. CASE NextLink /\ UNCHANGED <<kept, external>>
  BY <1>1, <1>2, <1>7 DEF NextLink
<1> QED BY <1>s, <1>6, <1>7 DEF GetNewBroks

LEMMA SentInList ==
  ASSUME NEW bs \in Seq(SchedulerBroks), NEW cs
  PROVE  /\ SentIn(bs, cs) \in Seq(SchedulerBroks) /\ DOMAIN SentIn(bs, cs) = DOMAIN bs
         /\ \A k \in DOMAIN bs :
              /\ SentIn(bs, cs)[k].n = bs[k].n
              /\ SentIn(bs, cs)[k].sent <=> bs[k].sent \/ Numbered(cs, bs[k].n)
<1> PICK t : t = SentIn(bs, cs)
  OBVIOUS
<1>1. DOMAIN bs = 1..Len(bs) /\ Len(bs) \in Nat /\ \A k \in DOMAIN bs : bs[k] \in SchedulerBroks
  OBVIOUS
<1>2. \A n : (\E b \in ToSet(cs) : b.n = n) <=> Numbered(cs, n)
  BY DEF ToSet, Numbered
<1>3. /\ DOMAIN t = DOMAIN bs
      /\ \A k \in DOMAIN bs :
           t[k] = [bs[k] EXCEPT !.sent = bs[k].sent \/ \E b \in ToSet(cs) : b.n = bs[k].n]
  BY DEF SentIn
<1>4. \A k \in DOMAIN bs : /\ t[k] \in SchedulerBroks /\ t[k].n = bs[k].n
                           /\ t[k].sent <=> bs[k].sent \/ Numbered(cs, bs[k].n)
  <2> TAKE k \in DOMAIN bs
  <2>1. PICK b \in SchedulerBroks : b = bs[k]
    BY <1>1
  <2>2. PICK x \in BOOLEAN : x <=> (b.sent \/ \E c \in ToSet(cs) : c.n = b.n)
    OBVIOUS
  <2>3. b.sent \in BOOLEAN /\ b = [n |-> b.n, sent |-> b.sent] /\ b.n \in Nat
    BY DEF SchedulerBroks
  <2>4. (b.sent \/ \E c \in ToSet(cs) : c.n = b.n) \in BOOLEAN
    BY <2>3
  <2>5. t[k] = [b EXCEPT !.sent = x]
    BY <1>3, <2>1, <2>2, <2>4
  <2>6. t[k] \in SchedulerBroks /\ t[k].n = b.n /\ t[k].sent = x
    BY <2>3, <2>5 DEF SchedulerBroks
  <2> QED BY <1>2, <2>1, <2>2, <2>6
<1>5. t = [k \in 1..Len(bs) |-> t[k]]
  BY <1>1 DEF SentIn
<1>6. t \in Seq(SchedulerBroks)
  <2>1. \A k \in 1..Len(bs) : t[k] \in SchedulerBroks
    BY <1>1, <1>4
  <2> QED BY ONLY <1>1, <1>5, <2>1
<1> QED BY <1>3, <1>4, <1>6

\* The lists of a module that loses its queue go on with the process that has them.
LEMMA ProcessTypes ==
  ASSUME TypeOK, NEW m \in Modules
  PROVE  /\ Process(m) \in [read : Seq(BrokTypes), queue : Seq(Seq(BrokTypes))]
         /\ Process(m).read = received[m] /\ Process(m).queue \in {Lists(m), <<>>}
<1>1. received[m] \in Seq(BrokTypes) /\ <<>> \in Seq(Seq(BrokTypes))
  BY DEF TypeOK
<1>2. process[m] = "live" => queue[m] \in Seq(Seq(BrokTypes)) /\ Lists(m) = queue[m]
  BY DEF TypeOK, Lists
<1> QED BY <1>1, <1>2 DEF Process

\* A module keeps its queue and its process, or loses both.
LEMMA CheckEffect ==
  ASSUME TypeOK, CheckModules, NEW m \in Modules
  PROVE  \/ /\ queue'[m] = queue[m] /\ process'[m] = process[m]
            /\ received'[m] = received[m] /\ old'[m] = old[m]
         \/ /\ queue'[m] \in {None, <<>>} /\ (process'[m] = "live" => queue'[m] = <<>>)
            /\ process'[m] \in {"live", "dead"} /\ m \in faults'
            /\ received'[m] = <<>> /\ old'[m] \in {old[m], Append(old[m], Process(m))}
<1> DEFINE failed == {x \in Modules : Failed(x)}
           list == SetToRestart(failed)
           tried == {x \in Modules : list[x] > 0 /\ early[x] <= 1}
<1>1. PICK refused \in SUBSET tried :
        /\ TryInstanceInit(tried) /\ SetAside(tried \cup failed)
        /\ Start(tried \ refused, tried \cup failed)
        /\ faults' = faults \cup {x \in Modules : list[x] > 0}
  BY DEF CheckModules
<1>2. list[m] = IF m \in failed THEN toRestart[m] + 1 ELSE toRestart[m]
  BY DEF SetToRestart
<1>3. m \in failed => list[m] > 0
  <2>1. toRestart[m] \in Nat
    BY DEF TypeOK
  <2> HIDE DEF failed, list
  <2> QED BY <1>2, <2>1
<1>4. queue'[m] = IF m \in tried THEN <<>> ELSE IF m \in failed THEN None ELSE queue[m]
  BY <1>1 DEF TryInstanceInit, ClearQueues
<1>5. process'[m] = IF m \in tried \ refused THEN "live"
                    ELSE IF m \in tried \cup failed THEN "dead" ELSE process[m]
  BY <1>1 DEF Start
<1>6. /\ received'[m] = IF m \in tried \cup failed THEN <<>> ELSE received[m]
      /\ old'[m] \in {old[m], Append(old[m], Process(m))}
      /\ m \notin tried \cup failed => old'[m] = old[m]
  BY <1>1 DEF SetAside
<1>7. m \in tried \cup failed => m \in faults'
  BY <1>1, <1>3
<1> QED BY <1>4, <1>5, <1>6, <1>7

LEMMA CheckTypes ==
  ASSUME TypeOK, CheckModules
  PROVE  /\ queue' \in [Modules -> Seq(Seq(BrokTypes)) \cup {None}]
         /\ process' \in [Modules -> {"live", "dead"}]
         /\ \A m \in Modules : process'[m] = "live" => queue'[m] # None
         /\ toRestart' \in [Modules -> Nat] /\ early' \in [Modules -> 0..InitPeriod]
         /\ old' \in [Modules -> Seq([read : Seq(BrokTypes), queue : Seq(Seq(BrokTypes))])]
         /\ received' \in [Modules -> Seq(BrokTypes)]
<1> DEFINE failed == {m \in Modules : Failed(m)}
           list == SetToRestart(failed)
           tried == {m \in Modules : list[m] > 0 /\ early[m] <= 1}
<1>1. PICK refused \in SUBSET tried :
        /\ TryInstanceInit(tried) /\ SetAside(tried \cup failed)
        /\ Start(tried \ refused, tried \cup failed)
        /\ toRestart' = [m \in Modules |-> IF m \in tried \ refused THEN list[m] - 1 ELSE list[m]]
  BY DEF CheckModules
<1>2. list = [m \in Modules |-> IF m \in failed THEN toRestart[m] + 1 ELSE toRestart[m]]
  BY DEF SetToRestart
<1>3. list \in [Modules -> Nat]
  <2>1. toRestart \in [Modules -> Nat] /\ failed \subseteq Modules
    BY DEF TypeOK
  <2> HIDE DEF failed, list
  <2> QED BY <1>2, <2>1
<1> HIDE DEF list
<1>4. toRestart' \in [Modules -> Nat]
  BY <1>1, <1>3
<1>5. early' \in [Modules -> 0..InitPeriod]
  <2>1. early \in [Modules -> 0..InitPeriod] /\ InitPeriod \in Nat
    BY BroksConstants DEF TypeOK
  <2>2. \A m \in Modules : early[m] > 0 => early[m] - 1 \in 0..InitPeriod
    BY <2>1
  <2>3. InitPeriod \in 0..InitPeriod /\ 0 \in 0..InitPeriod
    BY <2>1
  <2> QED BY <1>1, <2>2, <2>3 DEF TryInstanceInit
<1>6. /\ queue' = [m \in Modules |-> queue'[m]] /\ process' = [m \in Modules |-> process'[m]]
      /\ old' = [m \in Modules |-> old'[m]] /\ received' = [m \in Modules |-> received'[m]]
  BY <1>1 DEF TryInstanceInit, Start, SetAside
<1>7. /\ <<>> \in Seq(Seq(BrokTypes)) /\ <<>> \in Seq(BrokTypes)
      /\ <<>> # None
  <2>1. <<>> \in Seq(Seq(BrokTypes)) /\ <<>> \in Seq(BrokTypes)
    OBVIOUS
  <2> QED BY <2>1, NoList
<1>8. ASSUME NEW m \in Modules
      PROVE  /\ queue'[m] \in Seq(Seq(BrokTypes)) \cup {None} /\ process'[m] \in {"live", "dead"}
             /\ process'[m] = "live" => queue'[m] # None
             /\ old'[m] \in Seq([read : Seq(BrokTypes), queue : Seq(Seq(BrokTypes))])
             /\ received'[m] \in Seq(BrokTypes)
  <2>1. old[m] \in Seq([read : Seq(BrokTypes), queue : Seq(Seq(BrokTypes))])
    BY DEF TypeOK
  <2>2. Append(old[m], Process(m)) \in Seq([read : Seq(BrokTypes), queue : Seq(Seq(BrokTypes))])
    BY <2>1, ProcessTypes
  <2>3. /\ queue[m] \in Seq(Seq(BrokTypes)) \cup {None} /\ process[m] \in {"live", "dead"}
        /\ process[m] = "live" => queue[m] # None
        /\ received[m] \in Seq(BrokTypes)
    BY DEF TypeOK
  <2> QED BY <1>7, <2>1, <2>2, <2>3, CheckEffect
<1> QED BY <1>4, <1>5, <1>6, <1>8

LEMMA SendTypes ==
  ASSUME TypeOK, SendBroks
    PROVE  /\ external' \in Seq(BrokTypes) /\ toRestart' \in [Modules -> Nat]
         /\ queue' \in [Modules -> Seq(Seq(BrokTypes)) \cup {None}]
         /\ \A m \in Modules : queue[m] # None => queue'[m] # None
<1>1. external \in Seq(BrokTypes) /\ Unsent(external) \in Seq(BrokTypes)
  BY CutTypes, Records DEF TypeOK
<1>2. external' \in Seq(BrokTypes)
  BY <1>1, MarkExternal DEF SendBroks
<1>3. toRestart' \in [Modules -> Nat]
  BY DEF SendBroks, SetToRestart, TypeOK
<1>4. \A m \in Modules : queue[m] # None => Append(queue[m], Unsent(external)) \in Seq(Seq(BrokTypes))
  <2> TAKE m \in Modules
  <2>1. queue[m] # None => queue[m] \in Seq(Seq(BrokTypes))
    BY DEF TypeOK
  <2> QED BY <1>1, <2>1, AppendList
<1>5. queue' \in [Modules -> Seq(Seq(BrokTypes)) \cup {None}]
  BY <1>4 DEF SendBroks
<1>6. ASSUME NEW m \in Modules, queue[m] # None PROVE queue'[m] # None
  <2>1. queue'[m] = Append(queue[m], Unsent(external))
    BY <1>6 DEF SendBroks
  <2> QED BY <1>4, <1>6, <2>1, NoList
<1> QED BY <1>2, <1>3, <1>5, <1>6

LEMMA ManageTypes ==
  ASSUME TypeOK, ManageBroks
  PROVE  external' \in Seq(BrokTypes) /\ managed' \in Seq(BrokTypes)
<1>1. PICK k \in 0..Len(external) :
        /\ external' = SubSeq(external, k + 1, Len(external))
        /\ managed' = IF Internal THEN managed \o SubSeq(external, 1, k) ELSE managed
  <2>1. Len(external) \in Nat
    BY DEF TypeOK
  <2> QED BY <2>1 DEF ManageBroks, ManageBrok
<1>2. external \in Seq(BrokTypes) /\ managed \in Seq(BrokTypes)
  BY DEF TypeOK
<1>3. SubSeq(external, 1, k) \in Seq(BrokTypes) /\ SubSeq(external, k + 1, Len(external)) \in Seq(BrokTypes)
  BY <1>2, Cut
<1>4. managed \o SubSeq(external, 1, k) \in Seq(BrokTypes)
  BY <1>2, <1>3, ConcatList
<1> QED BY <1>1, <1>2, <1>3, <1>4

LEMMA ReadTypes ==
  ASSUME TypeOK, NEW m \in Modules, ReadQueue(m)
  PROVE  /\ queue[m] \in Seq(Seq(BrokTypes)) /\ queue[m] # <<>>
         /\ received' \in [Modules -> Seq(BrokTypes)]
                  /\ queue' \in [Modules -> Seq(Seq(BrokTypes)) \cup {None}]
         /\ \A x \in Modules : queue[x] # None => queue'[x] # None
<1>1. queue[m] \in Seq(Seq(BrokTypes)) /\ queue[m] # <<>>
  BY DEF TypeOK, ReadQueue
<1>2. Head(queue[m]) \in Seq(BrokTypes) /\ Tail(queue[m]) \in Seq(Seq(BrokTypes))
  BY <1>1, TailList
<1>3. received[m] \in Seq(BrokTypes)
  BY DEF TypeOK
<1>4. received[m] \o Head(queue[m]) \in Seq(BrokTypes)
  BY <1>2, <1>3, ConcatList
<1>5. ASSUME NEW x \in Modules, queue[x] # None PROVE queue'[x] # None
  <2>1. x = m => queue'[x] = Tail(queue[m])
    BY DEF TypeOK, ReadQueue
  <2>2. x # m => queue'[x] = queue[x]
    BY DEF TypeOK, ReadQueue
  <2> QED BY <1>2, <1>5, <2>1, <2>2, NoList
<1> QED BY <1>1, <1>2, <1>4, <1>5 DEF TypeOK, ReadQueue

\* A former process keeps its broks when it reads.
LEMMA OldTypes ==
  ASSUME TypeOK, NEW m \in Modules, ReadOld(m)
  PROVE  /\ old' \in [Modules -> Seq([read : Seq(BrokTypes), queue : Seq(Seq(BrokTypes))])]
         /\ \E j \in DOMAIN old[m] :
              LET p == old[m][j]
                  q == [read |-> p.read \o Head(p.queue), queue |-> Tail(p.queue)]
              IN /\ p.read \in Seq(BrokTypes) /\ p.queue \in Seq(Seq(BrokTypes)) /\ p.queue # <<>>
                 /\ DOMAIN old'[m] = DOMAIN old[m] /\ old'[m][j] = q
                 /\ \A k \in DOMAIN old[m] : k # j => old'[m][k] = old[m][k]
         /\ \A x \in Modules \ {m} : old'[x] = old[x]
<1> DEFINE P == [read : Seq(BrokTypes), queue : Seq(Seq(BrokTypes))]
<1>1. PICK j \in DOMAIN old[m] :
        /\ old[m][j].queue # <<>>
        /\ old' = [old EXCEPT ![m][j] = [read |-> @.read \o Head(@.queue), queue |-> Tail(@.queue)]]
  BY DEF ReadOld
<1> PICK p : p = old[m][j]
  OBVIOUS
<1> PICK q : q = [read |-> p.read \o Head(p.queue), queue |-> Tail(p.queue)]
  OBVIOUS
<1>2. old \in [Modules -> Seq(P)]
  BY DEF TypeOK
<1>3. p \in P
  <2> HIDE DEF P
  <2>1. old[m] \in Seq(P)
    BY <1>2
  <2> QED BY <2>1
<1>4. p.read \in Seq(BrokTypes) /\ p.queue \in Seq(Seq(BrokTypes)) /\ p.queue # <<>>
  BY <1>1, <1>3
<1>5. Head(p.queue) \in Seq(BrokTypes) /\ Tail(p.queue) \in Seq(Seq(BrokTypes))
  BY <1>4, TailList
<1>6. p.read \o Head(p.queue) \in Seq(BrokTypes)
  BY <1>4, <1>5, ConcatList
<1>7. q \in P
  BY <1>5, <1>6
<1> HIDE DEF P
<1>8. old' = [old EXCEPT ![m] = [old[m] EXCEPT ![j] = q]]
  BY <1>1
<1>9. old'[m] = [old[m] EXCEPT ![j] = q] /\ \A x \in Modules \ {m} : old'[x] = old[x]
  BY <1>2, <1>8
<1>10. [old[m] EXCEPT ![j] = q] \in Seq(P)
  BY <1>2, <1>7
<1>11. old' \in [Modules -> Seq(P)]
  BY <1>2, <1>8, <1>10
<1>12. /\ DOMAIN old'[m] = DOMAIN old[m] /\ old'[m][j] = q
       /\ \A k \in DOMAIN old[m] : k # j => old'[m][k] = old[m][k]
  BY <1>9
<1>13. LET r == old[m][j]
            v == [read |-> r.read \o Head(r.queue), queue |-> Tail(r.queue)]
        IN /\ r.read \in Seq(BrokTypes) /\ r.queue \in Seq(Seq(BrokTypes)) /\ r.queue # <<>>
           /\ DOMAIN old'[m] = DOMAIN old[m] /\ old'[m][j] = v
           /\ \A k \in DOMAIN old[m] : k # j => old'[m][k] = old[m][k]
  BY <1>4, <1>12, Zenon
<1> QED BY <1>9, <1>11, <1>13, Zenon DEF P

LEMMA FaultTypes ==
  ASSUME nfaults \in 0..MaxFaults, NEW xs, Fault(xs)
  PROVE  nfaults' \in 0..MaxFaults
BY BroksConstants DEF Fault

LEMMA Typing == Init => TypeOK
<1> SUFFICES ASSUME Init PROVE TypeOK
  OBVIOUS
<1>1. <<>> \in Seq(Seq(BrokTypes)) /\ <<>> \in Seq(BrokTypes) /\ <<>> \in Seq(Links)
      /\ <<>> \in Seq([n : Nat, sent : BOOLEAN])
      /\ <<>> \in Seq([read : Seq(BrokTypes), queue : Seq(Seq(BrokTypes))])
  OBVIOUS
<1>2. InitPeriod \in 0..InitPeriod /\ 0 \in 0..MaxFaults
  BY BroksConstants
<1> QED BY <1>1, <1>2, NoList DEF Init, TypeOK

LEMMA TypeStep ==
  ASSUME TypeOK, [Next]_vars
  PROVE  TypeOK'
<1> USE DEF scheduler, modules, history
<1>0. /\ broks \in [Links -> Seq(SchedulerBroks)] /\ made \in [Links -> Nat]
      /\ kept \in Seq(SchedulerBroks) \cup {None} /\ (pc # "given" => kept = None)
  BY DEF TypeOK, SchedulerBroks
<1>1. ASSUME NEW s \in Links, AddBrok(s) PROVE TypeOK'
  <2>1. Brok(s, FALSE) \in SchedulerBroks /\ made[s] + 1 \in Nat
    BY <1>0 DEF Brok, SchedulerBroks
  <2>2. Append(broks[s], Brok(s, FALSE)) \in Seq(SchedulerBroks)
    BY <1>0, <2>1, AppendList
  <2>3. broks' \in [Links -> Seq(SchedulerBroks)] /\ made' \in [Links -> Nat]
    BY <1>0, <1>1, <2>1, <2>2 DEF AddBrok
  <2> QED BY <1>1, <2>3 DEF AddBrok, TypeOK, SchedulerBroks
<1>2. ASSUME NEW s \in Links, SendBroksToModules(s) PROVE TypeOK'
  <2>1. AllSent(broks[s]) \in Seq(SchedulerBroks)
    BY <1>0, MarkAll
  <2>2. broks' \in [Links -> Seq(SchedulerBroks)]
    BY <1>0, <1>2, <2>1 DEF SendBroksToModules
  <2>3. kept # None => SentIn(kept, broks[s]) \in Seq(SchedulerBroks)
    BY <1>0, SentInList
  <2>4. kept' \in Seq(SchedulerBroks) \cup {None} /\ (pc # "given" => kept' = None)
    BY <1>0, <1>2, <2>3 DEF SendBroksToModules, Rebinding
  <2> QED BY <1>2, <2>2, <2>4 DEF SendBroksToModules, TypeOK, SchedulerBroks
<1>3. ASSUME NEW s \in Links, CleanQueues(s) PROVE TypeOK'
  <2>1. MaxKept \in 0..Len(broks[s])
    BY <1>0, <1>3, BroksConstants DEF CleanQueues
  <2>2. SubSeq(broks[s], 1, MaxKept) \in Seq(SchedulerBroks)
    BY <1>0, <2>1, Cut
  <2>3. broks' \in [Links -> Seq(SchedulerBroks)]
    BY <1>0, <1>3, <2>2 DEF CleanQueues
  <2> QED BY <1>3, <2>3 DEF CleanQueues, TypeOK, SchedulerBroks
<1>4. ASSUME NEW s \in Links, SetupScheduler(s) PROVE TypeOK'
  <2>1. <<>> \in Seq(SchedulerBroks)
    OBVIOUS
  <2>2. broks' \in [Links -> Seq(SchedulerBroks)]
    BY <1>0, <1>4, <2>1 DEF SetupScheduler
  <2>3. nfaults' \in 0..MaxFaults
    BY <1>4, FaultTypes DEF SetupScheduler, TypeOK
  <2>4. ready' \in [Links -> BOOLEAN] /\ initialized' \in [Links -> BOOLEAN]
    BY <1>4 DEF SetupScheduler, TypeOK
  <2>5. kept' \in Seq(SchedulerBroks) \cup {None} /\ (pc # "given" => kept' = None)
    BY <1>0, <1>4 DEF SetupScheduler
  <2> QED BY <1>4, <2>2, <2>3, <2>4, <2>5 DEF SetupScheduler, TypeOK, SchedulerBroks
<1>5. CASE Begin
  <2>1. link' \in [Links -> {"alive", "unreachable", "dead"}]
    BY <1>5 DEF Begin, TypeOK
  <2> QED BY <1>5, <2>1, SeqConstant DEF Begin, TypeOK
<1>6. CASE AskInitialBroks
  <2> PICK s : s = Head(todo)
    OBVIOUS
  <2>1. s \in Links /\ Tail(todo) \in Seq(Links) /\ (Len(todo) # 1 => Tail(todo) # <<>>)
    BY <1>6, TailTodo DEF AskInitialBroks, TypeOK
  <2>2. link' \in [Links -> {"alive", "unreachable", "dead"}]
    BY <1>6 DEF AskInitialBroks, Fail, TypeOK
  <2>3. nfaults' \in 0..MaxFaults
    BY <1>6, FaultTypes DEF AskInitialBroks, TypeOK
  <2>4. \/ FillInitialBroks(s)
        \/ UNCHANGED scheduler
    BY <1>6 DEF AskInitialBroks
  <2>5. /\ made' \in [Links -> Nat] /\ ready' \in [Links -> BOOLEAN]
        /\ broks' \in [Links -> Seq(SchedulerBroks)] /\ initialized' \in [Links -> BOOLEAN]
    BY <1>0, <2>1, <2>4, FillTypes DEF TypeOK
  <2>6. todo' \in Seq(Links) /\ (pc' \in {"initial", "get", "given"} => todo' # <<>>)
        /\ pc' \in {"begin", "initial", "check"}
    <3>1. Asked \/ (pc' = "begin" /\ todo' = <<>>)
      BY <1>6 DEF AskInitialBroks
    <3>2. <<>> \in Seq(Links)
      OBVIOUS
    <3> QED BY <2>1, <3>1, <3>2 DEF Asked
  <2>7. gotInitial' \in BOOLEAN /\ UNCHANGED <<kept, external, modules, history>> /\ kept = None
    BY <1>0, <1>6 DEF AskInitialBroks, TypeOK
  <2> QED BY <2>2, <2>3, <2>5, <2>6, <2>7 DEF TypeOK, SchedulerBroks
<1>7. CASE CheckModules
  <2>1. UNCHANGED <<scheduler, kept, link, gotInitial, external, managed, nfaults>>
        /\ pc' = "get" /\ todo' = Schedulers /\ kept = None
    BY <1>0, <1>7 DEF CheckModules
  <2> QED BY <1>7, <2>1, CheckTypes, SeqConstant DEF TypeOK
<1>8. CASE GetNewBroks
  <2>1. link' \in [Links -> {"alive", "unreachable", "dead"}]
    BY <1>8 DEF GetNewBroks, AskBroks, Fail, TypeOK
  <2>2. nfaults' \in 0..MaxFaults
    BY <1>8, FaultTypes DEF GetNewBroks, AskBroks, TypeOK
  <2>3. UNCHANGED <<scheduler, gotInitial, modules, history>>
    BY <1>8 DEF GetNewBroks
  <2> QED BY <1>8, <2>1, <2>2, <2>3, GetTypes DEF TypeOK, SchedulerBroks
<1>9. CASE BindBroks
  <2>1. Head(todo) \in Links /\ Tail(todo) \in Seq(Links) /\ (Len(todo) # 1 => Tail(todo) # <<>>)
    BY <1>9, TailTodo DEF BindBroks, TypeOK
  <2>2. broks' \in [Links -> Seq(SchedulerBroks)]
    BY <1>0, <1>9, <2>1 DEF BindBroks
  <2>3. /\ todo' = Tail(todo) /\ pc' = (IF Len(todo) = 1 THEN "send" ELSE "get") /\ kept' = None
        /\ UNCHANGED <<ready, made, initialized, link, gotInitial, external, modules, history,
                       nfaults>>
    BY <1>9 DEF BindBroks, NextLink
  <2> QED BY <2>1, <2>2, <2>3 DEF TypeOK, SchedulerBroks
<1>10. CASE SendBroks
  <2>1. UNCHANGED <<scheduler, kept, link, todo, gotInitial, process, early, old, history, nfaults>>
        /\ pc' = "manage" /\ kept = None
    BY <1>0, <1>10 DEF SendBroks
  <2>2. \A m \in Modules : process'[m] = "live" => queue'[m] # None
    BY <1>10, <2>1, SendTypes DEF TypeOK
  <2> QED BY <1>10, <2>1, <2>2, SendTypes DEF TypeOK
<1>11. CASE ManageBroks
  <2>1. UNCHANGED <<scheduler, kept, link, todo, gotInitial, modules, received>>
        /\ pc' = "begin" /\ kept = None
    BY <1>0, <1>11 DEF ManageBroks
  <2>2. nfaults' \in 0..MaxFaults
    BY <1>11, FaultTypes DEF ManageBroks, ManageBrok, TypeOK
  <2> QED BY <1>11, <2>1, <2>2, ManageTypes DEF TypeOK
<1>12. CASE SetupBroker
  BY <1>12, FaultTypes DEF SetupBroker, TypeOK
<1>13. ASSUME NEW m \in Modules, ReadQueue(m) PROVE TypeOK'
  <2>1. UNCHANGED <<scheduler, kept, link, pc, todo, gotInitial, external, process, toRestart,
                    early, old, managed, nfaults>>
    BY <1>13 DEF ReadQueue
  <2> QED BY <1>13, <2>1, ReadTypes DEF TypeOK
<1>14. ASSUME NEW m \in Modules, ReadOld(m) PROVE TypeOK'
  <2>1. UNCHANGED <<scheduler, kept, link, pc, todo, gotInitial, external, queue, process,
                    toRestart, early, history, nfaults>>
    BY <1>14 DEF ReadOld
  <2> QED BY <1>14, <2>1, OldTypes DEF TypeOK
<1>15. ASSUME NEW m \in Modules, ProcessDies(m) PROVE TypeOK'
  BY <1>15, FaultTypes DEF ProcessDies, TypeOK
<1>16. CASE UNCHANGED vars
  BY <1>16 DEF vars, TypeOK
<1> QED BY <1>1, <1>2, <1>3, <1>4, <1>5, <1>6, <1>7, <1>8, <1>9, <1>10, <1>11, <1>12, <1>13,
           <1>14, <1>15, <1>16 DEF Next, Turn

\* The lists, the links and the counters of the scheduler and of the broker keep their
\* types, whatever fails: a request is made only while a link is left to ask.
THEOREM TypeCorrect == Spec => []TypeOK
BY Typing, TypeStep, PTL DEF Spec

-----------------------------------------------------------------------------
(* The broks of the schedulers *)

LEMMA AppendRising ==
  ASSUME NEW bs \in Seq(SchedulerBroks), NEW n \in Nat, Rising(bs, n),
         NEW e \in SchedulerBroks, e.n = n + 1
  PROVE  /\ Rising(Append(bs, e), n + 1)
         /\ (FirstMarked(bs) /\ ~e.sent) => FirstMarked(Append(bs, e))
<1> PICK t : t = Append(bs, e)
  OBVIOUS
<1>1. /\ Len(bs) \in Nat /\ DOMAIN bs = 1..Len(bs) /\ DOMAIN t = 1..(Len(bs) + 1)
      /\ t[Len(bs) + 1] = e /\ \A i \in 1..Len(bs) : t[i] = bs[i]
  BY AppendList
<1>2. \A k \in DOMAIN bs : bs[k].n \in Nat /\ bs[k].n <= n
  BY Records DEF Rising
<1>3. \A k \in DOMAIN t : k = Len(bs) + 1 \/ k \in DOMAIN bs
  BY <1>1
<1>4. \A k \in DOMAIN t : t[k].n <= n + 1
  BY <1>1, <1>2, <1>3
<1>5. ASSUME NEW j \in DOMAIN t, NEW k \in DOMAIN t, j < k
      PROVE  t[j].n < t[k].n /\ (FirstMarked(bs) /\ ~e.sent /\ t[k].sent => t[j].sent)
  <2>1. j \in DOMAIN bs /\ t[j] = bs[j]
    BY <1>1, <1>5
  <2>2. CASE k = Len(bs) + 1
    BY <1>1, <1>2, <2>1, <2>2
  <2>3. CASE k \in DOMAIN bs
    BY <1>1, <1>5, <2>1, <2>3 DEF Rising, FirstMarked
  <2> QED BY <1>3, <2>2, <2>3
<1> QED BY <1>4, <1>5 DEF Rising, FirstMarked

LEMMA MarkRising ==
  ASSUME NEW bs \in Seq(SchedulerBroks), NEW n, Rising(bs, n)
  PROVE  Rising(AllSent(bs), n) /\ FirstMarked(AllSent(bs))
BY MarkAll DEF Rising, FirstMarked

LEMMA CutRising ==
  ASSUME NEW bs \in Seq(SchedulerBroks), NEW n, Rising(bs, n), FirstMarked(bs), NEW m \in 0..Len(bs)
  PROVE  /\ Rising(SubSeq(bs, 1, m), n) /\ FirstMarked(SubSeq(bs, 1, m))
         /\ Rising(SubSeq(bs, m + 1, Len(bs)), n) /\ FirstMarked(SubSeq(bs, m + 1, Len(bs)))
<1> PICK t : t = SubSeq(bs, 1, m)
  OBVIOUS
<1> PICK u : u = SubSeq(bs, m + 1, Len(bs))
  OBVIOUS
<1>1. /\ DOMAIN t = 1..m /\ \A i \in 1..m : i \in DOMAIN bs /\ t[i] = bs[i]
      /\ DOMAIN u = 1..(Len(bs) - m)
      /\ \A i \in 1..(Len(bs) - m) : i + m \in DOMAIN bs /\ u[i] = bs[i + m]
  BY Cut
<1>2. Rising(t, n) /\ FirstMarked(t)
  BY <1>1, SMTT(30) DEF Rising, FirstMarked
<1>3. Len(bs) \in Nat /\ m \in Nat
  OBVIOUS
<1>4. \A j, k \in DOMAIN u : j < k => j + m < k + m
  BY <1>1, <1>3
<1>5. Rising(u, n) /\ FirstMarked(u)
  BY <1>1, <1>4 DEF Rising, FirstMarked
<1> QED BY <1>2, <1>5

\* What a step does to a scheduler: a brok is new or was there.
Grows(bs, n, cs, p) ==
  /\ p \in {n, n + 1}
  /\ \A k \in DOMAIN cs : (\E j \in DOMAIN bs : cs[k].n = bs[j].n) \/ (cs[k].n = n + 1)

BroksGrow == \A s \in Links : Grows(broks[s], made[s], broks'[s], made'[s])
Evolves == \A s \in Links : Grows(Remaining(s), made[s], Remaining(s)', made'[s])

LEMMA NothingNew ==
  ASSUME NEW bs, NEW n, NEW cs, \A k \in DOMAIN cs : \E j \in DOMAIN bs : cs[k].n = bs[j].n
  PROVE  Grows(bs, n, cs, n)
BY DEF Grows

LEMMA SameNumbers ==
  ASSUME NEW bs, NEW n, NEW p, NEW cs, NEW ds, Grows(bs, n, cs, p),
         DOMAIN ds = DOMAIN cs, \A k \in DOMAIN cs : ds[k].n = cs[k].n
  PROVE  Grows(bs, n, ds, p)
BY DEF Grows

LEMMA OneNew ==
  ASSUME NEW bs \in Seq(SchedulerBroks), NEW n, NEW e \in SchedulerBroks, e.n = n + 1
  PROVE  Grows(bs, n, Append(bs, e), n + 1)
<1>1. \A k \in DOMAIN Append(bs, e) :
        (k \in DOMAIN bs /\ Append(bs, e)[k] = bs[k]) \/ Append(bs, e)[k] = e
  OBVIOUS
<1> QED BY <1>1 DEF Grows

\* One link changes.
LEMMA OneLink ==
  ASSUME TypeOK, Made, NEW s \in Links, NEW bs, NEW n,
         broks' = [broks EXCEPT ![s] = bs], made'[s] = n,
         \A x \in Links \ {s} : made'[x] = made[x] /\ ready'[x] = ready[x],
         ready'[s] \/ n = 0,
         FirstMarked(bs), Rising(bs, n), Grows(broks[s], made[s], bs, n)
  PROVE  Made' /\ BroksGrow
<1>1. broks'[s] = bs /\ \A x \in Links \ {s} : broks'[x] = broks[x]
  BY DEF TypeOK
<1>2. \A x \in Links \ {s} : Grows(broks[x], made[x], broks[x], made[x])
  BY NothingNew
<1>3. ASSUME NEW x \in Links
      PROVE  /\ ~ready'[x] => made'[x] = 0
             /\ FirstMarked(broks'[x]) /\ Rising(broks'[x], made'[x])
             /\ Grows(broks[x], made[x], broks'[x], made'[x])
  BY <1>1, <1>2 DEF Made
<1> QED BY <1>3 DEF Made, BroksGrow

LEMMA MadeStep ==
  ASSUME TypeOK, Made, KeptFine, [Next]_vars
  PROVE  Made' /\ (BroksGrow \/ BindBroks)
<1> USE DEF scheduler, modules, history
<1>0. broks \in [Links -> Seq(SchedulerBroks)] /\ made \in [Links -> Nat]
      /\ ready \in [Links -> BOOLEAN]
  BY DEF TypeOK, SchedulerBroks
<1>1. CASE UNCHANGED <<broks, made, ready>>
  <2>1. Made'
    BY <1>1 DEF Made
  <2>2. BroksGrow
    BY <1>1, NothingNew DEF BroksGrow
  <2> QED BY <2>1, <2>2
<1>2. ASSUME NEW s \in Links, AddBrok(s) PROVE Made' /\ BroksGrow
  <2>1. Brok(s, FALSE) \in SchedulerBroks /\ Brok(s, FALSE).n = made[s] + 1 /\ ~Brok(s, FALSE).sent
    BY <1>0 DEF Brok, SchedulerBroks
  <2> PICK bs : bs = Append(broks[s], Brok(s, FALSE))
    OBVIOUS
  <2>2. Rising(bs, made[s] + 1) /\ FirstMarked(bs)
    BY <1>0, <2>1, AppendRising DEF Made
  <2>3. Grows(broks[s], made[s], bs, made[s] + 1)
    BY <1>0, <2>1, OneNew
  <2>4. /\ broks' = [broks EXCEPT ![s] = bs] /\ made' = [made EXCEPT ![s] = made[s] + 1]
        /\ ready' = ready /\ ready[s]
    BY <1>0, <1>2 DEF AddBrok
  <2>5. made'[s] = made[s] + 1 /\ \A x \in Links \ {s} : made'[x] = made[x]
    BY <1>0, <2>4
  <2> QED BY <2>2, <2>3, <2>4, <2>5, OneLink
<1>3. ASSUME NEW s \in Links, SendBroksToModules(s) PROVE Made' /\ BroksGrow
  <2> PICK bs : bs = AllSent(broks[s])
    OBVIOUS
  <2>1. Rising(bs, made[s]) /\ FirstMarked(bs)
    BY <1>0, MarkRising DEF Made
  <2>2. Grows(broks[s], made[s], bs, made[s])
    BY <1>0, MarkAll, NothingNew
  <2>3. broks' = [broks EXCEPT ![s] = bs] /\ made' = made /\ ready' = ready
    BY <1>3 DEF SendBroksToModules
  <2>4. ready'[s] \/ made[s] = 0
    BY <2>3 DEF Made
  <2> QED BY <2>1, <2>2, <2>3, <2>4, OneLink
<1>4. ASSUME NEW s \in Links, CleanQueues(s) PROVE Made' /\ BroksGrow
  <2> PICK bs : bs = SubSeq(broks[s], 1, MaxKept)
    OBVIOUS
  <2>1. MaxKept \in 0..Len(broks[s])
    BY <1>0, <1>4, BroksConstants DEF CleanQueues
  <2>2. Rising(bs, made[s]) /\ FirstMarked(bs)
    BY <1>0, <2>1, CutRising DEF Made
  <2>3. \A k \in DOMAIN bs : k \in DOMAIN broks[s] /\ bs[k] = broks[s][k]
    BY <1>0, <2>1, Cut
  <2>4. Grows(broks[s], made[s], bs, made[s])
    BY <2>3, NothingNew
  <2>5. broks' = [broks EXCEPT ![s] = bs] /\ made' = made /\ ready' = ready
    BY <1>4 DEF CleanQueues
  <2>6. ready'[s] \/ made[s] = 0
    BY <2>5 DEF Made
  <2> QED BY <2>2, <2>4, <2>5, <2>6, OneLink
<1>5. ASSUME NEW s \in Links, SetupScheduler(s) PROVE Made' /\ BroksGrow
  <2>1. Rising(<<>>, made[s]) /\ FirstMarked(<<>>)
    BY DEF Rising, FirstMarked
  <2>2. Grows(broks[s], made[s], <<>>, made[s])
    BY DEF Grows
  <2>3. broks' = [broks EXCEPT ![s] = <<>>] /\ made' = made /\ ready' = [ready EXCEPT ![s] = TRUE]
    BY <1>5 DEF SetupScheduler
  <2>4. ready'[s] /\ \A x \in Links \ {s} : ready'[x] = ready[x]
    BY <1>0, <2>3
  <2> QED BY <2>1, <2>2, <2>3, <2>4, OneLink
<1>6. CASE AskInitialBroks
  <2> PICK s : s = Head(todo)
    OBVIOUS
  <2>1. s \in Links
    BY <1>6, TailTodo DEF AskInitialBroks, TypeOK
  <2>2. CASE UNCHANGED scheduler
    BY <1>1, <2>2
  <2>3. CASE FillInitialBroks(s) /\ Fillable(s)
    <3>1. Brok(s, TRUE) \in SchedulerBroks /\ Brok(s, TRUE).n = made[s] + 1
      BY <1>0, <2>1 DEF Brok, SchedulerBroks
    <3> PICK cs : cs = Append(broks[s], Brok(s, TRUE))
      OBVIOUS
    <3> PICK bs : bs = AllSent(cs)
      OBVIOUS
    <3>2. cs \in Seq(SchedulerBroks) /\ Rising(cs, made[s] + 1)
      BY <1>0, <2>1, <3>1, AppendRising, AppendList DEF Made
    <3>3. Rising(bs, made[s] + 1) /\ FirstMarked(bs)
      BY <3>2, MarkRising
    <3>4. Grows(broks[s], made[s], cs, made[s] + 1)
      BY <1>0, <2>1, <3>1, OneNew
    <3>5. Grows(broks[s], made[s], bs, made[s] + 1)
      <4>1. DOMAIN bs = DOMAIN cs /\ \A k \in DOMAIN cs : bs[k].n = cs[k].n
        BY <3>2, MarkAll
      <4> QED BY ONLY <3>4, <4>1, SameNumbers
    <3>6. /\ broks' = [broks EXCEPT ![s] = bs] /\ made' = [made EXCEPT ![s] = made[s] + 1]
          /\ ready' = ready /\ ready[s]
      BY <2>3 DEF FillInitialBroks, Fillable
    <3>7. made'[s] = made[s] + 1 /\ \A x \in Links \ {s} : made'[x] = made[x]
      BY <1>0, <2>1, <3>6
    <3> QED BY <2>1, <3>3, <3>5, <3>6, <3>7, OneLink
  <2> QED BY <1>6, <2>2, <2>3 DEF AskInitialBroks
<1>7. CASE BindBroks
  <2>1. Head(todo) \in Links
    BY <1>7, TailTodo DEF BindBroks, TypeOK
  <2>2. UNCHANGED <<made, ready>>
    BY <1>7 DEF BindBroks
  <2>3. CASE kept = None
    BY <1>1, <1>7, <2>2, <2>3 DEF BindBroks
  <2>4. CASE kept # None
    <3>1. broks'[Head(todo)] = kept /\ \A s \in Links \ {Head(todo)} : broks'[s] = broks[s]
      BY <1>0, <1>7, <2>1, <2>4 DEF BindBroks
    <3> QED BY <1>7, <2>2, <2>4, <3>1 DEF Made, KeptFine
  <2> QED BY <1>7, <2>3, <2>4
<1>8. CASE UNCHANGED scheduler
  BY <1>1, <1>8
<1>9. \/ UNCHANGED scheduler \/ AskInitialBroks \/ BindBroks
      \/ \E s \in Links : AddBrok(s) \/ SendBroksToModules(s) \/ CleanQueues(s) \/ SetupScheduler(s)
  BY DEF Next, Turn, vars, Begin, CheckModules, GetNewBroks, SendBroks, ManageBroks, SetupBroker,
         ReadQueue, ReadOld, ProcessDies
<1> QED BY <1>2, <1>3, <1>4, <1>5, <1>6, <1>7, <1>8, <1>9

\* What is left of the broks of a scheduler is a list of broks.
LEMMA RemainingTypes ==
  ASSUME TypeOK
  PROVE  /\ \A s \in Links : Remaining(s) \in Seq(SchedulerBroks)
         /\ pc # "given" => kept = None
         /\ kept = None => \A s : Remaining(s) = broks[s]
         /\ \A s : s # Head(todo) => Remaining(s) = broks[s]
         /\ kept # None => Remaining(Head(todo)) = kept
BY DEF TypeOK, SchedulerBroks, Remaining, Rebinding

\* The list of a link after clean_queues has no brok before which one is missing.
LEMMA CutClosed ==
  ASSUME NEW ks, NEW bs \in Seq(SchedulerBroks), NEW n, Rising(bs, n), Closed(ks, bs),
         NEW m \in 0..Len(bs), \A j, k \in DOMAIN ks : j < k => ks[j].n < ks[k].n
  PROVE  Closed(ks, SubSeq(bs, 1, m))
<1> PICK t : t = SubSeq(bs, 1, m)
  OBVIOUS
<1>1. DOMAIN t = 1..m /\ \A i \in 1..m : i \in DOMAIN bs /\ t[i] = bs[i]
  BY Cut
<1>2. DOMAIN bs = 1..Len(bs) /\ Len(bs) \in Nat /\ \A i \in DOMAIN bs : bs[i].n \in Nat
  BY Records
<1> SUFFICES ASSUME NEW j \in DOMAIN ks, NEW k \in DOMAIN ks, j < k, Numbered(t, ks[k].n)
             PROVE  Numbered(t, ks[j].n)
  BY DEF Closed
<1>3. PICK i \in 1..m : i \in DOMAIN bs /\ bs[i].n = ks[k].n
  BY <1>1 DEF Numbered
<1>4. PICK h \in DOMAIN bs : bs[h].n = ks[j].n
  BY <1>3 DEF Closed, Numbered
<1>5. bs[h].n < bs[i].n
  BY <1>3, <1>4
<1>6. h < i
  BY <1>2, <1>3, <1>4, <1>5 DEF Rising
<1>7. h \in 1..m
  BY <1>2, <1>3, <1>4, <1>6
<1> QED BY <1>1, <1>4, <1>7 DEF Numbered

LEMMA KeptStep ==
  ASSUME TypeOK, Made, KeptFine, [Next]_vars
  PROVE  KeptFine'
<1> USE DEF scheduler, modules, history
<1>s. PICK s : s = Head(todo)
  OBVIOUS
<1>0. /\ broks \in [Links -> Seq(SchedulerBroks)] /\ made \in [Links -> Nat]
      /\ pc # "given" => kept = None
      /\ pc \in {"get", "given"} => s \in Links
  <2>1. pc \in {"get", "given"} => s \in Links
    BY <1>s, TailTodo DEF TypeOK
  <2> QED BY <2>1 DEF TypeOK, SchedulerBroks
<1>1. CASE kept' = None
  BY <1>1 DEF KeptFine
<1>2. CASE GetNewBroks /\ kept' # None
  <2>1. /\ s \in Links /\ kept' = Left(broks[s]) /\ UNCHANGED <<todo, made, broks>>
    BY <1>0, <1>2, <1>s DEF GetNewBroks, AskBroks
  <2> PICK bs : bs = broks[s]
    OBVIOUS
  <2> PICK ks : ks = kept'
    OBVIOUS
  <2>2. bs \in Seq(SchedulerBroks) /\ FirstMarked(bs) /\ Rising(bs, made[s])
    BY <1>0, <2>1 DEF Made
  <2>3. Marked(bs) \in 0..Len(bs) /\ ks = SubSeq(bs, Marked(bs) + 1, Len(bs))
    BY <2>1, <2>2, MarkedFirst, Records DEF Left, Unsent
  <2>4. Rising(ks, made[s]) /\ FirstMarked(ks)
    BY <2>2, <2>3, CutRising
  <2>5. \A i \in DOMAIN ks : \E h \in DOMAIN bs : bs[h] = ks[i]
    <3>1. /\ DOMAIN ks = 1..(Len(bs) - Marked(bs))
          /\ \A i \in 1..(Len(bs) - Marked(bs)) : /\ i + Marked(bs) \in DOMAIN bs
                                                  /\ ks[i] = bs[i + Marked(bs)]
      BY ONLY <2>2, <2>3, Cut
    <3> QED BY ONLY <3>1
  <2>6. Closed(ks, bs)
    BY <2>5 DEF Closed, Numbered
  <2> QED BY <1>s, <2>1, <2>4, <2>6 DEF KeptFine
<1> DEFINE Fine(ks, bs, n) == FirstMarked(ks) /\ Rising(ks, n) /\ Closed(ks, bs)
<1>3. ASSUME kept # None, kept' # None, todo' = todo, Fine(kept', broks'[s], made'[s]) PROVE KeptFine'
  BY <1>3, <1>s DEF KeptFine
<1>4. kept # None => Fine(kept, broks[s], made[s]) /\ s \in Links /\ pc = "given"
                     /\ kept \in Seq(SchedulerBroks)
  BY <1>0, <1>s DEF KeptFine, TypeOK, SchedulerBroks
<1> HIDE DEF Fine
<1>5. ASSUME kept # None, UNCHANGED <<kept, todo>>, broks'[s] = broks[s], made'[s] = made[s] PROVE KeptFine'
  BY <1>3, <1>4, <1>5
<1>6. ASSUME NEW x \in Links, AddBrok(x), kept # None PROVE KeptFine'
  <2>1. kept' = kept /\ todo' = todo
    BY <1>6 DEF AddBrok
  <2>2. CASE x # s
    <3>1. broks'[s] = broks[s] /\ made'[s] = made[s]
      BY <1>0, <1>4, <1>6, <2>2 DEF AddBrok
    <3> QED BY <1>5, <1>6, <2>1, <3>1
  <2>3. CASE x = s
    <3>1. made'[s] = made[s] + 1 /\ broks'[s] = Append(broks[s], Brok(s, FALSE)) /\ made[s] \in Nat
      BY <1>0, <1>6, <2>3 DEF AddBrok
    <3> PICK bs : bs = broks[s]
      OBVIOUS
    <3> PICK e : e = Brok(s, FALSE)
      OBVIOUS
    <3> PICK cs : cs = broks'[s]
      OBVIOUS
    <3>2. e \in SchedulerBroks /\ e.n = made[s] + 1 /\ bs \in Seq(SchedulerBroks) /\ cs = Append(bs, e)
      BY <1>0, <2>3, <3>1 DEF Brok, SchedulerBroks
    <3>3. \A k \in DOMAIN kept : kept[k].n \in Nat /\ kept[k].n <= made[s]
      BY <1>4, <1>6, Records DEF Fine, Rising
    <3>4. Rising(kept, made[s] + 1)
      BY <1>4, <1>6, <3>1, <3>3 DEF Fine, Rising
    <3>5. \A k \in DOMAIN kept : Numbered(cs, kept[k].n) <=> Numbered(bs, kept[k].n)
      <4>1. /\ Len(bs) \in Nat /\ DOMAIN bs = 1..Len(bs) /\ DOMAIN cs = 1..(Len(bs) + 1)
            /\ cs[Len(bs) + 1] = e /\ \A i \in 1..Len(bs) : cs[i] = bs[i]
                BY ONLY <3>2, AppendList
      <4>2. \A i \in DOMAIN cs : (i \in DOMAIN bs /\ cs[i] = bs[i]) \/ cs[i] = e
        BY ONLY <4>1
            <4>3. \A i \in DOMAIN bs : i \in DOMAIN cs /\ cs[i] = bs[i]
        BY ONLY <4>1
      <4>4. \A k \in DOMAIN kept : kept[k].n # e.n
        BY ONLY <3>1, <3>2, <3>3
      <4> QED BY <4>2, <4>3, <4>4 DEF Numbered
    <3>6. Closed(kept, cs)
      BY <1>4, <1>6, <3>5 DEF Fine, Closed
    <3>7. Fine(kept', broks'[s], made'[s])
      BY <1>4, <1>6, <2>1, <3>1, <3>4, <3>6 DEF Fine
    <3> QED BY <1>3, <1>6, <2>1, <3>7
  <2> QED BY <2>2, <2>3
<1>7. ASSUME NEW x \in Links, SendBroksToModules(x), kept # None PROVE KeptFine'
  <2>1. made' = made /\ todo' = todo
    BY <1>7 DEF SendBroksToModules
  <2>2. CASE x # s
    <3>1. broks'[s] = broks[s] /\ kept' = kept
      BY <1>0, <1>4, <1>7, <1>s, <2>2 DEF SendBroksToModules, Rebinding
    <3> QED BY <1>5, <1>7, <2>1, <3>1
  <2>3. CASE x = s
    <3>1. kept' = SentIn(kept, broks[s]) /\ broks'[s] = AllSent(broks[s])
      BY <1>0, <1>7, <1>s, <2>3 DEF SendBroksToModules, Rebinding
    <3>2. /\ kept' \in Seq(SchedulerBroks) /\ DOMAIN kept' = DOMAIN kept
          /\ \A k \in DOMAIN kept : /\ kept'[k].n = kept[k].n
                                    /\ kept'[k].sent <=> kept[k].sent \/ Numbered(broks[s], kept[k].n)
      BY <1>4, <1>7, <3>1, SentInList
    <3>3. \A n : Numbered(broks'[s], n) <=> Numbered(broks[s], n)
      <4>1. /\ DOMAIN broks'[s] = DOMAIN broks[s]
            /\ \A k \in DOMAIN broks[s] : broks'[s][k].n = broks[s][k].n
        BY <1>0, <1>4, <1>7, <3>1, MarkAll
      <4> QED BY <4>1 DEF Numbered
    <3>4. FirstMarked(kept')
      BY <1>4, <1>7, <3>2 DEF Fine, FirstMarked, Closed
    <3>5. Rising(kept', made[s]) /\ Closed(kept', broks'[s])
      BY <1>4, <1>7, <3>2, <3>3 DEF Fine, Rising, Closed
    <3>6. kept' # None
      BY <3>2, NoList DEF SchedulerBroks
    <3> QED BY <1>3, <1>7, <2>1, <3>4, <3>5, <3>6 DEF Fine
  <2> QED BY <2>2, <2>3
<1>8. ASSUME NEW x \in Links, CleanQueues(x), kept # None PROVE KeptFine'
  <2>1. made' = made /\ todo' = todo /\ kept' = kept
    BY <1>8 DEF CleanQueues
  <2>2. CASE x # s
    <3>1. broks'[s] = broks[s]
      BY <1>0, <1>4, <1>8, <2>2 DEF CleanQueues
    <3> QED BY <1>5, <1>8, <2>1, <3>1
  <2>3. CASE x = s
    <3>1. broks'[s] = SubSeq(broks[s], 1, MaxKept) /\ MaxKept \in 0..Len(broks[s])
      BY <1>0, <1>8, <2>3, BroksConstants DEF CleanQueues
    <3>2. Rising(broks[s], made[s]) /\ broks[s] \in Seq(SchedulerBroks)
      BY <1>0, <1>4, <1>8 DEF Made
    <3>3. Closed(kept, broks[s]) /\ \A j, k \in DOMAIN kept : j < k => kept[j].n < kept[k].n
      BY <1>4, <1>8 DEF Fine, Rising
    <3>4. Closed(kept, broks'[s])
      BY <3>1, <3>2, <3>3, CutClosed
    <3> QED BY <1>3, <1>4, <1>8, <2>1, <3>4 DEF Fine
  <2> QED BY <2>2, <2>3
<1>9. ASSUME NEW x \in Links, SetupScheduler(x), kept # None, kept' # None PROVE KeptFine'
  <2>1. x # s /\ made' = made /\ todo' = todo /\ kept' = kept
    BY <1>9, <1>s DEF SetupScheduler, Rebinding
  <2>2. broks'[s] = broks[s]
    BY <1>0, <1>4, <1>9, <2>1 DEF SetupScheduler
  <2> QED BY <1>5, <1>9, <2>1, <2>2
<1>10. CASE UNCHANGED <<kept, todo, broks, made>>
  BY <1>1, <1>5, <1>10
<1>11. kept = None /\ ~GetNewBroks => kept' = None
  BY <1>0 DEF Next, Turn, vars, AddBrok, SendBroksToModules, CleanQueues, SetupScheduler, Begin,
       Rebinding, AskInitialBroks, CheckModules, BindBroks, SendBroks, ManageBroks, SetupBroker,
       ReadQueue, ReadOld, ProcessDies
<1>12. ASSUME kept # None
       PROVE  \/ UNCHANGED <<kept, todo, broks, made>> \/ BindBroks
              \/ \E x \in Links : AddBrok(x) \/ SendBroksToModules(x) \/ CleanQueues(x) \/ SetupScheduler(x)
  BY <1>4, <1>12 DEF Next, Turn, vars, Begin, AskInitialBroks, CheckModules, GetNewBroks, SendBroks,
       ManageBroks, SetupBroker, ReadQueue, ReadOld, ProcessDies
<1>13. BindBroks => kept' = None
  BY DEF BindBroks
<1> QED BY <1>1, <1>2, <1>6, <1>7, <1>8, <1>9, <1>10, <1>11, <1>12, <1>13

\* What is left of the broks of a scheduler only changes as a list of broks does: the
\* binding of a list changes nothing.
LEMMA EvolvesStep ==
  ASSUME TypeOK, Made, KeptFine, [Next]_vars
  PROVE  Evolves
<1> USE DEF scheduler, modules, history
<1>s. PICK s : s = Head(todo)
  OBVIOUS
<1>0. /\ broks \in [Links -> Seq(SchedulerBroks)] /\ made \in [Links -> Nat]
      /\ pc # "given" => kept = None
      /\ kept # None => s \in Links /\ kept \in Seq(SchedulerBroks)
  <2>1. pc \in {"get", "given"} => s \in Links
    BY <1>s, TailTodo DEF TypeOK
  <2> QED BY <2>1 DEF TypeOK, SchedulerBroks
<1>r. \A x : Remaining(x) = IF kept # None /\ x = s THEN kept ELSE broks[x]
  BY <1>s DEF Remaining, Rebinding
<1>1. CASE kept = None /\ kept' = None
  <2>1. \A x \in Links : Remaining(x) = broks[x] /\ Remaining(x)' = broks'[x]
    BY <1>1 DEF Remaining, Rebinding
  <2>2. BroksGrow
    <3>1. CASE BindBroks
      <4>1. UNCHANGED <<broks, made>>
        BY <1>1, <3>1 DEF BindBroks
      <4> QED BY <4>1, NothingNew DEF BroksGrow
    <3> QED BY <3>1, MadeStep
  <2> QED BY <2>1, <2>2 DEF Evolves, BroksGrow
<1>2. CASE kept = None /\ kept' # None
  <2>1. GetNewBroks
    BY <1>0, <1>2 DEF Next, Turn, vars, AddBrok, SendBroksToModules, CleanQueues, SetupScheduler, Begin,
       Rebinding, AskInitialBroks, CheckModules, BindBroks, SendBroks, ManageBroks, SetupBroker,
       ReadQueue, ReadOld, ProcessDies
  <2>2. s \in Links /\ kept' = Left(broks[s]) /\ UNCHANGED <<todo, broks, made>>
    BY <1>2, <1>s, <2>1, TailTodo DEF GetNewBroks, AskBroks, TypeOK
  <2>3. \A x \in Links : /\ Remaining(x) = broks[x]
                         /\ Remaining(x)' = IF x = s THEN Left(broks[s]) ELSE broks[x]
    BY <1>2, <1>s, <2>2 DEF Remaining, Rebinding
  <2>4. \A k \in DOMAIN Left(broks[s]) : \E i \in DOMAIN broks[s] : Left(broks[s])[k] = broks[s][i]
    <3>1. broks[s] \in Seq(SchedulerBroks) /\ FirstMarked(broks[s])
      BY <1>0, <2>2 DEF Made
    <3>2. \A b \in SchedulerBroks : b.sent \in BOOLEAN
      BY Records
    <3>3. \A i \in DOMAIN Unsent(broks[s]) :
            /\ i + Marked(broks[s]) \in DOMAIN broks[s]
            /\ Unsent(broks[s])[i] = broks[s][i + Marked(broks[s])]
      BY ONLY <3>1, <3>2, CutMarked
    <3> QED BY ONLY <3>3 DEF Left
  <2>5. \A x \in Links : \A k \in DOMAIN Remaining(x)' : \E i \in DOMAIN broks[x] :
          Remaining(x)'[k].n = broks[x][i].n
    BY <2>3, <2>4
  <2>6. ASSUME NEW x \in Links PROVE Grows(Remaining(x), made[x], Remaining(x)', made'[x])
    <3>1. Grows(broks[x], made[x], Remaining(x)', made[x])
      BY <2>5, NothingNew
    <3> QED BY <2>2, <2>3, <3>1
  <2> QED BY <2>6 DEF Evolves
<1>3. CASE BindBroks
  <2>1. /\ made' = made /\ kept' = None
        /\ broks' = IF kept = None THEN broks ELSE [broks EXCEPT ![s] = kept]
    BY <1>3, <1>s DEF BindBroks
  <2>2. \A x \in Links : Remaining(x)' = broks'[x]
    BY <2>1 DEF Remaining, Rebinding
  <2>3. \A x \in Links : broks'[x] = Remaining(x)
    BY <1>0, <1>r, <2>1
  <2>4. ASSUME NEW x \in Links PROVE Grows(Remaining(x), made[x], Remaining(x)', made'[x])
    <3>1. Grows(Remaining(x), made[x], Remaining(x), made[x])
      BY NothingNew
    <3> QED BY <2>1, <2>2, <2>3, <3>1
  <2> QED BY <2>4 DEF Evolves
<1>4. CASE kept # None /\ ~BindBroks
  <2>1. s \in Links /\ pc = "given" /\ BroksGrow
    BY <1>0, <1>4, MadeStep
  <2>2. todo' = todo
    BY <1>4, <2>1 DEF Next, Turn, vars, AddBrok, SendBroksToModules, CleanQueues, SetupScheduler, Begin,
       AskInitialBroks, CheckModules, GetNewBroks, SendBroks, ManageBroks, SetupBroker,
       ReadQueue, ReadOld, ProcessDies
  <2>3. ASSUME NEW x \in Links, x # s PROVE Grows(Remaining(x), made[x], Remaining(x)', made'[x])
    <3>1. Remaining(x) = broks[x] /\ Remaining(x)' = broks'[x]
      BY <1>r, <1>s, <2>2, <2>3 DEF Remaining, Rebinding
    <3>2. Grows(broks[x], made[x], broks'[x], made'[x])
      BY <2>1 DEF BroksGrow
    <3> QED BY <3>1, <3>2
  <2>4. Remaining(s) = kept /\ Remaining(s)' = IF kept' # None THEN kept' ELSE broks'[s]
    BY <1>4, <1>r, <1>s, <2>2 DEF Remaining, Rebinding
  <2>5. \/ kept' = kept
        \/ kept' = None /\ broks'[s] = <<>>
        \/ kept' = SentIn(kept, broks[s]) /\ kept' # None
    <3>1. \/ kept' = kept
          \/ \E x \in Links : SendBroksToModules(x) \/ SetupScheduler(x)
      BY <1>4, <2>1 DEF Next, Turn, vars, AddBrok, CleanQueues, Begin, AskInitialBroks, CheckModules,
         GetNewBroks, SendBroks, ManageBroks, SetupBroker, ReadQueue, ReadOld, ProcessDies
    <3>2. ASSUME NEW x \in Links, SendBroksToModules(x)
          PROVE  kept' = kept \/ (kept' = SentIn(kept, broks[s]) /\ kept' # None)
      <4>1. kept' = kept \/ kept' = SentIn(kept, broks[s])
        BY <1>s, <3>2 DEF SendBroksToModules, Rebinding
      <4>2. SentIn(kept, broks[s]) \in Seq(SchedulerBroks)
        BY <1>0, <1>4, SentInList
      <4> QED BY <4>1, <4>2, NoList DEF SchedulerBroks
    <3>3. ASSUME NEW x \in Links, SetupScheduler(x)
          PROVE  kept' = kept \/ (kept' = None /\ broks'[s] = <<>>)
      BY <1>0, <1>s, <2>1, <3>3 DEF SetupScheduler, Rebinding
    <3> QED BY <3>1, <3>2, <3>3
  <2>6. made'[s] \in {made[s], made[s] + 1}
    BY <2>1 DEF BroksGrow, Grows
  <2>7. ASSUME NEW k \in DOMAIN Remaining(s)' PROVE \E i \in DOMAIN kept : Remaining(s)'[k].n = kept[i].n
    <3>1. CASE kept' = kept
      BY <1>4, <2>4, <2>7, <3>1
    <3>2. CASE kept' = None /\ broks'[s] = <<>>
      BY <2>4, <2>7, <3>2
    <3>3. CASE kept' = SentIn(kept, broks[s]) /\ kept' # None
      <4>1. /\ DOMAIN kept' = DOMAIN kept
            /\ \A i \in DOMAIN kept : kept'[i].n = kept[i].n
        BY <1>0, <1>4, <3>3, SentInList
      <4> QED BY <2>4, <2>7, <3>3, <4>1
    <3> QED BY <2>5, <3>1, <3>2, <3>3
  <2>8. Grows(Remaining(s), made[s], Remaining(s)', made'[s])
    BY <2>4, <2>6, <2>7 DEF Grows
  <2> QED BY <2>3, <2>8 DEF Evolves
<1> QED BY <1>1, <1>2, <1>3, <1>4

\* What left a scheduler stays ahead of what is in it.
LEMMA GoneStep ==
  ASSUME TypeOK, Evolves, NEW A \in SUBSET BrokTypes, Gone(A)
  PROVE  Gone(A)'
<1> SUFFICES ASSUME NEW b \in A
             PROVE  /\ b.n <= made'[b.from]
                    /\ \A k \in DOMAIN Remaining(b.from)' : b.n < Remaining(b.from)'[k].n
  BY DEF Gone
<1> PICK s : s = b.from
  OBVIOUS
<1>1. s \in Links /\ b.n \in Nat /\ made[s] \in Nat
  BY Records DEF TypeOK
<1>2. b.n <= made[s] /\ \A j \in DOMAIN Remaining(s) : b.n < Remaining(s)[j].n
  BY DEF Gone
<1> DEFINE R == Remaining(s)
           Q == Remaining(s)'
<1>3. Grows(R, made[s], Q, made'[s])
  BY <1>1 DEF Evolves
<1> HIDE DEF R, Q
<1>4. b.n <= made'[s]
  BY <1>1, <1>2, <1>3 DEF Grows
<1>5. \A j \in DOMAIN R : b.n < R[j].n
  BY <1>2 DEF R
<1>6. \A k \in DOMAIN Q : b.n < Q[k].n
  BY <1>1, <1>2, <1>3, <1>5 DEF Grows
<1> QED BY <1>4, <1>6 DEF Q

-----------------------------------------------------------------------------
(* The broks in the broker *)

\* The broks that a scheduler gives, and those it keeps.
LEMMA GivenBroks ==
  ASSUME TypeOK, Made, NEW s \in Links
  PROVE  /\ Taken(s, Given(s)) \in Seq(BrokTypes) /\ Increasing(Taken(s, Given(s)))
         /\ \A b \in ToSet(Taken(s, Given(s))) :
              /\ b.from = s /\ ~b.sent /\ \E j \in DOMAIN broks[s] : b.n = broks[s][j].n
              /\ b.n <= made[s] /\ \A k \in DOMAIN Left(broks[s]) : b.n < Left(broks[s])[k].n
         /\ \A j \in DOMAIN broks[s] :
              \/ \E b \in ToSet(Taken(s, Given(s))) : b.n = broks[s][j].n
              \/ \E k \in DOMAIN Left(broks[s]) : Left(broks[s])[k] = broks[s][j]
<1> PICK bs : bs = broks[s]
  OBVIOUS
<1> PICK g : g = Given(s)
  OBVIOUS
<1> PICK u : u = Left(bs)
  OBVIOUS
<1> PICK t : t = Taken(s, g)
  OBVIOUS
<1> PICK m : m = Marked(bs)
  OBVIOUS
<1>0. bs \in Seq(SchedulerBroks) /\ FirstMarked(bs) /\ Rising(bs, made[s])
  BY DEF TypeOK, SchedulerBroks, Made
<1>1. /\ m \in 0..Len(bs) /\ g = SubSeq(bs, 1, m) /\ u = SubSeq(bs, m + 1, Len(bs))
  BY <1>0, MarkedFirst, Records DEF Given, Left, Unsent
<1>2. /\ g \in Seq(SchedulerBroks) /\ DOMAIN g = 1..m /\ \A i \in 1..m : i \in DOMAIN bs /\ g[i] = bs[i]
      /\ DOMAIN u = 1..(Len(bs) - m)
      /\ \A i \in 1..(Len(bs) - m) : i + m \in DOMAIN bs /\ i + m > m /\ u[i] = bs[i + m]
      /\ \A i \in DOMAIN bs : i > m => i - m \in 1..(Len(bs) - m) /\ u[i - m] = bs[i]
  <2>1. bs \in Seq(SchedulerBroks) /\ m \in 0..Len(bs)
    BY <1>0, <1>1
  <2>2. /\ SubSeq(bs, 1, m) \in Seq(SchedulerBroks) /\ DOMAIN SubSeq(bs, 1, m) = 1..m
        /\ \A i \in 1..m : i \in DOMAIN bs /\ SubSeq(bs, 1, m)[i] = bs[i]
        /\ SubSeq(bs, m + 1, Len(bs)) \in Seq(SchedulerBroks)
        /\ DOMAIN SubSeq(bs, m + 1, Len(bs)) = 1..(Len(bs) - m)
        /\ \A i \in 1..(Len(bs) - m) : /\ i + m \in DOMAIN bs /\ i + m > m
                                       /\ SubSeq(bs, m + 1, Len(bs))[i] = bs[i + m]
        /\ \A i \in DOMAIN bs : i > m => /\ i - m \in 1..(Len(bs) - m)
                                         /\ SubSeq(bs, m + 1, Len(bs))[i - m] = bs[i]
    BY ONLY <2>1, Cut
  <2>3. g = SubSeq(bs, 1, m) /\ u = SubSeq(bs, m + 1, Len(bs))
    BY <1>1
  <2> QED BY ONLY <2>2, <2>3
<1>3. /\ t \in Seq(BrokTypes) /\ DOMAIN t = 1..m
      /\ \A k \in 1..m : t[k] = [from |-> s, n |-> bs[k].n, sent |-> FALSE]
  <2>1. /\ t \in Seq(BrokTypes) /\ DOMAIN t = DOMAIN g
        /\ \A k \in DOMAIN g : t[k] = [from |-> s, n |-> g[k].n, sent |-> FALSE]
    BY <1>2, TakenList, ZenonT(40)
  <2> QED BY <1>2, <2>1
<1>4. \A k \in 1..m : k \in DOMAIN bs /\ t[k].from = s /\ ~t[k].sent /\ t[k].n = bs[k].n
  BY <1>2, <1>3
<1>5. Increasing(t)
  BY <1>0, <1>3, <1>4 DEF Increasing, Rising
<1>6. ASSUME NEW b \in ToSet(t)
      PROVE  /\ b.from = s /\ ~b.sent /\ \E j \in DOMAIN bs : b.n = bs[j].n
             /\ b.n <= made[s] /\ \A k \in DOMAIN u : b.n < u[k].n
  <2>1. PICK k \in 1..m : b = t[k]
    BY <1>3 DEF ToSet
  <2>2. ASSUME NEW i \in DOMAIN u PROVE b.n < u[i].n
    <3>1. i + m \in DOMAIN bs /\ i + m > m /\ u[i] = bs[i + m]
      BY <1>2
    <3>2. k < i + m
      BY <1>0, <1>1, <1>2, <2>1, <3>1
    <3> QED BY <1>0, <1>4, <2>1, <3>1, <3>2 DEF Rising
  <2> QED BY <1>0, <1>4, <2>1, <2>2 DEF Rising
<1>7. ASSUME NEW j \in DOMAIN bs
      PROVE  \/ \E b \in ToSet(t) : b.n = bs[j].n
             \/ \E k \in DOMAIN u : u[k] = bs[j]
  <2>1. j \in 1..m \/ j > m
    BY <1>0, <1>1
  <2>2. CASE j \in 1..m
    BY <1>3, <1>4, <2>2 DEF ToSet
  <2> QED BY <1>2, <2>1, <2>2
<1> QED BY <1>3, <1>5, <1>6, <1>7

\* What left the scheduler is ahead of what it gives.
LEMMA AheadOfGiven ==
  ASSUME TypeOK, Made, kept = None, NEW s \in Links, NEW A, Gone(A)
  PROVE  Ahead(A, ToSet(Taken(s, Given(s))))
<1> SUFFICES ASSUME NEW a \in A, NEW b \in ToSet(Taken(s, Given(s))), a.from = b.from
             PROVE  a.n < b.n
  BY DEF Ahead
<1>1. b.from = s /\ \E j \in DOMAIN broks[s] : b.n = broks[s][j].n
  BY GivenBroks
<1>2. Remaining(s) = broks[s]
  BY DEF Remaining, Rebinding
<1> QED BY <1>1, <1>2 DEF Gone

\* The effect of get_new_broks, when the answer comes and when it does not.
Asks(s) ==
  /\ kept' = Left(broks[s]) /\ UNCHANGED <<broks, made, todo>>
  /\ \/ external' = external \o Taken(s, Given(s))
     \/ external' = external /\ Fault({s})

Gets(s) == Asks(s) /\ external' = external \o Taken(s, Given(s))

LEMMA GetEffect ==
  ASSUME TypeOK, GetNewBroks
  PROVE  /\ Head(todo) \in Links /\ pc' # "manage" /\ kept = None
         /\ UNCHANGED <<managed, queue, received, old, made, broks, lost>>
         /\ \/ Asks(Head(todo))
            \/ UNCHANGED <<kept, external>>
         /\ external' = external \/ Gets(Head(todo))
<1>1. Head(todo) \in Links /\ kept = None
  BY TailTodo DEF TypeOK, GetNewBroks
<1>2. UNCHANGED <<managed, queue, received, old, made, broks, lost>>
  BY DEF GetNewBroks, scheduler, modules, history
<1>3. pc' # "manage"
  BY DEF GetNewBroks, AskBroks, NextLink
<1>4. Asks(Head(todo)) \/ UNCHANGED <<kept, external>>
  BY <1>2 DEF GetNewBroks, AskBroks, Asks
<1>5. external' = external \/ Gets(Head(todo))
  BY <1>4 DEF Asks, Gets
<1> QED BY <1>1, <1>2, <1>3, <1>4, <1>5

LEMMA GetPending ==
  ASSUME TypeOK, Made, NEW s \in Links, Gets(s)
  PROVE  /\ Pending' = Pending \cup ToSet(Taken(s, Given(s)))
         /\ FirstMarked(external) => FirstMarked(external')
<1> PICK t : t = Taken(s, Given(s))
  OBVIOUS
<1>1. t \in Seq(BrokTypes) /\ \A b \in ToSet(t) : ~b.sent
  BY GivenBroks
<1>2. \A k \in DOMAIN t : ~t[k].sent
  BY <1>1 DEF ToSet
<1> PICK e : e = external
  OBVIOUS
<1> PICK f : f = external'
  OBVIOUS
<1>3. /\ DOMAIN e = 1..Len(e) /\ DOMAIN t = 1..Len(t) /\ Len(e) \in Nat /\ Len(t) \in Nat
      /\ DOMAIN f = 1..(Len(e) + Len(t))
      /\ \A i \in 1..Len(e) : f[i] = e[i]
      /\ \A i \in 1..(Len(e) + Len(t)) : i > Len(e) => i - Len(e) \in DOMAIN t /\ f[i] = t[i - Len(e)]
  BY <1>1, ConcatList DEF Gets, TypeOK
<1>4. \A i \in DOMAIN f : i \in DOMAIN e \/ (i > Len(e) /\ ~f[i].sent /\ f[i] \in ToSet(t))
  BY <1>2, <1>3, SMTT(30) DEF ToSet
<1>5. \A i \in DOMAIN e : i \in DOMAIN f /\ f[i] = e[i]
  BY <1>3
<1>6. ASSUME NEW b \in ToSet(t) PROVE \E i \in DOMAIN f : f[i] = b /\ ~f[i].sent
  <2>1. PICK k \in DOMAIN t : b = t[k]
    BY DEF ToSet
  <2>2. k + Len(e) \in 1..(Len(e) + Len(t)) /\ k + Len(e) > Len(e) /\ k + Len(e) - Len(e) = k
    BY <1>3
  <2>3. f[k + Len(e)] = t[k]
    BY <1>3, <2>2, SMTT(30)
  <2> QED BY <1>2, <1>3, <2>1, <2>2, <2>3
<1>7. Pending' = Pending \cup ToSet(t)
  <2>1. ASSUME NEW b \in Pending' PROVE b \in Pending \cup ToSet(t)
    BY <1>4, <1>5 DEF Pending
  <2>2. ASSUME NEW b \in Pending PROVE b \in Pending'
    BY <1>5 DEF Pending
  <2>3. ASSUME NEW b \in ToSet(t) PROVE b \in Pending'
    BY <1>6 DEF Pending
  <2> QED BY <2>1, <2>2, <2>3
<1>8. FirstMarked(e) => FirstMarked(f)
  <2> SUFFICES ASSUME FirstMarked(e), NEW j \in DOMAIN f, NEW k \in DOMAIN f, j < k, f[k].sent
               PROVE  f[j].sent
    BY DEF FirstMarked
  <2>1. k \in DOMAIN e
    BY <1>4
  <2>2. j \in DOMAIN e
    BY <1>3, <2>1
  <2> QED BY <1>5, <2>1, <2>2 DEF FirstMarked
<1> QED BY <1>7, <1>8

LEMMA CutIncreasing ==
  ASSUME NEW s \in Seq(BrokTypes), Increasing(s), NEW k \in 0..Len(s)
  PROVE  LET t == SubSeq(s, 1, k)
             u == SubSeq(s, k + 1, Len(s))
         IN /\ t \in Seq(BrokTypes) /\ u \in Seq(BrokTypes)
            /\ Increasing(t) /\ Increasing(u) /\ Ahead(ToSet(t), ToSet(u))
            /\ ToSet(s) = ToSet(t) \cup ToSet(u)
            /\ FirstMarked(s) => FirstMarked(u)
<1>t. PICK t : t = SubSeq(s, 1, k)
  OBVIOUS
<1>u. PICK u : u = SubSeq(s, k + 1, Len(s))
  OBVIOUS
<1>0. Len(s) \in Nat /\ DOMAIN s = 1..Len(s) /\ k \in Nat
  OBVIOUS
<1>1. /\ t \in Seq(BrokTypes) /\ DOMAIN t = 1..k /\ \A i \in 1..k : i \in DOMAIN s /\ t[i] = s[i]
  BY <1>t, Cut
<1>2. /\ u \in Seq(BrokTypes) /\ DOMAIN u = 1..(Len(s) - k)
      /\ \A i \in DOMAIN u : i + k \in DOMAIN s /\ i + k > k /\ u[i] = s[i + k]
      /\ \A i \in DOMAIN s : i > k => i - k \in DOMAIN u /\ u[i - k] = s[i]
  BY <1>u, Cut
<1>3. Increasing(t)
  BY <1>1 DEF Increasing
<1>4. \A i, j \in DOMAIN u : i < j => i + k < j + k
  BY <1>0, <1>2
<1>5. Increasing(u) /\ (FirstMarked(s) => FirstMarked(u))
  BY <1>2, <1>4 DEF Increasing, FirstMarked
<1>6. \A i \in DOMAIN t, j \in DOMAIN u : i < j + k
  BY <1>0, <1>1, <1>2
<1>7. Ahead(ToSet(t), ToSet(u))
  <2> SUFFICES ASSUME NEW i \in DOMAIN t, NEW j \in DOMAIN u, t[i].from = u[j].from
               PROVE  t[i].n < u[j].n
    BY DEF Ahead, ToSet
  <2>1. i \in DOMAIN s /\ j + k \in DOMAIN s /\ i < j + k /\ t[i] = s[i] /\ u[j] = s[j + k]
    BY <1>1, <1>2, <1>6
  <2> QED BY <2>1 DEF Increasing
<1>8. \A i \in DOMAIN s : i \in DOMAIN t \/ i > k
  BY <1>0, <1>1
<1>9. ToSet(s) = ToSet(t) \cup ToSet(u)
  BY <1>1, <1>2, <1>8 DEF ToSet
<1> QED BY <1>t, <1>u, <1>1, <1>2, <1>3, <1>5, <1>7, <1>9

\* The effect of the sending to the external modules.
LEMMA SendEffect ==
  ASSUME TypeOK, FirstMarked(external), Increasing(external), SendBroks
  PROVE  /\ Unsent(external) \in Seq(BrokTypes) /\ Increasing(Unsent(external))
         /\ ToSet(Unsent(external)) = Pending /\ Pending' = {}
         /\ FirstMarked(external') /\ Increasing(external')
         /\ \A b \in ToSet(external') : \E a \in ToSet(external) : a.from = b.from /\ a.n = b.n
         /\ \A a \in ToSet(external) : \E b \in ToSet(external') : a.from = b.from /\ a.n = b.n
         /\ UNCHANGED <<broks, kept, todo, made, managed, received, old, lost>>
<1> PICK e : e = external
  OBVIOUS
<1> PICK u : u = Unsent(e)
  OBVIOUS
<1> PICK f : f = external'
  OBVIOUS
<1> PICK m : m = Marked(e)
  OBVIOUS
<1>0. e \in Seq(BrokTypes) /\ FirstMarked(e) /\ Increasing(e)
  BY DEF TypeOK
<1>1. m \in 0..Len(e) /\ u = SubSeq(e, m + 1, Len(e))
  BY <1>0, MarkedFirst, Records DEF Unsent
<1>2. u \in Seq(BrokTypes) /\ Increasing(u)
  BY <1>0, <1>1, CutIncreasing
<1>3. /\ \A i \in DOMAIN u : i + m \in DOMAIN e /\ u[i] = e[i + m] /\ ~u[i].sent
      /\ \A k \in DOMAIN e : ~e[k].sent => k - m \in DOMAIN u /\ u[k - m] = e[k]
  BY <1>0, CutMarked, Records
<1>4. ToSet(u) = Pending
  <2>1. ASSUME NEW b \in ToSet(u) PROVE b \in Pending
    BY <1>3 DEF ToSet, Pending
  <2>2. ASSUME NEW b \in Pending PROVE b \in ToSet(u)
    BY <1>3 DEF ToSet, Pending
  <2> QED BY <2>1, <2>2
<1>5. f = Sent(e) /\ UNCHANGED <<broks, kept, todo, made, managed, received, old, lost>>
  BY DEF SendBroks, scheduler, history
<1>6. /\ DOMAIN f = DOMAIN e
      /\ \A k \in DOMAIN e : f[k].sent /\ f[k].n = e[k].n /\ f[k].from = e[k].from
  BY <1>0, <1>5, MarkExternal
<1>7. Pending' = {}
  BY <1>6 DEF Pending
<1>8. FirstMarked(f) /\ Increasing(f)
  BY <1>0, <1>6 DEF FirstMarked, Increasing
<1>9. /\ \A b \in ToSet(f) : \E a \in ToSet(e) : a.from = b.from /\ a.n = b.n
      /\ \A a \in ToSet(e) : \E b \in ToSet(f) : a.from = b.from /\ a.n = b.n
  BY <1>6 DEF ToSet
<1> QED BY <1>2, <1>4, <1>5, <1>7, <1>8, <1>9

\* The effect of the work of the internal modules.
LEMMA ManageEffect ==
  ASSUME TypeOK, InBroker, ManageBroks
  PROVE  /\ FirstMarked(external') /\ Increasing(external') /\ Pending' = {}
         /\ Increasing(managed') /\ Ahead(ToSet(managed'), ToSet(external'))
         /\ ToSet(external') \subseteq ToSet(external)
         /\ ToSet(managed') \subseteq ToSet(managed) \cup ToSet(external)
         /\ Internal => ToSet(external) \cup ToSet(managed) \subseteq ToSet(external') \cup ToSet(managed')
         /\ Pending = {} /\ UNCHANGED <<broks, kept, todo, made, queue, received, old>>
         /\ lost \subseteq lost' /\ faults' = faults
<1>1. PICK k \in 0..Len(external) :
        /\ external' = SubSeq(external, k + 1, Len(external))
        /\ managed' = IF Internal THEN managed \o SubSeq(external, 1, k) ELSE managed
  <2>1. Len(external) \in Nat
    BY DEF TypeOK
  <2> QED BY <2>1 DEF ManageBroks, ManageBrok
<1>t. PICK t : t = SubSeq(external, 1, k)
  OBVIOUS
<1>u. PICK u : u = SubSeq(external, k + 1, Len(external))
  OBVIOUS
<1>2. external \in Seq(BrokTypes) /\ managed \in Seq(BrokTypes)
  BY DEF TypeOK
<1>3. /\ FirstMarked(external) /\ Increasing(external) /\ Increasing(managed)
      /\ Ahead(ToSet(managed), ToSet(external)) /\ Pending = {}
  BY DEF InBroker, ManageBroks
<1>4. /\ t \in Seq(BrokTypes) /\ u \in Seq(BrokTypes) /\ Increasing(t) /\ Increasing(u)
      /\ Ahead(ToSet(t), ToSet(u)) /\ ToSet(external) = ToSet(t) \cup ToSet(u) /\ FirstMarked(u)
  BY <1>t, <1>u, <1>2, <1>3, CutIncreasing
<1>5. external' = u /\ managed' = IF Internal THEN managed \o t ELSE managed
  BY <1>t, <1>u, <1>1
<1>6. ToSet(managed \o t) = ToSet(managed) \cup ToSet(t)
  BY <1>2, <1>4, ConcatList
<1>7. Increasing(managed \o t)
  <2>1. Ahead(ToSet(managed), ToSet(t))
    BY <1>3, <1>4 DEF Ahead
  <2> QED BY <1>2, <1>3, <1>4, <2>1, ConcatIncreasing
<1>8. Increasing(managed') /\ Ahead(ToSet(managed'), ToSet(external'))
  BY <1>3, <1>4, <1>5, <1>6, <1>7 DEF Ahead
<1>9. Pending' = {}
  <2>1. \A b \in ToSet(external) : b.sent
    BY <1>3 DEF Pending, ToSet
  <2>2. \A b \in ToSet(u) : b.sent
    BY <1>4, <2>1
  <2> QED BY <1>5, <2>2 DEF Pending, ToSet
<1>10. /\ UNCHANGED <<broks, kept, todo, made, queue, received, old>>
       /\ lost \subseteq lost' /\ faults' = faults
  BY DEF ManageBroks, ManageBrok, Fault, scheduler, modules
<1> QED BY <1>3, <1>4, <1>5, <1>6, <1>8, <1>9, <1>10

\* The broks of the broker that a step does not touch.
LEMMA BrokerIdle ==
  ASSUME TypeOK, [Next]_vars
  PROVE  \/ GetNewBroks \/ SendBroks \/ ManageBroks
         \/ UNCHANGED <<external, managed>> /\ (pc' = "manage" => pc = "manage")
BY DEF Next, Turn, vars, AddBrok, SendBroksToModules, CleanQueues, SetupScheduler, Begin,
       AskInitialBroks, Asked, CheckModules, BindBroks, NextLink, SetupBroker, ReadQueue, ReadOld,
       ProcessDies, history

LEMMA BrokerStep ==
  ASSUME TypeOK, Made, KeptFine, InBroker, Gone(ToSet(external)), Gone(ToSet(managed)), [Next]_vars
  PROVE  InBroker' /\ Gone(ToSet(external))' /\ Gone(ToSet(managed))'
<1> PICK A : A = ToSet(external)
  OBVIOUS
<1> PICK B : B = ToSet(managed)
  OBVIOUS
<1>0. /\ external \in Seq(BrokTypes) /\ managed \in Seq(BrokTypes)
      /\ A \subseteq BrokTypes /\ B \subseteq BrokTypes /\ Gone(A) /\ Gone(B)
  BY ListType DEF TypeOK
<1>1. Evolves
  BY EvolvesStep
<1>2. Gone(A)' /\ Gone(B)'
  BY <1>0, <1>1, GoneStep
<1>3. CASE UNCHANGED <<external, managed>> /\ (pc' = "manage" => pc = "manage")
  BY <1>2, <1>3 DEF InBroker, Pending
<1>4. CASE GetNewBroks
  <2> PICK s : s = Head(todo)
    OBVIOUS
  <2> PICK t : t = Taken(s, Given(s))
    OBVIOUS
  <2>1. s \in Links /\ pc' # "manage" /\ managed' = managed /\ (external' = external \/ Gets(s))
    BY <1>4, GetEffect
  <2>2. CASE external' = external
    <3>1. Pending' = Pending
      BY <2>2 DEF Pending
    <3> QED BY <1>2, <2>1, <2>2, <3>1 DEF InBroker
  <2>3. CASE Gets(s)
    <3>1. /\ t \in Seq(BrokTypes) /\ Increasing(t)
          /\ \A b \in ToSet(t) : /\ b.from = s /\ b.n <= made[s]
                                 /\ \A k \in DOMAIN Left(broks[s]) : b.n < Left(broks[s])[k].n
      BY <2>1, GivenBroks, ZenonT(40)
    <3>2. Ahead(A, ToSet(t)) /\ Ahead(B, ToSet(t))
      BY <1>0, <1>4, <2>1, GetEffect, AheadOfGiven
    <3>3. external' = external \o t /\ ToSet(external') = A \cup ToSet(t)
      BY <1>0, <2>3, <3>1, ConcatList DEF Gets
    <3>4. Increasing(external')
      BY <1>0, <3>1, <3>2, <3>3, ConcatIncreasing DEF InBroker
    <3>5. FirstMarked(external')
      BY <2>1, <2>3, GetPending DEF InBroker
    <3>6. Ahead(ToSet(managed'), ToSet(external'))
      BY <2>1, <3>2, <3>3 DEF InBroker, Ahead
    <3>7. Remaining(s)' = Left(broks[s]) /\ made' = made
      <4>1. Left(broks[s]) \in Seq(SchedulerBroks)
        <5>1. broks[s] \in Seq(SchedulerBroks)
          BY <2>1 DEF TypeOK, SchedulerBroks
        <5> QED BY <5>1, CutTypes, Records DEF Left
      <4>2. Left(broks[s]) # None
        BY <4>1, NoList DEF SchedulerBroks
      <4> QED BY <2>3, <4>2 DEF Gets, Asks, Remaining, Rebinding
    <3> PICK C : C = ToSet(t)
      OBVIOUS
    <3>8. Gone(C)'
      BY <3>1, <3>7 DEF Gone
    <3>9. Gone(A \cup C)'
      BY <1>2, <3>8 DEF Gone
    <3>10. Gone(ToSet(external))'
      BY <3>3, <3>9
    <3> QED BY <1>2, <2>1, <3>4, <3>5, <3>6, <3>10 DEF InBroker
  <2> QED BY <2>1, <2>2, <2>3
<1>5. CASE SendBroks
  <2>1. /\ Pending' = {} /\ FirstMarked(external') /\ Increasing(external')
        /\ \A b \in ToSet(external') : \E a \in A : a.from = b.from /\ a.n = b.n
        /\ managed' = managed
    <3>1. FirstMarked(external) /\ Increasing(external)
      BY DEF InBroker
    <3>2. /\ Pending' = {} /\ FirstMarked(external') /\ Increasing(external')
          /\ \A b \in ToSet(external') : \E a \in ToSet(external) : a.from = b.from /\ a.n = b.n
          /\ managed' = managed
      BY <1>5, <3>1, SendEffect
    <3> QED BY <3>2
  <2>2. Ahead(ToSet(managed'), ToSet(external'))
    BY <2>1 DEF InBroker, Ahead
  <2>3. Gone(ToSet(external))'
    BY <1>2, <2>1 DEF Gone
  <2> QED BY <1>2, <2>1, <2>2, <2>3 DEF InBroker
<1>6. CASE ManageBroks
  <2>1. /\ FirstMarked(external') /\ Increasing(external') /\ Pending' = {}
        /\ Increasing(managed') /\ Ahead(ToSet(managed'), ToSet(external'))
        /\ ToSet(external') \subseteq A /\ ToSet(managed') \subseteq B \cup A
    BY <1>6, ManageEffect
  <2>2. Gone(ToSet(external))' /\ Gone(ToSet(managed))'
    BY <1>2, <2>1 DEF Gone
  <2> QED BY <2>1, <2>2 DEF InBroker
<1> QED BY <1>3, <1>4, <1>5, <1>6, BrokerIdle

-----------------------------------------------------------------------------
(* The broks in the modules *)

LEMMA GotLists ==
  ASSUME NEW m \in Modules
  PROVE  Got(m) = ToSet(received[m]) \cup UNION {ToSet(Lists(m)[k]) : k \in DOMAIN Lists(m)}
<1>1. DOMAIN <<>> = {}
  OBVIOUS
<1>2. CASE queue[m] = None
  <2>1. Lists(m) = <<>>
    BY <1>2 DEF Lists
  <2>2. UNION {ToSet(Lists(m)[k]) : k \in DOMAIN Lists(m)} = {}
    BY <1>1, <2>1
  <2> QED BY <1>2, <2>2 DEF Got
<1>3. CASE queue[m] # None
  BY <1>3 DEF Got, Lists
<1> QED BY <1>2, <1>3

LEMMA LinedLess ==
  ASSUME NEW r, NEW ls, NEW A, NEW B \in SUBSET A, Lined(r, ls, A)
  PROVE  Lined(r, ls, B) /\ Lined(r, <<>>, B)
<1>1. Ahead(ToSet(r), B) /\ \A k \in DOMAIN ls : Ahead(ToSet(ls[k]), B)
  BY DEF Lined, Ahead
<1>2. DOMAIN <<>> = {}
  OBVIOUS
<1> QED BY <1>1, <1>2 DEF Lined

LEMMA LinedMore ==
  ASSUME NEW r, NEW ls, NEW A, NEW B, Lined(r, ls, A),
         Ahead(ToSet(r), B), \A k \in DOMAIN ls : Ahead(ToSet(ls[k]), B)
  PROVE  Lined(r, ls, A \cup B)
<1>1. Ahead(ToSet(r), A \cup B) /\ \A k \in DOMAIN ls : Ahead(ToSet(ls[k]), A \cup B)
  BY DEF Lined, Ahead
<1> QED BY <1>1 DEF Lined

LEMMA LinedSend ==
  ASSUME NEW r, NEW ls \in Seq(Seq(BrokTypes)), NEW u \in Seq(BrokTypes), Increasing(u),
         Lined(r, ls, ToSet(u))
  PROVE  Lined(r, Append(ls, u), {})
<1>t. PICK t : t = Append(ls, u)
  OBVIOUS
<1>1. /\ Len(ls) \in Nat /\ DOMAIN ls = 1..Len(ls) /\ DOMAIN t = 1..(Len(ls) + 1)
      /\ t[Len(ls) + 1] = u /\ \A i \in 1..Len(ls) : t[i] = ls[i]
  BY <1>t, AppendList
<1>2. \A k \in DOMAIN t : (k \in DOMAIN ls /\ t[k] = ls[k]) \/ (k = Len(ls) + 1 /\ t[k] = u)
  BY <1>1
<1>3. \A A : Ahead(A, {})
  BY DEF Ahead
<1>4. \A k \in DOMAIN t : Increasing(t[k]) /\ Ahead(ToSet(r), ToSet(t[k]))
  BY <1>2 DEF Lined
<1>5. ASSUME NEW j \in DOMAIN t, NEW k \in DOMAIN t, j < k
      PROVE  Ahead(ToSet(t[j]), ToSet(t[k]))
  <2>1. j \in DOMAIN ls /\ t[j] = ls[j]
    BY <1>1, <1>5
  <2> QED BY <1>2, <1>5, <2>1 DEF Lined
<1>6. Increasing(r)
  BY DEF Lined
<1>7. Lined(r, t, {})
  BY <1>3, <1>4, <1>5, <1>6 DEF Lined
<1> QED BY <1>t, <1>7

LEMMA LinedRead ==
  ASSUME NEW r \in Seq(BrokTypes), NEW ls \in Seq(Seq(BrokTypes)), ls # <<>>, NEW A, Lined(r, ls, A)
  PROVE  Lined(r \o Head(ls), Tail(ls), A)
<1>t. PICK t : t = Tail(ls)
  OBVIOUS
<1>h. PICK h : h = Head(ls)
  OBVIOUS
<1>1. /\ h \in Seq(BrokTypes) /\ h = ls[1] /\ 1 \in DOMAIN ls /\ DOMAIN ls = 1..Len(ls) /\ Len(ls) \in Nat
      /\ DOMAIN t = 1..(Len(ls) - 1)
      /\ \A i \in DOMAIN t : i + 1 \in DOMAIN ls /\ t[i] = ls[i + 1]
  BY <1>t, <1>h, TailList
<1>2. \A j, k \in DOMAIN t : j < k => j + 1 < k + 1
  BY <1>1
<1>3. \A k \in DOMAIN t : 1 < k + 1
  BY <1>1
<1>4. Increasing(h) /\ Ahead(ToSet(r), ToSet(h)) /\ Ahead(ToSet(h), A) /\ Increasing(r) /\ Ahead(ToSet(r), A)
  BY <1>1 DEF Lined
<1>5. Increasing(r \o h) /\ ToSet(r \o h) = ToSet(r) \cup ToSet(h)
  BY <1>1, <1>4, ConcatIncreasing, ConcatList
<1>6. \A k \in DOMAIN t : /\ Increasing(t[k]) /\ Ahead(ToSet(t[k]), A)
                         /\ Ahead(ToSet(r), ToSet(t[k])) /\ Ahead(ToSet(h), ToSet(t[k]))
  BY <1>1, <1>3 DEF Lined
<1>7. \A j, k \in DOMAIN t : j < k => Ahead(ToSet(t[j]), ToSet(t[k]))
  BY <1>1, <1>2 DEF Lined
<1>8. \A C : Ahead(ToSet(r), C) /\ Ahead(ToSet(h), C) => Ahead(ToSet(r \o h), C)
  BY <1>5 DEF Ahead
<1>9. Lined(r \o h, t, A)
  BY <1>4, <1>5, <1>6, <1>7, <1>8 DEF Lined
<1> QED BY <1>t, <1>h, <1>9

LEMMA ReadSame ==
  ASSUME NEW r \in Seq(BrokTypes), NEW ls \in Seq(Seq(BrokTypes)), ls # <<>>
  PROVE  ToSet(r \o Head(ls)) \cup UNION {ToSet(Tail(ls)[k]) : k \in DOMAIN Tail(ls)}
           = ToSet(r) \cup UNION {ToSet(ls[k]) : k \in DOMAIN ls}
<1>t. PICK t : t = Tail(ls)
  OBVIOUS
<1>h. PICK h : h = Head(ls)
  OBVIOUS
<1>1. /\ h \in Seq(BrokTypes) /\ h = ls[1] /\ 1 \in DOMAIN ls
      /\ \A i \in DOMAIN t : i + 1 \in DOMAIN ls /\ t[i] = ls[i + 1]
      /\ \A i \in DOMAIN ls : i = 1 \/ (i - 1 \in DOMAIN t /\ t[i - 1] = ls[i])
  BY <1>t, <1>h, TailList
<1>2. ToSet(r \o h) = ToSet(r) \cup ToSet(h)
  BY <1>1, ConcatList
<1>3. UNION {ToSet(ls[k]) : k \in DOMAIN ls} = ToSet(h) \cup UNION {ToSet(t[k]) : k \in DOMAIN t}
  <2>1. \A k \in DOMAIN ls : ToSet(ls[k]) = ToSet(h) \/ \E i \in DOMAIN t : ToSet(ls[k]) = ToSet(t[i])
    BY <1>1
  <2>2. \A i \in DOMAIN t : \E k \in DOMAIN ls : ToSet(ls[k]) = ToSet(t[i])
    BY <1>1
  <2>3. \E k \in DOMAIN ls : ToSet(ls[k]) = ToSet(h)
    BY <1>1
  <2> QED BY <2>1, <2>2, <2>3
<1> QED BY <1>t, <1>h, <1>2, <1>3, ZenonT(40)

LEMMA ListsTypes ==
  ASSUME TypeOK, NEW m \in Modules
  PROVE  /\ Lists(m) \in Seq(Seq(BrokTypes)) /\ received[m] \in Seq(BrokTypes)
         /\ Got(m) \subseteq BrokTypes /\ Pending \subseteq ToSet(external)
         /\ ToSet(external) \subseteq BrokTypes /\ ToSet(managed) \subseteq BrokTypes
         /\ ToSet(received[m]) \subseteq Got(m)
         /\ \A k \in DOMAIN Lists(m) : ToSet(Lists(m)[k]) \subseteq Got(m)
<1>1. <<>> \in Seq(Seq(BrokTypes))
  OBVIOUS
<1>2. Lists(m) \in Seq(Seq(BrokTypes)) /\ received[m] \in Seq(BrokTypes)
  BY <1>1 DEF TypeOK, Lists
<1>3. \A k \in DOMAIN Lists(m) : ToSet(Lists(m)[k]) \subseteq BrokTypes
  BY <1>2, ListType
<1>4. Got(m) \subseteq BrokTypes
  BY <1>2, <1>3, ListType, GotLists
<1>5. ToSet(external) \subseteq BrokTypes /\ ToSet(managed) \subseteq BrokTypes
  BY ListType DEF TypeOK
<1>6. Pending \subseteq ToSet(external)
  BY DEF Pending, ToSet
<1> QED BY <1>2, <1>4, <1>5, <1>6, GotLists

LEMMA ModuleIdle ==
  ASSUME TypeOK, [Next]_vars, NEW m \in Modules
  PROVE  \/ GetNewBroks \/ SendBroks \/ ManageBroks \/ CheckModules \/ ReadQueue(m)
         \/ /\ UNCHANGED <<external, received[m], queue[m]>>
            /\ old'[m] = old[m] \/ ReadOld(m)
<1>1. ASSUME NEW x \in Modules, x # m, ReadQueue(x)
      PROVE  UNCHANGED <<external, received[m], queue[m], old>>
  BY <1>1 DEF ReadQueue, TypeOK
<1>2. ASSUME NEW x \in Modules, x # m, ReadOld(x)
      PROVE  UNCHANGED <<external, received[m], queue[m], old[m]>>
  BY <1>2, OldTypes DEF ReadOld, history
<1>3. ReadOld(m) => UNCHANGED <<external, received[m], queue[m]>>
  BY DEF ReadOld, history
<1> QED BY <1>1, <1>2, <1>3 DEF Next, Turn, vars, AddBrok, SendBroksToModules, CleanQueues,
       SetupScheduler, Begin, AskInitialBroks, BindBroks, SetupBroker, ProcessDies, history, modules

LEMMA SendGot ==
  ASSUME TypeOK, InBroker, SendBroks, NEW m \in Modules, queue[m] # None
  PROVE  /\ queue'[m] # None /\ Got(m)' = Got(m) \cup Pending
         /\ Lists(m)' = Append(Lists(m), Unsent(external))
<1>1. Unsent(external) \in Seq(BrokTypes) /\ ToSet(Unsent(external)) = Pending /\ received' = received
  BY SendEffect DEF InBroker
<1>2. queue[m] \in Seq(Seq(BrokTypes)) /\ queue'[m] = Append(queue[m], Unsent(external))
  BY DEF SendBroks, TypeOK
<1>3. Append(queue[m], Unsent(external)) \in Seq(Seq(BrokTypes))
  BY <1>1, <1>2, AppendList
<1>4. queue'[m] # None
  BY <1>2, <1>3, NoList
<1>q. PICK q : q = queue[m]
  OBVIOUS
<1>t. PICK t : t = queue'[m]
  OBVIOUS
<1>5. Got(m)' = ToSet(received[m]) \cup UNION {ToSet(t[k]) : k \in DOMAIN t}
  BY <1>1, <1>4, <1>t DEF Got
<1>6. Got(m) = ToSet(received[m]) \cup UNION {ToSet(q[k]) : k \in DOMAIN q}
  BY <1>q DEF Got
<1>7. /\ \A k \in DOMAIN t : (k \in DOMAIN q /\ t[k] = q[k]) \/ ToSet(t[k]) = Pending
      /\ \A k \in DOMAIN q : k \in DOMAIN t /\ t[k] = q[k]
      /\ \E k \in DOMAIN t : ToSet(t[k]) = Pending
  <2>u. PICK u : u = Unsent(external)
    OBVIOUS
  <2>1. q \in Seq(Seq(BrokTypes)) /\ u \in Seq(BrokTypes) /\ t = Append(q, u) /\ ToSet(u) = Pending
    BY <1>1, <1>2, <1>q, <1>t, <2>u
  <2>2. /\ Len(q) \in Nat /\ DOMAIN q = 1..Len(q) /\ DOMAIN t = 1..(Len(q) + 1)
        /\ t[Len(q) + 1] = u /\ \A i \in 1..Len(q) : t[i] = q[i]
    BY ONLY <2>1, AppendList
  <2>3. \A k \in DOMAIN t : k \in DOMAIN q \/ k = Len(q) + 1
    BY <2>2
  <2>4. Len(q) + 1 \in DOMAIN t /\ \A k \in DOMAIN q : k \in DOMAIN t
    BY <2>2
  <2> QED BY <2>1, <2>2, <2>3, <2>4
<1>8. UNION {ToSet(t[k]) : k \in DOMAIN t} = Pending \cup UNION {ToSet(q[k]) : k \in DOMAIN q}
  BY <1>7
<1>9. Lists(m)' = Append(Lists(m), Unsent(external))
  BY <1>2, <1>4 DEF Lists
<1> QED BY <1>4, <1>5, <1>6, <1>8, <1>9

LEMMA ReadGot ==
  ASSUME TypeOK, NEW m \in Modules, ReadQueue(m)
  PROVE  /\ queue[m] # None /\ queue'[m] # None /\ Got(m)' = Got(m)
         /\ Lists(m) = queue[m] /\ Lists(m)' = Tail(queue[m])
<1>1. queue[m] \in Seq(Seq(BrokTypes)) /\ queue[m] # <<>> /\ queue[m] # None
  BY ReadTypes DEF ReadQueue
<1>2. received'[m] = received[m] \o Head(queue[m]) /\ queue'[m] = Tail(queue[m])
  BY DEF ReadQueue, TypeOK
<1>3. Tail(queue[m]) \in Seq(Seq(BrokTypes))
  BY <1>1, TailList
<1>4. queue'[m] # None
  BY <1>2, <1>3, NoList
<1>5. Got(m)' = ToSet(received[m] \o Head(queue[m]))
                  \cup UNION {ToSet(Tail(queue[m])[k]) : k \in DOMAIN Tail(queue[m])}
  BY <1>2, <1>4 DEF Got
<1>6. Got(m) = ToSet(received[m]) \cup UNION {ToSet(queue[m][k]) : k \in DOMAIN queue[m]}
  BY <1>1 DEF Got
<1>7. received[m] \in Seq(BrokTypes)
  BY ListsTypes
<1>8. Got(m)' = Got(m)
  BY ONLY <1>1, <1>5, <1>6, <1>7, ReadSame
<1>9. Lists(m) = queue[m] /\ Lists(m)' = Tail(queue[m])
  BY <1>1, <1>2, <1>4 DEF Lists
<1> QED BY <1>1, <1>4, <1>8, <1>9

LEMMA ModuleStep ==
  ASSUME TypeOK, Order, [Next]_vars, NEW m \in Modules
  PROVE  InModule(m)' /\ Gone(Got(m))'
<1> PICK A : A = Got(m) \cup ToSet(external)
  OBVIOUS
<1>0. A \subseteq BrokTypes /\ Gone(A) /\ InModule(m) /\ Made /\ KeptFine /\ InBroker
  BY ListsTypes DEF Order, Gone
<1>1. Gone(A)'
  BY <1>0, EvolvesStep, GoneStep
<1>2. ASSUME Got(m)' \subseteq A
      PROVE  Gone(Got(m))'
  BY <1>1, <1>2 DEF Gone
<1>3. ASSUME UNCHANGED <<received[m], queue[m]>>
      PROVE  Lists(m)' = Lists(m) /\ Gone(Got(m))'
  BY <1>2, <1>3 DEF Lists, Got
<1>4. CASE UNCHANGED <<external, received[m], queue[m]>>
  BY <1>0, <1>3, <1>4 DEF InModule, Pending
<1>5. CASE GetNewBroks
  <2> PICK s : s = Head(todo)
    OBVIOUS
  <2>1. s \in Links /\ UNCHANGED <<queue, received>> /\ (external' = external \/ Gets(s))
        /\ kept = None
    BY <1>5, GetEffect
  <2>2. CASE external' = external
    BY <1>4, <2>1, <2>2
  <2>3. CASE Gets(s)
    <3> PICK B : B = ToSet(Taken(s, Given(s)))
      OBVIOUS
    <3>1. Pending' = Pending \cup B
      BY <1>0, <2>1, <2>3, GetPending
    <3>2. Ahead(Got(m), B)
      BY <1>0, <2>1, AheadOfGiven DEF Gone
    <3>3. /\ Ahead(ToSet(received[m]), B)
          /\ \A k \in DOMAIN Lists(m) : Ahead(ToSet(Lists(m)[k]), B)
      BY <3>2, ListsTypes DEF Ahead
    <3>4. Lined(received[m], Lists(m), Pending \cup B)
      BY <1>0, <3>3, LinedMore DEF InModule
    <3> QED BY <1>3, <2>1, <3>1, <3>4 DEF InModule
  <2> QED BY <2>1, <2>2, <2>3
<1>6. CASE SendBroks
  <2>1. /\ Unsent(external) \in Seq(BrokTypes) /\ Increasing(Unsent(external))
        /\ ToSet(Unsent(external)) = Pending /\ Pending' = {} /\ received' = received
    BY <1>0, <1>6, SendEffect DEF InBroker
  <2>2. queue'[m] = IF queue[m] = None THEN None ELSE Append(queue[m], Unsent(external))
    BY <1>6 DEF SendBroks
  <2>3. CASE queue[m] = None
    <3>1. UNCHANGED <<received[m], queue[m]>>
      BY <2>1, <2>2, <2>3
    <3>2. Lined(received[m], Lists(m), {})
      BY <1>0, LinedLess DEF InModule
    <3> QED BY <1>3, <2>1, <3>1, <3>2 DEF InModule
  <2>4. CASE queue[m] # None
    <3>1. Got(m)' = Got(m) \cup Pending /\ Lists(m)' = Append(Lists(m), Unsent(external))
      BY <1>0, <1>6, <2>4, SendGot
    <3>2. InModule(m)'
      BY <1>0, <2>1, <3>1, LinedSend, ListsTypes DEF InModule
    <3> QED BY <1>2, <3>1, <3>2, ListsTypes
  <2> QED BY <2>3, <2>4
<1>7. CASE ManageBroks
  <2>1. Pending' = {} /\ UNCHANGED <<queue, received>>
    BY <1>0, <1>7, ManageEffect
  <2>2. Lined(received[m], Lists(m), {})
    BY <1>0, LinedLess DEF InModule
  <2> QED BY <1>3, <2>1, <2>2 DEF InModule
<1>8. CASE CheckModules
  <2>1. external' = external
    BY <1>8 DEF CheckModules
  <2>2. CASE UNCHANGED <<queue[m], received[m]>>
    BY <1>4, <2>1, <2>2
  <2>3. CASE received'[m] = <<>> /\ queue'[m] \in {None, <<>>}
    <3>1. Lists(m)' = <<>> /\ DOMAIN <<>> = {}
      BY <2>3 DEF Lists
    <3>2. ToSet(received'[m]) = {} /\ Increasing(received'[m])
      BY <2>3, EmptyList
    <3>3. Got(m)' = {}
      BY <2>3, <3>1, <3>2 DEF Got
    <3>4. InModule(m)'
      BY <3>1, <3>2 DEF InModule, Lined, Ahead
    <3> QED BY <1>2, <3>3, <3>4
  <2> QED BY <1>8, <2>2, <2>3, CheckEffect
<1>9. CASE ReadQueue(m)
  <2>1. queue[m] \in Seq(Seq(BrokTypes)) /\ queue[m] # <<>>
    BY <1>9, ReadTypes
  <2>2. received'[m] = received[m] \o Head(queue[m]) /\ external' = external
    BY <1>9 DEF ReadQueue, TypeOK
  <2>3. Lists(m) = queue[m] /\ Lists(m)' = Tail(queue[m]) /\ Got(m)' = Got(m)
    BY <1>9, ReadGot
  <2>4. InModule(m)'
    BY <1>0, <2>1, <2>2, <2>3, LinedRead, ListsTypes DEF InModule, Pending
  <2> QED BY <1>2, <2>3, <2>4
<1> QED BY <1>4, <1>5, <1>6, <1>7, <1>8, <1>9, ModuleIdle

\* Brs(p) is all that a process has, and all of it are broks.
LEMMA BrsTypes ==
  ASSUME NEW p \in [read : Seq(BrokTypes), queue : Seq(Seq(BrokTypes))]
  PROVE  /\ Brs(p) \subseteq BrokTypes /\ ToSet(p.read) \subseteq Brs(p)
         /\ \A k \in DOMAIN p.queue : ToSet(p.queue[k]) \subseteq Brs(p)
<1>1. p.read \in Seq(BrokTypes) /\ p.queue \in Seq(Seq(BrokTypes))
  OBVIOUS
<1>2. ToSet(p.read) \subseteq BrokTypes /\ \A k \in DOMAIN p.queue : ToSet(p.queue[k]) \subseteq BrokTypes
  BY <1>1, ListType
<1> QED BY <1>2 DEF Brs

\* The process that is set aside has what its module had, all of it before what comes.
LEMMA AsideFine ==
  ASSUME TypeOK, Order, NEW m \in Modules
  PROVE  LET p == Process(m)
         IN /\ Brs(p) \subseteq Got(m) /\ Lined(p.read, p.queue, {}) /\ Ahead(Brs(p), Pending)
<1> PICK p : p = Process(m)
  OBVIOUS
<1>1. p.read = received[m] /\ p.queue \in {Lists(m), <<>>}
  BY ProcessTypes
<1>2. Lined(received[m], Lists(m), Pending)
  BY DEF Order, InModule
<1>3. Lined(p.read, p.queue, Pending) /\ Lined(p.read, p.queue, {})
  BY <1>1, <1>2, LinedLess
<1>4. Brs(p) \subseteq Got(m)
  <2>1. DOMAIN <<>> = {}
    OBVIOUS
  <2> QED BY <1>1, <2>1, GotLists DEF Brs
<1>5. Ahead(Brs(p), Pending)
  BY <1>3 DEF Lined, Ahead, Brs
<1> QED BY <1>3, <1>4, <1>5

\* What former processes have is in order, and before what is in A.
Former(ps, A) ==
  \A j \in DOMAIN ps :
    /\ Lined(ps[j].read, ps[j].queue, {}) /\ Ahead(Brs(ps[j]), A)
    /\ \A k \in DOMAIN ps : j < k => Ahead(Brs(ps[j]), Brs(ps[k]))

LEMMA FormerLess ==
  ASSUME NEW ps, NEW A, NEW B \in SUBSET A, Former(ps, A)
  PROVE  Former(ps, B)
BY DEF Former, Ahead

LEMMA FormerMore ==
  ASSUME NEW ps, NEW A, NEW B, Former(ps, A), \A j \in DOMAIN ps : Ahead(Brs(ps[j]), B)
  PROVE  Former(ps, A \cup B)
<1>1. \A j \in DOMAIN ps : Ahead(Brs(ps[j]), A \cup B)
  BY DEF Former, Ahead
<1> QED BY <1>1 DEF Former

LEMMA FormerAppend ==
  ASSUME NEW S, NEW ps \in Seq(S), NEW p \in S, NEW A, NEW B, Former(ps, A \cup B),
         Lined(p.read, p.queue, {}), Brs(p) \subseteq A, Ahead(Brs(p), B)
  PROVE  Former(Append(ps, p), B)
<1>q. PICK qs : qs = Append(ps, p)
  OBVIOUS
<1>1. /\ Len(ps) \in Nat /\ DOMAIN ps = 1..Len(ps) /\ DOMAIN qs = 1..(Len(ps) + 1)
      /\ qs[Len(ps) + 1] = p /\ \A i \in 1..Len(ps) : qs[i] = ps[i]
  BY <1>q, AppendList
<1>2. \A k \in DOMAIN qs : (k \in DOMAIN ps /\ qs[k] = ps[k]) \/ (k = Len(ps) + 1 /\ qs[k] = p)
  BY ONLY <1>1
<1>3. \A j, k \in DOMAIN qs : j < k => j \in DOMAIN ps /\ qs[j] = ps[j]
  BY ONLY <1>1
<1>4. \A j \in DOMAIN ps : Ahead(Brs(ps[j]), Brs(p)) /\ Ahead(Brs(ps[j]), B)
  BY DEF Former, Ahead
<1>5. \A k \in DOMAIN qs : Lined(qs[k].read, qs[k].queue, {}) /\ Ahead(Brs(qs[k]), B)
  BY <1>2, <1>4 DEF Former
<1>6. ASSUME NEW j \in DOMAIN qs, NEW k \in DOMAIN qs, j < k PROVE Ahead(Brs(qs[j]), Brs(qs[k]))
  <2>1. j \in DOMAIN ps /\ qs[j] = ps[j]
    BY <1>3, <1>6
  <2>2. CASE qs[k] = p
    BY <1>4, <2>1, <2>2
  <2>3. CASE k \in DOMAIN ps /\ qs[k] = ps[k]
    BY <1>6, <2>1, <2>3 DEF Former
  <2> QED BY <1>2, <2>2, <2>3
<1>7. Former(qs, B)
  BY <1>5, <1>6 DEF Former
<1> QED BY <1>q, <1>7

LEMMA FormerReads ==
  ASSUME NEW ps, NEW A, Former(ps, A), NEW j \in DOMAIN ps, NEW qs, DOMAIN qs = DOMAIN ps,
         NEW r \in Seq(BrokTypes), NEW ls \in Seq(Seq(BrokTypes)), ls # <<>>,
         ps[j].read = r, ps[j].queue = ls, qs[j].read = r \o Head(ls), qs[j].queue = Tail(ls),
         \A k \in DOMAIN ps : k # j => qs[k] = ps[k]
  PROVE  Former(qs, A) /\ \A k \in DOMAIN ps : Brs(qs[k]) = Brs(ps[k])
<1>1. Lined(r, ls, {})
  BY DEF Former
<1>2. Lined(qs[j].read, qs[j].queue, {})
  BY <1>1, LinedRead
<1>3. Brs(qs[j]) = Brs(ps[j])
  <2>1. ToSet(r \o Head(ls)) \cup UNION {ToSet(Tail(ls)[k]) : k \in DOMAIN Tail(ls)}
          = ToSet(r) \cup UNION {ToSet(ls[k]) : k \in DOMAIN ls}
    BY ONLY r \in Seq(BrokTypes), ls \in Seq(Seq(BrokTypes)), ls # <<>>, ReadSame
  <2>2. /\ Brs(qs[j]) = ToSet(r \o Head(ls)) \cup UNION {ToSet(Tail(ls)[k]) : k \in DOMAIN Tail(ls)}
        /\ Brs(ps[j]) = ToSet(r) \cup UNION {ToSet(ls[k]) : k \in DOMAIN ls}
    BY Zenon DEF Brs
  <2> QED BY <2>1, <2>2
<1>4. \A k \in DOMAIN ps : Brs(qs[k]) = Brs(ps[k])
  BY <1>3
<1>5. \A k \in DOMAIN qs : Lined(qs[k].read, qs[k].queue, {})
  BY <1>2 DEF Former
<1> QED BY <1>4, <1>5 DEF Former

LEMMA OldStep ==
  ASSUME TypeOK, Order, [Next]_vars, NEW m \in Modules
  PROVE  InOld(m)'
<1> DEFINE P == [read : Seq(BrokTypes), queue : Seq(Seq(BrokTypes))]
<1> PICK ps : ps = old[m]
  OBVIOUS
<1> PICK G : G = Got(m)
  OBVIOUS
<1> PICK D : D = Pending
  OBVIOUS
<1>0. /\ Made /\ KeptFine /\ InBroker /\ InOld(m) /\ ps \in Seq(P)
      /\ \A j \in DOMAIN ps : Brs(ps[j]) \subseteq BrokTypes
  <2>1. ps \in Seq(P)
    BY DEF TypeOK
  <2> HIDE DEF P
  <2>2. \A j \in DOMAIN ps : ps[j] \in P
    BY <2>1
  <2>3. \A j \in DOMAIN ps : Brs(ps[j]) \subseteq BrokTypes
    BY <2>2, BrsTypes DEF P
  <2> QED BY <2>1, <2>3 DEF Order
<1>1. Former(ps, G \cup D) /\ \A j \in DOMAIN ps : Gone(Brs(ps[j]))
  BY <1>0 DEF InOld, Former
<1>2. ASSUME NEW j \in DOMAIN ps PROVE Gone(Brs(ps[j]))'
  <2>1. PICK B : B = Brs(ps[j])
    OBVIOUS
  <2>2. B \in SUBSET BrokTypes /\ Gone(B)
    BY <1>0, <1>1, <2>1
  <2>3. Gone(B)'
    BY <1>0, <2>2, EvolvesStep, GoneStep
  <2> QED BY <2>1, <2>3
<1>3. ASSUME old'[m] = ps, Former(ps, Got(m)' \cup Pending') PROVE InOld(m)'
  BY <1>2, <1>3 DEF InOld, Former
<1>4. ASSUME old'[m] = ps, Got(m)' \cup Pending' \subseteq G \cup D PROVE InOld(m)'
  BY <1>1, <1>3, <1>4, FormerLess
<1>5. ASSUME UNCHANGED <<external, received[m], queue[m]>>, old'[m] = ps PROVE InOld(m)'
  BY <1>4, <1>5 DEF Got, Pending
<1>6. CASE GetNewBroks
  <2> PICK s : s = Head(todo)
    OBVIOUS
  <2>1. s \in Links /\ UNCHANGED <<queue, received, old>> /\ (external' = external \/ Gets(s))
        /\ kept = None
    BY <1>6, GetEffect
  <2>2. CASE external' = external
    BY <1>5, <2>1, <2>2
  <2>3. CASE Gets(s)
    <3> PICK B : B = ToSet(Taken(s, Given(s)))
      OBVIOUS
    <3>1. Pending' = D \cup B
      BY <1>0, <2>1, <2>3, GetPending
    <3>2. \A j \in DOMAIN ps : Ahead(Brs(ps[j]), B)
      BY <1>0, <1>1, <2>1, AheadOfGiven
    <3>3. Former(ps, (G \cup D) \cup B)
      BY <1>1, <3>2, FormerMore
    <3>4. Got(m)' = G
      BY <2>1 DEF Got
    <3>5. Got(m)' \cup Pending' = (G \cup D) \cup B
      BY <3>1, <3>4
    <3> QED BY <1>3, <2>1, <3>3, <3>5
  <2> QED BY <2>1, <2>2, <2>3
<1>7. CASE SendBroks
  <2>1. Pending' = {} /\ received' = received /\ old' = old
    BY <1>0, <1>7, SendEffect DEF InBroker
  <2>2. CASE queue[m] = None
    <3>1. queue'[m] = None
      BY <1>7, <2>2 DEF SendBroks
    <3> QED BY <1>4, <2>1, <2>2, <3>1 DEF Got
  <2>3. CASE queue[m] # None
    <3>1. Got(m)' = Got(m) \cup Pending
      BY <1>0, <1>7, <2>3, SendGot
    <3> QED BY <1>4, <2>1, <3>1
  <2> QED BY <2>2, <2>3
<1>8. CASE ManageBroks
  <2>1. Pending' = {} /\ UNCHANGED <<queue, received, old>>
    BY <1>0, <1>8, ManageEffect
  <2> QED BY <1>4, <2>1 DEF Got
<1>9. CASE CheckModules
  <2>1. external' = external /\ Pending' = D
    BY <1>9 DEF CheckModules, Pending
  <2>2. CASE UNCHANGED <<queue[m], received[m], old[m]>>
    BY <1>5, <2>1, <2>2
  <2>3. CASE /\ received'[m] = <<>> /\ queue'[m] \in {None, <<>>}
             /\ old'[m] \in {old[m], Append(old[m], Process(m))}
    <3>1. Got(m)' = {}
      <4>1. ToSet(received'[m]) = {} /\ DOMAIN <<>> = {}
        BY <2>3, EmptyList
      <4> QED BY <2>3, <4>1 DEF Got
    <3>2. CASE old'[m] = old[m]
      BY <1>4, <2>1, <3>1, <3>2
    <3>3. CASE old'[m] = Append(old[m], Process(m))
      <4> PICK p : p = Process(m)
        OBVIOUS
      <4>1. Brs(p) \subseteq G /\ Lined(p.read, p.queue, {}) /\ Ahead(Brs(p), D) /\ p \in P
        BY AsideFine, ProcessTypes
      <4> PICK qs : qs = Append(ps, p)
        OBVIOUS
      <4>2. Former(qs, D)
        BY <1>0, <1>1, <4>1, FormerAppend
      <4>3. Got(m)' \cup Pending' = D
        BY <2>1, <3>1
      <4>4. Gone(Brs(p))'
        <5>1. PICK B : B = Brs(p)
          OBVIOUS
        <5>2. Gone(B) /\ B \in SUBSET BrokTypes
          <6>1. Gone(G) /\ G \subseteq BrokTypes
            BY ListsTypes DEF Order
          <6> QED BY <4>1, <5>1, <6>1 DEF Gone
        <5>3. Gone(B)'
          BY <1>0, <5>2, EvolvesStep, GoneStep
        <5> QED BY <5>1, <5>3
      <4>5. \A k \in DOMAIN qs : (k \in DOMAIN ps /\ qs[k] = ps[k]) \/ qs[k] = p
        BY <1>0, <4>1, AppendList
      <4>6. \A k \in DOMAIN qs : Gone(Brs(qs[k]))'
        BY <1>2, <4>4, <4>5
      <4> QED BY <3>3, <4>2, <4>3, <4>6 DEF InOld, Former
    <3> QED BY <2>3, <3>2, <3>3
  <2> QED BY <1>9, <2>2, <2>3, CheckEffect
<1>10. CASE ReadQueue(m)
  <2>1. Got(m)' = G /\ external' = external /\ old' = old
    BY <1>10, ReadGot DEF ReadQueue
  <2> QED BY <1>4, <2>1 DEF Pending
<1>11. CASE ReadOld(m) /\ UNCHANGED <<external, received[m], queue[m]>>
  <2> PICK qs : qs = old'[m]
    OBVIOUS
  <2>1. PICK j \in DOMAIN ps :
          /\ ps[j].read \in Seq(BrokTypes) /\ ps[j].queue \in Seq(Seq(BrokTypes)) /\ ps[j].queue # <<>>
          /\ DOMAIN qs = DOMAIN ps
          /\ qs[j] = [read |-> ps[j].read \o Head(ps[j].queue), queue |-> Tail(ps[j].queue)]
          /\ \A k \in DOMAIN ps : k # j => qs[k] = ps[k]
    BY <1>11, OldTypes
  <2>2. Former(qs, G \cup D) /\ \A k \in DOMAIN ps : Brs(qs[k]) = Brs(ps[k])
    <3>r. PICK r : r = ps[j].read
      OBVIOUS
    <3>l. PICK ls : ls = ps[j].queue
      OBVIOUS
    <3>1. r \in Seq(BrokTypes) /\ ls \in Seq(Seq(BrokTypes)) /\ ls # <<>>
      BY ONLY <2>1, <3>r, <3>l
    <3>2. qs[j].read = r \o Head(ls) /\ qs[j].queue = Tail(ls)
      <4>1. PICK e : e = r \o Head(ls)
        OBVIOUS
      <4>2. PICK u : u = Tail(ls)
        OBVIOUS
      <4>3. qs[j] = [read |-> e, queue |-> u]
        BY <2>1, <3>r, <3>l, <4>1, <4>2
      <4>4. qs[j].read = e /\ qs[j].queue = u
        BY ONLY <4>3
      <4> QED BY <4>1, <4>2, <4>4
    <3>3. ps[j].read = r /\ ps[j].queue = ls /\ j \in DOMAIN ps /\ DOMAIN qs = DOMAIN ps
          /\ \A k \in DOMAIN ps : k # j => qs[k] = ps[k]
      BY <2>1, <3>r, <3>l
    <3>4. PICK A : A = G \cup D
      OBVIOUS
    <3>5. Former(ps, A)
      BY <1>1, <3>4
    <3>6. Former(qs, A) /\ \A k \in DOMAIN ps : Brs(qs[k]) = Brs(ps[k])
      BY ONLY <3>1, <3>2, <3>3, <3>5, FormerReads, Zenon
    <3> QED BY <3>4, <3>6
  <2>3. Got(m)' \cup Pending' = G \cup D
    BY <1>11 DEF Got, Pending
  <2>4. \A k \in DOMAIN qs : Gone(Brs(qs[k]))'
    BY <1>2, <2>1, <2>2
  <2> QED BY <2>2, <2>3, <2>4 DEF InOld, Former
<1>12. CASE UNCHANGED <<external, received[m], queue[m]>> /\ old'[m] = old[m]
  BY <1>5, <1>12
<1> QED BY <1>6, <1>7, <1>8, <1>9, <1>10, <1>11, <1>12, ModuleIdle

\* Who failed once is never forgotten, and neither is a brok that is lost.
LEMMA HistoryStep ==
  ASSUME [Next]_vars
  PROVE  faults \subseteq faults' /\ lost \subseteq lost'
BY ZenonT(40) DEF Next, Turn, Fault, vars, AddBrok, SendBroksToModules, CleanQueues, SetupScheduler, Begin,
   AskInitialBroks, GetNewBroks, AskBroks, BindBroks, SetupBroker, CheckModules, SendBroks, ManageBroks,
   ManageBrok, ReadQueue, ReadOld, ProcessDies, history

\* A module that never failed has a queue all the time, and misses nothing.
LEMMA ServedStep ==
  ASSUME TypeOK, Order, Served, [Next]_vars
  PROVE  Served'
<1>0. faults \subseteq faults'
  BY HistoryStep
<1> SUFFICES ASSUME NEW m \in Modules, m \notin faults'
             PROVE  queue'[m] # None /\ Has(m, ToSet(managed))' /\ Has(m, ToSet(external) \ Pending)'
  BY DEF Served
<1>1. queue[m] # None /\ Has(m, ToSet(managed)) /\ Has(m, ToSet(external) \ Pending)
  BY <1>0 DEF Served
<1>2. Made /\ InBroker
  BY DEF Order
<1>3. CASE UNCHANGED <<external, managed, queue[m], received[m]>>
  BY <1>1, <1>3 DEF Has, Got, Pending
<1>4. CASE GetNewBroks
  <2> PICK s : s = Head(todo)
    OBVIOUS
  <2>1. s \in Links /\ UNCHANGED <<managed, queue, received>> /\ (external' = external \/ Gets(s))
    BY <1>4, GetEffect
  <2>2. CASE external' = external
    BY <1>3, <2>1, <2>2
  <2>3. CASE Gets(s)
    <3> PICK t : t = Taken(s, Given(s))
      OBVIOUS
    <3>1. Pending' = Pending \cup ToSet(t)
      BY <1>2, <2>1, <2>3, GetPending
    <3>2. external' = external \o t /\ t \in Seq(BrokTypes)
      BY <1>2, <2>1, <2>3, GivenBroks DEF Gets, Asks
    <3>3. ToSet(external') = ToSet(external) \cup ToSet(t)
      BY <3>2, ConcatList DEF TypeOK
    <3>4. ToSet(external') \ Pending' \subseteq ToSet(external) \ Pending
      BY <3>1, <3>3
    <3>5. Got(m)' = Got(m)
      BY <2>1 DEF Got
    <3> QED BY <1>1, <2>1, <3>4, <3>5 DEF Has
  <2> QED BY <2>1, <2>2, <2>3
<1>5. CASE SendBroks
  <2>1. queue'[m] # None /\ Got(m)' = Got(m) \cup Pending
    BY <1>1, <1>2, <1>5, SendGot
  <2>2. /\ managed' = managed
        /\ \A b \in ToSet(external') : \E a \in ToSet(external) : a.from = b.from /\ a.n = b.n
    BY <1>2, <1>5, SendEffect DEF InBroker
  <2>3. \A a \in ToSet(external) : \E g \in Got(m)' : g.from = a.from /\ g.n = a.n
    BY <1>1, <2>1 DEF Has
  <2>4. \A b \in ToSet(external') : \E g \in Got(m)' : g.from = b.from /\ g.n = b.n
    BY <2>2, <2>3
  <2>5. \A b \in ToSet(managed') : \E g \in Got(m)' : g.from = b.from /\ g.n = b.n
    BY <1>1, <2>1, <2>2 DEF Has
  <2> QED BY <2>1, <2>4, <2>5 DEF Has
<1>6. CASE ManageBroks
  <2>1. /\ Pending = {} /\ UNCHANGED <<queue, received>>
        /\ ToSet(external') \subseteq ToSet(external)
        /\ ToSet(managed') \subseteq ToSet(managed) \cup ToSet(external)
    BY <1>2, <1>6, ManageEffect
  <2>2. Got(m)' = Got(m)
    BY <2>1 DEF Got
  <2>3. \A b \in ToSet(managed) \cup ToSet(external) : \E g \in Got(m) : g.from = b.from /\ g.n = b.n
    BY <1>1, <2>1 DEF Has
  <2> QED BY <1>1, <2>1, <2>2, <2>3 DEF Has
<1>7. CASE CheckModules
  <2>1. queue'[m] = queue[m] /\ received'[m] = received[m]
    BY <1>7, CheckEffect
  <2>2. UNCHANGED <<external, managed>>
    BY <1>7 DEF CheckModules
  <2> QED BY <1>3, <2>1, <2>2
<1>8. CASE ReadQueue(m)
  <2>1. queue'[m] # None /\ Got(m)' = Got(m)
    BY <1>8, ReadGot
  <2>2. external' = external /\ managed' = managed
    BY <1>8 DEF ReadQueue
  <2> QED BY <1>1, <2>1, <2>2 DEF Has, Pending
<1>9. CASE UNCHANGED <<external, received[m], queue[m]>> /\ managed' = managed
  BY <1>3, <1>9
<1> QED BY <1>4, <1>5, <1>6, <1>7, <1>8, <1>9, ModuleIdle, BrokerIdle

-----------------------------------------------------------------------------
(* Nothing is lost *)

\* The brok n of the scheduler s is in the list bs of the scheduler, or in A.
Somewhere(s, n, bs, A) ==
  (\E k \in DOMAIN bs : bs[k].n = n) \/ (\E b \in A : b.from = s /\ b.n = n)

LEMMA Kept ==
  NothingLost <=> (Internal => \A s \in Links \ faults : \A n \in 1..made[s] :
                      \/ Somewhere(s, n, Remaining(s), ToSet(external) \cup ToSet(managed))
                      \/ <<s, n>> \in lost)
BY DEF NothingLost, Somewhere, ToSet

LEMMA NothingLostStep ==
  ASSUME TypeOK, Order, NothingLost, [Next]_vars
  PROVE  NothingLost'
<1>a. PICK A : A = ToSet(external) \cup ToSet(managed)
  OBVIOUS
<1>b. PICK B : B = ToSet(external') \cup ToSet(managed')
  OBVIOUS
<1>0. /\ broks \in [Links -> Seq(SchedulerBroks)] /\ made \in [Links -> Nat] /\ ready \in [Links -> BOOLEAN]
      /\ Made /\ KeptFine /\ InBroker /\ faults \subseteq faults' /\ lost \subseteq lost'
      /\ pc # "given" => kept = None
      /\ kept # None => kept \in Seq(SchedulerBroks)
  BY HistoryStep DEF TypeOK, SchedulerBroks, Order
<1> SUFFICES ASSUME Internal, NEW s \in Links, s \notin faults', NEW n \in 1..made'[s],
                    <<s, n>> \notin lost'
             PROVE  Somewhere(s, n, Remaining(s)', B)
  <2>1. ASSUME NEW s \in Links, NEW n, Somewhere(s, n, Remaining(s)', B)
        PROVE  \/ \E b \in ToSet(Remaining(s)') : b.n = n
               \/ \E b \in ToSet(external') \cup ToSet(managed') : b.from = s /\ b.n = n
    BY <1>b, <2>1 DEF Somewhere, ToSet
  <2> QED BY <2>1, Zenon DEF NothingLost
<1>r. PICK R : R = Remaining(s)
  OBVIOUS
<1>q. PICK Q : Q = Remaining(s)'
  OBVIOUS
<1> SUFFICES Somewhere(s, n, Q, B)
  BY <1>q
<1>h. PICK h : h = Head(todo)
  OBVIOUS
<1>R. R = IF kept # None /\ s = h THEN kept ELSE broks[s]
  BY <1>r, <1>h DEF Remaining, Rebinding
<1>Q. Q = IF kept' # None /\ s = Head(todo') THEN kept' ELSE broks'[s]
  BY <1>q DEF Remaining, Rebinding
<1>T. R \in Seq(SchedulerBroks) /\ made[s] \in Nat
  BY <1>0, <1>r, RemainingTypes
<1>1. \A i \in 1..made[s] : Somewhere(s, i, R, A) \/ <<s, i>> \in lost
  BY <1>0, <1>a, <1>r, Kept
<1>2. ASSUME made'[s] = made[s], \A b \in A : \E c \in B : c.from = b.from /\ c.n = b.n,
             \A k \in DOMAIN R : \/ \E j \in DOMAIN Q : Q[j].n = R[k].n
                                 \/ \E c \in B : c.from = s /\ c.n = R[k].n
      PROVE  Somewhere(s, n, Q, B)
  <2>1. n \in 1..made[s] /\ <<s, n>> \notin lost
    BY <1>0, <1>2
  <2>2. Somewhere(s, n, R, A)
    BY <1>1, <2>1
  <2>3. CASE \E k \in DOMAIN R : R[k].n = n
    BY <1>2, <2>3 DEF Somewhere
  <2>4. CASE \E b \in A : b.from = s /\ b.n = n
    BY <1>2, <2>4 DEF Somewhere
  <2> QED BY <2>2, <2>3, <2>4 DEF Somewhere
<1>3. ASSUME UNCHANGED <<external, managed>>, made'[s] = made[s],
             \A k \in DOMAIN R : \E j \in DOMAIN Q : Q[j].n = R[k].n
      PROVE  Somewhere(s, n, Q, B)
  BY <1>a, <1>b, <1>2, <1>3
<1>4. ASSUME UNCHANGED <<external, managed>>, Q = R, made'[s] = made[s]
      PROVE  Somewhere(s, n, Q, B)
  BY <1>3, <1>4
<1>5. ASSUME UNCHANGED <<external, managed>>, made'[s] = made[s] + 1,
             \A k \in DOMAIN R : \E j \in DOMAIN Q : Q[j].n = R[k].n,
             \/ \E j \in DOMAIN Q : Q[j].n = made[s] + 1
             \/ <<s, made[s] + 1>> \in lost'
      PROVE  Somewhere(s, n, Q, B)
  <2>1. n = made[s] + 1 \/ n \in 1..made[s]
    BY <1>T, <1>5
  <2>2. A = B
    BY <1>a, <1>b, <1>5
  <2> QED BY <1>0, <1>1, <1>5, <2>1, <2>2 DEF Somewhere
<1>6. ASSUME NEW e \in SchedulerBroks, e.n = made[s] + 1
      PROVE  LET cs == Append(broks[s], e)
             IN /\ cs \in Seq(SchedulerBroks)
                /\ \A k \in DOMAIN broks[s] : k \in DOMAIN cs /\ cs[k].n = broks[s][k].n
                /\ \E j \in DOMAIN cs : cs[j].n = made[s] + 1
  <2>b. PICK bs : bs = broks[s]
    OBVIOUS
  <2>c. PICK cs : cs = Append(bs, e)
    OBVIOUS
  <2>1. bs \in Seq(SchedulerBroks)
    BY <1>0, <2>b
  <2>2. /\ cs \in Seq(SchedulerBroks) /\ Len(bs) \in Nat /\ DOMAIN bs = 1..Len(bs)
        /\ DOMAIN cs = 1..(Len(bs) + 1) /\ cs[Len(bs) + 1] = e /\ \A i \in 1..Len(bs) : cs[i] = bs[i]
    BY <2>1, <2>c, AppendList
  <2>3. Len(bs) + 1 \in DOMAIN cs /\ \A k \in DOMAIN bs : k \in DOMAIN cs /\ cs[k].n = bs[k].n
    BY <2>2
  <2>4. cs[Len(bs) + 1].n = made[s] + 1
    BY <1>6, <2>2
  <2>5. \E j \in DOMAIN cs : cs[j].n = made[s] + 1
    BY <2>3, <2>4
  <2> QED BY <2>b, <2>c, <2>2, <2>3, <2>5
<1>7. ASSUME NEW x \in Links, AddBrok(x) PROVE Somewhere(s, n, Q, B)
  <2>1. UNCHANGED <<external, managed, kept, todo>>
    BY <1>7 DEF AddBrok
  <2>2. CASE x # s
    <3>1. broks'[s] = broks[s] /\ made'[s] = made[s]
      BY <1>0, <1>7, <2>2 DEF AddBrok
    <3>2. Q = R
      BY <1>R, <1>Q, <1>h, <2>1, <3>1
    <3> QED BY <1>4, <2>1, <3>1, <3>2
  <2>3. CASE x = s
    <3>e. PICK e : e = Brok(s, FALSE)
      OBVIOUS
    <3>1. e \in SchedulerBroks /\ e.n = made[s] + 1
      BY <1>0, <3>e DEF Brok, SchedulerBroks
    <3>2. broks'[s] = Append(broks[s], e) /\ made'[s] = made[s] + 1
      BY <1>0, <1>7, <2>3, <3>e DEF AddBrok
    <3>3. CASE Rebinding(s)
      <4>1. <<s, made[s] + 1>> \in lost'
        BY <1>7, <2>3, <3>3 DEF AddBrok
      <4>2. Q = R
        BY <1>R, <1>Q, <1>h, <2>1, <3>3 DEF Rebinding
      <4> QED BY <1>5, <2>1, <3>2, <4>1, <4>2
    <3>4. CASE ~Rebinding(s)
      <4>1. R = broks[s] /\ Q = broks'[s]
        BY <1>R, <1>Q, <1>h, <2>1, <3>4 DEF Rebinding
      <4>2. /\ \A k \in DOMAIN R : k \in DOMAIN Q /\ Q[k].n = R[k].n
            /\ \E j \in DOMAIN Q : Q[j].n = made[s] + 1
        BY <1>6, <3>1, <3>2, <4>1
      <4> QED BY <1>5, <2>1, <3>2, <4>2
    <3> QED BY <3>3, <3>4
  <2> QED BY <2>2, <2>3
<1>8. ASSUME NEW x \in Links, SendBroksToModules(x) PROVE Somewhere(s, n, Q, B)
  <2>1. UNCHANGED <<external, managed, todo>> /\ made' = made
    BY <1>8 DEF SendBroksToModules, history
  <2>2. CASE x # s
    <3>1. broks'[s] = broks[s]
      BY <1>0, <1>8, <2>2 DEF SendBroksToModules
    <3>2. s = h => kept' = kept
      BY <1>8, <1>h, <2>2 DEF SendBroksToModules, Rebinding
    <3>3. Q = R
      BY <1>R, <1>Q, <1>h, <2>1, <3>1, <3>2
    <3> QED BY <1>4, <2>1, <3>3
  <2>3. CASE x = s /\ ~Rebinding(s)
    <3>1. broks'[s] = AllSent(broks[s]) /\ kept' = kept
      BY <1>0, <1>8, <2>3 DEF SendBroksToModules
    <3>2. R = broks[s] /\ Q = broks'[s]
      BY <1>R, <1>Q, <1>h, <2>1, <2>3, <3>1 DEF Rebinding
    <3>3. \A k \in DOMAIN R : k \in DOMAIN Q /\ Q[k].n = R[k].n
      BY <1>0, <3>1, <3>2, MarkAll
    <3> QED BY <1>3, <2>1, <3>3
  <2>4. CASE x = s /\ Rebinding(s)
    <3>1. kept' = SentIn(kept, broks[s]) /\ kept # None /\ kept \in Seq(SchedulerBroks) /\ s = h
      BY <1>0, <1>8, <1>h, <2>4 DEF SendBroksToModules, Rebinding
    <3>2. /\ kept' \in Seq(SchedulerBroks)
          /\ \A k \in DOMAIN kept : k \in DOMAIN kept' /\ kept'[k].n = kept[k].n
      BY <3>1, SentInList
    <3>3. R = kept /\ Q = kept'
      BY <1>R, <1>Q, <1>h, <2>1, <3>1, <3>2, NoList DEF SchedulerBroks
    <3> QED BY <1>3, <2>1, <3>2, <3>3
  <2> QED BY <2>2, <2>3, <2>4
<1>9. ASSUME NEW x \in Links, CleanQueues(x) PROVE Somewhere(s, n, Q, B)
  <2>1. x # s
    BY <1>9 DEF CleanQueues
  <2>2. UNCHANGED <<external, managed, made, kept, todo>> /\ broks'[s] = broks[s]
    BY <1>0, <1>9, <2>1 DEF CleanQueues, history
  <2>3. Q = R
    BY <1>R, <1>Q, <1>h, <2>2
  <2> QED BY <1>4, <2>2, <2>3
<1>10. ASSUME NEW x \in Links, SetupScheduler(x) PROVE Somewhere(s, n, Q, B)
  <2>1. UNCHANGED <<external, managed, made, todo>>
    BY <1>10 DEF SetupScheduler, history
  <2>2. CASE x # s
    <3>1. broks'[s] = broks[s]
      BY <1>0, <1>10, <2>2 DEF SetupScheduler
    <3>2. s = h => kept' = kept
      BY <1>10, <1>h, <2>2 DEF SetupScheduler, Rebinding
    <3>3. Q = R
      BY <1>R, <1>Q, <1>h, <2>1, <3>1, <3>2
    <3> QED BY <1>4, <2>1, <3>3
  <2>3. CASE x = s
    <3>1. ~ready[s]
      BY <1>10, <2>3 DEF SetupScheduler, Fault
    <3>2. made'[s] = 0
      BY <1>0, <2>1, <3>1 DEF Made
    <3> QED BY <3>2
  <2> QED BY <2>2, <2>3
<1>11. CASE AskInitialBroks
  <2>x. PICK x : x = Head(todo)
    OBVIOUS
  <2>1. /\ UNCHANGED <<external, managed>> /\ (UNCHANGED scheduler \/ FillInitialBroks(x))
        /\ kept = None /\ kept' = None
    BY <1>0, <1>11, <2>x DEF AskInitialBroks, history
  <2>0. R = broks[s] /\ Q = broks'[s]
    BY <1>R, <1>Q, <2>1
  <2>2. CASE UNCHANGED scheduler
    BY <1>4, <2>0, <2>1, <2>2 DEF scheduler
  <2>3. CASE FillInitialBroks(x) /\ x # s
    <3>1. broks'[s] = broks[s] /\ made'[s] = made[s]
      BY <1>0, <2>3 DEF FillInitialBroks
    <3> QED BY <1>4, <2>0, <2>1, <3>1
  <2>4. CASE FillInitialBroks(x) /\ x = s
    <3>e. PICK e : e = Brok(s, TRUE)
      OBVIOUS
    <3>c. PICK cs : cs = Append(broks[s], e)
      OBVIOUS
    <3>1. e \in SchedulerBroks /\ e.n = made[s] + 1
      BY <1>0, <3>e DEF Brok, SchedulerBroks
    <3>2. broks'[s] = AllSent(cs) /\ made'[s] = made[s] + 1
      BY <1>0, <2>4, <3>e, <3>c DEF FillInitialBroks
    <3>3. /\ cs \in Seq(SchedulerBroks)
          /\ \A k \in DOMAIN broks[s] : k \in DOMAIN cs /\ cs[k].n = broks[s][k].n
          /\ \E j \in DOMAIN cs : cs[j].n = made[s] + 1
      BY <1>6, <3>1, <3>c
    <3>4. \A k \in DOMAIN cs : k \in DOMAIN broks'[s] /\ broks'[s][k].n = cs[k].n
      BY <3>2, <3>3, MarkAll
    <3> QED BY <1>5, <2>0, <2>1, <3>2, <3>3, <3>4
  <2> QED BY <2>1, <2>2, <2>3, <2>4
<1>12. CASE GetNewBroks
  <2>1. /\ h \in Links /\ UNCHANGED <<managed, made, broks>> /\ kept = None
        /\ Asks(h) \/ UNCHANGED <<kept, external>>
        /\ external' = external \/ Gets(h)
    BY <1>12, <1>h, GetEffect
  <2>r. R = broks[s]
    BY <1>R, <2>1
  <2>2. CASE UNCHANGED <<kept, external>>
    <3>1. Q = R
      BY <1>Q, <2>r, <2>1, <2>2
    <3> QED BY <1>4, <2>1, <2>2, <3>1
  <2>3. CASE Asks(h) /\ h # s
    <3>1. Q = R
      BY <1>Q, <1>h, <2>r, <2>1, <2>3 DEF Asks
    <3>2. A \subseteq B
      <4>1. external' = external \/ ToSet(external') = ToSet(external) \cup ToSet(Taken(h, Given(h)))
        <5>1. PICK u : u = Taken(h, Given(h))
          OBVIOUS
        <5>2. u \in Seq(BrokTypes)
          BY <1>0, <2>1, <5>1, GivenBroks
        <5>3. external' = external \/ external' = external \o u
          BY <2>1, <5>1 DEF Gets
        <5>4. external \in Seq(BrokTypes)
          BY DEF TypeOK
        <5>5. ToSet(external \o u) = ToSet(external) \cup ToSet(u)
          BY ONLY <5>2, <5>4, ConcatList
        <5> QED BY <5>1, <5>3, <5>5
      <4> QED BY <1>a, <1>b, <2>1, <4>1
    <3> QED BY <1>2, <2>1, <3>1, <3>2
  <2>4. CASE Asks(h) /\ h = s
    <3>t. PICK t : t = Taken(h, Given(h))
      OBVIOUS
    <3>0. external' = external \o t /\ kept' = Left(broks[h]) /\ todo' = todo
      <4>1. external' = external => ~Fault({h})
        BY <2>4 DEF Fault
      <4> QED BY <2>4, <3>t, <4>1 DEF Asks
    <3>1. /\ t \in Seq(BrokTypes) /\ \A b \in ToSet(t) : b.from = h
          /\ \A j \in DOMAIN broks[h] :
               \/ \E b \in ToSet(t) : b.n = broks[h][j].n
               \/ \E k \in DOMAIN Left(broks[h]) : Left(broks[h])[k] = broks[h][j]
      <4>1. /\ Taken(h, Given(h)) \in Seq(BrokTypes)
            /\ \A b \in ToSet(Taken(h, Given(h))) : b.from = h
        BY <1>0, <2>1, GivenBroks
      <4>2. \A j \in DOMAIN broks[h] :
              \/ \E b \in ToSet(Taken(h, Given(h))) : b.n = broks[h][j].n
              \/ \E k \in DOMAIN Left(broks[h]) : Left(broks[h])[k] = broks[h][j]
        BY <1>0, <2>1, GivenBroks
      <4> QED BY <3>t, <4>1, <4>2
    <3>2. ToSet(external') = ToSet(external) \cup ToSet(t)
      BY <3>0, <3>1, ConcatList DEF TypeOK
    <3>3. A \subseteq B /\ ToSet(t) \subseteq B
      BY <1>a, <1>b, <2>1, <3>2
    <3>4. Q = Left(broks[h])
      <4>1. broks[h] \in Seq(SchedulerBroks)
        BY <1>0, <2>1
      <4>2. Left(broks[h]) \in Seq(SchedulerBroks)
        BY <4>1, CutTypes, Records DEF Left
      <4>3. kept' # None
        BY <3>0, <4>2, NoList DEF SchedulerBroks
      <4> QED BY <1>Q, <1>h, <2>4, <3>0, <4>3
    <3>5. \A k \in DOMAIN R : \/ \E j \in DOMAIN Q : Q[j].n = R[k].n
                              \/ \E c \in B : c.from = s /\ c.n = R[k].n
      BY <2>r, <2>4, <3>1, <3>3, <3>4
    <3> QED BY <1>2, <2>1, <3>3, <3>5
  <2> QED BY <2>1, <2>2, <2>3, <2>4
<1>13. CASE BindBroks
  <2>1. /\ UNCHANGED <<external, managed, made>> /\ kept' = None
        /\ broks' = IF kept = None THEN broks ELSE [broks EXCEPT ![h] = kept]
    BY <1>13, <1>h DEF BindBroks, history
  <2>2. Q = broks'[s] /\ broks'[s] = R
    BY <1>0, <1>R, <1>Q, <2>1
  <2> QED BY <1>4, <2>1, <2>2
<1>14. CASE SendBroks
  <2>1. /\ \A a \in ToSet(external) : \E b \in ToSet(external') : a.from = b.from /\ a.n = b.n
        /\ UNCHANGED <<broks, made, managed, kept, todo>>
    BY <1>0, <1>14, SendEffect DEF InBroker
  <2>2. \A b \in A : \E c \in B : c.from = b.from /\ c.n = b.n
    BY <1>a, <1>b, <2>1
  <2>3. Q = R
    BY <1>R, <1>Q, <1>h, <2>1
  <2> QED BY <1>2, <2>1, <2>2, <2>3
<1>15. CASE ManageBroks
  <2>1. A \subseteq B /\ UNCHANGED <<broks, made, kept, todo>>
    BY <1>0, <1>a, <1>b, <1>15, ManageEffect
  <2>2. \A b \in A : \E c \in B : c.from = b.from /\ c.n = b.n
    BY <2>1
  <2>3. Q = R
    BY <1>R, <1>Q, <1>h, <2>1
  <2> QED BY <1>2, <2>1, <2>2, <2>3
<1>16. CASE /\ UNCHANGED <<broks, made, external, managed, kept>>
            /\ kept = None \/ todo' = todo
  <2>1. Q = R
    BY <1>R, <1>Q, <1>h, <1>16
  <2> QED BY <1>4, <1>16, <2>1
<1>17. \/ /\ UNCHANGED <<broks, made, external, managed, kept>>
          /\ kept = None \/ todo' = todo
       \/ AskInitialBroks \/ GetNewBroks \/ BindBroks \/ SendBroks \/ ManageBroks
       \/ \E x \in Links : AddBrok(x) \/ SendBroksToModules(x) \/ CleanQueues(x) \/ SetupScheduler(x)
  BY <1>0 DEF Next, Turn, vars, Begin, CheckModules, SetupBroker, ReadQueue, ReadOld, ProcessDies,
     scheduler, history
<1> QED BY <1>7, <1>8, <1>9, <1>10, <1>11, <1>12, <1>13, <1>14, <1>15, <1>16, <1>17

-----------------------------------------------------------------------------
(* The theorems *)

LEMMA IInvInit == Init => IInv
<1> SUFFICES ASSUME Init PROVE IInv
  OBVIOUS
<1>1. TypeOK
  BY Typing
<1>2. /\ external = <<>> /\ managed = <<>> /\ queue = [m \in Modules |-> <<>>]
      /\ received = [m \in Modules |-> <<>>] /\ made = [s \in Links |-> 0]
      /\ old = [m \in Modules |-> <<>>] /\ kept = None
      /\ broks = [s \in Links |-> <<>>] /\ faults = {} /\ pc = "begin"
  BY DEF Init
<1>3. DOMAIN <<>> = {} /\ <<>> # None
  <2>1. DOMAIN <<>> = {} /\ <<>> \in Seq(Seq(BrokTypes))
    OBVIOUS
  <2> QED BY <2>1, NoList
<1>4. Pending = {} /\ \A m \in Modules : Got(m) = {} /\ Lists(m) = <<>>
  BY <1>2, <1>3, EmptyList DEF Pending, Got, Lists
<1>5. Made
  BY <1>2, <1>3 DEF Made, Rising, FirstMarked
<1>k. KeptFine /\ \A m \in Modules : InOld(m)
  BY <1>2, <1>3 DEF KeptFine, InOld
<1>6. InBroker
  BY <1>2, <1>3, EmptyList DEF InBroker, Ahead
<1>7. ToSet(external) = {} /\ ToSet(managed) = {} /\ Gone({})
  BY <1>2, EmptyList DEF Gone
<1>8. \A m \in Modules : InModule(m)
  BY <1>2, <1>3, <1>4, EmptyList DEF InModule, Lined, Ahead
<1>9. Order
  BY <1>4, <1>5, <1>k, <1>6, <1>7, <1>8 DEF Order
<1>10. Served
  BY <1>2, <1>3, <1>7 DEF Served, Has
<1>11. NothingLost
  BY <1>2 DEF NothingLost
<1> QED BY <1>1, <1>9, <1>10, <1>11 DEF IInv

LEMMA IInvStep ==
  ASSUME IInv, [Next]_vars
  PROVE  IInv'
<1>1. TypeOK /\ Order /\ Served /\ NothingLost
  BY DEF IInv
<1>2. TypeOK'
  BY <1>1, TypeStep
<1>3. Made' /\ KeptFine' /\ InBroker' /\ Gone(ToSet(external))' /\ Gone(ToSet(managed))'
  BY <1>1, MadeStep, KeptStep, BrokerStep DEF Order
<1>4. \A m \in Modules : InModule(m)' /\ Gone(Got(m))' /\ InOld(m)'
  BY <1>1, ModuleStep, OldStep
<1>5. Order'
  BY <1>3, <1>4 DEF Order
<1> QED BY <1>1, <1>2, <1>5, ServedStep, NothingLostStep DEF IInv

\* The inductive invariant: the broks of a scheduler are in order on the way from it to
\* every process of a module, a former one included, the marked ones first, the list that
\* give_broks is about to bind stands for those of the link, and an external module that
\* never failed has what is marked.
THEOREM Safety == Spec => []IInv
BY IInvInit, IInvStep, PTL DEF Spec

\* No process of a module, internal or external, is ever given a brok of a scheduler twice or
\* after a later one, whatever is restarted, lost or configured again (do_loop_turn marks
\* with to_be_sent what the external modules have had), and what a process reads after a
\* restart has forgotten it was all made before what the next one of the module reads.
THEOREM OnceInOrder == Spec => []InOrderOnce
<1>1. IInv => InOrderOnce
  <2> SUFFICES ASSUME IInv PROVE InOrderOnce
    OBVIOUS
  <2>1. TypeOK /\ Order
    BY DEF IInv
  <2>2. Increasing(managed) /\ \A m \in Modules : Increasing(received[m])
    BY <2>1 DEF Order, InBroker, InModule, Lined
  <2>3. ASSUME NEW m \in Modules, NEW j \in DOMAIN old[m]
        PROVE  /\ Increasing(old[m][j].read) /\ Ahead(ToSet(old[m][j].read), ToSet(received[m]))
               /\ \A k \in DOMAIN old[m] :
                    j < k => Ahead(ToSet(old[m][j].read), ToSet(old[m][k].read))
    <3>1. ToSet(received[m]) \subseteq Got(m)
      BY <2>1, ListsTypes
    <3>2. \A k : ToSet(old[m][k].read) \subseteq Brs(old[m][k])
      BY DEF Brs
    <3>3. InOld(m)
      BY <2>1 DEF Order
    <3>4. /\ Increasing(old[m][j].read) /\ Ahead(Brs(old[m][j]), Got(m))
          /\ \A k \in DOMAIN old[m] : j < k => Ahead(Brs(old[m][j]), Brs(old[m][k]))
      BY <3>3 DEF InOld, Lined, Ahead
    <3> QED BY <3>1, <3>2, <3>4 DEF Ahead
  <2> QED BY <2>2, <2>3 DEF InOrderOnce
<1> QED BY <1>1, Safety, PTL

\* An external module that never failed was put in its queue, at the latest when the
\* internal module manages a brok, that same brok.
THEOREM ModulesSeeTheSame == Spec => []SameBroks
<1>1. IInv => SameBroks
  BY DEF IInv, Served, Has, SameBroks
<1> QED BY <1>1, Safety, PTL

\* Every brok of a scheduler that did not fail is in the list that is or will be bound to its
\* link, in the broker or managed, but for one that was added after give_broks made that list
\* and before it bound it: this is all that the missing lock can lose.
THEOREM NothingIsLost == Spec => []NothingLost
<1>1. IInv => NothingLost
  BY DEF IInv
<1> QED BY <1>1, Safety, PTL
=============================================================================
