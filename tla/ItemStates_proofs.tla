------------------------- MODULE ItemStates_proofs -------------------------
(***************************************************************************)
(* Proofs about ItemStates, for every set of items, every acyclic          *)
(* dependency relation and every number of check attempts.                 *)
(***************************************************************************)
EXTENDS ItemStates, SequenceTheorems, TLAPS

USE DEF States

-----------------------------------------------------------------------------
(* The stack of calls *)

\* A prefix of a sequence.
LEMMA PrefixFacts ==
  ASSUME NEW S, NEW s \in Seq(S), NEW n \in Nat, n <= Len(s)
  PROVE  /\ SubSeq(s, 1, n) \in Seq(S)
         /\ Len(SubSeq(s, 1, n)) = n
         /\ \A k \in 1..n : SubSeq(s, 1, n)[k] = s[k]
  OBVIOUS

\* Replacing one element of a sequence.
LEMMA SetFacts ==
  ASSUME NEW S, NEW s \in Seq(S), NEW n \in 1..Len(s), NEW e \in S
  PROVE  /\ [s EXCEPT ![n] = e] \in Seq(S)
         /\ Len([s EXCEPT ![n] = e]) = Len(s)
         /\ \A k \in 1..Len(s) : [s EXCEPT ![n] = e][k] = IF k = n THEN e ELSE s[k]
  BY ExceptSeq

\* A call in progress is the last element of the stack.
LEMMA StackFacts ==
  ASSUME TypeOK, stack # <<>>
  PROVE  /\ stack \in Seq(SUBSET Items) /\ Len(stack) \in Nat \ {0}
         /\ Len(stack) \in 1..Len(stack) /\ 1 \in 1..Len(stack)
         /\ Top = stack[Len(stack)] /\ Top \in SUBSET Items
<1>1. stack \in Seq(SUBSET Items) /\ Len(stack) \in Nat \ {0}
  BY DEF TypeOK
<1> QED BY <1>1 DEF Top

\* A call that has visited y: the other calls are as before.
LEMMA VisitedFacts ==
  ASSUME TypeOK, stack # <<>>, NEW y \in Top
  PROVE  /\ Visited(y) \in Seq(SUBSET Items)
         /\ Len(Visited(y)) = Len(stack)
         /\ \A k \in 1..Len(stack) :
              Visited(y)[k] = IF k = Len(stack) THEN Top \ {y} ELSE stack[k]
<1> DEFINE T == SUBSET Items
           e == Top \ {y}
           n == Len(stack)
<1>1. stack \in Seq(T) /\ n \in 1..Len(stack) /\ e \in T
  BY StackFacts
<1>2. Visited(y) = [stack EXCEPT ![n] = e]
  BY StackFacts DEF Visited, Top
<1> HIDE DEF T, e, n
<1>3. /\ Visited(y) \in Seq(T)
      /\ Len(Visited(y)) = Len(stack)
      /\ \A k \in 1..Len(stack) : Visited(y)[k] = IF k = n THEN e ELSE stack[k]
  BY <1>1, <1>2, SetFacts
<1> QED BY <1>3 DEF T, e, n

\* A call that returns.
LEMMA ReturnFacts ==
  ASSUME TypeOK, stack # <<>>, NEW t, t = SubSeq(stack, 1, Len(stack) - 1)
  PROVE  /\ t \in Seq(SUBSET Items)
         /\ Len(t) = Len(stack) - 1
         /\ \A k \in 1..(Len(stack) - 1) : t[k] = stack[k]
<1> DEFINE T == SUBSET Items
           n == Len(stack) - 1
<1>1. stack \in Seq(T) /\ n \in Nat /\ n <= Len(stack)
  BY StackFacts
<1> HIDE DEF T, n
<1>2. SubSeq(stack, 1, n) \in Seq(T) /\ Len(SubSeq(stack, 1, n)) = n
      /\ \A k \in 1..n : SubSeq(stack, 1, n)[k] = stack[k]
  BY <1>1, PrefixFacts
<1> QED BY <1>2 DEF T, n

\* act_depend_of_me leads away from the root of the dependencies.
LEMMA ImpactedType ==
  ASSUME NEW i \in Items, NEW s
  PROVE  /\ Impacted(i, s) \in SUBSET Items
         /\ \A y \in Impacted(i, s) : Rank[i] < Rank[y]
         /\ Impacted(i, s) \subseteq DependOfMe(i)
         /\ s # "ok" => Impacted(i, s) = DependOfMe(i)
  BY ItemConstants DEF Impacted, DependOfMe

-----------------------------------------------------------------------------
(* Registering a problem *)

\* register_a_problem returns at once for a problem the item knows.
LEMMA KnownStep ==
  ASSUME IInv, NEW y \in Items, RegisterKnown(y)
  PROVE  IInv'
<1> USE DEF RegisterKnown, itemVars, linkVars
<1>1. TypeOK'
  BY VisitedFacts DEF IInv, TypeOK
<1>2. /\ DOMAIN stack' = 1..Len(stack) /\ DOMAIN stack = 1..Len(stack)
      /\ \A k \in 1..Len(stack) : stack'[k] \subseteq stack[k]
  <2>1. TypeOK /\ stack # <<>> /\ y \in Top
    BY DEF IInv
  <2>2. stack' \in Seq(SUBSET Items) /\ stack \in Seq(SUBSET Items)
        /\ Len(stack') = Len(stack)
    BY <2>1, VisitedFacts, StackFacts
  <2>3. \A k \in 1..Len(stack) : stack'[k] \subseteq stack[k]
    BY <2>1, VisitedFacts, StackFacts
  <2> QED BY <2>2, <2>3
<1>3. Idle' /\ Below'
  BY <1>2 DEF IInv, Idle, Below
<1>4. Links'
  BY DEF IInv, Links
<1>5. Told'
  BY VisitedFacts, StackFacts, ZenonT(40) DEF IInv, Told, DependOfMe
<1>6. ProblemsAreReal' /\ Aside' /\ Counted'
  BY DEF IInv, ProblemsAreReal, Aside, Counted, IsImpact, LastState
<1> QED BY <1>1, <1>3, <1>4, <1>5, <1>6 DEF IInv

\* A call returns to its caller.
LEMMA ReturnStep ==
  ASSUME IInv, Return
  PROVE  IInv'
<1> USE DEF Return, itemVars, linkVars
<1>1. TypeOK'
  BY ReturnFacts DEF IInv, TypeOK
<1>2. Idle' /\ Below'
  BY ReturnFacts, StackFacts DEF IInv, Idle, Below
<1>3. Links'
  BY DEF IInv, Links
<1>4. Told'
  <2>1. \A y \in stack[1] : stack' # <<>> /\ y \in stack'[1]
    <3>1. stack' \in Seq(SUBSET Items) /\ Len(stack') = Len(stack) - 1
          /\ \A k \in 1..(Len(stack) - 1) : stack'[k] = stack[k]
      BY ReturnFacts DEF IInv
    <3>2. Len(stack) \in Nat \ {0} /\ Top = stack[Len(stack)]
      BY StackFacts DEF IInv
    <3>3. CASE Len(stack) = 1
      BY <3>2, <3>3
    <3>4. CASE Len(stack) # 1
      <4>1. 1 \in 1..(Len(stack) - 1)
        <5> DEFINE n == Len(stack)
        <5>1. n \in Nat \ {0} /\ n # 1
          BY <3>2, <3>4
        <5> HIDE DEF n
        <5>2. 1 \in 1..(n - 1)
          BY <5>1
        <5> QED BY <5>2 DEF n
      <4>2. stack'[1] = stack[1] /\ Len(stack') # 0
        BY <3>1, <3>2, <3>4, <4>1
      <4> QED BY <4>2
    <3> QED BY <3>3, <3>4
  <2> QED BY <2>1 DEF IInv, Told, DependOfMe
<1>5. ProblemsAreReal' /\ Aside' /\ Counted'
  BY DEF IInv, ProblemsAreReal, Aside, Counted, IsImpact, LastState
<1> QED BY <1>1, <1>2, <1>3, <1>4, <1>5 DEF IInv

\* The problem takes the impacts found as its own.
LEMMA SetImpactsStep ==
  ASSUME IInv, SetImpacts
  PROVE  IInv'
<1> USE DEF SetImpacts, itemVars, linkVars
<1>0. root \in Items /\ None \notin Items
  BY ItemConstants DEF IInv, TypeOK
<1>1. TypeOK'
  BY <1>0 DEF IInv, TypeOK
<1>2. Idle' /\ Below'
  BY DEF Idle, Below
<1>3. Links'
  BY <1>0 DEF IInv, Links, TypeOK
<1>4. Told'
  BY <1>0 DEF IInv, Told, DependOfMe
<1>5. ProblemsAreReal'
  BY <1>0 DEF IInv, ProblemsAreReal, Below, IsImpact, TypeOK
<1>6. Aside' /\ Counted'
  BY DEF IInv, Aside, Counted, IsImpact, LastState
<1> QED BY <1>1, <1>2, <1>3, <1>4, <1>5, <1>6 DEF IInv

\* Releasing the impacts of a problem p: each of them is an impact of p, only p
\* leaves its sources, and no own state is lost.
LEMMA ReleaseFacts ==
  ASSUME IInv, NEW p \in Items, problem[p], p # root, NEW z \in Items
  PROVE  /\ SourcesWithout(p)[z] = sources[z] \ {p}
         /\ z \in impacts[p] <=> p \in sources[z]
         /\ StatesWithout(p)[z] \in States
         /\ StatesWithout(p)[z] =
              IF sources[z] = {p} /\ ~own[z] THEN before[z] ELSE state[z]
         /\ problem[z] => StatesWithout(p)[z] = state[z]
<1>1. z \in impacts[p] <=> p \in sources[z]
  BY DEF IInv, Links
<1>2. SourcesWithout(p)[z] = sources[z] \ {p}
  BY <1>1 DEF SourcesWithout
<1>3. StatesWithout(p)[z] =
        IF sources[z] = {p} /\ ~own[z] THEN before[z] ELSE state[z]
  BY <1>1 DEF StatesWithout, Restored
<1>4. StatesWithout(p)[z] \in States
  BY <1>3 DEF IInv, Aside, IsImpact, TypeOK
<1>5. problem[z] => StatesWithout(p)[z] = state[z]
  BY <1>3 DEF IInv, ProblemsAreReal, IsImpact
<1> QED BY <1>1, <1>2, <1>3, <1>4, <1>5

\* register_a_problem keeps the invariant, whether the new impact was a problem,
\* an impact or neither.
LEMMA RegisterStep ==
  ASSUME IInv, NEW y \in Items, Register(y)
  PROVE  IInv'
<1> DEFINE shown == IF IsImpact(y) THEN state[y] ELSE "unreachable"
<1>1. /\ TypeOK /\ stack # <<>> /\ y \in Top
      /\ root \in Items /\ None \notin Items /\ problem[root]
      /\ y # root
  <2>1. TypeOK /\ stack # <<>> /\ y \in Top
    BY DEF IInv, Register
  <2>2. root \in Items /\ problem[root] /\ None \notin Items
    BY <2>1, ItemConstants DEF IInv, Idle, Below, TypeOK
  <2>3. Rank[root] < Rank[y]
    BY <2>1, <2>2, StackFacts DEF IInv, Below
  <2>4. Rank[root] \in Nat
    BY <2>2, ItemConstants
  <2> QED BY <2>1, <2>2, <2>3, <2>4
<1>2. /\ problem' = [problem EXCEPT ![y] = FALSE]
      /\ impacts' = IF problem[y] THEN [impacts EXCEPT ![y] = {}] ELSE impacts
      /\ sources' = [IF problem[y] THEN SourcesWithout(y) ELSE sources
                      EXCEPT ![y] = @ \cup {root}]
      /\ state' = [StatesWithout(y) EXCEPT ![y] = shown]
      /\ before' = [before EXCEPT ![y] = IF IsImpact(y) THEN @ ELSE state[y]]
      /\ own' = [own EXCEPT ![y] = IsImpact(y) /\ @]
      /\ stack' = Append(Visited(y), Impacted(y, shown))
      /\ found' = found \cup {y}
      /\ kind' = kind /\ attempt' = attempt /\ root' = root /\ fails' = fails
      /\ restarts' = restarts
  BY DEF Register, BecomeImpact, ImpactsWithout
<1>3. /\ stack' \in Seq(SUBSET Items) /\ stack' # <<>>
      /\ Len(stack') = Len(stack) + 1
      /\ stack'[Len(stack) + 1] = Impacted(y, shown)
      /\ \A k \in 1..Len(stack) :
           stack'[k] = IF k = Len(stack) THEN Top \ {y} ELSE stack[k]
  <2>1. PICK D \in SUBSET Items : D = Impacted(y, shown)
    BY ImpactedType
  <2>2. PICK t : t = stack'
    OBVIOUS
  <2>3. t = Append(Visited(y), D)
    BY <1>2, <2>1, <2>2
  <2>4. /\ t \in Seq(SUBSET Items) /\ t # <<>>
        /\ Len(t) = Len(stack) + 1
        /\ t[Len(stack) + 1] = D
        /\ \A k \in 1..Len(stack) :
             t[k] = IF k = Len(stack) THEN Top \ {y} ELSE stack[k]
    <3>1. /\ Visited(y) \in Seq(SUBSET Items) /\ Len(Visited(y)) = Len(stack)
          /\ Len(stack) \in Nat
      BY <1>1, VisitedFacts, StackFacts
    <3>2. /\ t \in Seq(SUBSET Items) /\ Len(t) = Len(stack) + 1
          /\ t[Len(stack) + 1] = D
          /\ \A k \in 1..Len(stack) : t[k] = Visited(y)[k]
          /\ t # <<>>
      BY <2>1, <2>3, <3>1, AppendProperties
    <3>3. \A k \in 1..Len(stack) :
            t[k] = IF k = Len(stack) THEN Top \ {y} ELSE stack[k]
      BY <1>1, <3>2, VisitedFacts, Zenon
    <3> QED BY <3>2, <3>3
  <2> QED BY <2>1, <2>2, <2>4
<1> HIDE DEF shown
<1>4. /\ sources' \in [Items -> SUBSET Items]
      /\ \A z \in Items :
           sources'[z] = IF z = y THEN (IF problem[y] THEN sources[z] \ {y} ELSE sources[z])
                                         \cup {root}
                         ELSE IF problem[y] THEN sources[z] \ {y} ELSE sources[z]
  <2>1. CASE problem[y]
    <3> DEFINE f == SourcesWithout(y)
    <3>1. f \in [Items -> SUBSET Items]
      BY <1>1 DEF SourcesWithout, TypeOK
    <3>2. \A z \in Items : f[z] = sources[z] \ {y}
      BY <1>1, <2>1, ReleaseFacts
    <3>3. sources' = [f EXCEPT ![y] = @ \cup {root}]
      BY <1>2, <2>1
    <3> HIDE DEF f
    <3> QED BY <1>1, <2>1, <3>1, <3>2, <3>3
  <2>2. CASE ~problem[y]
    BY <1>1, <1>2, <2>2 DEF TypeOK
  <2> QED BY <2>1, <2>2
<1>5. /\ state' \in [Items -> States]
      /\ state'[y] = shown
      /\ \A z \in Items \ {y} :
           /\ state'[z] = IF problem[y] /\ sources[z] = {y} /\ ~own[z] THEN before[z]
                          ELSE state[z]
           /\ problem[z] => state'[z] = state[z]
  <2>1. StatesWithout(y) = [z \in Items |-> StatesWithout(y)[z]]
    BY DEF StatesWithout
  <2>2. shown \in States
    BY <1>1 DEF shown, TypeOK
  <2>3. CASE problem[y]
    <3>1. \A z \in Items :
            /\ StatesWithout(y)[z] \in States
            /\ StatesWithout(y)[z] =
                 IF sources[z] = {y} /\ ~own[z] THEN before[z] ELSE state[z]
            /\ problem[z] => StatesWithout(y)[z] = state[z]
      BY <1>1, <2>3, ReleaseFacts
    <3> QED BY <1>2, <2>1, <2>2, <2>3, <3>1
  <2>4. CASE ~problem[y]
    <3>1. \A z \in Items : StatesWithout(y)[z] = state[z]
      BY <2>4 DEF StatesWithout
    <3> QED BY <1>1, <1>2, <2>1, <2>2, <2>4, <3>1 DEF TypeOK
  <2> QED BY <2>3, <2>4
<1>6. TypeOK'
  BY <1>1, <1>2, <1>3, <1>4, <1>5 DEF TypeOK
<1>7. Idle' /\ Below'
  <2>1. DOMAIN stack' = 1..(Len(stack) + 1) /\ DOMAIN stack = 1..Len(stack)
        /\ Len(stack) \in Nat /\ Top = stack[Len(stack)]
    BY <1>1, <1>3, StackFacts
  <2>2. \A k \in 1..Len(stack) : stack'[k] \subseteq stack[k]
    BY <1>3, <2>1
  <2>3. \A x \in Impacted(y, shown) : Rank[root] < Rank[x]
    <3>1. Rank[root] < Rank[y]
      BY <1>1, StackFacts DEF IInv, Below
    <3>2. \A x \in Impacted(y, shown) : x \in Items /\ Rank[y] < Rank[x]
      BY ImpactedType
    <3> QED BY <1>1, <3>1, <3>2, ItemConstants
  <2>4. ASSUME NEW k \in DOMAIN stack', NEW x \in stack'[k]
        PROVE  Rank[root] < Rank[x]
    <3>1. k \in 1..Len(stack) \/ k = Len(stack) + 1
      BY <2>1
    <3>2. CASE k \in 1..Len(stack)
      BY <1>1, <2>1, <2>2, <2>4, <3>2 DEF IInv, Below
    <3>3. CASE k = Len(stack) + 1
      BY <1>3, <2>3, <2>4, <3>3
    <3> QED BY <3>1, <3>2, <3>3
  <2>5. root' = root /\ problem'[root] /\ root # None
    BY <1>1, <1>2 DEF TypeOK
  <2> QED BY <2>4, <2>5 DEF Idle, Below
<1>V. /\ problem'[y] = FALSE
      /\ own'[y] = (IsImpact(y) /\ own[y])
      /\ before'[y] = IF IsImpact(y) THEN before[y] ELSE state[y]
      /\ impacts'[y] = {}
      /\ problem[y] => (IsImpact(y) => own[y])
      /\ sources'[y] # {}
  BY <1>1, <1>2, <1>4 DEF IInv, TypeOK, ProblemsAreReal
<1>W. ASSUME NEW z \in Items, z # y
      PROVE  /\ problem'[z] = problem[z] /\ own'[z] = own[z]
             /\ before'[z] = before[z] /\ impacts'[z] = impacts[z]
             /\ sources'[z] = IF problem[y] THEN sources[z] \ {y} ELSE sources[z]
             /\ state'[z] = IF problem[y] /\ sources[z] = {y} /\ ~own[z]
                            THEN before[z] ELSE state[z]
  BY <1>1, <1>2, <1>4, <1>5, <1>W DEF TypeOK
<1>8. Links'
  <2> SUFFICES ASSUME NEW p \in Items, NEW z \in Items
               PROVE  p \in sources'[z] <=> z \in impacts'[p] \/ (p = root /\ z \in found \cup {y})
    BY <1>2 DEF Links
  <2>1. p \in sources[z] <=> z \in impacts[p] \/ (p = root /\ z \in found)
    BY DEF IInv, Links
  <2>2. ~problem[y] => impacts[y] = {}
    BY DEF IInv, ProblemsAreReal
  <2>3. CASE p = y
    BY <1>1, <1>4, <1>V, <2>1, <2>2, <2>3
  <2>4. CASE p # y
    BY <1>1, <1>4, <1>W, <2>1, <2>4
  <2> QED BY <2>3, <2>4
<1>9. Told'
  <2> SUFFICES ASSUME NEW p \in Items, problem'[p], NEW z \in DependOfMe(p)
               PROVE  p \in sources'[z] \/ (p = root' /\ stack' # <<>> /\ z \in stack'[1])
    BY DEF Told, DependOfMe
  <2>1. p # y /\ problem[p] /\ z \in Items
    BY <1>1, <1>2 DEF DependOfMe, TypeOK
  <2>2. CASE p \in sources[z]
    BY <1>4, <2>1, <2>2
  <2>3. CASE p = root /\ z \in stack[1]
    <3>1. 1 \in 1..Len(stack) /\ Top = stack[Len(stack)]
      BY <1>1, StackFacts
    <3>2. z = y \/ z \in stack'[1]
      BY <1>3, <2>3, <3>1
    <3>3. root \in sources'[y]
      BY <1>4
    <3> QED BY <1>2, <1>3, <2>3, <3>2, <3>3
  <2> QED BY <2>1, <2>2, <2>3 DEF IInv, Told
<1>10. ProblemsAreReal'
  <2> SUFFICES ASSUME NEW p \in Items
               PROVE  /\ problem'[p] => /\ kind'[p] = "HARD" /\ state'[p] # "ok"
                                        /\ sources'[p] # {} => own'[p]
                      /\ impacts'[p] # {} => problem'[p]
    BY DEF ProblemsAreReal, IsImpact
  <2>1. CASE p = y
    BY <1>V, <2>1
  <2>2. CASE p # y
    <3>1. /\ problem[p] => kind[p] = "HARD" /\ state[p] # "ok" /\ (sources[p] # {} => own[p])
          /\ impacts[p] # {} => problem[p]
      BY DEF IInv, ProblemsAreReal, IsImpact
    <3>2. problem[p] => state'[p] = state[p]
      BY <1>5, <2>2
    <3>3. sources'[p] # {} => sources[p] # {}
      BY <1>W, <2>2
    <3>4. problem'[p] = problem[p] /\ own'[p] = own[p] /\ impacts'[p] = impacts[p]
      BY <1>W, <2>2
    <3> QED BY <1>2, <3>1, <3>2, <3>3, <3>4
  <2> QED BY <2>1, <2>2
<1>11. Aside'
  <2> SUFFICES ASSUME NEW z \in Items, sources'[z] # {}, ~own'[z]
               PROVE  state'[z] = "unreachable" /\ before'[z] \in States
    BY DEF Aside, IsImpact
  <2>1. sources[z] # {} /\ ~own[z] => state[z] = "unreachable" /\ before[z] \in States
    BY DEF IInv, Aside, IsImpact
  <2>2. CASE z = y
    <3>1. CASE IsImpact(y)
      BY <1>5, <1>V, <2>1, <2>2, <3>1 DEF IsImpact, shown
    <3>2. CASE ~IsImpact(y)
      BY <1>1, <1>5, <1>V, <2>2, <3>2 DEF shown, TypeOK
    <3> QED BY <3>1, <3>2
  <2>3. CASE z # y
    BY <1>W, <2>1, <2>3
  <2> QED BY <2>2, <2>3
<1>12. ASSUME NEW z \in Items PROVE LastState(z)' = LastState(z)
  <2>1. CASE z = y
    <3>1. CASE IsImpact(y)
      BY <1>5, <1>V, <2>1, <3>1 DEF IsImpact, LastState, shown
    <3>2. CASE ~IsImpact(y)
      BY <1>5, <1>V, <2>1, <3>2 DEF IsImpact, LastState, shown
    <3> QED BY <3>1, <3>2
  <2>2. CASE z # y
    BY <1>W, <2>2, ZenonT(40) DEF LastState, IsImpact
  <2> QED BY <2>1, <2>2
<1>13. Counted'
  BY <1>2, <1>12 DEF IInv, Counted
<1> QED BY <1>6, <1>7, <1>8, <1>9, <1>10, <1>11, <1>13 DEF IInv
-----------------------------------------------------------------------------
(* Consuming a result *)

\* A problem's last state is its own failing state.
LEMMA ProblemFails ==
  ASSUME IInv, NEW i \in Items, problem[i]
  PROVE  LastState(i) # "ok" /\ kind[i] = "HARD"
  BY DEF IInv, ProblemsAreReal, LastState

\* What an OK result changes, and what it leaves of the other items.
LEMMA NewStateFacts ==
  ASSUME TypeOK, NEW i \in Items, NEW n \in Nat, NEW k \in {"SOFT", "HARD"},
         n <= MaxAttempts[i], NewState(i, "ok"), NewStateType(i, n, k)
  PROVE  /\ own' \in [Items -> BOOLEAN] /\ own'[i] = TRUE
         /\ before' = before
         /\ fails' \in [Items -> Nat] /\ fails'[i] = 0
         /\ attempt' \in [Items -> Nat] /\ kind' \in [Items -> {"SOFT", "HARD"}]
         /\ \A z \in Items : attempt'[z] <= MaxAttempts[z]
         /\ \A z \in Items \ {i} : /\ own'[z] = own[z] /\ fails'[z] = fails[z]
                                   /\ attempt'[z] = attempt[z] /\ kind'[z] = kind[z]
<1>1. own' \in [Items -> BOOLEAN] /\ own'[i] = TRUE
      /\ \A z \in Items \ {i} : own'[z] = own[z]
  BY DEF TypeOK, NewState
<1>2. /\ before' = before
      /\ fails' \in [Items -> Nat] /\ fails'[i] = 0
      /\ \A z \in Items \ {i} : fails'[z] = fails[z]
  BY ItemConstants DEF TypeOK, NewState
<1>3. /\ attempt' \in [Items -> Nat] /\ kind' \in [Items -> {"SOFT", "HARD"}]
      /\ \A z \in Items : attempt'[z] <= MaxAttempts[z]
      /\ \A z \in Items \ {i} : attempt'[z] = attempt[z] /\ kind'[z] = kind[z]
  BY DEF TypeOK, NewStateType
<1> QED BY <1>1, <1>2, <1>3

\* An OK result of an item whose own state was OK.
LEMMA StaysOkStep ==
  ASSUME IInv, NEW i \in Items, StaysOk(i)
  PROVE  IInv'
<1>0. TypeOK /\ root = None /\ None \notin Items /\ LastState(i) = "ok" /\ ~problem[i]
  BY ProblemFails, ItemConstants DEF IInv, StaysOk
<1>1. /\ state' = [state EXCEPT ![i] = "ok"] /\ problem' = problem
      /\ impacts' = impacts /\ sources' = sources /\ root' = root
      /\ stack' = stack /\ found' = found /\ restarts' = restarts
  BY DEF StaysOk, linkVars, callVars
<1>2. PICK n \in Nat, k \in {"SOFT", "HARD"} :
        n <= MaxAttempts[i] /\ NewState(i, "ok") /\ NewStateType(i, n, k)
  BY <1>0, ItemConstants DEF StaysOk, TypeOK
<1>3. /\ own' \in [Items -> BOOLEAN] /\ own'[i] = TRUE
      /\ before' = before /\ fails' \in [Items -> Nat] /\ fails'[i] = 0
      /\ attempt' \in [Items -> Nat] /\ kind' \in [Items -> {"SOFT", "HARD"}]
      /\ \A z \in Items : attempt'[z] <= MaxAttempts[z]
      /\ \A z \in Items \ {i} : /\ own'[z] = own[z] /\ fails'[z] = fails[z]
                                /\ attempt'[z] = attempt[z] /\ kind'[z] = kind[z]
  BY <1>0, <1>2, NewStateFacts
<1>4. TypeOK'
  BY <1>0, <1>1, <1>3 DEF TypeOK
<1>5. Idle' /\ Below' /\ Links'
  BY <1>0, <1>1 DEF IInv, Idle, Below, Links
<1>6. Told'
  BY <1>0, <1>1 DEF IInv, Told, DependOfMe
<1>7. state'[i] = "ok" /\ \A z \in Items \ {i} : state'[z] = state[z]
  BY <1>0, <1>1 DEF TypeOK
<1>8. ProblemsAreReal'
  BY <1>0, <1>1, <1>3, <1>7 DEF IInv, ProblemsAreReal, IsImpact
<1>9. Aside'
  BY <1>1, <1>3, <1>7 DEF IInv, Aside, IsImpact
<1>10. LastState(i)' = "ok" /\ \A z \in Items \ {i} : LastState(z)' = LastState(z)
  BY <1>1, <1>3, <1>7 DEF LastState, IsImpact
<1>11. Counted'
  BY <1>1, <1>3, <1>10 DEF IInv, Counted
<1> QED BY <1>4, <1>5, <1>6, <1>8, <1>9, <1>11 DEF IInv

\* An OK result of a failing item, which releases its impacts.
LEMMA RecoversStep ==
  ASSUME IInv, NEW i \in Items, Recovers(i)
  PROVE  IInv'
<1>0. TypeOK /\ root = None /\ None \notin Items /\ i # root
  BY ItemConstants DEF IInv, Recovers
<1>1. /\ NewState(i, "ok") /\ NewStateType(i, 1, "HARD") /\ 1 <= MaxAttempts[i]
      /\ root' = root /\ stack' = stack /\ found' = found /\ restarts' = restarts
  BY ItemConstants DEF Recovers, callVars
<1>2. /\ own' \in [Items -> BOOLEAN] /\ own'[i] = TRUE
      /\ before' = before /\ fails' \in [Items -> Nat] /\ fails'[i] = 0
      /\ attempt' \in [Items -> Nat] /\ kind' \in [Items -> {"SOFT", "HARD"}]
      /\ \A z \in Items : attempt'[z] <= MaxAttempts[z]
      /\ \A z \in Items \ {i} : /\ own'[z] = own[z] /\ fails'[z] = fails[z]
                                /\ attempt'[z] = attempt[z] /\ kind'[z] = kind[z]
  BY <1>0, <1>1, NewStateFacts
\* Whether it was a problem or not, afterwards it is none and impacts nothing.
<1>3. /\ problem' \in [Items -> BOOLEAN] /\ problem'[i] = FALSE
      /\ \A z \in Items \ {i} : problem'[z] = problem[z]
      /\ impacts' \in [Items -> SUBSET Items] /\ impacts'[i] = {}
      /\ \A z \in Items \ {i} : impacts'[z] = impacts[z]
      /\ sources' \in [Items -> SUBSET Items]
      /\ \A z \in Items : sources'[z] = sources[z] \ {i}
      /\ state' \in [Items -> States] /\ state'[i] = "ok"
      /\ \A z \in Items \ {i} :
           /\ state'[z] = IF sources[z] = {i} /\ ~own[z] THEN before[z] ELSE state[z]
           /\ problem[z] => state'[z] = state[z]
  <2>1. CASE problem[i]
    <3>1. kind[i] = "HARD"
      BY <2>1, ProblemFails
    <3>2. /\ state' = [StatesWithout(i) EXCEPT ![i] = "ok"]
          /\ problem' = [problem EXCEPT ![i] = FALSE]
          /\ sources' = SourcesWithout(i) /\ impacts' = [impacts EXCEPT ![i] = {}]
      BY <2>1, <3>1 DEF Recovers, ImpactsWithout
    <3>3. \A z \in Items :
            /\ SourcesWithout(i)[z] = sources[z] \ {i}
            /\ StatesWithout(i)[z] \in States
            /\ StatesWithout(i)[z] =
                 IF sources[z] = {i} /\ ~own[z] THEN before[z] ELSE state[z]
            /\ problem[z] => StatesWithout(i)[z] = state[z]
      BY <1>0, <2>1, ReleaseFacts
    <3>4. SourcesWithout(i) \in [Items -> SUBSET Items]
      BY <1>0 DEF SourcesWithout, TypeOK
    <3>5. StatesWithout(i) = [z \in Items |-> StatesWithout(i)[z]]
      BY DEF StatesWithout
    <3>6. state' \in [Items -> States] /\ state'[i] = "ok"
          /\ \A z \in Items \ {i} : state'[z] = StatesWithout(i)[z]
      BY <3>2, <3>3, <3>5
    <3>7. /\ problem' \in [Items -> BOOLEAN] /\ problem'[i] = FALSE
          /\ \A z \in Items \ {i} : problem'[z] = problem[z]
      BY <1>0, <3>2 DEF TypeOK
    <3>8. /\ impacts' \in [Items -> SUBSET Items] /\ impacts'[i] = {}
          /\ \A z \in Items \ {i} : impacts'[z] = impacts[z]
      BY <1>0, <3>2 DEF TypeOK
    <3> QED BY <3>2, <3>3, <3>4, <3>6, <3>7, <3>8
  <2>2. CASE ~problem[i]
    <3>1. state' = [state EXCEPT ![i] = "ok"] /\ problem' = problem
          /\ impacts' = impacts /\ sources' = sources
      BY <2>2 DEF Recovers, linkVars
    <3>2. impacts[i] = {}
      BY <2>2 DEF IInv, ProblemsAreReal
    <3>3. \A z \in Items : i \notin sources[z]
      BY <1>0, <3>2 DEF IInv, Links
    <3> QED BY <1>0, <2>2, <3>1, <3>2, <3>3 DEF TypeOK
  <2> QED BY <2>1, <2>2
<1>4. TypeOK'
  BY <1>0, <1>1, <1>2, <1>3 DEF TypeOK
<1>5. Idle' /\ Below'
  BY <1>0, <1>1 DEF IInv, Idle, Below
<1>6. Links'
  BY <1>0, <1>1, <1>3 DEF IInv, Links
<1>7. Told'
  BY <1>0, <1>1, <1>3 DEF IInv, Told, DependOfMe
<1>8. ProblemsAreReal'
  BY <1>2, <1>3 DEF IInv, ProblemsAreReal, IsImpact
<1>9. Aside'
  BY <1>2, <1>3 DEF IInv, Aside, IsImpact
<1>10. LastState(i)' = "ok" /\ \A z \in Items \ {i} : LastState(z)' = LastState(z)
  BY <1>2, <1>3, SMTT(30) DEF LastState, IsImpact
<1>11. Counted'
  BY <1>1, <1>2, <1>10 DEF IInv, Counted
<1> QED BY <1>4, <1>5, <1>6, <1>7, <1>8, <1>9, <1>11 DEF IInv

\* A failing result: n and k are the attempt and the state type it leads to.
LEMMA FailsStep ==
  ASSUME IInv, NEW i \in Items, NEW s \in States \ {"ok"},
         NEW n \in Nat, NEW k \in {"SOFT", "HARD"}, n <= MaxAttempts[i],
         root = None, Fails(i, s, n, k),
         problem[i] => k = "HARD",
         restarts = 0 /\ i \notin Volatile =>
           LET f == IF fails[i] < MaxAttempts[i] THEN fails[i] + 1 ELSE fails[i]
           IN n <= f /\ (k = "HARD" => f >= MaxAttempts[i])
  PROVE  IInv'
<1> DEFINE u == Failure(i, s)
<1>0. TypeOK /\ None \notin Items /\ stack = <<>> /\ found = {} /\ u \in States \ {"ok"}
  BY ItemConstants DEF IInv, Idle, Failure
<1>1. /\ NewState(i, s) /\ NewStateType(i, n, k) /\ restarts' = restarts
      /\ state' = [state EXCEPT ![i] = u]
  BY DEF Fails
<1>2. /\ own' \in [Items -> BOOLEAN] /\ own'[i] = TRUE
      /\ before' = before /\ fails' \in [Items -> Nat]
      /\ fails'[i] = IF fails[i] < MaxAttempts[i] THEN fails[i] + 1 ELSE fails[i]
      /\ attempt' \in [Items -> Nat] /\ kind' \in [Items -> {"SOFT", "HARD"}]
      /\ attempt'[i] = n /\ kind'[i] = k
      /\ \A z \in Items : attempt'[z] <= MaxAttempts[z]
      /\ \A z \in Items \ {i} : /\ own'[z] = own[z] /\ fails'[z] = fails[z]
                                /\ attempt'[z] = attempt[z] /\ kind'[z] = kind[z]
  <2>1. s # "ok"
    OBVIOUS
  <2>2. /\ own' \in [Items -> BOOLEAN] /\ own'[i] = TRUE
        /\ \A z \in Items \ {i} : own'[z] = own[z]
    BY <1>0, <1>1 DEF TypeOK, NewState
  <2>3. /\ before' = before /\ fails' \in [Items -> Nat]
        /\ fails'[i] = IF fails[i] < MaxAttempts[i] THEN fails[i] + 1 ELSE fails[i]
        /\ \A z \in Items \ {i} : fails'[z] = fails[z]
    BY <1>0, <1>1, <2>1, ItemConstants DEF TypeOK, NewState
  <2>4. /\ attempt' \in [Items -> Nat] /\ kind' \in [Items -> {"SOFT", "HARD"}]
        /\ attempt'[i] = n /\ kind'[i] = k
        /\ \A z \in Items : attempt'[z] <= MaxAttempts[z]
        /\ \A z \in Items \ {i} : attempt'[z] = attempt[z] /\ kind'[z] = kind[z]
    BY <1>0, <1>1 DEF TypeOK, NewStateType
  <2> QED BY <2>2, <2>3, <2>4
<1>3. /\ state' \in [Items -> States] /\ state'[i] # "ok"
      /\ \A z \in Items \ {i} : state'[z] = state[z]
  BY <1>0, <1>1 DEF TypeOK
<1>4. impacts' = impacts /\ sources' = sources
  BY DEF Fails, SetMyselfAsProblem, linkVars
<1>5. \/ problem' = problem /\ root' = root /\ stack' = stack /\ found' = found
      \/ /\ k = "HARD" /\ problem' = [problem EXCEPT ![i] = TRUE]
         /\ root' = i /\ stack' = <<Impacted(i, u)>> /\ found' = {}
  BY DEF Fails, SetMyselfAsProblem, linkVars, callVars
<1> HIDE DEF u
<1>6. Aside'
  BY <1>2, <1>3, <1>4 DEF IInv, Aside, IsImpact
<1>7. LastState(i)' # "ok" /\ \A z \in Items \ {i} : LastState(z)' = LastState(z)
  BY <1>2, <1>3, <1>4 DEF LastState, IsImpact
<1>8. Counted'
  <2>1. fails'[i] # 0
    BY <1>0, <1>2, ItemConstants DEF TypeOK
  <2>2. restarts = 0 /\ i \notin Volatile =>
          n <= fails'[i] /\ (k = "HARD" => fails'[i] >= MaxAttempts[i])
    BY <1>2
  <2> SUFFICES ASSUME restarts = 0, NEW z \in Items
               PROVE  /\ LastState(z)' = "ok" <=> fails'[z] = 0
                      /\ LastState(z)' # "ok" /\ z \notin Volatile =>
                           /\ attempt'[z] <= fails'[z]
                           /\ kind'[z] = "HARD" => fails'[z] >= MaxAttempts[z]
    BY <1>1 DEF Counted
  <2>3. CASE z = i
    BY <1>2, <1>7, <2>1, <2>2, <2>3
  <2>4. CASE z # i
    BY <1>2, <1>7, <2>4 DEF IInv, Counted
  <2> QED BY <2>3, <2>4
<1>9. CASE problem' = problem /\ root' = root /\ stack' = stack /\ found' = found
  <2>1. TypeOK'
    BY <1>0, <1>1, <1>2, <1>3, <1>4, <1>9 DEF TypeOK
  <2>2. Idle' /\ Below' /\ Links'
    BY <1>4, <1>9 DEF IInv, Idle, Below, Links
  <2>3. Told'
    BY <1>4, <1>9 DEF IInv, Told, DependOfMe
  <2>4. ProblemsAreReal'
    BY <1>2, <1>3, <1>4, <1>9 DEF IInv, ProblemsAreReal, IsImpact
  <2> QED BY <1>6, <1>8, <2>1, <2>2, <2>3, <2>4 DEF IInv
<1>10. CASE /\ k = "HARD" /\ problem' = [problem EXCEPT ![i] = TRUE]
            /\ root' = i /\ stack' = <<Impacted(i, u)>> /\ found' = {}
  <2>1. PICK D \in SUBSET Items : /\ D = Impacted(i, u) /\ D = DependOfMe(i)
                                  /\ \A y \in D : Rank[i] < Rank[y]
    BY <1>0, ImpactedType
  <2>2. /\ stack' \in Seq(SUBSET Items) /\ DOMAIN stack' = {1} /\ stack' # <<>>
        /\ stack'[1] = D
    BY <1>10, <2>1
  <2>3. /\ problem' \in [Items -> BOOLEAN] /\ problem'[i] = TRUE
        /\ \A z \in Items \ {i} : problem'[z] = problem[z]
    BY <1>0, <1>10 DEF TypeOK
  <2>4. TypeOK'
    BY <1>0, <1>1, <1>2, <1>3, <1>4, <1>10, <2>2, <2>3 DEF TypeOK
  <2>5. Idle' /\ Below'
    BY <1>0, <1>10, <2>1, <2>2, <2>3 DEF Idle, Below
  <2>6. Links'
    BY <1>0, <1>4, <1>10 DEF IInv, Links
  <2>7. Told'
    <3> SUFFICES ASSUME NEW p \in Items, problem'[p], NEW y \in DependOfMe(p)
                 PROVE  p \in sources'[y] \/ (p = root' /\ stack' # <<>> /\ y \in stack'[1])
      BY DEF Told, DependOfMe
    <3>1. CASE p = i
      BY <1>10, <2>1, <2>2, <3>1
    <3>2. CASE p # i
      BY <1>0, <1>4, <2>3, <3>2 DEF IInv, Told
    <3> QED BY <3>1, <3>2
  <2>8. ProblemsAreReal'
    BY <1>2, <1>3, <1>4, <1>10, <2>3 DEF IInv, ProblemsAreReal, IsImpact
  <2> QED BY <1>6, <1>8, <2>4, <2>5, <2>6, <2>7, <2>8 DEF IInv
<1> QED BY <1>5, <1>9, <1>10

\* A failing result of a volatile service.
LEMMA VolatileStep ==
  ASSUME IInv, NEW i \in Items, NEW s \in States \ {"ok"}, FailsVolatile(i, s)
  PROVE  IInv'
<1>1. 1 \in Nat /\ 1 <= MaxAttempts[i]
  BY ItemConstants
<1> QED BY <1>1, FailsStep DEF FailsVolatile

\* The first failing result.
LEMMA StartsFailingStep ==
  ASSUME IInv, NEW i \in Items, NEW s \in States \ {"ok"}, StartsFailing(i, s)
  PROVE  IInv'
<1>1. MaxAttempts[i] \in Nat \ {0} /\ 1 <= MaxAttempts[i]
  BY ItemConstants
<1>2. PICK k \in {"SOFT", "HARD"} : /\ k = IF IsMax(i, 1) THEN "HARD" ELSE "SOFT"
                                    /\ Fails(i, s, 1, k)
  BY DEF StartsFailing
<1>3. root = None /\ ~problem[i]
  BY ProblemFails DEF StartsFailing
<1>4. restarts = 0 => fails[i] = 0
  BY DEF IInv, Counted, StartsFailing
<1>5. k = "HARD" => 1 >= MaxAttempts[i]
  BY <1>2 DEF IsMax
<1>6. restarts = 0 /\ i \notin Volatile =>
        LET f == IF fails[i] < MaxAttempts[i] THEN fails[i] + 1 ELSE fails[i]
        IN 1 <= f /\ (k = "HARD" => f >= MaxAttempts[i])
  BY <1>1, <1>4, <1>5
<1> QED BY <1>1, <1>2, <1>3, <1>6, FailsStep

\* Another failing result, in a SOFT or in a HARD state.
LEMMA StillFailingStep ==
  ASSUME IInv, NEW i \in Items, NEW s \in States \ {"ok"}, NEW dependent \in BOOLEAN,
         StillFailing(i, s, dependent)
  PROVE  IInv'
<1>0. /\ root = None /\ i \notin Volatile
      /\ attempt[i] \in Nat /\ fails[i] \in Nat /\ MaxAttempts[i] \in Nat \ {0}
      /\ attempt[i] <= MaxAttempts[i]
  BY ItemConstants DEF StillFailing, IInv, TypeOK
<1>1. restarts = 0 => /\ attempt[i] <= fails[i]
                      /\ kind[i] = "HARD" => fails[i] >= MaxAttempts[i]
  BY DEF IInv, Counted, StillFailing
<1>2. CASE kind[i] = "SOFT"
  <2>1. PICK n \in Nat : n = AddAttempt(i, dependent)
    BY <1>0 DEF AddAttempt
  <2>2. n <= MaxAttempts[i] /\ n <= attempt[i] + 1 /\ (n = attempt[i] \/ attempt[i] < MaxAttempts[i])
    BY <1>0, <2>1 DEF AddAttempt, IsMax
  <2>3. PICK k \in {"SOFT", "HARD"} : /\ k = IF IsMax(i, n) THEN "HARD" ELSE "SOFT"
                                      /\ Fails(i, s, n, k)
    BY <1>2, <2>1 DEF StillFailing
  <2>4. ~problem[i]
    BY <1>2, ProblemFails
  <2>5. k = "HARD" => n >= MaxAttempts[i]
    BY <2>3 DEF IsMax
  <2>6. restarts = 0 /\ i \notin Volatile =>
          LET f == IF fails[i] < MaxAttempts[i] THEN fails[i] + 1 ELSE fails[i]
          IN n <= f /\ (k = "HARD" => f >= MaxAttempts[i])
    BY <1>0, <1>1, <2>1, <2>2, <2>5
  <2> QED BY <1>0, <2>1, <2>2, <2>3, <2>4, <2>6, FailsStep
<1>3. CASE kind[i] = "HARD"
  <2>1. Fails(i, s, attempt[i], "HARD")
    BY <1>3 DEF StillFailing
  <2>2. PICK n \in Nat : n = attempt[i]
    BY <1>0
  <2>3. Fails(i, s, n, "HARD") /\ n <= MaxAttempts[i]
    BY <1>0, <2>1, <2>2
  <2>4. restarts = 0 /\ i \notin Volatile =>
          LET f == IF fails[i] < MaxAttempts[i] THEN fails[i] + 1 ELSE fails[i]
          IN n <= f /\ ("HARD" = "HARD" => f >= MaxAttempts[i])
    BY <1>0, <1>1, <1>3, <2>2
  <2> QED BY <1>0, <2>2, <2>3, <2>4, FailsStep
<1> QED BY <1>2, <1>3 DEF IInv, TypeOK

-----------------------------------------------------------------------------
(* The inductive invariant *)

\* A configuration that has just been loaded.
LEMMA InitSafe == Init => IInv
  BY ItemConstants DEF Init, IInv, TypeOK, Idle, Below, Links, Told, ProblemsAreReal,
     Aside, Counted, IsImpact, LastState

\* A restart forgets the hierarchy on both sides.
LEMMA RestartStep ==
  ASSUME IInv, Restart
  PROVE  IInv'
<1> USE DEF Restart, callVars
<1>1. TypeOK'
  BY ItemConstants DEF IInv, TypeOK
<1>2. Idle' /\ Below' /\ Links' /\ Told'
  BY ItemConstants DEF IInv, Idle, Below, Links, Told
<1>3. ProblemsAreReal' /\ Aside'
  BY DEF ProblemsAreReal, Aside, IsImpact
<1>4. Counted'
  BY DEF IInv, TypeOK, Counted
<1> QED BY <1>1, <1>2, <1>3, <1>4 DEF IInv

\* Every step keeps the inductive invariant.
LEMMA StepSafe == IInv /\ [Next]_vars => IInv'
<1> SUFFICES ASSUME IInv, [Next]_vars
             PROVE  IInv'
  OBVIOUS
<1>1. ASSUME NEW i \in Items, ConsumeResult(i)
      PROVE  IInv'
  <2>1. CASE StaysOk(i)
    BY <2>1, StaysOkStep
  <2>2. CASE Recovers(i)
    BY <2>2, RecoversStep
  <2>3. ASSUME NEW s \in States \ {"ok"}, FailsVolatile(i, s)
        PROVE  IInv'
    BY <2>3, VolatileStep
  <2>4. ASSUME NEW s \in States \ {"ok"}, StartsFailing(i, s)
        PROVE  IInv'
    BY <2>4, StartsFailingStep
  <2>5. ASSUME NEW s \in States \ {"ok"}, NEW dependent \in BOOLEAN,
               StillFailing(i, s, dependent)
        PROVE  IInv'
    BY <2>5, StillFailingStep
  <2> QED BY <1>1, <2>1, <2>2, <2>3, <2>4, <2>5 DEF ConsumeResult
<1>2. ASSUME NEW y \in Items, RegisterKnown(y) \/ Register(y)
      PROVE  IInv'
  BY <1>2, KnownStep, RegisterStep
<1>3. CASE Return
  BY <1>3, ReturnStep
<1>4. CASE SetImpacts
  BY <1>4, SetImpactsStep
<1>5. CASE Restart
  BY <1>5, RestartStep
<1>6. CASE UNCHANGED vars
  BY <1>6 DEF vars, itemVars, linkVars, callVars, IInv, TypeOK, Idle, Below, Links, Told,
     ProblemsAreReal, Aside, Counted, IsImpact, LastState, DependOfMe
<1> QED BY <1>1, <1>2, <1>3, <1>4, <1>5, <1>6 DEF Next

\* For every set of items, every acyclic dependency relation and every number of
\* attempts, every reachable state satisfies the inductive invariant.
THEOREM ItemsSafe == Spec => []IInv
  BY InitSafe, StepSafe, PTL DEF Spec

\* unregister_a_problem always finds the problem it removes, and nothing stays
\* an impact of an item that is no problem.
THEOREM LinksAgree == Spec => []ImpactsLinked
<1>1. IInv => ImpactsLinked
  BY ItemConstants DEF IInv, Links, ImpactsLinked
<1> QED BY <1>1, ItemsSafe, PTL

\* Only failing items in a HARD state are problems or have impacts.
THEOREM ProblemsReal == Spec => []ProblemsAreReal
<1>1. IInv => ProblemsAreReal
  BY DEF IInv
<1> QED BY <1>1, ItemsSafe, PTL

\* Once set_myself_as_problem is over, every direct dependent knows the problem.
THEOREM DependentsTold == Spec => []DependentsKnow
<1>1. IInv => DependentsKnow
  BY ItemConstants DEF IInv, Told, DependentsKnow
<1> QED BY <1>1, ItemsSafe, PTL

\* An item shown UNREACHABLE for others' problems gets its own state back.
THEOREM OwnStateSafe == Spec => []OwnStateKept
<1>1. IInv => OwnStateKept
  BY DEF IInv, Counted, Aside, LastState, OwnStateKept
<1> QED BY <1>1, ItemsSafe, PTL

\* Impacts and dependencies never make an item HARD before its attempts are used.
THEOREM HardSafe == Spec => []HardAfterMaxAttempts
<1>1. IInv => HardAfterMaxAttempts
  BY DEF IInv, Counted, HardAfterMaxAttempts
<1> QED BY <1>1, ItemsSafe, PTL
=============================================================================
