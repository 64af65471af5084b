------------------------- MODULE WorkPlanCheckProofs -------------------------
(* Proofs about the cycle check: on every plan, of any number of items, the *)
(* search reports a cycle exactly when there is one.                        *)
EXTENDS WorkPlanCheck, SequenceTheorems, FiniteSetTheorems, TLAPS

LEMMA InitHolds == Init => SearchInvariant
  BY DEF Init, SearchInvariant, TypeOK, OpenCalls, VisitedIsSafe, RootsAreReached,
         Nothing, Verdicts, Plans, Depth

-----------------------------------------------------------------------------
(* A call that enters an item keeps the calls a path of dependencies.       *)

\* What a call of visit starts from: the caller's dependency i is taken off left,
\* and what the open calls have done with is visited but for i itself.
CallOf(i, left) ==
    /\ i \in DOMAIN dependsOn
    /\ left \in [Items -> SUBSET Items]
    /\ \A k \in Depth : left[path[k]] \subseteq dependsOn[path[k]]
    /\ \A k \in Depth : k < Len(path) =>
          dependsOn[path[k]] \ left[path[k]] \subseteq visited \cup {path[k + 1]}
    /\ path # << >> =>
          i \in dependsOn[Top] /\ dependsOn[Top] \ left[Top] \subseteq visited \cup {i}

LEMMA PlanItems ==
  ASSUME TypeOK
  PROVE  /\ DOMAIN dependsOn \subseteq Items
         /\ \A i \in DOMAIN dependsOn : dependsOn[i] \subseteq DOMAIN dependsOn
  BY DEF TypeOK, Plans, IsPlan

LEMMA TopOfPath ==
  ASSUME TypeOK, path # << >>
  PROVE  Len(path) \in Depth /\ Top \in DOMAIN dependsOn
  BY DEF TypeOK, Top, Depth

\* An item met while its call is open closes a cycle: the items from that call to
\* the innermost one each depend on the next, and the innermost on the first.
LEMMA MetAgainIsCycle ==
  ASSUME TypeOK, OpenCalls, path # << >>,
         NEW d \in dependsOn[Top], d \in visiting
  PROVE  ~Acyclic(dependsOn)
<1>1. PICK m \in Depth : path[m] = d
  BY DEF OpenCalls
<1> DEFINE waiting == {path[k] : k \in m..Len(path)}
<1>2. Len(path) \in Nat /\ m \in 1..Len(path)
  BY DEF TypeOK, Depth
<1>3. waiting \in (SUBSET DOMAIN dependsOn) \ {{}}
  BY <1>2 DEF TypeOK
<1>4. ASSUME NEW k \in m..Len(path)
      PROVE  dependsOn[path[k]] \cap waiting # {}
  <2>1. CASE k = Len(path)
    BY <2>1, <1>1, <1>2 DEF Top
  <2>2. CASE k < Len(path)
    <3>1. k \in Depth /\ k + 1 \in m..Len(path)
      BY <2>2, <1>2 DEF Depth
    <3>2. path[k + 1] \in dependsOn[path[k]]
      BY <3>1, <2>2 DEF OpenCalls
    <3> QED
      BY <3>1, <3>2
  <2> QED
    BY <2>1, <2>2, <1>2
<1>5. \A i \in waiting : dependsOn[i] \cap waiting # {}
  BY <1>4
<1> HIDE DEF waiting
<1> QED
  BY <1>3, <1>5 DEF Acyclic

LEMMA EnterKeepsCalls ==
  ASSUME TypeOK, OpenCalls, NEW i, NEW left, CallOf(i, left),
         ~OnPath(i), Enter(i, left), dependsOn' = dependsOn
  PROVE  OpenCalls'
<1> DEFINE n == Len(path)
<1>1. n \in Nat /\ path \in Seq(DOMAIN dependsOn) /\ path' = Append(path, i)
  BY DEF TypeOK, Enter
<1>2. /\ Len(path') = n + 1 /\ path'[n + 1] = i
      /\ \A k \in 1..n : path'[k] = path[k]
      /\ Depth = 1..n /\ Depth' = 1..(n + 1)
      /\ path' # << >> /\ Top' = i
  BY <1>1 DEF CallOf, Depth, Top
<1>3. /\ pending' = [left EXCEPT ![i] = dependsOn[i]]
      /\ visiting' = visiting \cup {i} /\ visited' = visited
      /\ left \in [Items -> SUBSET Items] /\ i \in Items
  BY PlanItems DEF Enter, CallOf
<1>4. \A k \in 1..n : path[k] # i /\ path[k] \in visiting /\ path[k] \in Items
  BY <1>2, PlanItems, <1>1 DEF OpenCalls, OnPath
<1>5. /\ \A k \in 1..n : pending'[path'[k]] = left[path[k]]
      /\ pending'[i] = dependsOn[i]
  BY <1>2, <1>3, <1>4
<1>6. visiting' = {path'[k] : k \in Depth'}
  <2>1. visiting = {path[k] : k \in 1..n}
    BY <1>2 DEF OpenCalls
  <2>2. 1..(n + 1) = (1..n) \cup {n + 1}
    BY <1>1
  <2> QED
    BY <2>1, <2>2, <1>2, <1>3
<1>7. \A k, m \in Depth' : path'[k] = path'[m] => k = m
  <2> SUFFICES ASSUME NEW k \in 1..(n + 1), NEW m \in 1..(n + 1), path'[k] = path'[m]
               PROVE  k = m
    BY <1>2
  <2>1. (k \in 1..n \/ k = n + 1) /\ (m \in 1..n \/ m = n + 1)
    BY <1>1
  <2>2. CASE k \in 1..n /\ m \in 1..n
    BY <2>2, <1>2 DEF OpenCalls
  <2> QED
    BY <2>1, <2>2, <1>2, <1>4
<1>8. \A k \in Depth' : pending'[path'[k]] \subseteq dependsOn'[path'[k]]
  <2> SUFFICES ASSUME NEW k \in 1..(n + 1)
               PROVE  pending'[path'[k]] \subseteq dependsOn[path'[k]]
    BY <1>2
  <2>1. CASE k \in 1..n
    BY <2>1, <1>2, <1>5 DEF CallOf
  <2>2. CASE k = n + 1
    BY <2>2, <1>2, <1>5
  <2> QED
    BY <2>1, <2>2, <1>1
<1>9. ASSUME NEW k \in Depth', k < Len(path')
      PROVE  /\ path'[k + 1] \in dependsOn'[path'[k]]
             /\ dependsOn'[path'[k]] \ pending'[path'[k]] \subseteq visited' \cup {path'[k + 1]}
  <2>1. k \in 1..n
    BY <1>1, <1>2, <1>9
  <2>2. CASE k = n
    <3>1. path # << >> /\ Top = path[n] /\ path'[k] = Top /\ path'[k + 1] = i
      BY <2>1, <2>2, <1>1, <1>2 DEF Top
    <3>2. pending'[path'[k]] = left[Top]
      BY <3>1, <2>1, <1>5, <2>2
    <3> QED
      BY <3>1, <3>2, <1>3 DEF CallOf
  <2>3. CASE k < n
    <3>1. k \in Depth /\ path'[k] = path[k] /\ path'[k + 1] = path[k + 1]
      BY <2>1, <2>3, <1>1, <1>2
    <3>2. pending'[path'[k]] = left[path[k]]
      BY <2>1, <1>5
    <3>3. path[k + 1] \in dependsOn[path[k]]
      BY <3>1, <2>3 DEF OpenCalls
    <3>4. dependsOn[path[k]] \ left[path[k]] \subseteq visited \cup {path[k + 1]}
      BY <3>1, <2>3 DEF CallOf
    <3> QED
      BY <3>1, <3>2, <3>3, <3>4, <1>3
  <2> QED
    BY <2>1, <2>2, <2>3, <1>1
<1>10. dependsOn'[Top'] \ pending'[Top'] \subseteq visited'
  BY <1>2, <1>5
<1> QED
  BY <1>6, <1>7, <1>8, <1>9, <1>10 DEF OpenCalls

LEMMA EnterKeepsVisited ==
  ASSUME VisitedIsSafe, NEW i, NEW left, ~Settled(i), Enter(i, left),
         dependsOn' = dependsOn
  PROVE  VisitedIsSafe'
  BY DEF VisitedIsSafe, Settled, Enter

\* A call of visit, of the outer loop or of an open call.
LEMMA VisitKeeps ==
  ASSUME SearchInvariant, verdict = "searching", NEW i, NEW left, CallOf(i, left),
         Visit(i, left), dependsOn' = dependsOn, roots' \subseteq roots,
         DOMAIN dependsOn \ roots' \subseteq visited \cup visiting \cup {i}
  PROVE  SearchInvariant'
<1> USE DEF CallOf
<1>1. TypeOK /\ OpenCalls /\ VisitedIsSafe /\ RootsAreReached
  BY DEF SearchInvariant
<1>2. CASE OnPath(i)
  <2>1. verdict' = "cycle" /\ pending' = left /\ UNCHANGED <<path, visiting, visited>>
    BY <1>2 DEF Visit, marks
  <2>2. TypeOK'
    BY <1>1, <2>1 DEF TypeOK, Verdicts
  <2>3. path # << >>
    BY <1>1, <1>2 DEF OnPath, OpenCalls, Depth
  <2>4. ~Acyclic(dependsOn)
    BY <1>1, <1>2, <2>3, MetAgainIsCycle DEF OnPath
  <2> QED
    BY <2>1, <2>2, <2>4 DEF SearchInvariant
<1>3. CASE ~OnPath(i) /\ Settled(i)
  <2>1. pending' = left /\ UNCHANGED <<path, visiting, visited, verdict>>
    BY <1>3 DEF Visit, marks
  <2>2. TypeOK'
    BY <1>1, <2>1 DEF TypeOK
  <2>3. OpenCalls'
    <3>1. Depth' = Depth /\ (path # << >> => Top' = Top) /\ i \in visited
      BY <1>3, <2>1 DEF Depth, Top, Settled
    <3>2. \A k \in Depth : k < Len(path) =>
             path[k + 1] \in dependsOn[path[k]]
      BY <1>1 DEF OpenCalls
    <3>3. visiting = {path[k] : k \in Depth}
          /\ \A k, m \in Depth : path[k] = path[m] => k = m
      BY <1>1 DEF OpenCalls
    <3>4. path # << >> => dependsOn[Top] \ left[Top] \subseteq visited
      BY <3>1
    <3>5. /\ path # << >> => (dependsOn[Top] \ pending[Top] \subseteq visited)'
          /\ (visiting = {path[k] : k \in Depth})'
      BY <2>1, <3>1, <3>3, <3>4
    <3> QED
      BY <2>1, <3>1, <3>2, <3>3, <3>5 DEF OpenCalls
  <2>4. VisitedIsSafe' /\ RootsAreReached'
    BY <1>1, <1>3, <2>1 DEF VisitedIsSafe, RootsAreReached, Settled
  <2> QED
    BY <2>1, <2>2, <2>3, <2>4 DEF SearchInvariant
<1>4. CASE ~OnPath(i) /\ ~Settled(i)
  <2>1. Enter(i, left)
    BY <1>4 DEF Visit
  <2>2. TypeOK'
    BY <1>1, <2>1, PlanItems DEF TypeOK, Enter
  <2>3. OpenCalls' /\ VisitedIsSafe'
    BY <1>1, <1>4, <2>1, EnterKeepsCalls, EnterKeepsVisited
  <2>4. RootsAreReached'
    BY <1>1, <2>1 DEF RootsAreReached, Enter
  <2> QED
    BY <2>1, <2>2, <2>3, <2>4 DEF SearchInvariant, Enter
<1> QED
  BY <1>2, <1>3, <1>4

-----------------------------------------------------------------------------
(* A call that has looked at all its dependencies returns.                  *)

LEMMA LeaveKeepsCalls ==
  ASSUME TypeOK, OpenCalls, Leave
  PROVE  OpenCalls' /\ path' \in Seq(DOMAIN dependsOn)
<1> DEFINE n == Len(path)
<1>1. n \in Nat /\ n > 0 /\ path \in Seq(DOMAIN dependsOn) /\ path' = SubSeq(path, 1, n - 1)
  BY DEF TypeOK, Leave
<1>2. /\ path' \in Seq(DOMAIN dependsOn) /\ Len(path') = n - 1
      /\ \A k \in 1..(n - 1) : path'[k] = path[k]
      /\ Depth = 1..n /\ Depth' = 1..(n - 1)
      /\ Top = path[n]
  <2>1. SubSeq(path, 1, n - 1) \in Seq(DOMAIN dependsOn)
    BY <1>1
  <2>2. Len(SubSeq(path, 1, n - 1)) = n - 1
    <3>1. \A k \in 1..(n - 1) : path[k] \in DOMAIN dependsOn
      BY <1>1
    <3>2. Len(SubSeq(path, 1, n - 1)) = IF 1 <= n - 1 THEN (n - 1) - 1 + 1 ELSE 0
      BY <3>1, <1>1, SubSeqProperties
    <3> HIDE DEF n
    <3> QED
      BY <3>2, <1>1
  <2>3. \A k \in 1..(n - 1) : SubSeq(path, 1, n - 1)[k] = path[k]
    BY <1>1
  <2> QED
    BY <2>1, <2>2, <2>3, <1>1 DEF Depth, Top
<1>3. /\ visiting' = visiting \ {Top} /\ visited' = visited \cup {Top}
      /\ UNCHANGED <<dependsOn, pending>>
  BY DEF Leave
<1>4. visiting' = {path'[k] : k \in Depth'}
  <2>1. visiting = {path[k] : k \in 1..n}
    BY <1>2 DEF OpenCalls
  <2>2. 1..n = (1..(n - 1)) \cup {n} /\ n \notin 1..(n - 1)
    BY <1>1
  <2>3. \A k \in 1..(n - 1) : path[k] # Top
    BY <1>1, <1>2 DEF OpenCalls
  <2> QED
    BY <2>1, <2>2, <2>3, <1>2, <1>3
<1>5. /\ \A k, m \in Depth' : path'[k] = path'[m] => k = m
      /\ \A k \in Depth' : pending'[path'[k]] \subseteq dependsOn'[path'[k]]
  <2>1. \A k \in Depth' : k \in Depth /\ path'[k] = path[k]
    BY <1>1, <1>2
  <2> QED
    BY <2>1, <1>3 DEF OpenCalls
<1>6. ASSUME NEW k \in Depth'
      PROVE  /\ path[k + 1] \in dependsOn[path[k]]
             /\ dependsOn[path[k]] \ pending[path[k]] \subseteq visited \cup {path[k + 1]}
  <2>1. k \in Depth /\ k < n
    BY <1>1, <1>2
  <2> QED
    BY <2>1 DEF OpenCalls
<1>7. ASSUME NEW k \in Depth', k < Len(path')
      PROVE  /\ path'[k + 1] \in dependsOn'[path'[k]]
             /\ dependsOn'[path'[k]] \ pending'[path'[k]] \subseteq visited' \cup {path'[k + 1]}
  <2>1. path'[k] = path[k] /\ path'[k + 1] = path[k + 1]
    BY <1>1, <1>2, <1>7
  <2> QED
    BY <2>1, <1>3, <1>6
<1>8. path' # << >> => dependsOn'[Top'] \ pending'[Top'] \subseteq visited'
  <2> SUFFICES ASSUME path' # << >>
               PROVE  dependsOn'[Top'] \ pending'[Top'] \subseteq visited'
    OBVIOUS
  <2>1. n - 1 \in Depth' /\ Top' = path[n - 1] /\ path[(n - 1) + 1] = Top
    BY <1>1, <1>2 DEF Top
  <2> QED
    BY <2>1, <1>3, <1>6
<1> QED
  BY <1>2, <1>4, <1>5, <1>7, <1>8 DEF OpenCalls

\* Items that wait for each other cannot include one that depends on visited items
\* only, unless the others wait for each other already.
LEMMA LeaveKeepsVisited ==
  ASSUME TypeOK, OpenCalls, VisitedIsSafe, Leave
  PROVE  VisitedIsSafe'
<1>1. /\ path # << >> /\ pending[Top] = {}
      /\ visiting' = visiting \ {Top} /\ visited' = visited \cup {Top}
      /\ dependsOn' = dependsOn
  BY DEF Leave
<1>2. dependsOn[Top] \subseteq visited
  BY <1>1 DEF OpenCalls
<1>3. Top \in visiting
  <2>1. Len(path) \in Depth /\ Top = path[Len(path)]
    BY <1>1, TopOfPath DEF Top
  <2>2. visiting = {path[k] : k \in Depth}
    BY DEF OpenCalls
  <2> QED
    BY <2>1, <2>2
<1>4. Top \notin visited /\ visiting' \cap visited' = {}
  BY <1>1, <1>3 DEF VisitedIsSafe
<1>5. \A i \in visited' : dependsOn'[i] \subseteq visited'
  BY <1>1, <1>2 DEF VisitedIsSafe
<1>6. ASSUME NEW waiting \in (SUBSET visited') \ {{}}
      PROVE  \E i \in waiting : dependsOn'[i] \cap waiting = {}
  <2> DEFINE others == waiting \ {Top}
  <2>1. others \subseteq visited
    BY <1>1
  <2>2. CASE others = {}
    BY <2>2, <1>1, <1>2, <1>4
  <2>3. CASE others # {}
    <3>1. PICK i \in others : dependsOn[i] \cap others = {}
      BY <2>1, <2>3 DEF VisitedIsSafe
    <3>2. Top \notin dependsOn[i]
      BY <2>1, <3>1, <1>4 DEF VisitedIsSafe
    <3> QED
      BY <3>1, <3>2, <1>1
  <2> QED
    BY <2>2, <2>3
<1> QED
  BY <1>4, <1>5, <1>6 DEF VisitedIsSafe

-----------------------------------------------------------------------------
(* Every step of the search.                                                *)

LEMMA NextKeeps == SearchInvariant /\ [Next]_vars => SearchInvariant'
<1> SUFFICES ASSUME SearchInvariant, [Next]_vars
             PROVE  SearchInvariant'
  OBVIOUS
<1>1. TypeOK
  BY DEF SearchInvariant
<1>2. ASSUME verdict = "searching"
      PROVE  OpenCalls /\ VisitedIsSafe /\ RootsAreReached
  BY <1>2 DEF SearchInvariant
<1>3. ASSUME NEW i \in Items, VisitRoot(i)
      PROVE  SearchInvariant'
  <2>1. /\ verdict = "searching" /\ path = << >> /\ i \in roots
        /\ roots' = roots \ {i} /\ Visit(i, pending) /\ dependsOn' = dependsOn
    BY <1>3 DEF VisitRoot
  <2>2. CallOf(i, pending)
    BY <2>1, <1>1 DEF CallOf, TypeOK, Depth
  <2>3. DOMAIN dependsOn \ roots' \subseteq visited \cup visiting \cup {i}
    BY <2>1, <1>2 DEF RootsAreReached
  <2> QED
    BY <2>1, <2>2, <2>3, VisitKeeps
<1>4. ASSUME NEW d \in Items, VisitDependency(d)
      PROVE  SearchInvariant'
  <2> DEFINE left == [pending EXCEPT ![Top] = @ \ {d}]
  <2>1. /\ verdict = "searching" /\ path # << >> /\ d \in pending[Top]
        /\ Visit(d, left) /\ UNCHANGED <<dependsOn, roots>>
    BY <1>4 DEF VisitDependency
  <2>2. OpenCalls /\ Top \in DOMAIN dependsOn /\ Top \in Items /\ Len(path) \in Depth
    BY <2>1, <1>1, <1>2, TopOfPath, PlanItems
  <2>3. /\ left \in [Items -> SUBSET Items]
        /\ left[Top] = pending[Top] \ {d}
        /\ \A x \in Items : x # Top => left[x] = pending[x]
    BY <2>2, <1>1 DEF TypeOK
  <2>4. d \in dependsOn[Top] /\ d \in DOMAIN dependsOn
    BY <2>1, <2>2, <1>1, PlanItems DEF OpenCalls, Top
  <2>5. \A k \in Depth : /\ path[k] \in Items
                         /\ k < Len(path) => path[k] # Top
    BY <2>2, <1>1, PlanItems DEF OpenCalls, Top, TypeOK, Depth
  <2>6. \A k \in Depth : left[path[k]] \subseteq dependsOn[path[k]]
    BY <2>2, <2>3, <2>5 DEF OpenCalls
  <2>7. \A k \in Depth : k < Len(path) =>
           dependsOn[path[k]] \ left[path[k]] \subseteq visited \cup {path[k + 1]}
    BY <2>2, <2>3, <2>5 DEF OpenCalls
  <2>8. dependsOn[Top] \ left[Top] \subseteq visited \cup {d}
    BY <2>1, <2>2, <2>3 DEF OpenCalls
  <2> HIDE DEF left
  <2>9. CallOf(d, left)
    BY <2>3, <2>4, <2>6, <2>7, <2>8 DEF CallOf
  <2>10. DOMAIN dependsOn \ roots' \subseteq visited \cup visiting \cup {d}
    BY <2>1, <1>2 DEF RootsAreReached
  <2> QED
    BY <2>1, <2>9, <2>10, VisitKeeps
<1>5. ASSUME Leave
      PROVE  SearchInvariant'
  <2>1. verdict = "searching" /\ path # << >>
    BY <1>5 DEF Leave
  <2>2. Top \in DOMAIN dependsOn
    BY <2>1, <1>1, TopOfPath
  <2>3. OpenCalls' /\ VisitedIsSafe' /\ path' \in Seq(DOMAIN dependsOn)
    BY <2>1, <1>1, <1>2, <1>5, LeaveKeepsCalls, LeaveKeepsVisited
  <2>4. TypeOK'
    BY <2>2, <2>3, <1>1, <1>5 DEF TypeOK, Leave
  <2>5. RootsAreReached'
    BY <2>1, <1>2, <1>5 DEF RootsAreReached, Leave
  <2> QED
    BY <2>1, <2>3, <2>4, <2>5, <1>5 DEF SearchInvariant, Leave
<1>6. ASSUME Finish
      PROVE  SearchInvariant'
  <2>1. /\ verdict = "searching" /\ path = << >> /\ roots = {} /\ verdict' = "no_cycle"
        /\ UNCHANGED <<dependsOn, roots, path, pending, visiting, visited>>
    BY <1>6 DEF Finish, marks
  <2>2. OpenCalls /\ VisitedIsSafe /\ RootsAreReached
    BY <2>1, <1>2
  <2>3. visited = DOMAIN dependsOn
    <3>1. Depth = {}
      BY <2>1 DEF Depth
    <3>2. visiting = {}
      BY <2>2, <3>1 DEF OpenCalls
    <3> QED
      BY <2>1, <2>2, <3>2, <1>1 DEF RootsAreReached, TypeOK
  <2>4. OpenCalls'
    BY <2>1, <2>2 DEF OpenCalls, Depth, Top
  <2>5. VisitedIsSafe' /\ RootsAreReached'
    BY <2>1, <2>2, <2>3 DEF VisitedIsSafe, RootsAreReached
  <2>6. TypeOK'
    BY <2>1, <1>1 DEF TypeOK, Verdicts
  <2> QED
    BY <2>1, <2>4, <2>5, <2>6 DEF SearchInvariant
<1>7. ASSUME UNCHANGED vars
      PROVE  SearchInvariant'
  BY <1>7 DEF vars, SearchInvariant, TypeOK, OpenCalls, VisitedIsSafe, RootsAreReached,
              Depth, Top
<1> QED
  BY <1>3, <1>4, <1>5, <1>6, <1>7 DEF Next

\* At every point of the search the open calls are a path of dependencies, what is
\* visited is closed and free of cycles, and no item of the plan is lost (visit keeps
\* its two marks consistent).
THEOREM SearchHolds == Spec => []SearchInvariant
  BY InitHolds, NextKeeps, PTL DEF Spec

\* For plans of any size and in any order of the search, it reports a cycle exactly
\* when some items of the plan all wait for each other (workPlanHasCycle).
THEOREM VerdictHolds == Spec => []VerdictIsRight
<1>1. SearchInvariant => VerdictIsRight
  BY DEF SearchInvariant, VerdictIsRight, VisitedIsSafe, RootsAreReached, Acyclic
<1> QED
  BY <1>1, SearchHolds, PTL

-----------------------------------------------------------------------------
(* What the search still has to do.                                         *)

\* A piece of the work left is gone and no other has come instead.
Progress == WorkLeft' \subseteq WorkLeft /\ WorkLeft' # WorkLeft

\* It is enough to look at each kind of work.
LEMMA ProgressByKind ==
  ASSUME dependsOn' = dependsOn, roots' \subseteq roots, LooksLeft' \subseteq LooksLeft,
         visited \subseteq visited', verdict = "searching",
         \/ roots' # roots
         \/ LooksLeft' # LooksLeft
         \/ ~(DOMAIN dependsOn \ visited \subseteq DOMAIN dependsOn \ visited')
         \/ verdict' # verdict
  PROVE  Progress
<1>1. WorkLeft' \subseteq WorkLeft
  BY DEF WorkLeft
<1>2. ASSUME NEW i \in roots, i \notin roots' PROVE WorkLeft' # WorkLeft
  <2>1. <<"reach", i>> \in WorkLeft /\ <<"reach", i>> \notin WorkLeft'
    BY <1>2 DEF WorkLeft
  <2> QED BY <2>1
<1>3. ASSUME NEW e \in LooksLeft, e \notin LooksLeft' PROVE WorkLeft' # WorkLeft
  <2>1. <<"look", e>> \in WorkLeft /\ <<"look", e>> \notin WorkLeft'
    BY <1>3 DEF WorkLeft
  <2> QED BY <2>1
<1>4. ASSUME NEW i \in DOMAIN dependsOn \ visited, i \in visited' PROVE WorkLeft' # WorkLeft
  <2>1. <<"return", i>> \in WorkLeft /\ <<"return", i>> \notin WorkLeft'
    BY <1>4 DEF WorkLeft
  <2> QED BY <2>1
<1>5. ASSUME verdict' # verdict PROVE WorkLeft' # WorkLeft
  <2>1. <<"answer", "searching">> \in WorkLeft /\ <<"answer", "searching">> \notin WorkLeft'
    BY <1>5 DEF WorkLeft
  <2> QED BY <2>1
<1> QED BY <1>1, <1>2, <1>3, <1>4, <1>5 DEF Progress

\* A call of visit opens no dependency again: left holds what was pending, or less.
LEMMA VisitOpensNothing ==
  ASSUME TypeOK, NEW i, NEW left, i \in DOMAIN dependsOn, left \in [Items -> SUBSET Items],
         \A x \in Items : left[x] \subseteq pending[x],
         Visit(i, left), dependsOn' = dependsOn
  PROVE  /\ LooksLeft' \subseteq LooksLeft /\ visited' = visited
         /\ visiting \subseteq visiting'
         /\ \A x \in visiting : pending'[x] \subseteq left[x]
<1>1. i \in Items /\ visiting \subseteq Items
  BY PlanItems DEF TypeOK
<1>2. CASE OnPath(i) \/ Settled(i)
  <2>1. pending' = left /\ visiting' = visiting /\ visited' = visited
    BY <1>2 DEF Visit, marks
  <2> QED BY <1>1, <2>1 DEF LooksLeft
<1>3. CASE ~OnPath(i) /\ ~Settled(i)
  <2>1. /\ pending' = [left EXCEPT ![i] = dependsOn[i]] /\ visited' = visited
        /\ visiting' = visiting \cup {i} /\ i \notin visiting /\ i \notin visited
    BY <1>3 DEF Visit, Enter, OnPath, Settled
  <2>2. \A x \in Items : x # i => pending'[x] = left[x]
    BY <2>1
  <2> QED BY <1>1, <2>1, <2>2 DEF LooksLeft
<1> QED BY <1>2, <1>3

LEMMA StepProgresses == ASSUME SearchInvariant, Next PROVE Progress
<1>1. verdict = "searching"
  BY DEF Next, VisitRoot, VisitDependency, Leave, Finish
<1>2. TypeOK /\ OpenCalls /\ VisitedIsSafe
  BY <1>1 DEF SearchInvariant
<1>3. ASSUME NEW i \in Items, VisitRoot(i) PROVE Progress
  <2>1. /\ i \in roots /\ roots' = roots \ {i} /\ Visit(i, pending) /\ dependsOn' = dependsOn
        /\ i \in DOMAIN dependsOn /\ pending \in [Items -> SUBSET Items]
    BY <1>2, <1>3 DEF VisitRoot, TypeOK
  <2>2. LooksLeft' \subseteq LooksLeft /\ visited' = visited
    BY <1>2, <2>1, VisitOpensNothing
  <2> QED BY <1>1, <2>1, <2>2, ProgressByKind
<1>4. ASSUME NEW d \in Items, VisitDependency(d) PROVE Progress
  <2> DEFINE left == [pending EXCEPT ![Top] = @ \ {d}]
  <2>1. /\ path # << >> /\ d \in pending[Top] /\ Visit(d, left)
        /\ dependsOn' = dependsOn /\ roots' = roots
    BY <1>4 DEF VisitDependency
  <2>2. /\ Len(path) \in Depth /\ Top = path[Len(path)] /\ Top \in DOMAIN dependsOn
        /\ Top \in Items
    BY <1>2, <2>1, TopOfPath, PlanItems DEF Top
  <2>3. Top \in visiting /\ d \in dependsOn[Top]
    BY <1>2, <2>1, <2>2 DEF OpenCalls
  <2>4. d \in DOMAIN dependsOn /\ Top \notin visited
    BY <1>2, <2>2, <2>3, PlanItems DEF VisitedIsSafe
  <2>5. /\ left \in [Items -> SUBSET Items] /\ left[Top] = pending[Top] \ {d}
        /\ \A x \in Items : left[x] \subseteq pending[x]
    BY <1>2, <2>2 DEF TypeOK
  <2> HIDE DEF left
  <2>6. /\ LooksLeft' \subseteq LooksLeft /\ visited' = visited
        /\ visiting \subseteq visiting' /\ pending'[Top] \subseteq left[Top]
    BY <1>2, <2>1, <2>3, <2>4, <2>5, VisitOpensNothing
  <2>7. <<Top, d>> \in LooksLeft
    BY <2>1, <2>2, <2>3, <2>4 DEF LooksLeft
  <2>8. <<Top, d>> \notin LooksLeft'
    BY <2>3, <2>5, <2>6 DEF LooksLeft
  <2> QED BY <1>1, <2>1, <2>6, <2>7, <2>8, ProgressByKind
<1>5. CASE Leave
  <2>1. /\ path # << >> /\ pending[Top] = {} /\ visiting' = visiting \ {Top}
        /\ visited' = visited \cup {Top} /\ UNCHANGED <<dependsOn, roots, pending>>
    BY <1>5 DEF Leave
  <2>2. Len(path) \in Depth /\ Top = path[Len(path)] /\ Top \in DOMAIN dependsOn
    BY <1>2, <2>1, TopOfPath DEF Top
  <2>3. Top \in visiting /\ Top \notin visited
    BY <1>2, <2>2 DEF OpenCalls, VisitedIsSafe
  <2>4. LooksLeft' \subseteq LooksLeft
    BY <2>1 DEF LooksLeft
  <2> QED BY <1>1, <2>1, <2>2, <2>3, <2>4, ProgressByKind
<1>6. CASE Finish
  <2>1. verdict' # verdict /\ UNCHANGED <<dependsOn, roots, pending, visiting, visited>>
    BY <1>1, <1>6 DEF Finish, marks
  <2>2. LooksLeft' = LooksLeft
    BY <2>1 DEF LooksLeft
  <2> QED BY <1>1, <2>1, <2>2, ProgressByKind
<1> QED BY <1>3, <1>4, <1>5, <1>6 DEF Next

\* The search of any plan, the cyclic ones included, never looks at a dependency twice and
\* never comes back to an item it returned from (workPlanHasCycle's visited).
THEOREM SearchAdvancing == Spec => SearchAdvances
<1>1. SearchInvariant /\ [Next]_vars => [Progress]_vars
  BY StepProgresses
<1> QED BY <1>1, SearchHolds, PTL DEF Spec, SearchAdvances, Progress

\* What is left is finite, so each step leaves less of it.
LEMMA WorkLeftIsFinite ==
  ASSUME TypeOK, IsFiniteSet(Items) PROVE IsFiniteSet(WorkLeft)
<1>1. ASSUME NEW tag, NEW S, IsFiniteSet(S) PROVE IsFiniteSet({tag} \X S)
  BY <1>1, FS_Singleton, FS_Product
<1>2. DOMAIN dependsOn \subseteq Items /\ roots \subseteq Items
  BY PlanItems DEF TypeOK
<1>3. IsFiniteSet(roots) /\ IsFiniteSet(DOMAIN dependsOn \ visited)
  BY <1>2, FS_Subset
<1>4. IsFiniteSet(LooksLeft)
  <2>1. IsFiniteSet(Items \X Items)
    BY FS_Product
  <2>2. LooksLeft \subseteq Items \X Items
    BY DEF LooksLeft
  <2> QED BY <2>1, <2>2, FS_Subset
<1>5. IsFiniteSet({"searching"} \cap {verdict})
  <2>1. {"searching"} \cap {verdict} \subseteq {"searching"}
    OBVIOUS
  <2> QED BY <2>1, FS_Singleton, FS_Subset
<1>6. /\ IsFiniteSet({"reach"} \X roots) /\ IsFiniteSet({"look"} \X LooksLeft)
      /\ IsFiniteSet({"return"} \X (DOMAIN dependsOn \ visited))
      /\ IsFiniteSet({"answer"} \X ({"searching"} \cap {verdict}))
  BY <1>1, <1>3, <1>4, <1>5
<1> QED BY <1>6, FS_Union DEF WorkLeft

\* In a finite plan every step lowers the number of pieces of work that are left, so the
\* search takes no more steps than there are at first: to reach each item and to return
\* from it, to look at each dependency, and to answer.
THEOREM SearchIsBounded ==
  ASSUME IsFiniteSet(Items)
  PROVE  Spec => [][/\ Cardinality(WorkLeft') \in Nat
                    /\ Cardinality(WorkLeft') < Cardinality(WorkLeft)]_vars
<1>1. ASSUME TypeOK, TypeOK', Progress
      PROVE  /\ Cardinality(WorkLeft') \in Nat
             /\ Cardinality(WorkLeft') < Cardinality(WorkLeft)
  <2>1. IsFiniteSet(WorkLeft)
    BY <1>1, WorkLeftIsFinite
  <2>2. WorkLeft' \subseteq WorkLeft /\ WorkLeft' # WorkLeft
    BY <1>1 DEF Progress
  <2>3. /\ IsFiniteSet(WorkLeft') /\ Cardinality(WorkLeft') <= Cardinality(WorkLeft)
        /\ Cardinality(WorkLeft') = Cardinality(WorkLeft) => WorkLeft' = WorkLeft
    BY <2>1, <2>2, FS_Subset
  <2>4. Cardinality(WorkLeft') \in Nat /\ Cardinality(WorkLeft) \in Nat
    BY <2>1, <2>3, FS_CardinalityType
  <2> QED BY <2>2, <2>3, <2>4
<1>2. SearchInvariant => TypeOK
  BY DEF SearchInvariant
<1> QED BY <1>1, <1>2, SearchHolds, SearchAdvancing, PTL DEF SearchAdvances, Progress
=============================================================================
