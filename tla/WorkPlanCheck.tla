---------------------------- MODULE WorkPlanCheck ----------------------------
(***************************************************************************)
(* The cycle check of a work plan (workPlanHasCycle): a depth-first search *)
(* that follows the dependencies of each WorkItem and reports a cycle when *)
(* it meets an item it is still visiting.  The plan comes from an agent    *)
(* and any graph may be in it; the map of items and so the order in which  *)
(* the search enters them has no fixed order.                              *)
(*                                                                         *)
(* path is the stack of calls of visit, outermost first, and pending what  *)
(* each of them has not iterated over yet.  A dependency listed twice is   *)
(* entered once: the second time it is visited already.                    *)
(***************************************************************************)
EXTENDS Integers, Sequences, FiniteSets, WorkDependencies

CONSTANT Items    \* identifiers a WorkItem can have

VARIABLES
    dependsOn,    \* the dependencies of each item of the plan; they stay as given
    roots,        \* the items the outer loop has not reached yet
    path,         \* the items of the open calls
    pending,      \* of each open call, the dependencies still to be looked at
    visiting,     \* the items marked as being visited
    visited,      \* the items marked as visited
    verdict       \* what the search returned

vars == <<dependsOn, roots, path, pending, visiting, visited, verdict>>
marks == <<visiting, visited>>

Plans == UNION {[ids -> SUBSET Items] : ids \in SUBSET Items}
Verdicts == {"searching", "cycle", "no_cycle"}
Nothing == [i \in Items |-> {}]
Top == path[Len(path)]

\* Dependencies on the item itself or outside the plan are refused before the check.
Init ==
    /\ dependsOn \in {deps \in Plans : IsPlan(deps)}
    /\ roots = DOMAIN dependsOn
    /\ path = << >>
    /\ pending = Nothing
    /\ visiting = {}
    /\ visited = {}
    /\ verdict = "searching"

\* Mutant: what was once visited counts as a cycle as well.
MutOnPath(i) == i \in visiting \cup visited
OnPath(i) == i \in visiting

\* Mutant: what was visited is searched again for each item that depends on it.
MutSettled(i) == FALSE
Settled(i) == i \in visited

Enter(i, left) ==
    /\ path' = Append(path, i)
    /\ pending' = [left EXCEPT ![i] = dependsOn[i]]
    /\ visiting' = visiting \cup {i}
    /\ UNCHANGED <<visited, verdict>>

\* A call of visit: left is what the open calls still have to look at.
Visit(i, left) ==
    IF OnPath(i)
    THEN verdict' = "cycle" /\ pending' = left /\ UNCHANGED <<path, marks>>
    ELSE IF Settled(i)
    THEN pending' = left /\ UNCHANGED <<path, marks, verdict>>
    ELSE Enter(i, left)

\* Mutant: an item the search has come across already stays to be reached.
MutVisitRoot(i) ==
    /\ verdict = "searching"
    /\ path = << >>
    /\ i \in roots
    /\ roots' = IF Settled(i) THEN roots ELSE roots \ {i}
    /\ Visit(i, pending)
    /\ UNCHANGED dependsOn

VisitRoot(i) ==
    /\ verdict = "searching"
    /\ path = << >>
    /\ i \in roots
    /\ roots' = roots \ {i}
    /\ Visit(i, pending)
    /\ UNCHANGED dependsOn

VisitDependency(d) ==
    /\ verdict = "searching"
    /\ path # << >>
    /\ d \in pending[Top]
    /\ Visit(d, [pending EXCEPT ![Top] = @ \ {d}])
    /\ UNCHANGED <<dependsOn, roots>>

\* Mutant: the item returned from stays marked as being visited.
MutLeave ==
    /\ verdict = "searching"
    /\ path # << >>
    /\ pending[Top] = {}
    /\ path' = SubSeq(path, 1, Len(path) - 1)
    /\ visited' = visited \cup {Top}
    /\ UNCHANGED <<dependsOn, roots, pending, visiting, verdict>>

Leave ==
    /\ verdict = "searching"
    /\ path # << >>
    /\ pending[Top] = {}
    /\ path' = SubSeq(path, 1, Len(path) - 1)
    /\ visiting' = visiting \ {Top}
    /\ visited' = visited \cup {Top}
    /\ UNCHANGED <<dependsOn, roots, pending, verdict>>

Finish ==
    /\ verdict = "searching"
    /\ path = << >>
    /\ roots = {}
    /\ verdict' = "no_cycle"
    /\ UNCHANGED <<dependsOn, roots, path, pending, marks>>

Next ==
    \/ \E i \in Items : VisitRoot(i)
    \/ \E i \in Items : VisitDependency(i)
    \/ Leave
    \/ Finish

Spec == Init /\ [][Next]_vars

\* The search is a function call: it goes on until it returns.
FairSpec == Spec /\ WF_vars(Next)

-----------------------------------------------------------------------------
(* Properties.                                                             *)

TypeOK ==
    /\ dependsOn \in Plans /\ IsPlan(dependsOn)
    /\ roots \subseteq DOMAIN dependsOn
    /\ path \in Seq(DOMAIN dependsOn)
    /\ pending \in [Items -> SUBSET Items]
    /\ visiting \subseteq DOMAIN dependsOn
    /\ visited \subseteq DOMAIN dependsOn
    /\ verdict \in Verdicts

Depth == 1..Len(path)

\* The open calls are the items being visited, each once; each call was made for a
\* dependency of the one before, and every dependency a call has done with is
\* visited, but for the one whose call is still open.
OpenCalls ==
    /\ visiting = {path[k] : k \in Depth}
    /\ \A k, m \in Depth : path[k] = path[m] => k = m
    /\ \A k \in Depth : pending[path[k]] \subseteq dependsOn[path[k]]
    /\ \A k \in Depth : k < Len(path) =>
          /\ path[k + 1] \in dependsOn[path[k]]
          /\ dependsOn[path[k]] \ pending[path[k]] \subseteq visited \cup {path[k + 1]}
    /\ path # << >> => dependsOn[Top] \ pending[Top] \subseteq visited

\* The visited items depend on visited items only, and not on each other in a circle.
VisitedIsSafe ==
    /\ visiting \cap visited = {}
    /\ \A i \in visited : dependsOn[i] \subseteq visited
    /\ \A waiting \in (SUBSET visited) \ {{}} :
          \E i \in waiting : dependsOn[i] \cap waiting = {}

\* The search accounts for every item of the plan.
RootsAreReached ==
    /\ DOMAIN dependsOn \ roots \subseteq visited \cup visiting
    /\ verdict = "no_cycle" => visited = DOMAIN dependsOn

SearchInvariant ==
    /\ TypeOK
    /\ verdict # "cycle" => OpenCalls /\ VisitedIsSafe /\ RootsAreReached
    /\ verdict = "cycle" => ~Acyclic(dependsOn)

\* Whatever order the search takes through whatever graph an agent sends, it reports
\* a cycle exactly when some items of the plan all wait for each other: no plan is
\* accepted that can never be worked off, and none that can be is refused.
VerdictIsRight ==
    /\ verdict = "cycle" => ~Acyclic(dependsOn)
    /\ verdict = "no_cycle" => Acyclic(dependsOn)

\* The dependencies the search has not looked at, by the item that has them.
LooksLeft ==
    {look \in Items \X Items :
        /\ look[1] \in DOMAIN dependsOn \ visited
        /\ look[2] \in dependsOn[look[1]]
        /\ look[1] \in visiting => look[2] \in pending[look[1]]}

\* What the search still has to do: items to reach, dependencies to look at, calls to
\* return from, and a verdict to give.
WorkLeft ==
    ({"reach"} \X roots) \cup
    ({"look"} \X LooksLeft) \cup
    ({"return"} \X (DOMAIN dependsOn \ visited)) \cup
    ({"answer"} \X ({"searching"} \cap {verdict}))

\* Every step of the search settles something for good and opens nothing again: each
\* dependency is looked at once, however many items share it, so the steps of the check
\* are bounded by the items and dependencies of the plan and not by the paths through it.
SearchAdvances == [][WorkLeft' \subseteq WorkLeft /\ WorkLeft' # WorkLeft]_vars

\* The search returns on every graph, the cyclic ones included: the transaction of
\* the command is held meanwhile.
SearchEnds == <>(verdict # "searching")
=============================================================================
