--------------------------- MODULE WorkDependencies ---------------------------
(* What a work plan promises about the dependencies of its WorkItems, which   *)
(* the run relies on and the cycle check of the plan has to establish.  A     *)
(* plan is a function from its items to the items each depends on.            *)

\* Every dependency is another item of the plan.
IsPlan(dependsOn) ==
    \A i \in DOMAIN dependsOn : dependsOn[i] \subseteq DOMAIN dependsOn \ {i}

\* No set of items waits for itself: some item of it depends on none of it.
Acyclic(dependsOn) ==
    \A waiting \in (SUBSET DOMAIN dependsOn) \ {{}} :
        \E i \in waiting : dependsOn[i] \cap waiting = {}
=============================================================================
