------------------------- MODULE MCFeatureDiscovery -------------------------
(* A small instance of FeatureDiscovery.  The workspaces are those of one   *)
(* scenario with one actor, settled or with one or two matters open.        *)
EXTENDS FeatureDiscovery

CONSTANTS r1, r2, a1, s1, v1, v2, d1, o1, o2

Grants(roles) == {[roles |-> roles, scenarios |-> {s1}]}

\* Nothing is open in either of these.
First ==
    [evidence |-> {v1, v2}, questions |-> << >>, conflicts |-> {}, assumptions |-> {},
     decisions |-> Nothing, options |-> {}, missing |-> {},
     scenarios |-> [s \in {s1} |-> {a1}], focus |-> {s1}, mode |-> "establish_baseline",
     roles |-> [r \in {r1} |-> {a1}], admins |-> {r1}, grants |-> Grants({r1})]
Later ==
    [First EXCEPT !.mode = "feature_delta", !.roles = Nothing, !.missing = {"access_model"}]

Asking(w) ==
    [w EXCEPT !.questions = <<[status |-> "answered", score |-> 3],
                              [status |-> "open", score |-> 1],
                              [status |-> "open", score |-> 2],
                              [status |-> "open", score |-> 2]>>]
Answered(w) == [w EXCEPT !.questions = <<[status |-> "answered", score |-> 3]>>]
Conflicting(w, status) ==
    [w EXCEPT !.conflicts = {[status |-> status, evidence |-> <<v1, v2>>]}]
Assuming(w, risk) == [w EXCEPT !.assumptions = {[status |-> "open", risk |-> risk]}]
Deciding(w, status) ==
    [w EXCEPT !.decisions = [d \in {d1} |-> [status |-> status, options |-> {o1, o2}]],
              !.options = {<<d1, o1>>}]

Submitted ==
    {First, Later, Asking(First), Answered(Later),
     Asking(Conflicting(First, "open")), Conflicting(Later, "resolved"),
     Conflicting(Later, "open"),
     Assuming(First, "high"), Assuming(Later, "medium"),
     Asking(Deciding(Later, "open")), Deciding(First, "resolved"), Deciding(First, "open"),
     \* Sections and roles that are missing.
     Asking([First EXCEPT !.missing = {"acceptance"}]),
     Asking([Later EXCEPT !.grants = {}]), [Later EXCEPT !.grants = {}],
     Asking([First EXCEPT !.roles = Nothing, !.admins = {}]),
     [First EXCEPT !.roles = [r \in {r1} |-> {}]],
     \* Roles of other Features, of the definition, or of nobody.
     [Later EXCEPT !.grants = Grants({r2})], [First EXCEPT !.roles = [r \in {r2} |-> {a1}]],
     \* References to what is not there.
     [Deciding(First, "resolved") EXCEPT !.decisions = Nothing],
     [Conflicting(First, "resolved") EXCEPT !.evidence = {v1}],
     Asking([Later EXCEPT !.scenarios = Nothing, !.grants = {}])}
=============================================================================
