--------------------------- MODULE DeliveryQueue ---------------------------
(***************************************************************************)
(* What a Product promises about the delivery of its Features: confirmed   *)
(* Features wait in the order of their confirmation, one of them is        *)
(* delivered at a time, and each is installed at most once.                *)
(***************************************************************************)
EXTENDS Sequences

CONSTANT Features

VARIABLES
    waiting,      \* confirmed Features, in the order confirmed
    delivering,   \* the Feature in delivery: a sequence of at most one
    installed     \* installed Features, in the order of their delivery

vars == <<waiting, delivering, installed>>

Known(f) == \E s \in {waiting, delivering, installed} : \E i \in DOMAIN s : s[i] = f

\* A Product starts without confirmed Features, or with those of an older store.
Init ==
    /\ waiting = << >>
    /\ delivering \in {<< >>} \cup {<<f>> : f \in Features}
    /\ installed = << >>

Confirm(f) ==
    /\ ~Known(f)
    /\ waiting' = Append(waiting, f)
    /\ UNCHANGED <<delivering, installed>>

Start ==
    /\ waiting # << >>
    /\ delivering = << >>
    /\ delivering' = <<Head(waiting)>>
    /\ waiting' = Tail(waiting)
    /\ UNCHANGED installed

Install ==
    /\ delivering # << >>
    /\ installed' = installed \o delivering
    /\ delivering' = << >>
    /\ UNCHANGED waiting

Next == (\E f \in Features : Confirm(f)) \/ Start \/ Install

Spec == Init /\ [][Next]_vars
=============================================================================
