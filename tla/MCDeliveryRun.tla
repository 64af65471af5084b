--------------------------- MODULE MCDeliveryRun ---------------------------
(* Small instances of DeliveryRun.  A run has an agent, the system adapters *)
(* and people who between them hold the roles validateDeliveryRunSpec asks  *)
(* for: a team with one role each, or one owner who holds all three.        *)
EXTENDS DeliveryRun, TLC

CONSTANTS agent, adapter, owner, acceptor, approver

Team == {agent, adapter, owner, acceptor, approver}
Solo == {agent, adapter, owner}

KindOf(a) == CASE a = agent -> "agent" [] a = adapter -> "system" [] OTHER -> "human"

TeamKind == [a \in Team |-> KindOf(a)]
SoloKind == [a \in Solo |-> KindOf(a)]

TeamRoles == [a \in Team |-> CASE a = owner    -> {"product_owner"}
                               [] a = acceptor -> {"business_acceptor"}
                               [] a = approver -> {"release_approver"}
                               [] OTHER        -> {}]
SoloRoles == [a \in Solo |-> IF a = owner THEN RoleNames ELSE {}]

SymmetricRevisions == Permutations(Revisions)
=============================================================================
