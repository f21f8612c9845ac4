--------------------------- MODULE CertifiedChain ---------------------------
(***************************************************************************)
(* What a cluster promises, as one observer sees it: a tree of blocks that *)
(* grows under certified parents, and commits of blocks with a child.  It  *)
(* says nothing of who proposes, votes or collects, and lets two branches  *)
(* be certified; that commits stay on one branch is a further property.    *)
(***************************************************************************)
CONSTANTS
    Blocks,     \* blocks that can be certified
    Genesis     \* certified and committed from the start

VARIABLES
    parent,     \* blocks proposed: block -> its parent
    certified,  \* blocks with a certificate
    committed   \* blocks reported as committed

vars == <<parent, certified, committed>>

Init ==
    /\ parent = <<>>
    /\ certified = {Genesis}
    /\ committed = {Genesis}

\* A block is proposed once, on top of a certified block.
Propose(b, p) ==
    /\ b \notin DOMAIN parent
    /\ p \in certified
    /\ parent' = [c \in DOMAIN parent \cup {b} |-> IF c = b THEN p ELSE parent[c]]
    /\ UNCHANGED <<certified, committed>>

Certify(b) ==
    /\ b \in DOMAIN parent
    /\ certified' = certified \cup {b}
    /\ UNCHANGED <<parent, committed>>

\* Only a block that has a child can be committed.
Commit(b) ==
    /\ \E c \in DOMAIN parent : parent[c] = b
    /\ committed' = committed \cup {b}
    /\ UNCHANGED <<parent, certified>>

Next ==
    \/ \E b \in Blocks \ {Genesis}, p \in Blocks : Propose(b, p)
    \/ \E b \in Blocks : Certify(b)
    \/ \E b \in Blocks : Commit(b)

Spec == Init /\ [][Next]_vars
=============================================================================
