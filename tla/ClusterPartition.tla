--------------------------- MODULE ClusterPartition ---------------------------
(***************************************************************************)
(* What the duplicate relation promises: the findings are partitioned into *)
(* clusters with one representative each, and a cluster is never torn      *)
(* apart.  Findings appear in a cluster or on their own; one finding leaves*)
(* its cluster; a finding, with those it represents, joins another cluster;*)
(* a cluster gets a new representative; findings vanish, and what remains  *)
(* of their clusters stays together.  Nothing else ever happens to it.     *)
(***************************************************************************)
CONSTANT Ids

VARIABLES
    exists,
    root    \* the representative of each finding's cluster

vars == <<exists, root>>

Representatives == {r \in exists : root[r] = r}

Cluster(r) == {f \in exists : root[f] = r}

\* what moves when f moves: f alone, or the cluster it represents
With(f) == {f} \cup Cluster(f)

Into(S, r) == [f \in Ids |-> IF f \in S THEN r ELSE root[f]]

Init == exists = {} /\ root = [f \in Ids |-> f]

Appear(f, r) ==
    /\ f \notin exists
    /\ r \in Representatives \cup {f}
    /\ exists' = exists \cup {f}
    /\ root' = Into({f}, r)

Leave(f) ==
    /\ f \in exists
    /\ root' = Into({f}, f)
    /\ UNCHANGED exists

Join(f, r) ==
    /\ f \in exists
    /\ r \in Representatives \ {f}
    /\ root' = Into(With(f), r)
    /\ UNCHANGED exists

\* n may be a stranger, which leaves its cluster or brings its own along
Crown(f, n) ==
    /\ {f, n} \subseteq exists
    /\ root' = Into(Cluster(root[f]) \cup {n}, n)
    /\ UNCHANGED exists

Vanish(S) ==
    /\ exists' = exists \ S
    /\ \E heir \in [Ids -> Ids] :
        root' = [f \in Ids |-> CASE f \in S -> f
                                 [] f \notin S /\ root[f] \in S -> heir[root[f]]
                                 [] OTHER -> root[f]]
    /\ \A f \in exists' : root'[f] \in exists' /\ root'[root'[f]] = root'[f]

Next ==
    \/ \E f \in Ids, r \in Ids : Appear(f, r) \/ Join(f, r) \/ Crown(f, r)
    \/ \E f \in Ids : Leave(f)
    \/ \E S \in SUBSET exists : Vanish(S)

Spec == Init /\ [][Next]_vars
=============================================================================
