------------------------ MODULE MCDuplicateClusters ------------------------
\* Instances of DuplicateClusters for TLC.
EXTENDS DuplicateClusters, TLC

CONSTANTS t1, t2, t3, e1, e2, e3, h1, u1, x, y, title, zap, sast

Vuln(hash, uid, endpoints) ==
    [title |-> title, hash |-> hash, uid |-> uid, endpoints |-> endpoints, place |-> None]

MC_Ids3 == 1..3

\* t1 and t2 deduplicate across engagements, t3 within its own
MC_engagement == (t1 :> e1) @@ (t2 :> e2) @@ (t3 :> e3)
MC_InEngagement == {e3}
MC_test_type == (t1 :> zap) @@ (t2 :> sast) @@ (t3 :> zap)
MC_hash_code == [t \in Tests |-> "hash_code"]
MC_mixed == (t1 :> "hash_code") @@ (t2 :> "legacy") @@ (t3 :> "unique_id")

MC_one == {Vuln(h1, None, {})}
\* the same vulnerability seen on two endpoints, at times with a tool id
MC_mix == {Vuln(h1, u1, {x}), Vuln(h1, u1, {x, y})}
=============================================================================
