--------------------------- MODULE MCDedupeWorkers ---------------------------
\* Instances of DedupeWorkers for TLC: findings of one vulnerability.
EXTENDS DedupeWorkers

CONSTANTS t1, e1, h1, zap, title

MC_Ids == 1..3
MC_engagement == [t \in Tests |-> e1]
MC_algorithm == [t \in Tests |-> "hash_code"]
MC_test_type == [t \in Tests |-> zap]
MC_one == {[title |-> title, hash |-> h1, uid |-> None, endpoints |-> {}, place |-> None]}
=============================================================================
