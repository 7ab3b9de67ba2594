---------------------------- MODULE MCRedisService ----------------------------
(* RedisService on a few requests and containers, which are interchangeable.   *)
EXTENDS RedisApi, TLC

CONSTANTS r1, r2, r3, w1, w2, w3

Symmetry == Permutations(Requests) \cup Permutations(Containers)
================================================================================
