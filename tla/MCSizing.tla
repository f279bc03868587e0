------------------------------ MODULE MCSizing ------------------------------
(* Sizing over small profiles: every combination of a narrow and a wide    *)
(* training, of architectures with and without quantizable heads and with  *)
(* no KV cache at all, of weights and of memories around each threshold.   *)
EXTENDS Sizing

MCProfiles ==
    [trained : 1 .. 6, layers : 1 .. 2, headK : {0, 2, 3}, k : 0 .. 2,
     v : 0 .. 1, size : {1, 4, 10, 50},
     total : {Unknown, 0, 4, 5, 8, 10, 12, 16, 20, 24, 32, 50, 63, 80}]
=============================================================================
