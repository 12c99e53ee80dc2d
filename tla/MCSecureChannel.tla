---------------------------- MODULE MCSecureChannel ----------------------------
(* Bounds for SecureChannel: the initiator side sends from two goroutines, which *)
(* is enough for its writes to be reordered, and the responder side from one.    *)
EXTENDS SecureChannel, TLC

MCWriters == [e \in End |-> IF e = "initiator" THEN 2 ELSE 1]

OneWriter == [e \in End |-> 1]

ShortMaxSends == [e \in End |-> IF e = "initiator" THEN 2 ELSE 1]

MCMaxSends == [e \in End |-> IF e = "initiator" THEN 3 ELSE 1]

\* Plaintexts are only ever compared for equality; only safety is checked with it.
PlainSymmetry == Permutations(Plain)

================================================================================
