-------------------------- MODULE MCEventPipeline --------------------------
(* Small instances of EventPipeline for TLC. *)
EXTENDS EventPipeline

CONSTANTS a, b, c, w, x, y

OneByte == [id \in Ids |-> 1]
MixedBytes == [id \in Ids |-> IF id = b THEN 5 ELSE 1]

TwoLines == <<a, b>>
ThreeLines == <<a, b, c>>
Gap == <<a, NoId, b>>
=============================================================================
