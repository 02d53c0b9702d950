------------------------------ MODULE MCSpool -------------------------------
(* TLC instance of Spool: two points, one of them also sent in a batch.    *)
EXTENDS Spool

CONSTANTS p1, p2, c1

MCPoints == {p1, p2}
MCDevices == {"phone"}
MCNameOf == [d \in MCDevices |-> d]
MCDeviceOf == [p \in MCPoints |-> "phone"]
MCBytes == [p \in MCPoints |-> 1]
MCNearPairs == {}
MCBatches == {<<p1>>, <<p2, p1>>}
=============================================================================
