------------------------------ MODULE MCServer ------------------------------
(* TLC instance of Server: two near points of one device and one point of  *)
(* another; clients may send any of them again.  Where each request holds  *)
(* one point, a1 is not sent and SentPoints leaves it out.                 *)
EXTENDS Server, TLC

CONSTANTS a1, a2, b1, h1, h2, flusher

MCPoints == {a1, a2, b1}
SentPoints == {a2, b1}
MCDevices == {"phone", "watch"}
MCNameOf == [d \in MCDevices |-> d]
MCDeviceOf == [p \in Points |-> IF p = b1 THEN "watch" ELSE "phone"]
MCBytes == [p \in Points |-> CASE p = a1 -> 1 [] p = a2 -> 3 [] p = b1 -> 2]
MCNearPairs == {pq \in Points \X Points : DeviceOf[pq[1]] = DeviceOf[pq[2]]}
MCBatches == {<<b1>>, <<a1, a2>>}
SingleBatches == {<<a2>>, <<b1>>}
=============================================================================
