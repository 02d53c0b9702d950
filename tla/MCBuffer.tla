------------------------------ MODULE MCBuffer ------------------------------
(* TLC instance of BufferSpec: three devices, two of which have the same   *)
(* name.  A point is near itself and near some of others: a1, of the one,  *)
(* is near a2, of the other, and b1, of the device with a name of its own, *)
(* is near a1, which makes no difference to the filter.                    *)
EXTENDS BufferSpec, TLC

CONSTANTS a1, a2, a3, b1

MCPoints == {a1, a2, a3, b1}
MCDevices == {"phone", "otherPhone", "watch"}
MCNameOf == ("phone" :> "phone") @@ ("otherPhone" :> "phone") @@ ("watch" :> "watch")
MCDeviceOf == (a1 :> "phone") @@ (a2 :> "otherPhone") @@ (a3 :> "phone") @@ (b1 :> "watch")
MCBytes == (a1 :> 2) @@ (a2 :> 3) @@ (a3 :> 3) @@ (b1 :> 2)
Near(p, q) == {<<p, q>>, <<q, p>>}
MCNearPairs == {<<p, p>> : p \in MCPoints} \cup Near(a1, a2) \cup Near(a2, a3) \cup Near(a1, b1)
MCBatches == {<<a1>>, <<a3>>, <<b1>>, <<a1, b1, a2>>}
=============================================================================
