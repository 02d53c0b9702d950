---------------------------- MODULE MCPointReads ----------------------------
(* TLC instance of PointReads: the reader's device 1 and one of somebody   *)
(* else; whole and half seconds; caps in the order of the code's.          *)
EXTENDS PointReads

MCOwner == (1 :> 1) @@ (2 :> 2)

MCArrivals == {[device |-> 1, ts |-> 2], [device |-> 1, ts |-> 3],
               [device |-> 1, ts |-> 4], [device |-> 2, ts |-> 3]}

All == [from |-> Nil, to |-> Nil]
Some == [from |-> 2, to |-> 4]

MCRequests == {[device |-> Nil, window |-> All, limit |-> 1, max |-> Nil],
               [device |-> 1, window |-> Some, limit |-> 3, max |-> Nil],
               [device |-> 2, window |-> All, limit |-> 1, max |-> Nil],
               [device |-> Nil, window |-> All, limit |-> 2, max |-> 1],
               [device |-> Nil, window |-> All, limit |-> 3, max |-> 2]}
=============================================================================
