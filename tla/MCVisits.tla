------------------------------ MODULE MCVisits ------------------------------
(* TLC instance of VisitScheduler: a device that stays at 0 or is away at  *)
(* 9, beside devices that send nothing and only take their turns.          *)
EXTENDS VisitScheduler

MCArrivals == {[device |-> 1, ts |-> 1, pos |-> 0],
               [device |-> 1, ts |-> 6, pos |-> 0],
               [device |-> 1, ts |-> 7, pos |-> 9],
               [device |-> 1, ts |-> 8, pos |-> 0]}
MCWindows == {[from |-> 1, to |-> 8]}
=============================================================================
