------------------------------- MODULE Ingest -------------------------------
(***************************************************************************)
(* The data that the ingest pipeline moves (internal/ingest/models.go).    *)
(*                                                                         *)
(* A canonical point is an abstract value: all the pipeline ever asks of   *)
(* it is which device sent it and what that device is called, how many     *)
(* bytes its record takes, whether it is close to another point in time    *)
(* and place, and whether two points have the same ingest hash.  The hash  *)
(* is a digest of the raw payload, so a point IS its hash here: a          *)
(* retransmitted payload is the same point sent twice.                     *)
(***************************************************************************)
EXTENDS Integers, Sequences

CONSTANTS
  Points,         \* canonical points, identified by their ingest hash
  Devices,        \* devices, one for each user and name
  NameOf,         \* the name of each device, SpoolRecord.DeviceID
  DeviceOf,       \* the device each point was authenticated for
  Bytes,          \* size of a point's record, as a JSON line
  MarkerBytes,    \* size of a record once its raw payload is dropped
  Batches,        \* the sequences of points that requests carry
  NearPairs       \* <<p, q>>: p is within the dedupe window of q

Names == {NameOf[d] : d \in Devices}

ASSUME IngestAssumption ==
  /\ NameOf \in [Devices -> Names]
  /\ DeviceOf \in [Points -> Devices]
  /\ Bytes \in [Points -> Nat \ {0}]
  /\ MarkerBytes \in Nat \ {0}
  /\ Batches \subseteq Seq(Points) \ {<<>>}
  /\ NearPairs \subseteq Points \X Points

(* What the record of a point carries of its device.                       *)
DeviceName(p) == NameOf[DeviceOf[p]]

(* ingest.SpoolRecord: a sequence number, the point, the checkpoint flag.  *)
SpoolRecord == [seq : Nat, point : Points, checkpointOnly : BOOLEAN]

(* The record AppendCanonicalPoints builds for a point.                    *)
NewRecord(seq, p) == [seq |-> seq, point |-> p, checkpointOnly |-> FALSE]
=============================================================================
