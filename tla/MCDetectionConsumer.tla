------------------------ MODULE MCDetectionConsumer ------------------------
(* A small instance of DetectionConsumer: two valid detections, one that does
   not parse, and a queue for two events. *)
EXTENDS DetectionConsumer

CONSTANTS d1, d2, bad

MCDetections == {d1, d2, bad}
MCInvalid == {bad}
=============================================================================
