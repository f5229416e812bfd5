----------------------------- MODULE MCServices -----------------------------
(* Small instances of the services: two detections and one that does not
   parse, two payloads and two retry threads, two edits of the topology, three
   captured frames with up to two boxes, two benchmark runs, two cameras, two
   concurrent health requests, two identities, a tracklet with two boxes. *)
EXTENDS Services

CONSTANTS d1, d2, bad

MCDetections == {d1, d2, bad}
MCInvalid == {bad}
=============================================================================
