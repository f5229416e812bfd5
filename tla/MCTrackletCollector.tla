------------------------ MODULE MCTrackletCollector ------------------------
(* A small instance of TrackletCollector: two tracks, the auto-finalize thread
   with the shorter idle time and the main loop with the longer one. *)
EXTENDS TrackletCollector

MCMaxAge == [auto |-> 1, main |-> 2]
=============================================================================
