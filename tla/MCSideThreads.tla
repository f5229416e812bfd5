--------------------------- MODULE MCSideThreads ---------------------------
(* Small instances of the side threads: two pairs with two zone events and
   sessions of a minute, two cameras with two tracks each for the overlay,
   queues of two frames, three outages of a stream, two PP-Human children that
   may be replaced once, four ffmpeg children. *)
EXTENDS SideThreads
=============================================================================
