---------------------------- MODULE MCMotFrames ----------------------------
(* A video of four frames, two of them with two people, and one replacement
   of the child. *)
EXTENDS MotFrames

MCPeopleIn == <<1, 2, 0, 2>>
=============================================================================
