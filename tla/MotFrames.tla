----------------------------- MODULE MotFrames -----------------------------
(***************************************************************************)
(* How the detections of one camera get from the MOT file that its PP-Human*)
(* child writes to the camera's worker: stream() reads the file again and  *)
(* again from the start and passes on what is newer than the last frame it *)
(* saw, the tail thread of PPHumanFrameStateAdapter sorts it into a buffer *)
(* by frame, and the worker asks for its frames one after the other.       *)
(*                                                                         *)
(* A detection is a pair: its frame, and which of the frame's detections   *)
(* it is.  The file holds the frames the child has finished, in order; a   *)
(* replaced child starts the file, and the frame numbers, anew.            *)
(***************************************************************************)
EXTENDS Integers, FiniteSets

CONSTANTS
    PeopleIn,      \* PeopleIn[f]: how many people the detector finds in frame f
    LastFrame,     \* frames of the video
    Keep,          \* frames the buffer is kept for, 256 in the code
    MaxChildren    \* bound on the children of the camera

MotFramesOfVideo == 1..LastFrame

VARIABLES
    written,     \* frames in the MOT file
    lastSeen,    \* last_seen of the camera
    buffer,      \* the detections in the buffer
    asked,       \* the worker's frame counter
    children     \* children so far

motVars == <<written, lastSeen, buffer, asked, children>>

MotInit ==
    /\ written = 0 /\ lastSeen = 0 /\ buffer = {} /\ asked = 0 /\ children = 1

ChildWritesFrame ==
    /\ written < LastFrame
    /\ written' = written + 1
    /\ UNCHANGED <<lastSeen, buffer, asked, children>>

(* The monitor has replaced a stalled child. *)
ChildReplaced ==
    /\ children < MaxChildren
    /\ children' = children + 1 /\ written' = 0
    /\ UNCHANGED <<lastSeen, buffer, asked>>

(* parse_mot_file: the detections of the file, which stands in this order. *)
InFile == UNION {{f} \X (1..PeopleIn[f]) : f \in 1..written}

Before(d, other) == d[1] < other[1] \/ (d[1] = other[1] /\ d[2] <= other[2])

(* stream() and _tail_loop: the first detection in the file whose frame is
   newer than last_seen goes into the buffer, and its frame becomes last_seen. *)
TailDetection ==
    LET newer == {d \in InFile : d[1] > lastSeen}
    IN  \E d \in newer :
            /\ \A other \in newer : Before(d, other)
            /\ buffer' = buffer \union {d}
            /\ lastSeen' = d[1]
            /\ UNCHANGED <<written, asked, children>>

(* detections_for_frame, for the worker's next frame: what the buffer has, and
   frames far behind leave it. *)
AskForFrame ==
    /\ asked < LastFrame
    /\ asked' = asked + 1
    /\ buffer' = {d \in buffer : d[1] >= asked + 1 - Keep}
    /\ UNCHANGED <<written, lastSeen, children>>

MotNext == ChildWritesFrame \/ ChildReplaced \/ TailDetection \/ AskForFrame

MotSpec == MotInit /\ [][MotNext]_motVars

-----------------------------------------------------------------------------
(* "Return the official MOT detections for frame_id": once the tail has gone
   past a frame, the buffer has all detections of that frame, for as long as
   frames are kept. *)
FramesAreComplete ==
    \A f \in MotFramesOfVideo :
        (f < lastSeen /\ f >= asked - Keep) =>
            \A i \in 1..PeopleIn[f] : <<f, i>> \in buffer
=============================================================================
