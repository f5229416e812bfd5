----------------------------- MODULE StreamHealth -----------------------------
(***************************************************************************)
(* How a failure of a PP-Human child becomes known: the adapter's tail     *)
(* thread, the one StreamWatchdog of all cameras, and crashed_cameras,     *)
(* which the benchmark reads at the end of a run.  A time stamp is "never",*)
(* "recent" (within stall_timeout_seconds) or "old".                       *)
(***************************************************************************)
EXTENDS FiniteSets

CONSTANT Streams  \* the cameras of the adapter

ASSUME HealthAssumption == Streams # {}

VARIABLES
    decodable,       \* sources whose preflight passes
    tailer,          \* the tail thread: "none", "up", "ended", "crashed"
    seen,            \* cameras the adapter has a _state for
    lastFrame,       \* _last_frame_ts of the watchdog
    badExit,         \* note_subprocess_exit(1) was called
    crashedCameras,  \* _crashed_cameras of the adapter
    deadChildren,    \* crashed_cameras of the manager
    adapterStopped,  \* _stop
    reported         \* what crashed_cameras has returned so far

healthVars == <<decodable, tailer, seen, lastFrame, badExit, crashedCameras, deadChildren,
                adapterStopped, reported>>

HealthInit ==
    /\ decodable \in SUBSET Streams
    /\ tailer = "none" /\ seen = {} /\ lastFrame = "never" /\ badExit = FALSE
    /\ crashedCameras = {} /\ deadChildren = {} /\ adapterStopped = FALSE
    /\ reported = {}

(* preflight_camera_sources only informs: start() spawns every camera's child. *)
AdapterStarts ==
    /\ tailer = "none"
    /\ tailer' = "up"
    /\ UNCHANGED <<decodable, seen, lastFrame, badExit, crashedCameras, deadChildren,
                   adapterStopped, reported>>

(* Mutant: a frame tells the watchdog that the child is alive. *)
TailDetects_Revives(c) ==
    /\ tailer = "up" /\ ~adapterStopped /\ c \in decodable
    /\ seen' = seen \union {c}
    /\ lastFrame' = "recent" /\ badExit' = FALSE
    /\ UNCHANGED <<decodable, tailer, crashedCameras, deadChildren, adapterStopped, reported>>

(* _tail_loop: a detection of a camera that decodes.  stream() reads the file
   of every camera, whether its child lives or not: what a dead child has left
   there is delivered, and noted as a frame, like any other detection. *)
TailDetects(c) ==
    /\ tailer = "up" /\ ~adapterStopped /\ c \in decodable
    /\ seen' = seen \union {c}
    /\ lastFrame' = "recent"
    /\ UNCHANGED <<decodable, tailer, badExit, crashedCameras, deadChildren, adapterStopped,
                   reported>>

(* The monitor of a camera gave its child up. *)
ChildDied(c) ==
    /\ tailer # "none"
    /\ deadChildren' = deadChildren \union {c}
    /\ UNCHANGED <<decodable, tailer, seen, lastFrame, badExit, crashedCameras,
                   adapterStopped, reported>>

(* stream() raises: the cameras that have a _state are marked, which are those
   with a detection so far, not "every configured camera". *)
TailCrashes ==
    /\ tailer = "up"
    /\ tailer' = "crashed"
    /\ crashedCameras' = crashedCameras \union seen
    /\ badExit' = (badExit \/ seen # {})
    /\ UNCHANGED <<decodable, seen, lastFrame, deadChildren, adapterStopped, reported>>

(* Only stop() ends stream(): "All subprocesses died; stop streaming" is never
   reached, any_seen_mot_recently being always true. *)
TailEnds ==
    /\ tailer = "up" /\ adapterStopped
    /\ tailer' = "ended"
    /\ UNCHANGED <<decodable, seen, lastFrame, badExit, crashedCameras, deadChildren,
                   adapterStopped, reported>>

(* stop() and the manager's stop(), which terminates every child: a monitor
   whose poll comes before crashed_cameras is read counts it as crashed. *)
AdapterStops ==
    /\ tailer # "none" /\ ~adapterStopped
    /\ adapterStopped' = TRUE
    /\ \E terminated \in SUBSET Streams : deadChildren' = deadChildren \union terminated
    /\ UNCHANGED <<decodable, tailer, seen, lastFrame, badExit, crashedCameras, reported>>

(* crashed_cameras: the adapter's and the manager's, and the watchdog is told. *)
ReadCrashed ==
    /\ reported' = reported \union crashedCameras \union deadChildren
    /\ badExit' = (badExit \/ crashedCameras \union deadChildren # {})
    /\ UNCHANGED <<decodable, tailer, seen, lastFrame, crashedCameras, deadChildren,
                   adapterStopped>>

StallWindowPasses ==
    /\ lastFrame = "recent"
    /\ lastFrame' = "old"
    /\ UNCHANGED <<decodable, tailer, seen, badExit, crashedCameras, deadChildren,
                   adapterStopped, reported>>

(* StreamWatchdog._evaluate_healthy. *)
Healthy == lastFrame = "recent" /\ ~badExit

HealthNext ==
    \/ AdapterStarts \/ TailCrashes \/ TailEnds \/ AdapterStops \/ ReadCrashed
    \/ StallWindowPasses
    \/ \E c \in Streams : TailDetects(c) \/ ChildDied(c)

HealthSpec == HealthInit /\ [][HealthNext]_healthVars

-----------------------------------------------------------------------------
(* A crash that was reported stays: the detections still read from the dead
   child's file and those of the other cameras, noted by the same watchdog,
   never make it healthy again, and every later reading of crashed_cameras
   names the camera again.  (note_frame, note_subprocess_exit) *)
CrashIsNotMasked ==
    reported # {} => ~Healthy /\ reported \subseteq crashedCameras \union deadChildren
=============================================================================
