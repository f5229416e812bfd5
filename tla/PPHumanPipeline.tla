-------------------------- MODULE PPHumanPipeline --------------------------
(***************************************************************************)
(* PPHumanPipelineSubprocessManager: one PP-Human child process per        *)
(* camera, watched by a monitor thread of its own.  The drain threads      *)
(* stamp the camera whenever the child prints a line, and once more when   *)
(* its pipe ends; a child that is alive and has been silent for longer     *)
(* than stall_timeout is terminated and replaced, MaxRestarts times.  A    *)
(* child that has never printed is never taken for stalled: its stamp is   *)
(* 0.0 until then.                                                         *)
(*                                                                         *)
(* run_pipeline tells the child which camera it works for through          *)
(* os.environ of this process, written and then copied, under no lock.     *)
(* stop() terminates the children one camera after the other; no monitor   *)
(* looks at _stop before it starts a replacement.                          *)
(*                                                                         *)
(* start() has run: a monitor watches each camera's first child.  What the *)
(* children write (detections, MOT files) is MotFrames.                    *)
(***************************************************************************)
EXTENDS Integers, FiniteSets

CONSTANTS
    Cams,            \* camera ids
    MaxRestarts,     \* PPHUMAN_MAX_RESTARTS
    MaxExits         \* bound on children that end by themselves and failed spawns

ASSUME PipelineAssumption == Cams # {} /\ MaxRestarts \in Nat /\ MaxExits \in Nat

VARIABLES
    child,       \* child[c]: the process in _procs[c]
    label,       \* label[c]: PPHUMAN_REAL_CAMERA_ID in its environment
    stamp,       \* stamp[c]: age of _stdout_last_ts
    pipeOpen,    \* cameras where a dead child's drain thread has yet to see EOF
    monitor,     \* monitor[c]: where the camera's monitor is
    restarts,    \* _restart_counts
    crashed,     \* crashed_cameras
    environ,     \* PPHUMAN_REAL_CAMERA_ID in os.environ
    overlapped,  \* cameras whose environment was written over by another's respawn
    toStop,      \* cameras stop() has yet to come to, or all of them before it
    caught,      \* cameras stop() met between a poll and a respawn
    exits        \* MaxExits used up

pipelineVars == <<child, label, stamp, pipeOpen, monitor, restarts, crashed, environ,
                  overlapped, toStop, caught, exits>>

Replacing == {"stalled", "respawn", "environ"}
PastPoll == {"polled"} \union Replacing

PipelineTypeOK ==
    /\ child \in [Cams -> {"up", "ok", "failed"}]
    /\ label \in [Cams -> Cams] /\ environ \in Cams
    /\ stamp \in [Cams -> {"none", "recent", "old"}]
    /\ pipeOpen \subseteq Cams
    /\ monitor \in [Cams -> {"watch", "ended"} \union PastPoll]
    /\ restarts \in [Cams -> 0..(MaxRestarts + 1)]
    /\ crashed \subseteq Cams /\ overlapped \subseteq Cams
    /\ toStop \subseteq Cams /\ caught \subseteq Cams
    /\ exits \in 0..MaxExits

(* start() has gone through the cameras; the last one is in os.environ. *)
PipelineInit ==
    /\ child = [c \in Cams |-> "up"] /\ label = [c \in Cams |-> c]
    /\ stamp = [c \in Cams |-> "none"] /\ pipeOpen = {}
    /\ monitor = [c \in Cams |-> "watch"]
    /\ restarts = [c \in Cams |-> 0] /\ crashed = {}
    /\ environ = CHOOSE c \in Cams : TRUE
    /\ overlapped = {} /\ toStop = Cams /\ caught = {} /\ exits = 0

ExitBudget == exits < MaxExits /\ exits' = exits + 1

-----------------------------------------------------------------------------
(* The child prints a line; the drain thread stamps the camera. *)
ChildPrints(c) ==
    /\ child[c] = "up"
    /\ stamp' = [stamp EXCEPT ![c] = "recent"]
    /\ UNCHANGED <<child, label, pipeOpen, monitor, restarts, crashed, environ,
                   overlapped, toStop, caught, exits>>

(* stall_timeout passes without a line. *)
ChildSilent(c) ==
    /\ stamp[c] = "recent"
    /\ stamp' = [stamp EXCEPT ![c] = "old"]
    /\ UNCHANGED <<child, label, pipeOpen, monitor, restarts, crashed, environ,
                   overlapped, toStop, caught, exits>>

ChildExits(c, rc) ==
    /\ child[c] = "up" /\ ExitBudget
    /\ child' = [child EXCEPT ![c] = rc]
    /\ pipeOpen' = pipeOpen \union {c}
    /\ UNCHANGED <<label, stamp, monitor, restarts, crashed, environ, overlapped, toStop,
                   caught>>

(* The drain thread of a dead child reads EOF and stamps the camera, which
   may have a new child by then. *)
DrainEof(c) ==
    /\ c \in pipeOpen
    /\ pipeOpen' = pipeOpen \ {c}
    /\ stamp' = [stamp EXCEPT ![c] = "recent"]
    /\ UNCHANGED <<child, label, monitor, restarts, crashed, environ, overlapped, toStop,
                   caught, exits>>

-----------------------------------------------------------------------------
(* poll() gives a return code: a non-zero one marks the camera crashed. *)
SeesExit(c) ==
    /\ monitor[c] = "watch" /\ child[c] # "up"
    /\ crashed' = IF child[c] = "ok" THEN crashed ELSE crashed \union {c}
    /\ monitor' = [monitor EXCEPT ![c] = "ended"]
    /\ UNCHANGED <<child, label, stamp, pipeOpen, restarts, environ, overlapped, toStop,
                   caught, exits>>

(* poll() gives None. *)
SeesAlive(c) ==
    /\ monitor[c] = "watch" /\ child[c] = "up"
    /\ monitor' = [monitor EXCEPT ![c] = "polled"]
    /\ UNCHANGED <<child, label, stamp, pipeOpen, restarts, crashed, environ, overlapped,
                   toStop, caught, exits>>

(* The stamp is recent, or the child has never printed: sleep, poll again. *)
SeesNoStall(c) ==
    /\ monitor[c] = "polled" /\ stamp[c] # "old"
    /\ monitor' = [monitor EXCEPT ![c] = "watch"]
    /\ UNCHANGED <<child, label, stamp, pipeOpen, restarts, crashed, environ, overlapped,
                   toStop, caught, exits>>

(* Mutant: no stall is seen once the restarts are used up. *)
SeesStall_Capped(c) ==
    /\ monitor[c] = "polled" /\ stamp[c] = "old"
    /\ restarts[c] < MaxRestarts
    /\ monitor' = [monitor EXCEPT ![c] = "stalled"]
    /\ UNCHANGED <<child, label, stamp, pipeOpen, restarts, crashed, environ, overlapped,
                   toStop, caught, exits>>

(* The stamp is too old, whatever the child has done since the poll. *)
SeesStall(c) ==
    /\ monitor[c] = "polled" /\ stamp[c] = "old"
    /\ monitor' = [monitor EXCEPT ![c] = "stalled"]
    /\ UNCHANGED <<child, label, stamp, pipeOpen, restarts, crashed, environ, overlapped,
                   toStop, caught, exits>>

Kill(c) ==
    /\ child' = [child EXCEPT ![c] = IF @ = "up" THEN "failed" ELSE @]
    /\ pipeOpen' = IF child[c] = "up" THEN pipeOpen \union {c} ELSE pipeOpen

(* terminate, wait, count; past the cap the camera is marked crashed. *)
TerminateStalled(c) ==
    /\ monitor[c] = "stalled"
    /\ Kill(c)
    /\ restarts' = [restarts EXCEPT ![c] = @ + 1]
    /\ IF restarts[c] < MaxRestarts
       THEN /\ monitor' = [monitor EXCEPT ![c] = "respawn"]
            /\ crashed' = crashed
       ELSE /\ monitor' = [monitor EXCEPT ![c] = "ended"]
            /\ crashed' = crashed \union {c}
    /\ UNCHANGED <<label, stamp, environ, overlapped, toStop, caught, exits>>

(* Mutant: os.environ is written after the copy, for the next child. *)
WriteEnviron_Late(c) ==
    /\ monitor[c] = "respawn"
    /\ monitor' = [monitor EXCEPT ![c] = "environ"]
    /\ UNCHANGED <<child, label, stamp, pipeOpen, restarts, crashed, environ, overlapped,
                   toStop, caught, exits>>

(* run_pipeline: os.environ[...] = camera_id. *)
WriteEnviron(c) ==
    /\ monitor[c] = "respawn"
    /\ environ' = c
    /\ overlapped' = (overlapped \ {c})
                        \union {d \in Cams \ {c} : monitor[d] = "environ"}
    /\ monitor' = [monitor EXCEPT ![c] = "environ"]
    /\ UNCHANGED <<child, label, stamp, pipeOpen, restarts, crashed, toStop, caught, exits>>

(* os.environ.copy(), Popen, and a monitor for the new child.  The stamp is
   the old child's. *)
Respawn(c) ==
    /\ monitor[c] = "environ"
    /\ child' = [child EXCEPT ![c] = "up"]
    /\ label' = [label EXCEPT ![c] = environ]
    /\ monitor' = [monitor EXCEPT ![c] = "watch"]
    /\ UNCHANGED <<stamp, pipeOpen, restarts, crashed, environ, overlapped, toStop,
                   caught, exits>>

(* run_pipeline raises: the camera is marked crashed. *)
RespawnFails(c) ==
    /\ monitor[c] = "environ" /\ ExitBudget
    /\ monitor' = [monitor EXCEPT ![c] = "ended"]
    /\ crashed' = crashed \union {c}
    /\ UNCHANGED <<child, label, stamp, pipeOpen, restarts, environ, overlapped, toStop,
                   caught>>

(* Mutant: stop() terminates only children that still print. *)
StopChild_Printing(c) ==
    /\ c \in toStop
    /\ toStop' = toStop \ {c}
    /\ caught' = IF monitor[c] \in PastPoll THEN caught \union {c} ELSE caught
    /\ IF stamp[c] = "old" THEN UNCHANGED <<child, pipeOpen>> ELSE Kill(c)
    /\ UNCHANGED <<label, stamp, monitor, restarts, crashed, environ, overlapped, exits>>

(* stop(), one camera: terminate the process it finds in _procs. *)
StopChild(c) ==
    /\ c \in toStop
    /\ toStop' = toStop \ {c}
    /\ caught' = IF monitor[c] \in PastPoll THEN caught \union {c} ELSE caught
    /\ Kill(c)
    /\ UNCHANGED <<label, stamp, monitor, restarts, crashed, environ, overlapped, exits>>

Monitor(c) ==
    \/ SeesExit(c) \/ SeesAlive(c) \/ SeesNoStall(c) \/ SeesStall(c)
    \/ TerminateStalled(c)
    \/ WriteEnviron(c) \/ Respawn(c) \/ RespawnFails(c)

PipelineNext ==
    \E c \in Cams :
        \/ Monitor(c) \/ StopChild(c)
        \/ ChildPrints(c) \/ ChildSilent(c) \/ DrainEof(c)
        \/ \E rc \in {"ok", "failed"} : ChildExits(c, rc)

PipelineSpec == PipelineInit /\ [][PipelineNext]_pipelineVars

-----------------------------------------------------------------------------
(* A camera that nobody watches any more is accounted for: its child ended
   with return code 0, or the camera is among crashed_cameras, on which the
   benchmark gate relies; and a crashed camera has no child.  (Stopping marks
   every camera crashed that was still running.) *)
EndedIsFlagged ==
    \A c \in Cams :
        /\ monitor[c] = "ended" => child[c] # "up" /\ (child[c] = "ok" \/ c \in crashed)
        /\ c \in crashed => monitor[c] = "ended"

(* A child emits its detections under its own camera's id, unless another
   camera's respawn wrote os.environ between its write and its copy: two
   stalls at the same time can exchange cameras.  (run_pipeline, called by
   the monitor threads) *)
OwnCamera ==
    \A c \in Cams : child[c] = "up" /\ c \notin overlapped => label[c] = c

(* After stop() has passed a camera, its child is down for good, unless the
   monitor was past its poll: then a stamp that is old makes it start a
   replacement that nobody stops. *)
NoChildLeftBehind ==
    \A c \in Cams \ (toStop \union caught) : child[c] # "up"

(* The watchdog: a child that has fallen silent, or its replacement, speaks
   again or is taken down. *)
StallIsHandled ==
    \A c \in Cams :
        (child[c] = "up" /\ stamp[c] = "old") ~> (child[c] # "up" \/ stamp[c] = "recent")
=============================================================================
