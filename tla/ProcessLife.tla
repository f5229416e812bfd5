----------------------------- MODULE ProcessLife -----------------------------
(***************************************************************************)
(* main.py: build_app_context and main start the stores, threads and child *)
(* processes in a fixed order, the main thread drains the frames, and its  *)
(* finally block takes down what it knows of.                              *)
(*                                                                         *)
(* Every thread is a daemon and ends with the process; a child process     *)
(* does not.  Of the threads only those matter here that replace children  *)
(* on their own: PP-Human's monitors, and the streamers' push threads with *)
(* their ffmpeg.  They are not ended by the stops, whose joins have        *)
(* timeouts.  One camera stands for all; PPHumanPipeline and               *)
(* MediaMTXStreamer have the steps of a replacement.                       *)
(***************************************************************************)
EXTENDS Integers, Sequences, FiniteSets

CONSTANT MaxLifeFaults  \* bound on steps that fail

ASSUME LifeAssumption == MaxLifeFaults \in Nat

VARIABLES
    smoke,       \* the runtime mode is smoke_test
    synthetic,   \* is_synthetic of the detector: PP-Human is not installed
    at,          \* where the main thread is
    children,    \* child processes that run: "pphuman", "ffmpeg"
    respawning,  \* those a watching thread is on its way to replace
    caught,      \* those it was on its way to replace when runner.stop() ran
    handlers,    \* SIGTERM and SIGINT have a handler
    stopping,    \* the stop event
    signalled,   \* a signal has been delivered to a handler
    flowing,     \* some camera delivers frames
    ended,       \* why the process ended
    stopFailed,  \* an exception of the adapter's or a streamer's stop() was swallowed
    lifeFaults

lifeVars == <<smoke, synthetic, at, children, respawning, caught, handlers, stopping, signalled,
              flowing, ended, stopFailed, lifeFaults>>
setting == <<smoke, synthetic>>
respawns == <<respawning, caught>>

BootSteps == <<"stores", "reid", "detector", "mqtt", "sweeper", "threads", "children",
               "runner", "workers", "api", "handlers">>
DownSteps == <<"stop runner", "stop sweeper", "stop sahi", "stop bridge", "close stores">>

SeqSet(s) == {s[i] : i \in DOMAIN s}

LifeInit ==
    /\ smoke \in BOOLEAN /\ synthetic \in BOOLEAN /\ (synthetic => smoke)
    /\ at = "stores"
    /\ children = {} /\ respawning = {} /\ caught = {}
    /\ handlers = FALSE /\ stopping = FALSE /\ signalled = FALSE
    /\ flowing = TRUE
    /\ ended = "no" /\ stopFailed = FALSE
    /\ lifeFaults = 0

LifeFault == lifeFaults < MaxLifeFaults /\ lifeFaults' = lifeFaults + 1

Following(steps, step) == steps[(CHOOSE i \in DOMAIN steps : steps[i] = step) + 1]

(* The main thread is gone, and the daemon threads with it. *)
Gone(why) == at' = "gone" /\ ended' = why /\ UNCHANGED respawns

-----------------------------------------------------------------------------
(* The children a step starts when all goes well: PP-Human's for a detector
   that is not synthetic, in any mode; the streamers' ffmpeg by the runner. *)
ChildrenOf(step) ==
    CASE step = "children" /\ ~synthetic -> {"pphuman"}
      [] step = "runner" -> {"ffmpeg"}
      [] OTHER -> {}

(* One step of the start.  The failures of the seed, the ReID loader, the
   broker, the persistent-ID threads and the preflight are logged, and the
   start goes on. *)
Boot(step) ==
    /\ at = step
    /\ at' = IF step = "handlers" THEN "stream" ELSE Following(BootSteps, step)
    /\ children' = children \union ChildrenOf(step)
    /\ handlers' = (handlers \/ step = "handlers")
    /\ UNCHANGED <<setting, respawns, stopping, signalled, flowing, ended, stopFailed,
                   lifeFaults>>

(* A step that raises out of main: a store that does not answer, a PP-Human
   that is not there (in smoke mode the detector is synthetic then), a child
   that cannot be spawned after another one was, a reader that cannot be made. *)
BootFails(step) ==
    /\ at = step /\ LifeFault
    /\ \/ step = "stores"
       \/ step = "detector" /\ ~smoke
       \/ step = "children" /\ ~synthetic
       \/ step = "runner"
    /\ \E some \in SUBSET ChildrenOf(step) : children' = children \union some
    /\ Gone("boot failed")
    /\ UNCHANGED <<setting, handlers, stopping, signalled, flowing, stopFailed>>

-----------------------------------------------------------------------------
(* Mutant: the loop does not look at the event. *)
StreamYields_Blind ==
    /\ at = "stream" /\ flowing
    /\ UNCHANGED lifeVars

(* One frame: on_frame, the periodic finalization, then the stop event. *)
StreamYields ==
    /\ at = "stream" /\ flowing
    /\ at' = IF stopping THEN "stop runner" ELSE "stream"
    /\ UNCHANGED <<setting, children, respawns, handlers, stopping, signalled, flowing,
                   ended, stopFailed, lifeFaults>>

(* An exception of the collector, or the end of SMOKE_MAX_SECONDS. *)
StreamBreaks ==
    /\ at = "stream"
    /\ \/ flowing /\ LifeFault
       \/ smoke /\ UNCHANGED lifeFaults
    /\ at' = "stop runner"
    /\ UNCHANGED <<setting, children, respawns, handlers, stopping, signalled, flowing,
                   ended, stopFailed>>

(* Mutant: MultiCameraRunner.stop() leaves the frame-state adapter alone. *)
StopRunner_NoAdapter ==
    /\ at = "stop runner"
    /\ at' = "stop sweeper" /\ stopping' = TRUE
    /\ caught' = respawning
    /\ children' = children \ {"ffmpeg"}
    /\ UNCHANGED <<setting, respawning, handlers, signalled, flowing, ended, stopFailed,
                   lifeFaults>>

(* The finally block sets the event; runner.stop() terminates the children the
   adapter and the streamers have, swallowing what they raise.  A thread that
   is replacing a child goes on to do so. *)
StopRunner ==
    /\ at = "stop runner"
    /\ at' = "stop sweeper" /\ stopping' = TRUE
    /\ caught' = respawning
    /\ \/ children' = {} /\ UNCHANGED <<stopFailed, lifeFaults>>
       \/ LifeFault /\ stopFailed' = TRUE
          /\ \E left \in SUBSET children : children' = left
    /\ UNCHANGED <<setting, respawning, handlers, signalled, flowing, ended>>

(* The stops of the sweeper, the SAHI workers and the bridge join for two
   seconds each and swallow what they raise. *)
StopThread(step) ==
    /\ at = step
    /\ at' = Following(DownSteps, step)
    /\ UNCHANGED <<setting, children, respawns, handlers, stopping, signalled, flowing,
                   ended, stopFailed, lifeFaults>>

CloseStores ==
    /\ at = "close stores"
    /\ Gone("main returned")
    /\ UNCHANGED <<setting, children, handlers, stopping, signalled, flowing, stopFailed,
                   lifeFaults>>

MainThread ==
    \/ \E step \in SeqSet(BootSteps) : Boot(step)
    \/ StreamYields \/ StopRunner
    \/ \E step \in {"stop sweeper", "stop sahi", "stop bridge"} : StopThread(step)
    \/ CloseStores

-----------------------------------------------------------------------------
(* A child ends by itself, also after the process: ffmpeg with its input. *)
ChildEnds(k) ==
    /\ k \in children
    /\ children' = children \ {k}
    /\ UNCHANGED <<setting, at, respawns, handlers, stopping, signalled, flowing, ended,
                   stopFailed, lifeFaults>>

(* A monitor has polled its child alive and goes on to the stall check: none
   looks at the adapter's event, and the monitor of a child that outlived the
   stop goes on like any other.  A push thread has a frame to write and finds
   ffmpeg gone or its pipe broken; its loop ends with runner.stop(). *)
RespawnBegins(k) ==
    /\ k \notin respawning
    /\ \/ k = "pphuman" /\ k \in children /\ at # "gone"
       \/ k = "ffmpeg" /\ at \in {"workers", "api", "handlers", "stream", "stop runner"}
    /\ respawning' = respawning \union {k}
    /\ UNCHANGED <<setting, at, children, caught, handlers, stopping, signalled, flowing,
                   ended, stopFailed, lifeFaults>>

(* It spawns a child, leaves the one there is, or gives up with none. *)
RespawnEnds(k) ==
    /\ k \in respawning /\ at # "gone"
    /\ respawning' = respawning \ {k}
    /\ children' \in {children \union {k}, children \ {k}}
    /\ UNCHANGED <<setting, at, caught, handlers, stopping, signalled, flowing, ended,
                   stopFailed, lifeFaults>>

-----------------------------------------------------------------------------
(* SIGTERM: before the handlers are installed it ends the process. *)
Terminate ==
    /\ at # "gone"
    /\ IF handlers
       THEN /\ stopping' = TRUE /\ signalled' = TRUE
            /\ UNCHANGED <<at, respawns, ended>>
       ELSE Gone("terminated") /\ UNCHANGED <<stopping, signalled>>
    /\ UNCHANGED <<setting, children, handlers, flowing, stopFailed, lifeFaults>>

Kill9 ==
    /\ at # "gone" /\ LifeFault
    /\ Gone("killed")
    /\ UNCHANGED <<setting, children, handlers, stopping, signalled, flowing, stopFailed>>

FramesChange ==
    /\ at # "gone"
    /\ flowing' = ~flowing
    /\ UNCHANGED <<setting, at, children, respawns, handlers, stopping, signalled, ended,
                   stopFailed, lifeFaults>>

LifeNext ==
    \/ MainThread
    \/ \E step \in SeqSet(BootSteps) : BootFails(step)
    \/ StreamBreaks \/ Terminate \/ Kill9 \/ FramesChange
    \/ \E k \in {"pphuman", "ffmpeg"} : ChildEnds(k) \/ RespawnBegins(k) \/ RespawnEnds(k)

LifeSpec == LifeInit /\ [][LifeNext]_lifeVars /\ WF_lifeVars(MainThread)

-----------------------------------------------------------------------------
(* Child processes, which keep the GPU and the published streams, outlive the
   process only if it was killed, ended by a signal or by an exception before
   the loop, if a stop() that failed was swallowed, or if a thread was on its
   way to replace the child when runner.stop() ran: none that the stop did not
   meet like that comes back later.  (runner.stop, _monitor_subprocess,
   _try_reconnect) *)
ChildrenAreStopped ==
    at = "gone" =>
        \/ ended \in {"killed", "terminated", "boot failed"} \/ stopFailed
        \/ children \subseteq caught

(* A signal that reached a handler ends the process while frames flow.
   Without a frame the main thread waits in runner.stream() for ever. *)
SignalIsHeeded == signalled ~> (at = "gone" \/ ~flowing)
=============================================================================
