-------------------------- MODULE MediaMTXStreamer --------------------------
(***************************************************************************)
(* MediaMTXStreamer of one camera: a push thread writes frames to the      *)
(* stdin of an ffmpeg child and, when the child is gone or its stdin is    *)
(* broken, waits, kills what is left of it and spawns another; stop() is   *)
(* called once, from another thread, and ends child and thread.            *)
(*                                                                         *)
(* Only the flag _running is under the lock.  The handle _process is read  *)
(* and written by both threads without it: stop() takes it up again at     *)
(* each of its steps, and _try_reconnect writes it after a sleep.  The     *)
(* streamer is enabled and start() has spawned the first child.  Children  *)
(* are numbered in the order of their spawning.                            *)
(***************************************************************************)
EXTENDS Integers, FiniteSets

CONSTANTS
    MaxReconnect,    \* max_reconnect_attempts
    MaxSpawns        \* bound on the children spawned, and on failed spawns

ASSUME StreamerAssumption == MaxReconnect \in Nat \ {0} /\ MaxSpawns \in Nat \ {0}

VARIABLES
    streaming,    \* _running
    process,      \* _process: a child, or 0 for None
    alive,        \* the children that have not exited
    broken,       \* the children that no longer read their stdin
    closed,       \* the children whose stdin stop() has closed
    spawned,      \* children spawned so far
    attempts,     \* _reconnect_attempts
    pushStep,     \* where the push thread is
    stopStep,     \* where stop() is
    inReconnect   \* stop() began while the push thread was on its way to a respawn

streamerVars == <<streaming, process, alive, broken, closed, spawned, attempts, pushStep,
                  stopStep, inReconnect>>

Children == 1..MaxSpawns

StreamerTypeOK ==
    /\ streaming \in BOOLEAN /\ inReconnect \in BOOLEAN
    /\ process \in Children \union {0} /\ spawned \in Children
    /\ alive \subseteq Children /\ broken \subseteq Children
    /\ closed \subseteq Children
    /\ attempts \in 0..(MaxReconnect + 1)
    /\ pushStep \in {"loop", "push", "reconnect", "asleep", "ended"}
    /\ stopStep \in {"not_called", "close", "wait", "clear", "join", "done"}

StreamerInit ==
    /\ streaming = TRUE /\ process = 1 /\ alive = {1} /\ broken = {} /\ closed = {} /\ spawned = 1
    /\ attempts = 0 /\ pushStep = "loop" /\ stopStep = "not_called"
    /\ inReconnect = FALSE

-----------------------------------------------------------------------------
(* ffmpeg exits, at any time or because its input has ended. *)
ChildDies(p) ==
    /\ p \in alive /\ alive' = alive \ {p}
    /\ UNCHANGED <<streaming, process, broken, closed, spawned, attempts, pushStep, stopStep,
                   inReconnect>>

(* ffmpeg closes its input and does not exit. *)
ChildHangs(p) ==
    /\ p \in alive /\ broken' = broken \union {p}
    /\ UNCHANGED <<streaming, process, alive, closed, spawned, attempts, pushStep, stopStep,
                   inReconnect>>

-----------------------------------------------------------------------------
(* while self._running: a frame is due. *)
FrameDue ==
    /\ pushStep = "loop"
    /\ pushStep' = IF streaming THEN "push" ELSE "ended"
    /\ UNCHANGED <<streaming, process, alive, broken, closed, spawned, attempts, stopStep,
                   inReconnect>>

(* poll() and the write: the frame goes out, or the child is gone or its pipe
   is broken, and the thread goes on to _try_reconnect.  A write to a stdin
   that stop() has closed is only logged. *)
PushFrame ==
    /\ pushStep = "push"
    /\ pushStep' = IF process \in alive \ (broken \ closed) THEN "loop" ELSE "reconnect"
    /\ UNCHANGED <<streaming, process, alive, broken, closed, spawned, attempts, stopStep,
                   inReconnect>>

(* _try_reconnect: one more attempt, unless there were too many. *)
CountAttempt ==
    /\ pushStep = "reconnect"
    /\ attempts' = attempts + 1
    /\ IF attempts < MaxReconnect
       THEN pushStep' = "asleep" /\ streaming' = streaming
       ELSE pushStep' = "ended" /\ streaming' = FALSE
    /\ UNCHANGED <<process, alive, broken, closed, spawned, stopStep, inReconnect>>

(* Mutant: the old child is not killed. *)
Reconnect_NoKill ==
    /\ pushStep = "asleep" /\ spawned < MaxSpawns
    /\ spawned' = spawned + 1 /\ process' = spawned + 1
    /\ alive' = alive \union {spawned + 1}
    /\ attempts' = 0
    /\ pushStep' = "loop"
    /\ UNCHANGED <<streaming, broken, closed, stopStep, inReconnect>>

(* After the sleep: kill the old child, spawn the next; its success sets the
   count of attempts back.  Nobody asks whether stop() was called. *)
Reconnect ==
    /\ pushStep = "asleep" /\ spawned < MaxSpawns
    /\ spawned' = spawned + 1 /\ process' = spawned + 1
    /\ alive' = (alive \ {process}) \union {spawned + 1}
    /\ attempts' = 0
    /\ pushStep' = "loop"
    /\ UNCHANGED <<streaming, broken, closed, stopStep, inReconnect>>

(* The spawn fails: the loop ends, and _running stays set. *)
ReconnectFails ==
    /\ pushStep = "asleep"
    /\ process' = 0 /\ alive' = alive \ {process}
    /\ pushStep' = "ended"
    /\ UNCHANGED <<streaming, broken, closed, spawned, attempts, stopStep, inReconnect>>

PushThread == FrameDue \/ PushFrame \/ CountAttempt \/ Reconnect \/ ReconnectFails

-----------------------------------------------------------------------------
StopCalled ==
    /\ stopStep = "not_called"
    /\ IF ~streaming /\ process = 0
       THEN stopStep' = "done" /\ streaming' = streaming
       ELSE /\ streaming' = FALSE
            /\ stopStep' = IF process = 0 THEN "join" ELSE "close"
    /\ inReconnect' = (pushStep \in {"push", "reconnect", "asleep"})
    /\ UNCHANGED <<process, alive, broken, closed, spawned, attempts, pushStep>>

StopCloses ==
    /\ stopStep = "close"
    /\ closed' = closed \union ({process} \ {0})
    /\ stopStep' = "wait"
    /\ UNCHANGED <<streaming, process, alive, broken, spawned, attempts, pushStep, inReconnect>>

(* wait() returns when the child has exited, or times out and kill() is
   called, on the child the handle names by then. *)
StopWaits ==
    /\ stopStep = "wait"
    /\ alive' = alive \ {process}
    /\ stopStep' = "clear"
    /\ UNCHANGED <<streaming, process, broken, closed, spawned, attempts, pushStep, inReconnect>>

(* finally: self._process = None, whatever it has become. *)
StopClears ==
    /\ stopStep = "clear"
    /\ process' = 0
    /\ stopStep' = "join"
    /\ UNCHANGED <<streaming, alive, broken, closed, spawned, attempts, pushStep, inReconnect>>

(* join with a timeout shorter than the sleep of _try_reconnect. *)
StopJoins ==
    /\ stopStep = "join"
    /\ stopStep' = "done"
    /\ UNCHANGED <<streaming, process, alive, broken, closed, spawned, attempts, pushStep,
                   inReconnect>>

StopStreamer == StopCalled \/ StopCloses \/ StopWaits \/ StopClears \/ StopJoins

StreamerNext ==
    \/ PushThread \/ StopStreamer
    \/ \E p \in Children : ChildDies(p) \/ ChildHangs(p)

StreamerSpec == StreamerInit /\ [][StreamerNext]_streamerVars

-----------------------------------------------------------------------------
(* When stop() and the push thread are through, no ffmpeg child is left, unless
   stop() met the thread on its way to a respawn, and then at most one is; no
   child is ever left behind by a reconnection.  (stop, _try_reconnect) *)
NoStrayChild ==
    /\ alive \subseteq {process} \union (IF stopStep = "not_called" THEN {} ELSE {spawned})
    /\ stopStep = "done" /\ pushStep = "ended" /\ ~inReconnect => alive = {}

(* A reconnection either succeeds, and sets the count back, or ends the thread:
   the limit on attempts and the growing delay never come into play. *)
AttemptsStayAtOne == attempts <= 1
=============================================================================
