-------------------------- MODULE ResilientReader --------------------------
(***************************************************************************)
(* ResilientFrameReader over one live stream: a generator that reads       *)
(* frames, reconnects when a read fails, and yields a sentinel (None)      *)
(* while the camera is away.  Two loops: the one after a successful first  *)
(* open, and the one after a failed first open, which never reads.         *)
(*                                                                         *)
(* A capture that was open when the camera went down stays useless.  The   *)
(* age of _first_failure_ts is one of: unset, below degraded_after, below  *)
(* offline_after, beyond.                                                  *)
(***************************************************************************)
EXTENDS Integers

CONSTANTS
    MaxOutages    \* bound on the times the camera goes down

ASSUME OutagesAssumption == MaxOutages \in Nat

VARIABLES
    cameraUp,      \* whether the camera can be reached
    capture,       \* _cap: none, open, or open on a connection that is lost
    readerStep,    \* where the generator is
    sinceFailure,  \* age of _first_failure_ts
    status,        \* the camera status gauge
    opened,        \* the first open succeeded
    yielded,       \* what the last yield gave: nothing yet, None, or a frame
    outages        \* MaxOutages used up

readerVars == <<cameraUp, capture, readerStep, sinceFailure, status, opened, yielded,
                outages>>

Ages == {"unset", "short", "degraded", "offline"}

ReaderTypeOK ==
    /\ cameraUp \in BOOLEAN /\ opened \in BOOLEAN
    /\ capture \in {"none", "open", "lost"}
    /\ readerStep \in {"open", "dark", "dark_reconnect", "loop", "reconnect"}
    /\ sinceFailure \in Ages
    /\ status \in {"online", "degraded", "offline"}
    /\ yielded \in {"nothing", "sentinel", "frame"}
    /\ outages \in 0..MaxOutages

ReaderInit ==
    /\ cameraUp \in BOOLEAN
    /\ capture = "none" /\ readerStep = "open"
    /\ sinceFailure = "unset" /\ status = "online"
    /\ opened = FALSE /\ yielded = "nothing" /\ outages = 0

-----------------------------------------------------------------------------
CameraGoesDown ==
    /\ cameraUp /\ outages < MaxOutages
    /\ cameraUp' = FALSE /\ outages' = outages + 1
    /\ capture' = IF capture = "open" THEN "lost" ELSE capture
    /\ UNCHANGED <<readerStep, sinceFailure, status, opened, yielded>>

CameraComesUp ==
    /\ ~cameraUp /\ cameraUp' = TRUE
    /\ UNCHANGED <<capture, readerStep, sinceFailure, status, opened, yielded,
                   outages>>

(* Time passes since the first failure. *)
FailureAges ==
    /\ sinceFailure \in {"short", "degraded"}
    /\ sinceFailure' = IF sinceFailure = "short" THEN "degraded" ELSE "offline"
    /\ UNCHANGED <<cameraUp, capture, readerStep, status, opened, yielded,
                   outages>>

-----------------------------------------------------------------------------
FirstOpen ==
    /\ readerStep = "open"
    /\ IF cameraUp
       THEN /\ capture' = "open" /\ opened' = TRUE
            /\ readerStep' = "loop"
            /\ UNCHANGED <<sinceFailure, status>>
       ELSE /\ status' = "offline" /\ sinceFailure' = "short"
            /\ readerStep' = "dark"
            /\ UNCHANGED <<capture, opened>>
    /\ UNCHANGED <<cameraUp, yielded, outages>>

(* _record_failure: the age decides on the status. *)
RecordFailure ==
    /\ sinceFailure' = IF sinceFailure = "unset" THEN "short" ELSE sinceFailure
    /\ status' = IF sinceFailure \in {"degraded", "offline"} THEN sinceFailure ELSE status

(* A successful _try_reconnect, and one that fails: either way the capture
   there was has been released. *)
Reconnected ==
    /\ cameraUp /\ capture' = "open"
    /\ sinceFailure' = "unset" /\ status' = "online"

NotReconnected ==
    /\ ~cameraUp /\ capture' = "none"
    /\ UNCHANGED <<sinceFailure, status>>

(* The loop of a source that was dead at first: a sentinel, a failure, an
   attempt to reconnect, and again from the start whatever came of it. *)
DarkYield ==
    /\ readerStep = "dark"
    /\ yielded' = "sentinel"
    /\ RecordFailure
    /\ readerStep' = "dark_reconnect"
    /\ UNCHANGED <<cameraUp, capture, opened, outages>>

DarkReconnect ==
    /\ readerStep = "dark_reconnect"
    /\ Reconnected \/ NotReconnected
    /\ readerStep' = "dark"
    /\ UNCHANGED <<cameraUp, opened, yielded, outages>>

(* The loop of an opened source. *)
ReadFrame ==
    /\ readerStep = "loop" /\ capture = "open"
    /\ yielded' = "frame"
    /\ UNCHANGED <<cameraUp, capture, readerStep, sinceFailure, status, opened, outages>>

(* Mutant: a capture that failed once is read again and again. *)
ReadFails_Retries ==
    /\ readerStep = "loop" /\ capture = "lost"
    /\ RecordFailure
    /\ yielded' = "sentinel"
    /\ UNCHANGED <<cameraUp, capture, readerStep, opened, outages>>

ReadFails ==
    /\ readerStep = "loop" /\ capture = "lost"
    /\ RecordFailure
    /\ readerStep' = "reconnect"
    /\ UNCHANGED <<cameraUp, capture, opened, yielded, outages>>

(* After a failed read: reconnected, the frame that was not read is yielded,
   under a new id; otherwise a sentinel. *)
ReconnectAfterRead ==
    /\ readerStep = "reconnect"
    /\ Reconnected \/ NotReconnected
    /\ yielded' = "sentinel"
    /\ readerStep' = "loop"
    /\ UNCHANGED <<cameraUp, opened, outages>>

(* Top of the loop without a capture.  No failure is recorded here. *)
ReconnectInLoop ==
    /\ readerStep = "loop" /\ capture = "none"
    /\ \/ Reconnected /\ UNCHANGED yielded
       \/ NotReconnected /\ yielded' = "sentinel"
    /\ UNCHANGED <<cameraUp, readerStep, opened, outages>>

Reader ==
    \/ FirstOpen \/ DarkYield \/ DarkReconnect
    \/ ReadFrame \/ ReadFails \/ ReconnectAfterRead \/ ReconnectInLoop

ReaderNext == Reader \/ CameraGoesDown \/ CameraComesUp \/ FailureAges

ReaderSpec == ReaderInit /\ [][ReaderNext]_readerVars

-----------------------------------------------------------------------------
(* Everything hangs on the first open.  A reader that was opened shows "online"
   through every outage, however long: only the first failed read records a
   failure, and nothing looks at its age afterwards.  A reader that was not
   opened never yields a frame, also when it has long reconnected, and then its
   status is "online" as well.  (__iter__, _record_failure, _try_reconnect) *)
FirstOpenDecides ==
    /\ opened => status = "online"
    /\ yielded = "frame" => opened

(* A reader that was opened comes back from every outage: once the camera is
   up for good, frames are yielded again. *)
RecoversOnceOpened ==
    <>[](opened /\ cameraUp) => []<>(yielded = "frame")
=============================================================================
