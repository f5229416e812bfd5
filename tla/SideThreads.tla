---------------------------- MODULE SideThreads ----------------------------
(***************************************************************************)
(* The threads that run beside the identity pipeline: dwell sessions, the  *)
(* overlay's identity cache, the queues of a camera, the reader of a live  *)
(* stream, the children of the PP-Human manager, the streamer.             *)
(*                                                                         *)
(* No two of the parts share a variable: they run in threads of their own  *)
(* and meet only in data this model abstracts from (a frame, a label, a    *)
(* decision).  Every property below is about one part, so a behaviour of   *)
(* all of them satisfies it if and only if the steps of that part do, and  *)
(* the parts are explored one at a time: `part' is chosen at the start.    *)
(***************************************************************************)
EXTENDS DwellSessions, OverlayCache, CameraQueues, ResilientReader, PPHumanPipeline,
        MediaMTXStreamer

VARIABLE part    \* the part that runs

sideVars == <<part, dwellVars, overlayVars, queueVars, readerVars, pipelineVars,
              streamerVars>>

Parts == {"dwell", "overlay", "queues", "reader", "pipeline", "streamer"}

SideInit ==
    /\ part \in Parts
    /\ DwellInit /\ OverlayInit /\ QueuesInit /\ ReaderInit /\ PipelineInit
    /\ StreamerInit
    /\ part # "queues" => dropPolicy = "drop_oldest"
    /\ part # "reader" => cameraUp

SideNext ==
    \/ /\ part = "dwell" /\ DwellNext
       /\ UNCHANGED <<part, overlayVars, queueVars, readerVars, pipelineVars, streamerVars>>
    \/ /\ part = "overlay" /\ OverlayNext
       /\ UNCHANGED <<part, dwellVars, queueVars, readerVars, pipelineVars, streamerVars>>
    \/ /\ part = "queues" /\ QueuesNext
       /\ UNCHANGED <<part, dwellVars, overlayVars, readerVars, pipelineVars, streamerVars>>
    \/ /\ part = "reader" /\ ReaderNext
       /\ UNCHANGED <<part, dwellVars, overlayVars, queueVars, pipelineVars, streamerVars>>
    \/ /\ part = "pipeline" /\ PipelineNext
       /\ UNCHANGED <<part, dwellVars, overlayVars, queueVars, readerVars, streamerVars>>
    \/ /\ part = "streamer" /\ StreamerNext
       /\ UNCHANGED <<part, dwellVars, overlayVars, queueVars, readerVars, pipelineVars>>

SideSpec == SideInit /\ [][SideNext]_sideVars

(* Threads that are up take their steps: the generator inside its worker, the
   worker and the drain thread, stream() once it has to end, each monitor.
   Nothing is assumed of cameras, children, producers or the clock. *)
FairSideSpec ==
    /\ SideSpec
    /\ WF_queueVars(part = "queues" /\ CameraWorker)
    /\ WF_queueVars(part = "queues" /\ Drain)
    /\ WF_queueVars(part = "queues" /\ StreamEnds)
    /\ WF_readerVars(part = "reader" /\ Reader)
    /\ \A c \in Cams : WF_pipelineVars(part = "pipeline" /\ Monitor(c))
=============================================================================
