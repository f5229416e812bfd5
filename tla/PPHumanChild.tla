---------------------------- MODULE PPHumanChild ----------------------------
(***************************************************************************)
(* A PP-Human child: the vendored pipeline.py with this project's patches. *)
(* One thread captures frames into a bounded queue; the main thread takes  *)
(* them, tracks, pushes the picture to ffmpeg and sends one event per      *)
(* tracked box to stream:detections through RedisSideChannel, after it has *)
(* uploaded the frame to MinIO.                                            *)
(*                                                                         *)
(* Of the models only tracking is enabled in this deployment, and it is    *)
(* reduced to the set of track ids it finds in a frame.                    *)
(***************************************************************************)
EXTENDS Integers, Sequences

CONSTANTS
    FrameQueue,     \* framequeue's size
    TrackIds,       \* local track ids
    MaxCaptured,    \* bound on the frames read
    MaxChildFaults  \* bound on failing uploads, XADDs and deaths of ffmpeg

ASSUME ChildAssumption ==
    /\ FrameQueue \in Nat \ {0}
    /\ TrackIds \subseteq Nat \ {0}
    /\ {MaxCaptured, MaxChildFaults} \subseteq Nat

VARIABLES
    rewindable,   \* the source is a file; else an RTSP stream
    skipUpload,   \* PPHUMAN_SKIP_FRAME_UPLOAD
    capturing,    \* the capture thread runs
    captured,     \* frames read so far
    frameQueue,   \* framequeue
    loopAt,       \* main thread: "check", "push", "upload", "xadd", "ended", "crashed"
    frame,        \* frame_id of the frame in hand
    boxes,        \* track ids of the frame that are still to be emitted
    uri,          \* frame_uri of the event being built: a frame, or 0 for None
    frameCache,   \* _frame_cache: frames with a cached URI
    bucket,       \* frames stored in MinIO
    ffmpegUp,     \* the ffmpeg process behind PushStream
    sent,         \* events in stream:detections
    childFaults

childVars == <<rewindable, skipUpload, capturing, captured, frameQueue, loopAt, frame, boxes,
               uri, frameCache, bucket, ffmpegUp, sent, childFaults>>

sourceVars == <<rewindable, skipUpload, capturing, captured>>

ChildInit ==
    /\ rewindable \in BOOLEAN /\ skipUpload \in BOOLEAN
    /\ capturing = TRUE /\ captured = 0 /\ frameQueue = <<>>
    /\ loopAt = "check" /\ frame = 0 /\ boxes = {} /\ uri = 0
    /\ frameCache = {} /\ bucket = {} /\ ffmpegUp = TRUE /\ sent = {}
    /\ childFaults = 0

ChildFault == childFaults < MaxChildFaults /\ childFaults' = childFaults + 1

-----------------------------------------------------------------------------
(* capturevideo: it waits while the queue is full; a file starts over at its
   end. *)
CaptureFrame ==
    /\ capturing /\ captured < MaxCaptured
    /\ Len(frameQueue) < FrameQueue
    /\ captured' = captured + 1
    /\ frameQueue' = Append(frameQueue, captured + 1)
    /\ UNCHANGED <<rewindable, skipUpload, capturing, loopAt, frame, boxes, uri, frameCache,
                   bucket, ffmpegUp, sent, childFaults>>

(* A stream that cannot be read cannot be rewound: the thread returns. *)
CaptureEnds ==
    /\ capturing /\ ~rewindable
    /\ Len(frameQueue) < FrameQueue
    /\ capturing' = FALSE
    /\ UNCHANGED <<rewindable, skipUpload, captured, frameQueue, loopAt, frame, boxes, uri,
                   frameCache, bucket, ffmpegUp, sent, childFaults>>

(* ffmpeg exits: the camera's RTSP path is taken, MediaMTX goes away. *)
FfmpegDies ==
    /\ ffmpegUp /\ ChildFault
    /\ ffmpegUp' = FALSE
    /\ UNCHANGED <<sourceVars, frameQueue, loopAt, frame, boxes, uri, frameCache, bucket,
                   sent>>

(* predict_video: while not framequeue.empty(): take the next frame and track. *)
TakeFrame ==
    /\ loopAt = "check" /\ frameQueue # <<>>
    /\ frame' = Head(frameQueue) /\ frameQueue' = Tail(frameQueue)
    /\ boxes' \in SUBSET TrackIds
    /\ loopAt' = "push"
    /\ UNCHANGED <<sourceVars, uri, frameCache, bucket, ffmpegUp, sent, childFaults>>

(* The condition is false as soon as the loop has caught up with the capture
   thread. *)
LoopEnds ==
    /\ loopAt = "check" /\ frameQueue = <<>>
    /\ loopAt' = "ended"
    /\ UNCHANGED <<sourceVars, frameQueue, frame, boxes, uri, frameCache, bucket, ffmpegUp,
                   sent, childFaults>>

(* The picture is written to ffmpeg's stdin, before any event; a frame without
   boxes goes no further. *)
PushPicture ==
    /\ loopAt = "push"
    /\ loopAt' = IF ~ffmpegUp THEN "crashed" ELSE IF boxes = {} THEN "check" ELSE "upload"
    /\ UNCHANGED <<sourceVars, frameQueue, frame, boxes, uri, frameCache, bucket, ffmpegUp,
                   sent, childFaults>>

-----------------------------------------------------------------------------
(* Mutant: the URI is cached before the PUT, as the asynchronous variant of the
   upload is on the way to do. *)
CacheFrame_First ==
    IF skipUpload
    THEN uri' = 0 /\ UNCHANGED <<frameCache, bucket, childFaults>>
    ELSE \/ frame \in frameCache /\ uri' = frame
            /\ UNCHANGED <<frameCache, bucket, childFaults>>
         \/ /\ frame \notin frameCache
            /\ frameCache' = frameCache \union {frame}
            /\ \/ uri' = frame /\ bucket' = bucket \union {frame} /\ UNCHANGED childFaults
               \/ uri' = 0 /\ UNCHANGED bucket /\ ChildFault

(* _cache_frame_to_minio: one PUT per frame; a failed one leaves the event
   without a frame and is tried again with the next box. *)
CacheFrame ==
    IF skipUpload
    THEN uri' = 0 /\ UNCHANGED <<frameCache, bucket, childFaults>>
    ELSE \/ frame \in frameCache /\ uri' = frame
            /\ UNCHANGED <<frameCache, bucket, childFaults>>
         \/ frame \notin frameCache /\ uri' = frame
            /\ bucket' = bucket \union {frame} /\ frameCache' = frameCache \union {frame}
            /\ UNCHANGED childFaults
         \/ frame \notin frameCache /\ uri' = 0 /\ UNCHANGED <<frameCache, bucket>>
            /\ ChildFault

BuildEvent ==
    /\ loopAt = "upload" /\ CacheFrame
    /\ loopAt' = "xadd"
    /\ UNCHANGED <<sourceVars, frameQueue, frame, boxes, ffmpegUp, sent>>

(* emit_detection: a failed XADD is counted and the event dropped.  The boxes
   of a frame come in any order. *)
EmitDetection ==
    /\ loopAt = "xadd"
    /\ \E tid \in boxes :
          /\ \/ sent' = sent \union {[frame |-> frame, tid |-> tid, uri |-> uri]}
                /\ UNCHANGED childFaults
             \/ UNCHANGED sent /\ ChildFault
          /\ boxes' = boxes \ {tid}
    /\ loopAt' = IF boxes' = {} THEN "check" ELSE "upload"
    /\ UNCHANGED <<sourceVars, frameQueue, frame, uri, frameCache, bucket, ffmpegUp>>

Predict == TakeFrame \/ LoopEnds \/ PushPicture \/ BuildEvent \/ EmitDetection

ChildNext == CaptureFrame \/ CaptureEnds \/ FfmpegDies \/ Predict

ChildSpec == ChildInit /\ [][ChildNext]_childVars

-----------------------------------------------------------------------------
(* A frame_uri in stream:detections names the event's own frame, and the object
   is there before the event is: what the TransReID sidecar is told to fetch
   exists, whichever uploads failed for other boxes of the same frame. *)
FrameLinksHold ==
    \A e \in sent : e.uri # 0 => e.uri = e.frame /\ e.frame \in bucket
=============================================================================
