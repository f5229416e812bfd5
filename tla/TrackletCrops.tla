---------------------------- MODULE TrackletCrops ----------------------------
(***************************************************************************)
(* Where the pictures of a tracklet come from that ReID embeds.            *)
(*                                                                         *)
(* The collector keeps, per detection, the box and the URI of the frame    *)
(* that the PP-Human child has uploaded, None when it has not; in the      *)
(* legacy mode it uploads crops itself.  A worker that takes the closed    *)
(* tracklet - the TransReID sidecar, or the ReID worker of the API process *)
(* - downloads the frames and cuts the boxes out of them, or downloads the *)
(* crops; the sidecar falls back on the ring buffer that a thread fills    *)
(* from the camera's RTSP stream.  Each picture becomes a Qdrant point     *)
(* whose id is the tracklet's and the picture's number, so that a worker   *)
(* that comes back to the tracklet overwrites the points it wrote before.  *)
(*                                                                         *)
(* A frame and the box found in it go by the detection's number within the *)
(* tracklet, a frame of the ring by its number on the RTSP stream.  Pixels,*)
(* boxes' geometry and the network are left out: cutting a box gives a     *)
(* picture or, when the box is degenerate or a download has failed, none.  *)
(* SAHI's boxes, which come without a URI, never join a tracklet with      *)
(* URIs: their key has frame id 0, and track ids start at 1.               *)
(***************************************************************************)
EXTENDS Integers, Sequences, FiniteSets

CONSTANTS
    MaxCrops,        \* max_crops of the collector, 15; the sidecar's own, by default
                     \* 8, leaves it a prefix of what is here
    RingSize,        \* ring_size of the RTSP buffer, 300
    MaxStored,       \* bound on the crops the collector uploads
    MaxRingFrames,   \* bound on the frames read from the RTSP stream
    MaxVisits        \* bound on the deliveries of the tracklet

ASSUME CropsAssumption ==
    /\ {MaxCrops, RingSize} \subseteq Nat \ {0}
    /\ {MaxStored, MaxRingFrames, MaxVisits} \subseteq Nat

VARIABLES
    embedder,     \* which of the two workers it is
    frameUris,    \* frame_uris: the frame's number, or NoUri
    frameBoxes,   \* frame_bboxes: the number of the frame each was found in
    cropUris,     \* crop_uris
    visit,        \* what the worker is at
    pairs,        \* the (frame, box) pairs, or crops, it has still to load
    crops,        \* the pictures it has cut
    qdrant,       \* qdrant[i]: the picture of point i, or NoCrop
    visits,       \* deliveries so far
    readCount,    \* frames read from the RTSP stream
    ring,         \* _frames
    ringReader    \* the buffer's thread: "closed", "reading", "full", "room", "stopped"

cropVars == <<embedder, frameUris, frameBoxes, cropUris, visit, pairs, crops, qdrant,
              visits, readCount, ring, ringReader>>
trackVars == <<frameUris, frameBoxes, cropUris>>
ringVars == <<readCount, ring, ringReader>>

NoUri == 0
NoCrop == [source |-> "none", frame |-> 0, box |-> 0, behind |-> 0]

CropsInit ==
    /\ embedder \in {"sidecar", "worker"}
    /\ frameUris = <<>> /\ frameBoxes = <<>> /\ cropUris = <<>>
    /\ visit = "open" /\ pairs = <<>> /\ crops = <<>>
    /\ qdrant = [i \in 1..MaxCrops |-> NoCrop] /\ visits = 0
    /\ readCount = 0 /\ ring = <<>> /\ ringReader = "closed"

-----------------------------------------------------------------------------
(* The collector.  Box and URI are captured together, up to MaxCrops. *)
CaptureDetection ==
    /\ visit = "open" /\ Len(frameBoxes) < MaxCrops
    /\ LET n == Len(frameBoxes) + 1
       IN  /\ frameBoxes' = Append(frameBoxes, n)
           /\ \E uri \in {n, NoUri} : frameUris' = Append(frameUris, uri)
    /\ UNCHANGED <<embedder, cropUris, visit, pairs, crops, qdrant, visits, ringVars>>

(* _on_frame_locked, the crop has been uploaded. *)
StoreCrop ==
    /\ visit = "open" /\ Len(cropUris) < MaxStored
    /\ cropUris' = Append(cropUris, Len(cropUris) + 1)
    /\ UNCHANGED <<embedder, frameUris, frameBoxes, visit, pairs, crops, qdrant, visits,
                   ringVars>>

(* The tracklet is closed and announced, with at most MaxCrops crops. *)
AnnounceTracklet ==
    /\ visit = "open" /\ visit' = "pending"
    /\ cropUris' = SubSeq(cropUris, 1, IF Len(cropUris) > MaxCrops THEN MaxCrops ELSE Len(cropUris))
    /\ UNCHANGED <<embedder, frameUris, frameBoxes, pairs, crops, qdrant, visits, ringVars>>

-----------------------------------------------------------------------------
(* zip(uris, boxes); no list of URIs here is longer than the boxes. *)
Zipped(uris, boxes) == [i \in 1..Len(uris) |-> <<uris[i], boxes[i]>>]

(* The URIs that are there, in their order: the k-th is the one up to which k
   are there. *)
Uploaded(uris) == {i \in DOMAIN uris : uris[i] # NoUri}
UploadsUpTo(uris, i) == {j \in Uploaded(uris) : j <= i}

Valid(uris) ==
    [k \in 1..Cardinality(Uploaded(uris)) |->
        uris[CHOOSE i \in Uploaded(uris) : Cardinality(UploadsUpTo(uris, i)) = k]]

VisitWith(path, todo) ==
    /\ visit = "pending" /\ visits < MaxVisits /\ ringReader # "stopped"
    /\ visits' = visits + 1
    /\ visit' = path /\ pairs' = todo /\ crops' = <<>>
    /\ UNCHANGED <<embedder, trackVars, qdrant, ringVars>>

(* The sidecar prefers uploaded frames to crops, and has the ring. *)
SidecarVisits ==
    /\ embedder = "sidecar"
    /\ IF Valid(frameUris) # <<>> THEN VisitWith("frames", Zipped(Valid(frameUris), frameBoxes))
       ELSE IF cropUris # <<>> THEN VisitWith("crops", Zipped(cropUris, cropUris))
       ELSE VisitWith("ring", Zipped(frameBoxes, frameBoxes))

(* The ReID worker prefers crops.  The embeddings of the side channel, which
   it would take before either, are not part of the message. *)
WorkerVisits ==
    /\ embedder = "worker"
    /\ IF cropUris # <<>> THEN VisitWith("crops", Zipped(cropUris, cropUris))
       ELSE VisitWith("frames", Zipped(Valid(frameUris), frameBoxes))

Loads(pair) ==
    /\ visit \in {"frames", "crops"} /\ pairs # <<>>
    /\ pairs' = Tail(pairs)
    /\ \/ crops' = crops
       \/ crops' = Append(crops, [source |-> visit, frame |-> pair[1], box |-> pair[2],
                                  behind |-> 0])
    /\ UNCHANGED <<embedder, trackVars, visit, qdrant, visits, ringVars>>

(* Mutant: frames are downloaded first and zipped with the boxes afterwards. *)
SidecarLoads_ThenZips ==
    /\ embedder = "sidecar" /\ pairs # <<>> /\ Loads(<<Head(pairs)[1], Len(crops) + 1>>)

(* The next picture; one whose download or box is no good is left out. *)
SidecarLoads == embedder = "sidecar" /\ pairs # <<>> /\ Loads(Head(pairs))

WorkerLoads == embedder = "worker" /\ pairs # <<>> /\ Loads(Head(pairs))

(* The next box is cut out of whatever get_frame returns: the head of the
   ring, which is the oldest frame, or nothing when none comes in time. *)
CutFromRing ==
    /\ visit = "ring" /\ pairs # <<>>
    /\ pairs' = Tail(pairs)
    /\ IF ring = <<>>
       THEN crops' = crops /\ ring' = ring
       ELSE /\ ring' = Tail(ring)
            /\ \/ crops' = crops
               \/ crops' = Append(crops, [source |-> "ring", frame |-> 0,
                                          box |-> Head(pairs)[2],
                                          behind |-> readCount - Head(ring)])
    /\ UNCHANGED <<embedder, trackVars, visit, qdrant, visits, readCount, ringReader>>

AtWork == visit \in {"frames", "crops", "ring"} /\ pairs = <<>>

(* No picture, or no embedding of any: the sidecar leaves the tracklet
   pending, the ReID worker acknowledges it. *)
SkipTracklet ==
    /\ AtWork
    /\ visit' = IF embedder = "sidecar" THEN "pending" ELSE "done"
    /\ UNCHANGED <<embedder, trackVars, pairs, crops, qdrant, visits, ringVars>>

Writes(written) ==
    /\ AtWork /\ crops # <<>>
    /\ qdrant' = [i \in DOMAIN qdrant |-> IF i \in written THEN crops[i] ELSE qdrant[i]]
    /\ \/ visit' = "pending"
       \/ written = DOMAIN crops /\ visit' = "done"
    /\ UNCHANGED <<embedder, trackVars, pairs, crops, visits, ringVars>>

(* The sidecar writes every point it can, then the rows and the announcement;
   any failure leaves the tracklet pending. *)
SidecarWrites == embedder = "sidecar" /\ \E written \in SUBSET (DOMAIN crops) : Writes(written)

(* The ReID worker writes point and row in turn and stops at a failure. *)
WorkerWrites == embedder = "worker" /\ \E n \in 0..Len(crops) : Writes(1..n)

-----------------------------------------------------------------------------
(* The thread of the RTSP buffer. *)
BufferConnects ==
    /\ ringReader = "closed" /\ ringReader' = "reading"
    /\ UNCHANGED <<embedder, trackVars, visit, pairs, crops, qdrant, visits, readCount, ring>>

(* Mutant: a full buffer drops the new frame. *)
BufferReads_DropsNewest ==
    /\ ringReader = "reading" /\ readCount < MaxRingFrames
    /\ readCount' = readCount + 1
    /\ ring' = IF Len(ring) < RingSize THEN Append(ring, readCount + 1) ELSE ring
    /\ UNCHANGED <<embedder, trackVars, visit, pairs, crops, qdrant, visits, ringReader>>

(* read(), and put_nowait, which a full buffer refuses. *)
BufferReads ==
    /\ ringReader = "reading" /\ readCount < MaxRingFrames
    /\ readCount' = readCount + 1
    /\ IF Len(ring) < RingSize
       THEN ring' = Append(ring, readCount + 1) /\ ringReader' = "reading"
       ELSE ring' = ring /\ ringReader' = "full"
    /\ UNCHANGED <<embedder, trackVars, visit, pairs, crops, qdrant, visits>>

(* get_nowait, on a buffer that the sidecar may have emptied meanwhile. *)
DropOldest ==
    /\ ringReader = "full" /\ ringReader' = "room"
    /\ ring' = IF ring = <<>> THEN ring ELSE Tail(ring)
    /\ UNCHANGED <<embedder, trackVars, visit, pairs, crops, qdrant, visits, readCount>>

PutAgain ==
    /\ ringReader = "room" /\ ringReader' = "reading"
    /\ ring' = Append(ring, readCount)
    /\ UNCHANGED <<embedder, trackVars, visit, pairs, crops, qdrant, visits, readCount>>

(* A read fails; the thread releases the capture and backs off. *)
BufferFails ==
    /\ ringReader = "reading" /\ ringReader' = "closed"
    /\ UNCHANGED <<embedder, trackVars, visit, pairs, crops, qdrant, visits, readCount, ring>>

(* A signal ends run(), which stops the buffers. *)
SidecarStops ==
    /\ embedder = "sidecar" /\ visit \in {"open", "pending", "done"}
    /\ ringReader # "stopped" /\ ringReader' = "stopped"
    /\ UNCHANGED <<embedder, trackVars, visit, pairs, crops, qdrant, visits, readCount, ring>>

CropsNext ==
    \/ CaptureDetection \/ StoreCrop \/ AnnounceTracklet
    \/ SidecarVisits \/ WorkerVisits \/ SidecarLoads \/ WorkerLoads \/ CutFromRing
    \/ SkipTracklet \/ SidecarWrites \/ WorkerWrites
    \/ embedder = "sidecar" /\ (\/ BufferConnects \/ BufferReads \/ DropOldest \/ PutAgain
                                \/ BufferFails)
    \/ SidecarStops

CropsSpec == CropsInit /\ [][CropsNext]_cropVars

-----------------------------------------------------------------------------
(* A point of the tracklet shows the person of the tracklet: its box was cut
   out of the frame it was found in, unless the upload of an earlier frame of
   the tracklet is missing; or out of a frame of the ring that at most RingSize
   newer ones have followed.  With a missing upload the boxes shift against
   the frames: both workers drop the None from frame_uris and zip the rest
   with all of frame_bboxes.  (process_tracklet of sidecar and ReID worker,
   RTSPFrameBuffer) *)
PointsAreOwn ==
    \A i \in DOMAIN qdrant :
        LET point == qdrant[i]
        IN  /\ point.frame = point.box \/ point.source = "ring"
               \/ \E j \in 1..(point.frame - 1) : frameUris[j] = NoUri
            /\ point.behind <= RingSize
=============================================================================
