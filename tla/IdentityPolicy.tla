--------------------------- MODULE IdentityPolicy ---------------------------
(***************************************************************************)
(* The resolver's decision policy, without state: the five-factor score of *)
(* app/identity/scoring.py, the decision of app/identity/ambiguity.py and  *)
(* the topology questions of app/identity/camera_topology.py.              *)
(*                                                                         *)
(* Scores and weights are percentages; a weighted score is in 0..10000 and *)
(* is compared with 100 times a threshold.                                 *)
(***************************************************************************)
EXTENDS Integers, FiniteSets

CONSTANTS
    Cameras,
    Links,               \* camera_links rows: [from, to, min, max, enabled]
    Decay,               \* Decay[age]: the temporal score, a percentage
    Quality,             \* the tracklets' quality score
    AutoMatch,           \* auto_match_threshold
    Candidate,           \* candidate_threshold
    Stage3AutoMatch,     \* stage3_auto_match_threshold
    AmbiguousMargin,     \* ambiguous_margin
    ReidOverride         \* reid_override_threshold

ASSUME LinksAssumption ==
    /\ \A l \in Links : /\ l.from \in Cameras /\ l.to \in Cameras
                        /\ l.min \in Nat /\ l.max \in Nat /\ l.enabled \in BOOLEAN
    /\ \A l, k \in Links : l.from = k.from /\ l.to = k.to => l = k
ASSUME ScoreAssumption ==
    /\ Decay \in [DOMAIN Decay -> 0..100] /\ Quality \in 0..100
    /\ {AutoMatch, Candidate, Stage3AutoMatch, ReidOverride} \subseteq 0..100
    /\ AmbiguousMargin \in 0..99

(* is_known_link: an enabled row, a disabled row, or no row. *)
EnabledLink(from, to) == \E l \in Links : l.from = from /\ l.to = to /\ l.enabled
DisabledLink(from, to) == \E l \in Links : l.from = from /\ l.to = to /\ ~l.enabled

(* candidate_cameras_for *)
LinkedFrom(cam) == {c \in Cameras : EnabledLink(cam, c)}

(* The travel window that a sighting on camera from must have left for one on
   camera to. *)
WithinTravel(from, to, age) ==
    \E l \in Links : /\ l.from = from /\ l.to = to /\ l.enabled
                     /\ l.min <= age /\ age <= l.max

TopologyCameras == {l.from : l \in Links} \union {l.to : l \in Links}

ReidWeight == 55
TemporalWeight == 20
CameraWeight == 15
QualityWeight == 5
ZoneWeight == 5

CameraTopologyScore(from, to) ==
    IF EnabledLink(from, to) THEN 100 ELSE IF DisabledLink(from, to) THEN 0 ELSE 50

(* No caller passes prev_zone_id, so one zone is always missing. *)
ZoneTransitionScore == 50

FinalScore(reid, age, from, to) ==
    ReidWeight * reid + TemporalWeight * Decay[age]
      + CameraWeight * CameraTopologyScore(from, to)
      + QualityWeight * Quality + ZoneWeight * ZoneTransitionScore

(* margin > ambiguous_margin; a missing top2 counts as a margin of 1.0. *)
Clear(score1, others) == \A s \in others : score1 - s > AmbiguousMargin

(* decide_ambiguity for a top1 with cosine reid, seen age ago on camera from;
   others holds top2's score, if there is a top2. *)
Decide(reid, others, age, from, to, auto) ==
    LET final == FinalScore(reid, age, from, to)
        clear == Clear(reid, others)
    IN  IF DisabledLink(from, to) THEN "new"
        ELSE IF clear /\ (reid >= ReidOverride \/ final >= 100 * auto) THEN "match"
        ELSE IF final < 100 * Candidate THEN "new"
        ELSE IF clear THEN "candidate" ELSE "ambiguous"
=============================================================================
