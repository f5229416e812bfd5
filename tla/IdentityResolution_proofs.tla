---------------------- MODULE IdentityResolution_proofs ----------------------
(***************************************************************************)
(* For any tracklets, scenes, links, scores, thresholds and faults: every  *)
(* settled message has its audit row, every published assignment too, the  *)
(* stores agree on a tracklet no fault has touched, its identity is final, *)
(* and a match rests on a link, or on the override, as the policy says.    *)
(*                                                                         *)
(* Shape says what the variables hold, without the bound of the identities *)
(* (GidsMinted), so that minting one more changes no type.  Working and    *)
(* Announced tie the record of each process to the messages it is about;   *)
(* with them a row exists before a message is settled.  Followed carries   *)
(* what DecisionsAre says of a decision from the search to the audit.      *)
(* Stories is the argument for the agreement of the stores: an undisturbed *)
(* tracklet has at most one message, and is in one of four phases, each    *)
(* with the values its stores must have.                                   *)
(*                                                                         *)
(* Accounted counts: it charges every identity without a tracklet, and     *)
(* every delivery that could bring about one more, to a fault of its own.  *)
(***************************************************************************)
EXTENDS IdentityResolution, FiniteSetTheorems, SequenceTheorems, TLAPS

(* Payloads, decisions and the resolver's record, with any identity. *)
Points == [gid : Nat, ts : 0..MaxTime]

AnyDecision ==
    [decision : {"match", "new", "candidate", "ambiguous"}, gid : Nat,
     ts : 0..MaxTime, from : Cameras, age : 0..MaxTime, reid : 0..100,
     contested : BOOLEAN]

Tasks == [step : {"create", "link", "mark", "audit", "publish"}, msg : Messages,
          decision : AnyDecision]

Backfills == [step : {"backfill"}, msg : Messages, decision : AnyDecision, copy : Points]

(* What the variables hold. *)
Shape ==
    /\ scene \in Scenes /\ owed \subseteq Tracklets
    /\ side = Idle \/ side \in [step : {"publish"}, tracklet : Tracklets, ts : 0..MaxTime]
    /\ clock \in 0..MaxTime
    /\ point \in [Tracklets -> Points \union {NoPoint}]
    /\ sent \subseteq Messages /\ pending \subseteq sent
    /\ task = Idle \/ task \in Tasks \/ task \in Backfills
    /\ minted \in Nat
    /\ trackletGid \in [Tracklets -> Nat]
    /\ audit \in [Tracklets -> Seq(AnyDecision)]
    /\ published \subseteq [tracklet : Tracklets, gid : Nat]
    /\ seen \subseteq Cameras
    /\ disturbed \subseteq Tracklets /\ faults \in 0..MaxFaults

(* Every identity in use was minted. *)
GidsMinted ==
    /\ \A t \in Tracklets :
          /\ point[t].gid <= minted /\ trackletGid[t] <= minted
          /\ \A r \in Rows(t) : r.gid <= minted
    /\ task # Idle => task.decision.gid <= minted
    /\ \A p \in published : p.gid <= minted

-----------------------------------------------------------------------------
(* A match whose camera differs was found within the travel window. *)
Feasible(t, d) ==
    d.decision = "match" /\ d.from # Cam(t) => WithinTravel(d.from, Cam(t), d.age)

(* A same-camera match on a camera without outgoing links is an override. *)
ByOverride(t, d) ==
    d.decision = "match" /\ d.from = Cam(t) /\ OnlyStage3(Cam(t)) => d.reid >= ReidOverride

(* Where a tracklet was seen. *)
LEMMA CamIsCamera == ASSUME scene \in Scenes, NEW t \in Tracklets PROVE Cam(t) \in Cameras
BY SizesAssumption DEF Cam

(* A score: no more than the cosine, and the first crop's is the cosine. *)
LEMMA ScoreOfCrop ==
  ASSUME scene \in Scenes, NEW m \in Messages, NEW u \in Tracklets, NEW k \in 1..Crops
  PROVE  /\ Score(m, <<u, k>>) \in Int
         /\ Score(m, <<u, 1>>) \in 0..100
         /\ Score(m, <<u, k>>) >= Score(m, <<u, 1>>) => k = 1
<1> DEFINE c == scene.sim[m.tracklet][u]
           s1 == Score(m, <<u, 1>>)
           sk == Score(m, <<u, k>>)
<1>1. m.tracklet \in Tracklets
  BY DEF Messages
<1>2. c \in 0..100
  BY <1>1, SizesAssumption
<1>3. k \in Nat /\ k >= 1
  BY SizesAssumption
<1>4. sk = c - (k - 1)
  BY DEF Score
<1>5. s1 = c - (1 - 1)
  BY DEF Score
<1> HIDE DEF c, s1, sk
<1>6. sk \in Int
  BY <1>2, <1>3, <1>4
<1>7. s1 \in 0..100
  BY <1>2, <1>5
<1>8. sk >= s1 => k = 1
  BY <1>2, <1>3, <1>4, <1>5
<1> QED
  BY <1>6, <1>7, <1>8 DEF s1, sk

(* A search returns, with any crop of a tracklet, its best one. *)
LEMMA BestCropReturned ==
  ASSUME Shape, NEW m \in Messages, NEW lost, NEW R \in Returned(m, lost),
         NEW u \in Tracklets, NEW k \in 1..Crops, <<u, k>> \in R
  PROVE  <<u, 1>> \in R /\ <<u, k>> \in Searched(m, lost)
<1>0. scene \in Scenes
  BY DEF Shape
<1>1. R \subseteq Searched(m, lost)
  <2>1. CASE R = Searched(m, lost)
    BY <2>1
  <2>2. CASE R # Searched(m, lost)
    BY <2>2 DEF Returned
  <2> QED
    BY <2>1, <2>2
<1>2. <<u, k>> \in Searched(m, lost)
  BY <1>1
<1>3. <<u, 1>> \in Searched(m, lost)
  <2>1. 1 \in 1..Crops
    BY SizesAssumption
  <2> QED
    BY <1>2, <2>1 DEF Searched
<1>4. CASE R = Searched(m, lost)
  BY <1>2, <1>3, <1>4
<1>5. CASE \A x \in R, y \in Searched(m, lost) \ R : Score(m, x) >= Score(m, y)
  <2> SUFFICES ASSUME <<u, 1>> \notin R PROVE FALSE
    BY <1>2
  <2>1. Score(m, <<u, k>>) >= Score(m, <<u, 1>>)
    BY <1>3, <1>5
  <2>2. k = 1
    BY <1>0, <2>1, ScoreOfCrop
  <2> QED
    BY <2>2
<1> QED
  BY <1>4, <1>5 DEF Returned

(* What decide_ambiguity decides: a match needs the override or the score, and
   no disabled link. *)
LEMMA DecideIs ==
  ASSUME NEW reid, NEW others, NEW age, NEW from, NEW to, NEW auto
  PROVE  /\ Decide(reid, others, age, from, to, auto)
              \in {"match", "new", "candidate", "ambiguous"}
         /\ Decide(reid, others, age, from, to, auto) = "match" =>
              /\ ~DisabledLink(from, to)
              /\ reid >= ReidOverride \/ FinalScore(reid, age, from, to) >= 100 * auto
BY DEF Decide

(* Without an enabled or a disabled link the weighted score stays at or below
   90 points. *)
LEMMA ScoreWithoutLink ==
  ASSUME NEW reid \in 0..100, NEW age \in 0..MaxTime, NEW from, NEW to,
         ~EnabledLink(from, to), ~DisabledLink(from, to)
  PROVE  FinalScore(reid, age, from, to) \in Int /\ FinalScore(reid, age, from, to) <= 9000
<1>1. Decay[age] \in 0..100
  BY ScoreAssumption, SizesAssumption
<1>2. CameraTopologyScore(from, to) = 50
  BY DEF CameraTopologyScore
<1>3. FinalScore(reid, age, from, to)
        = 55 * reid + 20 * Decay[age] + 15 * 50 + 5 * Quality + 5 * 50
  BY <1>2 DEF FinalScore, ReidWeight, TemporalWeight, CameraWeight, QualityWeight,
              ZoneWeight, ZoneTransitionScore
<1>4. Quality \in 0..100
  BY ScoreAssumption
<1> QED
  BY <1>1, <1>3, <1>4

(* Everything the resolver may decide on what a search returned. *)
LEMMA DecisionsAre ==
  ASSUME Shape, NEW m \in Messages, NEW lost, NEW R \in Returned(m, lost),
         NEW d \in Decisions(m, {x \in R : Usable(m, x)})
  PROVE  /\ d \in AnyDecision /\ d.ts = m.ts
         /\ d.decision # "match" => d.gid = NoGid
         /\ d.gid = NoGid \/ \E u \in Tracklets : d.gid = point[u].gid
         /\ Feasible(m.tracklet, d)
         /\ Stage3AutoMatch > 90 => ByOverride(m.tracklet, d)
<1> DEFINE H == {x \in R : Usable(m, x)}
           kept == PerCameraBest(m, H)
           cam == Cam(m.tracklet)
           auto == IF OnlyStage3(cam) THEN Stage3AutoMatch ELSE AutoMatch
<1>0. /\ m.tracklet \in Tracklets /\ m.ts \in 0..MaxTime /\ cam \in Cameras
      /\ scene \in Scenes
  BY CamIsCamera DEF Messages, Shape
<1>1. CASE kept = {}
  <2>1. d = NewDecision(m)
    BY <1>1 DEF Decisions
  <2>2. /\ d.decision = "new" /\ d.gid = NoGid /\ d.ts = m.ts
    BY <2>1 DEF NewDecision
  <2>3. d \in AnyDecision
    BY <1>0, <2>1, SizesAssumption DEF NewDecision, AnyDecision, NoGid
  <2> QED
    BY <2>2, <2>3 DEF Feasible, ByOverride
<1>2. CASE kept # {}
  <2> DEFINE from(x) == Cam(x[1])
             age(x) == IF m.ts >= point[x[1]].ts THEN m.ts - point[x[1]].ts ELSE 0
             others(x) == {Score(m, y) : y \in Best(m, kept \ {x})}
             verdict(x) == Decide(Score(m, x), others(x), age(x), from(x), cam, auto)
  <2>1. PICK x \in Best(m, kept) :
           d = [decision |-> verdict(x),
                gid |-> IF verdict(x) = "match" THEN point[x[1]].gid ELSE NoGid,
                ts |-> m.ts, from |-> from(x), age |-> age(x),
                reid |-> Score(m, x), contested |-> Rivals(m, x) # {}]
    BY <1>2 DEF Decisions
  <2>2. x \in kept /\ x \in H /\ x \in R
    BY DEF Best, PerCameraBest
  <2>3. R \subseteq Searched(m, lost)
    <3>1. CASE R = Searched(m, lost)
      BY <3>1
    <3>2. CASE R # Searched(m, lost)
      BY <3>2 DEF Returned
    <3> QED
      BY <3>1, <3>2
  <2>4. PICK u \in Tracklets, k \in 1..Crops : x = <<u, k>> /\ point[u] # NoPoint
    BY <2>2, <2>3 DEF Searched
  <2>5. x[1] = u /\ from(x) = Cam(u) /\ Cam(u) \in Cameras
    BY <1>0, <2>4, CamIsCamera
  <2>6. point[u] \in Points
    BY <2>4 DEF Shape
  <2>7. point[u].gid \in Nat /\ point[u].ts \in 0..MaxTime
    BY <2>6 DEF Points
  <2>8. age(x) \in 0..MaxTime
    BY <1>0, <2>5, <2>7, SizesAssumption
  <2>9. Score(m, x) \in 0..100
    <3>1. <<u, 1>> \in R
      BY <2>2, <2>4, BestCropReturned
    <3>2. <<u, 1>> \in H
      BY <2>2, <2>4, <3>1 DEF Usable
    <3>3. Score(m, <<u, 1>>) <= Score(m, <<u, k>>)
      BY <2>2, <2>4, <3>2 DEF PerCameraBest
    <3>4. Score(m, <<u, k>>) >= Score(m, <<u, 1>>) => k = 1
      BY <1>0, ScoreOfCrop
    <3>5. Score(m, <<u, k>>) \in Int /\ Score(m, <<u, 1>>) \in 0..100
      BY <1>0, ScoreOfCrop
    <3> HIDE DEF from, age, others, verdict
    <3>6. k = 1
      BY <3>3, <3>4, <3>5
    <3> QED
      BY <2>4, <3>5, <3>6
  <2>10. /\ verdict(x) \in {"match", "new", "candidate", "ambiguous"}
         /\ verdict(x) = "match" =>
              /\ ~DisabledLink(from(x), cam)
              /\ \/ Score(m, x) >= ReidOverride
                 \/ FinalScore(Score(m, x), age(x), from(x), cam) >= 100 * auto
    <3> HIDE DEF others, age, from, cam, auto
    <3> QED
      BY DecideIs
  <2>11. /\ d.decision = verdict(x) /\ d.ts = m.ts /\ d.from = from(x) /\ d.age = age(x)
         /\ d.reid = Score(m, x)
         /\ d.gid = IF verdict(x) = "match" THEN point[u].gid ELSE NoGid
    <3> HIDE DEF verdict, age, from
    <3> QED
      BY <2>1, <2>5
  <2>12. d \in AnyDecision
    <3>1. (Rivals(m, x) # {}) \in BOOLEAN
      OBVIOUS
    <3>2. (IF verdict(x) = "match" THEN point[u].gid ELSE NoGid) \in Nat
      BY <2>7 DEF NoGid
    <3>3. verdict(x) \in {"match", "new", "candidate", "ambiguous"}
      BY <2>10
    <3>4. from(x) \in Cameras
      BY <2>5
    <3> HIDE DEF verdict, age, from
    <3> QED
      BY <1>0, <2>1, <2>5, <2>8, <2>9, <3>1, <3>2, <3>3, <3>4 DEF AnyDecision
  <2>13. Feasible(m.tracklet, d)
    <3> SUFFICES ASSUME Cam(u) # cam PROVE WithinTravel(Cam(u), cam, age(x))
      BY <2>5, <2>11 DEF Feasible
    <3>1. InWindow(Cam(u), cam, m.ts - point[u].ts)
      BY <2>2, <2>3, <2>4, <2>5 DEF Searched
    <3>2. WithinTravel(Cam(u), cam, m.ts - point[u].ts)
      BY <3>1 DEF InWindow
    <3>3. m.ts - point[u].ts >= 0
      BY <1>0, <2>7, <3>2, LinksAssumption DEF WithinTravel
    <3>4. m.ts >= point[u].ts
      BY <1>0, <2>7, <3>3
    <3> QED
      BY <2>5, <3>2, <3>4
  <2>14. Stage3AutoMatch > 90 => ByOverride(m.tracklet, d)
    <3> SUFFICES ASSUME Stage3AutoMatch > 90, verdict(x) = "match", Cam(u) = cam,
                        OnlyStage3(cam)
                 PROVE  Score(m, x) >= ReidOverride
      BY <2>5, <2>11 DEF ByOverride
    <3>1. ~EnabledLink(cam, cam)
      BY <1>0 DEF OnlyStage3, LinkedFrom
    <3>2. auto = Stage3AutoMatch
      OBVIOUS
    <3>3. /\ FinalScore(Score(m, x), age(x), cam, cam) \in Int
          /\ FinalScore(Score(m, x), age(x), cam, cam) <= 9000
      <4> HIDE DEF age, cam, verdict
      <4> QED
        BY <2>5, <2>8, <2>9, <2>10, <3>1, ScoreWithoutLink
    <3>4. 100 * Stage3AutoMatch \in Int /\ 100 * Stage3AutoMatch > 9000
      <4>1. Stage3AutoMatch \in 0..100
        BY ScoreAssumption
      <4> QED
        BY <4>1
    <3>5. ~(FinalScore(Score(m, x), age(x), cam, cam) >= 100 * Stage3AutoMatch)
      <4> DEFINE f == FinalScore(Score(m, x), age(x), cam, cam)
                 s3 == 100 * Stage3AutoMatch
      <4>1. f \in Int /\ f <= 9000 /\ s3 \in Int /\ s3 > 9000
        BY <3>3, <3>4
      <4> HIDE DEF f, s3
      <4>2. ~(f >= s3)
        BY <4>1
      <4> QED
        BY <4>2 DEF f, s3
    <3> HIDE DEF age, verdict, cam
    <3> QED
      BY <2>5, <2>10, <3>2, <3>5
  <2>15. d.decision # "match" => d.gid = NoGid
    BY <2>11
  <2> QED
    BY <2>11, <2>12, <2>13, <2>14, <2>15
<1> QED
  BY <1>1, <1>2

-----------------------------------------------------------------------------
(* What is announced has its points in Qdrant; what the sidecar works on too,
   and it is still owed. *)
Announced ==
    /\ \A m \in sent : point[m.tracklet] # NoPoint
    /\ side # Idle => side.tracklet \in owed /\ point[side.tracklet] # NoPoint

(* The decision in progress is about a message still pending. *)
Working ==
    task # Idle =>
        /\ task.msg \in pending /\ task.decision.ts = task.msg.ts
        /\ task.step = "create" => task.decision.decision = "new"
        /\ task.step = "publish" => task.decision \in Rows(task.msg.tracklet)

(* What happens to the record of the resolver. *)
LEMMA TaskFields ==
  ASSUME Shape, task # Idle
  PROVE  /\ task.msg \in Messages /\ task.decision \in AnyDecision
         /\ task.msg.tracklet \in Tracklets
         /\ task.step \in {"create", "link", "mark", "backfill", "audit", "publish"}
         /\ task.step = "backfill" => task \in Backfills
         /\ task.step # "backfill" => task \in Tasks
BY DEF Shape, Tasks, Backfills, Messages

(* CreateIdentity gives the decision its identity. *)
LEMMA CreateIs ==
  ASSUME Shape, CreateIdentity
  PROVE  /\ task # Idle /\ task' # Idle /\ task' \in Tasks
         /\ task'.step = "link" /\ task'.msg = task.msg
         /\ task'.decision = [task.decision EXCEPT !.gid = minted + 1]
         /\ minted' = minted + 1
<1>1. task # Idle
  BY DEF CreateIdentity, Idle
<1>2. task \in Tasks
  BY <1>1, TaskFields DEF CreateIdentity
<1>3. minted + 1 \in Nat
  BY DEF Shape
<1>4. [task.decision EXCEPT !.gid = minted + 1] \in AnyDecision
  BY <1>2, <1>3 DEF Tasks, AnyDecision
<1>5. task' = [[task EXCEPT !.step = "link"] EXCEPT !.decision = [task.decision EXCEPT !.gid = minted + 1]]
  BY <1>2 DEF CreateIdentity, Tasks, AnyDecision
<1>6. task' \in Tasks /\ task'.step = "link" /\ task'.msg = task.msg
      /\ task'.decision = [task.decision EXCEPT !.gid = minted + 1]
  BY <1>2, <1>4, <1>5 DEF Tasks
<1> QED
  BY <1>1, <1>6 DEF CreateIdentity, Idle

(* The steps that only move on. *)
LEMMA MovesOn ==
  ASSUME Shape, LinkTracklet \/ AuditDecision
  PROVE  /\ task # Idle /\ task' # Idle /\ task' \in Tasks
         /\ task'.msg = task.msg /\ task'.decision = task.decision
         /\ task'.step = IF LinkTracklet THEN "mark" ELSE "publish"
<1>1. task # Idle
  BY DEF LinkTracklet, AuditDecision, Idle
<1>2. task \in Tasks
  BY <1>1, TaskFields DEF LinkTracklet, AuditDecision
<1>3. task.step = IF LinkTracklet THEN "link" ELSE "audit"
  BY DEF LinkTracklet, AuditDecision
<1>4. task' = [task EXCEPT !.step = IF LinkTracklet THEN "mark" ELSE "publish"]
  BY <1>3 DEF LinkTracklet, AuditDecision
<1> HIDE DEF LinkTracklet
<1>5. task' \in Tasks /\ task'.msg = task.msg /\ task'.decision = task.decision
      /\ task'.step = IF LinkTracklet THEN "mark" ELSE "publish"
  BY <1>2, <1>4 DEF Tasks
<1> QED
  BY <1>1, <1>5 DEF Idle

(* The backfill reads and writes the tracklet's points. *)
LEMMA MarkIs ==
  ASSUME Shape, Announced, Working, MarkSeen
  PROVE  /\ task # Idle /\ task' # Idle /\ task' \in Backfills
         /\ task'.msg = task.msg /\ task'.decision = task.decision
         /\ task'.step = "backfill"
<1>1. task # Idle
  BY DEF MarkSeen, Idle
<1>2. task.msg \in sent /\ task.msg.tracklet \in Tracklets
  BY <1>1, TaskFields DEF Working, Shape
<1>3. point[task.msg.tracklet] \in Points
  BY <1>2 DEF Shape, Announced
<1>4. task.msg \in Messages /\ task.decision \in AnyDecision
  BY <1>1, TaskFields
<1>5. task' = [step |-> "backfill", msg |-> task.msg, decision |-> task.decision,
               copy |-> point[task.msg.tracklet]]
  BY DEF MarkSeen
<1> QED
  BY <1>1, <1>3, <1>4, <1>5 DEF Backfills, Idle

(* ... after which the audit is next, whether or not it wrote. *)
LEMMA BackfillIs ==
  ASSUME Shape, BackfillWrites \/ BackfillFails
  PROVE  /\ task # Idle /\ task' # Idle /\ task' \in Tasks /\ task \in Backfills
         /\ task'.msg = task.msg /\ task'.decision = task.decision
         /\ task'.step = "audit"
<1>1. task # Idle /\ task.step = "backfill"
  BY DEF BackfillWrites, BackfillFails, Idle
<1>2. task.msg \in Messages /\ task.decision \in AnyDecision /\ task \in Backfills
  BY <1>1, TaskFields
<1>3. task' = [step |-> "audit", msg |-> task.msg, decision |-> task.decision]
  BY DEF BackfillWrites, BackfillFails, AfterBackfill
<1> QED
  BY <1>1, <1>2, <1>3 DEF Tasks, Idle

(* The search and the decision. *)
LEMMA ResolverDecidesIs ==
  ASSUME Shape, NEW m \in pending, ResolverDecides(m)
  PROVE  /\ task = Idle /\ task' # Idle /\ task' \in Tasks /\ task'.msg = m
         /\ task'.decision.ts = m.ts
         /\ \/ task'.step = "create" /\ task'.decision.decision = "new"
            \/ task'.step = "link" /\ task'.decision.decision = "match"
            \/ task'.step = "audit" /\ task'.decision.gid = NoGid
         /\ task'.decision.gid = NoGid \/ \E u \in Tracklets : task'.decision.gid = point[u].gid
         /\ Feasible(m.tracklet, task'.decision)
         /\ Stage3AutoMatch > 90 => ByOverride(m.tracklet, task'.decision)
         /\ \/ UNCHANGED <<faults, disturbed>>
            \/ Fault(m.tracklet)
<1>1. m \in Messages
  BY DEF Shape
<1> DEFINE Chosen(d) == [step |-> CASE d.decision = "new" -> "create"
                               [] d.decision = "match" -> "link"
                               [] OTHER -> "audit",
                      msg |-> m, decision |-> d]
<1>a. PICK lost \in {{}} \union {{c} : c \in CandidateCameras(Cam(m.tracklet))} :
         /\ IF lost = {} THEN NoFault ELSE Fault(m.tracklet)
         /\ \E R \in Returned(m, lost) :
            \E d \in Decisions(m, {x \in R : Usable(m, x)}) : task' = Chosen(d)
  BY DEF ResolverDecides
<1>b. PICK R \in Returned(m, lost) :
         \E d \in Decisions(m, {x \in R : Usable(m, x)}) : task' = Chosen(d)
  BY <1>a
<1>2. PICK d \in Decisions(m, {x \in R : Usable(m, x)}) : task' = Chosen(d)
  BY <1>b
<1>3. /\ d \in AnyDecision /\ d.ts = m.ts
      /\ d.decision # "match" => d.gid = NoGid
      /\ d.gid = NoGid \/ \E u \in Tracklets : d.gid = point[u].gid
      /\ Feasible(m.tracklet, d)
      /\ Stage3AutoMatch > 90 => ByOverride(m.tracklet, d)
  BY <1>1, DecisionsAre
<1>4. /\ task'.msg = m /\ task'.decision = d
      /\ \/ task'.step = "create" /\ d.decision = "new"
         \/ task'.step = "link" /\ d.decision = "match"
         \/ task'.step = "audit" /\ d.decision # "match"
  BY <1>2
<1>5. task' \in Tasks
  BY <1>1, <1>2, <1>3 DEF Tasks
<1>6. task' # Idle
  BY <1>4 DEF Idle
<1>7. task = Idle
  BY DEF ResolverDecides
<1>8. UNCHANGED <<faults, disturbed>> \/ Fault(m.tracklet)
  BY <1>a DEF NoFault
<1> QED
  BY <1>3, <1>4, <1>5, <1>6, <1>7, <1>8

-----------------------------------------------------------------------------
(* A fault uses up one of MaxFaults and disturbs one tracklet. *)
LEMMA FaultShape ==
  ASSUME Shape, NEW t \in Tracklets, NoFault \/ Fault(t)
  PROVE  disturbed' \subseteq Tracklets /\ faults' \in 0..MaxFaults
BY SizesAssumption DEF Shape, NoFault, Fault

(* One more row, for the tracklet that was decided. *)
LEMMA RowsOfAppend ==
  ASSUME NEW S, NEW s \in Seq(S), NEW d \in S
  PROVE  /\ Append(s, d) \in Seq(S)
         /\ {Append(s, d)[i] : i \in DOMAIN Append(s, d)}
               = {s[i] : i \in DOMAIN s} \union {d}
<1>1. Append(s, d) \in Seq(S) /\ Len(s) \in Nat
  OBVIOUS
<1>2. DOMAIN Append(s, d) = 1..(Len(s) + 1) /\ DOMAIN s = 1..Len(s)
  BY <1>1
<1>3. \A i \in 1..Len(s) : Append(s, d)[i] = s[i]
  OBVIOUS
<1>4. Append(s, d)[Len(s) + 1] = d
  OBVIOUS
<1>5. 1..(Len(s) + 1) = 1..Len(s) \union {Len(s) + 1}
  BY <1>1
<1> QED
  BY <1>1, <1>2, <1>3, <1>4, <1>5

(* Rows are decisions. *)
LEMMA RowsAreDecisions ==
  ASSUME Shape, NEW t \in Tracklets
  PROVE  Rows(t) \subseteq AnyDecision
<1> SUFFICES ASSUME NEW i \in DOMAIN audit[t] PROVE audit[t][i] \in AnyDecision
  BY DEF Rows
<1>1. audit[t] \in Seq(AnyDecision)
  BY DEF Shape
<1> QED
  BY <1>1, ElementOfSeq, LenProperties

(* The audit row of a decision. *)
LEMMA AuditRows ==
  ASSUME Shape, AuditDecision
  PROVE  /\ audit' \in [Tracklets -> Seq(AnyDecision)]
         /\ audit'[task.msg.tracklet] = Append(audit[task.msg.tracklet], task.decision)
         /\ \A u \in Tracklets : u # task.msg.tracklet => audit'[u] = audit[u]
         /\ \A u \in Tracklets :
              Rows(u)' = IF u = task.msg.tracklet THEN Rows(u) \union {task.decision}
                         ELSE Rows(u)
<1> DEFINE t == task.msg.tracklet
           more == Append(audit[t], task.decision)
<1>1. t \in Tracklets /\ task.decision \in AnyDecision
  BY MovesOn, TaskFields
<1>2. audit[t] \in Seq(AnyDecision)
  BY <1>1 DEF Shape
<1>3. /\ more \in Seq(AnyDecision)
      /\ {more[i] : i \in DOMAIN more}
             = {audit[t][i] : i \in DOMAIN audit[t]} \union {task.decision}
  <2> DEFINE s == audit[t]
             d == task.decision
             S == AnyDecision
  <2>1. s \in Seq(S) /\ d \in S
    BY <1>1, <1>2
  <2> HIDE DEF s, d, S, t
  <2>2. /\ Append(s, d) \in Seq(S)
        /\ {Append(s, d)[i] : i \in DOMAIN Append(s, d)}
               = {s[i] : i \in DOMAIN s} \union {d}
    BY <2>1, RowsOfAppend
  <2> QED
    BY <2>2 DEF s, d, S
<1>4. audit' = [audit EXCEPT ![t] = more] /\ audit \in [Tracklets -> Seq(AnyDecision)]
  BY DEF AuditDecision, Shape
<1> HIDE DEF t, more
<1>5. audit' \in [Tracklets -> Seq(AnyDecision)] /\ audit'[t] = more
      /\ \A u \in Tracklets : u # t => audit'[u] = audit[u]
  BY <1>1, <1>3, <1>4
<1>6. ASSUME NEW u \in Tracklets
      PROVE  Rows(u)' = IF u = t THEN Rows(u) \union {task.decision} ELSE Rows(u)
  <2>1. Rows(u)' = {audit'[u][i] : i \in DOMAIN audit'[u]}
    BY DEF Rows
  <2>2. CASE u = t
    BY <1>3, <1>5, <2>1, <2>2 DEF Rows
  <2>3. CASE u # t
    BY <1>5, <2>1, <2>3 DEF Rows
  <2> QED
    BY <2>2, <2>3
<1> QED
  BY <1>5, <1>6 DEF t, more

(* The sidecar's steps, and what a fault does to it. *)
LEMMA SidecarShape ==
  ASSUME Shape, Announced, Working,
         \/ Sidecar \/ SidecarStops
         \/ \E t \in Tracklets : RedeliverTracklet(t)
  PROVE  Shape' /\ Announced'
<1>1. CASE \E t \in Tracklets : SidecarUpsert(t)
  <2> PICK t \in Tracklets : SidecarUpsert(t)
    BY <1>1
  <2> PICK ts \in clock..MaxTime :
          /\ clock' = ts
          /\ point' = [point EXCEPT ![t] = [gid |-> NoGid, ts |-> ts]]
          /\ side' = [step |-> "publish", tracklet |-> t, ts |-> ts]
    BY DEF SidecarUpsert
  <2>1. ts \in 0..MaxTime
    BY SizesAssumption DEF Shape
  <2>2. [gid |-> NoGid, ts |-> ts] \in Points /\ [gid |-> NoGid, ts |-> ts] # NoPoint
    BY <2>1 DEF Points, NoGid, NoPoint
  <2>3. /\ point' \in [Tracklets -> Points \union {NoPoint}]
        /\ point'[t] # NoPoint
        /\ \A u \in Tracklets : point[u] # NoPoint => point'[u] # NoPoint
    BY <2>2 DEF Shape
  <2>4. side' \in [step : {"publish"}, tracklet : Tracklets, ts : 0..MaxTime]
        /\ side'.tracklet = t
    BY <2>1
  <2>5. UNCHANGED <<scene, owed, sent, pending, task, storeVars, faults, disturbed>>
        /\ t \in owed
    BY DEF SidecarUpsert, NoFault
  <2>6. Shape'
    BY <2>1, <2>3, <2>4, <2>5 DEF Shape, storeVars
  <2>7. \A m \in sent : m.tracklet \in Tracklets
    BY DEF Shape, Messages
  <2>8. Announced'
    BY <2>3, <2>4, <2>5, <2>7 DEF Announced
  <2> QED
    BY <2>6, <2>8
<1>2. CASE SidecarPublish
  <2>1. side # Idle /\ side \in [step : {"publish"}, tracklet : Tracklets, ts : 0..MaxTime]
    BY <1>2 DEF SidecarPublish, Shape
  <2> DEFINE m == [tracklet |-> side.tracklet, ts |-> side.ts]
  <2>2. m \in Messages /\ m.tracklet = side.tracklet
    BY <2>1 DEF Messages
  <2>3. /\ sent' = sent \union {m} /\ pending' = pending \union {m}
        /\ owed' = owed \ {side.tracklet} /\ side' = Idle
        /\ UNCHANGED <<scene, clock, point, task, storeVars, faults, disturbed>>
    BY <1>2 DEF SidecarPublish, NoFault
  <2>4. sent' \subseteq Messages /\ pending' \subseteq sent' /\ owed' \subseteq Tracklets
    BY <2>2, <2>3 DEF Shape
  <2>5. Shape'
    BY <2>3, <2>4 DEF Shape, storeVars
  <2>6. Announced'
    BY <2>1, <2>2, <2>3 DEF Announced
  <2> QED
    BY <2>5, <2>6
<1>3. CASE SidecarStops
  <2>1. side.tracklet \in Tracklets
    BY <1>3 DEF SidecarStops, Shape
  <2>2. disturbed' \subseteq Tracklets /\ faults' \in 0..MaxFaults
    BY <1>3, <2>1, FaultShape DEF SidecarStops
  <2> QED
    BY <1>3, <2>2 DEF SidecarStops, Shape, Announced, storeVars
<1>4. CASE \E t \in Tracklets : RedeliverTracklet(t)
  <2> PICK t \in Tracklets : RedeliverTracklet(t)
    BY <1>4
  <2>2. disturbed' \subseteq Tracklets /\ faults' \in 0..MaxFaults
    BY FaultShape DEF RedeliverTracklet
  <2> QED
    BY <2>2 DEF RedeliverTracklet, Shape, Announced, storeVars
<1> QED
  BY <1>1, <1>2, <1>3, <1>4 DEF Sidecar

(* The resolver's steps. *)
LEMMA ResolverShape ==
  ASSUME Shape, Announced, Working, Resolver
  PROVE  Shape' /\ Announced'
<1>0. \A m \in sent : m.tracklet \in Tracklets
  BY DEF Shape, Messages
<1>1. CASE \E m \in pending : ResolverDecides(m)
  <2> PICK m \in pending : ResolverDecides(m)
    BY <1>1
  <2>1. task' \in Tasks /\ (UNCHANGED <<faults, disturbed>> \/ Fault(m.tracklet))
    BY ResolverDecidesIs
  <2>2. disturbed' \subseteq Tracklets /\ faults' \in 0..MaxFaults
    BY <1>0, <2>1, FaultShape DEF Shape, NoFault
  <2>3. UNCHANGED <<scene, sidecarVars, point, pending, storeVars>>
    BY DEF ResolverDecides
  <2> QED
    BY <2>1, <2>2, <2>3 DEF Shape, Announced, sidecarVars, storeVars
<1>2. CASE CreateIdentity
  <2>1. task' \in Tasks /\ minted' \in Nat
    BY <1>2, CreateIs DEF Shape
  <2> QED
    BY <1>2, <2>1 DEF CreateIdentity, Shape, Announced, sidecarVars, NoFault
<1>3. CASE LinkTracklet
  <2>1. task' \in Tasks /\ task # Idle
    BY <1>3, MovesOn
  <2>2. task.decision.gid \in Nat
    BY <2>1, TaskFields DEF AnyDecision
  <2>3. trackletGid' \in [Tracklets -> Nat]
    BY <1>3, <2>2 DEF LinkTracklet, Shape
  <2> QED
    BY <1>3, <2>1, <2>3 DEF LinkTracklet, Shape, Announced, sidecarVars, NoFault
<1>4. CASE MarkSeen
  <2>1. task' \in Backfills /\ task # Idle
    BY <1>4, MarkIs
  <2>2. Cam(task.msg.tracklet) \in Cameras
    BY <2>1, TaskFields, CamIsCamera DEF Shape
  <2>3. seen' \subseteq Cameras
    BY <1>4, <2>2 DEF MarkSeen, Shape
  <2> QED
    BY <1>4, <2>1, <2>3 DEF MarkSeen, Shape, Announced, sidecarVars, NoFault
<1>5. CASE BackfillWrites
  <2>1. task' \in Tasks /\ task # Idle /\ task \in Backfills
    BY <1>5, BackfillIs
  <2>2. task.decision.gid \in Nat /\ task.copy \in Points
    BY <2>1 DEF Backfills, AnyDecision
  <2>3. [task.copy EXCEPT !.gid = task.decision.gid] \in Points
    BY <2>2 DEF Points
  <2>4. Points \intersect {NoPoint} = {}
    BY DEF Points, NoPoint
  <2>5. /\ point' \in [Tracklets -> Points \union {NoPoint}]
        /\ \A u \in Tracklets : point[u] # NoPoint => point'[u] # NoPoint
    BY <1>5, <2>3, <2>4 DEF BackfillWrites, Shape
  <2>6. UNCHANGED <<scene, sidecarVars, pending, storeVars, faults, disturbed>>
    BY <1>5 DEF BackfillWrites, NoFault
  <2>7. Shape'
    BY <2>1, <2>5, <2>6 DEF Shape, sidecarVars, storeVars
  <2>8. side # Idle => side.tracklet \in Tracklets
    BY DEF Shape
  <2>9. Announced'
    BY <1>0, <2>5, <2>6, <2>8 DEF Announced, sidecarVars
  <2> QED
    BY <2>7, <2>9
<1>6. CASE AuditDecision
  <2>1. task' \in Tasks /\ audit' \in [Tracklets -> Seq(AnyDecision)]
    BY <1>6, MovesOn, AuditRows
  <2> QED
    BY <1>6, <2>1 DEF AuditDecision, Shape, Announced, sidecarVars, NoFault
<1>7. CASE PublishDecision
  <2>1. task # Idle
    BY <1>7 DEF PublishDecision, Idle
  <2>2. task.msg.tracklet \in Tracklets /\ task.decision.gid \in Nat
    BY <2>1, TaskFields DEF AnyDecision
  <2>3. [tracklet |-> task.msg.tracklet, gid |-> task.decision.gid]
           \in [tracklet : Tracklets, gid : Nat]
    BY <2>2
  <2>4. published' \subseteq [tracklet : Tracklets, gid : Nat]
    BY <1>7, <2>3 DEF PublishDecision, Shape
  <2>5. disturbed' \subseteq Tracklets /\ faults' \in 0..MaxFaults
    BY <1>7, <2>2, FaultShape DEF PublishDecision
  <2>6. pending' \subseteq sent /\ task' = Idle
    BY <1>7 DEF PublishDecision, Shape
  <2> QED
    BY <1>7, <2>4, <2>5, <2>6 DEF PublishDecision, Shape, Announced, sidecarVars
<1> QED
  BY <1>1, <1>2, <1>3, <1>4, <1>5, <1>6, <1>7 DEF Resolver

(* The faults of the resolver. *)
LEMMA FaultsShape ==
  ASSUME Shape, Announced, Working,
         \/ ResolverStops \/ BackfillFails
         \/ \E m \in sent : RedeliverEmbedding(m)
  PROVE  Shape' /\ Announced'
<1>1. CASE ResolverStops
  <2>1. task.msg.tracklet \in Tracklets
    BY <1>1, TaskFields DEF ResolverStops
  <2>2. disturbed' \subseteq Tracklets /\ faults' \in 0..MaxFaults
    BY <1>1, <2>1, FaultShape DEF ResolverStops
  <2> QED
    BY <1>1, <2>2 DEF ResolverStops, Shape, Announced, sidecarVars, storeVars
<1>2. CASE BackfillFails
  <2>1. task' \in Tasks /\ task # Idle
    BY <1>2, BackfillIs
  <2>2. task.msg.tracklet \in Tracklets
    BY <2>1, TaskFields
  <2>3. disturbed' \subseteq Tracklets /\ faults' \in 0..MaxFaults
    BY <1>2, <2>2, FaultShape DEF BackfillFails
  <2> QED
    BY <1>2, <2>1, <2>3 DEF BackfillFails, Shape, Announced, sidecarVars, storeVars
<1>3. CASE \E m \in sent : RedeliverEmbedding(m)
  <2> PICK m \in sent : RedeliverEmbedding(m)
    BY <1>3
  <2>1. m.tracklet \in Tracklets
    BY DEF Shape, Messages
  <2>2. disturbed' \subseteq Tracklets /\ faults' \in 0..MaxFaults
    BY <2>1, FaultShape DEF RedeliverEmbedding
  <2> QED
    BY <2>2 DEF RedeliverEmbedding, Shape, Announced, sidecarVars, storeVars
<1> QED
  BY <1>1, <1>2, <1>3

-----------------------------------------------------------------------------
(* Steps that leave the resolver's record and the audit as they are. *)
LEMMA OtherSteps ==
  ASSUME \/ Sidecar \/ SidecarStops
         \/ \E t \in Tracklets : RedeliverTracklet(t)
         \/ \E m \in sent : RedeliverEmbedding(m)
  PROVE  /\ UNCHANGED <<scene, task, storeVars>>
         /\ pending \subseteq pending' /\ sent' \ pending' \subseteq sent \ pending
<1>1. CASE \E t \in Tracklets : SidecarUpsert(t)
  BY <1>1 DEF SidecarUpsert
<1>2. CASE SidecarPublish
  <2>1. PICK m : sent' = sent \union {m} /\ pending' = pending \union {m}
    BY <1>2 DEF SidecarPublish
  <2>2. UNCHANGED <<scene, task, storeVars>>
    BY <1>2 DEF SidecarPublish
  <2> QED
    BY <2>1, <2>2
<1>3. CASE SidecarStops \/ \E t \in Tracklets : RedeliverTracklet(t)
  BY <1>3 DEF SidecarStops, RedeliverTracklet
<1>4. CASE \E m \in sent : RedeliverEmbedding(m)
  BY <1>4 DEF RedeliverEmbedding, sidecarVars
<1> QED
  BY <1>1, <1>2, <1>3, <1>4 DEF Sidecar

(* The decision in progress stays about a pending message, and it is recorded
   before it is published. *)
LEMMA WorkingStep ==
  ASSUME Shape, Announced, Working, Next
  PROVE  Working'
<1>1. CASE \/ Sidecar \/ SidecarStops
           \/ \E t \in Tracklets : RedeliverTracklet(t)
           \/ \E m \in sent : RedeliverEmbedding(m)
  <2>1. UNCHANGED <<task, audit>> /\ pending \subseteq pending'
    BY <1>1, OtherSteps DEF storeVars
  <2> QED
    BY <2>1 DEF Working, Rows
<1>2. CASE \E m \in pending : ResolverDecides(m)
  <2> PICK m \in pending : ResolverDecides(m)
    BY <1>2
  <2>1. /\ task'.msg = m /\ task'.decision.ts = m.ts
        /\ \/ task'.step = "create" /\ task'.decision.decision = "new"
           \/ task'.step \in {"link", "audit"}
    BY ResolverDecidesIs
  <2>2. pending' = pending
    BY DEF ResolverDecides
  <2> QED
    BY <2>1, <2>2 DEF Working
<1>3. CASE CreateIdentity
  <2>1. /\ task'.step = "link" /\ task'.msg = task.msg /\ task # Idle
        /\ task'.decision = [task.decision EXCEPT !.gid = minted + 1]
    BY <1>3, CreateIs
  <2>2. task.decision \in AnyDecision
    BY <2>1, TaskFields
  <2>3. task'.decision.ts = task.decision.ts
    BY <2>1, <2>2 DEF AnyDecision
  <2>4. pending' = pending
    BY <1>3 DEF CreateIdentity
  <2> QED
    BY <2>1, <2>3, <2>4 DEF Working
<1>4. CASE LinkTracklet
  <2>1. task # Idle /\ task'.msg = task.msg /\ task'.decision = task.decision
        /\ task'.step = "mark" /\ pending' = pending
    BY <1>4, MovesOn DEF LinkTracklet
  <2> QED
    BY <2>1 DEF Working
<1>5. CASE MarkSeen
  <2>1. task # Idle /\ task'.msg = task.msg /\ task'.decision = task.decision
        /\ task'.step = "backfill" /\ pending' = pending
    BY <1>5, MarkIs DEF MarkSeen
  <2> QED
    BY <2>1 DEF Working
<1>6. CASE BackfillWrites \/ BackfillFails
  <2>1. task # Idle /\ task'.msg = task.msg /\ task'.decision = task.decision
        /\ task'.step = "audit" /\ pending' = pending
    BY <1>6, BackfillIs DEF BackfillWrites, BackfillFails
  <2> QED
    BY <2>1 DEF Working
<1>7. CASE AuditDecision
  <2>1. task # Idle /\ task'.msg = task.msg /\ task'.decision = task.decision
        /\ task'.step = "publish" /\ pending' = pending
    <3>1. task.step = "audit"
      BY <1>7 DEF AuditDecision
    <3>2. ~LinkTracklet
      BY <3>1 DEF LinkTracklet
    <3> QED
      BY <1>7, <3>2, MovesOn DEF AuditDecision
  <2>2. task.msg.tracklet \in Tracklets
    BY <2>1, TaskFields
  <2> DEFINE t == task.msg.tracklet
  <2>3. PICK u \in Tracklets : u = task.msg.tracklet
    BY <2>2
  <2>4. task.decision \in Rows(u)'
    BY <1>7, <2>3, AuditRows
  <2>5. task'.decision \in Rows(task.msg.tracklet)'
    BY <2>1, <2>3, <2>4 DEF Rows
  <2> QED
    BY <2>1, <2>5 DEF Working
<1>8. CASE PublishDecision \/ ResolverStops
  BY <1>8 DEF PublishDecision, ResolverStops, Working
<1> QED
  BY <1>1, <1>2, <1>3, <1>4, <1>5, <1>6, <1>7, <1>8 DEF Next, Resolver, Faults

(* What is settled or published keeps its row, and gets it first. *)
LEMMA AuditedStep ==
  ASSUME Shape, Announced, Working, SettledIsAudited, PublishedIsAudited, Next
  PROVE  SettledIsAudited' /\ PublishedIsAudited'
<1>0. /\ \A m \in sent : m.tracklet \in Tracklets
      /\ \A p \in published : p.tracklet \in Tracklets
  BY DEF Shape, Messages
<1>1. CASE /\ UNCHANGED <<audit, published>>
           /\ sent' \ pending' \subseteq sent \ pending
  BY <1>1 DEF SettledIsAudited, PublishedIsAudited, Rows
<1>2. CASE AuditDecision
  <2>1. \A u \in Tracklets : Rows(u) \subseteq Rows(u)'
    BY <1>2, AuditRows
  <2>2. UNCHANGED <<sent, pending, published>>
    BY <1>2 DEF AuditDecision, sidecarVars
  <2> HIDE DEF Rows
  <2>3. SettledIsAudited'
    <3> SUFFICES ASSUME NEW m \in sent \ pending
                 PROVE  \E r \in Rows(m.tracklet)' : r.ts = m.ts
      BY <2>2 DEF SettledIsAudited, Rows
    <3> PICK u \in Tracklets : u = m.tracklet
      BY <1>0
    <3>1. \E r \in Rows(u)' : r.ts = m.ts
      BY <2>1 DEF SettledIsAudited
    <3> QED
      BY <3>1
  <2>4. PublishedIsAudited'
    <3> SUFFICES ASSUME NEW p \in published
                 PROVE  \E r \in Rows(p.tracklet)' : r.gid = p.gid
      BY <2>2 DEF PublishedIsAudited, Rows
    <3> PICK u \in Tracklets : u = p.tracklet
      BY <1>0
    <3>1. \E r \in Rows(u)' : r.gid = p.gid
      BY <2>1 DEF PublishedIsAudited
    <3> QED
      BY <3>1
  <2> QED
    BY <2>3, <2>4
<1>3. CASE PublishDecision
  <2>1. task # Idle /\ task.step = "publish"
    BY <1>3 DEF PublishDecision, Idle
  <2>2. /\ task.decision \in Rows(task.msg.tracklet)
        /\ task.decision.ts = task.msg.ts
    BY <2>1 DEF Working
  <2> DEFINE new == [tracklet |-> task.msg.tracklet, gid |-> task.decision.gid]
  <2>3. /\ published' \subseteq published \union {new}
        /\ pending' = pending \ {task.msg} /\ sent' = sent /\ audit' = audit
    BY <1>3 DEF PublishDecision, sidecarVars
  <2>4. SettledIsAudited'
    BY <2>2, <2>3 DEF SettledIsAudited, Rows
  <2>5. new.tracklet = task.msg.tracklet /\ new.gid = task.decision.gid
    OBVIOUS
  <2> HIDE DEF new
  <2>6. PublishedIsAudited'
    BY <2>2, <2>3, <2>5 DEF PublishedIsAudited, Rows
  <2> QED
    BY <2>4, <2>6
<1>4. CASE \/ Sidecar \/ SidecarStops
           \/ \E t \in Tracklets : RedeliverTracklet(t)
           \/ \E m \in sent : RedeliverEmbedding(m)
  BY <1>1, <1>4, OtherSteps DEF storeVars
<1>5. CASE \/ \E m \in pending : ResolverDecides(m)
           \/ CreateIdentity \/ LinkTracklet \/ MarkSeen
           \/ BackfillWrites \/ BackfillFails \/ ResolverStops
  BY <1>1, <1>5 DEF ResolverDecides, CreateIdentity, LinkTracklet, MarkSeen, BackfillWrites,
                    BackfillFails, ResolverStops, sidecarVars, storeVars
<1> QED
  BY <1>2, <1>3, <1>4, <1>5 DEF Next, Resolver, Faults

-----------------------------------------------------------------------------
(* A decision that rests on what was searched. *)
Sound(t, d) == Feasible(t, d) /\ (Stage3AutoMatch > 90 => ByOverride(t, d))

Followed ==
    /\ \A t \in Tracklets : \A r \in Rows(t) : Sound(t, r)
    /\ task # Idle => Sound(task.msg.tracklet, task.decision)

(* What the cameras saw is given. *)
LEMMA SoundStays ==
  ASSUME scene' = scene, NEW t, NEW d, Sound(t, d)
  PROVE  Sound(t, d)'
BY DEF Sound, Feasible, ByOverride, Cam

(* A decision is recorded as it was made; only a new one changes, by the
   identity it is given. *)
LEMMA FollowedStep ==
  ASSUME Shape, Announced, Working, Followed, Next
  PROVE  Followed'
<1>1. CASE /\ UNCHANGED <<scene, audit>>
           /\ \/ task' = Idle
              \/ UNCHANGED task
              \/ task # Idle /\ task'.msg = task.msg /\ task'.decision = task.decision
  <2>1. \A t \in Tracklets : \A r \in Rows(t) : Sound(t, r)'
    BY <1>1, SoundStays DEF Followed
  <2>2. ASSUME task' # Idle PROVE Sound(task.msg.tracklet, task.decision)'
    <3>1. task # Idle /\ task'.msg = task.msg /\ task'.decision = task.decision
      BY <1>1, <2>2
    <3> DEFINE t == task.msg.tracklet
               d == task.decision
    <3>2. PICK u, e : u = t /\ e = d
      OBVIOUS
    <3>3. Sound(u, e)'
      BY <1>1, <3>1, <3>2, SoundStays DEF Followed
    <3> QED
      BY <3>1, <3>2, <3>3 DEF Sound, Feasible, ByOverride, Cam
  <2> HIDE DEF Sound
  <2> QED
    BY <1>1, <2>1, <2>2 DEF Followed, Rows
<1>2. CASE \/ Sidecar \/ SidecarStops
           \/ \E t \in Tracklets : RedeliverTracklet(t)
           \/ \E m \in sent : RedeliverEmbedding(m)
  BY <1>1, <1>2, OtherSteps DEF storeVars
<1>3. CASE LinkTracklet
  BY <1>1, <1>3, MovesOn DEF LinkTracklet
<1>4. CASE MarkSeen
  BY <1>1, <1>4, MarkIs DEF MarkSeen
<1>5. CASE BackfillWrites \/ BackfillFails
  BY <1>1, <1>5, BackfillIs DEF BackfillWrites, BackfillFails, storeVars
<1>6. CASE PublishDecision \/ ResolverStops
  BY <1>1, <1>6 DEF PublishDecision, ResolverStops, storeVars
<1>7. CASE \E m \in pending : ResolverDecides(m)
  <2> PICK m \in pending : ResolverDecides(m)
    BY <1>7
  <2>1. UNCHANGED <<scene, audit>>
    BY DEF ResolverDecides, storeVars
  <2>2. \A t \in Tracklets : \A r \in Rows(t) : Sound(t, r)'
    BY <2>1, SoundStays DEF Followed
  <2>3. task'.msg = m /\ Feasible(m.tracklet, task'.decision)
        /\ (Stage3AutoMatch > 90 => ByOverride(m.tracklet, task'.decision))
    BY ResolverDecidesIs
  <2>4. Sound(task.msg.tracklet, task.decision)'
    BY <2>1, <2>3 DEF Sound, Feasible, ByOverride, Cam
  <2> QED
    BY <2>1, <2>2, <2>4 DEF Followed, Rows
<1>8. CASE CreateIdentity
  <2>1. UNCHANGED <<scene, audit>>
    BY <1>8 DEF CreateIdentity
  <2>2. \A t \in Tracklets : \A r \in Rows(t) : Sound(t, r)'
    BY <2>1, SoundStays DEF Followed
  <2>3. /\ task'.decision = [task.decision EXCEPT !.gid = minted + 1] /\ task # Idle
        /\ task.step = "create"
    BY <1>8, CreateIs DEF CreateIdentity
  <2>4. task'.decision.decision = "new"
    BY <2>3, TaskFields DEF Working, AnyDecision
  <2>5. Sound(task.msg.tracklet, task.decision)'
    BY <2>4 DEF Sound, Feasible, ByOverride
  <2> QED
    BY <2>1, <2>2, <2>5 DEF Followed, Rows
<1>9. CASE AuditDecision
  <2>1. /\ task # Idle /\ task'.msg = task.msg /\ task'.decision = task.decision
        /\ scene' = scene
    BY <1>9, MovesOn DEF AuditDecision
  <2>2. PICK u \in Tracklets, d \in AnyDecision : u = task.msg.tracklet /\ d = task.decision
    BY <2>1, TaskFields
  <2>3. Sound(u, d)'
    BY <2>1, <2>2, SoundStays DEF Followed
  <2>4. \A t \in Tracklets : Rows(t)' = IF t = u THEN Rows(t) \union {d} ELSE Rows(t)
    BY <1>9, <2>2, AuditRows
  <2> HIDE DEF Rows, Sound
  <2>5. \A t \in Tracklets : \A r \in Rows(t) : Sound(t, r)'
    BY <2>1, SoundStays DEF Followed
  <2>6. \A t \in Tracklets : \A r \in Rows(t)' : Sound(t, r)'
    BY <2>3, <2>4, <2>5
  <2>7. Sound(task.msg.tracklet, task.decision)'
    BY <2>1, <2>2, <2>3 DEF Sound, Feasible, ByOverride, Cam
  <2> QED
    BY <2>6, <2>7 DEF Followed
<1> QED
  BY <1>2, <1>3, <1>4, <1>5, <1>6, <1>7, <1>8, <1>9 DEF Next, Resolver, Faults

(* Identities are used after they are minted, and never unminted. *)
LEMMA GidsMintedStep ==
  ASSUME Shape, Announced, Working, GidsMinted, Next
  PROVE  GidsMinted'
<1>0. /\ minted \in Nat /\ NoGid <= minted
      /\ \A t \in Tracklets : point[t].gid \in Nat /\ trackletGid[t] \in Nat
  BY DEF Shape, Points, NoPoint, NoGid
<1>1. CASE /\ UNCHANGED <<minted, audit>>
           /\ \A t \in Tracklets : point'[t].gid <= minted /\ trackletGid'[t] <= minted
           /\ \/ task' = Idle
              \/ UNCHANGED task
              \/ task # Idle /\ task'.decision = task.decision
              \/ task'.decision.gid <= minted
           /\ \A p \in published' : p.gid <= minted
  BY <1>1 DEF GidsMinted, Rows
<1>2. CASE \E t \in Tracklets : SidecarUpsert(t)
  <2>1. \A t \in Tracklets : point'[t].gid <= minted
    <3> PICK t \in Tracklets : SidecarUpsert(t)
      BY <1>2
    <3> PICK ts : point' = [point EXCEPT ![t] = [gid |-> NoGid, ts |-> ts]]
      BY DEF SidecarUpsert
    <3> QED
      BY <1>0 DEF Shape, GidsMinted
  <2> QED
    BY <1>1, <1>2, <2>1 DEF SidecarUpsert, storeVars, GidsMinted
<1>3. CASE \/ SidecarPublish \/ SidecarStops
           \/ \E t \in Tracklets : RedeliverTracklet(t)
           \/ \E m \in sent : RedeliverEmbedding(m)
  <2>1. UNCHANGED <<point, task, storeVars>>
    BY <1>3 DEF SidecarPublish, SidecarStops, RedeliverTracklet, RedeliverEmbedding
  <2> QED
    BY <1>1, <2>1 DEF storeVars, GidsMinted
<1>4. CASE \E m \in pending : ResolverDecides(m)
  <2> PICK m \in pending : ResolverDecides(m)
    BY <1>4
  <2>1. task'.decision.gid <= minted
    BY <1>0, ResolverDecidesIs DEF GidsMinted
  <2> QED
    BY <1>1, <2>1 DEF ResolverDecides, storeVars, GidsMinted
<1>5. CASE CreateIdentity
  <2>1. task # Idle /\ task'.decision = [task.decision EXCEPT !.gid = minted + 1]
        /\ minted' = minted + 1
    BY <1>5, CreateIs
  <2>2. task'.decision.gid = minted + 1
    BY <2>1, TaskFields DEF AnyDecision
  <2>3. UNCHANGED <<point, trackletGid, audit, published>>
    BY <1>5 DEF CreateIdentity
  <2>4. ASSUME NEW g \in Nat, g <= minted PROVE g <= minted'
    BY <1>0, <2>1, <2>4
  <2>5. \A t \in Tracklets : \A r \in Rows(t) : r.gid \in Nat
    BY RowsAreDecisions DEF AnyDecision
  <2>6. \A p \in published : p.gid \in Nat
    BY DEF Shape
  <2>7. minted + 1 <= minted'
    BY <1>0, <2>1
  <2> HIDE DEF Rows
  <2>8. \A t \in Tracklets : Rows(t)' = Rows(t)
    BY <2>3 DEF Rows
  <2> QED
    BY <1>0, <2>2, <2>3, <2>4, <2>5, <2>6, <2>7, <2>8 DEF GidsMinted
<1>6. CASE LinkTracklet
  <2>1. task # Idle /\ task'.decision = task.decision
    BY <1>6, MovesOn
  <2>2. task.decision.gid <= minted
    BY <2>1 DEF GidsMinted
  <2>3. \A t \in Tracklets : trackletGid'[t] <= minted
    BY <1>6, <2>2 DEF LinkTracklet, Shape, GidsMinted
  <2> QED
    BY <1>1, <1>6, <2>1, <2>3 DEF LinkTracklet, GidsMinted
<1>7. CASE MarkSeen
  BY <1>1, <1>7, MarkIs DEF MarkSeen, GidsMinted
<1>8. CASE BackfillWrites
  <2>1. task # Idle /\ task'.decision = task.decision /\ task \in Backfills
    BY <1>8, BackfillIs
  <2>2. [task.copy EXCEPT !.gid = task.decision.gid].gid = task.decision.gid
    BY <2>1 DEF Backfills, Points
  <2>3. \A t \in Tracklets : point'[t].gid <= minted
    BY <1>8, <2>1, <2>2 DEF BackfillWrites, Shape, GidsMinted
  <2> QED
    BY <1>1, <1>8, <2>1, <2>3 DEF BackfillWrites, storeVars, GidsMinted
<1>9. CASE BackfillFails
  BY <1>1, <1>9, BackfillIs DEF BackfillFails, storeVars, GidsMinted
<1>10. CASE AuditDecision
  <2>1. /\ task # Idle /\ task'.decision = task.decision
        /\ UNCHANGED <<minted, point, trackletGid, published>>
    BY <1>10, MovesOn DEF AuditDecision
  <2>2. \A t \in Tracklets : Rows(t)' \subseteq Rows(t) \union {task.decision}
    BY <1>10, AuditRows
  <2> HIDE DEF Rows
  <2>3. \A t \in Tracklets : \A r \in Rows(t)' : r.gid <= minted
    BY <2>1, <2>2 DEF GidsMinted
  <2> QED
    BY <2>1, <2>3 DEF GidsMinted
<1>11. CASE PublishDecision
  <2>1. task # Idle /\ task.step = "publish" /\ task' = Idle
    BY <1>11 DEF PublishDecision, Idle
  <2>2. \A p \in published' : p.gid <= minted
    BY <1>11, <2>1 DEF PublishDecision, GidsMinted
  <2> QED
    BY <1>1, <1>11, <2>1, <2>2 DEF PublishDecision, GidsMinted
<1>12. CASE ResolverStops
  BY <1>1, <1>12 DEF ResolverStops, storeVars, GidsMinted
<1> QED
  BY <1>2, <1>3, <1>4, <1>5, <1>6, <1>7, <1>8, <1>9, <1>10, <1>11, <1>12
     DEF Next, Sidecar, Resolver, Faults

-----------------------------------------------------------------------------
(* The story of a tracklet that no fault touches: it is not announced yet; or
   its only message is pending, and the resolver has not come to it or is
   carrying out the decision; or it is decided and the stores agree. *)
OnTask(t) == task # Idle /\ task.msg.tracklet = t

Only(t, m) == m.tracklet = t /\ \A k \in sent : k.tracklet = t => k = m

Fresh(t) == audit[t] = <<>> /\ trackletGid[t] = NoGid /\ point[t].gid = NoGid

Progress(t) ==
    \/ task.step \in {"create", "link"} /\ Fresh(t)
    \/ /\ task.step \in {"mark", "backfill"}
       /\ audit[t] = <<>> /\ trackletGid[t] = task.decision.gid
    \/ /\ task.step = "audit"
       /\ audit[t] = <<>> /\ trackletGid[t] = task.decision.gid
       /\ point[t].gid = trackletGid[t]
    \/ /\ task.step = "publish"
       /\ audit[t] = <<task.decision>> /\ trackletGid[t] = task.decision.gid
       /\ point[t].gid = trackletGid[t]

Agreed(t) ==
    /\ Len(audit[t]) = 1 /\ trackletGid[t] = audit[t][1].gid
    /\ point[t].gid = trackletGid[t]

Unannounced(t) == t \in owed /\ (\A m \in sent : m.tracklet # t) /\ Fresh(t)

Waiting(t) ==
    t \notin owed /\ ~OnTask(t) /\ Fresh(t) /\ \E m \in pending : Only(t, m)

Carried(t) == t \notin owed /\ OnTask(t) /\ Only(t, task.msg) /\ Progress(t)

Decided(t) ==
    /\ t \notin owed /\ ~OnTask(t) /\ Agreed(t)
    /\ \A m \in pending : m.tracklet # t

Story(t) == Unannounced(t) \/ Waiting(t) \/ Carried(t) \/ Decided(t)

Stories == \A t \in Tracklets \ disturbed : Story(t)

(* A step about another tracklet leaves the story where it is. *)
LEMMA StoryStays ==
  ASSUME NEW t, Story(t),
         t \in owed <=> t \in owed',
         \A m : m.tracklet = t => (m \in sent <=> m \in sent')
                                /\ (m \in pending <=> m \in pending'),
         audit'[t] = audit[t], trackletGid'[t] = trackletGid[t], point'[t] = point[t],
         OnTask(t)' <=> OnTask(t), OnTask(t) => task' = task
  PROVE  Story(t)'
<1>1. Fresh(t)' <=> Fresh(t)
  BY DEF Fresh
<1>2. Agreed(t)' <=> Agreed(t)
  BY DEF Agreed
<1>3. \A m : Only(t, m)' <=> Only(t, m)
  BY DEF Only
<1>4. Unannounced(t) => Unannounced(t)'
  BY <1>1 DEF Unannounced
<1>5. Waiting(t) => Waiting(t)'
  BY <1>1, <1>3 DEF Waiting, Only
<1>6. Carried(t) => Carried(t)'
  <2> SUFFICES ASSUME Carried(t) PROVE Carried(t)'
    OBVIOUS
  <2>1. task' = task /\ OnTask(t)' /\ OnTask(t)
    BY DEF Carried
  <2>2. Progress(t)'
    BY <1>1, <2>1 DEF Carried, Progress
  <2>3. Only(t, task.msg)'
    BY <2>1 DEF Carried, Only
  <2> QED
    BY <2>1, <2>2, <2>3 DEF Carried
<1>7. Decided(t) => Decided(t)'
  BY <1>2 DEF Decided
<1> QED
  BY <1>4, <1>5, <1>6, <1>7 DEF Story

(* The sidecar's part of a story. *)
LEMMA SidecarStories ==
  ASSUME Shape, Announced, Working, Stories,
         \/ Sidecar \/ SidecarStops
         \/ \E t \in Tracklets : RedeliverTracklet(t)
         \/ \E m \in sent : RedeliverEmbedding(m),
         NEW t \in Tracklets \ disturbed'
  PROVE  Story(t)'
<1>0. disturbed \subseteq disturbed' /\ task' = task
  BY OtherSteps DEF Sidecar, SidecarUpsert, SidecarPublish, SidecarStops, RedeliverTracklet,
                    RedeliverEmbedding, NoFault, Fault
<1>1. Story(t) /\ (OnTask(t)' <=> OnTask(t))
  BY <1>0 DEF Stories, OnTask
<1>2. CASE \E u \in Tracklets : SidecarUpsert(u)
  <2> PICK u \in Tracklets : SidecarUpsert(u)
    BY <1>2
  <2>1. UNCHANGED <<owed, sent, pending, trackletGid, audit>> /\ u \in owed
    BY DEF SidecarUpsert, storeVars
  <2> PICK ts : point' = [point EXCEPT ![u] = [gid |-> NoGid, ts |-> ts]]
    BY DEF SidecarUpsert
  <2>2. CASE t # u
    <3>1. point'[t] = point[t]
      BY <2>2 DEF Shape
    <3> QED
      BY <1>0, <1>1, <2>1, <3>1, StoryStays
  <2>3. CASE t = u
    <3>1. Unannounced(t)
      BY <1>1, <2>1, <2>3 DEF Story, Waiting, Carried, Decided
    <3>2. point'[t].gid = NoGid
      BY <2>3 DEF Shape
    <3>3. Unannounced(t)'
      BY <2>1, <3>1, <3>2 DEF Unannounced, Fresh
    <3> QED
      BY <3>3 DEF Story
  <2> QED
    BY <2>2, <2>3
<1>3. CASE SidecarPublish
  <2>1. side # Idle /\ side \in [step : {"publish"}, tracklet : Tracklets, ts : 0..MaxTime]
    BY <1>3 DEF SidecarPublish, Shape
  <2>2. PICK m : /\ m.tracklet = side.tracklet
                 /\ sent' = sent \union {m} /\ pending' = pending \union {m}
    BY <1>3 DEF SidecarPublish
  <2>3. /\ owed' = owed \ {side.tracklet} /\ UNCHANGED <<point, trackletGid, audit>>
    BY <1>3 DEF SidecarPublish, storeVars
  <2>4. CASE t # side.tracklet
    BY <1>0, <1>1, <2>2, <2>3, <2>4, StoryStays
  <2>5. CASE t = side.tracklet
    <3>1. t \in owed
      BY <2>1, <2>5 DEF Announced
    <3>2. Unannounced(t)
      BY <1>1, <3>1 DEF Story, Waiting, Carried, Decided
    <3>3. ~OnTask(t)
      BY <3>2 DEF Unannounced, OnTask, Working, Shape
    <3>4. Only(t, m)'
      BY <2>2, <2>5, <3>2 DEF Unannounced, Only
    <3>5. Fresh(t)'
      BY <2>3, <3>2 DEF Unannounced, Fresh
    <3>6. Waiting(t)'
      BY <1>1, <2>2, <2>3, <2>5, <3>3, <3>4, <3>5 DEF Waiting
    <3> QED
      BY <3>6 DEF Story
  <2> QED
    BY <2>4, <2>5
<1>4. CASE SidecarStops
  <2>1. UNCHANGED <<owed, sent, pending, point, trackletGid, audit>>
    BY <1>4 DEF SidecarStops, storeVars
  <2> QED
    BY <1>0, <1>1, <2>1, StoryStays
<1>5. CASE \E u \in Tracklets : RedeliverTracklet(u)
  <2> PICK u \in Tracklets : RedeliverTracklet(u)
    BY <1>5
  <2>1. UNCHANGED <<sent, pending, point, trackletGid, audit>>
        /\ owed' = owed \union {u} /\ t # u
    BY DEF RedeliverTracklet, storeVars, Fault
  <2> QED
    BY <1>0, <1>1, <2>1, StoryStays
<1>6. CASE \E m \in sent : RedeliverEmbedding(m)
  <2> PICK m \in sent : RedeliverEmbedding(m)
    BY <1>6
  <2>1. UNCHANGED <<owed, sent, point, trackletGid, audit>>
        /\ pending' = pending \union {m} /\ t # m.tracklet
    BY DEF RedeliverEmbedding, sidecarVars, storeVars, Fault
  <2> QED
    BY <1>0, <1>1, <2>1, StoryStays
<1> QED
  BY <1>2, <1>3, <1>4, <1>5, <1>6 DEF Sidecar

(* The resolver takes up a message. *)
LEMMA DecideStories ==
  ASSUME Shape, Announced, Working, Stories, NEW m \in pending, ResolverDecides(m),
         NEW t \in Tracklets \ disturbed'
  PROVE  Story(t)'
<1>0. /\ task = Idle /\ task' # Idle /\ task'.msg = m
      /\ \/ task'.step \in {"create", "link"}
         \/ task'.step = "audit" /\ task'.decision.gid = NoGid
      /\ UNCHANGED <<owed, sent, pending, point, trackletGid, audit>>
  BY ResolverDecidesIs DEF ResolverDecides, sidecarVars, storeVars
<1>1. disturbed \subseteq disturbed'
  BY ResolverDecidesIs DEF Fault
<1>2. Story(t) /\ ~OnTask(t)
  BY <1>0, <1>1 DEF Stories, OnTask
<1>3. CASE m.tracklet # t
  <2>1. ~OnTask(t)'
    BY <1>0, <1>3 DEF OnTask
  <2> QED
    BY <1>0, <1>2, <2>1, StoryStays
<1>4. CASE m.tracklet = t
  <2>1. m \in sent
    BY DEF Shape
  <2>2. Waiting(t)
    BY <1>2, <1>4, <2>1 DEF Story, Unannounced, Carried, Decided
  <2>3. Only(t, m)
    BY <1>4, <2>1, <2>2 DEF Waiting, Only
  <2>4. Only(t, task.msg)' /\ OnTask(t)' /\ ~(t \in owed')
    BY <1>0, <1>4, <2>2, <2>3 DEF Only, OnTask, Waiting
  <2>5. Progress(t)'
    BY <1>0, <2>2 DEF Waiting, Fresh, Progress
  <2>6. Carried(t)'
    BY <2>4, <2>5 DEF Carried
  <2> QED
    BY <2>6 DEF Story
<1> QED
  BY <1>3, <1>4

(* A step of the resolver about another tracklet. *)
LEMMA OthersStory ==
  ASSUME Shape, Stories, task # Idle, NEW t \in Tracklets \ disturbed,
         t # task.msg.tracklet, task' = Idle \/ task'.msg = task.msg,
         UNCHANGED <<owed, sent>>, pending' \in {pending, pending \ {task.msg}},
         audit'[t] = audit[t], trackletGid'[t] = trackletGid[t], point'[t] = point[t]
  PROVE  Story(t)'
<1>1. ~OnTask(t) /\ ~OnTask(t)'
  BY DEF OnTask
<1> QED
  BY <1>1, StoryStays DEF Stories

(* The resolver carries out a decision, step by step. *)
LEMMA CarryStories ==
  ASSUME Shape, Announced, Working, Stories,
         \/ CreateIdentity \/ LinkTracklet \/ MarkSeen \/ BackfillWrites \/ AuditDecision,
         NEW t \in Tracklets \ disturbed'
  PROVE  Story(t)'
<1>0. /\ UNCHANGED <<owed, sent, pending, disturbed>>
  BY DEF CreateIdentity, LinkTracklet, MarkSeen, BackfillWrites, AuditDecision, sidecarVars,
         NoFault
<1>1. task # Idle /\ task' # Idle /\ task'.msg = task.msg
  BY CreateIs, MovesOn, MarkIs, BackfillIs
<1>2. \A u \in Tracklets : u # task.msg.tracklet =>
         audit'[u] = audit[u] /\ trackletGid'[u] = trackletGid[u] /\ point'[u] = point[u]
  <2>1. CASE CreateIdentity \/ MarkSeen
    BY <2>1 DEF CreateIdentity, MarkSeen
  <2>2. CASE LinkTracklet
    BY <2>2 DEF LinkTracklet, Shape
  <2>3. CASE BackfillWrites
    BY <2>3 DEF BackfillWrites, Shape, storeVars
  <2>4. CASE AuditDecision
    BY <2>4, AuditRows DEF AuditDecision
  <2> QED
    BY <2>1, <2>2, <2>3, <2>4
<1>3. CASE t # task.msg.tracklet
  BY <1>0, <1>1, <1>2, <1>3, OthersStory
<1>4. CASE t = task.msg.tracklet
  <2>1. Carried(t)
    BY <1>0, <1>1, <1>4
       DEF Stories, Story, Unannounced, Waiting, Decided, OnTask, Working, Shape
  <2>2. Only(t, task.msg)' /\ OnTask(t)' /\ ~(t \in owed')
    BY <1>0, <1>1, <2>1 DEF Carried, Only, OnTask
  <2>3. Progress(t)'
    <3>1. CASE CreateIdentity
      BY <2>1, <3>1, CreateIs DEF CreateIdentity, Carried, Progress, Fresh
    <3>2. CASE LinkTracklet
      <4>1. trackletGid'[t] = task.decision.gid /\ audit' = audit
        BY <1>4, <3>2 DEF LinkTracklet, Shape
      <4>2. audit[t] = <<>> /\ task'.decision = task.decision /\ task'.step = "mark"
        BY <2>1, <3>2, MovesOn DEF LinkTracklet, Carried, Progress, Fresh
      <4> QED
        BY <4>1, <4>2 DEF Progress
    <3>3. CASE MarkSeen
      <4>1. UNCHANGED <<audit, trackletGid>> /\ task.step = "mark"
        BY <3>3 DEF MarkSeen
      <4> QED
        BY <2>1, <3>3, <4>1, MarkIs DEF Carried, Progress
    <3>4. CASE BackfillWrites
      <4>1. UNCHANGED <<audit, trackletGid>> /\ task.step = "backfill"
        BY <3>4 DEF BackfillWrites, storeVars
      <4>2. /\ task'.step = "audit" /\ task'.decision = task.decision /\ task \in Backfills
        BY <3>4, BackfillIs
      <4>3. [task.copy EXCEPT !.gid = task.decision.gid].gid = task.decision.gid
        BY <4>2 DEF Backfills, Points
      <4>4. point'[t].gid = task.decision.gid
        BY <1>4, <3>4, <4>3 DEF BackfillWrites, Shape
      <4>5. audit[t] = <<>> /\ trackletGid[t] = task.decision.gid
        BY <2>1, <4>1 DEF Carried, Progress
      <4> QED
        BY <4>1, <4>2, <4>4, <4>5 DEF Progress
    <3>5. CASE AuditDecision
      <4>1. UNCHANGED <<point, trackletGid>> /\ task.step = "audit"
        BY <3>5 DEF AuditDecision
      <4>2. ~LinkTracklet
        BY <4>1 DEF LinkTracklet
      <4>3. task'.step = "publish" /\ task'.decision = task.decision
        BY <3>5, <4>2, MovesOn
      <4>4. /\ audit[t] = <<>> /\ trackletGid[t] = task.decision.gid
            /\ point[t].gid = trackletGid[t]
        BY <2>1, <4>1 DEF Carried, Progress
      <4>5. audit'[t] = Append(<<>>, task.decision)
        BY <1>4, <3>5, <4>4, AuditRows
      <4>6. audit'[t] = <<task.decision>>
        BY <4>5
      <4> QED
        BY <4>1, <4>3, <4>4, <4>6 DEF Progress
    <3> QED
      BY <3>1, <3>2, <3>3, <3>4, <3>5
  <2>4. Carried(t)'
    BY <2>2, <2>3 DEF Carried
  <2> QED
    BY <2>4 DEF Story
<1> QED
  BY <1>3, <1>4

(* The resolver is done with a message, one way or the other. *)
LEMMA EndStories ==
  ASSUME Shape, Announced, Working, Stories,
         PublishDecision \/ ResolverStops \/ BackfillFails,
         NEW t \in Tracklets \ disturbed'
  PROVE  Story(t)'
<1>0. disturbed \subseteq disturbed' /\ task # Idle
  BY DEF PublishDecision, ResolverStops, BackfillFails, NoFault, Fault, Idle
<1>1. /\ UNCHANGED <<owed, sent, point, trackletGid, audit>>
      /\ pending' \in {pending, pending \ {task.msg}}
      /\ task' = Idle \/ task'.msg = task.msg
  BY DEF PublishDecision, ResolverStops, BackfillFails, AfterBackfill, sidecarVars, storeVars
<1>2. CASE t # task.msg.tracklet
  BY <1>0, <1>1, <1>2, OthersStory
<1>3. CASE t = task.msg.tracklet
  <2>1. PublishDecision
    BY <1>3 DEF ResolverStops, BackfillFails, Fault
  <2>2. task.step = "publish" /\ task' = Idle /\ pending' = pending \ {task.msg}
    BY <2>1 DEF PublishDecision
  <2>3. Carried(t)
    BY <1>0, <1>3
       DEF Stories, Story, Unannounced, Waiting, Decided, OnTask, Working, Shape
  <2>4. /\ audit[t] = <<task.decision>> /\ trackletGid[t] = task.decision.gid
        /\ point[t].gid = trackletGid[t]
    BY <2>2, <2>3 DEF Carried, Progress
  <2>5. Len(audit[t]) = 1 /\ audit[t][1] = task.decision
    BY <2>4
  <2>6. Agreed(t)'
    BY <1>1, <2>4, <2>5 DEF Agreed
  <2>7. \A k \in pending' : k.tracklet # t
    BY <2>2, <2>3 DEF Carried, Only, Shape
  <2>8. Decided(t)'
    BY <1>1, <2>2, <2>3, <2>6, <2>7 DEF Decided, Carried, OnTask
  <2> QED
    BY <2>8 DEF Story
<1> QED
  BY <1>2, <1>3

-----------------------------------------------------------------------------
(* An identity may lose its tracklet each time a tracklet is linked again, and
   a tracklet is linked again only if it, or its message, was delivered once
   more than once.  Errands are the deliveries that can still lead to a link:
   a tracklet owed to the sidecar, and a message that is not yet linked.  At
   most one errand of each tracklet is free, and only while the tracklet has no
   identity; the others, like the identities without a tracklet, each stand for
   a fault of their own. *)
OwedErrand(t) == [tracklet |-> t, ts |-> -1]
Handled ==
    IF task.step \in {"mark", "backfill", "audit", "publish"} THEN {task.msg} ELSE {}
Errands == {OwedErrand(t) : t \in owed} \union (pending \ Handled)
Minting == task.step = "link" /\ task.decision.decision = "new"

Free(X) ==
    \A x \in Errands \ X : /\ trackletGid[x.tracklet] = NoGid
                           /\ \A y \in Errands \ X : y.tracklet = x.tracklet => y = x

Charged(X) ==
    /\ X \subseteq [tracklet : Tracklets, ts : -1..MaxTime] /\ IsFiniteSet(X)
    /\ Cardinality(Orphans) + Cardinality(X) <= faults + (IF Minting THEN 1 ELSE 0)

Accounted ==
    /\ \E X \in SUBSET [tracklet : Tracklets, ts : -1..MaxTime] : Charged(X) /\ Free(X)
    /\ Minting => task.decision.gid \in Orphans

(* One element more. *)
LEMMA CardinalityAdd ==
  ASSUME NEW S, IsFiniteSet(S), NEW x, NEW T, T \subseteq S \union {x}
  PROVE  /\ IsFiniteSet(T) /\ Cardinality(T) \in Nat /\ Cardinality(S) \in Nat
         /\ Cardinality(T) <= Cardinality(S) + 1
         /\ T \subseteq S => Cardinality(T) <= Cardinality(S)
<1>1. IsFiniteSet(S \union {x}) /\ Cardinality(S \union {x}) <= Cardinality(S) + 1
      /\ Cardinality(S) \in Nat
  BY FS_AddElement, FS_CardinalityType
<1>2. IsFiniteSet(T) /\ Cardinality(T) <= Cardinality(S \union {x})
  BY <1>1, FS_Subset
<1>3. Cardinality(T) \in Nat /\ Cardinality(S \union {x}) \in Nat
  BY <1>1, <1>2, FS_CardinalityType
<1>4. T \subseteq S => Cardinality(T) <= Cardinality(S)
  BY FS_Subset
<1> QED
  BY <1>1, <1>2, <1>3, <1>4

(* One element less, and perhaps another in its place. *)
LEMMA CardinalitySwap ==
  ASSUME NEW S, IsFiniteSet(S), NEW g \in S, NEW h, NEW T, T \subseteq (S \ {g}) \union {h}
  PROVE  /\ IsFiniteSet(T) /\ Cardinality(T) \in Nat /\ Cardinality(S) \in Nat
         /\ Cardinality(T) <= Cardinality(S)
         /\ T \subseteq S \ {g} => Cardinality(T) <= Cardinality(S) - 1
<1>1. IsFiniteSet(S \ {g}) /\ Cardinality(S \ {g}) = Cardinality(S) - 1
      /\ Cardinality(S) \in Nat
  BY FS_RemoveElement, FS_CardinalityType
<1>2. /\ IsFiniteSet(T) /\ Cardinality(T) \in Nat
      /\ Cardinality(T) <= Cardinality(S \ {g}) + 1
      /\ T \subseteq S \ {g} => Cardinality(T) <= Cardinality(S \ {g})
  BY <1>1, CardinalityAdd
<1> QED
  BY <1>1, <1>2

LEMMA OrphansFinite ==
  ASSUME minted \in Nat PROVE IsFiniteSet(Orphans) /\ Cardinality(Orphans) \in Nat
<1>1. IsFiniteSet(1..minted)
  BY FS_Interval
<1>2. Orphans \subseteq 1..minted
  BY DEF Orphans
<1> QED
  BY <1>1, <1>2, FS_Subset, FS_CardinalityType

(* A step that neither mints nor links, and brings at most one errand more, for
   which it pays with a fault. *)
LEMMA ErrandStep ==
  ASSUME Shape, Accounted, UNCHANGED <<minted, trackletGid>>, Minting' => Minting,
         task' = task \/ ~Minting',
         NEW x \in [tracklet : Tracklets, ts : -1..MaxTime], Errands' \subseteq Errands \union {x},
         \/ Errands' \subseteq Errands /\ faults' = faults /\ ~Minting
         \/ Errands' \subseteq Errands /\ faults' = faults /\ task' = task
         \/ Errands' \subseteq Errands /\ faults' = faults + 1
         \/ (~Minting \/ task' = task) /\ faults' = faults + 1
  PROVE  Accounted'
<1>1. PICK X \in SUBSET [tracklet : Tracklets, ts : -1..MaxTime] : Charged(X) /\ Free(X)
  BY DEF Accounted
<1>2. Orphans' = Orphans
  BY DEF Orphans
<1>3. Minting' => task'.decision.gid \in Orphans'
  BY <1>2 DEF Accounted
<1>4. /\ IsFiniteSet(X) /\ Cardinality(X) \in Nat /\ Cardinality(Orphans) \in Nat
      /\ faults \in Nat
  BY <1>1, OrphansFinite, FS_CardinalityType, SizesAssumption DEF Shape, Charged
<1>5. task' = task => (Minting' <=> Minting)
  BY DEF Minting
<1>6. CASE Errands' \subseteq Errands
  <2>1. Charged(X)'
    BY <1>1, <1>2, <1>4, <1>5, <1>6 DEF Charged
  <2>2. Free(X)'
    BY <1>1, <1>6 DEF Free
  <2> QED
    BY <1>3, <2>1, <2>2 DEF Accounted
<1>7. CASE (~Minting \/ task' = task) /\ faults' = faults + 1
  <2> DEFINE Y == X \union {x}
  <2>1. IsFiniteSet(Y) /\ Cardinality(Y) \in Nat /\ Cardinality(Y) <= Cardinality(X) + 1
    BY <1>4, CardinalityAdd
  <2>2. Free(Y)'
    BY <1>1 DEF Free
  <2>3. Y \in SUBSET [tracklet : Tracklets, ts : -1..MaxTime]
    BY <1>1
  <2> HIDE DEF Y
  <2>4. Charged(Y)'
    BY <1>1, <1>2, <1>4, <1>5, <1>7, <2>1, <2>3 DEF Charged
  <2> QED
    BY <1>3, <2>2, <2>3, <2>4 DEF Accounted
<1> QED
  BY <1>6, <1>7

(* The sidecar turns the errand of a tracklet into that of its message. *)
LEMMA AnnouncedAccounted ==
  ASSUME Shape, Announced, Accounted, SidecarPublish
  PROVE  Accounted'
<1> DEFINE m == [tracklet |-> side.tracklet, ts |-> side.ts]
           o == OwedErrand(side.tracklet)
           Errand == [tracklet : Tracklets, ts : -1..MaxTime]
<1>1. /\ side.tracklet \in owed /\ side.tracklet \in Tracklets /\ side.ts \in 0..MaxTime
      /\ owed' = owed \ {side.tracklet} /\ pending' = pending \union {m}
      /\ UNCHANGED <<task, minted, trackletGid, faults>>
  BY DEF SidecarPublish, Announced, Shape, storeVars, NoFault
<1>2. m \in Errand /\ o \in Errand /\ o \in Errands
  BY <1>1, SizesAssumption DEF OwedErrand, Errands
<1>3. Errands' \subseteq (Errands \ {o}) \union {m}
  <2>1. Handled' = Handled
    BY <1>1 DEF Handled
  <2>2. \A k \in pending : k # o
    <3> SUFFICES ASSUME o \in pending PROVE FALSE
      OBVIOUS
    <3>1. o \in Messages
      BY DEF Shape
    <3>2. o.ts \in 0..MaxTime /\ o.ts = -1
      BY <3>1 DEF Messages, OwedErrand
    <3> QED
      BY <3>2, SizesAssumption
  <2>3. \A t : OwedErrand(t) = o => t = side.tracklet
    <3> SUFFICES ASSUME NEW t, OwedErrand(t) = o PROVE t = side.tracklet
      OBVIOUS
    <3>1. OwedErrand(t).tracklet = t /\ o.tracklet = side.tracklet
      BY DEF OwedErrand
    <3> QED
      BY <3>1
  <2>4. Errands' = {OwedErrand(t) : t \in owed'} \union (pending' \ Handled')
    BY DEF Errands, OwedErrand
  <2> HIDE DEF m, o
  <2> QED
    BY <1>1, <2>1, <2>2, <2>3, <2>4 DEF Errands
<1>4. m.tracklet = o.tracklet
  BY DEF OwedErrand
<1>5. PICK X \in SUBSET Errand : Charged(X) /\ Free(X)
  BY DEF Accounted
<1>6. /\ IsFiniteSet(X) /\ Cardinality(X) \in Nat /\ Cardinality(Orphans) \in Nat
      /\ faults \in Nat
  BY <1>5, OrphansFinite, FS_CardinalityType, SizesAssumption DEF Shape, Charged
<1>7. Orphans' = Orphans /\ (Minting' <=> Minting)
      /\ (Minting' => task'.decision.gid \in Orphans')
  BY <1>1 DEF Orphans, Minting, Accounted
<1>8. \E Y \in SUBSET Errand : Charged(Y)' /\ Free(Y)'
  <2>1. CASE o \in X
    <3>1. PICK Y : Y = (X \ {o}) \union {m}
      OBVIOUS
    <3>2. IsFiniteSet(Y) /\ Cardinality(Y) \in Nat /\ Cardinality(Y) <= Cardinality(X)
      <4> HIDE DEF o, m
      <4> QED
        BY <1>6, <2>1, <3>1, CardinalitySwap
    <3>3. Y \in SUBSET Errand
      BY <1>2, <1>5, <3>1
    <3>4. Free(Y)'
      <4> HIDE DEF o, m
      <4>1. \A y \in Errands' \ Y : y \in Errands \ X
        BY <1>3, <3>1
      <4> QED
        BY <1>1, <1>5, <4>1 DEF Free
    <3>5. Charged(Y)'
      BY <1>1, <1>5, <1>6, <1>7, <3>2, <3>3 DEF Charged
    <3> QED
      BY <3>3, <3>4, <3>5
  <2>2. CASE o \notin X
    <3>1. Free(X)'
      <4> HIDE DEF o, m
      <4>1. \A y \in Errands \ X : y.tracklet = o.tracklet => y = o
        BY <1>2, <1>5, <2>2 DEF Free
      <4>2. trackletGid[m.tracklet] = NoGid
        BY <1>2, <1>4, <1>5, <2>2 DEF Free
      <4>3. \A y \in Errands' \ X : y = m \/ (y \in Errands \ X /\ y.tracklet # m.tracklet)
        BY <1>3, <1>4, <4>1
      <4> QED
        BY <1>1, <1>5, <4>2, <4>3 DEF Free
    <3>2. Charged(X)'
      BY <1>1, <1>5, <1>6, <1>7 DEF Charged
    <3> QED
      BY <3>1, <3>2
  <2> QED
    BY <2>1, <2>2
<1> QED
  BY <1>7, <1>8 DEF Accounted

(* A minted identity is an orphan until it is linked. *)
LEMMA CreatedAccounted ==
  ASSUME Shape, Working, GidsMinted, Accounted, CreateIdentity
  PROVE  Accounted'
<1>1. /\ task'.step = "link" /\ task'.decision = [task.decision EXCEPT !.gid = minted + 1]
      /\ minted' = minted + 1 /\ UNCHANGED <<owed, pending, trackletGid, faults>>
      /\ task.step = "create" /\ task # Idle
  BY CreateIs DEF CreateIdentity, sidecarVars, NoFault
<1>2. Errands' = Errands /\ ~Minting
  BY <1>1 DEF Errands, Handled, Minting, OwedErrand
<1>3. task'.decision.gid = minted + 1
  BY <1>1, TaskFields DEF AnyDecision
<1>4. \A t \in Tracklets : trackletGid[t] # minted + 1
  BY DEF GidsMinted, Shape
<1>5. minted + 1 \in Orphans'
  BY <1>1, <1>4 DEF Orphans, Shape
<1>6. Orphans' \subseteq Orphans \union {minted + 1}
  BY <1>1 DEF Orphans, Shape
<1>7. PICK X \in SUBSET [tracklet : Tracklets, ts : -1..MaxTime] : Charged(X) /\ Free(X)
  BY DEF Accounted
<1>8. /\ IsFiniteSet(X) /\ Cardinality(X) \in Nat /\ faults \in Nat
      /\ IsFiniteSet(Orphans) /\ Cardinality(Orphans) \in Nat
  BY <1>7, OrphansFinite, FS_CardinalityType, SizesAssumption DEF Shape, Charged
<1>9. Cardinality(Orphans') \in Nat /\ Cardinality(Orphans') <= Cardinality(Orphans) + 1
  BY <1>6, <1>8, CardinalityAdd
<1>10. Cardinality(Orphans') + Cardinality(X) <= faults + 1
  BY <1>2, <1>7, <1>8, <1>9 DEF Charged
<1>11. Minting'
  <2>1. task.decision.decision = "new"
    BY <1>1 DEF Working
  <2> QED
    BY <1>1, <2>1, TaskFields DEF Minting, AnyDecision
<1>12. Charged(X)'
  BY <1>1, <1>7, <1>10, <1>11 DEF Charged
<1>13. Free(X)'
  BY <1>1, <1>2, <1>7 DEF Free
<1> QED
  BY <1>3, <1>5, <1>12, <1>13 DEF Accounted

(* A link takes its identity from the orphans.  The identity that the tracklet
   had may become one: then the errand was one of those that stand for a fault. *)
LEMMA LinkedAccounted ==
  ASSUME Shape, Working, Accounted, LinkTracklet
  PROVE  Accounted'
<1> DEFINE m == task.msg
           t == m.tracklet
           g == task.decision.gid
           h == trackletGid[t]
           Errand == [tracklet : Tracklets, ts : -1..MaxTime]
<1>1. /\ task # Idle /\ task.step = "link" /\ task'.step = "mark" /\ task'.msg = m
      /\ m \in pending /\ m \in Messages /\ t \in Tracklets /\ g \in Nat
      /\ UNCHANGED <<owed, pending, minted, faults>>
      /\ trackletGid' = [trackletGid EXCEPT ![t] = g]
  BY MovesOn, TaskFields DEF LinkTracklet, Working, sidecarVars, NoFault, AnyDecision
<1>2. \A x \in Errands' : x \in Errands /\ x # m
  <2>1. Handled = {} /\ Handled' = {m}
    BY <1>1 DEF Handled
  <2>2. \A u : OwedErrand(u) # m
    <3> SUFFICES ASSUME NEW u, OwedErrand(u) = m PROVE FALSE
      OBVIOUS
    <3>1. m.ts \in 0..MaxTime /\ m.ts = -1
      BY <1>1 DEF OwedErrand, Messages
    <3> QED
      BY <3>1, SizesAssumption
  <2>3. Errands' = {OwedErrand(u) : u \in owed} \union (pending \ {m})
    BY <1>1, <2>1 DEF Errands, OwedErrand
  <2> HIDE DEF m
  <2> QED
    BY <2>1, <2>2, <2>3 DEF Errands
<1>3. m \in Errands
  BY <1>1 DEF Errands, Handled
<1>4. PICK X \in SUBSET Errand : Charged(X) /\ Free(X)
  BY DEF Accounted
<1>5. /\ IsFiniteSet(X) /\ Cardinality(X) \in Nat /\ faults \in Nat
      /\ IsFiniteSet(Orphans) /\ Cardinality(Orphans) \in Nat
  BY <1>4, OrphansFinite, FS_CardinalityType, SizesAssumption DEF Shape, Charged
<1>6. /\ trackletGid'[t] = g /\ \A u \in Tracklets : u # t => trackletGid'[u] = trackletGid[u]
  BY <1>1 DEF Shape
<1>7. /\ Orphans' \subseteq (Orphans \ {g}) \union {h}
      /\ h = NoGid => Orphans' \subseteq Orphans \ {g}
  BY <1>1, <1>6 DEF Orphans, NoGid
<1>8. Cardinality(Orphans') \in Nat
  <2> HIDE DEF g, h
  <2>1. Orphans' \subseteq Orphans \union {h}
    BY <1>7
  <2> QED
    BY <1>5, <2>1, CardinalityAdd
<1>9. Minting => g \in Orphans
  BY DEF Accounted
<1>10. \E Y \in SUBSET Errand :
          /\ IsFiniteSet(Y)
          /\ Cardinality(Orphans') + Cardinality(Y) <= faults
          /\ \A y \in Errands' \ Y : y \in Errands \ X /\ y.tracklet # t
  <2>1. CASE h = NoGid
    <3>1. Cardinality(Orphans') + Cardinality(X) <= faults
      <4> HIDE DEF g, h
      <4>1. CASE Minting
        <5>1. Cardinality(Orphans') <= Cardinality(Orphans) - 1
          BY <1>5, <1>7, <1>9, <2>1, <4>1, CardinalitySwap
        <5> QED
          BY <1>4, <1>5, <1>8, <4>1, <5>1 DEF Charged
      <4>2. CASE ~Minting
        <5>1. Cardinality(Orphans') <= Cardinality(Orphans)
          BY <1>5, <1>7, <2>1, FS_Subset
        <5> QED
          BY <1>4, <1>5, <1>8, <4>2, <5>1 DEF Charged
      <4> QED
        BY <4>1, <4>2
    <3>2. CASE \A y \in Errands' \ X : y.tracklet # t
      BY <1>2, <1>4, <1>5, <3>1, <3>2
    <3>3. CASE \E y \in Errands' \ X : y.tracklet = t
      <4> PICK k \in Errands' \ X : k.tracklet = t
        BY <3>3
      <4> DEFINE Y == (X \ {m}) \union {k}
      <4>1. k \in Errands \ X /\ k # m
        BY <1>2
      <4>2. m \in X
        BY <1>3, <1>4, <4>1 DEF Free
      <4>3. IsFiniteSet(Y) /\ Cardinality(Y) \in Nat /\ Cardinality(Y) <= Cardinality(X)
        <5> HIDE DEF m
        <5> QED
          BY <1>5, <4>2, CardinalitySwap
      <4>4. k \in Errand
        <5>1. Messages \subseteq Errand
          BY SizesAssumption DEF Messages
        <5>2. \A u \in Tracklets : OwedErrand(u) \in Errand
          BY SizesAssumption DEF OwedErrand
        <5> QED
          BY <4>1, <5>1, <5>2 DEF Errands, Shape
      <4>5. \A y \in Errands' \ Y : y \in Errands \ X /\ y.tracklet # t
        <5>1. \A y \in Errands \ X : y.tracklet = t => y = k
          BY <1>4, <4>1 DEF Free
        <5> HIDE DEF m, t
        <5> QED
          BY <1>2, <5>1
      <4>6. Y \in SUBSET Errand
        BY <1>4, <4>4
      <4> HIDE DEF Y
      <4>7. Cardinality(Orphans') + Cardinality(Y) <= faults
        BY <1>5, <1>8, <3>1, <4>3
      <4> QED
        BY <4>3, <4>5, <4>6, <4>7
    <3> QED
      BY <3>2, <3>3
  <2>2. CASE h # NoGid
    <3> DEFINE Y == X \ {m}
    <3>1. m \in X
      BY <1>3, <1>4, <2>2 DEF Free
    <3>2. IsFiniteSet(Y) /\ Cardinality(Y) \in Nat /\ Cardinality(Y) = Cardinality(X) - 1
      <4> HIDE DEF m
      <4> QED
        BY <1>5, <3>1, FS_RemoveElement, FS_CardinalityType
    <3>3. Cardinality(Orphans') + Cardinality(Y) <= faults
      <4> HIDE DEF g, h, Y
      <4>1. CASE Minting
        <5>1. Cardinality(Orphans') <= Cardinality(Orphans)
          BY <1>5, <1>7, <1>9, <4>1, CardinalitySwap
        <5> QED
          BY <1>4, <1>5, <1>8, <3>2, <4>1, <5>1 DEF Charged
      <4>2. CASE ~Minting
        <5>1. Orphans' \subseteq Orphans \union {h}
          BY <1>7
        <5>2. Cardinality(Orphans') <= Cardinality(Orphans) + 1
          BY <1>5, <5>1, CardinalityAdd
        <5> QED
          BY <1>4, <1>5, <1>8, <3>2, <4>2, <5>2 DEF Charged
      <4> QED
        BY <4>1, <4>2
    <3>4. \A y \in Errands' \ Y : y \in Errands \ X /\ y.tracklet # t
      BY <1>2, <1>4, <2>2 DEF Free
    <3>5. Y \in SUBSET Errand
      BY <1>4
    <3> HIDE DEF Y
    <3> QED
      BY <3>2, <3>3, <3>4, <3>5
  <2> QED
    BY <2>1, <2>2
<1>11. PICK Y \in SUBSET Errand :
          /\ IsFiniteSet(Y)
          /\ Cardinality(Orphans') + Cardinality(Y) <= faults
          /\ \A y \in Errands' \ Y : y \in Errands \ X /\ y.tracklet # t
  BY <1>10
<1>12. ~Minting'
  BY <1>1 DEF Minting
<1>13. Charged(Y)'
  <2>1. faults' = faults /\ Cardinality(Orphans') + Cardinality(Y) <= faults'
        /\ Cardinality(Y) \in Nat
    BY <1>1, <1>11, FS_CardinalityType
  <2> HIDE DEF m, t, g, h
  <2> QED
    BY <1>5, <1>8, <1>11, <1>12, <2>1 DEF Charged
<1>14. Free(Y)'
  <2>1. \A y \in Errands \ X : y.tracklet # t => trackletGid'[y.tracklet] = NoGid
    <3> SUFFICES ASSUME NEW y \in Errands \ X, y.tracklet # t
                 PROVE  trackletGid'[y.tracklet] = NoGid
      OBVIOUS
    <3>1. y.tracklet \in Tracklets
      BY DEF Errands, Shape, OwedErrand, Messages
    <3> QED
      BY <1>4, <1>6, <3>1 DEF Free
  <2> HIDE DEF t
  <2> QED
    BY <1>4, <1>11, <2>1 DEF Free
<1> QED
  BY <1>12, <1>13, <1>14 DEF Accounted

(* Every step keeps the account. *)
LEMMA AccountedStep ==
  ASSUME Shape, Announced, Working, GidsMinted, Accounted, Next
  PROVE  Accounted'
<1> DEFINE Errand == [tracklet : Tracklets, ts : -1..MaxTime]
<1>0. /\ \A t \in Tracklets : OwedErrand(t) \in Errand
      /\ Messages \subseteq Errand
  BY SizesAssumption DEF OwedErrand, Messages
<1>a. Errands' = {OwedErrand(t) : t \in owed'} \union (pending' \ Handled')
  BY DEF Errands, OwedErrand
<1> HIDE DEF Errand
<1>1. ASSUME NEW t \in Tracklets, SidecarUpsert(t) \/ SidecarStops \/ RedeliverTracklet(t)
      PROVE  Accounted'
  <2>1. /\ UNCHANGED <<task, minted, trackletGid, pending>> /\ (Minting' <=> Minting)
        /\ owed' \subseteq owed \union {t} /\ Handled' = Handled
    BY <1>1 DEF SidecarUpsert, SidecarStops, RedeliverTracklet, storeVars, Minting, Handled
  <2>2. Errands' \subseteq Errands \union {OwedErrand(t)}
    BY <1>a, <2>1 DEF Errands
  <2>3. \/ faults' = faults /\ owed' = owed
        \/ faults' = faults + 1
    BY <1>1 DEF SidecarUpsert, SidecarStops, RedeliverTracklet, NoFault, Fault
  <2>4. owed' = owed => Errands' \subseteq Errands
    BY <1>a, <2>1 DEF Errands
  <2>5. OwedErrand(t) \in Errand
    BY <1>0
  <2> QED
    BY <2>1, <2>2, <2>3, <2>4, <2>5, ErrandStep DEF Errand
<1>2. CASE SidecarPublish
  BY <1>2, AnnouncedAccounted
<1>3. CASE \E m \in sent : RedeliverEmbedding(m)
  <2> PICK m \in sent : RedeliverEmbedding(m)
    BY <1>3
  <2>1. /\ UNCHANGED <<task, minted, trackletGid, owed>> /\ (Minting' <=> Minting)
        /\ pending' = pending \union {m} /\ Handled' = Handled /\ faults' = faults + 1
    BY DEF RedeliverEmbedding, Fault, storeVars, sidecarVars, Minting, Handled
  <2>2. Errands' \subseteq Errands \union {m}
    BY <1>a, <2>1 DEF Errands
  <2>3. m \in Errand
    BY <1>0 DEF Shape
  <2> QED
    BY <2>1, <2>2, <2>3, ErrandStep DEF Errand
<1>4. CASE \E m \in pending : ResolverDecides(m)
  <2> PICK m \in pending : ResolverDecides(m)
    BY <1>4
  <2>1. /\ UNCHANGED <<minted, trackletGid, owed, pending>>
        /\ faults' = faults \/ faults' = faults + 1
    BY ResolverDecidesIs DEF ResolverDecides, Fault, storeVars, sidecarVars
  <2>2. task = Idle /\ ~Minting /\ Handled = {}
    BY ResolverDecidesIs DEF Minting, Handled, Idle
  <2>3. ~Minting'
    BY ResolverDecidesIs DEF Minting
  <2>4. Errands' \subseteq Errands
    BY <1>a, <2>1, <2>2 DEF Errands
  <2>5. m \in Errand
    BY <1>0 DEF Shape
  <2> QED
    BY <2>1, <2>2, <2>3, <2>4, <2>5, ErrandStep DEF Errand
<1>5. CASE CreateIdentity
  BY <1>5, CreatedAccounted
<1>6. CASE LinkTracklet
  BY <1>6, LinkedAccounted
<1>7. CASE MarkSeen \/ BackfillWrites \/ BackfillFails \/ AuditDecision \/ PublishDecision
  <2>1. /\ UNCHANGED <<minted, trackletGid, owed>>
        /\ faults' = faults \/ faults' = faults + 1
        /\ task # Idle /\ task.step \in {"mark", "backfill", "audit", "publish"}
    BY <1>7 DEF MarkSeen, BackfillWrites, BackfillFails, AuditDecision, PublishDecision,
                NoFault, Fault, storeVars, sidecarVars, Idle
  <2>2. \/ pending' = pending \ {task.msg} /\ task' = Idle
        \/ pending' = pending /\ task'.msg = task.msg
           /\ task'.step \in {"mark", "backfill", "audit", "publish"}
    <3>1. CASE PublishDecision
      BY <3>1 DEF PublishDecision
    <3>2. CASE MarkSeen
      BY <3>2, MarkIs DEF MarkSeen
    <3>3. CASE BackfillWrites \/ BackfillFails
      BY <3>3, BackfillIs DEF BackfillWrites, BackfillFails
    <3>4. CASE AuditDecision
      <4>1. task.step = "audit"
        BY <3>4 DEF AuditDecision
      <4>2. ~LinkTracklet
        BY <4>1 DEF LinkTracklet
      <4> QED
        BY <3>4, <4>2, MovesOn DEF AuditDecision
    <3> QED
      BY <1>7, <3>1, <3>2, <3>3, <3>4
  <2>3. Handled = {task.msg} /\ (task' = Idle => Handled' = {})
        /\ (task' # Idle => Handled' = {task.msg} /\ pending' = pending)
    BY <2>1, <2>2 DEF Handled, Idle
  <2>4. Errands' \subseteq Errands
    <3>1. pending' \ Handled' \subseteq pending \ Handled
      <4>1. CASE task' = Idle
        BY <2>2, <2>3, <4>1 DEF Idle
      <4>2. CASE task' # Idle
        BY <2>3, <4>2
      <4> QED
        BY <4>1, <4>2
    <3> QED
      BY <1>a, <2>1, <3>1 DEF Errands
  <2>5. ~Minting /\ ~Minting'
    BY <2>1, <2>2 DEF Minting, Idle
  <2>6. task.msg \in Errand
    BY <1>0, <2>1, TaskFields
  <2> QED
    BY <2>1, <2>4, <2>5, <2>6, ErrandStep DEF Errand
<1>8. CASE ResolverStops
  <2>1. /\ UNCHANGED <<minted, trackletGid, owed, pending>> /\ faults' = faults + 1
        /\ task # Idle /\ task' = Idle
    BY <1>8 DEF ResolverStops, Fault, storeVars, sidecarVars
  <2>2. ~Minting' /\ Handled' = {}
    BY <2>1 DEF Minting, Handled, Idle
  <2>3. Errands' \subseteq Errands \union {task.msg}
    BY <1>a, <2>1 DEF Errands, Handled
  <2>4. Minting => Errands' \subseteq Errands
    BY <1>a, <2>1 DEF Errands, Handled, Minting
  <2>5. task.msg \in Errand
    BY <1>0, <2>1, TaskFields
  <2> QED
    BY <2>1, <2>2, <2>3, <2>4, <2>5, ErrandStep DEF Errand
<1>9. CASE SidecarStops
  <2>1. side.tracklet \in Tracklets
    BY <1>9 DEF SidecarStops, Shape
  <2> QED
    BY <1>1, <1>9, <2>1
<1> QED
  BY <1>1, <1>2, <1>3, <1>4, <1>5, <1>6, <1>7, <1>8, <1>9
     DEF Next, Sidecar, Resolver, Faults

-----------------------------------------------------------------------------
IInv ==
    /\ Shape /\ Announced /\ Working /\ GidsMinted
    /\ SettledIsAudited /\ PublishedIsAudited /\ Followed /\ Stories /\ Accounted

(* Nothing is announced, decided or stored at first. *)
LEMMA ResolutionStarts == Init => IInv
<1> SUFFICES ASSUME Init PROVE IInv
  OBVIOUS
<1>1. /\ clock \in 0..MaxTime /\ faults \in 0..MaxFaults /\ minted \in Nat
  BY SizesAssumption DEF Init
<1>2. /\ point \in [Tracklets -> Points \union {NoPoint}]
      /\ trackletGid \in [Tracklets -> Nat] /\ audit \in [Tracklets -> Seq(AnyDecision)]
  BY DEF Init, NoGid
<1>3. Shape
  BY <1>1, <1>2 DEF Init, Shape
<1>4. \A t \in Tracklets : Rows(t) = {} /\ point[t] = NoPoint /\ trackletGid[t] = NoGid
  BY DEF Init, Rows
<1>5. Announced /\ Working /\ SettledIsAudited /\ PublishedIsAudited /\ Followed
  BY <1>4 DEF Init, Announced, Working, SettledIsAudited, PublishedIsAudited, Followed
<1>6. GidsMinted
  BY <1>4 DEF Init, GidsMinted, NoPoint, NoGid
<1>7. Stories
  BY <1>4 DEF Init, Stories, Story, Unannounced, Fresh, NoPoint
<1>8. Accounted
  <2>1. Orphans = {} /\ ~Minting
    BY DEF Init, Orphans, Minting, Idle
  <2>2. Charged({})
    <3>1. Cardinality({}) = 0 /\ IsFiniteSet({})
      BY FS_EmptySet
    <3> QED
      BY <2>1, <3>1 DEF Init, Charged
  <2>3. \A x \in Errands : \E t \in Tracklets : x = OwedErrand(t)
    BY DEF Init, Errands
  <2>4. Free({})
    <3>1. \A x \in Errands : x.tracklet \in Tracklets /\ x = OwedErrand(x.tracklet)
      BY <2>3 DEF OwedErrand
    <3> QED
      BY <1>4, <3>1 DEF Free
  <2> QED
    BY <2>1, <2>2, <2>4 DEF Accounted
<1> QED
  BY <1>3, <1>5, <1>6, <1>7, <1>8 DEF IInv

(* Every step keeps the invariant. *)
LEMMA ResolutionStep == IInv /\ [Next]_vars => IInv'
<1>1. ASSUME IInv, UNCHANGED vars PROVE IInv'
  <2>1. /\ UNCHANGED <<scene, owed, side, clock, point, sent, pending, task, minted>>
        /\ UNCHANGED <<trackletGid, audit, published, seen, disturbed, faults>>
    BY <1>1 DEF vars
  <2>2. Shape' /\ Announced' /\ Working' /\ GidsMinted'
    BY <1>1, <2>1 DEF IInv, Shape, Announced, Working, GidsMinted, Rows
  <2>3. SettledIsAudited' /\ PublishedIsAudited'
    BY <1>1, <2>1 DEF IInv, SettledIsAudited, PublishedIsAudited, Rows
  <2>4. Followed'
    BY <1>1, <2>1 DEF IInv, Followed, Rows, Sound, Feasible, ByOverride, Cam
  <2>5. Stories'
    <3> SUFFICES ASSUME NEW t \in Tracklets \ disturbed' PROVE Story(t)'
      BY DEF Stories
    <3>1. Story(t)
      BY <1>1, <2>1 DEF IInv, Stories
    <3>2. OnTask(t)' <=> OnTask(t)
      BY <2>1 DEF OnTask
    <3> QED
      BY <2>1, <3>1, <3>2, StoryStays
  <2>6. Accounted'
    BY <1>1, <2>1 DEF IInv, Accounted, Charged, Free, Errands, Handled, OwedErrand, Minting,
                      Orphans
  <2> QED
    BY <2>2, <2>3, <2>4, <2>5, <2>6 DEF IInv
<1>2. ASSUME IInv, Next PROVE IInv'
  <2>1. Shape /\ Announced /\ Working /\ GidsMinted /\ SettledIsAudited
        /\ PublishedIsAudited /\ Followed /\ Stories /\ Accounted
    BY <1>2 DEF IInv
  <2>2. Shape' /\ Announced'
    BY <1>2, <2>1, SidecarShape, ResolverShape, FaultsShape DEF Next, Faults
  <2>3. Working' /\ GidsMinted' /\ SettledIsAudited' /\ PublishedIsAudited' /\ Followed'
    BY <1>2, <2>1, WorkingStep, GidsMintedStep, AuditedStep, FollowedStep
  <2>4. Stories'
    <3> SUFFICES ASSUME NEW t \in Tracklets \ disturbed' PROVE Story(t)'
      BY DEF Stories
    <3>1. CASE \/ Sidecar \/ SidecarStops
               \/ \E u \in Tracklets : RedeliverTracklet(u)
               \/ \E m \in sent : RedeliverEmbedding(m)
      BY <2>1, <3>1, SidecarStories
    <3>2. CASE \E m \in pending : ResolverDecides(m)
      BY <2>1, <3>2, DecideStories
    <3>3. CASE \/ CreateIdentity \/ LinkTracklet \/ MarkSeen \/ BackfillWrites
               \/ AuditDecision
      BY <2>1, <3>3, CarryStories
    <3>4. CASE PublishDecision \/ ResolverStops \/ BackfillFails
      BY <2>1, <3>4, EndStories
    <3> QED
      BY <1>2, <3>1, <3>2, <3>3, <3>4 DEF Next, Resolver, Faults
  <2>5. Accounted'
    BY <1>2, <2>1, AccountedStep
  <2> QED
    BY <2>2, <2>3, <2>4, <2>5 DEF IInv
<1> QED
  BY <1>1, <1>2

(* The invariant holds of every reachable state. *)
THEOREM ResolutionCorrect == Spec => []IInv
<1> QED
  BY ResolutionStarts, ResolutionStep, PTL DEF Spec

(* The variables keep their types: in particular no store, decision or message
   names an identity that was not minted.  (mint_global_id before every use) *)
THEOREM ResolutionTypes == Spec => []TypeOK
<1>1. ASSUME IInv PROVE TypeOK
  <2>1. Shape /\ GidsMinted /\ Working
    BY <1>1 DEF IInv
  <2>2. ASSUME NEW d \in AnyDecision, d.gid <= minted PROVE d \in Decision
    <3>1. d.gid \in 0..minted
      BY <2>1, <2>2 DEF AnyDecision, Shape
    <3> QED
      BY <3>1 DEF AnyDecision, Decision
  <2>3. \A t \in Tracklets : point[t] = NoPoint \/ point[t] \in [gid : 0..minted, ts : 0..MaxTime]
    <3> SUFFICES ASSUME NEW t \in Tracklets, point[t] # NoPoint
                 PROVE  point[t] \in [gid : 0..minted, ts : 0..MaxTime]
      OBVIOUS
    <3>1. point[t] \in Points /\ point[t].gid <= minted /\ minted \in Nat
      BY <2>1 DEF Shape, GidsMinted
    <3>2. point[t].gid \in 0..minted
      BY <3>1 DEF Points
    <3> QED
      BY <3>1, <3>2 DEF Points
  <2>4. \/ task = Idle
        \/ /\ task.msg \in sent /\ task.decision \in Decision
           /\ task.step \in {"create", "link", "mark", "backfill", "audit", "publish"}
    BY <2>1, <2>2, TaskFields DEF Shape, GidsMinted, Working
  <2>5. trackletGid \in [Tracklets -> 0..minted]
    BY <2>1 DEF Shape, GidsMinted
  <2>6. \A t \in Tracklets : \A i \in DOMAIN audit[t] : audit[t][i] \in Decision
    <3> SUFFICES ASSUME NEW t \in Tracklets, NEW i \in DOMAIN audit[t]
                 PROVE  audit[t][i] \in Decision
      OBVIOUS
    <3>1. audit[t][i] \in Rows(t)
      BY DEF Rows
    <3>2. audit[t][i] \in AnyDecision /\ audit[t][i].gid <= minted
      BY <2>1, <3>1, RowsAreDecisions DEF GidsMinted
    <3> QED
      BY <2>2, <3>2
  <2>7. published \subseteq [tracklet : Tracklets, gid : 0..minted]
    <3> SUFFICES ASSUME NEW p \in published
                 PROVE  p \in [tracklet : Tracklets, gid : 0..minted]
      OBVIOUS
    <3>1. p \in [tracklet : Tracklets, gid : Nat] /\ p.gid <= minted /\ minted \in Nat
      BY <2>1 DEF Shape, GidsMinted
    <3> QED
      BY <3>1
  <2> QED
    BY <2>1, <2>3, <2>4, <2>5, <2>6, <2>7 DEF Shape, TypeOK
<1> QED
  BY <1>1, ResolutionCorrect, PTL

(* A message the resolver is done with was decided and has its row.
   (_resolve_inner, the order of its writes) *)
THEOREM SettledHasRow == Spec => []SettledIsAudited
<1>1. IInv => SettledIsAudited
  BY DEF IInv
<1> QED
  BY <1>1, ResolutionCorrect, PTL

(* A published assignment has its row. *)
THEOREM PublishedHasRow == Spec => []PublishedIsAudited
<1>1. IInv => PublishedIsAudited
  BY DEF IInv
<1> QED
  BY <1>1, ResolutionCorrect, PTL

(* Postgres, Qdrant and the audit agree on a tracklet no fault has touched. *)
THEOREM UndisturbedStoresAgree == Spec => []StoresAgree
<1>1. ASSUME IInv PROVE StoresAgree
  <2> SUFFICES ASSUME NEW t \in Tracklets \ disturbed, Quiet(t) PROVE Agreed(t)
    BY DEF StoresAgree, Agreed
  <2>1. Story(t)
    BY <1>1 DEF IInv, Stories
  <2> QED
    BY <2>1 DEF Story, Unannounced, Waiting, Carried, Decided, Quiet, OnTask, Only
<1> QED
  BY <1>1, ResolutionCorrect, PTL

(* However often a tracklet or its message is delivered again, and wherever the
   resolver stops, an identity that names no tracklet stands for a fault of its
   own.  (the Stage 4 fallback of _resolve_inner, which mints and then links) *)
THEOREM OrphansStandForFaults == Spec => []OrphansAreFaults
<1>1. ASSUME IInv PROVE OrphansAreFaults
  <2>1. PICK X \in SUBSET [tracklet : Tracklets, ts : -1..MaxTime] : Charged(X)
    BY <1>1 DEF IInv, Accounted
  <2>2. /\ Cardinality(X) \in Nat /\ Cardinality(Orphans) \in Nat /\ faults \in Nat
    BY <1>1, <2>1, OrphansFinite, FS_CardinalityType, SizesAssumption
       DEF Charged, IInv, Shape
  <2>3. Minting => task.step = "link"
    BY DEF Minting
  <2> QED
    BY <2>1, <2>2, <2>3 DEF Charged, OrphansAreFaults
<1> QED
  BY <1>1, ResolutionCorrect, PTL

(* A match across cameras follows an enabled link within its travel window,
   whatever the links, scores and thresholds are. *)
THEOREM MatchesFollowLinks == Spec => []MatchesAreFeasible
<1>1. IInv => MatchesAreFeasible
  BY DEF IInv, Followed, Sound, Feasible, MatchesAreFeasible
<1> QED
  BY <1>1, ResolutionCorrect, PTL

(* On a camera without outgoing links, a Stage 3 threshold above 90 leaves
   same-camera matches to the cosine override: the default is 92. *)
THEOREM SinkNeedsOverride == Stage3AutoMatch > 90 => (Spec => []SinkMatchesByOverride)
<1> SUFFICES ASSUME Stage3AutoMatch > 90 PROVE Spec => []SinkMatchesByOverride
  OBVIOUS
<1>1. IInv => SinkMatchesByOverride
  BY DEF IInv, Followed, Sound, ByOverride, SinkMatchesByOverride
<1> QED
  BY <1>1, ResolutionCorrect, PTL

(* Without a fault an identity, once assigned, is never changed. *)
THEOREM IdentityStaysFirm == Spec => IdentityIsFirm
<1> DEFINE Firm == \A t \in Tracklets :
                      trackletGid[t] # NoGid /\ trackletGid'[t] # trackletGid[t]
                        => t \in disturbed
<1>1. ASSUME IInv, [Next]_vars PROVE [Firm]_vars
  <2> SUFFICES ASSUME Next, NEW t \in Tracklets, t \notin disturbed,
                      trackletGid[t] # NoGid
               PROVE  trackletGid'[t] = trackletGid[t]
    BY <1>1
  <2>1. CASE LinkTracklet
    <3>1. CASE t # task.msg.tracklet
      BY <1>1, <2>1, <3>1 DEF LinkTracklet, IInv, Shape
    <3>2. CASE t = task.msg.tracklet
      <4>1. task # Idle /\ task.step = "link"
        BY <2>1 DEF LinkTracklet, Idle
      <4>2. Carried(t)
        BY <1>1, <3>2, <4>1
           DEF IInv, Stories, Story, Unannounced, Waiting, Decided, OnTask, Working, Shape
      <4>3. Fresh(t)
        BY <4>1, <4>2 DEF Carried, Progress
      <4> QED
        BY <4>3 DEF Fresh
    <3> QED
      BY <3>1, <3>2
  <2>2. CASE ~LinkTracklet
    BY <2>2 DEF Next, Sidecar, Resolver, Faults, SidecarUpsert, SidecarPublish, SidecarStops,
                RedeliverTracklet, RedeliverEmbedding, ResolverDecides, CreateIdentity,
                MarkSeen, BackfillWrites, BackfillFails, AuditDecision, PublishDecision,
                ResolverStops, sidecarVars, storeVars
  <2> QED
    BY <2>1, <2>2
<1> QED
  BY <1>1, ResolutionCorrect, PTL DEF Spec, IdentityIsFirm
=============================================================================
