--------------------------- MODULE Services_proofs ---------------------------
(***************************************************************************)
(* For every value of the constants: tables lag only for faults, frame     *)
(* links hold, nothing is invented unasked, health answers are recent,     *)
(* crashes stay visible, expired identities come back only through late    *)
(* tracklets, children end with the process, the release gate is sound,    *)
(* a track's own decision wins on the overlay and labels stay with their   *)
(* camera, and the pictures of a tracklet are of its own person.           *)
(*                                                                         *)
(* Each part has an invariant of its own, which adds to the property what  *)
(* holds at the steps in between; one lemma for its steps, with a step per *)
(* action; and a theorem about the part's specification.                   *)
(***************************************************************************)
EXTENDS TopologySeed, PPHumanChild, ProductionGate, HealthProbe, StreamHealth, Retention,
        ProcessLife, BenchmarkGate, OverlayCache, TrackletCrops, FiniteSetTheorems,
        FunctionTheorems, SequenceTheorems, TLAPS

-----------------------------------------------------------------------------
(* Seeding. *)

(* The files whose rows this start has been through. *)
Through ==
    IF seedStep = "rows"
    THEN CASE seedFile = "cameras" -> {}
           [] seedFile = "zones" -> {"cameras"}
           [] OTHER -> {"cameras", "zones"}
    ELSE IF seedStep = "record" \/ (seedStep = "up" /\ result = "seeded") THEN Files
    ELSE {}

(* Of these, the tables it left behind their files. *)
Behind == {f \in Through : rows[f] # loaded[f] /\ ReferenceHolds(f)}

SeedInv ==
    /\ rows \in [Files -> Nat] /\ loaded \in [Files -> Nat] /\ yaml \in [Files -> Nat]
    /\ seedFaults \in Nat
    /\ seedStep \in {"down", "check", "rows", "record", "up"}
    /\ seedStep \in {"check", "rows", "record"} => seedFile \in Files
    /\ IsFiniteSet(Behind) /\ Cardinality(Behind) <= seedFaults

(* A step that leaves no further table behind, or the file at hand for a call
   that failed, keeps within the faults. *)
LEMMA BehindCounts ==
    ASSUME NEW S, NEW T, NEW e, NEW m, NEW n, IsFiniteSet(S), m \in Nat, n \in Nat,
           Cardinality(S) <= m, \/ T \subseteq S /\ m <= n
                                \/ T \subseteq S \union {e} /\ n = m + 1
    PROVE  IsFiniteSet(T) /\ Cardinality(T) <= n
<1>1. CASE T \subseteq S /\ m <= n
  <2>1. IsFiniteSet(T) /\ Cardinality(T) <= Cardinality(S)
    BY <1>1, FS_Subset
  <2>2. Cardinality(S) \in Nat /\ Cardinality(T) \in Nat
    BY <2>1, FS_CardinalityType
  <2> QED
    BY <1>1, <2>1, <2>2
<1>2. CASE T \subseteq S \union {e} /\ n = m + 1
  <2>1. /\ IsFiniteSet(S \union {e})
        /\ Cardinality(S \union {e}) \in {Cardinality(S), Cardinality(S) + 1}
    BY FS_AddElement
  <2>2. IsFiniteSet(T) /\ Cardinality(T) <= Cardinality(S \union {e})
    BY <1>2, <2>1, FS_Subset
  <2>3. Cardinality(S) \in Nat /\ Cardinality(T) \in Nat
    BY <2>2, FS_CardinalityType
  <2> QED
    BY <1>2, <2>1, <2>2, <2>3
<1> QED
  BY <1>1, <1>2

LEMMA EmptyCounts ==
    ASSUME NEW S, NEW n, S = {}, n \in Nat
    PROVE  IsFiniteSet(S) /\ Cardinality(S) <= n
BY FS_EmptySet

(* A start goes through the files in their order, the cameras first. *)
LEMMA SeedStep ==
    ASSUME SeedInv, [SeedNext]_seedVars
    PROVE  SeedInv'
<1> USE DEF SeedInv, Files
<1> DEFINE Typed ==
             /\ rows \in [Files -> Nat] /\ loaded \in [Files -> Nat] /\ yaml \in [Files -> Nat]
             /\ seedFaults \in Nat
             /\ seedStep \in {"down", "check", "rows", "record", "up"}
             /\ seedStep \in {"check", "rows", "record"} => seedFile \in Files
<1>0. Through' = {} => Behind' = {}
  BY DEF Behind
<1>1. ASSUME NEW f \in Files, EditYaml(f) PROVE SeedInv'
  <2>1. Behind' = Behind
    BY <1>1 DEF EditYaml, Through, Behind, ReferenceHolds
  <2> QED
    BY <1>1, <2>1 DEF EditYaml
<1>2. ASSUME NEW force \in BOOLEAN, StartSeed(force) PROVE SeedInv'
  <2>1. Typed' /\ Through' = {}
    BY <1>2 DEF StartSeed, Through, NextFile
  <2> QED
    BY <1>0, <2>1, EmptyCounts
<1>3. CASE CheckFingerprint
  <2>1. Typed' /\ Through' = {}
    BY <1>3 DEF CheckFingerprint, SeedFault, Advance, Finish, NextFile, Through
  <2> QED
    BY <1>0, <2>1, EmptyCounts
<1>4. CASE SeedRows
  <2>1. Typed'
    BY <1>4 DEF SeedRows, SeedFault, Advance, NextFile
  <2>2. /\ seedStep = "rows" /\ seedFile \in Files
        /\ Through' = Through \union {seedFile}
        /\ seedFile = "cameras" => Through' = {"cameras"}
    BY <1>4 DEF SeedRows, Advance, NextFile, Through
  <2>3. ASSUME NEW f \in Behind', f # seedFile PROVE f \in Behind
    <3>1. f \in Through /\ seedFile # "cameras"
      BY <2>2, <2>3 DEF Behind
    <3>2. UNCHANGED <<loaded, rows["cameras"], rows[f]>>
      <4>1. f \in Files /\ "cameras" \in Files
        BY <3>1 DEF Through
      <4> QED
        BY <1>4, <2>3, <3>1, <4>1 DEF SeedRows
    <3>3. rows'[f] # loaded'[f] /\ (f = "cameras" \/ rows'["cameras"] # 0)
      BY DEF Behind, ReferenceHolds
    <3> QED
      BY <3>1, <3>2, <3>3 DEF Behind, ReferenceHolds
  <2>4. CASE seedFaults' = seedFaults + 1
    <3>1. Behind' \subseteq Behind \union {seedFile}
      BY <2>3
    <3> QED
      BY <2>1, <2>4, <3>1, BehindCounts
  <2>5. CASE UNCHANGED seedFaults
    <3>1. seedFile \notin Behind'
      <4>1. UNCHANGED loaded
        BY <1>4 DEF SeedRows
      <4>2. CASE rows' = [rows EXCEPT ![seedFile] = loaded[seedFile]]
        <5>1. rows'[seedFile] = loaded'[seedFile]
          BY <2>2, <4>1, <4>2
        <5> QED
          BY <5>1 DEF Behind
      <4>3. CASE ~ReferenceHolds(seedFile) /\ UNCHANGED rows
        <5>1. seedFile # "cameras" /\ rows'["cameras"] = 0
          BY <4>3 DEF ReferenceHolds
        <5> QED
          BY <5>1 DEF Behind, ReferenceHolds
      <4> QED
        BY <1>4, <2>5, <4>2, <4>3 DEF SeedRows, SeedFault
    <3>2. Behind' \subseteq Behind
      BY <2>3, <3>1
    <3>3. seedFaults <= seedFaults'
      BY <2>5
    <3> QED
      BY <2>1, <3>2, <3>3, BehindCounts
  <2> QED
    BY <1>4, <2>4, <2>5 DEF SeedRows, SeedFault
<1>5. CASE RecordFingerprint
  <2>1. Typed' /\ Through' \subseteq Through
    BY <1>5 DEF RecordFingerprint, SeedFault, Advance, Finish, NextFile, Through
  <2>2. Behind' \subseteq Behind
    BY <1>5, <2>1 DEF RecordFingerprint, Behind, ReferenceHolds
  <2>3. seedFaults <= seedFaults'
    BY <1>5 DEF RecordFingerprint, SeedFault
  <2> QED
    BY <2>1, <2>2, <2>3, BehindCounts
<1>6. CASE ProcessEnds
  <2>1. Typed' /\ Through' = {}
    BY <1>6 DEF ProcessEnds, SeedFault, Through
  <2> QED
    BY <1>0, <2>1, EmptyCounts
<1>7. CASE UNCHANGED seedVars
  <2>1. Behind' = Behind
    BY <1>7 DEF seedVars, Through, Behind, ReferenceHolds
  <2> QED
    BY <1>7, <2>1 DEF seedVars
<1> QED
  BY <1>1, <1>2, <1>3, <1>4, <1>5, <1>6, <1>7 DEF SeedNext

(* However many starts were cut off or raised before it, a seeding that reports
   its counts left a table with its camera behind only for a call of it, or of
   an earlier start, that failed. *)
THEOREM SkippedRowsFollow == SeedSpec => []SkippedRowsAreFaults
<1>1. SeedInit => SeedInv
  <2> SUFFICES ASSUME SeedInit PROVE SeedInv
    OBVIOUS
  <2>1. Behind = {} /\ seedFaults = 0
    BY DEF SeedInit, Behind, Through
  <2> QED
    BY <2>1, EmptyCounts DEF SeedInit, SeedInv, Files, Nothing
<1>2. SeedInv => SkippedRowsAreFaults
  <2> SUFFICES ASSUME SeedInv, seedStep = "up", result = "seeded"
               PROVE  Cardinality({f \in Files : rows[f] # loaded[f] /\ ReferenceHolds(f)})
                          <= seedFaults
    BY DEF SkippedRowsAreFaults
  <2>1. Behind = {f \in Files : rows[f] # loaded[f] /\ ReferenceHolds(f)}
    BY DEF Behind, Through
  <2> QED
    BY <2>1 DEF SeedInv
<1> QED
  BY <1>1, <1>2, SeedStep, PTL DEF SeedSpec

-----------------------------------------------------------------------------
(* A PP-Human child. *)

(* A URI is cached only of a stored frame, and the one in hand is the frame's. *)
ChildInv ==
    /\ frameCache \subseteq bucket
    /\ loopAt = "xadd" /\ uri # 0 => uri = frame /\ frame \in bucket
    /\ FrameLinksHold

LEMMA ChildStep ==
    ASSUME ChildInv, [ChildNext]_childVars
    PROVE  ChildInv'
<1> USE DEF ChildInv, FrameLinksHold, sourceVars
<1>1. CASE CaptureFrame \/ CaptureEnds \/ FfmpegDies
  BY <1>1 DEF CaptureFrame, CaptureEnds, FfmpegDies
<1>2. CASE TakeFrame
  BY <1>2 DEF TakeFrame
<1>3. CASE LoopEnds
  BY <1>3 DEF LoopEnds
<1>4. CASE PushPicture
  BY <1>4 DEF PushPicture
<1>5. CASE BuildEvent
  BY <1>5 DEF BuildEvent, CacheFrame
<1>6. CASE EmitDetection
  BY <1>6 DEF EmitDetection
<1>7. CASE UNCHANGED childVars
  BY <1>7 DEF childVars
<1> QED
  BY <1>1, <1>2, <1>3, <1>4, <1>5, <1>6, <1>7 DEF ChildNext, Predict

(* Whatever uploads failed, a frame link in the stream names the event's own
   frame, and that frame is stored. *)
THEOREM FrameLinksAreOwn == ChildSpec => []FrameLinksHold
<1>1. ChildInit => ChildInv
  BY DEF ChildInit, ChildInv, FrameLinksHold
<1>2. ChildInv => FrameLinksHold
  BY DEF ChildInv
<1> QED
  BY <1>1, <1>2, ChildStep, PTL DEF ChildSpec

-----------------------------------------------------------------------------
(* The runtime mode. *)

(* The mode is what was asked for, and a fallback needs it or the opt-out. *)
ModeInv ==
    /\ mode = "smoke_test" => SmokeWasAsked
    /\ reid = "fallback" => SmokeWasAsked \/ ~deployed.required
    /\ NothingIsInvented

LEMMA ModeStep ==
    ASSUME ModeInv, [ModeNext]_modeVars
    PROVE  ModeInv'
<1> USE DEF ModeInv, NothingIsInvented, SmokeWasAsked
<1>1. CASE ResolveMode
  BY <1>1 DEF ResolveMode, Chosen
<1>2. CASE StartLoader \/ StartRunner
  BY <1>2 DEF StartLoader, StartRunner
<1>3. CASE LoadDetector
  BY <1>3 DEF LoadDetector
<1>4. CASE LoadReid
  BY <1>4 DEF LoadReid, MayInvent, Required
<1>5. CASE Detect
  BY <1>5 DEF Detect, MayInvent
<1>6. CASE Extract
  BY <1>6 DEF Extract
<1>7. CASE UNCHANGED modeVars
  BY <1>7 DEF modeVars
<1> QED
  BY <1>1, <1>2, <1>3, <1>4, <1>5, <1>6, <1>7 DEF ModeNext, Main

(* No order of the start, the loader thread and the workers lets invented
   output into a process that was not asked for it. *)
THEOREM InventionIsAsked == ModeSpec => []NothingIsInvented
<1>1. ModeInit => ModeInv
  BY DEF ModeInit, ModeInv, NothingIsInvented
<1>2. ModeInv => NothingIsInvented
  BY DEF ModeInv
<1> QED
  BY <1>1, <1>2, ModeStep, PTL DEF ModeSpec

-----------------------------------------------------------------------------
(* The health of MinIO. *)

(* MinIO's last states are no later than now, and what a probe has found was
   so since it began, as what is cached was since its stamp. *)
ProbeTypeOK ==
    /\ healthNow \in Nat /\ minioUp \in BOOLEAN
    /\ lastUp \in -1..healthNow /\ lastDown \in -1..healthNow
    /\ IF minioUp THEN lastUp = healthNow ELSE lastDown = healthNow
    /\ probing \in [HealthRequests -> Int]
    /\ found \in [HealthRequests -> {"none", "ok", "down"}]
    /\ cached.at \in Int /\ cached.at <= healthNow
    /\ answer.at \in Int /\ answer.at <= healthNow

ProbesAreBounded ==
    \A r \in HealthRequests :
        /\ probing[r] >= 0 => probing[r] <= healthNow /\ healthNow <= probing[r] + ProbeTimeout
        /\ found[r] = "ok" => probing[r] >= 0 /\ lastUp >= probing[r]
        /\ found[r] = "down" => probing[r] >= 0 /\ lastDown >= probing[r]

CacheIsDated ==
    /\ cached.status = "ok" => cached.at >= 0 /\ lastUp >= cached.at
    /\ cached.status = "down" => cached.at >= 0 /\ lastDown >= cached.at

ProbeInv == ProbeTypeOK /\ ProbesAreBounded /\ CacheIsDated /\ AnswersAreRecent

LEMMA ProbeStep ==
    ASSUME ProbeInv, [ProbeNext]_probeVars
    PROVE  ProbeInv'
<1> USE ProbeAssumption DEF ProbeInv, ProbeTypeOK
<1>1. CASE HealthTick
  BY <1>1 DEF HealthTick, ProbesAreBounded, CacheIsDated, AnswersAreRecent
<1>2. CASE MinioChanges
  BY <1>2 DEF MinioChanges, ProbesAreBounded, CacheIsDated, AnswersAreRecent
<1>3. CASE AnswerCached
  <2>1. AnswersAreRecent'
    BY <1>3 DEF AnswerCached, Fresh, CacheIsDated, AnswersAreRecent
  <2> QED
    BY <1>3, <2>1 DEF AnswerCached, ProbesAreBounded, CacheIsDated
<1>4. ASSUME NEW r \in HealthRequests, StartProbe(r) PROVE ProbeInv'
  <2>1. found[r] = "none"
    BY <1>4 DEF StartProbe, ProbesAreBounded
  <2>2. ProbesAreBounded'
    BY <1>4, <2>1 DEF StartProbe, ProbesAreBounded
  <2> QED
    BY <1>4, <2>2 DEF StartProbe, CacheIsDated, AnswersAreRecent
<1>5. ASSUME NEW r \in HealthRequests, ProbeObserves(r) PROVE ProbeInv'
  <2>1. ProbesAreBounded'
    BY <1>5 DEF ProbeObserves, ProbesAreBounded
  <2> QED
    BY <1>5, <2>1 DEF ProbeObserves, CacheIsDated, AnswersAreRecent
<1>6. ASSUME NEW r \in HealthRequests, ProbeEnds(r) PROVE ProbeInv'
  <2>1. PICK status_ \in ProbeResults(r) :
           /\ cached' = [at |-> probing[r], status |-> status_]
           /\ answer' = [at |-> healthNow, status |-> status_]
    BY <1>6 DEF ProbeEnds
  <2>2. status_ \in {found[r], "timeout"} /\ probing[r] \in 0..healthNow
    BY <1>6, <2>1 DEF ProbeEnds, ProbeResults, ProbesAreBounded
  <2>3. /\ status_ = "ok" => lastUp >= probing[r]
        /\ status_ = "down" => lastDown >= probing[r]
    BY <2>2 DEF ProbesAreBounded
  <2>4. healthNow - probing[r] < CacheTTL
    BY <1>6 DEF ProbeEnds, ProbesAreBounded
  <2>5. ProbeTypeOK'
    BY <1>6, <2>1, <2>2 DEF ProbeEnds
  <2>6. ProbesAreBounded'
    BY <1>6 DEF ProbeEnds, ProbesAreBounded
  <2>7. CacheIsDated' /\ AnswersAreRecent'
    BY <1>6, <2>1, <2>2, <2>3, <2>4 DEF ProbeEnds, CacheIsDated, AnswersAreRecent
  <2> QED
    BY <2>5, <2>6, <2>7
<1>7. CASE UNCHANGED probeVars
  BY <1>7 DEF probeVars, ProbesAreBounded, CacheIsDated, AnswersAreRecent
<1> QED
  BY <1>1, <1>2, <1>3, <1>4, <1>5, <1>6, <1>7 DEF ProbeNext

(* No answer is older than the cache's time to live, for any number of
   concurrent requests, as long as a probe is cut off before that time. *)
THEOREM HealthIsRecent == ProbeSpec => []AnswersAreRecent
<1>1. ProbeInit => ProbeInv
  BY ProbeAssumption DEF ProbeInit, NoStatus, ProbeInv, ProbeTypeOK, ProbesAreBounded,
        CacheIsDated, AnswersAreRecent
<1>2. ProbeInv => AnswersAreRecent
  BY DEF ProbeInv
<1> QED
  BY <1>1, <1>2, ProbeStep, PTL DEF ProbeSpec

-----------------------------------------------------------------------------
(* The health of the PP-Human children. *)

HealthInv ==
    /\ badExit \in BOOLEAN
    /\ reported # {} => badExit
    /\ reported \subseteq crashedCameras \union deadChildren

LEMMA HealthStep ==
    ASSUME HealthInv, [HealthNext]_healthVars
    PROVE  HealthInv'
<1> USE DEF HealthInv
<1>1. CASE AdapterStarts \/ TailEnds \/ StallWindowPasses
  BY <1>1 DEF AdapterStarts, TailEnds, StallWindowPasses
<1>2. CASE TailCrashes
  BY <1>2 DEF TailCrashes
<1>3. CASE AdapterStops
  BY <1>3 DEF AdapterStops
<1>4. CASE ReadCrashed
  BY <1>4 DEF ReadCrashed
<1>5. ASSUME NEW c \in Streams, TailDetects(c) PROVE HealthInv'
  BY <1>5 DEF TailDetects
<1>6. ASSUME NEW c \in Streams, ChildDied(c) PROVE HealthInv'
  BY <1>6 DEF ChildDied
<1>7. CASE UNCHANGED healthVars
  BY <1>7 DEF healthVars
<1> QED
  BY <1>1, <1>2, <1>3, <1>4, <1>5, <1>6, <1>7 DEF HealthNext

(* What crashed_cameras has reported stays reported, and no later frame of any
   camera makes the watchdog healthy again. *)
THEOREM CrashesStay == HealthSpec => []CrashIsNotMasked
<1>1. HealthInit => HealthInv
  BY DEF HealthInit, HealthInv
<1>2. HealthInv => CrashIsNotMasked
  BY DEF HealthInv, CrashIsNotMasked, Healthy
<1> QED
  BY <1>1, <1>2, HealthStep, PTL DEF HealthSpec

-----------------------------------------------------------------------------
(* Retention. *)

(* An identity's points are no newer than its last_seen_at, and one that has
   expired has a time of expiry. *)
RetentionInv ==
    /\ today \in Nat
    /\ status \in [Identities -> {"none", "active", "expired"}]
    /\ seenAt \in [Identities -> Nat] /\ expiredAt \in [Identities -> Int]
    /\ points \subseteq [gid : Identities, at : Nat]
    /\ \A p \in points : p.at <= seenAt[p.gid] /\ status[p.gid] # "none"
    /\ RevivedWereLate

LEMMA RetentionStep ==
    ASSUME RetentionInv, [RetentionNext]_retentionVars
    PROVE  RetentionInv'
<1> USE RetentionAssumption DEF RetentionInv
<1>1. CASE DayPasses
  BY <1>1 DEF DayPasses, RevivedWereLate
<1>2. CASE PassExpires
  BY <1>2 DEF PassExpires, Expired, RevivedWereLate
<1>3. CASE PassDeletesPoints
  BY <1>3 DEF PassDeletesPoints, RevivedWereLate
<1>4. CASE PassFails
  BY <1>4 DEF PassFails, RevivedWereLate
<1>5. ASSUME NEW ts \in Later(0, today - MaxLateness)..today, ResolveNew(ts)
      PROVE  RetentionInv'
  <2>1. ts \in Nat
    BY DEF Later
  <2>2. PICK g \in Identities :
           /\ status[g] = "none"
           /\ status' = [status EXCEPT ![g] = "active"]
           /\ seenAt' = [seenAt EXCEPT ![g] = ts]
           /\ points' = points \union {[gid |-> g, at |-> ts]}
           /\ UNCHANGED <<today, dryRun, pass, expiredAt, lateHit, retentionFaults>>
    BY <1>5 DEF ResolveNew
  <2>3. \A p \in points : p.gid # g
    BY <2>2
  <2> QED
    BY <2>1, <2>2, <2>3 DEF RevivedWereLate
<1>6. ASSUME NEW ts \in Later(0, today - MaxLateness)..today, ResolveMatch(ts)
      PROVE  RetentionInv'
  <2>1. ts \in Nat
    BY DEF Later
  <2>2. PICK q \in Found(ts) :
           /\ seenAt' = [seenAt EXCEPT ![q.gid] = Later(@, ts)]
           /\ points' = points \union {[gid |-> q.gid, at |-> ts]}
           /\ lateHit' = IF ts < expiredAt[q.gid] THEN lateHit \union {q.gid} ELSE lateHit
           /\ UNCHANGED <<today, dryRun, status, pass, expiredAt, retentionFaults>>
    BY <1>6 DEF ResolveMatch
  <2>3. q \in points /\ q.gid \in Identities /\ q.at \in Nat /\ q.at >= ts - Window
    BY <2>2 DEF Found
  <2>4. Later(seenAt[q.gid], ts) \in Nat /\ Later(seenAt[q.gid], ts) >= ts
           /\ Later(seenAt[q.gid], ts) >= seenAt[q.gid]
           /\ Later(seenAt[q.gid], ts) \in {seenAt[q.gid], ts}
    BY <2>1, <2>3 DEF Later
  <2>5. RevivedWereLate'
    <3> SUFFICES ASSUME NEW g \in Identities, status[g] = "expired",
                        seenAt'[g] >= expiredAt[g] - Window
                 PROVE  g \in lateHit'
      BY <2>2 DEF RevivedWereLate
    <3>1. CASE g # q.gid
      BY <2>2, <2>3, <3>1 DEF RevivedWereLate
    <3>2. CASE g = q.gid /\ seenAt[g] >= expiredAt[g] - Window
      BY <2>2, <3>2 DEF RevivedWereLate
    <3>3. CASE g = q.gid /\ seenAt[g] < expiredAt[g] - Window
      <4>1. q.at <= seenAt[g]
        BY <2>3, <3>3
      <4>2. ts < expiredAt[g]
        BY <2>1, <2>3, <3>3, <4>1
      <4> QED
        BY <2>2, <3>3, <4>2
    <3> QED
      BY <3>1, <3>2, <3>3
  <2>6. seenAt' \in [Identities -> Nat] /\ points' \subseteq [gid : Identities, at : Nat]
    BY <2>1, <2>2, <2>3, <2>4
  <2>7. \A p \in points' : p.at <= seenAt'[p.gid] /\ status'[p.gid] # "none"
    BY <2>1, <2>2, <2>3, <2>4
  <2> QED
    BY <2>2, <2>5, <2>6, <2>7
<1>7. CASE UNCHANGED retentionVars
  BY <1>7 DEF retentionVars, RevivedWereLate
<1> QED
  BY <1>1, <1>2, <1>3, <1>4, <1>5, <1>6, <1>7 DEF RetentionNext

(* An expired identity is met again only through a tracklet that ended before
   the expiry, for any window, lateness and pace of the passes. *)
THEOREM RevivalIsLate == RetentionSpec => []RevivedWereLate
<1>1. RetentionInit => RetentionInv
  BY RetentionAssumption DEF RetentionInit, RetentionInv, RevivedWereLate
<1>2. RetentionInv => RevivedWereLate
  BY DEF RetentionInv
<1> QED
  BY <1>1, <1>2, RetentionStep, PTL DEF RetentionSpec

-----------------------------------------------------------------------------
(* The life of the process. *)

(* Past the runner's stop no child runs, and none is on its way, that was not
   on its way then. *)
LifeInv ==
    /\ at \in {"stop sweeper", "stop sahi", "stop bridge", "close stores"} =>
          stopFailed \/ children \union respawning \subseteq caught
    /\ ChildrenAreStopped

LEMMA StepDomains == DOMAIN BootSteps = 1..11 /\ DOMAIN DownSteps = 1..5
BY DEF BootSteps, DownSteps

LEMMA StepNames ==
    /\ SeqSet(BootSteps) = {"stores", "reid", "detector", "mqtt", "sweeper", "threads",
                            "children", "runner", "workers", "api", "handlers"}
    /\ SeqSet(DownSteps) = {"stop runner", "stop sweeper", "stop sahi", "stop bridge",
                            "close stores"}
<1>2. SeqSet(BootSteps) = {BootSteps[1], BootSteps[2], BootSteps[3], BootSteps[4],
         BootSteps[5], BootSteps[6], BootSteps[7], BootSteps[8], BootSteps[9],
         BootSteps[10], BootSteps[11]}
  BY StepDomains DEF SeqSet
<1>3. SeqSet(DownSteps) = {DownSteps[1], DownSteps[2], DownSteps[3], DownSteps[4],
                           DownSteps[5]}
  BY StepDomains DEF SeqSet
<1> QED
  BY <1>2, <1>3 DEF BootSteps, DownSteps

(* The start goes through its own steps and the teardown through its. *)
LEMMA StepsFollow ==
    /\ \A step \in SeqSet(BootSteps) : step # "handlers" =>
          Following(BootSteps, step) \in SeqSet(BootSteps)
    /\ \A step \in SeqSet(DownSteps) : step # "close stores" =>
          Following(DownSteps, step) \in SeqSet(DownSteps)
<1>1. ASSUME NEW step \in SeqSet(BootSteps), step # "handlers"
      PROVE  Following(BootSteps, step) \in SeqSet(BootSteps)
  <2> DEFINE i == CHOOSE j \in DOMAIN BootSteps : BootSteps[j] = step
  <2>1. i \in DOMAIN BootSteps /\ BootSteps[i] = step
    <3>1. \E j \in DOMAIN BootSteps : BootSteps[j] = step
      BY DEF SeqSet
    <3> QED
      BY <3>1
  <2>2. Following(BootSteps, step) = BootSteps[i + 1]
    BY DEF Following
  <2> HIDE DEF i
  <2>3. i \in 1..11
    BY <2>1, StepDomains
  <2>4. i # 11
    <3> SUFFICES ASSUME i = 11 PROVE FALSE
      OBVIOUS
    <3>1. BootSteps[11] = "handlers"
      BY DEF BootSteps
    <3> QED
      BY <1>1, <2>1, <3>1
  <2>5. i + 1 \in DOMAIN BootSteps
    BY <2>3, <2>4, StepDomains
  <2> QED
    BY <2>2, <2>5 DEF SeqSet
<1>2. ASSUME NEW step \in SeqSet(DownSteps), step # "close stores"
      PROVE  Following(DownSteps, step) \in SeqSet(DownSteps)
  <2> DEFINE i == CHOOSE j \in DOMAIN DownSteps : DownSteps[j] = step
  <2>1. i \in DOMAIN DownSteps /\ DownSteps[i] = step
    <3>1. \E j \in DOMAIN DownSteps : DownSteps[j] = step
      BY DEF SeqSet
    <3> QED
      BY <3>1
  <2>2. Following(DownSteps, step) = DownSteps[i + 1]
    BY DEF Following
  <2> HIDE DEF i
  <2>3. i \in 1..5
    BY <2>1, StepDomains
  <2>4. i # 5
    <3> SUFFICES ASSUME i = 5 PROVE FALSE
      OBVIOUS
    <3>1. DownSteps[5] = "close stores"
      BY DEF DownSteps
    <3> QED
      BY <1>2, <2>1, <3>1
  <2>5. i + 1 \in DOMAIN DownSteps
    BY <2>3, <2>4, StepDomains
  <2> QED
    BY <2>2, <2>5 DEF SeqSet
<1> QED
  BY <1>1, <1>2

LEMMA LifeStep ==
    ASSUME LifeInv, [LifeNext]_lifeVars
    PROVE  LifeInv'
<1> USE DEF LifeInv, ChildrenAreStopped
<1>1. ASSUME NEW step \in SeqSet(BootSteps), Boot(step) PROVE LifeInv'
  <2>1. at' = "stream" \/ at' \in SeqSet(BootSteps)
    BY <1>1, StepsFollow DEF Boot
  <2>2. at' \notin {"stop sweeper", "stop sahi", "stop bridge", "close stores", "gone"}
    BY <2>1, StepNames
  <2> QED
    BY <2>2
<1>2. ASSUME NEW step \in SeqSet(BootSteps), BootFails(step) PROVE LifeInv'
  BY <1>2 DEF BootFails, Gone
<1>3. CASE StreamYields \/ StreamBreaks
  BY <1>3 DEF StreamYields, StreamBreaks
<1>4. CASE StopRunner
  BY <1>4 DEF StopRunner
<1>5. ASSUME NEW step \in {"stop sweeper", "stop sahi", "stop bridge"}, StopThread(step)
      PROVE  LifeInv'
  <2>1. at' \in SeqSet(DownSteps) /\ at' # "gone"
    BY <1>5, StepsFollow, StepNames DEF StopThread
  <2> QED
    BY <1>5, <2>1 DEF StopThread, respawns
<1>6. CASE CloseStores
  BY <1>6 DEF CloseStores, Gone, respawns
<1>7. CASE Terminate \/ Kill9 \/ FramesChange
  BY <1>7 DEF Terminate, Kill9, FramesChange, Gone, respawns
<1>8. ASSUME NEW k \in {"pphuman", "ffmpeg"},
             ChildEnds(k) \/ RespawnBegins(k) \/ RespawnEnds(k)
      PROVE  LifeInv'
  <2>1. CASE ChildEnds(k)
    BY <2>1 DEF ChildEnds, respawns
  <2>2. CASE RespawnBegins(k)
    BY <2>2 DEF RespawnBegins
  <2>3. CASE RespawnEnds(k)
    BY <2>3 DEF RespawnEnds
  <2> QED
    BY <1>8, <2>1, <2>2, <2>3
<1>9. CASE UNCHANGED lifeVars
  BY <1>9 DEF lifeVars
<1> QED
  BY <1>1, <1>2, <1>3, <1>4, <1>5, <1>6, <1>7, <1>8, <1>9 DEF LifeNext, MainThread

(* A process that ends in order leaves no child but one that a thread was on
   its way to replace when the runner was stopped, wherever the signal, the
   exception or the failing step came, and whatever is replaced meanwhile; the
   other exceptions are those the property names. *)
THEOREM ChildrenEnd == LifeSpec => []ChildrenAreStopped
<1>1. LifeInit => LifeInv
  BY DEF LifeInit, LifeInv, ChildrenAreStopped
<1>2. LifeInv => ChildrenAreStopped
  BY DEF LifeInv
<1> QED
  BY <1>1, <1>2, LifeStep, PTL DEF LifeSpec

-----------------------------------------------------------------------------
(* The release gate. *)

Measurements == {"good", "bad", "absent"}
Reports == [mode : {"none", "smoke", "production"}, cameras : BOOLEAN,
            fps : Measurements, accuracy : Measurements, whole : BOOLEAN]

Checks == {"missing", "torn", "ok", "failed"}
Benches == [at : {"idle", "running", "made", "written"}, report : Reports]
Gates == [at : {"idle", "report", "decide"}, preflight : Checks, report : Reports,
          due : BOOLEAN, verdict : {"none", "NOT_READY", "STRUCTURALLY_READY", "SHADOW",
                                    "LIMITED"}]

GateTypeOK ==
    /\ requireReal \in BOOLEAN /\ preflight \in Checks
    /\ bench \in Benches /\ gate \in Gates
    /\ reports \in Seq(Reports) /\ finished \in Nat

(* A report that is on disk is whole and of a run, and so is the one being
   made; the gate has no verdict before it decides. *)
GateInv ==
    /\ GateTypeOK
    /\ bench.report.whole /\ (bench.at # "idle" => bench.report.mode # "none")
    /\ \A i \in DOMAIN reports : reports[i].whole /\ reports[i].mode # "none"
    /\ finished > 0 => reports # <<>>
    /\ gate.at = "report" => ~gate.due
    /\ gate.at # "idle" => gate.verdict = "none"
    /\ GateIsSound

LEMMA GateStep ==
    ASSUME GateInv, [BenchNext]_gateVars
    PROVE  GateInv'
<1> USE DEF GateInv, GateTypeOK
<1>1. CASE PreflightOpens \/ PreflightWrites
  <2>1. preflight' \in Checks
    BY <1>1 DEF PreflightOpens, PreflightWrites, Checks
  <2> QED
    BY <1>1, <2>1 DEF PreflightOpens, PreflightWrites, GateIsSound, ReportsStay,
                      BadRunsAreRefused
<1>2. ASSUME NEW md \in {"smoke", "production"}, StartBenchmark(md) PROVE GateInv'
  <2>1. bench' \in Benches /\ bench'.report.whole
           /\ (bench'.at # "idle" => bench'.report.mode # "none")
    <3> DEFINE report == [BlankReport EXCEPT !.mode = md]
    <3>1. /\ report \in Reports /\ [report EXCEPT !.cameras = TRUE] \in Reports
          /\ BlankReport \in Reports
      BY <1>2 DEF BlankReport, Reports, Measurements
    <3>2. /\ report.whole /\ report.mode # "none" /\ BlankReport.whole
          /\ [report EXCEPT !.cameras = TRUE].whole
          /\ [report EXCEPT !.cameras = TRUE].mode # "none"
      BY <1>2 DEF BlankReport
    <3>3. \/ bench' = [at |-> "made", report |-> report]
          \/ bench' = [at |-> "running", report |-> [report EXCEPT !.cameras = TRUE]]
          \/ bench' = [at |-> "idle", report |-> BlankReport]
      BY <1>2 DEF StartBenchmark, NoBench
    <3> DEFINE manned == [report EXCEPT !.cameras = TRUE]
    <3> HIDE DEF report, manned
    <3>4. CASE bench' = [at |-> "made", report |-> report]
      BY <3>1, <3>2, <3>4 DEF Benches
    <3>5. CASE bench' = [at |-> "running", report |-> manned]
      BY <3>1, <3>2, <3>5 DEF Benches, manned
    <3>6. CASE bench' = [at |-> "idle", report |-> BlankReport]
      BY <3>1, <3>2, <3>6 DEF Benches
    <3> QED
      BY <3>3, <3>4, <3>5, <3>6 DEF manned
  <2> QED
    BY <1>2, <2>1 DEF StartBenchmark, GateIsSound, ReportsStay, BadRunsAreRefused
<1>3. CASE BenchmarkEnds
  <2>1. bench' \in Benches /\ bench'.report.whole /\ bench'.report.mode # "none"
    BY <1>3 DEF BenchmarkEnds, Benches, Reports, Measurements
  <2> QED
    BY <1>3, <2>1 DEF BenchmarkEnds, GateIsSound, ReportsStay, BadRunsAreRefused
<1>4. CASE WriteReport
  <2>1. bench' \in Benches /\ bench'.report = bench.report
    BY <1>4 DEF WriteReport, Benches
  <2> QED
    BY <1>4, <2>1 DEF WriteReport, GateIsSound, ReportsStay, BadRunsAreRefused
<1>5. CASE ReplaceReport
  <2>1. bench' \in Benches /\ bench'.report.whole /\ bench'.at = "idle"
    BY <1>5 DEF ReplaceReport, NoBench, BlankReport, Benches, Reports, Measurements
  <2>2. bench.report \in Reports /\ bench.report.whole /\ bench.report.mode # "none"
    BY <1>5 DEF ReplaceReport, Benches
  <2>3. /\ reports' \in Seq(Reports) /\ reports' # <<>>
        /\ \A i \in DOMAIN reports' : reports'[i].whole /\ reports'[i].mode # "none"
    BY <1>5, <2>2 DEF ReplaceReport
  <2> QED
    BY <1>5, <2>1, <2>3 DEF ReplaceReport, GateIsSound, ReportsStay, BadRunsAreRefused
<1>6. CASE BenchmarkKilled
  <2>1. bench' \in Benches /\ bench'.report.whole /\ bench'.at = "idle"
    BY <1>6 DEF BenchmarkKilled, NoBench, BlankReport, Benches, Reports, Measurements
  <2> QED
    BY <1>6, <2>1 DEF BenchmarkKilled, GateIsSound, ReportsStay, BadRunsAreRefused
<1>7. CASE OperatorScores
  <2>1. PICK i \in DOMAIN reports, accuracy \in {"good", "bad"} :
           reports' = [reports EXCEPT ![i].accuracy = accuracy]
    BY <1>7 DEF OperatorScores
  <2>2. \A j \in DOMAIN reports : reports[j] \in Reports
    OBVIOUS
  <2>3. [reports[i] EXCEPT !.accuracy = accuracy] \in Reports
    BY <2>2 DEF Reports, Measurements
  <2>4. reports' \in Seq(Reports) /\ (reports # <<>> => reports' # <<>>)
    BY <2>1, <2>3
  <2>5. \A j \in DOMAIN reports' : reports'[j].whole /\ reports'[j].mode # "none"
    BY <2>1, <2>2 DEF Reports
  <2> QED
    BY <1>7, <2>4, <2>5 DEF OperatorScores, GateIsSound, ReportsStay, BadRunsAreRefused
<1>8. CASE GateReadsPreflight
  <2>1. gate' \in Gates /\ gate'.at = "report" /\ ~gate'.due /\ gate'.verdict = "none"
    BY <1>8 DEF GateReadsPreflight, NoGate, BlankReport, Gates, Reports, Measurements
  <2> QED
    BY <1>8, <2>1 DEF GateReadsPreflight, GateIsSound, ReportsStay, BadRunsAreRefused
<1>9. CASE GateReadsReport
  <2> DEFINE read == IF reports # <<>> /\ reports[Len(reports)].whole
                     THEN reports[Len(reports)] ELSE BlankReport
  <2>1. BlankReport \in Reports
    BY DEF BlankReport, Reports, Measurements
  <2>2. read \in Reports /\ (reports # <<>> => read.mode # "none")
    BY <2>1
  <2>3. /\ gate' = [gate EXCEPT !.at = "decide", !.due = finished > 0, !.report = read]
        /\ UNCHANGED <<environ, preflight, checking, requireReal, bench, started, reports,
                       finished, gateFaults>>
        /\ gate.at = "report"
    BY <1>9 DEF GateReadsReport
  <2> HIDE DEF read
  <2>4. gate' \in Gates /\ gate'.at = "decide" /\ gate'.verdict = "none"
           /\ gate'.report = read /\ gate'.due = (finished > 0)
    <3> DEFINE due == finished > 0
    <3>1. due \in BOOLEAN
      OBVIOUS
    <3> HIDE DEF due
    <3>2. gate' = [gate EXCEPT !.at = "decide", !.due = due, !.report = read]
      BY <2>3 DEF due
    <3>3. gate' \in Gates /\ gate'.at = "decide" /\ gate'.verdict = gate.verdict
             /\ gate'.report = read /\ gate'.due = due
      BY <2>2, <3>1, <3>2 DEF Gates
    <3> QED
      BY <2>3, <3>3 DEF due
  <2> QED
    BY <2>2, <2>3, <2>4 DEF GateIsSound, ReportsStay, BadRunsAreRefused
<1>10. CASE GateDecides
  <2>1. PICK tests \in {"absent", "passed", "failed"} :
           gate' = [gate EXCEPT !.at = "idle", !.preflight = "missing",
                                !.verdict = Verdict(gate.preflight, tests, gate.report)]
    BY <1>10 DEF GateDecides
  <2> DEFINE verdict == Verdict(gate.preflight, tests, gate.report)
  <2>2. verdict \in {"NOT_READY", "STRUCTURALLY_READY", "SHADOW", "LIMITED"}
    BY DEF Verdict, ProductionVerdict
  <2>3. /\ verdict \in {"SHADOW", "LIMITED"} =>
              ~(gate.report.mode = "production" /\ OutOfBounds(gate.report))
        /\ verdict = "LIMITED" => gate.report.mode = "production"
                                  /\ (requireReal => gate.report.accuracy = "good")
    BY DEF Verdict, ProductionVerdict, OutOfBounds, Unlabelled, Gates, Reports, Measurements
  <2> HIDE DEF verdict
  <2>4. gate' \in Gates /\ gate'.at = "idle" /\ gate'.verdict = verdict
           /\ gate'.report = gate.report /\ gate'.due = gate.due
    BY <2>1, <2>2 DEF Gates, Checks, verdict
  <2> QED
    BY <1>10, <2>3, <2>4 DEF GateDecides, GateIsSound, ReportsStay, BadRunsAreRefused,
                             OutOfBounds
<1>11. CASE UNCHANGED gateVars
  BY <1>11 DEF gateVars, GateIsSound, ReportsStay, BadRunsAreRefused
<1> QED
  BY <1>1, <1>2, <1>3, <1>4, <1>5, <1>6, <1>7, <1>8, <1>9, <1>10, <1>11 DEF BenchNext

(* The gate has a whole report to judge once a run has completed one, refuses
   a run that missed a bound, and promotes only on what the configuration
   asks for, for any number of runs and kills. *)
THEOREM ReleasesAreSound == BenchSpec => []GateIsSound
<1>1. BenchInit => GateInv
  BY DEF BenchInit, GateInv, GateTypeOK, NoBench, NoGate, BlankReport, Reports,
         Measurements, Checks, Benches, Gates, GateIsSound, ReportsStay, BadRunsAreRefused
<1>2. GateInv => GateIsSound
  BY DEF GateInv
<1> QED
  BY <1>1, <1>2, GateStep, PTL DEF BenchSpec

-----------------------------------------------------------------------------
(* The overlay cache. *)

Entries == [cam : OverlayCams, track : Tracks, gid : Gids \union {NoGid}]

(* Decision i is the last one applied about its track. *)
IsLatest(i) ==
    \A j \in DOMAIN applied : j > i => ~IsFor(j, applied[i].cam, applied[i].track)

(* The batch being applied lies in the stream. *)
CursorIsInside ==
    /\ overlayClock \in 0..OverlayHorizon
    /\ decisions \in Seq(Entries)
    /\ lastId \in -1..Len(decisions)
    /\ readFrom \in -1..Len(decisions)
    /\ upTo \in 0..Len(decisions)
    /\ upTo # 0 => readFrom \in Nat /\ readFrom < upTo

(* While a track's own decision lasts, its binding is that decision's, expiry
   and all: that is what keeps lookup from replacing it. *)
OverlayInv ==
    /\ CursorIsInside
    /\ DOMAIN byLocal = Locals
    /\ applied \in Seq(Applied)
    /\ \A i \in DOMAIN applied :
          applied[i].expires >= overlayClock /\ IsLatest(i) =>
              /\ byLocal[<<applied[i].cam, applied[i].track>>].gid = applied[i].gid
              /\ byLocal[<<applied[i].cam, applied[i].track>>].expires = applied[i].expires

LEMMA OverlayStep ==
    ASSUME OverlayInv, [OverlayNext]_overlayVars
    PROVE  OverlayInv'
<1> USE DEF OverlayInv
<1>r. \A i \in DOMAIN applied :
         /\ applied[i].cam \in OverlayCams /\ applied[i].track \in Tracks
         /\ applied[i].expires \in Nat
  <2>1. \A i \in DOMAIN applied : applied[i] \in Applied
    OBVIOUS
  <2> QED
    BY <2>1 DEF Applied
<1>1. CASE OverlayTick
  <2>1. overlayClock' = overlayClock + 1
           /\ UNCHANGED <<decisions, lastId, readFrom, upTo, byLocal, applied>>
    BY <1>1 DEF OverlayTick
  <2>2. CursorIsInside' /\ overlayClock \in Nat
    <3>1. overlayClock < OverlayHorizon
      BY <1>1 DEF OverlayTick
    <3> QED
      BY <2>1, <3>1, OverlayAssumption DEF CursorIsInside
  <2>3. \A i \in DOMAIN applied :
           applied[i].expires >= overlayClock' => applied[i].expires >= overlayClock
    BY <1>r, <2>1, <2>2
  <2> QED
    BY <2>1, <2>2, <2>3 DEF IsLatest, IsFor
<1>2. ASSUME NEW c \in OverlayCams, NEW t \in Tracks, NEW g \in Gids \union {NoGid},
             AnnounceDecision(c, t, g)
      PROVE  OverlayInv'
  <2>1. /\ decisions' = Append(decisions, [cam |-> c, track |-> t, gid |-> g])
        /\ UNCHANGED <<overlayClock, lastId, readFrom, upTo, byLocal, applied>>
    BY <1>2 DEF AnnounceDecision
  <2>2. decisions' \in Seq(Entries) /\ Len(decisions') = Len(decisions) + 1
    BY <2>1 DEF CursorIsInside, Entries
  <2>3. CursorIsInside'
    BY <2>1, <2>2 DEF CursorIsInside
  <2> QED
    BY <2>1, <2>3 DEF IsLatest, IsFor
<1>3. CASE XRead \/ XReadReturns \/ XReadTimesOut \/ XReadFails
  <2>1. UNCHANGED <<overlayClock, decisions, byLocal, applied>>
    BY <1>3 DEF XRead, XReadReturns, XReadTimesOut, XReadFails
  <2>2. CursorIsInside'
    BY <1>3 DEF XRead, XReadReturns, XReadTimesOut, XReadFails, CursorIsInside, Dollar
  <2> QED
    BY <2>1, <2>2 DEF IsLatest, IsFor
<1>4. CASE ApplyDecision
  <2> DEFINE e == decisions[readFrom + 1]
             b == [gid |-> e.gid, expires |-> overlayClock + TTL]
             a == [cam |-> e.cam, track |-> e.track, gid |-> e.gid, expires |-> b.expires]
  <2>1. e \in Entries
    BY <1>4 DEF ApplyDecision, CursorIsInside
  <2>2. UNCHANGED <<overlayClock, decisions>> /\ CursorIsInside'
    BY <1>4 DEF ApplyDecision, CursorIsInside
  <2>3. CASE e.gid = NoGid
    <3>1. UNCHANGED <<byLocal, applied>>
      BY <1>4, <2>3 DEF ApplyDecision
    <3> QED
      BY <2>2, <3>1 DEF IsLatest, IsFor
  <2>4. CASE e.gid # NoGid
    <3>1. byLocal' = [byLocal EXCEPT ![<<e.cam, e.track>>] = b]
             /\ applied' = Append(applied, a)
      BY <1>4, <2>4 DEF ApplyDecision
    <3>2. a \in Applied
      BY <2>1, <2>4, OverlayAssumption DEF Entries, CursorIsInside, Applied
    <3>3. <<e.cam, e.track>> \in Locals
      BY <2>1 DEF Entries, Locals
    <3>4. a.cam = e.cam /\ a.track = e.track /\ a.gid = b.gid /\ a.expires = b.expires
      OBVIOUS
    <3> HIDE DEF a, b, e
    <3>5. /\ applied' \in Seq(Applied)
          /\ Len(applied') = Len(applied) + 1 /\ applied'[Len(applied) + 1] = a
          /\ \A i \in DOMAIN applied : applied'[i] = applied[i]
      BY <3>1, <3>2
    <3>6. DOMAIN byLocal' = Locals /\ byLocal'[<<e.cam, e.track>>] = b
             /\ \A l \in Locals : l # <<e.cam, e.track>> => byLocal'[l] = byLocal[l]
      BY <3>1, <3>3
    <3>7. ASSUME NEW i \in DOMAIN applied', applied'[i].expires >= overlayClock', IsLatest(i)'
          PROVE  /\ byLocal'[<<applied'[i].cam, applied'[i].track>>].gid = applied'[i].gid
                 /\ byLocal'[<<applied'[i].cam, applied'[i].track>>].expires
                       = applied'[i].expires
      <4>1. CASE i = Len(applied) + 1
        BY <3>4, <3>5, <3>6, <4>1
      <4>2. CASE i # Len(applied) + 1
        <5>1. i \in DOMAIN applied /\ applied'[i] = applied[i]
          BY <3>5, <4>2
        <5>0. \A j \in DOMAIN applied' : j > i =>
                 ~(applied'[j].cam = applied'[i].cam /\ applied'[j].track = applied'[i].track)
          BY <3>7 DEF IsLatest, IsFor
        <5>2. ~(a.cam = applied[i].cam /\ a.track = applied[i].track)
          <6>1. Len(applied) + 1 \in DOMAIN applied' /\ Len(applied) + 1 > i
            BY <3>5, <5>1
          <6> QED
            BY <3>5, <5>0, <5>1, <6>1
        <5>3. applied[i].cam \in OverlayCams /\ applied[i].track \in Tracks
          BY <1>r, <5>1
        <5>4. byLocal'[<<applied[i].cam, applied[i].track>>]
                 = byLocal[<<applied[i].cam, applied[i].track>>]
          BY <3>4, <3>6, <5>2, <5>3 DEF Locals
        <5>5. IsLatest(i)
          <6>1. \A j \in DOMAIN applied : j \in DOMAIN applied'
            BY <3>5
          <6> QED
            BY <3>5, <5>0, <5>1, <6>1 DEF IsLatest, IsFor
        <5> QED
          BY <2>2, <3>7, <5>1, <5>4, <5>5
      <4> QED
        BY <4>1, <4>2
    <3> QED
      BY <2>2, <3>5, <3>6, <3>7
  <2> QED
    BY <2>3, <2>4
<1>5. ASSUME NEW c \in OverlayCams, NEW t \in Tracks, Reassociate(c, t)
      PROVE  OverlayInv'
  <2>1. /\ ~(byLocal[<<c, t>>].expires >= overlayClock)
        /\ UNCHANGED <<overlayClock, decisions, lastId, readFrom, upTo, applied>>
        /\ DOMAIN byLocal' = DOMAIN byLocal
        /\ \A l \in Locals : l # <<c, t>> => byLocal'[l] = byLocal[l]
    BY <1>5 DEF Reassociate, Rebinds, NotExpired, OverlayInv
  <2>2. CursorIsInside'
    BY <2>1 DEF CursorIsInside
  <2>3. ASSUME NEW i \in DOMAIN applied, applied[i].expires >= overlayClock, IsLatest(i)
        PROVE  byLocal'[<<applied[i].cam, applied[i].track>>]
                  = byLocal[<<applied[i].cam, applied[i].track>>]
    <3>1. applied[i].cam \in OverlayCams /\ applied[i].track \in Tracks
      BY <1>r
    <3>2. byLocal[<<applied[i].cam, applied[i].track>>].expires >= overlayClock
      BY <2>3
    <3>3. <<applied[i].cam, applied[i].track>> # <<c, t>>
      BY <2>1, <3>2
    <3> QED
      BY <2>1, <3>1, <3>3 DEF Locals
  <2> QED
    BY <2>1, <2>2, <2>3 DEF IsLatest, IsFor
<1>6. CASE OverlayRestarts
  <2>1. /\ UNCHANGED <<overlayClock, decisions>>
        /\ byLocal' = [l \in Locals |-> Unbound] /\ applied' = <<>>
        /\ lastId' = -1 /\ readFrom' = -1 /\ upTo' = 0
    BY <1>6 DEF OverlayRestarts, Dollar
  <2> QED
    BY <2>1 DEF CursorIsInside
<1>7. CASE UNCHANGED overlayVars
  BY <1>7 DEF overlayVars, CursorIsInside, IsLatest, IsFor
<1> QED
  BY <1>1, <1>2, <1>3, <1>4, <1>5, <1>6, <1>7 DEF OverlayNext, OverlayThread

(* A track with a decision of its own that has not expired is drawn under it,
   for any number of cameras, tracks and decisions and any restarts. *)
THEOREM OwnIdentityIsDrawn == OverlaySpec => []OwnDecisionWins
<1>1. OverlayInit => OverlayInv
  BY OverlayAssumption DEF OverlayInit, OverlayInv, CursorIsInside, Dollar
<1>2. OverlayInv => OwnDecisionWins
  BY DEF OverlayInv, OwnDecisionWins, IsLatest
<1> QED
  BY <1>1, <1>2, OverlayStep, PTL DEF OverlaySpec

(* A decision applied about a track of camera c gave identity and expiry of b. *)
SourcedFrom(b, c) ==
    \E i \in DOMAIN applied :
        applied[i].cam = c /\ applied[i].gid = b.gid /\ applied[i].expires = b.expires

(* Not only the labels: the camera's list, which lookup takes them from, holds
   nothing but what decisions about that camera gave. *)
Sourced ==
    /\ camGids \in [OverlayCams -> Seq(Bindings)]
    /\ byLocal \in [Locals -> Bindings \union {Unbound}]
    /\ \A c \in OverlayCams :
          /\ \A i \in DOMAIN camGids[c] : SourcedFrom(camGids[c][i], c)
          /\ \A t \in Tracks :
                byLocal[<<c, t>>] # Unbound => SourcedFrom(byLocal[<<c, t>>], c)

LEMMA LabelStep ==
    ASSUME OverlayInv, Sourced, [OverlayNext]_overlayVars
    PROVE  Sourced'
<1>t. ASSUME NEW c \in OverlayCams, NEW t \in Tracks
      PROVE  <<c, t>> \in Locals
  BY DEF Locals
<1>0. CASE UNCHANGED <<byLocal, camGids, applied>>
  BY <1>0 DEF Sourced, SourcedFrom
<1>1. CASE OverlayTick
  BY <1>0, <1>1 DEF OverlayTick
<1>2. ASSUME NEW c \in OverlayCams, NEW t \in Tracks, NEW g \in Gids \union {NoGid},
             AnnounceDecision(c, t, g)
      PROVE  Sourced'
  BY <1>0, <1>2 DEF AnnounceDecision
<1>3. CASE XRead \/ XReadReturns \/ XReadTimesOut \/ XReadFails
  BY <1>0, <1>3 DEF XRead, XReadReturns, XReadTimesOut, XReadFails
<1>4. CASE ApplyDecision
  <2> DEFINE e == decisions[readFrom + 1]
             b == [gid |-> e.gid, expires |-> overlayClock + TTL]
             a == [cam |-> e.cam, track |-> e.track, gid |-> e.gid, expires |-> b.expires]
             recent == Append(camGids[e.cam], b)
             Sourcing(x, c) == \E i \in DOMAIN applied' :
                /\ applied'[i].cam = c
                /\ applied'[i].gid = x.gid /\ applied'[i].expires = x.expires
  <2>1. e \in Entries
    BY <1>4 DEF OverlayInv, ApplyDecision, CursorIsInside
  <2>2. CASE e.gid = NoGid
    BY <1>0, <1>4, <2>2 DEF ApplyDecision
  <2>3. CASE e.gid # NoGid
    <3>1. /\ byLocal' = [byLocal EXCEPT ![<<e.cam, e.track>>] = b]
          /\ applied' = Append(applied, a)
          /\ \E k \in DOMAIN recent :
                camGids' = [camGids EXCEPT ![e.cam] = SubSeq(recent, k, Len(recent))]
      BY <1>4, <2>3 DEF ApplyDecision
    <3>2. /\ a \in Applied /\ b \in Bindings /\ e.cam \in OverlayCams /\ e.track \in Tracks
          /\ a.cam = e.cam /\ a.gid = b.gid /\ a.expires = b.expires
      BY <2>1, <2>3, OverlayAssumption DEF OverlayInv, Entries, CursorIsInside, Applied, Bindings
    <3> DEFINE cc == e.cam
               tt == e.track
    <3> HIDE DEF a, b, cc, tt
    <3>3. PICK k \in DOMAIN recent :
             camGids' = [camGids EXCEPT ![cc] = SubSeq(recent, k, Len(recent))]
      BY <3>1 DEF cc
    <3>4. recent = Append(camGids[cc], b)
      BY DEF cc
    <3> HIDE DEF recent
    <3>5. cc \in OverlayCams /\ tt \in Tracks /\ byLocal' = [byLocal EXCEPT ![<<cc, tt>>] = b]
             /\ a.cam = cc
      BY <3>1, <3>2 DEF cc, tt
    <3> HIDE DEF e
    <3>6. /\ \A c \in OverlayCams : c # cc => camGids'[c] = camGids[c]
          /\ camGids'[cc] = SubSeq(recent, k, Len(recent))
      BY <3>3, <3>5 DEF Sourced
    <3>7. /\ Len(applied') = Len(applied) + 1 /\ applied'[Len(applied) + 1] = a
          /\ \A i \in DOMAIN applied : i \in DOMAIN applied' /\ applied'[i] = applied[i]
          /\ Len(applied) + 1 \in DOMAIN applied'
      BY <3>1, <3>2 DEF OverlayInv
    <3> HIDE DEF Sourcing
    <3>8. ASSUME NEW c \in OverlayCams, NEW x, SourcedFrom(x, c)
          PROVE  Sourcing(x, c)
      BY <3>7, <3>8 DEF SourcedFrom, Sourcing
    <3>9. Sourcing(b, cc)
      BY <3>2, <3>5, <3>7 DEF Sourcing
    <3>10. /\ camGids[cc] \in Seq(Bindings) /\ recent \in Seq(Bindings)
           /\ Len(recent) = Len(camGids[cc]) + 1
           /\ recent[Len(camGids[cc]) + 1] = b
           /\ \A i \in DOMAIN camGids[cc] : recent[i] = camGids[cc][i]
      BY <3>2, <3>4, <3>5 DEF Sourced
    <3>11. \A i \in DOMAIN recent : Sourcing(recent[i], cc)
      <4>1. ASSUME NEW i \in DOMAIN recent
            PROVE  Sourcing(recent[i], cc)
        <5>1. CASE i = Len(camGids[cc]) + 1
          BY <3>9, <3>10, <5>1
        <5>2. CASE i # Len(camGids[cc]) + 1
          <6>1. i \in DOMAIN camGids[cc] /\ recent[i] = camGids[cc][i]
            BY <3>10, <5>2
          <6>2. SourcedFrom(camGids[cc][i], cc)
            BY <3>5, <6>1 DEF Sourced
          <6>3. SourcedFrom(recent[i], cc)
            BY ONLY <6>1, <6>2
          <6> QED
            BY <3>5, <3>8, <6>3
        <5> QED
          BY <5>1, <5>2
      <4> QED
        BY <4>1
    <3>12. /\ camGids'[cc] \in Seq(Bindings)
           /\ \A i \in DOMAIN camGids'[cc] :
                 \E j \in DOMAIN recent : camGids'[cc][i] = recent[j]
      <4>1. k \in 1..Len(recent) /\ Len(recent) \in Nat
        BY <3>10
      <4>2. /\ SubSeq(recent, k, Len(recent)) \in Seq(Bindings)
            /\ Len(SubSeq(recent, k, Len(recent))) = Len(recent) - k + 1
            /\ \A i \in 1..(Len(recent) - k + 1) :
                  SubSeq(recent, k, Len(recent))[i] = recent[k + i - 1]
        <5>1. ASSUME NEW S, NEW s \in Seq(S), NEW m \in 1..Len(s)
              PROVE  /\ SubSeq(s, m, Len(s)) \in Seq(S)
                     /\ Len(SubSeq(s, m, Len(s))) = Len(s) - m + 1
                     /\ \A i \in 1..(Len(s) - m + 1) :
                           SubSeq(s, m, Len(s))[i] = s[m + i - 1]
          OBVIOUS
        <5> QED
          BY <3>10, <4>1, <5>1
      <4>3. \A i \in 1..(Len(recent) - k + 1) : k + i - 1 \in DOMAIN recent
        BY <3>10, <4>1
      <4> QED
        BY <3>6, <4>1, <4>2, <4>3
    <3>13. \A c \in OverlayCams : \A i \in DOMAIN camGids'[c] : Sourcing(camGids'[c][i], c)
      <4>1. ASSUME NEW c \in OverlayCams, NEW i \in DOMAIN camGids'[c]
            PROVE  Sourcing(camGids'[c][i], c)
        <5>1. CASE c = cc
          <6>1. PICK j \in DOMAIN recent : camGids'[cc][i] = recent[j]
            BY <3>12, <4>1, <5>1
          <6>2. Sourcing(recent[j], cc)
            BY <3>11
          <6> QED
            BY <5>1, <6>1, <6>2
        <5>2. CASE c # cc
          <6>1. camGids'[c] = camGids[c]
            BY <3>6, <5>2
          <6>2. SourcedFrom(camGids[c][i], c)
            BY <4>1, <6>1 DEF Sourced
          <6> QED
            BY <3>8, <6>1, <6>2
        <5> QED
          BY <5>1, <5>2
      <4> QED
        BY <4>1
    <3>14. camGids' \in [OverlayCams -> Seq(Bindings)]
      <4>1. DOMAIN camGids' = OverlayCams /\ camGids' = [c \in OverlayCams |-> camGids'[c]]
        BY <3>3 DEF Sourced
      <4>2. \A c \in OverlayCams : camGids'[c] \in Seq(Bindings)
        BY <3>6, <3>12 DEF Sourced
      <4> QED
        BY <4>1, <4>2
    <3>15. byLocal' \in [Locals -> Bindings \union {Unbound}]
      BY <3>2, <3>5 DEF Sourced
    <3>16. ASSUME NEW c \in OverlayCams, NEW t \in Tracks, byLocal'[<<c, t>>] # Unbound
           PROVE  SourcedFrom(byLocal[<<c, t>>], c)'
      <4>1. CASE c = cc /\ t = tt
        <5>1. byLocal'[<<c, t>>] = b
          BY <1>t, <3>5, <4>1 DEF Sourced
        <5> QED
          BY <3>2, <3>5, <3>7, <4>1, <5>1 DEF SourcedFrom
      <4>2. CASE ~(c = cc /\ t = tt)
        <5>1. byLocal'[<<c, t>>] = byLocal[<<c, t>>]
          BY <1>t, <3>5, <4>2 DEF Sourced
        <5>2. SourcedFrom(byLocal[<<c, t>>], c)
          BY <3>16, <5>1 DEF Sourced, Unbound
        <5> QED
          BY <3>7, <5>1, <5>2 DEF SourcedFrom
      <4> QED
        BY <4>1, <4>2
    <3> QED
      BY <3>13, <3>14, <3>15, <3>16 DEF Sourced, Sourcing, SourcedFrom, Unbound
  <2> QED
    BY <2>2, <2>3
<1>5. ASSUME NEW c \in OverlayCams, NEW t \in Tracks, Reassociate(c, t)
      PROVE  Sourced'
  <2>1. PICK b \in Bindings \union {Unbound} :
           /\ byLocal' = [byLocal EXCEPT ![<<c, t>>] = b] /\ UNCHANGED <<camGids, applied>>
           /\ b # Unbound => SourcedFrom(b, c)
    <3>1. CASE \E k \in DOMAIN camGids[c] :
                  IsNewest(camGids[c], k) /\ Rebinds(c, t, camGids[c][k])
      <4>1. PICK k \in DOMAIN camGids[c] : Rebinds(c, t, camGids[c][k])
        BY <3>1
      <4>2. camGids[c][k] \in Bindings /\ SourcedFrom(camGids[c][k], c)
        <5>1. camGids[c] \in Seq(Bindings)
          BY DEF Sourced
        <5> QED
          BY <5>1 DEF Sourced
      <4> QED
        BY <4>1, <4>2 DEF Rebinds
    <3>2. CASE Rebinds(c, t, Unbound)
      BY <3>2 DEF Rebinds
    <3> QED
      BY <1>5, <3>1, <3>2 DEF Reassociate
  <2>2. byLocal' \in [Locals -> Bindings \union {Unbound}]
    BY <2>1 DEF Sourced
  <2>3. ASSUME NEW d \in OverlayCams, NEW u \in Tracks, byLocal'[<<d, u>>] # Unbound
        PROVE  SourcedFrom(byLocal[<<d, u>>], d)'
    <3>1. CASE d = c /\ u = t
      <4>1. byLocal'[<<d, u>>] = b
        BY <1>t, <2>1, <3>1 DEF Sourced
      <4> QED
        BY <2>1, <2>3, <3>1, <4>1 DEF SourcedFrom
    <3>2. CASE ~(d = c /\ u = t)
      <4>1. byLocal'[<<d, u>>] = byLocal[<<d, u>>]
        BY <1>t, <2>1, <3>2 DEF Sourced
      <4>2. SourcedFrom(byLocal[<<d, u>>], d)
        BY <2>3, <4>1 DEF Sourced
      <4> QED
        BY <2>1, <4>1, <4>2 DEF SourcedFrom
    <3> QED
      BY <3>1, <3>2
  <2> QED
    BY <2>1, <2>2, <2>3 DEF Sourced, SourcedFrom, Unbound
<1>6. CASE OverlayRestarts
  <2>1. /\ byLocal' = [l \in Locals |-> Unbound]
        /\ camGids' = [c \in OverlayCams |-> <<>>]
    BY <1>6 DEF OverlayRestarts
  <2>2. \A c \in OverlayCams : camGids'[c] = <<>>
    BY <2>1
  <2>3. camGids' \in [OverlayCams -> Seq(Bindings)]
    BY <2>1
  <2>4. byLocal' \in [Locals -> Bindings \union {Unbound}]
    BY <2>1
  <2>5. \A c \in OverlayCams, t \in Tracks : byLocal'[<<c, t>>] = Unbound
    BY <1>t, <2>1
  <2> QED
    BY <2>2, <2>3, <2>4, <2>5 DEF Sourced, Unbound
<1>7. CASE UNCHANGED overlayVars
  BY <1>0, <1>7 DEF overlayVars
<1> QED
  BY <1>1, <1>2, <1>3, <1>4, <1>5, <1>6, <1>7 DEF OverlayNext, OverlayThread

(* What the bounds limit. *)
OverlayBounds == Len(decisions) <= MaxDecisions /\ overlayFaults \in 0..MaxOverlayFaults

LEMMA BoundsStep ==
    ASSUME OverlayInv, OverlayBounds, [OverlayNext]_overlayVars
    PROVE  OverlayBounds'
<1> USE DEF OverlayBounds
<1>1. CASE UNCHANGED decisions /\ OverlayFault
  BY <1>1, OverlayAssumption DEF OverlayFault
<1>2. ASSUME NEW c \in OverlayCams, NEW t \in Tracks, NEW g \in Gids \union {NoGid},
             AnnounceDecision(c, t, g)
      PROVE  OverlayBounds'
  <2>1. /\ Len(decisions) < MaxDecisions /\ overlayFaults' = overlayFaults
        /\ decisions' = Append(decisions, [cam |-> c, track |-> t, gid |-> g])
    BY <1>2 DEF AnnounceDecision
  <2>2. Len(decisions') = Len(decisions) + 1
    BY <2>1 DEF OverlayInv, CursorIsInside
  <2> QED
    BY <2>1, <2>2, OverlayAssumption DEF OverlayInv, CursorIsInside
<1>3. CASE UNCHANGED <<decisions, overlayFaults>>
  BY <1>3
<1> QED
  BY <1>1, <1>2, <1>3 DEF OverlayNext, OverlayThread, overlayVars, XRead, XReadReturns,
     XReadTimesOut, XReadFails, ApplyDecision, Reassociate, Rebinds, OverlayRestarts, OverlayTick

LEMMA OverlayCorrect == OverlaySpec => [](OverlayInv /\ Sourced /\ OverlayBounds)
<1>1. OverlayInit => OverlayInv /\ Sourced /\ OverlayBounds
  <2>1. OverlayInit => OverlayInv
    BY OverlayAssumption DEF OverlayInit, OverlayInv, CursorIsInside, Dollar
  <2>2. ASSUME OverlayInit
        PROVE  Sourced
    <3>1. camGids \in [OverlayCams -> Seq(Bindings)] /\ \A c \in OverlayCams : camGids[c] = <<>>
      BY <2>2 DEF OverlayInit
    <3>2. \A c \in OverlayCams, t \in Tracks : byLocal[<<c, t>>] = Unbound
      BY <2>2 DEF OverlayInit, Locals
    <3>3. byLocal \in [Locals -> Bindings \union {Unbound}]
      BY <2>2 DEF OverlayInit
    <3> QED
      BY <3>1, <3>2, <3>3 DEF Sourced
  <2>3. OverlayInit => OverlayBounds
    BY OverlayAssumption DEF OverlayInit, OverlayBounds
  <2> QED
    BY <2>1, <2>2, <2>3
<1>2. OverlayInv /\ Sourced /\ OverlayBounds /\ [OverlayNext]_overlayVars
         => OverlayInv' /\ Sourced' /\ OverlayBounds'
  BY OverlayStep, LabelStep, BoundsStep
<1> QED
  BY <1>1, <1>2, PTL DEF OverlaySpec

(* The types of the cache, its reader and the stream it reads. *)
THEOREM OverlayTypes == OverlaySpec => []OverlayTypeOK
<1>1. OverlayInv /\ Sourced /\ OverlayBounds => OverlayTypeOK
  <2>1. ASSUME OverlayInv, Sourced, OverlayBounds
        PROVE  /\ lastId \in -1..MaxDecisions /\ readFrom \in -1..MaxDecisions
               /\ upTo \in 0..MaxDecisions
    BY <2>1, OverlayAssumption DEF OverlayInv, CursorIsInside, OverlayBounds
  <2> QED
    BY <2>1 DEF OverlayInv, CursorIsInside, Sourced, OverlayBounds, OverlayTypeOK, Entries
<1> QED
  BY <1>1, OverlayCorrect, PTL

(* An identity drawn was decided for a track of the same camera and lapses with
   that decision, whatever lookups borrowed it in between: for any number of
   cameras, tracks and decisions and any restarts. *)
THEOREM LabelsStayLocal == OverlaySpec => []LabelsAreLocalAndFresh
<1>1. Sourced => LabelsAreLocalAndFresh
  BY DEF Sourced, SourcedFrom, LabelsAreLocalAndFresh
<1> QED
  BY <1>1, OverlayCorrect, PTL

-----------------------------------------------------------------------------
(* Pictures of a tracklet. *)

(* Among the URIs that are there, each has a place, and each place one. *)
LEMMA UploadsAreCounted ==
    ASSUME NEW uris \in Seq(Nat), NEW k \in 1..Cardinality(Uploaded(uris))
    PROVE  \E i \in Uploaded(uris) : Cardinality(UploadsUpTo(uris, i)) = k
<1> DEFINE U == Uploaded(uris)
           To(i) == UploadsUpTo(uris, i)
           rank == [i \in U |-> Cardinality(To(i))]
           n == Cardinality(U)
<1>1. U \subseteq 1..Len(uris) /\ Len(uris) \in Nat
  BY DEF Uploaded
<1>2. IsFiniteSet(U) /\ n \in Nat
  <2>1. IsFiniteSet(1..Len(uris)) /\ U \in SUBSET (1..Len(uris))
    BY <1>1, FS_Interval
  <2>2. IsFiniteSet(U)
    BY <2>1, FS_Subset
  <2> QED
    BY <2>2, FS_CardinalityType
<1>3. \A i \in U : To(i) \subseteq U /\ i \in To(i) /\ i \in Nat
  BY <1>1 DEF UploadsUpTo
<1>4. \A i, j \in U : i < j => To(i) \subseteq To(j) /\ j \notin To(i)
  BY <1>1 DEF UploadsUpTo
<1> HIDE DEF U, To
<1>5. \A i \in U : IsFiniteSet(To(i)) /\ Cardinality(To(i)) \in 1..n
  <2>1. ASSUME NEW i \in U
        PROVE  IsFiniteSet(To(i)) /\ Cardinality(To(i)) \in 1..n
    <3>1. IsFiniteSet(To(i)) /\ Cardinality(To(i)) <= n
      BY <1>2, <1>3, FS_Subset
    <3>2. Cardinality(To(i)) \in Nat /\ (Cardinality(To(i)) = 0 => To(i) = {})
      BY <3>1, FS_CardinalityType, FS_EmptySet
    <3> QED
      BY <1>2, <1>3, <3>1, <3>2
  <2> QED
    BY <2>1
<1>6. \A i, j \in U : i < j => Cardinality(To(i)) # Cardinality(To(j))
  <2>1. ASSUME NEW i \in U, NEW j \in U, i < j, Cardinality(To(i)) = Cardinality(To(j))
        PROVE  FALSE
    <3>1. To(i) \in SUBSET To(j) /\ IsFiniteSet(To(j))
      BY <1>4, <1>5, <2>1
    <3>2. To(i) = To(j)
      BY <2>1, <3>1, FS_Subset
    <3> QED
      BY <1>3, <1>4, <2>1, <3>2
  <2> QED
    BY <2>1
<1>7. rank \in Injection(U, 1..n)
  <2>1. rank \in [U -> 1..n]
    BY <1>5
  <2>2. \A i, j \in U : rank[i] = rank[j] => i = j
    <3>1. \A i \in U : rank[i] = Cardinality(To(i))
      OBVIOUS
    <3>2. \A i, j \in U : i < j \/ j < i \/ i = j
      BY <1>3
    <3> HIDE DEF rank
    <3> QED
      BY <1>6, <3>1, <3>2
  <2> QED
    BY <2>1, <2>2 DEF Injection, IsInjective
<1>8. IsFiniteSet(1..n) /\ Cardinality(1..n) = Cardinality(U)
  BY <1>2, FS_Interval
<1>9. rank \in Surjection(U, 1..n)
  BY <1>7, <1>8, FS_Injection
<1>10. PICK i \in U : rank[i] = k
  BY <1>9 DEF Surjection, U
<1> QED
  BY <1>10 DEF U, To

(* A URI stands further up than its frame only where an earlier one is missing. *)
LEMMA ValidAreLate ==
    ASSUME NEW uris \in Seq(Nat), \A i \in DOMAIN uris : uris[i] \in {i, NoUri}
    PROVE  /\ Valid(uris) \in Seq(Nat)
           /\ Len(Valid(uris)) <= Len(uris)
           /\ \A k \in DOMAIN Valid(uris) :
                 \/ Valid(uris)[k] = k
                 \/ \E j \in 1..(Valid(uris)[k] - 1) : uris[j] = NoUri
<1> DEFINE n == Cardinality(Uploaded(uris))
           origin(k) == CHOOSE i \in Uploaded(uris) : Cardinality(UploadsUpTo(uris, i)) = k
<1>1. Uploaded(uris) \in SUBSET (1..Len(uris)) /\ Len(uris) \in Nat
  BY DEF Uploaded
<1>2. IsFiniteSet(Uploaded(uris)) /\ n \in Nat /\ n <= Len(uris)
  <2>1. IsFiniteSet(1..Len(uris)) /\ Cardinality(1..Len(uris)) = Len(uris)
    <3>1. IsFiniteSet(1..Len(uris)) /\ Cardinality(1..Len(uris))
                                         = IF 1 > Len(uris) THEN 0 ELSE Len(uris) - 1 + 1
      BY <1>1, FS_Interval, 1 \in Int
    <3> QED
      BY ONLY <3>1, <1>1
  <2>2. IsFiniteSet(Uploaded(uris)) /\ n <= Len(uris)
    BY <1>1, <2>1, FS_Subset
  <2> QED
    BY <2>2, FS_CardinalityType
<1>3. \A k \in 1..n : origin(k) \in Uploaded(uris) /\ Cardinality(UploadsUpTo(uris, origin(k))) = k
  BY UploadsAreCounted
<1>4. \A k \in 1..n : uris[origin(k)] = origin(k) /\ origin(k) \in 1..Len(uris)
  BY <1>1, <1>3 DEF Uploaded
<1>5. Valid(uris) = [k \in 1..n |-> uris[origin(k)]]
  BY DEF Valid
<1> HIDE DEF n, origin
<1>6. Valid(uris) \in Seq(Nat) /\ Len(Valid(uris)) = n /\ DOMAIN Valid(uris) = 1..n
  <2>1. Valid(uris) \in [1..n -> Nat]
    BY <1>4, <1>5
  <2>2. Valid(uris) \in Seq(Nat)
    BY <1>2, <2>1, SeqDef
  <2> QED
    BY <1>2, <2>1, <2>2, LenProperties
<1>7. ASSUME NEW k \in 1..n, \A j \in 1..(origin(k) - 1) : uris[j] # NoUri
      PROVE  origin(k) = k
  <2>1. origin(k) \in Nat /\ origin(k) <= Len(uris) /\ origin(k) \in Uploaded(uris)
    BY <1>1, <1>3, <1>4
  <2>2. \A j \in 1..origin(k) : j \in Uploaded(uris)
    BY <1>1, <1>7, <2>1 DEF Uploaded
  <2>3. UploadsUpTo(uris, origin(k)) = 1..origin(k)
    BY <1>1, <2>1, <2>2 DEF UploadsUpTo
  <2>4. Cardinality(1..origin(k)) = origin(k)
    BY <1>4, FS_Interval
  <2> QED
    BY <1>3, <2>3, <2>4
<1>8. \A k \in 1..n : Valid(uris)[k] = origin(k)
  BY <1>4, <1>5
<1> QED
  BY <1>2, <1>6, <1>7, <1>8
-----------------------------------------------------------------------------
(* The frame x goes with the box y, or stands further up because an upload
   before it is missing. *)
Pictures ==
    [source : {"none", "frames", "crops", "ring"}, frame : Nat, box : Nat, behind : Int]

Matches(x, y, uris) == x = y \/ \E j \in 1..(x - 1) : uris[j] = NoUri

IsOwn(point, uris) ==
    /\ Matches(point.frame, point.box, uris) \/ point.source = "ring"
    /\ point.behind <= RingSize

(* What the collector has captured. *)
Captured ==
    /\ frameUris \in Seq(Nat) /\ frameBoxes \in Seq(Nat) /\ cropUris \in Seq(Nat)
    /\ Len(frameUris) = Len(frameBoxes)
    /\ \A i \in DOMAIN frameUris : frameUris[i] \in {i, NoUri}
    /\ \A i \in DOMAIN frameBoxes : frameBoxes[i] = i

(* The i-th frame of the ring has at most the ones behind it in the ring, and
   the one that is being put, behind it in the stream. *)
RingInLine ==
    /\ ringReader \in {"closed", "reading", "full", "room", "stopped"}
    /\ readCount \in Nat /\ ring \in Seq(Nat) /\ Len(ring) <= RingSize
    /\ \A i \in DOMAIN ring : readCount - ring[i] <= Len(ring) - i + 1
    /\ ringReader \in {"closed", "reading"} =>
          \A i \in DOMAIN ring : readCount - ring[i] <= Len(ring) - i
    /\ ringReader = "room" => Len(ring) < RingSize

(* What the worker holds, from the pairs to the points. *)
Embedded ==
    /\ visit \in {"open", "pending", "frames", "crops", "ring", "done"}
    /\ pairs \in Seq(Nat \X Nat) /\ crops \in Seq(Pictures)
    /\ qdrant \in [1..MaxCrops -> Pictures]
    /\ visit = "open" => crops = <<>> /\ qdrant = [i \in 1..MaxCrops |-> NoCrop]
    /\ visit \in {"frames", "crops"} =>
          \A i \in DOMAIN pairs : Matches(pairs[i][1], pairs[i][2], frameUris)
    /\ \A i \in DOMAIN crops : IsOwn(crops[i], frameUris)
    /\ \A i \in DOMAIN qdrant : IsOwn(qdrant[i], frameUris)

CropsInv == Captured /\ RingInLine /\ Embedded

LEMMA RingStep ==
    ASSUME RingInLine, [CropsNext]_cropVars
    PROVE  RingInLine'
<1> USE DEF RingInLine
<1>c. RingSize \in Nat /\ RingSize >= 1
  BY CropsAssumption
<1>1. CASE UNCHANGED ringVars
  BY <1>1 DEF ringVars
<1>2. CASE CutFromRing
  <2>1. readCount' = readCount /\ ringReader' = ringReader
    BY <1>2 DEF CutFromRing
  <2>2. CASE ring = <<>>
    BY <1>2, <2>1, <2>2 DEF CutFromRing
  <2>3. CASE ring # <<>>
    <3>1. ring' = Tail(ring)
      BY <1>2, <2>3 DEF CutFromRing
    <3>2. /\ ring' \in Seq(Nat) /\ Len(ring') = Len(ring) - 1
          /\ \A i \in DOMAIN ring' : ring'[i] = ring[i + 1] /\ i + 1 \in DOMAIN ring
      BY <2>3, <3>1
    <3>3. \A i \in DOMAIN ring' :
             readCount' - ring'[i] <= Len(ring) - (i + 1) + 1
      BY <2>1, <3>2
    <3>4. \A i \in DOMAIN ring' : readCount' - ring'[i] <= Len(ring') - i + 1
      BY <2>1, <3>2, <3>3
    <3>5. ringReader' \in {"closed", "reading"} =>
             \A i \in DOMAIN ring' : readCount' - ring'[i] <= Len(ring') - i
      BY <2>1, <3>2
    <3> QED
      BY <1>c, <2>1, <3>2, <3>4, <3>5
  <2> QED
    BY <2>2, <2>3
<1>3. CASE BufferConnects
  BY <1>3 DEF BufferConnects
<1>4. CASE BufferReads
  <2>1. CASE Len(ring) < RingSize
    <3>1. /\ readCount' = readCount + 1 /\ ring' = Append(ring, readCount + 1)
          /\ ringReader = "reading" /\ ringReader' = "reading"
      BY <1>4, <2>1 DEF BufferReads
    <3>2. /\ ring' \in Seq(Nat) /\ Len(ring') = Len(ring) + 1
          /\ ring'[Len(ring) + 1] = readCount + 1
          /\ \A i \in DOMAIN ring : ring'[i] = ring[i]
      BY <3>1
    <3>3. \A i \in DOMAIN ring' : readCount' - ring'[i] <= Len(ring') - i
      <4>1. ASSUME NEW i \in DOMAIN ring'
            PROVE  readCount' - ring'[i] <= Len(ring') - i
        <5>1. CASE i = Len(ring) + 1
          BY <3>1, <3>2, <5>1
        <5>2. CASE i # Len(ring) + 1
          <6>1. i \in DOMAIN ring
            BY <3>2, <5>2
          <6> QED
            BY <3>1, <3>2, <6>1
        <5> QED
          BY <5>1, <5>2
      <4> QED
        BY <4>1
    <3> QED
      BY <1>c, <2>1, <3>1, <3>2, <3>3
  <2>2. CASE ~(Len(ring) < RingSize)
    <3>1. /\ readCount' = readCount + 1 /\ ring' = ring
          /\ ringReader = "reading" /\ ringReader' = "full"
      BY <1>4, <2>2 DEF BufferReads
    <3> QED
      BY <1>c, <2>2, <3>1
  <2> QED
    BY <2>1, <2>2
<1>5. CASE DropOldest
  <2>1. readCount' = readCount /\ ringReader = "full" /\ ringReader' = "room"
    BY <1>5 DEF DropOldest
  <2>2. CASE ring = <<>>
    BY <1>c, <1>5, <2>1, <2>2 DEF DropOldest
  <2>3. CASE ring # <<>>
    <3>1. ring' = Tail(ring)
      BY <1>5, <2>3 DEF DropOldest
    <3>2. /\ ring' \in Seq(Nat) /\ Len(ring') = Len(ring) - 1
          /\ \A i \in DOMAIN ring' : ring'[i] = ring[i + 1] /\ i + 1 \in DOMAIN ring
      BY <2>3, <3>1
    <3> QED
      BY <1>c, <2>1, <3>2
  <2> QED
    BY <2>2, <2>3
<1>6. CASE PutAgain
  <2>1. /\ readCount' = readCount /\ ringReader = "room" /\ ringReader' = "reading"
        /\ ring' = Append(ring, readCount)
    BY <1>6 DEF PutAgain
  <2>2. /\ ring' \in Seq(Nat) /\ Len(ring') = Len(ring) + 1
        /\ ring'[Len(ring) + 1] = readCount
        /\ \A i \in DOMAIN ring : ring'[i] = ring[i]
    BY <2>1
  <2>3. \A i \in DOMAIN ring' : readCount' - ring'[i] <= Len(ring') - i
    <3>1. ASSUME NEW i \in DOMAIN ring'
          PROVE  readCount' - ring'[i] <= Len(ring') - i
      <4>1. CASE i = Len(ring) + 1
        BY <2>1, <2>2, <4>1
      <4>2. CASE i # Len(ring) + 1
        <5>1. i \in DOMAIN ring
          BY <2>2, <4>2
        <5> QED
          BY <2>1, <2>2, <5>1
      <4> QED
        BY <4>1, <4>2
    <3> QED
      BY <3>1
  <2> QED
    BY <1>c, <2>1, <2>2, <2>3
<1>7. CASE BufferFails
  BY <1>7 DEF BufferFails
<1>8. CASE SidecarStops
  BY <1>8 DEF SidecarStops
<1> QED
  BY <1>1, <1>2, <1>3, <1>4, <1>5, <1>6, <1>7, <1>8 DEF CropsNext, cropVars, CaptureDetection,
     StoreCrop, AnnounceTracklet, SidecarVisits, WorkerVisits, VisitWith, SidecarLoads,
     WorkerLoads, Loads, SkipTracklet, SidecarWrites, WorkerWrites, Writes

LEMMA CapturedStep ==
    ASSUME Captured, [CropsNext]_cropVars
    PROVE  Captured'
<1> USE DEF Captured
<1>1. CASE UNCHANGED trackVars
  BY <1>1 DEF trackVars
<1>2. CASE CaptureDetection
  <2> DEFINE n == Len(frameBoxes) + 1
  <2>1. PICK got \in {n, NoUri} :
           /\ frameBoxes' = Append(frameBoxes, n) /\ frameUris' = Append(frameUris, got)
           /\ cropUris' = cropUris
    BY <1>2 DEF CaptureDetection
  <2>2. /\ frameBoxes' \in Seq(Nat) /\ Len(frameBoxes') = n /\ frameBoxes'[n] = n
        /\ \A i \in DOMAIN frameBoxes : frameBoxes'[i] = frameBoxes[i]
    BY <2>1
  <2>3. /\ frameUris' \in Seq(Nat) /\ Len(frameUris') = n /\ frameUris'[n] = got
        /\ \A i \in DOMAIN frameUris : frameUris'[i] = frameUris[i]
    BY <2>1 DEF NoUri
  <2>4. \A i \in 1..n : i = n \/ (i \in DOMAIN frameBoxes /\ i \in DOMAIN frameUris)
    OBVIOUS
  <2>5. DOMAIN frameBoxes' = 1..n /\ DOMAIN frameUris' = 1..n
    BY <2>2, <2>3
  <2> QED
    BY <2>1, <2>2, <2>3, <2>4, <2>5
<1>3. CASE StoreCrop
  BY <1>3 DEF StoreCrop
<1>4. CASE AnnounceTracklet
  <2>1. UNCHANGED <<frameUris, frameBoxes>>
    BY <1>4 DEF AnnounceTracklet
  <2>2. cropUris' \in Seq(Nat)
    <3>1. PICK n \in {MaxCrops, Len(cropUris)} :
             n <= Len(cropUris) /\ cropUris' = SubSeq(cropUris, 1, n)
      <4>1. PICK n : /\ cropUris' = SubSeq(cropUris, 1, n)
                     /\ n = IF Len(cropUris) > MaxCrops THEN MaxCrops ELSE Len(cropUris)
        BY <1>4 DEF AnnounceTracklet
      <4> QED
        BY <4>1, CropsAssumption
    <3> QED
      BY <3>1, CropsAssumption
  <2> QED
    BY <2>1, <2>2
<1> QED
  BY <1>1, <1>2, <1>3, <1>4 DEF CropsNext, cropVars, trackVars, SidecarVisits, WorkerVisits,
     VisitWith, SidecarLoads, WorkerLoads, Loads, CutFromRing, SkipTracklet, SidecarWrites,
     WorkerWrites, Writes, BufferConnects, BufferReads, DropOldest, PutAgain, BufferFails,
     SidecarStops

LEMMA NoneIsOwn ==
    ASSUME NEW uris
    PROVE  NoCrop \in Pictures /\ IsOwn(NoCrop, uris)
BY CropsAssumption DEF NoCrop, Pictures, IsOwn, Matches

LEMMA ZippedPairs ==
    ASSUME NEW uris \in Seq(Nat), NEW numbers \in Seq(Nat), Len(uris) <= Len(numbers)
    PROVE  /\ Zipped(uris, numbers) \in Seq(Nat \X Nat)
           /\ DOMAIN Zipped(uris, numbers) = DOMAIN uris
           /\ \A i \in DOMAIN uris : Zipped(uris, numbers)[i] = <<uris[i], numbers[i]>>
<1>1. Len(uris) \in Nat /\ DOMAIN uris = 1..Len(uris)
         /\ \A i \in 1..Len(uris) : uris[i] \in Nat /\ i \in 1..Len(numbers) /\ numbers[i] \in Nat
  OBVIOUS
<1>2. Zipped(uris, numbers) \in [1..Len(uris) -> Nat \X Nat]
  <2>1. \A i \in 1..Len(uris) : <<uris[i], numbers[i]>> \in Nat \X Nat
    BY <1>1
  <2> QED
    BY <2>1 DEF Zipped
<1>3. Zipped(uris, numbers) \in Seq(Nat \X Nat)
  <2>1. ASSUME NEW S, NEW n \in Nat, NEW f \in [1..n -> S]
        PROVE  f \in Seq(S)
    BY SeqDef
  <2> QED
    BY <1>1, <1>2, <2>1
<1> QED
  BY <1>1, <1>2, <1>3 DEF Zipped

(* A visit begins with pairs of which each matches, or with the ring's. *)
LEMMA VisitStep ==
    ASSUME Captured, Embedded, NEW path \in {"frames", "crops", "ring"}, NEW todo,
           VisitWith(path, todo), todo \in Seq(Nat \X Nat),
           path # "ring" =>
              \A i \in DOMAIN todo : Matches(todo[i][1], todo[i][2], frameUris)
    PROVE  Embedded'
<1>1. /\ visit' = path /\ pairs' = todo /\ crops' = <<>>
      /\ qdrant' = qdrant /\ frameUris' = frameUris
  BY DEF VisitWith, trackVars
<1> QED
  BY <1>1 DEF Embedded

(* The next pair is taken; its picture, if there is one, shows what it names. *)
LEMMA LoadStep ==
    ASSUME Embedded, pairs # <<>>, visit \in {"frames", "crops", "ring"},
           NEW behind \in Int, behind <= RingSize,
           UNCHANGED <<visit, qdrant, frameUris>>, pairs' = Tail(pairs),
           NEW x \in Nat, x = Head(pairs)[1] \/ visit = "ring",
           \/ crops' = crops
           \/ crops' = Append(crops, [source |-> visit, frame |-> x, box |-> Head(pairs)[2],
                                      behind |-> behind])
    PROVE  Embedded'
<1> DEFINE c == [source |-> visit, frame |-> x, box |-> Head(pairs)[2], behind |-> behind]
<1>1. /\ pairs \in Seq(Nat \X Nat) /\ crops \in Seq(Pictures)
      /\ pairs' \in Seq(Nat \X Nat)
      /\ \A i \in DOMAIN pairs' : i + 1 \in DOMAIN pairs /\ pairs'[i] = pairs[i + 1]
      /\ Head(pairs) \in Nat \X Nat /\ Head(pairs) = pairs[1] /\ 1 \in DOMAIN pairs
  BY DEF Embedded
<1>2. visit' \in {"frames", "crops"} =>
         \A i \in DOMAIN pairs' : Matches(pairs'[i][1], pairs'[i][2], frameUris')
  BY <1>1 DEF Embedded
<1>3. c \in Pictures
  BY <1>1 DEF Pictures
<1>4. IsOwn(c, frameUris)
  <2>1. c.source = visit /\ c.frame = x /\ c.box = pairs[1][2] /\ c.behind = behind
    BY <1>1
  <2>2. CASE visit = "ring"
    BY <2>1, <2>2 DEF IsOwn
  <2>3. CASE visit # "ring"
    <3>1. Matches(pairs[1][1], pairs[1][2], frameUris)
      BY <1>1, <2>3 DEF Embedded
    <3>2. x = pairs[1][1]
      BY <1>1, <2>3
    <3> HIDE DEF c
    <3> QED
      BY <2>1, <3>1, <3>2 DEF IsOwn
  <2> QED
    BY <2>2, <2>3
<1> HIDE DEF c
<1>5. /\ crops' \in Seq(Pictures)
      /\ \A i \in DOMAIN crops' : crops'[i] = c \/ (i \in DOMAIN crops /\ crops'[i] = crops[i])
  <2>1. CASE crops' = crops
    BY <1>1, <2>1
  <2>2. CASE crops' = Append(crops, c)
    BY <1>1, <1>3, <2>2
  <2> QED
    BY <2>1, <2>2 DEF c
<1>6. \A i \in DOMAIN crops' : IsOwn(crops'[i], frameUris')
  BY <1>4, <1>5 DEF Embedded
<1> QED
  BY <1>1, <1>2, <1>5, <1>6 DEF Embedded

(* Points are overwritten by pictures of this visit. *)
LEMMA WriteStep ==
    ASSUME Embedded, NEW written \in SUBSET (DOMAIN crops), Writes(written)
    PROVE  Embedded'
<1>1. /\ visit # "open" /\ visit' \in {"pending", "done"}
      /\ UNCHANGED <<pairs, crops, frameUris>>
      /\ qdrant' = [i \in DOMAIN qdrant |-> IF i \in written THEN crops[i] ELSE qdrant[i]]
  BY DEF Writes, AtWork, trackVars
<1>2. /\ \A i \in DOMAIN crops : crops[i] \in Pictures /\ IsOwn(crops[i], frameUris)
      /\ \A i \in 1..MaxCrops : qdrant[i] \in Pictures /\ IsOwn(qdrant[i], frameUris)
      /\ DOMAIN qdrant = 1..MaxCrops
  BY DEF Embedded
<1>3. \A i \in 1..MaxCrops : qdrant'[i] = IF i \in written THEN crops[i] ELSE qdrant[i]
  BY <1>1, <1>2
<1>4. \A i \in 1..MaxCrops : qdrant'[i] \in Pictures /\ IsOwn(qdrant'[i], frameUris)
  BY <1>2, <1>3
<1>5. qdrant' \in [1..MaxCrops -> Pictures] /\ DOMAIN qdrant' = 1..MaxCrops
  BY <1>1, <1>2, <1>3, <1>4
<1> QED
  BY <1>1, <1>2, <1>4, <1>5 DEF Embedded

LEMMA EmbeddedStep ==
    ASSUME Captured, RingInLine, Embedded, [CropsNext]_cropVars
    PROVE  Embedded'
<1>1. CASE UNCHANGED <<frameUris, visit, pairs, crops, qdrant>>
  BY <1>1 DEF Embedded
<1>2. CASE CaptureDetection
  <2>1. visit = "open" /\ UNCHANGED <<visit, pairs, crops, qdrant>>
    BY <1>2 DEF CaptureDetection
  <2>2. crops = <<>> /\ \A i \in DOMAIN qdrant : qdrant[i] = NoCrop
    BY <2>1 DEF Embedded
  <2>3. \A i \in DOMAIN qdrant : IsOwn(qdrant'[i], frameUris')
    BY <2>1, <2>2, NoneIsOwn
  <2> QED
    BY <2>1, <2>2, <2>3 DEF Embedded
<1>3. CASE AnnounceTracklet
  <2>1. visit' = "pending" /\ UNCHANGED <<frameUris, pairs, crops, qdrant>>
    BY <1>3 DEF AnnounceTracklet
  <2> QED
    BY <2>1 DEF Embedded
<1>c. CASE VisitWith("crops", Zipped(cropUris, cropUris))
  <2>1. /\ Zipped(cropUris, cropUris) \in Seq(Nat \X Nat)
        /\ \A i \in DOMAIN Zipped(cropUris, cropUris) :
              Zipped(cropUris, cropUris)[i] = <<cropUris[i], cropUris[i]>>
    <3>1. cropUris \in Seq(Nat) /\ Len(cropUris) <= Len(cropUris)
      BY DEF Captured
    <3> QED
      BY <3>1, ZippedPairs
  <2>2. \A i \in DOMAIN Zipped(cropUris, cropUris) :
           Matches(Zipped(cropUris, cropUris)[i][1], Zipped(cropUris, cropUris)[i][2], frameUris)
    BY <2>1 DEF Matches
  <2> QED
    BY <1>c, <2>1, <2>2, VisitStep
<1>f. CASE VisitWith("frames", Zipped(Valid(frameUris), frameBoxes))
  <2> DEFINE v == Valid(frameUris)
             z == Zipped(v, frameBoxes)
  <2>1. frameUris \in Seq(Nat) /\ frameBoxes \in Seq(Nat) /\ Len(frameUris) = Len(frameBoxes)
           /\ \A i \in DOMAIN frameUris : frameUris[i] \in {i, NoUri}
    BY DEF Captured
  <2>2. /\ v \in Seq(Nat) /\ Len(v) <= Len(frameBoxes)
        /\ \A k \in DOMAIN v : v[k] = k \/ \E j \in 1..(v[k] - 1) : frameUris[j] = NoUri
    BY <2>1, ValidAreLate
  <2> HIDE DEF v
  <2>3. z \in Seq(Nat \X Nat) /\ DOMAIN z = DOMAIN v
           /\ \A k \in DOMAIN v : z[k] = <<v[k], frameBoxes[k]>>
    BY <2>1, <2>2, ZippedPairs
  <2> HIDE DEF z
  <2>4. \A k \in DOMAIN v : frameBoxes[k] = k
    <3>1. \A k \in DOMAIN v : k \in DOMAIN frameBoxes
      BY <2>1, <2>2
    <3> QED
      BY <3>1 DEF Captured
  <2>5. \A k \in DOMAIN z : Matches(z[k][1], z[k][2], frameUris)
    <3>1. \A k \in DOMAIN z : z[k][1] = v[k] /\ z[k][2] = k
      BY ONLY <2>3, <2>4
    <3> QED
      BY <2>2, <2>3, <3>1 DEF Matches
  <2> QED
    BY <1>f, <2>3, <2>5, VisitStep DEF v, z
<1>r. CASE VisitWith("ring", Zipped(frameBoxes, frameBoxes))
  <2>1. frameBoxes \in Seq(Nat) /\ Len(frameBoxes) <= Len(frameBoxes)
    BY DEF Captured
  <2> QED
    BY <1>r, <2>1, ZippedPairs, VisitStep
<1>4. CASE SidecarVisits \/ WorkerVisits
  BY <1>4, <1>c, <1>f, <1>r DEF SidecarVisits, WorkerVisits
<1>5. CASE SidecarLoads \/ WorkerLoads
  <2>1. /\ pairs # <<>> /\ visit \in {"frames", "crops"}
        /\ UNCHANGED <<visit, qdrant, frameUris>> /\ pairs' = Tail(pairs)
        /\ \/ crops' = crops
           \/ crops' = Append(crops, [source |-> visit, frame |-> Head(pairs)[1],
                                      box |-> Head(pairs)[2], behind |-> 0])
    BY <1>5 DEF SidecarLoads, WorkerLoads, Loads, trackVars
  <2>2. 0 \in Int /\ 0 <= RingSize
    BY CropsAssumption
  <2>3. Head(pairs)[1] \in Nat
    <3>1. pairs \in Seq(Nat \X Nat)
      BY DEF Embedded
    <3> QED
      BY <2>1, <3>1
  <2> QED
    BY <2>1, <2>2, <2>3, LoadStep
<1>6. CASE CutFromRing
  <2>1. /\ pairs # <<>> /\ visit = "ring"
        /\ UNCHANGED <<visit, qdrant, frameUris>> /\ pairs' = Tail(pairs)
    BY <1>6 DEF CutFromRing, trackVars
  <2>2. PICK behind \in Int :
           /\ behind <= RingSize
           /\ \/ crops' = crops
              \/ crops' = Append(crops, [source |-> visit, frame |-> 0, box |-> Head(pairs)[2],
                                         behind |-> behind])
    <3>1. CASE ring = <<>>
      BY <1>6, <3>1, 0 \in Int, CropsAssumption DEF CutFromRing
    <3>2. CASE ring # <<>>
      <4>1. readCount - Head(ring) \in Int /\ readCount - Head(ring) <= RingSize
        <5>1. ring \in Seq(Nat) /\ 1 \in DOMAIN ring /\ Head(ring) = ring[1] /\ ring[1] \in Nat
          BY <3>2 DEF RingInLine
        <5>2. readCount - ring[1] <= Len(ring) /\ readCount \in Nat /\ Len(ring) <= RingSize
          BY <5>1 DEF RingInLine
        <5> QED
          BY <5>1, <5>2, CropsAssumption
      <4>2. \/ crops' = crops
            \/ crops' = Append(crops, [source |-> visit, frame |-> 0, box |-> Head(pairs)[2],
                                       behind |-> readCount - Head(ring)])
        BY <1>6, <2>1, <3>2 DEF CutFromRing
      <4> QED
        BY <4>1, <4>2
    <3> QED
      BY <3>1, <3>2
  <2> QED
    BY <2>1, <2>2, LoadStep
<1>7. CASE SkipTracklet
  <2>1. /\ visit' \in {"pending", "done"}
        /\ UNCHANGED <<frameUris, pairs, crops, qdrant>>
    BY <1>7 DEF SkipTracklet, trackVars
  <2> QED
    BY <2>1 DEF Embedded
<1>8. CASE SidecarWrites \/ WorkerWrites
  <2>1. PICK written \in SUBSET (DOMAIN crops) : Writes(written)
    <3>1. crops \in Seq(Pictures)
      BY DEF Embedded
    <3>2. \A n \in 0..Len(crops) : 1..n \in SUBSET (DOMAIN crops)
      BY <3>1
    <3> QED
      BY <1>8, <3>2 DEF SidecarWrites, WorkerWrites
  <2> QED
    BY <2>1, WriteStep
<1> QED
  BY <1>1, <1>2, <1>3, <1>4, <1>5, <1>6, <1>7, <1>8 DEF CropsNext, cropVars, trackVars, StoreCrop,
     BufferConnects, BufferReads, DropOldest, PutAgain, BufferFails, SidecarStops

(* A point of a tracklet shows its own person, or a box that a missing upload
   has shifted, or a frame of the ring at most RingSize old: for any number of
   pictures and points, any size of the ring and any failures. *)
THEOREM PicturesAreOwn == CropsSpec => []PointsAreOwn
<1>1. CropsInit => CropsInv
  <2>1. ASSUME CropsInit
        PROVE  Captured /\ RingInLine
    BY <2>1, CropsAssumption DEF CropsInit, Captured, RingInLine
  <2>2. ASSUME CropsInit
        PROVE  Embedded
    <3>1. \A i \in 1..MaxCrops : qdrant[i] = NoCrop
      BY <2>2 DEF CropsInit
    <3>2. qdrant \in [1..MaxCrops -> Pictures]
      BY <2>2, NoneIsOwn DEF CropsInit
    <3>3. visit = "open" /\ pairs = <<>> /\ crops = <<>>
             /\ qdrant = [i \in 1..MaxCrops |-> NoCrop]
      BY <2>2 DEF CropsInit
    <3> QED
      BY <3>1, <3>2, <3>3, NoneIsOwn DEF Embedded
  <2> QED
    BY <2>1, <2>2 DEF CropsInv
<1>2. CropsInv /\ [CropsNext]_cropVars => CropsInv'
  BY CapturedStep, RingStep, EmbeddedStep DEF CropsInv
<1>3. CropsInv => PointsAreOwn
  BY DEF CropsInv, Embedded, IsOwn, Matches, PointsAreOwn
<1> QED
  BY <1>1, <1>2, <1>3, PTL DEF CropsSpec

=============================================================================
