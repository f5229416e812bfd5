----------------------------- MODULE HealthProbe -----------------------------
(***************************************************************************)
(* GET /health of api/server.py: Postgres is asked every time, MinIO       *)
(* through a cache that concurrent requests share, read and written under  *)
(* a lock, but not locked while a probe runs.                              *)
(***************************************************************************)
EXTENDS Integers, FiniteSets

CONSTANTS
    HealthRequests,  \* identities for concurrent requests
    CacheTTL,        \* _MINIO_CACHE_TTL_SECONDS
    ProbeTimeout,    \* the bound of wait_for on a probe
    MaxHealthTime    \* bound on the clock

ASSUME ProbeAssumption ==
    /\ {CacheTTL, ProbeTimeout, MaxHealthTime} \subseteq Nat
    /\ ProbeTimeout < CacheTTL

VARIABLES
    healthNow,   \* time.monotonic()
    minioUp,     \* MinIO answers
    lastUp,      \* when MinIO last answered, -1 for never
    lastDown,    \* when it last did not
    cached,      \* _minio_status_cache: stamp and status
    probing,     \* probing[r]: when the probe of r began, -1 for no probe
    found,       \* found[r]: what that probe has found, "none" for nothing yet
    answer       \* the last answer: when it was given, and its status

probeVars == <<healthNow, minioUp, lastUp, lastDown, cached, probing, found, answer>>

NoStatus == [at |-> -1, status |-> "none"]

ProbeInit ==
    /\ healthNow = 0 /\ minioUp \in BOOLEAN
    /\ lastUp = (IF minioUp THEN 0 ELSE -1)
    /\ lastDown = (IF minioUp THEN -1 ELSE 0)
    /\ cached = NoStatus
    /\ probing = [r \in HealthRequests |-> -1]
    /\ found = [r \in HealthRequests |-> "none"]
    /\ answer = NoStatus

(* wait_for lets no probe run for longer than its bound. *)
HealthTick ==
    /\ healthNow < MaxHealthTime
    /\ \A r \in HealthRequests : probing[r] >= 0 => healthNow < probing[r] + ProbeTimeout
    /\ healthNow' = healthNow + 1
    /\ lastUp' = IF minioUp THEN healthNow + 1 ELSE lastUp
    /\ lastDown' = IF minioUp THEN lastDown ELSE healthNow + 1
    /\ UNCHANGED <<minioUp, cached, probing, found, answer>>

MinioChanges ==
    /\ minioUp' = ~minioUp
    /\ lastUp' = IF minioUp THEN lastUp ELSE healthNow
    /\ lastDown' = IF minioUp THEN healthNow ELSE lastDown
    /\ UNCHANGED <<healthNow, cached, probing, found, answer>>

Fresh == cached # NoStatus /\ healthNow - cached.at < CacheTTL

(* _minio_status: an answer from the cache ... *)
AnswerCached ==
    /\ Fresh
    /\ answer' = [at |-> healthNow, status |-> cached.status]
    /\ UNCHANGED <<healthNow, minioUp, lastUp, lastDown, cached, probing, found>>

(* ... or a probe, which others may start meanwhile. *)
StartProbe(r) ==
    /\ probing[r] < 0 /\ ~Fresh
    /\ probing' = [probing EXCEPT ![r] = healthNow]
    /\ UNCHANGED <<healthNow, minioUp, lastUp, lastDown, cached, found, answer>>

(* What a probe may end with: what it found, or a timeout at its bound. *)
ProbeResults(r) ==
    (IF found[r] = "none" THEN {} ELSE {found[r]})
    \union (IF healthNow = probing[r] + ProbeTimeout THEN {"timeout"} ELSE {})

(* The probe learns whether MinIO answers; its own answer may come later. *)
ProbeObserves(r) ==
    /\ probing[r] >= 0 /\ found[r] = "none"
    /\ found' = [found EXCEPT ![r] = IF minioUp THEN "ok" ELSE "down"]
    /\ UNCHANGED <<healthNow, minioUp, lastUp, lastDown, cached, probing, answer>>

(* Mutant: the cache is stamped when the probe ends. *)
ProbeEnds_StampsEnd(r) ==
    /\ probing[r] >= 0
    /\ \E status \in ProbeResults(r) :
          /\ cached' = [at |-> healthNow, status |-> status]
          /\ answer' = [at |-> healthNow, status |-> status]
    /\ probing' = [probing EXCEPT ![r] = -1]
    /\ found' = [found EXCEPT ![r] = "none"]
    /\ UNCHANGED <<healthNow, minioUp, lastUp, lastDown>>

(* The result goes to the cache with the time at which the probe began, over
   whatever a later probe has put there. *)
ProbeEnds(r) ==
    /\ probing[r] >= 0
    /\ \E status \in ProbeResults(r) :
          /\ cached' = [at |-> probing[r], status |-> status]
          /\ answer' = [at |-> healthNow, status |-> status]
    /\ probing' = [probing EXCEPT ![r] = -1]
    /\ found' = [found EXCEPT ![r] = "none"]
    /\ UNCHANGED <<healthNow, minioUp, lastUp, lastDown>>

ProbeNext ==
    \/ HealthTick \/ MinioChanges \/ AnswerCached
    \/ \E r \in HealthRequests : StartProbe(r) \/ ProbeObserves(r) \/ ProbeEnds(r)

ProbeSpec == ProbeInit /\ [][ProbeNext]_probeVars

-----------------------------------------------------------------------------
(* "ok" and "down" were true less than the cache's TTL ago, however requests,
   slow probes and late writers overlap. *)
AnswersAreRecent ==
    answer.at = healthNow =>
        /\ answer.status = "ok" => healthNow - lastUp < CacheTTL /\ lastUp >= 0
        /\ answer.status = "down" => healthNow - lastDown < CacheTTL /\ lastDown >= 0
=============================================================================
