------------------------------ MODULE Retention ------------------------------
(***************************************************************************)
(* scripts/retention_worker.py beside the resolver: identities expire in   *)
(* PostgreSQL, points leave Qdrant, crops leave MinIO, in one pass of steps*)
(* of which some fail silently, while the resolver goes on matching.       *)
(*                                                                         *)
(* Time is in whole seconds.  Which identity a search decides for is left  *)
(* open (IdentityResolution has the decision): any point whose time is in  *)
(* the persistence window of the tracklet's own time may be matched.       *)
(***************************************************************************)
EXTENDS Integers, FiniteSets

CONSTANTS
    Identities,         \* global ids
    Window,             \* persistence_window_seconds, and both 24 h retentions
    MaxLateness,        \* how late a tracklet's embedding may be resolved
    MaxRetentionTime,   \* bound on the clock
    MaxRetentionFaults  \* bound on store calls that fail in a pass

ASSUME RetentionAssumption ==
    {Window, MaxLateness, MaxRetentionTime, MaxRetentionFaults} \subseteq Nat

VARIABLES
    today,      \* the wall clock
    dryRun,     \* RETENTION_DRY_RUN
    status,     \* global_identities.status, "none" for no row
    seenAt,     \* global_identities.last_seen_at
    points,     \* Qdrant's points: their identity and time
    pass,       \* the pass: where it is, and the time it began
    expiredAt,  \* when the identity expired, -1 for never
    lateHit,    \* identities matched by a tracklet older than their expiry
    retentionFaults

retentionVars == <<today, dryRun, status, seenAt, points, pass, expiredAt, lateHit,
                   retentionFaults>>

Asleep == [at |-> "asleep", began |-> 0]

RetentionInit ==
    /\ today = 0 /\ dryRun \in BOOLEAN
    /\ status = [g \in Identities |-> "none"]
    /\ seenAt = [g \in Identities |-> 0]
    /\ points = {} /\ pass = Asleep
    /\ expiredAt = [g \in Identities |-> -1]
    /\ lateHit = {}
    /\ retentionFaults = 0

Later(a, b) == IF a > b THEN a ELSE b

DayPasses ==
    /\ today < MaxRetentionTime
    /\ today' = today + 1
    /\ UNCHANGED <<dryRun, status, seenAt, points, pass, expiredAt, lateHit, retentionFaults>>

-----------------------------------------------------------------------------
(* A tracklet that ended at ts gets a new identity (create_global_identity). *)
ResolveNew(ts) ==
    \E g \in Identities :
        /\ status[g] = "none"
        /\ status' = [status EXCEPT ![g] = "active"]
        /\ seenAt' = [seenAt EXCEPT ![g] = ts]
        /\ points' = points \union {[gid |-> g, at |-> ts]}
        /\ UNCHANGED <<today, dryRun, pass, expiredAt, lateHit, retentionFaults>>

(* Mutant: the search has no lower bound. *)
Found_Unbounded(ts) == points

(* The points a search for a tracklet that ended at ts may return. *)
Found(ts) == {p \in points : p.at >= ts - Window}

(* It is matched with an identity: last_seen_at grows, the status stays. *)
ResolveMatch(ts) ==
    \E g \in {p.gid : p \in Found(ts)} :
        /\ seenAt' = [seenAt EXCEPT ![g] = Later(@, ts)]
        /\ points' = points \union {[gid |-> g, at |-> ts]}
        /\ lateHit' = IF ts < expiredAt[g] THEN lateHit \union {g} ELSE lateHit
        /\ UNCHANGED <<today, dryRun, status, pass, expiredAt, retentionFaults>>

-----------------------------------------------------------------------------
(* run_once, in its order.  Expiring does not look at the dry-run flag. *)
Expired == {g \in Identities : status[g] = "active" /\ seenAt[g] < today - Window}

PassExpires ==
    /\ pass.at = "asleep"
    /\ status' = [g \in Identities |-> IF g \in Expired THEN "expired" ELSE status[g]]
    /\ expiredAt' = [g \in Identities |-> IF g \in Expired THEN today ELSE expiredAt[g]]
    /\ pass' = IF dryRun THEN Asleep ELSE [at |-> "points", began |-> today]
    /\ UNCHANGED <<today, dryRun, seenAt, points, lateHit, retentionFaults>>

(* Points, tracking events and crops by the cut-offs of the pass's beginning;
   nothing else reads what the latter two delete. *)
PassDeletesPoints ==
    /\ pass.at = "points"
    /\ pass' = Asleep
    /\ points' = {p \in points : p.at >= pass.began - Window}
    /\ UNCHANGED <<today, dryRun, status, seenAt, expiredAt, lateHit, retentionFaults>>

(* A PostgreSQL error ends the pass (main logs it); a Qdrant error only skips
   its step. *)
PassFails ==
    /\ pass.at = "points" /\ retentionFaults < MaxRetentionFaults
    /\ retentionFaults' = retentionFaults + 1
    /\ pass' = Asleep
    /\ UNCHANGED <<today, dryRun, status, seenAt, points, expiredAt, lateHit>>

RetentionNext ==
    \/ DayPasses \/ PassExpires \/ PassDeletesPoints \/ PassFails
    \/ \E ts \in Later(0, today - MaxLateness)..today : ResolveNew(ts) \/ ResolveMatch(ts)

RetentionSpec == RetentionInit /\ [][RetentionNext]_retentionVars

-----------------------------------------------------------------------------
(* Nothing sets an expired identity back to active.  That is harmless as long
   as an expired identity is not met again: no tracklet that ends after the
   expiry finds it, even when its points were not deleted; only one that ended
   before, and was resolved late, brings it back.  (expire_old_identities and
   the windows of _search_with_filters) *)
RevivedWereLate ==
    \A g \in Identities :
        status[g] = "expired" /\ seenAt[g] >= expiredAt[g] - Window => g \in lateHit
=============================================================================
