---------------------------- MODULE OverlayCache ----------------------------
(***************************************************************************)
(* IdentityOverlayCache: a thread that follows stream:identity_decisions   *)
(* with XREAD, without a group, and binds (camera, local track) to a       *)
(* global id for TTL; and lookup, called by the drain thread for every     *)
(* track it draws, which answers with the binding, or, when there is none  *)
(* or it has expired, with the latest global id of the camera that has     *)
(* not, and binds the track to that one too.                               *)
(*                                                                         *)
(* The reader starts from "$": each XREAD sees only what is published      *)
(* after it began, until it has returned a first entry.  A decision        *)
(* without a global id (held, ambiguous) binds nothing.                    *)
(***************************************************************************)
EXTENDS Integers, Sequences, FiniteSets

CONSTANTS
    OverlayCams,      \* camera ids
    Tracks,           \* local track ids
    Gids,             \* global ids
    TTL,              \* ttl_sec
    OverlayHorizon,   \* bound on the clock
    MaxDecisions,     \* bound on the decisions published
    MaxOverlayFaults  \* bound on restarts and failed reads

NoGid == 0
ASSUME OverlayAssumption ==
    /\ Gids \subseteq Nat \ {NoGid}
    /\ TTL \in Nat /\ OverlayHorizon \in Nat /\ MaxDecisions \in Nat
    /\ MaxOverlayFaults \in Nat

VARIABLES
    overlayClock,  \* the clock
    decisions,     \* stream:identity_decisions
    lastId,        \* last entry the reader has taken, or "$" as -1
    readFrom,      \* entries after this one are for the XREAD in progress; -1: none
    upTo,          \* last entry of the batch being applied, or 0
    byLocal,       \* _by_local
    camGids,       \* _by_cam_gids
    applied,       \* every binding applied since the process started, in order
    overlayFaults  \* faults so far

overlayVars == <<overlayClock, decisions, lastId, readFrom, upTo, byLocal, camGids,
                 applied, overlayFaults>>

Locals == OverlayCams \X Tracks
Dollar == -1
Unbound == [gid |-> NoGid, expires |-> -1]
Bindings == [gid : Gids, expires : 0..(OverlayHorizon + TTL)]
Applied == [cam : OverlayCams, track : Tracks, gid : Gids,
            expires : 0..(OverlayHorizon + TTL)]

OverlayTypeOK ==
    /\ overlayClock \in 0..OverlayHorizon
    /\ decisions \in Seq([cam : OverlayCams, track : Tracks, gid : Gids \union {NoGid}])
    /\ lastId \in -1..MaxDecisions /\ readFrom \in -1..MaxDecisions
    /\ upTo \in 0..MaxDecisions
    /\ byLocal \in [Locals -> Bindings \union {Unbound}]
    /\ camGids \in [OverlayCams -> Seq(Bindings)]
    /\ applied \in Seq(Applied)
    /\ overlayFaults \in 0..MaxOverlayFaults

OverlayInit ==
    /\ overlayClock = 0 /\ decisions = <<>>
    /\ lastId = Dollar /\ readFrom = -1 /\ upTo = 0
    /\ byLocal = [l \in Locals |-> Unbound]
    /\ camGids = [c \in OverlayCams |-> <<>>]
    /\ applied = <<>> /\ overlayFaults = 0

OverlayFault == overlayFaults < MaxOverlayFaults /\ overlayFaults' = overlayFaults + 1

-----------------------------------------------------------------------------
OverlayTick ==
    /\ overlayClock < OverlayHorizon
    /\ overlayClock' = overlayClock + 1
    /\ UNCHANGED <<decisions, lastId, readFrom, upTo, byLocal, camGids, applied,
                   overlayFaults>>

(* The resolver publishes a decision. *)
AnnounceDecision(c, t, g) ==
    /\ Len(decisions) < MaxDecisions
    /\ decisions' = Append(decisions, [cam |-> c, track |-> t, gid |-> g])
    /\ UNCHANGED <<overlayClock, lastId, readFrom, upTo, byLocal, camGids, applied,
                   overlayFaults>>

(* XREAD begins: "$" is the end of the stream as of now. *)
XRead ==
    /\ readFrom = -1
    /\ readFrom' = IF lastId = Dollar THEN Len(decisions) ELSE lastId
    /\ UNCHANGED <<overlayClock, decisions, lastId, upTo, byLocal, camGids, applied,
                   overlayFaults>>

(* Entries arrived: they are applied one by one. *)
XReadReturns ==
    /\ readFrom # -1 /\ upTo = 0 /\ Len(decisions) > readFrom
    /\ upTo' = Len(decisions)
    /\ UNCHANGED <<overlayClock, decisions, lastId, readFrom, byLocal, camGids, applied,
                   overlayFaults>>

(* Nothing arrived within block_ms. *)
XReadTimesOut ==
    /\ readFrom # -1 /\ upTo = 0 /\ Len(decisions) = readFrom
    /\ readFrom' = -1
    /\ UNCHANGED <<overlayClock, decisions, lastId, upTo, byLocal, camGids, applied,
                   overlayFaults>>

(* XREAD raises; half a second later comes the next one. *)
XReadFails ==
    /\ readFrom # -1 /\ upTo = 0 /\ OverlayFault
    /\ readFrom' = -1
    /\ UNCHANGED <<overlayClock, decisions, lastId, upTo, byLocal, camGids, applied>>

NotExpired(b) == b.expires >= overlayClock

(* The k-th binding of a camera is its oldest, or newest, that has not expired. *)
IsOldest(s, k) == NotExpired(s[k]) /\ \A i \in DOMAIN s : i < k => ~NotExpired(s[i])
IsNewest(s, k) == NotExpired(s[k]) /\ \A i \in DOMAIN s : i > k => ~NotExpired(s[i])

(* _apply, one entry: a decision with a global id binds its track and goes to
   the end of the camera's list, whose expired head is popped. *)
ApplyDecision ==
    /\ upTo # 0
    /\ LET e == decisions[readFrom + 1]
           b == [gid |-> e.gid, expires |-> overlayClock + TTL]
           recent == Append(camGids[e.cam], b)
       IN  IF e.gid = NoGid
           THEN UNCHANGED <<byLocal, camGids, applied>>
           ELSE /\ byLocal' = [byLocal EXCEPT ![<<e.cam, e.track>>] = b]
                /\ \E k \in DOMAIN recent :
                      /\ IsOldest(recent, k)
                      /\ camGids' = [camGids EXCEPT ![e.cam] = SubSeq(recent, k, Len(recent))]
                /\ applied' = Append(applied, [cam |-> e.cam, track |-> e.track,
                                              gid |-> e.gid, expires |-> b.expires])
    /\ lastId' = readFrom + 1
    /\ readFrom' = IF upTo = readFrom + 1 THEN -1 ELSE readFrom + 1
    /\ upTo' = IF upTo = readFrom + 1 THEN 0 ELSE upTo
    /\ UNCHANGED <<overlayClock, decisions, overlayFaults>>

Rebinds(c, t, b) ==
    /\ byLocal' = [byLocal EXCEPT ![<<c, t>>] = b]
    /\ UNCHANGED <<overlayClock, decisions, lastId, readFrom, upTo, camGids, applied,
                   overlayFaults>>

(* Mutant: the new binding gets a time to live of its own. *)
Reassociate_Renews(c, t) ==
    /\ ~NotExpired(byLocal[<<c, t>>])
    /\ \E k \in DOMAIN camGids[c] :
          /\ IsNewest(camGids[c], k)
          /\ Rebinds(c, t, [camGids[c][k] EXCEPT !.expires = overlayClock + TTL])

(* Mutant: the camera's latest global id goes before the track's own. *)
Reassociate_Always(c, t) ==
    \E k \in DOMAIN camGids[c] : IsNewest(camGids[c], k) /\ Rebinds(c, t, camGids[c][k])

(* lookup of a track that has no binding, or an expired one: the camera's
   latest global id that has not expired, with the expiry it has. *)
Reassociate(c, t) ==
    /\ ~NotExpired(byLocal[<<c, t>>])
    /\ \/ \E k \in DOMAIN camGids[c] :
             IsNewest(camGids[c], k) /\ Rebinds(c, t, camGids[c][k])
       \/ /\ \A k \in DOMAIN camGids[c] : ~NotExpired(camGids[c][k])
          /\ Rebinds(c, t, Unbound)

(* A new process: an empty cache, and "$" again. *)
OverlayRestarts ==
    /\ OverlayFault
    /\ byLocal' = [l \in Locals |-> Unbound]
    /\ camGids' = [c \in OverlayCams |-> <<>>]
    /\ lastId' = Dollar /\ readFrom' = -1 /\ upTo' = 0 /\ applied' = <<>>
    /\ UNCHANGED <<overlayClock, decisions>>

OverlayThread == XRead \/ XReadReturns \/ XReadTimesOut \/ ApplyDecision

OverlayNext ==
    \/ OverlayThread \/ XReadFails \/ OverlayRestarts \/ OverlayTick
    \/ \E c \in OverlayCams, t \in Tracks :
          \/ Reassociate(c, t)
          \/ \E g \in Gids \union {NoGid} : AnnounceDecision(c, t, g)

OverlaySpec == OverlayInit /\ [][OverlayNext]_overlayVars

-----------------------------------------------------------------------------
IsFor(i, c, t) == applied[i].cam = c /\ applied[i].track = t

(* A track that has a decision of its own which has not expired is drawn under
   that decision's identity, however the camera's other tracks, lookups and
   the expiry of earlier bindings came in between.  (lookup, _apply) *)
OwnDecisionWins ==
    \A i \in DOMAIN applied :
        LET a == applied[i]
        IN  /\ a.expires >= overlayClock
            /\ \A j \in DOMAIN applied : j > i => ~IsFor(j, a.cam, a.track)
            => byLocal[<<a.cam, a.track>>].gid = a.gid

(* Every identity drawn comes from a decision about a track of the same camera
   and lapses with it: re-association spreads an identity to other tracks of
   the camera, wrongly when they are other people, but never to another
   camera and never past the decision's time to live. *)
LabelsAreLocalAndFresh ==
    \A c \in OverlayCams, t \in Tracks :
        byLocal[<<c, t>>] # Unbound =>
            \E i \in DOMAIN applied :
                /\ applied[i].cam = c
                /\ applied[i].gid = byLocal[<<c, t>>].gid
                /\ applied[i].expires = byLocal[<<c, t>>].expires
=============================================================================
