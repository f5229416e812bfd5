---------------------- MODULE TrackletCollector_proofs ----------------------
(***************************************************************************)
(* Theorems about TrackletCollector for any set of keys, any idle times,   *)
(* any length gate and any number of tracklets and faults.                 *)
(***************************************************************************)
EXTENDS TrackletCollector, FiniteSetTheorems, TLAPS

InFlightIds == {in_flight[k].id : k \in Open}
AutoIds == IdsOf(closed["auto"])
MainIds == IdsOf(closed["main"])

(* The ids given out are shared among the six places, without overlap. *)
Shared(F, A, M, P, S, L, n) ==
    /\ F \union A \union M \union P \union S \union L = 1..n
    /\ F \cap A = {} /\ F \cap M = {} /\ F \cap P = {} /\ F \cap S = {} /\ F \cap L = {}
    /\ A \cap M = {} /\ A \cap P = {} /\ A \cap S = {} /\ A \cap L = {}
    /\ M \cap P = {} /\ M \cap S = {} /\ M \cap L = {}
    /\ P \cap S = {} /\ P \cap L = {}
    /\ S \cap L = {}

IdsShared == Shared(InFlightIds, AutoIds, MainIds, published, short, lost, opened)

(* No two tracklets have the same id, in flight or in a list. *)
OwnIds ==
    /\ \A j, k \in Open : in_flight[j].id = in_flight[k].id => j = k
    /\ \A f \in Finalizers : \A t, u \in closed[f] : t.id = u.id => t = u

PInv == TypeOK /\ OwnIds /\ IdsShared

USE GateAssumption, AgeAssumption, BoundsAssumption DEF Finalizers
-----------------------------------------------------------------------------
(* Only the record without an id stands for a key without a tracklet. *)
LEMMA OpenHasId ==
    ASSUME TypeOK
    PROVE  /\ Open \subseteq Keys
           /\ \A k \in Open : in_flight[k] \in Tracklets
           /\ Closed \notin Tracklets
  BY DEF TypeOK, Open, Tracklets, Closed, Ids

LEMMA TimesAreIntegers ==
    /\ LastTick \in Nat /\ NoTime \in Int /\ NoTime < 0
    /\ \A n \in 0..LastTick, t \in Int : t \in (n - MaxLag)..n => t \in NoTime..LastTick
  BY DEF LastTick, NoTime

(* What a detection makes of the tracklet it belongs to is a tracklet. *)
LEMMA DetectedIsTracklet ==
    ASSUME TypeOK, NEW k \in Keys, NEW t \in (now - MaxLag)..now, NEW rich \in BOOLEAN,
           k \notin Open => opened + 1 <= MaxTracklets
    PROVE  /\ Current(k) \in Tracklets
           /\ Current(k).id = IF k \in Open THEN in_flight[k].id ELSE opened + 1
           /\ [Current(k) EXCEPT !.end = t, !.frames = Up(@, MinFrames),
                                 !.rich = @ \/ rich] \in Tracklets
           /\ [Current(k) EXCEPT !.end = t,
                                 !.frames = IF k \in Open THEN @ ELSE 1] \in Tracklets
<1>1. Current(k) \in Tracklets /\ Current(k).id = IF k \in Open THEN in_flight[k].id ELSE opened + 1
  <2>1. CASE k \in Open
    BY <2>1, OpenHasId DEF Current
  <2>2. CASE k \notin Open
    <3>1. opened + 1 \in Ids
      BY <2>2 DEF TypeOK, Ids
    <3>2. NoTime \in NoTime..LastTick /\ 0 \in 0..MinFrames
      BY TimesAreIntegers
    <3> QED
      BY <2>2, <3>1, <3>2 DEF Current, Closed, Tracklets
  <2> QED
    BY <2>1, <2>2
<1>2. t \in NoTime..LastTick
  BY TimesAreIntegers DEF TypeOK
<1>3. Up(Current(k).frames, MinFrames) \in 0..MinFrames /\ 1 \in 0..MinFrames
  BY <1>1 DEF Up, Tracklets
<1>4. (Current(k).rich \/ rich) \in BOOLEAN
  OBVIOUS
<1> QED
  BY <1>1, <1>2, <1>3, <1>4 DEF Tracklets

LEMMA AllOff ==
    [k \in Keys |-> Closed] \in [Keys -> Tracklets \union {Closed}]
    /\ [g \in Finalizers |-> {}] \in [Finalizers -> SUBSET Tracklets]
  OBVIOUS

LEMMA IdsOfTracklets ==
    ASSUME TypeOK
    PROVE  /\ \A T \in SUBSET Tracklets : IdsOf(T) \subseteq Ids
           /\ {in_flight[k].id : k \in Open} \subseteq Ids
           /\ IdsOf(closed["auto"] \union closed["main"]) \subseteq Ids
<1>1. ASSUME NEW T \in SUBSET Tracklets PROVE IdsOf(T) \subseteq Ids
  BY DEF IdsOf, Tracklets
<1>2. {in_flight[k].id : k \in Open} \subseteq Ids
  BY OpenHasId DEF Tracklets
<1>3. closed["auto"] \union closed["main"] \in SUBSET Tracklets
  BY DEF TypeOK
<1> QED
  BY <1>1, <1>2, <1>3

(* Closing keys takes their tracklets out of flight, those long enough into
   kept, the ids of the others into short. *)
LEMMA CloseTypes ==
    ASSUME TypeOK, NEW K \in SUBSET Open, NEW kept, Close(K, kept)
    PROVE  /\ in_flight' \in [Keys -> Tracklets \union {Closed}]
           /\ kept \in SUBSET Tracklets
           /\ kept \subseteq {in_flight[k] : k \in K}
           /\ short' \in SUBSET Ids
           /\ UNCHANGED <<now, opened, rows, published>>
<1>1. {in_flight[k] : k \in K} \in SUBSET Tracklets
  BY OpenHasId
<1>2. kept \subseteq {in_flight[k] : k \in K}
  BY DEF Close
<1>3. in_flight' \in [Keys -> Tracklets \union {Closed}]
  BY DEF Close, TypeOK
<1>4. IdsOf({in_flight[k] : k \in K}) \subseteq Ids
  BY <1>1, IdsOfTracklets
<1>5. short' \in SUBSET Ids
  BY <1>4 DEF Close, TypeOK
<1> QED
  BY <1>1, <1>2, <1>3, <1>5 DEF Close

LEMMA ProcessLostTypes ==
    ASSUME TypeOK, ProcessLost
    PROVE  /\ in_flight' \in [Keys -> Tracklets \union {Closed}]
           /\ closed' \in [Finalizers -> SUBSET Tracklets]
           /\ lost' \in SUBSET Ids
<1>1. in_flight' = [k \in Keys |-> Closed] /\ closed' = [g \in Finalizers |-> {}]
  BY DEF ProcessLost
<1>2. lost' \in SUBSET Ids
  BY IdsOfTracklets DEF ProcessLost, TypeOK
<1> QED
  BY <1>1, <1>2, AllOff

LEMMA StaleIsOpen == \A f \in Finalizers : Stale(f) \in SUBSET Open
  BY DEF Stale

LEMMA TypeInit == Init => TypeOK
  BY AllOff, TimesAreIntegers DEF Init, TypeOK

LEMMA StoreTypes ==
    ASSUME TypeOK, NEW k \in Keys, NEW t, Store(k, t),
           k \notin Open => opened + 1 <= MaxTracklets, t \in Tracklets \union {Closed}
    PROVE  TypeOK'
<1>1. in_flight' \in [Keys -> Tracklets \union {Closed}]
  BY DEF Store, TypeOK
<1>2. opened' \in 0..MaxTracklets
  BY DEF Store, TypeOK
<1> QED
  BY <1>1, <1>2 DEF Store, TypeOK

(* A detection stores a tracklet, or, without a crop, the one there was. *)
LEMMA DetectStores ==
    ASSUME TypeOK, Detect
    PROVE  \E k \in Keys, t \in Tracklets :
              /\ Store(k, t)
              /\ t.id = IF k \in Open THEN in_flight[k].id ELSE opened + 1
<1>0. \A k \in Keys : \A t : Store(k, t) => (k \notin Open => opened + 1 <= MaxTracklets)
  BY DEF Store
<1>1. ASSUME NEW k \in Keys, NEW t \in (now - MaxLag)..now, NEW rich \in BOOLEAN,
             OnDetection(k, t, rich)
      PROVE  \E u \in Tracklets : Store(k, u) /\ u.id = Current(k).id
  <2> DEFINE u == [Current(k) EXCEPT !.end = t, !.frames = Up(@, MinFrames),
                                     !.rich = @ \/ rich]
  <2>1. Store(k, u)
    BY <1>1 DEF OnDetection
  <2>2. u \in Tracklets /\ Current(k) \in Tracklets
    BY <1>0, <2>1, DetectedIsTracklet
  <2>3. u.id = Current(k).id
    BY <2>2 DEF Tracklets
  <2> QED
    BY <2>1, <2>2, <2>3
<1>2. ASSUME NEW k \in Keys, NEW t \in (now - MaxLag)..now, OnSahiDetection(k, t)
      PROVE  \E u \in Tracklets : Store(k, u) /\ u.id = Current(k).id
  <2> DEFINE u == [Current(k) EXCEPT !.end = t,
                                     !.frames = IF k \in Open THEN @ ELSE 1]
  <2>1. Store(k, u)
    BY <1>2 DEF OnSahiDetection
  <2>2. u \in Tracklets /\ Current(k) \in Tracklets
    BY <1>0, <2>1, DetectedIsTracklet
  <2>3. u.id = Current(k).id
    BY <2>2 DEF Tracklets
  <2> QED
    BY <2>1, <2>2, <2>3
<1>3. ASSUME NEW k \in Keys, OnFrameNoCrop(k)
      PROVE  \E u \in Tracklets : Store(k, u) /\ u.id = Current(k).id
  <2>1. now \in (now - MaxLag)..now /\ TRUE \in BOOLEAN
    BY DEF TypeOK
  <2>2. Current(k) \in Tracklets
    BY <1>0, <1>3, <2>1, DetectedIsTracklet DEF OnFrameNoCrop
  <2> QED
    BY <1>3, <2>2 DEF OnFrameNoCrop
<1>4. PICK k \in Keys, u \in Tracklets : Store(k, u) /\ u.id = Current(k).id
  BY <1>1, <1>2, <1>3 DEF Detect
<1>5. Current(k).id = IF k \in Open THEN in_flight[k].id ELSE opened + 1
  BY DEF Current, Closed
<1> QED
  BY <1>4, <1>5
LEMMA CountFault == TypeOK /\ Fault => faults' \in 0..MaxFaults
  BY DEF TypeOK, Fault

LEMMA FinalizeTypes ==
    ASSUME TypeOK, NEW f \in Finalizers, FinalizeStale(f) \/ FinalizeFails(f)
    PROVE  TypeOK'
<1>1. CASE FinalizeStale(f)
  <2>1. PICK kept \in SUBSET {in_flight[k] : k \in Stale(f)} :
            Close(Stale(f), kept) /\ closed' = [closed EXCEPT ![f] = kept]
    BY <1>1 DEF FinalizeStale
  <2>2. kept \in SUBSET Tracklets
        /\ in_flight' \in [Keys -> Tracklets \union {Closed}]
        /\ short' \in SUBSET Ids
        /\ UNCHANGED <<now, opened, rows, published>>
    BY <2>1, StaleIsOpen, CloseTypes
  <2>3. closed' \in [Finalizers -> SUBSET Tracklets]
    BY <2>1, <2>2 DEF TypeOK
  <2> QED
    BY <1>1, <2>2, <2>3 DEF FinalizeStale, TypeOK
<1>2. CASE FinalizeFails(f)
  <2>1. faults' \in 0..MaxFaults
    BY <1>2, CountFault DEF FinalizeFails
  <2>2. PICK t \in {in_flight[k] : k \in Stale(f)} :
          LET K == {k \in Stale(f) : in_flight[k].id <= t.id}
          IN  IF f = "auto"
              THEN \E kept \in SUBSET {in_flight[k] : k \in K} :
                      Close(K, kept) /\ lost' = lost \union IdsOf(kept)
                                     /\ UNCHANGED closed
              ELSE ProcessLost /\ UNCHANGED <<now, opened, rows, published, short>>
    BY <1>2 DEF FinalizeFails
  <2> DEFINE K == {k \in Stale(f) : in_flight[k].id <= t.id}
  <2>3. CASE f = "auto"
    <3>1. PICK kept \in SUBSET {in_flight[k] : k \in K} :
              Close(K, kept) /\ lost' = lost \union IdsOf(kept) /\ UNCHANGED closed
      BY <2>2, <2>3
    <3>2. K \in SUBSET Open
      BY StaleIsOpen
    <3>3. kept \in SUBSET Tracklets
          /\ in_flight' \in [Keys -> Tracklets \union {Closed}]
          /\ short' \in SUBSET Ids
          /\ UNCHANGED <<now, opened, rows, published>>
      BY <3>1, <3>2, CloseTypes
    <3>4. lost' \in SUBSET Ids
      BY <3>1, <3>3, IdsOfTracklets DEF TypeOK
    <3> QED
      BY <2>1, <3>1, <3>3, <3>4 DEF TypeOK
  <2>4. CASE f # "auto"
    <3>1. ProcessLost /\ UNCHANGED <<now, opened, rows, published, short>>
      BY <2>2, <2>4
    <3> QED
      BY <2>1, <3>1, ProcessLostTypes DEF TypeOK
  <2> QED
    BY <2>3, <2>4
<1> QED
  BY <1>1, <1>2

LEMMA EmitTypes ==
    ASSUME TypeOK, NEW f \in Finalizers, NEW t \in closed[f],
           EmitInsert(f, t) \/ EmitPublish(f, t) \/ EmitFails(f, t)
    PROVE  TypeOK'
<1>0. t \in Tracklets /\ t.id \in Ids
  BY DEF TypeOK, Tracklets
<1>1. CASE EmitInsert(f, t)
  BY <1>0, <1>1 DEF EmitInsert, TypeOK
<1>2. CASE EmitPublish(f, t)
  <2>1. closed' \in [Finalizers -> SUBSET Tracklets]
    BY <1>2 DEF EmitPublish, TypeOK
  <2> QED
    BY <1>0, <1>2, <2>1 DEF EmitPublish, TypeOK
<1>3. CASE EmitFails(f, t)
  <2>1. faults' \in 0..MaxFaults
    BY <1>3, CountFault DEF EmitFails
  <2>2. rows' \in SUBSET Ids /\ published' \in SUBSET Ids
    BY <1>0, <1>3 DEF EmitFails, TypeOK
  <2>3. in_flight' \in [Keys -> Tracklets \union {Closed}]
        /\ closed' \in [Finalizers -> SUBSET Tracklets]
    BY <1>3, AllOff DEF EmitFails, TypeOK
  <2>4. IdsOf(closed[f]) \subseteq Ids
    BY IdsOfTracklets DEF TypeOK
  <2>5. lost' \in SUBSET Ids
    BY <1>3, <2>4, IdsOfTracklets DEF EmitFails, TypeOK
  <2> QED
    BY <1>3, <2>1, <2>2, <2>3, <2>5 DEF EmitFails, TypeOK
<1> QED
  BY <1>1, <1>2, <1>3

LEMMA TypeStep == TypeOK /\ [Next]_vars => TypeOK'
<1> SUFFICES ASSUME TypeOK, [Next]_vars PROVE TypeOK'
  OBVIOUS
<1>1. CASE Tick
  BY <1>1 DEF Tick, TypeOK, LastTick
<1>2. CASE Detect
  <2>1. PICK k \in Keys, t \in Tracklets : Store(k, t)
    BY <1>2, DetectStores
  <2> QED
    BY <2>1, StoreTypes DEF Store
<1>3. CASE Restart
  BY <1>3, CountFault, ProcessLostTypes DEF Restart, TypeOK
<1>4. ASSUME NEW f \in Finalizers, Finalizer(f) PROVE TypeOK'
  BY <1>4, FinalizeTypes, EmitTypes DEF Finalizer
<1>5. ASSUME NEW f \in Finalizers, FinalizeFails(f) PROVE TypeOK'
  BY <1>5, FinalizeTypes
<1>6. ASSUME NEW f \in Finalizers, NEW t \in closed[f], EmitFails(f, t) PROVE TypeOK'
  BY <1>6, EmitTypes
<1>7. CASE UNCHANGED vars
  BY <1>7 DEF vars, TypeOK
<1> QED
  BY <1>1, <1>2, <1>3, <1>4, <1>5, <1>6, <1>7 DEF Next

(* Every variable stays in its set: no tracklet ends after the last tick, and
   the ids are those of the tracklets opened. *)
THEOREM TypeCorrect == Spec => []TypeOK
  BY TypeInit, TypeStep, PTL DEF Spec
-----------------------------------------------------------------------------
(* How ids move between the places: a new one into flight; D out of flight,
   kept by a finalizer or dropped; one published; a whole list lost. *)
LEMMA ShareNew ==
    ASSUME NEW F, NEW A, NEW M, NEW P, NEW S, NEW L, NEW n \in Nat,
           Shared(F, A, M, P, S, L, n)
    PROVE  Shared(F \union {n + 1}, A, M, P, S, L, n + 1)
<1>1. 1..(n + 1) = (1..n) \union {n + 1} /\ n + 1 \notin 1..n
  OBVIOUS
<1>2. n + 1 \notin A /\ n + 1 \notin M /\ n + 1 \notin P /\ n + 1 \notin S /\ n + 1 \notin L
  BY <1>1 DEF Shared
<1> QED
  BY <1>1, <1>2 DEF Shared

LEMMA ShareClose ==
    ASSUME NEW F, NEW A, NEW M, NEW P, NEW S, NEW L, NEW n \in Nat,
           Shared(F, A, M, P, S, L, n), NEW D \in SUBSET F, NEW B \in SUBSET D
    PROVE  /\ A = {} => Shared(F \ D, B, M, P, S \union (D \ B), L, n)
           /\ M = {} => Shared(F \ D, A, B, P, S \union (D \ B), L, n)
           /\ Shared(F \ D, A, M, P, S \union (D \ B), L \union B, n)
  BY DEF Shared

LEMMA ShareEmit ==
    ASSUME NEW F, NEW A, NEW M, NEW P, NEW S, NEW L, NEW n \in Nat,
           Shared(F, A, M, P, S, L, n), NEW i
    PROVE  /\ i \in A => Shared(F, A \ {i}, M, P \union {i}, S, L, n)
           /\ i \in M => Shared(F, A, M \ {i}, P \union {i}, S, L, n)
  BY DEF Shared

LEMMA ShareLose ==
    ASSUME NEW F, NEW A, NEW M, NEW P, NEW S, NEW L, NEW n \in Nat,
           Shared(F, A, M, P, S, L, n), NEW i
    PROVE  /\ i \in A => Shared(F, {}, M, P \union {i}, S, L \union (A \ {i}), n)
           /\ Shared(F, {}, M, P, S, L \union A, n)
           /\ i \in M => Shared({}, {}, {}, P \union {i}, S, L \union F \union ((A \union M) \ {i}), n)
           /\ Shared({}, {}, {}, P, S, L \union F \union A \union M, n)
  BY DEF Shared

LEMMA IdsOfUnion == \A T, U : IdsOf(T \union U) = IdsOf(T) \union IdsOf(U)
  BY DEF IdsOf

LEMMA NoIds == IdsOf({}) = {}
  BY DEF IdsOf

-----------------------------------------------------------------------------
(* What the actions do to the places. *)
LEMMA StoreMoves ==
    ASSUME PInv, NEW k \in Keys, NEW t \in Tracklets, Store(k, t),
           t.id = IF k \in Open THEN in_flight[k].id ELSE opened + 1
    PROVE  OwnIds' /\ IdsShared'
<1>1. Open' = Open \union {k} /\ in_flight'[k] = t
      /\ \A j \in Keys : j # k => in_flight'[j] = in_flight[j]
  BY OpenHasId DEF PInv, TypeOK, Store, Open
<1>2. opened \in Nat /\ opened + 1 \notin InFlightIds
  BY DEF PInv, TypeOK, IdsShared, Shared
<1>3. InFlightIds' = IF k \in Open THEN InFlightIds ELSE InFlightIds \union {opened + 1}
  BY <1>1, OpenHasId DEF PInv, InFlightIds
<1>4. \A j \in Open : in_flight[j].id # opened + 1
  BY <1>2 DEF InFlightIds
<1>5. ASSUME NEW i \in Open', NEW j \in Open', in_flight'[i].id = in_flight'[j].id
      PROVE  i = j
  <2>1. \A m \in Open : in_flight'[m].id = in_flight[m].id
    BY <1>1, OpenHasId DEF PInv
  <2>2. CASE k \in Open
    BY <2>1, <2>2, <1>1, <1>5 DEF PInv, OwnIds
  <2>3. CASE k \notin Open
    BY <2>1, <2>3, <1>1, <1>4, <1>5 DEF PInv, OwnIds
  <2> QED
    BY <2>2, <2>3
<1>6. OwnIds'
  BY <1>5 DEF PInv, OwnIds, Store
<1>7. IdsShared'
  <2>1. /\ AutoIds' = AutoIds /\ MainIds' = MainIds
        /\ published' = published /\ short' = short /\ lost' = lost
        /\ opened' = IF k \in Open THEN opened ELSE opened + 1
    BY DEF Store, AutoIds, MainIds, IdsOf
  <2> QED
    BY <2>1, <1>2, <1>3, ShareNew DEF PInv, IdsShared
<1> QED
  BY <1>6, <1>7

LEMMA CloseMoves ==
    ASSUME PInv, NEW K \in SUBSET Open, NEW kept, Close(K, kept)
    PROVE  /\ \A j, k \in Open' : in_flight'[j].id = in_flight'[k].id => j = k
           /\ \A t, u \in kept : t.id = u.id => t = u
           /\ \E D \in SUBSET InFlightIds :
                 /\ IdsOf(kept) \in SUBSET D
                 /\ InFlightIds' = InFlightIds \ D
                 /\ short' = short \union (D \ IdsOf(kept))
<1>1. Open' = Open \ K /\ \A k \in Open' : in_flight'[k] = in_flight[k]
  BY DEF PInv, TypeOK, Close, Open
<1>2. \A j, k \in Open' : in_flight'[j].id = in_flight'[k].id => j = k
  BY <1>1 DEF PInv, OwnIds
<1>3. \A t, u \in kept : t.id = u.id => t = u
  BY DEF PInv, OwnIds, Close
<1> DEFINE D == IdsOf({in_flight[k] : k \in K})
<1>4. D \in SUBSET InFlightIds /\ IdsOf(kept) \in SUBSET D
  BY DEF Close, IdsOf, InFlightIds
<1>5. D = {in_flight[k].id : k \in K}
  BY DEF IdsOf
<1>6. InFlightIds' = InFlightIds \ D
  BY <1>1, <1>5 DEF PInv, OwnIds, InFlightIds
<1>7. short' = short \union (D \ IdsOf(kept))
  BY DEF Close
<1> QED
  BY <1>2, <1>3, <1>4, <1>6, <1>7

LEMMA ProcessLostMoves ==
    ASSUME PInv, ProcessLost, UNCHANGED <<opened, published, short>>
    PROVE  OwnIds' /\ IdsShared'
<1>1. Open' = {} /\ closed'["auto"] = {} /\ closed'["main"] = {}
  BY DEF ProcessLost, Open
<1>2. OwnIds'
  BY <1>1 DEF OwnIds
<1>3. InFlightIds' = {} /\ AutoIds' = {} /\ MainIds' = {}
  BY <1>1 DEF InFlightIds, AutoIds, MainIds, IdsOf
<1>4. lost' = lost \union InFlightIds \union AutoIds \union MainIds
  BY IdsOfUnion DEF ProcessLost, InFlightIds, AutoIds, MainIds
<1>5. opened \in Nat
  BY DEF PInv, TypeOK
<1>6. Shared({}, {}, {}, published, short, lost', opened)
  BY <1>4, <1>5, ShareLose DEF PInv, IdsShared
<1> QED
  BY <1>2, <1>3, <1>6 DEF IdsShared
LEMMA FinalizeStaleMoves ==
    ASSUME PInv, NEW f \in Finalizers, FinalizeStale(f)
    PROVE  OwnIds' /\ IdsShared'
<1>1. PICK kept \in SUBSET {in_flight[k] : k \in Stale(f)} :
          Close(Stale(f), kept) /\ closed' = [closed EXCEPT ![f] = kept]
  BY DEF FinalizeStale
<1>2. PICK D \in SUBSET InFlightIds :
          /\ IdsOf(kept) \in SUBSET D
          /\ InFlightIds' = InFlightIds \ D
          /\ short' = short \union (D \ IdsOf(kept))
  BY <1>1, StaleIsOpen, CloseMoves
<1>3. closed'[f] = kept /\ \A g \in Finalizers : g # f => closed'[g] = closed[g]
  BY <1>1 DEF PInv, TypeOK
<1>4. OwnIds'
  <2>1. /\ \A j, k \in Open' : in_flight'[j].id = in_flight'[k].id => j = k
        /\ \A t, u \in kept : t.id = u.id => t = u
    BY <1>1, StaleIsOpen, CloseMoves
  <2> QED
    BY <2>1, <1>3 DEF PInv, OwnIds
<1>5. /\ AutoIds' = IF f = "auto" THEN IdsOf(kept) ELSE AutoIds
      /\ MainIds' = IF f = "main" THEN IdsOf(kept) ELSE MainIds
      /\ f = "auto" => AutoIds = {}
      /\ f = "main" => MainIds = {}
  BY <1>3, NoIds DEF FinalizeStale, AutoIds, MainIds, IdsOf
<1>6. opened' = opened /\ published' = published /\ lost' = lost /\ opened \in Nat
  BY <1>1 DEF Close, FinalizeStale, PInv, TypeOK
<1>7. Shared(InFlightIds, AutoIds, MainIds, published, short, lost, opened)
  BY DEF PInv, IdsShared
<1>8. CASE f = "auto"
  <2>1. Shared(InFlightIds \ D, IdsOf(kept), MainIds, published,
               short \union (D \ IdsOf(kept)), lost, opened)
    BY <1>2, <1>5, <1>6, <1>7, <1>8, ShareClose
  <2> QED
    BY <2>1, <1>2, <1>4, <1>5, <1>6, <1>8 DEF IdsShared
<1>9. CASE f = "main"
  <2>1. Shared(InFlightIds \ D, AutoIds, IdsOf(kept), published,
               short \union (D \ IdsOf(kept)), lost, opened)
    BY <1>2, <1>5, <1>6, <1>7, <1>9, ShareClose
  <2> QED
    BY <2>1, <1>2, <1>4, <1>5, <1>6, <1>9 DEF IdsShared
<1> QED
  BY <1>8, <1>9

LEMMA FinalizeFailsMoves ==
    ASSUME PInv, NEW f \in Finalizers, FinalizeFails(f)
    PROVE  OwnIds' /\ IdsShared'
<1>1. PICK t \in {in_flight[k] : k \in Stale(f)} :
        LET K == {k \in Stale(f) : in_flight[k].id <= t.id}
        IN  IF f = "auto"
            THEN \E kept \in SUBSET {in_flight[k] : k \in K} :
                    Close(K, kept) /\ lost' = lost \union IdsOf(kept)
                                   /\ UNCHANGED closed
            ELSE ProcessLost /\ UNCHANGED <<now, opened, rows, published, short>>
  BY DEF FinalizeFails
<1> DEFINE K == {k \in Stale(f) : in_flight[k].id <= t.id}
<1>2. CASE f = "auto"
  <2>1. PICK kept \in SUBSET {in_flight[k] : k \in K} :
            Close(K, kept) /\ lost' = lost \union IdsOf(kept) /\ UNCHANGED closed
    BY <1>1, <1>2
  <2>2. K \in SUBSET Open
    BY StaleIsOpen
  <2>3. PICK D \in SUBSET InFlightIds :
            /\ IdsOf(kept) \in SUBSET D
            /\ InFlightIds' = InFlightIds \ D
            /\ short' = short \union (D \ IdsOf(kept))
    BY <2>1, <2>2, CloseMoves
  <2>4. OwnIds'
    <3>1. \A j, k \in Open' : in_flight'[j].id = in_flight'[k].id => j = k
      BY <2>1, <2>2, CloseMoves
    <3> QED
      BY <2>1, <3>1 DEF PInv, OwnIds
  <2>5. AutoIds' = AutoIds /\ MainIds' = MainIds /\ opened' = opened
        /\ published' = published /\ opened \in Nat
    BY <2>1 DEF Close, AutoIds, MainIds, IdsOf, PInv, TypeOK
  <2>6. IdsShared'
    BY <2>1, <2>3, <2>5, ShareClose DEF PInv, IdsShared
  <2> QED
    BY <2>4, <2>6
<1>3. CASE f # "auto"
  BY <1>1, <1>3, ProcessLostMoves
<1> QED
  BY <1>2, <1>3

LEMMA EmitMoves ==
    ASSUME PInv, NEW f \in Finalizers, NEW t \in closed[f],
           EmitInsert(f, t) \/ EmitPublish(f, t)
    PROVE  OwnIds' /\ IdsShared'
<1>1. CASE EmitInsert(f, t)
  BY <1>1 DEF EmitInsert, PInv, OwnIds, IdsShared, InFlightIds, AutoIds, MainIds, Open, IdsOf
<1>2. CASE EmitPublish(f, t)
  <2>1. closed'[f] = closed[f] \ {t}
        /\ \A g \in Finalizers : g # f => closed'[g] = closed[g]
    BY <1>2 DEF EmitPublish, PInv, TypeOK
  <2>2. Open' = Open /\ in_flight' = in_flight /\ InFlightIds' = InFlightIds
    BY <1>2 DEF EmitPublish, Open, InFlightIds
  <2>3. OwnIds'
    BY <2>1, <2>2 DEF PInv, OwnIds
  <2>4. IdsOf(closed'[f]) = IdsOf(closed[f]) \ {t.id} /\ t.id \in IdsOf(closed[f])
    BY <2>1 DEF PInv, OwnIds, IdsOf
  <2>5. /\ AutoIds' = IF f = "auto" THEN AutoIds \ {t.id} ELSE AutoIds
        /\ MainIds' = IF f = "main" THEN MainIds \ {t.id} ELSE MainIds
        /\ f = "auto" => t.id \in AutoIds
        /\ f = "main" => t.id \in MainIds
    BY <2>1, <2>4 DEF AutoIds, MainIds, IdsOf
  <2>6. /\ opened' = opened /\ short' = short /\ lost' = lost /\ opened \in Nat
        /\ published' = published \union {t.id}
    BY <1>2 DEF EmitPublish, PInv, TypeOK
  <2>7. IdsShared'
    BY <2>2, <2>5, <2>6, ShareEmit DEF PInv, IdsShared
  <2> QED
    BY <2>3, <2>7
<1> QED
  BY <1>1, <1>2

LEMMA EmitFailsMoves ==
    ASSUME PInv, NEW f \in Finalizers, NEW t \in closed[f], EmitFails(f, t)
    PROVE  OwnIds' /\ IdsShared'
<1>1. /\ opened' = opened /\ short' = short /\ opened \in Nat
      /\ published' = published \/ published' = published \union {t.id}
  BY DEF EmitFails, PInv, TypeOK
<1>2. /\ f = "auto" => t.id \in AutoIds
      /\ f = "main" => t.id \in MainIds
      /\ Shared(InFlightIds, AutoIds, MainIds, published, short, lost, opened)
  BY DEF AutoIds, MainIds, IdsOf, PInv, IdsShared
<1>3. CASE f = "auto"
  <2>1. Open' = Open /\ in_flight' = in_flight /\ InFlightIds' = InFlightIds
    BY <1>3 DEF EmitFails, Open, InFlightIds
  <2>2. closed'["auto"] = {} /\ closed'["main"] = closed["main"]
    BY <1>3 DEF EmitFails, PInv, TypeOK
  <2>3. OwnIds'
    BY <2>1, <2>2 DEF PInv, OwnIds
  <2>4. AutoIds' = {} /\ MainIds' = MainIds
    BY <2>2, NoIds DEF AutoIds, MainIds, IdsOf
  <2>5. lost' = lost \union (AutoIds \ published')
    BY <1>3 DEF EmitFails, AutoIds
  <2>6. lost' = IF published' = published THEN lost \union AutoIds
                                          ELSE lost \union (AutoIds \ {t.id})
    BY <2>5, <1>1, <1>2 DEF Shared
  <2>7. Shared(InFlightIds, {}, MainIds, published', short, lost', opened)
    <3>1. CASE published' = published
      BY <3>1, <2>6, <1>1, <1>2, ShareLose
    <3>2. CASE published' # published
      <4>1. published' = published \union {t.id} /\ lost' = lost \union (AutoIds \ {t.id})
        BY <3>2, <2>6, <1>1
      <4> QED
        BY <4>1, <1>1, <1>2, <1>3, ShareLose
    <3> QED
      BY <3>1, <3>2
  <2>8. IdsShared'
    BY <2>1, <2>4, <2>7, <1>1 DEF IdsShared
  <2> QED
    BY <2>3, <2>8
<1>4. CASE f = "main"
  <2>1. Open' = {} /\ closed'["auto"] = {} /\ closed'["main"] = {}
    BY <1>4 DEF EmitFails, Open
  <2>2. OwnIds'
    BY <2>1 DEF OwnIds
  <2>3. InFlightIds' = {} /\ AutoIds' = {} /\ MainIds' = {}
    BY <2>1, NoIds DEF InFlightIds, AutoIds, MainIds, IdsOf
  <2>4. lost' = lost \union InFlightIds \union ((AutoIds \union MainIds) \ published')
    BY <1>4, IdsOfUnion DEF EmitFails, InFlightIds, AutoIds, MainIds
  <2>5. lost' = IF published' = published
                THEN lost \union InFlightIds \union AutoIds \union MainIds
                ELSE lost \union InFlightIds \union ((AutoIds \union MainIds) \ {t.id})
    BY <2>4, <1>1, <1>2 DEF Shared
  <2>6. Shared({}, {}, {}, published', short, lost', opened)
    <3>1. CASE published' = published
      BY <3>1, <2>5, <1>1, <1>2, ShareLose
    <3>2. CASE published' # published
      <4>1. /\ published' = published \union {t.id}
            /\ lost' = lost \union InFlightIds \union ((AutoIds \union MainIds) \ {t.id})
        BY <3>2, <2>5, <1>1
      <4> QED
        BY <4>1, <1>1, <1>2, <1>4, ShareLose
    <3> QED
      BY <3>1, <3>2
  <2>7. IdsShared'
    BY <2>3, <2>6, <1>1 DEF IdsShared
  <2> QED
    BY <2>2, <2>7
<1> QED
  BY <1>3, <1>4

-----------------------------------------------------------------------------
LEMMA PlacesStep == PInv /\ [Next]_vars => OwnIds' /\ IdsShared'
<1> SUFFICES ASSUME PInv, [Next]_vars PROVE OwnIds' /\ IdsShared'
  OBVIOUS
<1>1. CASE Tick
  BY <1>1 DEF Tick, PInv, OwnIds, IdsShared, InFlightIds, AutoIds, MainIds, Open, IdsOf
<1>2. CASE Detect
  BY <1>2, DetectStores, StoreMoves DEF PInv
<1>3. CASE Restart
  BY <1>3, ProcessLostMoves DEF Restart
<1>4. ASSUME NEW f \in Finalizers, Finalizer(f) PROVE OwnIds' /\ IdsShared'
  BY <1>4, FinalizeStaleMoves, EmitMoves DEF Finalizer
<1>5. ASSUME NEW f \in Finalizers, FinalizeFails(f) PROVE OwnIds' /\ IdsShared'
  BY <1>5, FinalizeFailsMoves
<1>6. ASSUME NEW f \in Finalizers, NEW t \in closed[f], EmitFails(f, t)
      PROVE  OwnIds' /\ IdsShared'
  BY <1>6, EmitFailsMoves
<1>7. CASE UNCHANGED vars
  BY <1>7 DEF vars, PInv, OwnIds, IdsShared, InFlightIds, AutoIds, MainIds, Open, IdsOf
<1> QED
  BY <1>1, <1>2, <1>3, <1>4, <1>5, <1>6, <1>7 DEF Next

LEMMA PlacesInit == Init => OwnIds /\ IdsShared
<1> SUFFICES ASSUME Init PROVE OwnIds /\ IdsShared
  OBVIOUS
<1>1. Open = {} /\ closed["auto"] = {} /\ closed["main"] = {}
  BY DEF Init, Open
<1>2. OwnIds
  BY <1>1 DEF OwnIds
<1>3. InFlightIds = {} /\ AutoIds = {} /\ MainIds = {}
  BY <1>1, NoIds DEF InFlightIds, AutoIds, MainIds, IdsOf
<1>4. IdsShared
  BY <1>3 DEF Init, IdsShared, Shared
<1> QED
  BY <1>2, <1>4

THEOREM PlacesCorrect == Spec => []PInv
<1>1. Init => PInv
  BY TypeInit, PlacesInit DEF PInv
<1>2. PInv /\ [Next]_vars => PInv'
  BY TypeStep, PlacesStep DEF PInv
<1> QED
  BY <1>1, <1>2, PTL DEF Spec

(* Whatever the four writers and the two finalizers do, and whatever fails,
   every tracklet that was opened is in exactly one place: it is never
   emitted twice and never vanishes without being counted as lost. *)
THEOREM NeverInTwoPlaces == Spec => []InOnePlace
<1>1. IdsShared => InOnePlace
  <2> SUFFICES ASSUME IdsShared, NEW i \in 1..opened
               PROVE  \E p \in DOMAIN Places : \A q \in DOMAIN Places : i \in Places[q] <=> q = p
    BY DEF InOnePlace
  <2>1. DOMAIN Places = {"flight", "auto", "main", "published", "short", "lost"}
    BY DEF Places
  <2>2. /\ Places["flight"] = InFlightIds /\ Places["auto"] = AutoIds
        /\ Places["main"] = MainIds /\ Places["published"] = published
        /\ Places["short"] = short /\ Places["lost"] = lost
    BY DEF Places, InFlightIds, AutoIds, MainIds
  <2>3. i \in InFlightIds \union AutoIds \union MainIds \union published \union short \union lost
    BY DEF IdsShared, Shared
  <2>4. CASE i \in InFlightIds
    BY <2>1, <2>2, <2>4 DEF IdsShared, Shared
  <2>5. CASE i \in AutoIds
    BY <2>1, <2>2, <2>5 DEF IdsShared, Shared
  <2>6. CASE i \in MainIds
    BY <2>1, <2>2, <2>6 DEF IdsShared, Shared
  <2>7. CASE i \in published
    BY <2>1, <2>2, <2>7 DEF IdsShared, Shared
  <2>8. CASE i \in short
    BY <2>1, <2>2, <2>8 DEF IdsShared, Shared
  <2>9. CASE i \in lost
    BY <2>1, <2>2, <2>9 DEF IdsShared, Shared
  <2> QED
    BY <2>3, <2>4, <2>5, <2>6, <2>7, <2>8, <2>9
<1> QED
  BY <1>1, PlacesCorrect, PTL DEF PInv
-----------------------------------------------------------------------------
(* Rows.  A row belongs to a tracklet some finalizer has closed, and in a list
   only the next tracklet has one; so what one fault strands is at most the
   row of the next tracklet of each list. *)
Held == AutoIds \union MainIds
RowsKnown == rows \subseteq Held \union published \union lost
RowOfNext ==
    \A f \in Finalizers : \A t, u \in closed[f] : t.id \in rows => t.id <= u.id
RInv == PInv /\ RowsKnown /\ RowOfNext /\ RowBeforeMessage

Stranded == (rows \ published) \ Held
Strands ==
    \/ faults' = faults /\ Stranded' \subseteq Stranded
    \/ faults' = faults + 1 /\ \E i, j : Stranded' \subseteq Stranded \union {i, j}
RowsKept == RowsKnown' /\ RowOfNext' /\ RowBeforeMessage' /\ Strands

(* A list has at most one tracklet with a row. *)
LEMMA OneRowPerList ==
    ASSUME RInv, NEW f \in Finalizers
    PROVE  \E i : IdsOf(closed[f]) \cap rows \subseteq {i}
<1>1. \A t, u \in closed[f] : t.id \in rows /\ u.id \in rows => t.id = u.id
  <2>1. \A t \in closed[f] : t.id \in Int
    BY DEF RInv, PInv, TypeOK, Tracklets, Ids
  <2> QED
    BY <2>1 DEF RInv, RowOfNext
<1> QED
  BY <1>1 DEF IdsOf

LEMMA HeldIds == Held = IdsOf(closed["auto"] \union closed["main"])
  BY IdsOfUnion DEF Held, AutoIds, MainIds

LEMMA RowsQuiet ==
    ASSUME RInv, UNCHANGED <<closed, rows, published, lost, faults>>
    PROVE  RowsKept
  BY DEF RInv, RowsKept, RowsKnown, RowOfNext, RowBeforeMessage, Strands, Stranded,
         Held, AutoIds, MainIds, IdsOf

LEMMA RowsProcessLost ==
    ASSUME RInv, ProcessLost, faults' = faults + 1, UNCHANGED <<rows, published>>
    PROVE  RowsKept
<1>1. closed'["auto"] = {} /\ closed'["main"] = {}
  BY DEF ProcessLost
<1>2. Held' = {}
  BY <1>1, NoIds DEF Held, AutoIds, MainIds
<1>3. Held \union lost \subseteq lost'
  BY HeldIds DEF ProcessLost
<1>4. RowsKnown' /\ RowOfNext' /\ RowBeforeMessage'
  BY <1>1, <1>2, <1>3 DEF RInv, RowsKnown, RowOfNext, RowBeforeMessage
<1>5. PICK i, j : AutoIds \cap rows \subseteq {i} /\ MainIds \cap rows \subseteq {j}
  <2>1. \A f \in Finalizers : \E i : IdsOf(closed[f]) \cap rows \subseteq {i}
    BY OneRowPerList
  <2> QED
    BY <2>1 DEF AutoIds, MainIds
<1>6. Stranded' \subseteq Stranded \union {i, j}
  BY <1>2, <1>5 DEF Stranded, Held
<1> QED
  BY <1>4, <1>6 DEF RowsKept, Strands

LEMMA RowsFinalizeStale ==
    ASSUME RInv, NEW f \in Finalizers, FinalizeStale(f)
    PROVE  RowsKept
<1>1. PICK kept \in SUBSET {in_flight[k] : k \in Stale(f)} :
          Close(Stale(f), kept) /\ closed' = [closed EXCEPT ![f] = kept]
  BY DEF FinalizeStale
<1>2. closed[f] = {} /\ UNCHANGED <<rows, published, lost, faults>>
  BY <1>1 DEF FinalizeStale, Close
<1>3. closed'[f] = kept /\ \A g \in Finalizers : g # f => closed'[g] = closed[g]
  BY <1>1 DEF RInv, PInv, TypeOK
<1>4. Held \subseteq Held'
  BY <1>2, <1>3, NoIds DEF Held, AutoIds, MainIds
<1>5. IdsOf(kept) \subseteq InFlightIds
  BY <1>1, StaleIsOpen DEF IdsOf, InFlightIds
<1>6. \A t \in kept : t.id \notin rows
  <2>1. InFlightIds \cap rows = {}
    BY DEF RInv, PInv, IdsShared, Shared, RowsKnown, Held
  <2> QED
    BY <2>1, <1>5 DEF IdsOf
<1>7. RowOfNext'
  BY <1>2, <1>3, <1>6 DEF RInv, RowOfNext
<1> QED
  BY <1>2, <1>4, <1>7 DEF RInv, RowsKept, RowsKnown, RowBeforeMessage, Strands, Stranded

LEMMA RowsFinalizeFails ==
    ASSUME RInv, NEW f \in Finalizers, FinalizeFails(f)
    PROVE  RowsKept
<1>1. PICK t \in {in_flight[k] : k \in Stale(f)} :
        LET K == {k \in Stale(f) : in_flight[k].id <= t.id}
        IN  IF f = "auto"
            THEN \E kept \in SUBSET {in_flight[k] : k \in K} :
                    Close(K, kept) /\ lost' = lost \union IdsOf(kept)
                                   /\ UNCHANGED closed
            ELSE ProcessLost /\ UNCHANGED <<now, opened, rows, published, short>>
  BY DEF FinalizeFails
<1>2. faults' = faults + 1
  BY DEF FinalizeFails, Fault
<1>3. CASE f = "auto"
  <2>1. lost \subseteq lost' /\ UNCHANGED <<closed, rows, published>>
    BY <1>1, <1>3 DEF Close
  <2>2. Held' = Held
    BY <2>1 DEF Held, AutoIds, MainIds, IdsOf
  <2> QED
    BY <2>1, <2>2, <1>2 DEF RInv, RowsKept, RowsKnown, RowOfNext, RowBeforeMessage,
                            Strands, Stranded
<1>4. CASE f # "auto"
  BY <1>1, <1>2, <1>4, RowsProcessLost
<1> QED
  BY <1>3, <1>4

LEMMA NextHasRow ==
    ASSUME RInv, NEW f \in Finalizers, NEW t \in closed[f], IsNext(f, t)
    PROVE  /\ \A u \in closed[f] : u.id \in rows => u.id = t.id
           /\ \A g \in Finalizers : g # f => \A u \in closed[g] : u.id # t.id
           /\ IdsOf(closed[f]) \cap rows \subseteq {t.id}
           /\ t.id \in IdsOf(closed[f]) /\ t.id \in Held
<1>1. \A u \in closed[f] : u.id \in Int
  BY DEF RInv, PInv, TypeOK, Tracklets, Ids
<1>2. \A u \in closed[f] : u.id \in rows => u.id = t.id
  BY <1>1 DEF IsNext, RInv, RowOfNext
<1>3. \A g \in Finalizers : g # f => \A u \in closed[g] : u.id # t.id
  BY DEF RInv, PInv, IdsShared, Shared, AutoIds, MainIds, IdsOf
<1>4. t.id \in IdsOf(closed[f]) /\ t.id \in Held
  BY DEF IdsOf, Held, AutoIds, MainIds
<1> QED
  BY <1>2, <1>3, <1>4 DEF IdsOf

LEMMA RowsEmit ==
    ASSUME RInv, NEW f \in Finalizers, NEW t \in closed[f],
           EmitInsert(f, t) \/ EmitPublish(f, t)
    PROVE  RowsKept
<1>1. CASE EmitInsert(f, t)
  <2>1. IsNext(f, t) /\ rows' = rows \union {t.id}
        /\ UNCHANGED <<closed, published, lost, faults>>
    BY <1>1 DEF EmitInsert
  <2>2. Held' = Held
    BY <2>1 DEF Held, AutoIds, MainIds, IdsOf
  <2>3. RowOfNext'
    <3> SUFFICES ASSUME NEW g \in Finalizers, NEW u \in closed[g], NEW v \in closed[g],
                        u.id \in rows \union {t.id}
                 PROVE  u.id <= v.id
      BY <2>1 DEF RowOfNext
    <3>1. CASE u.id \in rows
      BY <3>1 DEF RInv, RowOfNext
    <3>2. CASE u.id = t.id
      BY <3>2, <2>1, NextHasRow DEF IsNext
    <3> QED
      BY <3>1, <3>2
  <2> QED
    BY <2>1, <2>2, <2>3, NextHasRow
       DEF RInv, RowsKept, RowsKnown, RowBeforeMessage, Strands, Stranded
<1>2. CASE EmitPublish(f, t)
  <2>1. /\ IsNext(f, t) /\ t.id \in rows /\ published' = published \union {t.id}
        /\ UNCHANGED <<rows, lost, faults>>
    BY <1>2 DEF EmitPublish
  <2>2. closed'[f] = closed[f] \ {t}
        /\ \A g \in Finalizers : g # f => closed'[g] = closed[g]
    BY <1>2 DEF EmitPublish, RInv, PInv, TypeOK
  <2>3. Held \subseteq Held' \union {t.id}
    BY <2>2 DEF Held, AutoIds, MainIds, IdsOf
  <2>4. RowOfNext'
    BY <2>1, <2>2 DEF RInv, RowOfNext
  <2> QED
    BY <2>1, <2>3, <2>4 DEF RInv, RowsKept, RowsKnown, RowBeforeMessage, Strands, Stranded
<1> QED
  BY <1>1, <1>2

LEMMA RowsEmitFails ==
    ASSUME RInv, NEW f \in Finalizers, NEW t \in closed[f], EmitFails(f, t)
    PROVE  RowsKept
<1>1. /\ IsNext(f, t) /\ faults' = faults + 1
      /\ \/ rows' = rows /\ published' = published
         \/ rows' = rows \union {t.id} /\ published' = published
         \/ t.id \in rows /\ published' = published \union {t.id} /\ rows' = rows
  BY DEF EmitFails, Fault
<1>2. RowBeforeMessage' /\ rows' \ published' \subseteq (rows \ published) \union {t.id}
  BY <1>1 DEF RInv, RowBeforeMessage
<1>3. CASE f = "auto"
  <2>1. closed'["auto"] = {} /\ closed'["main"] = closed["main"]
        /\ lost' = lost \union (AutoIds \ published')
    BY <1>3 DEF EmitFails, AutoIds, RInv, PInv, TypeOK
  <2>2. Held' = MainIds
    BY <2>1, NoIds DEF Held, AutoIds, MainIds
  <2>3. RowsKnown'
    BY <2>1, <2>2, <1>1, <1>3, NextHasRow DEF RInv, RowsKnown, Held, AutoIds
  <2>4. RowOfNext'
    <3>1. \A u \in closed["main"] : u.id # t.id
      BY <1>1, <1>3, NextHasRow
    <3> QED
      BY <3>1, <2>1, <1>1 DEF RInv, RowOfNext
  <2>5. Stranded' \subseteq Stranded \union {t.id, t.id}
    BY <2>2, <1>1, <1>2, <1>3, NextHasRow DEF Stranded, Held, AutoIds
  <2> QED
    BY <1>1, <1>2, <2>3, <2>4, <2>5 DEF RowsKept, Strands
<1>4. CASE f = "main"
  <2>1. closed'["auto"] = {} /\ closed'["main"] = {}
        /\ Held \ published' \subseteq lost' /\ lost \subseteq lost'
    BY <1>4, HeldIds DEF EmitFails
  <2>2. Held' = {}
    BY <2>1, NoIds DEF Held, AutoIds, MainIds
  <2>3. RowsKnown'
    BY <2>1, <2>2, <1>1, NextHasRow DEF RInv, RowsKnown
  <2>4. PICK i : AutoIds \cap rows \subseteq {i}
    BY OneRowPerList DEF AutoIds
  <2>5. Stranded' \subseteq Stranded \union {i, t.id}
    BY <2>2, <2>4, <1>1, <1>2, <1>4, NextHasRow DEF Stranded, Held, MainIds
  <2> QED
    BY <1>1, <1>2, <2>1, <2>3, <2>5 DEF RowsKept, Strands, RowOfNext
<1> QED
  BY <1>3, <1>4

LEMMA RowsStep == RInv /\ [Next]_vars => RowsKept
<1> SUFFICES ASSUME RInv, [Next]_vars PROVE RowsKept
  OBVIOUS
<1>1. CASE Tick
  BY <1>1, RowsQuiet DEF Tick
<1>2. CASE Detect
  <2>1. PICK k \in Keys, t \in Tracklets : Store(k, t)
    BY <1>2, DetectStores DEF RInv, PInv
  <2> QED
    BY <2>1, RowsQuiet DEF Store
<1>3. CASE Restart
  BY <1>3, RowsProcessLost DEF Restart, Fault
<1>4. ASSUME NEW f \in Finalizers, Finalizer(f) PROVE RowsKept
  BY <1>4, RowsFinalizeStale, RowsEmit DEF Finalizer
<1>5. ASSUME NEW f \in Finalizers, FinalizeFails(f) PROVE RowsKept
  BY <1>5, RowsFinalizeFails
<1>6. ASSUME NEW f \in Finalizers, NEW t \in closed[f], EmitFails(f, t) PROVE RowsKept
  BY <1>6, RowsEmitFails
<1>7. CASE UNCHANGED vars
  BY <1>7, RowsQuiet DEF vars
<1> QED
  BY <1>1, <1>2, <1>3, <1>4, <1>5, <1>6, <1>7 DEF Next

(* The strengthening of the two properties of rows is inductive. *)
THEOREM RowsCorrect == Spec => []RInv
<1>1. Init => RInv
  BY TypeInit, PlacesInit DEF Init, RInv, PInv, RowsKnown, RowOfNext, RowBeforeMessage
<1>2. RInv /\ [Next]_vars => RInv'
  BY TypeStep, PlacesStep, RowsStep DEF RInv, PInv, RowsKept
<1> QED
  BY <1>1, <1>2, PTL DEF Spec

(* No message in stream:tracklets is ahead of its row, whichever store call
   fails and whenever the process is killed. *)
THEOREM MessagesHaveRows == Spec => []RowBeforeMessage
  BY RowsCorrect, PTL DEF RInv

LEMMA AddTwo ==
    ASSUME NEW S, IsFiniteSet(S), NEW i, NEW j, NEW T \in SUBSET (S \union {i, j})
    PROVE  /\ IsFiniteSet(T)
           /\ Cardinality(S) \in Nat /\ Cardinality(T) \in Nat
           /\ Cardinality(T) <= Cardinality(S) + 2
<1> DEFINE U == S \union {i}
           V == U \union {j}
<1>1. Cardinality(S) \in Nat
  BY FS_CardinalityType
<1>2. IsFiniteSet(U) /\ (Cardinality(U) = Cardinality(S) \/ Cardinality(U) = Cardinality(S) + 1)
  BY FS_AddElement
<1>3. IsFiniteSet(V) /\ (Cardinality(V) = Cardinality(U) \/ Cardinality(V) = Cardinality(U) + 1)
  <2> HIDE DEF U
  <2> QED
    BY <1>2, FS_AddElement
<1>4. T \in SUBSET V
  OBVIOUS
<1>5. IsFiniteSet(T) /\ Cardinality(T) <= Cardinality(V)
  <2> HIDE DEF V
  <2> QED
    BY <1>3, <1>4, FS_Subset
<1>6. Cardinality(T) \in Nat
  BY <1>5, FS_CardinalityType
<1> HIDE DEF U, V
<1> QED
  BY <1>1, <1>2, <1>3, <1>5, <1>6

(* Each fault strands at most one row per finalizer. *)
THEOREM StrandedAreFaults == Spec => []UnannouncedAreFaults
<1> DEFINE Few == faults \in Nat /\ Cardinality(Stranded) <= 2 * faults
<1>1. ASSUME RInv PROVE IsFiniteSet(Stranded) /\ Cardinality(Stranded) \in Nat
  <2>1. IsFiniteSet(Ids)
    BY FS_Interval DEF Ids
  <2>2. Stranded \in SUBSET Ids
    BY <1>1 DEF Stranded, RInv, PInv, TypeOK
  <2>3. IsFiniteSet(Stranded)
    BY <2>1, <2>2, FS_Subset
  <2> QED
    BY <2>3, FS_CardinalityType
<1>2. Init => Few
  <2>1. Init => Stranded = {} /\ faults = 0
    BY DEF Init, Stranded
  <2> QED
    BY <2>1, FS_EmptySet
<1>3. RInv /\ RInv' /\ Few /\ [Next]_vars => Few'
  <2> SUFFICES ASSUME RInv, RInv', Few, [Next]_vars PROVE Few'
    OBVIOUS
  <2>1. Strands
    BY RowsStep DEF RowsKept
  <2>2. CASE faults' = faults /\ Stranded' \subseteq Stranded
    <3>1. Cardinality(Stranded') <= Cardinality(Stranded)
      BY <2>2, <1>1, FS_Subset
    <3>2. Cardinality(Stranded') \in Nat
      BY <2>2, <1>1, FS_Subset, FS_CardinalityType
    <3> QED
      BY <3>1, <3>2, <2>2, <1>1
  <2>3. CASE faults' = faults + 1 /\ \E i, j : Stranded' \subseteq Stranded \union {i, j}
    <3>1. PICK i, j : Stranded' \subseteq Stranded \union {i, j}
      BY <2>3
    <3>2. Cardinality(Stranded') <= Cardinality(Stranded) + 2 /\ Cardinality(Stranded') \in Nat
      BY <3>1, <1>1, AddTwo
    <3> QED
      BY <3>2, <2>3, <1>1
  <2> QED
    BY <2>1, <2>2, <2>3 DEF Strands
<1>4. Few => UnannouncedAreFaults
  <2>1. Cardinality(Finalizers) = 2
    <3>1. IsFiniteSet({"auto"}) /\ Cardinality({"auto"}) = 1
      BY FS_Singleton
    <3>2. Cardinality({"auto"} \union {"main"}) = 2
      BY <3>1, FS_AddElement
    <3>3. Finalizers = {"auto"} \union {"main"}
      OBVIOUS
    <3> QED
      BY <3>2, <3>3
  <2> QED
    BY <2>1, HeldIds DEF UnannouncedAreFaults, Stranded
<1> QED
  BY <1>2, <1>3, <1>4, RowsCorrect, PTL DEF Spec
=============================================================================
