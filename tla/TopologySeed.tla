---------------------------- MODULE TopologySeed ----------------------------
(***************************************************************************)
(* The seeding of cameras, zones and camera links from the YAML files when *)
(* the process starts (seed_legacy_topology, seed_from_yaml, and the call  *)
(* in main that survives its failure).                                     *)
(*                                                                         *)
(* One row stands for the rows of a file, and a version for its contents.  *)
(* The connection pool returns rows as dictionaries (row_factory dict_row),*)
(* so that row[0], with which _is_already_seeded reads a stored            *)
(* fingerprint, raises KeyError outside its try.                           *)
(***************************************************************************)
EXTENDS Integers, FiniteSets

CONSTANTS
    MaxEdits,      \* bound on edits of the YAML files
    MaxSeedFaults  \* bound on failing Postgres calls

ASSUME SeedAssumption == {MaxEdits, MaxSeedFaults} \subseteq Nat

Files == {"cameras", "zones", "links"}

(* Mutant: zones are seeded before the cameras they reference. *)
NextFile_ZonesFirst ==
    [start |-> "zones", zones |-> "cameras", cameras |-> "links", links |-> "end"]

NextFile == [start |-> "cameras", cameras |-> "zones", zones |-> "links", links |-> "end"]

VARIABLES
    yaml,       \* yaml[f]: version of the file on disk
    rows,       \* rows[f]: version in the table, 0 without a row
    recorded,   \* recorded[f]: version in seed_fingerprints, 0 without one
    loaded,     \* loaded[f]: what this start read from the file
    seedStep,   \* "down", "check", "rows", "record", "up"
    seedFile,   \* the file the step is at
    forced,     \* SEED_FORCE=1
    result,     \* how the last seeding ended
    edits, seedFaults

seedVars == <<yaml, rows, recorded, loaded, seedStep, seedFile, forced, result, edits,
              seedFaults>>

Nothing == [f \in Files |-> 0]

SeedInit ==
    /\ yaml = [f \in Files |-> 1]
    /\ rows = Nothing /\ recorded = Nothing /\ loaded = Nothing
    /\ seedStep = "down" /\ seedFile = "start"
    /\ forced = FALSE /\ result = "none"
    /\ edits = 0 /\ seedFaults = 0

SeedFault == seedFaults < MaxSeedFaults /\ seedFaults' = seedFaults + 1

(* An operator edits a file, at any time. *)
EditYaml(f) ==
    /\ edits < MaxEdits
    /\ edits' = edits + 1
    /\ yaml' = [yaml EXCEPT ![f] = @ + 1]
    /\ UNCHANGED <<rows, recorded, loaded, seedStep, seedFile, forced, result, seedFaults>>

(* The process starts; seed_from_yaml reads the three files. *)
StartSeed(force) ==
    /\ seedStep = "down"
    /\ loaded' = yaml
    /\ forced' = force /\ result' = "none"
    /\ seedStep' = (IF force THEN "rows" ELSE "check") /\ seedFile' = NextFile["start"]
    /\ UNCHANGED <<yaml, rows, recorded, edits, seedFaults>>

Finish(r) == seedStep' = "up" /\ seedFile' = "start" /\ result' = r

(* The loop goes on to the next file, or the function to its next loop. *)
Advance(step) ==
    /\ IF NextFile[seedFile] # "end"
       THEN seedFile' = NextFile[seedFile] /\ UNCHANGED seedStep
       ELSE seedFile' = NextFile["start"] /\ seedStep' = step
    /\ UNCHANGED result

(* _is_already_seeded: no fingerprint (or a failed SELECT) means not seeded;
   with a fingerprint the comparison raises before it compares. *)
CheckFingerprint ==
    /\ seedStep = "check"
    /\ \/ recorded[seedFile] = 0 /\ Advance("rows") /\ UNCHANGED seedFaults
       \/ recorded[seedFile] # 0 /\ Finish("raised") /\ UNCHANGED seedFaults
       \/ SeedFault /\ (Advance("rows") \/ Finish("raised"))
    /\ UNCHANGED <<yaml, rows, recorded, loaded, forced, edits>>

(* Zones and links reference a camera. *)
ReferenceHolds(f) == f = "cameras" \/ rows["cameras"] # 0

(* _seed_cameras, _seed_zones, _seed_camera_links: an upsert; a row that fails
   is logged and skipped. *)
SeedRows ==
    /\ seedStep = "rows"
    /\ \/ /\ ReferenceHolds(seedFile)
          /\ rows' = [rows EXCEPT ![seedFile] = loaded[seedFile]]
          /\ UNCHANGED seedFaults
       \/ ~ReferenceHolds(seedFile) /\ UNCHANGED <<rows, seedFaults>>
       \/ SeedFault /\ UNCHANGED rows
    /\ Advance("record")
    /\ UNCHANGED <<yaml, recorded, loaded, forced, edits>>

(* _record_fingerprint: of the file as it is by now, and also after rows were
   skipped; a failing call ends the seeding. *)
RecordFingerprint ==
    /\ seedStep = "record"
    /\ \/ /\ recorded' = [recorded EXCEPT ![seedFile] = yaml[seedFile]]
          /\ IF NextFile[seedFile] # "end" THEN Advance("up") ELSE Finish("seeded")
          /\ UNCHANGED seedFaults
       \/ SeedFault /\ Finish("raised") /\ UNCHANGED recorded
    /\ UNCHANGED <<yaml, rows, loaded, forced, edits>>

(* The process ends: after a while, or in the middle of its start. *)
ProcessEnds ==
    /\ seedStep # "down"
    /\ seedStep' = "down" /\ seedFile' = "start"
    /\ IF seedStep = "up" THEN UNCHANGED seedFaults ELSE SeedFault
    /\ UNCHANGED <<yaml, rows, recorded, loaded, forced, result, edits>>

SeedNext ==
    \/ \E f \in Files : EditYaml(f)
    \/ \E force \in BOOLEAN : StartSeed(force)
    \/ CheckFingerprint \/ SeedRows \/ RecordFingerprint \/ ProcessEnds

SeedSpec == SeedInit /\ [][SeedNext]_seedVars

-----------------------------------------------------------------------------
(* A seeding that reports its counts has brought the tables to the files it
   read, whatever earlier starts, cut off or raising, had left there: a table is
   behind its file only for a call that failed, or for want of a camera to
   refer to, and a failure costs no more than its own table.  No camera comes
   too late for its zones and links.  (seed_from_yaml) *)
SkippedRowsAreFaults ==
    seedStep = "up" /\ result = "seeded" =>
        Cardinality({f \in Files : rows[f] # loaded[f] /\ ReferenceHolds(f)}) <= seedFaults

(* A stored fingerprint makes warm restarts a no-op (main.py): without an edit
   or a failure, a seeding after a complete one does not raise. *)
WarmRestartIsQuiet == seedFaults = 0 /\ edits = 0 => result # "raised"
=============================================================================
