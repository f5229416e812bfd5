--------------------------- MODULE ProductionGate ---------------------------
(***************************************************************************)
(* What may be made up, and where it is refused.                           *)
(*                                                                         *)
(* Three places can replace a missing model by invented output: the        *)
(* detector adapter, the camera worker and the TransReID adapter.  Each    *)
(* asks the runtime mode, which main() takes from an argument, the         *)
(* configuration, or one of two environment variables, before it starts    *)
(* the rest.  The ReID model is loaded in a thread of its own, and the     *)
(* worker that uses it does not wait for it.                               *)
(***************************************************************************)
EXTENDS Naturals

VARIABLES
    asked,      \* what the operator set: argument, SOTA_RUNTIME_MODE, the smoke switch
    deployed,   \* what is installed: pipeline, plug-in, checkpoint; the opt-out
    stage,      \* how far main() has come
    mode,       \* the runtime mode; "" before it is resolved
    detector,   \* the detector adapter: "none", "real", "synthetic"
    loader,     \* the thread that loads the ReID model
    reid,       \* the TransReID adapter: "empty", "real", "fallback"
    invented    \* made-up output that something produced

modeVars == <<asked, deployed, stage, mode, detector, loader, reid, invented>>

Names == {"", "production", "smoke_test", "benchmark", "typo"}

ModeInit ==
    /\ asked \in [argument : Names, variable : Names, switch : BOOLEAN]
    /\ deployed \in [pipeline : BOOLEAN, plugin : {"unset", "works", "bad"},
                     checkpoint : BOOLEAN, required : BOOLEAN]
    /\ stage = "mode"
    /\ mode = ""
    /\ detector = "none"
    /\ loader = "idle"
    /\ reid = "empty"
    /\ invented = {}

---------------------------------------------------------------------------
(* The name that counts: the argument (or app.mode), else the variable. *)
Chosen == IF asked.argument # "" THEN asked.argument ELSE asked.variable

(* The switch read before the names. *)
ResolveMode_SwitchFirst ==
    /\ stage = "mode"
    /\ IF Chosen = "typo"
       THEN stage' = "refused" /\ UNCHANGED mode
       ELSE /\ stage' = "context"
            /\ mode' = IF asked.switch THEN "smoke_test"
                       ELSE IF Chosen # "" THEN Chosen ELSE "production"
    /\ UNCHANGED <<asked, deployed, detector, loader, reid, invented>>

(* No name at all: the switch, else production.  A name nobody knows raises. *)
ResolveMode ==
    /\ stage = "mode"
    /\ IF Chosen = "typo"
       THEN stage' = "refused" /\ UNCHANGED mode
       ELSE /\ stage' = "context"
            /\ mode' = IF Chosen # "" THEN Chosen
                       ELSE IF asked.switch THEN "smoke_test" ELSE "production"
    /\ UNCHANGED <<asked, deployed, detector, loader, reid, invented>>

StartLoader ==
    /\ stage = "context"
    /\ loader' = "loading"
    /\ stage' = "detector"
    /\ UNCHANGED <<asked, deployed, mode, detector, reid, invented>>

(* assert_production_safe: passes in smoke-test mode, raises otherwise. *)
MayInvent == mode = "smoke_test"

LoadDetector ==
    /\ stage = "detector"
    /\ \/ deployed.pipeline /\ detector' = "real" /\ stage' = "runner"
       \/ ~deployed.pipeline /\ MayInvent /\ detector' = "synthetic" /\ stage' = "runner"
       \/ ~deployed.pipeline /\ ~MayInvent /\ stage' = "refused" /\ UNCHANGED detector
    /\ UNCHANGED <<asked, deployed, mode, loader, reid, invented>>

(* main() passes no detector when it is synthetic; without one the runner
   refuses to start its workers unless the mode is smoke_test. *)
StartRunner ==
    /\ stage = "runner"
    /\ stage' = IF detector = "real" \/ MayInvent THEN "running" ELSE "refused"
    /\ UNCHANGED <<asked, deployed, mode, detector, loader, reid, invented>>

(* A worker with a detector asks the camera's factory; one without invents. *)
Detect ==
    /\ stage = "running"
    /\ \/ detector = "real" /\ UNCHANGED invented
       \/ /\ detector # "real"
          /\ MayInvent
          /\ invented' = invented \cup {"detections"}
    /\ UNCHANGED <<asked, deployed, stage, mode, detector, loader, reid>>

---------------------------------------------------------------------------
(* select_reid_adapter: the configuration may waive the checkpoint. *)
Required == deployed.required

(* The loader thread: the plug-in, else the checkpoint, else the fallback of
   smoke-test mode or of the opt-out, else a refusal.  Whatever is raised is
   logged, and the process goes on with the adapter as it is. *)
LoadReid ==
    /\ loader = "loading"
    /\ loader' = "done"
    /\ \/ deployed.plugin = "works" /\ reid' = "real"
       \/ deployed.plugin = "bad" /\ UNCHANGED reid
       \/ deployed.plugin = "unset" /\ deployed.checkpoint /\ reid' = "real"
       \/ /\ deployed.plugin = "unset" /\ ~deployed.checkpoint
          /\ MayInvent \/ ~Required
          /\ reid' = "fallback"
       \/ /\ deployed.plugin = "unset" /\ ~deployed.checkpoint
          /\ ~MayInvent /\ Required
          /\ UNCHANGED reid
    /\ UNCHANGED <<asked, deployed, stage, mode, detector, invented>>

(* extract: an adapter without a model refuses in production; in smoke-test
   mode it goes on to a model it does not have and fails there. *)
Extract ==
    /\ stage = "running"
    /\ reid # "empty"
    /\ invented' = IF reid = "fallback" THEN invented \cup {"features"} ELSE invented
    /\ UNCHANGED <<asked, deployed, stage, mode, detector, loader, reid>>

Main == ResolveMode \/ StartLoader \/ LoadDetector \/ StartRunner

ModeNext == Main \/ LoadReid \/ Detect \/ Extract

ModeSpec == ModeInit /\ [][ModeNext]_modeVars

---------------------------------------------------------------------------
(* Did the operator's settings, read in the order the documentation gives,
   ask for smoke-test mode? *)
SmokeWasAsked ==
    \/ asked.argument = "smoke_test"
    \/ asked.argument = "" /\ asked.variable = "smoke_test"
    \/ asked.argument = "" /\ asked.variable = "" /\ asked.switch

(* Invented detections exist only in a process the operator asked to run in
   smoke-test mode, whatever is missing and whichever thread comes first;
   invented features only there or under the explicit opt-out from the
   checkpoint (assert_production_safe and its callers). *)
NothingIsInvented ==
    /\ "detections" \in invented => SmokeWasAsked
    /\ "features" \in invented => SmokeWasAsked \/ ~deployed.required
=============================================================================
