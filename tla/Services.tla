------------------------------ MODULE Services ------------------------------
(***************************************************************************)
(* The services around the identity pipeline: the detection consumer, the  *)
(* MQTT publishers, the seeding of the topology, a PP-Human child, the     *)
(* scripts that judge a release, the life of the process, the health of    *)
(* the PP-Human children and of MinIO, retention, the runtime mode, and    *)
(* the pictures that ReID embeds.                                          *)
(*                                                                         *)
(* As in SideThreads, no two of the parts share a variable and every       *)
(* property below is about one of them, so that the parts are explored one *)
(* at a time: `service' is chosen at the start, and the choices that the   *)
(* other parts make at their start are fixed.                              *)
(***************************************************************************)
EXTENDS DetectionConsumer, MqttPublishers, TopologySeed, PPHumanChild, BenchmarkGate,
        ProcessLife, StreamHealth, HealthProbe, Retention, ProductionGate,
        TrackletCrops

VARIABLE service    \* the service that runs

serviceVars == <<service, vars, publishVars, seedVars, childVars, gateVars, lifeVars,
                 healthVars, probeVars, retentionVars, modeVars, cropVars>>

ServicesInit ==
    /\ service \in {"consumer", "publishers", "seed", "child", "release", "life", "health",
                   "probe", "retention", "mode", "crops"}
    /\ Init /\ SeedInit
    /\ PublishInit /\ (service # "publishers" => kind = "direct" /\ mayPublish)
    /\ ChildInit /\ (service # "child" => rewindable /\ skipUpload)
    /\ BenchInit /\ (service # "release" => environ /\ requireReal)
    /\ LifeInit /\ (service # "life" => smoke /\ synthetic)
    /\ HealthInit /\ (service # "health" => decodable = Streams)
    /\ ProbeInit /\ (service # "probe" => minioUp)
    /\ RetentionInit /\ (service # "retention" => dryRun)
    /\ CropsInit /\ (service # "crops" => embedder = "worker")
    /\ ModeInit
    /\ service # "mode" =>
          /\ asked = [argument |-> "", variable |-> "", switch |-> FALSE]
          /\ deployed = [pipeline |-> TRUE, plugin |-> "unset", checkpoint |-> TRUE,
                         required |-> TRUE]

ServicesNext ==
    \/ /\ service = "consumer" /\ Next
       /\ UNCHANGED <<service, publishVars, seedVars, childVars, gateVars, lifeVars,
                      healthVars, probeVars, retentionVars, modeVars, cropVars>>
    \/ /\ service = "publishers" /\ PublishNext
       /\ UNCHANGED <<service, vars, seedVars, childVars, gateVars, lifeVars, healthVars,
                      probeVars, retentionVars, modeVars, cropVars>>
    \/ /\ service = "seed" /\ SeedNext
       /\ UNCHANGED <<service, vars, publishVars, childVars, gateVars, lifeVars,
                      healthVars, probeVars, retentionVars, modeVars, cropVars>>
    \/ /\ service = "child" /\ ChildNext
       /\ UNCHANGED <<service, vars, publishVars, seedVars, gateVars, lifeVars,
                      healthVars, probeVars, retentionVars, modeVars, cropVars>>
    \/ /\ service = "release" /\ BenchNext
       /\ UNCHANGED <<service, vars, publishVars, seedVars, childVars, lifeVars,
                      healthVars, probeVars, retentionVars, modeVars, cropVars>>
    \/ /\ service = "life" /\ LifeNext
       /\ UNCHANGED <<service, vars, publishVars, seedVars, childVars, gateVars,
                      healthVars, probeVars, retentionVars, modeVars, cropVars>>
    \/ /\ service = "health" /\ HealthNext
       /\ UNCHANGED <<service, vars, publishVars, seedVars, childVars, gateVars, lifeVars,
                      probeVars, retentionVars, modeVars, cropVars>>
    \/ /\ service = "probe" /\ ProbeNext
       /\ UNCHANGED <<service, vars, publishVars, seedVars, childVars, gateVars, lifeVars,
                      healthVars, retentionVars, modeVars, cropVars>>
    \/ /\ service = "retention" /\ RetentionNext
       /\ UNCHANGED <<service, vars, publishVars, seedVars, childVars, gateVars, lifeVars,
                      healthVars, probeVars, modeVars, cropVars>>
    \/ /\ service = "mode" /\ ModeNext
       /\ UNCHANGED <<service, vars, publishVars, seedVars, childVars, gateVars, lifeVars,
                      healthVars, probeVars, retentionVars, cropVars>>
    \/ /\ service = "crops" /\ CropsNext
       /\ UNCHANGED <<service, vars, publishVars, seedVars, childVars, gateVars, lifeVars,
                      healthVars, probeVars, retentionVars, modeVars>>

(* The detection consumer's thread takes its steps, the sweeper comes back to
   every pending entry and the cameras keep reporting; the main thread is
   scheduled.  Nothing is assumed of brokers, children, operators or stores. *)
FairServicesSpec ==
    /\ ServicesInit /\ [][ServicesNext]_serviceVars
    /\ WF_vars(service = "consumer" /\ Thread)
    /\ \A m \in Messages : WF_vars(service = "consumer" /\ Sweep(m))
    /\ \A d \in Detections : WF_vars(service = "consumer" /\ Publish(d))
    /\ WF_lifeVars(service = "life" /\ MainThread)
=============================================================================
