-------------------------- MODULE MCStreamDelivery --------------------------
(* A small instance of StreamDelivery: the two groups of stream:tracklets,
   each reading one message at a time; StreamDelivery_proofs has the larger
   batches. *)
EXTENDS StreamDelivery

CONSTANTS reid_workers, reid_sidecar_workers

MCGroups == {reid_workers, reid_sidecar_workers}
MCAckGuarded == {reid_sidecar_workers}
MCBatchOne == [g \in MCGroups |-> 1]
=============================================================================
