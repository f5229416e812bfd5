---------------------------- MODULE AtLeastOnce ----------------------------
(***************************************************************************)
(* What the pipeline's stages may assume of a stream: at-least-once        *)
(* delivery to every consumer group.  A published message is owed to each  *)
(* group; a group's debt ends only when the group has handled the message  *)
(* or the stream has expired it; until then it may be delivered any number *)
(* of times, also to groups that had handled it already.                   *)
(***************************************************************************)
CONSTANTS Groups, Payloads

VARIABLES
    published,  \* messages ever published
    owed,       \* owed[g]: messages still to be delivered or acknowledged
    done,       \* done[g]: messages the group has handled
    expired     \* messages with an entry that MAXLEN removed

vars == <<published, owed, done, expired>>

Init ==
    /\ published = {}
    /\ owed = [g \in Groups |-> {}]
    /\ done = [g \in Groups |-> {}]
    /\ expired = {}

(* A new message is owed to everyone; the same XADD may expire old ones. *)
Publish(p) ==
    /\ p \notin published
    /\ published' = published \union {p}
    /\ \E X \in SUBSET published' :
          /\ expired' = expired \union X
          /\ \E kept \in [Groups -> SUBSET X] :
                owed' = [g \in Groups |-> ((owed[g] \union {p}) \ X) \union
                                          (kept[g] \intersect (owed[g] \union {p}))]
    /\ UNCHANGED done

Complete(g, p) ==
    /\ p \in published
    /\ done' = [done EXCEPT ![g] = @ \union {p}]
    /\ UNCHANGED <<published, owed, expired>>

(* The debt may end for what was handled or expired, and for nothing else. *)
Settle(g, P) ==
    /\ P \subseteq done[g] \union expired
    /\ owed' = [owed EXCEPT ![g] = @ \ P]
    /\ UNCHANGED <<published, done, expired>>

(* A recovery puts the message back in front of every group. *)
Redeliver(p) ==
    /\ p \in published
    /\ owed' = [g \in Groups |-> owed[g] \union {p}]
    /\ UNCHANGED <<published, done, expired>>

Next ==
    \/ \E p \in Payloads : Publish(p) \/ Redeliver(p)
    \/ \E g \in Groups :
          \/ \E p \in Payloads : Complete(g, p)
          \/ \E P \in SUBSET Payloads : Settle(g, P)

Spec == Init /\ [][Next]_vars
=============================================================================
