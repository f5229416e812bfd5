------------------------ MODULE MCIdentityResolution ------------------------
(* Small instances of IdentityResolution.  Camera A leads to camera B, camera
   B to nowhere; the link from B to A is a disabled row.  A unit of time is
   half a minute, sigma is 60 s. *)
EXTENDS IdentityResolution

CONSTANTS A, B, t1, t2, t3

MCCameras == {A, B}
MCTracklets == {t1, t2, t3}

MCLinks == {[from |-> A, to |-> B, min |-> 1, max |-> 2, enabled |-> TRUE],
            [from |-> B, to |-> A, min |-> 0, max |-> 0, enabled |-> FALSE]}

MCDecay == [age \in 0..4 |-> <<100, 88, 61, 32, 14>>[age + 1]]

(* The cosine of a tracklet with its own crops is the highest. *)
Alike(score) ==
    [t \in MCTracklets |-> [u \in MCTracklets |-> IF t = u THEN 100 ELSE score[{t, u}]]]
Sim(s12, s13, s23) ==
    Alike([p \in {{t1, t2}, {t1, t3}, {t2, t3}} |->
            CASE p = {t1, t2} -> s12 [] p = {t1, t3} -> s13 [] OTHER -> s23])
Where(c1, c2, c3) ==
    [t \in MCTracklets |-> CASE t = t1 -> c1 [] t = t2 -> c2 [] OTHER -> c3]

(* One person seen three times; two people of whom one may be taken for the
   other; two look-alikes and a third who resembles both. *)
MCScenes ==
    {[cam |-> Where(A, A, B), sim |-> Sim(97, 97, 97)],
     [cam |-> Where(A, A, B), sim |-> Sim(50, 93, 91)],
     [cam |-> Where(A, B, B), sim |-> Sim(90, 50, 92)],
     [cam |-> Where(A, B, B), sim |-> Sim(50, 96, 94)]}

(* One person on both cameras. *)
MCScenesLive == {[cam |-> Where(A, A, B), sim |-> Sim(97, 97, 97)]}
=============================================================================
