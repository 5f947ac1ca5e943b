------------------------- MODULE MCLiveAudioEngine -------------------------
(* Two tracks; a launch, a stop, and a scene that launches both at once.   *)
EXTENDS LiveAudioEngine

CONSTANTS t1, t2

Request(id, track, kind, target) ==
    [id |-> id, track |-> track, kind |-> kind, target |-> target]

MCBatches ==
    {<< Request("launch", t1, "launch", 1) >>,
     << Request("stop", t1, "stop", 1) >>,
     << Request("scene", t1, "launch", 1), Request("other", t2, "launch", 1) >>}
=============================================================================
