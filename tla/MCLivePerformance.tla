------------------------- MODULE MCLivePerformance -------------------------
(* A page that begins with a clip in every slot.                           *)
EXTENDS LivePerformance

FullSongs ==
    {[t \in Tracks |-> [c \in Clips |-> m]] : m \in {CHOOSE m \in Materials : TRUE}}
=============================================================================
