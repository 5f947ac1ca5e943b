------------------------ MODULE MCRemoteJamConsumer ------------------------
EXTENDS RemoteJamConsumer, TLC

CONSTANTS ours, theirs, low, high

Frame(s, n, kind, p) == [session |-> s, sequence |-> n, kind |-> kind, pitch |-> p]

(* Two notes and their release, a stop, and a frame of another session.    *)
MCFrames ==
    {Frame(ours, n, kind, low) : n \in 1 .. 3, kind \in {"on", "off"}}
      \cup {Frame(ours, n, kind, high) : n \in 2 .. 3, kind \in {"on", "stop"}}
      \cup {Frame(ours, 2, "other", low), Frame(theirs, 1, "on", high)}
=============================================================================
