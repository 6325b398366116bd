------------------------- MODULE MCVoiceConnection -------------------------
(***************************************************************************)
(* Instances of VoiceConnection for TLC.                                   *)
(***************************************************************************)
EXTENDS VoiceConnection, TLC

CONSTANTS v1, v2, d1, d2, d3, app, h1, h2, r1, r2

Symmetry == Permutations(Voice) \cup Permutations(Dial) \cup Permutations(Handler) \cup Permutations(Recon)

\* wsHeartbeat and opusReceiver, once told to stop or without their socket,
\* change nothing any more:
\* their ends are taken before anything else happens.
Told == \E d \in Dial : \/ d \in beat /\ (stopped[d] \/ link[d] # "up")
                        \/ receiver[d].at = "run" /\ stopped[receiver[d].stop]
EndsFirst == Told => <<beat', receiver'>> # <<beat, receiver>>
=============================================================================
