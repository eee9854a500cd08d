----------------------------- MODULE MCLiveAudio -----------------------------
(***************************************************************************)
(* The two browser ports of the live page for TLC.  They share no state,   *)
(* so their interleavings say nothing new: a behaviour of this module is   *)
(* one of the port it begins with.                                         *)
(***************************************************************************)
EXTENDS MicrophoneCapture, SpeechPlayback

VARIABLE port

PortsInit == port \in {"microphone", "speech"} /\ Init /\ PlaybackInit

PortsNext ==
  /\ UNCHANGED port
  /\ \/ port = "microphone" /\ Next /\ UNCHANGED playbackVars
     \/ port = "speech" /\ PlaybackNext /\ UNCHANGED vars

PortsSpec ==
  /\ PortsInit /\ [][PortsNext]_<<port, vars, playbackVars>>
  /\ Fairness /\ PlaybackFairness

=============================================================================
