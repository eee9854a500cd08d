----------------------- MODULE MCVoiceAudioController -----------------------
(* Small instances of VoiceAudioController for TLC.                        *)
EXTENDS VoiceAudioController, TLC

=============================================================================
