------------------------------ MODULE MCLivePage ------------------------------
(***************************************************************************)
(* The live page for TLC: its shell with the projection, and its captions. *)
(* Both only take events in and share no state, so a behaviour of this     *)
(* module is one of the part it begins with.                               *)
(***************************************************************************)
EXTENDS LiveShell

CONSTANTS Lines, Words, HistoryLimit, MaxCalls

VARIABLES part, view, sounding, held, calls, ended, fresh

Captions == INSTANCE SpokenTranscript WITH play <- sounding

captionVars == <<view, sounding, held, calls, ended, fresh>>

TwoTurns == <<"t1", "t2">>

PageInit == part \in {"shell", "captions"} /\ Init /\ Captions!Init

PageNext ==
    /\ UNCHANGED part
    /\ \/ part = "shell" /\ Next /\ UNCHANGED captionVars
       \/ part = "captions" /\ Captions!Next /\ UNCHANGED vars

PageSpec == PageInit /\ [][PageNext]_<<part, vars, captionVars>>

\* SpokenTranscript's: captions are of what was heard, in order, and advance.
CaptionsFollow == Captions!CaptionsFollow

\* SpokenTranscript's: a stopped narration reveals nothing more.
StopFreezesCaption == Captions!StopFreezesCaption

=============================================================================
