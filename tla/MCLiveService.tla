--------------------------- MODULE MCLiveService ----------------------------
(* Two calls, of every kind and of every check they can fail, a budget of   *)
(* one request and a server that restarts once.                             *)
EXTENDS LiveService

SomeRequests ==
    [kind : {"transcribe"}, fails : {"hints", "none"}]
      \cup [kind : {"guide"}, fails : {"client", "length", "parse", "provider", "none"}]
      \cup [kind : {"speech"}, fails : {"none"}]
=============================================================================
