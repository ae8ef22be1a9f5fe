--------------------------- MODULE MCAudioServer ---------------------------
(* Instances of AudioServer.  The clients are strings, as NoClient is. *)
EXTENDS AudioServer
=============================================================================
