--------------------------- MODULE MCAudioClient ---------------------------
(* The audio client with chunks of four samples and a release time of one;  *)
(* 3 bit samples, the least one and both sides of the threshold included.   *)
EXTENDS ClientShutdown

MCSamples == {-4, 1, 2}
MCOpenThreshold == -2
=============================================================================
