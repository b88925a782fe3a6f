------------------------- MODULE MCTranscriptStream -------------------------
(* An agent that prints two events around a blank line and some prose on    *)
(* stdout, and an event on stderr.                                          *)
EXTENDS TranscriptStream

Printed == 1..5
KindOf == [l \in Printed |-> CASE l \in {1, 4, 5} -> "json"
                               [] l = 2 -> "prose"
                               [] OTHER -> "blank"]
TwoStreams == [s \in Streams |-> IF s = "stdout" THEN <<1, 2, 3, 4>> ELSE <<5>>]
=============================================================================
