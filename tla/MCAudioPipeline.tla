--------------------------- MODULE MCAudioPipeline ---------------------------
(* An instance of AudioPipeline: containers of three, one and no tracks,    *)
(* some on disk and some in memory.                                         *)
EXTENDS AudioPipeline

MCInputs == <<"a", "b", "c">>
MCFiles == {"a", "c"}
MCTracksOf == [i \in InputSet |-> CASE i = "a" -> 3 [] i = "b" -> 1 [] OTHER -> 0]
MCSettings == {[decode |-> TRUE, hcaMax |-> 1], [decode |-> TRUE, hcaMax |-> 2],
               [decode |-> FALSE, hcaMax |-> 1]}
=============================================================================
