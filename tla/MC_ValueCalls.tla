--------------------------- MODULE MC_ValueCalls ---------------------------
(* Two elements, so that a local can be left over from the first, and two   *)
(* integers and texts, so that a field can be taken for its neighbour.      *)
EXTENDS ValueCalls

MCInts == {3, 4}
MCTexts == {<<97>>, <<98, 99>>}
MCEnvVectors == {<<>>, << <<118>>, <<119>> >>}
MCDiagnostics == {<<>>, <<100>>}
=============================================================================
