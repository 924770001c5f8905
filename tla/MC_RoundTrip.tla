---------------------------- MODULE MC_RoundTrip ----------------------------
(* Integers and lengths on both sides of where their encoding takes a       *)
(* second byte; diagnostics that, with the byte of succeed and their own    *)
(* length, fill the buffer exactly or miss the room for a wrapper by one.   *)
EXTENDS RoundTrip

MCInts == {-65, 64}
MCTexts == {<<>>, <<104, 49>>}
MCEnvVectors == {<<>>, << <<118>> >>, << <<118>>, <<>> >>}
MCDiagnostics == {[i \in 1..k |-> 100] : k \in {0, 1} \cup 59..67}
=============================================================================
