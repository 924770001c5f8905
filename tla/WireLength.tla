----------------------------- MODULE WireLength -----------------------------
(* Lengths of encodings, where only the length of a message matters.        *)
EXTENDS Naturals

\* Bytes of an avro long: zigzag doubles a length, seven bits to a byte.
\* Three bytes reach far beyond any buffer the code has.
LongBytes(len) == IF len < 64 THEN 1 ELSE IF len < 8192 THEN 2 ELSE 3

\* A wrapper is the length of the request, the request and the enum byte.
WrapperLen(inner) == LongBytes(inner) + inner + 1
=============================================================================
