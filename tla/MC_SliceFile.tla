---------------------------- MODULE MC_SliceFile ----------------------------
(* Three slices of up to two bytes: a reader can be two replacements behind *)
(* or have its file emptied twice, and fread can stop between the bytes.    *)
(* No reader changes what the writer or another reader looks at, so one is  *)
(* enough.                                                                  *)
EXTENDS SliceFile

CONSTANT r1
MCReaders == {r1}
=============================================================================
