------------------------------ MODULE CMemory ------------------------------
(* The C heap as a client of hamster-avro sees it, as pure operators over   *)
(* one record that the owning module keeps in a variable.                   *)
(*   live    the blocks malloc has handed out and free has not taken back   *)
(*   invalid the blocks that were freed or dereferenced while not live      *)
(* A block is <<n, role, i>>: the i-th block of that role allocated by the  *)
(* n-th call.  Every call has a number of its own, so malloc never hands    *)
(* out a block twice and a stale pointer is never mistaken for a new block. *)
EXTENDS Naturals

HeapEmpty == [live |-> {}, invalid |-> {}]

Alloc(h, B) == [live |-> h.live \cup B, invalid |-> h.invalid]

\* Dereferencing the blocks B is undefined for those that are not live.
Use(h, B) == [live |-> h.live, invalid |-> h.invalid \cup (B \ h.live)]

\* free() of each block of B once; a block that is not live is a double free.
Free(h, B) == [live |-> h.live \ B, invalid |-> h.invalid \cup (B \ h.live)]

\* Mutant of FreeSlice: the header goes first and is read afterwards.
FreeSliceHeaderFirst(h, hdr, buf) == Free(Use(Free(h, {hdr}), {hdr}), {buf})

\* free_slice: reads slice->buffer, frees it, then frees the header.
FreeSlice(h, hdr, buf) == Free(Free(Use(h, {hdr}), {buf}), {hdr})
=============================================================================
