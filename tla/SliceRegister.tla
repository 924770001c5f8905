--------------------------- MODULE SliceRegister ---------------------------
(* What a file in which slices are handed over promises its readers: the    *)
(* name stands for the slice begun last, or the one before if that could    *)
(* not be removed, or for nothing, and a read returns a beginning of the    *)
(* slice the name stood for when the file was opened, no shorter than it    *)
(* was then and no longer than it has become.  A read that fails halfway    *)
(* still stores a beginning of that slice.  A slice that takes the place of *)
(* one not removed overtakes those who read it, and nothing is promised to  *)
(* them.                                                                    *)
EXTENDS Naturals

CONSTANTS
    Readers,    \* processes, or calls, that read the file
    MaxWrites,  \* bound: slices written
    MaxLen      \* bound: bytes of a slice

VARIABLES
    begun,      \* slices written or being written, numbered from 1
    size,       \* bytes of each slice
    stored,     \* bytes of each slice that are in a file
    current,    \* the slice the name stands for
    reads       \* of each reader: the call it makes, and what it returned

vars == <<begun, size, stored, current, reads>>

Write == 1..MaxWrites
Nothing == 0

Idle == [at |-> "idle", slice |-> Nothing, least |-> 0, len |-> 0, bytes |-> {}]
Failed == [Idle EXCEPT !.at = "failed"]
Reading(k, n) == [at |-> "reading", slice |-> k, least |-> n, len |-> 0, bytes |-> {}]

\* A byte is a slice and a place in it.
Returned(k, least, n) ==
    [at |-> "returned", slice |-> k, least |-> least, len |-> n, bytes |-> {k} \X (1..n)]

\* A read that was cut short by an error: no length can be counted on.
Cut(k, least, n) ==
    [at |-> "cut", slice |-> k, least |-> least, len |-> 0, bytes |-> {k} \X (1..n)]

Overtaken == [Idle EXCEPT !.at = "overtaken"]

Init ==
    /\ begun = 0
    /\ size = [k \in Write |-> 0]
    /\ stored = [k \in Write |-> 0]
    /\ current = Nothing
    /\ reads = [r \in Readers |-> Idle]

Begin ==
    /\ begun < MaxWrites
    /\ begun' = begun + 1
    /\ \E len \in 0..MaxLen : size' = [size EXCEPT ![begun'] = len]
    /\ current' \in {current, Nothing}
    /\ UNCHANGED <<stored, reads>>

\* The name stands for the slice begun last; one that was not removed is gone.
Appear ==
    /\ begun # 0 /\ current # begun
    /\ current' = begun
    /\ stored' = IF current = Nothing THEN stored ELSE [stored EXCEPT ![current] = 0]
    /\ reads' = [r \in Readers |->
                   IF reads[r].at = "reading" /\ reads[r].slice = current
                   THEN Overtaken ELSE reads[r]]
    /\ UNCHANGED <<begun, size>>

Grow ==
    /\ begun # 0
    /\ \E n \in (stored[begun] + 1)..size[begun] : stored' = [stored EXCEPT ![begun] = n]
    /\ UNCHANGED <<begun, size, current, reads>>

Turn(r, read) ==
    /\ reads' = [reads EXCEPT ![r] = read]
    /\ UNCHANGED <<begun, size, stored, current>>

Open(r) ==
    /\ reads[r].at = "idle" /\ current # Nothing
    /\ Turn(r, Reading(current, stored[current]))

Return(r) ==
    /\ reads[r].at = "reading"
    /\ LET k == reads[r].slice
       IN  \/ \E n \in reads[r].least..stored[k] : Turn(r, Returned(k, reads[r].least, n))
           \/ \E n \in 0..stored[k] : Turn(r, Cut(k, reads[r].least, n))

Fail(r) == reads[r].at \in {"idle", "reading", "overtaken"} /\ Turn(r, Failed)

Again(r) == reads[r].at \in {"returned", "cut", "failed", "overtaken"} /\ Turn(r, Idle)

Next ==
    \/ Begin
    \/ Appear
    \/ Grow
    \/ \E r \in Readers : Open(r) \/ Return(r) \/ Fail(r) \/ Again(r)

Spec == Init /\ [][Next]_vars
=============================================================================
