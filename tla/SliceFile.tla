----------------------------- MODULE SliceFile -----------------------------
(* A slice handed over through a file: write_slice_to_file in one process,  *)
(* read_file_to_slice in others (or in init_schema, where the slice is the  *)
(* text of a schema), each system call a step of its own.  The name is      *)
(* removed before it is opened for writing, so that every slice goes to a   *)
(* file object (an inode) of its own, which readers that have it open keep. *)
(* What remove, fseek, fread and fwrite return is ignored by the code, and  *)
(* each may fail: a name that could not be removed is opened all the same,  *)
(* which empties the file under its readers.  One process writes; it may    *)
(* die between any two calls and start again.                               *)
EXTENDS Naturals, FiniteSets

CONSTANTS
    Readers,    \* processes, or calls, that read the file
    MaxWrites,  \* bound: slices written
    MaxLen      \* bound: bytes of a slice

ASSUME MaxWritesAssumption == MaxWrites \in Nat
ASSUME MaxLenAssumption == MaxLen \in Nat

VARIABLES
    writes,   \* slices the writer has begun to write; the k-th is slice k
    size,     \* bytes of each slice
    writer,   \* where the writer is: "idle", "removed" or "writing"
    name,     \* the inode the filename stands for, 0 when there is none
    out,      \* the inode the writer has open
    inodes,   \* of each inode: the slice it holds and how many of its bytes
    readers,  \* of each reader: where it is, and what it has read
    kept      \* history: the inodes that a remove has left under their name

vars == <<writes, size, writer, name, out, inodes, readers, kept>>

Write == 1..MaxWrites
NoFile == 0
NoSlice == 0

\* A reader: the inode it has open, the slice that was in it when it was opened
\* and how many bytes it had, the length taken from ftell, and the bytes that
\* fread has stored and the slices they are from.  Of a call that is done, cut
\* says whether fseek or fread failed, and moved whether the inode got another
\* slice before the call was through with it.
Reader == [at: {"idle", "opened", "measured", "done", "exited"},
           inode: Write \cup {NoFile}, slice: Write \cup {NoSlice}, had: 0..MaxLen,
           len: 0..MaxLen, stored: 0..MaxLen, from: SUBSET Write,
           cut: BOOLEAN, moved: BOOLEAN]

Start == [at |-> "idle", inode |-> NoFile, slice |-> NoSlice, had |-> 0,
          len |-> 0, stored |-> 0, from |-> {}, cut |-> FALSE, moved |-> FALSE]

-----------------------------------------------------------------------------
(* write_slice_to_file.                                                      *)

Begin ==
    /\ writer = "idle" /\ writes < MaxWrites
    /\ writes' = writes + 1
    /\ \E len \in 0..MaxLen : size' = [size EXCEPT ![writes'] = len]
    /\ writer' = "removed"
    /\ UNCHANGED <<out, inodes, readers>>

\* Mutant of Unlinked: the name is not removed.
StillLinked == name

\* The filename after remove() has removed it, or found nothing to remove.
Unlinked == NoFile

Remove ==
    /\ Begin
    /\ name' = Unlinked
    /\ UNCHANGED kept

\* remove() fails (the directory is read-only or sticky, the file is held),
\* and nobody looks.
RemoveFails ==
    /\ Begin
    /\ name # NoFile
    /\ kept' = kept \cup {name}
    /\ UNCHANGED name

\* Mutant of Truncated: opened with "r+" or "a".
Untruncated(k) == inodes[k].len

\* What is left of inode k when it is opened with "w".
Truncated(k) == 0

\* fopen(filename, "w") makes a file, or empties the one that is there.
OpenToWrite ==
    /\ writer = "removed"
    /\ out' = IF name = NoFile THEN writes ELSE name
    /\ name' = out'
    /\ inodes' = [inodes EXCEPT ![out'] = [slice |-> writes, len |-> Truncated(out')]]
    /\ writer' = "writing"
    /\ UNCHANGED <<writes, size, readers, kept>>

\* Mutant of Unwritten: one byte more than the slice has.
UnwrittenAndOne == (inodes[out].len + 1)..(size[writes] + 1)

\* How far a system call of fwrite or fclose may bring the file.
Unwritten == (inodes[out].len + 1)..size[writes]

Fwrite ==
    /\ writer = "writing"
    /\ \E len \in Unwritten : inodes' = [inodes EXCEPT ![out].len = len]
    /\ UNCHANGED <<writes, size, writer, name, out, readers, kept>>

\* fclose.  Nobody checks that all was written: a full disk looks the same.
CloseWritten ==
    /\ writer = "writing"
    /\ writer' = "idle"
    /\ UNCHANGED <<writes, size, name, out, inodes, readers, kept>>

\* fopen fails and exit(1) is called, or the process dies; another takes over.
WriterDies ==
    /\ writer # "idle"
    /\ writer' = "idle"
    /\ UNCHANGED <<writes, size, name, out, inodes, readers, kept>>

-----------------------------------------------------------------------------
(* read_file_to_slice.                                                       *)

\* What a reader does leaves the files and the writer alone.
Turn(r, read) ==
    /\ readers' = [readers EXCEPT ![r] = read]
    /\ UNCHANGED <<writes, size, writer, name, out, inodes, kept>>

\* The file that fp of the reader refers to.
File(r) == inodes[readers[r].inode]

\* fopen(filename, "r"); it fails where there is no file, and may elsewhere.
OpenToRead(r) ==
    /\ readers[r].at = "idle" /\ name # NoFile
    /\ Turn(r, [Start EXCEPT !.at = "opened", !.inode = name,
                             !.slice = inodes[name].slice, !.had = inodes[name].len])

\* exit(1): fopen has failed, or malloc of the length, which may be 0.
ReaderExits(r) ==
    /\ readers[r].at \in {"idle", "opened"}
    /\ Turn(r, [Start EXCEPT !.at = "exited"])

\* fseek to the end and ftell, then malloc of as much.  Where fseek fails, ftell
\* tells the beginning.
Measure(r) ==
    /\ readers[r].at = "opened"
    /\ \/ Turn(r, [readers[r] EXCEPT !.at = "measured", !.len = File(r).len])
       \/ Turn(r, [readers[r] EXCEPT !.at = "measured", !.cut = TRUE])

\* What fread can still get for the reader.
Available(r) == (readers[r].stored + 1)..(IF File(r).len < readers[r].len
                                          THEN File(r).len ELSE readers[r].len)

\* A system call of fread.
Fread(r) ==
    /\ readers[r].at = "measured"
    /\ \E k \in Available(r) :
         Turn(r, [readers[r] EXCEPT !.stored = k,
                                    !.from = readers[r].from \cup {File(r).slice}])

\* fread has all it asked for, or met the end of the file or an error, which is
\* not looked at: fclose, return.
CloseRead(r) ==
    /\ readers[r].at = "measured"
    /\ Turn(r, [readers[r] EXCEPT !.at = "done",
                                  !.cut = readers[r].cut \/ Available(r) # {},
                                  !.moved = File(r).slice # readers[r].slice])

\* The slice was used and freed, or a new process reads: another call.
ReadAgain(r) ==
    /\ readers[r].at \in {"done", "exited"}
    /\ Turn(r, Start)

-----------------------------------------------------------------------------
Init ==
    /\ writes = 0
    /\ size = [k \in Write |-> 0]
    /\ writer = "idle"
    /\ name = NoFile
    /\ out = NoFile
    /\ inodes = [k \in Write |-> [slice |-> NoSlice, len |-> 0]]
    /\ readers = [r \in Readers |-> Start]
    /\ kept = {}

Next ==
    \/ Remove
    \/ RemoveFails
    \/ OpenToWrite
    \/ Fwrite
    \/ CloseWritten
    \/ WriterDies
    \/ \E r \in Readers :
         \/ OpenToRead(r)
         \/ ReaderExits(r)
         \/ Measure(r)
         \/ Fread(r)
         \/ CloseRead(r)
         \/ ReadAgain(r)

Spec == Init /\ [][Next]_vars

-----------------------------------------------------------------------------
(* Properties.                                                               *)

\* Types of the variables; a file is never longer than the slice it holds.
TypeOK ==
    /\ writes \in 0..MaxWrites
    /\ size \in [Write -> 0..MaxLen]
    /\ writer \in {"idle", "removed", "writing"}
    /\ name \in Write \cup {NoFile}
    /\ out \in Write \cup {NoFile}
    /\ inodes \in [Write -> [slice: Write \cup {NoSlice}, len: 0..MaxLen]]
    /\ \A k \in Write : IF inodes[k].slice = NoSlice THEN inodes[k].len = 0
                        ELSE inodes[k].len <= size[inodes[k].slice]
    /\ readers \in [Readers -> Reader]
    /\ kept \subseteq Write

\* A reader returned after its file had been given to a later slice: a remove
\* could not take the name off it.
Overtaken(r) == readers[r].moved /\ readers[r].inode \in kept

\* However a read and the writes interleave, what it returns has bytes of one
\* slice only, the one it opened, and from its beginning.  Every byte of its
\* buffer was stored (the length was taken from the file before the bytes),
\* unless one of its own calls failed.  A reader has no more to fear of the
\* writer than a remove that fails.
PrefixOfOne ==
    \A r \in Readers : readers[r].at = "done" /\ ~Overtaken(r) =>
        /\ readers[r].from \subseteq {readers[r].slice}
        /\ ~readers[r].cut => readers[r].stored = readers[r].len

\* A reader that opened a file with all of its slice returns that slice,
\* though it may be replaced at any moment while it is read: unless the remove
\* fails, or a call of the reader.
WholeIfOpenedWhole ==
    \A r \in Readers :
        /\ readers[r].at = "done" /\ ~Overtaken(r) /\ ~readers[r].cut
        /\ readers[r].had = size[readers[r].slice]
        => /\ readers[r].stored = size[readers[r].slice]
           /\ readers[r].from \subseteq {readers[r].slice}

\* A call on the register of slices.
Call(at, slice, least, len, bytes) ==
    [at |-> at, slice |-> slice, least |-> least, len |-> len, bytes |-> bytes]

\* What a reader has of the file, as such a call: the bytes stored are those of
\* each slice some are from.
Read(rd) ==
    CASE rd.at = "idle" -> Call("idle", NoSlice, 0, 0, {})
      [] rd.at = "exited" -> Call("failed", NoSlice, 0, 0, {})
      [] rd.at \in {"opened", "measured"} ->
           IF inodes[rd.inode].slice = rd.slice THEN Call("reading", rd.slice, rd.had, 0, {})
           ELSE Call("overtaken", NoSlice, 0, 0, {})
      [] rd.at = "done" ->
           IF rd.moved THEN Call("overtaken", NoSlice, 0, 0, {})
           ELSE IF rd.cut THEN Call("cut", rd.slice, rd.had, 0, rd.from \X (1..rd.stored))
           ELSE Call("returned", rd.slice, rd.had, rd.len, rd.from \X (1..rd.stored))

\* The bytes of slice k that are in a file.
Stored(k) == LET Holds == {i \in Write : inodes[i].slice = k}
             IN  IF Holds = {} THEN 0 ELSE inodes[CHOOSE i \in Holds : TRUE].len

Register == INSTANCE SliceRegister WITH
    begun <- writes,
    stored <- [k \in Write |-> Stored(k)],
    current <- IF name = NoFile THEN NoSlice ELSE inodes[name].slice,
    reads <- [r \in Readers |-> Read(readers[r])]

\* Every step of a writer or reader is one of the register, or invisible to
\* it: files replaced while they are read, readers that are slow, writers that
\* die and calls that fail included.
ImplementsRegister == Register!Spec
=============================================================================
