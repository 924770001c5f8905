--------------------------- MODULE SliceFile_proof ---------------------------
(* What a slice read from a file can be, for any number of readers, writes  *)
(* and bytes, whichever calls fail.  Placed says that a slice is in one     *)
(* inode only, which a later slice gets only where a remove left the name:  *)
(* so an inode either grows or, when it is in kept, goes to a later slice.  *)
(* Reading says what a reader may count on as long as its inode holds the   *)
(* slice that was in it when it was opened.                                 *)
EXTENDS SliceFile, TLAPS

\* A slice is in one inode; the slices and inodes after the last write are not
\* used yet.
Placed ==
    /\ \A k \in Write : inodes[k].slice <= writes
    /\ \A k \in Write : k > writes => inodes[k].slice = NoSlice
    /\ \A i, k \in Write : inodes[i].slice = inodes[k].slice /\ inodes[i].slice # NoSlice => i = k
    /\ name # NoFile => inodes[name].slice # NoSlice
    /\ writer # "idle" => writes \in Write
    /\ writer = "removed" =>
         /\ \A k \in Write : inodes[k].slice # writes
         /\ inodes[writes].slice = NoSlice
         /\ name # NoFile => name \in kept
    /\ writer = "writing" => out \in Write /\ inodes[out].slice = writes

\* What a reader has as long as its inode holds the slice it opened: bytes of
\* that slice, of which there are no fewer now than when they were measured.
Undisturbed(rd) ==
    /\ rd.from \subseteq {rd.slice}
    /\ rd.stored > 0 => rd.from = {rd.slice}
    /\ rd.stored <= rd.len
    /\ rd.len <= inodes[rd.inode].len
    /\ rd.had <= inodes[rd.inode].len
    /\ rd.at = "measured" /\ ~rd.cut => rd.had <= rd.len
    /\ rd.at = "opened" => rd.stored = 0 /\ rd.len = 0

\* A reader that has the file open.
Open(rd) == rd.at \in {"opened", "measured"}

Sound(rd) ==
    /\ rd.inode \in Write /\ rd.slice \in 1..writes
    /\ rd.slice <= inodes[rd.inode].slice
    /\ IF rd.slice = inodes[rd.inode].slice THEN Undisturbed(rd) ELSE rd.inode \in kept

\* What a reader has returned.
Finished(rd) ==
    /\ rd.slice \in 1..writes
    /\ IF rd.moved THEN rd.inode \in kept
       ELSE /\ rd.from \subseteq {rd.slice}
            /\ rd.stored <= rd.len
            /\ ~rd.cut => /\ rd.stored = rd.len
                          /\ rd.had <= rd.len /\ rd.len <= size[rd.slice]

Reading ==
    \A r \in Readers : /\ Open(readers[r]) => Sound(readers[r])
                       /\ readers[r].at = "done" => Finished(readers[r])

IInv == TypeOK /\ Placed /\ Reading

-----------------------------------------------------------------------------
LEMMA InitIInv ==
  ASSUME Init
  PROVE  IInv
<1> USE MaxWritesAssumption, MaxLenAssumption
<1>1. TypeOK
  BY DEF Init, TypeOK, Write, NoFile, NoSlice, Start, Reader
<1>2. Placed
  BY DEF Init, Placed, Write, NoFile, NoSlice
<1>3. Reading
  BY DEF Init, Reading, Open, Start
<1> QED BY <1>1, <1>2, <1>3 DEF IInv

\* The types of what a reader has.
LEMMA ReaderTypes ==
  ASSUME TypeOK, NEW r \in Readers
  PROVE  /\ readers[r] \in Reader
         /\ readers[r].len \in 0..MaxLen /\ readers[r].stored \in 0..MaxLen
         /\ readers[r].had \in 0..MaxLen
         /\ readers[r].slice \in Write \cup {NoSlice} /\ readers[r].inode \in Write \cup {NoFile}
BY DEF TypeOK, Reader

LEMMA InodeTypes ==
  ASSUME TypeOK, NEW k \in Write
  PROVE  /\ inodes[k].len \in 0..MaxLen /\ inodes[k].slice \in 0..MaxWrites
         /\ inodes[k].slice = NoSlice \/ inodes[k].slice \in Write
         /\ inodes[k].slice # NoSlice => inodes[k].len <= size[inodes[k].slice]
BY MaxWritesAssumption DEF TypeOK, Write, NoSlice

\* From one state to the next an inode that is in use keeps its slice and does
\* not shrink, or it goes to a later slice and a remove has left its name.
Grows(k) ==
    \/ inodes'[k].slice = inodes[k].slice /\ inodes[k].len <= inodes'[k].len
    \/ inodes'[k].slice > inodes[k].slice /\ k \in kept'

\* A step of the writer by which every inode in use grows so, and that keeps
\* the sizes of the slices begun, is none that a reader would notice.
LEMMA ReadersKept ==
  ASSUME IInv, TypeOK', readers' = readers, writes <= writes', kept \subseteq kept',
         \A k \in 1..writes : size'[k] = size[k],
         \A k \in Write : inodes[k].slice # NoSlice => Grows(k)
  PROVE  Reading'
<1> SUFFICES ASSUME NEW r \in Readers
             PROVE  /\ Open(readers[r]) => Sound(readers[r])'
                    /\ readers[r].at = "done" => Finished(readers[r])'
  BY DEF Reading, Open
<1> DEFINE rd == readers[r]
           i == rd.inode
<1>1. rd' = rd /\ writes \in Nat /\ writes' \in Nat
  BY DEF IInv, TypeOK
<1>2. rd.len \in Nat /\ rd.stored \in Nat /\ rd.had \in Nat
  BY ReaderTypes, MaxLenAssumption DEF IInv
<1>3. ASSUME rd.at = "done" PROVE Finished(rd)'
  <2>1. Finished(rd)
    BY <1>3 DEF IInv, Reading
  <2>2. rd.slice \in 1..writes' /\ size'[rd.slice] = size[rd.slice]
    BY <1>1, <2>1 DEF Finished
  <2> HIDE DEF rd
  <2> QED BY <1>1, <2>1, <2>2 DEF Finished
<1>4. ASSUME Open(rd) PROVE Sound(rd)'
  <2>1. Sound(rd)
    BY <1>4 DEF IInv, Reading
  <2>2. i \in Write /\ rd.slice \in 1..writes /\ rd.slice \in 1..writes'
    BY <1>1, <2>1 DEF Sound
  <2>3. /\ inodes[i].slice \in Nat /\ inodes'[i].slice \in Nat
        /\ inodes[i].len \in Nat /\ inodes'[i].len \in Nat
    <3>1. inodes[i].slice \in Nat /\ inodes[i].len \in Nat
      BY <2>2, InodeTypes, MaxWritesAssumption, MaxLenAssumption DEF IInv
    <3>2. inodes'[i] \in [slice: Write \cup {NoSlice}, len: 0..MaxLen]
      BY <2>2 DEF TypeOK
    <3>3. inodes'[i].slice \in Write \cup {NoSlice} /\ inodes'[i].len \in 0..MaxLen
      BY <3>2
    <3> QED BY <3>1, <3>3, MaxWritesAssumption, MaxLenAssumption DEF Write, NoSlice
  <2>4. rd.slice <= inodes[i].slice
    BY <2>1 DEF Sound
  <2>5. Grows(i)
    BY <2>2, <2>3, <2>4 DEF NoSlice
  <2>6. CASE inodes'[i].slice > inodes[i].slice /\ i \in kept'
    <3>1. rd.slice < inodes'[i].slice
      BY <2>2, <2>3, <2>4, <2>6
    <3> HIDE DEF rd
    <3> QED BY <1>1, <2>2, <2>3, <2>6, <3>1 DEF Sound
  <2>7. CASE inodes'[i].slice = inodes[i].slice /\ inodes[i].len <= inodes'[i].len
    <3>1. CASE rd.slice = inodes[i].slice
      <4>1. Undisturbed(rd)
        BY <2>1, <3>1 DEF Sound
      <4>2. rd.len <= inodes'[i].len /\ rd.had <= inodes'[i].len
        BY <1>2, <2>3, <2>7, <4>1 DEF Undisturbed
      <4> HIDE DEF rd
      <4>3. Undisturbed(rd)'
        BY <1>1, <4>1, <4>2 DEF Undisturbed
      <4> QED BY <1>1, <2>2, <2>4, <2>7, <3>1, <4>3 DEF Sound
    <3>2. CASE rd.slice # inodes[i].slice
      <4>1. i \in kept'
        BY <2>1, <3>2 DEF Sound
      <4> HIDE DEF rd
      <4> QED BY <1>1, <2>2, <2>4, <2>7, <3>2, <4>1 DEF Sound
    <3> QED BY <3>1, <3>2
  <2> QED BY <2>5, <2>6, <2>7 DEF Grows
<1> QED BY <1>1, <1>3, <1>4

-----------------------------------------------------------------------------
(* The writer.                                                               *)

\* A write is begun, and the name is gone or known to be left.
LEMMA BeginStep ==
  ASSUME IInv, Begin, name' \in {NoFile, name}, name' # NoFile => name' \in kept',
         kept \subseteq kept', kept' \subseteq Write
  PROVE  IInv'
<1> USE MaxWritesAssumption, MaxLenAssumption
<1>1. /\ writes + 1 \in Write /\ writes' = writes + 1 /\ writes \in Nat
      /\ \A k \in 1..writes : k \in Write /\ k # writes + 1
  BY DEF Begin, IInv, TypeOK, Write
<1>2. PICK len \in 0..MaxLen : size' = [size EXCEPT ![writes + 1] = len]
  BY <1>1 DEF Begin
<1>3. inodes' = inodes /\ out' = out /\ readers' = readers /\ writer' = "removed"
  BY DEF Begin
<1>4. \A k \in Write : k # writes + 1 => size'[k] = size[k]
  BY <1>1, <1>2 DEF IInv, TypeOK
<1>5. \A k \in Write : /\ inodes[k].slice \in Nat /\ inodes[k].slice <= writes
                       /\ inodes[k].slice # writes + 1
  <2>1. \A k \in Write : inodes[k].slice \in Nat /\ inodes[k].slice <= writes
    BY InodeTypes DEF IInv, Placed
  <2> QED BY <1>1, <2>1
<1>6. TypeOK'
  <2>1. size' \in [Write -> 0..MaxLen]
    BY <1>1, <1>2 DEF IInv, TypeOK
  <2>2. ASSUME NEW k \in Write
        PROVE  IF inodes'[k].slice = NoSlice THEN inodes'[k].len = 0
               ELSE inodes'[k].len <= size'[inodes'[k].slice]
    <3>1. CASE inodes[k].slice = NoSlice
      BY <1>3, <3>1 DEF IInv, TypeOK
    <3>2. CASE inodes[k].slice # NoSlice
      <4>1. inodes[k].slice \in Write /\ inodes[k].len <= size[inodes[k].slice]
        BY <3>2, InodeTypes DEF IInv
      <4> QED BY <1>3, <1>4, <1>5, <3>2, <4>1
    <3> QED BY <3>1, <3>2
  <2>3. writes' \in 0..MaxWrites
    BY <1>1 DEF Write
  <2>4. name' \in Write \cup {NoFile}
    BY DEF IInv, TypeOK
  <2> QED BY <1>3, <2>1, <2>2, <2>3, <2>4 DEF IInv, TypeOK
<1>7. Placed'
  <2>1. \A k \in Write : inodes'[k].slice <= writes' /\ inodes'[k].slice # writes'
    BY <1>1, <1>3, <1>5
  <2>2. \A k \in Write : k > writes' => inodes'[k].slice = NoSlice
    BY <1>1, <1>3 DEF IInv, Placed, Write
  <2>3. inodes'[writes'].slice = NoSlice
    BY <1>1, <1>3 DEF IInv, Placed
  <2>4. name' # NoFile => inodes'[name'].slice # NoSlice
    BY <1>3 DEF IInv, Placed
  <2> QED BY <1>1, <1>3, <2>1, <2>2, <2>3, <2>4 DEF IInv, Placed
<1>8. Reading'
  <2>1. \A k \in Write : Grows(k)
    BY <1>3, InodeTypes DEF Grows, IInv
  <2> QED BY <1>1, <1>3, <1>4, <1>6, <2>1, ReadersKept
<1> QED BY <1>6, <1>7, <1>8 DEF IInv

LEMMA RemoveStep ==
  ASSUME IInv, Remove \/ RemoveFails
  PROVE  IInv'
<1>1. CASE Remove
  BY <1>1, BeginStep DEF Remove, Unlinked, IInv, TypeOK
<1>2. CASE RemoveFails
  <2>1. Begin /\ name' = name /\ name \in Write /\ kept' = kept \cup {name}
    BY <1>2 DEF RemoveFails, IInv, TypeOK
  <2> QED BY <2>1, BeginStep DEF IInv, TypeOK
<1> QED BY <1>1, <1>2

\* What OpenToWrite changes.
LEMMA OpensToWrite ==
  ASSUME IInv, OpenToWrite
  PROVE  /\ out' \in Write /\ name' = out' /\ writer' = "writing"
         /\ writes' = writes /\ size' = size /\ readers' = readers /\ kept' = kept
         /\ writes \in Write /\ \A k \in Write : inodes[k].slice < writes
         /\ \A k \in Write : inodes'[k] = IF k = out' THEN [slice |-> writes, len |-> 0]
                                          ELSE inodes[k]
         /\ DOMAIN inodes' = Write /\ inodes' = [k \in Write |-> inodes'[k]]
         /\ IF name = NoFile THEN out' = writes /\ inodes[out'].slice = NoSlice
            ELSE out' = name /\ name \in kept
<1> USE MaxWritesAssumption
<1>1. writes \in Write /\ writer = "removed"
  BY DEF OpenToWrite, IInv, Placed
<1>2. IF name = NoFile THEN out' = writes ELSE out' = name
  BY DEF OpenToWrite
<1>3. out' \in Write
  BY <1>1, <1>2 DEF IInv, TypeOK
<1>4. inodes' = [inodes EXCEPT ![out'] = [slice |-> writes, len |-> 0]]
  BY DEF OpenToWrite, Truncated
<1>5. DOMAIN inodes = Write
  BY DEF IInv, TypeOK
<1>6. /\ \A k \in Write : inodes'[k] = IF k = out' THEN [slice |-> writes, len |-> 0]
                                       ELSE inodes[k]
      /\ DOMAIN inodes' = Write /\ inodes' = [k \in Write |-> inodes'[k]]
  BY <1>3, <1>4, <1>5
<1>7. \A k \in Write : inodes[k].slice < writes
  <2>1. \A k \in Write : inodes[k].slice \in Nat /\ inodes[k].slice <= writes /\ inodes[k].slice # writes
    BY <1>1, InodeTypes DEF IInv, Placed
  <2> QED BY <1>1, <2>1 DEF Write
<1>8. inodes[writes].slice = NoSlice /\ (name # NoFile => name \in kept)
  BY <1>1 DEF IInv, Placed
<1> QED BY <1>1, <1>2, <1>3, <1>6, <1>7, <1>8 DEF OpenToWrite

LEMMA OpenToWriteStep ==
  ASSUME IInv, OpenToWrite
  PROVE  IInv'
<1> USE MaxWritesAssumption, MaxLenAssumption
<1>1. writes \in Nat \ {0} /\ writes \in Write
  BY OpensToWrite DEF Write
<1>2. \A k \in Write : /\ inodes[k].slice \in Nat /\ inodes[k].slice < writes
                       /\ inodes'[k].slice = IF k = out' THEN writes ELSE inodes[k].slice
                       /\ inodes'[k].len = IF k = out' THEN 0 ELSE inodes[k].len
  BY OpensToWrite, InodeTypes DEF IInv
<1>3. TypeOK'
  <2>1. inodes' \in [Write -> [slice: Write \cup {NoSlice}, len: 0..MaxLen]]
    <3>1. \A k \in Write : inodes'[k] \in [slice: Write \cup {NoSlice}, len: 0..MaxLen]
      BY OpensToWrite DEF IInv, TypeOK
    <3> QED BY <3>1, OpensToWrite
  <2>2. ASSUME NEW k \in Write
        PROVE  IF inodes'[k].slice = NoSlice THEN inodes'[k].len = 0
               ELSE inodes'[k].len <= size'[inodes'[k].slice]
    <3>1. size' = size /\ size[writes] \in Nat
      BY <1>1, OpensToWrite DEF IInv, TypeOK
    <3>2. CASE k = out'
      BY <1>1, <1>2, <3>1, <3>2 DEF NoSlice
    <3>3. CASE k # out'
      BY <1>2, <3>1, <3>3 DEF IInv, TypeOK
    <3> QED BY <3>2, <3>3
  <2>3. /\ writes' = writes /\ size' = size /\ writer' = "writing" /\ name' \in Write
        /\ out' \in Write /\ readers' = readers /\ kept' = kept
    BY OpensToWrite
  <2> QED BY <2>1, <2>2, <2>3 DEF IInv, TypeOK
<1>4. Placed'
  <2>1. /\ out' \in Write /\ name' = out' /\ writer' = "writing" /\ writes' = writes
        /\ IF name = NoFile THEN out' = writes ELSE out' = name
    BY OpensToWrite
  <2>2. out' <= writes
    <3>1. CASE name = NoFile
      BY <1>1, <2>1, <3>1
    <3>2. CASE name # NoFile
      BY <1>1, <2>1, <3>2 DEF IInv, Placed, Write
    <3> QED BY <3>1, <3>2
  <2>3. \A k \in Write : inodes'[k].slice <= writes
    BY <1>1, <1>2
  <2>4. \A k \in Write : k > writes => inodes'[k].slice = NoSlice
    BY <1>1, <1>2, <2>1, <2>2 DEF IInv, Placed, Write
  <2>5. ASSUME NEW i \in Write, NEW k \in Write,
               inodes'[i].slice = inodes'[k].slice, inodes'[i].slice # NoSlice
        PROVE  i = k
    BY <1>1, <1>2, <2>1, <2>5 DEF IInv, Placed
  <2>6. inodes'[out'].slice = writes /\ writes # NoSlice
    BY <1>1, <1>2, <2>1 DEF NoSlice
  <2> QED BY <1>1, <2>1, <2>3, <2>4, <2>5, <2>6 DEF Placed
<1>5. Reading'
  <2>1. ASSUME NEW k \in Write, inodes[k].slice # NoSlice
        PROVE  Grows(k)
    <3>1. CASE k = out'
      BY <1>1, <1>2, <2>1, <3>1, OpensToWrite DEF Grows
    <3>2. CASE k # out'
      BY <1>2, <3>2, InodeTypes DEF Grows, IInv
    <3> QED BY <3>1, <3>2
  <2> QED BY <1>1, <1>3, <2>1, OpensToWrite, ReadersKept
<1> QED BY <1>3, <1>4, <1>5 DEF IInv

\* What Fwrite changes.
LEMMA Writes ==
  ASSUME IInv, Fwrite
  PROVE  /\ out \in Write /\ inodes[out].slice = writes /\ writes \in Write
         /\ \E len \in (inodes[out].len + 1)..size[writes] :
              \A k \in Write : inodes'[k] = IF k = out THEN [slice |-> writes, len |-> len]
                                            ELSE inodes[k]
         /\ DOMAIN inodes' = Write /\ inodes' = [k \in Write |-> inodes'[k]]
         /\ UNCHANGED <<writes, size, writer, name, out, readers, kept>>
<1>1. out \in Write /\ inodes[out].slice = writes /\ writes \in Write
  BY DEF Fwrite, IInv, Placed
<1>2. PICK len \in (inodes[out].len + 1)..size[writes] : inodes' = [inodes EXCEPT ![out].len = len]
  BY DEF Fwrite, Unwritten
<1>3. /\ inodes[out] \in [slice: Write \cup {NoSlice}, len: 0..MaxLen] /\ DOMAIN inodes = Write
  BY <1>1 DEF IInv, TypeOK
<1>4. [inodes[out] EXCEPT !.len = len] = [slice |-> writes, len |-> len]
  BY <1>1, <1>3
<1>5. /\ \A k \in Write : inodes'[k] = IF k = out THEN [slice |-> writes, len |-> len] ELSE inodes[k]
      /\ DOMAIN inodes' = Write /\ inodes' = [k \in Write |-> inodes'[k]]
  BY <1>1, <1>2, <1>3, <1>4
<1> QED BY <1>1, <1>2, <1>5 DEF Fwrite

LEMMA FwriteStep ==
  ASSUME IInv, Fwrite
  PROVE  IInv'
<1> USE MaxWritesAssumption, MaxLenAssumption
<1>1. /\ out \in Write /\ inodes[out].slice = writes /\ writes \in Write
      /\ UNCHANGED <<writes, size, writer, name, out, readers, kept>>
  BY Writes
<1>2. PICK len \in (inodes[out].len + 1)..size[writes] :
        \A k \in Write : inodes'[k] = IF k = out THEN [slice |-> writes, len |-> len] ELSE inodes[k]
  BY Writes
<1>3. /\ inodes[out].len \in Nat /\ len \in 0..MaxLen
      /\ inodes[out].len <= len /\ len <= size[writes]
  BY <1>1 DEF IInv, TypeOK
<1>4. \A k \in Write : /\ inodes'[k].slice = inodes[k].slice
                       /\ inodes'[k].len = IF k = out THEN len ELSE inodes[k].len
  BY <1>1, <1>2
<1>5. TypeOK'
  <2>1. inodes' \in [Write -> [slice: Write \cup {NoSlice}, len: 0..MaxLen]]
    <3>1. \A k \in Write : inodes'[k] \in [slice: Write \cup {NoSlice}, len: 0..MaxLen]
      BY <1>1, <1>2, <1>3 DEF IInv, TypeOK
    <3> QED BY <3>1, Writes
  <2>2. ASSUME NEW k \in Write
        PROVE  IF inodes'[k].slice = NoSlice THEN inodes'[k].len = 0
               ELSE inodes'[k].len <= size'[inodes'[k].slice]
    <3>1. CASE k = out
      BY <1>1, <1>3, <1>4, <3>1 DEF NoSlice, Write
    <3>2. CASE k # out
      BY <1>1, <1>4, <3>2 DEF IInv, TypeOK
    <3> QED BY <3>1, <3>2
  <2> QED BY <1>1, <2>1, <2>2 DEF IInv, TypeOK
<1>6. Placed'
  <2>1. Placed /\ \A k \in Write : inodes'[k].slice = inodes[k].slice
    BY <1>4 DEF IInv
  <2>2. name # NoFile => name \in Write
    BY DEF IInv, TypeOK
  <2>3. name' # NoFile => inodes'[name'].slice # NoSlice
    BY <1>1, <2>1, <2>2 DEF Placed
  <2>4. writer = "writing"
    BY DEF Fwrite
  <2>5. \A i, k \in Write :
          inodes'[i].slice = inodes'[k].slice /\ inodes'[i].slice # NoSlice => i = k
    BY <2>1 DEF Placed
  <2>6. \A k \in Write : /\ inodes'[k].slice <= writes'
                         /\ k > writes' => inodes'[k].slice = NoSlice
    BY <1>1, <2>1 DEF Placed
  <2> QED BY <1>1, <1>4, <2>3, <2>4, <2>5, <2>6 DEF Placed
<1>7. Reading'
  <2>1. \A k \in Write : Grows(k)
    BY <1>3, <1>4, InodeTypes DEF Grows, IInv
  <2> QED BY <1>1, <1>5, <2>1, ReadersKept DEF Write
<1> QED BY <1>5, <1>6, <1>7 DEF IInv

\* Closing and dying leave the file as it is.
LEMMA WriterStopsStep ==
  ASSUME IInv, CloseWritten \/ WriterDies
  PROVE  IInv'
<1>1. writer' = "idle" /\ UNCHANGED <<writes, size, name, out, inodes, readers, kept>>
  BY DEF CloseWritten, WriterDies
<1>2. TypeOK' /\ Placed'
  BY <1>1 DEF IInv, TypeOK, Placed
<1>3. Reading'
  BY <1>1 DEF IInv, Reading, Open, Sound, Undisturbed, Finished
<1> QED BY <1>2, <1>3 DEF IInv

-----------------------------------------------------------------------------
(* The readers.                                                              *)

\* What the readers do leaves everything of the writer's as it is, so only
\* the record of the reader that moved is to be looked at.
LEMMA ReaderMoves ==
  ASSUME IInv, NEW r \in Readers, NEW new \in Reader, Turn(r, new),
         Open(new) => Sound(new), new.at = "done" => Finished(new)
  PROVE  IInv'
<1>1. /\ readers' = [readers EXCEPT ![r] = new]
      /\ UNCHANGED <<writes, size, writer, name, out, inodes, kept>>
  BY DEF Turn
<1>2. TypeOK'
  BY <1>1 DEF IInv, TypeOK
<1>3. Placed'
  BY <1>1 DEF IInv, Placed
<1>4. \A s \in Readers : readers'[s] = IF s = r THEN new ELSE readers[s]
  BY <1>1 DEF IInv, TypeOK
<1>5. \A s \in Readers : /\ Open(readers'[s]) => Sound(readers'[s])
                         /\ readers'[s].at = "done" => Finished(readers'[s])
  BY <1>4 DEF IInv, Reading
<1>6. Reading'
  BY <1>1, <1>5 DEF Reading, Open, Sound, Undisturbed, Finished
<1> QED BY <1>2, <1>3, <1>6 DEF IInv

LEMMA StartType ==
  /\ Start \in Reader
  /\ Start.at = "idle" /\ Start.len = 0 /\ Start.stored = 0 /\ Start.from = {} /\ Start.cut = FALSE
BY MaxLenAssumption DEF Start, Reader

LEMMA OpenToReadStep ==
  ASSUME IInv, NEW r \in Readers, OpenToRead(r)
  PROVE  IInv'
<1> DEFINE new == [Start EXCEPT !.at = "opened", !.inode = name,
                                !.slice = inodes[name].slice, !.had = inodes[name].len]
<1>1. Turn(r, new) /\ name # NoFile
  BY DEF OpenToRead
<1>2. name \in Write /\ inodes[name].slice # NoSlice
  BY <1>1 DEF IInv, TypeOK, Placed
<1>3. inodes[name].len \in 0..MaxLen /\ inodes[name].slice \in Write
  BY <1>2, InodeTypes DEF IInv
<1>4. /\ new \in Reader
      /\ new.at = "opened" /\ new.inode = name /\ new.slice = inodes[name].slice
      /\ new.had = inodes[name].len /\ new.len = 0 /\ new.stored = 0 /\ new.from = {}
  BY <1>2, <1>3, StartType DEF Reader
<1> HIDE DEF new
<1>5. inodes[name].slice \in 1..writes
  BY <1>2, <1>3, MaxWritesAssumption DEF IInv, TypeOK, Placed, Write
<1>6. Undisturbed(new)
  BY <1>3, <1>4, MaxLenAssumption DEF Undisturbed
<1>7. Sound(new)
  BY <1>2, <1>4, <1>5, <1>6 DEF Sound
<1> QED BY <1>1, <1>4, <1>7, ReaderMoves

LEMMA ReaderExitsStep ==
  ASSUME IInv, NEW r \in Readers, ReaderExits(r)
  PROVE  IInv'
<1> DEFINE new == [Start EXCEPT !.at = "exited"]
<1>1. new \in Reader /\ new.at = "exited"
  BY StartType DEF Reader
<1>2. Turn(r, new)
  BY DEF ReaderExits
<1> HIDE DEF new
<1> QED BY <1>1, <1>2, ReaderMoves DEF Open

\* A reader that has the file open.
LEMMA Mover ==
  ASSUME IInv, NEW r \in Readers, Open(readers[r])
  PROVE  /\ Sound(readers[r]) /\ readers[r].inode \in Write
         /\ inodes[readers[r].inode].len \in 0..MaxLen
         /\ inodes[readers[r].inode].slice \in Write
         /\ readers[r].slice \in Write
<1>1. Sound(readers[r]) /\ readers[r].inode \in Write
  BY DEF IInv, Reading, Sound
<1>2. /\ inodes[readers[r].inode].len \in 0..MaxLen
      /\ inodes[readers[r].inode].slice = NoSlice \/ inodes[readers[r].inode].slice \in Write
  BY <1>1, InodeTypes DEF IInv
<1>3. readers[r].slice \in 1..writes /\ readers[r].slice <= inodes[readers[r].inode].slice
  BY <1>1 DEF Sound
<1>4. readers[r].slice \in Write /\ inodes[readers[r].inode].slice # NoSlice
  BY <1>3, MaxWritesAssumption DEF IInv, TypeOK, Write, NoSlice
<1> QED BY <1>1, <1>2, <1>4

LEMMA MeasureStep ==
  ASSUME IInv, NEW r \in Readers, Measure(r)
  PROVE  IInv'
<1> DEFINE rd == readers[r]
<1>1. Open(rd) /\ rd.at = "opened" /\ rd \in Reader
  BY DEF Measure, Open, IInv, TypeOK
<1>2. Sound(rd) /\ rd.inode \in Write /\ inodes[rd.inode].len \in 0..MaxLen
  BY <1>1, Mover
<1>3. CASE Turn(r, [rd EXCEPT !.at = "measured", !.len = inodes[rd.inode].len])
  <2> DEFINE new == [rd EXCEPT !.at = "measured", !.len = inodes[rd.inode].len]
  <2>1. /\ new \in Reader /\ new.at = "measured" /\ new.inode = rd.inode /\ new.slice = rd.slice
        /\ new.len = inodes[rd.inode].len /\ new.stored = rd.stored /\ new.from = rd.from
        /\ new.had = rd.had
    BY <1>1, <1>2 DEF Reader
  <2>2. Undisturbed(rd) => Undisturbed(new)
    <3> SUFFICES ASSUME Undisturbed(rd) PROVE Undisturbed(new)
      OBVIOUS
    <3>1. rd.stored = 0 /\ rd.had <= inodes[rd.inode].len
      BY <1>1 DEF Undisturbed
    <3> HIDE DEF new
    <3> QED BY <1>2, <2>1, <3>1, MaxLenAssumption DEF Undisturbed
  <2> HIDE DEF new
  <2>3. Sound(new)
    BY <1>2, <2>1, <2>2 DEF Sound
  <2>4. Turn(r, new)
    BY <1>3 DEF new
  <2> QED BY <2>1, <2>3, <2>4, ReaderMoves
<1>4. CASE Turn(r, [rd EXCEPT !.at = "measured", !.cut = TRUE])
  <2> DEFINE new == [rd EXCEPT !.at = "measured", !.cut = TRUE]
  <2>1. /\ new \in Reader /\ new.at = "measured" /\ new.inode = rd.inode /\ new.slice = rd.slice
        /\ new.len = rd.len /\ new.stored = rd.stored /\ new.from = rd.from
        /\ new.had = rd.had /\ new.cut = TRUE
    BY <1>1 DEF Reader
  <2>2. Undisturbed(rd) => Undisturbed(new)
    <3> HIDE DEF new, rd
    <3> QED BY <2>1 DEF Undisturbed
  <2> HIDE DEF new
  <2>3. Sound(new)
    BY <1>2, <2>1, <2>2 DEF Sound
  <2>4. Turn(r, new)
    BY <1>4 DEF new
  <2> QED BY <2>1, <2>3, <2>4, ReaderMoves
<1> QED BY <1>3, <1>4 DEF Measure, File

\* What Fread changes.
LEMMA Stores ==
  ASSUME IInv, NEW r \in Readers, Fread(r)
  PROVE  \E k \in Available(r), new \in Reader :
           /\ Turn(r, new) /\ k \in 1..MaxLen /\ k <= readers[r].len
           /\ new.at = "measured" /\ readers[r].at = "measured"
           /\ new.inode = readers[r].inode /\ new.slice = readers[r].slice
           /\ new.had = readers[r].had /\ new.len = readers[r].len /\ new.cut = readers[r].cut
           /\ new.stored = k /\ new.from = readers[r].from \cup {inodes[readers[r].inode].slice}
<1> DEFINE rd == readers[r]
<1>1. Open(rd) /\ rd.at = "measured" /\ rd \in Reader
  BY DEF Fread, Open, IInv, TypeOK
<1>2. rd.inode \in Write /\ inodes[rd.inode].len \in 0..MaxLen /\ inodes[rd.inode].slice \in Write
  BY <1>1, Mover
<1>3. PICK k \in Available(r) :
        Turn(r, [rd EXCEPT !.stored = k, !.from = rd.from \cup {inodes[rd.inode].slice}])
  BY DEF Fread, File
<1>4. rd.stored \in Nat /\ rd.len \in 0..MaxLen
  BY ReaderTypes, MaxLenAssumption DEF IInv
<1>5. k \in 1..MaxLen /\ k <= rd.len
  BY <1>2, <1>4, MaxLenAssumption DEF Available, File
<1> DEFINE f == rd.from \cup {inodes[rd.inode].slice}
           new == [rd EXCEPT !.stored = k, !.from = f]
<1>6. f \in SUBSET Write /\ k \in 0..MaxLen
  BY <1>1, <1>2, <1>5 DEF Reader
<1> HIDE DEF f
<1>7. /\ new \in Reader /\ new.at = rd.at /\ new.inode = rd.inode /\ new.slice = rd.slice
      /\ new.had = rd.had /\ new.len = rd.len /\ new.cut = rd.cut
      /\ new.stored = k /\ new.from = f
  BY <1>1, <1>6 DEF Reader
<1>8. Turn(r, new)
  BY <1>3 DEF f
<1> HIDE DEF new, rd
<1>9. PICK x \in Reader : x = new
  BY <1>7
<1> QED BY <1>1, <1>5, <1>7, <1>8, <1>9 DEF f, rd

LEMMA FreadStep ==
  ASSUME IInv, NEW r \in Readers, Fread(r)
  PROVE  IInv'
<1> DEFINE rd == readers[r]
<1>1. PICK k \in Available(r), new \in Reader :
        /\ Turn(r, new) /\ k \in 1..MaxLen /\ k <= rd.len
        /\ new.at = "measured" /\ rd.at = "measured" /\ new.inode = rd.inode
        /\ new.slice = rd.slice /\ new.had = rd.had /\ new.len = rd.len /\ new.cut = rd.cut
        /\ new.stored = k /\ new.from = rd.from \cup {inodes[rd.inode].slice}
  BY Stores
<1>2. Sound(rd)
  BY <1>1, Mover DEF Open
<1>3. rd.slice = inodes[rd.inode].slice /\ Undisturbed(rd) => Undisturbed(new)
  <2> SUFFICES ASSUME rd.slice = inodes[rd.inode].slice, Undisturbed(rd) PROVE Undisturbed(new)
    OBVIOUS
  <2>1. new.from = {rd.slice}
    BY <1>1 DEF Undisturbed
  <2> QED BY <1>1, <2>1 DEF Undisturbed
<1>4. Sound(new)
  BY <1>1, <1>2, <1>3 DEF Sound
<1> QED BY <1>1, <1>4, ReaderMoves

\* What CloseRead changes.
LEMMA Closes ==
  ASSUME IInv, NEW r \in Readers, CloseRead(r)
  PROVE  \E new \in Reader :
           /\ Turn(r, new) /\ new.at = "done" /\ readers[r].at = "measured"
           /\ new.inode = readers[r].inode /\ new.slice = readers[r].slice
           /\ new.had = readers[r].had /\ new.len = readers[r].len
           /\ new.stored = readers[r].stored /\ new.from = readers[r].from
           /\ new.cut = (readers[r].cut \/ Available(r) # {})
           /\ new.moved = (inodes[readers[r].inode].slice # readers[r].slice)
<1> DEFINE rd == readers[r]
           c == rd.cut \/ Available(r) # {}
           m == inodes[rd.inode].slice # rd.slice
           new == [rd EXCEPT !.at = "done", !.cut = c, !.moved = m]
<1>1. rd \in Reader /\ rd.at = "measured" /\ Turn(r, new)
  BY DEF CloseRead, File, IInv, TypeOK
<1>2. c \in BOOLEAN /\ m \in BOOLEAN
  BY <1>1 DEF Reader
<1> HIDE DEF c, m
<1>3. /\ new \in Reader /\ new.at = "done" /\ new.inode = rd.inode /\ new.slice = rd.slice
      /\ new.had = rd.had /\ new.len = rd.len /\ new.stored = rd.stored /\ new.from = rd.from
      /\ new.cut = c /\ new.moved = m
  BY <1>1, <1>2 DEF Reader
<1> HIDE DEF new, rd
<1>4. PICK x \in Reader : x = new
  BY <1>3
<1> QED BY <1>1, <1>3, <1>4 DEF c, m, rd

LEMMA CloseReadStep ==
  ASSUME IInv, NEW r \in Readers, CloseRead(r)
  PROVE  IInv'
<1> DEFINE rd == readers[r]
<1>1. PICK new \in Reader :
        /\ Turn(r, new) /\ new.at = "done" /\ rd.at = "measured"
        /\ new.inode = rd.inode /\ new.slice = rd.slice /\ new.had = rd.had /\ new.len = rd.len
        /\ new.stored = rd.stored /\ new.from = rd.from
        /\ new.cut = (rd.cut \/ Available(r) # {})
        /\ new.moved = (inodes[rd.inode].slice # rd.slice)
  BY Closes
<1>2. Sound(rd) /\ rd.inode \in Write /\ inodes[rd.inode].len \in 0..MaxLen
  BY <1>1, Mover DEF Open
<1>3. rd.len \in 0..MaxLen /\ rd.stored \in 0..MaxLen
  BY ReaderTypes DEF IInv
<1>4. ASSUME inodes[rd.inode].slice = rd.slice
      PROVE  /\ rd.from \subseteq {rd.slice} /\ rd.stored <= rd.len
             /\ ~new.cut => rd.stored = rd.len /\ rd.had <= rd.len /\ rd.len <= size[rd.slice]
  <2>1. Undisturbed(rd)
    BY <1>2, <1>4 DEF Sound
  <2>2. ASSUME ~new.cut PROVE rd.stored = rd.len /\ rd.had <= rd.len
    <3>1. rd.stored + 1 \notin Available(r) /\ ~rd.cut
      BY <1>1, <2>2
    <3>2. rd.stored <= rd.len /\ rd.len <= inodes[rd.inode].len /\ rd.had <= rd.len
      BY <1>1, <2>1, <3>1 DEF Undisturbed
    <3>3. rd.stored = rd.len
      BY <1>2, <1>3, <3>1, <3>2, MaxLenAssumption DEF Available, File
    <3> QED BY <3>2, <3>3
  <2>3. rd.len <= size[rd.slice]
    <3>1. rd.slice \in Write /\ rd.slice # NoSlice
      BY <1>1, Mover DEF Open, Write, NoSlice
    <3>2. inodes[rd.inode].len <= size[rd.slice] /\ size[rd.slice] \in Nat
      BY <1>2, <1>4, <3>1, InodeTypes, MaxLenAssumption DEF IInv, TypeOK
    <3> QED BY <1>2, <1>3, <2>1, <3>2, MaxLenAssumption DEF Undisturbed
  <2> QED BY <2>1, <2>2, <2>3 DEF Undisturbed
<1>5. Finished(new)
  <2>1. rd.slice \in 1..writes
    BY <1>2 DEF Sound
  <2>2. CASE new.moved
    <3>1. rd.inode \in kept
      BY <1>1, <1>2, <2>2 DEF Sound
    <3> QED BY <1>1, <2>1, <2>2, <3>1 DEF Finished
  <2>3. CASE ~new.moved
    BY <1>1, <1>4, <2>1, <2>3 DEF Finished
  <2> QED BY <2>2, <2>3
<1> QED BY <1>1, <1>5, ReaderMoves DEF Open

LEMMA ReadAgainStep ==
  ASSUME IInv, NEW r \in Readers, ReadAgain(r)
  PROVE  IInv'
<1>1. Turn(r, Start)
  BY DEF ReadAgain
<1>2. Start \in Reader /\ ~Open(Start) /\ Start.at # "done"
  BY StartType DEF Open
<1> QED BY <1>1, <1>2, ReaderMoves

-----------------------------------------------------------------------------
(* Theorems.                                                                 *)

\* The inductive invariant holds in every reachable state.
THEOREM Invariance == Spec => []IInv
<1>1. Init => IInv
  BY InitIInv
<1>2. IInv /\ [Next]_vars => IInv'
  <2> SUFFICES ASSUME IInv, [Next]_vars
               PROVE  IInv'
    OBVIOUS
  <2>1. CASE Remove \/ RemoveFails
    BY <2>1, RemoveStep
  <2>2. CASE OpenToWrite
    BY <2>2, OpenToWriteStep
  <2>3. CASE Fwrite
    BY <2>3, FwriteStep
  <2>4. CASE CloseWritten \/ WriterDies
    BY <2>4, WriterStopsStep
  <2>5. ASSUME NEW r \in Readers, OpenToRead(r) \/ ReaderExits(r) \/ Measure(r)
        PROVE  IInv'
    BY <2>5, OpenToReadStep, ReaderExitsStep, MeasureStep
  <2>6. ASSUME NEW r \in Readers, Fread(r) \/ CloseRead(r) \/ ReadAgain(r)
        PROVE  IInv'
    BY <2>6, FreadStep, CloseReadStep, ReadAgainStep
  <2>7. CASE UNCHANGED vars
    <3>1. TypeOK' /\ Placed'
      BY <2>7 DEF vars, IInv, TypeOK, Placed
    <3>2. Reading'
      BY <2>7 DEF vars, IInv, Reading, Open, Sound, Undisturbed, Finished
    <3> QED BY <3>1, <3>2 DEF IInv
  <2> QED BY <2>1, <2>2, <2>3, <2>4, <2>5, <2>6, <2>7 DEF Next
<1> QED BY <1>1, <1>2, PTL DEF Spec

\* Types of the state of write_slice_to_file and read_file_to_slice, and no
\* file longer than its slice.
THEOREM TypeCorrect == Spec => []TypeOK
<1>1. IInv => TypeOK
  BY DEF IInv
<1> QED BY <1>1, Invariance, PTL

\* read_file_to_slice returns the beginning of the slice it opened, with no
\* byte of its buffer left as malloc gave it unless fseek or fread has failed,
\* and only a remove that failed lets the writer spoil that.
THEOREM ReadsOneSlice == Spec => []PrefixOfOne
<1>1. IInv => PrefixOfOne
  <2> SUFFICES ASSUME IInv, NEW r \in Readers, readers[r].at = "done", ~Overtaken(r)
               PROVE  /\ readers[r].from \subseteq {readers[r].slice}
                      /\ ~readers[r].cut => readers[r].stored = readers[r].len
    BY DEF PrefixOfOne
  <2>1. Finished(readers[r])
    BY DEF IInv, Reading
  <2> QED BY <2>1 DEF Finished, Overtaken
<1> QED BY <1>1, Invariance, PTL

\* read_file_to_slice returns all of a slice whose file was complete when it
\* was opened, whatever the writer does meanwhile, as long as the remove and
\* its own calls do not fail.
THEOREM ReadsWholeSlice == Spec => []WholeIfOpenedWhole
<1>1. IInv => WholeIfOpenedWhole
  <2> SUFFICES ASSUME IInv, NEW r \in Readers, readers[r].at = "done", ~Overtaken(r),
                      ~readers[r].cut, readers[r].had = size[readers[r].slice]
               PROVE  /\ readers[r].stored = size[readers[r].slice]
                      /\ readers[r].from \subseteq {readers[r].slice}
    BY DEF WholeIfOpenedWhole
  <2>1. Finished(readers[r])
    BY DEF IInv, Reading
  <2>2. ~readers[r].moved
    BY <2>1 DEF Finished, Overtaken
  <2>3. readers[r].len \in Nat /\ readers[r].had \in Nat
    BY ReaderTypes, MaxLenAssumption DEF IInv
  <2> QED BY <2>1, <2>2, <2>3 DEF Finished
<1> QED BY <1>1, Invariance, PTL

-----------------------------------------------------------------------------
(* The refinement.  A write begins when the name is removed, or is not, and *)
(* its slice appears when the name is opened; a reader calls when it opens  *)
(* and returns when it closes.  What is between is invisible.               *)

StoredIn(nodes, k) ==
    LET Holds == {i \in Write : nodes[i].slice = k}
    IN  IF Holds = {} THEN 0 ELSE nodes[CHOOSE i \in Holds : TRUE].len

StoredAll == [k \in Write |-> Stored(k)]
Current == IF name = NoFile THEN NoSlice ELSE inodes[name].slice
Reads == [r \in Readers |-> Read(readers[r])]

\* A slice that one inode only holds is stored as far as that inode is long.
LEMMA Held ==
  ASSUME NEW nodes, NEW i \in Write, NEW k, nodes[i].slice = k,
         \A j \in Write : nodes[j].slice = k => j = i
  PROVE  StoredIn(nodes, k) = nodes[i].len
<1> DEFINE Holds == {j \in Write : nodes[j].slice = k}
<1>1. Holds = {i}
  OBVIOUS
<1>2. (CHOOSE j \in Holds : TRUE) = i
  BY <1>1
<1> QED BY <1>1, <1>2 DEF StoredIn

LEMMA NotHeld ==
  ASSUME NEW nodes, NEW k, \A j \in Write : nodes[j].slice # k
  PROVE  StoredIn(nodes, k) = 0
BY DEF StoredIn

\* As much of a slice is stored as long as its inode is left alone.
LEMMA LeftAlone ==
  ASSUME NEW nodes, NEW others, NEW k,
         \A i, j \in Write : nodes[i].slice = k /\ nodes[j].slice = k => i = j,
         \A i \in Write : /\ others[i].slice = k <=> nodes[i].slice = k
                          /\ nodes[i].slice = k => others[i].len = nodes[i].len
  PROVE  StoredIn(others, k) = StoredIn(nodes, k)
<1>1. CASE \A i \in Write : nodes[i].slice # k
  BY <1>1, NotHeld
<1>2. CASE \E i \in Write : nodes[i].slice = k
  <2>1. PICK i \in Write : nodes[i].slice = k
    BY <1>2
  <2>2. StoredIn(nodes, k) = nodes[i].len
    BY <2>1, Held
  <2>3. StoredIn(others, k) = others[i].len
    BY <2>1, Held
  <2> QED BY <2>1, <2>2, <2>3
<1> QED BY <1>1, <1>2

\* What is stored of the slice an inode holds.
LEMMA StoredOf ==
  ASSUME IInv, NEW i \in Write, inodes[i].slice # NoSlice
  PROVE  inodes[i].slice \in Write /\ StoredAll[inodes[i].slice] = inodes[i].len
<1>1. inodes[i].slice \in Write
  BY InodeTypes DEF IInv
<1>2. \A j \in Write : inodes[j].slice = inodes[i].slice => j = i
  BY DEF IInv, Placed
<1>3. PICK k \in Write : k = inodes[i].slice
  BY <1>1
<1>4. StoredIn(inodes, k) = inodes[i].len
  BY <1>2, <1>3, Held
<1> QED BY <1>3, <1>4 DEF StoredAll, Stored, StoredIn

LEMMA InitRefines ==
  ASSUME Init
  PROVE  Register!Init
<1>1. Read(Start) = Register!Idle
  BY DEF Read, Call, Start, Register!Idle, Register!Nothing, NoSlice
<1>2. Reads = [r \in Readers |-> Register!Idle]
  BY <1>1 DEF Init, Reads
<1>3. ASSUME NEW k \in Write PROVE Stored(k) = 0
  <2>1. \A i \in Write : inodes[i].slice = NoSlice /\ NoSlice # k
    BY MaxWritesAssumption DEF Init, Write, NoSlice
  <2> QED BY <2>1, NotHeld DEF Stored, StoredIn
<1>4. StoredAll = [k \in Write |-> 0]
  BY <1>3 DEF StoredAll
<1> QED BY <1>2, <1>4 DEF Init, Register!Init, Register!Write, Register!Nothing, Write,
           NoFile, NoSlice, StoredAll, Reads

LEMMA BeginRefines ==
  ASSUME IInv, Remove \/ RemoveFails
  PROVE  Register!Begin
<1>1. Begin /\ name' \in {name, NoFile}
  BY DEF Remove, RemoveFails, Unlinked
<1>2. writes' = writes + 1 /\ writes < MaxWrites /\ UNCHANGED <<inodes, readers>>
  BY <1>1 DEF Begin
<1>3. \E len \in 0..MaxLen : size' = [size EXCEPT ![writes'] = len]
  BY <1>1 DEF Begin
<1>4. StoredAll' = StoredAll
  BY <1>2 DEF StoredAll, Stored
<1>5. Reads' = Reads
  BY <1>2 DEF Reads, Read
<1>6. Current' \in {Current, NoSlice}
  BY <1>1, <1>2 DEF Current
<1> QED BY <1>2, <1>3, <1>4, <1>5, <1>6
        DEF Register!Begin, Register!Nothing, NoSlice, StoredAll, Reads, Current

\* The slice appears, and the one that was in the inode is gone from it.
LEMMA OpenToWriteRefines ==
  ASSUME IInv, OpenToWrite
  PROVE  Register!Appear
<1>1. /\ writes \in Write /\ writes # NoSlice /\ writes \in Nat
      /\ out' \in Write /\ name' = out' /\ UNCHANGED <<writes, size, readers>>
  BY OpensToWrite, MaxWritesAssumption DEF Write, NoSlice
<1>2. \A k \in Write : /\ inodes[k].slice # writes /\ inodes[k].slice \in Nat
                       /\ inodes'[k].slice = IF k = out' THEN writes ELSE inodes[k].slice
                       /\ inodes'[k].len = IF k = out' THEN 0 ELSE inodes[k].len
  <2>1. \A k \in Write : inodes[k].slice \in Nat /\ inodes[k].slice < writes
    BY OpensToWrite, InodeTypes DEF IInv
  <2> QED BY <1>1, <2>1, OpensToWrite
<1>3. Current' = writes /\ Current # writes
  BY <1>1, <1>2 DEF Current, NoFile, NoSlice, Write, IInv, TypeOK
<1>4. inodes[out'].slice = Current /\ (name # NoFile => Current # NoSlice)
  <2>1. IF name = NoFile THEN inodes[out'].slice = NoSlice ELSE out' = name
    BY OpensToWrite
  <2> QED BY <2>1 DEF Current, IInv, Placed
<1>5. ASSUME NEW k \in Write
      PROVE  Stored(k)' = IF k = Current THEN 0 ELSE Stored(k)
  <2>1. \A i, j \in Write : inodes[i].slice = k /\ inodes[j].slice = k => i = j
    BY DEF IInv, Placed, Write, NoSlice
  <2>2. CASE k = writes
    <3>1. Stored(k) = 0
      BY <1>2, <2>2, NotHeld DEF Stored, StoredIn
    <3>2. StoredIn(inodes', k) = inodes'[out'].len
      BY <1>1, <1>2, <2>2, Held
    <3> QED BY <1>1, <1>2, <1>3, <2>2, <3>1, <3>2 DEF Stored, StoredIn
  <2>3. CASE k = Current
    <3>1. \A j \in Write : inodes'[j].slice # k
      BY <1>1, <1>2, <1>3, <1>4, <2>1, <2>3
    <3>2. StoredIn(inodes', k) = 0
      BY <3>1, NotHeld
    <3> QED BY <2>3, <3>2 DEF Stored, StoredIn
  <2>4. CASE k # writes /\ k # Current
    <3>1. \A i \in Write : /\ inodes'[i].slice = k <=> inodes[i].slice = k
                           /\ inodes[i].slice = k => inodes'[i].len = inodes[i].len
      BY <1>2, <1>4, <2>4
    <3>2. StoredIn(inodes', k) = StoredIn(inodes, k)
      BY <2>1, <3>1, LeftAlone
    <3> QED BY <2>4, <3>2 DEF Stored, StoredIn
  <2> QED BY <2>2, <2>3, <2>4
<1>6. StoredAll' = IF Current = NoSlice THEN StoredAll ELSE [StoredAll EXCEPT ![Current] = 0]
  <2>1. CASE Current = NoSlice
    <3>1. \A k \in Write : k # Current
      BY <2>1, MaxWritesAssumption DEF Write, NoSlice
    <3> QED BY <1>5, <2>1, <3>1 DEF StoredAll
  <2>2. CASE Current # NoSlice
    BY <1>5, <2>2 DEF StoredAll
  <2> QED BY <2>1, <2>2
<1>7. ASSUME NEW s \in Readers
      PROVE  Read(readers[s])' = IF Reads[s].at = "reading" /\ Reads[s].slice = Current
                                 THEN Register!Overtaken ELSE Reads[s]
  <2> DEFINE rd == readers[s]
  <2>1. rd' = rd /\ Reads[s] = Read(rd) /\ rd \in Reader
    BY <1>1 DEF Reads, IInv, TypeOK
  <2>2. CASE ~Open(rd)
    <3>1. Read(rd)' = Read(rd) /\ Read(rd).at # "reading"
      BY <2>1, <2>2 DEF Read, Call, Open, Reader
    <3> QED BY <2>1, <3>1
  <2>3. CASE Open(rd)
    <3>1. rd.inode \in Write /\ rd.slice \in Write /\ Sound(rd)
      BY <2>3, Mover
    <3>2. rd.slice # writes
      <4>1. rd.slice <= inodes[rd.inode].slice /\ inodes[rd.inode].slice < writes
        BY <3>1, OpensToWrite DEF Sound
      <4> QED BY <1>1, <1>2, <3>1, <4>1 DEF Write
    <3>3. Read(rd) = IF inodes[rd.inode].slice = rd.slice THEN Call("reading", rd.slice, rd.had, 0, {})
                     ELSE Call("overtaken", NoSlice, 0, 0, {})
      BY <2>3 DEF Read, Open
    <3>4. Read(rd)' = IF inodes'[rd.inode].slice = rd.slice THEN Call("reading", rd.slice, rd.had, 0, {})
                      ELSE Call("overtaken", NoSlice, 0, 0, {})
      BY <2>1, <2>3 DEF Read, Open, Call
    <3>5. Register!Overtaken = Call("overtaken", NoSlice, 0, 0, {})
      BY DEF Register!Overtaken, Register!Idle, Register!Nothing, NoSlice, Call
    <3>6. CASE rd.inode = out'
      <4>1. inodes'[rd.inode].slice # rd.slice
        BY <1>2, <3>1, <3>2, <3>6
      <4> QED BY <1>4, <2>1, <3>3, <3>4, <3>5, <3>6, <4>1 DEF Call
    <3>7. CASE rd.inode # out'
      <4>1. inodes'[rd.inode].slice = inodes[rd.inode].slice
        BY <1>2, <3>1, <3>7
      <4>2. inodes[rd.inode].slice = rd.slice => rd.slice # Current
        BY <1>1, <1>4, <3>1, <3>7 DEF IInv, Placed, Write, NoSlice
      <4> QED BY <2>1, <3>3, <3>4, <4>1, <4>2 DEF Call
    <3> QED BY <3>6, <3>7
  <2> QED BY <2>2, <2>3
<1>8. Reads' = [s \in Readers |-> IF Reads[s].at = "reading" /\ Reads[s].slice = Current
                                  THEN Register!Overtaken ELSE Reads[s]]
  BY <1>7 DEF Reads
<1> QED BY <1>1, <1>3, <1>6, <1>8
        DEF Register!Appear, Register!Nothing, NoSlice, StoredAll, Reads, Current

LEMMA FwriteRefines ==
  ASSUME IInv, Fwrite
  PROVE  Register!Grow
<1>1. /\ out \in Write /\ inodes[out].slice = writes /\ writes \in Write /\ writes # NoSlice
      /\ UNCHANGED <<writes, size, writer, name, out, readers, kept>>
  BY Writes DEF Write, NoSlice
<1>2. PICK len \in (inodes[out].len + 1)..size[writes] :
        \A k \in Write : inodes'[k] = IF k = out THEN [slice |-> writes, len |-> len] ELSE inodes[k]
  BY Writes
<1>3. \A k \in Write : /\ inodes'[k].slice = inodes[k].slice
                       /\ inodes'[k].len = IF k = out THEN len ELSE inodes[k].len
  BY <1>1, <1>2
<1>4. StoredAll[writes] = inodes[out].len
  BY <1>1, StoredOf
<1>5. ASSUME NEW k \in Write
      PROVE  Stored(k)' = IF k = writes THEN len ELSE Stored(k)
  <2>1. \A i, j \in Write : inodes[i].slice = k /\ inodes[j].slice = k => i = j
    BY DEF IInv, Placed, Write, NoSlice
  <2>2. CASE k = writes
    <3>1. StoredIn(inodes', k) = inodes'[out].len
      BY <1>1, <1>3, <2>1, <2>2, Held
    <3> QED BY <1>1, <1>3, <2>2, <3>1 DEF Stored, StoredIn
  <2>3. CASE k # writes
    <3>1. \A i \in Write : /\ inodes'[i].slice = k <=> inodes[i].slice = k
                           /\ inodes[i].slice = k => inodes'[i].len = inodes[i].len
      BY <1>1, <1>3, <2>3
    <3>2. StoredIn(inodes', k) = StoredIn(inodes, k)
      BY <2>1, <3>1, LeftAlone
    <3> QED BY <2>3, <3>2 DEF Stored, StoredIn
  <2> QED BY <2>2, <2>3
<1>6. StoredAll' = [StoredAll EXCEPT ![writes] = len]
  BY <1>5 DEF StoredAll
<1>7. Current' = Current
  <2>1. name # NoFile => name \in Write
    BY DEF IInv, TypeOK
  <2> QED BY <1>1, <1>3, <2>1 DEF Current
<1>8. ASSUME NEW s \in Readers PROVE Read(readers[s])' = Read(readers[s])
  <2>1. Open(readers[s]) => readers[s].inode \in Write
    BY Mover
  <2> QED BY <1>1, <1>3, <2>1 DEF Read, Open, Call
<1>9. Reads' = Reads
  BY <1>8 DEF Reads
<1>10. writes # 0 /\ len \in (StoredAll[writes] + 1)..size[writes]
  BY <1>1, <1>4 DEF NoSlice
<1>11. UNCHANGED <<writes, size>>
  BY <1>1
<1> QED BY <1>6, <1>7, <1>9, <1>10, <1>11 DEF Register!Grow, StoredAll, Current, Reads

\* A step of reader r, with record new after it.
LEMMA ReaderTurns ==
  ASSUME TypeOK, NEW r \in Readers, NEW new, Turn(r, new)
  PROVE  /\ Register!Turn(r, Read(new))
         /\ Read(new) = Read(readers[r]) => UNCHANGED Register!vars
         /\ Reads[r] = Read(readers[r])
<1>1. /\ readers' = [readers EXCEPT ![r] = new]
      /\ UNCHANGED <<writes, size, writer, name, out, inodes, kept>>
  BY DEF Turn
<1>2. ASSUME NEW s \in Readers
      PROVE  Read(readers[s])' = IF s = r THEN Read(new) ELSE Read(readers[s])
  <2>1. readers'[s] = IF s = r THEN new ELSE readers[s]
    BY <1>1 DEF TypeOK
  <2>2. Read(readers[s])' = Read(readers'[s])
    BY <1>1 DEF Read
  <2> QED BY <2>1, <2>2
<1>3. Reads' = [Reads EXCEPT ![r] = Read(new)]
  BY <1>2 DEF Reads
<1>4. StoredAll' = StoredAll /\ Current' = Current
  BY <1>1 DEF StoredAll, Stored, Current
<1>5. Read(new) = Read(readers[r]) => Reads' = Reads
  BY <1>3 DEF Reads
<1>6. Reads[r] = Read(readers[r])
  BY DEF Reads
<1>7. UNCHANGED <<writes, size>>
  BY <1>1
<1> QED BY <1>3, <1>4, <1>5, <1>6, <1>7
        DEF Register!Turn, Register!vars, StoredAll, Reads, Current

LEMMA OpenToReadRefines ==
  ASSUME IInv, NEW r \in Readers, OpenToRead(r)
  PROVE  Register!Open(r)
<1> DEFINE new == [Start EXCEPT !.at = "opened", !.inode = name,
                                !.slice = inodes[name].slice, !.had = inodes[name].len]
<1>1. Turn(r, new) /\ readers[r].at = "idle" /\ name # NoFile
  BY DEF OpenToRead
<1>2. name \in Write /\ Current = inodes[name].slice /\ Current # NoSlice
  BY <1>1 DEF IInv, TypeOK, Placed, Current
<1>3. StoredAll[Current] = inodes[name].len
  BY <1>2, StoredOf
<1>4. /\ new.at = "opened" /\ new.inode = name /\ new.slice = inodes[name].slice
      /\ new.had = inodes[name].len
  BY DEF Start
<1> HIDE DEF new
<1>5. Read(new) = Call("reading", Current, StoredAll[Current], 0, {})
  BY <1>2, <1>3, <1>4 DEF Read
<1>6. Read(new) = Register!Reading(Current, StoredAll[Current])
  BY <1>5 DEF Call, Register!Reading
<1>7. Register!Turn(r, Register!Reading(Current, StoredAll[Current]))
  BY <1>1, <1>6, ReaderTurns DEF IInv
<1>8. Reads[r].at = "idle"
  BY <1>1 DEF Reads, Read, Call
<1> QED BY <1>2, <1>7, <1>8 DEF Register!Open, Register!Nothing, NoSlice, Reads, StoredAll, Current

LEMMA ReaderExitsRefines ==
  ASSUME IInv, NEW r \in Readers, ReaderExits(r)
  PROVE  Register!Fail(r)
<1> DEFINE new == [Start EXCEPT !.at = "exited"]
<1>1. Turn(r, new) /\ readers[r].at \in {"idle", "opened"}
  BY DEF ReaderExits
<1>2. new.at = "exited"
  BY DEF Start
<1> HIDE DEF new
<1>3. Read(new) = Register!Failed
  BY <1>2 DEF Read, Call, Register!Failed, Register!Idle, Register!Nothing, NoSlice
<1>4. Register!Turn(r, Register!Failed)
  BY <1>1, <1>3, ReaderTurns DEF IInv
<1>5. Reads[r].at \in {"idle", "reading", "overtaken"}
  BY <1>1 DEF Reads, Read, Call
<1> QED BY <1>4, <1>5 DEF Register!Fail, Reads

\* Measuring and storing bytes are invisible.
LEMMA MeasureRefines ==
  ASSUME IInv, NEW r \in Readers, Measure(r)
  PROVE  UNCHANGED Register!vars
<1> DEFINE rd == readers[r]
           told == [rd EXCEPT !.at = "measured", !.len = File(r).len]
           failed == [rd EXCEPT !.at = "measured", !.cut = TRUE]
<1>1. rd.at = "opened" /\ rd \in Reader
  BY DEF Measure, IInv, TypeOK
<1>2. Turn(r, told) \/ Turn(r, failed)
  BY DEF Measure
<1>3. /\ told.at = "measured" /\ failed.at = "measured"
      /\ told.inode = rd.inode /\ told.slice = rd.slice /\ told.had = rd.had
      /\ failed.inode = rd.inode /\ failed.slice = rd.slice /\ failed.had = rd.had
  BY <1>1 DEF Reader
<1> HIDE DEF told, failed
<1>4. Read(told) = Read(rd) /\ Read(failed) = Read(rd)
  BY <1>1, <1>3 DEF Read
<1> QED BY <1>2, <1>4, ReaderTurns DEF IInv

LEMMA FreadRefines ==
  ASSUME IInv, NEW r \in Readers, Fread(r)
  PROVE  UNCHANGED Register!vars
<1> DEFINE rd == readers[r]
<1>1. PICK new \in Reader : /\ Turn(r, new) /\ new.at = "measured" /\ rd.at = "measured"
                            /\ new.inode = rd.inode /\ new.slice = rd.slice /\ new.had = rd.had
  BY Stores
<1>2. Read(new) = Read(rd)
  BY <1>1 DEF Read
<1> QED BY <1>1, <1>2, ReaderTurns DEF IInv

\* A reader that has been overtaken returns unseen.
LEMMA CloseReadRefines ==
  ASSUME IInv, NEW r \in Readers, CloseRead(r)
  PROVE  Register!Return(r) \/ UNCHANGED Register!vars
<1> DEFINE rd == readers[r]
<1>1. PICK new \in Reader :
        /\ Turn(r, new) /\ new.at = "done" /\ rd.at = "measured"
        /\ new.inode = rd.inode /\ new.slice = rd.slice /\ new.had = rd.had /\ new.len = rd.len
        /\ new.stored = rd.stored /\ new.from = rd.from
        /\ new.cut = (rd.cut \/ Available(r) # {})
        /\ new.moved = (inodes[rd.inode].slice # rd.slice)
  BY Closes
<1>2. Sound(rd) /\ rd.inode \in Write /\ inodes[rd.inode].len \in 0..MaxLen
  BY <1>1, Mover DEF Open
<1>3. rd.len \in 0..MaxLen /\ rd.stored \in 0..MaxLen /\ rd.had \in 0..MaxLen
  BY ReaderTypes DEF IInv
<1>4. CASE new.moved
  <2>1. Read(new) = Call("overtaken", NoSlice, 0, 0, {}) /\ Read(rd) = Call("overtaken", NoSlice, 0, 0, {})
    BY <1>1, <1>4 DEF Read
  <2> QED BY <1>1, <2>1, ReaderTurns DEF IInv
<1>5. CASE ~new.moved
  <2>1. Undisturbed(rd) /\ inodes[rd.inode].slice = rd.slice
    BY <1>1, <1>2, <1>5 DEF Sound
  <2>2. rd.from \X (1..rd.stored) = {rd.slice} \X (1..rd.stored)
    <3>1. CASE rd.stored = 0
      BY <3>1
    <3>2. CASE rd.stored # 0
      BY <1>3, <2>1, <3>2 DEF Undisturbed
    <3> QED BY <3>1, <3>2
  <2>3. rd.slice # NoSlice
    BY <1>2 DEF Sound, NoSlice
  <2>4. StoredAll[rd.slice] = inodes[rd.inode].len
    BY <1>2, <2>1, <2>3, StoredOf
  <2>5. Reads[r].at = "reading" /\ Reads[r].slice = rd.slice /\ Reads[r].least = rd.had
    BY <1>1, <2>1 DEF Reads, Read, Call
  <2>6. rd.stored \in 0..StoredAll[rd.slice]
    BY <1>2, <1>3, <2>1, <2>4, MaxLenAssumption DEF Undisturbed
  <2>7. CASE new.cut
    <3>1. Read(new) = Call("cut", rd.slice, rd.had, 0, {rd.slice} \X (1..rd.stored))
      BY <1>1, <1>5, <2>2, <2>7 DEF Read
    <3>2. Read(new) = Register!Cut(rd.slice, rd.had, rd.stored)
      BY <3>1 DEF Call, Register!Cut
    <3>3. Register!Turn(r, Register!Cut(rd.slice, rd.had, rd.stored))
      BY <1>1, <3>2, ReaderTurns DEF IInv
    <3> QED BY <2>5, <2>6, <3>3 DEF Register!Return, Reads, StoredAll
  <2>8. CASE ~new.cut
    <3>1. rd.stored + 1 \notin Available(r) /\ ~rd.cut
      BY <1>1, <2>8
    <3>2. rd.stored <= rd.len /\ rd.len <= inodes[rd.inode].len /\ rd.had <= rd.len
      BY <1>1, <2>1, <3>1 DEF Undisturbed
    <3>3. rd.stored = rd.len
      BY <1>2, <1>3, <3>1, <3>2, MaxLenAssumption DEF Available, File
    <3>4. Read(new) = Call("returned", rd.slice, rd.had, rd.len, {rd.slice} \X (1..rd.stored))
      BY <1>1, <1>5, <2>2, <2>8 DEF Read
    <3>5. Read(new) = Register!Returned(rd.slice, rd.had, rd.len)
      BY <3>3, <3>4 DEF Call, Register!Returned
    <3>6. Register!Turn(r, Register!Returned(rd.slice, rd.had, rd.len))
      BY <1>1, <3>5, ReaderTurns DEF IInv
    <3>7. rd.len \in rd.had..StoredAll[rd.slice]
      BY <1>2, <1>3, <2>4, <3>2, MaxLenAssumption
    <3> QED BY <2>5, <3>6, <3>7 DEF Register!Return, Reads, StoredAll
  <2> QED BY <2>7, <2>8
<1> QED BY <1>4, <1>5

LEMMA ReadAgainRefines ==
  ASSUME IInv, NEW r \in Readers, ReadAgain(r)
  PROVE  Register!Again(r)
<1>1. Turn(r, Start) /\ readers[r].at \in {"done", "exited"}
  BY DEF ReadAgain
<1>2. Reads[r].at \in {"returned", "cut", "failed", "overtaken"}
  BY <1>1 DEF Reads, Read, Call
<1>3. Read(Start) = Register!Idle
  BY DEF Read, Call, Start, Register!Idle, Register!Nothing, NoSlice
<1>4. Register!Turn(r, Register!Idle)
  BY <1>1, <1>3, ReaderTurns DEF IInv
<1> QED BY <1>2, <1>4 DEF Register!Again, Reads

LEMMA StepRefines ==
  ASSUME IInv, [Next]_vars
  PROVE  [Register!Next]_(Register!vars)
<1>1. CASE Remove \/ RemoveFails
  BY <1>1, BeginRefines DEF Register!Next
<1>2. CASE OpenToWrite
  BY <1>2, OpenToWriteRefines DEF Register!Next
<1>3. CASE Fwrite
  BY <1>3, FwriteRefines DEF Register!Next
<1>4. CASE CloseWritten \/ WriterDies \/ UNCHANGED vars
  <2>1. UNCHANGED <<writes, size, name, inodes, readers>>
    BY <1>4 DEF CloseWritten, WriterDies, vars
  <2>2. StoredAll' = StoredAll /\ Current' = Current /\ Reads' = Reads
    BY <2>1 DEF StoredAll, Stored, Current, Reads, Read
  <2> QED BY <2>1, <2>2 DEF Register!vars, StoredAll, Current, Reads
<1>5. ASSUME NEW r \in Readers, OpenToRead(r)
      PROVE  Register!Next
  BY <1>5, OpenToReadRefines DEF Register!Next
<1>6. ASSUME NEW r \in Readers, ReaderExits(r)
      PROVE  Register!Next
  BY <1>6, ReaderExitsRefines DEF Register!Next
<1>7. ASSUME NEW r \in Readers, Measure(r) \/ Fread(r)
      PROVE  UNCHANGED Register!vars
  BY <1>7, MeasureRefines, FreadRefines
<1>8. ASSUME NEW r \in Readers, CloseRead(r)
      PROVE  Register!Next \/ UNCHANGED Register!vars
  BY <1>8, CloseReadRefines DEF Register!Next
<1>9. ASSUME NEW r \in Readers, ReadAgain(r)
      PROVE  Register!Next
  BY <1>9, ReadAgainRefines DEF Register!Next
<1> QED BY <1>1, <1>2, <1>3, <1>4, <1>5, <1>6, <1>7, <1>8, <1>9 DEF Next

\* write_slice_to_file and read_file_to_slice implement the register of slices,
\* whichever of their calls fail: a read returns a beginning of the slice that
\* was there when it opened, unless that was overtaken in its file.
THEOREM FileImplementsRegister == Spec => ImplementsRegister
<1>1. Init => Register!Init
  BY InitRefines
<1>2. IInv /\ [Next]_vars => [Register!Next]_(Register!vars)
  BY StepRefines
<1> QED BY <1>1, <1>2, Invariance, PTL DEF Spec, ImplementsRegister, Register!Spec
=============================================================================
