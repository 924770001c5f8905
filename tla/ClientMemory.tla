---------------------------- MODULE ClientMemory ----------------------------
(* Ownership of heap blocks across the whole API of libhamster_avro, for a  *)
(* single-threaded program that links it: the HNP, or one of the programs   *)
(* under src/test, which also play the peer.  The program may make any      *)
(* sequence of calls on the slices and arrays it holds.  Each call is one   *)
(* action that goes through every allocation and release of the function,   *)
(* in order.  Message contents are left to the Codec and Exchange modules;  *)
(* here a message is its kind, its encoded length and its number of items.  *)
(* Launch contexts, which the caller allocates, are in module Launch.       *)
EXTENDS CMemory, WireLength, FiniteSets

CONSTANTS
    MaxCalls,    \* bound: calls that allocate, in one life of the program
    MaxItems,    \* bound: items in the array of a response
    BufferSize,  \* BUFFER_SIZE of constants.h, 8192 in the code
    RequestLens, \* bound: encoded lengths a request of each kind may have
    SizeTBytes   \* sizeof(size_t): 4 or 8; sizeof(int) is 4

MsgType == {"ALLOCATE", "LAUNCH", "REGISTER", "FINISH", "HEARTBEAT"}
MessageKind == MsgType \cup {"PERSON"}   \* with the example of bak/person.c
ArrayKind == {"ALLOCATE", "LAUNCH", "HEARTBEAT"}

ASSUME MaxCallsAssumption == MaxCalls \in Nat
ASSUME MaxItemsAssumption == MaxItems \in Nat \ {0}
ASSUME BufferSizeAssumption == BufferSize \in Nat
ASSUME RequestLensAssumption == RequestLens \in [MessageKind -> SUBSET Nat]
ASSUME SizeTBytesAssumption == SizeTBytes \in {4, 8}

VARIABLES
    calls,      \* number of allocating calls made so far
    heap,       \* the C heap, see CMemory
    slices,     \* the avro_slice_t's the program holds
    arrays,     \* the result arrays the program holds
    neighbour,  \* the word after the caller's int array_size
    exited      \* "no", or why exit(1) ended the program

vars == <<calls, heap, slices, arrays, neighbour, exited>>

-----------------------------------------------------------------------------
(* Values.                                                                   *)

Role == {"schema_hdr", "schema_buf", "schema", "iface", "record", "io",
         "text", "hdr", "buf", "array"}
Block == (1..MaxCalls) \X Role \X (0..MaxItems)

\* The call being made; one of its blocks; the first k strings it decodes.
n == calls + 1
B(role) == <<n, role, 0>>
Texts(k) == {<<n, "text", i>> : i \in 1..k}

\* An avro_slice_t: its two blocks and what is encoded in the buffer.
Form == {"request", "wrapper", "response", "person"}
Slice == [hdr: Block, buf: Block, form: Form, kind: MessageKind, len: Nat,
          items: 0..MaxItems]

\* What a parser handed out: a parsed array, absent when the pointer is NULL,
\* and the strings its items point to; or the diagnostics of a finish request.
Array == [kind: ArrayKind \cup {"FINISH"}, block: SUBSET Block, names: SUBSET Block]

Reason == {"no", "environment", "unreadable", "oversize", "malloc(0)"}

Blocks(s) == {s.hdr, s.buf}
ArrayBlocks(a) == a.block \cup a.names
Held == (UNION {Blocks(s) : s \in slices}) \cup (UNION {ArrayBlocks(a) : a \in arrays})

-----------------------------------------------------------------------------
(* The common parts of the calls, as functions of the heap.                  *)

\* Mutant of InitSchema: the slice with the text of the schema is kept.
InitSchemaKeepsText(h) ==
    Alloc(h, {B("schema_hdr"), B("schema_buf"), B("schema")})

\* init_schema: read the file into a slice, build the schema, free the slice.
InitSchema(h) ==
    FreeSlice(Alloc(h, {B("schema_hdr"), B("schema_buf"), B("schema")}),
              B("schema_hdr"), B("schema_buf"))

\* The class, the record (with the strings decoded into it) and the reader
\* or writer.
NewRecord(h, texts) ==
    Alloc(InitSchema(h), {B("iface"), B("record"), B("io")} \cup texts)

\* Drop the caller's references.  The record holds a reference to its class
\* and the class one to its schema, so each goes only after its holder.
\* Freeing the record frees the strings it owns.
Released(dropped, texts) ==
    (IF "io" \in dropped THEN {B("io")} ELSE {})
    \cup (IF "record" \in dropped THEN {B("record")} \cup texts ELSE {})
    \cup (IF {"record", "iface"} \subseteq dropped THEN {B("iface")} ELSE {})
    \cup (IF {"record", "iface", "schema"} \subseteq dropped
             THEN {B("schema")} ELSE {})

\* Mutant of Dropped: the commented-out release of the record is put back.
DroppedWithRecord == {"record", "iface", "schema"}

\* The references a call drops: neither the record nor the reader or writer.
Dropped == {"iface", "schema"}

Record(h, texts) == Free(NewRecord(h, texts), Released(Dropped, texts))

NewSlice(form, kind, len, items) ==
    [hdr |-> B("hdr"), buf |-> B("buf"),
     form |-> form, kind |-> kind, len |-> len, items |-> items]

-----------------------------------------------------------------------------
(* exit(1).  The process is gone: the rest of its state no longer matters.   *)

Running == exited = "no"
Calling == Running /\ calls < MaxCalls

Exit(reason) ==
    /\ exited' = reason
    /\ UNCHANGED <<calls, heap, slices, arrays, neighbour>>

\* A call finds no schema file, cannot parse it, or malloc fails.
EnvironmentExit == Calling /\ Exit("environment")

-----------------------------------------------------------------------------
(* Builders.                                                                 *)

\* What every builder ends with, h being the heap so far: refuse what does not fit buf[BUFFER_SIZE],
\* then copy buf to a slice of exactly the encoded length.  malloc(0), for an
\* empty message, may return NULL, which xmalloc takes for a failure.
ReturnSlice(h, s) ==
    \/ s.len > BufferSize /\ Exit("oversize")
    \/ s.len = 0 /\ Exit("malloc(0)")
    \/ /\ s.len <= BufferSize
       /\ calls' = n
       /\ heap' = Alloc(Record(h, {}), {s.hdr, s.buf})
       /\ slices' = slices \cup {s}
       /\ UNCHANGED <<arrays, neighbour, exited>>

Build(kind) == \E len \in RequestLens[kind] : ReturnSlice(heap, NewSlice("request", kind, len, 0))

BuildRegisterRequest == Calling /\ Build("REGISTER")
BuildHeartbeatRequest == Calling /\ Build("HEARTBEAT")
BuildAllocateRequest == Calling /\ Build("ALLOCATE")
BuildFinishRequest == Calling /\ Build("FINISH")
BuildLaunchRequest == Calling /\ Build("LAUNCH")

BuildPerson ==
    /\ Calling
    /\ \E len \in RequestLens["PERSON"] :
         ReturnSlice(heap, NewSlice("person", "PERSON", len, 0))

\* Mutant of Wrapped: the wrapper is built in the buffer of the request.
WrappedInPlace(s) ==
    [NewSlice("wrapper", s.kind, WrapperLen(s.len), 0) EXCEPT !.buf = s.buf]

\* build_hnp_request_wrapper copies the request into a record of its own, so
\* the inner slice stays the caller's.
Wrapped(s) == NewSlice("wrapper", s.kind, WrapperLen(s.len), 0)

BuildHnpRequestWrapper ==
    /\ Calling
    /\ \E s \in slices : s.form = "request" /\ ReturnSlice(Use(heap, Blocks(s)), Wrapped(s))

\* The peer's builders.  A response with an array has at least its end byte.
Respond(kind) ==
    \E items \in 0..MaxItems :
        /\ kind \in ArrayKind \/ items = 0
        /\ ReturnSlice(heap, NewSlice("response", kind,
                                IF kind \in ArrayKind THEN 1 + items ELSE 0, items))

BuildRegisterResponse == Calling /\ Respond("REGISTER")
BuildFinishResponse == Calling /\ Respond("FINISH")
BuildAllocateResponse == Calling /\ Respond("ALLOCATE")
BuildLaunchResponse == Calling /\ Respond("LAUNCH")
BuildHeartbeatResponse == Calling /\ Respond("HEARTBEAT")

-----------------------------------------------------------------------------
(* Parsers.                                                                  *)

Reads(form, kind) == {s \in slices : s.form = form /\ s.kind = kind}

\* avro_value_read fails on bytes that are no encoding of the schema.
ReadFails == Calling /\ slices # {} /\ Exit("unreadable")

\* parse_hnp_request_wrapper, the peer: the header of the slice is its own,
\* the buffer is the one the record keeps.
ParseHnpRequestWrapper ==
    /\ Calling
    /\ \E kind \in MsgType : \E w \in Reads("wrapper", kind) :
         \E len \in RequestLens[kind] :
           LET text == <<n, "text", 1>>
               s == [NewSlice("request", kind, len, 0) EXCEPT !.buf = text]
           IN  /\ WrapperLen(len) = w.len
               /\ heap' = Alloc(Record(Use(heap, Blocks(w)), {text}), {s.hdr})
               /\ slices' = slices \cup {s}
    /\ calls' = n
    /\ UNCHANGED <<arrays, neighbour, exited>>

\* avro_value_get_size stores a size_t through the caller's int *: what is
\* next to that int is overwritten where size_t is wider, unless it is padding.
StoreSize == neighbour' \in IF SizeTBytes > 4 THEN {neighbour, "overwritten"}
                                              ELSE {neighbour}

\* Mutant of NamesRead: the loop over the items runs one too far.
NamesReadPastEnd(kind, items) == IF kind = "ALLOCATE" THEN Texts(items + 1) ELSE {}

\* The strings read by call n that end up in the result: only a node
\* resource has one, the host name, and the record keeps its ownership.
NamesRead(kind, items) == IF kind = "ALLOCATE" THEN Texts(items) ELSE {}

ParseArray(kind) ==
    \E s \in Reads("response", kind) :
      LET names == NamesRead(kind, s.items)
          block == IF s.items = 0 THEN {} ELSE {B("array")}
      IN  /\ calls' = n
          /\ heap' = Alloc(Record(Use(heap, Blocks(s)), names), block)
          /\ arrays' = arrays \cup {[kind |-> kind, block |-> block, names |-> names]}
          /\ StoreSize
          /\ UNCHANGED <<slices, exited>>

ParseAllocateResponse == Calling /\ ParseArray("ALLOCATE")
ParseLaunchResponse == Calling /\ ParseArray("LAUNCH")
ParseHeartbeatResponse == Calling /\ ParseArray("HEARTBEAT")

\* The parsers that hand out no block: a status or a number is returned.
ParseStatus(form, kind) ==
    \E s \in Reads(form, kind) :
      /\ calls' = n
      /\ heap' = Record(Use(heap, Blocks(s)), {})
      /\ UNCHANGED <<slices, arrays, neighbour, exited>>

ParseRegisterResponse == Calling /\ ParseStatus("response", "REGISTER")
ParseFinishResponse == Calling /\ ParseStatus("response", "FINISH")

\* The peer's.
ParseRegisterRequest == Calling /\ ParseStatus("request", "REGISTER")
ParseHeartbeatRequest == Calling /\ ParseStatus("request", "HEARTBEAT")
ParseAllocateRequest == Calling /\ ParseStatus("request", "ALLOCATE")

\* The diagnostics, a string of the record, are the caller's to free.
ParseFinishRequest ==
    /\ Calling
    /\ \E s \in Reads("request", "FINISH") : heap' = Record(Use(heap, Blocks(s)), Texts(1))
    /\ arrays' = arrays \cup {[kind |-> "FINISH", block |-> {}, names |-> Texts(1)]}
    /\ calls' = n
    /\ UNCHANGED <<slices, neighbour, exited>>

\* parse_person drops its references, then prints the name and frees it.
ParsePerson ==
    /\ Calling
    /\ \E s \in Reads("person", "PERSON") :
         heap' = Free(Use(Record(Use(heap, Blocks(s)), Texts(1)), Texts(1)), Texts(1))
    /\ calls' = n
    /\ UNCHANGED <<slices, arrays, neighbour, exited>>

-----------------------------------------------------------------------------
(* Releases, of what the program holds.                                      *)

FreeHeldSlice ==
    /\ Running
    /\ \E s \in slices : /\ heap' = FreeSlice(heap, s.hdr, s.buf)
                         /\ slices' = slices \ {s}
    /\ UNCHANGED <<calls, arrays, neighbour, exited>>

\* The names are read from the array, freed one by one, and then the array.
FreeArray(kind) ==
    /\ Running
    /\ \E a \in arrays :
         /\ a.kind = kind
         /\ heap' = Free(Free(Use(heap, a.block), a.names), a.block)
         /\ arrays' = arrays \ {a}
    /\ UNCHANGED <<calls, slices, neighbour, exited>>

FreeNodeResourceArray == FreeArray("ALLOCATE")
FreeLaunchResponseArray == FreeArray("LAUNCH")
FreeCompletedProcArray == FreeArray("HEARTBEAT")

\* free(diag_result), in the peer.
FreeDiagnostics == FreeArray("FINISH")

-----------------------------------------------------------------------------
Init ==
    /\ calls = 0
    /\ heap = HeapEmpty
    /\ slices = {}
    /\ arrays = {}
    /\ neighbour = "intact"
    /\ exited = "no"

Next ==
    \/ BuildRegisterRequest
    \/ BuildHeartbeatRequest
    \/ BuildAllocateRequest
    \/ BuildFinishRequest
    \/ BuildLaunchRequest
    \/ BuildHnpRequestWrapper
    \/ BuildRegisterResponse
    \/ BuildFinishResponse
    \/ BuildAllocateResponse
    \/ BuildLaunchResponse
    \/ BuildHeartbeatResponse
    \/ ParseHnpRequestWrapper
    \/ ParseAllocateResponse
    \/ ParseLaunchResponse
    \/ ParseHeartbeatResponse
    \/ ParseRegisterResponse
    \/ ParseFinishResponse
    \/ ParseRegisterRequest
    \/ ParseHeartbeatRequest
    \/ ParseAllocateRequest
    \/ ParseFinishRequest
    \/ BuildPerson
    \/ ParsePerson
    \/ FreeHeldSlice
    \/ FreeNodeResourceArray
    \/ FreeLaunchResponseArray
    \/ FreeCompletedProcArray
    \/ FreeDiagnostics
    \/ EnvironmentExit
    \/ ReadFails

Spec == Init /\ [][Next]_vars

-----------------------------------------------------------------------------
(* Properties.                                                               *)

\* Types of the variables.
TypeOK ==
    /\ calls \in 0..MaxCalls
    /\ heap \in [live : SUBSET Block, invalid : SUBSET Block]
    /\ slices \subseteq Slice
    /\ arrays \subseteq Array
    /\ neighbour \in {"intact", "overwritten"}
    /\ exited \in Reason

\* Every pointer the program got from the API and has not given back points
\* to live memory: what a call releases on its way out is never part of what
\* it returns.  The host names of a parsed allocation belong to the decoded
\* record, so this rests on the record being left alive.
HeldLive == Held \subseteq heap.live

\* No block is reachable from two of the slices and arrays the program holds:
\* giving one back leaves every other one usable.  In particular a wrapper
\* is independent of the request that was wrapped, and an unwrapped request
\* of the wrapper it was read from.
NoSharing ==
    /\ \A s \in slices : s.hdr # s.buf
    /\ \A a \in arrays : a.block \cap a.names = {}
    /\ \A s, t \in slices : s # t => Blocks(s) \cap Blocks(t) = {}
    /\ \A a, b \in arrays :
         (ArrayBlocks(a) \cap ArrayBlocks(b) # {} => a = b)
    /\ \A s \in slices, a \in arrays : Blocks(s) \cap ArrayBlocks(a) = {}

\* No sequence of calls frees a block twice, frees a block of somebody else's
\* or reads a block after it was freed.
NoInvalid == heap.invalid = {}

\* What is lost for good is exactly the record, its class, its schema and the
\* reader or writer of every call made: nothing more (the schema text read
\* from the file and the strings handed out are all given back), and nothing
\* less, however much the program frees.
LeakExact ==
    heap.live \ Held =
        {<<k, role, 0>> : k \in 1..calls, role \in {"schema", "iface", "record", "io"}}

\* A parser writes nothing of the caller's but its out parameters.
NeighbourIntact == neighbour = "intact"
=============================================================================
