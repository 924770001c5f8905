------------------------- MODULE ClientMemory_proof -------------------------
(* For every number of calls and items, every buffer size and every set of  *)
(* request lengths: the pointers the program holds are valid and unshared,  *)
(* nothing is freed twice, and exactly the decoded records, with what they  *)
(* refer to, are lost.                                                      *)
EXTENDS ClientMemory, TLAPS

LeakRole == {"schema", "iface", "record", "io"}
HeldRole == {"hdr", "buf", "text", "array"}
Leaked == {<<k, role, 0>> : k \in 1..calls, role \in LeakRole}

\* The live blocks are those in hand and those lost: HeldLive and LeakExact in
\* one equation, from which the heap after a step can be computed.
Accounted == heap.live = Held \cup Leaked

\* What is in hand was allocated by a call already made, in a role no call
\* releases: a new block is neither held nor lost.
HeldKnown == Held \subseteq (1..calls) \X HeldRole \X (0..MaxItems)

IInv == TypeOK /\ Accounted /\ HeldKnown /\ NoSharing /\ NoInvalid

USE MaxCallsAssumption, MaxItemsAssumption, BufferSizeAssumption,
    RequestLensAssumption, SizeTBytesAssumption

-----------------------------------------------------------------------------
(* The heap operators.                                                       *)

\* A heap with no block of the call being made.
Fresh(h) == \A b \in h.live : b[1] # n

\* init_schema leaves one new block, the schema, and frees only what is its own.
LEMMA InitSchemaEffect ==
  ASSUME NEW h \in [live : SUBSET Block, invalid : SUBSET Block], Fresh(h)
  PROVE  /\ InitSchema(h).live = h.live \cup {B("schema")}
         /\ InitSchema(h).invalid = h.invalid
<1> DEFINE hdr == B("schema_hdr")
           buf == B("schema_buf")
           sch == B("schema")
<1>1. hdr \notin h.live /\ buf \notin h.live /\ hdr # buf /\ sch # hdr /\ sch # buf
  BY DEF Fresh, B
<1>2. InitSchema(h) = FreeSlice(Alloc(h, {hdr, buf, sch}), hdr, buf)
  BY DEF InitSchema
<1> HIDE DEF hdr, buf, sch
<1>3. FreeSlice(Alloc(h, {hdr, buf, sch}), hdr, buf).live = h.live \cup {sch}
  BY <1>1 DEF FreeSlice, Alloc, Use, Free
<1>4. FreeSlice(Alloc(h, {hdr, buf, sch}), hdr, buf).invalid = h.invalid
  BY <1>1 DEF FreeSlice, Alloc, Use, Free
<1>5. sch = B("schema")
  BY DEF sch
<1> QED BY <1>2, <1>3, <1>4, <1>5

\* The blocks a codec call loses.
LostBy(k) == {<<k, role, 0>> : role \in LeakRole}

\* Every codec call adds the blocks it loses and the strings it decodes.
LEMMA RecordEffect ==
  ASSUME NEW h \in [live : SUBSET Block, invalid : SUBSET Block], Fresh(h), NEW texts
  PROVE  Record(h, texts)
           = [live |-> h.live \cup LostBy(n) \cup texts, invalid |-> h.invalid]
<1>1. Released(Dropped, texts) = {}
  BY DEF Released, Dropped
<1>2. InitSchema(h).live = h.live \cup {B("schema")} /\ InitSchema(h).invalid = h.invalid
  BY InitSchemaEffect
<1>3. NewRecord(h, texts)
        = [live |-> InitSchema(h).live \cup ({B("iface"), B("record"), B("io")} \cup texts),
           invalid |-> InitSchema(h).invalid]
  BY DEF NewRecord, Alloc
<1>4. Record(h, texts) = [live |-> NewRecord(h, texts).live, invalid |-> NewRecord(h, texts).invalid]
  BY <1>1 DEF Record, Free
<1>5. LostBy(n) = {B("schema"), B("iface"), B("record"), B("io")}
  BY DEF LostBy, LeakRole, B
<1>6. NewRecord(h, texts).live = h.live \cup LostBy(n) \cup texts
  BY <1>2, <1>3, <1>5
<1>7. NewRecord(h, texts).invalid = h.invalid
  BY <1>2, <1>3
<1> QED BY <1>4, <1>6, <1>7

\* The same with the blocks the call then allocates for its result.
LEMMA RecordThenAlloc ==
  ASSUME NEW h \in [live : SUBSET Block, invalid : SUBSET Block], Fresh(h),
         NEW texts, NEW out
  PROVE  Alloc(Record(h, texts), out)
           = [live |-> h.live \cup LostBy(n) \cup texts \cup out, invalid |-> h.invalid]
<1> DEFINE r == Record(h, texts)
<1>1. r = [live |-> h.live \cup LostBy(n) \cup texts, invalid |-> h.invalid]
  BY RecordEffect
<1> HIDE DEF r
<1>2. r.live = h.live \cup LostBy(n) \cup texts /\ r.invalid = h.invalid
  BY <1>1
<1>3. Alloc(r, out) = [live |-> r.live \cup out, invalid |-> r.invalid]
  BY DEF Alloc
<1> QED BY <1>2, <1>3 DEF r

-----------------------------------------------------------------------------
(* The steps.                                                                *)

\* Before a call no block of its number exists, live or in hand.
LEMMA NewBlocks ==
  ASSUME IInv, Calling
  PROVE  /\ n \in 1..MaxCalls
         /\ Fresh(heap)
         /\ \A b \in Held : b[1] # n
         /\ LostBy(n) \subseteq Block
<1>1. calls \in Nat /\ n = calls + 1 /\ n \in 1..MaxCalls
  BY DEF IInv, TypeOK, Calling, n
<1>2. \A b \in Held : b[1] # n
  <2> SUFFICES ASSUME NEW b \in Held PROVE b[1] # n
    OBVIOUS
  <2>1. b \in (1..calls) \X HeldRole \X (0..MaxItems)
    BY DEF IInv, HeldKnown
  <2> QED BY <2>1, <1>1
<1>3. \A b \in Leaked : b[1] # n
  BY <1>1 DEF Leaked
<1>4. Fresh(heap)
  BY <1>2, <1>3 DEF Fresh, IInv, Accounted
<1>5. LostBy(n) \subseteq Block
  BY <1>1 DEF LostBy, Block, LeakRole, Role
<1> QED BY <1>1, <1>2, <1>4, <1>5

\* So what a call does to the heap is what RecordThenAlloc says.
LEMMA CallEffect ==
  ASSUME IInv, Calling, NEW texts, NEW out
  PROVE  Alloc(Record(heap, texts), out)
           = [live |-> heap.live \cup LostBy(n) \cup texts \cup out, invalid |-> heap.invalid]
<1>1. heap \in [live : SUBSET Block, invalid : SUBSET Block] /\ Fresh(heap)
  BY NewBlocks DEF IInv, TypeOK
<1> QED BY <1>1, RecordThenAlloc

\* The lost blocks after one more call.
LEMMA LeakedGrows ==
  ASSUME IInv, calls' = n
  PROVE  Leaked' = Leaked \cup LostBy(n)
<1>1. calls \in Nat /\ calls' = calls + 1 /\ n = calls + 1
  BY DEF IInv, TypeOK, n
<1>2. 1..(calls + 1) = 1..calls \cup {calls + 1}
  BY <1>1
<1> QED BY <1>1, <1>2 DEF Leaked, LostBy

\* The blocks in hand when a slice is added.
LEMMA HeldAddSlice ==
  ASSUME NEW s, slices' = slices \cup {s}, arrays' = arrays
  PROVE  Held' = Held \cup {s.hdr, s.buf}
BY DEF Held, Blocks, ArrayBlocks

\* The blocks in hand when an array is added.
LEMMA HeldAddArray ==
  ASSUME NEW a, arrays' = arrays \cup {a}, slices' = slices
  PROVE  Held' = Held \cup ArrayBlocks(a)
BY DEF Held, Blocks, ArrayBlocks

\* exit changes nothing the invariant looks at but the reason.
LEMMA ExitStep ==
  ASSUME IInv, NEW reason \in Reason, Exit(reason)
  PROVE  IInv'
BY DEF IInv, TypeOK, Accounted, HeldKnown, NoSharing, NoInvalid, Exit, Held,
       Leaked, Blocks, ArrayBlocks

\* The blocks a call may put in the program's hands.
NewHeld == {n} \X HeldRole \X (0..MaxItems)

\* What every completed codec call does to the heap, whatever it hands out:
\* the records of the call are lost and the blocks handed out are live.
Completes(out) ==
    /\ calls' = n
    /\ heap' = [live |-> heap.live \cup LostBy(n) \cup out, invalid |-> heap.invalid]
    /\ exited' = exited

\* The part of the invariant that does not depend on what was handed out.
LEMMA CompletesHeap ==
  ASSUME IInv, Calling, NEW out \in SUBSET NewHeld, Completes(out), Held' = Held \cup out
  PROVE  /\ calls' \in 0..MaxCalls
         /\ heap' \in [live : SUBSET Block, invalid : SUBSET Block]
         /\ Accounted' /\ HeldKnown' /\ NoInvalid'
<1>1. calls \in Nat /\ n = calls + 1 /\ calls' = n /\ n \in 1..MaxCalls
  BY NewBlocks DEF IInv, TypeOK, n, Completes
<1>2. out \subseteq Block
  BY <1>1 DEF NewHeld, Block, HeldRole, Role
<1>3. heap' \in [live : SUBSET Block, invalid : SUBSET Block]
  BY <1>2, NewBlocks DEF IInv, TypeOK, Completes
<1>4. Accounted'
  BY <1>1, LeakedGrows DEF IInv, Accounted, Completes
<1>5. HeldKnown'
  <2>1. out \subseteq (1..n) \X HeldRole \X (0..MaxItems)
    BY <1>1 DEF NewHeld
  <2>2. Held \subseteq (1..n) \X HeldRole \X (0..MaxItems)
    BY <1>1 DEF IInv, HeldKnown
  <2> QED BY <1>1, <2>1, <2>2 DEF HeldKnown
<1>6. NoInvalid'
  BY DEF IInv, NoInvalid, Completes
<1> QED BY <1>1, <1>3, <1>4, <1>5, <1>6

\* A call that hands out a slice of two new blocks.
LEMMA SliceAdded ==
  ASSUME IInv, Calling, NEW s \in Slice, Blocks(s) \subseteq NewHeld, s.hdr # s.buf,
         Completes(Blocks(s)), slices' = slices \cup {s},
         UNCHANGED <<arrays, neighbour>>
  PROVE  IInv'
<1>1. Held' = Held \cup Blocks(s)
  BY HeldAddSlice DEF Blocks
<1>2. /\ calls' \in 0..MaxCalls
      /\ heap' \in [live : SUBSET Block, invalid : SUBSET Block]
      /\ Accounted' /\ HeldKnown' /\ NoInvalid'
  BY <1>1, CompletesHeap
<1>3. TypeOK'
  BY <1>2 DEF IInv, TypeOK, Completes
<1>4. Blocks(s) \cap Held = {}
  BY NewBlocks DEF NewHeld
<1>5. NoSharing'
  BY <1>4 DEF IInv, NoSharing, Held
<1> QED BY <1>2, <1>3, <1>5 DEF IInv

\* A call that hands out an array of new blocks.
LEMMA ArrayAdded ==
  ASSUME IInv, Calling, NEW a \in Array, ArrayBlocks(a) \subseteq NewHeld,
         a.block \cap a.names = {},
         Completes(ArrayBlocks(a)), arrays' = arrays \cup {a}, slices' = slices,
         neighbour' \in {"intact", "overwritten"}
  PROVE  IInv'
<1>1. Held' = Held \cup ArrayBlocks(a)
  BY HeldAddArray
<1>2. /\ calls' \in 0..MaxCalls
      /\ heap' \in [live : SUBSET Block, invalid : SUBSET Block]
      /\ Accounted' /\ HeldKnown' /\ NoInvalid'
  BY <1>1, CompletesHeap
<1>3. TypeOK'
  BY <1>2 DEF IInv, TypeOK, Completes
<1>4. ArrayBlocks(a) \cap Held = {}
  BY NewBlocks DEF NewHeld
<1>5. NoSharing'
  BY <1>4 DEF IInv, NoSharing, Held
<1> QED BY <1>2, <1>3, <1>5 DEF IInv

\* What the builders end with, for any slice of their own two blocks.
LEMMA ReturnSliceStep ==
  ASSUME IInv, Calling, NEW s \in Slice, s.hdr = B("hdr"), s.buf = B("buf"),
         ReturnSlice(heap, s)
  PROVE  IInv'
<1>1. CASE Exit("oversize") \/ Exit("malloc(0)")
  BY <1>1, ExitStep DEF Reason
<1>2. CASE ~(Exit("oversize") \/ Exit("malloc(0)"))
  <2>1. Alloc(Record(heap, {}), {s.hdr, s.buf})
          = [live |-> heap.live \cup LostBy(n) \cup {s.hdr, s.buf}, invalid |-> heap.invalid]
    <3>1. Alloc(Record(heap, {}), {s.hdr, s.buf})
            = [live |-> heap.live \cup LostBy(n) \cup {} \cup {s.hdr, s.buf},
               invalid |-> heap.invalid]
      BY CallEffect
    <3>2. heap.live \cup LostBy(n) \cup {} = heap.live \cup LostBy(n)
      OBVIOUS
    <3> QED BY <3>1, <3>2
  <2>2. Completes(Blocks(s)) /\ slices' = slices \cup {s} /\ UNCHANGED <<arrays, neighbour>>
    BY <1>2, <2>1 DEF ReturnSlice, Completes, Blocks
  <2>3. Blocks(s) \subseteq NewHeld /\ s.hdr # s.buf
    BY DEF Blocks, NewHeld, B, HeldRole
  <2> QED BY <2>2, <2>3, SliceAdded
<1> QED BY <1>1, <1>2

\* The slice of a builder has the right type.
LEMMA NewSliceType ==
  ASSUME IInv, Calling, NEW form \in Form,
         NEW kind \in MessageKind, NEW len \in Nat, NEW items \in 0..MaxItems
  PROVE  /\ NewSlice(form, kind, len, items) \in Slice
         /\ NewSlice(form, kind, len, items).hdr = B("hdr")
         /\ NewSlice(form, kind, len, items).buf = B("buf")
<1>1. B("hdr") \in Block /\ B("buf") \in Block
  BY NewBlocks DEF B, Block, Role
<1> QED BY <1>1 DEF NewSlice, Slice

LEMMA PersonStep ==
  ASSUME IInv, BuildPerson
  PROVE  IInv'
<1>1. PICK len \in RequestLens["PERSON"] :
        ReturnSlice(heap, NewSlice("person", "PERSON", len, 0))
  BY DEF BuildPerson
<1>2. len \in Nat /\ 0 \in 0..MaxItems /\ "person" \in Form /\ "PERSON" \in MessageKind
  BY DEF MessageKind, Form
<1> QED BY <1>1, <1>2, NewSliceType, ReturnSliceStep DEF BuildPerson

LEMMA BuildStep ==
  ASSUME IInv, Calling, NEW kind \in MsgType, Build(kind)
  PROVE  IInv'
<1>1. PICK len \in RequestLens[kind] : ReturnSlice(heap, NewSlice("request", kind, len, 0))
  BY DEF Build
<1>2. len \in Nat /\ 0 \in 0..MaxItems /\ "request" \in Form /\ kind \in MessageKind
  BY DEF MessageKind, Form
<1> QED BY <1>1, <1>2, NewSliceType, ReturnSliceStep

\* Reading a slice the program holds is no invalid use.
LEMMA UseHeld ==
  ASSUME IInv, NEW s \in slices
  PROVE  Use(heap, Blocks(s)) = heap
<1>1. Blocks(s) \subseteq heap.live
  BY DEF IInv, Accounted, Held, Blocks
<1> QED BY <1>1 DEF Use, IInv, TypeOK

LEMMA WrapStep ==
  ASSUME IInv, BuildHnpRequestWrapper
  PROVE  IInv'
<1>1. PICK s \in slices : ReturnSlice(Use(heap, Blocks(s)), Wrapped(s))
  BY DEF BuildHnpRequestWrapper
<1>2. s.kind \in MessageKind /\ s.len \in Nat /\ "wrapper" \in Form
  BY DEF IInv, TypeOK, Slice, Form
<1>3. WrapperLen(s.len) \in Nat /\ 0 \in 0..MaxItems
  BY <1>2 DEF WrapperLen, LongBytes
<1>4. ReturnSlice(heap, Wrapped(s))
  BY <1>1, UseHeld
<1> QED BY <1>2, <1>3, <1>4, NewSliceType, ReturnSliceStep DEF BuildHnpRequestWrapper, Wrapped

LEMMA RespondStep ==
  ASSUME IInv, Calling, NEW kind \in MsgType, Respond(kind)
  PROVE  IInv'
<1>1. PICK items \in 0..MaxItems :
        ReturnSlice(heap, NewSlice("response", kind,
                             IF kind \in ArrayKind THEN 1 + items ELSE 0, items))
  BY DEF Respond
<1>2. /\ (IF kind \in ArrayKind THEN 1 + items ELSE 0) \in Nat
      /\ "response" \in Form /\ kind \in MessageKind
  BY DEF Form, MessageKind
<1> QED BY <1>1, <1>2, NewSliceType, ReturnSliceStep

\* The peer's unwrapping: the text of the request becomes the slice's buffer.
LEMMA UnwrapStep ==
  ASSUME IInv, ParseHnpRequestWrapper
  PROVE  IInv'
<1> DEFINE text == <<n, "text", 1>>
           new(kind, len) == [NewSlice("request", kind, len, 0) EXCEPT !.buf = text]
<1>1. PICK kind \in MsgType :
        \E w \in Reads("wrapper", kind) : \E len \in RequestLens[kind] :
          /\ heap' = Alloc(Record(Use(heap, Blocks(w)), {text}), {new(kind, len).hdr})
          /\ slices' = slices \cup {new(kind, len)}
  BY DEF ParseHnpRequestWrapper
<1>2. PICK w \in slices, len \in RequestLens[kind] :
        /\ heap' = Alloc(Record(Use(heap, Blocks(w)), {text}), {new(kind, len).hdr})
        /\ slices' = slices \cup {new(kind, len)}
  BY <1>1 DEF Reads
<1> DEFINE s == new(kind, len)
<1>3. Use(heap, Blocks(w)) = heap
  BY UseHeld
<1>4. s \in Slice /\ s.hdr = B("hdr") /\ s.buf = text
  <2>1. B("hdr") \in Block /\ text \in Block
    BY NewBlocks DEF B, Block, Role, ParseHnpRequestWrapper
  <2>2. len \in Nat /\ 0 \in 0..MaxItems
    BY DEF MessageKind
  <2> QED BY <2>1, <2>2 DEF NewSlice, Slice, Form, MessageKind
<1>5. Blocks(s) \subseteq NewHeld /\ s.hdr # s.buf
  BY <1>4 DEF Blocks, NewHeld, B, HeldRole
<1>6. heap' = [live |-> heap.live \cup LostBy(n) \cup {text} \cup {s.hdr},
               invalid |-> heap.invalid]
  <2>1. heap' = Alloc(Record(heap, {text}), {s.hdr})
    BY <1>2, <1>3
  <2>2. Calling
    BY DEF ParseHnpRequestWrapper
  <2> HIDE DEF s, text
  <2> QED BY <2>1, <2>2, CallEffect
<1>7. Completes(Blocks(s))
  BY <1>4, <1>6 DEF Completes, Blocks, ParseHnpRequestWrapper
<1> QED BY <1>2, <1>4, <1>5, <1>7, SliceAdded DEF ParseHnpRequestWrapper

\* The array parsers: the host names are strings of the lost record.
LEMMA ParseArrayStep ==
  ASSUME IInv, Calling, NEW kind \in ArrayKind, ParseArray(kind)
  PROVE  IInv'
<1>1. PICK s \in slices :
        LET names == NamesRead(kind, s.items)
            block == IF s.items = 0 THEN {} ELSE {B("array")}
        IN  /\ calls' = n
            /\ heap' = Alloc(Record(Use(heap, Blocks(s)), names), block)
            /\ arrays' = arrays \cup {[kind |-> kind, block |-> block, names |-> names]}
            /\ StoreSize
            /\ UNCHANGED <<slices, exited>>
  BY DEF ParseArray, Reads
<1> DEFINE names == NamesRead(kind, s.items)
           block == IF s.items = 0 THEN {} ELSE {B("array")}
           a == [kind |-> kind, block |-> block, names |-> names]
<1>2. s.items \in 0..MaxItems
  BY DEF IInv, TypeOK, Slice
<1>3. names \subseteq {n} \X {"text"} \X (0..MaxItems)
  BY <1>2 DEF NamesRead, Texts
<1>4. block \subseteq {n} \X {"array"} \X (0..MaxItems)
  BY DEF B
<1>5. ArrayBlocks(a) \subseteq NewHeld /\ a.block \cap a.names = {}
  BY <1>3, <1>4 DEF NewHeld, HeldRole, ArrayBlocks
<1>6. a \in Array
  <2>1. NewHeld \subseteq Block
    BY NewBlocks DEF NewHeld, Block, HeldRole, Role
  <2>2. block \subseteq Block /\ names \subseteq Block
    BY <1>5, <2>1 DEF ArrayBlocks
  <2> QED BY <2>2 DEF Array
<1> HIDE DEF names, block
<1>7. heap' = [live |-> heap.live \cup LostBy(n) \cup names \cup block, invalid |-> heap.invalid]
  <2>1. heap' = Alloc(Record(heap, names), block)
    BY <1>1, UseHeld DEF names, block
  <2> QED BY <2>1, CallEffect
<1>8. Completes(ArrayBlocks(a))
  BY <1>1, <1>7 DEF Completes, ArrayBlocks
<1>9. /\ arrays' = arrays \cup {a} /\ slices' = slices
      /\ neighbour' \in {"intact", "overwritten"}
  BY <1>1 DEF names, block, StoreSize, IInv, TypeOK
<1> QED BY <1>5, <1>6, <1>8, <1>9, ArrayAdded

\* A call that hands out nothing.
LEMMA NothingAdded ==
  ASSUME IInv, Calling, Completes({}), UNCHANGED <<slices, arrays, neighbour>>
  PROVE  IInv'
<1>1. Held' = Held \cup {}
  BY DEF Held, Blocks, ArrayBlocks
<1>2. /\ calls' \in 0..MaxCalls
      /\ heap' \in [live : SUBSET Block, invalid : SUBSET Block]
      /\ Accounted' /\ HeldKnown' /\ NoInvalid'
  BY <1>1, CompletesHeap
<1>3. TypeOK'
  BY <1>2 DEF IInv, TypeOK, Completes
<1>4. NoSharing'
  BY DEF IInv, NoSharing, Blocks, ArrayBlocks
<1> QED BY <1>2, <1>3, <1>4 DEF IInv

\* The parsers of a status or a number hand out nothing.
LEMMA ParseStatusStep ==
  ASSUME IInv, Calling, NEW form, NEW kind, ParseStatus(form, kind)
  PROVE  IInv'
<1>1. PICK s \in slices :
        /\ calls' = n
        /\ heap' = Record(Use(heap, Blocks(s)), {})
        /\ UNCHANGED <<slices, arrays, neighbour, exited>>
  BY DEF ParseStatus, Reads
<1>2. heap' = Record(heap, {})
  BY <1>1, UseHeld
<1>3. Record(heap, {}) = [live |-> heap.live \cup LostBy(n), invalid |-> heap.invalid]
  <2>1. Record(heap, {}) = [live |-> heap.live \cup LostBy(n) \cup {}, invalid |-> heap.invalid]
    BY RecordEffect, NewBlocks DEF IInv, TypeOK
  <2> QED BY <2>1
<1>4. Completes({})
  BY <1>1, <1>2, <1>3 DEF Completes
<1> QED BY <1>1, <1>4, NothingAdded

\* The diagnostics of a finish request: a string of the lost record.
LEMMA ParseFinishRequestStep ==
  ASSUME IInv, ParseFinishRequest
  PROVE  IInv'
<1> DEFINE a == [kind |-> "FINISH", block |-> {}, names |-> Texts(1)]
<1>1. PICK s \in slices : heap' = Record(Use(heap, Blocks(s)), Texts(1))
  BY DEF ParseFinishRequest, Reads
<1>2. heap' = Record(heap, Texts(1))
  BY <1>1, UseHeld
<1>3. heap' = [live |-> heap.live \cup LostBy(n) \cup Texts(1), invalid |-> heap.invalid]
  BY <1>2, RecordEffect, NewBlocks DEF IInv, TypeOK, ParseFinishRequest
<1>4. Texts(1) \subseteq {n} \X {"text"} \X (0..MaxItems)
  BY DEF Texts
<1>5. ArrayBlocks(a) = Texts(1) /\ a.block \cap a.names = {}
  BY DEF ArrayBlocks
<1>6. Texts(1) \subseteq NewHeld
  BY <1>4 DEF NewHeld, HeldRole
<1>7. a \in Array
  <2>1. NewHeld \subseteq Block
    BY NewBlocks DEF NewHeld, Block, HeldRole, Role, ParseFinishRequest
  <2> QED BY <1>6, <2>1 DEF Array
<1>8. Completes(ArrayBlocks(a))
  BY <1>3, <1>5 DEF Completes, ParseFinishRequest
<1>9. /\ arrays' = arrays \cup {a} /\ slices' = slices
      /\ neighbour' \in {"intact", "overwritten"}
  BY DEF ParseFinishRequest, IInv, TypeOK
<1> HIDE DEF a
<1> QED BY <1>5, <1>6, <1>7, <1>8, <1>9, ArrayAdded DEF ParseFinishRequest

\* The name parse_person prints and frees is a string of its own record.
LEMMA ParsePersonStep ==
  ASSUME IInv, ParsePerson
  PROVE  IInv'
<1> DEFINE name == Texts(1)
<1>1. PICK s \in slices :
        heap' = Free(Use(Record(Use(heap, Blocks(s)), name), name), name)
  BY DEF ParsePerson, Reads
<1>2. Record(Use(heap, Blocks(s)), name)
        = [live |-> heap.live \cup LostBy(n) \cup name, invalid |-> heap.invalid]
  BY UseHeld, RecordEffect, NewBlocks DEF IInv, TypeOK, ParsePerson
<1>3. name \cap (heap.live \cup LostBy(n)) = {}
  BY NewBlocks DEF Texts, Fresh, LostBy, LeakRole, ParsePerson
<1> HIDE DEF name
<1>4. heap' = [live |-> heap.live \cup LostBy(n), invalid |-> heap.invalid]
  <2> DEFINE h == Record(Use(heap, Blocks(s)), name)
  <2>1. h.live = heap.live \cup LostBy(n) \cup name /\ h.invalid = heap.invalid
    BY <1>2
  <2> HIDE DEF h
  <2>2. Free(Use(h, name), name)
          = [live |-> h.live \ name, invalid |-> h.invalid \cup (name \ h.live) \cup (name \ h.live)]
    BY DEF Free, Use
  <2>3. h.live \ name = heap.live \cup LostBy(n) /\ name \ h.live = {}
    BY <2>1, <1>3
  <2>4. h.invalid \cup {} \cup {} = heap.invalid
    BY <2>1
  <2>5. heap' = Free(Use(h, name), name)
    BY <1>1 DEF h
  <2> QED BY <2>2, <2>3, <2>4, <2>5
<1>5. heap.live \cup LostBy(n) = heap.live \cup LostBy(n) \cup {}
  OBVIOUS
<1>6. Completes({})
  BY <1>4, <1>5 DEF Completes, ParsePerson
<1> QED BY <1>6, NothingAdded DEF ParsePerson

\* Giving a slice back frees its two blocks, which nothing else uses.
LEMMA FreeSliceStep ==
  ASSUME IInv, FreeHeldSlice
  PROVE  IInv'
<1>1. PICK s \in slices : heap' = FreeSlice(heap, s.hdr, s.buf) /\ slices' = slices \ {s}
  BY DEF FreeHeldSlice
<1>2. UNCHANGED <<calls, arrays, neighbour, exited>>
  BY DEF FreeHeldSlice
<1>3. s.hdr \in heap.live /\ s.buf \in heap.live /\ s.hdr # s.buf
  BY DEF IInv, Accounted, Held, Blocks, NoSharing
<1>4. heap'.live = heap.live \ Blocks(s) /\ heap'.invalid = heap.invalid
  BY <1>1, <1>3 DEF FreeSlice, Free, Use, Blocks
<1>5. Held' = Held \ Blocks(s)
  <2>1. \A t \in slices : t # s => Blocks(t) \cap Blocks(s) = {}
    BY DEF IInv, NoSharing
  <2>2. \A a \in arrays : ArrayBlocks(a) \cap Blocks(s) = {}
    BY DEF IInv, NoSharing
  <2> QED BY <1>1, <1>2, <2>1, <2>2 DEF Held, Blocks, ArrayBlocks
<1>6. Leaked' = Leaked /\ Leaked \cap Held = {}
  <2>1. Leaked' = Leaked
    BY <1>2 DEF Leaked
  <2>2. \A b \in Leaked : b[2] \notin HeldRole
    BY DEF Leaked, LeakRole, HeldRole
  <2>3. \A b \in Held : b[2] \in HeldRole
    BY DEF IInv, HeldKnown
  <2> QED BY <2>1, <2>2, <2>3
<1>7. Accounted'
  <2>1. Blocks(s) \subseteq Held
    BY DEF Held
  <2> QED BY <1>4, <1>5, <1>6, <2>1 DEF IInv, Accounted
<1>8. HeldKnown'
  BY <1>2, <1>5 DEF IInv, HeldKnown
<1>9. NoSharing' /\ NoInvalid'
  BY <1>1, <1>2, <1>4 DEF IInv, NoSharing, NoInvalid, Blocks, ArrayBlocks
<1>10. TypeOK'
  <2>1. heap' = [live |-> heap'.live, invalid |-> heap'.invalid]
    BY <1>1 DEF FreeSlice, Free
  <2>2. heap' \in [live : SUBSET Block, invalid : SUBSET Block]
    BY <1>4, <2>1 DEF IInv, TypeOK
  <2> QED BY <1>1, <1>2, <2>2 DEF IInv, TypeOK
<1> QED BY <1>7, <1>8, <1>9, <1>10 DEF IInv

\* Giving an array back frees it and the names in it.
LEMMA FreeArrayStep ==
  ASSUME IInv, NEW kind, FreeArray(kind)
  PROVE  IInv'
<1>1. PICK a \in arrays :
        /\ heap' = Free(Free(Use(heap, a.block), a.names), a.block)
        /\ arrays' = arrays \ {a}
  BY DEF FreeArray
<1>2. UNCHANGED <<calls, slices, neighbour, exited>>
  BY DEF FreeArray
<1>3. ArrayBlocks(a) \subseteq Held
  BY DEF Held
<1>4. a.block \subseteq heap.live /\ a.names \subseteq heap.live /\ a.block \cap a.names = {}
  BY <1>3 DEF IInv, Accounted, ArrayBlocks, NoSharing
<1>5. heap'.live = heap.live \ ArrayBlocks(a) /\ heap'.invalid = heap.invalid
  BY <1>1, <1>4 DEF Free, Use, ArrayBlocks
<1>6. Held' = Held \ ArrayBlocks(a)
  <2>1. \A b \in arrays : b # a => ArrayBlocks(b) \cap ArrayBlocks(a) = {}
    BY DEF IInv, NoSharing
  <2>2. \A s \in slices : Blocks(s) \cap ArrayBlocks(a) = {}
    BY DEF IInv, NoSharing
  <2> QED BY <1>1, <1>2, <2>1, <2>2 DEF Held, Blocks, ArrayBlocks
<1>7. Leaked' = Leaked /\ Leaked \cap Held = {}
  <2>1. Leaked' = Leaked
    BY <1>2 DEF Leaked
  <2>2. \A b \in Leaked : b[2] \notin HeldRole
    BY DEF Leaked, LeakRole, HeldRole
  <2>3. \A b \in Held : b[2] \in HeldRole
    BY DEF IInv, HeldKnown
  <2> QED BY <2>1, <2>2, <2>3
<1>8. Accounted'
  BY <1>3, <1>5, <1>6, <1>7 DEF IInv, Accounted
<1>9. HeldKnown'
  BY <1>2, <1>6 DEF IInv, HeldKnown
<1>10. NoSharing' /\ NoInvalid'
  BY <1>1, <1>2, <1>5 DEF IInv, NoSharing, NoInvalid, Blocks
<1>11. TypeOK'
  <2>1. heap' = [live |-> heap'.live, invalid |-> heap'.invalid]
    BY <1>1 DEF Free
  <2>2. heap' \in [live : SUBSET Block, invalid : SUBSET Block]
    BY <1>5, <2>1 DEF IInv, TypeOK
  <2> QED BY <1>1, <1>2, <2>2 DEF IInv, TypeOK
<1> QED BY <1>8, <1>9, <1>10, <1>11 DEF IInv

-----------------------------------------------------------------------------
(* The theorems.                                                             *)

\* Nothing is allocated or held at the start.
LEMMA InitIInv == Init => IInv
<1> SUFFICES ASSUME Init PROVE IInv
  OBVIOUS
<1>1. Held = {} /\ Leaked = {}
  BY DEF Init, Held, Leaked
<1> QED BY <1>1 DEF Init, IInv, TypeOK, Accounted, HeldKnown, NoSharing, NoInvalid,
                    HeapEmpty, Reason

\* Every action of the API preserves the invariant.
LEMMA NextIInv == IInv /\ [Next]_vars => IInv'
<1> SUFFICES ASSUME IInv, [Next]_vars PROVE IInv'
  OBVIOUS
<1>1. CASE BuildRegisterRequest
  BY <1>1, BuildStep DEF BuildRegisterRequest, MsgType
<1>2. CASE BuildHeartbeatRequest
  BY <1>2, BuildStep DEF BuildHeartbeatRequest, MsgType
<1>3. CASE BuildAllocateRequest
  BY <1>3, BuildStep DEF BuildAllocateRequest, MsgType
<1>4. CASE BuildFinishRequest
  BY <1>4, BuildStep DEF BuildFinishRequest, MsgType
<1>5. CASE BuildLaunchRequest
  BY <1>5, BuildStep DEF BuildLaunchRequest, MsgType
<1>6. CASE BuildHnpRequestWrapper
  BY <1>6, WrapStep
<1>7. CASE BuildRegisterResponse
  BY <1>7, RespondStep DEF BuildRegisterResponse, MsgType
<1>8. CASE BuildFinishResponse
  BY <1>8, RespondStep DEF BuildFinishResponse, MsgType
<1>9. CASE BuildAllocateResponse
  BY <1>9, RespondStep DEF BuildAllocateResponse, MsgType
<1>10. CASE BuildLaunchResponse
  BY <1>10, RespondStep DEF BuildLaunchResponse, MsgType
<1>11. CASE BuildHeartbeatResponse
  BY <1>11, RespondStep DEF BuildHeartbeatResponse, MsgType
<1>12. CASE ParseHnpRequestWrapper
  BY <1>12, UnwrapStep
<1>13. CASE ParseAllocateResponse
  BY <1>13, ParseArrayStep DEF ParseAllocateResponse, ArrayKind
<1>14. CASE ParseLaunchResponse
  BY <1>14, ParseArrayStep DEF ParseLaunchResponse, ArrayKind
<1>15. CASE ParseHeartbeatResponse
  BY <1>15, ParseArrayStep DEF ParseHeartbeatResponse, ArrayKind
<1>16. CASE ParseRegisterResponse
  BY <1>16, ParseStatusStep DEF ParseRegisterResponse
<1>17. CASE ParseFinishResponse
  BY <1>17, ParseStatusStep DEF ParseFinishResponse
<1>18. CASE FreeHeldSlice
  BY <1>18, FreeSliceStep
<1>19. CASE FreeNodeResourceArray
  BY <1>19, FreeArrayStep DEF FreeNodeResourceArray
<1>20. CASE FreeLaunchResponseArray
  BY <1>20, FreeArrayStep DEF FreeLaunchResponseArray
<1>21. CASE FreeCompletedProcArray
  BY <1>21, FreeArrayStep DEF FreeCompletedProcArray
<1>22. CASE EnvironmentExit \/ ReadFails
  BY <1>22, ExitStep DEF EnvironmentExit, ReadFails, Reason
<1>23. CASE ParseRegisterRequest \/ ParseHeartbeatRequest \/ ParseAllocateRequest
  BY <1>23, ParseStatusStep DEF ParseRegisterRequest, ParseHeartbeatRequest, ParseAllocateRequest
<1>24. CASE ParseFinishRequest
  BY <1>24, ParseFinishRequestStep
<1>25. CASE BuildPerson
  BY <1>25, PersonStep
<1>26. CASE ParsePerson
  BY <1>26, ParsePersonStep
<1>27. CASE FreeDiagnostics
  BY <1>27, FreeArrayStep DEF FreeDiagnostics
<1>28. CASE UNCHANGED vars
  BY <1>28 DEF vars, IInv, TypeOK, Accounted, HeldKnown, NoSharing, NoInvalid, Held,
               Leaked, Blocks, ArrayBlocks
<1> QED BY <1>1, <1>2, <1>3, <1>4, <1>5, <1>6, <1>7, <1>8, <1>9, <1>10, <1>11, <1>12,
           <1>13, <1>14, <1>15, <1>16, <1>17, <1>18, <1>19, <1>20, <1>21, <1>22, <1>23,
           <1>24, <1>25, <1>26, <1>27, <1>28
        DEF Next

\* The invariant holds in every state of every run.
THEOREM Invariance == Spec => []IInv
BY InitIInv, NextIInv, PTL DEF Spec

\* The variables keep their types whatever the program calls.
THEOREM TypeCorrect == Spec => []TypeOK
<1>1. IInv => TypeOK
  BY DEF IInv
<1> QED BY <1>1, Invariance, PTL

\* No slice or array the program holds ever dangles, however calls and
\* releases are ordered.
THEOREM HeldAlwaysLive == Spec => []HeldLive
<1>1. IInv => HeldLive
  BY DEF IInv, Accounted, HeldLive
<1> QED BY <1>1, Invariance, PTL

\* No two things the program holds ever share a block.
THEOREM NeverShared == Spec => []NoSharing
<1>1. IInv => NoSharing
  BY DEF IInv
<1> QED BY <1>1, Invariance, PTL

\* The API never frees a block twice nor reads a freed one, provided each
\* slice and array is given back at most once.
THEOREM NeverInvalid == Spec => []NoInvalid
<1>1. IInv => NoInvalid
  BY DEF IInv
<1> QED BY <1>1, Invariance, PTL

\* The memory lost is exactly four objects per completed call.
THEOREM LeakIsExact == Spec => []LeakExact
<1>1. IInv => LeakExact
  <2> SUFFICES ASSUME IInv PROVE LeakExact
    OBVIOUS
  <2>1. \A b \in Leaked : b[2] \notin HeldRole
    BY DEF Leaked, LeakRole, HeldRole
  <2>2. \A b \in Held : b[2] \in HeldRole
    BY DEF IInv, HeldKnown
  <2>3. heap.live \ Held = Leaked
    BY <2>1, <2>2 DEF IInv, Accounted
  <2> QED BY <2>3 DEF LeakExact, Leaked, LeakRole
<1> QED BY <1>1, Invariance, PTL
=============================================================================
