# A verification project for hamster-avro

hamster-avro is a small C library that lets the head node process (HNP) of an
MPI job talk to the application master that runs it on a cluster. It turns C
arguments into Avro messages and Avro messages into C arrays. This directory
holds TLA+ modules that model it, configurations that check them with TLC, and
proofs checked with TLAPS.

## Inventory

Every function reads a schema file, makes an Avro class and record from it,
fills or decodes the record, and hands the caller blocks it must free. There is
no global state; what state there is lives in the caller's pointers, the heap
and the files.

| Component | Source | State | Operations |
|---|---|---|---|
| slices, files, allocation | `src/common.c` | slices on the heap; files | `xmalloc`, `free_slice`, `init_schema`, `read_file_to_slice`, `write_slice_to_file` |
| register, finish | `src/register.c`, `src/finish.c` | none kept | build a request, parse a status |
| heartbeat, allocate | `src/heartbeat.c`, `src/allocate.c` | arrays handed out | build a request, parse an array, free it |
| launch | `src/launch.c` | the caller's launch contexts, whose pointers it moves | build a request, parse an array, free either |
| request wrapper | `src/hnp_request_wrapper.c` | none kept | wrap a request with its type |
| schemas | `schema/*.avsc` | files, read anew by every call | |
| the peer | `test/*.c` | none kept | the parsers of requests and builders of responses |
| reference counts | `avro/refcount.h` | an int shared by threads, one of five builds | set, increment, decrement |
| value interface | `avro/value.h` | the methods a class of values has | the `avro_value_*` macros, through which every builder and parser goes |
| rest of avro-c | the other `avro/*.h` | record contents | external |
| person example | `bak/person.*` | none kept | build and parse a record of three fields |
| earlier schemas | `schema/Copy of *.avsc` | five files that once stood, or may stand, where the schemas are | |

How they interact: the HNP builds a request and wraps it; something that is not
in the repository carries the bytes; the peer unwraps, dispatches on the type,
parses, and answers with a response that has no type and is parsed by the
function for the type the HNP is waiting for. Errors (a file that is missing, a
message that does not fit its buffer or cannot be read, no memory) end the
process with `exit(1)`.

What is hard here:

- *ownership*: results that point into records that are never released, a
  release that depends on pointers an earlier call has moved;
- *boundaries*: a fixed buffer, a wrapper that adds bytes, an empty encoding,
  `size_t` stored through `int *`;
- *agreement in order and position*: untagged responses, enum ordinals against
  schema symbols, fields copied one by one in both directions;
- *files*: a length taken before the bytes are read, a file replaced while it
  is read, a writer that dies, calls whose failure nobody looks at; a schema
  file of another version than the one the calls were written for;
- *calls nobody checks*: every `avro_value_*` macro may give EINVAL and leave
  the local it should have set as it was, and no builder or parser looks;
- *threads*: the library keeps no state and starts none, but the reference
  counts of the schemas and classes it is given are made for threads: a test
  for -1 and an atomic instruction, with other threads in between.

PROJECT.json lists these at their lines under "hazards".

What makes each component correct: a parser inverts its builder; nothing is
read or freed after it was freed, whatever the order of calls; what is lost is
known exactly; a wrapped request comes out with its type; requests and replies
are calls and returns; a file gives back one slice or a beginning of it, and it
is known which failures spoil that; the
calls on a record do together what the message is meant to be, and what a wrong
schema makes of them is known; a count is the number of references, and the
object goes with the last.

## Modules

| Module | Models | State and actions |
|---|---|---|
| `SharedObject` | what a reference count promises | `holder` of each reference, `state` of the object |
| `Refcount` | `avro/refcount.h`, access by access | `build` chooses among plain, atomic and PPC; `count` is the int, `at` and `reg` where each thread is in the two functions and what it loaded. Implements `SharedObject` |
| `ValueCalls` | the macros of `avro/value.h`, and each builder and parser as the calls it makes | `record` under construction, `locals` the places its `avro_value_t` variables refer to, `todo` the calls left, `schema` what the file held, besides the state of `MessageForms`; one action per kind of call, one for a call that fails and one for a call on a local never set |
| `CMemory` | malloc, free, dereference, `free_slice` | pure operators on a record of live blocks and of invalid accesses |
| `WireLength` | the length of a wrapped message | pure operators |
| `ClientMemory` | who owns which block, across the API | `heap` is the C heap, `slices` and `arrays` what the program holds, `neighbour` the word beside the caller's `int array_size`, `exited` the reason of `exit(1)`. One action per function, which goes through its allocations and releases in order: the library's, the test programs' request parsers and response builders, and `bak/person.c` |
| `Launch` | launch contexts | `cursor` is how far `en_vars_array` of each context was moved; actions build, parse, print (the loop of `test/launch_request_test.c`) and free |
| `AvroBinary` | avro-c's encoding (external) | `Encode` and `Decode` of a schema; varints, blocks and lists of parts are recursive functions, and the levels of a schema are one operator each (`Encode_1`, `Decode_1`, ...: no schema here goes deeper than an array in a record in an array in a record) |
| `Schemas` | `schema/*.avsc`, `bak/person.schema` | one value per file the code opens, and per earlier version that differs |
| `Codec` | every builder and parser, under its C name | functions between C values and bytes |
| `MessageForms` | what each builder is given | `form` is the message, `arg` the argument of its builder, an array growing item by item; `Built` and `Parsed` are its builder and parser in `Codec` |
| `RoundTrip` | builder, then parser | the state of `MessageForms` |
| `HnpCalls` | the calls | request types, the arguments they take (launch contexts before or after their strings were sent) and the replies they get |
| `HnpRpc` | what the library promises: remote calls | histories `sent`, `got`, `replied`, `results` |
| `Messages` | the dispatch on the type of a message | chooses the builder and parser of `Codec` |
| `CodecContract` | what a conversation asks of the builders and parsers it uses | `CodecInverts` |
| `Exchange` | HNP and peer exchanging encoded messages | `outstanding` requests, channels `toPeer` and `toHnp`, `cursor`, `exited`, and the histories of `HnpRpc`, which it implements. Builders and parsers are constants; `MC_Exchange` gives them those of `Messages` |
| `SliceRegister` | what a slice file promises its readers | `current` slice, bytes `stored` of each, the calls of the readers, which may be cut short by an error or overtaken by a later slice |
| `SliceFile` | `write_slice_to_file` against `read_file_to_slice` | `name` is the inode the file name stands for, `inodes` their contents, `writer` and `readers` where each is; one action per system call, with those that may fail: `RemoveFails`, after which `OpenToWrite` empties the file that is there; `fseek` (`Measure`) and `fread` (`CloseRead` before all is read), both unnoticed; `fopen` and `malloc` (`ReaderExits`, `WriterDies`). `kept` remembers the inodes a failing remove has left. Implements `SliceRegister` |
| `*_proof` | theorems of `ClientMemory`, `Launch`, `SliceFile`, `Refcount`, `Exchange`, `AvroBinary`, `RoundTrip`, `ValueCalls` | |
| `MC_*` | instances for TLC | |

In `ClientMemory` and `Launch` a block is named after the call that allocated
it, so a stale pointer is never mistaken for a new block. In `Codec` a text is
a sequence of bytes and an array of structs a sequence of records. A call that
ends in `exit(1)` ends the process, so its half-done work is not in the heap.

## Runs

| Run | Question | Instance |
|---|---|---|
| `client_memory` | Can a sequence of calls touch freed memory, alias two results, or lose other blocks than known? | 4 allocating calls: build, wrap, unwrap and one more; arrays of up to 2 items; requests that are empty, short, exactly too long to wrap, and too long |
| `neighbour` (violated) | Do parsers write only to their out parameters? | the same, with 8-byte `size_t` |
| `launch` | What do build, print and free do to the strings, in any order? | 2 arrays, as one may be parsed from the other's request |
| `launch_free` (violated) | Does freeing an array free its strings? | the same |
| `round_trip` | Does each parser invert its builder, and refuse a message cut short? | integers on both sides of the second varint byte, empty and non-empty texts, diagnostics that fill the buffer exactly and miss the wrapper by one |
| `exchange` | Are pipelined, encoded, untagged messages the calls of `HnpRpc`? Is each answered? | 3 requests, 2 in flight: a launch and its retry with something between, two replies of different types under way |
| `exchange_status` (violated) | Can a registration be reported as accepted? | the same |
| `value_calls` | What do the calls of each builder and parser do, with the schema in use or the earlier one on either side? | arrays of 2 elements, so that a local can be left over from the first; environments of 0 and 2 strings; 2 integers and 2 texts, so that a field can be taken for its neighbour; a buffer that holds two launch contexts with environments, except for those with the longest texts |
| `refcount` | Can threads lose a reference, free twice, too early or never? Is the count a `SharedObject`? | 3 threads, an int of 6 values; 4 references in the atomic build, one fewer than brings the count to -1, and 5 in the plain one, which do |
| `refcount_race` (violated) | Does the check keep an atomic count from wrapping? | 2 threads, an int of 4 values, 4 references |
| `refcount_never` (violated) | Does the PPC count free anything? | 2 threads, 3 references |
| `slice_file` | Can a read mix slices, return bytes nobody stored, or fewer than there were, and which failures does it take? Is the file a `SliceRegister`? | 3 slices of up to 2 bytes, 1 reader: it can be two replacements behind, have its file emptied twice, and be cut between bytes. No reader changes what the writer or another reader looks at, so one shows what many would; the proofs are for any number |

The buffer is 8192 bytes in the code. The instances shrink it together with the
messages, so that a message that just fits, one that just does not, and a
request that fits but whose wrapper does not, all occur. Nothing in the models
depends on the number except where a length takes one more byte.

No run checks for deadlock: each instance stops at its bounds, and a process
that called `exit(1)` takes no further step.

What a reader of a slice file can count on has conditions, because the code
looks at no status but that of `fopen` and `malloc`. `PrefixOfOne` and
`WholeIfOpenedWhole` say nothing of a reader that was `Overtaken`: its file was
given to a later slice, and that takes a `remove` that failed
(`src/common.c:63`), as the name then still stands for that file and
`fopen(filename, "w")` empties it. Such a reader may return bytes of two slices,
or fewer than its buffer has. A reader whose own `fseek` or `fread` failed
(`src/common.c:16`, `21`) has bytes of one slice only, but not all it should;
one whose calls succeeded has every byte of its buffer. `SliceRegister` allows
exactly that, as its calls `Cut` and `Overtaken`. Without either condition TLC
finds both properties violated.

The violated runs show what the code does against what its own text says:

- `NeighbourIntact`: three parsers pass `int *` to `avro_value_get_size`, which
  stores a `size_t` (`avro/value.h:204-205`).
- `FreeReleasesStrings`: `build_launch_request` leaves `en_vars_array` at the
  terminating NULL, and `free_launch_context_array`, called right after it in
  `test/launch_request_test.c:153-154`, then finds no string to free.
- `RegistrationAccepted`: `parse_register_response` returns 0 only for a record
  without fields, which `schema/RegisterResponseRecordAvro.avsc` is not; the
  comment beside it has the opposite condition.
- `NoOverflow`: `avro_refcount_inc` is said to ensure that the value does not
  overflow (`avro/refcount.h:41-42`). The atomic builds compare with -1 first
  and add in a second access: two threads that find -2 bring the count past -1,
  to 0, with every reference held. It takes 2^32 - 2 references; below that
  number (`Enough`) the run `refcount` and the proofs find nothing wrong.
- `Reclaimed`: the PPC build gives `lwarx` and `stwcx.` the address of its
  parameter (`avro/refcount.h:209`, `225`), so the count never changes and no
  object is freed.

## Fairness

Only `Answered` needs any. `FairSpec` of `Exchange` says that each process
keeps taking the messages that have arrived for it until it exits: the calls of
the library do not block or wait for anything but the file system, so a program
that loops over its input gets to each message. Nothing is assumed of the
sending of requests. The condition is stated as fairness of taking a message
(`HnpTakes`, `PeerTakes`), which is the first conjunct of `Receive` and
`Handle`; the rest of these actions has an outcome for every message.

The channels are reliable and first-in first-out. That is an assumption about
the caller, who has the connection: the protocol has no sequence numbers and no
retransmission, so nothing else would let a program match replies to requests.

## Proofs

For all values of the constants under the assumptions stated with them (bounds
are natural numbers, `size_t` has 4 or 8 bytes):

- `ClientMemory_proof`: `TypeOK`, `HeldLive`, `NoSharing`, `NoInvalid`,
  `LeakExact`. `HeldLive` alone is not inductive, since a release could take a
  block away from another holder. The invariant `IInv` adds `NoSharing` and
  `Accounted`: the live blocks are exactly those held and those lost by
  completed calls, and every block held belongs to a completed call and has a
  role that no call loses. A call then works on blocks of its own number, which
  are fresh, and a release removes exactly one holder's blocks.
- `Launch_proof`: `TypeOK`, `EnvsSentOnce`, `NoInvalid`, `LostStrings`. The
  invariant adds that the cursors of one array are all at the start or all at
  the end, that they are at the end once a request was built, and which blocks
  of an array are live in each of its states.
- `SliceFile_proof`: `TypeOK`, `PrefixOfOne`, `WholeIfOpenedWhole`, and
  `ImplementsRegister`, whichever calls fail. `Placed` says that a slice is in
  one inode only, and that when the name is to be opened for writing it stands
  for no file or for one in `kept`. So from one step to the next an inode in use
  either keeps its slice and does not shrink, or goes to a later slice and is in
  `kept` (`Grows`): slices are numbered upwards, so a reader's inode that holds
  the slice it opened has held it all the time. `Sound` says what a reader may
  count on as long as that is so (`Undisturbed`: its bytes are of that slice,
  and no more than it measured, which is no more than there are), and `Finished`
  what is left of that when it has returned. For the refinement, `StoredOf` says
  that what is stored of a slice is the length of the one inode that holds it,
  and `LeftAlone` that this changes with that inode only.
- `Refcount_proof`: `TypeOK` and `LastFrees` for every build; `CountExact`,
  `NoUseAfterFree` and `ImplementsObject` for those of `Enough`: the plain one,
  and the atomic ones with fewer references than an int can count, whatever the
  width of the int and the number of threads. `CountExact` is not inductive:
  the check for -1 is old when the instruction comes. The invariant adds
  `Pending` (while a counted thread is past its check the count cannot come to
  -1, and its own reference stays), `Loaded` and `Alone` (what the plain build
  has in a register is the count, as only one thread uses the object), `Places`,
  `Last` (a thread told to free is the only one inside, and nobody holds a
  reference) and `Freeing` (somebody is on the way to free what nobody holds).
  `PPCNeverFrees` proves what the run `refcount_never` shows once.
- `Exchange_proof`: `AlwaysReadable` and `ImplementsRpc`, for any arguments,
  contexts, replies and bounds, and for every codec under the assumption
  `CodecInverts`: a parser gets what its builder was given, and a request comes
  out of its wrapper with its type. A response names no type, so the invariant has to say what is in the
  queues: as long as a process has not exited, the messages under way to it are
  those of the requests not yet handled (`Requests`) or of the replies not yet
  returned (`Responses`), in order, and the types the HNP waits for are those of
  the requests not returned (`Awaiting`). `Strings` says that the pointers of
  all contexts are at the start until a LAUNCH is sent and at the end after.
  The assumption holds of the code's builders and parsers: TLC evaluates it
  before the run `exchange` for the arguments of the instance, and
  `CodecKeepsContract` proves it of all arguments (below).
- `AvroBinary_proof`: `EncodingIsRead` and `DecodingIsValue`. A value of a
  schema, encoded and followed by any bytes, is read back as that value and
  those bytes are left; no proper beginning of its encoding can be read (`Codes`
  is the two together, which is what makes it go through by parts: a part cut
  short makes the whole fail). The definitions recur over numbers, lists and
  bytes, and the library's induction theorems cannot be used, so the module
  first proves `Induction` and `Recursion` of sets and functions, from
  well-founded minima: for every function that recurs on a smaller measure there
  is one with that equation, hence each of `Varint`, `ReadVarint`, `Concat`,
  `ReadAll` and `ReadArray` satisfies its own. Then come varints and zigzag,
  parts one after the other, arrays in blocks, scalars, and the four levels of a
  schema. `DecodingIsValue` is the other direction, for bytes that nobody need
  have written: what is read by a schema, if it can be, is a value of that
  schema, a record with every field and an array of values of its items. The
  last part lists the schemas in use and what their values are, enums included,
  which go to the wire as numbers and come back as names (`OrdinalIs`).
- `RoundTrip_proof`: `ParseInvertsBuild`, `TruncationRefused`,
  `WrapInvertsUnwrap`, `SymbolsAgree`, for all sets of integers, of texts,
  diagnostics and vectors of strings, for arrays of any length, and for any
  buffer below 2^20 bytes, the lengths that the three bytes of `LongBytes`
  cover; the code's have 8192. The invariant is the type of the argument (`Inv`:
  an array is a sequence of the structs of its message). For each message a
  lemma says that what its builder sets is a value of its schema, so
  `EncodingIsRead` applies, and another that what the getters take out of the
  value is what the setters put in. `CodecKeepsContract` concludes with
  `CodecInverts` for these builders and parsers, for any arguments, contexts and
  replies of the types of the C headers (`CallsAreTyped`): the conversation
  proved over any codec is proved over the one in the code.
- `ValueCalls_proof`: every invariant of the run `value_calls`: `BuildsMessage`,
  `CallsSucceed`, `ParsesMessage`, `UndefinedIsEnvironment`,
  `StatusTellsSchema`, `NothingUnset`. A builder or parser makes a number of
  calls that depends on the arrays it is given, on locals that each call may
  point elsewhere, so the state alone does not say what is still to be done. The
  module first shows what a store at one place leaves at the others
  (`StoredPlace`, `StaysPlace`). Then `Run` says that the calls that are left,
  whatever they are, can only take the state to a given one. Of a builder,
  `Turns` says that they turn the record from one value to another wherever the
  locals stood; of a parser, `Gets` says that they read a record and take what
  is stored from one value to another, and with which status they may end. There
  is a rule for each kind of call, for one sequence of calls after another, and
  for an array filled or read element by element (`ArrayTurns`, `FillGets`,
  `ParseArrayGets`). From these each builder and each parser gets its lemma,
  with the schema of its message and with the earlier ones, where some of its
  calls fail and the rest go on: `Recorded` is what a builder then leaves in its
  record, and `Outcome` what a parser stores. The invariant `CallInv`
  (`CallsRun`) is that the calls left are a run to that record (`BuildRuns`) or
  to that outcome (`ParseRuns`), and that the message handed over is what some
  builder wrote (`Handed`); `CallFollows` shows that the step taken is the one
  the run says. The parser may have another schema than the builder had, so what
  it reads is known to be a value of its schema by `DecodingIsValue` only, not
  by who wrote it. One builder has no run to any record: that of a launch
  request with an environment and the earlier schema (`Overfull`). Of it
  `BoundToFail` says that no local it needs can be set (`Astray`) and that a
  call on one is still to come. What is assumed of `Garbage`, what an unset
  variable holds, is that it is no number and no place (`GarbageAssumption`)
  and, as each of these tells stored from unset, no struct or member of one
  (`UnsetAssumption`).

All but `AvroBinary_proof` have the shape Init => IInv, IInv /\ [Next]_vars =>
IInv' (one lemma or step per action, with the common part of the calls in lemmas
of their own), IInv => the property, and PTL for the last step. The three
refinements (`Refcount` to `SharedObject`, `SliceFile` to `SliceRegister`,
`Exchange` to `HnpRpc`) show with the same invariant that each step is one of
the abstract specification or a stutter.

Only model-checked: `Answered`, as liveness under fairness is out of the
prover's reach. Every other property of the passing runs is stated by a theorem
above. The theorems about bytes are about values of the C types as the model has
them: an integer is any integer, so the width of `int` is not in them, and
zigzag is the arithmetic one.

## What is left out

- avro-c itself. Assumed: `get_string` and `get_bytes` return pointers into the
  record that `free` accepts (avro-c's default allocator), a record holds a
  reference to its class and the class to its schema, `avro_value_write` fails
  when the buffer is full, and the encoding is the one in `AvroBinary`.
- The headers of avro-c whose code is not in the repository: resolvers,
  consumers, the legacy datum interface, data files, raw arrays, maps, wrapped
  buffers and memoization (`avro/resolver.h`, `consumer.h`, `legacy.h`, `io.h`,
  `data.h`) are declarations of functions that the library does not call; the
  MSVC integer types define `imaxdiv`, which nothing calls.
- Of `avro/value.h`: maps, unions and fixed, which no schema has; comparing,
  copying, hashing and JSON, which are declarations; the macros that release a
  value, whose effect on the heap is in `ClientMemory`.
- Memory order in `Refcount`: the atomic instructions are taken to be full
  barriers, and the load of the check to return the current value. The GCC,
  x86 and Windows builds name such instructions; the Mac build calls
  `OSAtomicIncrement32` and `OSAtomicDecrement32`, not the variants with a
  barrier, so of it the results hold only where the hardware orders these
  accesses anyway. In the plain build one thread at a time uses the object,
  which is what that build is for.
- In `SliceFile`, a `rewind` that fails after `ftell` has succeeded.
- The word that `avro_value_get_boolean` writes: it stores an `int`, through the
  `bool *` of `parse_launch_response` (`src/launch.c:134`) and of the peer's
  `parse_finish_request` (`test/finish_request_test.c:43`). `configure.ac` looks
  for no `stdbool.h` and no source includes `config.h`, so `bool` is the enum of
  `src/constants.h`, which has the size of an `int` with the usual compilers.
  With a `bool` of one byte, what is beside it would be overwritten as
  `NeighbourIntact` shows for a `size_t`; `ClientMemory` has no word for it.
- What `malloc(0)` returns: `ClientMemory` has both outcomes, and so has
  `SliceFile` (`ReaderExits`); `RoundTrip` and `Exchange` have the one where the
  empty message can be built.
- Paths, `sprintf` into `filename`, messages on stderr,
  `bak/person_recursive.schema` (no code opens it), the build.

## Plan

Written so far, in this order: `CMemory`, `ClientMemory` and its proof; `Launch`
and its proof; `AvroBinary`, `Schemas`, `Codec`, `RoundTrip`; `HnpRpc`,
`Exchange`; `SliceFile` and its proof; `ValueCalls` with the earlier schemas;
`SharedObject`, `Refcount` and its proof; `SliceRegister` and the refinement;
`Exchange` over any codec, `Messages`, and the proof of the refinement;
`AvroBinary` without RECURSIVE, its proof and that of `RoundTrip`; `HnpCalls`
and `CodecContract`, taken out of `HnpRpc` and `Exchange` so that the contract
can be stated of the code's codec; `ValueCalls` without RECURSIVE,
`MessageForms`, which it shares with `RoundTrip`, and the proof of the builders;
what is read from any bytes, the parsers and the earlier schemas, and with them
the rest of the proof of `ValueCalls`.

What could follow: a heap for two processes that joins `ClientMemory` and
`Launch`, with the moving pointers among the results a program holds.
