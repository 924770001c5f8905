--------------------------- MODULE RoundTrip_proof ---------------------------
(* Every message the builders write is read by its parser as what the       *)
(* builder was given, for arrays, vectors and strings of every length that  *)
(* fit the buffer: each is a value of its schema, so EncodingIsRead applies *)
(* to its encoding, and what the getters take out of the value is what the  *)
(* setters put in.  The properties of RoundTrip follow from the types of    *)
(* the arguments, which every step keeps.  At the end the same lemmas give  *)
(* what Exchange assumes of its codec, for the codec the code has.          *)
EXTENDS RoundTrip, Messages, AvroBinary_proof

-----------------------------------------------------------------------------
(* What the builders write, the parsers read.                                *)

\* The structs of C: the names of processes and the contexts of a launch.
Name == [jobid: Int, vpid: Int]
Context == [en_vars: Seq(Bytes), args: Bytes, host_name: Bytes, proc_name: Name]

\* The environment, arguments, host and name of every context come through.
LEMMA LaunchRequestInverts ==
    ASSUME NEW a \in Seq(Context), build_launch_request(a).ok
    PROVE  LET b == build_launch_request(a).bytes
           IN  /\ b \in Bytes /\ Len(b) \in 0..BUFFER_SIZE
               /\ parse_launch_request(b) = [ok |-> TRUE, result |-> a]
               /\ \A k \in 0..(Len(b) - 1) : ~parse_launch_request(SubSeq(b, 1, k)).ok
<1> DEFINE t == [i \in DOMAIN a |->
                   [en_vars |-> a[i].en_vars, args |-> a[i].args,
                    host_name |-> a[i].host_name, name |-> a[i].proc_name]]
           v == [launchContexts |-> t]
           b == build_launch_request(a).bytes
<1>1. build_launch_request(a) = Write(LaunchRequest, v)
  BY DEF build_launch_request
<1>2. /\ DOMAIN a = 1..Len(a) /\ \A i \in 1..Len(a) : a[i] \in Context
      /\ IsSeq(t) /\ Len(t) = Len(a)
  BY ImageIs
<1>3. IsValue(LaunchRequest, v)
  <2> DEFINE S == AvroRecord(<< <<"en_vars", AvroArray(AvroString)>>, <<"args", AvroString>>,
                                <<"host_name", AvroString>>, <<"name", ProcessName>> >>)
  <2>1. v = [x \in {"launchContexts"} |-> v[x]] /\ v["launchContexts"] = t
    OBVIOUS
  <2>2. \A i \in 1..Len(a) :
           t[i] \in [en_vars: Seq(Bytes), args: Bytes, host_name: Bytes, name: [jobid: Int, vpid: Int]]
    BY <1>2 DEF Context, Name
  <2> HIDE DEF t, v
  <2>3. \A i \in 1..Len(t) : Is_2(S, t[i])
    BY <1>2, <2>2, LaunchContextIs
  <2> HIDE DEF S
  <2>4. IsValue(AvroRecord(<< <<"launchContexts", AvroArray(S)>> >>), v)
    BY <1>2, <2>1, <2>3, ArrayMessageIs
  <2> QED
    BY <2>4 DEF LaunchRequest, S
<1>4. /\ b \in Bytes /\ Len(b) \in 0..BUFFER_SIZE /\ Read(LaunchRequest, b) = Got(v, <<>>)
      /\ \A k \in 0..(Len(b) - 1) : ~Read(LaunchRequest, SubSeq(b, 1, k)).ok
  <2> HIDE DEF v
  <2> QED
    BY <1>1, <1>3, WrittenIsRead
<1> HIDE DEF b
<1>5. parse_launch_request(b) = [ok |-> TRUE, result |-> a]
  <2>1. Read(LaunchRequest, b).ok /\ Read(LaunchRequest, b).value = v
    <3> HIDE DEF v
    <3> QED
      BY <1>4, GotIs
  <2>2. v.launchContexts = t
    OBVIOUS
  <2>3. [i \in DOMAIN t |-> [en_vars |-> t[i].en_vars, args |-> t[i].args,
                             host_name |-> t[i].host_name, proc_name |-> t[i].name]] = a
    BY <1>2 DEF Context
  <2> HIDE DEF v, t
  <2> QED
    BY <2>1, <2>2, <2>3 DEF parse_launch_request, Parse
<1>6. \A k \in 0..(Len(b) - 1) : ~parse_launch_request(SubSeq(b, 1, k)).ok
  BY <1>4 DEF parse_launch_request, Parse
<1> QED
  BY <1>4, <1>5, <1>6 DEF b

\* The enumerators of process_state_enum_t.
ProcessStates == {"RUNNING", "COMPLETED"}

\* The enumerators of both enums of the C headers.
LEMMA EnumsAre ==
    /\ \A x \in Requests : /\ Ordinal(msg_type_enum_t, x) \in Int
                           /\ NameOf(msg_type_enum_t, Ordinal(msg_type_enum_t, x)) = x
    /\ \A x \in ProcessStates : /\ Ordinal(process_state_enum_t, x) \in Int
                                /\ NameOf(process_state_enum_t, Ordinal(process_state_enum_t, x)) = x
BY EnumeratorsAre DEF Requests, ProcessStates, MsgTypeNames, ProcessStateNames

\* The struct of an allocation.
Node == [host_name: Bytes, slot_num: Int]

\* The hosts and the slots of an allocation come through.
LEMMA AllocateResponseInverts ==
    ASSUME NEW a \in Seq(Node), build_allocate_response(a).ok
    PROVE  LET b == build_allocate_response(a).bytes
           IN  /\ b \in Bytes /\ Len(b) \in 0..BUFFER_SIZE
               /\ parse_allocate_response(b) = [ok |-> TRUE, result |-> a]
               /\ \A k \in 0..(Len(b) - 1) : ~parse_allocate_response(SubSeq(b, 1, k)).ok
<1> DEFINE t == [i \in DOMAIN a |-> [host_name |-> a[i].host_name, slot |-> a[i].slot_num]]
           v == [node_resources |-> t]
           b == build_allocate_response(a).bytes
<1>1. build_allocate_response(a) = Write(AllocateResponse, v)
  BY DEF build_allocate_response
<1>2. /\ DOMAIN a = 1..Len(a) /\ \A i \in 1..Len(a) : a[i] \in Node
      /\ IsSeq(t) /\ Len(t) = Len(a)
  BY ImageIs
<1>3. IsValue(AllocateResponse, v)
  <2> DEFINE S == AvroRecord(<< <<"host_name", AvroString>>, <<"slot", AvroInt>> >>)
  <2>1. v = [x \in {"node_resources"} |-> v[x]] /\ v["node_resources"] = t
    OBVIOUS
  <2>2. \A i \in 1..Len(a) : t[i] \in [host_name: Bytes, slot: Int]
    BY <1>2 DEF Node
  <2> HIDE DEF t, v
  <2>3. \A i \in 1..Len(t) : Is_2(S, t[i])
    BY <1>2, <2>2, NodeResourceIs
  <2> HIDE DEF S
  <2>4. IsValue(AvroRecord(<< <<"node_resources", AvroArray(S)>> >>), v)
    BY <1>2, <2>1, <2>3, ArrayMessageIs
  <2> QED
    BY <2>4 DEF AllocateResponse, S
<1>4. /\ b \in Bytes /\ Len(b) \in 0..BUFFER_SIZE /\ Read(AllocateResponse, b) = Got(v, <<>>)
      /\ \A k \in 0..(Len(b) - 1) : ~Read(AllocateResponse, SubSeq(b, 1, k)).ok
  <2> HIDE DEF v
  <2> QED
    BY <1>1, <1>3, WrittenIsRead
<1> HIDE DEF b
<1>5. parse_allocate_response(b) = [ok |-> TRUE, result |-> a]
  <2>1. Read(AllocateResponse, b).ok /\ Read(AllocateResponse, b).value = v
    <3> HIDE DEF v
    <3> QED
      BY <1>4, GotIs
  <2>2. v.node_resources = t
    OBVIOUS
  <2>3. [i \in DOMAIN t |-> [host_name |-> t[i].host_name, slot_num |-> t[i].slot]] = a
    BY <1>2 DEF Node
  <2> HIDE DEF v, t
  <2> QED
    BY <2>1, <2>2, <2>3 DEF parse_allocate_response, Parse
<1>6. \A k \in 0..(Len(b) - 1) : ~parse_allocate_response(SubSeq(b, 1, k)).ok
  BY <1>4 DEF parse_allocate_response, Parse
<1> QED
  BY <1>4, <1>5, <1>6 DEF b

\* The struct of a launch response.
Outcome == [is_successful: BOOLEAN, proc_name: Name]

\* Whether each process was launched, and its name, come through.
LEMMA LaunchResponseInverts ==
    ASSUME NEW a \in Seq(Outcome), build_launch_response(a).ok
    PROVE  LET b == build_launch_response(a).bytes
           IN  /\ b \in Bytes /\ Len(b) \in 0..BUFFER_SIZE
               /\ parse_launch_response(b) = [ok |-> TRUE, result |-> a]
               /\ \A k \in 0..(Len(b) - 1) : ~parse_launch_response(SubSeq(b, 1, k)).ok
<1> DEFINE t == [i \in DOMAIN a |-> [is_successful |-> a[i].is_successful, name |-> a[i].proc_name]]
           v == [results |-> t]
           b == build_launch_response(a).bytes
<1>1. build_launch_response(a) = Write(LaunchResponse, v)
  BY DEF build_launch_response
<1>2. /\ DOMAIN a = 1..Len(a) /\ \A i \in 1..Len(a) : a[i] \in Outcome
      /\ IsSeq(t) /\ Len(t) = Len(a)
  BY ImageIs
<1>3. IsValue(LaunchResponse, v)
  <2> DEFINE S == AvroRecord(<< <<"is_successful", AvroBoolean>>, <<"name", ProcessName>> >>)
  <2>1. v = [x \in {"results"} |-> v[x]] /\ v["results"] = t
    OBVIOUS
  <2>2. \A i \in 1..Len(a) : t[i] \in [is_successful: BOOLEAN, name: [jobid: Int, vpid: Int]]
    BY <1>2 DEF Outcome, Name
  <2> HIDE DEF t, v
  <2>3. \A i \in 1..Len(t) : Is_2(S, t[i])
    BY <1>2, <2>2, LaunchResultIs
  <2> HIDE DEF S
  <2>4. IsValue(AvroRecord(<< <<"results", AvroArray(S)>> >>), v)
    BY <1>2, <2>1, <2>3, ArrayMessageIs
  <2> QED
    BY <2>4 DEF LaunchResponse, S
<1>4. /\ b \in Bytes /\ Len(b) \in 0..BUFFER_SIZE /\ Read(LaunchResponse, b) = Got(v, <<>>)
      /\ \A k \in 0..(Len(b) - 1) : ~Read(LaunchResponse, SubSeq(b, 1, k)).ok
  <2> HIDE DEF v
  <2> QED
    BY <1>1, <1>3, WrittenIsRead
<1> HIDE DEF b
<1>5. parse_launch_response(b) = [ok |-> TRUE, result |-> a]
  <2>1. Read(LaunchResponse, b).ok /\ Read(LaunchResponse, b).value = v
    <3> HIDE DEF v
    <3> QED
      BY <1>4, GotIs
  <2>2. v.results = t
    OBVIOUS
  <2>3. [i \in DOMAIN t |-> [is_successful |-> t[i].is_successful, proc_name |-> t[i].name]] = a
    BY <1>2 DEF Outcome
  <2> HIDE DEF v, t
  <2> QED
    BY <2>1, <2>2, <2>3 DEF parse_launch_response, Parse
<1>6. \A k \in 0..(Len(b) - 1) : ~parse_launch_response(SubSeq(b, 1, k)).ok
  BY <1>4 DEF parse_launch_response, Parse
<1> QED
  BY <1>4, <1>5, <1>6 DEF b

\* The struct of a heartbeat response.
CompletedProc == [proc_name: Name, proc_state: ProcessStates, exit_value: Int]

\* The name, the state and the exit value of each process come through.
LEMMA HeartBeatResponseInverts ==
    ASSUME NEW a \in Seq(CompletedProc), build_heartbeat_response(a).ok
    PROVE  LET b == build_heartbeat_response(a).bytes
               t == [i \in DOMAIN a |->
                       [name |-> a[i].proc_name,
                        state |-> Ordinal(process_state_enum_t, a[i].proc_state),
                        exit_value |-> a[i].exit_value]]
           IN  /\ b \in Bytes /\ Len(b) \in 0..BUFFER_SIZE
               /\ Decode(HeartBeatResponse, b) = Got([completed_processes |-> t], <<>>)
               /\ parse_heartbeat_response(b) = [ok |-> TRUE, result |-> a]
               /\ \A k \in 0..(Len(b) - 1) : ~parse_heartbeat_response(SubSeq(b, 1, k)).ok
<1> DEFINE t == [i \in DOMAIN a |->
                   [name |-> a[i].proc_name,
                    state |-> Ordinal(process_state_enum_t, a[i].proc_state),
                    exit_value |-> a[i].exit_value]]
           v == [completed_processes |-> t]
           b == build_heartbeat_response(a).bytes
<1>1. build_heartbeat_response(a) = Write(HeartBeatResponse, v)
  BY DEF build_heartbeat_response
<1>2. /\ DOMAIN a = 1..Len(a) /\ \A i \in 1..Len(a) : a[i] \in CompletedProc
      /\ IsSeq(t) /\ Len(t) = Len(a)
  BY ImageIs
<1>3. IsValue(HeartBeatResponse, v)
  <2> DEFINE S == AvroRecord(<< <<"name", ProcessName>>, <<"state", AvroEnum(ProcessStateSymbols)>>,
                                <<"exit_value", AvroInt>> >>)
  <2>1. v = [x \in {"completed_processes"} |-> v[x]] /\ v["completed_processes"] = t
    OBVIOUS
  <2>2. \A i \in 1..Len(a) :
           t[i] \in [name: [jobid: Int, vpid: Int], state: Int, exit_value: Int]
    BY <1>2, EnumsAre DEF CompletedProc, Name
  <2> HIDE DEF t, v
  <2>3. \A i \in 1..Len(t) : Is_2(S, t[i])
    BY <1>2, <2>2, ProcessStatusIs
  <2> HIDE DEF S
  <2>4. IsValue(AvroRecord(<< <<"completed_processes", AvroArray(S)>> >>), v)
    BY <1>2, <2>1, <2>3, ArrayMessageIs
  <2> QED
    BY <2>4 DEF HeartBeatResponse, S
<1>4. /\ b \in Bytes /\ Len(b) \in 0..BUFFER_SIZE /\ Read(HeartBeatResponse, b) = Got(v, <<>>)
      /\ \A k \in 0..(Len(b) - 1) : ~Read(HeartBeatResponse, SubSeq(b, 1, k)).ok
  <2> HIDE DEF v
  <2> QED
    BY <1>1, <1>3, WrittenIsRead
<1> HIDE DEF b
<1>5. parse_heartbeat_response(b) = [ok |-> TRUE, result |-> a]
  <2>1. Read(HeartBeatResponse, b).ok /\ Read(HeartBeatResponse, b).value = v
    <3> HIDE DEF v
    <3> QED
      BY <1>4, GotIs
  <2>2. v.completed_processes = t
    OBVIOUS
  <2>3. [i \in DOMAIN t |-> [proc_name |-> t[i].name,
                             proc_state |-> NameOf(process_state_enum_t, t[i].state),
                             exit_value |-> t[i].exit_value]] = a
    BY <1>2, EnumsAre DEF CompletedProc
  <2> HIDE DEF v, t
  <2> QED
    BY <2>1, <2>2, <2>3 DEF parse_heartbeat_response, Parse
<1>6. \A k \in 0..(Len(b) - 1) : ~parse_heartbeat_response(SubSeq(b, 1, k)).ok
  BY <1>4 DEF parse_heartbeat_response, Parse
<1>7. Decode(HeartBeatResponse, b) = Got(v, <<>>)
  BY <1>4, Zenon DEF Read
<1> QED
  BY <1>4, <1>5, <1>6, <1>7 DEF b

\* A message without contents is read whole, and its parser's status is -1.
LEMMA StatusesInvert ==
    /\ build_register_request.ok =>
         LET b == build_register_request.bytes
         IN  /\ b \in Bytes /\ Len(b) \in 0..BUFFER_SIZE
             /\ parse_register_request(b) = [ok |-> TRUE, result |-> -1]
             /\ \A k \in 0..(Len(b) - 1) : ~parse_register_request(SubSeq(b, 1, k)).ok
    /\ build_heartbeat_request.ok =>
         LET b == build_heartbeat_request.bytes
         IN  /\ b \in Bytes /\ Len(b) \in 0..BUFFER_SIZE
             /\ parse_heartbeat_request(b) = [ok |-> TRUE, result |-> -1]
             /\ \A k \in 0..(Len(b) - 1) : ~parse_heartbeat_request(SubSeq(b, 1, k)).ok
    /\ build_register_response.ok =>
         LET b == build_register_response.bytes
         IN  /\ b \in Bytes /\ Len(b) \in 0..BUFFER_SIZE
             /\ parse_register_response(b) = [ok |-> TRUE, result |-> -1]
             /\ \A k \in 0..(Len(b) - 1) : ~parse_register_response(SubSeq(b, 1, k)).ok
    /\ build_finish_response.ok =>
         LET b == build_finish_response.bytes
         IN  /\ b \in Bytes /\ Len(b) \in 0..BUFFER_SIZE
             /\ parse_finish_response(b) = [ok |-> TRUE, result |-> -1]
             /\ \A k \in 0..(Len(b) - 1) : ~parse_finish_response(SubSeq(b, 1, k)).ok
<1>1. /\ Status(RegisterRequest) = -1 /\ Status(RegisterResponse) = -1
      /\ Status(HeartBeatRequest) = -1 /\ Status(FinishResponse) = -1
  <2>1. \A x : Status(AvroRecord(<<x>>)) = -1
    BY DEF Status, AvroRecord
  <2> QED
    BY <2>1 DEF RegisterRequest, RegisterResponse, HeartBeatRequest, FinishResponse
<1>2. ASSUME NEW S, NEW v, IsValue(S, v), Write(S, v).ok
      PROVE  LET b == Write(S, v).bytes
             IN  /\ b \in Bytes /\ Len(b) \in 0..BUFFER_SIZE
                 /\ Read(S, b).ok
                 /\ \A k \in 0..(Len(b) - 1) : ~Read(S, SubSeq(b, 1, k)).ok
  BY <1>2, WrittenIsRead, GotIs
<1>3. ASSUME build_register_request.ok
      PROVE  LET b == build_register_request.bytes
             IN  /\ b \in Bytes /\ Len(b) \in 0..BUFFER_SIZE
                 /\ parse_register_request(b) = [ok |-> TRUE, result |-> -1]
                 /\ \A k \in 0..(Len(b) - 1) : ~parse_register_request(SubSeq(b, 1, k)).ok
  BY <1>1, <1>2, <1>3, NullMessageIs DEF build_register_request, parse_register_request, Parse
<1>4. ASSUME build_heartbeat_request.ok
      PROVE  LET b == build_heartbeat_request.bytes
             IN  /\ b \in Bytes /\ Len(b) \in 0..BUFFER_SIZE
                 /\ parse_heartbeat_request(b) = [ok |-> TRUE, result |-> -1]
                 /\ \A k \in 0..(Len(b) - 1) : ~parse_heartbeat_request(SubSeq(b, 1, k)).ok
  BY <1>1, <1>2, <1>4, NullMessageIs DEF build_heartbeat_request, parse_heartbeat_request, Parse
<1>5. ASSUME build_register_response.ok
      PROVE  LET b == build_register_response.bytes
             IN  /\ b \in Bytes /\ Len(b) \in 0..BUFFER_SIZE
                 /\ parse_register_response(b) = [ok |-> TRUE, result |-> -1]
                 /\ \A k \in 0..(Len(b) - 1) : ~parse_register_response(SubSeq(b, 1, k)).ok
  BY <1>1, <1>2, <1>5, NullMessageIs DEF build_register_response, parse_register_response, Parse
<1>6. ASSUME build_finish_response.ok
      PROVE  LET b == build_finish_response.bytes
             IN  /\ b \in Bytes /\ Len(b) \in 0..BUFFER_SIZE
                 /\ parse_finish_response(b) = [ok |-> TRUE, result |-> -1]
                 /\ \A k \in 0..(Len(b) - 1) : ~parse_finish_response(SubSeq(b, 1, k)).ok
  BY <1>1, <1>2, <1>6, NullMessageIs DEF build_finish_response, parse_finish_response, Parse
<1> QED
  BY <1>3, <1>4, <1>5, <1>6

\* The number of resources asked for comes through.
LEMMA AllocateRequestInverts ==
    ASSUME NEW a \in Int, build_allocate_request(a).ok
    PROVE  LET b == build_allocate_request(a).bytes
           IN  /\ b \in Bytes /\ Len(b) \in 0..BUFFER_SIZE
               /\ parse_allocate_request(b) = [ok |-> TRUE, result |-> a]
               /\ \A k \in 0..(Len(b) - 1) : ~parse_allocate_request(SubSeq(b, 1, k)).ok
<1> DEFINE v == [resource_count |-> a]
           b == build_allocate_request(a).bytes
<1>1. build_allocate_request(a) = Write(AllocateRequest, v) /\ v.resource_count = a
  BY DEF build_allocate_request
<1>2. IsValue(AllocateRequest, v)
  BY AllocateRequestIs
<1> HIDE DEF v
<1>3. /\ b \in Bytes /\ Len(b) \in 0..BUFFER_SIZE /\ Read(AllocateRequest, b) = Got(v, <<>>)
      /\ \A k \in 0..(Len(b) - 1) : ~Read(AllocateRequest, SubSeq(b, 1, k)).ok
  BY <1>1, <1>2, WrittenIsRead
<1> HIDE DEF b
<1>4. parse_allocate_request(b) = [ok |-> TRUE, result |-> a]
  <2>1. Read(AllocateRequest, b).ok /\ Read(AllocateRequest, b).value = v
    BY <1>3, GotIs
  <2> QED
    BY <1>1, <2>1 DEF parse_allocate_request, Parse
<1>5. \A k \in 0..(Len(b) - 1) : ~parse_allocate_request(SubSeq(b, 1, k)).ok
  BY <1>3 DEF parse_allocate_request, Parse
<1> QED
  BY <1>3, <1>4, <1>5 DEF b

\* Success and diagnostics come through.
LEMMA FinishRequestInverts ==
    ASSUME NEW a \in [succeed: BOOLEAN, diagnostics: Bytes],
           build_finish_request(a.succeed, a.diagnostics).ok
    PROVE  LET b == build_finish_request(a.succeed, a.diagnostics).bytes
           IN  /\ b \in Bytes /\ Len(b) \in 0..BUFFER_SIZE
               /\ parse_finish_request(b) = [ok |-> TRUE, result |-> a]
               /\ \A k \in 0..(Len(b) - 1) : ~parse_finish_request(SubSeq(b, 1, k)).ok
<1> DEFINE b == build_finish_request(a.succeed, a.diagnostics).bytes
<1>1. build_finish_request(a.succeed, a.diagnostics) = Write(FinishRequest, a)
  BY DEF build_finish_request
<1>2. IsValue(FinishRequest, a)
  BY FinishRequestIs
<1>3. /\ b \in Bytes /\ Len(b) \in 0..BUFFER_SIZE /\ Read(FinishRequest, b) = Got(a, <<>>)
      /\ \A k \in 0..(Len(b) - 1) : ~Read(FinishRequest, SubSeq(b, 1, k)).ok
  BY <1>1, <1>2, WrittenIsRead
<1> HIDE DEF b
<1>4. parse_finish_request(b) = [ok |-> TRUE, result |-> a]
  <2>1. Read(FinishRequest, b).ok /\ Read(FinishRequest, b).value = a
    BY <1>3, GotIs
  <2> QED
    BY <2>1 DEF parse_finish_request, Parse
<1>5. \A k \in 0..(Len(b) - 1) : ~parse_finish_request(SubSeq(b, 1, k)).ok
  BY <1>3 DEF parse_finish_request, Parse
<1> QED
  BY <1>3, <1>4, <1>5 DEF b

\* A wrapped request comes through with its type.
LEMMA WrapperInverts ==
    ASSUME NEW inner \in Bytes, NEW type \in Requests, build_hnp_request_wrapper(inner, type).ok
    PROVE  LET b == build_hnp_request_wrapper(inner, type).bytes
               v == [request |-> inner, msg_type |-> Ordinal(msg_type_enum_t, type)]
           IN  /\ b \in Bytes /\ Len(b) \in 0..BUFFER_SIZE
               /\ Decode(HamsterHnpRequest, b) = Got(v, <<>>)
               /\ parse_hnp_request_wrapper(b) =
                    [ok |-> TRUE, result |-> [inner |-> inner, msg_type |-> type]]
               /\ \A k \in 0..(Len(b) - 1) : ~parse_hnp_request_wrapper(SubSeq(b, 1, k)).ok
<1> DEFINE v == [request |-> inner, msg_type |-> Ordinal(msg_type_enum_t, type)]
           b == build_hnp_request_wrapper(inner, type).bytes
<1>1. /\ build_hnp_request_wrapper(inner, type) = Write(HamsterHnpRequest, v)
      /\ v.request = inner /\ NameOf(msg_type_enum_t, v.msg_type) = type
  BY EnumsAre DEF build_hnp_request_wrapper
<1>2. IsValue(HamsterHnpRequest, v)
  BY EnumsAre, HamsterHnpRequestIs
<1>3. /\ b \in Bytes /\ Len(b) \in 0..BUFFER_SIZE /\ Read(HamsterHnpRequest, b) = Got(v, <<>>)
      /\ \A k \in 0..(Len(b) - 1) : ~Read(HamsterHnpRequest, SubSeq(b, 1, k)).ok
  <2> HIDE DEF v
  <2> QED
    BY <1>1, <1>2, WrittenIsRead
<1> HIDE DEF b
<1>4. parse_hnp_request_wrapper(b) = [ok |-> TRUE, result |-> [inner |-> inner, msg_type |-> type]]
  <2> HIDE DEF v
  <2>1. Read(HamsterHnpRequest, b).ok /\ Read(HamsterHnpRequest, b).value = v
    BY <1>3, GotIs
  <2> QED
    BY <1>1, <2>1 DEF parse_hnp_request_wrapper, Parse
<1>5. \A k \in 0..(Len(b) - 1) : ~parse_hnp_request_wrapper(SubSeq(b, 1, k)).ok
  BY <1>3 DEF parse_hnp_request_wrapper, Parse
<1>6. Decode(HamsterHnpRequest, b) = Got(v, <<>>)
  BY <1>3, Zenon DEF Read
<1> QED
  BY <1>3, <1>4, <1>5, <1>6 DEF b

\* A person comes through.
LEMMA PersonInverts ==
    ASSUME NEW a \in [name: Bytes, weight: Int, height: Int],
           build_person(a.name, a.weight, a.height).ok
    PROVE  LET b == build_person(a.name, a.weight, a.height).bytes
           IN  /\ b \in Bytes /\ Len(b) \in 0..BUFFER_SIZE
               /\ parse_person(b) = [ok |-> TRUE, result |-> a]
               /\ \A k \in 0..(Len(b) - 1) : ~parse_person(SubSeq(b, 1, k)).ok
<1> DEFINE b == build_person(a.name, a.weight, a.height).bytes
<1>1. build_person(a.name, a.weight, a.height) = Write(Person, a)
  BY DEF build_person
<1>2. IsValue(Person, a)
  BY PersonIs
<1>3. /\ b \in Bytes /\ Len(b) \in 0..BUFFER_SIZE /\ Read(Person, b) = Got(a, <<>>)
      /\ \A k \in 0..(Len(b) - 1) : ~Read(Person, SubSeq(b, 1, k)).ok
  BY <1>1, <1>2, WrittenIsRead
<1> HIDE DEF b
<1>4. parse_person(b) = [ok |-> TRUE, result |-> a]
  <2>1. [name |-> a.name, height |-> a.height, weight |-> a.weight] = a
    OBVIOUS
  <2>2. Read(Person, b).ok /\ Read(Person, b).value = a
    BY <1>3, GotIs
  <2> QED
    BY <2>1, <2>2 DEF parse_person, Parse
<1>5. \A k \in 0..(Len(b) - 1) : ~parse_person(SubSeq(b, 1, k)).ok
  BY <1>3 DEF parse_person, Parse
<1> QED
  BY <1>3, <1>4, <1>5 DEF b

-----------------------------------------------------------------------------
(* How long a wrapper is.                                                    *)

\* An encoding has a byte for every seven bits.
LEMMA VarintLength ==
    /\ \A u \in Nat : u < 128 => Len(Varint[u]) = 1
    /\ \A u, w \in Nat : u >= 128 /\ w = u \div 128 => Len(Varint[u]) = 1 + Len(Varint[w])
<1>1. ASSUME NEW u \in Nat, u < 128 PROVE Len(Varint[u]) = 1
  <2>1. Varint[u] = <<u>>
    BY <1>1, VarintIs, Zenon
  <2> QED
    BY <2>1
<1>2. ASSUME NEW u \in Nat, NEW w \in Nat, u >= 128, w = u \div 128
      PROVE  Len(Varint[u]) = 1 + Len(Varint[w])
  <2> DEFINE first == (u % 128) + 128
  <2>1. Varint[u] = <<first>> \o Varint[w]
    BY <1>2, VarintIs, Zenon
  <2>2. Varint[w] \in Bytes /\ <<first>> \in Bytes
    <3>1. first \in Byte
      BY DEF Byte
    <3> HIDE DEF first
    <3>2. <<first>> \in Bytes
      BY <3>1 DEF Bytes
    <3> QED
      BY <3>2, VarintIs
  <2> HIDE DEF first
  <2>3. Len(Varint[u]) = Len(<<first>>) + Len(Varint[w])
    BY <2>1, <2>2, ConcatProperties DEF Bytes
  <2> QED
    BY <2>3
<1> QED
  BY <1>1, <1>2

\* LongBytes is the length of the encoding of every length a buffer can have.
LEMMA LongLength == \A n \in Nat : n \div 8192 < 128 => Len(EncodeLong(n)) = LongBytes(n)
<1> SUFFICES ASSUME NEW n \in Nat, n \div 8192 < 128 PROVE Len(EncodeLong(n)) = LongBytes(n)
  OBVIOUS
<1>1. EncodeLong(n) = Varint[2 * n] /\ 2 * n \in Nat
  BY DEF EncodeLong, Zigzag
<1>2. \A u \in Nat : u < 128 => Len(Varint[u]) = 1
  BY VarintLength
<1>3. \A u, w \in Nat : u >= 128 /\ w = u \div 128 => Len(Varint[u]) = 1 + Len(Varint[w])
  BY VarintLength
<1>4. PICK u \in Nat : u = 2 * n
  BY <1>1
<1>5. PICK w \in Nat : w = u \div 128
  OBVIOUS
<1>6. PICK x \in Nat : x = w \div 128
  OBVIOUS
<1>7. CASE n < 64
  BY <1>1, <1>2, <1>4, <1>7 DEF LongBytes
<1>8. CASE n >= 64 /\ n < 8192
  <2>1. u >= 128 /\ w < 128
    BY <1>4, <1>5, <1>8
  <2>2. Len(Varint[w]) = 1
    BY <1>2, <2>1
  <2>3. Len(Varint[u]) = 1 + Len(Varint[w])
    BY <1>3, <1>5, <2>1
  <2>4. LongBytes(n) = 2
    BY <1>8 DEF LongBytes
  <2> QED
    BY <1>1, <1>4, <2>2, <2>3, <2>4
<1>9. CASE n >= 8192
  <2>1. u >= 128 /\ w >= 128 /\ x < 128
    BY <1>4, <1>5, <1>6, <1>9
  <2>2. Len(Varint[x]) = 1
    BY <1>2, <2>1
  <2>3. Len(Varint[u]) = 1 + Len(Varint[w]) /\ Len(Varint[w]) = 1 + Len(Varint[x])
    BY <1>3, <1>5, <1>6, <2>1
  <2>4. LongBytes(n) = 3
    BY <1>9 DEF LongBytes
  <2> QED
    BY <1>1, <1>4, <2>2, <2>3, <2>4
<1> QED
  BY <1>7, <1>8, <1>9

\* A wrapped request needs as many bytes as WrapperLen says.
LEMMA WrapperLength ==
    ASSUME NEW inner \in Bytes, Len(inner) \in 0..BUFFER_SIZE, NEW type \in Requests
    PROVE  Len(Encode(HamsterHnpRequest,
                      [request |-> inner, msg_type |-> Ordinal(msg_type_enum_t, type)]))
             = WrapperLen(Len(inner))
<1> DEFINE k == Ordinal(msg_type_enum_t, type)
           v == [request |-> inner, msg_type |-> k]
           F == << <<"request", AvroBytes>>, <<"msg_type", AvroEnum(MsgTypeSymbols)>> >>
           S == AvroRecord(F)
           es == [i \in DOMAIN Parts(S, v) |->
                     Encode_3(Parts(S, v)[i].schema, Parts(S, v)[i].value)]
           e1 == EncodeLong(Len(inner)) \o inner
           e2 == EncodeLong(k)
<1>1. k \in 0..4
  <2> DEFINE m == msg_type_enum_t
  <2>1. /\ IsSeq(m) /\ Len(m) = 5 /\ m[1] = "ALLOCATE" /\ m[2] = "LAUNCH" /\ m[3] = "REGISTER"
        /\ m[4] = "FINISH" /\ m[5] = "HEARTBEAT"
    BY DEF msg_type_enum_t, IsSeq
  <2> HIDE DEF m
  <2>2. \E i \in 1..Len(m) : m[i] = type
    BY <2>1 DEF Requests
  <2>3. Ordinal(m, type) \in 0..(Len(m) - 1)
    BY ONLY <2>1, <2>2, OrdinalIs
  <2> QED
    BY <2>1, <2>3 DEF m
<1> HIDE DEF k
<1>2. Len(EncodeLong(Len(inner))) = LongBytes(Len(inner)) /\ Len(e2) = 1
  <2> HIDE DEF es, v, S, e1
  <2>1. Len(inner) \in Nat /\ Len(inner) \div 8192 < 128
    BY BufferSizeAssumption, BufferAssumption
  <2>2. PICK m \in Nat : m = k /\ m \div 8192 < 128
    BY <1>1
  <2>3. \A n \in Nat : n \div 8192 < 128 => Len(EncodeLong(n)) = LongBytes(n)
    BY LongLength
  <2>4. PICK n \in Nat : n = Len(inner)
    BY <2>1
  <2>5. Len(EncodeLong(n)) = LongBytes(n)
    BY ONLY <2>1, <2>3, <2>4
  <2>6. Len(EncodeLong(m)) = LongBytes(m)
    BY ONLY <2>2, <2>3
  <2>7. LongBytes(m) = 1
    BY <1>1, <2>2 DEF LongBytes
  <2> QED
    BY <2>2, <2>4, <2>5, <2>6, <2>7
<1>3. EncodeLong(Len(inner)) \in Bytes /\ e2 \in Bytes
  BY <1>1, VarintIs DEF EncodeLong, Zigzag
<1>4. e1 \in Bytes /\ Len(e1) = LongBytes(Len(inner)) + Len(inner)
  BY <1>2, <1>3, ConcatProperties, ZenonT(30) DEF Bytes
<1>5. es = <<e1, e2>>
  <2>1. v = [f \in {"request", "msg_type"} |-> v[f]] /\ v["request"] = inner /\ v["msg_type"] = k
    OBVIOUS
  <2>2. /\ DOMAIN Parts(S, v) = 1..Len(F)
        /\ \A i \in 1..Len(F) : /\ Parts(S, v)[i].schema = F[i][2]
                                /\ Parts(S, v)[i].value = v[F[i][1]]
    <3> HIDE DEF v
    <3> QED
      BY <2>1, TwoFields, RecordParts, ZenonT(30)
  <2>3. /\ Len(F) = 2 /\ F[1][1] = "request" /\ F[1][2] = AvroBytes
        /\ F[2][1] = "msg_type" /\ F[2][2] = AvroEnum(MsgTypeSymbols)
    OBVIOUS
  <2>4. Encode_3(AvroBytes, inner) = e1 /\ Encode_3(AvroEnum(MsgTypeSymbols), k) = e2
    BY DEF Encode_3, EncodeWith, EncodeScalar, Compound, AvroBytes, AvroEnum
  <2> HIDE DEF F, v, e1, e2, S
  <2>5. es = [i \in 1..2 |-> IF i = 1 THEN e1 ELSE e2]
    BY <2>1, <2>2, <2>3, <2>4
  <2> QED
    BY <2>5
<1>6. Encode(HamsterHnpRequest, v) = Concat[es]
  BY DEF Encode, EncodeWith, Join, Compound, AvroRecord, HamsterHnpRequest
<1> HIDE DEF es, e1, e2
<1>7. Concat[<<e1, e2>>] = e1 \o e2
  <2>1. /\ <<e1, e2>> \in Seq(Bytes) /\ <<e1, e2>> # <<>>
        /\ Head(<<e1, e2>>) = e1 /\ Tail(<<e1, e2>>) = <<e2>>
    BY <1>3, <1>4
  <2>5. /\ <<e2>> \in Seq(Bytes) /\ <<e2>> # <<>> /\ Head(<<e2>>) = e2 /\ Tail(<<e2>>) = <<>>
    BY <1>3
  <2>6. \A parts \in Seq(Bytes) : parts # <<>> => Concat[parts] = Head(parts) \o Concat[Tail(parts)]
    BY ConcatIs
  <2>2. Concat[<<e1, e2>>] = Head(<<e1, e2>>) \o Concat[Tail(<<e1, e2>>)]
    BY ONLY <2>1, <2>6, Zenon
  <2>3. Concat[<<e2>>] = Head(<<e2>>) \o Concat[Tail(<<e2>>)]
    BY ONLY <2>5, <2>6, Zenon
  <2>4. e2 \o <<>> = e2
    BY <1>3, ConcatEmptySeq DEF Bytes
  <2> QED
    BY <2>1, <2>2, <2>3, <2>4, <2>5, ConcatIs, Zenon
<1>8. Len(e1 \o e2) = Len(e1) + Len(e2)
  BY <1>3, <1>4, ConcatProperties DEF Bytes
<1> QED
  BY <1>2, <1>4, <1>5, <1>6, <1>7, <1>8, Zenon DEF WrapperLen, k

-----------------------------------------------------------------------------
(* The machine of RoundTrip.                                                 *)

\* The forms whose argument is an array.
ArrayForms == {"LAUNCH", "AllocateResponse", "LaunchResponse", "HeartBeatResponse"}

\* What the argument of each builder can be.
Arguments(f) == IF f \in ArrayForms THEN Seq(Items(f)) ELSE Scalars(f)

\* Every array of structs, not only those up to MaxItems.
Inv == form \in Forms /\ arg \in Arguments(form)

\* The arguments are structs of C whose strings are bytes, in an array of any length.
LEMMA ArgumentTypes ==
    /\ Arguments("ALLOCATE") \subseteq Int
    /\ Arguments("LAUNCH") \subseteq Seq(Context)
    /\ Arguments("FINISH") \subseteq [succeed: BOOLEAN, diagnostics: Bytes]
    /\ Arguments("AllocateResponse") \subseteq Seq(Node)
    /\ Arguments("LaunchResponse") \subseteq Seq(Outcome)
    /\ Arguments("HeartBeatResponse") \subseteq Seq(CompletedProc)
    /\ Arguments("wrapper") \subseteq [inner: Bytes, msg_type: Requests]
    /\ Arguments("person") \subseteq [name: Bytes, weight: Int, height: Int]
    /\ \A f \in {"REGISTER", "HEARTBEAT", "RegisterResponse", "FinishResponse"} :
          Arguments(f) = {-1}
<1>1. ASSUME NEW X, NEW Y, X \subseteq Y PROVE Seq(X) \subseteq Seq(Y)
  <2> SUFFICES ASSUME NEW s \in Seq(X) PROVE s \in Seq(Y)
    OBVIOUS
  <2>1. Len(s) \in Nat /\ s = [i \in 1..Len(s) |-> s[i]] /\ \A i \in 1..Len(s) : s[i] \in Y
    BY <1>1, LenProperties, ElementOfSeq
  <2> QED
    BY <2>1
<1>2. Names \subseteq Name
  BY ArgumentsAssumption DEF Names, Name
<1>3. Items("LAUNCH") \subseteq Context
  BY <1>2, ArgumentsAssumption DEF Items, Context
<1>4. Items("AllocateResponse") \subseteq Node
  BY ArgumentsAssumption DEF Items, Node
<1>5. Items("LaunchResponse") \subseteq Outcome
  BY <1>2 DEF Items, Outcome
<1>6. Items("HeartBeatResponse") \subseteq CompletedProc
  BY <1>2, ArgumentsAssumption DEF Items, CompletedProc, ProcessStates
<1>7. \A f \in ArrayForms : Arguments(f) = Seq(Items(f))
  BY DEF Arguments
<1>8. /\ Scalars("ALLOCATE") \subseteq Int
      /\ Scalars("FINISH") \subseteq [succeed: BOOLEAN, diagnostics: Bytes]
      /\ Scalars("wrapper") \subseteq [inner: Bytes, msg_type: Requests]
      /\ Scalars("person") \subseteq [name: Bytes, weight: Int, height: Int]
      /\ \A f \in {"REGISTER", "HEARTBEAT", "RegisterResponse", "FinishResponse"} :
            Scalars(f) = {-1}
  BY ArgumentsAssumption DEF Scalars
<1>9. \A f : f \notin ArrayForms => Arguments(f) = Scalars(f)
  BY DEF Arguments
<1> QED
  BY <1>1, <1>3, <1>4, <1>5, <1>6, <1>7, <1>8, <1>9 DEF ArrayForms

\* Arrays grow by structs of their form.
THEOREM Typing == Spec => []Inv
<1>1. Init => Inv
  <2>1. \A f \in ArrayForms : Scalars(f) = {<<>>}
    BY DEF ArrayForms, Scalars
  <2>2. <<>> \in Seq(Items(form))
    OBVIOUS
  <2>3. ASSUME Init, form \in ArrayForms PROVE arg \in Arguments(form)
    <3>1. arg = <<>> /\ Arguments(form) = Seq(Items(form))
      BY <2>1, <2>3 DEF Init, NothingFilled, Arguments
    <3> QED
      BY <2>2, <3>1
  <2>4. ASSUME Init, form \notin ArrayForms PROVE arg \in Arguments(form)
    BY <2>4 DEF Init, NothingFilled, Arguments
  <2> QED
    BY <2>3, <2>4 DEF Init, NothingFilled, Inv
<1>2. Inv /\ [Next]_vars => Inv'
  <2> SUFFICES ASSUME Inv, [Next]_vars PROVE Inv'
    OBVIOUS
  <2>1. CASE AddItem
    <3>1. form \in ArrayForms
      BY <2>1 DEF AddItem, Items, ArrayForms
    <3>2. PICK item \in Items(form) : arg' = Append(arg, item)
      BY <2>1 DEF AddItem
    <3>3. arg \in Seq(Items(form))
      BY <3>1 DEF Inv, Arguments
    <3>4. Append(arg, item) \in Seq(Items(form))
      BY <3>3, AppendProperties
    <3> QED
      BY <2>1, <3>1, <3>2, <3>4 DEF AddItem, Inv, Arguments
  <2>2. CASE UNCHANGED vars
    BY <2>2 DEF vars, Inv
  <2> QED
    BY <2>1, <2>2 DEF Next
<1> QED
  BY <1>1, <1>2, PTL DEF Spec

\* What each builder builds, its parser parses whole and refuses cut short.
LEMMA BuiltIsParsed ==
    ASSUME Inv, Built.ok
    PROVE  LET b == Built.bytes
           IN  /\ b \in Bytes /\ Len(b) \in 0..BUFFER_SIZE
               /\ Parsed(b) = [ok |-> TRUE, result |-> arg]
               /\ \A k \in 0..(Len(b) - 1) : ~Parsed(SubSeq(b, 1, k)).ok
<1>1. CASE form = "ALLOCATE"
  <2>1. arg \in Int
    BY <1>1, ArgumentTypes DEF Inv
  <2>2. Built = build_allocate_request(arg)
    BY <1>1 DEF Built
  <2>3. \A c : Parsed(c) = parse_allocate_request(c)
    BY <1>1 DEF Parsed
  <2> QED
    BY <2>1, <2>2, <2>3, AllocateRequestInverts
<1>2. CASE form = "LAUNCH"
  <2>1. arg \in Seq(Context)
    BY <1>2, ArgumentTypes DEF Inv
  <2>2. Built = build_launch_request(arg)
    BY <1>2 DEF Built
  <2>3. \A c : Parsed(c) = parse_launch_request(c)
    BY <1>2 DEF Parsed
  <2> QED
    BY <2>1, <2>2, <2>3, LaunchRequestInverts
<1>3. CASE form = "REGISTER"
  <2>1. arg \in {-1}
    BY <1>3, ArgumentTypes DEF Inv
  <2>2. Built = build_register_request
    BY <1>3 DEF Built
  <2>3. \A c : Parsed(c) = parse_register_request(c)
    BY <1>3 DEF Parsed
  <2> QED
    BY <2>1, <2>2, <2>3, StatusesInvert
<1>4. CASE form = "FINISH"
  <2>1. arg \in [succeed: BOOLEAN, diagnostics: Bytes]
    BY <1>4, ArgumentTypes DEF Inv
  <2>2. Built = build_finish_request(arg.succeed, arg.diagnostics)
    BY <1>4 DEF Built
  <2>3. \A c : Parsed(c) = parse_finish_request(c)
    BY <1>4 DEF Parsed
  <2> QED
    BY <2>1, <2>2, <2>3, FinishRequestInverts
<1>5. CASE form = "HEARTBEAT"
  <2>1. arg \in {-1}
    BY <1>5, ArgumentTypes DEF Inv
  <2>2. Built = build_heartbeat_request
    BY <1>5 DEF Built
  <2>3. \A c : Parsed(c) = parse_heartbeat_request(c)
    BY <1>5 DEF Parsed
  <2> QED
    BY <2>1, <2>2, <2>3, StatusesInvert
<1>6. CASE form = "AllocateResponse"
  <2>1. arg \in Seq(Node)
    BY <1>6, ArgumentTypes DEF Inv
  <2>2. Built = build_allocate_response(arg)
    BY <1>6 DEF Built
  <2>3. \A c : Parsed(c) = parse_allocate_response(c)
    BY <1>6 DEF Parsed
  <2> QED
    BY <2>1, <2>2, <2>3, AllocateResponseInverts
<1>7. CASE form = "LaunchResponse"
  <2>1. arg \in Seq(Outcome)
    BY <1>7, ArgumentTypes DEF Inv
  <2>2. Built = build_launch_response(arg)
    BY <1>7 DEF Built
  <2>3. \A c : Parsed(c) = parse_launch_response(c)
    BY <1>7 DEF Parsed
  <2> QED
    BY <2>1, <2>2, <2>3, LaunchResponseInverts
<1>8. CASE form = "RegisterResponse"
  <2>1. arg \in {-1}
    BY <1>8, ArgumentTypes DEF Inv
  <2>2. Built = build_register_response
    BY <1>8 DEF Built
  <2>3. \A c : Parsed(c) = parse_register_response(c)
    BY <1>8 DEF Parsed
  <2> QED
    BY <2>1, <2>2, <2>3, StatusesInvert
<1>9. CASE form = "FinishResponse"
  <2>1. arg \in {-1}
    BY <1>9, ArgumentTypes DEF Inv
  <2>2. Built = build_finish_response
    BY <1>9 DEF Built
  <2>3. \A c : Parsed(c) = parse_finish_response(c)
    BY <1>9 DEF Parsed
  <2> QED
    BY <2>1, <2>2, <2>3, StatusesInvert
<1>10. CASE form = "HeartBeatResponse"
  <2>1. arg \in Seq(CompletedProc)
    BY <1>10, ArgumentTypes DEF Inv
  <2>2. Built = build_heartbeat_response(arg)
    BY <1>10 DEF Built
  <2>3. \A c : Parsed(c) = parse_heartbeat_response(c)
    BY <1>10 DEF Parsed
  <2> QED
    BY <2>1, <2>2, <2>3, HeartBeatResponseInverts
<1>11. CASE form = "wrapper"
  <2>1. arg \in [inner: Bytes, msg_type: Requests]
    BY <1>11, ArgumentTypes DEF Inv
  <2>2. Built = build_hnp_request_wrapper(arg.inner, arg.msg_type)
    BY <1>11 DEF Built
  <2>3. \A c : Parsed(c) = parse_hnp_request_wrapper(c)
    BY <1>11 DEF Parsed
  <2> QED
    BY <2>1, <2>2, <2>3, WrapperInverts
<1>12. CASE form = "person"
  <2>1. arg \in [name: Bytes, weight: Int, height: Int]
    BY <1>12, ArgumentTypes DEF Inv
  <2>2. Built = build_person(arg.name, arg.weight, arg.height)
    BY <1>12 DEF Built
  <2>3. \A c : Parsed(c) = parse_person(c)
    BY <1>12 DEF Parsed
  <2> QED
    BY <2>1, <2>2, <2>3, PersonInverts
<1> QED
  BY <1>1, <1>2, <1>3, <1>4, <1>5, <1>6, <1>7, <1>8, <1>9, <1>10, <1>11, <1>12 DEF Inv, Forms, Requests, Responses

\* The parser of every message gets what its builder was given, for every
\* array and every string.
THEOREM BuildIsInverted == Spec => []ParseInvertsBuild
<1>1. Inv => ParseInvertsBuild
  BY BuiltIsParsed DEF ParseInvertsBuild
<1> QED
  BY <1>1, Typing, PTL

\* No parser accepts a message that was cut short.
THEOREM NoTruncation == Spec => []TruncationRefused
<1>1. Inv => TruncationRefused
  BY BuiltIsParsed DEF TruncationRefused
<1> QED
  BY <1>1, Typing, PTL

\* A wrapped request keeps its bytes and its type, and has WrapperLen bytes.
THEOREM WrapIsInverted == Spec => []WrapInvertsUnwrap
<1>1. ASSUME Inv, form \in Requests, Built.ok
      PROVE  LET w == build_hnp_request_wrapper(Built.bytes, form)
             IN  /\ w.ok <=> WrapperLen(Len(Built.bytes)) <= BUFFER_SIZE
                 /\ w.ok => /\ Len(w.bytes) = WrapperLen(Len(Built.bytes))
                            /\ parse_hnp_request_wrapper(w.bytes) =
                                 [ok |-> TRUE, result |-> [inner |-> Built.bytes, msg_type |-> form]]
  <2> DEFINE v == [request |-> Built.bytes, msg_type |-> Ordinal(msg_type_enum_t, form)]
             w == build_hnp_request_wrapper(Built.bytes, form)
             e == Encode(HamsterHnpRequest, v)
  <2>1. Built.bytes \in Bytes /\ Len(Built.bytes) \in 0..BUFFER_SIZE
    BY <1>1, BuiltIsParsed
  <2>2. Len(e) = WrapperLen(Len(Built.bytes))
    BY <1>1, <2>1, WrapperLength
  <2>3. w = IF Len(e) <= BUFFER_SIZE THEN [ok |-> TRUE, bytes |-> e] ELSE [ok |-> FALSE]
    BY DEF build_hnp_request_wrapper, Write
  <2>4. w.ok => parse_hnp_request_wrapper(w.bytes) =
                  [ok |-> TRUE, result |-> [inner |-> Built.bytes, msg_type |-> form]]
    BY <1>1, <2>1, WrapperInverts
  <2> HIDE DEF w, e
  <2>5. w.ok <=> Len(e) <= BUFFER_SIZE
    BY <2>3
  <2>6. w.ok => w.bytes = e
    BY <2>3
  <2> QED
    BY <2>2, <2>4, <2>5, <2>6 DEF w
<1>2. Inv => WrapInvertsUnwrap
  BY <1>1 DEF WrapInvertsUnwrap
<1> QED
  BY <1>2, Typing, PTL

\* The schemas and the C headers have the same symbols with the same values.
THEOREM SymbolsAlwaysAgree == Spec => []SymbolsAgree
<1>1. MsgTypeSymbols = msg_type_enum_t /\ ProcessStateSymbols = process_state_enum_t
  BY DEF MsgTypeSymbols, msg_type_enum_t, ProcessStateSymbols, process_state_enum_t
<1>2. ASSUME form \in Requests, build_hnp_request_wrapper(<<>>, form).ok
      PROVE  LET w == build_hnp_request_wrapper(<<>>, form)
             IN  NameOf(MsgTypeSymbols, Decode(HamsterHnpRequest, w.bytes).value.msg_type) = form
  <2> DEFINE w == build_hnp_request_wrapper(<<>>, form)
             v == [request |-> <<>>, msg_type |-> Ordinal(msg_type_enum_t, form)]
  <2>1. <<>> \in Bytes
    BY DEF Bytes
  <2>2. Decode(HamsterHnpRequest, w.bytes) = Got(v, <<>>)
    BY <1>2, <2>1, WrapperInverts
  <2>3. v.msg_type = Ordinal(msg_type_enum_t, form)
    OBVIOUS
  <2> HIDE DEF v, w
  <2>4. Decode(HamsterHnpRequest, w.bytes).value = v
    BY <2>2, GotIs
  <2>5. NameOf(msg_type_enum_t, Decode(HamsterHnpRequest, w.bytes).value.msg_type) = form
    BY <1>2, <2>3, <2>4, EnumsAre
  <2> QED
    BY <1>1, <2>5, Zenon DEF w
<1>3. ASSUME Inv, form = "HeartBeatResponse", Built.ok
      PROVE  LET procs == Decode(HeartBeatResponse, Built.bytes).value.completed_processes
             IN  \A i \in DOMAIN arg :
                   NameOf(ProcessStateSymbols, procs[i].state) = arg[i].proc_state
  <2> DEFINE b == Built.bytes
             t == [i \in DOMAIN arg |->
                     [name |-> arg[i].proc_name,
                      state |-> Ordinal(process_state_enum_t, arg[i].proc_state),
                      exit_value |-> arg[i].exit_value]]
             v == [completed_processes |-> t]
  <2>1. arg \in Seq(CompletedProc)
    BY <1>3, ArgumentTypes DEF Inv
  <2>2. Built = build_heartbeat_response(arg)
    BY <1>3 DEF Built
  <2>3. Decode(HeartBeatResponse, b) = Got(v, <<>>)
    BY <1>3, <2>1, <2>2, HeartBeatResponseInverts
  <2>4. v.completed_processes = t
    OBVIOUS
  <2>5. ASSUME NEW i \in DOMAIN arg
        PROVE  NameOf(process_state_enum_t, t[i].state) = arg[i].proc_state
    <3>1. arg[i].proc_state \in ProcessStates
      <4>1. arg[i] \in CompletedProc
        BY <2>1, LenProperties, ElementOfSeq
      <4> QED
        BY <4>1 DEF CompletedProc
    <3>2. t[i].state = Ordinal(process_state_enum_t, arg[i].proc_state)
      OBVIOUS
    <3> QED
      BY <3>1, <3>2, EnumsAre
  <2> HIDE DEF v, t, b
  <2>6. Decode(HeartBeatResponse, b).value.completed_processes = t
    BY <2>3, <2>4, GotIs
  <2>7. \A i \in DOMAIN arg :
           NameOf(ProcessStateSymbols, Decode(HeartBeatResponse, b).value.completed_processes[i].state)
             = arg[i].proc_state
    BY <1>1, <2>5, <2>6, Zenon
  <2> QED
    BY <2>7 DEF b
<1>4. Inv => SymbolsAgree
  BY <1>2, <1>3 DEF SymbolsAgree
<1> QED
  BY <1>4, Typing, PTL

-----------------------------------------------------------------------------
(* The conversation of Exchange, with these builders and parsers.            *)

CONSTANTS Args, Contexts, Replies   \* as in HnpCalls

\* What Exchange asks of the codec, asked of this one.
Contract == INSTANCE CodecContract WITH
    BuildRequest <- build_request, ParseRequest <- parse_request,
    BuildResponse <- build_response, ParseResponse <- parse_response,
    Wrap <- build_hnp_request_wrapper, Unwrap <- parse_hnp_request_wrapper

\* The structs of C the two programs pass; -1 stands for no argument.
CallsAreTyped ==
    /\ Contexts \in Seq(Context)
    /\ Args["ALLOCATE"] \subseteq Int
    /\ Args["FINISH"] \subseteq [succeed: BOOLEAN, diagnostics: Bytes]
    /\ Args["REGISTER"] = {-1} /\ Args["HEARTBEAT"] = {-1}
    /\ Replies["ALLOCATE"] \subseteq Seq(Node)
    /\ Replies["LAUNCH"] \subseteq Seq(Outcome)
    /\ Replies["HEARTBEAT"] \subseteq Seq(CompletedProc)

\* Contexts whose strings were sent are still contexts.
LEMMA StrippedIs == ASSUME CallsAreTyped PROVE Contract!Stripped \in Seq(Context)
<1>1. Contexts \in Seq(Context) /\ Contract!Stripped = [i \in DOMAIN Contexts |-> Contract!Stripped[i]]
  BY DEF CallsAreTyped, Contract!Stripped
<1>2. /\ DOMAIN Contexts = 1..Len(Contexts) /\ Len(Contexts) \in Nat
      /\ \A i \in 1..Len(Contexts) : Contexts[i] \in Context
  BY <1>1, LenProperties, ElementOfSeq
<1>3. <<>> \in Seq(Bytes)
  OBVIOUS
<1>4. \A i \in 1..Len(Contexts) : [Contexts[i] EXCEPT !.en_vars = <<>>] \in Context
  BY <1>2, <1>3 DEF Context
<1> QED
  BY <1>2, <1>4 DEF Contract!Stripped

\* What a conversation asks of its codec, the builders and the parsers keep.
THEOREM CodecKeepsContract == CallsAreTyped => Contract!CodecInverts
<1> SUFFICES ASSUME CallsAreTyped PROVE Contract!CodecInverts
  OBVIOUS
<1>1. Contract!MsgType = Requests
  BY DEF Contract!MsgType, Requests
<1>2. ASSUME NEW type \in Requests, NEW a \in Contract!ArgsOf(type), build_request(type, a).ok
      PROVE  LET b == build_request(type, a).bytes
             IN  b \in Bytes /\ parse_request(type, b) = [ok |-> TRUE, result |-> a]
  <2>1. CASE type = "ALLOCATE"
    <3>1. a \in Int
      BY <1>2, <2>1 DEF Contract!ArgsOf, CallsAreTyped
    <3>2. build_request(type, a) = build_allocate_request(a)
      BY <2>1 DEF build_request
    <3>3. \A b : parse_request(type, b) = parse_allocate_request(b)
      BY <2>1 DEF parse_request
    <3> QED
      BY <1>2, <3>1, <3>2, <3>3, AllocateRequestInverts
  <2>2. CASE type = "LAUNCH"
    <3>1. a \in Seq(Context)
      BY <1>2, <2>2, StrippedIs DEF Contract!ArgsOf, CallsAreTyped
    <3>2. build_request(type, a) = build_launch_request(a)
      BY <2>2 DEF build_request
    <3>3. \A b : parse_request(type, b) = parse_launch_request(b)
      BY <2>2 DEF parse_request
    <3> QED
      BY <1>2, <3>1, <3>2, <3>3, LaunchRequestInverts
  <2>3. CASE type = "REGISTER"
    <3>1. a = -1
      BY <1>2, <2>3 DEF Contract!ArgsOf, CallsAreTyped
    <3>2. build_request(type, a) = build_register_request
      BY <2>3 DEF build_request
    <3>3. \A b : parse_request(type, b) = parse_register_request(b)
      BY <2>3 DEF parse_request
    <3> QED
      BY <1>2, <3>1, <3>2, <3>3, StatusesInvert
  <2>4. CASE type = "FINISH"
    <3>1. a \in [succeed: BOOLEAN, diagnostics: Bytes]
      BY <1>2, <2>4 DEF Contract!ArgsOf, CallsAreTyped
    <3>2. build_request(type, a) = build_finish_request(a.succeed, a.diagnostics)
      BY <2>4 DEF build_request
    <3>3. \A b : parse_request(type, b) = parse_finish_request(b)
      BY <2>4 DEF parse_request
    <3> QED
      BY <1>2, <3>1, <3>2, <3>3, FinishRequestInverts
  <2>5. CASE type = "HEARTBEAT"
    <3>1. a = -1
      BY <1>2, <2>5 DEF Contract!ArgsOf, CallsAreTyped
    <3>2. build_request(type, a) = build_heartbeat_request
      BY <2>5 DEF build_request
    <3>3. \A b : parse_request(type, b) = parse_heartbeat_request(b)
      BY <2>5 DEF parse_request
    <3> QED
      BY <1>2, <3>1, <3>2, <3>3, StatusesInvert
  <2> QED
    BY <1>2, <2>1, <2>2, <2>3, <2>4, <2>5 DEF Requests
<1>3. ASSUME NEW type \in Requests, NEW a \in Contract!RepliesTo(type), build_response(type, a).ok
      PROVE  parse_response(type, build_response(type, a).bytes)
               = [ok |-> TRUE, result |-> Contract!Result(type, a)]
  <2>1. CASE type = "ALLOCATE"
    <3>1. a \in Seq(Node) /\ Contract!Result(type, a) = a
      BY <1>3, <2>1 DEF Contract!RepliesTo, Contract!Result, Contract!StatusType, CallsAreTyped
    <3>2. build_response(type, a) = build_allocate_response(a)
      BY <2>1 DEF build_response
    <3>3. \A b : parse_response(type, b) = parse_allocate_response(b)
      BY <2>1 DEF parse_response
    <3> QED
      BY <1>3, <3>1, <3>2, <3>3, AllocateResponseInverts
  <2>2. CASE type = "LAUNCH"
    <3>1. a \in Seq(Outcome) /\ Contract!Result(type, a) = a
      BY <1>3, <2>2 DEF Contract!RepliesTo, Contract!Result, Contract!StatusType, CallsAreTyped
    <3>2. build_response(type, a) = build_launch_response(a)
      BY <2>2 DEF build_response
    <3>3. \A b : parse_response(type, b) = parse_launch_response(b)
      BY <2>2 DEF parse_response
    <3> QED
      BY <1>3, <3>1, <3>2, <3>3, LaunchResponseInverts
  <2>3. CASE type = "REGISTER"
    <3>1. Contract!Result(type, a) = -1
      BY <2>3 DEF Contract!Result, Contract!StatusType
    <3>2. build_response(type, a) = build_register_response
      BY <2>3 DEF build_response
    <3>3. \A b : parse_response(type, b) = parse_register_response(b)
      BY <2>3 DEF parse_response
    <3> QED
      BY <1>3, <3>1, <3>2, <3>3, StatusesInvert
  <2>4. CASE type = "FINISH"
    <3>1. Contract!Result(type, a) = -1
      BY <2>4 DEF Contract!Result, Contract!StatusType
    <3>2. build_response(type, a) = build_finish_response
      BY <2>4 DEF build_response
    <3>3. \A b : parse_response(type, b) = parse_finish_response(b)
      BY <2>4 DEF parse_response
    <3> QED
      BY <1>3, <3>1, <3>2, <3>3, StatusesInvert
  <2>5. CASE type = "HEARTBEAT"
    <3>1. a \in Seq(CompletedProc) /\ Contract!Result(type, a) = a
      BY <1>3, <2>5 DEF Contract!RepliesTo, Contract!Result, Contract!StatusType, CallsAreTyped
    <3>2. build_response(type, a) = build_heartbeat_response(a)
      BY <2>5 DEF build_response
    <3>3. \A b : parse_response(type, b) = parse_heartbeat_response(b)
      BY <2>5 DEF parse_response
    <3> QED
      BY <1>3, <3>1, <3>2, <3>3, HeartBeatResponseInverts
  <2> QED
    BY <1>3, <2>1, <2>2, <2>3, <2>4, <2>5 DEF Requests
<1>4. ASSUME NEW type \in Requests, NEW b \in Bytes, build_hnp_request_wrapper(b, type).ok
      PROVE  LET w == parse_hnp_request_wrapper(build_hnp_request_wrapper(b, type).bytes)
             IN  w.ok /\ w.result.msg_type = type /\ w.result.inner = b
  <2> DEFINE w == parse_hnp_request_wrapper(build_hnp_request_wrapper(b, type).bytes)
             r == [inner |-> b, msg_type |-> type]
  <2>1. w = [ok |-> TRUE, result |-> r]
    BY <1>4, WrapperInverts
  <2>2. r.inner = b /\ r.msg_type = type
    OBVIOUS
  <2> HIDE DEF w, r
  <2>3. w.ok /\ w.result = r
    BY <2>1
  <2>4. w.ok /\ w.result.msg_type = type /\ w.result.inner = b
    BY <2>2, <2>3
  <2> QED
    BY <2>4 DEF w
<1>5. ASSUME NEW type \in Requests, NEW a \in Contract!ArgsOf(type), build_request(type, a).ok
      PROVE  LET b == build_request(type, a).bytes
                 r == parse_request(type, b)
                 w == parse_hnp_request_wrapper(build_hnp_request_wrapper(b, type).bytes)
             IN  /\ r.ok /\ r.result = a
                 /\ build_hnp_request_wrapper(b, type).ok =>
                      w.ok /\ w.result.msg_type = type /\ w.result.inner = b
  <2>1. PICK b \in Bytes : b = build_request(type, a).bytes
    BY <1>2, <1>5
  <2>2. parse_request(type, b) = [ok |-> TRUE, result |-> a]
    BY <1>2, <1>5, <2>1
  <2>3. parse_request(type, b).ok /\ parse_request(type, b).result = a
    BY <2>2
  <2> QED
    BY <1>4, <2>1, <2>3, ZenonT(30)
<1>6. ASSUME NEW type \in Requests, NEW a \in Contract!RepliesTo(type), build_response(type, a).ok
      PROVE  LET r == parse_response(type, build_response(type, a).bytes)
             IN  r.ok /\ r.result = Contract!Result(type, a)
  <2>1. parse_response(type, build_response(type, a).bytes)
          = [ok |-> TRUE, result |-> Contract!Result(type, a)]
    BY <1>3, <1>6
  <2> QED
    BY <2>1
<1> QED
  BY <1>1, <1>5, <1>6, Zenon DEF Contract!CodecInverts
=============================================================================
