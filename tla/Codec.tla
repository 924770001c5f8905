------------------------------- MODULE Codec -------------------------------
(* The builders and parsers of src/src and, for the peer, of src/test, as   *)
(* functions between C values and bytes, under the names they have in C.    *)
(* A C array is a sequence and a struct a record.  A builder whose message  *)
(* does not fit its buffer and a parser that cannot read its message end    *)
(* the process; here they return a record whose ok is FALSE.                *)
EXTENDS Schemas

CONSTANT BUFFER_SIZE   \* bytes of the buffer of every builder; 8192 in the code
ASSUME BufferSizeAssumption == BUFFER_SIZE \in Nat

\* Mutant of msg_type_enum_t: an enumerator moved in the header alone.
RegisterFirst == <<"REGISTER", "ALLOCATE", "LAUNCH", "FINISH", "HEARTBEAT">>

\* The enums of the C headers; an enumerator's value is its place less one.
msg_type_enum_t == <<"ALLOCATE", "LAUNCH", "REGISTER", "FINISH", "HEARTBEAT">>
process_state_enum_t == <<"RUNNING", "COMPLETED">>

Ordinal(enum, name) == (CHOOSE i \in DOMAIN enum : enum[i] = name) - 1
NameOf(enum, k) == enum[k + 1]

\* avro_value_write to buf[BUFFER_SIZE].
Write(S, v) ==
    LET b == Encode(S, v)
    IN  IF Len(b) <= BUFFER_SIZE THEN [ok |-> TRUE, bytes |-> b] ELSE [ok |-> FALSE]

\* Mutant of Read: a read that failed is not noticed, and the getters find the
\* record as it was made.
ReadUnchecked(S, b) ==
    LET r == Decode(S, b)
        made == [type \in {"boolean", "int", "long", "enum", "string", "bytes", "array", "null"} |->
                    CASE type = "boolean" -> FALSE
                      [] type \in {"int", "long", "enum"} -> 0
                      [] OTHER -> <<>>]
        field(f) == CHOOSE S1 \in {x[2] : x \in Range(S.fields)} : <<f, S1>> \in Range(S.fields)
    IN  [ok |-> TRUE, value |-> IF r.ok THEN r.value
                                ELSE [f \in {x[1] : x \in Range(S.fields)} |-> made[field(f).type]]]

\* avro_value_read.
Read(S, b) == Decode(S, b)

\* What a parser gives its caller, if it does not exit: what its getters get.
Parse(S, b, Get(_)) ==
    LET r == Read(S, b)
    IN  IF r.ok THEN [ok |-> TRUE, result |-> Get(r.value)] ELSE [ok |-> FALSE]

-----------------------------------------------------------------------------
(* Requests, built by the HNP and parsed by the peer.                        *)

build_register_request == Write(RegisterRequest, [register_request |-> "null"])

build_heartbeat_request == Write(HeartBeatRequest, [heartbeat_request |-> "null"])

build_finish_request(succeed, diagnostics) ==
    Write(FinishRequest, [succeed |-> succeed, diagnostics |-> diagnostics])

build_allocate_request(resource_count) ==
    Write(AllocateRequest, [resource_count |-> resource_count])

\* Each context's en_vars are the strings ahead of its en_vars_array pointer.
build_launch_request(contexts) ==
    Write(LaunchRequest, [launchContexts |-> [i \in DOMAIN contexts |->
        [en_vars |-> contexts[i].en_vars, args |-> contexts[i].args,
         host_name |-> contexts[i].host_name, name |-> contexts[i].proc_name]]])

\* Mutant of build_hnp_request_wrapper: the request set as a C string.
WrapAsString(inner, msg_type) ==
    LET cut == IF 0 \in Range(inner) THEN SubSeq(inner, 1, SelectInSeq(inner, LAMBDA x : x = 0) - 1)
               ELSE inner
    IN  Write(HamsterHnpRequest, [request |-> cut, msg_type |-> Ordinal(msg_type_enum_t, msg_type)])

build_hnp_request_wrapper(inner, msg_type) ==
    Write(HamsterHnpRequest, [request |-> inner, msg_type |-> Ordinal(msg_type_enum_t, msg_type)])

parse_hnp_request_wrapper(b) ==
    Parse(HamsterHnpRequest, b,
         LAMBDA v : [inner |-> v.request, msg_type |-> NameOf(msg_type_enum_t, v.msg_type)])

\* avro_value_get_size of a record is its number of fields, whatever was read.
Status(S) == IF Len(S.fields) = 0 THEN 0 ELSE -1

parse_register_request(b) == Parse(RegisterRequest, b, LAMBDA v : Status(RegisterRequest))

parse_heartbeat_request(b) == Parse(HeartBeatRequest, b, LAMBDA v : Status(HeartBeatRequest))

parse_finish_request(b) == Parse(FinishRequest, b, LAMBDA v : v)

parse_allocate_request(b) == Parse(AllocateRequest, b, LAMBDA v : v.resource_count)

parse_launch_request(b) ==
    Parse(LaunchRequest, b, LAMBDA v :
        [i \in DOMAIN v.launchContexts |->
            LET c == v.launchContexts[i]
            IN  [en_vars |-> c.en_vars, args |-> c.args, host_name |-> c.host_name,
                 proc_name |-> c.name]])

-----------------------------------------------------------------------------
(* Responses, built by the peer and parsed by the HNP.                       *)

build_register_response == Write(RegisterResponse, [register_response |-> "null"])

build_finish_response == Write(FinishResponse, [finish_response |-> "null"])

build_allocate_response(nodes) ==
    Write(AllocateResponse, [node_resources |-> [i \in DOMAIN nodes |->
        [host_name |-> nodes[i].host_name, slot |-> nodes[i].slot_num]]])

build_launch_response(results) ==
    Write(LaunchResponse, [results |-> [i \in DOMAIN results |->
        [is_successful |-> results[i].is_successful, name |-> results[i].proc_name]]])

build_heartbeat_response(procs) ==
    Write(HeartBeatResponse, [completed_processes |-> [i \in DOMAIN procs |->
        [name |-> procs[i].proc_name,
         state |-> Ordinal(process_state_enum_t, procs[i].proc_state),
         exit_value |-> procs[i].exit_value]]])

parse_register_response(b) == Parse(RegisterResponse, b, LAMBDA v : Status(RegisterResponse))

parse_finish_response(b) == Parse(FinishResponse, b, LAMBDA v : Status(FinishResponse))

parse_allocate_response(b) ==
    Parse(AllocateResponse, b, LAMBDA v :
        [i \in DOMAIN v.node_resources |->
            [host_name |-> v.node_resources[i].host_name, slot_num |-> v.node_resources[i].slot]])

\* Mutant of parse_launch_response: the jobid read for the vpid too.
ParseJobidTwice(b) ==
    Parse(LaunchResponse, b, LAMBDA v :
        [i \in DOMAIN v.results |->
            [is_successful |-> v.results[i].is_successful,
             proc_name |-> [jobid |-> v.results[i].name.jobid, vpid |-> v.results[i].name.jobid]]])

parse_launch_response(b) ==
    Parse(LaunchResponse, b, LAMBDA v :
        [i \in DOMAIN v.results |->
            [is_successful |-> v.results[i].is_successful, proc_name |-> v.results[i].name]])

parse_heartbeat_response(b) ==
    Parse(HeartBeatResponse, b, LAMBDA v :
        [i \in DOMAIN v.completed_processes |->
            LET p == v.completed_processes[i]
            IN  [proc_name |-> p.name, proc_state |-> NameOf(process_state_enum_t, p.state),
                 exit_value |-> p.exit_value]])

-----------------------------------------------------------------------------
(* The example kept under bak/.                                              *)

build_person(name, weight, height) ==
    Write(Person, [name |-> name, weight |-> weight, height |-> height])

\* It gives its caller nothing and prints what it read.
parse_person(b) ==
    Parse(Person, b, LAMBDA v : [name |-> v.name, height |-> v.height, weight |-> v.weight])
=============================================================================
