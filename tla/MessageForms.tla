---------------------------- MODULE MessageForms ----------------------------
(* A message and what its builder is given.  An array grows element by      *)
(* element as the caller fills it in, before it hands it to the builder.    *)
EXTENDS Codec

CONSTANTS
    MaxItems,      \* bound: items of an array
    Ints,          \* bound: the integers in messages
    Texts,         \* bound: host names, arguments and environment strings
    Diagnostics,   \* bound: diagnostics of a finish request
    EnvVectors     \* bound: sequences of environment strings

ASSUME ArgumentsAssumption ==
    /\ Ints \subseteq Int
    /\ Texts \subseteq Bytes /\ Diagnostics \subseteq Bytes
    /\ EnvVectors \subseteq Seq(Bytes)

VARIABLES form, arg

Requests == {"ALLOCATE", "LAUNCH", "REGISTER", "FINISH", "HEARTBEAT"}
Responses == {"AllocateResponse", "LaunchResponse", "RegisterResponse",
              "FinishResponse", "HeartBeatResponse"}

Forms == Requests \cup Responses \cup {"wrapper", "person"}

Names == [jobid: Ints, vpid: Ints]

\* The structs of the C arrays.
Items(f) ==
    CASE f = "LAUNCH" -> [en_vars: EnvVectors, args: Texts, host_name: Texts, proc_name: Names]
      [] f = "AllocateResponse" -> [host_name: Texts, slot_num: Ints]
      [] f = "LaunchResponse" -> [is_successful: BOOLEAN, proc_name: Names]
      [] f = "HeartBeatResponse" ->
           [proc_name: Names, proc_state: {"RUNNING", "COMPLETED"}, exit_value: Ints]
      [] OTHER -> {}

\* The arguments before any item is added; -1 stands for no argument, as the
\* status is what the parsers of empty messages return.
Scalars(f) ==
    CASE f = "ALLOCATE" -> Ints
      [] f = "FINISH" -> [succeed: BOOLEAN, diagnostics: Diagnostics]
      [] f = "wrapper" -> [inner: Texts, msg_type: Requests]
      [] f = "person" -> [name: Texts, weight: Ints, height: Ints]
      [] f \in {"REGISTER", "HEARTBEAT", "RegisterResponse", "FinishResponse"} -> {-1}
      [] OTHER -> {<<>>}

NothingFilled == form \in Forms /\ arg \in Scalars(form)

AddItem ==
    /\ Items(form) # {} /\ Len(arg) < MaxItems
    /\ \E item \in Items(form) : arg' = Append(arg, item)
    /\ form' = form

Built ==
    CASE form = "ALLOCATE" -> build_allocate_request(arg)
      [] form = "LAUNCH" -> build_launch_request(arg)
      [] form = "REGISTER" -> build_register_request
      [] form = "FINISH" -> build_finish_request(arg.succeed, arg.diagnostics)
      [] form = "HEARTBEAT" -> build_heartbeat_request
      [] form = "AllocateResponse" -> build_allocate_response(arg)
      [] form = "LaunchResponse" -> build_launch_response(arg)
      [] form = "RegisterResponse" -> build_register_response
      [] form = "FinishResponse" -> build_finish_response
      [] form = "HeartBeatResponse" -> build_heartbeat_response(arg)
      [] form = "wrapper" -> build_hnp_request_wrapper(arg.inner, arg.msg_type)
      [] form = "person" -> build_person(arg.name, arg.weight, arg.height)

Parsed(b) ==
    CASE form = "ALLOCATE" -> parse_allocate_request(b)
      [] form = "LAUNCH" -> parse_launch_request(b)
      [] form = "REGISTER" -> parse_register_request(b)
      [] form = "FINISH" -> parse_finish_request(b)
      [] form = "HEARTBEAT" -> parse_heartbeat_request(b)
      [] form = "AllocateResponse" -> parse_allocate_response(b)
      [] form = "LaunchResponse" -> parse_launch_response(b)
      [] form = "RegisterResponse" -> parse_register_response(b)
      [] form = "FinishResponse" -> parse_finish_response(b)
      [] form = "HeartBeatResponse" -> parse_heartbeat_response(b)
      [] form = "wrapper" -> parse_hnp_request_wrapper(b)
      [] form = "person" -> parse_person(b)
=============================================================================
