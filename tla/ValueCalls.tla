----------------------------- MODULE ValueCalls -----------------------------
(* What the builders and parsers do to a record, one avro_value_* call at a *)
(* time.  Every call goes through a macro of avro/value.h: it finds the     *)
(* method in the class of the value, gives EINVAL when there is none, and   *)
(* no caller looks at what it gives.  A call that fails leaves the local it *)
(* should have set as it was: never set, or set by an earlier call.  Which  *)
(* calls fail is up to the schema files, which each builder and each parser *)
(* reads when it is called.                                                 *)
EXTENDS MessageForms

CONSTANT Garbage   \* what a variable holds that nothing was stored in

\* Garbage is no number and no place in a record or a struct: their keys are
\* indices and the names of the fields of the schemas and of the structs.
Keys ==
    Nat \cup {"launchContexts", "en_vars", "args", "host_name", "name", "jobid", "vpid",
              "node_resources", "slot", "results", "is_successful", "completed_processes",
              "state", "exit_value", "succeed", "diagnostics", "resource_count", "request",
              "msg_type", "weight", "height", "proc_name", "proc_state", "slot_num", "inner"}
ASSUME GarbageAssumption == Garbage \notin Int /\ Garbage \notin Seq(Keys)

VARIABLES
    phase,       \* "fill", "build", "built", "parse", "done" or "exited"
    schema,      \* the schema the running call has read
    todo,        \* the calls it still has to make
    locals,      \* of each local, the place in the record it refers to, or a size
    record,      \* the value of its record
    out,         \* what the parser has stored for its caller
    msg,         \* the bytes of the message
    status       \* of its calls: "ok", "einval" or "undefined"

vars == <<form, arg, phase, schema, todo, locals, record, out, msg, status>>

-----------------------------------------------------------------------------
(* Places in a record: sequences of field names and indices.                 *)

FieldSchema(S, f) == S.fields[CHOOSE i \in DOMAIN S.fields : S.fields[i][1] = f][2]

Inside(S, k) == IF S.type = "array" THEN S.items ELSE FieldSchema(S, k)

SchemaAt(S, p) ==
    LET within[k \in 0..Len(p)] == IF k = 0 THEN S ELSE Inside(within[k - 1], p[k])
    IN  within[Len(p)]

At(v, p) ==
    LET within[k \in 0..Len(p)] == IF k = 0 THEN v ELSE within[k - 1][p[k]]
    IN  within[Len(p)]

\* The value v with x at place p, from the innermost value outwards.
Stored(v, p, x) ==
    LET from[k \in 0..Len(p)] ==
          IF k = 0 THEN x
          ELSE LET n == Len(p) - k
               IN  [At(v, SubSeq(p, 1, n)) EXCEPT ![p[n + 1]] = from[k - 1]]
    IN  from[Len(p)]

\* avro_generic_value_new: zero, empty, or a record of new values.
Zeroed(S) ==
    CASE S.type \in {"int", "long", "enum"} -> 0
      [] S.type = "null" -> "null"
      [] S.type = "boolean" -> FALSE
      [] S.type \in {"string", "bytes", "array"} -> <<>>

NewWith(Part(_), S) ==
    IF S.type = "record"
    THEN [f \in {S.fields[i][1] : i \in DOMAIN S.fields} |-> Part(FieldSchema(S, f))]
    ELSE Zeroed(S)

\* A record has records in it, but none with records in them outside arrays.
New_1(S) == NewWith(Zeroed, S)
New(S) == NewWith(New_1, S)

-----------------------------------------------------------------------------
(* The methods of a class, by the type of its schema.                        *)

Getters ==
    [boolean |-> {"get_boolean"}, int |-> {"get_int"}, long |-> {"get_long"},
     null |-> {"get_null"}, enum |-> {"get_enum"},
     bytes |-> {"get_bytes", "grab_bytes"}, string |-> {"get_string", "grab_string"},
     record |-> {}, array |-> {}]

Setters ==
    [boolean |-> {"set_boolean"}, int |-> {"set_int"}, long |-> {"set_long"},
     null |-> {"set_null"}, enum |-> {"set_enum"},
     bytes |-> {"set_bytes", "give_bytes"},
     string |-> {"set_string", "set_string_len", "give_string_len"},
     record |-> {}, array |-> {}]

\* Those of the types the schemas have; maps and unions are not among them.
CompoundGetters(type) ==
    CASE type = "array" -> {"get_size", "get_by_index"}
      [] type = "record" -> {"get_size", "get_by_index", "get_by_name"}
      [] OTHER -> {}

CompoundSetters(type) == IF type = "array" THEN {"append"} ELSE {}

Methods(type) ==
    Getters[type] \cup Setters[type] \cup CompoundGetters(type) \cup CompoundSetters(type)

-----------------------------------------------------------------------------
(* Calls.  "on" is the local a call is made on, "to" what it sets.           *)

ByName(v, f, c) == <<[op |-> "get_by_name", on |-> v, name |-> f, to |-> c]>>
ByIndex(v, i, c) == <<[op |-> "get_by_index", on |-> v, index |-> i, to |-> c]>>
Item(v, c) == <<[op |-> "append", on |-> v, to |-> c]>>
Size(v, n) == <<[op |-> "get_size", on |-> v, to |-> n]>>

SetField(v, f, c, set, x) == ByName(v, f, c) \o <<[op |-> set, on |-> c, value |-> x]>>
GetField(v, f, c, get, place) == ByName(v, f, c) \o <<[op |-> get, on |-> c, to |-> place]>>

\* Steps of the callers: n = 0, a loop of n rounds (over the environment of
\* element i, or over the array of the message), an array of n elements that is
\* not initialised, and the status a size is turned into.
Zero(n) == <<[op |-> "zero", to |-> n]>>
For(n, loop, i) == <<[op |-> "for", on |-> n, loop |-> loop, element |-> i]>>
Malloc(n, place, element) == <<[op |-> "xmalloc", on |-> n, to |-> place, element |-> element]>>
Return(n) == <<[op |-> "return", on |-> n]>>

-----------------------------------------------------------------------------
(* The calls of the builders.  The locals have the names they have in C.     *)

BuildArray(f, array, item, Fields(_)) ==
    ByName("record", f, array)
    \o FlattenSeq([i \in DOMAIN arg |-> Item(array, item) \o Fields(i)])

\* Mutant of SetName: the vpid stored where the jobid was.
SetNameTwice(v, name) ==
    ByName(v, "name", "name_value")
    \o SetField("name_value", "jobid", "jobid_value", "set_int", name.jobid)
    \o ByName("name_value", "vpid", "vpid_value")
    \o <<[op |-> "set_int", on |-> "jobid_value", value |-> name.vpid]>>

SetName(v, name) ==
    ByName(v, "name", "name_value")
    \o SetField("name_value", "jobid", "jobid_value", "set_int", name.jobid)
    \o SetField("name_value", "vpid", "vpid_value", "set_int", name.vpid)

LaunchRequestCalls ==
    BuildArray("launchContexts", "launchContexts_value", "launchContext_value", LAMBDA i :
        ByName("launchContext_value", "en_vars", "en_vars_array_value")
        \o FlattenSeq([j \in DOMAIN arg[i].en_vars |->
             Item("en_vars_array_value", "en_var_item_value")
             \o <<[op |-> "set_string", on |-> "en_var_item_value",
                   value |-> arg[i].en_vars[j]]>>])
        \o SetField("launchContext_value", "args", "args_value", "set_string", arg[i].args)
        \o SetField("launchContext_value", "host_name", "host_name_value", "set_string",
                    arg[i].host_name)
        \o SetName("launchContext_value", arg[i].proc_name))

AllocateResponseCalls ==
    BuildArray("node_resources", "node_resources_value", "NodeResource_value", LAMBDA i :
        SetField("NodeResource_value", "host_name", "host_name_value", "set_string",
                 arg[i].host_name)
        \o SetField("NodeResource_value", "slot", "slot_value", "set_int", arg[i].slot_num))

LaunchResponseCalls ==
    BuildArray("results", "results_value", "LaunchResult_value", LAMBDA i :
        SetField("LaunchResult_value", "is_successful", "is_successful_value", "set_boolean",
                 arg[i].is_successful)
        \o SetName("LaunchResult_value", arg[i].proc_name))

HeartBeatResponseCalls ==
    BuildArray("completed_processes", "completed_processes_value", "ProcessStatus_value",
        LAMBDA i :
        SetName("ProcessStatus_value", arg[i].proc_name)
        \o SetField("ProcessStatus_value", "state", "state_value", "set_enum",
                    Ordinal(process_state_enum_t, arg[i].proc_state))
        \o SetField("ProcessStatus_value", "exit_value", "exit_value_value", "set_int",
                    arg[i].exit_value))

\* Mutant of FinishRequestCalls: the boolean is set as the int a C bool is.
FinishRequestCallsAsInt ==
    SetField("record", "succeed", "succeed_value", "set_int", arg.succeed)
    \o SetField("record", "diagnostics", "diagnostics_value", "set_string", arg.diagnostics)

FinishRequestCalls ==
    SetField("record", "succeed", "succeed_value", "set_boolean", arg.succeed)
    \o SetField("record", "diagnostics", "diagnostics_value", "set_string", arg.diagnostics)

AllocateRequestCalls ==
    SetField("record", "resource_count", "resource_count_value", "set_int", arg)

WrapperCalls ==
    SetField("record", "request", "request_value", "set_bytes", arg.inner)
    \o SetField("record", "msg_type", "msg_type_value", "set_enum",
                Ordinal(msg_type_enum_t, arg.msg_type))

PersonCalls ==
    SetField("record", "name", "name_value", "set_string", arg.name)
    \o SetField("record", "weight", "weight_value", "set_long", arg.weight)
    \o SetField("record", "height", "height_value", "set_long", arg.height)

\* The four messages of one null field are written as they were made.
BuilderCalls ==
    CASE form = "LAUNCH" -> LaunchRequestCalls
      [] form = "ALLOCATE" -> AllocateRequestCalls
      [] form = "FINISH" -> FinishRequestCalls
      [] form = "AllocateResponse" -> AllocateResponseCalls
      [] form = "LaunchResponse" -> LaunchResponseCalls
      [] form = "HeartBeatResponse" -> HeartBeatResponseCalls
      [] form = "wrapper" -> WrapperCalls
      [] form = "person" -> PersonCalls
      [] OTHER -> <<>>

-----------------------------------------------------------------------------
(* The calls of the parsers.  A struct is garbage until it is filled in.     *)

process_name_t == [jobid |-> Garbage, vpid |-> Garbage]
launch_context_t == [en_vars |-> Garbage, args |-> Garbage, host_name |-> Garbage,
                     proc_name |-> process_name_t]
launch_response_t == [is_successful |-> Garbage, proc_name |-> process_name_t]
node_resource_t == [host_name |-> Garbage, slot_num |-> Garbage]
completed_proc_t == [proc_name |-> process_name_t, proc_state |-> Garbage,
                     exit_value |-> Garbage]

\* What a parser hands out when all of it is stored, for which garbage is not
\* to be taken.
Struct(f) ==
    LET name == [jobid: Int, vpid: Int]
    IN  CASE f = "LAUNCH" ->
               [en_vars: Seq(Bytes), args: Bytes, host_name: Bytes, proc_name: name]
          [] f = "AllocateResponse" -> [host_name: Bytes, slot_num: Int]
          [] f = "LaunchResponse" -> [is_successful: BOOLEAN, proc_name: name]
          [] f = "HeartBeatResponse" ->
               [proc_name: name, proc_state: {"RUNNING", "COMPLETED"}, exit_value: Int]
          [] f = "FINISH" -> [succeed: BOOLEAN, diagnostics: Bytes]
          [] f = "wrapper" -> [inner: Bytes, msg_type: Requests]
          [] f = "person" -> [name: Bytes, height: Int, weight: Int]
          [] OTHER -> Int
ASSUME UnsetAssumption ==
    /\ \A f \in Forms : Garbage \notin Struct(f) /\ Garbage \notin Seq(Struct(f))
    /\ Garbage \notin BOOLEAN /\ Garbage \notin Requests
    /\ Garbage \notin {"RUNNING", "COMPLETED"}
    /\ Garbage \notin Seq(Bytes) /\ Garbage \notin [jobid: Int, vpid: Int]

ParseArray(f, array, element) ==
    ByName("record", f, array)
    \o Size(array, "array_size")
    \o Malloc("array_size", <<>>, element)
    \o For("array_size", f, 0)

GetName(v, vpid_value, i) ==
    ByName(v, "name", "name_value")
    \o GetField("name_value", "jobid", "jobid_value", "get_int", <<i, "proc_name", "jobid">>)
    \o GetField("name_value", "vpid", vpid_value, "get_int", <<i, "proc_name", "vpid">>)

\* Mutant of EnvironmentCalls: the size is not zero before it is asked for.
EnvironmentSizeUnset(i) ==
    ByName("launchContext_value", "en_vars", "en_vars_array_value")
    \o Size("en_vars_array_value", "en_vars_array_size")
    \o Malloc("en_vars_array_size", <<i, "en_vars">>, Garbage)
    \o For("en_vars_array_size", "en_vars", i)

EnvironmentCalls(i) ==
    Zero("en_vars_array_size")
    \o ByName("launchContext_value", "en_vars", "en_vars_array_value")
    \o Size("en_vars_array_value", "en_vars_array_size")
    \o Malloc("en_vars_array_size", <<i, "en_vars">>, Garbage)
    \o For("en_vars_array_size", "en_vars", i)

EnvironmentRound(i, j) ==
    ByIndex("en_vars_array_value", j, "en_vars_item_value")
    \o <<[op |-> "get_string", on |-> "en_vars_item_value", to |-> <<i, "en_vars", j>>]>>

\* One local, jobid_value, for both fields of the name.
LaunchRequestRound(i) ==
    ByIndex("launchContexts_value", i, "launchContext_value")
    \o EnvironmentCalls(i)
    \o GetField("launchContext_value", "args", "args_value", "get_string", <<i, "args">>)
    \o GetField("launchContext_value", "host_name", "host_name_value", "get_string",
                <<i, "host_name">>)
    \o GetName("launchContext_value", "jobid_value", i)

AllocateResponseRound(i) ==
    ByIndex("node_resources_value", i, "NodeResource_value")
    \o GetField("NodeResource_value", "host_name", "host_name_value", "get_string",
                <<i, "host_name">>)
    \o GetField("NodeResource_value", "slot", "slot_value", "get_int", <<i, "slot_num">>)

\* Mutant of LaunchResponseRound: the element is not fetched anew each round.
LaunchResponseFirst(i) ==
    ByIndex("results_value", 1, "LaunchResult_value")
    \o GetField("LaunchResult_value", "is_successful", "is_successful_value", "get_boolean",
                <<i, "is_successful">>)
    \o GetName("LaunchResult_value", "vpid_value", i)

LaunchResponseRound(i) ==
    ByIndex("results_value", i, "LaunchResult_value")
    \o GetField("LaunchResult_value", "is_successful", "is_successful_value", "get_boolean",
                <<i, "is_successful">>)
    \o GetName("LaunchResult_value", "vpid_value", i)

HeartBeatResponseRound(i) ==
    ByIndex("completed_processes_value", i, "ProcessStatus_value")
    \o GetName("ProcessStatus_value", "vpid_value", i)
    \o GetField("ProcessStatus_value", "state", "state_value", "get_enum", <<i, "proc_state">>)
    \o GetField("ProcessStatus_value", "exit_value", "exit_value_value", "get_int",
                <<i, "exit_value">>)

Round(loop, i, k) ==
    CASE loop = "launchContexts" -> LaunchRequestRound(k)
      [] loop = "en_vars" -> EnvironmentRound(i, k)
      [] loop = "node_resources" -> AllocateResponseRound(k)
      [] loop = "results" -> LaunchResponseRound(k)
      [] loop = "completed_processes" -> HeartBeatResponseRound(k)

\* What a message of one null field is worth: the number of its fields.
StatusCalls == Zero("size") \o Size("record", "size") \o Return("size")

ParserCalls ==
    CASE form = "LAUNCH" ->
           ParseArray("launchContexts", "launchContexts_value", launch_context_t)
      [] form = "AllocateResponse" ->
           ParseArray("node_resources", "node_resources_value", node_resource_t)
      [] form = "LaunchResponse" -> ParseArray("results", "results_value", launch_response_t)
      [] form = "HeartBeatResponse" ->
           ParseArray("completed_processes", "completed_processes_value", completed_proc_t)
      [] form = "ALLOCATE" -> GetField("record", "resource_count", "field_value", "get_int", <<>>)
      [] form = "FINISH" ->
           GetField("record", "succeed", "succeed_value", "get_boolean", <<"succeed">>)
           \o GetField("record", "diagnostics", "diag_value", "get_string", <<"diagnostics">>)
      [] form = "wrapper" ->
           GetField("record", "request", "request_value", "get_bytes", <<"inner">>)
           \o GetField("record", "msg_type", "msg_type_value", "get_enum", <<"msg_type">>)
      [] form = "person" ->
           GetField("record", "name", "name_value", "get_string", <<"name">>)
           \o GetField("record", "height", "height_value", "get_long", <<"height">>)
           \o GetField("record", "weight", "weight_value", "get_long", <<"weight">>)
      [] OTHER -> StatusCalls

\* The variables of the caller, or of parse_person, that are stored into.
Unset ==
    CASE form = "FINISH" -> [succeed |-> Garbage, diagnostics |-> Garbage]
      [] form = "wrapper" -> [inner |-> Garbage, msg_type |-> Garbage]
      [] form = "person" -> [name |-> Garbage, height |-> Garbage, weight |-> Garbage]
      [] OTHER -> Garbage

\* An int read as an enumerator of the C type it is stored in.
Converted(get, place, x) ==
    IF get # "get_enum" THEN x
    ELSE NameOf(IF Last(place) = "msg_type" THEN msg_type_enum_t ELSE process_state_enum_t, x)

Locals ==
    {"record", "launchContexts_value", "launchContext_value", "en_vars_array_value",
     "en_var_item_value", "en_vars_item_value", "args_value", "host_name_value", "name_value",
     "jobid_value", "vpid_value", "node_resources_value", "NodeResource_value", "slot_value",
     "results_value", "LaunchResult_value", "is_successful_value", "completed_processes_value",
     "ProcessStatus_value", "state_value", "exit_value_value", "succeed_value",
     "diagnostics_value", "diag_value", "resource_count_value", "field_value", "request_value",
     "msg_type_value", "weight_value", "height_value", "size", "array_size",
     "en_vars_array_size"}

-----------------------------------------------------------------------------
(* The macro: through the class of the value the local refers to.            *)

Here == Head(todo)
Busy == phase \in {"build", "parse"} /\ todo # <<>>
Called(ops) == Busy /\ Here.op \in ops

\* The place the local refers to, its type and its value.
Place == locals[Here.on]
Type == SchemaAt(schema, Place).type
Value == At(record, Place)

CallNames == UNION {Methods(type) : type \in DOMAIN Getters}

\* Otherwise EINVAL: no such method, no such field, or no such element.
Succeeds ==
    /\ Here.op \in Methods(Type)
    /\ Here.op = "get_by_name" => Here.name \in DOMAIN Value
    /\ Here.op = "get_by_index" => Here.index \in DOMAIN Value

Answers(ops) == Called(ops) /\ Place # Garbage /\ Succeeds

Continue == todo' = Tail(todo)

\* The local was never set: whatever the macro finds is not a class.
CallUnset ==
    /\ Busy /\ Here.op # "zero" /\ Place = Garbage
    /\ status' = "undefined"
    /\ todo' = <<>>
    /\ UNCHANGED <<form, arg, phase, schema, locals, record, out, msg>>

CallFails ==
    /\ Called(CallNames) /\ Place # Garbage /\ ~Succeeds
    /\ status' = "einval"
    /\ Continue
    /\ UNCHANGED <<form, arg, phase, schema, locals, record, out, msg>>

GetChild ==
    /\ Answers({"get_by_name", "get_by_index"})
    /\ locals' = [locals EXCEPT ![Here.to] =
                    Append(Place, IF Here.op = "get_by_name" THEN Here.name ELSE Here.index)]
    /\ Continue
    /\ UNCHANGED <<form, arg, phase, schema, record, out, msg, status>>

AppendItem ==
    /\ Answers({"append"})
    /\ record' = Stored(record, Place, Append(Value, New(SchemaAt(schema, Place).items)))
    /\ locals' = [locals EXCEPT ![Here.to] = Append(Place, Len(Value) + 1)]
    /\ Continue
    /\ UNCHANGED <<form, arg, phase, schema, out, msg, status>>

GetSize ==
    /\ Answers({"get_size"})
    /\ locals' = [locals EXCEPT ![Here.to] = Cardinality(DOMAIN Value)]
    /\ Continue
    /\ UNCHANGED <<form, arg, phase, schema, record, out, msg, status>>

Set ==
    /\ Answers(UNION Range(Setters))
    /\ record' = Stored(record, Place, Here.value)
    /\ Continue
    /\ UNCHANGED <<form, arg, phase, schema, locals, out, msg, status>>

Get ==
    /\ Answers(UNION Range(Getters))
    /\ out' = Stored(out, Here.to, Converted(Here.op, Here.to, Value))
    /\ Continue
    /\ UNCHANGED <<form, arg, phase, schema, locals, record, msg, status>>

-----------------------------------------------------------------------------
(* The steps of the callers between their calls.                             *)

SetToZero ==
    /\ Called({"zero"})
    /\ locals' = [locals EXCEPT ![Here.to] = 0]
    /\ Continue
    /\ UNCHANGED <<form, arg, phase, schema, record, out, msg, status>>

Allocate ==
    /\ Called({"xmalloc"}) /\ Place # Garbage
    /\ out' = Stored(out, Here.to, [k \in 1..Place |-> Here.element])
    /\ Continue
    /\ UNCHANGED <<form, arg, phase, schema, locals, record, msg, status>>

\* Mutant of Rounds: the last round is left out.
RoundsButLast == FlattenSeq([k \in 1..(Place - 1) |-> Round(Here.loop, Here.element, k)])

Rounds == FlattenSeq([k \in 1..Place |-> Round(Here.loop, Here.element, k)])

Loop ==
    /\ Called({"for"}) /\ Place # Garbage
    /\ todo' = Rounds \o Tail(todo)
    /\ UNCHANGED <<form, arg, phase, schema, locals, record, out, msg, status>>

\* Mutant of Accepts: the condition that was commented out.
AcceptsFields(size) == size > 0

\* A response of no fields is a success.
Accepts(size) == size = 0

ReturnStatus ==
    /\ Called({"return"}) /\ Place # Garbage
    /\ out' = IF Accepts(Place) THEN 0 ELSE -1
    /\ Continue
    /\ UNCHANGED <<form, arg, phase, schema, locals, record, msg, status>>

-----------------------------------------------------------------------------
(* A builder, then a parser.                                                 *)

\* The schema of a message, and what its file may hold instead.
Schema ==
    [LAUNCH |-> LaunchRequest, ALLOCATE |-> AllocateRequest, REGISTER |-> RegisterRequest,
     FINISH |-> FinishRequest, HEARTBEAT |-> HeartBeatRequest,
     AllocateResponse |-> AllocateResponse, LaunchResponse |-> LaunchResponse,
     RegisterResponse |-> RegisterResponse, FinishResponse |-> FinishResponse,
     HeartBeatResponse |-> HeartBeatResponse, wrapper |-> HamsterHnpRequest,
     person |-> Person]

Earlier(f) ==
    CASE f = "LAUNCH" -> {EarlierLaunchRequest}
      [] f \in {"REGISTER", "HEARTBEAT", "RegisterResponse", "FinishResponse"} -> {NoFields}
      [] OTHER -> {}

Init ==
    /\ NothingFilled
    /\ phase = "fill"
    /\ schema = Schema[form]
    /\ todo = <<>> /\ msg = <<>>
    /\ locals = [v \in Locals |-> Garbage]
    /\ record = Garbage /\ out = Garbage
    /\ status = "ok"

\* The caller fills in one more element of the array it will hand over.
Fill ==
    /\ phase = "fill"
    /\ AddItem
    /\ UNCHANGED <<phase, schema, todo, locals, record, out, msg, status>>

\* A call starts: it reads the schema, and its locals are as they are.
Enter(next, S, value, calls) ==
    /\ phase' = next
    /\ schema' = S
    /\ record' = value
    /\ locals' = [v \in Locals |-> IF v = "record" THEN <<>> ELSE Garbage]
    /\ todo' = calls
    /\ status' = "ok"

StartBuild ==
    /\ phase = "fill"
    /\ \E S \in {Schema[form]} \cup Earlier(form) : Enter("build", S, New(S), BuilderCalls)
    /\ UNCHANGED <<form, arg, out, msg>>

\* avro_value_write, and the message is the caller's; exit(1) if it has no room.
EndBuild ==
    /\ phase = "build" /\ todo = <<>> /\ status # "undefined"
    /\ LET w == Write(schema, record)
       IN  /\ phase' = IF w.ok THEN "built" ELSE "exited"
           /\ msg' = IF w.ok THEN w.bytes ELSE msg
    /\ UNCHANGED <<form, arg, schema, todo, locals, record, out, status>>

\* avro_value_read comes first; exit(1) if it fails.
StartParse ==
    /\ phase = "built"
    /\ \E S \in {Schema[form]} \cup Earlier(form) :
         LET r == Read(S, msg)
         IN  /\ r.ok
             /\ Enter("parse", S, r.value, ParserCalls)
    /\ out' = Unset
    /\ UNCHANGED <<form, arg, msg>>

ParseExits ==
    /\ phase = "built"
    /\ \E S \in {Schema[form]} \cup Earlier(form) : ~Read(S, msg).ok
    /\ phase' = "exited"
    /\ UNCHANGED <<form, arg, schema, todo, locals, record, out, msg, status>>

EndParse ==
    /\ phase = "parse" /\ todo = <<>>
    /\ status # "undefined"
    /\ phase' = "done"
    /\ UNCHANGED <<form, arg, schema, todo, locals, record, out, msg, status>>

Next ==
    \/ Fill \/ StartBuild \/ EndBuild \/ StartParse \/ ParseExits \/ EndParse
    \/ CallUnset \/ CallFails
    \/ GetChild \/ AppendItem \/ GetSize \/ Set \/ Get
    \/ SetToZero \/ Allocate \/ Loop \/ ReturnStatus

Spec == Init /\ [][Next]_vars

-----------------------------------------------------------------------------
(* Properties.                                                               *)

\* With the schema of its message no call of a builder or a parser fails, and
\* none is made on a local that was not set, although nobody looks.
CallsSucceed == schema = Schema[form] => status = "ok"

\* What a builder leaves in its record, call by call, is the value that Codec
\* says it writes: each local refers to the element and the field meant when it
\* is set.
BuildsMessage ==
    phase = "built" /\ schema = Schema[form] =>
        [ok |-> TRUE, bytes |-> msg] = Built

\* What a parser has stored when it returns is what Codec says of the bytes,
\* whichever schema they were written with.
ParsesMessage ==
    phase = "done" /\ schema = Schema[form] =>
        [ok |-> TRUE, result |-> out] = Parsed(msg)

\* The one way to undefined behaviour: a launch request with an environment,
\* built where its schema is the earlier one, in which en_vars is a string.
\* No parser gets there, whatever either side's schema was.
UndefinedIsEnvironment ==
    status = "undefined" =>
        /\ phase = "build" /\ form = "LAUNCH" /\ schema = EarlierLaunchRequest
        /\ \E i \in DOMAIN arg : arg[i].en_vars # <<>>

\* No parser hands out what it did not store, even when its calls failed.
NothingUnset ==
    LET Known(x) == x # Garbage
        \* en_vars and proc_name are one level further down
        Filled(s) ==
            \A f \in DOMAIN s :
              /\ Known(s[f])
              /\ f \in {"en_vars", "proc_name"} => \A g \in DOMAIN s[f] : Known(s[f][g])
    IN  phase = "done" =>
          /\ Known(out)
          /\ Items(form) # {} => \A i \in DOMAIN out : Filled(out[i])
          /\ form \in {"FINISH", "wrapper", "person"} => Filled(out)

\* The status of a message of one null field tells the parser's schema, not
\* what was sent: success with the earlier one, -1 with the one in use.
StatusTellsSchema ==
    phase = "done" /\ Earlier(form) = {NoFields} => (out = 0 <=> schema = NoFields)
=============================================================================
