------------------------------ MODULE Messages ------------------------------
(* The messages of each type, as the dispatch on msg_type_enum_t in the two *)
(* programs chooses their builders and parsers.                             *)
EXTENDS Codec

build_request(type, arg) ==
    CASE type = "ALLOCATE" -> build_allocate_request(arg)
      [] type = "LAUNCH" -> build_launch_request(arg)
      [] type = "REGISTER" -> build_register_request
      [] type = "FINISH" -> build_finish_request(arg.succeed, arg.diagnostics)
      [] type = "HEARTBEAT" -> build_heartbeat_request

parse_request(type, b) ==
    CASE type = "ALLOCATE" -> parse_allocate_request(b)
      [] type = "LAUNCH" -> parse_launch_request(b)
      [] type = "REGISTER" -> parse_register_request(b)
      [] type = "FINISH" -> parse_finish_request(b)
      [] type = "HEARTBEAT" -> parse_heartbeat_request(b)

build_response(type, reply) ==
    CASE type = "ALLOCATE" -> build_allocate_response(reply)
      [] type = "LAUNCH" -> build_launch_response(reply)
      [] type = "REGISTER" -> build_register_response
      [] type = "FINISH" -> build_finish_response
      [] type = "HEARTBEAT" -> build_heartbeat_response(reply)

parse_response(type, b) ==
    CASE type = "ALLOCATE" -> parse_allocate_response(b)
      [] type = "LAUNCH" -> parse_launch_response(b)
      [] type = "REGISTER" -> parse_register_response(b)
      [] type = "FINISH" -> parse_finish_response(b)
      [] type = "HEARTBEAT" -> parse_heartbeat_response(b)
=============================================================================
