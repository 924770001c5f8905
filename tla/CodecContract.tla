--------------------------- MODULE CodecContract ---------------------------
(* What a conversation of the HNP and its peer asks of the builders and the *)
(* parsers it uses.                                                         *)
EXTENDS HnpCalls

CONSTANTS
    BuildRequest(_, _),    \* of a type and an argument: [ok, bytes]
    ParseRequest(_, _),    \* of a type and bytes: [ok, result]
    BuildResponse(_, _),   \* of a type and a reply: [ok, bytes]
    ParseResponse(_, _),   \* of a type and bytes: [ok, result]
    Wrap(_, _),            \* build_hnp_request_wrapper: [ok, bytes]
    Unwrap(_)              \* parse_hnp_request_wrapper: [ok, result]

\* Each parser gets what its builder was given, or what HnpCalls says of a
\* status, and a request comes out of its wrapper with its type.
CodecInverts ==
    \A type \in MsgType :
      /\ \A arg \in ArgsOf(type) :
           LET inner == BuildRequest(type, arg)
               r == ParseRequest(type, inner.bytes)
               wrapper == Wrap(inner.bytes, type)
               w == Unwrap(wrapper.bytes)
           IN  inner.ok =>
                 /\ r.ok /\ r.result = arg
                 /\ wrapper.ok => w.ok /\ w.result.msg_type = type /\ w.result.inner = inner.bytes
      /\ \A reply \in RepliesTo(type) :
           LET response == BuildResponse(type, reply)
               r == ParseResponse(type, response.bytes)
           IN  response.ok => r.ok /\ r.result = Result(type, reply)
=============================================================================
