----------------------------- MODULE RoundTrip -----------------------------
(* Every builder against its parser: in every state the properties say what *)
(* building, wrapping and parsing what the caller has filled in would give. *)
EXTENDS MessageForms, WireLength

\* What LongBytes covers; the code's buffers have 8192 bytes.
ASSUME BufferAssumption == BUFFER_SIZE \div 8192 < 128

vars == <<form, arg>>

Init == NothingFilled
Next == AddItem
Spec == Init /\ [][Next]_vars

-----------------------------------------------------------------------------
\* What a parser makes of what its builder wrote is what was put in: every
\* field in its place, items in order, as many as there were, array or not.
ParseInvertsBuild == Built.ok => Parsed(Built.bytes) = [ok |-> TRUE, result |-> arg]

\* A message cut short anywhere is refused, never taken for a shorter array
\* or a shorter string.
TruncationRefused ==
    Built.ok => \A k \in 0..(Len(Built.bytes) - 1) : ~Parsed(SubSeq(Built.bytes, 1, k)).ok

\* A wrapped request comes out as it went in, with its type, and is as long as
\* WrapperLen says.  The wrapper needs more room than the request: a request
\* that filled its own buffer cannot be wrapped.
WrapInvertsUnwrap ==
    form \in Requests /\ Built.ok =>
        LET w == build_hnp_request_wrapper(Built.bytes, form)
        IN  /\ w.ok <=> WrapperLen(Len(Built.bytes)) <= BUFFER_SIZE
            /\ w.ok => /\ Len(w.bytes) = WrapperLen(Len(Built.bytes))
                       /\ parse_hnp_request_wrapper(w.bytes) =
                            [ok |-> TRUE, result |-> [inner |-> Built.bytes, msg_type |-> form]]

\* The integers the C enums put on the wire are those of the symbols with the
\* same names in the schemas, by which a peer in another language reads them.
SymbolsAgree ==
    /\ form \in Requests =>
         LET w == build_hnp_request_wrapper(<<>>, form)
         IN  w.ok => NameOf(MsgTypeSymbols, Decode(HamsterHnpRequest, w.bytes).value.msg_type) = form
    /\ form = "HeartBeatResponse" /\ Built.ok =>
         LET procs == Decode(HeartBeatResponse, Built.bytes).value.completed_processes
         IN  \A i \in DOMAIN arg :
               NameOf(ProcessStateSymbols, procs[i].state) = arg[i].proc_state
=============================================================================
