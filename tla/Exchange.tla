------------------------------ MODULE Exchange ------------------------------
(* The HNP and its peer exchanging encoded messages: build, wrap, unwrap,   *)
(* dispatch on the type, parse, and the same for the reply, which carries   *)
(* no type and is parsed as the reply to the oldest request not answered.   *)
(* The carrier of the bytes is not part of the repository: it is taken to   *)
(* be two first-in first-out channels that lose nothing.  A process that    *)
(* meets a message too long to build or impossible to read calls exit(1).   *)
(* Builders and parsers are parameters here, so that what is proved of the  *)
(* conversation holds for every codec in which they invert each other.      *)
EXTENDS Sequences, CodecContract

CONSTANTS MaxRequests, MaxInFlight   \* as in HnpRpc

ASSUME MaxRequestsAssumption == MaxRequests \in Nat
ASSUME MaxInFlightAssumption == MaxInFlight \in Nat
\* An array of launch contexts, each with its vector of strings.
ASSUME ContextsAssumption ==
    /\ Contexts \in Seq({Contexts[i] : i \in DOMAIN Contexts})
    /\ \A i \in DOMAIN Contexts :
         LET c == Contexts[i]
         IN  /\ c \in [en_vars: {c.en_vars}, args: {c.args},
                       host_name: {c.host_name}, proc_name: {c.proc_name}]
             /\ c.en_vars \in Seq({c.en_vars[k] : k \in DOMAIN c.en_vars})

ASSUME CodecAssumption == CodecInverts

VARIABLES
    cursor,       \* how far en_vars_array of each context has moved
    outstanding,  \* types of the requests not answered, oldest first
    toPeer,       \* wrapped requests on their way
    toHnp,        \* responses on their way
    exited,       \* of each process: "no", "oversize" or "unreadable"
    sent, got, replied, results   \* history, as in HnpRpc

vars == <<cursor, outstanding, toPeer, toHnp, exited, sent, got, replied, results>>
history == <<sent, got, replied, results>>

Rpc == INSTANCE HnpRpc WITH
    sent <- sent, got <- got, replied <- replied, results <- results

Exit(process, why) == exited' = [exited EXCEPT ![process] = why]

-----------------------------------------------------------------------------
(* The HNP.                                                                  *)

\* The contexts as build_launch_request sees them: the strings of each are
\* those from its pointer on.
Ahead ==
    [i \in DOMAIN Contexts |->
        [Contexts[i] EXCEPT !.en_vars = SubSeq(@, cursor[i] + 1, Len(@))]]

\* Mutant of MoveCursor: the pointers of the first context only.
MoveFirstCursor == cursor' = [cursor EXCEPT ![1] = Len(Contexts[1].en_vars)]

\* build_launch_request leaves every pointer at the end of its strings.
MoveCursor == cursor' = [i \in DOMAIN Contexts |-> Len(Contexts[i].en_vars)]

\* A request is built, wrapped and handed to the carrier, or the HNP exits.
Send(type) ==
    /\ exited["hnp"] = "no"
    /\ Len(sent) < MaxRequests /\ Len(outstanding) < MaxInFlight
    /\ IF type = "LAUNCH" THEN MoveCursor ELSE cursor' = cursor
    /\ \E arg \in Rpc!ArgsNow(type) :
         LET inner == BuildRequest(type, IF type = "LAUNCH" THEN Ahead ELSE arg)
             wrapper == Wrap(inner.bytes, type)
         IN  IF inner.ok /\ wrapper.ok
             THEN /\ toPeer' = Append(toPeer, wrapper.bytes)
                  /\ outstanding' = Append(outstanding, type)
                  /\ sent' = Append(sent, [type |-> type, arg |-> arg])
                  /\ exited' = exited
             ELSE Exit("hnp", "oversize") /\ UNCHANGED <<toPeer, outstanding, sent>>
    /\ UNCHANGED <<toHnp, got, replied, results>>

SendAllocate == Send("ALLOCATE")
SendLaunch == Send("LAUNCH")
SendRegister == Send("REGISTER")
SendFinish == Send("FINISH")
SendHeartbeat == Send("HEARTBEAT")

\* Mutant of Awaited: the latest request.
Latest == outstanding[Len(outstanding)]

\* The request a response belongs to.
Awaited == Head(outstanding)

HnpTakes == exited["hnp"] = "no" /\ toHnp # <<>> /\ toHnp' = Tail(toHnp)

Receive ==
    /\ HnpTakes
    /\ LET r == ParseResponse(Awaited, Head(toHnp))
       IN  IF r.ok THEN results' = Append(results, r.result) /\ exited' = exited
           ELSE Exit("hnp", "unreadable") /\ results' = results
    /\ outstanding' = Tail(outstanding)
    /\ UNCHANGED <<cursor, toPeer, sent, got, replied>>

-----------------------------------------------------------------------------
(* The peer.                                                                 *)

PeerTakes == exited["peer"] = "no" /\ toPeer # <<>> /\ toPeer' = Tail(toPeer)

Handle ==
    /\ PeerTakes
    /\ LET w == Unwrap(Head(toPeer))
           type == w.result.msg_type
           request == ParseRequest(type, w.result.inner)
       IN  IF ~w.ok \/ ~request.ok
           THEN Exit("peer", "unreadable") /\ UNCHANGED <<toHnp, got, replied>>
           ELSE \E reply \in RepliesTo(type) :
                  LET response == BuildResponse(type, reply)
                  IN  IF response.ok
                      THEN /\ got' = Append(got, [type |-> type, arg |-> request.result])
                           /\ replied' = Append(replied, reply)
                           /\ toHnp' = Append(toHnp, response.bytes)
                           /\ exited' = exited
                      ELSE Exit("peer", "oversize") /\ UNCHANGED <<toHnp, got, replied>>
    /\ UNCHANGED <<cursor, outstanding, sent, results>>

-----------------------------------------------------------------------------
Init ==
    /\ cursor = [i \in DOMAIN Contexts |-> 0]
    /\ outstanding = <<>> /\ toPeer = <<>> /\ toHnp = <<>>
    /\ exited = [process \in {"hnp", "peer"} |-> "no"]
    /\ sent = <<>> /\ got = <<>> /\ replied = <<>> /\ results = <<>>

Next ==
    \/ SendAllocate
    \/ SendLaunch
    \/ SendRegister
    \/ SendFinish
    \/ SendHeartbeat
    \/ Receive
    \/ Handle

Spec == Init /\ [][Next]_vars

\* Both processes keep taking what has arrived for them.
FairSpec == Spec /\ WF_toHnp(HnpTakes) /\ WF_toPeer(PeerTakes)

-----------------------------------------------------------------------------
(* Properties.                                                               *)

\* Every step is one of the abstract service or invisible to it: each request
\* reaches the peer once, in order, with its type and arguments, environment
\* strings with the first launch only, and each reply reaches the call it
\* answers, item for item.
ImplementsRpc == Rpc!Spec

\* Bytes a process receives are always an encoding of what it takes them for,
\* although replies carry no type: no process ever exits on a message it
\* cannot read.
AlwaysReadable == \A process \in DOMAIN exited : exited[process] # "unreadable"

\* Every request is answered, unless a process gave up on a message that was
\* too long for its buffer.
Answered ==
    \A k \in 1..MaxRequests :
        Len(sent) >= k ~>
            (Len(results) >= k \/ \E process \in DOMAIN exited : exited[process] = "oversize")

\* The HNP is told 0 for every registration the peer accepted.
RegistrationAccepted ==
    \A k \in DOMAIN results : sent[k].type = "REGISTER" => results[k] = 0
=============================================================================
