------------------------------- MODULE HnpRpc -------------------------------
(* What the library is for: calls of the HNP on the application master.     *)
(* Each request reaches the peer once, in order, with the type and the      *)
(* arguments the caller gave, and each reply comes back to its request.     *)
(* There are no encodings here.  Two things the code adds to such a         *)
(* service are part of the promise: environment strings travel with the     *)
(* first launch only, and a reply to REGISTER or FINISH always reads -1.    *)
EXTENDS Sequences, HnpCalls

CONSTANTS
    MaxRequests,  \* bound: requests of one life of the HNP
    MaxInFlight   \* bound: requests sent and not yet answered

VARIABLES
    sent,     \* requests made by the HNP, [type, arg]
    got,      \* requests the peer has taken
    replied,  \* what it replied to each
    results   \* what the HNP got back from each

vars == <<sent, got, replied, results>>

Launched == \E k \in DOMAIN sent : sent[k].type = "LAUNCH"

ArgsNow(type) ==
    IF type = "LAUNCH" THEN {IF Launched THEN Stripped ELSE Contexts} ELSE Args[type]

Call(type) ==
    /\ Len(sent) < MaxRequests
    /\ Len(sent) - Len(results) < MaxInFlight
    /\ \E arg \in ArgsNow(type) : sent' = Append(sent, [type |-> type, arg |-> arg])
    /\ UNCHANGED <<got, replied, results>>

Handle ==
    /\ Len(got) < Len(sent)
    /\ LET request == sent[Len(got) + 1]
       IN  /\ got' = Append(got, request)
           /\ \E reply \in RepliesTo(request.type) : replied' = Append(replied, reply)
    /\ UNCHANGED <<sent, results>>

Return ==
    /\ Len(results) < Len(replied)
    /\ LET k == Len(results) + 1
       IN  results' = Append(results, Result(sent[k].type, replied[k]))
    /\ UNCHANGED <<sent, got, replied>>

Init == sent = <<>> /\ got = <<>> /\ replied = <<>> /\ results = <<>>
Next == (\E type \in MsgType : Call(type)) \/ Handle \/ Return
Spec == Init /\ [][Next]_vars
=============================================================================
