------------------------------ MODULE HnpCalls ------------------------------
(* The calls of the HNP on the application master: the types of the         *)
(* requests, the arguments they take and the replies they get.              *)
EXTENDS Integers

CONSTANTS
    Args,      \* of each type but LAUNCH: the arguments a caller may give
    Contexts,  \* the launch contexts of the HNP, a sequence
    Replies    \* of each type with an array: the arrays the peer may reply

MsgType == {"ALLOCATE", "LAUNCH", "REGISTER", "FINISH", "HEARTBEAT"}
StatusType == {"REGISTER", "FINISH"}

\* Launch contexts once their strings were sent.
Stripped == [i \in DOMAIN Contexts |-> [Contexts[i] EXCEPT !.en_vars = <<>>]]

\* What the caller of type may pass: for LAUNCH, its contexts before or after
\* their strings were sent.
ArgsOf(type) == IF type = "LAUNCH" THEN {Contexts, Stripped} ELSE Args[type]

\* There is nothing in a reply to REGISTER or FINISH; None stands for it.
None == <<>>
RepliesTo(type) == IF type \in StatusType THEN {None} ELSE Replies[type]
Result(type, reply) == IF type \in StatusType THEN -1 ELSE reply
=============================================================================
