-------------------------- MODULE MC_ClientMemory --------------------------
(* Lengths on both sides of what the code distinguishes: 0 (malloc(0)), one *)
(* that fits with and without a wrapper, and the last ones before and after *)
(* BufferSize.                                                              *)
EXTENDS ClientMemory

MCRequestLens ==
    [kind \in MessageKind |->
        CASE kind \in {"REGISTER", "HEARTBEAT"} -> {0}
          [] kind \in {"ALLOCATE", "PERSON"} -> {1}
          [] kind = "FINISH" -> {BufferSize - 3, BufferSize}
          [] kind = "LAUNCH" -> {1, BufferSize + 1}]
=============================================================================
