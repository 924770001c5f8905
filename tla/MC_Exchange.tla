---------------------------- MODULE MC_Exchange ----------------------------
(* An array reply is empty, of one item or of two, and a reply to HEARTBEAT *)
(* may have more items than fit its buffer.  The diagnostics are short, or  *)
(* leave no room for a wrapper.  Three requests allow a launch to be        *)
(* retried with another request between; with two in flight the replies of  *)
(* different types are under way at once.                                   *)
EXTENDS Exchange, Messages

host1 == <<104>>
host2 == <<>>
name1 == [jobid |-> 101, vpid |-> 1]
name2 == [jobid |-> 101, vpid |-> -1]

UpTo2(x, y) == {<<>>, <<x>>, <<x, y>>}

MCContexts ==
    << [en_vars |-> << <<118>>, <<119>> >>, args |-> <<97>>, host_name |-> host1, proc_name |-> name1],
       [en_vars |-> << <<120>> >>, args |-> <<>>, host_name |-> host2, proc_name |-> name2] >>

MCArgs ==
    [type \in {"ALLOCATE", "REGISTER", "FINISH", "HEARTBEAT"} |->
        CASE type = "ALLOCATE" -> {-65, 20}
          [] type = "FINISH" -> {[succeed |-> FALSE, diagnostics |-> <<100>>],
                                 [succeed |-> TRUE, diagnostics |-> [i \in 1..(BUFFER_SIZE - 2) |-> 100]]}
          [] OTHER -> {-1}]

MCReplies ==
    [type \in {"ALLOCATE", "LAUNCH", "HEARTBEAT"} |->
        CASE type = "ALLOCATE" -> UpTo2([host_name |-> host1, slot_num |-> 64],
                                        [host_name |-> host2, slot_num |-> 0])
          [] type = "LAUNCH" -> UpTo2([is_successful |-> TRUE, proc_name |-> name1],
                                      [is_successful |-> FALSE, proc_name |-> name2])
          [] type = "HEARTBEAT" ->
               UpTo2([proc_name |-> name1, proc_state |-> "COMPLETED", exit_value |-> -65],
                     [proc_name |-> name2, proc_state |-> "RUNNING", exit_value |-> 0])
               \cup {[i \in 1..BUFFER_SIZE |->
                        [proc_name |-> name1, proc_state |-> "RUNNING", exit_value |-> 0]]}]
=============================================================================
