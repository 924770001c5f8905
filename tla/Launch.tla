------------------------------- MODULE Launch -------------------------------
(* Launch contexts, the one argument a builder of the library modifies.     *)
(* en_vars_array is the only pointer to a vector of environment strings     *)
(* ended by NULL; build_launch_request and free_launch_context_array both   *)
(* move it from string to string and never move it back.  The caller is the *)
(* HNP, which owns the strings, or the peer, whose parse_launch_request     *)
(* takes them from the record it decodes; both may build, print and free in *)
(* any order, and a request may be built again (a retry).                   *)
(* The other allocations of these calls are in ClientMemory; a call that    *)
(* ends in exit(1) ends the behaviour here.                                 *)
EXTENDS CMemory

CONSTANTS
    ArrayId,      \* bound: the launch context arrays of one life
    MaxContexts,  \* bound: contexts in an array
    MaxEnv,       \* bound: environment strings of a context
    MaxBuilds     \* bound: launch requests built

ASSUME MaxContextsAssumption == MaxContexts \in Nat
ASSUME MaxEnvAssumption == MaxEnv \in Nat
ASSUME MaxBuildsAssumption == MaxBuilds \in Nat

VARIABLES
    state,    \* of each array: "none" before it is made, "held", "freed"
    size,     \* array_size of each array
    count,    \* strings before the NULL, of each context of each array
    cursor,   \* how far en_vars_array has moved, likewise
    heap,     \* the C heap
    messages, \* the launch requests built
    built     \* how many

vars == <<state, size, count, cursor, heap, messages, built>>

Context == 1..MaxContexts
Env == Context \X (1..MaxEnv)   \* the j-th string of the i-th context
Block == ArrayId \X {"array", "vector", "args", "host_name", "env"}
           \X (0..MaxContexts) \X (0..MaxEnv)

\* A request carries, for each context of the array, the strings it appended.
Message == [no: 1..MaxBuilds, array: ArrayId, size: 0..MaxContexts,
            counts: [Context -> 0..MaxEnv], envs: SUBSET Env]

\* All strings of array a, and those en_vars_array has not moved past.
EnvsOf(a) == {e \in Env : e[1] <= size[a] /\ e[2] <= count[a][e[1]]}
Ahead(a) == {e \in EnvsOf(a) : cursor[a][e[1]] < e[2]}

EnvBlocks(a, envs) == {<<a, "env", e[1], e[2]>> : e \in envs}
VectorBlocks(a) == {<<a, "vector", i, 0>> : i \in 1..size[a]}
FieldBlocks(a) == {<<a, field, i, 0>> : field \in {"args", "host_name"}, i \in 1..size[a]}
ArrayBlock(a) == IF size[a] = 0 THEN {} ELSE {<<a, "array", 0, 0>>}

\* Mutant of AtEnd: the loop tests the pointer after moving it.
AtEndPastNull(a) == [i \in Context |-> IF i <= size[a] THEN count[a][i] + 1 ELSE cursor[a][i]]

\* en_vars_array of every context after a loop to the terminating NULL.
AtEnd(a) == [i \in Context |-> IF i <= size[a] THEN count[a][i] ELSE cursor[a][i]]

-----------------------------------------------------------------------------
\* An array of k contexts with counts c is allocated, strings included.
Make(a, k, c) ==
    /\ state[a] = "none"
    /\ state' = [state EXCEPT ![a] = "held"]
    /\ size' = [size EXCEPT ![a] = k]
    /\ count' = [count EXCEPT ![a] = c]
    /\ cursor' = [cursor EXCEPT ![a] = [i \in Context |-> 0]]
    /\ heap' = Alloc(heap, ArrayBlock(a)' \cup VectorBlocks(a)' \cup FieldBlocks(a)'
                             \cup EnvBlocks(a, EnvsOf(a)'))
    /\ UNCHANGED <<messages, built>>

\* The caller fills in contexts of its own.
NewContexts(a) ==
    \E k \in Context, c \in [Context -> 0..MaxEnv] :
        (\A i \in Context : i > k => c[i] = 0) /\ Make(a, k, c)

\* The peer decodes a request; an empty one gives a NULL array.
ParseLaunchRequest(a) == \E m \in messages : Make(a, m.size, m.counts)

\* Mutant of MoveToEnd: the first context's pointer is not moved.
MoveButFirst(a) == cursor' = [cursor EXCEPT ![a] = [AtEnd(a) EXCEPT ![1] = cursor[a][1]]]

\* The effect on the caller's array of a loop over its strings.
MoveToEnd(a) == cursor' = [cursor EXCEPT ![a] = AtEnd(a)]

\* build_launch_request appends the strings ahead of each pointer, and moves
\* it past them.
BuildLaunchRequest(a) ==
    /\ state[a] = "held"
    /\ built < MaxBuilds
    /\ built' = built + 1
    /\ messages' = messages \cup
         {[no |-> built + 1, array |-> a, size |-> size[a],
           counts |-> [i \in Context |-> count[a][i] - cursor[a][i]], envs |-> Ahead(a)]}
    /\ heap' = Use(heap, ArrayBlock(a) \cup VectorBlocks(a) \cup FieldBlocks(a)
                           \cup EnvBlocks(a, Ahead(a)))
    /\ MoveToEnd(a)
    /\ UNCHANGED <<state, size, count>>

\* A caller that prints the strings moves the pointer too.
PrintContexts(a) ==
    /\ state[a] = "held"
    /\ heap' = Use(heap, ArrayBlock(a) \cup VectorBlocks(a) \cup FieldBlocks(a)
                           \cup EnvBlocks(a, Ahead(a)))
    /\ MoveToEnd(a)
    /\ UNCHANGED <<state, size, count, messages, built>>

\* Mutant of Freed: the vectors go as well, through the moved pointers, which
\* no longer point to the start of a block.
FreedWithVectors(a) ==
    EnvBlocks(a, Ahead(a)) \cup FieldBlocks(a) \cup ArrayBlock(a)
      \cup {<<a, "vector", i, count[a][i]>> : i \in 1..size[a]}

\* Mutant of Freed: the host names are forgotten.
FreedButHosts(a) ==
    EnvBlocks(a, Ahead(a)) \cup {<<a, "args", i, 0>> : i \in 1..size[a]} \cup ArrayBlock(a)

\* What free_launch_context_array frees: per context the strings ahead of the
\* pointer, args and host_name, and then the array.
Freed(a) == EnvBlocks(a, Ahead(a)) \cup FieldBlocks(a) \cup ArrayBlock(a)

FreeLaunchContextArray(a) ==
    /\ state[a] = "held"
    /\ state' = [state EXCEPT ![a] = "freed"]
    /\ heap' = Free(Use(heap, ArrayBlock(a) \cup VectorBlocks(a)), Freed(a))
    /\ MoveToEnd(a)
    /\ UNCHANGED <<size, count, messages, built>>

-----------------------------------------------------------------------------
Init ==
    /\ state = [a \in ArrayId |-> "none"]
    /\ size = [a \in ArrayId |-> 0]
    /\ count = [a \in ArrayId |-> [i \in Context |-> 0]]
    /\ cursor = [a \in ArrayId |-> [i \in Context |-> 0]]
    /\ heap = HeapEmpty
    /\ messages = {}
    /\ built = 0

Next ==
    \E a \in ArrayId :
        \/ NewContexts(a)
        \/ ParseLaunchRequest(a)
        \/ BuildLaunchRequest(a)
        \/ PrintContexts(a)
        \/ FreeLaunchContextArray(a)

Spec == Init /\ [][Next]_vars

-----------------------------------------------------------------------------
(* Properties.                                                               *)

\* Types of the variables; the cursor never passes the NULL.
TypeOK ==
    /\ state \in [ArrayId -> {"none", "held", "freed"}]
    /\ size \in [ArrayId -> 0..MaxContexts]
    /\ count \in [ArrayId -> [Context -> 0..MaxEnv]]
    /\ cursor \in [ArrayId -> [Context -> 0..MaxEnv]]
    /\ \A a \in ArrayId, i \in Context : cursor[a][i] <= count[a][i]
    /\ heap \in [live : SUBSET Block, invalid : SUBSET Block]
    /\ messages \subseteq Message
    /\ built \in 0..MaxBuilds

\* An environment string goes out at most once: a request carries all strings
\* of its array or none, and none if an earlier request, of which it may be a
\* retry, was built from the same array.
EnvsSentOnce ==
    \A m \in messages :
        /\ m.envs \in {{}, EnvsOf(m.array)}
        /\ \A l \in messages : l.array = m.array /\ l.no < m.no => m.envs = {}

\* No order of building, printing and freeing touches a freed block or frees
\* one twice.
NoInvalid == heap.invalid = {}

\* The blocks of an array that are still live: all until it is freed; then the
\* vectors, which nothing frees, and either all of its strings or none.
\* All of them are lost if a request was built from the array.
LostStrings ==
    \A a \in ArrayId :
        LET live == {b \in heap.live : b[1] = a}
            fixed == ArrayBlock(a) \cup VectorBlocks(a) \cup FieldBlocks(a)
            strings == EnvBlocks(a, EnvsOf(a))
        IN  /\ state[a] = "none" => live = {}
            /\ state[a] = "held" => live = fixed \cup strings
            /\ state[a] = "freed" =>
                 live \in {VectorBlocks(a), VectorBlocks(a) \cup strings}
            /\ state[a] = "freed" /\ (\E m \in messages : m.array = a)
                 => live = VectorBlocks(a) \cup strings

\* An array that was freed keeps none of its strings.
FreeReleasesStrings ==
    \A a \in ArrayId : state[a] = "freed" =>
        heap.live \cap EnvBlocks(a, EnvsOf(a)) = {}
=============================================================================
