---------------------------- MODULE SharedObject ----------------------------
(* What a reference count promises the users of a schema, a value class or  *)
(* a datum of the library: whoever holds a reference may use the object and *)
(* take, pass on or give up references; the object goes when the last one   *)
(* has been given up.  An object may be permanent: then it never goes.      *)
EXTENDS FiniteSets

CONSTANTS
    Threads,   \* users of the object
    Refs,      \* references that can exist at the same time
    NoThread   \* "holder" of a reference that does not exist

VARIABLES
    holder,    \* of each reference, the thread that has it
    state      \* "counted", "permanent" or "freed"

vars == <<holder, state>>

Held == {r \in Refs : holder[r] # NoThread}
Spare == Refs \ Held
OwnedBy(t) == {r \in Refs : holder[r] = t}

Init ==
    /\ \E t \in Threads, r \in Refs :
         holder = [q \in Refs |-> IF q = r THEN t ELSE NoThread]
    /\ state \in {"counted", "permanent"}

\* A reference more, for one who has one.  An object with as many references
\* as can be counted becomes permanent.
Copy(t) ==
    /\ OwnedBy(t) # {}
    /\ \E r \in Spare : holder' = [holder EXCEPT ![r] = t]
    /\ state' \in {state, "permanent"}

\* A reference handed to another thread.
Pass(t, u) ==
    /\ \E r \in OwnedBy(t) : holder' = [holder EXCEPT ![r] = u]
    /\ UNCHANGED state

Release(t) ==
    /\ \E r \in OwnedBy(t) : holder' = [holder EXCEPT ![r] = NoThread]
    /\ UNCHANGED state

Destroy ==
    /\ state = "counted" /\ Held = {}
    /\ state' = "freed"
    /\ UNCHANGED holder

Next ==
    \/ \E t \in Threads : Copy(t) \/ Release(t)
    \/ \E t, u \in Threads : Pass(t, u)
    \/ Destroy

Spec == Init /\ [][Next]_vars
=============================================================================
