------------------------------ MODULE Refcount ------------------------------
(* avro/refcount.h: the reference count of one object, shared by threads.   *)
(* Each access of the shared int is a step.  Three of its five builds are   *)
(* told apart: "plain" (AVRO_NON_ATOMIC_REFCOUNT), "atomic" (Mac OS X, GCC, *)
(* x86 and Windows: a check, then one atomic instruction) and "llsc" (PPC,  *)
(* a loop of lwarx and stwcx.).  The users of the object hold references.   *)
(* A program is of one build; the plain one is for programs of one thread.  *)
EXTENDS Integers, FiniteSets

CONSTANTS
    Threads,
    Refs,       \* references that can exist at the same time
    NoThread,
    Limit,      \* of each build, bound on the references there are at a time
    Modulus,    \* values of an int (2^32)
    Addresses   \* words a pointer to an int can be

\* Mutant of Static: the value is compared as one past the largest.
StaticPastEnd == Modulus

\* The value (int) -1.
Static == Modulus - 1

Builds == DOMAIN Limit

ASSUME LimitAssumption ==
    /\ Builds \subseteq {"plain", "atomic", "llsc"}
    /\ \A b \in Builds : Limit[b] \in Nat
ASSUME ModulusAssumption == Modulus \in Nat /\ Modulus > 2
ASSUME ThreadAssumption == NoThread \notin Threads
ASSUME RefsAssumption == IsFiniteSet(Refs)
\* An int is aligned to its four bytes, and no object lies at address 0.
ASSUME AddressAssumption ==
    \A a \in Addresses : a \in 1..(Modulus - 1) /\ a % 4 = 0

VARIABLES
    build,      \* of the program
    count,      \* the int
    holder,     \* of each reference, the thread that has it
    freed,      \* the object has been freed
    at,         \* where each thread is in refcount.h, "idle" outside
    reg         \* the value each thread has loaded

vars == <<build, count, holder, freed, at, reg>>

\* Mutant of Plus: the sum goes past -1 instead of staying there.
PlusPastStatic(n) == IF n = Modulus - 2 THEN 0 ELSE n + 1

\* Sums wrap at the width of an int, as the instructions do.
Plus(n) == IF n = Modulus - 1 THEN 0 ELSE n + 1
Minus(n) == IF n = 0 THEN Modulus - 1 ELSE n - 1

Held == {r \in Refs : holder[r] # NoThread}
Spare == Refs \ Held
OwnedBy(t) == {r \in Refs : holder[r] = t}

Goto(t, pc) == at' = [at EXCEPT ![t] = pc]

\* avro_refcount_inc returns: its caller has a new reference.
Gain(t) ==
    /\ Cardinality(Held) < Limit[build]
    /\ \E r \in Spare : holder' = [holder EXCEPT ![r] = t]

\* The count no longer stands for one of the thread's references.
Lose(t) == \E r \in OwnedBy(t) : holder' = [holder EXCEPT ![r] = NoThread]

\* Mutant of Return: the result of the comparison is inverted.
ReturnInverted(t, isZero) == Goto(t, IF isZero THEN "idle" ELSE "last")

\* avro_refcount_dec returns zero or, when the caller has to free, not zero.
Return(t, isZero) == Goto(t, IF isZero THEN "last" ELSE "idle")

\* A user of the object calls avro_refcount_inc or avro_refcount_dec.
Calls(t) == at[t] = "idle" /\ OwnedBy(t) # {}

-----------------------------------------------------------------------------
(* The test for -1 at the head of both functions, but on PPC.                *)

IncPermanent(t) ==
    /\ build # "llsc" /\ Calls(t) /\ count = Static
    /\ Gain(t)
    /\ UNCHANGED <<build, count, freed, at, reg>>

DecPermanent(t) ==
    /\ build # "llsc" /\ Calls(t) /\ count = Static
    /\ Lose(t)
    /\ UNCHANGED <<build, count, freed, at, reg>>

CheckInc(t) ==
    /\ build # "llsc" /\ Calls(t) /\ count # Static
    /\ Goto(t, "inc")
    /\ UNCHANGED <<build, count, holder, freed, reg>>

\* Mutant of CheckDec: no test for a permanent object.
CheckDecAlways(t) ==
    /\ build # "llsc" /\ Calls(t)
    /\ Goto(t, "dec")
    /\ UNCHANGED <<build, count, holder, freed, reg>>

CheckDec(t) ==
    /\ build # "llsc" /\ Calls(t) /\ count # Static
    /\ Goto(t, "dec")
    /\ UNCHANGED <<build, count, holder, freed, reg>>

-----------------------------------------------------------------------------
(* Plain: a load, a store, and in avro_refcount_dec another load.            *)

Load(t, from, to) ==
    /\ build = "plain" /\ at[t] = from
    /\ reg' = [reg EXCEPT ![t] = count]
    /\ Goto(t, to)
    /\ UNCHANGED <<build, count, holder, freed>>

LoadInc(t) == Load(t, "inc", "incStore")
LoadDec(t) == Load(t, "dec", "decStore")

StoreInc(t) ==
    /\ at[t] = "incStore"
    /\ count' = Plus(reg[t])
    /\ Gain(t)
    /\ Goto(t, "idle")
    /\ UNCHANGED <<build, freed, reg>>

StoreDec(t) ==
    /\ at[t] = "decStore"
    /\ count' = Minus(reg[t])
    /\ Lose(t)
    /\ Goto(t, "test")
    /\ UNCHANGED <<build, freed, reg>>

Test(t) ==
    /\ at[t] = "test"
    /\ Return(t, count = 0)
    /\ UNCHANGED <<build, count, holder, freed, reg>>

-----------------------------------------------------------------------------
(* Atomic: one instruction adds or subtracts and yields the new value.       *)

Add(t) ==
    /\ build = "atomic" /\ at[t] = "inc"
    /\ count' = Plus(count)
    /\ Gain(t)
    /\ Goto(t, "idle")
    /\ UNCHANGED <<build, freed, reg>>

\* Mutant of Subtract: the count is read again for the result.
SubtractThenTest(t) ==
    /\ build = "atomic" /\ at[t] = "dec"
    /\ count' = Minus(count)
    /\ Lose(t)
    /\ Goto(t, "test")
    /\ UNCHANGED <<build, freed, reg>>

Subtract(t) ==
    /\ build = "atomic" /\ at[t] = "dec"
    /\ count' = Minus(count)
    /\ Lose(t)
    /\ Return(t, count' = 0)
    /\ UNCHANGED <<build, freed, reg>>

AtomicInc(t) == IncPermanent(t) \/ CheckInc(t) \/ Add(t)
AtomicDec(t) == DecPermanent(t) \/ CheckDec(t) \/ Subtract(t)

-----------------------------------------------------------------------------
(* PPC: both instructions are given &ptr, the address of the parameter of   *)
(* avro_refcount_LL_int or avro_refcount_SC_int, not ptr: the word loaded   *)
(* is the pointer, the word that may be stored is the callee's variable.    *)

LoadLinked(t) ==
    /\ build = "llsc"
    /\ \/ at[t] = "idle" /\ OwnedBy(t) # {} /\ (Goto(t, "incSC") \/ Goto(t, "decSC"))
       \/ at[t] \in {"incLL", "decLL"} /\ Goto(t, IF at[t] = "incLL" THEN "incSC" ELSE "decSC")
    /\ \E word \in Addresses : reg' = [reg EXCEPT ![t] = word]
    /\ UNCHANGED <<build, count, holder, freed>>

StoreConditionalInc(t) ==
    /\ at[t] = "incSC" /\ reg[t] # Static
    /\ Gain(t)
    /\ Goto(t, "idle")
    /\ UNCHANGED <<build, count, freed, reg>>

StoreConditionalDec(t) ==
    /\ at[t] = "decSC" /\ reg[t] # Static
    /\ Lose(t)
    /\ Return(t, reg[t] = 1)
    /\ UNCHANGED <<build, count, freed, reg>>

\* The reservation is lost, or was for another address.
StoreConditionalFails(t) ==
    /\ at[t] \in {"incSC", "decSC"}
    /\ Goto(t, IF at[t] = "incSC" THEN "incLL" ELSE "decLL")
    /\ UNCHANGED <<build, count, holder, freed, reg>>

-----------------------------------------------------------------------------
(* The users.                                                                *)

Pass(t, u) ==
    /\ build # "plain"
    /\ at[t] = "idle" /\ u # t
    /\ \E r \in OwnedBy(t) : holder' = [holder EXCEPT ![r] = u]
    /\ UNCHANGED <<build, count, freed, at, reg>>

\* avro_refcount_dec has returned not zero.
Free(t) ==
    /\ at[t] = "last"
    /\ freed' = TRUE
    /\ Goto(t, "idle")
    /\ UNCHANGED <<build, count, holder, reg>>

\* avro_refcount_set, before the object is shared.
Init ==
    /\ build \in Builds
    /\ count \in {1, Static}
    /\ \E t \in Threads, r \in Refs :
         holder = [q \in Refs |-> IF q = r THEN t ELSE NoThread]
    /\ freed = FALSE
    /\ at = [t \in Threads |-> "idle"]
    /\ reg = [t \in Threads |-> 0]

Next ==
    \E t \in Threads :
      \/ AtomicInc(t)
      \/ AtomicDec(t)
      \/ LoadInc(t)
      \/ StoreInc(t)
      \/ LoadDec(t)
      \/ StoreDec(t)
      \/ Test(t)
      \/ LoadLinked(t)
      \/ StoreConditionalInc(t)
      \/ StoreConditionalDec(t)
      \/ StoreConditionalFails(t)
      \/ Free(t)
      \/ \E u \in Threads : Pass(t, u)

Spec == Init /\ [][Next]_vars

-----------------------------------------------------------------------------
(* Properties.                                                               *)

\* The builds in which the count is to be relied on: the plain one, and the
\* atomic ones while the references are too few to bring the int to -1.
Enough ==
    \/ build = "plain"
    \/ build = "atomic" /\ Limit["atomic"] < Modulus - 1

\* Types of the variables.
TypeOK ==
    /\ build \in Builds
    /\ count \in 0..(Modulus - 1)
    /\ holder \in [Refs -> Threads \cup {NoThread}]
    /\ freed \in BOOLEAN
    /\ at \in [Threads -> {"idle", "inc", "incStore", "dec", "decStore", "test",
                           "incLL", "incSC", "decLL", "decSC", "last"}]
    /\ reg \in [Threads -> 0..(Modulus - 1)]

\* Whatever the threads do between a check and the instruction after it, the
\* int is -1 or counts the references that are held: no step is lost and the
\* sum never wraps ("ensuring that its value doesn't overflow").
CountExact == Enough => count = Static \/ count = Cardinality(Held)

\* The sum does not wrap: while a reference is held the count is not zero.
NoOverflow == Held # {} => count # 0

\* Nobody can touch a freed object, nor free it again: no reference to it is
\* left, and no thread is between two accesses of its count.
NoUseAfterFree ==
    freed => Held = {} /\ \A t \in Threads : at[t] = "idle"

\* The last reference given up frees the object, unless it is permanent ("and
\* returns whether the resulting (decremented) value is 0").
Reclaimed ==
    Held = {} /\ (\A t \in Threads : at[t] = "idle") => freed \/ count = Static

\* The same of the builds in which the count is to be relied on.
LastFrees == Enough => Reclaimed

\* The count does what a shared object promises.
Object == INSTANCE SharedObject WITH
    state <- IF freed THEN "freed" ELSE IF count = Static THEN "permanent" ELSE "counted"

ImplementsObject == Object!Spec
=============================================================================
