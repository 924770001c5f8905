--------------------------- MODULE Refcount_proof ---------------------------
(* The atomic builds of refcount.h, as long as an int can count every       *)
(* reference there can be, and the plain one in its one thread, implement a *)
(* shared object: Enough says which builds these are.  (PPC is not one, nor *)
(* are the atomic builds where the count can come to -1: two runs show it.) *)
(* The check for -1 is stale by the time of the addition: what keeps it     *)
(* true is Pending, that -1 is not reached while a counted thread is inside *)
(* and that its own reference stays.  A thread is Last when it may free.    *)
EXTENDS Refcount, FiniteSetTheorems, TLAPS

Pending ==
    \A t \in Threads : at[t] \in {"inc", "incStore", "dec", "decStore"} =>
        count # Static /\ OwnedBy(t) # {}

Loaded ==
    \A t \in Threads : at[t] \in {"incStore", "decStore"} => reg[t] = count

\* In the plain build only one thread has anything to do with the object.
Alone ==
    build = "plain" => \A t, u \in Threads : t # u =>
        \/ OwnedBy(u) = {} /\ at[u] = "idle"
        \/ OwnedBy(t) = {} /\ at[t] = "idle"

\* Where the threads of the two builds can be.
Places ==
    /\ \A t \in Threads : at[t] \notin {"incLL", "incSC", "decLL", "decSC"}
    /\ build = "atomic" => \A t \in Threads : at[t] \notin {"incStore", "decStore", "test"}

Last ==
    \A t \in Threads : at[t] = "last" =>
        /\ Held = {} /\ count = 0 /\ ~freed
        /\ \A u \in Threads \ {t} : at[u] = "idle"

\* Who will free the object that nobody holds any more.
Freeing ==
    Held = {} => freed \/ count = Static \/ \E t \in Threads : at[t] \in {"last", "test"}

IInv ==
    /\ Enough /\ TypeOK /\ CountExact
    /\ Pending /\ Loaded /\ Alone /\ Places /\ Last
    /\ NoUseAfterFree /\ Freeing

-----------------------------------------------------------------------------
(* What the three ways to change the references do to the set of them.       *)

LEMMA HeldFinite ==
  ASSUME TypeOK
  PROVE  /\ IsFiniteSet(Held) /\ Cardinality(Held) \in Nat
         /\ Cardinality(Held) <= Cardinality(Refs) /\ Cardinality(Refs) \in Nat
         /\ Cardinality(Held) = 0 <=> Held = {}
<1>1. Held \in SUBSET Refs
  BY DEF Held
<1> QED
  BY <1>1, RefsAssumption, FS_Subset, FS_CardinalityType, FS_EmptySet

LEMMA GainHeld ==
  ASSUME TypeOK, NEW t \in Threads, Gain(t)
  PROVE  /\ holder' \in [Refs -> Threads \cup {NoThread}]
         /\ Cardinality(Held') = Cardinality(Held) + 1
         /\ Cardinality(Held') <= Limit[build]
         /\ Held' # {}
         /\ \A u \in Threads : OwnedBy(u) \subseteq OwnedBy(u)'
         /\ \A u \in Threads \ {t} : OwnedBy(u)' = OwnedBy(u)
<1> PICK r \in Spare : holder' = [holder EXCEPT ![r] = t]
  BY DEF Gain
<1>1. r \in Refs /\ r \notin Held /\ holder[r] = NoThread
  BY DEF Spare, Held
<1>2. Held' = Held \cup {r}
  BY <1>1, ThreadAssumption DEF Held, TypeOK
<1>3. Cardinality(Held') = Cardinality(Held) + 1
  BY <1>1, <1>2, HeldFinite, FS_AddElement
<1>4. holder' \in [Refs -> Threads \cup {NoThread}]
  BY DEF TypeOK
<1>5. \A u \in Threads : OwnedBy(u) \subseteq OwnedBy(u)'
  BY <1>1, ThreadAssumption DEF OwnedBy, TypeOK
<1>6. \A u \in Threads \ {t} : OwnedBy(u)' = OwnedBy(u)
  BY <1>1, ThreadAssumption DEF OwnedBy, TypeOK
<1>7. Cardinality(Held') <= Limit[build]
  <2>1. build \in Builds /\ Limit[build] \in Nat
    BY LimitAssumption DEF TypeOK
  <2> QED BY <2>1, <1>3, HeldFinite DEF Gain
<1> QED BY <1>2, <1>3, <1>4, <1>5, <1>6, <1>7

LEMMA LoseHeld ==
  ASSUME TypeOK, NEW t \in Threads, Lose(t)
  PROVE  /\ holder' \in [Refs -> Threads \cup {NoThread}]
         /\ Cardinality(Held') = Cardinality(Held) - 1
         /\ Cardinality(Held') \in Nat /\ Cardinality(Held) >= 1
         /\ Held # {} /\ Held' \subseteq Held
         /\ Cardinality(Held') = 0 => Held' = {}
         /\ \A u \in Threads \ {t} : OwnedBy(u)' = OwnedBy(u)
<1> PICK r \in OwnedBy(t) : holder' = [holder EXCEPT ![r] = NoThread]
  BY DEF Lose
<1>1. r \in Refs /\ r \in Held /\ holder[r] = t
  BY ThreadAssumption DEF OwnedBy, Held
<1>2. Held' = Held \ {r}
  BY <1>1 DEF Held, TypeOK
<1>3. Cardinality(Held') = Cardinality(Held) - 1 /\ IsFiniteSet(Held')
  BY <1>1, <1>2, HeldFinite, FS_RemoveElement
<1>4. Cardinality(Held') \in Nat /\ (Cardinality(Held') = 0 => Held' = {})
  BY <1>3, FS_CardinalityType, FS_EmptySet
<1>5. holder' \in [Refs -> Threads \cup {NoThread}]
  BY DEF TypeOK
<1>6. \A u \in Threads \ {t} : OwnedBy(u)' = OwnedBy(u)
  BY <1>1, ThreadAssumption DEF OwnedBy, TypeOK
<1>7. Cardinality(Held) >= 1
  BY <1>3, <1>4, HeldFinite
<1> QED BY <1>1, <1>2, <1>3, <1>4, <1>5, <1>6, <1>7

LEMMA PassHeld ==
  ASSUME TypeOK, NEW t \in Threads, NEW u \in Threads, Pass(t, u)
  PROVE  /\ holder' \in [Refs -> Threads \cup {NoThread}]
         /\ Held' = Held
         /\ \A v \in Threads \ {t} : OwnedBy(v) \subseteq OwnedBy(v)'
<1> PICK r \in OwnedBy(t) : holder' = [holder EXCEPT ![r] = u]
  BY DEF Pass
<1>1. r \in Refs /\ holder[r] = t
  BY DEF OwnedBy
<1>2. Held' = Held
  BY <1>1, ThreadAssumption DEF Held, TypeOK
<1>3. holder' \in [Refs -> Threads \cup {NoThread}]
  BY DEF TypeOK
<1>4. \A v \in Threads \ {t} : OwnedBy(v) \subseteq OwnedBy(v)'
  BY <1>1 DEF OwnedBy, TypeOK
<1> QED BY <1>2, <1>3, <1>4

\* What a thread of the plain build that is at work leaves to the others.
LEMMA Others ==
  ASSUME IInv, NEW t \in Threads, OwnedBy(t) # {} \/ at[t] # "idle",
         NEW u \in Threads \ {t}
  PROVE  build = "plain" => OwnedBy(u) = {} /\ at[u] = "idle"
BY DEF IInv, Alone

\* A thread that holds a reference uses an object that is there, and nobody
\* is about to free it.
LEMMA InUse ==
  ASSUME IInv, Held # {}
  PROVE  ~freed /\ \A t \in Threads : at[t] # "last"
BY DEF IInv, NoUseAfterFree, Last

LEMMA OwnedHeld ==
  ASSUME NEW t \in Threads, OwnedBy(t) # {}
  PROVE  Held # {}
BY ThreadAssumption DEF OwnedBy, Held

-----------------------------------------------------------------------------
LEMMA InitIInv ==
  ASSUME Init, Enough
  PROVE  IInv
<1> USE ModulusAssumption, ThreadAssumption
<1> PICK t \in Threads, r \in Refs :
      holder = [q \in Refs |-> IF q = r THEN t ELSE NoThread]
  BY DEF Init
<1>1. TypeOK
  <2>1. count \in 0..(Modulus - 1)
    BY DEF Init, Static
  <2>2. holder \in [Refs -> Threads \cup {NoThread}]
    OBVIOUS
  <2>3. /\ reg \in [Threads -> 0..(Modulus - 1)]
        /\ at \in [Threads -> {"idle"}] /\ freed = FALSE /\ build \in Builds
    BY DEF Init
  <2> QED BY <2>1, <2>2, <2>3 DEF TypeOK
<1>2. Held = {r}
  BY DEF Held
<1>3. Cardinality(Held) = 1
  BY <1>2, FS_AddElement, FS_EmptySet
<1>4. CountExact
  BY <1>3 DEF Init, CountExact
<1> QED
  BY <1>1, <1>2, <1>4
  DEF Init, IInv, Pending, Loaded, Alone, OwnedBy, Places, Last, NoUseAfterFree, Freeing

\* A step that gives a reference: -1 is not reached by an addition that others
\* are waiting to repeat.
LEMMA GainKeeps ==
  ASSUME IInv, NEW t \in Threads, Gain(t), OwnedBy(t) # {},
         count' \in 0..(Modulus - 1),
         \/ count = Static /\ count' = Static
         \/ count # Static /\ count' = count + 1,
         at' = [at EXCEPT ![t] = "idle"],
         UNCHANGED <<build, freed, reg>>
  PROVE  IInv'
<1> USE ModulusAssumption
<1>1. Held # {} /\ ~freed /\ \A u \in Threads : at[u] # "last"
  BY InUse, OwnedHeld
<1>2. TypeOK' /\ Enough'
  BY GainHeld DEF IInv, TypeOK, Enough
<1>a. \A u \in Threads \ {t} : build = "plain" => OwnedBy(u) = {} /\ at[u] = "idle"
  BY Others
<1>3. CountExact'
  BY GainHeld, HeldFinite DEF IInv, CountExact
<1>4. \A u \in Threads \ {t} : at[u] # "idle" /\ count # Static => count' # Static
  <2> SUFFICES ASSUME NEW u \in Threads \ {t}, at[u] # "idle", count # Static
               PROVE  count' # Static
    OBVIOUS
  <2>1. build = "atomic" /\ Limit["atomic"] < Modulus - 1
    BY <1>a DEF IInv, Enough
  <2>2. build \in Builds /\ Limit[build] \in Nat /\ Cardinality(Held') <= Limit[build]
    BY LimitAssumption, GainHeld DEF IInv, TypeOK
  <2>3. count' = Cardinality(Held')
    BY GainHeld, HeldFinite DEF IInv, CountExact
  <2> QED BY <2>1, <2>2, <2>3, HeldFinite, GainHeld DEF Static, IInv
<1>5. Pending'
  BY <1>4, GainHeld DEF IInv, Pending, TypeOK
<1>6. Loaded'
  <2>1. \A u \in Threads \ {t} : at[u] = "idle" \/ build = "atomic"
    BY <1>a DEF IInv, Enough
  <2> QED BY <2>1 DEF IInv, Loaded, Places, TypeOK
<1>8. Alone'
  BY <1>a, GainHeld DEF Alone, IInv, TypeOK
<1>7. Places' /\ Last' /\ NoUseAfterFree' /\ Freeing'
  BY <1>1, GainHeld DEF IInv, Places, Last, NoUseAfterFree, Freeing, TypeOK
<1> QED BY <1>2, <1>3, <1>5, <1>6, <1>7, <1>8 DEF IInv

\* A step that gives one up.
LEMMA LoseKeeps ==
  ASSUME IInv, NEW t \in Threads, Lose(t), NEW pc,
         \/ /\ count = Static /\ count' = Static
            /\ at[t] = "idle" /\ pc = "idle"
         \/ /\ count # Static /\ count' = count - 1
            /\ build = "plain" => pc = "test"
            /\ build = "atomic" => pc = (IF count' = 0 THEN "last" ELSE "idle"),
         at' = [at EXCEPT ![t] = pc],
         UNCHANGED <<build, freed, reg>>
  PROVE  IInv'
<1> USE ModulusAssumption
<1>a. build \in {"plain", "atomic"} /\ pc \in {"idle", "test", "last"}
  BY DEF IInv, Enough
<1>b. Held # {} /\ TypeOK
  BY LoseHeld DEF IInv
<1>1. ~freed /\ \A u \in Threads : at[u] # "last"
  BY <1>b, InUse
<1>c. count # Static => count = Cardinality(Held) /\ count' = Cardinality(Held')
  BY LoseHeld, HeldFinite DEF IInv, CountExact
<1>d. count # Static => count' # Static /\ count' \in 0..(Modulus - 1)
  BY <1>c, LoseHeld DEF TypeOK, IInv, Static
<1>2. TypeOK' /\ Enough'
  BY <1>a, <1>d, LoseHeld DEF IInv, TypeOK, Enough
<1>3. CountExact'
  BY <1>c DEF CountExact
<1>5. Pending'
  BY <1>a, <1>d, LoseHeld DEF IInv, Pending, TypeOK
<1>4. \A u \in Threads \ {t} : build = "plain" => OwnedBy(u) = {} /\ at[u] = "idle"
  <2>1. OwnedBy(t) # {}
    BY DEF Lose
  <2> QED BY <2>1, Others
<1>e. Alone'
  <2>1. at \in [Threads -> {"idle", "inc", "incStore", "dec", "decStore", "test",
                            "incLL", "incSC", "decLL", "decSC", "last"}]
    BY <1>b DEF TypeOK
  <2>2. \A u \in Threads \ {t} : OwnedBy(u)' = OwnedBy(u) /\ at'[u] = at[u]
    BY <2>1, LoseHeld, <1>b
  <2>3. SUFFICES ASSUME build = "plain", NEW u \in Threads, NEW v \in Threads, u # v
                 PROVE  \/ OwnedBy(v)' = {} /\ at'[v] = "idle"
                        \/ OwnedBy(u)' = {} /\ at'[u] = "idle"
    BY DEF Alone
  <2>4. CASE u = t
    BY <2>2, <2>3, <2>4, <1>4
  <2>5. CASE u # t
    BY <2>2, <2>3, <2>5, <1>4
  <2> QED BY <2>4, <2>5
<1>6. Loaded'
  BY <1>a, <1>4 DEF IInv, Loaded, Places, TypeOK
<1>7. Places'
  BY <1>a DEF IInv, Places, TypeOK
<1>8. NoUseAfterFree'
  BY <1>1 DEF NoUseAfterFree
<1>9. pc = "last" => Held' = {} /\ count' = 0
  <2> SUFFICES ASSUME pc = "last" PROVE Held' = {} /\ count' = 0
    OBVIOUS
  <2>1. count # Static /\ count' = 0
    BY <1>a
  <2> QED BY <2>1, <1>c, <1>b, LoseHeld
<1>10. pc = "last" => \A u \in Threads \ {t} : at[u] = "idle"
  <2> SUFFICES ASSUME pc = "last", NEW u \in Threads \ {t} PROVE at[u] = "idle"
    OBVIOUS
  <2>1. Held' = {}
    BY <1>9
  <2>2. OwnedBy(u) = {}
    <3>1. OwnedBy(u)' = OwnedBy(u)
      BY LoseHeld, <1>b
    <3>2. OwnedBy(u)' = {}
      BY <2>1, ThreadAssumption DEF OwnedBy, Held
    <3> QED BY <3>1, <3>2
  <2> QED
    BY <2>2, <1>1, <1>4, <1>a DEF IInv, Pending, Places, TypeOK
<1>11. Last'
  BY <1>1, <1>9, <1>10 DEF Last, TypeOK, IInv
<1>12. Freeing'
  <2> SUFFICES ASSUME Held' = {}, count' # Static
               PROVE  pc \in {"test", "last"}
    BY <1>b DEF Freeing, TypeOK
  <2>1. count # Static /\ count' = Cardinality(Held')
    BY <1>c
  <2>2. count' = 0
    BY <2>1, FS_EmptySet
  <2> QED BY <2>1, <2>2, <1>a
<1> QED BY <1>2, <1>3, <1>5, <1>6, <1>7, <1>8, <1>e, <1>11, <1>12 DEF IInv

-----------------------------------------------------------------------------
\* Steps inside refcount.h that change neither the count nor a reference.
LEMMA WalkKeeps ==
  ASSUME IInv, NEW t \in Threads, NEW pc, ~freed,
         \/ at[t] = "idle" /\ pc \in {"inc", "dec"} /\ count # Static /\ OwnedBy(t) # {}
         \/ at[t] = "inc" /\ pc = "incStore" /\ build = "plain" /\ reg'[t] = count
         \/ at[t] = "dec" /\ pc = "decStore" /\ build = "plain" /\ reg'[t] = count,
         at' = [at EXCEPT ![t] = pc],
         reg' \in [Threads -> 0..(Modulus - 1)],
         \A u \in Threads \ {t} : reg'[u] = reg[u],
         UNCHANGED <<build, count, holder, freed>>
  PROVE  IInv'
<1>0. Held' = Held /\ \A u \in Threads : OwnedBy(u)' = OwnedBy(u)
  BY DEF Held, OwnedBy
<1>1. OwnedBy(t) # {} /\ Held # {}
  <2>1. OwnedBy(t) # {}
    BY DEF IInv, Pending
  <2> QED BY <2>1, OwnedHeld
<1>2. pc \in {"inc", "dec", "incStore", "decStore"}
  OBVIOUS
<1>3. TypeOK' /\ Enough' /\ CountExact'
  BY <1>0, <1>2 DEF IInv, TypeOK, Enough, CountExact
<1>4. Pending'
  BY <1>0, <1>1, <1>2 DEF IInv, Pending, TypeOK
<1>7. Alone'
  <2>1. \A u \in Threads \ {t} : build = "plain" => OwnedBy(u) = {} /\ at[u] = "idle"
    BY <1>1, Others
  <2>2. \A u \in Threads \ {t} : OwnedBy(u)' = OwnedBy(u) /\ at'[u] = at[u]
    BY <1>0 DEF IInv, TypeOK
  <2>3. SUFFICES ASSUME build = "plain", NEW u \in Threads, NEW v \in Threads, u # v
                 PROVE  \/ OwnedBy(v)' = {} /\ at'[v] = "idle"
                        \/ OwnedBy(u)' = {} /\ at'[u] = "idle"
    BY DEF Alone
  <2>4. CASE u = t
    BY <2>1, <2>2, <2>3, <2>4
  <2>5. CASE u # t
    BY <2>1, <2>2, <2>3, <2>5
  <2> QED BY <2>4, <2>5
<1>5. Loaded' /\ Places'
  BY <1>2 DEF IInv, Loaded, Places, TypeOK
<1>6. Last' /\ NoUseAfterFree' /\ Freeing'
  BY <1>0, <1>1, <1>2, InUse DEF IInv, Last, NoUseAfterFree, Freeing, TypeOK
<1> QED BY <1>3, <1>4, <1>5, <1>6, <1>7 DEF IInv

LEMMA TestKeeps ==
  ASSUME IInv, NEW t \in Threads, Test(t)
  PROVE  IInv'
<1>0. Held' = Held /\ \A u \in Threads : OwnedBy(u)' = OwnedBy(u)
  BY DEF Test, Held, OwnedBy
<1>1. build = "plain" /\ \A u \in Threads \ {t} : OwnedBy(u) = {} /\ at[u] = "idle"
  <2>1. build = "plain"
    BY DEF IInv, Enough, Places, Test
  <2> QED BY <2>1, Others DEF Test
<1>2. ~freed
  BY DEF IInv, NoUseAfterFree, Test
<1>3. count = 0 => Held = {}
  BY HeldFinite, ModulusAssumption DEF IInv, CountExact, Static
<1>4. TypeOK' /\ Enough' /\ CountExact'
  BY <1>0 DEF IInv, TypeOK, Enough, CountExact, Test, Return, Goto
<1>5. Pending' /\ Loaded' /\ Alone' /\ Places'
  BY <1>0, <1>1 DEF IInv, Pending, Loaded, Alone, Places, TypeOK, Test, Return, Goto
<1>6. Last' /\ NoUseAfterFree'
  BY <1>0, <1>1, <1>2, <1>3
  DEF IInv, Last, NoUseAfterFree, TypeOK, Test, Return, Goto
<1>7. Held = {} => count = 0 \/ count = Static
  BY HeldFinite DEF IInv, CountExact
<1>8. Freeing'
  BY <1>0, <1>1, <1>7 DEF IInv, Freeing, TypeOK, Test, Return, Goto
<1> QED BY <1>4, <1>5, <1>6, <1>8 DEF IInv

LEMMA PassKeeps ==
  ASSUME IInv, NEW t \in Threads, NEW u \in Threads, Pass(t, u)
  PROVE  IInv'
<1>0. Held' = Held /\ \A v \in Threads \ {t} : OwnedBy(v) \subseteq OwnedBy(v)'
  BY PassHeld DEF IInv
<1>1. at[t] = "idle" /\ UNCHANGED <<build, count, freed, at, reg>>
  BY DEF Pass
<1>2. TypeOK' /\ Enough' /\ CountExact'
  BY <1>0, <1>1, PassHeld DEF IInv, TypeOK, Enough, CountExact
<1>3. Pending'
  BY <1>0, <1>1 DEF IInv, Pending
<1>4. Loaded' /\ Alone' /\ Places' /\ Last' /\ NoUseAfterFree' /\ Freeing'
  BY <1>0, <1>1 DEF IInv, Loaded, Alone, Pass, Places, Last, NoUseAfterFree, Freeing
<1> QED BY <1>2, <1>3, <1>4 DEF IInv

LEMMA FreeKeeps ==
  ASSUME IInv, NEW t \in Threads, Free(t)
  PROVE  IInv'
<1>0. Held' = Held /\ \A u \in Threads : OwnedBy(u)' = OwnedBy(u)
  BY DEF Free, Held, OwnedBy
<1>1. Held = {} /\ \A u \in Threads \ {t} : at[u] = "idle"
  BY DEF IInv, Last, Free
<1>2. TypeOK' /\ Enough' /\ CountExact'
  BY <1>0 DEF IInv, TypeOK, Enough, CountExact, Free, Goto
<1>3. /\ \A u \in Threads : at'[u] = "idle"
      /\ freed'
  BY <1>1 DEF Free, Goto, IInv, TypeOK
<1>5. OwnedBy(t)' = {} /\ \A u \in Threads : OwnedBy(u)' = {}
  BY <1>0, <1>1, OwnedHeld
<1>4. Pending' /\ Loaded' /\ Alone' /\ Places' /\ Last' /\ NoUseAfterFree' /\ Freeing'
  BY <1>0, <1>1, <1>3, <1>5 DEF Pending, Loaded, Alone, Places, Last, NoUseAfterFree, Freeing
<1> QED BY <1>2, <1>4 DEF IInv

LEMMA NextIInv ==
  ASSUME IInv, [Next]_vars
  PROVE  IInv'
<1> USE ModulusAssumption
<1>1. CASE UNCHANGED vars
  BY <1>1 DEF vars, IInv, Enough, TypeOK, CountExact, Pending, Loaded, Alone,
     Places, Last, NoUseAfterFree, Freeing, Held, OwnedBy
<1>2. SUFFICES ASSUME NEW t \in Threads,
                      \/ AtomicInc(t) \/ AtomicDec(t)
                      \/ LoadInc(t) \/ StoreInc(t) \/ LoadDec(t) \/ StoreDec(t) \/ Test(t)
                      \/ LoadLinked(t) \/ StoreConditionalInc(t)
                      \/ StoreConditionalDec(t) \/ StoreConditionalFails(t)
                      \/ Free(t) \/ \E u \in Threads : Pass(t, u)
               PROVE  IInv'
  BY <1>1 DEF Next
<1>a. /\ at[t] \notin {"incLL", "incSC", "decLL", "decSC"}
      /\ build \in {"plain", "atomic"}
      /\ at \in [Threads -> {"idle", "inc", "incStore", "dec", "decStore", "test",
                             "incLL", "incSC", "decLL", "decSC", "last"}]
      /\ count \in 0..(Modulus - 1) /\ reg \in [Threads -> 0..(Modulus - 1)]
  BY DEF IInv, Places, Enough, TypeOK
<1>b. at[t] \in {"inc", "incStore", "dec", "decStore"} =>
        count # Static /\ OwnedBy(t) # {} /\ Held # {}
  BY OwnedHeld DEF IInv, Pending
<1>c. OwnedBy(t) # {} => ~freed
  BY OwnedHeld, InUse
<1>3. CASE IncPermanent(t)
  <2>1. at' = [at EXCEPT ![t] = "idle"]
    BY <1>3, <1>a DEF IncPermanent, Calls
  <2> QED BY <1>3, <2>1, <1>a, GainKeeps DEF IncPermanent, Calls
<1>4. CASE DecPermanent(t)
  <2>1. at' = [at EXCEPT ![t] = "idle"]
    BY <1>4, <1>a DEF DecPermanent, Calls
  <2> QED BY <1>4, <2>1, LoseKeeps DEF DecPermanent, Calls
<1>5. CASE CheckInc(t)
  BY <1>5, <1>a, <1>c, WalkKeeps DEF CheckInc, Calls, Goto
<1>6. CASE CheckDec(t)
  BY <1>6, <1>a, <1>c, WalkKeeps DEF CheckDec, Calls, Goto
<1>7. CASE Add(t)
  <2>1. count # Static /\ count' = count + 1
    BY <1>7, <1>b, <1>a DEF Add, Plus, Static
  <2>2. count' \in 0..(Modulus - 1)
    BY <2>1, <1>a DEF Static
  <2> QED BY <1>7, <2>1, <2>2, <1>b, GainKeeps DEF Add, Goto
<1>d. count # Static /\ Held # {} => count # 0
  BY HeldFinite DEF IInv, CountExact
<1>8. CASE Subtract(t)
  <2>1. count # Static /\ count' = count - 1
    BY <1>8, <1>b, <1>d, <1>a DEF Subtract, Minus
  <2>2. build = "atomic" /\ Lose(t)
    BY <1>8 DEF Subtract
  <2>3. at' = [at EXCEPT ![t] = IF count' = 0 THEN "last" ELSE "idle"]
    BY <1>8 DEF Subtract, Return, Goto
  <2>4. UNCHANGED <<build, freed, reg>>
    BY <1>8 DEF Subtract
  <2> QED BY <2>1, <2>2, <2>3, <2>4, LoseKeeps
<1>9. CASE LoadInc(t)
  BY <1>9, <1>a, <1>b, <1>c, WalkKeeps DEF LoadInc, Load, Goto
<1>10. CASE LoadDec(t)
  BY <1>10, <1>a, <1>b, <1>c, WalkKeeps DEF LoadDec, Load, Goto
<1>e. at[t] \in {"incStore", "decStore"} => reg[t] = count /\ build = "plain"
  BY <1>a DEF IInv, Loaded, Places
<1>11. CASE StoreInc(t)
  <2>1. count # Static /\ count' = count + 1
    BY <1>11, <1>b, <1>e, <1>a DEF StoreInc, Plus, Static
  <2>2. count' \in 0..(Modulus - 1)
    BY <2>1, <1>a DEF Static
  <2> QED BY <1>11, <2>1, <2>2, <1>b, GainKeeps DEF StoreInc, Goto
<1>12. CASE StoreDec(t)
  <2>1. count # Static /\ count' = count - 1
    BY <1>12, <1>b, <1>d, <1>e, <1>a DEF StoreDec, Minus
  <2>2. build = "plain" /\ Lose(t)
    BY <1>12, <1>e DEF StoreDec
  <2>3. at' = [at EXCEPT ![t] = "test"] /\ UNCHANGED <<build, freed, reg>>
    BY <1>12 DEF StoreDec, Goto
  <2> QED BY <2>1, <2>2, <2>3, LoseKeeps
<1>13. CASE Test(t)
  BY <1>13, TestKeeps
<1>14. ~LoadLinked(t) /\ ~StoreConditionalInc(t) /\ ~StoreConditionalDec(t)
       /\ ~StoreConditionalFails(t)
  BY <1>a DEF LoadLinked, StoreConditionalInc, StoreConditionalDec, StoreConditionalFails
<1>15. CASE Free(t)
  BY <1>15, FreeKeeps
<1>16. CASE \E u \in Threads : Pass(t, u)
  BY <1>16, PassKeeps
<1> QED
  BY <1>2, <1>3, <1>4, <1>5, <1>6, <1>7, <1>8, <1>9, <1>10, <1>11, <1>12, <1>13,
     <1>14, <1>15, <1>16 DEF AtomicInc, AtomicDec

LEMMA BuildStays ==
  ASSUME [Next]_vars
  PROVE  build' = build
BY DEF Next, vars, AtomicInc, AtomicDec, IncPermanent, DecPermanent, CheckInc,
   CheckDec, Add, Subtract, LoadInc, LoadDec, Load, StoreInc, StoreDec, Test,
   LoadLinked, StoreConditionalInc, StoreConditionalDec, StoreConditionalFails,
   Free, Pass

LEMMA Inductive == Spec => [](Enough => IInv)
<1>1. Init => (Enough => IInv)
  BY InitIInv
<1>2. (Enough => IInv) /\ [Next]_vars => (Enough => IInv)'
  <2> SUFFICES ASSUME Enough => IInv, [Next]_vars, Enough'
               PROVE  IInv'
    OBVIOUS
  <2>1. IInv
    BY BuildStays DEF Enough
  <2> QED BY <2>1, NextIInv
<1> QED BY <1>1, <1>2, PTL DEF Spec

LEMMA EnoughStays == Enough /\ Spec => []IInv
<1>1. Enough /\ [Next]_vars => Enough'
  BY BuildStays DEF Enough
<1> QED BY <1>1, Inductive, PTL DEF Spec

LEMMA InitTypes ==
  ASSUME Init
  PROVE  TypeOK
<1> USE ModulusAssumption
<1>1. PICK t \in Threads, r \in Refs :
        holder = [q \in Refs |-> IF q = r THEN t ELSE NoThread]
  BY DEF Init
<1>2. holder \in [Refs -> Threads \cup {NoThread}]
  BY <1>1
<1>3. /\ reg \in [Threads -> 0..(Modulus - 1)]
      /\ at \in [Threads -> {"idle"}] /\ freed = FALSE /\ build \in Builds
      /\ count \in 0..(Modulus - 1)
  BY DEF Init, Static
<1> QED BY <1>2, <1>3 DEF TypeOK

LEMMA TypeStep ==
  ASSUME TypeOK, [Next]_vars
  PROVE  TypeOK'
<1> USE ModulusAssumption
<1>1. CASE UNCHANGED vars
  BY <1>1 DEF vars, TypeOK
<1>2. SUFFICES ASSUME NEW t \in Threads,
                      \/ AtomicInc(t) \/ AtomicDec(t)
                      \/ LoadInc(t) \/ StoreInc(t) \/ LoadDec(t) \/ StoreDec(t) \/ Test(t)
                      \/ LoadLinked(t) \/ StoreConditionalInc(t)
                      \/ StoreConditionalDec(t) \/ StoreConditionalFails(t)
                      \/ Free(t) \/ \E u \in Threads : Pass(t, u)
               PROVE  TypeOK'
  BY <1>1 DEF Next
<1>a. \A n \in 0..(Modulus - 1) :
        Plus(n) \in 0..(Modulus - 1) /\ Minus(n) \in 0..(Modulus - 1)
  BY DEF Plus, Minus
<1>b. \A pc : at' = [at EXCEPT ![t] = IF pc THEN "last" ELSE "idle"] =>
        at' \in [Threads -> {"idle", "inc", "incStore", "dec", "decStore", "test",
                             "incLL", "incSC", "decLL", "decSC", "last"}]
  BY DEF TypeOK
<1>c. Gain(t) => holder' \in [Refs -> Threads \cup {NoThread}]
  BY GainHeld
<1>d. Lose(t) => holder' \in [Refs -> Threads \cup {NoThread}]
  BY LoseHeld
<1>e. \A w \in Addresses : w \in 0..(Modulus - 1)
  BY AddressAssumption
<1>3. CASE IncPermanent(t)
  BY <1>3, <1>c DEF IncPermanent, TypeOK
<1>4. CASE DecPermanent(t)
  BY <1>4, <1>d DEF DecPermanent, TypeOK
<1>5. CASE CheckInc(t) \/ CheckDec(t) \/ LoadInc(t) \/ LoadDec(t)
  BY <1>5 DEF CheckInc, CheckDec, LoadInc, LoadDec, Load, Goto, TypeOK
<1>6. CASE Add(t)
  BY <1>6, <1>a, <1>c DEF Add, Goto, TypeOK
<1>7. CASE Subtract(t)
  BY <1>7, <1>a, <1>b, <1>d DEF Subtract, Return, Goto, TypeOK
<1>8. CASE StoreInc(t)
  BY <1>8, <1>a, <1>c DEF StoreInc, Goto, TypeOK
<1>9. CASE StoreDec(t)
  BY <1>9, <1>a, <1>d DEF StoreDec, Goto, TypeOK
<1>10. CASE Test(t)
  BY <1>10, <1>b DEF Test, Return, Goto, TypeOK
<1>11. CASE LoadLinked(t)
  <2>1. reg' \in [Threads -> 0..(Modulus - 1)]
    BY <1>11, <1>e DEF LoadLinked, TypeOK
  <2>2. at' \in [Threads -> {"idle", "inc", "incStore", "dec", "decStore", "test",
                             "incLL", "incSC", "decLL", "decSC", "last"}]
    BY <1>11 DEF LoadLinked, Goto, TypeOK
  <2> QED BY <1>11, <2>1, <2>2 DEF LoadLinked, TypeOK
<1>12. CASE StoreConditionalInc(t)
  BY <1>12, <1>c DEF StoreConditionalInc, Goto, TypeOK
<1>13. CASE StoreConditionalDec(t)
  BY <1>13, <1>b, <1>d DEF StoreConditionalDec, Return, Goto, TypeOK
<1>14. CASE StoreConditionalFails(t)
  BY <1>14 DEF StoreConditionalFails, Goto, TypeOK
<1>15. CASE Free(t)
  BY <1>15 DEF Free, Goto, TypeOK
<1>16. CASE \E u \in Threads : Pass(t, u)
  BY <1>16, PassHeld DEF Pass, TypeOK
<1> QED
  BY <1>2, <1>3, <1>4, <1>5, <1>6, <1>7, <1>8, <1>9, <1>10, <1>11, <1>12, <1>13,
     <1>14, <1>15, <1>16 DEF AtomicInc, AtomicDec

-----------------------------------------------------------------------------
(* The theorems.                                                             *)

\* The variables of the count of an object keep their types.
THEOREM CountTyped == Spec => []TypeOK
<1> QED BY InitTypes, TypeStep, PTL DEF Spec

\* avro_refcount_inc and avro_refcount_dec lose no step to another thread: the
\* int is -1 or the number of references held.
THEOREM CountIsExact == Spec => []CountExact
<1>1. (Enough => IInv) => CountExact
  BY DEF IInv, CountExact
<1> QED BY <1>1, Inductive, PTL

\* No thread touches the count, or frees the object, after it was freed.
THEOREM NeverUsedAfterFree == Enough /\ Spec => []NoUseAfterFree
<1>1. IInv => NoUseAfterFree
  BY DEF IInv
<1> QED BY <1>1, EnoughStays, PTL

\* Whoever gives up the last reference of a counted object frees it.
THEOREM LastReferenceFrees == Spec => []LastFrees
<1>1. (Enough => IInv) => LastFrees
  BY DEF IInv, Freeing, Reclaimed, LastFrees
<1> QED BY <1>1, Inductive, PTL

\* In the PPC build the words compared are addresses: one is never the 1 that
\* makes avro_refcount_dec return not zero.
PPC ==
    build = "llsc" =>
        /\ ~freed
        /\ \A t \in Threads :
              /\ at[t] \in {"idle", "incLL", "incSC", "decLL", "decSC"}
              /\ at[t] \in {"incSC", "decSC"} => reg[t] \in Addresses

LEMMA PPCStep ==
  ASSUME TypeOK, PPC, [Next]_vars
  PROVE  PPC'
<1> SUFFICES ASSUME build = "llsc"
             PROVE  PPC'
  BY BuildStays DEF PPC
<1>1. CASE UNCHANGED vars
  BY <1>1 DEF vars, PPC
<1>2. SUFFICES ASSUME NEW t \in Threads,
                      \/ LoadLinked(t) \/ StoreConditionalInc(t)
                      \/ StoreConditionalDec(t) \/ StoreConditionalFails(t)
                      \/ Free(t) \/ \E u \in Threads : Pass(t, u)
               PROVE  PPC'
  BY <1>1 DEF Next, AtomicInc, AtomicDec, IncPermanent, DecPermanent, CheckInc,
     CheckDec, Add, Subtract, LoadInc, LoadDec, Load, StoreInc, StoreDec, Test, PPC
<1>a. at \in [Threads -> {"idle", "inc", "incStore", "dec", "decStore", "test",
                          "incLL", "incSC", "decLL", "decSC", "last"}]
      /\ reg \in [Threads -> 0..(Modulus - 1)]
  BY DEF TypeOK
<1>b. 1 \notin Addresses
  BY AddressAssumption
<1>3. CASE LoadLinked(t)
  BY <1>3, <1>a DEF LoadLinked, Goto, PPC
<1>4. CASE StoreConditionalInc(t)
  BY <1>4, <1>a DEF StoreConditionalInc, Goto, PPC
<1>5. CASE StoreConditionalDec(t)
  BY <1>5, <1>a, <1>b DEF StoreConditionalDec, Return, Goto, PPC
<1>6. CASE StoreConditionalFails(t)
  BY <1>6, <1>a DEF StoreConditionalFails, Goto, PPC
<1>7. ~Free(t)
  BY DEF Free, PPC
<1>8. CASE \E u \in Threads : Pass(t, u)
  BY <1>8 DEF Pass, PPC
<1> QED BY <1>2, <1>3, <1>4, <1>5, <1>6, <1>7, <1>8

\* The PPC build never frees an object, whatever the program does with it: no
\* pointer to an int equals the 1 that is looked for.
THEOREM PPCNeverFrees == Spec => [](build = "llsc" => ~freed)
<1>1. Init => PPC
  BY DEF Init, PPC
<1>2. TypeOK /\ PPC /\ [Next]_vars => PPC'
  BY PPCStep
<1>3. PPC => (build = "llsc" => ~freed)
  BY DEF PPC
<1> QED BY <1>1, <1>2, <1>3, CountTyped, PTL DEF Spec

-----------------------------------------------------------------------------
(* The refinement.                                                           *)

\* What the count and the flag say of the object.
State == IF freed THEN "freed" ELSE IF count = Static THEN "permanent" ELSE "counted"

LEMMA InitRefines ==
  ASSUME Init
  PROVE  Object!Init
BY DEF Init, Object!Init

LEMMA StepRefines ==
  ASSUME IInv, [Next]_vars
  PROVE  [Object!Next]_(Object!vars)
<1> USE ModulusAssumption
<1> SUFFICES ASSUME ~UNCHANGED <<holder, State>>
             PROVE  Object!Next
  BY DEF Object!vars, State
<1>1. PICK t \in Threads :
        \/ AtomicInc(t) \/ AtomicDec(t)
        \/ LoadInc(t) \/ StoreInc(t) \/ LoadDec(t) \/ StoreDec(t) \/ Test(t)
        \/ LoadLinked(t) \/ StoreConditionalInc(t)
        \/ StoreConditionalDec(t) \/ StoreConditionalFails(t)
        \/ Free(t) \/ \E u \in Threads : Pass(t, u)
  BY DEF Next, vars, State
<1>2. /\ at[t] \notin {"incLL", "incSC", "decLL", "decSC"}
      /\ build \in {"plain", "atomic"}
      /\ count \in 0..(Modulus - 1)
      /\ Held # {} => ~freed
      /\ Held # {} => count # 0
  BY HeldFinite DEF IInv, Places, Enough, TypeOK, NoUseAfterFree, CountExact, Static
<1>3. at[t] \in {"inc", "incStore", "dec", "decStore"} => OwnedBy(t) # {} /\ count # Static
  BY DEF IInv, Pending
<1>4. at[t] \in {"incStore", "decStore"} => reg[t] = count
  BY DEF IInv, Loaded
<1>5. CASE IncPermanent(t) \/ Add(t) \/ StoreInc(t)
  <2>1. OwnedBy(t) # {} /\ Gain(t) /\ freed' = freed
    BY <1>3, <1>5 DEF IncPermanent, Add, StoreInc, Calls
  <2>2. count = Static => count' = Static
    BY <1>5, <1>3 DEF IncPermanent, Add, StoreInc
  <2>3. State' \in {State, "permanent"}
    BY <2>1, <2>2, OwnedHeld, <1>2 DEF State
  <2>4. Object!Copy(t)
    BY <2>1, <2>3 DEF Object!Copy, Object!OwnedBy, Object!Spare, Object!Held,
       OwnedBy, Gain, Spare, Held, State
  <2> QED BY <2>4 DEF Object!Next
<1>6. CASE DecPermanent(t) \/ Subtract(t) \/ StoreDec(t)
  <2>1. OwnedBy(t) # {} /\ Lose(t) /\ freed' = freed
    BY <1>3, <1>6 DEF DecPermanent, Subtract, StoreDec, Calls
  <2>2. count = Static <=> count' = Static
    <3>1. CASE DecPermanent(t)
      BY <3>1 DEF DecPermanent
    <3>2. CASE Subtract(t) \/ StoreDec(t)
      <4>1. count # Static /\ count # 0 /\ count' = Minus(count)
        BY <3>2, <1>2, <1>3, <1>4, <2>1, OwnedHeld DEF Subtract, StoreDec
      <4> QED BY <4>1, <1>2 DEF Minus, Static
    <3> QED BY <1>6, <3>1, <3>2
  <2>3. State' = State
    BY <2>1, <2>2 DEF State
  <2>4. Object!Release(t)
    BY <2>1, <2>3 DEF Object!Release, Object!OwnedBy, OwnedBy, Lose, State
  <2> QED BY <2>4 DEF Object!Next
<1>7. CASE Free(t)
  <2>1. Held = {} /\ count = 0 /\ ~freed
    BY <1>7 DEF IInv, Last, Free
  <2>2. State = "counted" /\ State' = "freed" /\ holder' = holder
    BY <1>7, <2>1 DEF State, Static, Free
  <2>3. Object!Destroy
    BY <2>1, <2>2 DEF Object!Destroy, Object!Held, Held, State
  <2> QED BY <2>3 DEF Object!Next
<1>8. ASSUME NEW u \in Threads, Pass(t, u)
      PROVE  Object!Next
  <2>1. Object!Pass(t, u)
    BY <1>8 DEF Pass, Object!Pass, Object!OwnedBy, OwnedBy
  <2> QED BY <2>1 DEF Object!Next
<1>9. CASE CheckInc(t) \/ CheckDec(t) \/ LoadInc(t) \/ LoadDec(t) \/ Test(t)
  <2>1. UNCHANGED <<holder, freed, count>>
    BY <1>9 DEF CheckInc, CheckDec, LoadInc, LoadDec, Load, Test
  <2> QED BY <2>1 DEF State
<1>10. ~LoadLinked(t) /\ ~StoreConditionalInc(t) /\ ~StoreConditionalDec(t)
       /\ ~StoreConditionalFails(t)
  BY <1>2 DEF LoadLinked, StoreConditionalInc, StoreConditionalDec, StoreConditionalFails
<1> QED
  BY <1>1, <1>5, <1>6, <1>7, <1>8, <1>9, <1>10 DEF AtomicInc, AtomicDec

\* The reference count implements the shared object that its users rely on.
THEOREM CountImplementsObject == Enough /\ Spec => ImplementsObject
<1>1. Init => Object!Init
  BY InitRefines
<1>2. IInv /\ [Next]_vars => [Object!Next]_(Object!vars)
  BY StepRefines
<1> QED BY <1>1, <1>2, EnoughStays, PTL DEF Spec, ImplementsObject, Object!Spec
=============================================================================
