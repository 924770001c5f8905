---------------------------- MODULE Launch_proof ----------------------------
(* For any number of arrays, contexts, strings and requests: no string is   *)
(* sent twice, nothing is freed twice, and what a freed array leaves behind *)
(* is its vectors, with all or none of its strings.                         *)
EXTENDS Launch, TLAPS

USE MaxContextsAssumption, MaxEnvAssumption, MaxBuildsAssumption

\* The live blocks of an array, and all the blocks an array is made of.
Mine(a) == {b \in heap.live : b[1] = a}
Fixed(a) == ArrayBlock(a) \cup VectorBlocks(a) \cup FieldBlocks(a)
Strings(a) == EnvBlocks(a, EnvsOf(a))

\* Only the contexts of an array have strings.
Sized ==
    /\ \A a \in ArrayId, i \in Context : i > size[a] => count[a][i] = 0
    /\ \A m \in messages, i \in Context : i > m.size => m.counts[i] = 0

\* The loops run over all contexts to the end, so the pointers of an array are
\* all where they started or all at the NULL.
Untouched(a) == \A i \in Context : cursor[a][i] = 0
Exhausted(a) == \A i \in Context : cursor[a][i] = count[a][i]
Uniform == \A a \in ArrayId : Untouched(a) \/ Exhausted(a)

\* What is live of an array, by its state.
Accounted(a) ==
    /\ state[a] = "none" => Mine(a) = {}
    /\ state[a] = "held" => Mine(a) = Fixed(a) \cup Strings(a)
    /\ state[a] = "freed" => Mine(a) \in {VectorBlocks(a), VectorBlocks(a) \cup Strings(a)}
    /\ state[a] = "freed" /\ (\E m \in messages : m.array = a)
         => Mine(a) = VectorBlocks(a) \cup Strings(a)

\* A request leaves the pointers of its array at the end for good.
Sent(m) ==
    /\ m.no <= built
    /\ state[m.array] # "none"
    /\ Exhausted(m.array)
    /\ m.envs \in {{}, EnvsOf(m.array)}

IInv ==
    /\ TypeOK
    /\ Sized
    /\ Uniform
    /\ NoInvalid
    /\ \A a \in ArrayId : Accounted(a)
    /\ \A m \in messages : Sent(m)
    /\ EnvsSentOnce

-----------------------------------------------------------------------------
(* Facts about the blocks and the pointers of one array.                     *)

\* The blocks of an array are its own, and those of different roles differ.
Own(a) ==
    /\ Fixed(a) \cup Strings(a) \subseteq Block
    /\ \A b \in Fixed(a) \cup Strings(a) : b[1] = a
    /\ VectorBlocks(a) \cap (ArrayBlock(a) \cup FieldBlocks(a) \cup Strings(a)) = {}
    /\ Strings(a) \cap Fixed(a) = {}

LEMMA OwnBlocks == TypeOK => \A a \in ArrayId : Own(a)
<1> SUFFICES ASSUME TypeOK, NEW a \in ArrayId PROVE Own(a)
  OBVIOUS
<1>1. size[a] \in 0..MaxContexts /\ 1..size[a] \subseteq 0..MaxContexts
  BY DEF TypeOK
<1>2. \A e \in EnvsOf(a) : e[1] \in 0..MaxContexts /\ e[2] \in 0..MaxEnv
  BY DEF EnvsOf, Env, Context
<1> QED BY <1>1, <1>2 DEF Own, Fixed, Strings, ArrayBlock, VectorBlocks, FieldBlocks,
                           EnvBlocks, Block

\* Ahead of untouched pointers are all strings, ahead of exhausted ones none.
LEMMA AheadOf ==
  ASSUME TypeOK, NEW a \in ArrayId
  PROVE  /\ Untouched(a) => Ahead(a) = EnvsOf(a)
         /\ Exhausted(a) => Ahead(a) = {}
<1>1. \A e \in EnvsOf(a) : e[1] \in Context /\ e[2] \in 1..MaxEnv /\ e[2] <= count[a][e[1]]
  BY DEF EnvsOf, Env
<1>2. \A i \in Context : count[a][i] \in Nat /\ cursor[a][i] \in Nat
  BY DEF TypeOK
<1>3. ASSUME Untouched(a) PROVE Ahead(a) = EnvsOf(a)
  BY <1>1, <1>2, <1>3 DEF Untouched, Ahead
<1>4. ASSUME Exhausted(a) PROVE Ahead(a) = {}
  BY <1>1, <1>2, <1>4 DEF Exhausted, Ahead
<1> QED BY <1>3, <1>4

\* A loop to the NULL moves the pointers of one array to its counts.
LEMMA MoveToEndEffect ==
  ASSUME IInv, NEW a \in ArrayId, MoveToEnd(a)
  PROVE  /\ cursor' \in [ArrayId -> [Context -> 0..MaxEnv]]
         /\ cursor'[a] = count[a]
         /\ \A c \in ArrayId \ {a} : cursor'[c] = cursor[c]
<1>1. AtEnd(a) \in [Context -> 0..MaxEnv]
  BY DEF AtEnd, IInv, TypeOK
<1>2. \A i \in Context : AtEnd(a)[i] = count[a][i]
  <2> SUFFICES ASSUME NEW i \in Context PROVE AtEnd(a)[i] = count[a][i]
    OBVIOUS
  <2>1. i > size[a] => count[a][i] = 0 /\ cursor[a][i] = 0
    BY DEF IInv, TypeOK, Sized
  <2>2. i \in Nat /\ size[a] \in Nat
    BY DEF IInv, TypeOK, Context
  <2> QED BY <2>1, <2>2 DEF AtEnd
<1>3. AtEnd(a) = count[a]
  BY <1>1, <1>2 DEF IInv, TypeOK
<1> QED BY <1>1, <1>3 DEF MoveToEnd, IInv, TypeOK

-----------------------------------------------------------------------------
(* The steps.                                                                *)

\* Making an array adds its blocks and leaves every other array alone.
LEMMA MakeStep ==
  ASSUME IInv, NEW a \in ArrayId, NEW k \in 0..MaxContexts,
         NEW c \in [Context -> 0..MaxEnv], \A i \in Context : i > k => c[i] = 0,
         Make(a, k, c)
  PROVE  IInv'
<1>1. /\ state[a] = "none" /\ state' = [state EXCEPT ![a] = "held"]
      /\ size' = [size EXCEPT ![a] = k] /\ count' = [count EXCEPT ![a] = c]
      /\ cursor' = [cursor EXCEPT ![a] = [i \in Context |-> 0]]
      /\ messages' = messages /\ built' = built
      /\ heap' = Alloc(heap, Fixed(a)' \cup Strings(a)')
  BY DEF Make, Fixed, Strings
<1>2. /\ state' \in [ArrayId -> {"none", "held", "freed"}] /\ size' \in [ArrayId -> 0..MaxContexts]
      /\ count' \in [ArrayId -> [Context -> 0..MaxEnv]]
      /\ cursor' \in [ArrayId -> [Context -> 0..MaxEnv]]
      /\ \A b \in ArrayId, i \in Context : cursor'[b][i] <= count'[b][i]
  BY <1>1 DEF IInv, TypeOK
<1>3. \A b \in ArrayId \ {a} : state'[b] = state[b] /\ size'[b] = size[b]
                                 /\ count'[b] = count[b] /\ cursor'[b] = cursor[b]
  BY <1>1 DEF IInv, TypeOK
<1>4. state'[a] = "held" /\ size'[a] = k /\ count'[a] = c /\ cursor'[a] = [i \in Context |-> 0]
  BY <1>1 DEF IInv, TypeOK
<1>5. Fixed(a)' \cup Strings(a)' \subseteq Block /\ \A b \in Fixed(a)' \cup Strings(a)' : b[1] = a
  <2>1. 1..k \subseteq 0..MaxContexts
    OBVIOUS
  <2>2. \A e \in EnvsOf(a)' : e[1] \in 0..MaxContexts /\ e[2] \in 0..MaxEnv
    BY DEF EnvsOf, Env, Context
  <2> QED BY <1>4, <2>1, <2>2 DEF Fixed, Strings, ArrayBlock, VectorBlocks, FieldBlocks,
                                   EnvBlocks, Block
<1>6. heap' \in [live : SUBSET Block, invalid : SUBSET Block] /\ NoInvalid'
  BY <1>1, <1>5 DEF Alloc, IInv, TypeOK, NoInvalid
<1>7. TypeOK'
  BY <1>1, <1>2, <1>6 DEF IInv, TypeOK
<1>8. Sized'
  <2>1. \A b \in ArrayId, i \in Context : i > size'[b] => count'[b][i] = 0
    BY <1>3, <1>4 DEF IInv, Sized
  <2> QED BY <1>1, <2>1 DEF IInv, Sized
<1>9. Uniform'
  BY <1>3, <1>4 DEF IInv, Uniform, Untouched, Exhausted
<1>10. \A m \in messages : m.array \in ArrayId \ {a}
  BY <1>1 DEF IInv, Sent, TypeOK, Message
<1>11. \A b \in ArrayId \ {a} : EnvsOf(b)' = EnvsOf(b)
  BY <1>3 DEF EnvsOf
<1>12. \A m \in messages' : Sent(m)'
  BY <1>1, <1>3, <1>10, <1>11 DEF IInv, Sent, Exhausted
<1>13. EnvsSentOnce'
  BY <1>1, <1>10, <1>11 DEF IInv, EnvsSentOnce
<1>14. ASSUME NEW b \in ArrayId PROVE Accounted(b)'
  <2>1. CASE b = a
    <3>1. Mine(a)' = Mine(a) \cup Fixed(a)' \cup Strings(a)'
      BY <1>1, <1>5 DEF Mine, Alloc
    <3>2. Mine(a) = {}
      BY <1>1 DEF IInv, Accounted
    <3> QED BY <2>1, <1>4, <3>1, <3>2 DEF Accounted
  <2>2. CASE b # a
    <3>1. Mine(b)' = Mine(b)
      BY <1>1, <1>5, <2>2 DEF Mine, Alloc
    <3>2. Fixed(b)' = Fixed(b) /\ Strings(b)' = Strings(b) /\ VectorBlocks(b)' = VectorBlocks(b)
      BY <1>3, <1>11, <2>2 DEF Fixed, Strings, ArrayBlock, VectorBlocks, FieldBlocks, EnvBlocks
    <3> QED BY <1>1, <1>3, <2>2, <3>1, <3>2 DEF IInv, Accounted
  <2> QED BY <2>1, <2>2
<1> QED BY <1>6, <1>7, <1>8, <1>9, <1>12, <1>13, <1>14 DEF IInv

\* A loop over the strings changes only the pointers of its array: what the
\* blocks and the strings of every array are stays the same.
LEMMA MoveKeeps ==
  ASSUME IInv, NEW a \in ArrayId, MoveToEnd(a), UNCHANGED <<size, count>>
  PROVE  /\ \A b \in ArrayId, i \in Context : cursor'[b][i] <= count'[b][i]
         /\ Uniform' /\ Exhausted(a)'
         /\ \A b \in ArrayId : Exhausted(b) => Exhausted(b)'
         /\ \A b \in ArrayId : /\ EnvsOf(b)' = EnvsOf(b) /\ Strings(b)' = Strings(b)
                                /\ Fixed(b)' = Fixed(b) /\ VectorBlocks(b)' = VectorBlocks(b)
<1>1. /\ cursor'[a] = count[a] /\ count' = count
      /\ \A c \in ArrayId \ {a} : cursor'[c] = cursor[c]
  BY MoveToEndEffect
<1>2. \A b \in ArrayId, i \in Context : cursor'[b][i] <= count'[b][i]
  <2> SUFFICES ASSUME NEW b \in ArrayId, NEW i \in Context PROVE cursor'[b][i] <= count'[b][i]
    OBVIOUS
  <2>1. count[b][i] \in Nat /\ cursor[b][i] <= count[b][i]
    BY DEF IInv, TypeOK
  <2> QED BY <1>1, <2>1
<1>3. Uniform' /\ Exhausted(a)' /\ \A b \in ArrayId : Exhausted(b) => Exhausted(b)'
  BY <1>1 DEF IInv, Uniform, Untouched, Exhausted
<1>4. \A b \in ArrayId : EnvsOf(b)' = EnvsOf(b)
  BY DEF EnvsOf
<1> QED BY <1>2, <1>3, <1>4 DEF Strings, Fixed, ArrayBlock, VectorBlocks, FieldBlocks, EnvBlocks

\* The strings ahead of the pointers of an array in hand are live.
LEMMA HeldBlocksLive ==
  ASSUME IInv, NEW a \in ArrayId, state[a] = "held"
  PROVE  /\ Fixed(a) \cup Strings(a) \subseteq heap.live
         /\ Ahead(a) \subseteq EnvsOf(a)
         /\ EnvBlocks(a, Ahead(a)) \subseteq Strings(a)
         /\ Ahead(a) \in {{}, EnvsOf(a)}
<1>1. Fixed(a) \cup Strings(a) \subseteq heap.live
  BY DEF IInv, Accounted, Mine
<1>2. Ahead(a) \subseteq EnvsOf(a) /\ Ahead(a) \in {{}, EnvsOf(a)}
  BY AheadOf DEF IInv, Uniform, Ahead
<1> QED BY <1>1, <1>2 DEF Strings, EnvBlocks

\* Building or printing reads live blocks only.
LEMMA UseHeld ==
  ASSUME IInv, NEW a \in ArrayId, state[a] = "held",
         heap' = Use(heap, ArrayBlock(a) \cup VectorBlocks(a) \cup FieldBlocks(a)
                             \cup EnvBlocks(a, Ahead(a)))
  PROVE  heap'.live = heap.live /\ heap'.invalid = heap.invalid
         /\ heap' \in [live : SUBSET Block, invalid : SUBSET Block]
BY HeldBlocksLive DEF Use, Fixed, IInv, TypeOK

\* A second request finds the pointers at the end, and carries no string.
LEMMA BuildStep ==
  ASSUME IInv, NEW a \in ArrayId, BuildLaunchRequest(a)
  PROVE  IInv'
<1> DEFINE new == [no |-> built + 1, array |-> a, size |-> size[a],
                   counts |-> [i \in Context |-> count[a][i] - cursor[a][i]], envs |-> Ahead(a)]
<1>1. /\ state[a] = "held" /\ built < MaxBuilds /\ built' = built + 1
      /\ messages' = messages \cup {new} /\ MoveToEnd(a) /\ UNCHANGED <<state, size, count>>
  BY DEF BuildLaunchRequest
<1>2. heap'.live = heap.live /\ heap'.invalid = heap.invalid
      /\ heap' \in [live : SUBSET Block, invalid : SUBSET Block]
  BY UseHeld DEF BuildLaunchRequest
<1>3. Ahead(a) \in {{}, EnvsOf(a)} /\ EnvsOf(a) \subseteq Env
  BY <1>1, HeldBlocksLive DEF EnvsOf
<1>4. /\ \A b \in ArrayId, i \in Context : cursor'[b][i] <= count'[b][i]
      /\ Uniform' /\ Exhausted(a)'
      /\ \A b \in ArrayId : Exhausted(b) => Exhausted(b)'
      /\ \A b \in ArrayId : /\ EnvsOf(b)' = EnvsOf(b) /\ Strings(b)' = Strings(b)
                             /\ Fixed(b)' = Fixed(b) /\ VectorBlocks(b)' = VectorBlocks(b)
  BY <1>1, MoveKeeps
<1>5. new.counts \in [Context -> 0..MaxEnv] /\ \A i \in Context : i > size[a] => new.counts[i] = 0
  <2> SUFFICES ASSUME NEW i \in Context
               PROVE  /\ count[a][i] - cursor[a][i] \in 0..MaxEnv
                      /\ i > size[a] => count[a][i] - cursor[a][i] = 0
    OBVIOUS
  <2>1. count[a][i] \in 0..MaxEnv /\ cursor[a][i] \in 0..MaxEnv /\ cursor[a][i] <= count[a][i]
    BY DEF IInv, TypeOK
  <2>2. i > size[a] => count[a][i] = 0
    BY DEF IInv, Sized
  <2> QED BY <2>1, <2>2
<1>6. TypeOK'
  <2>1. built + 1 \in 1..MaxBuilds /\ size[a] \in 0..MaxContexts /\ Ahead(a) \subseteq Env
    BY <1>1, <1>3 DEF IInv, TypeOK
  <2>2. new \in Message
    BY <1>5, <2>1 DEF Message
  <2>3. cursor' \in [ArrayId -> [Context -> 0..MaxEnv]]
    BY <1>1, MoveToEndEffect
  <2> QED BY <1>1, <1>2, <1>4, <2>1, <2>2, <2>3 DEF IInv, TypeOK
<1>7. Sized'
  BY <1>1, <1>5 DEF IInv, Sized
<1>8. \A m \in messages : m.array \in ArrayId /\ m.no <= built /\ m.no \in Nat /\ built \in Nat
  BY DEF IInv, Sent, TypeOK, Message
<1>9. \A m \in messages' : Sent(m)'
  <2>1. ASSUME NEW m \in messages
        PROVE  /\ m.no <= built' /\ state'[m.array] # "none" /\ Exhausted(m.array)'
               /\ m.envs \in {{}, EnvsOf(m.array)'}
    <3>1. Sent(m) /\ m.array \in ArrayId
      BY <1>8 DEF IInv
    <3>2. m.no <= built'
      BY <1>1, <1>8
    <3> QED BY <1>1, <1>4, <3>1, <3>2 DEF Sent
  <2>2. ASSUME NEW m, m = new
        PROVE  /\ m.no <= built' /\ state'[m.array] # "none" /\ Exhausted(m.array)'
               /\ m.envs \in {{}, EnvsOf(m.array)'}
    <3>1. m.no = built + 1 /\ m.array = a /\ m.envs = Ahead(a)
      BY <2>2
    <3>2. built' <= built'
      BY <1>1, <1>8 DEF IInv, TypeOK
    <3> QED BY <1>1, <1>3, <1>4, <3>1, <3>2
  <2> SUFFICES ASSUME NEW m \in messages' PROVE Sent(m)'
    OBVIOUS
  <2>3. m \in messages \/ m = new
    BY <1>1
  <2> HIDE DEF new
  <2> QED BY <2>1, <2>2, <2>3 DEF Sent
<1>10. EnvsSentOnce'
  <2>1. \A m \in messages' : m.envs \in {{}, EnvsOf(m.array)'}
    BY <1>9 DEF Sent
  <2>2. ASSUME NEW l \in messages, l.array = a PROVE Ahead(a) = {}
    BY <2>2, AheadOf DEF IInv, Sent
  <2>3. ASSUME NEW m \in messages', NEW l \in messages', l.array = m.array, l.no < m.no
        PROVE m.envs = {}
    <3>1. CASE m \in messages /\ l \in messages
      BY <2>3, <3>1 DEF IInv, EnvsSentOnce
    <3>2. CASE m = new /\ l \in messages
      <4>1. l.array = a
        BY <2>3, <3>2
      <4> QED BY <2>2, <3>2, <4>1
    <3>3. CASE l = new
      <4>1. l.no = built + 1 /\ (m \in messages \/ m.no = built + 1)
        BY <1>1, <3>3
      <4>2. m.no <= built + 1 /\ m.no \in Nat /\ built \in Nat
        BY <1>8, <4>1 DEF IInv, TypeOK
      <4> QED BY <2>3, <4>1, <4>2
    <3> QED BY <1>1, <3>1, <3>2, <3>3
  <2> QED BY <2>1, <2>3 DEF EnvsSentOnce
<1>11. \A b \in ArrayId : Accounted(b)'
  <2> SUFFICES ASSUME NEW b \in ArrayId PROVE Accounted(b)'
    OBVIOUS
  <2>1. Mine(b)' = Mine(b)
    BY <1>2 DEF Mine
  <2>2. state[b] = "freed" => b # a
    BY <1>1
  <2>3. \A m \in messages' : m.array = b /\ b # a => m \in messages
    BY <1>1
  <2> QED BY <1>1, <1>4, <2>1, <2>2, <2>3 DEF IInv, Accounted
<1> QED BY <1>2, <1>4, <1>6, <1>7, <1>9, <1>10, <1>11 DEF IInv, NoInvalid

LEMMA PrintStep ==
  ASSUME IInv, NEW a \in ArrayId, PrintContexts(a)
  PROVE  IInv'
<1>1. state[a] = "held" /\ MoveToEnd(a) /\ UNCHANGED <<state, size, count, messages, built>>
  BY DEF PrintContexts
<1>2. heap'.live = heap.live /\ heap'.invalid = heap.invalid
      /\ heap' \in [live : SUBSET Block, invalid : SUBSET Block]
  BY UseHeld DEF PrintContexts
<1>3. /\ \A b \in ArrayId, i \in Context : cursor'[b][i] <= count'[b][i]
      /\ Uniform' /\ Exhausted(a)'
      /\ \A b \in ArrayId : Exhausted(b) => Exhausted(b)'
      /\ \A b \in ArrayId : /\ EnvsOf(b)' = EnvsOf(b) /\ Strings(b)' = Strings(b)
                             /\ Fixed(b)' = Fixed(b) /\ VectorBlocks(b)' = VectorBlocks(b)
  BY <1>1, MoveKeeps
<1>4. TypeOK' /\ Sized'
  BY <1>1, <1>2, <1>3, MoveToEndEffect DEF IInv, TypeOK, Sized
<1>5. \A m \in messages' : m.array \in ArrayId
  BY <1>1 DEF IInv, TypeOK, Message
<1>6. (\A m \in messages' : Sent(m)') /\ EnvsSentOnce'
  BY <1>1, <1>3, <1>5 DEF IInv, Sent, EnvsSentOnce
<1>7. \A b \in ArrayId : Accounted(b)'
  BY <1>1, <1>2, <1>3 DEF IInv, Accounted, Mine
<1> QED BY <1>2, <1>3, <1>4, <1>6, <1>7 DEF IInv, NoInvalid

\* Freeing an array frees live blocks once each and leaves its vectors, with
\* the strings the pointers had already moved past.
LEMMA FreeStep ==
  ASSUME IInv, NEW a \in ArrayId, FreeLaunchContextArray(a)
  PROVE  IInv'
<1>1. /\ state[a] = "held" /\ state' = [state EXCEPT ![a] = "freed"] /\ MoveToEnd(a)
      /\ UNCHANGED <<size, count, messages, built>>
      /\ heap' = Free(Use(heap, ArrayBlock(a) \cup VectorBlocks(a)), Freed(a))
  BY DEF FreeLaunchContextArray
<1>2. /\ \A b \in ArrayId, i \in Context : cursor'[b][i] <= count'[b][i]
      /\ Uniform' /\ Exhausted(a)'
      /\ \A b \in ArrayId : Exhausted(b) => Exhausted(b)'
      /\ \A b \in ArrayId : /\ EnvsOf(b)' = EnvsOf(b) /\ Strings(b)' = Strings(b)
                             /\ Fixed(b)' = Fixed(b) /\ VectorBlocks(b)' = VectorBlocks(b)
  BY <1>1, MoveKeeps
<1>3. /\ Fixed(a) \cup Strings(a) \subseteq heap.live
      /\ EnvBlocks(a, Ahead(a)) \subseteq Strings(a)
      /\ Ahead(a) \in {{}, EnvsOf(a)}
  BY <1>1, HeldBlocksLive
<1>4. Own(a)
  BY OwnBlocks DEF IInv
<1>5. Freed(a) \subseteq heap.live /\ \A b \in Freed(a) : b[1] = a
  BY <1>3, <1>4 DEF Freed, Fixed, Own
<1>6. heap'.live = heap.live \ Freed(a) /\ heap'.invalid = heap.invalid
      /\ heap' \in [live : SUBSET Block, invalid : SUBSET Block]
  BY <1>1, <1>3, <1>5 DEF Free, Use, Fixed, IInv, TypeOK
<1>7. TypeOK' /\ Sized'
  BY <1>1, <1>2, <1>6, MoveToEndEffect DEF IInv, TypeOK, Sized
<1>8. \A m \in messages' : m.array \in ArrayId
  BY <1>1 DEF IInv, TypeOK, Message
<1>9. \A b \in ArrayId : state'[b] # "none" <=> state[b] # "none"
  BY <1>1 DEF IInv, TypeOK
<1>10. (\A m \in messages' : Sent(m)') /\ EnvsSentOnce'
  BY <1>1, <1>2, <1>8, <1>9 DEF IInv, Sent, EnvsSentOnce
<1>11. \A b \in ArrayId : Accounted(b)'
  <2> SUFFICES ASSUME NEW b \in ArrayId PROVE Accounted(b)'
    OBVIOUS
  <2>1. CASE b # a
    <3>1. Mine(b)' = Mine(b)
      BY <1>5, <1>6, <2>1 DEF Mine
    <3>2. state'[b] = state[b]
      BY <1>1, <2>1 DEF IInv, TypeOK
    <3> QED BY <1>1, <1>2, <3>1, <3>2 DEF IInv, Accounted
  <2>2. CASE b = a
    <3>1. state'[a] = "freed"
      BY <1>1 DEF IInv, TypeOK
    <3>2. Mine(a) = Fixed(a) \cup Strings(a)
      BY <1>1 DEF IInv, Accounted
    <3>3. Mine(a)' = Mine(a) \ Freed(a)
      BY <1>6 DEF Mine
    <3>4. CASE Ahead(a) = {}
      <4>1. Freed(a) = FieldBlocks(a) \cup ArrayBlock(a)
        BY <3>4 DEF Freed, EnvBlocks
      <4>2. Mine(a)' = VectorBlocks(a) \cup Strings(a)
        BY <1>4, <3>2, <3>3, <4>1 DEF Own, Fixed
      <4> QED BY <1>2, <2>2, <3>1, <4>2 DEF Accounted
    <3>5. CASE Ahead(a) # {}
      <4>1. Freed(a) = Strings(a) \cup FieldBlocks(a) \cup ArrayBlock(a)
        BY <1>3, <3>5 DEF Freed, Strings
      <4>2. Mine(a)' = VectorBlocks(a)
        BY <1>4, <3>2, <3>3, <4>1 DEF Own, Fixed
      <4>3. \A m \in messages' : m.array # a
        BY <1>1, <3>5, AheadOf DEF IInv, Sent
      <4> QED BY <1>2, <2>2, <3>1, <4>2, <4>3 DEF Accounted
    <3> QED BY <3>4, <3>5
  <2> QED BY <2>1, <2>2
<1> QED BY <1>2, <1>6, <1>7, <1>10, <1>11 DEF IInv, NoInvalid

-----------------------------------------------------------------------------
(* The theorems.                                                             *)

LEMMA InitIInv == Init => IInv
<1> SUFFICES ASSUME Init PROVE IInv
  OBVIOUS
<1>1. TypeOK /\ Sized
  BY DEF Init, TypeOK, Sized, HeapEmpty
<1>2. \A a \in ArrayId : Mine(a) = {} /\ state[a] = "none"
  BY DEF Init, Mine, HeapEmpty
<1> QED BY <1>1, <1>2 DEF Init, IInv, Uniform, Untouched, NoInvalid, Accounted,
                          EnvsSentOnce, HeapEmpty

LEMMA NextIInv == IInv /\ [Next]_vars => IInv'
<1> SUFFICES ASSUME IInv, [Next]_vars PROVE IInv'
  OBVIOUS
<1>1. ASSUME NEW a \in ArrayId, NewContexts(a) PROVE IInv'
  <2>1. PICK k \in Context, c \in [Context -> 0..MaxEnv] :
          (\A i \in Context : i > k => c[i] = 0) /\ Make(a, k, c)
    BY <1>1 DEF NewContexts
  <2>2. k \in 0..MaxContexts
    BY DEF Context
  <2> QED BY <2>1, <2>2, MakeStep
<1>2. ASSUME NEW a \in ArrayId, ParseLaunchRequest(a) PROVE IInv'
  <2>1. PICK m \in messages : Make(a, m.size, m.counts)
    BY <1>2 DEF ParseLaunchRequest
  <2>2. /\ m.size \in 0..MaxContexts /\ m.counts \in [Context -> 0..MaxEnv]
        /\ \A i \in Context : i > m.size => m.counts[i] = 0
    BY DEF IInv, TypeOK, Message, Sized
  <2> QED BY <2>1, <2>2, MakeStep
<1>3. ASSUME NEW a \in ArrayId, BuildLaunchRequest(a) PROVE IInv'
  BY <1>3, BuildStep
<1>4. ASSUME NEW a \in ArrayId, PrintContexts(a) PROVE IInv'
  BY <1>4, PrintStep
<1>5. ASSUME NEW a \in ArrayId, FreeLaunchContextArray(a) PROVE IInv'
  BY <1>5, FreeStep
<1>6. CASE UNCHANGED vars
  <2>1. UNCHANGED <<state, size, count, cursor, heap, messages, built>>
    BY <1>6 DEF vars
  <2>2. TypeOK' /\ Sized' /\ Uniform' /\ NoInvalid'
    BY <2>1 DEF IInv, TypeOK, Sized, Uniform, Untouched, Exhausted, NoInvalid
  <2>3. /\ \A a : /\ EnvsOf(a)' = EnvsOf(a) /\ Mine(a)' = Mine(a)
                  /\ ArrayBlock(a)' = ArrayBlock(a) /\ VectorBlocks(a)' = VectorBlocks(a)
                  /\ FieldBlocks(a)' = FieldBlocks(a)
    BY <2>1 DEF EnvsOf, Mine, ArrayBlock, VectorBlocks, FieldBlocks
  <2>4. \A a : Fixed(a)' = Fixed(a) /\ Strings(a)' = Strings(a)
    BY <2>3 DEF Fixed, Strings, EnvBlocks
  <2>5. \A a \in ArrayId : Accounted(a)'
    BY <2>1, <2>3, <2>4 DEF IInv, Accounted
  <2>6. (\A m \in messages' : Sent(m)') /\ EnvsSentOnce'
    BY <2>1, <2>3 DEF IInv, Sent, Exhausted, EnvsSentOnce
  <2> QED BY <2>2, <2>5, <2>6 DEF IInv
<1> QED BY <1>1, <1>2, <1>3, <1>4, <1>5, <1>6 DEF Next

\* The invariant holds in every state of every run.
THEOREM Invariance == Spec => []IInv
BY InitIInv, NextIInv, PTL DEF Spec

\* The variables keep their types; no cursor passes the NULL of its vector.
THEOREM TypeCorrect == Spec => []TypeOK
<1>1. IInv => TypeOK
  BY DEF IInv
<1> QED BY <1>1, Invariance, PTL

\* However requests are built, printed, freed and built again, an environment
\* string is in at most one request, and a retry carries none.
THEOREM SentOnce == Spec => []EnvsSentOnce
<1>1. IInv => EnvsSentOnce
  BY DEF IInv
<1> QED BY <1>1, Invariance, PTL

\* No order of the calls frees a block twice or reads a freed one.
THEOREM NeverInvalid == Spec => []NoInvalid
<1>1. IInv => NoInvalid
  BY DEF IInv
<1> QED BY <1>1, Invariance, PTL

\* What a freed array leaves behind is its vectors, with none of its strings
\* or with all of them; with all if a request was ever built from it.
THEOREM LossIsKnown == Spec => []LostStrings
<1>1. IInv => LostStrings
  <2> SUFFICES ASSUME IInv, NEW a \in ArrayId
               PROVE LET live == {b \in heap.live : b[1] = a}
                         fixed == ArrayBlock(a) \cup VectorBlocks(a) \cup FieldBlocks(a)
                         strings == EnvBlocks(a, EnvsOf(a))
                     IN  /\ state[a] = "none" => live = {}
                         /\ state[a] = "held" => live = fixed \cup strings
                         /\ state[a] = "freed" =>
                              live \in {VectorBlocks(a), VectorBlocks(a) \cup strings}
                         /\ state[a] = "freed" /\ (\E m \in messages : m.array = a)
                              => live = VectorBlocks(a) \cup strings
    BY DEF LostStrings
  <2> QED BY DEF IInv, Accounted, Mine, Fixed, Strings
<1> QED BY <1>1, Invariance, PTL
=============================================================================
