--------------------------- MODULE Exchange_proof ---------------------------
(* The conversation of Exchange is the remote calls of HnpRpc, for every    *)
(* codec that satisfies CodecInverts and any bounds, arguments, contexts    *)
(* and replies.  Nothing in a response says what it answers: that it is     *)
(* parsed as the right reply rests on the queues.  As long as a process has *)
(* not exited, what is under way to it are exactly the messages of the      *)
(* requests not yet handled and of the replies not yet returned, in order,  *)
(* and the types the HNP awaits are those of the requests not returned.     *)
EXTENDS Exchange, SequenceTheorems, TLAPS

Asked == UNION {{[type |-> t, arg |-> a] : a \in ArgsOf(t)} : t \in MsgType}
Reply == UNION {RepliesTo(t) : t \in MsgType}
Outcome == UNION {{Result(t, x) : x \in RepliesTo(t)} : t \in MsgType}

Inner(q) == BuildRequest(q.type, q.arg)
Wire(q) == Wrap(Inner(q).bytes, q.type)
Answer(q, x) == BuildResponse(q.type, x)

Types ==
    /\ sent \in Seq(Asked)
    /\ got \in Seq(Asked)
    /\ replied \in Seq(Reply)
    /\ results \in Seq(Outcome)
    /\ outstanding \in Seq(MsgType)
    /\ toPeer \in Seq({Wire(q).bytes : q \in Asked})
    /\ toHnp \in Seq({Answer(q, x).bytes : q \in Asked, x \in Reply})
    /\ exited \in [{"hnp", "peer"} -> {"no", "oversize", "unreadable"}]

\* The peer handles requests in order, the HNP returns from them in order.
Order ==
    /\ Len(results) <= Len(replied)
    /\ Len(replied) = Len(got)
    /\ Len(got) <= Len(sent)
    /\ \A k \in 1..Len(got) : got[k] = sent[k]
    /\ \A k \in 1..Len(replied) : replied[k] \in RepliesTo(sent[k].type)

\* Either no pointer of a context has moved or all are at the end.
Strings ==
    exited["hnp"] = "no" =>
        cursor = [i \in DOMAIN Contexts |-> IF Rpc!Launched THEN Len(Contexts[i].en_vars) ELSE 0]

Requests ==
    exited["peer"] = "no" =>
        /\ Len(toPeer) = Len(sent) - Len(got)
        /\ \A i \in 1..Len(toPeer) :
             LET q == sent[Len(got) + i]
             IN  toPeer[i] = Wire(q).bytes /\ Inner(q).ok /\ Wire(q).ok

Responses ==
    exited["hnp"] = "no" =>
        /\ Len(toHnp) = Len(replied) - Len(results)
        /\ \A i \in 1..Len(toHnp) :
             LET k == Len(results) + i
             IN  /\ toHnp[i] = Answer(sent[k], replied[k]).bytes
                 /\ Answer(sent[k], replied[k]).ok

Awaiting ==
    exited["hnp"] = "no" =>
        /\ Len(outstanding) = Len(sent) - Len(results)
        /\ \A i \in 1..Len(outstanding) : outstanding[i] = sent[Len(results) + i].type

IInv ==
    /\ Types /\ Order /\ Strings
    /\ Requests /\ Responses /\ Awaiting
    /\ AlwaysReadable

-----------------------------------------------------------------------------
(* Lemmas about the data.                                                    *)

\* Exchange and the abstract service speak of the same calls.
LEMMA SameCalls ==
  /\ Rpc!MsgType = MsgType /\ Rpc!Stripped = Stripped
  /\ \A type : Rpc!RepliesTo(type) = RepliesTo(type)
  /\ \A type, reply : Rpc!Result(type, reply) = Result(type, reply)
BY DEF Rpc!MsgType, MsgType, Rpc!Stripped, Stripped, Rpc!StatusType, StatusType, Rpc!None, None,
       Rpc!RepliesTo, RepliesTo, Rpc!Result, Result

\* What a request is made of.
LEMMA AskedParts ==
  ASSUME NEW q \in Asked
  PROVE  /\ q.type \in MsgType /\ q.arg \in ArgsOf(q.type)
         /\ q = [type |-> q.type, arg |-> q.arg]
BY DEF Asked

LEMMA ArgsAsked ==
  ASSUME NEW type \in MsgType, NEW arg \in Rpc!ArgsNow(type)
  PROVE  arg \in ArgsOf(type) /\ [type |-> type, arg |-> arg] \in Asked
<1>1. arg \in ArgsOf(type)
  BY SameCalls DEF Rpc!ArgsNow, ArgsOf
<1> QED BY <1>1 DEF Asked

\* A launch context whose vector of strings is replaced by itself.
LEMMA ContextKept ==
  ASSUME NEW i \in DOMAIN Contexts
  PROVE  [Contexts[i] EXCEPT !.en_vars = Contexts[i].en_vars] = Contexts[i]
BY ContextsAssumption

LEMMA VectorEnds ==
  ASSUME NEW i \in DOMAIN Contexts
  PROVE  /\ SubSeq(Contexts[i].en_vars, 0 + 1, Len(Contexts[i].en_vars)) = Contexts[i].en_vars
         /\ SubSeq(Contexts[i].en_vars, Len(Contexts[i].en_vars) + 1, Len(Contexts[i].en_vars)) = <<>>
<1> DEFINE e == Contexts[i].en_vars
           S == {e[k] : k \in DOMAIN e}
<1>1. e \in Seq(S)
  BY ContextsAssumption
<1> HIDE DEF S
<1>2. Len(e) \in Nat /\ \A k \in 1..Len(e) : e[k] \in S
  BY <1>1, LenProperties, ElementOfSeq
<1>3. /\ SubSeq(e, 1, Len(e)) \in Seq(S)
      /\ Len(SubSeq(e, 1, Len(e))) = Len(e)
      /\ \A k \in 1..Len(e) : SubSeq(e, 1, Len(e))[k] = e[k]
  BY <1>2, SubSeqProperties
<1>4. SubSeq(e, 1, Len(e)) = e
  BY <1>1, <1>3, SeqEqual
<1>5. SubSeq(e, Len(e) + 1, Len(e)) = <<>>
  BY <1>2, SubSeqEmpty
<1> QED BY <1>4, <1>5

\* What build_launch_request is given is what the caller of LAUNCH may pass.
LEMMA AheadNow ==
  ASSUME Strings, exited["hnp"] = "no"
  PROVE  Rpc!ArgsNow("LAUNCH") = {Ahead}
<1>1. CASE Rpc!Launched
  <2>1. \A i \in DOMAIN Contexts :
          [Contexts[i] EXCEPT !.en_vars = SubSeq(@, cursor[i] + 1, Len(@))]
          = [Contexts[i] EXCEPT !.en_vars = <<>>]
    BY <1>1, VectorEnds DEF Strings
  <2>2. Ahead = Stripped
    BY <2>1 DEF Ahead, Stripped
  <2> QED BY <1>1, <2>2, SameCalls DEF Rpc!ArgsNow
<1>2. CASE ~Rpc!Launched
  <2>1. \A i \in DOMAIN Contexts :
          [Contexts[i] EXCEPT !.en_vars = SubSeq(@, cursor[i] + 1, Len(@))]
          = Contexts[i]
    BY <1>2, VectorEnds, ContextKept DEF Strings
  <2>2. Contexts = [i \in DOMAIN Contexts |-> Contexts[i]]
    BY ContextsAssumption
  <2>3. Ahead = Contexts
    BY <2>1, <2>2 DEF Ahead
  <2> QED BY <1>2, <2>3 DEF Rpc!ArgsNow
<1> QED BY <1>1, <1>2

LEMMA Lengths ==
  ASSUME Types
  PROVE  /\ Len(sent) \in Nat /\ Len(got) \in Nat /\ Len(replied) \in Nat
         /\ Len(results) \in Nat /\ Len(outstanding) \in Nat
         /\ Len(toPeer) \in Nat /\ Len(toHnp) \in Nat
         /\ \A k \in 1..Len(sent) : sent[k] \in Asked
         /\ DOMAIN sent = 1..Len(sent)
BY LenProperties, ElementOfSeq DEF Types

-----------------------------------------------------------------------------
LEMMA InitIInv ==
  ASSUME Init
  PROVE  IInv
<1>1. Types
  BY EmptySeq DEF Init, Types
<1>2. ~Rpc!Launched
  BY DEF Init, Rpc!Launched
<1> QED
  BY <1>1, <1>2 DEF Init, IInv, Order, Strings, Requests, Responses, Awaiting, AlwaysReadable

-----------------------------------------------------------------------------
(* The HNP sends.                                                            *)

\* Whether a message fits or not, an exit leaves the rest as it was.
LEMMA ExitKeeps ==
  ASSUME IInv, NEW p \in {"hnp", "peer"}, Exit(p, "oversize"),
         UNCHANGED history,
         p = "hnp" => UNCHANGED <<outstanding, toPeer, toHnp>>,
         p = "peer" => /\ UNCHANGED <<cursor, outstanding, toHnp>>
                       /\ toPeer' \in Seq({Wire(q).bytes : q \in Asked})
  PROVE  IInv'
<1>1. /\ exited' \in [{"hnp", "peer"} -> {"no", "oversize", "unreadable"}]
      /\ exited'[p] = "oversize"
      /\ \A o \in {"hnp", "peer"} \ {p} : exited'[o] = exited[o]
  BY DEF Exit, IInv, Types
<1>2. UNCHANGED <<sent, got, replied, results>>
  BY DEF history
<1>3. Types' /\ Order'
  BY <1>1, <1>2 DEF IInv, Types, Order
<1>4. AlwaysReadable'
  BY <1>1 DEF IInv, AlwaysReadable, Types
<1>5. CASE p = "hnp"
  <2>1. exited'["hnp"] # "no" /\ exited'["peer"] = exited["peer"]
    BY <1>1, <1>5
  <2> QED BY <1>2, <1>3, <1>4, <1>5, <2>1 DEF IInv, Strings, Requests, Responses, Awaiting
<1>6. CASE p = "peer"
  <2>1. exited'["peer"] # "no" /\ exited'["hnp"] = exited["hnp"]
    BY <1>1, <1>6
  <2>2. Strings' /\ Requests' /\ Responses' /\ Awaiting'
    BY <1>2, <1>6, <2>1
    DEF IInv, Strings, Requests, Responses, Awaiting, Rpc!Launched
  <2> QED BY <1>3, <1>4, <2>2 DEF IInv
<1> QED BY <1>5, <1>6

\* A request that could be built and wrapped.
LEMMA SendKeeps ==
  ASSUME IInv, NEW q \in Asked, exited["hnp"] = "no",
         Inner(q).ok, Wire(q).ok,
         cursor' = (IF q.type = "LAUNCH"
                    THEN [i \in DOMAIN Contexts |-> Len(Contexts[i].en_vars)] ELSE cursor),
         toPeer' = Append(toPeer, Wire(q).bytes),
         outstanding' = Append(outstanding, q.type),
         sent' = Append(sent, q),
         UNCHANGED <<exited, toHnp, got, replied, results>>
  PROVE  IInv'
<1> USE Lengths DEF IInv
<1>1. /\ sent' \in Seq(Asked) /\ Len(sent') = Len(sent) + 1
      /\ \A k \in 1..Len(sent) : sent'[k] = sent[k]
      /\ sent'[Len(sent) + 1] = q
  BY AppendProperties DEF Types
<1>2. Wire(q).bytes \in {Wire(x).bytes : x \in Asked} /\ q.type \in MsgType
  BY AskedParts
<1>3. /\ toPeer' \in Seq({Wire(x).bytes : x \in Asked}) /\ Len(toPeer') = Len(toPeer) + 1
      /\ \A k \in 1..Len(toPeer) : toPeer'[k] = toPeer[k]
      /\ toPeer'[Len(toPeer) + 1] = Wire(q).bytes
  <2> DEFINE S == {Wire(x).bytes : x \in Asked}
  <2>1. toPeer \in Seq(S) /\ Wire(q).bytes \in S
    BY <1>2 DEF Types
  <2> HIDE DEF S
  <2>2. /\ toPeer' \in Seq(S) /\ Len(toPeer') = Len(toPeer) + 1
        /\ \A k \in 1..Len(toPeer) : toPeer'[k] = toPeer[k]
        /\ toPeer'[Len(toPeer) + 1] = Wire(q).bytes
    BY <2>1, AppendProperties
  <2> QED BY <2>2 DEF S
<1>4. /\ outstanding' \in Seq(MsgType) /\ Len(outstanding') = Len(outstanding) + 1
      /\ \A k \in 1..Len(outstanding) : outstanding'[k] = outstanding[k]
      /\ outstanding'[Len(outstanding) + 1] = q.type
  BY <1>2, AppendProperties DEF Types
<1>5. Types'
  BY <1>1, <1>3, <1>4 DEF Types
<1>6. Order'
  BY <1>1 DEF Order
<1>7. Strings'
  <2>1. Rpc!Launched' <=> Rpc!Launched \/ q.type = "LAUNCH"
    <3>1. DOMAIN sent' = 1..(Len(sent) + 1)
      BY <1>1, LenProperties
    <3>2. \A k \in 1..(Len(sent) + 1) : k \in 1..Len(sent) \/ k = Len(sent) + 1
      OBVIOUS
    <3> QED BY <1>1, <3>1, <3>2 DEF Rpc!Launched
  <2>2. CASE q.type = "LAUNCH"
    BY <2>1, <2>2 DEF Strings
  <2>3. CASE q.type # "LAUNCH"
    BY <2>1, <2>3 DEF Strings
  <2> QED BY <2>2, <2>3
<1>8. Requests'
  <2> SUFFICES ASSUME exited["peer"] = "no"
               PROVE  /\ Len(toPeer') = Len(sent') - Len(got)
                      /\ \A i \in 1..Len(toPeer') :
                           LET x == sent'[Len(got) + i]
                           IN  toPeer'[i] = Wire(x).bytes /\ Inner(x).ok /\ Wire(x).ok
    BY DEF Requests, Wire, Inner
  <2>1. Len(toPeer') = Len(sent') - Len(got) /\ Len(got) + Len(toPeer) = Len(sent)
    BY <1>1, <1>3 DEF Requests
  <2>2. ASSUME NEW i \in 1..Len(toPeer')
        PROVE  LET x == sent'[Len(got) + i]
               IN  toPeer'[i] = Wire(x).bytes /\ Inner(x).ok /\ Wire(x).ok
    <3>1. CASE i \in 1..Len(toPeer)
      <4>1. Len(got) + i \in 1..Len(sent)
        BY <2>1, <3>1
      <4>2. sent'[Len(got) + i] = sent[Len(got) + i] /\ toPeer'[i] = toPeer[i]
        BY <1>1, <1>3, <3>1, <4>1
      <4> QED BY <3>1, <4>2 DEF Requests
    <3>2. CASE i = Len(toPeer) + 1
      <4>1. Len(got) + i = Len(sent) + 1
        BY <2>1, <3>2
      <4>2. sent'[Len(got) + i] = q /\ toPeer'[i] = Wire(q).bytes
        BY <1>1, <1>3, <3>2, <4>1
      <4> QED BY <4>2
    <3>3. i \in 1..Len(toPeer) \/ i = Len(toPeer) + 1
      BY <1>3
    <3> QED BY <3>1, <3>2, <3>3
  <2> QED BY <2>1, <2>2
<1>9. Responses'
  <2> SUFFICES ASSUME NEW i \in 1..Len(toHnp)
               PROVE  LET k == Len(results) + i
                      IN  /\ toHnp[i] = Answer(sent'[k], replied[k]).bytes
                          /\ Answer(sent'[k], replied[k]).ok
    BY DEF Responses, Answer
  <2>1. Len(results) + i \in 1..Len(sent)
    BY DEF Responses, Order
  <2> QED BY <1>1, <2>1 DEF Responses
<1>10. Awaiting'
  <2>1. Len(outstanding') = Len(sent') - Len(results) /\ Len(results) + Len(outstanding) = Len(sent)
    BY <1>1, <1>4 DEF Awaiting
  <2>2. ASSUME NEW i \in 1..Len(outstanding')
        PROVE  outstanding'[i] = sent'[Len(results) + i].type
    <3>1. CASE i \in 1..Len(outstanding)
      <4>1. Len(results) + i \in 1..Len(sent)
        BY <2>1, <3>1
      <4> QED BY <1>1, <1>4, <3>1, <4>1 DEF Awaiting
    <3>2. CASE i = Len(outstanding) + 1
      <4>1. Len(results) + i = Len(sent) + 1
        BY <2>1, <3>2
      <4> QED BY <1>1, <1>4, <3>2, <4>1
    <3>3. i \in 1..Len(outstanding) \/ i = Len(outstanding) + 1
      <4>1. Len(outstanding) \in Nat
        OBVIOUS
      <4> QED BY <1>4, <4>1
    <3> QED BY <3>1, <3>2, <3>3
  <2> QED BY <2>1, <2>2 DEF Awaiting
<1>11. AlwaysReadable'
  BY DEF AlwaysReadable
<1> QED BY <1>5, <1>6, <1>7, <1>8, <1>9, <1>10, <1>11

LEMMA SendStep ==
  ASSUME IInv, NEW type \in MsgType, Send(type)
  PROVE  IInv' /\ [Rpc!Next]_(Rpc!vars)
<1> PICK arg \in Rpc!ArgsNow(type) :
       LET inner == BuildRequest(type, IF type = "LAUNCH" THEN Ahead ELSE arg)
           wrapper == Wrap(inner.bytes, type)
       IN  IF inner.ok /\ wrapper.ok
           THEN /\ toPeer' = Append(toPeer, wrapper.bytes)
                /\ outstanding' = Append(outstanding, type)
                /\ sent' = Append(sent, [type |-> type, arg |-> arg])
                /\ exited' = exited
           ELSE Exit("hnp", "oversize") /\ UNCHANGED <<toPeer, outstanding, sent>>
  BY DEF Send
<1> DEFINE q == [type |-> type, arg |-> arg]
<1>1. /\ exited["hnp"] = "no" /\ UNCHANGED <<toHnp, got, replied, results>>
      /\ Len(sent) < MaxRequests /\ Len(outstanding) < MaxInFlight
      /\ cursor' = (IF type = "LAUNCH"
                    THEN [i \in DOMAIN Contexts |-> Len(Contexts[i].en_vars)] ELSE cursor)
  BY DEF Send, MoveCursor
<1>2. q \in Asked /\ q.type = type /\ q.arg = arg
  BY ArgsAsked
<1>3. (IF type = "LAUNCH" THEN Ahead ELSE arg) = arg
  BY <1>1, AheadNow DEF IInv
<1>4. CASE Inner(q).ok /\ Wire(q).ok
  <2>1. /\ toPeer' = Append(toPeer, Wire(q).bytes)
        /\ outstanding' = Append(outstanding, type)
        /\ sent' = Append(sent, q)
        /\ exited' = exited
    BY <1>3, <1>4 DEF Inner, Wire
  <2>2. IInv'
    BY <1>1, <1>2, <1>4, <2>1, SendKeeps
  <2>3. Len(sent) - Len(results) < MaxInFlight
    BY <1>1 DEF IInv, Awaiting
  <2>4. Rpc!Call(type)
    BY <1>1, <2>1, <2>3 DEF Rpc!Call
  <2> QED BY <2>2, <2>4, SameCalls DEF Rpc!Next
<1>5. CASE ~(Inner(q).ok /\ Wire(q).ok)
  <2>1. Exit("hnp", "oversize") /\ UNCHANGED <<toPeer, outstanding, sent>>
    BY <1>3, <1>5 DEF Inner, Wire
  <2>2. IInv'
    BY <1>1, <2>1, ExitKeeps DEF history
  <2> QED BY <1>1, <2>1, <2>2 DEF Rpc!vars
<1> QED BY <1>4, <1>5

-----------------------------------------------------------------------------
(* The peer handles.                                                         *)

\* The request at the head of the queue is the first not handled, and it is
\* read back as it was sent.
LEMMA HeadRequest ==
  ASSUME IInv, PeerTakes
  PROVE  LET q == sent[Len(got) + 1]
             w == Unwrap(Head(toPeer))
             request == ParseRequest(w.result.msg_type, w.result.inner)
         IN  /\ Len(got) < Len(sent) /\ q \in Asked
             /\ w.ok /\ w.result.msg_type = q.type
             /\ request.ok /\ request.result = q.arg
<1> USE Lengths DEF IInv
<1> DEFINE q == sent[Len(got) + 1]
<1>1. toPeer # <<>> /\ exited["peer"] = "no"
  BY DEF PeerTakes
<1>2. Len(toPeer) \in Nat \ {0}
  BY <1>1, EmptySeq DEF Types
<1>3. Len(toPeer) = Len(sent) - Len(got)
  BY <1>1 DEF Requests
<1>4. Len(got) < Len(sent) /\ Len(got) + 1 \in 1..Len(sent)
  BY <1>2, <1>3
<1>5. toPeer[1] = Wire(q).bytes /\ Inner(q).ok /\ Wire(q).ok
  <2>1. 1 \in 1..Len(toPeer)
    BY <1>2
  <2> QED BY <1>1, <2>1 DEF Requests
<1>6. q \in Asked
  BY <1>4
<1>7. Head(toPeer) = toPeer[1]
  BY <1>1 DEF Types
<1>8. q.type \in MsgType /\ q.arg \in ArgsOf(q.type)
  BY <1>6, AskedParts
<1> HIDE DEF q
<1> DEFINE w == Unwrap(Wire(q).bytes)
           request == ParseRequest(q.type, w.result.inner)
<1>9. w.ok /\ w.result.msg_type = q.type /\ request.ok /\ request.result = q.arg
  BY <1>5, <1>8, CodecAssumption, SMTT(30) DEF CodecInverts, Wire, Inner
<1>10. Head(toPeer) = Wire(q).bytes
  BY <1>5, <1>7
<1> QED BY <1>4, <1>6, <1>9, <1>10 DEF q

\* A request handled and a reply that could be built.
LEMMA HandleKeeps ==
  ASSUME IInv, NEW reply, exited["peer"] = "no", toPeer # <<>>,
         Len(got) < Len(sent),
         reply \in RepliesTo(sent[Len(got) + 1].type),
         Answer(sent[Len(got) + 1], reply).ok,
         toPeer' = Tail(toPeer),
         got' = Append(got, sent[Len(got) + 1]),
         replied' = Append(replied, reply),
         toHnp' = Append(toHnp, Answer(sent[Len(got) + 1], reply).bytes),
         UNCHANGED <<exited, cursor, outstanding, sent, results>>
  PROVE  IInv'
<1> USE Lengths DEF IInv
<1> DEFINE q == sent[Len(got) + 1]
<1>1. Len(got) + 1 \in 1..Len(sent) /\ Len(replied) = Len(got)
  BY DEF Order
<1>2. q \in Asked /\ q.type \in MsgType
  BY <1>1, AskedParts
<1>3. reply \in Reply
  BY <1>2 DEF Reply
<1> HIDE DEF q
<1>4. /\ got' \in Seq(Asked) /\ Len(got') = Len(got) + 1
      /\ \A k \in 1..Len(got) : got'[k] = got[k]
      /\ got'[Len(got) + 1] = q
  BY <1>2, AppendProperties DEF Types, q
<1>5. /\ replied' \in Seq(Reply) /\ Len(replied') = Len(replied) + 1
      /\ \A k \in 1..Len(replied) : replied'[k] = replied[k]
      /\ replied'[Len(replied) + 1] = reply
  BY <1>3, AppendProperties DEF Types
<1>6. /\ toHnp' \in Seq({Answer(x, y).bytes : x \in Asked, y \in Reply})
      /\ Len(toHnp') = Len(toHnp) + 1
      /\ \A k \in 1..Len(toHnp) : toHnp'[k] = toHnp[k]
      /\ toHnp'[Len(toHnp) + 1] = Answer(q, reply).bytes
  <2> DEFINE S == {Answer(x, y).bytes : x \in Asked, y \in Reply}
  <2>1. toHnp \in Seq(S) /\ Answer(q, reply).bytes \in S
    BY <1>2, <1>3 DEF Types
  <2> HIDE DEF S
  <2>2. toHnp' = Append(toHnp, Answer(q, reply).bytes)
    BY DEF q
  <2>3. /\ toHnp' \in Seq(S) /\ Len(toHnp') = Len(toHnp) + 1
        /\ \A k \in 1..Len(toHnp) : toHnp'[k] = toHnp[k]
        /\ toHnp'[Len(toHnp) + 1] = Answer(q, reply).bytes
    BY <2>1, <2>2, AppendProperties
  <2> QED BY <2>3 DEF S
<1>7. /\ toPeer' \in Seq({Wire(x).bytes : x \in Asked})
      /\ Len(toPeer') = Len(toPeer) - 1
      /\ \A k \in 1..Len(toPeer') : toPeer'[k] = toPeer[k + 1]
  <2> DEFINE S == {Wire(x).bytes : x \in Asked}
  <2>1. toPeer \in Seq(S)
    BY DEF Types
  <2> HIDE DEF S
  <2>2. /\ toPeer' \in Seq(S)
        /\ Len(toPeer') = Len(toPeer) - 1
        /\ \A k \in 1..Len(toPeer') : toPeer'[k] = toPeer[k + 1]
    BY <2>1, HeadTailProperties
  <2> QED BY <2>2 DEF S
<1>8. Types'
  BY <1>4, <1>5, <1>6, <1>7 DEF Types
<1>9. Order'
  <2>1. Len(results) <= Len(replied') /\ Len(replied') = Len(got') /\ Len(got') <= Len(sent)
    BY <1>1, <1>4, <1>5 DEF Order
  <2>2. ASSUME NEW k \in 1..Len(got')
        PROVE  got'[k] = sent[k] /\ replied'[k] \in RepliesTo(sent[k].type)
    <3>1. CASE k \in 1..Len(got)
      BY <1>1, <1>4, <1>5, <3>1 DEF Order
    <3>2. CASE k = Len(got) + 1
      BY <1>1, <1>4, <1>5, <3>2 DEF q
    <3>3. k \in 1..Len(got) \/ k = Len(got) + 1
      BY <1>4
    <3> QED BY <3>1, <3>2, <3>3
  <2> QED BY <2>1, <2>2 DEF Order
<1>10. Strings' /\ Awaiting' /\ AlwaysReadable'
  BY DEF Strings, Awaiting, AlwaysReadable, Rpc!Launched
<1>11. Requests'
  <2> SUFFICES ASSUME NEW i \in 1..Len(toPeer')
               PROVE  LET x == sent[Len(got') + i]
                      IN  toPeer'[i] = Wire(x).bytes /\ Inner(x).ok /\ Wire(x).ok
    BY <1>4, <1>7, SMTT(30) DEF Requests, Wire, Inner
  <2>1. i + 1 \in 1..Len(toPeer)
    BY <1>7
  <2>2. Len(got') + i = Len(got) + (i + 1)
    BY <1>4, <1>7
  <2>3. toPeer'[i] = toPeer[i + 1]
    BY <1>7
  <2> QED BY <2>1, <2>2, <2>3 DEF Requests
<1>12. Responses'
  <2> SUFFICES ASSUME exited["hnp"] = "no"
               PROVE  /\ Len(toHnp') = Len(replied') - Len(results)
                      /\ \A i \in 1..Len(toHnp') :
                           LET k == Len(results) + i
                           IN  /\ toHnp'[i] = Answer(sent[k], replied'[k]).bytes
                               /\ Answer(sent[k], replied'[k]).ok
    BY DEF Responses, Answer
  <2>1. Len(toHnp') = Len(replied') - Len(results) /\ Len(results) + Len(toHnp) = Len(replied)
    <3>1. Len(toHnp) = Len(replied) - Len(results)
      BY DEF Responses
    <3>2. Len(toHnp) \in Nat /\ Len(replied) \in Nat /\ Len(results) \in Nat
      OBVIOUS
    <3>3. Len(toHnp') = Len(toHnp) + 1 /\ Len(replied') = Len(replied) + 1
      BY <1>5, <1>6
    <3> QED BY <3>1, <3>2, <3>3
  <2>2. ASSUME NEW i \in 1..Len(toHnp')
        PROVE  LET k == Len(results) + i
               IN  /\ toHnp'[i] = Answer(sent[k], replied'[k]).bytes
                   /\ Answer(sent[k], replied'[k]).ok
    <3>1. CASE i \in 1..Len(toHnp)
      <4>1. Len(results) + i \in 1..Len(replied)
        BY <2>1, <3>1
      <4>2. replied'[Len(results) + i] = replied[Len(results) + i] /\ toHnp'[i] = toHnp[i]
        BY <1>5, <1>6, <3>1, <4>1
      <4> QED BY <3>1, <4>2 DEF Responses
    <3>2. CASE i = Len(toHnp) + 1
      <4>1. Len(results) + i = Len(got) + 1
        BY <1>1, <2>1, <3>2
      <4>2. /\ sent[Len(results) + i] = q /\ replied'[Len(results) + i] = reply
            /\ toHnp'[i] = Answer(q, reply).bytes
        BY <1>1, <1>5, <1>6, <3>2, <4>1 DEF q
      <4> QED BY <4>2 DEF q
    <3>3. i \in 1..Len(toHnp) \/ i = Len(toHnp) + 1
      <4>1. Len(toHnp) \in Nat
        OBVIOUS
      <4> QED BY <1>6, <4>1
    <3> QED BY <3>1, <3>2, <3>3
  <2> QED BY <2>1, <2>2
<1> QED BY <1>8, <1>9, <1>10, <1>11, <1>12

LEMMA HandleStep ==
  ASSUME IInv, Handle
  PROVE  IInv' /\ [Rpc!Next]_(Rpc!vars)
<1> DEFINE q == sent[Len(got) + 1]
           w == Unwrap(Head(toPeer))
           request == ParseRequest(w.result.msg_type, w.result.inner)
<1>1. /\ toPeer # <<>> /\ exited["peer"] = "no" /\ toPeer' = Tail(toPeer)
      /\ UNCHANGED <<cursor, outstanding, sent, results>>
  BY DEF Handle, PeerTakes
<1>2. /\ Len(got) < Len(sent) /\ q \in Asked
      /\ w.ok /\ w.result.msg_type = q.type
      /\ request.ok /\ request.result = q.arg
  <2>1. PeerTakes
    BY DEF Handle
  <2> QED BY <2>1, HeadRequest
<1>3. q = [type |-> q.type, arg |-> q.arg] /\ q.type \in MsgType
  BY <1>2, AskedParts
<1>4. PICK reply \in RepliesTo(q.type) :
        IF BuildResponse(q.type, reply).ok
        THEN /\ got' = Append(got, q)
             /\ replied' = Append(replied, reply)
             /\ toHnp' = Append(toHnp, BuildResponse(q.type, reply).bytes)
             /\ exited' = exited
        ELSE Exit("peer", "oversize") /\ UNCHANGED <<toHnp, got, replied>>
  <2> HIDE DEF q
  <2>1. [type |-> w.result.msg_type, arg |-> request.result] = q
    BY <1>2, <1>3
  <2> QED BY <1>2, <2>1 DEF Handle
<1>5. CASE BuildResponse(q.type, reply).ok
  <2>1. /\ got' = Append(got, q)
        /\ replied' = Append(replied, reply)
        /\ toHnp' = Append(toHnp, Answer(q, reply).bytes)
        /\ exited' = exited
        /\ Answer(q, reply).ok
    BY <1>4, <1>5 DEF Answer
  <2>2. IInv'
    BY <1>1, <1>2, <1>4, <2>1, HandleKeeps
  <2>3. Rpc!Handle
    BY <1>1, <1>2, <1>4, <2>1, SameCalls DEF Rpc!Handle
  <2> QED BY <2>2, <2>3 DEF Rpc!Next
<1>6. CASE ~BuildResponse(q.type, reply).ok
  <2>1. Exit("peer", "oversize") /\ UNCHANGED <<toHnp, got, replied>>
    BY <1>4, <1>6
  <2>2. toPeer' \in Seq({Wire(x).bytes : x \in Asked})
    <3> DEFINE S == {Wire(x).bytes : x \in Asked}
    <3>1. toPeer \in Seq(S)
      BY DEF IInv, Types
    <3> HIDE DEF S
    <3>2. toPeer' \in Seq(S)
      BY <1>1, <3>1, HeadTailProperties
    <3> QED BY <3>2 DEF S
  <2>3. IInv'
    BY <1>1, <2>1, <2>2, ExitKeeps DEF history
  <2> QED BY <1>1, <2>1, <2>3 DEF Rpc!vars
<1> QED BY <1>5, <1>6

-----------------------------------------------------------------------------
(* The HNP takes a response.                                                 *)

\* The response at the head of the queue is the reply to the first request not
\* returned, whose type is the one awaited, and it is read back as it was
\* replied.
LEMMA HeadResponse ==
  ASSUME IInv, HnpTakes
  PROVE  LET k == Len(results) + 1
             r == ParseResponse(Awaited, Head(toHnp))
         IN  /\ Len(results) < Len(replied) /\ outstanding # <<>>
             /\ Result(sent[k].type, replied[k]) \in Outcome
             /\ r.ok /\ r.result = Result(sent[k].type, replied[k])
<1> USE Lengths DEF IInv
<1> DEFINE k == Len(results) + 1
<1>1. toHnp # <<>> /\ exited["hnp"] = "no"
  BY DEF HnpTakes
<1>2. Len(toHnp) \in Nat \ {0}
  BY <1>1, EmptySeq DEF Types
<1>3. Len(toHnp) = Len(replied) - Len(results)
  BY <1>1 DEF Responses
<1>4. Len(results) < Len(replied) /\ k \in 1..Len(replied)
  BY <1>2, <1>3
<1>5. k \in 1..Len(sent)
  BY <1>4 DEF Order
<1>6. sent[k].type \in MsgType /\ replied[k] \in RepliesTo(sent[k].type)
  BY <1>4, <1>5, AskedParts DEF Order
<1>7. Result(sent[k].type, replied[k]) \in Outcome
  BY <1>6 DEF Outcome
<1>8. Head(toHnp) = Answer(sent[k], replied[k]).bytes /\ Answer(sent[k], replied[k]).ok
  <2>1. 1 \in 1..Len(toHnp)
    BY <1>2
  <2>2. toHnp[1] = Answer(sent[k], replied[k]).bytes /\ Answer(sent[k], replied[k]).ok
    BY <1>1, <2>1 DEF Responses
  <2>3. Head(toHnp) = toHnp[1]
    BY <1>1 DEF Types
  <2> QED BY <2>2, <2>3
<1>9. outstanding # <<>> /\ Awaited = sent[k].type
  <2>1. Len(outstanding) = Len(sent) - Len(results)
    BY <1>1 DEF Awaiting
  <2>2. 1 \in 1..Len(outstanding)
    BY <1>5, <2>1
  <2>3. outstanding[1] = sent[k].type
    BY <1>1, <2>2 DEF Awaiting
  <2>4. outstanding # <<>> /\ Head(outstanding) = outstanding[1]
    BY <2>2, EmptySeq DEF Types
  <2> QED BY <2>3, <2>4 DEF Awaited
<1> HIDE DEF k
<1> DEFINE r == ParseResponse(sent[k].type, BuildResponse(sent[k].type, replied[k]).bytes)
<1>10. r.ok /\ r.result = Result(sent[k].type, replied[k])
  BY <1>6, <1>8, CodecAssumption DEF CodecInverts, Answer
<1>11. ParseResponse(Awaited, Head(toHnp)) = r
  BY <1>8, <1>9 DEF Answer
<1> QED BY <1>4, <1>7, <1>9, <1>10, <1>11 DEF k

\* A response returned.
LEMMA ReceiveKeeps ==
  ASSUME IInv, NEW outcome \in Outcome, exited["hnp"] = "no",
         toHnp # <<>>, outstanding # <<>>, Len(results) < Len(replied),
         toHnp' = Tail(toHnp),
         outstanding' = Tail(outstanding),
         results' = Append(results, outcome),
         UNCHANGED <<exited, cursor, toPeer, sent, got, replied>>
  PROVE  IInv'
<1> USE Lengths DEF IInv
<1>1. /\ results' \in Seq(Outcome) /\ Len(results') = Len(results) + 1
  BY AppendProperties DEF Types
<1>2. /\ toHnp' \in Seq({Answer(x, y).bytes : x \in Asked, y \in Reply})
      /\ Len(toHnp') = Len(toHnp) - 1
      /\ \A i \in 1..Len(toHnp') : toHnp'[i] = toHnp[i + 1]
  <2> DEFINE S == {Answer(x, y).bytes : x \in Asked, y \in Reply}
  <2>1. toHnp \in Seq(S)
    BY DEF Types
  <2> HIDE DEF S
  <2>2. /\ toHnp' \in Seq(S)
        /\ Len(toHnp') = Len(toHnp) - 1
        /\ \A i \in 1..Len(toHnp') : toHnp'[i] = toHnp[i + 1]
    BY <2>1, HeadTailProperties
  <2> QED BY <2>2 DEF S
<1>3. /\ outstanding' \in Seq(MsgType)
      /\ Len(outstanding') = Len(outstanding) - 1
      /\ \A i \in 1..Len(outstanding') : outstanding'[i] = outstanding[i + 1]
  BY HeadTailProperties DEF Types
<1>4. Types'
  BY <1>1, <1>2, <1>3 DEF Types
<1>5. Order'
  BY <1>1 DEF Order
<1>6. Strings' /\ Requests' /\ AlwaysReadable'
  BY DEF Strings, Requests, AlwaysReadable, Rpc!Launched
<1>7. Responses'
  <2> SUFFICES ASSUME NEW i \in 1..Len(toHnp')
               PROVE  LET k == Len(results') + i
                      IN  /\ toHnp'[i] = Answer(sent[k], replied[k]).bytes
                          /\ Answer(sent[k], replied[k]).ok
    BY <1>1, <1>2 DEF Responses, Answer
  <2>1. i + 1 \in 1..Len(toHnp)
    BY <1>2
  <2>2. Len(results') + i = Len(results) + (i + 1)
    BY <1>1, <1>2
  <2>3. toHnp'[i] = toHnp[i + 1]
    BY <1>2
  <2> QED BY <2>1, <2>2, <2>3 DEF Responses
<1>8. Awaiting'
  <2> SUFFICES ASSUME NEW i \in 1..Len(outstanding')
               PROVE  outstanding'[i] = sent[Len(results') + i].type
    BY <1>1, <1>3 DEF Awaiting
  <2>1. i + 1 \in 1..Len(outstanding)
    BY <1>3
  <2>2. Len(results') + i = Len(results) + (i + 1)
    BY <1>1, <1>3
  <2>3. outstanding'[i] = outstanding[i + 1]
    BY <1>3
  <2> QED BY <2>1, <2>2, <2>3 DEF Awaiting
<1> QED BY <1>4, <1>5, <1>6, <1>7, <1>8

LEMMA ReceiveStep ==
  ASSUME IInv, Receive
  PROVE  IInv' /\ [Rpc!Next]_(Rpc!vars)
<1> DEFINE k == Len(results) + 1
           outcome == Result(sent[k].type, replied[k])
<1>1. /\ HnpTakes /\ outstanding' = Tail(outstanding)
      /\ UNCHANGED <<cursor, toPeer, sent, got, replied>>
  BY DEF Receive
<1>2. exited["hnp"] = "no" /\ toHnp # <<>> /\ toHnp' = Tail(toHnp)
  BY <1>1 DEF HnpTakes
<1>3. /\ Len(results) < Len(replied) /\ outstanding # <<>>
      /\ outcome \in Outcome
      /\ ParseResponse(Awaited, Head(toHnp)).ok
      /\ ParseResponse(Awaited, Head(toHnp)).result = outcome
  BY <1>1, HeadResponse
<1>4. results' = Append(results, outcome) /\ exited' = exited
  BY <1>3 DEF Receive
<1>5. Rpc!Return
  BY <1>1, <1>3, <1>4, SameCalls DEF Rpc!Return
<1> HIDE DEF outcome
<1>6. IInv'
  BY <1>1, <1>2, <1>3, <1>4, ReceiveKeeps
<1> QED BY <1>5, <1>6 DEF Rpc!Next

-----------------------------------------------------------------------------
(* The specification.                                                        *)

LEMMA NextStep ==
  ASSUME IInv, [Next]_vars
  PROVE  IInv' /\ [Rpc!Next]_(Rpc!vars)
<1>1. CASE SendAllocate
  BY <1>1, SendStep DEF SendAllocate, MsgType
<1>2. CASE SendLaunch
  BY <1>2, SendStep DEF SendLaunch, MsgType
<1>3. CASE SendRegister
  BY <1>3, SendStep DEF SendRegister, MsgType
<1>4. CASE SendFinish
  BY <1>4, SendStep DEF SendFinish, MsgType
<1>5. CASE SendHeartbeat
  BY <1>5, SendStep DEF SendHeartbeat, MsgType
<1>6. CASE Receive
  BY <1>6, ReceiveStep
<1>7. CASE Handle
  BY <1>7, HandleStep
<1>8. CASE UNCHANGED vars
  <2>1. UNCHANGED <<cursor, outstanding, toPeer, toHnp, exited, sent, got, replied, results>>
    BY <1>8 DEF vars
  <2>2. IInv'
    BY <2>1 DEF IInv, Types, Order, Strings, Requests, Responses, Awaiting, AlwaysReadable,
                Rpc!Launched
  <2> QED BY <2>1, <2>2 DEF Rpc!vars
<1> QED
  BY <1>1, <1>2, <1>3, <1>4, <1>5, <1>6, <1>7, <1>8 DEF Next

LEMMA Invariance == Spec => []IInv
<1>1. Init => IInv
  BY InitIInv
<1>2. IInv /\ [Next]_vars => IInv'
  BY NextStep
<1> QED BY <1>1, <1>2, PTL DEF Spec

\* Over channels that keep the order, a process always takes the bytes it
\* receives for what they are, although a response does not name its type:
\* neither the HNP nor the peer exits on a message it cannot read.
THEOREM NeverUnreadable == Spec => []AlwaysReadable
<1>1. IInv => AlwaysReadable
  BY DEF IInv
<1> QED BY <1>1, Invariance, PTL

\* Building, wrapping, dispatching and parsing in the two processes amount to
\* remote calls: each request is taken once, in order, with its type and
\* arguments, the environment strings with the first launch only, and each
\* reply returns to the request it answers.
THEOREM ExchangeImplementsRpc == Spec => ImplementsRpc
<1>1. Init => Rpc!Init
  BY DEF Init, Rpc!Init
<1>2. IInv /\ [Next]_vars => [Rpc!Next]_(Rpc!vars)
  BY NextStep
<1> QED BY <1>1, <1>2, Invariance, PTL DEF Spec, ImplementsRpc, Rpc!Spec
=============================================================================
