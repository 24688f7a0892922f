------------------------------ MODULE Hub_proofs ------------------------------
(***************************************************************************)
(* Proofs about Hub: types, NoSendOnClosed, OnlyFullMiss and StreamInOrder, *)
(* and that Hub implements Mailbox, for any number of topics, connections   *)
(* and broadcasts and any capacity of the channels.                         *)
(***************************************************************************)
EXTENDS Hub, SequenceTheorems, TLAPS

\* The lock at work: whoever is registered is between its two critical sections, a
\* channel is closed after the second one, and a broadcast tries nobody who is not
\* registered now.
RegisteredInv ==
    /\ \A t \in Topic : \A c \in clients[t] :
           t = TopicOf[c] /\ handler[c] \in {"reading", "unlock"}
    /\ \A c \in Client : closed[c] => handler[c] \in {"hangup", "done"}
    /\ \A m \in Message :
           /\ todo[m] \subseteq clients[TopicOf[m]]
           /\ cast[m] # "sending" => todo[m] = {}

\* A pump that is not at "write" has nothing in its hands, and before Register
\* there is none.
PumpInv ==
    \A c \in Client :
        /\ pump[c] # "write" => writing[c] = <<>>
        /\ handler[c] = "lock" => pump[c] = "none"

InStream(m, c) == \E i \in 1..Len(Stream(c)) : Stream(c)[i] = m

\* What becomes of a message for those that were registered when its broadcast
\* began: to be tried, in the stream, dropped at a full buffer, or the peer is gone.
AudienceInv ==
    \A m \in Message : \A c \in audience[m] :
        \/ c \in todo[m]
        \/ InStream(m, c)
        \/ m \in missed[c] /\ Len(Stream(c)) >= Buffer
        \/ ~ alive[c]

\* What is in a stream was broadcast, and is not going to be sent there again; what
\* was over before another broadcast began is over.
BroadcastInv ==
    /\ \A c \in Client : \A m \in Message :
           InStream(m, c) => cast[m] # "none" /\ c \notin todo[m]
    /\ \A m \in Message : \A n \in after[m] : cast[n] = "done"

OrderInv == BroadcastInv /\ StreamInOrder

-----------------------------------------------------------------------------
(* Types *)

LEMMA TopicsType ==
    /\ \A c \in Client : TopicOf[c] \in Topic
    /\ \A m \in Message : TopicOf[m] \in Topic
BY HubConstants

LEMMA HeadTailType ==
    ASSUME TypeOK, NEW c \in Client, send[c] # <<>>
    PROVE  /\ <<Head(send[c])>> \in Seq(Message)
           /\ Len(<<Head(send[c])>>) = 1
           /\ Tail(send[c]) \in Seq(Message)
           /\ Len(Tail(send[c])) = Len(send[c]) - 1
           /\ Len(send[c]) \in Nat
BY HeadTailProperties, LenProperties DEF TypeOK

\* The variables have the types TypeOK gives them: in particular no channel ever
\* holds more than its capacity.
THEOREM TypeCorrect == Spec => []TypeOK
<1>1. Init => TypeOK
    BY HubConstants, EmptySeq DEF Init, TypeOK, HandlerStage, PumpStage
<1>2. TypeOK /\ [Next]_vars => TypeOK'
  <2> SUFFICES ASSUME TypeOK, [Next]_vars PROVE TypeOK'
      OBVIOUS
  <2>1. ASSUME NEW c \in Client, Connect(c) PROVE TypeOK'
    <3>1. <<>> \in Seq(Message) /\ Len(<<>>) = 0
        OBVIOUS
    <3> QED BY <2>1, <3>1, HubConstants DEF Connect, TypeOK, HandlerStage, PumpStage
  <2>2. ASSUME NEW c \in Client, Vanish(c) PROVE TypeOK'
      BY <2>2 DEF Vanish, TypeOK, casts, begun
  <2>3. ASSUME NEW c \in Client, Register(c) PROVE TypeOK'
      BY <2>3, TopicsType DEF Register, TypeOK, HandlerStage, PumpStage, casts, begun
  <2>4. ASSUME NEW c \in Client, ReadFails(c) PROVE TypeOK'
      BY <2>4 DEF ReadFails, TypeOK, HandlerStage, casts, begun
  <2>5. ASSUME NEW c \in Client, Unregister(c) PROVE TypeOK'
      BY <2>5, TopicsType DEF Unregister, TypeOK, HandlerStage, casts, begun
  <2>6. ASSUME NEW c \in Client, CloseSend(c) PROVE TypeOK'
      BY <2>6 DEF CloseSend, TypeOK, HandlerStage, casts, begun
  <2>7. ASSUME NEW c \in Client, HangUp(c) PROVE TypeOK'
      BY <2>7 DEF HangUp, TypeOK, HandlerStage, casts, begun
  <2>8. ASSUME NEW c \in Client, Receive(c) PROVE TypeOK'
    <3>1. CASE send[c] # <<>>
      <4> DEFINE w == <<Head(send[c])>>
                 s == Tail(send[c])
      <4>1. /\ w \in Seq(Message) /\ Len(w) <= 1
            /\ s \in Seq(Message) /\ Len(s) <= Buffer
          BY <3>1, HeadTailType, HubConstants DEF TypeOK
      <4>2. writing' = [writing EXCEPT ![c] = w] /\ send' = [send EXCEPT ![c] = s]
          BY <2>8, <3>1 DEF Receive
      <4> HIDE DEF w, s
      <4>3. /\ writing' \in [Client -> Seq(Message)]
            /\ send' \in [Client -> Seq(Message)]
            /\ \A d \in Client : Len(writing'[d]) <= 1 /\ Len(send'[d]) <= Buffer
          BY <4>1, <4>2 DEF TypeOK
      <4>4. pump' = [pump EXCEPT ![c] = "write"]
          BY <2>8, <3>1 DEF Receive
      <4> QED BY <2>8, <4>3, <4>4 DEF Receive, TypeOK, PumpStage, casts, begun
    <3>2. CASE send[c] = <<>>
        BY <2>8, <3>2 DEF Receive, TypeOK, PumpStage, casts, begun
    <3> QED BY <3>1, <3>2
  <2>9. ASSUME NEW c \in Client, Write(c) PROVE TypeOK'
    <3>1. wrote[c] \o writing[c] \in Seq(Message)
        BY ConcatProperties DEF TypeOK
    <3>2. <<>> \in Seq(Message) /\ Len(<<>>) = 0
        OBVIOUS
    <3> QED BY <2>9, <3>1, <3>2 DEF Write, TypeOK, PumpStage, casts, begun
  <2>10. ASSUME NEW c \in Client, WriteFails(c) PROVE TypeOK'
    <3>1. <<>> \in Seq(Message) /\ Len(<<>>) = 0
        OBVIOUS
    <3> QED BY <2>10, <3>1 DEF WriteFails, TypeOK, PumpStage, casts, begun
  <2>11. ASSUME NEW m \in Message, CastBegin(m) PROVE TypeOK'
      BY <2>11, TopicsType DEF CastBegin, TypeOK, conns
  <2>12. ASSUME NEW m \in Message, NEW c \in Client, Send(m, c) PROVE TypeOK'
    <3>1. CASE Len(send[c]) < Buffer
      <4> DEFINE s == Append(send[c], m)
      <4>1. s \in Seq(Message) /\ Len(s) <= Buffer
          BY <3>1, HubConstants, AppendProperties, LenProperties DEF TypeOK
      <4>2. send' = [send EXCEPT ![c] = s] /\ UNCHANGED missed
          BY <2>12, <3>1 DEF Send
      <4> HIDE DEF s
      <4> QED BY <2>12, <4>1, <4>2 DEF Send, TypeOK, begun
    <3>2. CASE ~ (Len(send[c]) < Buffer)
      <4>1. missed[c] \cup {m} \in SUBSET Message
          BY DEF TypeOK
      <4>2. UNCHANGED send /\ missed' = [missed EXCEPT ![c] = missed[c] \cup {m}]
          BY <2>12, <3>2 DEF Send
      <4>3. missed' \in [Client -> SUBSET Message]
          BY <4>1, <4>2 DEF TypeOK
      <4>4. todo' = [todo EXCEPT ![m] = todo[m] \ {c}]
          BY <2>12 DEF Send
      <4>5. todo' \in [Message -> SUBSET Client]
          BY <4>4 DEF TypeOK
      <4> QED BY <2>12, <4>2, <4>3, <4>5 DEF Send, TypeOK, begun
    <3> QED BY <3>1, <3>2
  <2>13. ASSUME NEW m \in Message, CastEnd(m) PROVE TypeOK'
      BY <2>13 DEF CastEnd, TypeOK, conns, begun
  <2>14. CASE UNCHANGED vars
      BY <2>14 DEF vars, TypeOK
  <2> QED BY <2>1, <2>2, <2>3, <2>4, <2>5, <2>6, <2>7, <2>8, <2>9, <2>10, <2>11,
             <2>12, <2>13, <2>14 DEF Next, Handle, Pump, Cast
<1> QED BY <1>1, <1>2, PTL DEF Spec

-----------------------------------------------------------------------------
(* The lock *)

LEMMA LockHolds == Spec => []RegisteredInv
<1>1. Init => RegisteredInv
    BY TopicsType DEF Init, RegisteredInv
<1>2. TypeOK /\ RegisteredInv /\ [Next]_vars => RegisteredInv'
  <2> SUFFICES ASSUME TypeOK, RegisteredInv, [Next]_vars PROVE RegisteredInv'
      OBVIOUS
  <2>1. ASSUME NEW c \in Client, Connect(c) PROVE RegisteredInv'
      BY <2>1 DEF Connect, RegisteredInv, TypeOK
  <2>2. ASSUME NEW c \in Client, Register(c) PROVE RegisteredInv'
    <3>1. \A t \in Topic : clients'[t] = clients[t] \cup (IF t = TopicOf[c] THEN {c} ELSE {})
        BY <2>2, TopicsType DEF Register, TypeOK
    <3>2. /\ handler[c] = "lock" /\ handler'[c] = "reading"
          /\ \A d \in Client \ {c} : handler'[d] = handler[d]
          /\ UNCHANGED <<closed, todo, cast>>
        BY <2>2 DEF Register, TypeOK, casts
    <3>3. \A m \in Message : todo'[m] \subseteq clients'[TopicOf[m]]
        BY <3>1, <3>2, TopicsType DEF RegisteredInv
    <3>4. \A d \in Client : closed'[d] => handler'[d] \in {"hangup", "done"}
        BY <3>2 DEF RegisteredInv
    <3>5. \A t \in Topic : \A d \in clients'[t] :
              t = TopicOf[d] /\ handler'[d] \in {"reading", "unlock"}
      <4> SUFFICES ASSUME NEW t \in Topic, NEW d \in clients'[t]
                   PROVE  t = TopicOf[d] /\ handler'[d] \in {"reading", "unlock"}
          OBVIOUS
      <4>1. CASE d \in clients[t]
        <5>1. d \in Client
            BY <4>1 DEF TypeOK
        <5> QED BY <3>2, <4>1, <5>1 DEF RegisteredInv
      <4>2. CASE d \notin clients[t]
          BY <3>1, <3>2, <4>2
      <4> QED BY <4>1, <4>2
    <3> QED BY <3>2, <3>3, <3>4, <3>5 DEF RegisteredInv
  <2>3. ASSUME NEW c \in Client, Unregister(c) PROVE RegisteredInv'
    <3>1. \A t \in Topic : clients'[t] = clients[t] \ (IF t = TopicOf[c] THEN {c} ELSE {})
        BY <2>3, TopicsType DEF Unregister, TypeOK
    <3>2. /\ handler[c] = "unlock"
          /\ \A d \in Client \ {c} : handler'[d] = handler[d]
          /\ UNCHANGED <<closed, todo, cast>>
        BY <2>3 DEF Unregister, TypeOK, casts
    <3>3. \A m \in Message : todo'[m] = {}
        BY <2>3, <3>2 DEF Unregister, NoReader, RegisteredInv
    <3>4. \A t \in Topic : \A d \in clients'[t] : d \in clients[t] /\ d # c
        BY <3>1 DEF RegisteredInv
    <3>5. \A d \in Client : closed'[d] => handler'[d] \in {"hangup", "done"}
        BY <3>2 DEF RegisteredInv
    <3>6. \A t \in Topic : \A d \in clients'[t] :
              t = TopicOf[d] /\ handler'[d] \in {"reading", "unlock"}
      <4> SUFFICES ASSUME NEW t \in Topic, NEW d \in clients'[t]
                   PROVE  t = TopicOf[d] /\ handler'[d] \in {"reading", "unlock"}
          OBVIOUS
      <4>1. d \in clients[t] /\ d \in Client \ {c}
          BY <3>4 DEF TypeOK
      <4> QED BY <3>2, <4>1 DEF RegisteredInv
    <3> QED BY <3>3, <3>5, <3>6 DEF RegisteredInv
  <2>4. ASSUME NEW c \in Client, ReadFails(c) \/ CloseSend(c) \/ HangUp(c)
        PROVE  RegisteredInv'
    <3>1. UNCHANGED <<clients, todo, cast>>
        BY <2>4 DEF ReadFails, CloseSend, HangUp, casts
    <3>2. \A d \in Client \ {c} : handler'[d] = handler[d] /\ closed'[d] = closed[d]
        BY <2>4 DEF ReadFails, CloseSend, HangUp, TypeOK
    <3>3. handler[c] = "reading" => handler'[c] = "unlock" /\ closed'[c] = closed[c]
        BY <2>4 DEF ReadFails, CloseSend, HangUp, TypeOK
    <3>4. handler[c] # "reading" => /\ handler[c] \in {"close", "hangup"}
                                   /\ handler'[c] \in {"hangup", "done"}
        BY <2>4 DEF ReadFails, CloseSend, HangUp, TypeOK
    <3>5. \A d \in Client : closed'[d] => handler'[d] \in {"hangup", "done"}
        BY <3>2, <3>3, <3>4 DEF RegisteredInv
    <3>6. \A t \in Topic : \A d \in clients'[t] : handler'[d] \in {"reading", "unlock"}
      <4> SUFFICES ASSUME NEW t \in Topic, NEW d \in clients[t]
                   PROVE  handler'[d] \in {"reading", "unlock"}
          BY <3>1
      <4>1. d \in Client /\ handler[d] \in {"reading", "unlock"}
          BY DEF RegisteredInv, TypeOK
      <4> QED BY <3>2, <3>3, <3>4, <4>1
    <3> QED BY <3>1, <3>5, <3>6 DEF RegisteredInv
  <2>5. ASSUME NEW m \in Message, CastBegin(m) PROVE RegisteredInv'
      BY <2>5 DEF CastBegin, conns, RegisteredInv, TypeOK
  <2>6. ASSUME NEW m \in Message, NEW c \in Client, Send(m, c) PROVE RegisteredInv'
      BY <2>6 DEF Send, RegisteredInv, TypeOK
  <2>7. ASSUME NEW m \in Message, CastEnd(m) PROVE RegisteredInv'
      BY <2>7 DEF CastEnd, conns, RegisteredInv, TypeOK
  <2>8. ASSUME \/ \E c \in Client : Vanish(c) \/ Pump(c)
               \/ UNCHANGED vars
        PROVE  RegisteredInv'
    <3>1. UNCHANGED <<clients, handler, closed, todo, cast>>
        BY <2>8 DEF Vanish, Pump, Receive, Write, WriteFails, casts, vars
    <3> QED BY <3>1 DEF RegisteredInv
  <2> QED BY <2>1, <2>2, <2>3, <2>4, <2>5, <2>6, <2>7, <2>8 DEF Next, Handle, Cast
<1> QED BY <1>1, <1>2, TypeCorrect, PTL DEF Spec

\* A broadcast never sends on a closed channel: while it holds the read lock no
\* connection is taken out of the topic, and only after that is its channel closed.
THEOREM ClosedNeverSentOn == Spec => []NoSendOnClosed
<1>1. ASSUME TypeOK, RegisteredInv, NEW m \in Message, NEW c \in todo[m]
      PROVE  ~ closed[c]
  <2>1. c \in clients[TopicOf[m]] /\ c \in Client
      BY <1>1 DEF RegisteredInv, TypeOK
  <2>2. handler[c] \in {"reading", "unlock"}
      BY <1>1, <2>1, TopicsType DEF RegisteredInv
  <2> QED BY <1>1, <2>1, <2>2 DEF RegisteredInv
<1>2. TypeOK /\ RegisteredInv => NoSendOnClosed
    BY <1>1 DEF NoSendOnClosed
<1> QED BY <1>2, TypeCorrect, LockHolds, PTL

-----------------------------------------------------------------------------
(* Streams *)

\* What is done to a stream, as operations on three sequences: a pump that takes the
\* first element over, and one that has written it.
LEMMA HeadThenTail ==
    ASSUME NEW S, NEW s \in Seq(S), s # <<>>
    PROVE  <<Head(s)>> \o Tail(s) = s
<1>1. /\ Head(s) \in S /\ Head(s) = s[1]
      /\ Tail(s) \in Seq(S) /\ Len(Tail(s)) = Len(s) - 1
      /\ \A i \in 1..Len(Tail(s)) : Tail(s)[i] = s[i + 1]
      /\ Len(s) \in Nat \ {0}
    BY HeadTailProperties, EmptySeq
<1>2. <<Head(s)>> \in Seq(S) /\ Len(<<Head(s)>>) = 1 /\ <<Head(s)>>[1] = s[1]
    BY <1>1
<1> DEFINE h == <<Head(s)>>
<1> HIDE DEF h
<1>3. h \in Seq(S) /\ Len(h) = 1 /\ h[1] = s[1]
    BY <1>2 DEF h
<1>4. /\ h \o Tail(s) \in Seq(S)
      /\ Len(h \o Tail(s)) = Len(s)
      /\ \A i \in 1..Len(s) : (h \o Tail(s))[i] = IF i <= 1 THEN h[i] ELSE Tail(s)[i - 1]
  <2>1. /\ h \o Tail(s) \in Seq(S)
        /\ Len(h \o Tail(s)) = Len(h) + Len(Tail(s))
        /\ \A i \in 1..Len(h) + Len(Tail(s)) :
               (h \o Tail(s))[i] = IF i <= Len(h) THEN h[i] ELSE Tail(s)[i - Len(h)]
      BY <1>1, <1>3, ConcatProperties
  <2>2. Len(h) + Len(Tail(s)) = Len(s)
      BY <1>1, <1>3
  <2> QED BY <1>3, <2>1, <2>2
<1>5. ASSUME NEW i \in 1..Len(s) PROVE (h \o Tail(s))[i] = s[i]
  <2>1. CASE i = 1
      BY <1>1, <1>3, <1>4, <2>1
  <2>2. CASE i > 1
    <3>1. i - 1 \in 1..Len(Tail(s)) /\ (i - 1) + 1 = i
        BY <1>1, <2>2
    <3>2. Tail(s)[i - 1] = s[i]
        BY <1>1, <3>1
    <3> QED BY <1>4, <2>2, <3>2
  <2>3. i = 1 \/ i > 1
      BY <1>1
  <2> QED BY <2>1, <2>2, <2>3
<1>6. h \o Tail(s) = s
    BY <1>4, <1>5, SeqEqual
<1> QED BY <1>6 DEF h

LEMMA TakenOver ==
    ASSUME NEW S, NEW w \in Seq(S), NEW s \in Seq(S), s # <<>>
    PROVE  (w \o <<Head(s)>>) \o Tail(s) = (w \o <<>>) \o s
<1>1. <<Head(s)>> \in Seq(S) /\ Tail(s) \in Seq(S)
    BY HeadTailProperties
<1>2. (w \o <<Head(s)>>) \o Tail(s) = w \o (<<Head(s)>> \o Tail(s))
    BY <1>1, ConcatAssociative
<1> QED BY <1>2, HeadThenTail, ConcatEmptySeq

\* A stream is a sequence of messages.
LEMMA StreamType ==
    ASSUME TypeOK, NEW c \in Client
    PROVE  /\ wrote[c] \in Seq(Message) /\ writing[c] \in Seq(Message)
           /\ send[c] \in Seq(Message)
           /\ wrote[c] \o writing[c] \in Seq(Message)
           /\ Stream(c) \in Seq(Message)
           /\ Len(Stream(c)) \in Nat
           /\ Len(Stream(c)) >= Len(send[c])
<1>1. wrote[c] \in Seq(Message) /\ writing[c] \in Seq(Message) /\ send[c] \in Seq(Message)
    BY DEF TypeOK
<1>2. wrote[c] \o writing[c] \in Seq(Message)
    BY <1>1, ConcatProperties
<1>3. /\ (wrote[c] \o writing[c]) \o send[c] \in Seq(Message)
      /\ Len((wrote[c] \o writing[c]) \o send[c])
            = Len(wrote[c] \o writing[c]) + Len(send[c])
    BY <1>1, <1>2, ConcatProperties
<1>4. Len(wrote[c] \o writing[c]) \in Nat /\ Len(send[c]) \in Nat
    BY <1>1, <1>2, LenProperties
<1>5. Len((wrote[c] \o writing[c]) \o send[c]) \in Nat
    BY <1>3, LenProperties
<1>6. Len((wrote[c] \o writing[c]) \o send[c]) >= Len(send[c])
  <2> DEFINE x == Len(wrote[c] \o writing[c])
             y == Len(send[c])
             z == Len((wrote[c] \o writing[c]) \o send[c])
  <2>1. x \in Nat /\ y \in Nat /\ z = x + y
      BY <1>3, <1>4
  <2> HIDE DEF x, y, z
  <2>2. z >= y
      BY <2>1
  <2> QED BY <2>2 DEF y, z
<1> QED BY <1>1, <1>2, <1>3, <1>5, <1>6 DEF Stream

\* Receiving a message takes it from the channel into the pump's hands, and writing
\* it takes it from there.
LEMMA ReceiveKeepsStream ==
    ASSUME TypeOK, NEW c \in Client, writing[c] = <<>>, send[c] # <<>>,
           writing'[c] = <<Head(send[c])>>, send'[c] = Tail(send[c]),
           wrote'[c] = wrote[c]
    PROVE  Stream(c)' = Stream(c)
<1>1. Stream(c)' = (wrote[c] \o <<Head(send[c])>>) \o Tail(send[c])
    BY DEF Stream
<1>2. Stream(c) = (wrote[c] \o <<>>) \o send[c]
    BY DEF Stream
<1> QED BY <1>1, <1>2, StreamType, TakenOver

LEMMA WriteKeepsStream ==
    ASSUME TypeOK, NEW c \in Client, writing'[c] = <<>>, send'[c] = send[c],
           wrote'[c] = wrote[c] \o writing[c]
    PROVE  Stream(c)' = Stream(c)
<1>1. (wrote[c] \o writing[c]) \o <<>> = wrote[c] \o writing[c]
    BY StreamType, ConcatEmptySeq
<1> QED BY <1>1 DEF Stream

\* A message that is sent comes last.
LEMMA SendExtendsStream ==
    ASSUME TypeOK, NEW c \in Client, NEW m \in Message,
           send'[c] = Append(send[c], m), writing'[c] = writing[c], wrote'[c] = wrote[c]
    PROVE  /\ Len(Stream(c)') = Len(Stream(c)) + 1
           /\ \A i \in 1..Len(Stream(c)) : Stream(c)'[i] = Stream(c)[i]
           /\ Stream(c)'[Len(Stream(c)) + 1] = m
           /\ Len(Stream(c)) \in Nat
<1> DEFINE a == wrote[c] \o writing[c]
           d == send[c]
<1>1. a \in Seq(Message) /\ d \in Seq(Message)
    BY StreamType
<1>2. Stream(c)' = a \o Append(d, m) /\ Stream(c) = a \o d
    BY DEF Stream
<1> HIDE DEF a, d
<1>3. <<m>> \in Seq(Message)
    OBVIOUS
<1>4. Append(d, m) = d \o <<m>>
    BY <1>1, AppendIsConcat
<1>5. a \o (d \o <<m>>) = (a \o d) \o <<m>>
    BY <1>1, <1>3, ConcatAssociative
<1>6. a \o d \in Seq(Message) /\ Len(a \o d) \in Nat
    BY <1>1, ConcatProperties, LenProperties
<1>7. (a \o d) \o <<m>> = Append(a \o d, m)
    BY <1>6, AppendIsConcat
<1> QED BY <1>2, <1>4, <1>5, <1>6, <1>7, AppendProperties

\* A step that leaves the parts of a stream alone leaves the stream alone.
LEMMA StreamKept ==
    ASSUME NEW c \in Client, wrote'[c] = wrote[c], writing'[c] = writing[c],
           send'[c] = send[c]
    PROVE  Stream(c)' = Stream(c)
BY DEF Stream

\* What the pump does to the streams: nothing, but for a write that fails.
LEMMA PumpKeepsStreams ==
    ASSUME TypeOK, PumpInv, NEW c \in Client, Receive(c) \/ Write(c)
    PROVE  \A d \in Client : Stream(d)' = Stream(d)
<1>1. ASSUME NEW d \in Client \ {c} PROVE Stream(d)' = Stream(d)
  <2>1. wrote'[d] = wrote[d] /\ writing'[d] = writing[d] /\ send'[d] = send[d]
      BY DEF Receive, Write, TypeOK
  <2> QED BY <2>1, StreamKept
<1>2. ASSUME Write(c) PROVE Stream(c)' = Stream(c)
  <2>1. /\ writing'[c] = <<>> /\ send'[c] = send[c]
        /\ wrote'[c] = wrote[c] \o writing[c]
      BY <1>2 DEF Write, TypeOK
  <2> QED BY <2>1, WriteKeepsStream
<1>3. ASSUME Receive(c), send[c] # <<>> PROVE Stream(c)' = Stream(c)
  <2>1. /\ writing[c] = <<>>
        /\ writing'[c] = <<Head(send[c])>> /\ send'[c] = Tail(send[c])
        /\ wrote'[c] = wrote[c]
      BY <1>3 DEF Receive, PumpInv, TypeOK
  <2> QED BY <1>3, <2>1, ReceiveKeepsStream
<1>4. ASSUME Receive(c), send[c] = <<>> PROVE Stream(c)' = Stream(c)
  <2>1. wrote'[c] = wrote[c] /\ writing'[c] = writing[c] /\ send'[c] = send[c]
      BY <1>4 DEF Receive
  <2> QED BY <2>1, StreamKept
<1> QED BY <1>1, <1>2, <1>3, <1>4

LEMMA PumpHandsEmpty == TypeOK /\ PumpInv /\ [Next]_vars => PumpInv'
<1> SUFFICES ASSUME TypeOK, PumpInv, [Next]_vars PROVE PumpInv'
    OBVIOUS
<1>0. ASSUME UNCHANGED writing, UNCHANGED pump,
             \A c \in Client : handler'[c] = "lock" => handler[c] = "lock"
      PROVE  PumpInv'
    BY <1>0 DEF PumpInv
<1>1. ASSUME NEW c \in Client, Receive(c) PROVE PumpInv'
  <2>1. CASE send[c] # <<>>
    <3>1. /\ pump' = [pump EXCEPT ![c] = "write"]
          /\ \A d \in Client \ {c} : writing'[d] = writing[d]
          /\ pump[c] = "receive" /\ UNCHANGED handler
        BY <1>1, <2>1 DEF Receive, TypeOK
    <3>2. pump'[c] = "write" /\ handler'[c] # "lock"
      <4>1. handler[c] # "lock"
          BY <3>1 DEF PumpInv
      <4> QED BY <3>1, <4>1 DEF TypeOK
    <3>3. \A d \in Client \ {c} : /\ pump'[d] = pump[d]
                                  /\ writing'[d] = writing[d] /\ handler'[d] = handler[d]
        BY <3>1 DEF TypeOK
    <3> QED BY <3>2, <3>3 DEF PumpInv
  <2>2. CASE send[c] = <<>>
    <3>1. pump' = [pump EXCEPT ![c] = "done"] /\ pump[c] = "receive" /\ UNCHANGED <<writing, handler>>
        BY <1>1, <2>2 DEF Receive
    <3> QED BY <3>1 DEF PumpInv, TypeOK
  <2> QED BY <2>1, <2>2
<1>2. ASSUME NEW c \in Client, Write(c) \/ WriteFails(c) PROVE PumpInv'
    BY <1>2 DEF Write, WriteFails, PumpInv, TypeOK
<1>3. ASSUME NEW c \in Client, Connect(c) PROVE PumpInv'
    BY <1>3 DEF Connect, PumpInv, TypeOK
<1>4. ASSUME NEW c \in Client, Register(c) PROVE PumpInv'
    BY <1>4 DEF Register, PumpInv, TypeOK
<1>5. ASSUME \/ \E c \in Client : \/ Vanish(c) \/ ReadFails(c) \/ Unregister(c)
                                 \/ CloseSend(c) \/ HangUp(c)
             \/ \E m \in Message : CastBegin(m) \/ Cast(m)
             \/ UNCHANGED vars
      PROVE  PumpInv'
  <2>1. UNCHANGED <<pump, writing>>
      BY <1>5 DEF Vanish, ReadFails, Unregister, CloseSend, HangUp, CastBegin, Cast, Send,
                  CastEnd, conns, vars
  <2>2. \A c \in Client : handler'[c] = "lock" => handler[c] = "lock"
      BY <1>5 DEF Vanish, ReadFails, Unregister, CloseSend, HangUp, CastBegin, Cast, Send,
                  CastEnd, conns, vars, TypeOK
  <2> QED BY <1>0, <2>1, <2>2
<1> QED BY <1>1, <1>2, <1>3, <1>4, <1>5 DEF Next, Handle, Pump

LEMMA PumpsHold == Spec => []PumpInv
<1>1. Init => PumpInv
    BY DEF Init, PumpInv
<1> QED BY <1>1, PumpHandsEmpty, TypeCorrect, PTL DEF Spec

-----------------------------------------------------------------------------
(* What becomes of a message *)

LEMMA InStreamKept ==
    ASSUME NEW c \in Client, NEW m, Stream(c)' = Stream(c)
    PROVE  InStream(m, c)' <=> InStream(m, c)
BY DEF InStream

LEMMA AudienceKept ==
    ASSUME TypeOK, AudienceInv, UNCHANGED <<audience, todo, missed>>,
           \A c \in Client : Stream(c)' = Stream(c),
           \A c \in Client : alive'[c] => alive[c]
    PROVE  AudienceInv'
<1> SUFFICES ASSUME NEW m \in Message, NEW c \in audience[m]
             PROVE  \/ c \in todo'[m]
                    \/ InStream(m, c)'
                    \/ m \in missed'[c] /\ Len(Stream(c)') >= Buffer
                    \/ ~ alive'[c]
    BY DEF AudienceInv
<1>1. c \in Client
    BY DEF TypeOK
<1> QED BY <1>1, InStreamKept DEF AudienceInv

LEMMA AudienceSend ==
    ASSUME TypeOK, AudienceInv, NEW n \in Message, NEW d \in Client, Send(n, d)
    PROVE  AudienceInv'
<1> SUFFICES ASSUME NEW m \in Message, NEW c \in audience[m]
             PROVE  \/ c \in todo'[m]
                    \/ InStream(m, c)'
                    \/ m \in missed'[c] /\ Len(Stream(c)') >= Buffer
                    \/ ~ alive'[c]
    BY DEF AudienceInv, Send, begun
<1>0. c \in Client
    BY DEF TypeOK
<1>1. \/ c \in todo[m]
      \/ InStream(m, c)
      \/ m \in missed[c] /\ Len(Stream(c)) >= Buffer
      \/ ~ alive[c]
    BY DEF AudienceInv
<1>2. UNCHANGED <<writing, wrote, alive>>
    BY DEF Send
<1>3. CASE c # d
  <2>1. Stream(c)' = Stream(c)
      BY <1>0, <1>2, <1>3, StreamKept DEF Send, TypeOK
  <2>2. (c \in todo[m] => c \in todo'[m]) /\ missed'[c] = missed[c]
      BY <1>0, <1>3 DEF Send, TypeOK
  <2> QED BY <1>0, <1>1, <1>2, <2>1, <2>2, InStreamKept
<1>4. CASE c = d /\ Len(send[d]) < Buffer
  <2>1. /\ send'[c] = Append(send[c], n) /\ writing'[c] = writing[c] /\ wrote'[c] = wrote[c]
        /\ UNCHANGED missed
      BY <1>2, <1>4 DEF Send, TypeOK
  <2>2. /\ Len(Stream(c)') = Len(Stream(c)) + 1
        /\ \A i \in 1..Len(Stream(c)) : Stream(c)'[i] = Stream(c)[i]
        /\ Stream(c)'[Len(Stream(c)) + 1] = n
        /\ Len(Stream(c)) \in Nat
      BY <1>0, <2>1, SendExtendsStream
  <2>3. InStream(n, c)' /\ (InStream(m, c) => InStream(m, c)')
      BY <2>2 DEF InStream
  <2>4. m # n => (c \in todo[m] => c \in todo'[m])
      BY DEF Send, TypeOK
  <2>5. Len(Stream(c)) >= Buffer => Len(Stream(c)') >= Buffer
      BY <2>2, HubConstants
  <2> QED BY <1>1, <1>2, <2>1, <2>3, <2>4, <2>5
<1>5. CASE c = d /\ ~ (Len(send[d]) < Buffer)
  <2>1. UNCHANGED send /\ missed'[c] = missed[c] \cup {n}
      BY <1>5 DEF Send, TypeOK
  <2>2. Stream(c)' = Stream(c)
      BY <1>0, <1>2, <2>1, StreamKept
  <2>3. Len(Stream(c)) >= Buffer
    <3>1. Len(send[c]) \in Nat
        BY <1>0, StreamType, LenProperties
    <3> QED BY <1>0, <1>5, <3>1, StreamType, HubConstants
  <2>4. m # n => (c \in todo[m] => c \in todo'[m])
      BY DEF Send, TypeOK
  <2> QED BY <1>0, <1>1, <1>2, <2>1, <2>2, <2>3, <2>4, InStreamKept
<1> QED BY <1>3, <1>4, <1>5

\* Of those registered when a broadcast began, a connection misses the message only
\* if its own buffer was full or its own peer failed: what other connections do
\* costs it nothing.
THEOREM MissesAreOnesOwn == Spec => []OnlyFullMiss
<1>1. Init => AudienceInv
    BY DEF Init, AudienceInv
<1>2. TypeOK /\ TypeOK' /\ RegisteredInv /\ PumpInv /\ AudienceInv /\ [Next]_vars
          => AudienceInv'
  <2> SUFFICES ASSUME TypeOK, TypeOK', RegisteredInv, PumpInv, AudienceInv, [Next]_vars
               PROVE  AudienceInv'
      OBVIOUS
  <2>1. ASSUME NEW d \in Client, Connect(d) PROVE AudienceInv'
    <3> SUFFICES ASSUME NEW m \in Message, NEW c \in audience'[m]
                 PROVE  \/ c \in todo'[m]
                        \/ InStream(m, c)'
                        \/ m \in missed'[c] /\ Len(Stream(c)') >= Buffer
                        \/ ~ alive'[c]
        BY DEF AudienceInv
    <3>1. c \in audience[m] /\ c # d /\ c \in Client
        BY <2>1 DEF Connect, TypeOK
    <3>2. /\ UNCHANGED todo /\ missed'[c] = missed[c] /\ alive'[c] = alive[c]
          /\ wrote'[c] = wrote[c] /\ writing'[c] = writing[c] /\ send'[c] = send[c]
        BY <2>1, <3>1 DEF Connect, TypeOK
    <3>3. Stream(c)' = Stream(c)
        BY <3>1, <3>2, StreamKept
    <3> QED BY <3>1, <3>2, <3>3, InStreamKept DEF AudienceInv
  <2>2. ASSUME NEW d \in Client, Vanish(d) \/ Handle(d) PROVE AudienceInv'
    <3>1. UNCHANGED <<audience, todo, missed, wrote, writing, send>>
        BY <2>2 DEF Vanish, Handle, Register, ReadFails, Unregister, CloseSend, HangUp, casts,
                    begun
    <3>2. \A c \in Client : alive'[c] => alive[c]
        BY <2>2 DEF Vanish, Handle, Register, ReadFails, Unregister, CloseSend, HangUp, TypeOK
    <3>3. \A c \in Client : Stream(c)' = Stream(c)
        BY <3>1, StreamKept
    <3> QED BY <3>1, <3>2, <3>3, AudienceKept
  <2>3. ASSUME NEW d \in Client, Receive(d) \/ Write(d) PROVE AudienceInv'
    <3>1. UNCHANGED <<audience, todo, missed, alive>>
        BY <2>3 DEF Receive, Write, casts, begun
    <3> QED BY <2>3, <3>1, PumpKeepsStreams, AudienceKept
  <2>4. ASSUME NEW d \in Client, WriteFails(d) PROVE AudienceInv'
    <3> SUFFICES ASSUME NEW m \in Message, NEW c \in audience'[m]
                 PROVE  \/ c \in todo'[m]
                        \/ InStream(m, c)'
                        \/ m \in missed'[c] /\ Len(Stream(c)') >= Buffer
                        \/ ~ alive'[c]
        BY DEF AudienceInv
    <3>1. /\ UNCHANGED <<audience, todo, missed, alive, wrote, send>>
          /\ ~ alive[d] /\ c \in Client
        BY <2>4 DEF WriteFails, casts, begun, TypeOK
    <3>2. CASE c = d
        BY <3>1, <3>2
    <3>3. CASE c # d
      <4>1. Stream(c)' = Stream(c)
          BY <2>4, <3>1, <3>3, StreamKept DEF WriteFails, TypeOK
      <4> QED BY <3>1, <4>1, InStreamKept DEF AudienceInv
    <3> QED BY <3>2, <3>3
  <2>5. ASSUME NEW n \in Message, CastBegin(n) PROVE AudienceInv'
    <3> SUFFICES ASSUME NEW m \in Message, NEW c \in audience'[m]
                 PROVE  \/ c \in todo'[m]
                        \/ InStream(m, c)'
                        \/ m \in missed'[c] /\ Len(Stream(c)') >= Buffer
                        \/ ~ alive'[c]
        BY DEF AudienceInv
    <3>1. c \in Client /\ UNCHANGED <<missed, alive, wrote, writing, send>>
        BY <2>5 DEF CastBegin, conns, TypeOK
    <3>2. CASE m = n
        BY <2>5, <3>2 DEF CastBegin, TypeOK
    <3>3. CASE m # n
      <4>1. c \in audience[m] /\ todo'[m] = todo[m]
          BY <2>5, <3>3 DEF CastBegin, TypeOK
      <4>2. Stream(c)' = Stream(c)
          BY <3>1, StreamKept
      <4> QED BY <3>1, <4>1, <4>2, InStreamKept DEF AudienceInv
    <3> QED BY <3>2, <3>3
  <2>6. ASSUME NEW n \in Message, NEW d \in Client, Send(n, d) PROVE AudienceInv'
      BY <2>6, AudienceSend
  <2>7. ASSUME \/ \E n \in Message : CastEnd(n)
               \/ UNCHANGED vars
        PROVE  AudienceInv'
    <3>1. UNCHANGED <<audience, todo, missed, alive, wrote, writing, send>>
        BY <2>7 DEF CastEnd, conns, begun, vars
    <3>2. \A c \in Client : Stream(c)' = Stream(c)
        BY <3>1, StreamKept
    <3> QED BY <3>1, <3>2, AudienceKept
  <2> QED BY <2>1, <2>2, <2>3, <2>4, <2>5, <2>6, <2>7 DEF Next, Pump, Cast
<1>3. TypeOK /\ RegisteredInv /\ AudienceInv => OnlyFullMiss
    BY DEF RegisteredInv, AudienceInv, OnlyFullMiss, InStream
<1> QED BY <1>1, <1>2, <1>3, TypeCorrect, LockHolds, PumpsHold, PTL DEF Spec

-----------------------------------------------------------------------------
(* The order of a stream *)

\* What is left of three sequences without the middle one keeps its order.
LEMMA MiddleDropped ==
    ASSUME NEW S, NEW a \in Seq(S), NEW b \in Seq(S), NEW d \in Seq(S)
    PROVE  /\ Len(a) \in Nat /\ Len(b) \in Nat /\ Len(d) \in Nat
           /\ Len((a \o <<>>) \o d) = Len(a) + Len(d)
           /\ Len((a \o b) \o d) = Len(a) + Len(b) + Len(d)
           /\ \A i \in 1..Len(a) + Len(d) :
                  ((a \o <<>>) \o d)[i] =
                      ((a \o b) \o d)[IF i <= Len(a) THEN i ELSE i + Len(b)]
<1>1. Len(a) \in Nat /\ Len(b) \in Nat /\ Len(d) \in Nat
    BY LenProperties
<1>2. a \o <<>> = a
    BY ConcatEmptySeq
<1>3. /\ a \o b \in Seq(S) /\ Len(a \o b) = Len(a) + Len(b)
      /\ \A i \in 1..Len(a) + Len(b) :
             (a \o b)[i] = IF i <= Len(a) THEN a[i] ELSE b[i - Len(a)]
    BY ConcatProperties
<1>4. /\ Len((a \o b) \o d) = Len(a \o b) + Len(d)
      /\ \A i \in 1..Len(a \o b) + Len(d) :
             ((a \o b) \o d)[i] = IF i <= Len(a \o b) THEN (a \o b)[i]
                                 ELSE d[i - Len(a \o b)]
    BY <1>3, ConcatProperties
<1>5. /\ Len(a \o d) = Len(a) + Len(d)
      /\ \A i \in 1..Len(a) + Len(d) :
             (a \o d)[i] = IF i <= Len(a) THEN a[i] ELSE d[i - Len(a)]
    BY ConcatProperties
<1>6. Len((a \o b) \o d) = Len(a) + Len(b) + Len(d)
    BY <1>1, <1>3, <1>4
<1>7. ASSUME NEW i \in 1..Len(a) + Len(d), i <= Len(a)
      PROVE  (a \o d)[i] = ((a \o b) \o d)[i]
  <2>1. i \in 1..Len(a) + Len(b) /\ i <= Len(a) + Len(b)
        /\ i \in 1..Len(a) + Len(b) + Len(d)
      BY <1>1, <1>7
  <2> QED BY <1>3, <1>4, <1>5, <1>7, <2>1
<1>8. ASSUME NEW i \in 1..Len(a) + Len(d), ~ (i <= Len(a))
      PROVE  (a \o d)[i] = ((a \o b) \o d)[i + Len(b)]
  <2>1. /\ i + Len(b) \in 1..Len(a) + Len(b) + Len(d)
        /\ ~ (i + Len(b) <= Len(a) + Len(b))
        /\ (i + Len(b)) - (Len(a) + Len(b)) = i - Len(a)
      BY <1>1, <1>8
  <2> QED BY <1>3, <1>4, <1>5, <1>8, <2>1
<1> QED BY <1>1, <1>2, <1>5, <1>6, <1>7, <1>8

\* Where the elements of the stream of c were before its pump gave up.
LEMMA WriteFailsDrops ==
    ASSUME TypeOK, NEW c \in Client, writing'[c] = <<>>,
           wrote'[c] = wrote[c], send'[c] = send[c]
    PROVE  \E k, l \in Nat :
               \A i \in 1..Len(Stream(c)') :
                   /\ (IF i <= k THEN i ELSE i + l) \in 1..Len(Stream(c))
                   /\ Stream(c)'[i] = Stream(c)[IF i <= k THEN i ELSE i + l]
<1> DEFINE a == wrote[c]
           b == writing[c]
           d == send[c]
<1>1. a \in Seq(Message) /\ b \in Seq(Message) /\ d \in Seq(Message)
    BY StreamType
<1>2. Stream(c)' = (a \o <<>>) \o d /\ Stream(c) = (a \o b) \o d
    BY DEF Stream
<1> HIDE DEF a, b, d
<1>3. /\ Len(a) \in Nat /\ Len(b) \in Nat /\ Len(d) \in Nat
      /\ Len((a \o <<>>) \o d) = Len(a) + Len(d)
      /\ Len((a \o b) \o d) = Len(a) + Len(b) + Len(d)
      /\ \A i \in 1..Len(a) + Len(d) :
             ((a \o <<>>) \o d)[i] = ((a \o b) \o d)[IF i <= Len(a) THEN i ELSE i + Len(b)]
    BY <1>1, MiddleDropped
<1>4. \A i \in 1..Len(a) + Len(d) :
          (IF i <= Len(a) THEN i ELSE i + Len(b)) \in 1..Len(a) + Len(b) + Len(d)
    BY <1>3
<1>5. \A i \in 1..Len(Stream(c)') :
          /\ (IF i <= Len(a) THEN i ELSE i + Len(b)) \in 1..Len(Stream(c))
          /\ Stream(c)'[i] = Stream(c)[IF i <= Len(a) THEN i ELSE i + Len(b)]
    BY <1>2, <1>3, <1>4
<1> QED BY <1>3, <1>5

\* StreamInOrder, for one connection.
Ordered(c) ==
    \A i, j \in 1..Len(Stream(c)) :
        /\ Stream(c)[i] = Stream(c)[j] => i = j
        /\ Stream(c)[i] \in after[Stream(c)[j]] => i < j

\* BroadcastInv, for one connection.
Announced(c) ==
    \A m \in Message : InStream(m, c) => cast[m] # "none" /\ c \notin todo[m]

LEMMA OrderKept ==
    ASSUME TypeOK, NEW c \in Client, Ordered(c), Announced(c), Stream(c)' = Stream(c),
           UNCHANGED <<after, todo>>, \A m \in Message : cast[m] # "none" => cast'[m] # "none"
    PROVE  Ordered(c)' /\ Announced(c)'
<1>1. Ordered(c)'
    BY DEF Ordered
<1>2. Announced(c)'
    BY InStreamKept DEF Announced
<1> QED BY <1>1, <1>2

LEMMA OrderOfEmpty ==
    ASSUME NEW c \in Client, wrote'[c] = <<>>, writing'[c] = <<>>, send'[c] = <<>>
    PROVE  Ordered(c)' /\ Announced(c)'
<1>1. Stream(c)' = (<<>> \o <<>>) \o <<>>
    BY DEF Stream
<1>2. <<>> \in Seq(Message)
    OBVIOUS
<1>3. (<<>> \o <<>>) \o <<>> = <<>>
    BY <1>2, ConcatEmptySeq
<1>4. \A i : i \notin 1..Len(Stream(c)')
    BY <1>1, <1>3
<1> QED BY <1>4 DEF Ordered, Announced, InStream

LEMMA OrderAfterDrop ==
    ASSUME TypeOK, NEW c \in Client, Ordered(c), Announced(c), writing'[c] = <<>>,
           wrote'[c] = wrote[c], send'[c] = send[c], UNCHANGED <<after, todo, cast>>
    PROVE  Ordered(c)' /\ Announced(c)'
<1> PICK k \in Nat, l \in Nat :
        \A i \in 1..Len(Stream(c)') :
            /\ (IF i <= k THEN i ELSE i + l) \in 1..Len(Stream(c))
            /\ Stream(c)'[i] = Stream(c)[IF i <= k THEN i ELSE i + l]
    BY WriteFailsDrops
<1> DEFINE was(i) == IF i <= k THEN i ELSE i + l
<1>1. \A i \in 1..Len(Stream(c)') :
          was(i) \in 1..Len(Stream(c)) /\ Stream(c)'[i] = Stream(c)[was(i)]
    OBVIOUS
<1>2. \A i, j \in 1..Len(Stream(c)') :
          (was(i) = was(j) => i = j) /\ (was(i) < was(j) => i < j)
  <2>1. \A i, j \in Nat : (was(i) = was(j) => i = j) /\ (was(i) < was(j) => i < j)
      OBVIOUS
  <2>2. \A i \in 1..Len(Stream(c)') : i \in Nat
      OBVIOUS
  <2> QED BY <2>1, <2>2
<1> HIDE DEF was
<1>3. Ordered(c)'
  <2> SUFFICES ASSUME NEW i \in 1..Len(Stream(c)'), NEW j \in 1..Len(Stream(c)')
               PROVE  /\ Stream(c)'[i] = Stream(c)'[j] => i = j
                      /\ Stream(c)'[i] \in after'[Stream(c)'[j]] => i < j
      BY DEF Ordered
  <2>1. /\ Stream(c)[was(i)] = Stream(c)[was(j)] => was(i) = was(j)
        /\ Stream(c)[was(i)] \in after[Stream(c)[was(j)]] => was(i) < was(j)
      BY <1>1 DEF Ordered
  <2> QED BY <1>1, <1>2, <2>1
<1>4. Announced(c)'
  <2>1. \A m \in Message : InStream(m, c)' => InStream(m, c)
      BY <1>1 DEF InStream
  <2> QED BY <2>1 DEF Announced
<1> QED BY <1>3, <1>4

LEMMA OrderAfterSend ==
    ASSUME TypeOK, BroadcastInv, NEW n \in Message, NEW c \in Client, Ordered(c), Announced(c),
           Send(n, c), Len(send[c]) < Buffer
    PROVE  Ordered(c)' /\ Announced(c)'
<1>1. /\ send'[c] = Append(send[c], n) /\ writing'[c] = writing[c] /\ wrote'[c] = wrote[c]
      /\ cast[n] = "sending" /\ c \in todo[n] /\ c \notin todo'[n]
      /\ \A m \in Message \ {n} : todo'[m] = todo[m]
      /\ UNCHANGED <<after, cast>>
    BY DEF Send, TypeOK, begun
<1> DEFINE k == Len(Stream(c))
<1>2. /\ Len(Stream(c)') = k + 1
      /\ \A i \in 1..k : Stream(c)'[i] = Stream(c)[i]
      /\ Stream(c)'[k + 1] = n
      /\ k \in Nat
    BY <1>1, SendExtendsStream
<1>3. \A i \in 1..k : Stream(c)[i] # n
    BY <1>1 DEF Announced, InStream
<1>4. \A m \in Message : n \notin after[m]
    BY <1>1 DEF BroadcastInv
<1>5. \A i \in 1..k : Stream(c)[i] \in Message
    BY StreamType, ElementOfSeq
<1> HIDE DEF k
<1>6. Ordered(c)'
  <2> SUFFICES ASSUME NEW i \in 1..k + 1, NEW j \in 1..k + 1
               PROVE  /\ Stream(c)'[i] = Stream(c)'[j] => i = j
                      /\ Stream(c)'[i] \in after'[Stream(c)'[j]] => i < j
      BY <1>2 DEF Ordered
  <2>0. after' = after
      BY <1>1
  <2>1. CASE i \in 1..k /\ j \in 1..k
      BY <1>2, <2>0, <2>1 DEF Ordered, k
  <2>2. CASE i = k + 1 /\ j \in 1..k
      BY <1>2, <1>3, <1>4, <1>5, <2>0, <2>2
  <2>3. CASE i \in 1..k /\ j = k + 1
      BY <1>2, <1>3, <2>3
  <2>4. CASE i = k + 1 /\ j = k + 1
      BY <1>2, <1>4, <2>0, <2>4
  <2> QED BY <1>2, <2>1, <2>2, <2>3, <2>4
<1>7. Announced(c)'
  <2>1. \A m \in Message : InStream(m, c)' => InStream(m, c) \/ m = n
      BY <1>2 DEF InStream, k
  <2> QED BY <1>1, <2>1 DEF Announced
<1> QED BY <1>6, <1>7

LEMMA BroadcastsOver ==
    ASSUME TypeOK, BroadcastInv, [Next]_vars
    PROVE  \A m \in Message : /\ cast[m] # "none" => cast'[m] # "none"
                              /\ \A n \in after'[m] : cast'[n] = "done"
<1>1. ASSUME NEW n \in Message, CastBegin(n)
      PROVE  \A m \in Message : /\ cast[m] # "none" => cast'[m] # "none"
                                /\ \A p \in after'[m] : cast'[p] = "done"
  <2>1. /\ cast[n] = "none" /\ cast' = [cast EXCEPT ![n] = "sending"]
        /\ after' = [after EXCEPT ![n] = {p \in Message : cast[p] = "done"}]
      BY <1>1 DEF CastBegin
  <2>2. \A p \in Message : cast[p] = "done" => cast'[p] = "done"
      BY <2>1 DEF TypeOK
  <2>3. \A m \in Message : \A p \in after'[m] : p \in Message /\ cast[p] = "done"
      BY <2>1 DEF TypeOK, BroadcastInv
  <2> QED BY <2>1, <2>2, <2>3 DEF TypeOK
<1>2. ASSUME NEW n \in Message, CastEnd(n)
      PROVE  \A m \in Message : /\ cast[m] # "none" => cast'[m] # "none"
                                /\ \A p \in after'[m] : cast'[p] = "done"
  <2>1. cast' = [cast EXCEPT ![n] = "done"] /\ UNCHANGED after
      BY <1>2 DEF CastEnd, begun
  <2> QED BY <2>1 DEF TypeOK, BroadcastInv
<1>3. ASSUME \/ \E c \in Client : Connect(c) \/ Vanish(c) \/ Handle(c) \/ Pump(c)
             \/ \E m \in Message, c \in Client : Send(m, c)
             \/ UNCHANGED vars
      PROVE  UNCHANGED <<cast, after>>
    BY <1>3 DEF Connect, Vanish, Handle, Register, ReadFails, Unregister, CloseSend, HangUp,
                Pump, Receive, Write, WriteFails, Send, casts, begun, vars
<1> QED BY <1>1, <1>2, <1>3 DEF Next, Cast, BroadcastInv

\* Everything a connection gets, it gets once, and a broadcast that was over before
\* another one began comes first: a broadcast appends what is not there yet, and it
\* does so before it is over.
THEOREM StreamsInOrder == Spec => []StreamInOrder
<1>1. Init => OrderInv
  <2> SUFFICES ASSUME Init PROVE OrderInv
      OBVIOUS
  <2>1. \A c \in Client : Stream(c) = (<<>> \o <<>>) \o <<>>
      BY DEF Init, Stream
  <2>2. (<<>> \o <<>>) \o <<>> = <<>>
    <3>1. <<>> \in Seq(Message)
        OBVIOUS
    <3> QED BY <3>1, ConcatEmptySeq
  <2>3. \A c \in Client : \A i : i \notin 1..Len(Stream(c))
      BY <2>1, <2>2
  <2> QED BY <2>3 DEF Init, OrderInv, BroadcastInv, StreamInOrder, InStream
<1>2. TypeOK /\ PumpInv /\ RegisteredInv /\ OrderInv /\ [Next]_vars => OrderInv'
  <2> SUFFICES ASSUME TypeOK, PumpInv, RegisteredInv, OrderInv, [Next]_vars,
                      NEW c \in Client
               PROVE  Ordered(c)' /\ Announced(c)'
      BY BroadcastsOver DEF OrderInv, BroadcastInv, StreamInOrder, Ordered, Announced
  <2>0. /\ Ordered(c) /\ Announced(c) /\ BroadcastInv
        /\ \A m \in Message : cast[m] # "none" => cast'[m] # "none"
      BY BroadcastsOver DEF OrderInv, BroadcastInv, StreamInOrder, Ordered, Announced
  <2>1. ASSUME NEW d \in Client, Connect(d) PROVE Ordered(c)' /\ Announced(c)'
    <3>1. CASE c = d
      <4>1. wrote'[c] = <<>> /\ send'[c] = <<>> /\ writing'[c] = writing[c]
            /\ pump[c] \in {"none", "done"}
          BY <2>1, <3>1 DEF Connect, TypeOK
      <4> QED BY <4>1, OrderOfEmpty DEF PumpInv
    <3>2. CASE c # d
      <4>1. /\ wrote'[c] = wrote[c] /\ send'[c] = send[c] /\ writing'[c] = writing[c]
            /\ UNCHANGED <<after, todo>>
          BY <2>1, <3>2 DEF Connect, TypeOK
      <4> QED BY <2>0, <4>1, StreamKept, OrderKept
    <3> QED BY <3>1, <3>2
  <2>2. ASSUME NEW d \in Client, Receive(d) \/ Write(d)
        PROVE  Ordered(c)' /\ Announced(c)'
    <3>1. UNCHANGED <<after, todo>>
        BY <2>2 DEF Receive, Write, casts, begun
    <3> QED BY <2>0, <2>2, <3>1, PumpKeepsStreams, OrderKept
  <2>3. ASSUME NEW d \in Client, WriteFails(d) PROVE Ordered(c)' /\ Announced(c)'
    <3>1. UNCHANGED <<after, todo, cast, wrote, send>>
        BY <2>3 DEF WriteFails, casts, begun
    <3>2. CASE c = d
      <4>1. writing'[c] = <<>>
          BY <2>3, <3>2 DEF WriteFails, TypeOK
      <4> QED BY <2>0, <3>1, <4>1, OrderAfterDrop
    <3>3. CASE c # d
      <4>1. writing'[c] = writing[c]
          BY <2>3, <3>3 DEF WriteFails, TypeOK
      <4> QED BY <2>0, <3>1, <4>1, StreamKept, OrderKept
    <3> QED BY <3>2, <3>3
  <2>4. ASSUME NEW n \in Message, CastBegin(n) PROVE Ordered(c)' /\ Announced(c)'
    <3>1. /\ cast[n] = "none" /\ UNCHANGED <<wrote, writing, send>>
          /\ \A m \in Message \ {n} : todo'[m] = todo[m] /\ after'[m] = after[m]
        BY <2>4 DEF CastBegin, conns, TypeOK
    <3>2. Stream(c)' = Stream(c)
        BY <3>1, StreamKept
    <3>3. ~ InStream(n, c)
        BY <2>0, <3>1 DEF Announced
    <3>4. \A i \in 1..Len(Stream(c)) : Stream(c)[i] \in Message \ {n}
        BY <3>3, StreamType, ElementOfSeq DEF InStream
    <3>5. Ordered(c)'
        BY <2>0, <3>1, <3>2, <3>4 DEF Ordered
    <3>6. Announced(c)'
        BY <2>0, <3>1, <3>2, <3>3, InStreamKept DEF Announced
    <3> QED BY <3>5, <3>6
  <2>5. ASSUME NEW n \in Message, NEW d \in Client, Send(n, d)
        PROVE  Ordered(c)' /\ Announced(c)'
    <3>1. CASE c = d /\ Len(send[d]) < Buffer
        BY <2>0, <2>5, <3>1, OrderAfterSend
    <3>2. CASE ~ (c = d /\ Len(send[d]) < Buffer)
      <4>1. send'[c] = send[c] /\ UNCHANGED <<wrote, writing, after, cast>>
          BY <2>5, <3>2 DEF Send, TypeOK, begun
      <4>2. Stream(c)' = Stream(c)
          BY <4>1, StreamKept
      <4>3. \A m \in Message : todo'[m] \subseteq todo[m]
          BY <2>5 DEF Send, TypeOK
      <4>4. Ordered(c)'
          BY <2>0, <4>1, <4>2 DEF Ordered
      <4>5. Announced(c)'
          BY <2>0, <4>1, <4>2, <4>3, InStreamKept DEF Announced
      <4> QED BY <4>4, <4>5
    <3> QED BY <3>1, <3>2
  <2>6. ASSUME \/ \E d \in Client : Vanish(d) \/ Handle(d)
               \/ \E n \in Message : CastEnd(n)
               \/ UNCHANGED vars
        PROVE  Ordered(c)' /\ Announced(c)'
    <3>1. UNCHANGED <<wrote, writing, send, after, todo>>
        BY <2>6 DEF Vanish, Handle, Register, ReadFails, Unregister, CloseSend, HangUp,
                    CastEnd, casts, conns, begun, vars
    <3> QED BY <2>0, <3>1, StreamKept, OrderKept
  <2> QED BY <2>1, <2>2, <2>3, <2>4, <2>5, <2>6 DEF Next, Pump, Cast
<1>3. OrderInv => StreamInOrder
    BY DEF OrderInv
<1> QED BY <1>1, <1>2, <1>3, TypeCorrect, LockHolds, PumpsHold, PTL DEF Spec
-----------------------------------------------------------------------------
(* What a connection is promised *)

\* The pump holds a message when it writes, and who leaves has lost its peer.
HandsInv ==
    /\ \A c \in Client : pump[c] = "write" => Len(writing[c]) = 1
    /\ \A c \in Client : handler[c] = "unlock" => ~ alive[c]

Listeners == {c \in Client : c \in clients[TopicOf[c]]}
Gone      == {c \in Client : ~ alive[c]}
Begun     == {m \in Message : cast[m] # "none"}
Box       == [c \in Client |-> writing[c] \o send[c]]

LEMMA BoxState == Boxes!boxVars = <<Listeners, Gone, Begun, todo, Box, wrote>>
BY DEF Boxes!boxVars, Listeners, Gone, Begun, Box

LEMMA HandsKept == TypeOK /\ HandsInv /\ [Next]_vars => HandsInv'
<1> SUFFICES ASSUME TypeOK, HandsInv, [Next]_vars PROVE HandsInv'
    OBVIOUS
<1>1. ASSUME NEW c \in Client, Receive(c) PROVE HandsInv'
  <2>1. UNCHANGED <<handler, alive>>
      BY <1>1 DEF Receive
  <2>2. CASE send[c] # <<>>
    <3>1. /\ pump' = [pump EXCEPT ![c] = "write"]
          /\ writing' = [writing EXCEPT ![c] = <<Head(send[c])>>]
        BY <1>1, <2>2 DEF Receive
    <3>2. writing'[c] = <<Head(send[c])>> /\ Len(<<Head(send[c])>>) = 1
        BY <2>2, <3>1, HeadTailType DEF TypeOK
    <3>3. \A d \in Client \ {c} : writing'[d] = writing[d] /\ pump'[d] = pump[d]
        BY <3>1 DEF TypeOK
    <3>4. Len(writing'[c]) = 1
        BY <3>2
    <3> QED BY <2>1, <3>3, <3>4 DEF HandsInv
  <2>3. CASE send[c] = <<>>
    <3>1. pump' = [pump EXCEPT ![c] = "done"] /\ UNCHANGED writing
        BY <1>1, <2>3 DEF Receive
    <3> QED BY <2>1, <3>1 DEF HandsInv, TypeOK
  <2> QED BY <2>2, <2>3
<1>2. ASSUME NEW c \in Client, Write(c) \/ WriteFails(c) PROVE HandsInv'
    BY <1>2 DEF Write, WriteFails, HandsInv, TypeOK
<1>3. ASSUME NEW c \in Client, Connect(c) \/ Register(c) PROVE HandsInv'
  <2>1. CASE Connect(c)
    <3>1. /\ pump' = [pump EXCEPT ![c] = "none"] /\ handler' = [handler EXCEPT ![c] = "lock"]
          /\ alive' = [alive EXCEPT ![c] = TRUE] /\ UNCHANGED writing
        BY <2>1 DEF Connect
    <3> QED BY <3>1 DEF HandsInv, TypeOK
  <2>2. CASE Register(c)
    <3>1. /\ pump' = [pump EXCEPT ![c] = "receive"]
          /\ handler' = [handler EXCEPT ![c] = "reading"]
          /\ UNCHANGED <<writing, alive>>
        BY <2>2 DEF Register
    <3> QED BY <3>1 DEF HandsInv, TypeOK
  <2> QED BY <1>3, <2>1, <2>2
<1>4. ASSUME NEW c \in Client, ReadFails(c) \/ Unregister(c) \/ CloseSend(c) \/ HangUp(c)
      PROVE  HandsInv'
    BY <1>4 DEF ReadFails, Unregister, CloseSend, HangUp, HandsInv, TypeOK
<1>5. ASSUME NEW c \in Client, Vanish(c) PROVE HandsInv'
    BY <1>5 DEF Vanish, HandsInv, TypeOK
<1>6. ASSUME \/ \E m \in Message : CastBegin(m) \/ Cast(m)
             \/ UNCHANGED vars
      PROVE  HandsInv'
  <2>1. UNCHANGED <<pump, writing, handler, alive>>
      BY <1>6 DEF CastBegin, Cast, Send, CastEnd, conns, vars
  <2> QED BY <2>1 DEF HandsInv
<1> QED BY <1>1, <1>2, <1>3, <1>4, <1>5, <1>6 DEF Next, Handle, Pump

LEMMA HandsHold == Spec => []HandsInv
<1>1. Init => HandsInv
    BY DEF Init, HandsInv
<1> QED BY <1>1, HandsKept, TypeCorrect, PTL DEF Spec

\* The one element of a sequence that another follows.
LEMMA OneThenMore ==
    ASSUME NEW S, NEW a \in Seq(S), NEW w \in Seq(S), NEW s \in Seq(S), Len(w) = 1
    PROVE  /\ w \o s # <<>>
           /\ Tail(w \o s) = s
           /\ Append(a, Head(w \o s)) = a \o w
<1>1. w # <<>> /\ w[1] \in S
  <2>1. Len(<<>>) = 0 /\ Len(w) # 0
      BY EmptySeq
  <2>2. w # <<>>
      BY <2>1, Zenon
  <2>3. 1 \in 1..Len(w)
      OBVIOUS
  <2>4. w[1] \in S
      BY <2>3, ElementOfSeq
  <2> QED BY <2>2, <2>4
<1>2. /\ w \o s \in Seq(S) /\ w \o s # <<>> /\ (w \o s)[1] = w[1]
    BY <1>1, ConcatProperties, ConcatEqualIffEmpty, LenProperties
<1> DEFINE b == w \o s
           h == <<Head(b)>>
<1>3. b \in Seq(S) /\ b # <<>> /\ Head(b) = w[1]
    BY <1>2
<1> HIDE DEF b
<1>4. h \in Seq(S) /\ Len(h) = 1 /\ h[1] = w[1]
    BY <1>1, <1>3
<1>5. h \o Tail(b) = b /\ Tail(b) \in Seq(S)
    BY <1>3, HeadThenTail, HeadTailProperties
<1>6. Append(a, Head(b)) = a \o h
    BY <1>1, <1>3, AppendIsConcat
<1> HIDE DEF h
<1>7. w = h
    BY <1>4, SeqEqual
<1>8. w \o Tail(b) = w \o s
    BY <1>5, <1>7 DEF b
<1>9. Tail(b) = s
    BY <1>5, <1>8, ConcatSimplifications
<1> QED BY <1>2, <1>6, <1>7, <1>9 DEF b

LEMMA AppendAfter ==
    ASSUME NEW S, NEW w \in Seq(S), NEW s \in Seq(S), NEW e \in S
    PROVE  w \o Append(s, e) = Append(w \o s, e)
<1>1. <<e>> \in Seq(S) /\ w \o s \in Seq(S)
    BY ConcatProperties
<1>2. Append(s, e) = s \o <<e>> /\ Append(w \o s, e) = (w \o s) \o <<e>>
    BY <1>1, AppendIsConcat
<1>3. (w \o s) \o <<e>> = w \o (s \o <<e>>)
    BY <1>1, ConcatAssociative
<1> QED BY <1>2, <1>3, Zenon

LEMMA BoxType ==
    ASSUME TypeOK, NEW c \in Client
    PROVE  /\ Box[c] = writing[c] \o send[c]
           /\ Box[c] \in Seq(Message)
           /\ Len(Box[c]) = Len(writing[c]) + Len(send[c])
           /\ Len(writing[c]) \in Nat /\ Len(writing[c]) <= 1
           /\ Len(send[c]) \in Nat /\ Len(send[c]) <= Buffer
<1>1. writing[c] \in Seq(Message) /\ send[c] \in Seq(Message)
    BY DEF TypeOK
<1>2. Len(writing[c]) \in Nat /\ Len(send[c]) \in Nat
    BY <1>1, LenProperties
<1>3. Len(writing[c]) <= 1 /\ Len(send[c]) <= Buffer
    BY DEF TypeOK
<1>4. /\ writing[c] \o send[c] \in Seq(Message)
      /\ Len(writing[c] \o send[c]) = Len(writing[c]) + Len(send[c])
    BY <1>1, ConcatProperties
<1>5. Box[c] = writing[c] \o send[c]
    BY DEF Box
<1> QED BY <1>2, <1>3, <1>4, <1>5

\* A box changes only with what the pump or the channel of its connection holds.
LEMMA OneBox ==
    ASSUME TypeOK, NEW c \in Client, NEW w, NEW s,
           writing' = [writing EXCEPT ![c] = w], send' = [send EXCEPT ![c] = s]
    PROVE  Box' = [Box EXCEPT ![c] = w \o s]
BY DEF Box, TypeOK

\* What each step of the hub is to the boxes, or that it is nothing.
LEMMA ComeSeen ==
    ASSUME TypeOK, RegisteredInv, PumpInv, NEW c \in Client, Connect(c)
    PROVE  Boxes!Come(c)
<1>1. c \notin Listeners
    BY TopicsType DEF Connect, RegisteredInv, Listeners
<1>2. writing[c] = <<>>
    BY DEF Connect, PumpInv
<1>3. writing' = [writing EXCEPT ![c] = <<>>] /\ send' = [send EXCEPT ![c] = <<>>]
    BY <1>2 DEF Connect, TypeOK
<1>4. Box' = [Box EXCEPT ![c] = <<>> \o <<>>]
    BY <1>3, OneBox
<1>5. <<>> \o <<>> = <<>>
    OBVIOUS
<1>6. Gone' = Gone \ {c}
    BY DEF Connect, Gone, TypeOK
<1>7. UNCHANGED <<Listeners, Begun, todo>> /\ wrote' = [wrote EXCEPT ![c] = <<>>]
    BY DEF Connect, Listeners, Begun
<1> QED BY <1>1, <1>4, <1>5, <1>6, <1>7 DEF Boxes!Come, Listeners, Gone, Begun, Box

LEMMA ListenSeen ==
    ASSUME TypeOK, NEW c \in Client, Register(c)
    PROVE  Boxes!Listen(c)
<1>1. Listeners' = Listeners \cup {c}
    BY TopicsType DEF Register, Listeners, TypeOK
<1>2. UNCHANGED <<Gone, Begun, todo, Box, wrote>>
    BY DEF Register, casts, Gone, Begun, Box
<1> QED BY <1>1, <1>2 DEF Boxes!Listen, Listeners, Gone, Begun, Box

LEMMA GoSeen ==
    ASSUME TypeOK, NEW c \in Client, Vanish(c)
    PROVE  Boxes!Go(c)
<1>1. Gone' = Gone \cup {c}
    BY DEF Vanish, Gone, TypeOK
<1>2. UNCHANGED <<Listeners, Begun, todo, Box, wrote>>
    BY DEF Vanish, casts, Listeners, Begun, Box
<1> QED BY <1>1, <1>2 DEF Boxes!Go, Listeners, Gone, Begun, Box

LEMMA LeaveSeen ==
    ASSUME TypeOK, RegisteredInv, HandsInv, NEW c \in Client, Unregister(c)
    PROVE  Boxes!Leave(c)
<1>1. c \in Gone
    BY DEF Unregister, HandsInv, Gone
<1>2. \A m \in Message : todo[m] = {}
    BY DEF Unregister, NoReader, RegisteredInv
<1>3. Listeners' = Listeners \ {c}
    BY TopicsType DEF Unregister, Listeners, RegisteredInv, TypeOK
<1>4. UNCHANGED <<Gone, Begun, todo, Box, wrote>>
    BY DEF Unregister, casts, Gone, Begun, Box
<1> QED BY <1>1, <1>2, <1>3, <1>4 DEF Boxes!Leave, Listeners, Gone, Begun, Box

LEMMA BeginSeen ==
    ASSUME TypeOK, RegisteredInv, NEW m \in Message, CastBegin(m)
    PROVE  Boxes!Begin(m)
<1>1. m \notin Begun /\ Begun' = Begun \cup {m}
    BY DEF CastBegin, Begun, TypeOK
<1>2. clients[TopicOf[m]] = {c \in Listeners : TopicOf[c] = TopicOf[m]}
    BY TopicsType DEF RegisteredInv, Listeners, TypeOK
<1>3. todo' = [todo EXCEPT ![m] = {c \in Listeners : TopicOf[c] = TopicOf[m]}]
    BY <1>2 DEF CastBegin
<1>4. UNCHANGED <<Listeners, Gone, Box, wrote>>
    BY DEF CastBegin, conns, Listeners, Gone, Box
<1> QED BY <1>1, <1>3, <1>4 DEF Boxes!Begin, Listeners, Gone, Begun, Box

LEMMA SendSeen ==
    ASSUME TypeOK, NEW m \in Message, NEW c \in Client, Send(m, c)
    PROVE  Boxes!Put(m, c) \/ Boxes!PassOver(m, c)
<1>1. /\ c \in todo[m] /\ todo' = [todo EXCEPT ![m] = @ \ {c}]
      /\ UNCHANGED <<Listeners, Gone, Begun, wrote, writing>>
    BY DEF Send, Listeners, Gone, Begun
<1> DEFINE b == Len(Box[c])
           w == Len(writing[c])
           s == Len(send[c])
<1>2. b = w + s /\ w \in Nat /\ w <= 1 /\ s \in Nat /\ Buffer \in Nat
    BY BoxType, HubConstants
<1>3. CASE Len(send[c]) < Buffer
  <2>1. send' = [send EXCEPT ![c] = Append(send[c], m)]
      BY <1>3 DEF Send
  <2>2. writing' = [writing EXCEPT ![c] = writing[c]]
      BY <1>1 DEF TypeOK
  <2>3. Box' = [Box EXCEPT ![c] = writing[c] \o Append(send[c], m)]
      BY <2>1, <2>2, OneBox
  <2>4. writing[c] \o Append(send[c], m) = Append(Box[c], m)
    <3> DEFINE x == writing[c]
               y == send[c]
    <3>1. x \in Seq(Message) /\ y \in Seq(Message) /\ Box[c] = x \o y
        BY BoxType DEF TypeOK
    <3> HIDE DEF x, y
    <3>2. x \o Append(y, m) = Append(x \o y, m)
        BY <3>1, AppendAfter
    <3> QED BY <3>1, <3>2, Zenon DEF x, y
  <2>5. Len(Box[c]) <= Buffer
    <3>1. s < Buffer
        BY <1>3
    <3> HIDE DEF b, w, s
    <3>2. b <= Buffer
        BY <1>2, <3>1
    <3> QED BY <3>2 DEF b
  <2>6. Box' = [Box EXCEPT ![c] = Append(Box[c], m)]
      BY <2>3, <2>4
  <2> QED BY <1>1, <2>5, <2>6 DEF Boxes!Put, Listeners, Gone, Begun, Box
<1>4. CASE ~ (Len(send[c]) < Buffer)
  <2>1. Len(Box[c]) >= Buffer
    <3>1. ~ (s < Buffer)
        BY <1>4
    <3> HIDE DEF b, w, s
    <3>2. b >= Buffer
        BY <1>2, <3>1
    <3> QED BY <3>2 DEF b
  <2>2. UNCHANGED Box
      BY <1>1, <1>4 DEF Send, Box
  <2> QED BY <1>1, <2>1, <2>2 DEF Boxes!PassOver, Listeners, Gone, Begun, Box
<1> QED BY <1>3, <1>4

LEMMA WriteSeen ==
    ASSUME TypeOK, HandsInv, NEW c \in Client, Write(c) \/ WriteFails(c)
    PROVE  Boxes!Deliver(c) \/ Boxes!Lose(c)
<1>1. /\ Len(writing[c]) = 1
      /\ wrote[c] \in Seq(Message) /\ writing[c] \in Seq(Message) /\ send[c] \in Seq(Message)
    BY DEF Write, WriteFails, HandsInv, TypeOK
<1>2. /\ Box[c] # <<>> /\ Tail(Box[c]) = send[c]
      /\ Append(wrote[c], Head(Box[c])) = wrote[c] \o writing[c]
  <2>1. Box[c] = writing[c] \o send[c]
      BY BoxType
  <2>2. /\ writing[c] \o send[c] # <<>> /\ Tail(writing[c] \o send[c]) = send[c]
        /\ Append(wrote[c], Head(writing[c] \o send[c])) = wrote[c] \o writing[c]
    <3> DEFINE a == wrote[c]
               w == writing[c]
               s == send[c]
    <3>1. a \in Seq(Message) /\ w \in Seq(Message) /\ s \in Seq(Message) /\ Len(w) = 1
        BY <1>1
    <3> HIDE DEF a, w, s
    <3>2. /\ w \o s # <<>> /\ Tail(w \o s) = s
          /\ Append(a, Head(w \o s)) = a \o w
        BY <3>1, OneThenMore
    <3> QED BY <3>2 DEF a, w, s
  <2> QED BY <2>1, <2>2, Zenon
<1>3. /\ writing' = [writing EXCEPT ![c] = <<>>]
      /\ send' = [send EXCEPT ![c] = send[c]]
    BY DEF Write, WriteFails, TypeOK
<1>4. Box' = [Box EXCEPT ![c] = <<>> \o send[c]]
    BY <1>3, OneBox
<1>5. <<>> \o send[c] = send[c]
    BY <1>1, ConcatEmptySeq
<1>6. Box' = [Box EXCEPT ![c] = Tail(Box[c])]
    BY <1>2, <1>4, <1>5
<1>7. UNCHANGED <<Listeners, Gone, Begun, todo>>
    BY DEF Write, WriteFails, casts, Listeners, Gone, Begun
<1>8. CASE Write(c)
  <2>1. wrote' = [wrote EXCEPT ![c] = Append(wrote[c], Head(Box[c]))]
      BY <1>2, <1>8 DEF Write
  <2> QED BY <1>2, <1>6, <1>7, <2>1 DEF Boxes!Deliver, Listeners, Gone, Begun, Box
<1>9. CASE WriteFails(c)
  <2>1. c \in Gone /\ UNCHANGED wrote
      BY <1>9 DEF WriteFails, Gone
  <2> QED BY <1>2, <1>6, <1>7, <2>1 DEF Boxes!Lose, Listeners, Gone, Begun, Box
<1> QED BY <1>8, <1>9

\* The steps of the goroutines that a connection does not see.
LEMMA Unseen ==
    ASSUME TypeOK, PumpInv,
           \/ \E c \in Client : Receive(c) \/ ReadFails(c) \/ CloseSend(c) \/ HangUp(c)
           \/ \E m \in Message : CastEnd(m)
           \/ UNCHANGED vars
    PROVE  UNCHANGED <<Listeners, Gone, Begun, todo, Box, wrote>>
<1>1. ASSUME NEW c \in Client, Receive(c)
      PROVE  UNCHANGED <<Listeners, Gone, Begun, todo, Box, wrote>>
  <2>1. UNCHANGED <<Listeners, Gone, Begun, todo, wrote>>
      BY <1>1 DEF Receive, casts, Listeners, Gone, Begun
  <2>2. CASE send[c] # <<>>
    <3>1. /\ writing' = [writing EXCEPT ![c] = <<Head(send[c])>>]
          /\ send' = [send EXCEPT ![c] = Tail(send[c])]
          /\ writing[c] = <<>>
        BY <1>1, <2>2 DEF Receive, PumpInv
    <3>2. Box' = [Box EXCEPT ![c] = <<Head(send[c])>> \o Tail(send[c])]
        BY <3>1, OneBox
    <3>3. send[c] \in Seq(Message)
        BY DEF TypeOK
    <3>4. <<Head(send[c])>> \o Tail(send[c]) = send[c] /\ <<>> \o send[c] = send[c]
        BY <2>2, <3>3, HeadThenTail, ConcatEmptySeq
    <3>5. Box[c] = send[c]
        BY <3>1, <3>4, BoxType
    <3>6. Box' = Box
        BY <3>2, <3>4, <3>5 DEF Box
    <3> QED BY <2>1, <3>6
  <2>3. CASE send[c] = <<>>
      BY <1>1, <2>1, <2>3 DEF Receive, Box
  <2> QED BY <2>2, <2>3
<1>2. ASSUME NEW c \in Client, ReadFails(c) \/ CloseSend(c) \/ HangUp(c)
      PROVE  UNCHANGED <<Listeners, Gone, Begun, todo, Box, wrote>>
    BY <1>2 DEF ReadFails, CloseSend, HangUp, casts, Listeners, Gone, Begun, Box
<1>3. ASSUME NEW m \in Message, CastEnd(m)
      PROVE  UNCHANGED <<Listeners, Gone, Begun, todo, Box, wrote>>
  <2>1. Begun' = Begun
      BY <1>3 DEF CastEnd, Begun, TypeOK
  <2> QED BY <1>3, <2>1 DEF CastEnd, conns, Listeners, Gone, Box
<1>4. CASE UNCHANGED vars
    BY <1>4 DEF vars, Listeners, Gone, Begun, Box
<1> QED BY <1>1, <1>2, <1>3, <1>4

\* The goroutines, channels and locks of the hub keep the promise that Mailbox states:
\* a broadcast is put in the boxes of those who listened when it began, a box that is
\* full is passed over, nobody leaves in between, and what is in a box is delivered in
\* order (Hub.Broadcast, Register, Unregister, writePump).
THEOREM HubKeepsItsPromise == Spec => MailboxImplemented
<1>1. Init => Boxes!Init
  <2> SUFFICES ASSUME Init PROVE Boxes!Init
      OBVIOUS
  <2>1. <<>> \o <<>> = <<>>
      OBVIOUS
  <2>2. Box = [c \in Client |-> <<>>]
      BY <2>1 DEF Init, Box
  <2>3. Listeners = {} /\ Gone = Client /\ Begun = {}
      BY TopicsType DEF Init, Listeners, Gone, Begun
  <2> QED BY <2>2, <2>3 DEF Init, Boxes!Init, Listeners, Gone, Begun, Box
<1>2. TypeOK /\ RegisteredInv /\ PumpInv /\ HandsInv /\ [Next]_vars
      => [Boxes!Next]_Boxes!boxVars
  <2> SUFFICES ASSUME TypeOK, RegisteredInv, PumpInv, HandsInv, [Next]_vars
               PROVE  [Boxes!Next]_Boxes!boxVars
      OBVIOUS
  <2>1. ASSUME NEW c \in Client,
               Connect(c) \/ Register(c) \/ Vanish(c) \/ Unregister(c) \/ Write(c) \/ WriteFails(c)
        PROVE  Boxes!Next
    <3>1. \/ Boxes!Come(c) \/ Boxes!Listen(c) \/ Boxes!Go(c) \/ Boxes!Leave(c)
          \/ Boxes!Deliver(c) \/ Boxes!Lose(c)
        BY <2>1, ComeSeen, ListenSeen, GoSeen, LeaveSeen, WriteSeen
    <3> QED BY <3>1 DEF Boxes!Next
  <2>2. ASSUME NEW m \in Message, CastBegin(m) \/ \E c \in Client : Send(m, c)
        PROVE  Boxes!Next
    <3>1. Boxes!Begin(m) \/ \E c \in Client : Boxes!Put(m, c) \/ Boxes!PassOver(m, c)
        BY <2>2, BeginSeen, SendSeen
    <3> QED BY <3>1 DEF Boxes!Next
  <2>3. CASE \/ \E c \in Client : Receive(c) \/ ReadFails(c) \/ CloseSend(c) \/ HangUp(c)
             \/ \E m \in Message : CastEnd(m)
             \/ UNCHANGED vars
    <3>1. UNCHANGED <<Listeners, Gone, Begun, todo, Box, wrote>>
        BY <2>3, Unseen
    <3> QED BY <3>1, BoxState DEF Boxes!boxVars, Listeners, Gone, Begun, Box
  <2> QED BY <2>1, <2>2, <2>3 DEF Next, Handle, Pump, Cast
<1> QED BY <1>1, <1>2, TypeCorrect, LockHolds, PumpsHold, HandsHold, PTL
        DEF Spec, MailboxImplemented, Boxes!Spec

===============================================================================
