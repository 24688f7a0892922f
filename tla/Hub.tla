---------------------------------- MODULE Hub ----------------------------------
(***************************************************************************)
(* The realtime hub: connections that register for a topic, requests that  *)
(* broadcast to it, and for each connection two goroutines, the handler     *)
(* that reads (serveWS, ReadLoop) and the pump that writes (writePump).     *)
(*                                                                         *)
(* Each step is one operation that other goroutines can see: a critical     *)
(* section under the write lock, one send of a broadcast under the read     *)
(* lock, one receive from a buffer, one write to a connection.              *)
(***************************************************************************)
EXTENDS Naturals, Sequences

CONSTANTS
    Topic,
    Client,     \* connections open at one time: a bound
    Message,    \* broadcasts, each of which is made once: a bound
    TopicOf,    \* the topic each connection asks for and each message is for
    Buffer      \* capacity of a connection's channel (16 in the code)

ASSUME HubConstants ==
    /\ TopicOf \in [Client \cup Message -> Topic]
    /\ Client \cap Message = {}
    /\ Buffer \in Nat \ {0}

VARIABLES
    clients,   \* Hub.clients: who is registered for each topic
    handler,   \* where the handler of each connection is
    pump,      \* where its pump is
    writing,   \* the message the pump is writing, if any
    send,      \* what is in its channel
    closed,    \* whether its channel is closed
    alive,     \* whether the peer is still there
    cast,      \* where each broadcast is
    todo,      \* the connections the broadcast has still to try
    wrote,     \* history: the messages the pump has written, in order
    missed,    \* history: the messages dropped because the buffer was full
    audience,  \* history: who was registered when the broadcast began
    after      \* history: the broadcasts that were over when each one began

vars == <<clients, handler, pump, writing, send, closed, alive, cast, todo,
          wrote, missed, audience, after>>

begun == <<audience, after>>
conns == <<handler, pump, writing, send, closed, alive, wrote>>
casts == <<cast, todo, missed, begun>>

\* A handler at "lock" has called Lock in Register, at "unlock" in Unregister; at
\* "close" it is between the end of that critical section and close(send).
HandlerStage == {"none", "lock", "reading", "unlock", "close", "hangup", "done"}
PumpStage    == {"none", "receive", "write", "done"}

TypeOK ==
    /\ clients \in [Topic -> SUBSET Client]
    /\ handler \in [Client -> HandlerStage]
    /\ pump \in [Client -> PumpStage]
    /\ writing \in [Client -> Seq(Message)]
    /\ send \in [Client -> Seq(Message)]
    /\ \A c \in Client : Len(writing[c]) <= 1 /\ Len(send[c]) <= Buffer
    /\ closed \in [Client -> BOOLEAN]
    /\ alive \in [Client -> BOOLEAN]
    /\ cast \in [Message -> {"none", "sending", "done"}]
    /\ todo \in [Message -> SUBSET Client]
    /\ wrote \in [Client -> Seq(Message)]
    /\ missed \in [Client -> SUBSET Message]
    /\ audience \in [Message -> SUBSET Client]
    /\ after \in [Message -> SUBSET Message]

-----------------------------------------------------------------------------
(* sync.RWMutex: readers share it, a writer has it alone, and while readers *)
(* keep a writer waiting no new reader gets in.                            *)

NoReader == \A m \in Message : cast[m] # "sending"
NoWriterWaits == \A c \in Client : handler[c] \notin {"lock", "unlock"}

-----------------------------------------------------------------------------
(* serveWS: the handler of one connection *)

\* The upgrade succeeds and Register, with a new channel, asks for the lock. An id
\* is used again when both goroutines of its last connection have ended.
Connect(c) ==
    /\ handler[c] \in {"none", "done"} /\ pump[c] \in {"none", "done"}
    /\ handler' = [handler EXCEPT ![c] = "lock"]
    /\ pump' = [pump EXCEPT ![c] = "none"]
    /\ alive' = [alive EXCEPT ![c] = TRUE]
    /\ closed' = [closed EXCEPT ![c] = FALSE]
    /\ send' = [send EXCEPT ![c] = <<>>]
    /\ wrote' = [wrote EXCEPT ![c] = <<>>]
    /\ missed' = [missed EXCEPT ![c] = {}]
    /\ audience' = [m \in Message |-> audience[m] \ {c}]
    /\ UNCHANGED <<clients, writing, cast, todo, after>>

\* The critical section of Register, and its go statement.
Register(c) ==
    /\ handler[c] = "lock"
    /\ NoReader
    /\ clients' = [clients EXCEPT ![TopicOf[c]] = @ \cup {c}]
    /\ handler' = [handler EXCEPT ![c] = "reading"]
    /\ pump' = [pump EXCEPT ![c] = "receive"]
    /\ UNCHANGED <<writing, send, closed, alive, wrote, casts>>

\* The peer leaves or the network fails.
Vanish(c) ==
    /\ alive[c]
    /\ alive' = [alive EXCEPT ![c] = FALSE]
    /\ UNCHANGED <<clients, handler, pump, writing, send, closed, wrote, casts>>

\* Variant with a bug: the channel is closed before the connection is removed.
ReadFailsCloses(c) ==
    /\ handler[c] = "reading"
    /\ ~ alive[c]
    /\ handler' = [handler EXCEPT ![c] = "unlock"]
    /\ closed' = [closed EXCEPT ![c] = TRUE]
    /\ UNCHANGED <<clients, pump, writing, send, alive, wrote, casts>>

\* Variant with a bug: an error of ReadMessage does not end the loop.
ReadFailsOnAndOn(c) ==
    /\ handler[c] = "reading"
    /\ ~ alive[c]
    /\ UNCHANGED vars

\* ReadMessage fails and the deferred Unregister asks for the lock.
ReadFails(c) ==
    /\ handler[c] = "reading"
    /\ ~ alive[c]
    /\ handler' = [handler EXCEPT ![c] = "unlock"]
    /\ UNCHANGED <<clients, pump, writing, send, closed, alive, wrote, casts>>

\* Variant with a bug: Unregister does not wait for the broadcasts.
UnregisterUnlocked(c) ==
    /\ handler[c] = "unlock"
    /\ clients' = [clients EXCEPT ![TopicOf[c]] = @ \ {c}]
    /\ handler' = [handler EXCEPT ![c] = "close"]
    /\ UNCHANGED <<pump, writing, send, closed, alive, wrote, casts>>

\* The critical section of Unregister.
Unregister(c) ==
    /\ handler[c] = "unlock"
    /\ NoReader
    /\ clients' = [clients EXCEPT ![TopicOf[c]] = @ \ {c}]
    /\ handler' = [handler EXCEPT ![c] = "close"]
    /\ UNCHANGED <<pump, writing, send, closed, alive, wrote, casts>>

CloseSend(c) ==
    /\ handler[c] = "close"
    /\ closed' = [closed EXCEPT ![c] = TRUE]
    /\ handler' = [handler EXCEPT ![c] = "hangup"]
    /\ UNCHANGED <<clients, pump, writing, send, alive, wrote, casts>>

\* conn.Close, after which a write cannot but fail.
HangUp(c) ==
    /\ handler[c] = "hangup"
    /\ handler' = [handler EXCEPT ![c] = "done"]
    /\ UNCHANGED <<clients, pump, writing, send, closed, alive, wrote, casts>>

-----------------------------------------------------------------------------
(* writePump *)

\* range c.send: the next message, or the end of a channel closed and empty.
Receive(c) ==
    /\ pump[c] = "receive"
    /\ \/ /\ send[c] # <<>>
          /\ writing' = [writing EXCEPT ![c] = <<Head(send[c])>>]
          /\ send' = [send EXCEPT ![c] = Tail(@)]
          /\ pump' = [pump EXCEPT ![c] = "write"]
       \/ /\ send[c] = <<>> /\ closed[c]
          /\ pump' = [pump EXCEPT ![c] = "done"]
          /\ UNCHANGED <<writing, send>>
    /\ UNCHANGED <<clients, handler, closed, alive, wrote, casts>>

\* Variant with a bug: what was written is kept for another try.
WriteKept(c) ==
    /\ pump[c] = "write"
    /\ handler[c] # "done"
    /\ wrote' = [wrote EXCEPT ![c] = @ \o writing[c]]
    /\ pump' = [pump EXCEPT ![c] = "receive"]
    /\ UNCHANGED <<clients, handler, writing, send, closed, alive, casts>>

\* WriteMessage returns without an error: as far as the kernel knows.
Write(c) ==
    /\ pump[c] = "write"
    /\ handler[c] # "done"
    /\ wrote' = [wrote EXCEPT ![c] = @ \o writing[c]]
    /\ writing' = [writing EXCEPT ![c] = <<>>]
    /\ pump' = [pump EXCEPT ![c] = "receive"]
    /\ UNCHANGED <<clients, handler, send, closed, alive, casts>>

\* It fails and the pump ends, while the handler reads on until its own error;
\* what is in the channel is never written.
WriteFails(c) ==
    /\ pump[c] = "write"
    /\ ~ alive[c]
    /\ writing' = [writing EXCEPT ![c] = <<>>]
    /\ pump' = [pump EXCEPT ![c] = "done"]
    /\ UNCHANGED <<clients, handler, send, closed, alive, wrote, casts>>

-----------------------------------------------------------------------------
(* Broadcast *)

\* RLock. No registration can change the topic's connections before RUnlock.
CastBegin(m) ==
    /\ cast[m] = "none"
    /\ NoReader \/ NoWriterWaits
    /\ cast' = [cast EXCEPT ![m] = "sending"]
    /\ todo' = [todo EXCEPT ![m] = clients[TopicOf[m]]]
    /\ audience' = [audience EXCEPT ![m] = clients[TopicOf[m]]]
    /\ after' = [after EXCEPT ![m] = {n \in Message : cast[n] = "done"}]
    /\ UNCHANGED <<clients, conns, missed>>

\* Variant with a bug: a full buffer ends the broadcast (return in the default).
SendOrLeave(m, c) ==
    /\ cast[m] = "sending" /\ c \in todo[m]
    /\ IF Len(send[c]) < Buffer
       THEN /\ send' = [send EXCEPT ![c] = Append(@, m)]
            /\ todo' = [todo EXCEPT ![m] = @ \ {c}]
            /\ UNCHANGED missed
       ELSE /\ missed' = [missed EXCEPT ![c] = @ \cup {m}]
            /\ todo' = [todo EXCEPT ![m] = {}]
            /\ UNCHANGED send
    /\ UNCHANGED <<clients, handler, pump, writing, closed, alive, cast, wrote, begun>>

\* One turn of the loop, over the connections in any order: the send does not
\* wait, a message a full buffer has no room for is dropped.
Send(m, c) ==
    /\ cast[m] = "sending"
    /\ c \in todo[m]
    /\ todo' = [todo EXCEPT ![m] = @ \ {c}]
    /\ IF Len(send[c]) < Buffer
       THEN send' = [send EXCEPT ![c] = Append(@, m)] /\ UNCHANGED missed
       ELSE missed' = [missed EXCEPT ![c] = @ \cup {m}] /\ UNCHANGED send
    /\ UNCHANGED <<clients, handler, pump, writing, closed, alive, cast, wrote, begun>>

\* RUnlock
CastEnd(m) ==
    /\ cast[m] = "sending"
    /\ todo[m] = {}
    /\ cast' = [cast EXCEPT ![m] = "done"]
    /\ UNCHANGED <<clients, conns, todo, missed, begun>>

-----------------------------------------------------------------------------
Init ==
    /\ clients = [t \in Topic |-> {}]
    /\ handler = [c \in Client |-> "none"]
    /\ pump = [c \in Client |-> "none"]
    /\ writing = [c \in Client |-> <<>>]
    /\ send = [c \in Client |-> <<>>]
    /\ closed = [c \in Client |-> FALSE]
    /\ alive = [c \in Client |-> FALSE]
    /\ cast = [m \in Message |-> "none"]
    /\ todo = [m \in Message |-> {}]
    /\ wrote = [c \in Client |-> <<>>]
    /\ missed = [c \in Client |-> {}]
    /\ audience = [m \in Message |-> {}]
    /\ after = [m \in Message |-> {}]

Handle(c) == Register(c) \/ ReadFails(c) \/ Unregister(c) \/ CloseSend(c) \/ HangUp(c)

Pump(c) == Receive(c) \/ Write(c) \/ WriteFails(c)

Cast(m) == (\E c \in Client : Send(m, c)) \/ CastEnd(m)

Next ==
    \/ \E c \in Client : Connect(c) \/ Vanish(c) \/ Handle(c) \/ Pump(c)
    \/ \E m \in Message : CastBegin(m) \/ Cast(m)

Spec == Init /\ [][Next]_vars

\* Goroutines are scheduled. A write to a peer that does not read may wait for
\* ever, but not one on a connection that is closed; a read from a peer that is
\* gone fails (TCP keep-alive, which net/http turns on).
FairSpec ==
    /\ Spec
    /\ \A c \in Client :
           /\ WF_vars(Handle(c))
           /\ WF_vars(Receive(c))
           /\ WF_vars(WriteFails(c) /\ handler[c] = "done")
    /\ \A m \in Message : WF_vars(Cast(m))

-----------------------------------------------------------------------------
(* Properties *)

\* A broadcast never sends on a closed channel, which would panic and end the
\* process: what it has still to try was not unregistered since it began.
NoSendOnClosed == \A m \in Message : \A c \in todo[m] : ~ closed[c]

Stream(c) == wrote[c] \o writing[c] \o send[c]

\* Everything a connection gets, it gets once, and in an order that respects time:
\* a broadcast that was over before another one began comes first.
StreamInOrder ==
    \A c \in Client : \A i, j \in 1..Len(Stream(c)) :
        /\ Stream(c)[i] = Stream(c)[j] => i = j
        /\ Stream(c)[i] \in after[Stream(c)[j]] => i < j

\* A connection that does not keep up costs only itself: of those registered when
\* a broadcast began, one misses the message only if its own buffer was full or
\* its own peer failed.
OnlyFullMiss ==
    \A m \in Message : \A c \in audience[m] :
        \/ cast[m] # "done"
        \/ \E i \in 1..Len(Stream(c)) : Stream(c)[i] = m
        \/ m \in missed[c] /\ Len(Stream(c)) >= Buffer
        \/ ~ alive[c]

\* When the peer is gone, both goroutines of its connection end, whatever other
\* connections do: nothing waits for a peer that does not read.
ConnectionsEnd ==
    \A c \in Client :
        (handler[c] # "none" /\ ~ alive[c]) ~> (handler[c] = "done" /\ pump[c] = "done")

\* What a connection is promised (Mailbox): the locks, the channels and the goroutines
\* of the hub do for it what single steps would. Its box is what its pump holds and
\* what its channel holds.
Boxes == INSTANCE Mailbox
           WITH listening <- {c \in Client : c \in clients[TopicOf[c]]},
                gone <- {c \in Client : ~ alive[c]},
                begun <- {m \in Message : cast[m] # "none"},
                owed <- todo,
                box <- [c \in Client |-> writing[c] \o send[c]],
                got <- wrote

MailboxImplemented == Boxes!Spec

================================================================================
