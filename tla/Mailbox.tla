-------------------------------- MODULE Mailbox --------------------------------
(***************************************************************************)
(* What the hub promises a connection, without goroutines, locks and        *)
(* channels: each has a box.  A broadcast owes its message to those who     *)
(* listen to its topic when it begins, puts it in their boxes one by one,   *)
(* and passes over a box only if that is full; nobody leaves who is owed    *)
(* something.  What is in a box is delivered in order, and lost only to     *)
(* those whose peer is gone.  Hub is shown to implement this.               *)
(***************************************************************************)
EXTENDS Naturals, Sequences

CONSTANTS Topic, Client, Message, TopicOf, Buffer

VARIABLES
    listening,  \* who listens to the topic it has asked for
    gone,       \* those whose peer has gone, or has not come yet
    begun,      \* the broadcasts that have begun
    owed,       \* whom each still owes its message
    box,        \* what is to be delivered to each, in order
    got         \* what was delivered to each, in order

boxVars == <<listening, gone, begun, owed, box, got>>

Init ==
    /\ listening = {}
    /\ gone = Client
    /\ begun = {}
    /\ owed = [m \in Message |-> {}]
    /\ box = [c \in Client |-> <<>>]
    /\ got = [c \in Client |-> <<>>]

\* A new connection begins with an empty box.
Come(c) ==
    /\ c \notin listening
    /\ gone' = gone \ {c}
    /\ box' = [box EXCEPT ![c] = <<>>]
    /\ got' = [got EXCEPT ![c] = <<>>]
    /\ UNCHANGED <<listening, begun, owed>>

Listen(c) ==
    /\ listening' = listening \cup {c}
    /\ UNCHANGED <<gone, begun, owed, box, got>>

Go(c) ==
    /\ gone' = gone \cup {c}
    /\ UNCHANGED <<listening, begun, owed, box, got>>

Leave(c) ==
    /\ c \in gone
    /\ \A m \in Message : c \notin owed[m]
    /\ listening' = listening \ {c}
    /\ UNCHANGED <<gone, begun, owed, box, got>>

Begin(m) ==
    /\ m \notin begun
    /\ begun' = begun \cup {m}
    /\ owed' = [owed EXCEPT ![m] = {c \in listening : TopicOf[c] = TopicOf[m]}]
    /\ UNCHANGED <<listening, gone, box, got>>

\* One message may be on its way out of a box, beside the Buffer that wait.
Put(m, c) ==
    /\ c \in owed[m]
    /\ Len(box[c]) <= Buffer
    /\ owed' = [owed EXCEPT ![m] = @ \ {c}]
    /\ box' = [box EXCEPT ![c] = Append(@, m)]
    /\ UNCHANGED <<listening, gone, begun, got>>

PassOver(m, c) ==
    /\ c \in owed[m]
    /\ Len(box[c]) >= Buffer
    /\ owed' = [owed EXCEPT ![m] = @ \ {c}]
    /\ UNCHANGED <<listening, gone, begun, box, got>>

Deliver(c) ==
    /\ box[c] # <<>>
    /\ got' = [got EXCEPT ![c] = Append(@, Head(box[c]))]
    /\ box' = [box EXCEPT ![c] = Tail(@)]
    /\ UNCHANGED <<listening, gone, begun, owed>>

Lose(c) ==
    /\ c \in gone
    /\ box[c] # <<>>
    /\ box' = [box EXCEPT ![c] = Tail(@)]
    /\ UNCHANGED <<listening, gone, begun, owed, got>>

Next ==
    \/ \E c \in Client : Come(c) \/ Listen(c) \/ Go(c) \/ Leave(c) \/ Deliver(c) \/ Lose(c)
    \/ \E m \in Message : Begin(m) \/ \E c \in Client : Put(m, c) \/ PassOver(m, c)

Spec == Init /\ [][Next]_boxVars

================================================================================
