----------------------------- MODULE KitchenStatus -----------------------------
(***************************************************************************)
(* The statuses of orders and of their items: UpdateOrderStatus, which     *)
(* looks at the items before it cancels an order, UpdateOrderItemStatus,    *)
(* which does not look at the order, and the messages both broadcast after  *)
(* their UPDATE.  No transaction spans two statements of a request.        *)
(***************************************************************************)
CONSTANTS
    Order,     \* ids of orders
    Item,      \* ids of their lines (order_items)
    OrderOf,   \* the order of each line
    OrderStatus, ItemStatus,
               \* the values of validStatuses the instance sets orders and lines to
    Call,      \* requests in progress at one time: a bound
    None

ASSUME KitchenConstants ==
    /\ OrderOf \in [Item -> Order]
    /\ {"sent", "cancelled"} \subseteq OrderStatus
    /\ {"sent", "served"} \subseteq ItemStatus
    /\ Order \cap Item = {}
    /\ None \notin Order \cup Item

VARIABLES
    status,    \* orders.status and order_items.status
    watched,   \* the order or line whose messages a screen follows: any, for good
    screen,    \* what the last message about it told the screen, which misses none
    calls,     \* the requests in progress
    muddled,   \* history: it last changed while an earlier change was still to be
               \* told, or changed without being told
    stayed     \* history: for a request to cancel an order, its lines that are served
               \* ever since the request began

vars == <<status, watched, screen, calls, muddled, stayed>>

Patched == Order \cup Item

Status == OrderStatus \cup ItemStatus

ValidFor(x) == IF x \in Order THEN OrderStatus ELSE ItemStatus

\* "target" is the order or the line whose status the request sets to "to".
Idle == [at |-> "idle", target |-> None, to |-> "sent"]
CallState == [at: {"look", "update", "tell"}, target: Patched, to: Status] \cup {Idle}

TypeOK ==
    /\ status \in [Patched -> Status]
    /\ watched \in Patched
    /\ screen \in Status
    /\ calls \in [Call -> CallState]
    /\ muddled \in BOOLEAN
    /\ stayed \in [Call -> SUBSET Item]

-----------------------------------------------------------------------------
ItemsOf(o) == {i \in Item : OrderOf[i] = o}

Served == {i \in Item : status[i] = "served"}

\* The requests that have changed what the screen follows and are still to tell it.
Telling == {c \in Call : calls[c].at = "tell" /\ calls[c].target = watched}

Goto(c, stage) == calls' = [calls EXCEPT ![c].at = stage]

Finish(c) ==
    /\ calls' = [calls EXCEPT ![c] = Idle]
    /\ stayed' = [stayed EXCEPT ![c] = {}]

\* PATCH /orders/{id}/status or /order-items/{id}/status with a valid status; one
\* that is not in validStatuses is refused and changes nothing. Only a request to
\* cancel an order looks at anything first.
Patch(c, x, to) ==
    /\ calls[c] = Idle
    /\ IF x \in Order /\ to = "cancelled"
       THEN /\ calls' = [calls EXCEPT ![c] = [at |-> "look", target |-> x, to |-> to]]
            /\ stayed' = [stayed EXCEPT ![c] = Served \cap ItemsOf(x)]
       ELSE /\ calls' = [calls EXCEPT ![c] = [at |-> "update", target |-> x, to |-> to]]
            /\ UNCHANGED stayed
    /\ UNCHANGED <<status, watched, screen, muddled>>

\* Variant with a bug: one line that is not served is enough to go on.
LookAtAny(c) ==
    /\ calls[c].at = "look"
    /\ IF \A i \in ItemsOf(calls[c].target) : status[i] = "served"
       THEN Finish(c)
       ELSE Goto(c, "update") /\ UNCHANGED stayed
    /\ UNCHANGED <<status, watched, screen, muddled>>

\* GetByID reads the lines of the order in one statement.
Look(c) ==
    /\ calls[c].at = "look"
    /\ IF \E i \in ItemsOf(calls[c].target) : status[i] = "served"
       THEN Finish(c)                        \* ORDER_HAS_SERVED_ITEMS
       ELSE Goto(c, "update") /\ UNCHANGED stayed
    /\ UNCHANGED <<status, watched, screen, muddled>>

\* UpdateStatus, UpdateItemStatus: whatever the statuses are by now.
Update(c) ==
    LET x == calls[c].target IN
    /\ calls[c].at = "update"
    /\ status' = [status EXCEPT ![x] = calls[c].to]
    /\ Goto(c, "tell")
    /\ muddled' = IF x = watched THEN Telling # {} ELSE muddled
    /\ stayed' = IF calls[c].to = "served" THEN stayed
                 ELSE [d \in Call |-> stayed[d] \ {x}]
    /\ UNCHANGED <<watched, screen>>

\* Variant with a bug: the message goes to a topic nobody listens to.
TellNobody(c) ==
    /\ calls[c].at = "tell"
    /\ Finish(c)
    /\ UNCHANGED <<status, watched, screen, muddled>>

\* broadcastToSessionAndBranch, after the queries that lead to the topic. The
\* message has the status the request wrote.
Tell(c) ==
    /\ calls[c].at = "tell"
    /\ screen' = IF calls[c].target = watched THEN calls[c].to ELSE screen
    /\ Finish(c)
    /\ UNCHANGED <<status, watched, muddled>>

\* A statement fails, the client goes away or the process dies. When a query before
\* the broadcast fails, the message is dropped and the request succeeds.
Abort(c) ==
    /\ calls[c] # Idle
    /\ Finish(c)
    /\ muddled' = (muddled \/ c \in Telling)
    /\ UNCHANGED <<status, watched, screen>>

\* Orders come from OrderPlacement as 'sent', their lines too.
Init ==
    /\ status = [x \in Patched |-> "sent"]
    /\ watched \in Patched
    /\ screen = status[watched]
    /\ calls = [c \in Call |-> Idle]
    /\ muddled = FALSE
    /\ stayed = [c \in Call |-> {}]

Next ==
    \E c \in Call :
        \/ \E x \in Patched : \E to \in ValidFor(x) : Patch(c, x, to)
        \/ Look(c)
        \/ Update(c)
        \/ Tell(c)
        \/ Abort(c)

Spec == Init /\ [][Next]_vars

-----------------------------------------------------------------------------
(* Properties *)

\* A line that was served before a cancellation began, and is served still, keeps
\* its order from being cancelled by it, whatever happens to the other lines.
CancelHeedsServed ==
    [][\A o \in Order, c \in Call :
           calls[c].at = "update" /\ calls[c]'.at = "tell"
               /\ calls[c].target = o /\ calls[c].to = "cancelled"
           => stayed[c] = {}]_vars

\* A listener who gets every message ends up with the status in the database,
\* unless two changes of it were written before the first was told, or the
\* message of the last one was lost.
ScreenAgrees ==
    screen = status[watched] \/ Telling # {} \/ muddled

================================================================================
