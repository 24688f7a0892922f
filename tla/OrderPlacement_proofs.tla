------------------------ MODULE OrderPlacement_proofs ------------------------
(***************************************************************************)
(* Proofs about OrderPlacement, for any number of sessions, calls, request *)
(* ids, items and carts: types, SeqIsPosition, OneOrderPerRequest,         *)
(* RetriesAgree and OrdersShowWhole.  The last section says in which status *)
(* a session is whose row a transaction holds; DiningRoom needs it.        *)
(***************************************************************************)
EXTENDS OrderPlacement, SequenceTheorems, TLAPS

\* Where a call is in its cart.
CartAt(call) ==
    /\ call.at \in {"check_line", "insert_item"} => call.done < Len(call.cart)
    /\ call.at \in {"check_session", "lock_session", "count", "insert_order"}
           => call.done = 0 /\ 0 < Len(call.cart)
    /\ call.at = "lookup" => call.done = 0
    /\ call.at = "commit" => call.done = Len(call.cart)

CartInv == \A c \in Call : CartAt(calls[c])

TypeInv == TypeOK /\ CartInv

InTransaction == {"count", "insert_order", "insert_item", "commit"}
Numbered      == {"insert_order", "insert_item", "commit"}

\* A transaction past its SELECT ... FOR UPDATE has the session's row lock.
LockInv ==
    \A c \in Call : calls[c].at \in InTransaction => lock[calls[c].session] = c

\* The number a transaction has counted is still that of the next order.
NumberInv ==
    \A c \in Call : calls[c].at \in Numbered =>
        calls[c].seq = Len(orders[calls[c].session]) + 1

SeqInv == TypeInv /\ LockInv /\ NumberInv /\ SeqIsPosition

\* An id in the unique index, committed or not, is there once.
IndexInv ==
    \A r \in ReqId :
        /\ \A c, d \in Inserting(r) : c = d
        /\ Inserting(r) # {} => ~ Committed(r)

RequestInv == TypeInv /\ IndexInv /\ OneOrderPerRequest

-----------------------------------------------------------------------------
(* What the types say of a call, and what a step leaves alone. *)

LEMMA CallFields ==
    ASSUME TypeOK, NEW c \in Call
    PROVE  /\ calls[c] # Idle =>
                  /\ calls[c].session \in Session
                  /\ calls[c].req \in ReqId \cup {NoReq}
                  /\ calls[c].cart \in Cart
                  /\ calls[c].cart \in Seq(Line)
                  /\ Len(calls[c].cart) \in Nat
                  /\ calls[c].at \in Stage
           /\ calls[c].done \in Nat /\ calls[c].seq \in Nat
           /\ calls[c].at \in Stage => calls[c] # Idle
  <1>1. calls[c] \in CallState
    BY DEF TypeOK
  <1>2. CASE calls[c] = Idle
    BY <1>2 DEF Idle, Stage
  <1>3. CASE calls[c] # Idle
    <2>1. calls[c] \in [at: Stage, session: Session, req: ReqId \cup {NoReq}, cart: Cart,
                        done: Nat, seq: Nat]
      BY <1>1, <1>3 DEF CallState
    <2>2. calls[c].cart \in Seq(Line)
      BY <2>1, OrderConstants
    <2>. QED BY <1>3, <2>1, <2>2, LenProperties
  <1>. QED BY <1>2, <1>3

LEMMA LineFields ==
    ASSUME TypeOK, NEW c \in Call, calls[c] # Idle, NEW k \in 1..Len(calls[c].cart)
    PROVE  calls[c].cart[k].item \in Item
  <1>1. calls[c].cart \in Seq(Line)
    BY CallFields
  <1>2. calls[c].cart[k] \in Line
    BY <1>1, ElementOfSeq
  <1>. QED BY <1>2 DEF Line

LEMMA FinishType ==
    ASSUME TypeInv, NEW c \in Call, Finish(c)
    PROVE  /\ calls' \in [Call -> CallState]
           /\ lock' \in [Session -> Call \cup {NoCall}]
           /\ calls'[c] = Idle
           /\ \A d \in Call \ {c} : calls'[d] = calls[d]
           /\ CartInv'
  <1>1. /\ calls' \in [Call -> CallState]
        /\ lock' \in [Session -> Call \cup {NoCall}]
    BY DEF Finish, TypeInv, TypeOK, CallState
  <1>2. calls'[c] = Idle /\ \A d \in Call \ {c} : calls'[d] = calls[d]
    BY DEF Finish, TypeInv, TypeOK
  <1>3. calls'[c].at = "idle"
    BY <1>2 DEF Idle
  <1>4. CartInv'
    BY <1>2, <1>3 DEF CartInv, CartAt, TypeInv
  <1>. QED BY <1>1, <1>2, <1>4

LEMMA GotoType ==
    ASSUME TypeInv, NEW c \in Call, calls[c] # Idle, NEW stage \in Stage, Goto(c, stage)
    PROVE  /\ calls' \in [Call -> CallState]
           /\ calls'[c].at = stage
           /\ calls'[c].session = calls[c].session
           /\ calls'[c].req = calls[c].req
           /\ calls'[c].cart = calls[c].cart
           /\ calls'[c].done = calls[c].done
           /\ calls'[c].seq = calls[c].seq
           /\ \A d \in Call \ {c} : calls'[d] = calls[d]
  <1>1. calls[c] \in [at: Stage, session: Session, req: ReqId \cup {NoReq}, cart: Cart,
                      done: Nat, seq: Nat]
    BY DEF TypeInv, TypeOK, CallState
  <1>2. calls' = [calls EXCEPT ![c] = [calls[c] EXCEPT !.at = stage]]
    BY DEF Goto, TypeInv, TypeOK
  <1>3. [calls[c] EXCEPT !.at = stage]
            = [at |-> stage, session |-> calls[c].session, req |-> calls[c].req,
               cart |-> calls[c].cart, done |-> calls[c].done, seq |-> calls[c].seq]
    BY <1>1
  <1>4. calls' \in [Call -> CallState]
    BY <1>1, <1>2, <1>3 DEF TypeInv, TypeOK, CallState
  <1>5. calls'[c] = [at |-> stage, session |-> calls[c].session, req |-> calls[c].req,
                     cart |-> calls[c].cart, done |-> calls[c].done, seq |-> calls[c].seq]
    BY <1>2, <1>3 DEF TypeInv, TypeOK
  <1>6. \A d \in Call \ {c} : calls'[d] = calls[d]
    BY <1>2 DEF TypeInv, TypeOK
  <1>. QED BY <1>4, <1>5, <1>6

\* A call that moves on without moving in its cart.
LEMMA GotoCart ==
    ASSUME TypeInv, NEW c \in Call, calls[c] # Idle, NEW stage \in Stage, Goto(c, stage),
           stage \in {"check_line", "insert_item"} => calls[c].done < Len(calls[c].cart),
           stage \in {"check_session", "lock_session", "count", "insert_order"}
               => calls[c].done = 0 /\ 0 < Len(calls[c].cart),
           stage \notin {"lookup", "commit"}
    PROVE  CartInv'
  <1>1. /\ calls'[c].at = stage /\ calls'[c].done = calls[c].done
        /\ calls'[c].cart = calls[c].cart
        /\ \A d \in Call \ {c} : calls'[d] = calls[d]
    BY GotoType
  <1>2. CartAt(calls'[c])
    BY <1>1 DEF CartAt
  <1>3. \A d \in Call \ {c} : CartAt(calls'[d])
    BY <1>1 DEF CartInv, TypeInv
  <1>. QED BY <1>2, <1>3 DEF CartInv

LEMMA OrderFields ==
    ASSUME TypeOK, NEW s \in Session, NEW i \in 1..Len(orders[s])
    PROVE  orders[s][i] \in OrderRow
BY ElementOfSeq DEF TypeOK
-----------------------------------------------------------------------------
(* Types. *)

LEMMA TypeInit == Init => TypeInv
  <1> SUFFICES ASSUME Init PROVE TypeInv
    OBVIOUS
  <1>1. TypeOK
    BY EmptySeq DEF Init, TypeOK, SessionStatus, MenuState, CallState
  <1>2. CartInv
    BY DEF Init, CartInv, CartAt, Idle
  <1>. QED BY <1>1, <1>2 DEF TypeInv

\* The lines of an order about to be committed.
LEMMA LinesType ==
    ASSUME TypeInv, NEW c \in Call, calls[c].at = "commit"
    PROVE  [k \in 1..calls[c].done |-> calls[c].cart[k].item] \in Seq(Item)
  <1>1. calls[c] # Idle /\ calls[c].done = Len(calls[c].cart) /\ calls[c].done \in Nat
    BY CallFields DEF TypeInv, CartInv, CartAt, Stage
  <1>2. \A k \in 1..calls[c].done : calls[c].cart[k].item \in Item
    BY <1>1, LineFields DEF TypeInv
  <1>. QED BY <1>1, <1>2

LEMMA TypeStep == TypeInv /\ [Next]_vars => TypeInv'
  <1> SUFFICES ASSUME TypeInv, [Next]_vars PROVE TypeInv'
    OBVIOUS
  <1>1. TypeOK /\ CartInv
    BY DEF TypeInv
  <1>2. ASSUME NEW c \in Call, NEW s \in Session, NEW r \in ReqId \cup {NoReq},
               NEW cart \in Cart, Receive(c, s, r, cart)
        PROVE  TypeInv'
    <2> DEFINE new == [at |-> IF r = NoReq THEN "check_session" ELSE "lookup",
                       session |-> s, req |-> r, cart |-> cart, done |-> 0, seq |-> 0]
    <2>1. new \in CallState
      BY DEF CallState, Stage
    <2>2. calls'[c] = new /\ \A d \in Call \ {c} : calls'[d] = calls[d]
      BY <1>1, <1>2 DEF Receive, TypeOK
    <2>3. TypeOK'
      BY <1>1, <1>2, <2>1 DEF Receive, TypeOK
    <2>4. r = NoReq => 0 < Len(cart)
      <3>1. cart \in Seq(Line)
        BY OrderConstants
      <3>. QED BY <1>2, <3>1 DEF Receive
    <2>5. CartInv'
      BY <1>1, <2>2, <2>4 DEF CartInv, CartAt
    <2>. QED BY <2>3, <2>5 DEF TypeInv
  <1>3. ASSUME NEW c \in Call, NEW s \in Session, NEW i \in 1..Len(orders[s]),
               LookupHit(c, s, i)
        PROVE  TypeInv'
    <2>1. /\ orders[s][i].seq \in Nat /\ calls[c] # Idle
          /\ calls[c] \in [at: Stage, session: Session, req: ReqId \cup {NoReq}, cart: Cart,
                           done: Nat, seq: Nat]
      BY <1>1, <1>3, OrderFields, CallFields
         DEF LookupHit, OrderRow, Stage, TypeOK, CallState
    <2> DEFINE new == [at |-> "read_back", session |-> s, req |-> calls[c].req,
                       cart |-> calls[c].cart, done |-> calls[c].done,
                       seq |-> orders[s][i].seq]
    <2>2. calls'[c] = new /\ \A d \in Call \ {c} : calls'[d] = calls[d]
      BY <1>1, <1>3, <2>1 DEF LookupHit, TypeOK
    <2>3. new \in CallState
      BY <2>1 DEF CallState, Stage
    <2>4. TypeOK'
      BY <1>1, <1>3, <2>2, <2>3 DEF LookupHit, TypeOK
    <2>5. CartAt(new)
      BY DEF CartAt
    <2>6. CartInv'
      <3> SUFFICES ASSUME NEW d \in Call PROVE CartAt(calls'[d])
        BY DEF CartInv, CartAt
      <3> HIDE DEF new
      <3>. QED BY <1>1, <2>2, <2>5 DEF CartInv
    <2>. QED BY <2>4, <2>6 DEF TypeInv
  <1>4. ASSUME NEW c \in Call, Finish(c),
               UNCHANGED <<sstatus, orders, menu>>,
               answered' \in [ReqId -> SUBSET OrderRef]
        PROVE  TypeInv'
    <2>1. TypeOK'
      BY <1>1, <1>4, FinishType DEF TypeOK
    <2>. QED BY <1>4, <2>1, FinishType DEF TypeInv
  <1>5. ASSUME NEW c \in Call, NEW stage \in Stage, calls[c] # Idle, Goto(c, stage),
               UNCHANGED <<sstatus, orders, menu, answered>>,
               lock' \in [Session -> Call \cup {NoCall}]
        PROVE  TypeOK'
    BY <1>1, <1>5, GotoType DEF TypeOK
  <1>6. ASSUME NEW c \in Call, LookupMiss(c)
        PROVE  TypeInv'
    <2>1. CASE calls[c].cart = <<>>
      BY <1>1, <1>4, <1>6, <2>1 DEF LookupMiss, TypeOK
    <2>2. CASE calls[c].cart # <<>>
      <3>1. calls[c] # Idle /\ calls[c].done = 0 /\ 0 < Len(calls[c].cart)
        <4>1. calls[c] # Idle /\ calls[c].done = 0
          BY <1>1, <1>6, CallFields DEF LookupMiss, Stage, CartInv, CartAt
        <4>2. calls[c].cart \in Seq(Line)
          BY <1>1, <4>1, CallFields
        <4>. QED BY <2>2, <4>1, <4>2
      <3>2. Goto(c, "check_session") /\ "check_session" \in Stage
        BY <1>6, <2>2 DEF LookupMiss, Stage
      <3>3. TypeOK'
        BY <1>1, <1>5, <1>6, <2>2, <3>1, <3>2 DEF LookupMiss, TypeOK
      <3>4. CartInv'
        BY <3>1, <3>2, GotoCart
      <3>. QED BY <3>3, <3>4 DEF TypeInv
    <2>. QED BY <2>1, <2>2
  <1>7. ASSUME NEW c \in Call, CheckSession(c)
        PROVE  TypeInv'
    <2>1. CASE sstatus[calls[c].session] = "active"
      <3>1. calls[c] # Idle /\ calls[c].done = 0 /\ 0 < Len(calls[c].cart)
        BY <1>1, <1>7, CallFields DEF CheckSession, Stage, CartInv, CartAt
      <3>2. Goto(c, "check_line") /\ "check_line" \in Stage
        BY <1>7, <2>1 DEF CheckSession, Stage
      <3>3. TypeOK'
        BY <1>1, <1>5, <1>7, <2>1, <3>1, <3>2 DEF CheckSession, TypeOK
      <3>4. CartInv'
        BY <3>1, <3>2, GotoCart
      <3>. QED BY <3>3, <3>4 DEF TypeInv
    <2>2. CASE sstatus[calls[c].session] # "active"
      BY <1>1, <1>4, <1>7, <2>2 DEF CheckSession, TypeOK
    <2>. QED BY <2>1, <2>2
  <1>8. ASSUME NEW c \in Call, CheckLine(c)
        PROVE  TypeInv'
    <2> DEFINE call == calls[c]
               line == call.cart[call.done + 1]
    <2>1. CASE ~ (line.valid /\ menu[line.item] = "available")
      BY <1>1, <1>4, <1>8, <2>1 DEF CheckLine, TypeOK
    <2>2. CASE line.valid /\ menu[line.item] = "available"
      <3>1. /\ call # Idle /\ call.done < Len(call.cart)
            /\ Len(call.cart) \in Nat /\ call.done \in Nat
            /\ call \in [at: Stage, session: Session, req: ReqId \cup {NoReq}, cart: Cart,
                         done: Nat, seq: Nat]
        BY <1>1, <1>8, CallFields DEF CheckLine, Stage, CartInv, CartAt, TypeOK, CallState
      <3>3. CASE call.done + 1 = Len(call.cart)
        <4> DEFINE new == [at |-> "lock_session", session |-> call.session, req |-> call.req,
                           cart |-> call.cart, done |-> 0, seq |-> call.seq]
        <4>0. calls' = [calls EXCEPT ![c].at = "lock_session", ![c].done = 0]
          BY <1>8, <2>2, <3>3 DEF CheckLine
        <4>1. calls'[c] = new /\ \A d \in Call \ {c} : calls'[d] = calls[d]
          BY <1>1, <3>1, <4>0 DEF TypeOK
        <4>2. new \in CallState
          BY <3>1 DEF CallState, Stage
        <4>3. TypeOK'
          <5>1. calls' \in [Call -> CallState]
            BY <1>1, <4>0, <4>1, <4>2 DEF TypeOK
          <5>. QED BY <1>1, <1>8, <2>2, <5>1 DEF CheckLine, TypeOK
        <4>4. CartInv'
          BY <1>1, <3>1, <4>1 DEF CartInv, CartAt
        <4>. QED BY <4>3, <4>4 DEF TypeInv
      <3>4. CASE call.done + 1 # Len(call.cart)
        <4> DEFINE new == [at |-> "check_line", session |-> call.session, req |-> call.req,
                           cart |-> call.cart, done |-> call.done + 1, seq |-> call.seq]
        <4>0. calls' = [calls EXCEPT ![c].done = @ + 1] /\ call.at = "check_line"
          BY <1>1, <1>8, <2>2, <3>4 DEF CheckLine, TypeOK
        <4>1. calls'[c] = new /\ \A d \in Call \ {c} : calls'[d] = calls[d]
          BY <1>1, <3>1, <4>0 DEF TypeOK
        <4>2. new \in CallState
          BY <3>1 DEF CallState, Stage
        <4>3. TypeOK'
          BY <1>1, <1>8, <2>2, <4>0, <4>1, <4>2 DEF CheckLine, TypeOK
        <4>4. CartInv'
          BY <1>1, <3>1, <3>4, <4>1 DEF CartInv, CartAt
        <4>. QED BY <4>3, <4>4 DEF TypeInv
      <3>. QED BY <3>3, <3>4
    <2>. QED BY <2>1, <2>2
  <1>9. ASSUME NEW c \in Call, LockSession(c)
        PROVE  TypeInv'
    <2>1. calls[c] # Idle /\ calls[c].done = 0 /\ 0 < Len(calls[c].cart)
      BY <1>1, <1>9, CallFields DEF LockSession, Stage, CartInv, CartAt
    <2>2. Goto(c, "count") /\ "count" \in Stage
      BY <1>9 DEF LockSession, Stage
    <2>3. TypeOK'
      BY <1>1, <1>5, <1>9, <2>1, <2>2 DEF LockSession, TypeOK
    <2>4. CartInv'
      BY <2>1, <2>2, GotoCart
    <2>. QED BY <2>3, <2>4 DEF TypeInv
  <1>10. ASSUME NEW c \in Call, CountOrders(c)
         PROVE  TypeInv'
    <2>1. /\ calls[c] # Idle /\ calls[c].done = 0 /\ 0 < Len(calls[c].cart)
          /\ calls[c] \in [at: Stage, session: Session, req: ReqId \cup {NoReq}, cart: Cart,
                           done: Nat, seq: Nat]
      BY <1>1, <1>10, CallFields DEF CountOrders, Stage, CartInv, CartAt, TypeOK, CallState
    <2>2. Len(orders[calls[c].session]) \in Nat
      BY <1>1, <2>1, LenProperties DEF TypeOK
    <2> DEFINE new == [at |-> "insert_order", session |-> calls[c].session,
                       req |-> calls[c].req, cart |-> calls[c].cart, done |-> calls[c].done,
                       seq |-> Len(orders[calls[c].session]) + 1]
    <2>3. calls'[c] = new /\ \A d \in Call \ {c} : calls'[d] = calls[d]
      BY <1>1, <1>10, <2>1 DEF CountOrders, TypeOK
    <2>4. new \in CallState
      BY <2>1, <2>2 DEF CallState, Stage
    <2>5. TypeOK'
      BY <1>1, <1>10, <2>3, <2>4 DEF CountOrders, TypeOK
    <2>6. CartInv'
      BY <1>1, <2>1, <2>3 DEF CartInv, CartAt, TypeOK
    <2>. QED BY <2>5, <2>6 DEF TypeInv
  <1>11. ASSUME NEW c \in Call, InsertOrder(c)
         PROVE  TypeInv'
    <2>1. CASE calls[c].req # NoReq /\ Committed(calls[c].req)
      BY <1>1, <1>4, <1>11, <2>1 DEF InsertOrder, TypeOK
    <2>2. CASE ~ (calls[c].req # NoReq /\ Committed(calls[c].req))
      <3>1. calls[c] # Idle /\ calls[c].done = 0 /\ 0 < Len(calls[c].cart)
        BY <1>1, <1>11, CallFields DEF InsertOrder, Stage, CartInv, CartAt
      <3>2. Goto(c, "insert_item") /\ "insert_item" \in Stage
        BY <1>11, <2>2 DEF InsertOrder, Stage
      <3>3. TypeOK'
        BY <1>1, <1>5, <1>11, <2>2, <3>1, <3>2 DEF InsertOrder, TypeOK
      <3>4. CartInv'
        BY <3>1, <3>2, GotoCart
      <3>. QED BY <3>3, <3>4 DEF TypeInv
    <2>. QED BY <2>1, <2>2
  <1>12. ASSUME NEW c \in Call, InsertItem(c)
         PROVE  TypeInv'
    <2> DEFINE call == calls[c]
    <2>1. CASE menu[call.cart[call.done + 1].item] = "deleted"
      BY <1>1, <1>4, <1>12, <2>1 DEF InsertItem, TypeOK
    <2>2. CASE menu[call.cart[call.done + 1].item] # "deleted"
      <3>1. /\ call # Idle /\ call.done < Len(call.cart)
            /\ Len(call.cart) \in Nat /\ call.done \in Nat
            /\ call \in [at: Stage, session: Session, req: ReqId \cup {NoReq}, cart: Cart,
                         done: Nat, seq: Nat]
        BY <1>1, <1>12, CallFields DEF InsertItem, Stage, CartInv, CartAt, TypeOK, CallState
      <3> DEFINE new == [at |-> IF call.done + 1 = Len(call.cart) THEN "commit" ELSE "insert_item",
                         session |-> call.session, req |-> call.req, cart |-> call.cart,
                         done |-> call.done + 1, seq |-> call.seq]
      <3>2. calls' = [calls EXCEPT ![c] = new]
        BY <1>1, <1>12, <2>2, <3>1 DEF InsertItem, TypeOK
      <3>3. new \in CallState
        BY <3>1 DEF CallState, Stage
      <3>4. TypeOK'
        BY <1>1, <1>12, <2>2, <3>2, <3>3 DEF InsertItem, TypeOK
      <3>5. CartInv'
        BY <1>1, <3>1, <3>2 DEF CartInv, CartAt, TypeOK
      <3>. QED BY <3>4, <3>5 DEF TypeInv
    <2>. QED BY <2>1, <2>2
  <1>13. ASSUME NEW c \in Call, Commit(c)
         PROVE  TypeInv'
    <2> DEFINE call == calls[c]
               row  == [seq |-> call.seq, req |-> call.req, cart |-> call.cart,
                        lines |-> [k \in 1..call.done |-> call.cart[k].item]]
    <2>1. call # Idle /\ Goto(c, "read_back") /\ "read_back" \in Stage
      BY <1>1, <1>13, CallFields DEF Commit, Stage
    <2>2. row \in OrderRow
      BY <1>1, <1>13, <2>1, CallFields, LinesType DEF Commit, OrderRow
    <2>3. /\ call.session \in Session
          /\ Append(orders[call.session], row) \in Seq(OrderRow)
      BY <1>1, <2>1, <2>2, CallFields, AppendProperties DEF TypeOK
    <2>4. calls' \in [Call -> CallState]
      BY <2>1, GotoType
    <2>5. TypeOK'
      BY <1>1, <1>13, <2>3, <2>4 DEF Commit, TypeOK
    <2>6. CartInv'
      BY <2>1, GotoCart
    <2>. QED BY <2>5, <2>6 DEF TypeInv
  <1>14. ASSUME NEW c \in Call, ReadBack(c)
         PROVE  TypeInv'
    <2>1. [session |-> calls[c].session, seq |-> calls[c].seq] \in OrderRef
      BY <1>1, <1>14, CallFields DEF ReadBack, Stage, OrderRef
    <2>2. answered' \in [ReqId -> SUBSET OrderRef]
      BY <1>1, <1>14, <2>1 DEF ReadBack, TypeOK
    <2>. QED BY <1>4, <1>14, <2>2 DEF ReadBack
  <1>15. ASSUME NEW c \in Call, Abort(c)
         PROVE  TypeInv'
    BY <1>1, <1>4, <1>15 DEF Abort, TypeOK
  <1>16. ASSUME NEW s \in Session, NEW status \in SessionStatus, SessionMoves(s, status)
         PROVE  TypeInv'
    BY <1>1, <1>16 DEF SessionMoves, TypeInv, TypeOK, CartInv, CartAt
  <1>17. ASSUME NEW i \in Item, MenuDelete(i) \/ \E status \in MenuState : MenuUpdate(i, status)
         PROVE  TypeInv'
    BY <1>1, <1>17 DEF MenuDelete, MenuUpdate, TypeInv, TypeOK, CartInv, CartAt, MenuState
  <1>18. CASE UNCHANGED vars
    BY <1>1, <1>18 DEF vars, TypeInv, TypeOK, CartInv, CartAt
  <1>. QED BY <1>2, <1>3, <1>6, <1>7, <1>8, <1>9, <1>10, <1>11, <1>12, <1>13, <1>14, <1>15,
              <1>16, <1>17, <1>18 DEF Next, Place, Step, Lookup, Waiting, MenuMoves

\* Every variable keeps its type: a call never reads past the end of its cart, and
\* a lock is only ever held by a call in progress.
THEOREM TypeCorrect == Spec => []TypeOK
  <1>1. Spec => []TypeInv
    BY TypeInit, TypeStep, PTL DEF Spec
  <1>2. TypeInv => TypeOK
    BY DEF TypeInv
  <1>. QED BY <1>1, <1>2, PTL
-----------------------------------------------------------------------------
(* The numbers of a session's orders. *)

\* A call that is outside a transaction after its step, and has added no order.
LEMMA OutsideStep ==
    ASSUME SeqInv, NEW c \in Call, calls'[c].at \notin InTransaction, orders' = orders,
           \A d \in Call \ {c} : calls'[d] = calls[d],
           \A s \in Session : lock[s] # c => lock'[s] = lock[s]
    PROVE  LockInv' /\ NumberInv' /\ SeqIsPosition'
  <1>1. ASSUME NEW d \in Call, calls'[d].at \in InTransaction
        PROVE  d # c /\ calls'[d] = calls[d] /\ calls[d].session \in Session
    BY <1>1, CallFields DEF SeqInv, TypeInv, InTransaction, Stage
  <1>2. LockInv'
    BY <1>1 DEF SeqInv, LockInv
  <1>3. NumberInv'
    BY <1>1 DEF SeqInv, NumberInv, Numbered, InTransaction
  <1>. QED BY <1>2, <1>3 DEF SeqInv, SeqIsPosition

\* A call that goes on inside its transaction.
LEMMA InsideStep ==
    ASSUME SeqInv, NEW c \in Call, calls[c].at \in InTransaction, orders' = orders,
           lock' = lock, calls'[c].session = calls[c].session,
           calls'[c].at \in Numbered => calls'[c].seq = Len(orders[calls[c].session]) + 1,
           \A d \in Call \ {c} : calls'[d] = calls[d]
    PROVE  LockInv' /\ NumberInv' /\ SeqIsPosition'
  <1>1. LockInv'
    BY DEF SeqInv, LockInv
  <1>2. NumberInv'
    BY DEF SeqInv, NumberInv
  <1>. QED BY <1>1, <1>2 DEF SeqInv, SeqIsPosition

LEMMA FinishOutside ==
    ASSUME SeqInv, NEW c \in Call, Finish(c), orders' = orders
    PROVE  LockInv' /\ NumberInv' /\ SeqIsPosition'
  <1>1. calls'[c].at \notin InTransaction /\ \A d \in Call \ {c} : calls'[d] = calls[d]
    BY FinishType DEF SeqInv, Idle, InTransaction
  <1>2. \A s \in Session : lock[s] # c => lock'[s] = lock[s]
    BY DEF Finish
  <1>. QED BY <1>1, <1>2, OutsideStep

LEMMA SeqStep == SeqInv /\ [Next]_vars => SeqInv'
  <1> SUFFICES ASSUME SeqInv, [Next]_vars
               PROVE  LockInv' /\ NumberInv' /\ SeqIsPosition'
    BY TypeStep DEF SeqInv
  <1>1. TypeOK /\ TypeInv /\ LockInv /\ NumberInv /\ SeqIsPosition
    BY DEF SeqInv, TypeInv
  <1>2. ASSUME NEW c \in Call, NEW s \in Session, NEW r \in ReqId \cup {NoReq},
               NEW cart \in Cart, Receive(c, s, r, cart)
        PROVE  LockInv' /\ NumberInv' /\ SeqIsPosition'
    <2>1. calls'[c].at \notin InTransaction /\ \A d \in Call \ {c} : calls'[d] = calls[d]
      BY <1>1, <1>2 DEF Receive, TypeOK, InTransaction
    <2>. QED BY <1>2, <2>1, OutsideStep DEF Receive
  <1>3. ASSUME NEW c \in Call, NEW s \in Session, NEW i \in 1..Len(orders[s]),
               LookupHit(c, s, i)
        PROVE  LockInv' /\ NumberInv' /\ SeqIsPosition'
    <2>1. calls'[c].at \notin InTransaction /\ \A d \in Call \ {c} : calls'[d] = calls[d]
      BY <1>1, <1>3, CallFields DEF LookupHit, TypeOK, InTransaction, CallState, Stage
    <2>. QED BY <1>3, <2>1, OutsideStep DEF LookupHit
  <1>4. ASSUME NEW c \in Call, NEW stage \in Stage \ InTransaction, calls[c] # Idle,
               Goto(c, stage), lock' = lock, orders' = orders
        PROVE  LockInv' /\ NumberInv' /\ SeqIsPosition'
    <2>1. calls'[c].at \notin InTransaction /\ \A d \in Call \ {c} : calls'[d] = calls[d]
      BY <1>1, <1>4, GotoType
    <2>. QED BY <1>4, <2>1, OutsideStep
  <1>5. ASSUME NEW c \in Call, LookupMiss(c) \/ CheckSession(c)
        PROVE  LockInv' /\ NumberInv' /\ SeqIsPosition'
    <2>1. CASE Finish(c)
      BY <1>5, <2>1, FinishOutside DEF LookupMiss, CheckSession
    <2>2. CASE ~ Finish(c)
      <3>1. calls[c] # Idle
        BY <1>1, <1>5, CallFields DEF LookupMiss, CheckSession, Stage
      <3>2. \E stage \in {"check_session", "check_line"} : Goto(c, stage)
        BY <1>5, <2>2 DEF LookupMiss, CheckSession
      <3>3. lock' = lock /\ orders' = orders
        BY <1>5, <2>2 DEF LookupMiss, CheckSession
      <3>. QED BY <1>4, <3>1, <3>2, <3>3 DEF Stage, InTransaction
    <2>. QED BY <2>1, <2>2
  <1>6. ASSUME NEW c \in Call, CheckLine(c)
        PROVE  LockInv' /\ NumberInv' /\ SeqIsPosition'
    <2>1. CASE Finish(c)
      BY <1>6, <2>1, FinishOutside DEF CheckLine
    <2>2. CASE ~ Finish(c)
      <3>1. \/ calls' = [calls EXCEPT ![c].at = "lock_session", ![c].done = 0]
            \/ calls' = [calls EXCEPT ![c].done = calls[c].done + 1]
        BY <1>6, <2>2 DEF CheckLine
      <3>2. calls[c].at = "check_line" /\ lock' = lock /\ orders' = orders
        BY <1>6, <2>2 DEF CheckLine
      <3>3. calls[c] \in [at: Stage, session: Session, req: ReqId \cup {NoReq}, cart: Cart,
                          done: Nat, seq: Nat]
        BY <1>1, <3>2, CallFields DEF Stage, TypeOK, CallState
      <3>4. calls'[c].at \in {"lock_session", "check_line"}
        BY <1>1, <3>1, <3>2, <3>3 DEF TypeOK
      <3>5. \A d \in Call \ {c} : calls'[d] = calls[d]
        BY <1>1, <3>1 DEF TypeOK
      <3>. QED BY <3>2, <3>4, <3>5, OutsideStep DEF InTransaction
    <2>. QED BY <2>1, <2>2
  <1>7. ASSUME NEW c \in Call, LockSession(c)
        PROVE  LockInv' /\ NumberInv' /\ SeqIsPosition'
    <2> DEFINE s == calls[c].session
    <2>1. s \in Session /\ calls[c] # Idle
      BY <1>1, <1>7, CallFields DEF LockSession, Stage
    <2>2. /\ calls'[c].at = "count" /\ calls'[c].session = s
          /\ \A d \in Call \ {c} : calls'[d] = calls[d]
      BY <1>1, <1>7, <2>1, GotoType DEF LockSession, Stage
    <2>3. \A d \in Call \ {c} : calls[d].at \in InTransaction => calls[d].session # s
      BY <1>1, <1>7, OrderConstants DEF LockSession, LockFree, LockInv
    <2>4. lock'[s] = c /\ \A u \in Session \ {s} : lock'[u] = lock[u]
      BY <1>1, <1>7, <2>1 DEF LockSession, TypeOK
    <2>5. \A d \in Call : calls[d].at \in InTransaction => calls[d].session \in Session
      BY <1>1, CallFields DEF InTransaction, Stage
    <2>6. LockInv'
      BY <1>1, <2>1, <2>2, <2>3, <2>4, <2>5 DEF LockInv
    <2>7. NumberInv'
      BY <1>1, <1>7, <2>2 DEF NumberInv, Numbered, LockSession
    <2>. QED BY <1>1, <1>7, <2>6, <2>7 DEF LockSession, SeqIsPosition
  <1>8. ASSUME NEW c \in Call, CountOrders(c)
        PROVE  LockInv' /\ NumberInv' /\ SeqIsPosition'
    <2>1. calls[c] \in [at: Stage, session: Session, req: ReqId \cup {NoReq}, cart: Cart,
                        done: Nat, seq: Nat]
      BY <1>1, <1>8, CallFields DEF CountOrders, Stage, TypeOK, CallState
    <2>2. /\ calls'[c].seq = Len(orders[calls[c].session]) + 1
          /\ calls'[c].session = calls[c].session
          /\ \A d \in Call \ {c} : calls'[d] = calls[d]
      BY <1>1, <1>8, <2>1 DEF CountOrders, TypeOK
    <2>. QED BY <1>8, <2>2, InsideStep DEF CountOrders, InTransaction
  <1>9. ASSUME NEW c \in Call, InsertOrder(c)
        PROVE  LockInv' /\ NumberInv' /\ SeqIsPosition'
    <2>1. CASE Finish(c)
      BY <1>9, <2>1, FinishOutside DEF InsertOrder
    <2>2. CASE ~ Finish(c)
      <3>1. calls[c] # Idle
        BY <1>1, <1>9, CallFields DEF InsertOrder, Stage
      <3>2. Goto(c, "insert_item") /\ lock' = lock /\ orders' = orders
        BY <1>9, <2>2 DEF InsertOrder
      <3>3. /\ calls'[c].seq = calls[c].seq /\ calls'[c].session = calls[c].session
            /\ \A d \in Call \ {c} : calls'[d] = calls[d]
        BY <1>1, <3>1, <3>2, GotoType DEF Stage
      <3>4. calls[c].seq = Len(orders[calls[c].session]) + 1
        BY <1>1, <1>9 DEF InsertOrder, NumberInv, Numbered
      <3>. QED BY <1>9, <3>2, <3>3, <3>4, InsideStep DEF InsertOrder, InTransaction
    <2>. QED BY <2>1, <2>2
  <1>10. ASSUME NEW c \in Call, InsertItem(c)
         PROVE  LockInv' /\ NumberInv' /\ SeqIsPosition'
    <2>1. CASE Finish(c)
      BY <1>10, <2>1, FinishOutside DEF InsertItem
    <2>2. CASE ~ Finish(c)
      <3>1. calls[c] \in [at: Stage, session: Session, req: ReqId \cup {NoReq}, cart: Cart,
                          done: Nat, seq: Nat]
        BY <1>1, <1>10, CallFields DEF InsertItem, Stage, TypeOK, CallState
      <3>2. /\ calls'[c].seq = calls[c].seq /\ calls'[c].session = calls[c].session
            /\ \A d \in Call \ {c} : calls'[d] = calls[d]
        BY <1>1, <1>10, <2>2, <3>1 DEF InsertItem, TypeOK
      <3>3. calls[c].seq = Len(orders[calls[c].session]) + 1
        BY <1>1, <1>10 DEF InsertItem, NumberInv, Numbered
      <3>4. lock' = lock /\ orders' = orders
        BY <1>10, <2>2 DEF InsertItem
      <3>. QED BY <1>10, <3>2, <3>3, <3>4, InsideStep DEF InsertItem, InTransaction
    <2>. QED BY <2>1, <2>2
  <1>11. ASSUME NEW c \in Call, Commit(c)
         PROVE  LockInv' /\ NumberInv' /\ SeqIsPosition'
    <2> DEFINE call == calls[c]
               s    == call.session
               row  == [seq |-> call.seq, req |-> call.req, cart |-> call.cart,
                        lines |-> [k \in 1..call.done |-> call.cart[k].item]]
    <2>1. call # Idle /\ s \in Session
      BY <1>1, <1>11, CallFields DEF Commit, Stage
    <2>2. /\ calls'[c].at = "read_back"
          /\ \A d \in Call \ {c} : calls'[d] = calls[d]
      BY <1>1, <1>11, <2>1, GotoType DEF Commit, Stage
    <2>3. \A d \in Call \ {c} : calls[d].at \in InTransaction =>
              calls[d].session \in Session \ {s}
      BY <1>1, <1>11, CallFields DEF Commit, LockInv, InTransaction, Stage
    <2>4. /\ \A u \in Session \ {s} : lock'[u] = lock[u] /\ orders'[u] = orders[u]
          /\ orders'[s] = Append(orders[s], row)
      BY <1>1, <1>11, <2>1 DEF Commit, TypeOK
    <2>5. row.seq = Len(orders[s]) + 1
      BY <1>1, <1>11 DEF Commit, NumberInv, Numbered
    <2>6. row \in OrderRow
      BY <1>1, <1>11, <2>1, CallFields, LinesType DEF Commit, OrderRow
    <2> HIDE DEF row
    <2>7. /\ Len(orders'[s]) = Len(orders[s]) + 1
          /\ Len(orders[s]) \in Nat
          /\ \A i \in 1..Len(orders[s]) : orders'[s][i] = orders[s][i]
          /\ orders'[s][Len(orders[s]) + 1] = row
      <3>1. orders[s] \in Seq(OrderRow)
        BY <1>1, <2>1 DEF TypeOK
      <3>2. orders'[s] = Append(orders[s], row)
        BY <2>4
      <3>. QED BY <2>6, <3>1, <3>2, AppendProperties, LenProperties
    <2>8. LockInv'
      BY <1>1, <2>2, <2>3, <2>4 DEF LockInv, InTransaction
    <2>9. NumberInv'
      <3>1. ASSUME NEW d \in Call, calls'[d].at \in Numbered
            PROVE  calls'[d].seq = Len(orders'[calls'[d].session]) + 1
        <4>1. d # c /\ calls'[d] = calls[d] /\ calls[d].session \in Session \ {s}
          BY <2>2, <2>3, <3>1 DEF Numbered, InTransaction
        <4>2. orders'[calls[d].session] = orders[calls[d].session]
          BY <2>4, <4>1
        <4>. QED BY <1>1, <3>1, <4>1, <4>2 DEF NumberInv
      <3>. QED BY <3>1 DEF NumberInv
    <2>10. ASSUME NEW i \in 1..Len(orders'[s])
           PROVE  orders'[s][i].seq = i
      <3>1. CASE i \in 1..Len(orders[s])
        BY <1>1, <2>1, <2>7, <3>1 DEF SeqIsPosition
      <3>2. CASE i = Len(orders[s]) + 1
        BY <2>5, <2>7, <3>2
      <3>3. i \in 1..Len(orders[s]) \/ i = Len(orders[s]) + 1
        <4>1. Len(orders'[s]) = Len(orders[s]) + 1 /\ Len(orders[s]) \in Nat
          BY <2>7
        <4>. QED BY <4>1
      <3>. QED BY <3>1, <3>2, <3>3
    <2>11. SeqIsPosition'
      BY <1>1, <2>4, <2>10 DEF SeqIsPosition
    <2>. QED BY <2>8, <2>9, <2>11
  <1>12. ASSUME NEW c \in Call, ReadBack(c) \/ Abort(c)
         PROVE  LockInv' /\ NumberInv' /\ SeqIsPosition'
    BY <1>12, FinishOutside DEF ReadBack, Abort
  <1>13. CASE UNCHANGED <<calls, lock, orders>>
    BY <1>1, <1>13 DEF LockInv, NumberInv, SeqIsPosition
  <1>14. (\E s \in Session, status \in SessionStatus : SessionMoves(s, status)) \/ MenuMoves
            => UNCHANGED <<calls, lock, orders>>
    BY DEF SessionMoves, MenuMoves, MenuDelete, MenuUpdate
  <1>. QED BY <1>2, <1>3, <1>5, <1>6, <1>7, <1>8, <1>9, <1>10, <1>11, <1>12, <1>13, <1>14
           DEF Next, Place, Step, Lookup, Waiting, vars

\* The orders of a session are numbered 1, 2, 3... in the order they were committed.
THEOREM OrdersNumbered == Spec => []SeqIsPosition
  <1>1. Init => SeqInv
    <2> SUFFICES ASSUME Init PROVE LockInv /\ NumberInv /\ SeqIsPosition
      BY TypeInit DEF SeqInv
    <2>1. LockInv /\ NumberInv
      BY DEF Init, LockInv, NumberInv, InTransaction, Numbered, Idle
    <2>2. SeqIsPosition
      BY DEF Init, SeqIsPosition
    <2>. QED BY <2>1, <2>2
  <1>2. Spec => []SeqInv
    BY <1>1, SeqStep, PTL DEF Spec
  <1>3. SeqInv => SeqIsPosition
    BY DEF SeqInv
  <1>. QED BY <1>2, <1>3, PTL
-----------------------------------------------------------------------------
(* One order per client_request_id. *)

Inserted == {"insert_item", "commit"}

\* A step that commits nothing and puts no new id in the index.
LEMMA IndexKept ==
    ASSUME RequestInv, orders' = orders,
           \A r \in ReqId : Inserting(r)' \subseteq Inserting(r)
    PROVE  IndexInv' /\ OneOrderPerRequest'
  <1>1. \A r \in ReqId : Committed(r)' <=> Committed(r)
    BY DEF Committed
  <1>. QED BY <1>1 DEF RequestInv, IndexInv, OneOrderPerRequest

LEMMA IndexMoves ==
    ASSUME RequestInv, NEW c \in Call, orders' = orders,
           \/ calls'[c].at \notin Inserted
           \/ calls[c].at \in Inserted /\ calls'[c].req = calls[c].req,
           \A d \in Call \ {c} : calls'[d] = calls[d]
    PROVE  IndexInv' /\ OneOrderPerRequest'
  <1>1. \A r \in ReqId : Inserting(r)' \subseteq Inserting(r)
    BY DEF Inserting, Inserted
  <1>. QED BY <1>1, IndexKept

LEMMA FinishIndex ==
    ASSUME RequestInv, NEW c \in Call, Finish(c), orders' = orders
    PROVE  IndexInv' /\ OneOrderPerRequest'
  <1>1. calls'[c].at \notin Inserted /\ \A d \in Call \ {c} : calls'[d] = calls[d]
    BY FinishType DEF RequestInv, Idle, Inserted
  <1>. QED BY <1>1, IndexMoves

LEMMA GotoIndex ==
    ASSUME RequestInv, NEW c \in Call, calls[c] # Idle, orders' = orders,
           NEW stage \in Stage \ Inserted, Goto(c, stage)
    PROVE  IndexInv' /\ OneOrderPerRequest'
  <1>1. calls'[c].at \notin Inserted /\ \A d \in Call \ {c} : calls'[d] = calls[d]
    BY GotoType DEF RequestInv
  <1>. QED BY <1>1, IndexMoves

LEMMA RequestStep == RequestInv /\ [Next]_vars => RequestInv'
  <1> SUFFICES ASSUME RequestInv, [Next]_vars
               PROVE  IndexInv' /\ OneOrderPerRequest'
    BY TypeStep DEF RequestInv
  <1>1. TypeOK /\ TypeInv /\ IndexInv /\ OneOrderPerRequest
    BY DEF RequestInv, TypeInv
  <1>2. ASSUME NEW c \in Call, NEW s \in Session, NEW r \in ReqId \cup {NoReq},
               NEW cart \in Cart, Receive(c, s, r, cart)
        PROVE  IndexInv' /\ OneOrderPerRequest'
    <2>1. calls'[c].at \notin Inserted /\ \A d \in Call \ {c} : calls'[d] = calls[d]
      BY <1>1, <1>2 DEF Receive, TypeOK, Inserted
    <2>. QED BY <1>2, <2>1, IndexMoves DEF Receive
  <1>3. ASSUME NEW c \in Call, NEW s \in Session, NEW i \in 1..Len(orders[s]),
               LookupHit(c, s, i)
        PROVE  IndexInv' /\ OneOrderPerRequest'
    <2>1. calls'[c].at \notin Inserted /\ \A d \in Call \ {c} : calls'[d] = calls[d]
      BY <1>1, <1>3, CallFields DEF LookupHit, TypeOK, Inserted, CallState, Stage
    <2>. QED BY <1>3, <2>1, IndexMoves DEF LookupHit
  <1>4. ASSUME NEW c \in Call, LookupMiss(c) \/ CheckSession(c) \/ LockSession(c)
        PROVE  IndexInv' /\ OneOrderPerRequest'
    <2>1. calls[c] # Idle /\ orders' = orders
      BY <1>1, <1>4, CallFields DEF LookupMiss, CheckSession, LockSession, Stage
    <2>2. Finish(c) \/ \E stage \in {"check_session", "check_line", "count"} : Goto(c, stage)
      BY <1>4 DEF LookupMiss, CheckSession, LockSession
    <2>. QED BY <2>1, <2>2, FinishIndex, GotoIndex DEF Stage, Inserted
  <1>5. ASSUME NEW c \in Call, CheckLine(c)
        PROVE  IndexInv' /\ OneOrderPerRequest'
    <2>1. CASE Finish(c)
      BY <1>5, <2>1, FinishIndex DEF CheckLine
    <2>2. CASE ~ Finish(c)
      <3>1. \/ calls' = [calls EXCEPT ![c].at = "lock_session", ![c].done = 0]
            \/ calls' = [calls EXCEPT ![c].done = calls[c].done + 1]
        BY <1>5, <2>2 DEF CheckLine
      <3>2. calls[c].at = "check_line" /\ orders' = orders
        BY <1>5, <2>2 DEF CheckLine
      <3>3. calls[c] \in [at: Stage, session: Session, req: ReqId \cup {NoReq}, cart: Cart,
                          done: Nat, seq: Nat]
        BY <1>1, <3>2, CallFields DEF Stage, TypeOK, CallState
      <3>4. calls'[c].at \in {"lock_session", "check_line"}
        BY <1>1, <3>1, <3>2, <3>3 DEF TypeOK
      <3>5. \A d \in Call \ {c} : calls'[d] = calls[d]
        BY <1>1, <3>1 DEF TypeOK
      <3>. QED BY <3>2, <3>4, <3>5, IndexMoves DEF Inserted
    <2>. QED BY <2>1, <2>2
  <1>6. ASSUME NEW c \in Call, CountOrders(c)
        PROVE  IndexInv' /\ OneOrderPerRequest'
    <2>1. calls[c] \in [at: Stage, session: Session, req: ReqId \cup {NoReq}, cart: Cart,
                        done: Nat, seq: Nat]
      BY <1>1, <1>6, CallFields DEF CountOrders, Stage, TypeOK, CallState
    <2>2. calls'[c].at \notin Inserted /\ \A d \in Call \ {c} : calls'[d] = calls[d]
      BY <1>1, <1>6, <2>1 DEF CountOrders, TypeOK, Inserted
    <2>. QED BY <1>6, <2>2, IndexMoves DEF CountOrders
  <1>7. ASSUME NEW c \in Call, InsertOrder(c)
        PROVE  IndexInv' /\ OneOrderPerRequest'
    <2> DEFINE q == calls[c].req
    <2>1. CASE Finish(c)
      BY <1>7, <2>1, FinishIndex DEF InsertOrder
    <2>2. CASE ~ Finish(c)
      <3>1. calls[c] # Idle
        BY <1>1, <1>7, CallFields DEF InsertOrder, Stage
      <3>2. Goto(c, "insert_item") /\ orders' = orders
        BY <1>7, <2>2 DEF InsertOrder
      <3>3. calls'[c].req = q /\ \A d \in Call \ {c} : calls'[d] = calls[d]
        BY <1>1, <3>1, <3>2, GotoType DEF Stage
      <3>4. q # NoReq => Inserting(q) = {} /\ ~ Committed(q)
        BY <1>7, <2>2 DEF InsertOrder
      <3>5. \A r \in ReqId : Committed(r)' <=> Committed(r)
        BY <3>2 DEF Committed
      <3>6. ASSUME NEW r \in ReqId
            PROVE  /\ \A d, e \in Inserting(r)' : d = e
                   /\ Inserting(r)' # {} => ~ Committed(r)'
        <4>1. CASE r = q
          <5>1. Inserting(r)' \subseteq {c} /\ ~ Committed(r)'
            BY <3>3, <3>4, <3>5, <3>6, <4>1, OrderConstants DEF Inserting
          <5>. QED BY <5>1
        <4>2. CASE r # q
          <5>1. Inserting(r)' \subseteq Inserting(r)
            BY <3>3, <4>2 DEF Inserting
          <5>. QED BY <1>1, <3>5, <3>6, <5>1 DEF IndexInv
        <4>. QED BY <4>1, <4>2
      <3>7. IndexInv'
        BY <3>6 DEF IndexInv
      <3>. QED BY <1>1, <3>2, <3>7 DEF OneOrderPerRequest
    <2>. QED BY <2>1, <2>2
  <1>8. ASSUME NEW c \in Call, InsertItem(c)
        PROVE  IndexInv' /\ OneOrderPerRequest'
    <2>1. CASE Finish(c)
      BY <1>8, <2>1, FinishIndex DEF InsertItem
    <2>2. CASE ~ Finish(c)
      <3>1. calls[c] \in [at: Stage, session: Session, req: ReqId \cup {NoReq}, cart: Cart,
                          done: Nat, seq: Nat]
        BY <1>1, <1>8, CallFields DEF InsertItem, Stage, TypeOK, CallState
      <3>2. calls'[c].req = calls[c].req /\ \A d \in Call \ {c} : calls'[d] = calls[d]
        BY <1>1, <1>8, <2>2, <3>1 DEF InsertItem, TypeOK
      <3>. QED BY <1>8, <2>2, <3>2, IndexMoves DEF InsertItem, Inserted
    <2>. QED BY <2>1, <2>2
  <1>9. ASSUME NEW c \in Call, Commit(c)
        PROVE  IndexInv' /\ OneOrderPerRequest'
    <2> DEFINE call == calls[c]
               s    == call.session
               q    == call.req
               row  == [seq |-> call.seq, req |-> call.req, cart |-> call.cart,
                        lines |-> [k \in 1..call.done |-> call.cart[k].item]]
    <2>1. call # Idle /\ s \in Session /\ q \in ReqId \cup {NoReq}
      BY <1>1, <1>9, CallFields DEF Commit, Stage
    <2>2. calls'[c].at \notin Inserted /\ \A d \in Call \ {c} : calls'[d] = calls[d]
      BY <1>1, <1>9, <2>1, GotoType DEF Commit, Stage, Inserted
    <2>3. row \in OrderRow
      BY <1>1, <1>9, <2>1, CallFields, LinesType DEF Commit, OrderRow
    <2>4. /\ \A u \in Session \ {s} : orders'[u] = orders[u]
          /\ orders'[s] = Append(orders[s], row)
      BY <1>1, <1>9, <2>1 DEF Commit, TypeOK
    <2>5. /\ Len(orders'[s]) = Len(orders[s]) + 1
          /\ Len(orders[s]) \in Nat
          /\ \A i \in 1..Len(orders[s]) : orders'[s][i] = orders[s][i]
          /\ orders'[s][Len(orders[s]) + 1].req = q
      <3>1. orders[s] \in Seq(OrderRow)
        BY <1>1, <2>1 DEF TypeOK
      <3>2. orders'[s] = Append(orders[s], row) /\ row.req = q
        BY <2>4
      <3> HIDE DEF row
      <3>. QED BY <2>3, <3>1, <3>2, AppendProperties, LenProperties
    <2>6. q # NoReq => ~ Committed(q) /\ Inserting(q) \subseteq {c}
      <3>1. c \in Inserting(q)
        BY <1>9 DEF Commit, Inserting
      <3>. QED BY <1>1, <2>1, <3>1 DEF IndexInv
    <2>7. ASSUME NEW u \in Session, NEW i \in 1..Len(orders'[u])
          PROVE  \/ i \in 1..Len(orders[u]) /\ orders'[u][i] = orders[u][i]
                 \/ u = s /\ i = Len(orders[s]) + 1 /\ orders'[u][i].req = q
      <3>1. CASE u # s
        BY <2>4, <2>7, <3>1
      <3>2. CASE u = s /\ i \in 1..Len(orders[s])
        BY <2>5, <3>2
      <3>3. CASE u = s /\ i \notin 1..Len(orders[s])
        <4>1. i = Len(orders[s]) + 1
          BY <2>5, <2>7, <3>3
        <4>. QED BY <2>5, <3>3, <4>1
      <3>. QED BY <3>1, <3>2, <3>3
    <2>8. ASSUME NEW r \in ReqId
          PROVE  /\ \A d, e \in Inserting(r)' : d = e
                 /\ Inserting(r)' # {} => ~ Committed(r)'
      <3>1. Inserting(r)' \subseteq Inserting(r) \ {c}
        BY <2>2 DEF Inserting, Inserted
      <3>2. CASE r = q
        BY <2>6, <2>8, <3>1, <3>2, OrderConstants
      <3>3. CASE r # q
        <4>1. Committed(r)' => Committed(r)
          BY <2>7, <3>3 DEF Committed
        <4>. QED BY <1>1, <2>8, <3>1, <4>1 DEF IndexInv
      <3>. QED BY <3>2, <3>3
    <2>9. IndexInv'
      BY <2>8 DEF IndexInv
    <2>10. ASSUME NEW u \in Session, NEW i \in 1..Len(orders[u]), q # NoReq
           PROVE  orders[u][i].req # q
      BY <2>6, <2>10 DEF Committed
    <2>11. ASSUME NEW u1 \in Session, NEW u2 \in Session,
                  NEW i1 \in 1..Len(orders'[u1]), NEW i2 \in 1..Len(orders'[u2]),
                  orders'[u1][i1].req # NoReq, orders'[u1][i1].req = orders'[u2][i2].req
           PROVE  u1 = u2 /\ i1 = i2
      <3>1. CASE /\ i1 \in 1..Len(orders[u1]) /\ orders'[u1][i1] = orders[u1][i1]
                 /\ i2 \in 1..Len(orders[u2]) /\ orders'[u2][i2] = orders[u2][i2]
        BY <1>1, <2>11, <3>1 DEF OneOrderPerRequest
      <3>2. CASE /\ i1 \in 1..Len(orders[u1]) /\ orders'[u1][i1] = orders[u1][i1]
                 /\ u2 = s /\ i2 = Len(orders[s]) + 1 /\ orders'[u2][i2].req = q
        BY <2>10, <2>11, <3>2
      <3>3. CASE /\ u1 = s /\ i1 = Len(orders[s]) + 1 /\ orders'[u1][i1].req = q
                 /\ i2 \in 1..Len(orders[u2]) /\ orders'[u2][i2] = orders[u2][i2]
        BY <2>10, <2>11, <3>3
      <3>4. CASE /\ u1 = s /\ i1 = Len(orders[s]) + 1
                 /\ u2 = s /\ i2 = Len(orders[s]) + 1
        BY <3>4
      <3>. QED BY <2>7, <3>1, <3>2, <3>3, <3>4
    <2>12. OneOrderPerRequest'
      BY <2>11 DEF OneOrderPerRequest
    <2>. QED BY <2>9, <2>12
  <1>10. ASSUME NEW c \in Call, ReadBack(c) \/ Abort(c)
         PROVE  IndexInv' /\ OneOrderPerRequest'
    BY <1>10, FinishIndex DEF ReadBack, Abort
  <1>11. CASE UNCHANGED <<calls, orders>>
    BY <1>1, <1>11, IndexKept DEF Inserting
  <1>12. (\E s \in Session, status \in SessionStatus : SessionMoves(s, status)) \/ MenuMoves
            => UNCHANGED <<calls, orders>>
    BY DEF SessionMoves, MenuMoves, MenuDelete, MenuUpdate
  <1>. QED BY <1>2, <1>3, <1>4, <1>5, <1>6, <1>7, <1>8, <1>9, <1>10, <1>11, <1>12
           DEF Next, Place, Step, Lookup, Waiting, vars

\* A client_request_id is on at most one order, whatever tries of it overlap.
THEOREM RequestsAreIdempotent == Spec => []OneOrderPerRequest
  <1>1. Init => RequestInv
    <2> SUFFICES ASSUME Init PROVE IndexInv /\ OneOrderPerRequest
      BY TypeInit DEF RequestInv
    <2>1. \A r \in ReqId : Inserting(r) = {}
      BY DEF Init, Inserting, Idle
    <2>2. OneOrderPerRequest
      BY DEF Init, OneOrderPerRequest
    <2>. QED BY <2>1, <2>2 DEF IndexInv
  <1>2. Spec => []RequestInv
    BY <1>1, RequestStep, PTL DEF Spec
  <1>3. RequestInv => OneOrderPerRequest
    BY DEF RequestInv
  <1>. QED BY <1>2, <1>3, PTL
-----------------------------------------------------------------------------
(* What the tries of a request are answered with. *)

\* An order that is answered with is in the database, under the id it was asked for.
Names(r, s, n) == n \in 1..Len(orders[s]) /\ orders[s][n].req = r

ReadInv ==
    \A c \in Call : calls[c].at = "read_back" => Names(calls[c].req, calls[c].session, calls[c].seq)

AnsweredInv == \A r \in ReqId : \A a \in answered[r] : Names(r, a.session, a.seq)

AnswerInv == ReadInv /\ AnsweredInv

\* Only a commit adds an order, and only the end of a call answers.
LEMMA WhoWrites ==
    ASSUME [Next]_vars
    PROVE  /\ UNCHANGED orders \/ \E c \in Call : Commit(c)
           /\ UNCHANGED answered \/ \E c \in Call : ReadBack(c)
  <1>1. ASSUME NEW c \in Call, Step(c) \/ Waiting(c)
        PROVE  /\ UNCHANGED orders \/ Commit(c)
               /\ UNCHANGED answered \/ ReadBack(c)
    <2>1. CASE Lookup(c) \/ CheckSession(c) \/ CheckLine(c)
      BY <2>1 DEF Lookup, LookupHit, LookupMiss, CheckSession, CheckLine
    <2>2. CASE Waiting(c) \/ CountOrders(c) \/ InsertItem(c)
      BY <2>2 DEF Waiting, LockSession, InsertOrder, CountOrders, InsertItem
    <2>3. CASE Commit(c) \/ ReadBack(c)
      BY <2>3 DEF Commit, ReadBack
    <2>. QED BY <1>1, <2>1, <2>2, <2>3 DEF Step
  <1>2. ASSUME \/ \E c \in Call : \/ \E s \in Session, r \in ReqId \cup {NoReq}, cart \in Cart :
                                       Receive(c, s, r, cart)
                                \/ Abort(c)
               \/ \E s \in Session, status \in SessionStatus : SessionMoves(s, status)
               \/ MenuMoves
               \/ UNCHANGED vars
        PROVE  UNCHANGED <<orders, answered>>
    BY <1>2 DEF Receive, Abort, SessionMoves, MenuMoves, MenuDelete, MenuUpdate, vars
  <1>. QED BY <1>1, <1>2 DEF Next, Place

\* The row that a call commits, and what the commit does to the orders.
Row(call) == [seq |-> call.seq, req |-> call.req, cart |-> call.cart,
              lines |-> [k \in 1..call.done |-> call.cart[k].item]]

LEMMA CommitAdds ==
    ASSUME TypeInv, NEW c \in Call, Commit(c)
    PROVE  LET s == calls[c].session IN
           /\ s \in Session
           /\ Row(calls[c]) \in OrderRow
           /\ \A u \in Session \ {s} : orders'[u] = orders[u]
           /\ Len(orders[s]) \in Nat /\ Len(orders'[s]) = Len(orders[s]) + 1
           /\ \A n \in 1..Len(orders[s]) : orders'[s][n] = orders[s][n]
           /\ orders'[s][Len(orders[s]) + 1] = Row(calls[c])
           /\ \A n \in 1..Len(orders'[s]) :
                  \/ n \in 1..Len(orders[s]) /\ orders'[s][n] = orders[s][n]
                  \/ orders'[s][n] = Row(calls[c])
  <1> DEFINE s   == calls[c].session
             row == Row(calls[c])
  <1>1. s \in Session /\ row \in OrderRow
    BY CallFields, LinesType DEF Commit, OrderRow, TypeInv, Stage, Row
  <1>2. orders[s] \in Seq(OrderRow)
    BY <1>1 DEF TypeInv, TypeOK
  <1>3. /\ \A u \in Session \ {s} : orders'[u] = orders[u]
        /\ orders'[s] = Append(orders[s], row)
    BY <1>1 DEF Commit, TypeInv, TypeOK, Row
  <1> HIDE DEF row, s
  <1>4. /\ Len(orders[s]) \in Nat /\ Len(orders'[s]) = Len(orders[s]) + 1
        /\ \A n \in 1..Len(orders[s]) : orders'[s][n] = orders[s][n]
        /\ orders'[s][Len(orders[s]) + 1] = row
    BY <1>1, <1>2, <1>3, AppendProperties, LenProperties
  <1>5. \A n \in 1..Len(orders'[s]) : n \in 1..Len(orders[s]) \/ n = Len(orders[s]) + 1
    BY <1>4
  <1>. QED BY <1>1, <1>3, <1>4, <1>5 DEF row, s

\* Orders are only added, at the end.
LEMMA OrdersGrow ==
    ASSUME TypeInv, [Next]_vars, NEW r, NEW s \in Session, NEW n, Names(r, s, n)
    PROVE  Names(r, s, n)'
  <1>1. CASE UNCHANGED orders
    BY <1>1 DEF Names
  <1>2. ASSUME NEW c \in Call, Commit(c) PROVE Names(r, s, n)'
    <2>1. CASE s = calls[c].session
      <3>1. /\ Len(orders[s]) \in Nat /\ Len(orders'[s]) = Len(orders[s]) + 1
            /\ \A k \in 1..Len(orders[s]) : orders'[s][k] = orders[s][k]
        BY <1>2, <2>1, CommitAdds
      <3>. QED BY <3>1 DEF Names
    <2>2. CASE s # calls[c].session
      BY <1>2, <2>2, CommitAdds DEF Names
    <2>. QED BY <2>1, <2>2
  <1>. QED BY <1>1, <1>2, WhoWrites

Early == {"idle", "lookup", "check_session", "check_line", "lock_session", "count",
          "insert_order"}

\* A step of one call leaves the others where they are.
LEMMA OthersStay ==
    ASSUME TypeOK, NEW c \in Call, NEW d \in Call \ {c}, Place(d)
    PROVE  calls'[c] = calls[c]
  <1>0. calls \in [Call -> CallState]
    BY DEF TypeOK
  <1>1. ASSUME NEW s \in Session, NEW r \in ReqId \cup {NoReq}, NEW cart \in Cart,
               Receive(d, s, r, cart)
        PROVE  calls'[c] = calls[c]
    BY <1>0, <1>1 DEF Receive
  <1>2. CASE Lookup(d) \/ CheckSession(d) \/ ReadBack(d) \/ Abort(d)
    BY <1>0, <1>2 DEF Lookup, LookupHit, LookupMiss, CheckSession, ReadBack, Abort, Finish, Goto
  <1>3. CASE CheckLine(d)
    BY <1>0, <1>3 DEF CheckLine, Finish
  <1>4. CASE CountOrders(d) \/ LockSession(d) \/ InsertOrder(d)
    BY <1>0, <1>4 DEF CountOrders, LockSession, InsertOrder, Finish, Goto
  <1>5. CASE InsertItem(d) \/ Commit(d)
    BY <1>0, <1>5 DEF InsertItem, Commit, Finish, Goto
  <1>. QED BY <1>1, <1>2, <1>3, <1>4, <1>5 DEF Place, Step, Waiting

\* How a call may come to have an order in the index, or one to answer with.
LEMMA CallSteps ==
    ASSUME TypeInv, [Next]_vars, NEW c \in Call
    PROVE  \/ calls'[c] = calls[c]
           \/ calls'[c].at \in Early
           \/ \E s \in Session : \E i \in 1..Len(orders[s]) : LookupHit(c, s, i)
           \/ Commit(c)
           \/ /\ calls[c].at = "insert_order" /\ calls'[c].at = "insert_item"
              /\ calls'[c].done = calls[c].done
           \/ /\ InsertItem(c) /\ calls'[c].at \in Inserted
              /\ calls'[c].cart = calls[c].cart /\ calls'[c].done = calls[c].done + 1
              /\ menu[calls[c].cart[calls[c].done + 1].item] # "deleted"
              /\ UNCHANGED menu
  <1> DEFINE call == calls[c]
  <1>0. TypeOK
    BY DEF TypeInv
  <1>1. Finish(c) => calls'[c].at \in Early
    BY FinishType DEF Idle, Early
  <1>2. ASSUME NEW stage \in Stage, call.at \in Stage, Goto(c, stage)
        PROVE  calls'[c].at = stage /\ calls'[c].done = call.done
    <2>1. call # Idle
      BY <1>0, <1>2, CallFields
    <2>. QED BY <1>2, <2>1, GotoType
  <1>3. call.at \in Stage =>
            call \in [at: Stage, session: Session, req: ReqId \cup {NoReq}, cart: Cart,
                      done: Nat, seq: Nat]
    BY <1>0, CallFields DEF TypeOK, CallState
  <1>4. ASSUME NEW x, calls' = [calls EXCEPT ![c] = x] PROVE calls'[c] = x
    BY <1>0, <1>4 DEF TypeOK
  <1>5. ASSUME NEW s \in Session, NEW r \in ReqId \cup {NoReq}, NEW cart \in Cart,
               Receive(c, s, r, cart)
        PROVE  calls'[c].at \in Early
    <2> DEFINE x == [at |-> IF r = NoReq THEN "check_session" ELSE "lookup",
                     session |-> s, req |-> r, cart |-> cart, done |-> 0, seq |-> 0]
    <2>1. x.at \in Early
      BY DEF Early
    <2>2. calls' = [calls EXCEPT ![c] = x]
      BY <1>5 DEF Receive
    <2> HIDE DEF x
    <2>. QED BY <1>4, <2>1, <2>2
  <1>6. CASE LookupMiss(c) \/ CheckSession(c) \/ LockSession(c)
    <2>1. call.at \in Stage
      BY <1>6 DEF LookupMiss, CheckSession, LockSession, Stage
    <2>2. Finish(c) \/ \E stage \in {"check_session", "check_line", "count"} : Goto(c, stage)
      BY <1>6 DEF LookupMiss, CheckSession, LockSession
    <2>. QED BY <1>1, <1>2, <2>1, <2>2 DEF Stage, Early
  <1>7. CASE InsertOrder(c)
    <2>1. call.at = "insert_order" /\ (Finish(c) \/ Goto(c, "insert_item"))
      BY <1>7 DEF InsertOrder
    <2>. QED BY <1>1, <1>2, <2>1 DEF Stage
  <1>8. CASE CheckLine(c)
    <2> DEFINE y == [call EXCEPT !.at = "lock_session", !.done = 0]
               z == [call EXCEPT !.done = call.done + 1]
    <2>1. /\ call.at = "check_line"
          /\ Finish(c) \/ calls' = [calls EXCEPT ![c] = y] \/ calls' = [calls EXCEPT ![c] = z]
      BY <1>8 DEF CheckLine
    <2>2. y.at \in Early /\ z.at \in Early
      BY <1>3, <2>1 DEF Stage, Early
    <2>. QED BY <1>1, <1>4, <2>1, <2>2
  <1>9. CASE CountOrders(c)
    <2> DEFINE x == [call EXCEPT !.at = "insert_order", !.seq = Len(orders[call.session]) + 1]
    <2>1. calls' = [calls EXCEPT ![c] = x] /\ call.at = "count"
      BY <1>9 DEF CountOrders
    <2>2. x.at \in Early
      BY <1>3, <2>1 DEF Stage, Early
    <2>. QED BY <1>4, <2>1, <2>2
  <1>10. CASE InsertItem(c) /\ ~ Finish(c)
    <2> DEFINE at == IF call.done + 1 = Len(call.cart) THEN "commit" ELSE call.at
               x == [call EXCEPT !.done = call.done + 1, !.at = at]
    <2>1. /\ calls' = [calls EXCEPT ![c] = x] /\ call.at = "insert_item" /\ UNCHANGED menu
          /\ menu[call.cart[call.done + 1].item] # "deleted"
      BY <1>10 DEF InsertItem
    <2>2. at \in Inserted
      BY <2>1 DEF Inserted
    <2>3. x.at = at /\ x.cart = call.cart /\ x.done = call.done + 1
      <3> HIDE DEF at
      <3>. QED BY <1>3, <2>1 DEF Stage
    <2> HIDE DEF x, at
    <2>4. calls'[c] = x
      BY <1>4, <2>1
    <2>. QED BY <1>10, <2>1, <2>2, <2>3, <2>4
  <1>11. CASE ReadBack(c) \/ Abort(c)
    BY <1>1, <1>11 DEF ReadBack, Abort
  <1>12. CASE \/ \E s \in Session, status \in SessionStatus : SessionMoves(s, status)
              \/ MenuMoves
              \/ UNCHANGED vars
    BY <1>12 DEF SessionMoves, MenuMoves, MenuDelete, MenuUpdate, vars
  <1>13. CASE Place(c)
    BY <1>1, <1>5, <1>6, <1>7, <1>8, <1>9, <1>10, <1>11, <1>13 DEF Place, Step, Lookup, Waiting
  <1>. QED BY <1>0, <1>12, <1>13, OthersStay DEF Next

LEMMA AnswerStep == SeqInv /\ AnswerInv /\ [Next]_vars => AnswerInv'
  <1> SUFFICES ASSUME SeqInv, AnswerInv, [Next]_vars PROVE ReadInv' /\ AnsweredInv'
    BY DEF AnswerInv
  <1>0. TypeOK /\ TypeInv /\ TypeInv'
    BY TypeStep DEF SeqInv, TypeInv
  <1>1. ASSUME NEW c \in Call, calls[c].at = "read_back"
        PROVE  /\ calls[c].session \in Session
               /\ Names(calls[c].req, calls[c].session, calls[c].seq)
    BY <1>0, <1>1, CallFields DEF AnswerInv, ReadInv, Stage
  <1>2. ASSUME NEW c \in Call, NEW x, x = calls'[c], x.at = "read_back"
        PROVE  Names(x.req, x.session, x.seq)'
    <2>1. CASE x = calls[c]
      <3>1. Names(x.req, x.session, x.seq) /\ x.session \in Session
        BY <1>1, <1>2, <2>1
      <3>. QED BY <1>0, <3>1, OrdersGrow
    <2>2. ASSUME NEW s \in Session, NEW i \in 1..Len(orders[s]), LookupHit(c, s, i)
          PROVE  Names(x.req, x.session, x.seq)'
      <3>1. calls[c] \in [at: Stage, session: Session, req: ReqId \cup {NoReq}, cart: Cart,
                          done: Nat, seq: Nat]
        BY <1>0, <2>2, CallFields DEF LookupHit, Stage, TypeOK, CallState
      <3>2. x.req = calls[c].req /\ x.session = s /\ x.seq = i
        BY <1>0, <1>2, <2>2, <3>1 DEF LookupHit, TypeOK, SeqInv, SeqIsPosition
      <3>3. orders' = orders /\ orders[s][i].req = calls[c].req
        BY <2>2 DEF LookupHit
      <3>. QED BY <3>2, <3>3 DEF Names
    <2>3. CASE Commit(c)
      <3> DEFINE call == calls[c]
                 s    == call.session
      <3>1. call # Idle /\ call.seq = Len(orders[s]) + 1
        BY <1>0, <2>3, CallFields DEF Commit, Stage, SeqInv, NumberInv, Numbered
      <3>2. x.req = call.req /\ x.session = s /\ x.seq = call.seq
        BY <1>0, <1>2, <2>3, <3>1, GotoType DEF Commit, Stage
      <3>3. /\ Len(orders'[s]) = Len(orders[s]) + 1 /\ Len(orders[s]) \in Nat
            /\ orders'[s][Len(orders[s]) + 1] = Row(call)
        BY <1>0, <2>3, CommitAdds
      <3>4. Row(call).req = call.req
        BY DEF Row
      <3>. QED BY <3>1, <3>2, <3>3, <3>4 DEF Names
    <2>4. x.at \notin Early \cup Inserted
      BY <1>2 DEF Early, Inserted
    <2>. QED BY <1>0, <1>2, <2>1, <2>2, <2>3, <2>4, CallSteps DEF Inserted
  <1>3. ReadInv'
    BY <1>2 DEF ReadInv, Names
  <1>4. ASSUME NEW r \in ReqId, NEW a \in answered'[r]
        PROVE  Names(r, a.session, a.seq)'
    <2>1. \/ a \in answered[r]
          \/ \E c \in Call : /\ calls[c].at = "read_back" /\ calls[c].req = r
                            /\ a = [session |-> calls[c].session, seq |-> calls[c].seq]
      <3>1. ASSUME NEW c \in Call, ReadBack(c)
            PROVE  \/ a \in answered[r]
                   \/ /\ calls[c].at = "read_back" /\ calls[c].req = r
                      /\ a = [session |-> calls[c].session, seq |-> calls[c].seq]
        BY <1>0, <3>1 DEF ReadBack, TypeOK
      <3>. QED BY <3>1, WhoWrites
    <2>2. a.session \in Session /\ Names(r, a.session, a.seq)
      <3>1. CASE a \in answered[r]
        BY <1>0, <3>1 DEF AnswerInv, AnsweredInv, TypeOK, OrderRef
      <3>. QED BY <1>1, <2>1, <3>1
    <2>. QED BY <1>0, <2>2, OrdersGrow
  <1>5. AnsweredInv'
    BY <1>4 DEF AnsweredInv
  <1>. QED BY <1>3, <1>5

\* Every try of a request that gets an order gets the same one, whatever tries of it
\* overlap, fail or come late, and that order is in the database.
THEOREM RetriesGetTheSame == Spec => []RetriesAgree
  <1>1. Init => SeqInv /\ AnswerInv
    <2> SUFFICES ASSUME Init PROVE SeqInv /\ AnswerInv
      OBVIOUS
    <2>1. SeqInv
      BY TypeInit DEF Init, SeqInv, LockInv, NumberInv, InTransaction, Numbered, Idle,
                      SeqIsPosition
    <2>2. AnswerInv
      BY DEF Init, AnswerInv, ReadInv, AnsweredInv, Idle
    <2>. QED BY <2>1, <2>2
  <1>2. Spec => [](SeqInv /\ AnswerInv)
    BY <1>1, SeqStep, AnswerStep, PTL DEF Spec
  <1>3. SeqInv /\ AnswerInv /\ OneOrderPerRequest => RetriesAgree
    <2> SUFFICES ASSUME SeqInv, AnswerInv, OneOrderPerRequest, NEW r \in ReqId,
                        NEW a \in answered[r], NEW b \in answered[r]
                 PROVE  a = b /\ Names(r, a.session, a.seq)
      BY DEF RetriesAgree, Names
    <2>1. a \in OrderRef /\ b \in OrderRef
      BY DEF SeqInv, TypeInv, TypeOK
    <2>2. Names(r, a.session, a.seq) /\ Names(r, b.session, b.seq)
      BY DEF AnswerInv, AnsweredInv
    <2>3. a.session = b.session /\ a.seq = b.seq
      BY <2>1, <2>2, OrderConstants DEF OneOrderPerRequest, Names, OrderRef
    <2>. QED BY <2>1, <2>2, <2>3 DEF OrderRef
  <1>. QED BY <1>2, <1>3, RequestsAreIdempotent, PTL
-----------------------------------------------------------------------------
(* What orders show. *)

\* An order is stored with a line for everything in its cart.
Whole(order) ==
    /\ Len(order.lines) = Len(order.cart)
    /\ \A k \in 1..Len(order.cart) : order.lines[k] = order.cart[k].item

WholeInv == \A s \in Session : \A i \in 1..Len(orders[s]) : Whole(orders[s][i])

\* The items that orders refer to, committed or not, are there.
ReferredInv == \A i \in Item : Referenced(i) => menu[i] # "deleted"

LEMMA WholeRow ==
    ASSUME TypeInv, NEW c \in Call, calls[c].at = "commit"
    PROVE  /\ Whole(Row(calls[c]))
           /\ Len(Row(calls[c]).lines) = calls[c].done
           /\ Row(calls[c]).cart = calls[c].cart
           /\ \A k \in 1..calls[c].done : Row(calls[c]).lines[k] = calls[c].cart[k].item
  <1>1. calls[c].done = Len(calls[c].cart) /\ calls[c].done \in Nat
    BY CallFields DEF TypeInv, CartInv, CartAt
  <1>. QED BY <1>1 DEF Row, Whole

\* A line that becomes part of the rows of order_items is of an item that is there.
LEMMA ReferencesGrow ==
    ASSUME TypeInv, [Next]_vars, UNCHANGED menu, NEW i \in Item, Referenced(i)'
    PROVE  Referenced(i) \/ menu[i] # "deleted"
  <1>1. ASSUME NEW s \in Session, NEW n \in 1..Len(orders'[s]),
               NEW k \in 1..Len(orders'[s][n].lines), orders'[s][n].lines[k] = i
        PROVE  Referenced(i)
    <2>1. CASE UNCHANGED orders
      BY <1>1, <2>1 DEF Referenced
    <2>2. ASSUME NEW c \in Call, Commit(c), NEW row, row = Row(calls[c]), s = calls[c].session
          PROVE  Referenced(i)
      <3>1. \/ n \in 1..Len(orders[s]) /\ orders'[s][n] = orders[s][n]
            \/ orders'[s][n] = row
        BY <2>2, CommitAdds
      <3>2. CASE orders'[s][n] = row
        <4>1. /\ calls[c].at = "commit" /\ k \in 1..calls[c].done
              /\ calls[c].cart[k].item = i
          <5>1. calls[c].at = "commit"
            BY <2>2 DEF Commit
          <5>2. k \in 1..Len(row.lines) /\ row.lines[k] = i
            BY <1>1, <3>2
          <5>. QED BY <2>2, <5>1, <5>2, WholeRow
        <4>. QED BY <4>1 DEF Referenced
      <3>. QED BY <1>1, <3>1, <3>2 DEF Referenced
    <2>3. ASSUME NEW c \in Call, Commit(c), s # calls[c].session
          PROVE  Referenced(i)
      <3>1. orders'[s] = orders[s]
        BY <2>3, CommitAdds
      <3>. QED BY <1>1, <3>1 DEF Referenced
    <2>. QED BY <2>1, <2>2, <2>3, WhoWrites
  <1>2. ASSUME NEW c \in Call, calls'[c].at \in Inserted, NEW k \in 1..calls'[c].done,
               calls'[c].cart[k].item = i
        PROVE  Referenced(i) \/ menu[i] # "deleted"
    <2>1. CASE calls'[c] = calls[c]
      BY <1>2, <2>1 DEF Referenced, Inserted
    <2>2. CASE calls[c].at = "insert_order" /\ calls'[c].done = calls[c].done
      BY <1>2, <2>2 DEF TypeInv, CartInv, CartAt
    <2>3. CASE /\ InsertItem(c)
               /\ calls'[c].cart = calls[c].cart /\ calls'[c].done = calls[c].done + 1
               /\ menu[calls[c].cart[calls[c].done + 1].item] # "deleted"
      <3>1. calls[c].done \in Nat
        BY CallFields DEF TypeInv
      <3>2. k \in 1..calls[c].done \/ k = calls[c].done + 1
        BY <1>2, <2>3, <3>1
      <3>. QED BY <1>2, <2>3, <3>2 DEF Referenced, InsertItem
    <2>4. ~ Commit(c) /\ \A s \in Session : \A n \in 1..Len(orders[s]) : ~ LookupHit(c, s, n)
      <3>1. \A s \in Session : \A n \in 1..Len(orders[s]) :
                LookupHit(c, s, n) => calls'[c].at = "read_back"
        BY CallFields DEF LookupHit, TypeInv, TypeOK, CallState, Stage
      <3>2. Commit(c) => calls'[c].at = "read_back"
        BY CallFields, GotoType DEF Commit, Stage, TypeInv
      <3>. QED BY <1>2, <3>1, <3>2 DEF Inserted
    <2>. QED BY <1>2, <2>1, <2>2, <2>3, <2>4, CallSteps DEF Early, Inserted
  <1>. QED BY <1>1, <1>2 DEF Referenced, Inserted

LEMMA ShowStep == TypeInv /\ WholeInv /\ ReferredInv /\ [Next]_vars => WholeInv' /\ ReferredInv'
  <1> SUFFICES ASSUME TypeInv, WholeInv, ReferredInv, [Next]_vars
               PROVE  WholeInv' /\ ReferredInv'
    OBVIOUS
  <1>1. ASSUME NEW s \in Session, NEW n \in 1..Len(orders'[s])
        PROVE  Whole(orders'[s][n])
    <2>1. CASE UNCHANGED orders
      BY <1>1, <2>1 DEF WholeInv
    <2>2. ASSUME NEW c \in Call, Commit(c)
          PROVE  Whole(orders'[s][n])
      <3>1. CASE s # calls[c].session
        <4>1. orders'[s] = orders[s]
          BY <2>2, <3>1, CommitAdds
        <4>. QED BY <1>1, <4>1 DEF WholeInv
      <3>2. CASE s = calls[c].session
        <4>1. \/ n \in 1..Len(orders[s]) /\ orders'[s][n] = orders[s][n]
              \/ orders'[s][n] = Row(calls[c])
          BY <1>1, <2>2, <3>2, CommitAdds
        <4>2. Whole(Row(calls[c]))
          BY <2>2, WholeRow DEF Commit
        <4>. QED BY <4>1, <4>2 DEF WholeInv
      <3>. QED BY <3>1, <3>2
    <2>. QED BY <2>1, <2>2, WhoWrites
  <1>2. WholeInv'
    BY <1>1 DEF WholeInv, Whole
  <1>3. ASSUME NEW i \in Item, Referenced(i)'
        PROVE  menu'[i] # "deleted"
    <2>1. CASE UNCHANGED menu
      BY <1>3, <2>1, ReferencesGrow DEF ReferredInv
    <2>2. ASSUME NEW j \in Item, MenuDelete(j) \/ \E status \in MenuState : MenuUpdate(j, status)
          PROVE  menu'[i] # "deleted"
      <3>1. Referenced(i)
        BY <1>3, <2>2 DEF MenuDelete, MenuUpdate, Referenced
      <3>. QED BY <2>2, <3>1 DEF MenuDelete, MenuUpdate, ReferredInv, TypeInv, TypeOK
    <2>3. UNCHANGED menu \/ MenuMoves
      <3>1. ASSUME NEW c \in Call, Step(c) \/ Waiting(c) PROVE UNCHANGED menu
        BY <3>1 DEF Step, Waiting, Lookup, LookupHit, LookupMiss, CheckSession, CheckLine,
                    CountOrders, InsertItem, Commit, ReadBack, LockSession, InsertOrder
      <3>. QED BY <3>1 DEF Next, Place, Receive, Abort, SessionMoves, vars
    <2>. QED BY <2>1, <2>2, <2>3 DEF MenuMoves
  <1>4. ReferredInv'
    BY <1>3 DEF ReferredInv
  <1>. QED BY <1>2, <1>4

\* What is shown of an order is all that was asked for: a transaction stores it whole or
\* not at all, and no item it refers to leaves the menu.
THEOREM OrdersAreWhole == Spec => []OrdersShowWhole
  <1>1. Init => TypeInv /\ WholeInv /\ ReferredInv
    <2> SUFFICES ASSUME Init PROVE WholeInv /\ ReferredInv
      BY TypeInit
    <2>1. WholeInv
      BY DEF Init, WholeInv
    <2>2. ReferredInv
      BY DEF Init, ReferredInv
    <2>. QED BY <2>1, <2>2
  <1>2. Spec => [](TypeInv /\ WholeInv /\ ReferredInv)
    BY <1>1, TypeStep, ShowStep, PTL DEF Spec
  <1>3. TypeInv /\ WholeInv /\ ReferredInv => OrdersShowWhole
    <2> SUFFICES ASSUME TypeInv, WholeInv, ReferredInv PROVE OrdersShowWhole
      OBVIOUS
    <2>1. ASSUME NEW s \in Session, NEW i \in 1..Len(orders[s])
          PROVE  /\ Shown(orders[s][i]) = 1..Len(orders[s][i].cart)
                 /\ Whole(orders[s][i])
      <3> DEFINE o == orders[s][i]
      <3>1. o \in OrderRow /\ Whole(o)
        BY OrderFields DEF TypeInv, WholeInv
      <3>2. \A k \in 1..Len(o.lines) : o.lines[k] \in Item
        BY <3>1, ElementOfSeq DEF OrderRow
      <3>3. \A k \in 1..Len(o.lines) : menu[o.lines[k]] # "deleted"
        BY <3>2 DEF ReferredInv, Referenced
      <3> HIDE DEF o
      <3>4. Shown(o) = 1..Len(o.cart)
        BY <3>1, <3>3 DEF Shown, Whole
      <3>. QED BY <3>1, <3>4 DEF o
    <2>. QED BY <2>1 DEF OrdersShowWhole, Whole
  <1>. QED BY <1>2, <1>3, PTL
-----------------------------------------------------------------------------
(* The sessions whose rows are locked. *)

\* A call that is past the status check, and every lock, is of a session that was
\* opened.  So the INSERT of a session never finds its row locked.
OpenedInv ==
    /\ \A c \in Call : calls[c].at \in {"check_line", "lock_session"} =>
           sstatus[calls[c].session] # "none"
    /\ \A s \in Session : lock[s] # NoCall => sstatus[s] # "none"

LEMMA OpenedStays ==
    ASSUME TypeOK, [Next]_vars, NEW s \in Session, sstatus[s] # "none"
    PROVE  sstatus'[s] # "none"
  <1>1. ASSUME NEW u \in Session, NEW status \in SessionStatus, SessionMoves(u, status)
        PROVE  sstatus'[s] # "none"
    BY <1>1 DEF SessionMoves, TypeOK
  <1>2. ASSUME NEW c \in Call, Place(c) PROVE sstatus' = sstatus
    BY <1>2 DEF Place, Step, Waiting, Lookup, Receive, LookupHit, LookupMiss, CheckSession,
                CheckLine, CountOrders, InsertItem, Commit, ReadBack, LockSession, InsertOrder,
                Abort
  <1>3. CASE MenuMoves \/ UNCHANGED vars
    BY <1>3 DEF MenuMoves, MenuDelete, MenuUpdate, vars
  <1>. QED BY <1>1, <1>2, <1>3 DEF Next

\* Only the SELECT ... FOR UPDATE locks a row.
LEMMA WhoLocks ==
    ASSUME TypeInv, [Next]_vars, NEW s \in Session, lock'[s] # NoCall
    PROVE  \/ lock[s] # NoCall
           \/ \E c \in Call : LockSession(c) /\ s = calls[c].session
  <1>1. lock \in [Session -> Call \cup {NoCall}]
    BY DEF TypeInv, TypeOK
  <1>2. ASSUME NEW c \in Call, Finish(c) PROVE lock[s] # NoCall
    BY <1>2 DEF Finish
  <1>3. ASSUME NEW c \in Call, Step(c) \/ Abort(c) \/ InsertOrder(c) PROVE lock[s] # NoCall
    <2>1. CASE Lookup(c) \/ CheckSession(c) \/ CheckLine(c) \/ InsertOrder(c)
      BY <1>2, <2>1 DEF Lookup, LookupHit, LookupMiss, CheckSession, CheckLine, InsertOrder
    <2>2. CASE CountOrders(c) \/ InsertItem(c) \/ ReadBack(c) \/ Abort(c)
      BY <1>2, <2>2 DEF CountOrders, InsertItem, ReadBack, Abort
    <2>3. CASE Commit(c)
      BY <1>1, <2>3 DEF Commit
    <2>. QED BY <1>3, <2>1, <2>2, <2>3 DEF Step
  <1>4. ASSUME NEW c \in Call, LockSession(c), lock[s] = NoCall PROVE s = calls[c].session
    BY <1>1, <1>4 DEF LockSession
  <1>5. CASE \/ \E c \in Call, u \in Session, r \in ReqId \cup {NoReq}, cart \in Cart :
                    Receive(c, u, r, cart)
             \/ \E u \in Session, status \in SessionStatus : SessionMoves(u, status)
             \/ MenuMoves
             \/ UNCHANGED vars
    BY <1>5 DEF Receive, SessionMoves, MenuMoves, MenuDelete, MenuUpdate, vars
  <1>. QED BY <1>3, <1>4, <1>5 DEF Next, Place, Waiting

\* Only a call that finds its session open gets past the check of its status.
LEMMA WhoChecks ==
    ASSUME TypeInv, [Next]_vars, NEW c \in Call, calls'[c].at \in {"check_line", "lock_session"}
    PROVE  /\ calls'[c].session = calls[c].session /\ calls[c].session \in Session
           /\ \/ calls[c].at \in {"check_line", "lock_session"}
              \/ sstatus[calls[c].session] = "active"
  <1> DEFINE call == calls[c]
  <1>0. TypeOK
    BY DEF TypeInv
  <1>1. CASE calls'[c] = call
    BY <1>0, <1>1, CallFields DEF Stage
  <1>2. ~ Finish(c)
    BY FinishType DEF Idle
  <1>3. ASSUME NEW stage \in Stage, call.at \in Stage, Goto(c, stage)
        PROVE  calls'[c].at = stage /\ calls'[c].session = call.session /\ call.session \in Session
    BY <1>0, <1>3, GotoType, CallFields
  <1>4. call.at \in Stage =>
            call \in [at: Stage, session: Session, req: ReqId \cup {NoReq}, cart: Cart,
                      done: Nat, seq: Nat]
    BY <1>0, CallFields DEF TypeOK, CallState
  <1>5. ASSUME NEW x, calls' = [calls EXCEPT ![c] = x] PROVE calls'[c] = x
    BY <1>0, <1>5 DEF TypeOK
  <1>6. CASE CheckSession(c)
    <2>1. call.at \in Stage /\ Goto(c, "check_line") /\ sstatus[call.session] = "active"
      BY <1>2, <1>6 DEF CheckSession, Stage
    <2>. QED BY <1>3, <2>1 DEF Stage
  <1>7. CASE CheckLine(c)
    <2> DEFINE y == [call EXCEPT !.at = "lock_session", !.done = 0]
               z == [call EXCEPT !.done = call.done + 1]
    <2>1. /\ call.at = "check_line"
          /\ calls' = [calls EXCEPT ![c] = y] \/ calls' = [calls EXCEPT ![c] = z]
      BY <1>2, <1>7 DEF CheckLine
    <2>2. /\ y.session = call.session /\ z.session = call.session
          /\ call.session \in Session
      BY <1>4, <2>1 DEF Stage
    <2> HIDE DEF y, z
    <2>. QED BY <1>5, <2>1, <2>2
  <1>8. ~ LookupMiss(c) /\ ~ LockSession(c) /\ ~ InsertOrder(c) /\ ~ Commit(c)
    <2>1. ASSUME NEW stage \in {"check_session", "count", "insert_item", "read_back"},
                 call.at \in Stage
          PROVE  ~ Goto(c, stage)
      BY <1>3, <2>1 DEF Stage
    <2>. QED BY <1>2, <2>1 DEF LookupMiss, LockSession, InsertOrder, Commit, Stage
  <1>9. ASSUME NEW s \in Session, NEW i \in 1..Len(orders[s]) PROVE ~ LookupHit(c, s, i)
    <2> DEFINE x == [call EXCEPT !.at = "read_back", !.session = s, !.seq = orders[s][i].seq]
    <2>1. call.at = "lookup" => x.at = "read_back"
      BY <1>4 DEF Stage
    <2>2. LookupHit(c, s, i) => calls' = [calls EXCEPT ![c] = x] /\ call.at = "lookup"
      BY DEF LookupHit
    <2> HIDE DEF x
    <2>. QED BY <1>5, <2>1, <2>2
  <1>10. ~ CountOrders(c)
    <2> DEFINE x == [call EXCEPT !.at = "insert_order", !.seq = Len(orders[call.session]) + 1]
    <2>1. call.at = "count" => x.at = "insert_order"
      BY <1>4 DEF Stage
    <2>2. CountOrders(c) => calls' = [calls EXCEPT ![c] = x] /\ call.at = "count"
      BY DEF CountOrders
    <2> HIDE DEF x
    <2>. QED BY <1>5, <2>1, <2>2
  <1>11. ~ InsertItem(c)
    <2> DEFINE at == IF call.done + 1 = Len(call.cart) THEN "commit" ELSE call.at
               x == [call EXCEPT !.done = call.done + 1, !.at = at]
    <2>1. InsertItem(c) => calls' = [calls EXCEPT ![c] = x] /\ call.at = "insert_item"
      BY <1>2 DEF InsertItem
    <2>2. call.at = "insert_item" => at \in {"commit", "insert_item"}
      OBVIOUS
    <2>3. call.at \in Stage => x.at = at
      <3> HIDE DEF at
      <3>. QED BY <1>4
    <2> HIDE DEF x, at
    <2>. QED BY <1>5, <2>1, <2>2, <2>3 DEF Stage
  <1>12. ~ ReadBack(c) /\ ~ Abort(c)
    BY <1>2 DEF ReadBack, Abort
  <1>13. ASSUME NEW s \in Session, NEW r \in ReqId \cup {NoReq}, NEW cart \in Cart
         PROVE  ~ Receive(c, s, r, cart)
    <2> DEFINE x == [at |-> IF r = NoReq THEN "check_session" ELSE "lookup",
                     session |-> s, req |-> r, cart |-> cart, done |-> 0, seq |-> 0]
    <2>1. x.at \notin {"check_line", "lock_session"}
      OBVIOUS
    <2>2. Receive(c, s, r, cart) => calls' = [calls EXCEPT ![c] = x]
      BY DEF Receive
    <2> HIDE DEF x
    <2>. QED BY <1>5, <2>1, <2>2
  <1>14. CASE Place(c)
    BY <1>6, <1>7, <1>8, <1>9, <1>10, <1>11, <1>12, <1>13, <1>14
       DEF Place, Step, Lookup, Waiting
  <1>15. CASE \/ \E s \in Session, status \in SessionStatus : SessionMoves(s, status)
              \/ MenuMoves
              \/ UNCHANGED vars
    BY <1>1, <1>15 DEF SessionMoves, MenuMoves, MenuDelete, MenuUpdate, vars
  <1>. QED BY <1>0, <1>1, <1>14, <1>15, OthersStay DEF Next

LEMMA OpenedStep == TypeInv /\ OpenedInv /\ [Next]_vars => OpenedInv'
  <1> SUFFICES ASSUME TypeInv, OpenedInv, [Next]_vars PROVE OpenedInv'
    OBVIOUS
  <1>0. TypeOK
    BY DEF TypeInv
  <1>1. ASSUME NEW c \in Call, calls'[c].at \in {"check_line", "lock_session"}
        PROVE  sstatus'[calls'[c].session] # "none"
    <2>1. calls[c].session \in Session /\ sstatus[calls[c].session] # "none"
      BY <1>1, WhoChecks DEF OpenedInv
    <2>2. sstatus'[calls[c].session] # "none"
      BY <1>0, <2>1, OpenedStays
    <2>. QED BY <1>1, <2>2, WhoChecks
  <1>2. ASSUME NEW s \in Session, lock'[s] # NoCall PROVE sstatus'[s] # "none"
    <2>1. sstatus[s] # "none"
      BY <1>2, WhoLocks DEF OpenedInv, LockSession
    <2>. QED BY <1>0, <2>1, OpenedStays
  <1>. QED BY <1>1, <1>2 DEF OpenedInv

LEMMA OpenedInit == Init => OpenedInv
BY DEF Init, OpenedInv, Idle
=============================================================================
