------------------------------ MODULE Bill_proofs ------------------------------
(***************************************************************************)
(* Proofs about Bill and about KitchenStatus, whose steps are among its    *)
(* own.  What KitchenStatus keeps is proved of its Next first; a step of   *)
(* Bill is one of these or leaves its variables alone.                     *)
(***************************************************************************)
EXTENDS Bill, TLAPS

\* A cancellation that has not been refused yet: the lines in "stayed" are served
\* lines of its order, and there were none when it had looked.
StayedInv ==
    \A c \in Call :
        /\ stayed[c] \subseteq Served
        /\ calls[c] = Idle => stayed[c] = {}
        /\ calls[c].at = "look" =>
               /\ calls[c].target \in Order
               /\ stayed[c] \subseteq ItemsOf(calls[c].target)
        /\ calls[c].at \in {"update", "tell"} => stayed[c] = {}

\* Unless it is muddled, the status of what the screen follows is to be told by one
\* request at most, which has written it, and is on the screen when it was told.
ScreenInv ==
    ~ muddled =>
        /\ Telling = {} => screen = status[watched]
        /\ \A c \in Telling : calls[c].to = status[watched]
        /\ \A c, d \in Telling : c = d

KitchenInv == TypeOK /\ StayedInv /\ ScreenInv

-------------------------------------------------------------------------------
(* The statuses *)

LEMMA KitchenInit == Init => KitchenInv
  <1> SUFFICES ASSUME Init PROVE KitchenInv
    OBVIOUS
  <1>1. TypeOK
    BY KitchenConstants DEF Init, TypeOK, CallState, Status, Patched
  <1>2. StayedInv
    BY DEF Init, StayedInv, Idle
  <1>3. ScreenInv
    BY DEF Init, ScreenInv, Telling, Idle
  <1> QED
    BY <1>1, <1>2, <1>3 DEF KitchenInv

\* Each step of a request keeps the types.
LEMMA KitchenTypes ==
    ASSUME TypeOK, [Next]_vars
    PROVE  TypeOK'
  <1> USE KitchenConstants DEF TypeOK, CallState, Status, Patched
  <1>1. ASSUME NEW c \in Call, NEW x \in Patched, NEW to \in ValidFor(x), Patch(c, x, to)
        PROVE  TypeOK'
    BY <1>1 DEF Patch, ValidFor, Served, ItemsOf
  <1>2. ASSUME NEW c \in Call, Look(c) PROVE TypeOK'
    BY <1>2 DEF Look, Finish, Goto, Idle
  <1>3. ASSUME NEW c \in Call, Update(c) PROVE TypeOK'
    <2>1. calls[c].target \in Patched /\ calls[c].to \in Status
      BY <1>3 DEF Update, Idle
    <2>2. status' \in [Patched -> Status] /\ watched' \in Patched /\ screen' \in Status
      BY <1>3, <2>1 DEF Update
    <2>3. calls' \in [Call -> CallState]
      BY <1>3 DEF Update, Goto, Idle
    <2>4. muddled' \in BOOLEAN
      BY <1>3, ZenonT(20) DEF Update
    <2>5. stayed' \in [Call -> SUBSET Item]
      BY <1>3 DEF Update
    <2> QED
      BY <2>2, <2>3, <2>4, <2>5
  <1>4. ASSUME NEW c \in Call, Tell(c) PROVE TypeOK'
    BY <1>4 DEF Tell, Finish, Idle
  <1>5. ASSUME NEW c \in Call, Abort(c) PROVE TypeOK'
    BY <1>5 DEF Abort, Finish
  <1>6. CASE UNCHANGED vars
    BY <1>6 DEF vars
  <1> QED
    BY <1>1, <1>2, <1>3, <1>4, <1>5, <1>6 DEF Next

\* What a step leaves of the lines a cancellation found served.
LEMMA KitchenStayed ==
    ASSUME TypeOK, StayedInv, [Next]_vars
    PROVE  StayedInv'
  <1> USE DEF TypeOK, StayedInv, Served
  <1>1. ASSUME NEW c \in Call, NEW x \in Patched, NEW to \in ValidFor(x), Patch(c, x, to)
        PROVE  StayedInv'
    <2>1. CASE x \in Order /\ to = "cancelled"
      BY <1>1, <2>1 DEF Patch, Idle, ItemsOf
    <2>2. CASE ~ (x \in Order /\ to = "cancelled")
      BY <1>1, <2>2 DEF Patch, Idle
    <2> QED
      BY <2>1, <2>2
  <1>2. ASSUME NEW c \in Call, Look(c) PROVE StayedInv'
    <2>1. CASE \E i \in ItemsOf(calls[c].target) : status[i] = "served"
      BY <1>2, <2>1 DEF Look, Finish, Idle, ItemsOf
    <2>2. CASE ~ \E i \in ItemsOf(calls[c].target) : status[i] = "served"
      <3>1. stayed[c] = {}
        BY <1>2, <2>2 DEF Look
      <3>2. /\ calls' = [calls EXCEPT ![c].at = "update"]
            /\ status' = status /\ stayed' = stayed
        BY <1>2, <2>2 DEF Look, Goto
      <3>3. calls'[c].at = "update" /\ calls'[c] # Idle
        BY <3>2 DEF CallState, Idle
      <3>4. \A d \in Call : d # c => calls'[d] = calls[d]
        BY <3>2
      <3> QED
        BY <3>1, <3>2, <3>3, <3>4 DEF ItemsOf
    <2> QED
      BY <2>1, <2>2
  <1>3. ASSUME NEW c \in Call, Update(c) PROVE StayedInv'
    <2> DEFINE x == calls[c].target
    <2>1. /\ calls[c].at = "update"
          /\ status' = [status EXCEPT ![x] = calls[c].to]
          /\ calls' = [calls EXCEPT ![c].at = "tell"]
          /\ stayed' = IF calls[c].to = "served" THEN stayed
                       ELSE [d \in Call |-> stayed[d] \ {x}]
      BY <1>3 DEF Update, Goto
    <2>2. \A d \in Call : stayed'[d] \subseteq stayed[d] /\ stayed'[d] \subseteq Served'
      BY <2>1
    <2>3. \A d \in Call : d # c => calls'[d] = calls[d]
      BY <2>1
    <2>4. calls'[c].at = "tell" /\ stayed[c] = {} /\ calls'[c] # Idle
      BY <2>1 DEF CallState, Idle
    <2> QED
      BY <2>2, <2>3, <2>4 DEF ItemsOf, Idle
  <1>4. ASSUME NEW c \in Call, Tell(c) PROVE StayedInv'
    BY <1>4 DEF Tell, Finish, Idle, ItemsOf
  <1>5. ASSUME NEW c \in Call, Abort(c) PROVE StayedInv'
    BY <1>5 DEF Abort, Finish, Idle, ItemsOf
  <1>6. CASE UNCHANGED vars
    BY <1>6 DEF vars, ItemsOf, Idle
  <1> QED
    BY <1>1, <1>2, <1>3, <1>4, <1>5, <1>6 DEF Next

\* What the screen shows when every change but those in "muddled" is told in time.
LEMMA KitchenScreen ==
    ASSUME TypeOK, ScreenInv, [Next]_vars
    PROVE  ScreenInv'
  <1> USE DEF TypeOK, ScreenInv, Telling
  <1>1. ASSUME NEW c \in Call, NEW x \in Patched, NEW to \in ValidFor(x), Patch(c, x, to)
        PROVE  ScreenInv'
    <2>1. Telling' = Telling /\ \A d \in Telling : calls'[d] = calls[d]
      BY <1>1 DEF Patch, Idle
    <2> QED
      BY <1>1, <2>1 DEF Patch
  <1>2. ASSUME NEW c \in Call, Look(c) PROVE ScreenInv'
    <2>0. /\ calls[c].at = "look" /\ calls'[c].at # "tell"
          /\ \A d \in Call : d # c => calls'[d] = calls[d]
      <3>1. CASE calls' = [calls EXCEPT ![c] = Idle]
        BY <1>2, <3>1 DEF Look, Idle
      <3>2. CASE calls' = [calls EXCEPT ![c].at = "update"]
        BY <1>2, <3>2 DEF Look, CallState, Idle
      <3> QED
        BY <1>2, <3>1, <3>2 DEF Look, Finish, Goto
    <2>1. Telling' = Telling /\ \A d \in Telling : calls'[d] = calls[d]
      BY <1>2, <2>0 DEF Look
    <2>2. UNCHANGED <<status, watched, screen, muddled>>
      BY <1>2 DEF Look
    <2> QED
      BY <2>1, <2>2
  <1>3. ASSUME NEW c \in Call, Update(c) PROVE ScreenInv'
    <2>0. calls[c].at = "update" /\ calls[c] \in CallState /\ calls[c].target \in Patched
      BY <1>3 DEF Update, CallState, Idle
    <2>1. CASE calls[c].target # watched
      <3>1. Telling' = Telling /\ \A d \in Telling : calls'[d] = calls[d]
        BY <1>3, <2>0, <2>1 DEF Update, Goto
      <3>2. status'[watched] = status[watched] /\ (muddled' <=> muddled)
        BY <1>3, <2>1 DEF Update
      <3> QED
        BY <1>3, <3>1, <3>2 DEF Update
    <2>2. CASE calls[c].target = watched
      <3>1. muddled' = (Telling # {})
        BY <1>3, <2>2 DEF Update
      <3>2. SUFFICES ASSUME Telling = {} PROVE ScreenInv'
        BY <3>1
      <3>3. Telling' = {c} /\ calls'[c].to = calls[c].to
        BY <1>3, <2>0, <2>2, <3>2 DEF Update, Goto
      <3>4. status'[watched'] = calls[c].to
        BY <1>3, <2>0, <2>2 DEF Update
      <3> QED
        BY <3>3, <3>4
    <2> QED
      BY <2>1, <2>2
  <1>4. ASSUME NEW c \in Call, Tell(c) PROVE ScreenInv'
    <2>1. Telling' = Telling \ {c} /\ \A d \in Telling \ {c} : calls'[d] = calls[d]
      BY <1>4 DEF Tell, Finish, Idle
    <2> QED
      BY <1>4, <2>1 DEF Tell
  <1>5. ASSUME NEW c \in Call, Abort(c) PROVE ScreenInv'
    <2>1. Telling' = Telling \ {c} /\ \A d \in Telling \ {c} : calls'[d] = calls[d]
      BY <1>5 DEF Abort, Finish, Idle
    <2> QED
      BY <1>5, <2>1 DEF Abort
  <1>6. CASE UNCHANGED vars
    BY <1>6 DEF vars
  <1> QED
    BY <1>1, <1>2, <1>3, <1>4, <1>5, <1>6 DEF Next

LEMMA KitchenInductive ==
    ASSUME KitchenInv, [Next]_vars
    PROVE  KitchenInv'
  BY KitchenTypes, KitchenStayed, KitchenScreen DEF KitchenInv

-------------------------------------------------------------------------------
(* The bill *)

\* A row's total is its parts but for a hundredth: ten times the difference is
\* what two roundings leave.
LEMMA ExcessOfARow ==
    ASSUME NEW a, Priced(a)
    PROVE  a \in Amounts /\ Excess(a) \in -1..1
  BY DEF Priced, Amounts, Rounded, Excess

\* Of the orders that stayed due, or stayed not due, those still to be read are not
\* on the bill, and the others are if they are due. Only committed orders are read.
ExactOf(r) ==
    /\ reads[r].at = "list" => reads[r].bill = {}
    /\ reads[r].at = "order" =>
           /\ reads[r].left \subseteq placed
           /\ \A o \in Order \ turned[r] :
               IF o \in reads[r].left THEN o \notin reads[r].bill
               ELSE o \in reads[r].bill <=> o \in Due

ExactInv == \A r \in Reader : ExactOf(r)

BillInv == KitchenInv /\ BillTypeOK /\ ExactInv /\ BillAddsUp

\* To KitchenStatus a step of Bill is one of its own, or none.
LEMMA BillStepsAreKitchenSteps ==
    ASSUME [BillNext]_billVars
    PROVE  [Next]_vars
  <1>1. ASSUME NEW c \in Call, KitchenStep(c) PROVE Next
    BY <1>1 DEF KitchenStep, Next, Patched
  <1>2. ASSUME NEW o \in Order, Place(o) PROVE UNCHANGED vars
    BY <1>2 DEF Place
  <1>3. ASSUME NEW r \in Reader,
               \/ GetBill(r) \/ ListOrders(r) \/ \E o \in Order : ReadOrder(r, o)
               \/ EndBill(r)
        PROVE  UNCHANGED vars
    BY <1>3 DEF GetBill, ListOrders, ReadOrder, EndBill
  <1> QED
    BY <1>1, <1>2, <1>3 DEF BillNext, billVars

LEMMA BillStarts == BillInit => BillInv
  <1> SUFFICES ASSUME BillInit PROVE BillInv
    OBVIOUS
  <1>1. KitchenInv
    BY KitchenInit DEF BillInit
  <1>2. BillTypeOK
    BY <1>1 DEF BillInit, KitchenInv, BillTypeOK, NotReading, ReadState, Amounts
  <1>3. ExactInv
    BY DEF BillInit, ExactInv, ExactOf, NotReading
  <1>4. BillAddsUp
    BY DEF BillInit, BillAddsUp, NotReading, Excess
  <1> QED
    BY <1>1, <1>2, <1>3, <1>4 DEF BillInv

\* What a reading of an order does to the bill.
LEMMA ReadOne ==
    ASSUME BillTypeOK, NEW r \in Reader, NEW o \in Order, ReadOrder(r, o)
    PROVE  /\ reads' = [reads EXCEPT ![r] = reads'[r]]
           /\ reads[r].at = "order" /\ reads'[r].at = "order"
           /\ reads'[r] \in ReadState
           /\ reads'[r].left = reads[r].left \ {o}
           /\ \/ /\ status[o] = "cancelled"
                 /\ reads'[r].bill = reads[r].bill
                 /\ reads'[r].n = reads[r].n /\ reads'[r].sum = reads[r].sum
              \/ /\ status[o] # "cancelled"
                 /\ reads'[r].bill = reads[r].bill \cup {o}
                 /\ reads'[r].n = reads[r].n + 1
                 /\ Excess(reads'[r].sum) = Excess(reads[r].sum) + Excess(Amount[o])
  <1>1. Amount[o] \in Amounts
    BY ExcessOfARow, AmountAssumption
  <1>2. reads[r] \in ReadState /\ reads \in [Reader -> ReadState]
    BY DEF BillTypeOK
  <1>3. CASE status[o] = "cancelled"
    <2>1. reads' = [reads EXCEPT ![r] = Skipped(reads[r], o)]
      BY <1>3 DEF ReadOrder
    <2>2. reads'[r] = [reads[r] EXCEPT !.left = reads[r].left \ {o}]
      BY <1>2, <2>1 DEF Skipped
    <2> QED
      BY <1>2, <1>3, <2>1, <2>2 DEF ReadOrder, ReadState
  <1>4. CASE status[o] # "cancelled"
    <2> DEFINE read == Charged(reads[r], o, Amount[o].total)
    <2>1. reads' = [reads EXCEPT ![r] = read]
      BY <1>4 DEF ReadOrder
    <2>2. /\ read \in ReadState
          /\ read.at = "order"
          /\ read.left = reads[r].left \ {o}
          /\ read.bill = reads[r].bill \cup {o}
          /\ read.n = reads[r].n + 1
          /\ read.sum = [subtotal |-> reads[r].sum.subtotal + Amount[o].subtotal,
                         vat |-> reads[r].sum.vat + Amount[o].vat,
                         total |-> reads[r].sum.total + Amount[o].total]
      <3>2. /\ reads[r].sum \in Amounts /\ reads[r].n \in Nat
            /\ reads[r].at \in {"none", "list", "order"}
            /\ reads[r].left \subseteq Order /\ reads[r].bill \subseteq Order
        BY <1>2 DEF ReadState
      <3> QED
        BY <1>1, <3>2 DEF Charged, ReadState, Amounts
    <2>3. Excess(read.sum) = Excess(reads[r].sum) + Excess(Amount[o])
      BY <1>1, <1>2, <2>2 DEF Excess, ReadState, Amounts
    <2>4. reads'[r] = read
      BY <1>2, <2>1
    <2> HIDE DEF read
    <2> QED
      BY <1>2, <1>4, <2>1, <2>2, <2>3, <2>4 DEF ReadOrder
  <1> QED
    BY <1>3, <1>4

LEMMA BillTypes ==
    ASSUME BillTypeOK, TypeOK', [BillNext]_billVars
    PROVE  BillTypeOK'
  <1> USE DEF BillTypeOK
  <1>1. CASE BillNext
    <2>1. turned' \in [Reader -> SUBSET Order]
      <3>1. Witness
        BY <1>1 DEF BillNext, KitchenStep, Place, GetBill, ListOrders, ReadOrder, EndBill
      <3>2. Due \subseteq Order
        BY DEF Due
      <3>3. Due' \subseteq Order
        BY <1>1 DEF Due, BillNext, KitchenStep, Place, GetBill, ListOrders, ReadOrder,
                    EndBill
      <3> QED
        BY <3>1, <3>2, <3>3 DEF Witness
    <2>2. ASSUME NEW c \in Call, KitchenStep(c) PROVE BillTypeOK'
      BY <2>1, <2>2 DEF KitchenStep
    <2>3. ASSUME NEW o \in Order, Place(o) PROVE BillTypeOK'
      BY <2>1, <2>3 DEF Place
    <2>4. ASSUME NEW r \in Reader, GetBill(r) PROVE BillTypeOK'
      BY <2>1, <2>4 DEF GetBill, ReadState
    <2>5. ASSUME NEW r \in Reader, ListOrders(r) PROVE BillTypeOK'
      <3>1. reads[r] \in ReadState
        OBVIOUS
      <3>2. [[reads[r] EXCEPT !.at = "order"] EXCEPT !.left = placed] \in ReadState
        BY <3>1 DEF ReadState
      <3>3. reads' \in [Reader -> ReadState]
        BY <2>5, <3>2 DEF ListOrders
      <3> QED
        BY <2>1, <2>5, <3>3 DEF ListOrders
    <2>6. ASSUME NEW r \in Reader, NEW o \in Order, ReadOrder(r, o) PROVE BillTypeOK'
      BY <2>1, <2>6, ReadOne DEF ReadOrder
    <2>7. ASSUME NEW r \in Reader, EndBill(r) PROVE BillTypeOK'
      BY <2>1, <2>7 DEF EndBill, NotReading, ReadState, Amounts
    <2> QED
      BY <1>1, <2>2, <2>3, <2>4, <2>5, <2>6, <2>7 DEF BillNext
  <1>2. CASE UNCHANGED billVars
    BY <1>2 DEF billVars
  <1> QED
    BY <1>1, <1>2

\* What an order that did not turn during a step was before it, it is after it.
LEMMA Unturned ==
    ASSUME BillTypeOK, Witness, NEW r \in Reader, reads'[r].at = "order",
           NEW o \in Order \ turned'[r]
    PROVE  o \notin turned[r] /\ (o \in Due <=> o \in Due')
  <1>1. reads'[r] # NotReading
    BY DEF NotReading
  <1>2. turned'[r] = turned[r] \cup (Due \ Due') \cup (Due' \ Due)
    BY <1>1 DEF Witness
  <1> QED
    BY <1>2

\* The others' steps leave a reading as right as it was, and so do its own.
LEMMA BillExactly ==
    ASSUME BillTypeOK, ExactInv, [BillNext]_billVars
    PROVE  ExactInv'
  <1>1. ASSUME NEW r \in Reader, reads'[r] = reads[r], Witness, placed \subseteq placed'
        PROVE  ExactOf(r)'
    <2>1. ExactOf(r)
      BY DEF ExactInv
    <2> QED
      BY <1>1, <2>1, Unturned DEF ExactOf
  <1>2. ASSUME UNCHANGED reads, Witness, placed \subseteq placed' PROVE ExactInv'
    BY <1>1, <1>2 DEF ExactInv
  <1>3. ASSUME NEW c \in Call, KitchenStep(c) PROVE ExactInv'
    BY <1>2, <1>3 DEF KitchenStep
  <1>4. ASSUME NEW o \in Order, Place(o) PROVE ExactInv'
    BY <1>2, <1>4 DEF Place
  <1>5. ASSUME NEW r \in Reader, Witness,
               \A q \in Reader \ {r} : reads'[q] = reads[q], placed' = placed,
               ExactOf(r)'
        PROVE  ExactInv'
    BY <1>1, <1>5 DEF ExactInv
  <1>6. ASSUME NEW r \in Reader, GetBill(r) PROVE ExactInv'
    <2>1. reads'[r].at = "list" /\ reads'[r].bill = {}
      BY <1>6 DEF GetBill, BillTypeOK, ReadState, NotReading
    <2> QED
      BY <1>5, <1>6, <2>1 DEF GetBill, ExactOf, BillTypeOK
  <1>7. ASSUME NEW r \in Reader, ListOrders(r) PROVE ExactInv'
    <2>1. reads[r].at = "list" /\ reads[r].bill = {}
      BY <1>7 DEF ListOrders, ExactInv, ExactOf
    <2>2. reads'[r].at = "order" /\ reads'[r].bill = {} /\ reads'[r].left = placed
      BY <1>7, <2>1 DEF ListOrders, BillTypeOK, ReadState
    <2>3. Due' \subseteq placed
      BY <1>7 DEF ListOrders, Due
    <2> QED
      BY <1>5, <1>7, <2>2, <2>3 DEF ListOrders, ExactOf, BillTypeOK
  <1>8. ASSUME NEW r \in Reader, NEW x \in Order, ReadOrder(r, x) PROVE ExactInv'
    <2>1. /\ reads' = [reads EXCEPT ![r] = reads'[r]]
          /\ reads[r].at = "order" /\ reads'[r].at = "order"
          /\ reads'[r].left = reads[r].left \ {x}
          /\ \/ status[x] = "cancelled" /\ reads'[r].bill = reads[r].bill
             \/ status[x] # "cancelled" /\ reads'[r].bill = reads[r].bill \cup {x}
      BY <1>8, ReadOne
    <2>2. Witness /\ x \in reads[r].left
      BY <1>8 DEF ReadOrder
    <2>3. x \in placed /\ reads[r].left \subseteq placed /\ placed' = placed
      BY <1>8, <2>1, <2>2 DEF ExactInv, ExactOf, ReadOrder
    <2>4. ExactOf(r)'
      <3>1. SUFFICES ASSUME NEW o \in Order \ turned'[r]
                     PROVE  IF o \in reads'[r].left THEN o \notin reads'[r].bill
                            ELSE o \in reads'[r].bill <=> o \in Due'
        BY <2>1, <2>3 DEF ExactOf
      <3>2. o \notin turned[r] /\ (o \in Due <=> o \in Due')
        BY <2>1, <2>2, Unturned
      <3>3. IF o \in reads[r].left THEN o \notin reads[r].bill
            ELSE o \in reads[r].bill <=> o \in Due
        BY <2>1, <3>2 DEF ExactInv, ExactOf
      <3>4. CASE o = x
        BY <2>1, <2>2, <2>3, <3>2, <3>3, <3>4 DEF Due
      <3>5. CASE o # x
        BY <2>1, <3>2, <3>3, <3>5
      <3> QED
        BY <3>4, <3>5
    <2>5. \A q \in Reader \ {r} : reads'[q] = reads[q]
      BY <2>1 DEF BillTypeOK
    <2> QED
      BY <1>5, <2>2, <2>3, <2>4, <2>5
  <1>9. ASSUME NEW r \in Reader, EndBill(r) PROVE ExactInv'
    <2>1. reads'[r].at = "none"
      BY <1>9 DEF EndBill, NotReading, BillTypeOK
    <2> QED
      BY <1>5, <1>9, <2>1 DEF EndBill, ExactOf
  <1>10. CASE UNCHANGED billVars
    BY <1>10 DEF billVars, vars, ExactInv, ExactOf, Due
  <1> QED
    BY <1>3, <1>4, <1>6, <1>7, <1>8, <1>9, <1>10 DEF BillNext

\* An order that is charged adds its own excess, a hundredth at most.
LEMMA BillSums ==
    ASSUME BillTypeOK, BillAddsUp, [BillNext]_billVars
    PROVE  BillAddsUp'
  <1> DEFINE Right(read) == Excess(read.sum) \in -read.n..read.n
  <1>1. \A r \in Reader : Right(reads[r])
    BY DEF BillAddsUp
  <1>2. SUFFICES \A q \in Reader : Right(reads'[q])
    BY DEF BillAddsUp
  <1>3. ASSUME NEW r \in Reader, GetBill(r) PROVE \A q \in Reader : Right(reads'[q])
    <2>1. reads'[r].n = reads[r].n /\ reads'[r].sum = reads[r].sum
      BY <1>3 DEF GetBill, BillTypeOK, ReadState
    <2>2. \A q \in Reader \ {r} : reads'[q] = reads[q]
      BY <1>3 DEF GetBill, BillTypeOK
    <2> QED
      BY <1>1, <2>1, <2>2
  <1>4. ASSUME NEW r \in Reader, ListOrders(r) PROVE \A q \in Reader : Right(reads'[q])
    <2>1. reads'[r].n = reads[r].n /\ reads'[r].sum = reads[r].sum
      BY <1>4 DEF ListOrders, BillTypeOK, ReadState
    <2>2. \A q \in Reader \ {r} : reads'[q] = reads[q]
      BY <1>4 DEF ListOrders, BillTypeOK
    <2> QED
      BY <1>1, <2>1, <2>2
  <1>5. ASSUME NEW r \in Reader, NEW o \in Order, ReadOrder(r, o)
        PROVE  \A q \in Reader : Right(reads'[q])
    <2>1. /\ reads' = [reads EXCEPT ![r] = reads'[r]]
          /\ \/ reads'[r].n = reads[r].n /\ reads'[r].sum = reads[r].sum
             \/ /\ reads'[r].n = reads[r].n + 1
                /\ Excess(reads'[r].sum) = Excess(reads[r].sum) + Excess(Amount[o])
      BY <1>5, ReadOne
    <2>2. Excess(Amount[o]) \in -1..1
      BY ExcessOfARow, AmountAssumption
    <2>3. reads[r].n \in Nat
      BY DEF BillTypeOK, ReadState
    <2>4. Right(reads'[r])
      BY <1>1, <2>1, <2>2, <2>3
    <2>5. \A q \in Reader \ {r} : reads'[q] = reads[q]
      BY <2>1 DEF BillTypeOK
    <2> QED
      BY <1>1, <2>4, <2>5
  <1>6. ASSUME NEW r \in Reader, EndBill(r) PROVE \A q \in Reader : Right(reads'[q])
    <2>1. reads'[r] = NotReading
      BY <1>6 DEF EndBill, BillTypeOK
    <2>2. Right(NotReading)
      BY DEF NotReading, Excess
    <2>3. \A q \in Reader \ {r} : reads'[q] = reads[q]
      BY <1>6 DEF EndBill, BillTypeOK
    <2> QED
      BY <1>1, <2>1, <2>2, <2>3
  <1>7. CASE UNCHANGED reads
    BY <1>1, <1>7
  <1> QED
    BY <1>3, <1>4, <1>5, <1>6, <1>7 DEF BillNext, KitchenStep, Place, billVars

LEMMA BillInductive == BillInv /\ [BillNext]_billVars => BillInv'
  <1> SUFFICES ASSUME BillInv, [BillNext]_billVars PROVE BillInv'
    OBVIOUS
  <1>1. KitchenInv'
    BY KitchenInductive, BillStepsAreKitchenSteps DEF BillInv
  <1>2. TypeOK'
    BY <1>1 DEF KitchenInv
  <1>3. BillTypeOK' /\ ExactInv' /\ BillAddsUp'
    BY <1>2, BillTypes, BillExactly, BillSums DEF BillInv
  <1> QED
    BY <1>1, <1>3 DEF BillInv

THEOREM BillInvariance == BillSpec => []BillInv
  BY BillStarts, BillInductive, PTL DEF BillSpec

-------------------------------------------------------------------------------
(* The theorems *)

\* Every reachable state of the bill and of the statuses it reads is well typed.
THEOREM BillTypeCorrect == BillSpec => []BillTypeOK
  <1>1. BillInv => BillTypeOK
    BY DEF BillInv
  <1> QED
    BY BillInvariance, <1>1, PTL

\* However many bills are read while any number of requests change any number of
\* orders, each has what was due all the time and nothing that never was
\* (payment_service.go:62-81).
THEOREM BillsAreExact == BillSpec => []BillIsExact
  <1>1. BillInv => BillIsExact
    <2> SUFFICES ASSUME BillInv, NEW r \in Reader,
                        reads[r].at = "order", reads[r].left = {}
                 PROVE  reads[r].bill \ turned[r] = Due \ turned[r]
      BY DEF BillIsExact
    <2>1. \A o \in Order \ turned[r] : o \in reads[r].bill <=> o \in Due
      BY DEF BillInv, ExactInv, ExactOf
    <2>2. reads[r].bill \subseteq Order /\ Due \subseteq Order
      BY DEF BillInv, BillTypeOK, ReadState, Due
    <2> QED
      BY <2>1, <2>2
  <1> QED
    BY BillInvariance, <1>1, PTL

\* A bill of n orders adds up but for n hundredths, for any amounts that are rounded
\* as the columns round them (order_service.go:134, 000007_order_details.up.sql).
THEOREM BillsAddUp == BillSpec => []BillAddsUp
  <1>1. BillInv => BillAddsUp
    BY DEF BillInv
  <1> QED
    BY BillInvariance, <1>1, PTL

\* The screens of those who miss no message agree with the database
\* (order_service.go:173-210).
THEOREM ScreensAgree == BillSpec => []ScreenAgrees
  <1>1. BillInv => ScreenAgrees
    BY DEF BillInv, KitchenInv, ScreenInv, ScreenAgrees
  <1> QED
    BY BillInvariance, <1>1, PTL

\* No cancellation gets past a line that has been served since before it began
\* (order_service.go:152-171).
THEOREM ServedIsNotCancelled == BillSpec => CancelHeedsServed
  <1> DEFINE Heeds == \A o \in Order, c \in Call :
                          calls[c].at = "update" /\ calls[c]'.at = "tell"
                              /\ calls[c].target = o /\ calls[c].to = "cancelled"
                          => stayed[c] = {}
  <1>1. BillInv => Heeds
    BY DEF BillInv, KitchenInv, StayedInv
  <1>2. BillInv /\ [BillNext]_billVars => [Heeds]_vars
    BY <1>1
  <1> QED
    BY BillInvariance, <1>2, PTL DEF BillSpec, CancelHeedsServed

===============================================================================
