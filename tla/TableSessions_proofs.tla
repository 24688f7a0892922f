------------------------ MODULE TableSessions_proofs ------------------------
(***************************************************************************)
(* Proofs about TableSessions, for any number of tables, sessions,         *)
(* payments and requests: types, PaidBeforeClosed, what of                 *)
(* ConfirmedLeavesActive holds at each moment, SoleOpenSession and         *)
(* StatusTellsOccupancy.  The last section says what a step may do to the  *)
(* status of a session; the modules that put others over its rows need it. *)
(***************************************************************************)
EXTENDS TableSessions, TLAPS

\* Rows that are referred to exist, and a request knows the table of the session
\* it works on.
RefsExist ==
    /\ \A p \in Payment : payments[p] # NoPaymentRow =>
           sessions[payments[p].session].table \in Table
    /\ \A j \in Job : job[j].session \in Session =>
           sessions[job[j].session].table = job[j].table

\* A request on its way to confirm or close a session has seen it paid.
JobsPaid ==
    \A j \in Job : job[j].at \in {"confirm_session", "close_session", "close_table"}
                       => Paid(job[j].session)

TypeInv == TypeOK /\ RefsExist

PaidInv == TypeInv /\ PaidBeforeClosed /\ JobsPaid

-----------------------------------------------------------------------------
(* What the types say of a row and of a request. *)

LEMMA SessionRowFields ==
    ASSUME TypeOK, NEW s \in Session
    PROVE  /\ sessions[s].table \in Table =>
                  sessions[s].status \in {"active", "payment_requested", "closed"}
           /\ sessions[s].status \in {"active", "payment_requested", "closed"} =>
                  sessions[s].table \in Table
           /\ sessions[s].table \notin Table => sessions[s] = NoSessionRow
           /\ sessions[s].table \in Table =>
                  sessions[s] = [table |-> sessions[s].table, status |-> sessions[s].status]
BY ConstantsAssumption DEF TypeOK, SessionRow, NoSessionRow

LEMMA PaymentRowFields ==
    ASSUME TypeOK, NEW p \in Payment
    PROVE  payments[p] # NoPaymentRow =>
               /\ payments[p].session \in Session
               /\ payments[p].status \in {"requested", "confirmed"}
               /\ payments[p] = [session |-> payments[p].session,
                                 status |-> payments[p].status]
BY ConstantsAssumption DEF TypeOK, PaymentRow, NoPaymentRow

LEMMA JobFields ==
    ASSUME TypeOK, NEW j \in Job
    PROVE  /\ job[j] # Idle => job[j].table \in Table
           /\ job[j].at \in ScanStage =>
                  /\ job[j].seen \in TableStatus
                  /\ job[j].session = NoSession
           /\ job[j].at \in CloseStage \cup {"pay_insert", "confirm_session"} =>
                  /\ job[j].seen = "none"
                  /\ job[j].session \in Session
           /\ job[j].at \in ScanStage \cup CloseStage \cup {"pay_insert", "confirm_session"} =>
                  /\ job[j] # Idle
                  /\ job[j] = [at |-> job[j].at, table |-> job[j].table,
                               seen |-> job[j].seen, session |-> job[j].session]
BY ConstantsAssumption DEF TypeOK, JobState, Idle, ScanStage, CloseStage

LEMMA NoteType ==
    ASSUME TypeOK, NEW t \in Table, NEW what \in SUBSET Mishap
    PROVE  Note(t, what) \in SUBSET (Table \X Mishap)
BY DEF TypeOK, Note
-----------------------------------------------------------------------------
(* Types. *)

LEMMA TypeInit == Init => TypeInv
  <1> SUFFICES ASSUME Init PROVE TypeInv
    OBVIOUS
  <1>1. TypeOK
    BY DEF Init, TypeOK, SessionRow, PaymentRow, JobState, TableStatus
  <1>2. RefsExist
    BY ConstantsAssumption DEF Init, RefsExist, Idle
  <1>. QED BY <1>1, <1>2 DEF TypeInv

LEMMA TypeStep == TypeInv /\ [Next]_vars => TypeInv'
  <1> SUFFICES ASSUME TypeInv, [Next]_vars PROVE TypeInv'
    OBVIOUS
  <1> USE DEF TypeInv
  <1>1. ASSUME NEW j \in Job, NEW t \in Table, ScanStart(j, t)
        PROVE  TypeInv'
    <2>1. TypeOK'
      BY <1>1, NoteType DEF ScanStart, TypeOK, Goto, JobState, ScanStage, Mishap
    <2>2. RefsExist'
      BY <1>1, ConstantsAssumption DEF ScanStart, RefsExist, TypeOK, Goto
    <2>. QED BY <2>1, <2>2
  <1>2. ASSUME NEW j \in Job, ScanFind(j)
        PROVE  TypeInv'
    <2>1. job[j].table \in Table /\ job[j].seen \in TableStatus /\ job[j].session = NoSession
      BY <1>2, JobFields DEF ScanFind, ScanStage
    <2>2. job'[j] \in JobState
      BY <1>2, <2>1, JobFields DEF ScanFind, Goto, JobState, ScanStage, TypeOK
    <2>3. TypeOK'
      BY <1>2, <2>1, <2>2, NoteType DEF ScanFind, TypeOK, Goto, Mishap
    <2>4. /\ job'[j].session = NoSession
          /\ \A k \in Job \ {j} : job'[k] = job[k]
      BY <1>2, <2>1, JobFields DEF ScanFind, ScanStage, TypeOK, Goto, Idle
    <2>5. RefsExist'
      BY <1>2, <2>4, ConstantsAssumption DEF ScanFind, RefsExist
    <2>. QED BY <2>3, <2>5
  <1>3. ASSUME NEW j \in Job, NEW s \in Session, ScanCreate(j, s)
        PROVE  TypeInv'
    <2>1. /\ job[j].table \in Table /\ job[j].seen \in TableStatus
          /\ job[j].session = NoSession
      BY <1>3, JobFields DEF ScanCreate, ScanStage
    <2>2. job'[j] \in JobState /\ sessions'[s] \in SessionRow
      BY <1>3, <2>1, JobFields DEF ScanCreate, Goto, JobState, ScanStage, TypeOK, SessionRow
    <2>3. TypeOK'
      BY <1>3, <2>2 DEF ScanCreate, TypeOK, Goto
    <2>4. \A p \in Payment : payments[p] # NoPaymentRow => payments[p].session # s
      BY <1>3, ConstantsAssumption DEF ScanCreate, RefsExist, NoSessionRow
    <2>5. \A k \in Job : job[k].session # s
      BY <1>3, JobFields, ConstantsAssumption
         DEF ScanCreate, RefsExist, NoSessionRow, TypeOK, JobState, Idle
    <2>6. RefsExist'
      BY <1>3, <2>1, <2>4, <2>5, PaymentRowFields, ConstantsAssumption
         DEF ScanCreate, RefsExist, TypeOK, Goto, Idle
    <2>. QED BY <2>3, <2>6
  <1>4. ASSUME NEW j \in Job, ScanServe(j)
        PROVE  TypeInv'
    <2>1. TypeOK'
      BY <1>4 DEF ScanServe, TypeOK, Goto, SetTableStatus, TableStatus, JobState
    <2>2. RefsExist'
      BY <1>4, ConstantsAssumption DEF ScanServe, RefsExist, TypeOK, Goto, Idle
    <2>. QED BY <2>1, <2>2
  <1>5. ASSUME NEW j \in Job, NEW s \in Session, PayStart(j, s)
        PROVE  TypeInv'
    <2>1. CASE sessions[s].status = "active"
      <3>1. sessions[s].table \in Table
        BY <2>1, SessionRowFields
      <3>2. TypeOK'
        BY <1>5, <2>1, <3>1 DEF PayStart, TypeOK, Goto, JobState
      <3>3. RefsExist'
        BY <1>5, <2>1 DEF PayStart, RefsExist, TypeOK, Goto
      <3>. QED BY <3>2, <3>3
    <2>2. CASE sessions[s].status # "active"
      BY <1>5, <2>2 DEF PayStart, TypeOK, RefsExist
    <2>. QED BY <2>1, <2>2
  <1>6. ASSUME NEW j \in Job, NEW p \in Payment, PayInsert(j, p)
        PROVE  TypeInv'
    <2>1. job[j].session \in Session /\ job[j].table \in Table
      BY <1>6, JobFields DEF PayInsert
    <2>2. TypeOK'
      BY <1>6, <2>1 DEF PayInsert, TypeOK, Goto, PaymentRow, JobState
    <2>3. RefsExist'
      BY <1>6, <2>1, ConstantsAssumption DEF PayInsert, RefsExist, TypeOK, Goto, Idle
    <2>. QED BY <2>2, <2>3
  <1>7. ASSUME NEW j \in Job, NEW p \in Payment, ConfirmPayment(j, p)
        PROVE  TypeInv'
    <2>1. payments[p].session \in Session /\ payments[p] # NoPaymentRow
      BY <1>7, PaymentRowFields DEF ConfirmPayment
    <2>2. sessions[payments[p].session].table \in Table
      BY <2>1 DEF RefsExist
    <2>3. payments'[p] = [session |-> payments[p].session, status |-> "confirmed"]
      BY <1>7, <2>1, PaymentRowFields DEF ConfirmPayment, TypeOK
    <2>4. TypeOK'
      BY <1>7, <2>1, <2>2, <2>3 DEF ConfirmPayment, TypeOK, Goto, PaymentRow, JobState
    <2>5. RefsExist'
      BY <1>7, <2>1, <2>2, <2>3, ConstantsAssumption
         DEF ConfirmPayment, RefsExist, TypeOK, Goto
    <2>. QED BY <2>4, <2>5
  <1>8. ASSUME NEW j \in Job, ConfirmSession(j)
        PROVE  TypeInv'
    <2> DEFINE s == job[j].session
    <2>1. s \in Session /\ job[j].table \in Table
      BY <1>8, JobFields DEF ConfirmSession
    <2>2. sessions[s].table \in Table
      BY <2>1 DEF RefsExist
    <2>3. sessions'[s] = [table |-> sessions[s].table, status |-> "payment_requested"]
      BY <1>8, <2>1, <2>2, SessionRowFields DEF ConfirmSession, SetSessionStatus, TypeOK
    <2>4. TypeOK'
      BY <1>8, <2>1, <2>2, <2>3, NoteType
         DEF ConfirmSession, SetSessionStatus, TypeOK, Goto, SessionRow, JobState, Mishap
    <2>5. RefsExist'
      BY <1>8, <2>1, <2>2, <2>3, ConstantsAssumption
         DEF ConfirmSession, SetSessionStatus, RefsExist, TypeOK, Goto, Idle
    <2>. QED BY <2>4, <2>5
  <1>9. ASSUME NEW j \in Job, NEW s \in Session, CloseStart(j, s)
        PROVE  TypeInv'
    <2>1. CASE sessions[s].status = "payment_requested"
      <3>1. sessions[s].table \in Table
        BY <2>1, SessionRowFields
      <3>2. TypeOK'
        BY <1>9, <2>1, <3>1, NoteType
           DEF CloseStart, TypeOK, Goto, JobState, CloseStage, Mishap
      <3>3. RefsExist'
        BY <1>9, <2>1 DEF CloseStart, RefsExist, TypeOK, Goto
      <3>. QED BY <3>2, <3>3
    <2>2. CASE sessions[s].status # "payment_requested"
      BY <1>9, <2>2 DEF CloseStart, TypeOK, RefsExist
    <2>. QED BY <2>1, <2>2
  <1>10. ASSUME NEW j \in Job, CloseSession(j)
         PROVE  TypeInv'
    <2> DEFINE s == job[j].session
    <2>1. s \in Session /\ job[j].table \in Table
      BY <1>10, JobFields DEF CloseSession, CloseStage
    <2>2. sessions[s].table = job[j].table
      BY <2>1 DEF RefsExist
    <2>3. sessions'[s] = [table |-> sessions[s].table, status |-> "closed"]
      BY <1>10, <2>1, <2>2, SessionRowFields DEF CloseSession, SetSessionStatus, TypeOK
    <2>4. job'[j] = [at |-> "close_table", table |-> job[j].table, seen |-> "none", session |-> s]
      BY <1>10, <2>1, JobFields DEF CloseSession, Goto, CloseStage, TypeOK
    <2>5. TypeOK'
      BY <1>10, <2>1, <2>2, <2>3, <2>4
         DEF CloseSession, SetSessionStatus, TypeOK, Goto, SessionRow, JobState, CloseStage
    <2>6. RefsExist'
      BY <1>10, <2>1, <2>2, <2>3, <2>4, ConstantsAssumption
         DEF CloseSession, SetSessionStatus, RefsExist, TypeOK, Goto
    <2>. QED BY <2>5, <2>6
  <1>11. ASSUME NEW j \in Job, CloseTable(j)
         PROVE  TypeInv'
    <2>1. TypeOK'
      BY <1>11 DEF CloseTable, TypeOK, Goto, SetTableStatus, TableStatus, JobState
    <2>2. RefsExist'
      BY <1>11, ConstantsAssumption DEF CloseTable, RefsExist, TypeOK, Goto, Idle
    <2>. QED BY <2>1, <2>2
  <1>12. ASSUME NEW j \in Job, Abort(j)
         PROVE  TypeInv'
    <2>1. TypeOK'
      BY <1>12, JobFields, NoteType DEF Abort, TypeOK, Goto, JobState, Mishap
    <2>2. RefsExist'
      BY <1>12, ConstantsAssumption DEF Abort, RefsExist, TypeOK, Goto, Idle
    <2>. QED BY <2>1, <2>2
  <1>13. CASE UNCHANGED vars
    BY <1>13 DEF vars, TypeOK, RefsExist
  <1>. QED BY <1>1, <1>2, <1>3, <1>4, <1>5, <1>6, <1>7, <1>8, <1>9, <1>10, <1>11, <1>12,
              <1>13 DEF Next, Begin, Continue

\* Every variable keeps its type: in particular a request never works on a row that
\* does not exist, and a status is never one the schema's CHECK refuses.
THEOREM TypeCorrect == Spec => []TypeOK
  <1>1. Spec => []TypeInv
    BY TypeInit, TypeStep, PTL DEF Spec
  <1>2. TypeInv => TypeOK
    BY DEF TypeInv
  <1>. QED BY <1>1, <1>2, PTL
-----------------------------------------------------------------------------
(* No session is closed unpaid. *)

\* A payment request that is confirmed stays so.
LEMMA PaidStays ==
    ASSUME TypeInv, [Next]_vars, NEW s \in Session, Paid(s)
    PROVE  Paid(s)'
  <1>1. PICK p \in Payment : payments[p] = [session |-> s, status |-> "confirmed"]
    BY DEF Paid
  <1>2. ASSUME NEW j \in Job, NEW q \in Payment, PayInsert(j, q)
        PROVE  payments'[p] = payments[p]
    BY <1>1, <1>2, ConstantsAssumption DEF PayInsert, TypeInv, TypeOK, NoPaymentRow
  <1>3. ASSUME NEW j \in Job, NEW q \in Payment, ConfirmPayment(j, q)
        PROVE  payments'[p] = payments[p]
    BY <1>1, <1>3 DEF ConfirmPayment, TypeInv, TypeOK
  <1>4. payments'[p] = payments[p]
    BY <1>2, <1>3 DEF Next, Begin, Continue, vars, ScanStart, ScanFind, ScanCreate, ScanServe,
       PayStart, ConfirmSession, CloseStart, CloseSession, CloseTable, Abort
  <1>. QED BY <1>1, <1>4 DEF Paid

LEMMA PaidStep == PaidInv /\ [Next]_vars => PaidInv'
  <1> SUFFICES ASSUME PaidInv, [Next]_vars PROVE PaidBeforeClosed' /\ JobsPaid'
    BY TypeStep DEF PaidInv
  <1> USE DEF PaidInv
  <1>1. \A s \in Session : Paid(s) => Paid(s)'
    BY PaidStays
  <1>2. ASSUME NEW j \in Job, NEW t \in Table, ScanStart(j, t)
        PROVE  PaidBeforeClosed' /\ JobsPaid'
    BY <1>1, <1>2, JobFields
       DEF ScanStart, Goto, PaidBeforeClosed, JobsPaid, TypeInv, TypeOK, CloseStage
  <1>3. ASSUME NEW j \in Job, ScanFind(j)
        PROVE  PaidBeforeClosed' /\ JobsPaid'
    <2>1. job'[j].at \in {"idle", "scan_create"} /\ \A k \in Job \ {j} : job'[k] = job[k]
      BY <1>3, JobFields DEF ScanFind, Goto, Idle, TypeInv, TypeOK, ScanStage
    <2>. QED BY <1>1, <1>3, <2>1, JobFields
                DEF ScanFind, PaidBeforeClosed, JobsPaid, TypeInv, CloseStage
  <1>4. ASSUME NEW j \in Job, NEW s \in Session, ScanCreate(j, s)
        PROVE  PaidBeforeClosed' /\ JobsPaid'
    <2>1. job'[j].at \in {"idle", "scan_serve"} /\ \A k \in Job \ {j} : job'[k] = job[k]
      BY <1>4, JobFields DEF ScanCreate, Goto, Idle, TypeInv, TypeOK, ScanStage
    <2>2. JobsPaid'
      BY <1>1, <2>1, JobFields DEF JobsPaid, TypeInv, CloseStage
    <2>3. PaidBeforeClosed'
      BY <1>1, <1>4 DEF ScanCreate, PaidBeforeClosed, TypeInv, TypeOK
    <2>. QED BY <2>2, <2>3
  <1>5. ASSUME NEW j \in Job, NEW p \in Payment, ConfirmPayment(j, p)
        PROVE  PaidBeforeClosed' /\ JobsPaid'
    <2>1. payments[p].session \in Session
      BY <1>5, PaymentRowFields DEF ConfirmPayment, TypeInv
    <2>2. payments'[p] = [session |-> payments[p].session, status |-> "confirmed"]
      BY <1>5, PaymentRowFields DEF ConfirmPayment, TypeInv, TypeOK
    <2>3. Paid(payments[p].session)'
      BY <1>5, <2>2 DEF ConfirmPayment, Paid
    <2>4. JobsPaid'
      BY <1>1, <1>5, <2>3, JobFields
         DEF ConfirmPayment, Goto, JobsPaid, TypeInv, TypeOK, CloseStage
    <2>5. PaidBeforeClosed'
      BY <1>1, <1>5 DEF ConfirmPayment, PaidBeforeClosed
    <2>. QED BY <2>4, <2>5
  <1>6. ASSUME NEW j \in Job, ConfirmSession(j)
        PROVE  PaidBeforeClosed' /\ JobsPaid'
    <2>1. Paid(job[j].session) /\ job[j].session \in Session
      BY <1>6, JobFields DEF ConfirmSession, JobsPaid, TypeInv
    <2>2. JobsPaid'
      BY <1>1, <1>6, JobFields
         DEF ConfirmSession, Goto, Idle, JobsPaid, TypeInv, TypeOK, CloseStage
    <2>3. PaidBeforeClosed'
      BY <1>1, <1>6, <2>1
         DEF ConfirmSession, SetSessionStatus, PaidBeforeClosed, TypeInv, TypeOK
    <2>. QED BY <2>2, <2>3
  <1>7. ASSUME NEW j \in Job, NEW s \in Session, CloseStart(j, s)
        PROVE  PaidBeforeClosed' /\ JobsPaid'
    <2>1. PaidBeforeClosed'
      BY <1>1, <1>7 DEF CloseStart, PaidBeforeClosed
    <2>2. CASE sessions[s].status = "payment_requested"
      BY <1>1, <1>7, <2>1, <2>2, JobFields
         DEF CloseStart, Goto, JobsPaid, PaidBeforeClosed, TypeInv, TypeOK, CloseStage
    <2>3. CASE sessions[s].status # "payment_requested"
      BY <1>1, <1>7, <2>1, <2>3, JobFields DEF CloseStart, JobsPaid, TypeInv, CloseStage
    <2>. QED BY <2>2, <2>3
  <1>8. ASSUME NEW j \in Job, CloseSession(j)
        PROVE  PaidBeforeClosed' /\ JobsPaid'
    <2>1. Paid(job[j].session) /\ job[j].session \in Session
      BY <1>8, JobFields DEF CloseSession, JobsPaid, TypeInv, CloseStage
    <2>2. job'[j].session = job[j].session /\ \A k \in Job \ {j} : job'[k] = job[k]
      BY <1>8, JobFields DEF CloseSession, Goto, TypeInv, TypeOK, CloseStage
    <2>3. JobsPaid'
      BY <1>1, <1>8, <2>1, <2>2, JobFields DEF JobsPaid, TypeInv, CloseStage
    <2>4. PaidBeforeClosed'
      BY <1>1, <1>8, <2>1
         DEF CloseSession, SetSessionStatus, PaidBeforeClosed, TypeInv, TypeOK
    <2>. QED BY <2>3, <2>4
  <1>9. ASSUME NEW j \in Job,
               \/ ScanServe(j) \/ CloseTable(j) \/ Abort(j)
               \/ \E p \in Payment : PayInsert(j, p)
        PROVE  PaidBeforeClosed' /\ JobsPaid'
    <2>1. job'[j] = Idle /\ UNCHANGED sessions /\ \A k \in Job \ {j} : job'[k] = job[k]
      BY <1>9 DEF ScanServe, CloseTable, Abort, PayInsert, Goto, TypeInv, TypeOK
    <2>2. job'[j].at = "idle"
      BY <2>1 DEF Idle
    <2>3. JobsPaid'
      BY <1>1, <2>1, <2>2, JobFields DEF JobsPaid, TypeInv, CloseStage
    <2>4. PaidBeforeClosed'
      BY <1>1, <2>1 DEF PaidBeforeClosed
    <2>. QED BY <2>3, <2>4
  <1>10. ASSUME NEW j \in Job, NEW s \in Session, PayStart(j, s)
         PROVE  PaidBeforeClosed' /\ JobsPaid'
    BY <1>1, <1>10, JobFields
       DEF PayStart, Goto, PaidBeforeClosed, JobsPaid, TypeInv, TypeOK, CloseStage
  <1>11. CASE UNCHANGED vars
    BY <1>11 DEF vars, PaidBeforeClosed, JobsPaid, Paid
  <1>. QED BY <1>2, <1>3, <1>4, <1>5, <1>6, <1>7, <1>8, <1>9, <1>10, <1>11
           DEF Next, Begin, Continue

\* Whatever interleaves, repeats or stops half-way, a session that has left 'active'
\* has a confirmed payment request of its own.
THEOREM NeverClosedUnpaid == Spec => []PaidBeforeClosed
  <1>1. Init => PaidInv
    <2> SUFFICES ASSUME Init PROVE PaidInv
      OBVIOUS
    <2>1. PaidBeforeClosed
      BY DEF Init, PaidBeforeClosed, NoSessionRow
    <2>2. JobsPaid
      BY DEF Init, JobsPaid, Idle
    <2>. QED BY TypeInit, <2>1, <2>2 DEF PaidInv
  <1>2. Spec => []PaidInv
    BY <1>1, PaidStep, PTL DEF Spec
  <1>3. PaidInv => PaidBeforeClosed
    BY DEF PaidInv
  <1>. QED BY <1>2, <1>3, PTL
-----------------------------------------------------------------------------
(* No confirmed payment is forgotten: what ConfirmedLeavesActive says at each moment. *)

Confirming(s) == \E j \in Job : job[j].at = "confirm_session" /\ job[j].session = s

\* A session that is paid and still active is about to be updated, or the request
\* that was to do so stopped.
PaidIsAttended ==
    \A s \in Session :
        Paid(s) /\ sessions[s].status = "active" => Confirming(s) \/ s \in halted

\* Only who ends its confirmation, or stops, ceases to confirm.
LEMMA ConfirmingStays ==
    ASSUME TypeInv, [Next]_vars, NEW s \in Session, Confirming(s)
    PROVE  \/ Confirming(s)'
           \/ sessions'[s].status = "payment_requested"
           \/ s \in halted' \/ sessions'[s].status # "active"
  <1>1. PICK j \in Job : job[j].at = "confirm_session" /\ job[j].session = s
    BY DEF Confirming
  <1>2. job[j] # Idle
    BY <1>1 DEF Idle
  <1>3. CASE job'[j] = job[j]
    BY <1>1, <1>3 DEF Confirming
  <1>4. CASE ConfirmSession(j)
    BY <1>1, <1>4 DEF ConfirmSession, SetSessionStatus, TypeInv, TypeOK
  <1>5. CASE Abort(j)
    <2>1. sessions' = sessions
      BY <1>5 DEF Abort
    <2>2. sessions[s].status = "active" => s \in halted'
      BY <1>1, <1>5 DEF Abort
    <2> QED BY <2>1, <2>2
  <1>6. ASSUME NEW k \in Job, k # j, Begin(k) \/ Continue(k) \/ Abort(k)
        PROVE  job'[j] = job[j]
    <2>1. CASE Begin(k)
      BY <1>6, <2>1 DEF Begin, ScanStart, PayStart, ConfirmPayment, CloseStart, Goto, TypeInv, TypeOK
    <2>2. CASE ScanFind(k)
      BY <1>6, <2>2 DEF ScanFind, Goto, TypeInv, TypeOK
    <2>3. CASE \E r \in Session : ScanCreate(k, r)
      BY <1>6, <2>3 DEF ScanCreate, Goto, TypeInv, TypeOK
    <2>4. CASE \/ ScanServe(k) \/ ConfirmSession(k) \/ CloseSession(k) \/ CloseTable(k)
               \/ Abort(k) \/ \E p \in Payment : PayInsert(k, p)
      BY <1>6, <2>4 DEF ScanServe, ConfirmSession, CloseSession, CloseTable, Abort, PayInsert, Goto, TypeInv, TypeOK
    <2> QED BY <1>6, <2>1, <2>2, <2>3, <2>4 DEF Continue
  <1>7. Begin(j) => FALSE
    BY <1>2 DEF Begin, ScanStart, PayStart, ConfirmPayment, CloseStart
  <1>8. Continue(j) => ConfirmSession(j)
    BY <1>1 DEF Continue, ScanFind, ScanCreate, ScanServe, PayInsert, CloseSession, CloseTable
  <1>9. CASE UNCHANGED vars
    BY <1>3, <1>9 DEF vars
  <1> QED BY <1>3, <1>4, <1>5, <1>6, <1>7, <1>8, <1>9 DEF Next

\* Only a new confirmation, or the UPDATE itself, takes the mark away.
LEMMA HaltedStays ==
    ASSUME TypeInv, [Next]_vars, NEW s \in Session, s \in halted
    PROVE  s \in halted' \/ Confirming(s)' \/ sessions'[s].status # "active"
  <1>1. ASSUME NEW j \in Job, NEW p \in Payment, ConfirmPayment(j, p), payments[p].session = s
        PROVE  Confirming(s)'
    <2>1. job'[j].at = "confirm_session" /\ job'[j].session = s
      BY <1>1 DEF ConfirmPayment, Goto, TypeInv, TypeOK
    <2> QED BY <2>1 DEF Confirming
  <1>2. ASSUME NEW j \in Job, ConfirmSession(j), job[j].session = s
        PROVE  sessions'[s].status # "active"
    BY <1>2 DEF ConfirmSession, SetSessionStatus, TypeInv, TypeOK
  <1> QED BY <1>1, <1>2 DEF Next, Begin, Continue, vars, ScanStart, ScanFind, ScanCreate, ScanServe,
          PayStart, PayInsert, ConfirmPayment, ConfirmSession, CloseStart, CloseSession,
          CloseTable, Abort

LEMMA AttendedStep == TypeInv /\ PaidIsAttended /\ [Next]_vars => PaidIsAttended'
  <1> SUFFICES ASSUME TypeInv, PaidIsAttended, [Next]_vars, NEW s \in Session,
                      Paid(s)', sessions'[s].status = "active"
               PROVE  Confirming(s)' \/ s \in halted'
    BY DEF PaidIsAttended
  <1>1. CASE Paid(s)
    <2>1. sessions[s].status = "active"
      <3>1. PICK p \in Payment : payments[p] = [session |-> s, status |-> "confirmed"]
        BY <1>1 DEF Paid
      <3>2. sessions[s].table \in Table
        BY <3>1, ConstantsAssumption DEF TypeInv, RefsExist, NoPaymentRow
      <3>3. sessions[s] # NoSessionRow
        BY <3>2, ConstantsAssumption DEF NoSessionRow
      <3>4. ASSUME NEW j \in Job, NEW r \in Session, ScanCreate(j, r)
            PROVE  sessions'[s] = sessions[s]
        BY <3>3, <3>4 DEF ScanCreate, TypeInv, TypeOK
      <3>5. ASSUME NEW j \in Job, ConfirmSession(j) \/ CloseSession(j)
            PROVE  sessions'[s].status = sessions[s].status
        <4>1. job[j].session \in Session
          BY <3>5, JobFields DEF ConfirmSession, CloseSession, CloseStage, TypeInv
        <4>2. \E st \in {"payment_requested", "closed"} :
                  sessions' = [sessions EXCEPT ![job[j].session].status = st]
          BY <3>5 DEF ConfirmSession, CloseSession, SetSessionStatus
        <4> QED BY <4>1, <4>2 DEF TypeInv, TypeOK
      <3>6. sessions'[s].status = sessions[s].status
        BY <3>4, <3>5 DEF Next, Begin, Continue, vars, ScanStart, ScanFind, ScanServe, PayStart,
           PayInsert, ConfirmPayment, CloseStart, CloseTable, Abort
      <3> QED BY <3>6
    <2>2. Confirming(s) \/ s \in halted
      BY <1>1, <2>1 DEF PaidIsAttended
    <2> QED BY <2>2, ConfirmingStays, HaltedStays
  <1>2. CASE ~ Paid(s)
    <2>1. payments' # payments
      BY <1>2 DEF Paid
    <2>2. ASSUME NEW j \in Job, NEW p \in Payment, PayInsert(j, p) PROVE FALSE
      BY <1>2, <2>2 DEF PayInsert, Paid, TypeInv, TypeOK
    <2>3. PICK j \in Job, p \in Payment : ConfirmPayment(j, p)
      BY <2>1, <2>2 DEF Next, Begin, Continue, vars, ScanStart, ScanFind, ScanCreate, ScanServe,
         PayStart, ConfirmSession, CloseStart, CloseSession, CloseTable, Abort
    <2>4. payments[p].session = s
      BY <1>2, <2>3 DEF ConfirmPayment, Paid, TypeInv, TypeOK
    <2>5. job'[j].at = "confirm_session" /\ job'[j].session = s
      BY <2>3, <2>4 DEF ConfirmPayment, Goto, TypeInv, TypeOK
    <2> QED BY <2>5 DEF Confirming
  <1> QED BY <1>1, <1>2

\* A session whose payment is confirmed and that still takes orders has a request
\* about to update it, or the last that was to do so stopped, and nothing else at
\* its table counts; with fairness ConfirmedLeavesActive follows.
THEOREM PaidSessionsAttended == Spec => []PaidIsAttended
  <1>1. Init => PaidIsAttended
    BY DEF Init, PaidIsAttended, NoSessionRow
  <1>2. Spec => []TypeInv
    BY TypeInit, TypeStep, PTL DEF Spec
  <1> QED BY <1>1, <1>2, AttendedStep, PTL DEF Spec
-----------------------------------------------------------------------------
(* One open session per table. *)

Undisturbed(t) == <<t, "twin_scan">> \notin mishap /\ <<t, "reopen">> \notin mishap

\* The scans that found table t without a session and are about to open one.
Creating(t) == {j \in Job : job[j].at = "scan_create" /\ job[j].table = t}

\* Unless something disturbed the table, at most one scan is about to open a
\* session, and then there is none. Without this a scan's finding could be stale.
SoleAt(t) ==
    /\ \A s1, s2 \in OpenSessions(t) : s1 = s2
    /\ \A j1, j2 \in Creating(t) : j1 = j2
    /\ Creating(t) # {} => OpenSessions(t) = {}

SoleInv == TypeInv /\ \A t \in Table : Undisturbed(t) => SoleAt(t)

\* What a step must leave alone, or only shrink, to keep SoleAt.
LEMMA SoleShrinks ==
    ASSUME NEW t \in Table, SoleAt(t),
           OpenSessions(t)' \subseteq OpenSessions(t), Creating(t)' \subseteq Creating(t)
    PROVE  SoleAt(t)'
BY DEF SoleAt

LEMMA UndisturbedBefore ==
    ASSUME [Next]_vars, NEW t \in Table, Undisturbed(t)'
    PROVE  Undisturbed(t)
  <1>1. mishap \subseteq mishap'
    BY DEF Next, Begin, Continue, vars, Note, ScanStart, ScanFind, ScanCreate, ScanServe,
       PayStart, PayInsert, ConfirmPayment, ConfirmSession, CloseStart, CloseSession,
       CloseTable, Abort
  <1>. QED BY <1>1 DEF Undisturbed

LEMMA SoleStep == SoleInv /\ [Next]_vars => SoleInv'
  <1> SUFFICES ASSUME SoleInv, [Next]_vars, NEW t \in Table, Undisturbed(t)'
               PROVE  SoleAt(t)'
    BY TypeStep DEF SoleInv
  <1>1. SoleAt(t) /\ TypeInv /\ TypeOK
    BY UndisturbedBefore DEF SoleInv, TypeInv
  <1>2. ASSUME NEW j \in Job, NEW u \in Table, ScanStart(j, u)
        PROVE  SoleAt(t)'
    <2>1. Creating(t)' \subseteq Creating(t)
      BY <1>1, <1>2 DEF ScanStart, Goto, Creating, TypeOK
    <2>. QED BY <1>1, <1>2, <2>1, SoleShrinks DEF ScanStart, OpenSessions
  <1>3. ASSUME NEW j \in Job, ScanFind(j)
        PROVE  SoleAt(t)'
    <2>1. OpenSessions(t)' = OpenSessions(t)
      BY <1>3 DEF ScanFind, OpenSessions
    <2>2. \A k \in Job \ {j} : job'[k] = job[k]
      BY <1>1, <1>3 DEF ScanFind, Goto, TypeOK
    <2>3. CASE OpenSessions(job[j].table) # {}
      <3>1. job'[j].at = "idle"
        BY <1>1, <1>3, <2>3 DEF ScanFind, Goto, Idle, TypeOK
      <3>. QED BY <1>1, <2>1, <2>2, <3>1, SoleShrinks DEF Creating
    <2>4. CASE OpenSessions(job[j].table) = {} /\ job[j].table # t
      <3>1. job'[j].table # t
        BY <1>1, <1>3, <2>4, JobFields DEF ScanFind, Goto, TypeOK, ScanStage
      <3>. QED BY <1>1, <2>1, <2>2, <3>1, SoleShrinks DEF Creating
    <2>5. CASE OpenSessions(job[j].table) = {} /\ job[j].table = t
      <3>1. ~ \E k \in Job : job[k].table = t /\ job[k].at = "scan_create"
        BY <1>3, <2>5 DEF ScanFind, Note, Undisturbed
      <3>2. Creating(t)' \subseteq {j}
        BY <2>2, <3>1 DEF Creating
      <3>. QED BY <2>1, <2>5, <3>2 DEF SoleAt
    <2>. QED BY <2>3, <2>4, <2>5
  <1>4. ASSUME NEW j \in Job, NEW s \in Session, ScanCreate(j, s)
        PROVE  SoleAt(t)'
    <2>1. job'[j].at # "scan_create" /\ \A k \in Job \ {j} : job'[k] = job[k]
      BY <1>1, <1>4, JobFields DEF ScanCreate, Goto, Idle, TypeOK, ScanStage
    <2>2. Creating(t)' \subseteq Creating(t) \ {j}
      BY <2>1 DEF Creating
    <2>3. CASE job[j].table # t
      <3>1. OpenSessions(t)' \subseteq OpenSessions(t)
        BY <1>1, <1>4, <2>3 DEF ScanCreate, OpenSessions, TypeOK
      <3>. QED BY <1>1, <2>2, <3>1, SoleShrinks
    <2>4. CASE job[j].table = t
      <3>1. j \in Creating(t)
        BY <1>4, <2>4 DEF ScanCreate, Creating
      <3>2. OpenSessions(t) = {} /\ Creating(t)' = {}
        BY <1>1, <2>2, <3>1 DEF SoleAt
      <3>3. OpenSessions(t)' \subseteq {s}
        BY <1>1, <1>4, <3>2 DEF ScanCreate, OpenSessions, TypeOK
      <3>. QED BY <3>2, <3>3 DEF SoleAt
    <2>. QED BY <2>3, <2>4
  <1>5. ASSUME NEW j \in Job, ConfirmSession(j)
        PROVE  SoleAt(t)'
    <2> DEFINE s == job[j].session
    <2>1. s \in Session /\ sessions[s].table \in Table
      BY <1>1, <1>5, JobFields DEF ConfirmSession, TypeInv, RefsExist
    <2>2. sessions'[s].table = sessions[s].table /\ \A r \in Session \ {s} : sessions'[r] = sessions[r]
      BY <1>1, <1>5, <2>1, SessionRowFields DEF ConfirmSession, SetSessionStatus, TypeOK
    <2>3. sessions[s].table = t => sessions[s].status # "closed"
      BY <1>5 DEF ConfirmSession, Note, Undisturbed
    <2>4. OpenSessions(t)' \subseteq OpenSessions(t)
      BY <1>1, <2>1, <2>2, <2>3, SessionRowFields DEF OpenSessions
    <2>5. Creating(t)' \subseteq Creating(t)
      BY <1>1, <1>5 DEF ConfirmSession, Goto, Idle, Creating, TypeOK
    <2>. QED BY <1>1, <2>4, <2>5, SoleShrinks
  <1>6. ASSUME NEW j \in Job, CloseSession(j)
        PROVE  SoleAt(t)'
    <2>1. job[j].session \in Session
      BY <1>1, <1>6, JobFields DEF CloseSession, CloseStage
    <2>2. /\ sessions'[job[j].session].status = "closed"
          /\ \A r \in Session \ {job[j].session} : sessions'[r] = sessions[r]
      BY <1>1, <1>6, <2>1, SessionRowFields
         DEF CloseSession, SetSessionStatus, TypeOK, TypeInv, RefsExist
    <2>3. OpenSessions(t)' \subseteq OpenSessions(t)
      BY <2>1, <2>2 DEF OpenSessions
    <2>4. job'[j].at = "close_table" /\ \A k \in Job \ {j} : job'[k] = job[k]
      BY <1>1, <1>6, JobFields DEF CloseSession, Goto, TypeOK, CloseStage
    <2>5. Creating(t)' \subseteq Creating(t)
      BY <2>4 DEF Creating
    <2>. QED BY <1>1, <2>3, <2>5, SoleShrinks
  <1>7. ASSUME NEW j \in Job,
               \/ ScanServe(j) \/ CloseTable(j) \/ Abort(j)
               \/ \E p \in Payment : PayInsert(j, p) \/ ConfirmPayment(j, p)
               \/ \E s \in Session : PayStart(j, s) \/ CloseStart(j, s)
        PROVE  SoleAt(t)'
    <2>1. OpenSessions(t)' = OpenSessions(t)
      BY <1>7 DEF ScanServe, CloseTable, Abort, PayInsert, ConfirmPayment, PayStart,
                  CloseStart, OpenSessions
    <2>2. job'[j] = job[j] \/ job'[j].at # "scan_create"
      BY <1>1, <1>7 DEF ScanServe, CloseTable, Abort, PayInsert, ConfirmPayment, PayStart,
                  CloseStart, Goto, Idle, TypeOK
    <2>3. \A k \in Job \ {j} : job'[k] = job[k]
      BY <1>1, <1>7 DEF ScanServe, CloseTable, Abort, PayInsert, ConfirmPayment, PayStart,
                  CloseStart, Goto, TypeOK
    <2>4. Creating(t)' \subseteq Creating(t)
      BY <2>2, <2>3 DEF Creating
    <2>. QED BY <1>1, <2>1, <2>4, SoleShrinks
  <1>8. CASE UNCHANGED vars
    BY <1>1, <1>8, SoleShrinks DEF vars, OpenSessions, Creating
  <1>. QED BY <1>2, <1>3, <1>4, <1>5, <1>6, <1>7, <1>8 DEF Next, Begin, Continue

\* A table has at most one open session unless two scans both found it free or a
\* confirmation reopened a closed session.
THEOREM OneOpenSession == Spec => []SoleOpenSession
  <1>1. Init => SoleInv
    <2> SUFFICES ASSUME Init PROVE \A t \in Table : SoleAt(t)
      BY TypeInit DEF SoleInv
    <2>1. \A t \in Table : OpenSessions(t) = {}
      BY DEF Init, OpenSessions, NoSessionRow
    <2>2. \A t \in Table : Creating(t) = {}
      BY DEF Init, Creating, Idle
    <2>. QED BY <2>1, <2>2 DEF SoleAt
  <1>2. Spec => []SoleInv
    BY <1>1, SoleStep, PTL DEF Spec
  <1>3. SoleInv => SoleOpenSession
    BY DEF SoleInv, SoleAt, SoleOpenSession, Undisturbed
  <1>. QED BY <1>2, <1>3, PTL
-----------------------------------------------------------------------------
(* The status of a table and its open session. *)

Orderly(t) == \A m \in {"overlap", "abort", "reopen"} : <<t, m>> \notin mishap

Tells(t) == (tableStatus[t] = "serving") <=> (OpenSessions(t) # {})

\* What a request at the table knows, and what of its writes is still missing.
WorkAt(t, j) ==
    /\ job[j].at \in {"scan_find", "scan_create"} =>
           job[j].seen = tableStatus[t] /\ job[j].seen \in {"ready", "serving"}
    /\ job[j].at \in {"scan_create", "close_table"} => OpenSessions(t) = {}
    /\ job[j].at = "scan_serve" => OpenSessions(t) # {}
    /\ job[j].at = "close_session" => job[j].session \in OpenSessions(t)
    /\ job[j].at \notin {"scan_serve", "close_table"} => Tells(t)

\* As long as the scans and closings of a table follow one another, each finds it as
\* the one before left it: this is what makes what a scan read of the table, in an
\* earlier statement, still true when it decides whether to write its status.
OrderAt(t) ==
    /\ \A j1, j2 \in BusyAt(t) : j1 = j2
    /\ \A s1, s2 \in OpenSessions(t) : s1 = s2
    /\ BusyAt(t) = {} => Tells(t)
    /\ \A j \in BusyAt(t) : WorkAt(t, j)

OrderInv == TypeInv /\ \A t \in Table : Orderly(t) => OrderAt(t)

LEMMA OrderlyBefore ==
    ASSUME [Next]_vars, NEW t \in Table, Orderly(t)'
    PROVE  Orderly(t)
  <1>1. mishap \subseteq mishap'
    BY DEF Next, Begin, Continue, vars, Note, ScanStart, ScanFind, ScanCreate, ScanServe,
       PayStart, PayInsert, ConfirmPayment, ConfirmSession, CloseStart, CloseSession,
       CloseTable, Abort
  <1>. QED BY <1>1 DEF Orderly

LEMMA JobMoves ==
    ASSUME TypeOK, NEW j \in Job, NEW x, Goto(j, x)
    PROVE  job'[j] = x /\ \A k \in Job \ {j} : job'[k] = job[k]
BY DEF TypeOK, Goto

LEMMA StageMoves ==
    ASSUME TypeOK, NEW j \in Job, job[j].at \in ScanStage \cup CloseStage, NEW stage,
           Goto(j, [job[j] EXCEPT !.at = stage])
    PROVE  /\ job'[j].at = stage /\ job'[j].table = job[j].table
           /\ job'[j].seen = job[j].seen /\ job'[j].session = job[j].session
           /\ \A k \in Job \ {j} : job'[k] = job[k]
  <1>1. job[j] = [at |-> job[j].at, table |-> job[j].table, seen |-> job[j].seen,
                  session |-> job[j].session]
    BY JobFields
  <1>2. job'[j] = [job[j] EXCEPT !.at = stage] /\ \A k \in Job \ {j} : job'[k] = job[k]
    BY JobMoves
  <1>. QED BY <1>1, <1>2

\* A step that does not concern the table.
LEMMA ElsewhereKept ==
    ASSUME NEW t \in Table, OrderAt(t), tableStatus'[t] = tableStatus[t],
           OpenSessions(t)' = OpenSessions(t), NEW j \in Job, j \notin BusyAt(t),
           job'[j].table = t => job'[j].at \notin ScanStage \cup CloseStage,
           \A k \in Job \ {j} : job'[k] = job[k]
    PROVE  OrderAt(t)'
  <1>1. BusyAt(t)' = BusyAt(t)
    BY DEF BusyAt
  <1>2. \A k \in BusyAt(t) : job'[k] = job[k]
    BY DEF BusyAt
  <1>. QED BY <1>1, <1>2 DEF OrderAt, WorkAt, Tells

\* A step of the one request at the table.
LEMMA AloneKept ==
    ASSUME NEW t \in Table, NEW j \in Job, BusyAt(t) \subseteq {j},
           \A k \in Job \ {j} : job'[k] = job[k],
           \A s1, s2 \in OpenSessions(t)' : s1 = s2,
           j \in BusyAt(t)' => WorkAt(t, j)',
           j \notin BusyAt(t)' => Tells(t)'
    PROVE  OrderAt(t)'
  <1>1. BusyAt(t)' \subseteq {j}
    BY DEF BusyAt
  <1>. QED BY <1>1 DEF OrderAt

LEMMA OccupancyStep == OrderInv /\ [Next]_vars => OrderInv'
  <1> SUFFICES ASSUME OrderInv, [Next]_vars, NEW t \in Table, Orderly(t)'
               PROVE  OrderAt(t)'
    BY TypeStep DEF OrderInv
  <1>0. OrderAt(t) /\ TypeInv /\ TypeOK /\ RefsExist
    BY OrderlyBefore DEF OrderInv, TypeInv
  <1>a. ASSUME NEW j \in Job, j \in BusyAt(t) PROVE BusyAt(t) = {j} /\ WorkAt(t, j)
    BY <1>0, <1>a DEF OrderAt
  <1>b. ASSUME NEW j \in Job, Goto(j, Idle)
        PROVE  /\ job'[j].at = "idle" /\ j \notin BusyAt(t)'
               /\ \A k \in Job \ {j} : job'[k] = job[k]
    BY <1>0, <1>b, JobMoves DEF Idle, BusyAt, ScanStage, CloseStage
  <1>1. ASSUME NEW j \in Job, NEW u \in Table, ScanStart(j, u)
        PROVE  OrderAt(t)'
    <2>0. UNCHANGED <<tableStatus, sessions>> /\ j \notin BusyAt(t)
      BY <1>1 DEF ScanStart, BusyAt, Idle, ScanStage, CloseStage
    <2>1. OpenSessions(t)' = OpenSessions(t)
      BY <2>0 DEF OpenSessions
    <2>2. CASE ~ Servable(u, tableStatus[u])
      BY <1>0, <1>1, <2>0, <2>1, <2>2, ElsewhereKept DEF ScanStart, Idle, ScanStage, CloseStage
    <2>3. CASE Servable(u, tableStatus[u])
      <3>1. /\ job'[j] = [at |-> "scan_find", table |-> u, seen |-> tableStatus[u],
                          session |-> NoSession]
            /\ \A k \in Job \ {j} : job'[k] = job[k]
        BY <1>0, <1>1, <2>3, JobMoves DEF ScanStart
      <3>2. CASE u # t
        BY <1>0, <2>0, <2>1, <3>1, <3>2, ElsewhereKept
      <3>3. CASE u = t
        <4>1. BusyAt(t) = {}
          BY <1>1, <2>3, <3>3 DEF ScanStart, Note, Orderly
        <4>2. Tells(t)' /\ tableStatus[t] \in {"ready", "serving"}
          BY <1>0, <2>0, <2>1, <2>3, <3>3, <4>1 DEF OrderAt, Tells, Servable
        <4>3. WorkAt(t, j)'
          BY <2>0, <3>1, <3>3, <4>2 DEF WorkAt
        <4>. QED BY <1>0, <2>1, <3>1, <4>1, <4>2, <4>3, AloneKept DEF OrderAt
      <3>. QED BY <3>2, <3>3
    <2>. QED BY <2>2, <2>3
  <1>2. ASSUME NEW j \in Job, NEW s \in Session, CloseStart(j, s)
        PROVE  OrderAt(t)'
    <2>0. UNCHANGED <<tableStatus, sessions>> /\ j \notin BusyAt(t)
      BY <1>2 DEF CloseStart, BusyAt, Idle, ScanStage, CloseStage
    <2>1. OpenSessions(t)' = OpenSessions(t)
      BY <2>0 DEF OpenSessions
    <2>2. CASE sessions[s].status # "payment_requested"
      BY <1>0, <1>2, <2>0, <2>1, <2>2, ElsewhereKept DEF CloseStart, Idle, ScanStage, CloseStage
    <2>3. CASE sessions[s].status = "payment_requested"
      <3>1. /\ job'[j] = [at |-> "close_session", table |-> sessions[s].table, seen |-> "none",
                          session |-> s]
            /\ \A k \in Job \ {j} : job'[k] = job[k]
        BY <1>0, <1>2, <2>3, JobMoves DEF CloseStart
      <3>2. CASE sessions[s].table # t
        BY <1>0, <2>0, <2>1, <3>1, <3>2, ElsewhereKept
      <3>3. CASE sessions[s].table = t
        <4>1. BusyAt(t) = {}
          BY <1>2, <2>3, <3>3 DEF CloseStart, Note, Orderly
        <4>2. Tells(t)' /\ s \in OpenSessions(t)'
          BY <1>0, <2>0, <2>1, <2>3, <3>3, <4>1 DEF OrderAt, Tells, OpenSessions
        <4>3. WorkAt(t, j)'
          BY <3>1, <4>2 DEF WorkAt
        <4>. QED BY <1>0, <2>1, <3>1, <4>1, <4>2, <4>3, AloneKept DEF OrderAt
      <3>. QED BY <3>2, <3>3
    <2>. QED BY <2>2, <2>3
  <1>3. ASSUME NEW j \in Job, ScanFind(j)
        PROVE  OrderAt(t)'
    <2>0. UNCHANGED <<tableStatus, sessions>> /\ job[j].at = "scan_find"
      BY <1>3 DEF ScanFind
    <2>1. OpenSessions(t)' = OpenSessions(t)
      BY <2>0 DEF OpenSessions
    <2>2. CASE OpenSessions(job[j].table) # {}
      <3>1. Goto(j, Idle)
        BY <1>3, <2>2 DEF ScanFind
      <3>2. CASE job[j].table # t
        BY <1>0, <1>b, <2>0, <2>1, <3>1, <3>2, ElsewhereKept DEF BusyAt, ScanStage, CloseStage
      <3>3. CASE job[j].table = t
        <4>1. BusyAt(t) = {j} /\ WorkAt(t, j)
          BY <1>a, <2>0, <3>3 DEF BusyAt, ScanStage
        <4>2. Tells(t)'
          BY <2>0, <2>1, <4>1 DEF WorkAt, Tells
        <4>. QED BY <1>0, <1>b, <2>1, <3>1, <4>1, <4>2, AloneKept DEF OrderAt
      <3>. QED BY <3>2, <3>3
    <2>3. CASE OpenSessions(job[j].table) = {}
      <3>1. /\ job'[j].at = "scan_create" /\ job'[j].table = job[j].table
            /\ job'[j].seen = job[j].seen
            /\ \A k \in Job \ {j} : job'[k] = job[k]
        BY <1>0, <1>3, <2>0, <2>3, StageMoves DEF ScanFind, ScanStage
      <3>2. CASE job[j].table # t
        BY <1>0, <2>0, <2>1, <3>1, <3>2, ElsewhereKept DEF BusyAt
      <3>3. CASE job[j].table = t
        <4>1. BusyAt(t) = {j} /\ WorkAt(t, j)
          BY <1>a, <2>0, <3>3 DEF BusyAt, ScanStage
        <4>2. WorkAt(t, j)' /\ Tells(t)'
          BY <2>0, <2>1, <2>3, <3>1, <3>3, <4>1 DEF WorkAt, Tells
        <4>. QED BY <1>0, <2>1, <3>1, <4>1, <4>2, AloneKept DEF OrderAt
      <3>. QED BY <3>2, <3>3
    <2>. QED BY <2>2, <2>3
  <1>4. ASSUME NEW j \in Job, NEW s \in Session, ScanCreate(j, s)
        PROVE  OrderAt(t)'
    <2>0. /\ job[j].at = "scan_create" /\ tableStatus' = tableStatus
          /\ sessions[s].table = NoTable
          /\ sessions'[s] = [table |-> job[j].table, status |-> "active"]
          /\ \A r \in Session \ {s} : sessions'[r] = sessions[r]
      BY <1>0, <1>4 DEF ScanCreate, NoSessionRow, TypeOK
    <2>1. CASE job[j].table # t
      <3>1. OpenSessions(t)' = OpenSessions(t)
        BY <2>0, <2>1, ConstantsAssumption DEF OpenSessions
      <3>2. j \notin BusyAt(t)
        BY <2>1 DEF BusyAt
      <3>3. CASE Goto(j, Idle)
        BY <1>0, <1>b, <2>0, <3>1, <3>2, <3>3, ElsewhereKept DEF ScanStage, CloseStage
      <3>4. CASE Goto(j, [job[j] EXCEPT !.at = "scan_serve"])
        <4>1. job'[j].table # t /\ \A k \in Job \ {j} : job'[k] = job[k]
          BY <1>0, <2>0, <2>1, <3>4, StageMoves DEF ScanStage
        <4>. QED BY <1>0, <2>0, <3>1, <3>2, <4>1, ElsewhereKept
      <3>. QED BY <1>4, <3>3, <3>4 DEF ScanCreate
    <2>2. CASE job[j].table = t
      <3>1. BusyAt(t) = {j} /\ WorkAt(t, j)
        BY <1>a, <2>0, <2>2 DEF BusyAt, ScanStage
      <3>2. OpenSessions(t) = {} /\ job[j].seen = "ready"
        BY <2>0, <3>1 DEF WorkAt, Tells
      <3>3. OpenSessions(t)' = {s}
        BY <2>0, <2>2, <3>2 DEF OpenSessions
      <3>4. Goto(j, [job[j] EXCEPT !.at = "scan_serve"])
        BY <1>4, <3>2 DEF ScanCreate
      <3>5. /\ job'[j].at = "scan_serve" /\ job'[j].table = t
            /\ \A k \in Job \ {j} : job'[k] = job[k]
        BY <1>0, <2>0, <2>2, <3>4, StageMoves DEF ScanStage
      <3>6. WorkAt(t, j)' /\ j \in BusyAt(t)'
        BY <3>3, <3>5 DEF WorkAt, BusyAt, ScanStage
      <3>. QED BY <3>1, <3>3, <3>5, <3>6, AloneKept
    <2>. QED BY <2>1, <2>2
  <1>5. ASSUME NEW j \in Job, ScanServe(j) \/ CloseTable(j)
        PROVE  OrderAt(t)'
    <2> DEFINE status == IF job[j].at = "scan_serve" THEN "serving" ELSE "ready"
    <2>0. /\ Goto(j, Idle) /\ sessions' = sessions /\ job[j].at \in {"scan_serve", "close_table"}
          /\ tableStatus' = [tableStatus EXCEPT ![job[j].table] = status]
      BY <1>5 DEF ScanServe, CloseTable, SetTableStatus
    <2>1. OpenSessions(t)' = OpenSessions(t)
      BY <2>0 DEF OpenSessions
    <2>2. CASE job[j].table # t
      <3>1. tableStatus'[t] = tableStatus[t] /\ j \notin BusyAt(t)
        BY <1>0, <2>0, <2>2 DEF TypeOK, BusyAt
      <3>. QED BY <1>0, <1>b, <2>0, <2>1, <3>1, ElsewhereKept DEF ScanStage, CloseStage
    <2>3. CASE job[j].table = t
      <3>1. BusyAt(t) = {j} /\ WorkAt(t, j)
        BY <1>a, <2>0, <2>3 DEF BusyAt, ScanStage, CloseStage
      <3>2. tableStatus'[t] = status
        BY <1>0, <2>0, <2>3 DEF TypeOK
      <3>3. Tells(t)'
        BY <2>0, <2>1, <3>1, <3>2 DEF WorkAt, Tells
      <3>. QED BY <1>0, <1>b, <2>0, <2>1, <3>1, <3>3, AloneKept DEF OrderAt
    <2>. QED BY <2>2, <2>3
  <1>6. ASSUME NEW j \in Job, ConfirmSession(j)
        PROVE  OrderAt(t)'
    <2> DEFINE s == job[j].session
    <2>0. /\ Goto(j, Idle) /\ tableStatus' = tableStatus /\ j \notin BusyAt(t)
      BY <1>6 DEF ConfirmSession, BusyAt, ScanStage, CloseStage
    <2>1. s \in Session /\ sessions[s].table \in Table
      BY <1>0, <1>6, JobFields DEF ConfirmSession, RefsExist
    <2>2. /\ sessions'[s].table = sessions[s].table /\ sessions'[s].status = "payment_requested"
          /\ \A r \in Session \ {s} : sessions'[r] = sessions[r]
      BY <1>0, <1>6, <2>1, SessionRowFields DEF ConfirmSession, SetSessionStatus, TypeOK
    <2>3. sessions[s].table = t => sessions[s].status # "closed"
      BY <1>6 DEF ConfirmSession, Note, Orderly
    <2>4. sessions[s].status \in {"active", "payment_requested", "closed"}
      BY <1>0, <2>1, SessionRowFields
    <2> HIDE DEF s
    <2>5. OpenSessions(t)' = OpenSessions(t)
      BY <2>1, <2>2, <2>3, <2>4 DEF OpenSessions
    <2>. QED BY <1>0, <1>b, <2>0, <2>5, ElsewhereKept DEF ScanStage, CloseStage
  <1>7. ASSUME NEW j \in Job, CloseSession(j)
        PROVE  OrderAt(t)'
    <2> DEFINE s == job[j].session
    <2>0. job[j].at = "close_session" /\ tableStatus' = tableStatus /\ s \in Session
      BY <1>0, <1>7, JobFields DEF CloseSession, CloseStage
    <2>1. sessions[s].table = job[j].table
      BY <1>0, <2>0 DEF RefsExist
    <2>2. /\ sessions'[s].status = "closed"
          /\ \A r \in Session \ {s} : sessions'[r] = sessions[r]
      BY <1>0, <1>7, <2>0, <2>1, JobFields, SessionRowFields
         DEF CloseSession, SetSessionStatus, TypeOK, CloseStage
    <2>3. /\ job'[j].at = "close_table" /\ job'[j].table = job[j].table
          /\ \A k \in Job \ {j} : job'[k] = job[k]
      BY <1>0, <1>7, <2>0, StageMoves DEF CloseSession, CloseStage
    <2>4. CASE job[j].table # t
      <3>1. OpenSessions(t)' = OpenSessions(t)
        BY <2>0, <2>1, <2>2, <2>4 DEF OpenSessions
      <3>. QED BY <1>0, <2>0, <2>3, <2>4, <3>1, ElsewhereKept DEF BusyAt
    <2>5. CASE job[j].table = t
      <3>1. BusyAt(t) = {j} /\ WorkAt(t, j)
        BY <1>a, <2>0, <2>5 DEF BusyAt, CloseStage
      <3>2. s \in OpenSessions(t)
        BY <2>0, <3>1 DEF WorkAt
      <3>3. OpenSessions(t)' = {}
        BY <1>0, <2>2, <3>2 DEF OpenSessions, OrderAt
      <3>4. WorkAt(t, j)' /\ j \in BusyAt(t)'
        BY <2>3, <2>5, <3>3 DEF WorkAt, BusyAt, CloseStage
      <3>. QED BY <2>3, <3>1, <3>3, <3>4, AloneKept
    <2>. QED BY <2>4, <2>5
  <1>8. ASSUME NEW j \in Job, Abort(j)
        PROVE  OrderAt(t)'
    <2>0. Goto(j, Idle) /\ UNCHANGED <<tableStatus, sessions>>
      BY <1>8 DEF Abort
    <2>1. OpenSessions(t)' = OpenSessions(t)
      BY <2>0 DEF OpenSessions
    <2>2. CASE j \notin BusyAt(t)
      BY <1>0, <1>b, <2>0, <2>1, <2>2, ElsewhereKept DEF ScanStage, CloseStage
    <2>3. CASE j \in BusyAt(t)
      <3>1. BusyAt(t) = {j} /\ WorkAt(t, j)
        BY <1>a, <2>3
      <3>2. job[j].at \notin {"scan_serve", "close_table"}
        BY <1>8, <2>3 DEF Abort, BusyAt, Note, Orderly
      <3>3. Tells(t)'
        BY <2>0, <2>1, <3>1, <3>2 DEF WorkAt, Tells
      <3>. QED BY <1>0, <1>b, <2>0, <2>1, <3>1, <3>3, AloneKept DEF OrderAt
    <2>. QED BY <2>2, <2>3
  <1>9. ASSUME NEW j \in Job,
               \/ \E s \in Session : PayStart(j, s)
               \/ \E p \in Payment : PayInsert(j, p) \/ ConfirmPayment(j, p)
        PROVE  OrderAt(t)'
    <2>1. UNCHANGED <<tableStatus, sessions>> /\ job[j].at \in {"idle", "pay_insert"}
      <3>1. Idle.at = "idle"
        BY DEF Idle
      <3>2. CASE \E s \in Session : PayStart(j, s)
        BY <3>1, <3>2 DEF PayStart
      <3>3. CASE \E p \in Payment : PayInsert(j, p)
        BY <3>3 DEF PayInsert
      <3>4. CASE \E p \in Payment : ConfirmPayment(j, p)
        BY <3>1, <3>4 DEF ConfirmPayment
      <3>. QED BY <1>9, <3>2, <3>3, <3>4
    <2>2. /\ job'[j].at \in {"idle", "pay_insert", "confirm_session"}
          /\ \A k \in Job \ {j} : job'[k] = job[k]
      <3>1. ASSUME NEW x, Goto(j, x), x.at \in {"idle", "pay_insert", "confirm_session"}
            PROVE  /\ job'[j].at \in {"idle", "pay_insert", "confirm_session"}
                   /\ \A k \in Job \ {j} : job'[k] = job[k]
        BY <1>0, <3>1, JobMoves
      <3>2. CASE \E s \in Session : PayStart(j, s)
        BY <2>1, <3>1, <3>2 DEF PayStart
      <3>3. ASSUME NEW p \in Payment, PayInsert(j, p) \/ ConfirmPayment(j, p)
            PROVE  \E x : Goto(j, x) /\ x.at \in {"idle", "confirm_session"}
        BY <3>3 DEF PayInsert, ConfirmPayment, Idle
      <3>. QED BY <1>9, <3>1, <3>2, <3>3
    <2>3. j \notin BusyAt(t) /\ OpenSessions(t)' = OpenSessions(t)
      BY <2>1 DEF BusyAt, ScanStage, CloseStage, OpenSessions
    <2>. QED BY <1>0, <2>1, <2>2, <2>3, ElsewhereKept DEF ScanStage, CloseStage
  <1>10. CASE UNCHANGED vars
    BY <1>0, <1>10 DEF vars, OrderAt, WorkAt, Tells, OpenSessions, BusyAt
  <1>11. ASSUME NEW j \in Job, Begin(j) \/ Continue(j) PROVE OrderAt(t)'
    BY <1>1, <1>2, <1>3, <1>4, <1>5, <1>6, <1>7, <1>9, <1>11 DEF Begin, Continue
  <1>. QED BY <1>8, <1>10, <1>11 DEF Next

\* Between requests the status of a table tells whether it has an open session, as
\* long as its scans and closings ran one after another, to their end, and none of its
\* sessions was reopened, however payments interleave with them.
THEOREM StatusIsOccupancy == Spec => []StatusTellsOccupancy
  <1>1. Init => OrderInv
    <2> SUFFICES ASSUME Init, NEW t \in Table PROVE OrderAt(t)
      BY TypeInit DEF OrderInv
    <2>1. OpenSessions(t) = {} /\ BusyAt(t) = {}
      BY DEF Init, OpenSessions, NoSessionRow, BusyAt, Idle, ScanStage, CloseStage
    <2>2. Tells(t)
      BY <2>1 DEF Init, Tells
    <2>. QED BY <2>1, <2>2 DEF OrderAt
  <1>2. OrderInv => StatusTellsOccupancy
    BY DEF OrderInv, OrderAt, Orderly, Tells, StatusTellsOccupancy
  <1>. QED BY <1>1, <1>2, OccupancyStep, PTL DEF Spec
-----------------------------------------------------------------------------
(* The life of a session row: what those who only read its status may expect. *)

\* A closing that is about to close a session has seen it past 'active'.
ClosingInv ==
    \A j \in Job : job[j].at = "close_session" =>
        sessions[job[j].session].status \in {"payment_requested", "closed"}

StatusInv == TypeInv /\ ClosingInv

Statuses == [s \in Session |-> sessions[s].status]

\* The status of one session moves on; no row is ever taken away.
StatusMoves(s, status) ==
    /\ \/ sessions[s].status = "none" /\ status = "active"
       \/ sessions[s].status # "none" /\ status = "payment_requested"
       \/ sessions[s].status \in {"payment_requested", "closed"} /\ status = "closed"
    /\ Statuses' = [Statuses EXCEPT ![s] = status]

\* The step that moves it, which is the one of a request that works on this session.
MovedBy(j, s, status) ==
    \/ ScanCreate(j, s) /\ status = "active"
    \/ ConfirmSession(j) /\ s = job[j].session /\ status = "payment_requested"
    \/ CloseSession(j) /\ s = job[j].session /\ status = "closed"

LEMMA StatusSet ==
    ASSUME TypeOK, NEW s \in Session, NEW status \in {"active", "payment_requested", "closed"},
           sessions[s].status # "none", sessions' = [sessions EXCEPT ![s].status = status]
    PROVE  Statuses' = [Statuses EXCEPT ![s] = status]
  <1>1. sessions \in [Session -> SessionRow] /\ sessions[s] # NoSessionRow
    BY DEF TypeOK, NoSessionRow
  <1>2. sessions[s] \in [table: Table, status: {"active", "payment_requested", "closed"}]
    BY <1>1 DEF SessionRow
  <1>3. [sessions[s] EXCEPT !.status = status].status = status
    BY <1>2
  <1>4. sessions'[s] = [sessions[s] EXCEPT !.status = status]
    BY <1>1
  <1>5. sessions'[s].status = status
    BY <1>3, <1>4
  <1>6. \A r \in Session \ {s} : sessions'[r] = sessions[r]
    BY <1>1
  <1>7. [Statuses EXCEPT ![s] = status] =
          [r \in Session |-> IF r = s THEN status ELSE sessions[r].status]
    BY DEF Statuses
  <1>8. Statuses' = [r \in Session |-> IF r = s THEN status ELSE sessions[r].status]
    BY <1>5, <1>6 DEF Statuses
  <1>. QED BY <1>7, <1>8

LEMMA MovedStatus ==
    ASSUME StatusInv, NEW j \in Job, NEW s \in Session,
           NEW status \in {"active", "payment_requested", "closed"}, MovedBy(j, s, status)
    PROVE  StatusMoves(s, status)
  <1>1. TypeOK /\ RefsExist /\ ClosingInv
    BY DEF StatusInv, TypeInv
  <1>2. CASE ScanCreate(j, s) /\ status = "active"
    <2>1. sessions[s].status = "none"
      BY <1>2 DEF ScanCreate, NoSessionRow
    <2>2. sessions' = [sessions EXCEPT ![s] = [table |-> job[j].table, status |-> "active"]]
      BY <1>2 DEF ScanCreate
    <2>. QED BY <1>1, <1>2, <2>1, <2>2 DEF StatusMoves, Statuses, TypeOK
  <1>3. CASE ConfirmSession(j) /\ s = job[j].session /\ status = "payment_requested"
    <2>1. sessions[s].status # "none"
      <3>1. job[j].table \in Table /\ sessions[s].table = job[j].table
        BY <1>1, <1>3, JobFields DEF ConfirmSession, RefsExist
      <3>. QED BY <1>1, <3>1, SessionRowFields
    <2>2. sessions' = [sessions EXCEPT ![s].status = status]
      BY <1>3 DEF ConfirmSession, SetSessionStatus
    <2>3. Statuses' = [Statuses EXCEPT ![s] = status]
      BY <1>1, <2>1, <2>2, StatusSet
    <2>. QED BY <1>3, <2>1, <2>3 DEF StatusMoves
  <1>4. CASE CloseSession(j) /\ s = job[j].session /\ status = "closed"
    <2>1. sessions[s].status \in {"payment_requested", "closed"}
      BY <1>1, <1>4 DEF CloseSession, ClosingInv
    <2>2. sessions' = [sessions EXCEPT ![s].status = status]
      BY <1>4 DEF CloseSession, SetSessionStatus
    <2>3. Statuses' = [Statuses EXCEPT ![s] = status]
      BY <1>1, <2>1, <2>2, StatusSet
    <2>. QED BY <1>4, <2>1, <2>3 DEF StatusMoves
  <1>. QED BY <1>2, <1>3, <1>4 DEF MovedBy

LEMMA OthersMoveNothing ==
    ASSUME StatusInv, NEW j \in Job, Begin(j) \/ Continue(j) \/ Abort(j)
    PROVE  \/ sessions' = sessions
           \/ \E s \in Session, status \in {"active", "payment_requested", "closed"} :
                 MovedBy(j, s, status)
  <1>1. CASE ConfirmSession(j) \/ CloseSession(j)
    <2>1. job[j].session \in Session
      BY <1>1, JobFields DEF StatusInv, TypeInv, ConfirmSession, CloseSession, CloseStage
    <2>. QED BY <1>1, <2>1 DEF MovedBy
  <1>2. CASE Begin(j) \/ Abort(j)
    BY <1>2 DEF Begin, ScanStart, PayStart, CloseStart, ConfirmPayment, Abort
  <1>3. CASE \/ ScanFind(j) \/ ScanServe(j) \/ CloseTable(j)
             \/ \E p \in Payment : PayInsert(j, p)
    BY <1>3 DEF ScanFind, ScanServe, CloseTable, PayInsert
  <1>4. CASE \E s \in Session : ScanCreate(j, s)
    BY <1>4 DEF MovedBy
  <1>. QED BY <1>1, <1>2, <1>3, <1>4 DEF Continue

\* The steps of this module, as a module that reads the status of sessions sees them.
LEMMA StatusStep ==
    ASSUME StatusInv, [Next]_vars
    PROVE  \/ Statuses' = Statuses
           \/ \E s \in Session, status \in {"active", "payment_requested", "closed"} :
                 StatusMoves(s, status)
  <1>1. CASE sessions' = sessions
    BY <1>1 DEF Statuses
  <1>2. ASSUME NEW j \in Job, Begin(j) \/ Continue(j) \/ Abort(j), sessions' # sessions
        PROVE  \E s \in Session, status \in {"active", "payment_requested", "closed"} :
                   StatusMoves(s, status)
    BY <1>2, OthersMoveNothing, MovedStatus
  <1>. QED BY <1>1, <1>2 DEF Next, vars

LEMMA ClosingStep == StatusInv /\ [Next]_vars => StatusInv'
  <1> SUFFICES ASSUME StatusInv, [Next]_vars, NEW j \in Job, job'[j].at = "close_session"
               PROVE  sessions'[job'[j].session].status \in {"payment_requested", "closed"}
    BY TypeStep DEF StatusInv, ClosingInv
  <1>0. TypeOK /\ TypeOK' /\ ClosingInv
    BY TypeStep DEF StatusInv, TypeInv
  <1>1. CASE job'[j] = job[j]
    <2>1. job[j].session \in Session
      BY <1>0, <1>1, JobFields DEF CloseStage
    <2>2. sessions[job[j].session].status \in {"payment_requested", "closed"}
      BY <1>0, <1>1 DEF ClosingInv
    <2>3. Statuses'[job[j].session] \in {"payment_requested", "closed"}
      <3>1. CASE Statuses' = Statuses
        BY <2>1, <2>2, <3>1 DEF Statuses
      <3>2. ASSUME NEW s \in Session, NEW status \in {"active", "payment_requested", "closed"},
                   StatusMoves(s, status)
            PROVE  Statuses'[job[j].session] \in {"payment_requested", "closed"}
        BY <2>1, <2>2, <3>2 DEF StatusMoves, Statuses
      <3>. QED BY <3>1, <3>2, StatusStep
    <2>. QED BY <1>1, <2>1, <2>3 DEF Statuses
  <1>2. CASE job'[j] # job[j]
    <2>1. PICK s \in Session : CloseStart(j, s)
      <3>1. ASSUME NEW k \in Job, NEW x, Goto(k, x) PROVE k = j /\ job'[j] = x
        BY <1>0, <1>2, <3>1 DEF Goto, TypeOK
      <3>2. ASSUME NEW k \in Job, NEW stage, Goto(k, [job[k] EXCEPT !.at = stage]),
                   job[k].at \in ScanStage \cup CloseStage, stage # "close_session"
            PROVE  FALSE
        <4>1. [job[k] EXCEPT !.at = stage].at = stage
          BY <1>0, <3>2, JobFields
        <4>. QED BY <3>1, <3>2, <4>1
      <3>3. ASSUME NEW k \in Job, Goto(k, Idle) PROVE FALSE
        BY <3>1, <3>3 DEF Idle
      <3>8. ASSUME NEW k \in Job, \/ ScanFind(k) \/ ScanServe(k) \/ CloseTable(k)
                                 \/ CloseSession(k) \/ ConfirmSession(k) \/ Abort(k)
            PROVE  FALSE
        <4>1. ~ ScanFind(k)
          BY <3>2, <3>3 DEF ScanFind, ScanStage
        <4>2. ~ CloseSession(k)
          BY <3>2 DEF CloseSession, CloseStage
        <4>. QED BY <3>3, <3>8, <4>1, <4>2 DEF ScanServe, CloseTable, ConfirmSession, Abort
      <3>9. ASSUME NEW k \in Job, NEW s \in Session, ScanCreate(k, s) PROVE FALSE
        BY <3>2, <3>3, <3>9 DEF ScanCreate, ScanStage
      <3>4. ASSUME NEW k \in Job, NEW p \in Payment, PayInsert(k, p) \/ ConfirmPayment(k, p)
            PROVE  FALSE
        BY <3>1, <3>4 DEF PayInsert, ConfirmPayment, Idle
      <3>5. ASSUME NEW k \in Job, NEW t \in Table, ScanStart(k, t) PROVE FALSE
        BY <1>2, <3>1, <3>5 DEF ScanStart
      <3>6. ASSUME NEW k \in Job, NEW s \in Session, PayStart(k, s) PROVE FALSE
        BY <1>2, <3>1, <3>6 DEF PayStart
      <3>7. ASSUME NEW k \in Job, NEW s \in Session, CloseStart(k, s) PROVE CloseStart(j, s)
        BY <1>2, <3>1, <3>7 DEF CloseStart
      <3>. QED BY <1>2, <3>4, <3>5, <3>6, <3>7, <3>8, <3>9 DEF Next, Begin, Continue, vars
    <2>. QED BY <1>0, <1>2, <2>1 DEF CloseStart, Goto, TypeOK
  <1>. QED BY <1>1, <1>2

LEMMA StatusKept == Spec => []StatusInv
  <1>1. Init => StatusInv
    BY TypeInit DEF Init, StatusInv, ClosingInv, Idle
  <1>. QED BY <1>1, ClosingStep, PTL DEF Spec

=============================================================================
