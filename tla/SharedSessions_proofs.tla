------------------------- MODULE SharedSessions_proofs -------------------------
(***************************************************************************)
(* Proofs about the modules that put others over the rows of sessions of   *)
(* TableSessions, for any number of each: Visits and DiningRoom.  That the *)
(* table requests do to these rows what StaffCalls and OrderPlacement      *)
(* assume; ScreensAgree; and ListedAreSeated, from what                    *)
(* TableSessions_proofs shows of the sessions of a table.                  *)
(***************************************************************************)
EXTENDS Visits, DiningRoom, TableSessions_proofs

\* What is proved of OrderPlacement, on the sessions the table requests make.
RoomProofs == INSTANCE OrderPlacement_proofs
                WITH sstatus <- [s \in Session |-> sessions[s].status]

-----------------------------------------------------------------------------
(* Visits: the rows of sessions are those TableSessions_proofs is about. *)

LEMMA TablesInVisits ==
    /\ VisitSpec => []StatusInv
    /\ VisitSpec => []SoleOpenSession
<1>1. VisitInit => Init
    BY DEF VisitInit
<1>2. [VisitNext]_visitVars => [Next]_vars
    BY DEF VisitNext, VisitStep, CallStep, visitVars
<1>3. VisitSpec => Spec
    BY <1>1, <1>2, PTL DEF VisitSpec, Spec
<1> QED BY <1>3, StatusKept, OneOpenSession

\* What a step of the table requests is to the calls.
LEMMA VisitSeen ==
    ASSUME StatusInv, VisitStep
    PROVE  /\ UNCHANGED <<staffCalls, requests, screens, muddled>>
           /\ \/ Statuses' = Statuses
              \/ \E s \in Session, status \in {"active", "payment_requested", "closed"} :
                     StatusMoves(s, status)
<1>1. [Next]_vars
    BY DEF VisitStep
<1>2. UNCHANGED <<staffCalls, requests, screens, muddled>>
    BY DEF VisitStep, callVars
<1> QED BY <1>1, <1>2, StatusStep

\* What StaffCalls assumes of the rows of sessions is what the scans, the payments and
\* the closings do to them.
THEOREM VisitsRespectCalls == VisitSpec => CallsImplemented
<1>1. VisitInit => Calls!Init
    BY DEF VisitInit
<1>2. StatusInv /\ [VisitNext]_visitVars => [Calls!Next]_Calls!vars
  <2> SUFFICES ASSUME StatusInv, [VisitNext]_visitVars
               PROVE  [Calls!Next]_Calls!vars
      OBVIOUS
  <2>1. CASE VisitStep
    <3>1. UNCHANGED <<staffCalls, requests, screens, muddled>>
        BY <2>1, VisitSeen
    <3>2. CASE Statuses' = Statuses
      <4>1. UNCHANGED Calls!vars
          BY <3>1, <3>2 DEF Statuses, Calls!vars, Calls!callVars
      <4> QED BY <4>1
    <3>3. ASSUME NEW s \in Session, NEW status \in {"active", "payment_requested", "closed"},
                 StatusMoves(s, status)
          PROVE  Calls!Next
      <4>1. Calls!SessionMoves(s, status)
          BY <3>1, <3>3 DEF StatusMoves, Statuses,
                            Calls!SessionMoves, Calls!callVars
      <4> QED BY <4>1 DEF Calls!Next
    <3> QED BY <2>1, <3>2, <3>3, VisitSeen
  <2>2. CASE \E r \in Request : CallStep(r)
      BY <2>2 DEF CallStep, Calls!Next
  <2>3. CASE UNCHANGED visitVars
    <3>1. UNCHANGED Calls!vars
        BY <2>3 DEF visitVars, vars, callVars, Calls!vars,
                    Calls!callVars
    <3> QED BY <3>1
  <2> QED BY <2>1, <2>2, <2>3 DEF VisitNext
<1>3. VisitSpec => []StatusInv
    BY TablesInVisits
<1> QED BY <1>1, <1>2, <1>3, PTL DEF VisitSpec, CallsImplemented, Calls!Spec

-----------------------------------------------------------------------------
(* Visits: what the screens tell of the calls *)

\* A request that tells of a call has found it.
TellersKnow ==
    \A r \in Request : requests[r].call \in StaffCall =>
        staffCalls[requests[r].call] # Calls!NoRow

\* The one request that tells of a call that is not muddled tells the status it has;
\* when none does, everyone has been told it.
ToldRight(k) ==
    /\ \A r1, r2 \in Calls!Telling(k) : r1 = r2
    /\ \A r \in Calls!Telling(k) :
           /\ requests[r].to = staffCalls[k].status
           /\ requests[r].at = "tell_session" => screens["branch"][k] = staffCalls[k].status
    /\ Calls!Telling(k) = {} =>
           \A t \in Calls!Topic : screens[t][k] = staffCalls[k].status

ScreensInv ==
    /\ Calls!TypeOK
    /\ TellersKnow
    /\ \A k \in StaffCall : k \in muddled \/ ToldRight(k)

LEMMA RequestFields ==
    ASSUME Calls!TypeOK, NEW r \in Request
    PROVE  /\ requests[r].at \in {"idle", "insert", "tell_branch", "tell_session"}
           /\ requests[r].at = "idle" <=> requests[r] = Calls!Idle
           /\ requests[r].at # "idle" => requests[r].session \in Session
           /\ requests[r].at \in {"idle", "insert"} => requests[r].call = NoStaffCall
           /\ requests[r].at \in {"tell_branch", "tell_session"} =>
                  requests[r].call \in StaffCall /\ requests[r].to \in Status
           /\ requests[r] = Calls!Idle =>
                  requests[r].call = NoStaffCall /\ requests[r].session = NoSession
           /\ NoStaffCall \notin StaffCall /\ NoSession \notin Session /\ "sent" \in Status
           /\ requests[r] = [at |-> requests[r].at, session |-> requests[r].session,
                             call |-> requests[r].call, to |-> requests[r].to]
BY VisitConstants, ConstantsAssumption
   DEF VisitConstants, ConstantsAssumption, Calls!TypeOK, Calls!RequestState, Calls!Idle

\* A request takes its next step.
LEMMA RequestGoes ==
    ASSUME Calls!TypeOK, NEW r \in Request, NEW state \in Calls!RequestState,
           requests' = [requests EXCEPT ![r] = state]
    PROVE  /\ requests' \in [Request -> Calls!RequestState]
           /\ requests'[r] = state
           /\ \A q \in Request \ {r} : requests'[q] = requests[q]
BY DEF Calls!TypeOK

\* Calls that neither the step nor its request has to do with.
LEMMA OtherCalls ==
    ASSUME NEW k \in StaffCall, NEW r \in Request, ToldRight(k),
           requests[r].call # k, requests'[r].call # k,
           \A q \in Request \ {r} : requests'[q] = requests[q],
           staffCalls'[k] = staffCalls[k],
           \A t \in Calls!Topic : screens'[t][k] = screens[t][k]
    PROVE  ToldRight(k)'
<1>1. Calls!Telling(k)' = Calls!Telling(k)
    BY DEF Calls!Telling
<1>2. \A q \in Calls!Telling(k) : requests'[q] = requests[q]
    BY DEF Calls!Telling
<1> QED BY <1>1, <1>2 DEF ToldRight, Calls!Topic

LEMMA CreateTold ==
    ASSUME ScreensInv, NEW r \in Request, NEW s \in Session,
           Calls!Create(r, s)
    PROVE  ScreensInv'
<1>0. Calls!TypeOK /\ TellersKnow
    BY DEF ScreensInv
<1>1. UNCHANGED <<staffCalls, screens, muddled>> /\ requests[r] = Calls!Idle
    BY DEF Calls!Create
<1>2. CASE requests' = requests
    BY <1>1, <1>2 DEF ScreensInv, Calls!TypeOK, TellersKnow, ToldRight,
                      Calls!Telling
<1>3. CASE requests' # requests
  <2> DEFINE state == [at |-> "insert", session |-> s, call |-> NoStaffCall, to |-> "sent"]
  <2>1. requests' = [requests EXCEPT ![r] = state]
      BY <1>3 DEF Calls!Create
  <2>2. state \in Calls!RequestState /\ state.call = NoStaffCall
      BY DEF Calls!RequestState
  <2> HIDE DEF state
  <2>3. /\ requests' \in [Request -> Calls!RequestState]
        /\ requests'[r].call = NoStaffCall
        /\ \A q \in Request \ {r} : requests'[q] = requests[q]
      BY <1>0, <2>1, <2>2, RequestGoes
  <2>4. requests[r].call = NoStaffCall /\ NoStaffCall \notin StaffCall
      BY <1>0, <1>1, RequestFields
  <2>5. Calls!TypeOK'
      BY <1>0, <1>1, <2>3 DEF Calls!TypeOK
  <2>6. TellersKnow'
      BY <1>0, <1>1, <2>3, <2>4 DEF TellersKnow
  <2>7. ASSUME NEW k \in StaffCall, k \notin muddled' PROVE ToldRight(k)'
    <3>1. ToldRight(k)
        BY <1>1, <2>7 DEF ScreensInv
    <3> QED BY <1>1, <2>3, <2>4, <3>1, OtherCalls
  <2> QED BY <2>5, <2>6, <2>7 DEF ScreensInv
<1> QED BY <1>2, <1>3

LEMMA InsertTold ==
    ASSUME ScreensInv, NEW r \in Request, NEW k \in StaffCall,
           Calls!Insert(r, k)
    PROVE  ScreensInv'
<1> DEFINE state == [at |-> "tell_branch", session |-> requests[r].session, call |-> k,
                     to |-> requests[r].to]
           row   == [session |-> requests[r].session, status |-> "sent"]
<1>0. Calls!TypeOK /\ TellersKnow
    BY DEF ScreensInv
<1>1. /\ UNCHANGED <<screens, muddled>>
      /\ staffCalls' = [staffCalls EXCEPT ![k] = row]
      /\ staffCalls[k] = Calls!NoRow /\ requests[r].at = "insert"
      /\ requests' = [requests EXCEPT ![r].at = "tell_branch", ![r].call = k]
    BY DEF Calls!Insert
<1>2. /\ requests[r].session \in Session /\ requests[r].to = "sent"
      /\ requests[r].call = NoStaffCall /\ NoStaffCall \notin StaffCall /\ "sent" \in Status
      /\ requests[r] = [at |-> "insert", session |-> requests[r].session,
                        call |-> NoStaffCall, to |-> "sent"]
  <2>1. requests[r] \in [at: {"insert"}, session: Session, call: {NoStaffCall}, to: {"sent"}]
      BY <1>0, <1>1 DEF Calls!TypeOK, Calls!RequestState, Calls!Idle
  <2> QED BY <1>0, <2>1, RequestFields
<1>3. requests' = [requests EXCEPT ![r] = state]
    BY <1>0, <1>1, <1>2 DEF Calls!TypeOK
<1>4. /\ state \in Calls!RequestState /\ state.call = k
      /\ state.at = "tell_branch" /\ state.to = "sent" /\ row.status = "sent"
      /\ row \in Calls!Row /\ row # Calls!NoRow
    BY <1>2, RequestFields, <1>0
       DEF Calls!RequestState, Calls!Row, Calls!NoRow
<1> HIDE DEF state, row
<1>5. /\ requests' \in [Request -> Calls!RequestState]
      /\ requests'[r] = state
      /\ \A q \in Request \ {r} : requests'[q] = requests[q]
    BY <1>0, <1>3, <1>4, RequestGoes
<1>6. /\ staffCalls'[k] = row /\ \A l \in StaffCall \ {k} : staffCalls'[l] = staffCalls[l]
      /\ Calls!TypeOK'
    BY <1>0, <1>1, <1>4, <1>5 DEF Calls!TypeOK
<1>7. TellersKnow'
    BY <1>0, <1>4, <1>5, <1>6 DEF TellersKnow
<1>8. ASSUME NEW l \in StaffCall, l \notin muddled' PROVE ToldRight(l)'
  <2>1. ToldRight(l)
      BY <1>1, <1>8 DEF ScreensInv
  <2>2. CASE l # k
      BY <1>1, <1>2, <1>4, <1>5, <1>6, <2>1, <2>2, OtherCalls
  <2>3. CASE l = k
    <3>1. Calls!Telling(k) = {}
        BY <1>0, <1>1 DEF TellersKnow, Calls!Telling
    <3>2. Calls!Telling(k)' = {r}
        BY <1>4, <1>5, <3>1 DEF Calls!Telling
    <3> QED BY <1>4, <1>5, <1>6, <2>3, <3>2 DEF ToldRight
  <2> QED BY <2>2, <2>3
<1> QED BY <1>6, <1>7, <1>8 DEF ScreensInv

LEMMA UpdateTold ==
    ASSUME ScreensInv, NEW r \in Request, NEW k \in StaffCall,
           NEW to \in Status, Calls!UpdateStatus(r, k, to)
    PROVE  ScreensInv'
<1> DEFINE state == [at |-> "tell_branch", session |-> staffCalls[k].session, call |-> k,
                     to |-> to]
           row   == [staffCalls[k] EXCEPT !.status = to]
<1>0. Calls!TypeOK /\ TellersKnow
    BY DEF ScreensInv
<1>1. /\ screens' = screens /\ requests[r] = Calls!Idle
      /\ muddled' = Calls!Changed(k)
      /\ staffCalls' = [staffCalls EXCEPT ![k] = row]
      /\ staffCalls[k] # Calls!NoRow
      /\ requests' = [requests EXCEPT ![r] = state]
    BY DEF Calls!UpdateStatus
<1>2. staffCalls[k] \in [session: Session, status: Status]
    BY <1>0, <1>1 DEF Calls!TypeOK, Calls!Row
<1>3. row \in [session: Session, status: Status] /\ row.status = to
    BY <1>2
<1>4. /\ state \in Calls!RequestState /\ state.call = k
      /\ state.at = "tell_branch" /\ state.to = to
    BY <1>2 DEF Calls!RequestState
<1>5. requests[r].call = NoStaffCall /\ NoStaffCall \notin StaffCall /\ NoSession \notin Session
    BY <1>0, <1>1, RequestFields
<1> HIDE DEF state, row
<1>6. row \in Calls!Row /\ row # Calls!NoRow
    BY <1>3, <1>5 DEF Calls!Row, Calls!NoRow
<1>7. /\ requests' \in [Request -> Calls!RequestState]
      /\ requests'[r] = state
      /\ \A q \in Request \ {r} : requests'[q] = requests[q]
    BY <1>0, <1>1, <1>4, RequestGoes
<1>8. /\ staffCalls'[k] = row /\ \A l \in StaffCall \ {k} : staffCalls'[l] = staffCalls[l]
      /\ Calls!TypeOK'
    BY <1>0, <1>1, <1>6, <1>7 DEF Calls!TypeOK, Calls!Changed
<1>9. TellersKnow'
    BY <1>0, <1>4, <1>6, <1>7, <1>8 DEF TellersKnow
<1>10. ASSUME NEW l \in StaffCall, l \notin muddled' PROVE ToldRight(l)'
  <2>1. CASE l # k
    <3>1. ToldRight(l)
        BY <1>1, <1>10, <2>1 DEF ScreensInv, Calls!Changed
    <3> QED BY <1>1, <1>4, <1>5, <1>7, <1>8, <2>1, <3>1, OtherCalls
  <2>2. CASE l = k
    <3>1. Calls!Telling(k) = {}
        BY <1>1, <1>10, <2>2 DEF Calls!Changed
    <3>2. Calls!Telling(k)' = {r}
        BY <1>4, <1>7, <3>1 DEF Calls!Telling
    <3> QED BY <1>3, <1>4, <1>7, <1>8, <2>2, <3>2 DEF ToldRight
  <2> QED BY <2>1, <2>2
<1> QED BY <1>8, <1>9, <1>10 DEF ScreensInv

LEMMA TellBranchTold ==
    ASSUME ScreensInv, NEW r \in Request, Calls!TellBranch(r)
    PROVE  ScreensInv'
<1> DEFINE k     == requests[r].call
           state == [requests[r] EXCEPT !.at = "tell_session"]
<1>0. Calls!TypeOK /\ TellersKnow
    BY DEF ScreensInv
<1>1. /\ UNCHANGED <<staffCalls, muddled>> /\ requests[r].at = "tell_branch"
      /\ screens' = [screens EXCEPT !["branch"][k] = requests[r].to]
      /\ requests' = [requests EXCEPT ![r] = state]
    BY DEF Calls!TellBranch, Calls!Goto
<1>2. /\ k \in StaffCall /\ requests[r].to \in Status
      /\ requests[r] \in [at: {"tell_branch", "tell_session"}, session: Session,
                          call: StaffCall, to: Status]
    BY <1>0, <1>1 DEF Calls!TypeOK, Calls!RequestState, Calls!Idle
<1>3. /\ state \in [at: {"tell_branch", "tell_session"}, session: Session,
                    call: StaffCall, to: Status]
      /\ state.call = k /\ state.to = requests[r].to /\ state.at = "tell_session"
    BY <1>2
<1>4. state \in Calls!RequestState
    BY <1>3 DEF Calls!RequestState
<1> HIDE DEF state
<1>5. /\ requests' \in [Request -> Calls!RequestState]
      /\ requests'[r] = state
      /\ \A q \in Request \ {r} : requests'[q] = requests[q]
    BY <1>0, <1>1, <1>4, RequestGoes
<1>6. /\ screens' \in [Calls!Topic -> [StaffCall -> Status \cup {"none"}]]
      /\ screens'["branch"][k] = requests[r].to
      /\ \A l \in StaffCall \ {k} : screens'["branch"][l] = screens["branch"][l]
      /\ screens'["session"] = screens["session"]
    BY <1>0, <1>1, <1>2 DEF Calls!TypeOK, Calls!Topic
<1>7. Calls!TypeOK' /\ TellersKnow'
    BY <1>0, <1>1, <1>3, <1>5, <1>6 DEF Calls!TypeOK, TellersKnow
<1>8. ASSUME NEW l \in StaffCall, l \notin muddled' PROVE ToldRight(l)'
  <2>1. ToldRight(l)
      BY <1>1, <1>8 DEF ScreensInv
  <2>2. CASE l # k
      BY <1>1, <1>3, <1>5, <1>6, <2>1, <2>2, OtherCalls DEF Calls!Topic
  <2>3. CASE l = k
    <3>1. r \in Calls!Telling(l) /\ Calls!Telling(l)' = Calls!Telling(l)
        BY <1>3, <1>5, <2>3 DEF Calls!Telling
    <3>2. Calls!Telling(l)' = {r} /\ requests[r].to = staffCalls[l].status
        BY <2>1, <3>1 DEF ToldRight
    <3> QED BY <1>1, <1>3, <1>5, <1>6, <2>3, <3>2 DEF ToldRight
  <2> QED BY <2>2, <2>3
<1> QED BY <1>7, <1>8 DEF ScreensInv

LEMMA IdleRequest ==
    /\ Calls!Idle \in Calls!RequestState
    /\ Calls!Idle.call = NoStaffCall /\ NoStaffCall \notin StaffCall
BY VisitConstants DEF VisitConstants, Calls!RequestState, Calls!Idle

LEMMA TellSessionTold ==
    ASSUME ScreensInv, NEW r \in Request, Calls!TellSession(r)
    PROVE  ScreensInv'
<1> DEFINE k == requests[r].call
<1>0. Calls!TypeOK /\ TellersKnow
    BY DEF ScreensInv
<1>1. /\ UNCHANGED <<staffCalls, muddled>> /\ requests[r].at = "tell_session"
      /\ screens' = [screens EXCEPT !["session"][k] = requests[r].to]
      /\ requests' = [requests EXCEPT ![r] = Calls!Idle]
    BY DEF Calls!TellSession
<1>2. k \in StaffCall /\ requests[r].to \in Status
    BY <1>0, <1>1, RequestFields
<1>3. /\ requests' \in [Request -> Calls!RequestState]
      /\ requests'[r].call = NoStaffCall /\ NoStaffCall \notin StaffCall
      /\ \A q \in Request \ {r} : requests'[q] = requests[q]
    BY <1>0, <1>1, RequestGoes, IdleRequest
<1>4. /\ screens' \in [Calls!Topic -> [StaffCall -> Status \cup {"none"}]]
      /\ screens'["session"][k] = requests[r].to
      /\ \A l \in StaffCall \ {k} : screens'["session"][l] = screens["session"][l]
      /\ screens'["branch"] = screens["branch"]
    BY <1>0, <1>1, <1>2 DEF Calls!TypeOK, Calls!Topic
<1>5. Calls!TypeOK' /\ TellersKnow'
    BY <1>0, <1>1, <1>3, <1>4 DEF Calls!TypeOK, TellersKnow
<1>6. ASSUME NEW l \in StaffCall, l \notin muddled' PROVE ToldRight(l)'
  <2>1. ToldRight(l)
      BY <1>1, <1>6 DEF ScreensInv
  <2>2. CASE l # k
      BY <1>1, <1>3, <1>4, <2>1, <2>2, OtherCalls DEF Calls!Topic
  <2>3. CASE l = k
    <3>1. r \in Calls!Telling(l)
        BY <2>3 DEF Calls!Telling
    <3>2. /\ Calls!Telling(l) = {r} /\ requests[r].to = staffCalls[l].status
          /\ screens["branch"][l] = staffCalls[l].status
        BY <1>1, <2>1, <3>1 DEF ToldRight
    <3>3. Calls!Telling(l)' = {}
        BY <1>3, <3>2 DEF Calls!Telling
    <3> QED BY <1>1, <1>4, <2>3, <3>2, <3>3 DEF ToldRight, Calls!Topic
  <2> QED BY <2>2, <2>3
<1> QED BY <1>5, <1>6 DEF ScreensInv

LEMMA AbortedTold ==
    ASSUME ScreensInv, NEW r \in Request, Calls!Abort(r)
    PROVE  ScreensInv'
<1>0. Calls!TypeOK /\ TellersKnow
    BY DEF ScreensInv
<1>1. /\ UNCHANGED <<staffCalls, screens>>
      /\ muddled' = muddled \cup ({requests[r].call} \ {NoStaffCall})
      /\ requests' = [requests EXCEPT ![r] = Calls!Idle]
    BY DEF Calls!Abort
<1>2. /\ requests' \in [Request -> Calls!RequestState]
      /\ requests'[r].call = NoStaffCall /\ NoStaffCall \notin StaffCall
      /\ \A q \in Request \ {r} : requests'[q] = requests[q]
    BY <1>0, <1>1, RequestGoes, IdleRequest
<1>3. requests[r].call \in StaffCall \cup {NoStaffCall}
    BY <1>0, RequestFields
<1>4. Calls!TypeOK' /\ TellersKnow'
    BY <1>0, <1>1, <1>2, <1>3 DEF Calls!TypeOK, TellersKnow
<1>5. ASSUME NEW l \in StaffCall, l \notin muddled' PROVE ToldRight(l)'
  <2>1. ToldRight(l) /\ requests[r].call # l
      BY <1>1, <1>2, <1>5 DEF ScreensInv
  <2> QED BY <1>1, <1>2, <2>1, OtherCalls
<1> QED BY <1>4, <1>5 DEF ScreensInv

LEMMA ScreensKept ==
    /\ VisitInit => ScreensInv
    /\ ScreensInv /\ [VisitNext]_visitVars => ScreensInv'
<1>1. VisitInit => ScreensInv
  <2> SUFFICES ASSUME VisitInit PROVE ScreensInv
      OBVIOUS
  <2>1. Calls!Init
      BY DEF VisitInit
  <2>2. \A r \in Request : requests[r] = Calls!Idle
      BY <2>1 DEF Calls!Init
  <2>3. Calls!TypeOK
      BY <2>1, IdleRequest DEF Calls!Init, Calls!TypeOK, Calls!Row
  <2>4. TellersKnow /\ \A k \in StaffCall : Calls!Telling(k) = {}
      BY <2>2, IdleRequest DEF TellersKnow, Calls!Telling
  <2> QED BY <2>1, <2>3, <2>4
          DEF ScreensInv, ToldRight, Calls!Init, Calls!NoRow
<1>2. ScreensInv /\ [VisitNext]_visitVars => ScreensInv'
  <2> SUFFICES ASSUME ScreensInv, [VisitNext]_visitVars PROVE ScreensInv'
      OBVIOUS
  <2>1. CASE \E r \in Request : Calls!Serve(r)
      BY <2>1, CreateTold, InsertTold, UpdateTold, TellBranchTold, TellSessionTold,
         AbortedTold DEF Calls!Serve
  <2>2. CASE UNCHANGED callVars
    <3>1. UNCHANGED <<staffCalls, requests, screens, muddled>>
        BY <2>2 DEF callVars
    <3> QED BY <3>1 DEF ScreensInv, Calls!TypeOK, TellersKnow, ToldRight,
                        Calls!Telling
  <2> QED BY <2>1, <2>2 DEF VisitNext, VisitStep, CallStep, visitVars
<1> QED BY <1>1, <1>2

\* Those who watch the branch and those who watch the session end up with the status in
\* the database, unless two changes of the call overlapped or messages of it were lost.
THEOREM ScreensTellTheStatus == VisitSpec => []ScreensAgree
<1>1. VisitInit => ScreensInv
    BY ScreensKept
<1>2. ScreensInv /\ [VisitNext]_visitVars => ScreensInv'
    BY ScreensKept
<1>3. ScreensInv => ScreensAgree
    BY DEF ScreensInv, ToldRight, ScreensAgree, Calls!ScreensAgree
<1> QED BY <1>1, <1>2, <1>3, PTL DEF VisitSpec

\* Every reachable state of the table requests and the staff calls is well typed.
THEOREM VisitTypeCorrect == VisitSpec => [](TypeOK /\ CallsTypeOK)
<1>1. VisitInit => ScreensInv
    BY ScreensKept
<1>2. ScreensInv /\ [VisitNext]_visitVars => ScreensInv'
    BY ScreensKept
<1>3. ScreensInv /\ StatusInv => TypeOK /\ CallsTypeOK
    BY DEF ScreensInv, CallsTypeOK, StatusInv, TypeInv
<1> QED BY <1>1, <1>2, <1>3, TablesInVisits, PTL DEF VisitSpec

-----------------------------------------------------------------------------
(* Visits: whom the staff sees on the list of calls *)

\* A call, made or about to be, refers to a session that was opened; no row of sessions
\* is ever taken away.
RefersInv ==
    /\ \A k \in StaffCall : staffCalls[k] # Calls!NoRow =>
           Statuses[staffCalls[k].session] # "none"
    /\ \A r \in Request : requests[r].session \in Session =>
           Statuses[requests[r].session] # "none"

LEMMA RowFieldsOfCalls ==
    ASSUME Calls!TypeOK, NEW k \in StaffCall
    PROVE  /\ staffCalls[k] # Calls!NoRow => staffCalls[k].session \in Session
           /\ staffCalls[k] = Calls!NoRow <=> staffCalls[k].status = "none"
BY VisitConstants, ConstantsAssumption
   DEF VisitConstants, ConstantsAssumption, Calls!TypeOK, Calls!Row, Calls!NoRow

LEMMA RefersStep ==
    ASSUME ScreensInv, RefersInv, NEW r \in Request,
           CallStep(r)
    PROVE  RefersInv'
<1>0. Calls!TypeOK
    BY DEF ScreensInv
<1>1. Statuses' = Statuses
    BY DEF CallStep, vars, Statuses
<1>2. ASSUME NEW state \in Calls!RequestState,
             requests' = [requests EXCEPT ![r] = state],
             state.session = requests[r].session \/ state.session = NoSession,
             staffCalls' = staffCalls
      PROVE  RefersInv'
  <2>1. requests'[r] = state /\ \A q \in Request \ {r} : requests'[q] = requests[q]
      BY <1>0, <1>2, RequestGoes
  <2>2. NoSession \notin Session
      BY ConstantsAssumption DEF ConstantsAssumption
  <2> QED BY <1>1, <1>2, <2>1, <2>2 DEF RefersInv
<1>3. Calls!Idle.session = NoSession /\ Calls!Idle \in Calls!RequestState
    BY IdleRequest DEF Calls!Idle
<1>4. ASSUME NEW s \in Session, Calls!Create(r, s) PROVE RefersInv'
  <2>1. staffCalls' = staffCalls
      BY <1>4 DEF Calls!Create
  <2>2. CASE requests' = requests
      BY <1>1, <2>1, <2>2 DEF RefersInv
  <2>3. CASE requests' # requests
    <3>1. /\ requests' = [requests EXCEPT ![r] =
                             [at |-> "insert", session |-> s, call |-> NoStaffCall,
                              to |-> "sent"]]
          /\ sessions[s].status # "none"
        BY <1>4, <2>3 DEF Calls!Create
    <3>2. requests'[r].session = s /\ \A q \in Request \ {r} : requests'[q] = requests[q]
        BY <1>0, <3>1 DEF Calls!TypeOK
    <3>3. Statuses[s] # "none"
        BY <3>1 DEF Statuses
    <3> QED BY <1>1, <2>1, <3>2, <3>3 DEF RefersInv
  <2> QED BY <2>2, <2>3
<1>5. ASSUME NEW k \in StaffCall, Calls!Insert(r, k) PROVE RefersInv'
  <2>1. /\ requests[r].at = "insert" /\ requests[r].session \in Session
        /\ requests' = [requests EXCEPT ![r].at = "tell_branch", ![r].call = k]
        /\ staffCalls' = [staffCalls EXCEPT ![k] =
                             [session |-> requests[r].session, status |-> "sent"]]
      BY <1>0, <1>5, RequestFields DEF Calls!Insert
  <2>2. requests[r] = [at |-> requests[r].at, session |-> requests[r].session,
                       call |-> requests[r].call, to |-> requests[r].to]
      BY <1>0, RequestFields
  <2>3. /\ requests'[r].session = requests[r].session
        /\ \A q \in Request \ {r} : requests'[q] = requests[q]
      BY <1>0, <2>1, <2>2 DEF Calls!TypeOK
  <2>4. /\ staffCalls'[k].session = requests[r].session
        /\ \A l \in StaffCall \ {k} : staffCalls'[l] = staffCalls[l]
      BY <1>0, <2>1 DEF Calls!TypeOK
  <2>5. Statuses[requests[r].session] # "none"
      BY <2>1 DEF RefersInv
  <2>6. ASSUME NEW l \in StaffCall, staffCalls'[l] # Calls!NoRow
        PROVE  Statuses[staffCalls'[l].session] # "none"
      BY <2>4, <2>5, <2>6 DEF RefersInv
  <2>7. ASSUME NEW q \in Request, requests'[q].session \in Session
        PROVE  Statuses[requests'[q].session] # "none"
      BY <2>3, <2>5, <2>7 DEF RefersInv
  <2> QED BY <1>1, <2>6, <2>7 DEF RefersInv
<1>6. ASSUME NEW k \in StaffCall, NEW to \in Status, Calls!UpdateStatus(r, k, to)
      PROVE  RefersInv'
  <2>1. /\ staffCalls[k] # Calls!NoRow
        /\ staffCalls' = [staffCalls EXCEPT ![k].status = to]
        /\ requests' = [requests EXCEPT ![r] =
                           [at |-> "tell_branch", session |-> staffCalls[k].session,
                            call |-> k, to |-> to]]
      BY <1>6 DEF Calls!UpdateStatus
  <2>2. /\ requests'[r].session = staffCalls[k].session
        /\ \A q \in Request \ {r} : requests'[q] = requests[q]
      BY <1>0, <2>1 DEF Calls!TypeOK
  <2>3. /\ staffCalls'[k].session = staffCalls[k].session
        /\ \A l \in StaffCall \ {k} : staffCalls'[l] = staffCalls[l]
    <3>1. staffCalls[k] \in [session: Session, status: Status]
        BY <1>0, <2>1 DEF Calls!TypeOK, Calls!Row
    <3>2. [staffCalls[k] EXCEPT !.status = to].session = staffCalls[k].session
        BY <3>1
    <3> QED BY <1>0, <2>1, <3>2 DEF Calls!TypeOK
  <2> QED BY <1>1, <2>1, <2>2, <2>3 DEF RefersInv
<1>7. ASSUME Calls!TellBranch(r) PROVE RefersInv'
  <2>1. requests[r] \in [at: {"tell_branch", "tell_session"}, session: Session,
                         call: StaffCall, to: Status]
      BY <1>0, <1>7 DEF Calls!TellBranch, Calls!TypeOK,
                        Calls!RequestState, Calls!Idle
  <2> DEFINE state == [requests[r] EXCEPT !.at = "tell_session"]
  <2>2. /\ state \in [at: {"tell_branch", "tell_session"}, session: Session,
                      call: StaffCall, to: Status]
        /\ state.session = requests[r].session
      BY <2>1
  <2>3. requests' = [requests EXCEPT ![r] = state] /\ staffCalls' = staffCalls
      BY <1>7 DEF Calls!TellBranch, Calls!Goto
  <2> HIDE DEF state
  <2>4. state \in Calls!RequestState
      BY <2>2 DEF Calls!RequestState
  <2> QED BY <1>2, <2>2, <2>3, <2>4
<1>8. ASSUME Calls!TellSession(r) \/ Calls!Abort(r) PROVE RefersInv'
  <2>1. requests' = [requests EXCEPT ![r] = Calls!Idle] /\ staffCalls' = staffCalls
      BY <1>8 DEF Calls!TellSession, Calls!Abort
  <2> QED BY <1>2, <1>3, <2>1
<1>9. Calls!Serve(r)
    BY DEF CallStep
<1> QED BY <1>4, <1>5, <1>6, <1>7, <1>8, <1>9 DEF Calls!Serve

LEMMA RefersKept ==
    ASSUME StatusInv, ScreensInv, RefersInv,
           [VisitNext]_visitVars
    PROVE  RefersInv'
<1>1. CASE VisitStep
  <2>1. UNCHANGED <<staffCalls, requests>>
      BY <1>1, VisitSeen DEF VisitStep, callVars
  <2>2. \A s \in Session : Statuses[s] # "none" => Statuses'[s] # "none"
    <3>1. ASSUME NEW u \in Session, NEW status \in {"active", "payment_requested", "closed"},
                 StatusMoves(u, status), NEW s \in Session,
                 Statuses[s] # "none"
          PROVE  Statuses'[s] # "none"
        BY <3>1 DEF StatusMoves, Statuses
    <3> QED BY <1>1, <3>1, VisitSeen
  <2>3. \A k \in StaffCall :
            staffCalls[k] # Calls!NoRow => staffCalls[k].session \in Session
      BY RowFieldsOfCalls DEF ScreensInv
  <2> QED BY <2>1, <2>2, <2>3 DEF RefersInv
<1>2. CASE UNCHANGED visitVars
    BY <1>2 DEF visitVars, vars, callVars, RefersInv,
                Statuses
<1> QED BY <1>1, <1>2, RefersStep DEF VisitNext

\* A call on the staff's list comes from the guests who sit at its table now, the only
\* ones with an open session there, unless two scans both found the table free or a
\* confirmation reopened a closed session (ListByBranch's WHERE clause).
THEOREM CallersAreSeated == VisitSpec => []ListedAreSeated
<1>1. VisitInit => ScreensInv
    BY ScreensKept
<1>2. VisitInit => RefersInv
  <2> SUFFICES ASSUME VisitInit PROVE RefersInv
      OBVIOUS
  <2>1. \A k \in StaffCall : staffCalls[k] = Calls!NoRow
      BY DEF VisitInit, Calls!Init
  <2>2. \A r \in Request : requests[r].session \notin Session
      BY RequestFields, ScreensKept DEF VisitInit, Calls!Init, ScreensInv
  <2> QED BY <2>1, <2>2 DEF RefersInv
<1>3. ScreensInv /\ [VisitNext]_visitVars => ScreensInv'
    BY ScreensKept
<1>4. StatusInv /\ ScreensInv /\ RefersInv /\ [VisitNext]_visitVars => RefersInv'
    BY RefersKept
<1>5. VisitSpec => []StatusInv
    BY TablesInVisits
<1>6. VisitSpec => []SoleOpenSession
    BY TablesInVisits
<1>7. /\ StatusInv /\ ScreensInv /\ RefersInv /\ SoleOpenSession
      => ListedAreSeated
  <2> SUFFICES ASSUME StatusInv, ScreensInv, RefersInv,
                      SoleOpenSession, NEW k \in Calls!Listed,
                      NEW s, s = staffCalls[k].session, NEW t, t = sessions[s].table,
                      <<t, "twin_scan">> \notin mishap, <<t, "reopen">> \notin mishap
               PROVE  OpenSessions(t) = {s}
      BY DEF ListedAreSeated
  <2>1. /\ k \in StaffCall /\ staffCalls[k] # Calls!NoRow
        /\ s \in Session => sessions[s].status # "closed"
      BY DEF Calls!Listed, Calls!NoRow
  <2>2. s \in Session
      BY <2>1, RowFieldsOfCalls DEF ScreensInv
  <2>3. sessions[s].status # "none" /\ sessions[s].status # "closed"
      BY <2>1, <2>2 DEF RefersInv, Statuses
  <2>4. TypeOK
      BY DEF StatusInv, TypeInv
  <2>5. t \in Table /\ sessions[s].status \in {"active", "payment_requested"}
      BY <2>2, <2>3, <2>4 DEF TypeOK, SessionRow, NoSessionRow
  <2>6. s \in OpenSessions(t)
      BY <2>2, <2>5 DEF OpenSessions
  <2> QED BY <2>5, <2>6 DEF SoleOpenSession
<1> QED BY <1>1, <1>2, <1>3, <1>4, <1>5, <1>6, <1>7, PTL DEF VisitSpec

-----------------------------------------------------------------------------
(* DiningRoom: the rows of sessions that calls lock are those of TableSessions. *)

LEMMA SameRoom ==
    /\ Orders!OrderConstants <=> RoomProofs!OrderConstants
    /\ Orders!Init <=> RoomProofs!Init
    /\ [Orders!Next]_Orders!vars => [RoomProofs!Next]_RoomProofs!vars
<1>1. Orders!OrderConstants <=> RoomProofs!OrderConstants
    BY DEF Orders!OrderConstants, RoomProofs!OrderConstants, Orders!Line, RoomProofs!Line
<1>2. Orders!Init <=> RoomProofs!Init
    BY DEF Orders!Init, RoomProofs!Init, Orders!Idle, RoomProofs!Idle
<1>3. ASSUME NEW c \in Call PROVE Orders!Place(c) => RoomProofs!Place(c)
    BY Zenon
       DEF Orders!Place, Orders!Receive, Orders!Step, Orders!Waiting,
           Orders!Lookup, Orders!LookupHit, Orders!LookupMiss,
           Orders!CheckSession, Orders!CheckLine, Orders!LockSession,
           Orders!CountOrders, Orders!InsertOrder, Orders!InsertItem,
           Orders!Commit, Orders!ReadBack, Orders!Abort, Orders!Finish,
           Orders!Goto, Orders!LockFree, Orders!Inserting,
           Orders!Committed, Orders!Idle,
           RoomProofs!Place, RoomProofs!Receive, RoomProofs!Step, RoomProofs!Waiting,
           RoomProofs!Lookup, RoomProofs!LookupHit, RoomProofs!LookupMiss,
           RoomProofs!CheckSession, RoomProofs!CheckLine, RoomProofs!LockSession,
           RoomProofs!CountOrders, RoomProofs!InsertOrder, RoomProofs!InsertItem,
           RoomProofs!Commit, RoomProofs!ReadBack, RoomProofs!Abort, RoomProofs!Finish,
           RoomProofs!Goto, RoomProofs!LockFree, RoomProofs!Inserting,
           RoomProofs!Committed, RoomProofs!Idle
<1>4. Orders!Next => RoomProofs!Next
    BY <1>3, Zenon
       DEF Orders!Next, Orders!SessionMoves, Orders!SessionStatus,
           Orders!MenuMoves, Orders!MenuDelete, Orders!MenuUpdate,
           Orders!MenuState, Orders!LockFree, Orders!Referenced,
           RoomProofs!Next, RoomProofs!SessionMoves, RoomProofs!SessionStatus,
           RoomProofs!MenuMoves, RoomProofs!MenuDelete, RoomProofs!MenuUpdate,
           RoomProofs!MenuState, RoomProofs!LockFree, RoomProofs!Referenced
<1> QED BY <1>1, <1>2, <1>4 DEF Orders!vars, RoomProofs!vars

\* The steps of the table requests, those that wait for a row lock included.
LEMMA TableSteps ==
    ASSUME NEW j \in Job, TableStep(j)
    PROVE  Begin(j) \/ Continue(j) \/ Abort(j)
BY Zenon DEF TableStep, SessionRowStep, Continue

\* What the calls know, and what of it the table requests may change.
LEMMA RoomOrdersVars ==
    Orders!vars = <<Statuses, lock, orders, menu, calls, answered>>
BY DEF Orders!vars, Statuses

\* An UPDATE of a row waits for the call that has selected it FOR UPDATE, and the row
\* that is inserted has not been selected.
LEMMA TableStepSeen ==
    ASSUME StatusInv, RoomProofs!OpenedInv,
           NEW j \in Job, TableStep(j)
    PROVE  [Orders!Next]_Orders!vars
<1>1. UNCHANGED <<lock, orders, menu, calls, answered>>
    BY DEF TableStep, orderVars
<1>2. CASE Statuses' = Statuses
  <2>1. UNCHANGED Orders!vars
      BY <1>1, <1>2 DEF Orders!vars, Statuses
  <2> QED BY <2>1
<1>3. CASE Statuses' # Statuses
  <2>1. sessions' # sessions
      BY <1>3 DEF Statuses
  <2>2. PICK s \in Session, status \in {"active", "payment_requested", "closed"} :
            MovedBy(j, s, status)
      BY <2>1, TableSteps, OthersMoveNothing
  <2>3. StatusMoves(s, status)
      BY <2>2, MovedStatus
  <2>4. lock[s] = NoCall
    <3>1. CASE ScanCreate(j, s)
      <4>1. Statuses[s] = "none"
          BY <3>1 DEF ScanCreate, NoSessionRow, Statuses
      <4> QED BY <4>1 DEF RoomProofs!OpenedInv, Statuses
    <3>2. CASE \/ ConfirmSession(j) /\ s = job[j].session
               \/ CloseSession(j) /\ s = job[j].session
      <4>1. s = job[j].session /\ job[j].at \in {"confirm_session", "close_session"}
          BY <3>2 DEF ConfirmSession, CloseSession
      <4>2. CASE SessionRowStep(j)
          BY <4>1, <4>2 DEF SessionRowStep, RowFree
      <4>3. CASE ~ SessionRowStep(j)
        <5>1. \/ Begin(j) \/ Abort(j)
              \/ job[j].at \in {"scan_find", "scan_create", "scan_serve", "close_table"}
            BY <4>3 DEF TableStep, ScanFind, ScanCreate,
                        ScanServe, CloseTable
        <5>2. sessions' = sessions
            BY <4>1, <5>1
               DEF Begin, ScanStart, PayStart,
                   CloseStart, ConfirmPayment, Abort
        <5> QED BY <2>1, <5>2
      <4> QED BY <4>2, <4>3
    <3> QED BY <2>2, <3>1, <3>2 DEF MovedBy
  <2>5. Orders!SessionMoves(s, status)
      BY <1>1, <2>3, <2>4
         DEF StatusMoves, Statuses, Orders!SessionMoves,
             Orders!LockFree
  <2> QED BY <2>5 DEF Orders!Next, Orders!SessionStatus
<1> QED BY <1>2, <1>3

\* Every step of the room is one that OrderPlacement knows, or none to it.
LEMMA RoomSteps ==
    ASSUME StatusInv, RoomProofs!OpenedInv,
           [RoomNext]_roomVars
    PROVE  [Orders!Next]_Orders!vars
<1>1. CASE \E j \in Job : TableStep(j)
    BY <1>1, TableStepSeen
<1>2. CASE \E c \in Call : OrderStep(c)
    BY <1>2 DEF OrderStep, Orders!Next
<1>3. CASE MenuStep
    BY <1>3 DEF MenuStep, Orders!Next
<1>4. CASE UNCHANGED roomVars
  <2>1. UNCHANGED Orders!vars
      BY <1>4 DEF roomVars, vars, orderVars, Orders!vars
  <2> QED BY <2>1
<1> QED BY <1>1, <1>2, <1>3, <1>4 DEF RoomNext

LEMMA TablesInRoom ==
    RoomSpec => Spec /\ []StatusInv
<1>1. RoomInit => Init
    BY DEF RoomInit
<1>2. [RoomNext]_roomVars => [Next]_vars
  <2>1. CASE \E j \in Job : TableStep(j)
      BY <2>1, TableSteps DEF Next
  <2>2. CASE UNCHANGED vars
      BY <2>2 DEF vars
  <2> QED BY <2>1, <2>2
          DEF RoomNext, OrderStep, MenuStep, roomVars, vars
<1>3. Spec => []StatusInv
    BY StatusKept
<1> QED BY <1>1, <1>2, <1>3, PTL DEF RoomSpec, Spec

\* What OrderPlacement assumes of the rows of sessions is what the scans, the payments
\* and the closings do to them, whatever the orders of their steps and those of the
\* calls, and with the waiting that the row locks of both bring about.
THEOREM RoomRespectsOrders == RoomSpec => OrdersImplemented
<1>0. RoomProofs!OrderConstants
    BY RoomConstants, SameRoom
<1>1. RoomInit => Orders!Init
    BY DEF RoomInit
<1>2. RoomInit => RoomProofs!TypeInv /\ RoomProofs!OpenedInv
  <2>1. RoomProofs!Init => RoomProofs!TypeInv /\ RoomProofs!OpenedInv
      BY <1>0, RoomProofs!TypeInit, RoomProofs!OpenedInit
  <2> QED BY <1>1, <2>1, SameRoom
<1>3. StatusInv /\ RoomProofs!OpenedInv /\ [RoomNext]_roomVars
      => [Orders!Next]_Orders!vars
    BY RoomSteps
<1>4. /\ RoomProofs!TypeInv /\ RoomProofs!OpenedInv
      /\ StatusInv /\ [RoomNext]_roomVars
      => RoomProofs!TypeInv' /\ RoomProofs!OpenedInv'
    BY <1>0, <1>3, SameRoom, RoomProofs!TypeStep, RoomProofs!OpenedStep
<1>5. RoomSpec => []StatusInv
    BY TablesInRoom
<1> QED BY <1>1, <1>2, <1>3, <1>4, <1>5, PTL
        DEF RoomSpec, OrdersImplemented, Orders!Spec

LEMMA SameRoomProperties ==
    /\ Orders!TypeOK <=> RoomProofs!TypeOK
    /\ Orders!SeqIsPosition <=> RoomProofs!SeqIsPosition
    /\ Orders!OneOrderPerRequest <=> RoomProofs!OneOrderPerRequest
    /\ Orders!RetriesAgree <=> RoomProofs!RetriesAgree
    /\ Orders!OrdersShowWhole <=> RoomProofs!OrdersShowWhole
<1>1. Orders!TypeOK <=> RoomProofs!TypeOK
    BY Zenon
       DEF Orders!TypeOK, Orders!SessionStatus, Orders!OrderRow, Orders!MenuState,
           Orders!CallState, Orders!Stage, Orders!Idle, Orders!OrderRef,
           RoomProofs!TypeOK, RoomProofs!SessionStatus, RoomProofs!OrderRow,
           RoomProofs!MenuState, RoomProofs!CallState, RoomProofs!Stage, RoomProofs!Idle,
           RoomProofs!OrderRef
<1>2. Orders!SeqIsPosition <=> RoomProofs!SeqIsPosition
    BY DEF Orders!SeqIsPosition, RoomProofs!SeqIsPosition
<1>3. Orders!OneOrderPerRequest <=> RoomProofs!OneOrderPerRequest
    BY Zenon DEF Orders!OneOrderPerRequest, RoomProofs!OneOrderPerRequest
<1>4. Orders!RetriesAgree <=> RoomProofs!RetriesAgree
    BY Zenon DEF Orders!RetriesAgree, RoomProofs!RetriesAgree
<1>5. Orders!OrdersShowWhole <=> RoomProofs!OrdersShowWhole
    BY DEF Orders!OrdersShowWhole, RoomProofs!OrdersShowWhole,
           Orders!Shown, RoomProofs!Shown
<1> QED BY <1>1, <1>2, <1>3, <1>4, <1>5

\* Table requests and calls that wait for each other's row locks leave true of the
\* sessions and the tables what is true of them without the calls, and of the orders
\* what is true of them on any sessions.
THEOREM RoomKeepsBoth ==
    RoomSpec => /\ []TypeOK
                /\ []PaidBeforeClosed
                /\ []SoleOpenSession
                /\ []StatusTellsOccupancy
                /\ [](Orders!TypeOK /\ Orders!SeqIsPosition)
                /\ [](Orders!OneOrderPerRequest /\ Orders!RetriesAgree)
                /\ []Orders!OrdersShowWhole
<1>1. RoomSpec => RoomProofs!Spec
  <2>1. Orders!Spec => RoomProofs!Spec
      BY SameRoom, PTL DEF Orders!Spec, RoomProofs!Spec
  <2> QED BY <2>1, RoomRespectsOrders DEF OrdersImplemented
<1>2. RoomProofs!OrderConstants
    BY RoomConstants, SameRoom
<1>3. RoomProofs!Spec => /\ []RoomProofs!TypeOK /\ []RoomProofs!SeqIsPosition
                         /\ []RoomProofs!OneOrderPerRequest
                         /\ []RoomProofs!RetriesAgree
                         /\ []RoomProofs!OrdersShowWhole
    BY <1>2, RoomProofs!TypeCorrect, RoomProofs!OrdersNumbered,
       RoomProofs!RequestsAreIdempotent, RoomProofs!RetriesGetTheSame,
       RoomProofs!OrdersAreWhole
<1>4. Spec => []TypeOK /\ []PaidBeforeClosed /\ []SoleOpenSession /\ []StatusTellsOccupancy
    BY TypeCorrect, NeverClosedUnpaid, OneOpenSession, StatusIsOccupancy
<1> QED BY <1>1, <1>3, <1>4, SameRoomProperties, TablesInRoom, PTL

================================================================================
