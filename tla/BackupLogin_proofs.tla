-------------------------- MODULE BackupLogin_proofs --------------------------
(***************************************************************************)
(* Proofs about BackupLogin: types, RedeemedOnce, TokensFitTheirClients and *)
(* AccountTellsRemote for any number of clients, accounts, names, states    *)
(* and requests.                                                            *)
(***************************************************************************)
EXTENDS BackupLogin, TLAPS

\* A callback holds a code that some client asked for and some account consented
\* to; from the exchange on, the client it read is the one the code was issued to.
CodeOf(q) ==
    /\ request[q].at \in {"settings", "exchange", "userinfo", "create", "store"} =>
           /\ request[q].granted \in Client
           /\ request[q].account \in Account
    /\ request[q].at \in {"userinfo", "create", "store"} =>
           request[q].client = request[q].granted

\* What Redis still knows went out in a URL.
TypeInv ==
    /\ TypeOK
    /\ \A q \in Request : CodeOf(q)
    /\ \A s \in states : url[s] # NoClient

\* What AccountTellsRemote says of a moment without requests.
Told == email = IF config[name] = NoRemote THEN NoAccount ELSE config[name].shown

\* A request that met no other is the only one, and works on the remote of the
\* settings: what it has done to the file is what it will write to the settings.
\* Otherwise, as long as nothing is doubtful, the two agree but for the requests
\* that are half-way.
AloneInv ==
    /\ \A q \in Working \ met : Working = {q} /\ request[q].remote = name
    /\ \A q \in Request \ met :
           /\ At(q, "store") => /\ config[name] # NoRemote
                                /\ config[name].shown = request[q].shown
           /\ At(q, "clear") => config[name] = NoRemote
    /\ ~ doubtful /\ HalfWay = {} => Told

-----------------------------------------------------------------------------
(* Requests as records. *)

\* The fields of a request, and what a step that moves it leaves of it.
LEMMA RequestFields ==
    ASSUME TypeOK, NEW q \in Request
    PROVE  /\ request[q].at \in Stage \cup {"idle"}
           /\ request[q].granted \in Client \cup {NoClient}
           /\ request[q].account \in Account \cup {NoAccount}
           /\ request[q].client \in Client \cup {NoClient}
           /\ request[q].remote \in Remote
           /\ request[q].shown \in Account \cup {NoAccount}
BY DEF TypeOK, RequestState

LEMMA IdleFields ==
    /\ Idle \in RequestState
    /\ Idle.at = "idle"
BY LoginConstants DEF Idle, RequestState

\* Requests that have gone on to a stage, with what they have learnt there.
LEMMA RecordsMoved ==
    ASSUME NEW x \in RequestState, NEW stage \in Stage
    PROVE  /\ [x EXCEPT !.at = stage] \in RequestState
           /\ \A k \in Client \cup {NoClient}, r \in Remote :
                  [x EXCEPT !.at = stage, !.client = k, !.remote = r] \in RequestState
           /\ \A r \in Remote : [x EXCEPT !.at = stage, !.remote = r] \in RequestState
           /\ \A e \in Account \cup {NoAccount} :
                  [x EXCEPT !.at = stage, !.shown = e] \in RequestState
<1>1. [x EXCEPT !.at = stage] \in RequestState
    BY DEF RequestState
<1>2. ASSUME NEW k \in Client \cup {NoClient}, NEW r \in Remote
      PROVE  [x EXCEPT !.at = stage, !.client = k, !.remote = r] \in RequestState
    BY DEF RequestState
<1>3. ASSUME NEW r \in Remote
      PROVE  [x EXCEPT !.at = stage, !.remote = r] \in RequestState
    BY DEF RequestState
<1>4. ASSUME NEW e \in Account \cup {NoAccount}
      PROVE  [x EXCEPT !.at = stage, !.shown = e] \in RequestState
    BY DEF RequestState
<1> QED BY <1>1, <1>2, <1>3, <1>4

LEMMA StageNames ==
    /\ "settings" \in Stage /\ "exchange" \in Stage /\ "userinfo" \in Stage
    /\ "create" \in Stage /\ "store" \in Stage /\ "delete" \in Stage /\ "clear" \in Stage
BY DEF Stage

\* A step that changes the stage of one request keeps the types.
LEMMA MovedType ==
    ASSUME TypeOK, NEW q \in Request, NEW stage \in Stage
    PROVE  [request EXCEPT ![q].at = stage] \in [Request -> RequestState]
<1>1. request[q] \in RequestState
    BY DEF TypeOK
<1>2. [request[q] EXCEPT !.at = stage] \in RequestState
    BY <1>1, RecordsMoved
<1> QED BY <1>2 DEF TypeOK

-----------------------------------------------------------------------------
(* Types *)

\* The variables have the types TypeOK gives them, callbacks hold the code of a
\* client, and valid states went out in a URL.
THEOREM TypeCorrect == Spec => []TypeInv
<1>1. Init => TypeInv
  <2> SUFFICES ASSUME Init PROVE TypeInv
      OBVIOUS
  <2>1. request \in [Request -> RequestState] /\ \A q \in Request : request[q].at = "idle"
      BY IdleFields DEF Init
  <2>2. TypeOK
      BY <2>1, LoginConstants DEF Init, TypeOK
  <2> QED BY <2>1, <2>2 DEF Init, TypeInv, CodeOf
<1>2. TypeInv /\ [Next]_vars => TypeInv'
  <2> SUFFICES ASSUME TypeInv, [Next]_vars PROVE TypeInv'
      OBVIOUS
  <2> USE DEF TypeInv
  <2>1. ASSUME NEW c \in Client, UpdateGdriveCreds(c) PROVE TypeInv'
      BY <2>1 DEF UpdateGdriveCreds, TypeOK, CodeOf, past
  <2>2. ASSUME NEW r \in Remote, UpdateSettings(r) PROVE TypeInv'
      BY <2>2 DEF UpdateSettings, TypeOK, CodeOf, past, Working
  <2>3. ASSUME NEW s \in State, OAuthStart(s) PROVE TypeInv'
      BY <2>3 DEF OAuthStart, BuildAuthURL, TypeOK, CodeOf, past, settings
  <2>4. ASSUME NEW s \in State, StateExpires(s) PROVE TypeInv'
      BY <2>4 DEF StateExpires, TypeOK, CodeOf, past, settings
  <2>5. ASSUME NEW q \in Request, NEW s \in State, NEW a \in Account,
               OAuthCallback(q, s, a)
        PROVE  TypeInv'
    <3> DEFINE new == [Idle EXCEPT !.at = "settings", !.granted = url[s], !.account = a]
    <3>1. request' = [request EXCEPT ![q] = new]
        BY <2>5 DEF OAuthCallback
    <3>2. url[s] \in Client
        BY <2>5 DEF OAuthCallback, ValidateState, TypeOK
    <3>0. /\ new \in RequestState
          /\ new.at = "settings" /\ new.granted = url[s] /\ new.account = a
        BY <3>2, IdleFields DEF RequestState, Stage
    <3> HIDE DEF new
    <3>3. request' \in [Request -> RequestState]
        BY <3>1, <3>0 DEF TypeOK
    <3>4. \A p \in Request : CodeOf(p)'
        BY <3>1, <3>0, <3>2 DEF TypeOK, CodeOf
    <3>5. TypeOK'
        BY <2>5, <3>3 DEF OAuthCallback, ValidateState, TypeOK, settings
    <3> QED BY <2>5, <3>4, <3>5 DEF OAuthCallback, ValidateState
  <2>6. ASSUME NEW q \in Request, GetSettings(q) PROVE TypeInv'
    <3>1. [request[q] EXCEPT !.at = "exchange", !.client = creds, !.remote = name]
              \in RequestState
        BY RecordsMoved, StageNames DEF TypeOK
    <3>2. request' \in [Request -> RequestState]
        BY <2>6, <3>1 DEF GetSettings, TypeOK
    <3>3. \A p \in Request : CodeOf(p)'
        BY <2>6 DEF GetSettings, At, TypeOK, CodeOf, RequestState
    <3>4. TypeOK'
        BY <2>6, <3>2 DEF GetSettings, Meets, Working, TypeOK, settings
    <3> QED BY <2>6, <3>3, <3>4 DEF GetSettings
  <2>7. ASSUME NEW q \in Request, Exchange(q) PROVE TypeInv'
    <3>1. CASE request[q].client = request[q].granted
      <4>0. request' = [request EXCEPT ![q].at = "userinfo"]
          BY <2>7, <3>1 DEF Exchange, Goto
      <4>1. request' \in [Request -> RequestState]
          BY <4>0, MovedType, StageNames
      <4>2. \A p \in Request : CodeOf(p)'
          BY <2>7, <3>1 DEF Exchange, Goto, At, TypeOK, CodeOf, RequestState
      <4> QED BY <2>7, <3>1, <4>1, <4>2 DEF Exchange, TypeOK, settings
    <3>2. CASE request[q].client # request[q].granted
        BY <2>7, <3>2, IdleFields DEF Exchange, Finish, TypeOK, CodeOf, settings
    <3> QED BY <3>1, <3>2
  <2>8. ASSUME NEW q \in Request, FetchEmail(q) PROVE TypeInv'
    <3> PICK e \in {request[q].account, NoAccount} :
            request' = [request EXCEPT ![q].at = "create", ![q].shown = e]
        BY <2>8 DEF FetchEmail
    <3>1. [request[q] EXCEPT !.at = "create", !.shown = e] \in RequestState
        BY RequestFields, RecordsMoved, StageNames DEF TypeOK
    <3>2. request' \in [Request -> RequestState]
        BY <3>1 DEF TypeOK
    <3>3. \A p \in Request : CodeOf(p)'
        BY <2>8 DEF FetchEmail, At, TypeOK, CodeOf, RequestState
    <3>4. TypeOK'
        BY <2>8, <3>2 DEF FetchEmail, TypeOK, settings, past
    <3> QED BY <2>8, <3>3, <3>4 DEF FetchEmail
  <2>9. ASSUME NEW q \in Request, ConfigCreate(q) PROVE TypeInv'
    <3>1. request' \in [Request -> RequestState]
        BY <2>9, MovedType, StageNames DEF ConfigCreate, Goto
    <3>2. \A p \in Request : CodeOf(p)'
        BY <2>9 DEF ConfigCreate, Goto, At, TypeOK, CodeOf, RequestState
    <3>3. [client |-> request[q].client, granted |-> request[q].granted,
           account |-> request[q].account, shown |-> request[q].shown] \in Entry
        BY <2>9, RequestFields DEF ConfigCreate, At, CodeOf, Entry
    <3>4. config' \in [Remote -> Entry \cup {NoRemote}]
        BY <2>9, <3>3, RequestFields DEF ConfigCreate, TypeOK
    <3> QED BY <2>9, <3>1, <3>2, <3>4 DEF ConfigCreate, TypeOK, settings, past
  <2>10. ASSUME NEW q \in Request, UpdateGdriveAccount(q) PROVE TypeInv'
      BY <2>10, IdleFields, RequestFields
         DEF UpdateGdriveAccount, Finish, TypeOK, CodeOf, past
  <2>11. ASSUME NEW q \in Request, Disconnect(q) PROVE TypeInv'
    <3>1. [request[q] EXCEPT !.at = "delete", !.remote = name] \in RequestState
        BY RecordsMoved, StageNames DEF TypeOK
    <3>2. request' \in [Request -> RequestState]
        BY <2>11, <3>1 DEF Disconnect, TypeOK
    <3>3. \A p \in Request : CodeOf(p)'
        BY <2>11 DEF Disconnect, TypeOK, CodeOf, RequestState
    <3>4. TypeOK'
        BY <2>11, <3>2 DEF Disconnect, Meets, Working, TypeOK, settings
    <3> QED BY <2>11, <3>3, <3>4 DEF Disconnect
  <2>12. ASSUME NEW q \in Request, ConfigDelete(q) PROVE TypeInv'
    <3>1. request' \in [Request -> RequestState]
        BY <2>12, MovedType, StageNames DEF ConfigDelete, Goto
    <3>2. \A p \in Request : CodeOf(p)'
        BY <2>12 DEF ConfigDelete, Goto, At, TypeOK, CodeOf, RequestState
    <3> QED BY <2>12, <3>1, <3>2, RequestFields DEF ConfigDelete, TypeOK, settings, past
  <2>13. ASSUME NEW q \in Request, ClearGdriveAccount(q) PROVE TypeInv'
      BY <2>13, IdleFields DEF ClearGdriveAccount, Finish, TypeOK, CodeOf, past
  <2>14. ASSUME NEW q \in Request, Abort(q) PROVE TypeInv'
      BY <2>14, IdleFields DEF Abort, Finish, TypeOK, CodeOf, settings
  <2>15. CASE UNCHANGED vars
      BY <2>15 DEF vars, TypeOK, CodeOf, settings, past
  <2> QED BY <2>1, <2>2, <2>3, <2>4, <2>5, <2>6, <2>7, <2>8, <2>9, <2>10, <2>11,
             <2>12, <2>13, <2>14, <2>15 DEF Next, Callback, Disconnection
<1> QED BY <1>1, <1>2, PTL DEF Spec

-----------------------------------------------------------------------------
(* States *)

\* A state is redeemed at most once, by however many callbacks, and only if a flow
\* was started with it: the DEL is what decides. RedeemedOnce needs no help but the
\* types, for it says itself that what was redeemed is no longer there.
THEOREM StatesRedeemedOnce == Spec => []RedeemedOnce
<1>1. Init => RedeemedOnce
    BY DEF Init, RedeemedOnce
<1>2. TypeInv /\ RedeemedOnce /\ [Next]_vars => RedeemedOnce'
  <2> SUFFICES ASSUME TypeInv, RedeemedOnce, [Next]_vars PROVE RedeemedOnce'
      OBVIOUS
  <2>1. \A s \in states : url[s] # NoClient /\ redeemed[s] = 0
      BY DEF TypeInv, TypeOK, RedeemedOnce
  <2>2. ASSUME NEW c \in Client, UpdateGdriveCreds(c) PROVE RedeemedOnce'
      BY <2>2 DEF UpdateGdriveCreds, RedeemedOnce, past
  <2>3. ASSUME NEW r \in Remote, UpdateSettings(r) PROVE RedeemedOnce'
      BY <2>3 DEF UpdateSettings, RedeemedOnce
  <2>4. ASSUME NEW s \in State, OAuthStart(s) PROVE RedeemedOnce'
      BY <2>4 DEF OAuthStart, BuildAuthURL, RedeemedOnce, past, TypeInv, TypeOK
  <2>5. ASSUME NEW s \in State, StateExpires(s) PROVE RedeemedOnce'
      BY <2>5 DEF StateExpires, RedeemedOnce, past
  <2>6. ASSUME NEW q \in Request, NEW s \in State, NEW a \in Account,
               OAuthCallback(q, s, a)
        PROVE  RedeemedOnce'
      BY <2>1, <2>6 DEF OAuthCallback, ValidateState, RedeemedOnce, TypeInv, TypeOK
  <2>7. ASSUME NEW q \in Request,
               \/ GetSettings(q) \/ Exchange(q) \/ FetchEmail(q) \/ ConfigCreate(q)
               \/ UpdateGdriveAccount(q) \/ Disconnection(q) \/ Abort(q)
        PROVE  RedeemedOnce'
    <3>1. UNCHANGED <<states, url, redeemed>>
        BY <2>7 DEF GetSettings, Exchange, FetchEmail, ConfigCreate, UpdateGdriveAccount,
                    Disconnection, Disconnect, ConfigDelete, ClearGdriveAccount, Abort, past
    <3> QED BY <3>1 DEF RedeemedOnce
  <2>8. CASE UNCHANGED vars
      BY <2>8 DEF vars, RedeemedOnce, past
  <2> QED BY <2>2, <2>3, <2>4, <2>5, <2>6, <2>7, <2>8 DEF Next, Callback
<1> QED BY <1>1, <1>2, TypeCorrect, PTL DEF Spec

-----------------------------------------------------------------------------
(* Tokens *)

\* A remote refreshes its token with the client the token was granted to: only
\* ConfigCreate writes a remote, and a request that has come so far got its token
\* with the client that its code was issued to.
THEOREM TokensFit == Spec => []TokensFitTheirClients
<1>1. Init => TokensFitTheirClients
    BY DEF Init, TokensFitTheirClients
<1>2. TypeInv /\ TokensFitTheirClients /\ [Next]_vars => TokensFitTheirClients'
  <2> SUFFICES ASSUME TypeInv, TokensFitTheirClients, [Next]_vars
               PROVE  TokensFitTheirClients'
      OBVIOUS
  <2>1. ASSUME NEW q \in Request, ConfigCreate(q) PROVE TokensFitTheirClients'
    <3>1. request[q].client = request[q].granted
        BY <2>1 DEF ConfigCreate, At, TypeInv, CodeOf
    <3> QED BY <2>1, <3>1 DEF ConfigCreate, TokensFitTheirClients, TypeInv, TypeOK
  <2>2. ASSUME NEW q \in Request, ConfigDelete(q) PROVE TokensFitTheirClients'
      BY <2>2 DEF ConfigDelete, TokensFitTheirClients, TypeInv, TypeOK
  <2>3. CASE UNCHANGED config
      BY <2>3 DEF TokensFitTheirClients
  <2>4. ASSUME NEW q \in Request,
               \/ \E s \in State, a \in Account : OAuthCallback(q, s, a)
               \/ GetSettings(q) \/ Exchange(q) \/ FetchEmail(q) \/ UpdateGdriveAccount(q)
               \/ Disconnect(q) \/ ClearGdriveAccount(q) \/ Abort(q)
        PROVE  UNCHANGED config
      BY <2>4 DEF OAuthCallback, GetSettings, Exchange, FetchEmail, UpdateGdriveAccount,
                  Disconnect, ClearGdriveAccount, Abort
  <2>5. ASSUME \/ \E c \in Client : UpdateGdriveCreds(c)
               \/ \E r \in Remote : UpdateSettings(r)
               \/ \E s \in State : OAuthStart(s) \/ StateExpires(s)
               \/ UNCHANGED vars
        PROVE  UNCHANGED config
      BY <2>5 DEF UpdateGdriveCreds, UpdateSettings, OAuthStart, StateExpires, vars
  <2> QED BY <2>1, <2>2, <2>3, <2>4, <2>5 DEF Next, Callback, Disconnection
<1> QED BY <1>1, <1>2, TypeCorrect, PTL DEF Spec

-----------------------------------------------------------------------------
(* The account in the settings *)

\* What a step leaves alone that changes the request q only.
OthersKept(q) == \A p \in Request \ {q} : request'[p] = request[p]

\* A step that does not change any request, nor what AloneInv compares.
LEMMA AloneKept ==
    ASSUME AloneInv, UNCHANGED <<request, met, doubtful, config, name, email>>
    PROVE  AloneInv'
BY DEF AloneInv, Working, HalfWay, At, Told

\* A request that goes on to a stage where it has not written yet leaves the file
\* and the settings as they are.
LEMMA AloneGoesOn ==
    ASSUME TypeInv, AloneInv, NEW q \in Request, OthersKept(q),
           q \in Working, q \notin HalfWay,
           request'[q].at \in {"userinfo", "create"},
           request'[q].remote = request[q].remote,
           UNCHANGED <<met, doubtful, config, name, email>>
    PROVE  AloneInv'
<1>1. Working' = Working /\ HalfWay' = HalfWay
    BY DEF Working, HalfWay, OthersKept
<1>2. \A p \in Request : p \in HalfWay => request'[p] = request[p]
    BY DEF OthersKept
<1>3. \A p \in Request : p \in HalfWay' => (At(p, "store")' <=> At(p, "store"))
                                        /\ (At(p, "clear")' <=> At(p, "clear"))
    BY <1>1, <1>2 DEF At
<1>4. \A p \in Request : request'[p].remote = request[p].remote
    BY DEF OthersKept
<1> QED BY <1>1, <1>2, <1>3, <1>4 DEF AloneInv, HalfWay, At, Told

\* A request that begins its work is alone, or it and all others have met.
LEMMA AloneBegins ==
    ASSUME TypeInv, AloneInv, NEW q \in Request, OthersKept(q),
           q \notin Working, request'[q].at \in {"exchange", "delete"},
           request'[q].remote = name, Meets(q),
           UNCHANGED <<doubtful, config, name, email>>
    PROVE  AloneInv'
<1>1. Working' = Working \cup {q} /\ HalfWay' = HalfWay
    BY DEF Working, HalfWay, OthersKept
<1>2. met \subseteq met'
    BY DEF Meets
<1>3. \A p \in Working' \ met' : Working' = {p} /\ request'[p].remote = name'
  <2>1. CASE Working = {}
      BY <1>1, <2>1
  <2>2. CASE Working # {}
      BY <1>1, <2>2 DEF Meets
  <2> QED BY <2>1, <2>2
<1>4. \A p \in Request \ met' :
          /\ At(p, "store")' => At(p, "store") /\ request'[p] = request[p]
          /\ At(p, "clear")' => At(p, "clear")
    BY DEF At, OthersKept
<1> QED BY <1>1, <1>2, <1>3, <1>4 DEF AloneInv, Told

\* A request that is idle again; doubtful is told by the step.
LEMMA AloneEnds ==
    ASSUME TypeInv, AloneInv, NEW q \in Request, Finish(q),
           UNCHANGED <<config, name>>,
           ~ doubtful' /\ HalfWay' = {} => Told'
    PROVE  AloneInv'
<1>1. request'[q].at = "idle" /\ OthersKept(q)
    BY IdleFields DEF Finish, OthersKept, TypeInv, TypeOK
<1>2. Working' = Working \ {q} /\ met' = met \ {q}
    BY <1>1 DEF Working, OthersKept, Finish
<1>3. \A p \in Working' \ met' : Working' = {p} /\ request'[p].remote = name'
    BY <1>1, <1>2 DEF AloneInv, OthersKept, Working
<1>4. \A p \in Request \ met' :
          /\ At(p, "store")' => p \notin met /\ At(p, "store") /\ request'[p] = request[p]
          /\ At(p, "clear")' => p \notin met /\ At(p, "clear")
    BY <1>1, <1>2 DEF At, OthersKept
<1> QED BY <1>3, <1>4 DEF AloneInv

\* After UpdateSettings(r), no request at work counts as alone.
LEMMA AloneRenamed ==
    ASSUME TypeInv, AloneInv, NEW r \in Remote, UpdateSettings(r)
    PROVE  AloneInv'
<1>1. Working' = Working /\ met' = met \cup Working /\ doubtful'
    BY DEF UpdateSettings, Working
<1>2. \A p \in Request : (At(p, "store") \/ At(p, "clear"))' => p \in Working'
    BY DEF At, Working
<1> QED BY <1>1, <1>2 DEF AloneInv

\* When no request is at work and nothing is doubtful, the settings tell of the
\* remote they name what was found out about it. The invariant follows the
\* requests that met no other: what such a request did to rclone's file is what
\* it will write to the settings, and no one comes in between.
THEOREM SettingsTellTheAccount == Spec => []AccountTellsRemote
<1>1. Init => AloneInv
    BY LoginConstants, IdleFields
       DEF Init, AloneInv, Working, HalfWay, At, Told
<1>2. TypeInv /\ AloneInv /\ [Next]_vars => AloneInv'
  <2> SUFFICES ASSUME TypeInv, AloneInv, [Next]_vars PROVE AloneInv'
      OBVIOUS
  <2>1. ASSUME \/ \E c \in Client : UpdateGdriveCreds(c)
               \/ \E s \in State : OAuthStart(s) \/ StateExpires(s)
               \/ UNCHANGED vars
        PROVE  AloneInv'
    <3>1. UNCHANGED <<request, met, doubtful, config, name, email>>
        BY <2>1 DEF UpdateGdriveCreds, OAuthStart, StateExpires, vars, settings, past
    <3> QED BY <3>1, AloneKept
  <2>2. ASSUME NEW q \in Request, NEW s \in State, NEW a \in Account,
               OAuthCallback(q, s, a)
        PROVE  AloneInv'
    <3> DEFINE new == [Idle EXCEPT !.at = "settings", !.granted = url[s], !.account = a]
    <3>1. request' = [request EXCEPT ![q] = new] /\ request[q].at = "idle"
        BY <2>2 DEF OAuthCallback, At
    <3>2. new.at = "settings"
        BY IdleFields DEF RequestState
    <3> HIDE DEF new
    <3>3. request'[q].at = "settings" /\ OthersKept(q)
        BY <3>1, <3>2 DEF OthersKept, TypeInv, TypeOK
    <3>4. Working' = Working /\ HalfWay' = HalfWay
        BY <3>1, <3>3 DEF Working, HalfWay, OthersKept
    <3>5. \A p \in Working : request'[p] = request[p]
        BY <3>1, <3>3 DEF Working, OthersKept
    <3>6. \A p \in Request :
              /\ At(p, "store")' => At(p, "store") /\ request'[p] = request[p]
              /\ At(p, "clear")' => At(p, "clear")
        BY <3>3 DEF At, OthersKept
    <3>7. UNCHANGED <<met, doubtful, config, name, email>>
        BY <2>2 DEF OAuthCallback, settings
    <3> QED BY <3>4, <3>5, <3>6, <3>7 DEF AloneInv, Told
  <2>3. ASSUME NEW q \in Request, GetSettings(q) \/ Disconnect(q) PROVE AloneInv'
    <3>1. OthersKept(q) /\ Meets(q) /\ UNCHANGED <<doubtful, config, name, email>>
        BY <2>3 DEF GetSettings, Disconnect, OthersKept, settings, TypeInv, TypeOK
    <3>2. q \notin Working
        BY <2>3 DEF GetSettings, Disconnect, At, Working
    <3>3. request'[q].at \in {"exchange", "delete"} /\ request'[q].remote = name
        BY <2>3 DEF GetSettings, Disconnect, TypeInv, TypeOK, RequestState
    <3> QED BY <3>1, <3>2, <3>3, AloneBegins
  <2>4. ASSUME NEW q \in Request, Exchange(q) PROVE AloneInv'
    <3>1. CASE request[q].client = request[q].granted
      <4>1. OthersKept(q) /\ UNCHANGED <<met, doubtful, config, name, email>>
          BY <2>4, <3>1 DEF Exchange, Goto, OthersKept, settings, TypeInv, TypeOK
      <4>2. q \in Working /\ q \notin HalfWay
          BY <2>4 DEF Exchange, At, Working, HalfWay
      <4>3. request'[q].at = "userinfo" /\ request'[q].remote = request[q].remote
          BY <2>4, <3>1 DEF Exchange, Goto, TypeInv, TypeOK, RequestState
      <4> QED BY <4>1, <4>2, <4>3, AloneGoesOn
    <3>2. CASE request[q].client # request[q].granted
      <4>1. Finish(q) /\ UNCHANGED <<doubtful, config, name, email>>
          BY <2>4, <3>2 DEF Exchange, settings
      <4>2. HalfWay' = HalfWay
          BY <2>4, <4>1, IdleFields DEF Exchange, At, Finish, HalfWay, TypeInv, TypeOK
      <4> QED BY <4>1, <4>2, AloneEnds DEF AloneInv, Told
    <3> QED BY <3>1, <3>2
  <2>5. ASSUME NEW q \in Request, FetchEmail(q) PROVE AloneInv'
    <3>1. OthersKept(q) /\ UNCHANGED <<met, doubtful, config, name, email>>
        BY <2>5 DEF FetchEmail, OthersKept, settings, past, TypeInv, TypeOK
    <3>2. q \in Working /\ q \notin HalfWay
        BY <2>5 DEF FetchEmail, At, Working, HalfWay
    <3>3. request'[q].at = "create" /\ request'[q].remote = request[q].remote
        BY <2>5 DEF FetchEmail, TypeInv, TypeOK, RequestState
    <3> QED BY <3>1, <3>2, <3>3, AloneGoesOn
  <2>6. ASSUME NEW q \in Request, ConfigCreate(q) \/ ConfigDelete(q) PROVE AloneInv'
    <3>1. OthersKept(q) /\ UNCHANGED <<met, doubtful, name, email>>
        BY <2>6 DEF ConfigCreate, ConfigDelete, Goto, OthersKept, settings, past,
                    TypeInv, TypeOK
    <3>2. q \in Working
        BY <2>6 DEF ConfigCreate, ConfigDelete, At, Working
    <3>3. /\ request'[q].at = IF ConfigCreate(q) THEN "store" ELSE "clear"
          /\ request'[q].remote = request[q].remote
          /\ request'[q].shown = request[q].shown
        BY <2>6 DEF ConfigCreate, ConfigDelete, At, Goto, TypeInv, TypeOK, RequestState
    <3>4. Working' = Working /\ q \in HalfWay'
        BY <3>1, <3>2, <3>3 DEF Working, HalfWay, OthersKept
    <3>5. \A p \in Working' \ met' : Working' = {p} /\ request'[p].remote = name'
        BY <3>1, <3>3, <3>4 DEF AloneInv, OthersKept, Working
    <3>6. ASSUME NEW p \in Request \ met', (At(p, "store") \/ At(p, "clear"))'
          PROVE  p = q /\ request[q].remote = name
      <4>1. p \in Working' \ met'
          BY <3>6 DEF At, Working
      <4> QED BY <3>1, <3>2, <3>3, <3>4, <3>5, <4>1
    <3>7. ConfigCreate(q) =>
              /\ config'[request[q].remote] \in Entry
              /\ config'[request[q].remote].shown = request[q].shown
      <4>1. [client |-> request[q].client, granted |-> request[q].granted,
             account |-> request[q].account, shown |-> request[q].shown] \in Entry
            \/ ~ ConfigCreate(q)
          BY RequestFields DEF ConfigCreate, At, TypeInv, CodeOf, Entry
      <4> QED BY <4>1, RequestFields DEF ConfigCreate, TypeInv, TypeOK
    <3>8. ConfigDelete(q) => config'[request[q].remote] = NoRemote
        BY RequestFields DEF ConfigDelete, TypeInv, TypeOK
    <3>9. \A p \in Request \ met' :
              /\ At(p, "store")' => /\ config'[name'] # NoRemote
                                    /\ config'[name'].shown = request'[p].shown
              /\ At(p, "clear")' => config'[name'] = NoRemote
        BY <2>6, <3>1, <3>3, <3>6, <3>7, <3>8, NoRemoteIsNoEntry DEF At
    <3> QED BY <3>4, <3>5, <3>9 DEF AloneInv
  <2>7. ASSUME NEW q \in Request, UpdateGdriveAccount(q) \/ ClearGdriveAccount(q)
        PROVE  AloneInv'
    <3>1. Finish(q) /\ UNCHANGED <<config, name>>
        BY <2>7 DEF UpdateGdriveAccount, ClearGdriveAccount
    <3>2. ~ doubtful' => q \notin met
        BY <2>7 DEF UpdateGdriveAccount, ClearGdriveAccount
    <3>3. ASSUME ~ doubtful' PROVE Told'
        BY <2>7, <3>1, <3>2, <3>3
           DEF AloneInv, At, Told, UpdateGdriveAccount, ClearGdriveAccount
    <3> QED BY <3>1, <3>3, AloneEnds
  <2>8. ASSUME NEW q \in Request, Abort(q) PROVE AloneInv'
    <3>1. Finish(q) /\ UNCHANGED <<config, name, email>>
        BY <2>8 DEF Abort, settings
    <3>2. ~ doubtful' => ~ doubtful /\ q \notin HalfWay
        BY <2>8 DEF Abort
    <3>3. q \notin HalfWay => HalfWay' = HalfWay
        BY <3>1, IdleFields DEF Finish, HalfWay, TypeInv, TypeOK
    <3> QED BY <3>1, <3>2, <3>3, AloneEnds DEF AloneInv, Told
  <2> QED BY <2>1, <2>2, <2>3, <2>4, <2>5, <2>6, <2>7, <2>8, AloneRenamed
          DEF Next, Callback, Disconnection
<1>3. AloneInv => AccountTellsRemote
    BY DEF AloneInv, AccountTellsRemote, Told, Working, HalfWay
<1> QED BY <1>1, <1>2, <1>3, TypeCorrect, PTL DEF Spec
===============================================================================
