------------------------------ MODULE BackupLogin ------------------------------
(***************************************************************************)
(* Connecting the backups to a Google Drive account: an administrator      *)
(* starts the OAuth flow, Google redirects a browser to the callback with  *)
(* a code, and the callback hands a token to rclone and the account's      *)
(* address to the settings.  Disconnecting undoes both.  Neither is a      *)
(* transaction, and both go by the name of the remote that the settings    *)
(* had when they read them.                                                *)
(***************************************************************************)
EXTENDS Naturals

CONSTANTS
    Client,      \* OAuth clients: an id with its secret
    Account,     \* Google accounts
    Remote,      \* names for a remote of rclone
    State,       \* state values that are ever drawn: a bound
    Request,     \* callbacks and disconnections in progress at one time: a bound
    Default,     \* the name of the remote in a new installation
    NoClient, NoAccount, NoRemote

ASSUME LoginConstants ==
    /\ Default \in Remote
    /\ NoClient \notin Client
    /\ NoAccount \notin Account

VARIABLES
    creds,       \* gdrive_client_id and gdrive_client_secret
    name,        \* rclone_remote
    email,       \* gdrive_account_email: NoAccount is the empty string
    states,      \* the keys backup_oauth_state:* in Redis
    url,         \* the client in the consent URL that each state went out with
    config,      \* rclone's configuration file
    request,     \* the requests in progress
    redeemed,    \* history: how often each state was accepted
    met,         \* history: requests that met another one, or a renaming
    doubtful     \* history: no request has done all of its work alone since one
                 \* that did not, or since a renaming

settings == <<creds, name, email>>
past == <<redeemed, met, doubtful>>
vars == <<settings, states, url, config, request, past>>

\* A remote in rclone's file: the client it is to refresh its token with, the client
\* the token was granted to, whose drive it opens, and the address that was found.
Entry == [client: Client, granted: Client, account: Account,
          shown: Account \cup {NoAccount}]

ASSUME NoRemoteIsNoEntry == NoRemote \notin Entry

Stage == {"settings", "exchange", "userinfo", "create", "store", "delete", "clear"}

RequestState ==
    [at: Stage \cup {"idle"},
     granted: Client \cup {NoClient},   \* the client the code was issued to
     account: Account \cup {NoAccount}, \* who consented
     client: Client \cup {NoClient},    \* the client and the remote's name, as read
     remote: Remote,
     shown: Account \cup {NoAccount}]   \* what the userinfo endpoint answered

Idle == [at |-> "idle", granted |-> NoClient, account |-> NoAccount,
         client |-> NoClient, remote |-> Default, shown |-> NoAccount]

TypeOK ==
    /\ creds \in Client \cup {NoClient}
    /\ name \in Remote
    /\ email \in Account \cup {NoAccount}
    /\ states \subseteq State
    /\ url \in [State -> Client \cup {NoClient}]
    /\ config \in [Remote -> Entry \cup {NoRemote}]
    /\ request \in [Request -> RequestState]
    /\ redeemed \in [State -> Nat]
    /\ met \subseteq Request
    /\ doubtful \in BOOLEAN

-----------------------------------------------------------------------------
Init ==
    /\ creds = NoClient
    /\ name = Default
    /\ email = NoAccount
    /\ states = {}
    /\ url = [s \in State |-> NoClient]
    /\ config = [r \in Remote |-> NoRemote]
    /\ request = [q \in Request |-> Idle]
    /\ redeemed = [s \in State |-> 0]
    /\ met = {}
    /\ doubtful = FALSE

At(q, stage) == request[q].at = stage

\* Requests that have read the settings and may change, or have changed, something.
Working == {q \in Request : request[q].at \notin {"idle", "settings"}}

\* Requests that have written to rclone's file and not yet to the settings.
HalfWay == {q \in Request : request[q].at \in {"store", "clear"}}

Goto(q, stage) == request' = [request EXCEPT ![q].at = stage]

Finish(q) ==
    /\ request' = [request EXCEPT ![q] = Idle]
    /\ met' = met \ {q}

Meets(q) == met' = IF Working = {} THEN met ELSE met \cup Working \cup {q}

-----------------------------------------------------------------------------
(* The settings and the start of the flow.                                  *)

\* PUT /admin/backup/gdrive/creds.
UpdateGdriveCreds(c) ==
    /\ creds' = c
    /\ UNCHANGED <<name, email, states, url, config, request, past>>

\* PUT /admin/backup/settings with another name for the remote; what it saves of
\* the schedule is the matter of BackupScheduler.
UpdateSettings(r) ==
    /\ r # name
    /\ name' = r
    /\ met' = met \cup Working
    /\ doubtful' = TRUE
    /\ UNCHANGED <<creds, email, states, url, config, request, redeemed>>

\* A state nobody has seen yet goes to Redis and, with the client, into the URL.
BuildAuthURL(s) ==
    /\ url[s] = NoClient
    /\ url' = [url EXCEPT ![s] = creds]
    /\ states' = states \cup {s}

\* As the state is new it makes no difference whether the client was read just now
\* or a little earlier.
OAuthStart(s) ==
    /\ creds # NoClient
    /\ BuildAuthURL(s)
    /\ UNCHANGED <<settings, config, request, past>>

\* Ten minutes are over.
StateExpires(s) ==
    /\ s \in states
    /\ states' = states \ {s}
    /\ UNCHANGED <<settings, url, config, request, past>>

-----------------------------------------------------------------------------
(* The callback.  A browser may load it again, and a consent page that was  *)
(* opened twice may be answered for two accounts.                           *)

\* Variant with a bug: the state is looked for and not deleted.
ValidateStateKept(s) == s \in states /\ UNCHANGED states

\* The DEL that tells whether there was something to delete.
ValidateState(s) == s \in states /\ states' = states \ {s}

\* A callback whose state is not valid ends with an error page and changes nothing.
OAuthCallback(q, s, a) ==
    /\ At(q, "idle")
    /\ ValidateState(s)
    /\ redeemed' = [redeemed EXCEPT ![s] = @ + 1]
    /\ request' = [request EXCEPT ![q] = [Idle EXCEPT !.at = "settings",
                                                      !.granted = url[s],
                                                      !.account = a]]
    /\ UNCHANGED <<settings, url, config, met, doubtful>>

GetSettings(q) ==
    /\ At(q, "settings")
    /\ request' = [request EXCEPT ![q].at = "exchange", ![q].client = creds,
                                  ![q].remote = name]
    /\ Meets(q)
    /\ UNCHANGED <<settings, states, url, config, redeemed, doubtful>>

\* Google refuses a code that was issued to another client. It may refuse any
\* other too, for which there is Abort.
Exchange(q) ==
    /\ At(q, "exchange")
    /\ IF request[q].client = request[q].granted
       THEN Goto(q, "userinfo") /\ UNCHANGED met
       ELSE Finish(q)
    /\ UNCHANGED <<settings, states, url, config, redeemed, doubtful>>

\* fetchGoogleEmail: every failure is an empty address.
FetchEmail(q) ==
    /\ At(q, "userinfo")
    /\ \E e \in {request[q].account, NoAccount} :
           request' = [request EXCEPT ![q].at = "create", ![q].shown = e]
    /\ UNCHANGED <<settings, states, url, config, past>>

\* Variant with a bug: the client is taken from the settings as they are by now.
ConfigCreateFresh(q) ==
    /\ At(q, "create")
    /\ config' = [config EXCEPT ![request[q].remote] =
                    [client |-> creds, granted |-> request[q].granted,
                     account |-> request[q].account, shown |-> request[q].shown]]
    /\ Goto(q, "store")
    /\ UNCHANGED <<settings, states, url, past>>

\* rclone config create, which replaces a remote of that name.
ConfigCreate(q) ==
    /\ At(q, "create")
    /\ config' = [config EXCEPT ![request[q].remote] =
                    [client |-> request[q].client, granted |-> request[q].granted,
                     account |-> request[q].account, shown |-> request[q].shown]]
    /\ Goto(q, "store")
    /\ UNCHANGED <<settings, states, url, past>>

\* Variant with a bug: an address that could not be found is not stored.
UpdateGdriveAccountKnown(q) ==
    /\ At(q, "store")
    /\ email' = IF request[q].shown = NoAccount THEN email ELSE request[q].shown
    /\ doubtful' = (q \in met)
    /\ Finish(q)
    /\ UNCHANGED <<creds, name, states, url, config, redeemed>>

UpdateGdriveAccount(q) ==
    /\ At(q, "store")
    /\ email' = request[q].shown
    /\ doubtful' = (q \in met)
    /\ Finish(q)
    /\ UNCHANGED <<creds, name, states, url, config, redeemed>>

-----------------------------------------------------------------------------
(* POST /admin/backup/gdrive/disconnect.                                    *)

Disconnect(q) ==
    /\ At(q, "idle")
    /\ request' = [request EXCEPT ![q].at = "delete", ![q].remote = name]
    /\ Meets(q)
    /\ UNCHANGED <<settings, states, url, config, redeemed, doubtful>>

\* rclone config delete, which does not mind a remote that is not there.
ConfigDelete(q) ==
    /\ At(q, "delete")
    /\ config' = [config EXCEPT ![request[q].remote] = NoRemote]
    /\ Goto(q, "clear")
    /\ UNCHANGED <<settings, states, url, past>>

ClearGdriveAccount(q) ==
    /\ At(q, "clear")
    /\ email' = NoAccount
    /\ doubtful' = (q \in met)
    /\ Finish(q)
    /\ UNCHANGED <<creds, name, states, url, config, redeemed>>

\* A statement or command fails, the browser goes away and cancels the request, or
\* the process dies. What was done is not undone.
Abort(q) ==
    /\ ~ At(q, "idle")
    /\ doubtful' = (doubtful \/ q \in HalfWay)
    /\ Finish(q)
    /\ UNCHANGED <<settings, states, url, config, redeemed>>

-----------------------------------------------------------------------------
Callback(q) ==
    \/ \E s \in State, a \in Account : OAuthCallback(q, s, a)
    \/ GetSettings(q)
    \/ Exchange(q)
    \/ FetchEmail(q)
    \/ ConfigCreate(q)
    \/ UpdateGdriveAccount(q)

Disconnection(q) == Disconnect(q) \/ ConfigDelete(q) \/ ClearGdriveAccount(q)

Next ==
    \/ \E c \in Client : UpdateGdriveCreds(c)
    \/ \E r \in Remote : UpdateSettings(r)
    \/ \E s \in State : OAuthStart(s) \/ StateExpires(s)
    \/ \E q \in Request : Callback(q) \/ Disconnection(q) \/ Abort(q)

Spec == Init /\ [][Next]_vars

-----------------------------------------------------------------------------
(* Properties *)

\* A state is accepted at most once, by however many callbacks at the same time,
\* and only if the flow was started with it ("one-time: a state value can only be
\* redeemed once", backup_oauth_service.go:46).
RedeemedOnce ==
    \A s \in State :
        /\ redeemed[s] <= 1
        /\ redeemed[s] = 1 => url[s] # NoClient /\ s \notin states

\* rclone refreshes a token with the client it was granted to, although the saved
\* client may be another one at the start of the flow, in the callback and when
\* the remote is created.
TokensFitTheirClients ==
    \A r \in Remote : config[r] # NoRemote => config[r].client = config[r].granted

\* When no request is at work, the settings show the account whose drive the
\* backups are copied to, and none if there is none (or its address could not be
\* found), by which RunNow decides whether to start. It is not so after requests
\* that met one another or stopped half-way, or after the remote was given another
\* name, until the next request that does its work alone.
AccountTellsRemote ==
    Working = {} /\ ~ doubtful =>
        email = IF config[name] = NoRemote THEN NoAccount ELSE config[name].shown

================================================================================
