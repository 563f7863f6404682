---------------------------- MODULE AdminAccess ----------------------------
(***************************************************************************)
(* Who may administer the platform: the sessions and the login limit of    *)
(* src/src/admin/auth-service.ts and the requests of admin/admin-server.ts,*)
(* composed with the authorization that a login with Feishu goes through   *)
(* (module UserAuthorization).                                             *)
(*                                                                         *)
(* Authentication is synchronous; the body of a request is read after it.  *)
(***************************************************************************)
EXTENDS UserAuthorization

CONSTANTS
  Client,      \* the addresses logins come from
  Session,     \* the session cookies that may be issued
  Request,     \* the requests that carry a cookie
  CookieOf,    \* the session a request's cookie names
  Allowlist,   \* ADMIN_OPEN_IDS
  MaxAttempts  \* maxLoginAttempts

ASSUME AccessAssumption ==
  /\ CookieOf \in [Request -> Session]
  /\ Allowlist \subseteq User
  /\ MaxAttempts \in Nat \ {0}
  /\ "token" \notin Callback

VARIABLES
  session,   \* none, live, over
  actor,     \* what a session was created for: the token or a callback
  failures,  \* failed logins of a client in its window
  progress   \* of a request: idle, body, executed, refused

sessionVars == <<session, actor, failures, progress>>
accessVars == <<oauthVars, sessionVars>>

AccessTypeOK ==
  /\ OAuthTypeOK
  /\ session \in [Session -> {"none", "live", "over"}]
  /\ actor \in [Session -> Callback \cup {"token", Nobody}]
  /\ failures \in [Client -> 0 .. MaxAttempts]
  /\ progress \in [Request -> {"idle", "body", "executed", "refused"}]

AccessInit ==
  /\ OAuthInit
  /\ session = [x \in Session |-> "none"]
  /\ actor = [x \in Session |-> Nobody]
  /\ failures = [c \in Client |-> 0]
  /\ progress = [r \in Request |-> "idle"]

-----------------------------------------------------------------------------
(* Logins. *)
Open(x, who) ==
  /\ session[x] = "none"
  /\ session' = [session EXCEPT ![x] = "live"]
  /\ actor' = [actor EXCEPT ![x] = who]

(* The bootstrap token, or a wrong one: a client whose attempts are used   *)
(* up is refused either way, a right one clears its count.                 *)
Login(c, x) ==
  /\ failures[c] < MaxAttempts
  /\ Open(x, "token")
  /\ failures' = [failures EXCEPT ![c] = 0]
  /\ UNCHANGED <<oauthVars, progress>>

WrongToken(c) ==
  /\ failures[c] < MaxAttempts
  /\ failures' = [failures EXCEPT ![c] = @ + 1]
  /\ UNCHANGED <<oauthVars, session, actor, progress>>

WindowEnds(c) ==
  /\ failures[c] > 0
  /\ failures' = [failures EXCEPT ![c] = 0]
  /\ UNCHANGED <<oauthVars, session, actor, progress>>

(* Mutant: a session is opened wherever the authorization came back. *)
SsoLoginAnyDoor(b) ==
  /\ SaveGrant(b)
  /\ IF AccountOf[b] \in Allowlist
     THEN \E x \in Session : Open(x, b)
     ELSE UNCHANGED <<session, actor>>
  /\ UNCHANGED <<failures, progress>>

(* completeAdminSso() and the session: the token record of the account is  *)
(* saved before the allowlist is asked.                                    *)
SsoLogin(b) ==
  /\ DoorOf[b] = "admin"
  /\ SaveGrant(b)
  /\ IF AccountOf[b] \in Allowlist
     THEN \E x \in Session : Open(x, b)
     ELSE UNCHANGED <<session, actor>>
  /\ UNCHANGED <<failures, progress>>

SessionExpires(x) ==
  /\ session[x] = "live"
  /\ session' = [session EXCEPT ![x] = "over"]
  /\ UNCHANGED <<oauthVars, actor, failures, progress>>

-----------------------------------------------------------------------------
(* Requests. *)
Methods == {"read", "write"}

(* A live cookie; all but a read also need the CSRF token of the session,  *)
(* which requests from another site do not have.                           *)
Authorized(r, method, fromConsole) ==
  /\ session[CookieOf[r]] = "live"
  /\ method = "read" \/ fromConsole

(* authorizeRequest(): a write goes on to read its body.                   *)
Arrive(r) ==
  /\ progress[r] = "idle" /\ session[CookieOf[r]] # "none"
  /\ \E method \in Methods, fromConsole \in BOOLEAN :
       progress' = [progress EXCEPT ![r] =
                     IF ~Authorized(r, method, fromConsole) THEN "refused"
                     ELSE IF method = "write" THEN "body" ELSE "executed"]
  /\ UNCHANGED <<oauthVars, session, actor, failures>>

LogOut(r) ==
  /\ progress[r] = "idle"
  /\ Authorized(r, "logout", TRUE)
  /\ progress' = [progress EXCEPT ![r] = "executed"]
  /\ session' = [session EXCEPT ![CookieOf[r]] = "over"]
  /\ UNCHANGED <<oauthVars, actor, failures>>

(* The body is complete and valid, or too large, malformed or cut off.     *)
BodyRead(r) ==
  /\ progress[r] = "body"
  /\ \E answer \in {"executed", "refused"} :
       progress' = [progress EXCEPT ![r] = answer]
  /\ UNCHANGED <<oauthVars, session, actor, failures>>

(* The sessions and the counts are in memory only.                         *)
Crash ==
  /\ Forgets
  /\ session' = [x \in Session |->
                   IF session[x] = "live" THEN "over" ELSE session[x]]
  /\ failures' = [c \in Client |-> 0]
  /\ progress' = [r \in Request |->
                   IF progress[r] = "body" THEN "refused" ELSE progress[r]]
  /\ UNCHANGED actor

Authorization ==
  /\ OAuthNext
  /\ \A b \in granted' \ granted : DoorOf[b] = "user"
  /\ UNCHANGED sessionVars

AccessNext ==
  \/ Authorization
  \/ \E c \in Client : WrongToken(c) \/ WindowEnds(c)
  \/ \E c \in Client, x \in Session : Login(c, x)
  \/ \E b \in Callback : SsoLogin(b)
  \/ \E x \in Session : SessionExpires(x)
  \/ \E r \in Request : Arrive(r) \/ LogOut(r) \/ BodyRead(r)
  \/ Crash

AccessSpec == AccessInit /\ [][AccessNext]_accessVars

(* An API call goes on once it started; the authorization server answers   *)
(* or the request to it times out.                                         *)
FairAccessSpec ==
  /\ AccessSpec
  /\ \A k \in Caller :
       WF_accessVars(/\ \/ Check(k) \/ Refreshed(k)
                        \/ RefreshFails(k) \/ SaveRefresh(k)
                     /\ UNCHANGED sessionVars)

-----------------------------------------------------------------------------
(* A session for a Feishu account stands on a completed login of an        *)
(* allowlisted account, through a state that was issued for administrators.*)
SessionsAreBacked ==
  \A x \in Session : actor[x] \in Callback =>
    /\ actor[x] \in granted
    /\ PurposeOf[StateOf[actor[x]]] = Sso
    /\ AccountOf[actor[x]] \in Allowlist
=============================================================================
