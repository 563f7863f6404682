------------------------- MODULE UserAuthorization -------------------------
(***************************************************************************)
(* The OAuth of one Feishu App (src/src/feishu/oauth.ts): states in files  *)
(* that a callback claims by renaming them, encrypted token records, and   *)
(* the refresh that concurrent API calls share (feishu/api-client.ts).     *)
(*                                                                         *)
(* Every file operation and every request to the authorization server is   *)
(* a step of its own; what a step read may be old when the next one runs.  *)
(* What the server grants is external: it may refuse any request.          *)
(***************************************************************************)
EXTENDS Naturals, FiniteSets

CONSTANTS
  User, Nobody,
  Sso,        \* ADMIN_SSO_STATE_USER, the purpose of an administrator's state
  State,      \* the nonces of the states that are issued
  PurposeOf,  \* the userId in a state: who asked for it, or Sso
  Callback,   \* the requests that come back from the authorization server
  StateOf,    \* the state a callback carries
  DoorOf,     \* the redirect it arrives at: "user" or "admin"
  AccountOf,  \* the account that completed the authorization
  Named,      \* the callbacks whose token response has the account's open_id
  Caller,     \* API calls with user identity
  UserOf,     \* whose token a call needs
  MaxGen      \* bound: refreshes of one record

ASSUME AuthorizationAssumption ==
  /\ Sso \notin User /\ Nobody \notin User \cup Callback \cup Caller
  /\ PurposeOf \in [State -> User \cup {Sso}]
  /\ StateOf \in [Callback -> State]
  /\ DoorOf \in [Callback -> {"user", "admin"}]
  /\ AccountOf \in [Callback -> User]
  /\ Named \subseteq Callback
  /\ UserOf \in [Caller -> User]
  /\ MaxGen \in Nat

VARIABLES
  file,       \* the file of a state: none, issued, claimed, gone
  lapsed,     \* the states whose expiresAt has passed
  callback,   \* where each callback is
  granted,    \* the callbacks whose token record was saved
  token,      \* the token record of a user, or NoRecord
  caller,     \* where each API call is, and the record it loaded
  refreshes   \* the call whose refresh the others wait for

oauthVars == <<file, lapsed, callback, granted, token, caller, refreshes>>

(* A record: the authorization it comes from, how often it was refreshed,  *)
(* and whether its access token is good for another minute.                *)
Records == [by : Callback, gen : 0 .. MaxGen, fresh : BOOLEAN]

NoRecord == [by |-> Nobody, gen |-> 0, fresh |-> FALSE]

CallerStages == {"idle", "loaded", "waiting", "refreshing", "saving", "done"}

OAuthTypeOK ==
  /\ file \in [State -> {"none", "issued", "claimed", "gone"}]
  /\ lapsed \subseteq State
  /\ callback \in [Callback -> {"idle", "claimed", "exchanging", "saving", "done"}]
  /\ granted \subseteq Callback
  /\ token \in [User -> Records \cup {NoRecord}]
  /\ caller \in [Caller -> [at : CallerStages, copy : Records \cup {NoRecord}]]
  /\ refreshes \in [User -> Caller \cup {Nobody}]

Resting == [at |-> "idle", copy |-> NoRecord]
Through == [at |-> "done", copy |-> NoRecord]

OAuthInit ==
  /\ file = [s \in State |-> "none"]
  /\ lapsed = {}
  /\ callback = [b \in Callback |-> "idle"]
  /\ granted = {}
  /\ token = [u \in User |-> NoRecord]
  /\ caller = [k \in Caller |-> Resting]
  /\ refreshes = [u \in User |-> Nobody]

-----------------------------------------------------------------------------
(* States. *)
Issue(s) ==
  /\ file[s] = "none"
  /\ file' = [file EXCEPT ![s] = "issued"]
  /\ UNCHANGED <<lapsed, callback, granted, token, caller, refreshes>>

Lapse(s) ==
  /\ file[s] \in {"issued", "claimed"} /\ s \notin lapsed
  /\ lapsed' = lapsed \cup {s}
  /\ UNCHANGED <<file, callback, granted, token, caller, refreshes>>

(* Maintenance removes every lapsed file, those that a callback has        *)
(* claimed or that a crash left behind included.                           *)
Purge ==
  /\ \E s \in lapsed : file[s] \in {"issued", "claimed"}
  /\ file' = [s \in State |-> IF s \in lapsed THEN "gone" ELSE file[s]]
  /\ UNCHANGED <<lapsed, callback, granted, token, caller, refreshes>>

RightDoor(b) == (PurposeOf[StateOf[b]] = Sso) <=> (DoorOf[b] = "admin")

(* Mutant: the file is looked up and not taken away. *)
ClaimByLookup(b) ==
  LET s == StateOf[b]
  IN  /\ callback[b] = "idle" /\ file[s] # "none"
      /\ callback' = [callback EXCEPT ![b] =
                        IF file[s] = "issued" /\ s \notin lapsed /\ RightDoor(b)
                        THEN "exchanging" ELSE "done"]
      /\ UNCHANGED <<file, lapsed, granted, token, caller, refreshes>>

(* consume() up to the rename, which only one callback can win.            *)
Claim(b) ==
  LET s == StateOf[b]
  IN  /\ callback[b] = "idle" /\ file[s] # "none"
      /\ IF file[s] = "issued" /\ s \notin lapsed
         THEN /\ callback' = [callback EXCEPT ![b] = "claimed"]
              /\ file' = [file EXCEPT ![s] = "claimed"]
         ELSE /\ callback' = [callback EXCEPT ![b] = "done"]
              /\ file' = [file EXCEPT ![s] =
                            IF s \in lapsed /\ @ = "issued" THEN "gone" ELSE @]
      /\ UNCHANGED <<lapsed, granted, token, caller, refreshes>>

(* The claimed file is read back and removed; a state for the other door   *)
(* is used up all the same.                                                *)
Consume(b) ==
  /\ callback[b] = "claimed"
  /\ callback' = [callback EXCEPT ![b] =
                    IF file[StateOf[b]] = "claimed" /\ RightDoor(b)
                    THEN "exchanging" ELSE "done"]
  /\ file' = [file EXCEPT ![StateOf[b]] = "gone"]
  /\ UNCHANGED <<lapsed, granted, token, caller, refreshes>>

(* An administrator must be named in the server's answer.  A user must be  *)
(* the one who asked, but only if the answer names an account.             *)
Accepted(b) ==
  IF DoorOf[b] = "admin" THEN b \in Named
  ELSE b \in Named => AccountOf[b] = PurposeOf[StateOf[b]]

Exchange(b) ==
  /\ callback[b] = "exchanging"
  /\ \/ Accepted(b) /\ callback' = [callback EXCEPT ![b] = "saving"]
     \/ callback' = [callback EXCEPT ![b] = "done"]
  /\ UNCHANGED <<file, lapsed, granted, token, caller, refreshes>>

Owner(b) == IF DoorOf[b] = "admin" THEN AccountOf[b] ELSE PurposeOf[StateOf[b]]

SaveGrant(b) ==
  /\ callback[b] = "saving"
  /\ token' = [token EXCEPT ![Owner(b)] = [by |-> b, gen |-> 0, fresh |-> TRUE]]
  /\ granted' = granted \cup {b}
  /\ callback' = [callback EXCEPT ![b] = "done"]
  /\ UNCHANGED <<file, lapsed, caller, refreshes>>

-----------------------------------------------------------------------------
(* Tokens. *)
GoesStale(u) ==
  /\ token[u].fresh
  /\ token' = [token EXCEPT ![u].fresh = FALSE]
  /\ UNCHANGED <<file, lapsed, callback, granted, caller, refreshes>>

Logout(u) ==
  /\ token[u] # NoRecord
  /\ token' = [token EXCEPT ![u] = NoRecord]
  /\ UNCHANGED <<file, lapsed, callback, granted, caller, refreshes>>

Load(k) ==
  /\ caller[k].at = "idle"
  /\ caller' = [caller EXCEPT ![k] =
                  IF token[UserOf[k]] = NoRecord THEN Through
                  ELSE [at |-> "loaded", copy |-> token[UserOf[k]]]]
  /\ UNCHANGED <<file, lapsed, callback, granted, token, refreshes>>

(* Mutant: the refresh that is under way is not joined. *)
CheckAlone(k) ==
  /\ caller[k].at = "loaded"
  /\ IF caller[k].copy.fresh
     THEN caller' = [caller EXCEPT ![k] = Through] /\ UNCHANGED refreshes
     ELSE /\ caller' = [caller EXCEPT ![k].at = "refreshing"]
          /\ refreshes' = [refreshes EXCEPT ![UserOf[k]] = k]
  /\ UNCHANGED <<file, lapsed, callback, granted, token>>

(* validAccessToken() after the load: the record is good, or a refresh is  *)
(* under way, or the call starts one.                                      *)
Check(k) ==
  LET u == UserOf[k]
  IN  /\ caller[k].at = "loaded"
      /\ \/ /\ caller[k].copy.fresh
            /\ caller' = [caller EXCEPT ![k] = Through]
            /\ UNCHANGED refreshes
         \/ /\ ~caller[k].copy.fresh /\ refreshes[u] # Nobody
            /\ caller' = [caller EXCEPT ![k].at = "waiting"]
            /\ UNCHANGED refreshes
         \/ /\ ~caller[k].copy.fresh /\ refreshes[u] = Nobody
            /\ caller' = [caller EXCEPT ![k].at = "refreshing"]
            /\ refreshes' = [refreshes EXCEPT ![u] = k]
      /\ UNCHANGED <<file, lapsed, callback, granted, token>>

(* The refresh settles for the call that started it and those that wait.   *)
Settled(k) ==
  LET waits(c) == caller[c].at = "waiting" /\ UserOf[c] = UserOf[k]
  IN  [c \in Caller |-> IF c = k \/ waits(c) THEN Through ELSE caller[c]]

(* Mutant: a failed refresh stays in the map. *)
RefreshFailsForGood(k) ==
  /\ caller[k].at \in {"refreshing", "saving"}
  /\ caller' = [caller EXCEPT ![k] = Through]
  /\ UNCHANGED <<file, lapsed, callback, granted, token, refreshes>>

(* The refresh token has expired, the server refuses or does not answer in *)
(* 20 seconds, or the record cannot be written.                            *)
RefreshFails(k) ==
  /\ caller[k].at \in {"refreshing", "saving"}
  /\ caller' = Settled(k)
  /\ refreshes' = [refreshes EXCEPT ![UserOf[k]] = Nobody]
  /\ UNCHANGED <<file, lapsed, callback, granted, token>>

Refreshed(k) ==
  /\ caller[k].at = "refreshing"
  /\ caller[k].copy.gen < MaxGen
  /\ caller' = [caller EXCEPT ![k].at = "saving"]
  /\ UNCHANGED <<file, lapsed, callback, granted, token, refreshes>>

SaveRefresh(k) ==
  /\ caller[k].at = "saving"
  /\ token' = [token EXCEPT ![UserOf[k]] =
                 [by |-> caller[k].copy.by, gen |-> caller[k].copy.gen + 1,
                  fresh |-> TRUE]]
  /\ caller' = Settled(k)
  /\ refreshes' = [refreshes EXCEPT ![UserOf[k]] = Nobody]
  /\ UNCHANGED <<file, lapsed, callback, granted>>

(* The process dies and another starts: the files stay.                    *)
Forgets ==
  /\ callback' = [b \in Callback |->
                    IF callback[b] = "idle" THEN "idle" ELSE "done"]
  /\ caller' = [k \in Caller |->
                  IF caller[k].at = "idle" THEN Resting ELSE Through]
  /\ refreshes' = [u \in User |-> Nobody]
  /\ UNCHANGED <<file, lapsed, granted, token>>

OAuthNext ==
  \/ \E s \in State : Issue(s) \/ Lapse(s)
  \/ Purge
  \/ \E b \in Callback : Claim(b) \/ Consume(b) \/ Exchange(b) \/ SaveGrant(b)
  \/ \E u \in User : GoesStale(u) \/ Logout(u)
  \/ \E k \in Caller : \/ Load(k) \/ Check(k) \/ Refreshed(k)
                       \/ RefreshFails(k) \/ SaveRefresh(k)

-----------------------------------------------------------------------------
(* A state backs at most one token record, at the door it was issued for;  *)
(* a record under a user's name comes from an authorization that user      *)
(* asked for, or from the login of that account as an administrator, and   *)
(* was completed by that account if the server's answer named one          *)
(* (oauth.ts consume, handleCallback, handleAdminCallback).                *)
GrantsAreOwn ==
  /\ \A b, d \in granted : StateOf[b] = StateOf[d] => b = d
  /\ \A b \in granted : RightDoor(b)
  /\ \A u \in User : token[u] # NoRecord =>
       LET b == token[u].by
       IN  /\ b \in granted /\ Owner(b) = u
           /\ b \in Named => AccountOf[b] = u

(* Concurrent calls of a user share one refresh: the refresh token is not  *)
(* presented by two of them at the same time.                              *)
OneRefreshAtATime ==
  \A k, c \in Caller :
    UserOf[k] = UserOf[c] /\ k # c =>
      ~ {caller[k].at, caller[c].at} \subseteq {"refreshing", "saving"}

(* Every call that needs a token gets one or an error, the ones that wait  *)
(* for another call's refresh included.                                    *)
CallersServed == \A k \in Caller : caller[k].at # "idle" ~> caller[k].at = "done"
=============================================================================
