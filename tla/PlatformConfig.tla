--------------------------- MODULE PlatformConfig ---------------------------
(***************************************************************************)
(* What a configuration means and when it is refused: the loader of        *)
(* src/src/config/load-platform.ts with the policies it applies            *)
(* (http/path-policy.ts, feishu/openapi-policy.ts,                         *)
(* config/validate-deployment.ts), the document it exports, and the way    *)
(* the public server finds the App of a request (http/control-plane.ts).   *)
(*                                                                         *)
(* A manifest is a record; a field that the file leaves out is Unset.      *)
(* A path is the sequence of its segments.  The loader keeps a path as it  *)
(* was written; the server sees what its URL parser makes of a request.    *)
(***************************************************************************)
EXTENDS Routing

CONSTANTS
  Unset,       \* a field, credential or revision that is not there
  LongEnough,  \* the credentials of at least 32 bytes
  Escaped      \* the segments that the URL parser rewrites (a blank, a
               \* letter beyond ASCII), each with its form with escapes

(* A segment with an escape is none of the server's own names.             *)
ASSUME EscapeAssumption ==
  \A s \in DOMAIN Escaped :
    {s, Escaped[s]} \cap {"admin", "api", "healthz", "readyz"} = {}

Or(value, default) == IF value = Unset THEN default ELSE value

(* The parse helpers: types, patterns, enumerations, ranges, duplicates in *)
(* a list.  What they accept is a field of the manifest here.              *)
WellFormed(m) == m.wellFormed

(* What the words of a lark-cli command say it does.                       *)
CommandClass == {"read", "write", "high-risk-write", "unsafe"}

IsPath(p) == p \in Seq({p[i] : i \in DOMAIN p})

(* A document as the parse helpers read it, whatever it says: manifests    *)
(* with the fields of their kind, set or Unset, paths and routes.          *)
IsDocument(d) ==
  /\ \A m \in d.apps :
       /\ {"id", "events", "callbacks", "eventPath", "callbackPath", "oauth",
           "redirectPath"} \subseteq DOMAIN m
       /\ \A p \in {m.eventPath, m.callbackPath, m.redirectPath} \ {Unset} :
            IsPath(p)
  /\ \A m \in d.agents :
       /\ {"id", "mode", "identity", "feishu", "workspace", "grants",
           "operations", "larkCli", "upstream"} \subseteq DOMAIN m
       /\ \A op \in m.operations : op.class \in CommandClass
  /\ \A b \in d.bindings : b.route \in Route

-----------------------------------------------------------------------------
(* The tools, and what the broker does with them.                          *)
ReadOnlyFeishuTools ==
  {"user.profile", "chat.info", "message.history", "doc.read",
   "base.records.list", "base.records.search", "calendar.events.list",
   "task.list", "approval.instance.get", "approval.instance.detail",
   "openapi.get", "larkcli.run", "larkcli.skill.read"}

WriteFeishuTools ==
  {"doc.create", "base.records.create", "base.records.update",
   "base.records.delete", "calendar.events.create",
   "calendar.events.update", "calendar.events.delete", "task.create",
   "task.update", "task.delete", "approval.instance.create"}

FeishuTools == ReadOnlyFeishuTools \cup WriteFeishuTools

ReadOnlyWorkspaceTools ==
  {"workspace.list", "workspace.read", "workspace.search"}

WorkspaceTools == ReadOnlyWorkspaceTools \cup {"workspace.write"}

Deletions ==
  {"base.records.delete", "calendar.events.delete", "task.delete"}

(* The requests of the broker that change something in Feishu: all but the *)
(* GETs, the search and the calls that the Host answers itself.            *)
Changes ==
  [POST   |-> {"doc.create", "base.records.create", "calendar.events.create",
               "task.create", "approval.instance.create"},
   PUT    |-> {"base.records.update"},
   PATCH  |-> {"calendar.events.update", "task.update"},
   DELETE |-> Deletions]

ChangesFeishu(tool) == \E method \in DOMAIN Changes : tool \in Changes[method]

-----------------------------------------------------------------------------
(* Grants: the effect and the approval of every enabled tool.              *)
Effects == <<"read", "write", "high-risk-write">>
Approvals == <<"never", "requester", "admin">>

Rank(scale, x) == CHOOSE i \in 1 .. 3 : scale[i] = x

DefaultApproval(effect) == Approvals[Rank(Effects, effect)]

DefaultEffect(tool) ==
  IF tool \in ReadOnlyFeishuTools \cup ReadOnlyWorkspaceTools THEN "read"
  ELSE IF tool \in Deletions THEN "high-risk-write" ELSE "write"

DefaultGrant(tool, identity) ==
  [identity |-> identity,
   effect   |-> DefaultEffect(tool),
   approval |-> IF tool = "workspace.write" THEN "never"
                ELSE DefaultApproval(DefaultEffect(tool))]

(* validateEffectApproval().                                               *)
EffectApproved(effect, approval) ==
  /\ effect = "read" => approval = "never"
  /\ effect = "write" => approval # "never"
  /\ effect = "high-risk-write" => approval = "admin"

OverrideOf(tool, entry, identity) ==
  LET effect == Or(entry.effect, DefaultEffect(tool))
  IN  [identity |-> Or(entry.identity, identity),
       effect   |-> effect,
       approval |-> Or(entry.approval, DefaultApproval(effect))]

(* validateToolGrantFloor(): never below the default of the tool.          *)
OverrideAccepted(tool, entry, identity) ==
  LET grant == OverrideOf(tool, entry, identity)
      base  == DefaultGrant(tool, identity)
  IN  /\ EffectApproved(grant.effect, grant.approval)
      /\ Rank(Effects, grant.effect) >= Rank(Effects, base.effect)
      /\ Rank(Approvals, grant.approval) >= Rank(Approvals, base.approval)

-----------------------------------------------------------------------------
(* Agent definitions.                                                      *)
ModeOf(m) == Or(m.mode, "read-only")
IdentityOf(m) == Or(m.identity, "app")

FeishuToolsOf(m) ==
  Or(m.feishu, {"user.profile", "chat.info", "message.history"})

WorkspaceToolsOf(m) ==
  Or(m.workspace, IF ModeOf(m) = "none" THEN {} ELSE ReadOnlyWorkspaceTools)

ToolsOf(m) == FeishuToolsOf(m) \cup WorkspaceToolsOf(m)

Overridden(m) == IF m.grants = Unset THEN {} ELSE DOMAIN m.grants

GrantsOf(m) ==
  [tool \in ToolsOf(m) |->
     IF tool \in Overridden(m)
     THEN OverrideOf(tool, m.grants[tool], IdentityOf(m))
     ELSE DefaultGrant(tool, IdentityOf(m))]

WorkspaceAccepted(m) ==
  /\ ModeOf(m) = "none" => WorkspaceToolsOf(m) = {}
  /\ "workspace.write" \in WorkspaceToolsOf(m) => ModeOf(m) = "read-write"

GrantsAccepted(m) ==
  /\ Overridden(m) \subseteq ToolsOf(m)
  /\ \A tool \in Overridden(m) :
       OverrideAccepted(tool, m.grants[tool], IdentityOf(m))
  /\ "approval.instance.detail" \in ToolsOf(m) =>
       GrantsOf(m)["approval.instance.detail"].identity = "user"

(* Mutant: a tool that writes is accepted when it asks for an approval. *)
FeishuWithApprovals(m) ==
  \A tool \in FeishuToolsOf(m) :
    GrantsOf(m)[tool].effect = "read" <=> GrantsOf(m)[tool].approval = "never"

(* V0.1: no Feishu tool that writes, and none that asks for an approval.   *)
FeishuReadOnly(m) ==
  /\ FeishuToolsOf(m) \cap WriteFeishuTools = {}
  /\ \A tool \in FeishuToolsOf(m) :
       /\ GrantsOf(m)[tool].effect = "read"
       /\ GrantsOf(m)[tool].approval = "never"
  /\ "openapi.get" \in FeishuToolsOf(m) => m.openApi # {}

(* parseLarkCliOperations(): class is what the words of the command say.   *)
OperationAccepted(op) ==
  LET effect == Or(op.effect, "read")
  IN  /\ ~op.reserved /\ op.class # "unsafe"
      /\ Rank(Effects, effect) >= Rank(Effects, op.class)
      /\ EffectApproved(effect, Or(op.approval, DefaultApproval(effect)))
      /\ effect = "read"

LarkCliAccepted(m) ==
  /\ ~m.oldCommands
  /\ \A op \in m.operations : OperationAccepted(op)
  /\ \A op, other \in m.operations : op.id = other.id => op = other
  /\ Or(m.larkCli, FALSE) => m.operations # {}
  /\ "larkcli.run" \in FeishuToolsOf(m) => Or(m.larkCli, FALSE)

(* validateUpstreamPath(): a path of the gateway, "/" standing for its     *)
(* root, which is kept as the empty string.                                *)
UpstreamAccepted(path) == path # ""
UpstreamOf(m) ==
  LET path == Or(m.upstream, "/openai") IN IF path = "/" THEN "" ELSE path

AgentAccepted(m) ==
  /\ WellFormed(m)
  /\ WorkspaceAccepted(m)
  /\ GrantsAccepted(m)
  /\ FeishuReadOnly(m)
  /\ LarkCliAccepted(m)
  /\ UpstreamAccepted(m.upstream)

(* The loaded definition, every default made explicit.                     *)
AgentOf(m) ==
  [m EXCEPT !.mode = ModeOf(m), !.identity = IdentityOf(m),
            !.feishu = FeishuToolsOf(m), !.workspace = WorkspaceToolsOf(m),
            !.grants = GrantsOf(m), !.larkCli = Or(m.larkCli, FALSE),
            !.upstream = UpstreamOf(m)]

-----------------------------------------------------------------------------
(* Feishu Apps.                                                            *)
EventPathOf(m) == Or(m.eventPath, <<"public", "feishu", m.id, "events">>)
CallbackPathOf(m) ==
  Or(m.callbackPath, <<"public", "feishu", m.id, "callbacks">>)
RedirectPathOf(m) ==
  Or(m.redirectPath, <<"public", "oauth", m.id, "callback">>)

(* Mutant: only the pages of the administration are reserved. *)
AssignableBesideAdmin(path, oauthPrefix) ==
  path # << >> /\ path[1] \notin {"admin"}

(* assertAssignableHttpPath(): the paths of the control plane.             *)
Assignable(path, oauthPrefix) ==
  /\ path \notin {<< >>, <<"healthz">>, <<"readyz">>, <<"metrics">>}
  /\ path[1] \notin {"admin", "api"} \cup IF oauthPrefix THEN {} ELSE {"oauth"}

CredentialsOf(m) ==
  {m.appIdEnv, m.secretEnv} \cup ({m.tokenEnv, m.encryptEnv} \ {Unset})
    \cup IF m.oauth = TRUE THEN {m.baseUrlEnv, m.keyEnv} ELSE {}

(* loadFeishuApp(): credentials is what requiredCredential() finds.        *)
AppAccepted(m, credentials) ==
  /\ WellFormed(m)
  /\ "http" \in {m.events, m.callbacks} \/ m.events = "websocket"
  /\ Assignable(EventPathOf(m), FALSE) /\ Assignable(CallbackPathOf(m), FALSE)
  /\ Assignable(RedirectPathOf(m), TRUE)
  /\ "http" \in {m.events, m.callbacks} => m.tokenEnv # Unset
  /\ \A name \in CredentialsOf(m) : credentials[name] # Unset
  /\ m.oauth = TRUE => credentials[m.keyEnv] \in LongEnough

AppOf(m) ==
  [m EXCEPT !.oauth = Or(m.oauth, FALSE), !.eventPath = EventPathOf(m),
            !.callbackPath = CallbackPathOf(m),
            !.redirectPath = RedirectPathOf(m)]

(* The paths an App takes on the public server.                            *)
PublicPaths(app) ==
  (IF app.events = "http" THEN {<<"events", EventPathOf(app)>>} ELSE {})
    \cup (IF app.callbacks = "http" THEN {<<"callbacks", CallbackPathOf(app)>>}
          ELSE {})
    \cup IF app.oauth = TRUE THEN {<<"oauth", RedirectPathOf(app)>>} ELSE {}

-----------------------------------------------------------------------------
(* The document as a whole.                                                *)
On(manifests) == {m \in manifests : m.enabled # FALSE}

BindingsOfApp(d, id) == {b \in On(d.bindings) : b.app = id}

Agents(d, bindings) ==
  {m \in On(d.agents) : \E b \in bindings : b.agent = m.id}

UniqueBy(manifests, Key(_)) ==
  \A m, n \in manifests : Key(m) = Key(n) => m = n

Identified(manifests) == UniqueBy(manifests, LAMBDA m : m.id)

(* Every lark-cli-enabled Agent of an App uses the profile of the App.     *)
OneProfile(agents) ==
  \A m, n \in agents : Or(m.larkCli, FALSE) /\ Or(n.larkCli, FALSE)
                         => m.profile = n.profile

(* validatePublicPaths(), and the check within one App.                    *)
PathsDistinct(apps) ==
  \A m, n \in apps : \A p \in PublicPaths(m), q \in PublicPaths(n) :
    p[2] = q[2] => m = n /\ p = q

NeedsApproval(m) ==
  \/ \E tool \in ToolsOf(m) : GrantsOf(m)[tool].approval # "never"
  \/ \E op \in m.operations : Or(op.approval, "never") # "never"

(* assemblePlatformConfig().                                               *)
Assembled(d, credentials) ==
  /\ On(d.apps) # {} /\ On(d.agents) # {} /\ On(d.bindings) # {}
  /\ Identified(On(d.apps)) /\ Identified(On(d.agents))
  /\ Identified(On(d.bindings))
  /\ UniqueBy(On(d.apps), LAMBDA m : credentials[m.appIdEnv])
  /\ UniqueBy(On(d.bindings), LAMBDA b : <<b.app, b.agent>>)
  /\ \A b \in On(d.bindings) :
       /\ \E m \in On(d.apps) : m.id = b.app
       /\ \E m \in On(d.agents) : m.id = b.agent
  /\ \A m \in On(d.apps) :
       /\ RoutesAccepted(BindingsOfApp(d, m.id))
       /\ OneProfile(Agents(d, BindingsOfApp(d, m.id)))
       /\ \E n \in Agents(d, BindingsOfApp(d, m.id)) : NeedsApproval(n)
            => m.callbacks = "http"
  /\ PathsDistinct(On(d.apps))

Accepted(d, credentials) ==
  /\ \A m \in On(d.apps) : AppAccepted(m, credentials)
  /\ \A m \in On(d.agents) : AgentAccepted(m)
  /\ \A b \in On(d.bindings) : WellFormed(b) /\ RouteAccepted(b.route)
  /\ Assembled(d, credentials)

(* The platform of an accepted document; toPlatformConfigDocument() makes  *)
(* it a document again, without its credentials.                           *)
PlatformOf(d) ==
  [apps |-> {AppOf(m) : m \in On(d.apps)},
   agents |-> {AgentOf(m) : m \in On(d.agents)},
   bindings |-> On(d.bindings)]

Empty == [apps |-> {}, agents |-> {}, bindings |-> {}]

(* assertDeploymentConstraints().                                          *)
Deployable(p, host) ==
  IF p.apps = {} THEN host.publicHttp
  ELSE /\ (\E m \in p.apps : PublicPaths(m) # {}) =>
            host.publicHttp /\ (host.space => ~host.loopback)
       /\ host.space => \A m \in p.agents : ~m.inProcess
       /\ host.broker

-----------------------------------------------------------------------------
(* new URL(request.url).pathname: the path that a request names, with the  *)
(* characters escaped that a URL may not hold.                             *)
PathName(path) ==
  [i \in DOMAIN path |->
     IF path[i] \in DOMAIN Escaped THEN Escaped[path[i]] ELSE path[i]]

(* PublicIngressServer.route(): who answers a request with this pathname.  *)
AdminPath(path) ==
  /\ path # << >>
  /\ path[1] = "admin" \/ Starts(<<"api", "admin", "v1">>, path)

ServedBy(p, method, path) ==
  IF AdminPath(path) THEN {<<Unset, "admin">>}
  ELSE IF method = "GET" /\ path \in {<<"healthz">>, <<"readyz">>}
       THEN {<<Unset, "status">>}
  ELSE UNION {{<<m.id, q[1]>> :
                 q \in {q \in PublicPaths(m) :
                          q[2] = path /\ (q[1] = "oauth" <=> method = "GET")}}
              : m \in p.apps}
=============================================================================
