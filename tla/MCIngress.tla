----------------------------- MODULE MCIngress -----------------------------
(* One App with a default Agent and one for a command.  The files of the   *)
(* directories and the published documents are variations of one good      *)
(* document, most of them such that the loader refuses them.               *)
EXTENDS Ingress

CONSTANTS short, long, other, m1, c1

MCValue == {short, long, other}

AppManifest ==
  [id |-> "app", enabled |-> Unset, wellFormed |-> TRUE, appIdEnv |-> "id",
   secretEnv |-> "id", tokenEnv |-> "key", encryptEnv |-> Unset,
   events |-> "http", callbacks |-> "http", eventPath |-> Unset,
   callbackPath |-> Unset, oauth |-> TRUE, redirectPath |-> Unset,
   baseUrlEnv |-> "id", keyEnv |-> "key"]

AgentManifest ==
  [id |-> "chat", enabled |-> TRUE, wellFormed |-> TRUE, mode |-> Unset,
   feishu |-> Unset, workspace |-> Unset, openApi |-> {"docs"},
   identity |-> Unset, grants |-> Unset, oldCommands |-> FALSE,
   operations |-> {}, larkCli |-> Unset, profile |-> "default",
   upstream |-> Unset, inProcess |-> FALSE]

NoRoute ==
  [default |-> FALSE, priority |-> 0, prefixes |-> {}, chats |-> {},
   users |-> {}, topics |-> {}]

Binding(id, agent, route) ==
  [id |-> id, enabled |-> Unset, app |-> "app", agent |-> agent,
   wellFormed |-> TRUE, route |-> route]

ChatBinding == Binding("b1", "chat", [NoRoute EXCEPT !.default = TRUE])
TaskBinding ==
  Binding("b2", "task", [NoRoute EXCEPT !.prefixes = {<<"/task">>}])

Document(app, agent, bindings) ==
  [apps |-> {app}, agents |-> {agent, [AgentManifest EXCEPT !.id = "task"]},
   bindings |-> {ChatBinding} \cup bindings]

Operation(class) ==
  [id |-> "op", reserved |-> FALSE, class |-> class, effect |-> Unset,
   approval |-> Unset]

CliAgent ==
  [AgentManifest EXCEPT !.feishu = {"larkcli.run", "openapi.get"},
                        !.larkCli = TRUE, !.operations = {Operation("read")}]

Good == Document(AppManifest, CliAgent, {TaskBinding})

WithApp(app) == Document(app, AgentManifest, {TaskBinding})
WithAgent(agent) == Document(AppManifest, agent, {TaskBinding})
(* The files of the first start: good ones, one with a path that no        *)
(* request reaches, and five the loader refuses.                           *)
MCEscaped == [s \in {"my bot"} |-> "my%20bot"]

Files ==
  {Good,
   WithApp([AppManifest EXCEPT !.eventPath = <<"public", "my bot">>,
                               !.callbackPath = <<"public", "my%20bot">>]),
   WithApp([AppManifest EXCEPT !.redirectPath = <<"healthz">>]),
   WithApp([AppManifest EXCEPT !.eventPath = <<"public", "app">>,
                               !.callbackPath = <<"public", "app">>]),
   WithAgent([AgentManifest EXCEPT
     !.feishu = {"doc.read", "task.create"},
     !.grants = [tool \in {"task.create"} |->
       [identity |-> "user", effect |-> "read", approval |-> "never"]]]),
   WithAgent([AgentManifest EXCEPT !.feishu = {"chat.info", "doc.create"}]),
   WithAgent([AgentManifest EXCEPT !.feishu = {"larkcli.run"},
     !.larkCli = TRUE, !.operations = {Operation("write")}])}

(* Files that are good before they are stored and not when they are read   *)
(* again.                                                                  *)
Seeds ==
  {WithAgent([AgentManifest EXCEPT !.upstream = "/"]),
   WithAgent([AgentManifest EXCEPT !.mode = "read-write",
                                   !.workspace = {"workspace.write"}])}

(* What an operator publishes: a document in which two routes can tie,     *)
(* which is refused, and one where they cannot.                            *)
Edits ==
  {[apps |-> {[AppManifest EXCEPT !.events = "websocket"]},
    agents |-> {[AgentManifest EXCEPT !.id = id] :
                  id \in {"chat", "task", "chat2"}},
    bindings |-> {ChatBinding,
      Binding("b2", "task", [NoRoute EXCEPT !.chats = {"c1"}]),
      Binding("b3", "chat2",
              [NoRoute EXCEPT !.users = {"u1"}, !.priority = p])}]
   : p \in {0, 1}}

FullEnvironment == [n \in Name |-> long]
ShortEnvironment == [n \in Name |-> IF n = "key" THEN short ELSE long]

MCEnvironment == {FullEnvironment, ShortEnvironment}
MCOperatorSets == {<<"key", other>>}
MCHost == [publicHttp |-> TRUE, loopback |-> TRUE, space |-> FALSE,
           broker |-> TRUE]

MCContent ==
  [m \in Message |->
     [beginning |-> <<"/task", "list">>, chat |-> "c1", user |-> "u1",
      topic |-> "t1"]]
=============================================================================
