-------------------------------- MODULE Boot --------------------------------
(***************************************************************************)
(* How a Host comes by its configuration: main() of src/src/index.ts.  The *)
(* first start imports the YAML files into platform.db and then loads what *)
(* it has just stored; later starts load the active document.  Credentials *)
(* come from the vault and, where it has none, from the environment.       *)
(*                                                                         *)
(* The process may end at every point; what platform.db holds stays.       *)
(***************************************************************************)
EXTENDS PlatformConfig

CONSTANTS
  Name, Value,       \* credentials
  Yaml,              \* what the YAML directories may hold, when they hold files
  Published,         \* the documents an operator publishes
  Environment,       \* the environments the process may be started with
  OperatorSets,      \* the <<name, value>> pairs an operator stores
  Host               \* publicHttp, loopback, space, broker

ASSUME BootAssumption ==
  /\ LongEnough \subseteq Value /\ Unset \notin Value
  /\ Environment \subseteq [Name -> Value \cup {Unset}]
  /\ OperatorSets \subseteq Name \X Value
  /\ \A d \in Yaml \cup Published : IsDocument(d)

VARIABLES
  stage,     \* down, open, importing, loaded, serving
  yaml,      \* the platform of the YAML directories while it is imported
  env,       \* process.env
  active,    \* the active document of platform.db
  vault,     \* the credentials of platform.db
  keptBy,    \* who stored each of them: seed, operator
  toImport,  \* the credentials the import has still to store
  platform   \* the platform that main() handed to the Host

bootVars == <<stage, yaml, env, active, vault, keptBy, toImport, platform>>

(* requiredCredential(): the vault first, then the environment.            *)
Resolved == [n \in Name |-> Or(vault[n], env[n])]

BootTypeOK ==
  /\ stage \in {"down", "open", "importing", "loaded", "serving"}
  /\ yaml \in Yaml \cup {Unset}
  /\ (yaml # Unset) <=> (stage = "importing")
  /\ env \in Environment
  /\ vault \in [Name -> Value \cup {Unset}]
  /\ keptBy \in [Name -> {"seed", "operator", Unset}]
  /\ toImport \subseteq Name
  /\ stage \in {"down", "open", "importing"} => platform = Empty

BootInit ==
  /\ stage = "down"
  /\ yaml = Unset
  /\ env \in Environment
  /\ active = Unset
  /\ vault = [n \in Name |-> Unset]
  /\ keptBy = [n \in Name |-> Unset]
  /\ toImport = {}
  /\ platform = Empty

-----------------------------------------------------------------------------
(* The process starts: platform.db is opened, or it ends.                  *)
OpenDatabase ==
  /\ stage = "down"
  /\ stage' = "open"
  /\ UNCHANGED <<yaml, env, active, vault, keptBy, toImport, platform>>

(* A crash, a failed start or a shutdown; the supervisor may start the     *)
(* process again in another environment and with other files.              *)
ProcessEnds ==
  /\ stage # "down"
  /\ stage' = "down"
  /\ env' \in Environment
  /\ yaml' = Unset
  /\ toImport' = {}
  /\ platform' = Empty
  /\ UNCHANGED <<active, vault, keptBy>>

(* Nothing is active and the directories have files: they are loaded from  *)
(* the environment alone.                                                  *)
LoadYaml(files) ==
  /\ stage = "open" /\ active = Unset
  /\ Accepted(files, env)
  /\ stage' = "importing"
  /\ yaml' = files
  /\ toImport' = UNION {CredentialsOf(m) : m \in On(files.apps)}
  /\ UNCHANGED <<env, active, vault, keptBy, platform>>

(* importYamlCredentials(): each in a transaction of its own, unless the   *)
(* vault has one already.                                                  *)
Import(n) ==
  /\ stage = "importing" /\ n \in toImport
  /\ toImport' = toImport \ {n}
  /\ IF vault[n] = Unset
     THEN /\ vault' = [vault EXCEPT ![n] = env[n]]
          /\ keptBy' = [keptBy EXCEPT ![n] = "seed"]
     ELSE UNCHANGED <<vault, keptBy>>
  /\ UNCHANGED <<stage, yaml, env, active, platform>>

(* importSeed() makes the exported platform the first active revision.     *)
ImportSeed ==
  /\ stage = "importing" /\ toImport = {}
  /\ active' = PlatformOf(yaml)
  /\ yaml' = Unset
  /\ stage' = "open"
  /\ UNCHANGED <<env, vault, keptBy, toImport, platform>>

(* The active document is loaded again with the vault; without one, and    *)
(* without files, the Host starts for its setup.                           *)
LoadActive ==
  /\ stage = "open"
  /\ \/ /\ active # Unset
        /\ Accepted(active, Resolved)
        /\ platform' = PlatformOf(active)
     \/ /\ active = Unset
        /\ platform' = Empty
  /\ stage' = "loaded"
  /\ UNCHANGED <<yaml, env, active, vault, keptBy, toImport>>

StartHost ==
  /\ stage = "loaded"
  /\ Deployable(platform, Host)
  /\ stage' = "serving"
  /\ UNCHANGED <<yaml, env, active, vault, keptBy, toImport, platform>>

-----------------------------------------------------------------------------
(* An operator stores a credential; the running Apps keep what they have.  *)
SetCredential(n, v) ==
  /\ stage = "serving"
  /\ vault' = [vault EXCEPT ![n] = v]
  /\ keptBy' = [keptBy EXCEPT ![n] = "operator"]
  /\ UNCHANGED <<stage, yaml, env, active, toImport, platform>>

(* An operator publishes a document: ConfigPublication has the whole of it *)
(* with its editors, failures and rollbacks.                               *)
Publish(d) ==
  /\ stage = "serving"
  /\ Accepted(d, Resolved)
  /\ Deployable(PlatformOf(d), Host)
  /\ active' = d
  /\ platform' = PlatformOf(d)
  /\ UNCHANGED <<stage, yaml, env, vault, keptBy, toImport>>

BootNext ==
  \/ OpenDatabase \/ ProcessEnds \/ ImportSeed \/ LoadActive \/ StartHost
  \/ \E files \in Yaml : LoadYaml(files)
  \/ \E n \in Name : Import(n)
  \/ \E p \in OperatorSets : SetCredential(p[1], p[2])
  \/ \E d \in Published : Publish(d)

-----------------------------------------------------------------------------
(* Whichever way the configuration came in, no Agent of a running platform *)
(* has a tool whose request changes something in Feishu, or a lark-cli     *)
(* operation whose command does: the lists of the loader and the requests  *)
(* of the broker agree.                                                    *)
PlatformIsReadOnly ==
  \A m \in platform.agents :
    /\ \A tool \in m.feishu : ~ChangesFeishu(tool)
    /\ "larkcli.run" \in m.feishu => \A op \in m.operations : op.class = "read"

(* A request for the path q of the App m meets it alone, or one path of    *)
(* another name.                                                           *)
ReachedAlone(p, m, q) ==
  LET name   == PathName(q[2])
      served == ServedBy(p, IF q[1] = "oauth" THEN "GET" ELSE "POST", name)
  IN  IF name = q[2] THEN served = {<<m.id, q[1]>>}
      ELSE /\ \A s, t \in served : s = t
           /\ \A s \in served : \E n \in p.apps :
                \E r \in PublicPaths(n) : s = <<n.id, r[1]>> /\ r[2] = name

(* Every path a running App takes on the public server is answered by that *)
(* App and by nobody else: not by the administration, not by the status    *)
(* pages, not by another App.  A path that the URL parser rewrites never   *)
(* reaches the App that has it: it is not found, or it is answered where   *)
(* one path of one App is written with the escapes.                        *)
IngressReachesItsApp ==
  \A m \in platform.apps : \A q \in PublicPaths(m) :
    ReachedAlone(platform, m, q)

(* What the first start stores as the active revision is what every start  *)
(* loads: test/tool-broker-contract.test.ts and QUICKSTART.md have the     *)
(* exported document of a loaded platform load again.                      *)
SeedLoads ==
  [][active = Unset /\ active' # Unset =>
       Accepted(active', [n \in Name |-> Or(vault'[n], env'[n])])]_bootVars
=============================================================================
