-------------------------- MODULE ConfigPublication --------------------------
(***************************************************************************)
(* How a configuration revision becomes what the Host runs: the revisions  *)
(* and slots of src/src/storage/config-store.ts, the credentials of        *)
(* src/src/storage/credential-vault.ts, the requests of the administrators *)
(* (src/src/admin/platform-backend.ts), which await the loading of files   *)
(* between what they read and what they commit, and the promise chain of   *)
(* the Host that applies one configuration after the other                 *)
(* (src/src/app/host.ts).                                                  *)
(*                                                                         *)
(* A document says of each App whether it is absent, disabled or enabled.  *)
(* A loaded platform gives each enabled App the value of its credential.   *)
(***************************************************************************)
EXTENDS Integers, Sequences, FiniteSets

CONSTANTS
  App,           \* Apps a document may name
  Credential,    \* names of the vault
  CredentialOf,  \* the credential an App's manifest refers to
  Value,         \* values a credential may have
  Admin,         \* administrators, one request at a time each
  None,          \* no value, no runtime
  Status,        \* bound: what the documents may say of an App
  Unchecked,     \* a request without expectedDraftRevisionId
  MaxRevisions   \* bound: revisions ever stored

ASSUME ConfigAssumption ==
  /\ CredentialOf \in [App -> Credential]
  /\ None \notin Value
  /\ Status \subseteq {"absent", "disabled", "enabled"}
  /\ Unchecked \notin Nat
  /\ MaxRevisions \in Nat \ {0}

VARIABLES
  revisions,   \* config_revisions: the document of each id
  active,      \* the slots; 0 is an empty slot
  draft,
  vault,       \* the credentials table
  request,     \* the request of an administrator that is under way
  phase,       \* of the process
  queue,       \* lifecycle chain: configurations to apply, the first under way
  stopped,     \* the application under way has stopped the changed Apps
  config,      \* activeRevisionId and desiredApps of the Host
  apps,        \* the running FeishuAppRuntimes
  failed       \* failures reported: "apply" by the last application, "reload"
               \* by any reload after a credential was set

store    == <<revisions, active, draft, vault>>
runtime  == <<phase, queue, stopped, config, apps, failed>>
vars     == <<store, request, runtime>>

Documents == [App -> Status]
Platforms == [App -> Value \cup {None}]
Revisions == 0 .. MaxRevisions
Ids       == 1 .. Len(revisions)

Requests == [pc : {"idle", "loading", "applying"},
             op : {"none", "publish", "rollback", "reload"},
             base : Revisions, platform : Platforms]

Applications == [rev : Revisions, platform : Platforms, by : Admin]

Idle == [pc |-> "idle", op |-> "none", base |-> 0, platform |-> [a \in App |-> None]]

TypeOK ==
  /\ revisions \in Seq(Documents) /\ Len(revisions) <= MaxRevisions
  /\ active \in 0 .. Len(revisions)
  /\ draft \in 0 .. Len(revisions)
  /\ vault \in [Credential -> Value \cup {None}]
  /\ request \in [Admin -> Requests]
  /\ phase \in {"down", "starting", "started"}
  /\ queue \in Seq(Applications)
  /\ stopped \in BOOLEAN
  /\ config \in [rev : Revisions, platform : Platforms]
  /\ apps \in Platforms
  /\ failed \subseteq {"apply", "reload"}

Init ==
  /\ revisions = <<>>
  /\ active = 0
  /\ draft = 0
  /\ vault = [c \in Credential |-> None]
  /\ request = [m \in Admin |-> Idle]
  /\ phase = "down"
  /\ queue = <<>>
  /\ stopped = FALSE
  /\ config = [rev |-> 0, platform |-> Idle.platform]
  /\ apps = Idle.platform
  /\ failed = {}

-----------------------------------------------------------------------------
(* Loading a document.                                                     *)

(* The credentials a document names, those of disabled Apps included.      *)
CredentialsNamed(d) == {CredentialOf[a] : a \in {b \in App : d[b] # "absent"}}

Enabled(d) == {a \in App : d[a] = "enabled"}

(* Every credential of an enabled App can be resolved.                     *)
Resolvable(d, values) == \A a \in Enabled(d) : values[CredentialOf[a]] # None

Loaded(d, values) ==
  [a \in App |-> IF a \in Enabled(d) THEN values[CredentialOf[a]] ELSE None]

InUse(c) == active # 0 /\ c \in CredentialsNamed(revisions[active])

(* The administrative server answers while the Host starts and runs.       *)
Ready(m) == phase # "down" /\ request[m].pc = "idle"

(* A request reads a document and resolves its credentials at once, then   *)
(* awaits the files of the Agents.                                         *)
BeginLoad(m, op, id, values) ==
  /\ Resolvable(revisions[id], values)
  /\ request' = [request EXCEPT ![m] = [pc |-> "loading", op |-> op, base |-> id,
                                        platform |-> Loaded(revisions[id], values)]]

Answer(m) == request' = [request EXCEPT ![m] = Idle]

(* applyPlatformConfig puts the loaded platform on the lifecycle chain.    *)
Enqueue(m, id) ==
  /\ queue' = Append(queue, [rev |-> id, platform |-> request[m].platform, by |-> m])
  /\ request' = [request EXCEPT ![m].pc = "applying"]

-----------------------------------------------------------------------------
(* Requests of the administrators.                                         *)

(* saveDraft, and mutateDraftEntity with the document it edits.            *)
SaveDraft(m, d, expected) ==
  /\ Ready(m)
  /\ expected \in {Unchecked, draft}
  /\ Len(revisions) < MaxRevisions
  /\ revisions' = Append(revisions, d)
  /\ draft' = Len(revisions) + 1
  /\ UNCHANGED <<active, vault, request, runtime>>

PublishRead(m, expected) ==
  /\ Ready(m)
  /\ draft # 0
  /\ expected \in {Unchecked, draft}
  /\ BeginLoad(m, "publish", draft, vault)
  /\ UNCHANGED <<store, runtime>>

(* publishDraft of the store, with the id that was read as the expected    *)
(* one; a conflict is answered with 409.                                   *)
PublishCommit(m) ==
  /\ request[m].pc = "loading" /\ request[m].op = "publish"
  /\ IF draft = request[m].base
       THEN active' = draft /\ draft' = 0 /\ Enqueue(m, draft)
       ELSE UNCHANGED <<active, draft, queue>> /\ Answer(m)
  /\ UNCHANGED <<revisions, vault, phase, stopped, config, apps, failed>>

RollbackRead(m, id) ==
  /\ Ready(m)
  /\ BeginLoad(m, "rollback", id, vault)
  /\ UNCHANGED <<store, runtime>>

(* rollback of the store: the old document under a new id; the draft slot  *)
(* is emptied.                                                             *)
RollbackCommit(m) ==
  /\ request[m].pc = "loading" /\ request[m].op = "rollback"
  /\ Len(revisions) < MaxRevisions
  /\ revisions' = Append(revisions, revisions[request[m].base])
  /\ active' = Len(revisions) + 1
  /\ draft' = 0
  /\ Enqueue(m, Len(revisions) + 1)
  /\ UNCHANGED <<vault, phase, stopped, config, apps, failed>>

(* setCredential, and the load of the active document if it names the      *)
(* credential; a document that cannot be loaded is a reported failure.     *)
SetCredential(m, c, v) ==
  /\ Ready(m)
  /\ vault' = [vault EXCEPT ![c] = v]
  /\ IF ~InUse(c) THEN UNCHANGED <<request, failed>>
     ELSE IF Resolvable(revisions[active], vault')
       THEN BeginLoad(m, "reload", active, vault') /\ failed' = failed
       ELSE request' = request /\ failed' = failed \cup {"reload"}
  /\ UNCHANGED <<revisions, active, draft, phase, queue, stopped, config, apps>>

(* Mutant of ReloadCommit: the active revision is not read again.          *)
ReloadUnchecked(m) ==
  /\ request[m].pc = "loading" /\ request[m].op = "reload"
  /\ Enqueue(m, request[m].base)
  /\ UNCHANGED <<store, phase, stopped, config, apps, failed>>

(* The reload is given up when another revision has become active.         *)
ReloadCommit(m) ==
  /\ request[m].pc = "loading" /\ request[m].op = "reload"
  /\ IF active = request[m].base
       THEN Enqueue(m, active)
       ELSE Answer(m) /\ queue' = queue
  /\ UNCHANGED <<store, phase, stopped, config, apps, failed>>

(* A prompt or skill file cannot be read.                                  *)
LoadFails(m) ==
  /\ request[m].pc = "loading"
  /\ Answer(m)
  /\ failed' = failed \cup ({request[m].op} \cap {"reload"})
  /\ UNCHANGED <<store, phase, queue, stopped, config, apps>>

(* deleteCredential looks at the active document only.                     *)
DeleteCredential(m, c) ==
  /\ Ready(m)
  /\ ~InUse(c)
  /\ vault[c] # None
  /\ vault' = [vault EXCEPT ![c] = None]
  /\ UNCHANGED <<revisions, active, draft, request, runtime>>

-----------------------------------------------------------------------------
(* The Host.                                                               *)

(* main() with a YAML seed and an empty database.                          *)
ImportSeed(d, v) ==
  /\ phase = "down"
  /\ revisions = <<>>
  /\ Enabled(d) # {} /\ \A a \in App : d[a] # "disabled"
  /\ revisions' = <<d>>
  /\ active' = 1
  /\ vault' = [c \in Credential |->
                 IF c \in CredentialsNamed(d) /\ vault[c] = None THEN v ELSE vault[c]]
  /\ UNCHANGED <<draft, request, runtime>>

(* main() loads the active document and calls start(); without an active   *)
(* revision the Host runs in setup mode; a document that cannot be loaded  *)
(* ends the process.                                                       *)
Boot ==
  /\ phase = "down"
  /\ active # 0 => Resolvable(revisions[active], vault)
  /\ phase' = "starting"
  /\ config' = [rev |-> active,
                platform |-> IF active = 0 THEN Idle.platform
                             ELSE Loaded(revisions[active], vault)]
  /\ UNCHANGED <<store, request, queue, stopped, apps, failed>>

(* Of the Apps that are to run and do not, some are started; the others    *)
(* fail or leave the App to another instance.                              *)
Missing(platform, running) ==
  {a \in App : platform[a] # None /\ running[a] = None}

WithStarted(platform, running, up) ==
  [a \in App |-> IF a \in up THEN platform[a] ELSE running[a]]

Started ==
  /\ phase = "starting"
  /\ phase' = "started"
  /\ \E up \in SUBSET Missing(config.platform, apps) :
       apps' = WithStarted(config.platform, apps, up)
  /\ UNCHANGED <<store, request, queue, stopped, config, failed>>

(* Mutant of Changed: only what the document says is compared.             *)
ChangedInDocument(next) ==
  {a \in App : (next[a] = None) # (config.platform[a] = None)}

(* Apps whose manifest, bindings or resolved credentials differ.           *)
Changed(next) == {a \in App : next[a] # config.platform[a]}

(* What the audit says after an application.                               *)
ReportOf(error) ==
  (failed \ {"apply"}) \cup
    IF error THEN {"apply", request[Head(queue).by].op} \cap {"apply", "reload"} ELSE {}

(* Mutant of NextApplication: a failed operation stays at the head.        *)
NextApplicationOnSuccess(error) ==
  /\ queue' = IF error THEN queue ELSE Tail(queue)
  /\ stopped' = FALSE
  /\ failed' = ReportOf(error)
  /\ request' = IF error THEN request ELSE [request EXCEPT ![Head(queue).by] = Idle]

(* The chain goes on with the next operation, whatever the outcome, and    *)
(* the administrator is answered.                                          *)
NextApplication(error) ==
  /\ queue' = Tail(queue)
  /\ stopped' = FALSE
  /\ failed' = ReportOf(error)
  /\ request' = [request EXCEPT ![Head(queue).by] = Idle]

(* Not started, being stopped, or a document that the deployment forbids.  *)
ApplyRefused ==
  /\ queue # <<>> /\ ~stopped
  /\ NextApplication(TRUE)
  /\ UNCHANGED <<store, phase, config, apps>>

ApplyStops ==
  /\ queue # <<>> /\ ~stopped
  /\ phase = "started"
  /\ apps' = [a \in App |-> IF a \in Changed(Head(queue).platform) THEN None ELSE apps[a]]
  /\ stopped' = TRUE
  /\ UNCHANGED <<store, request, phase, queue, config, failed>>

(* The lease of a stopped App cannot be released.                          *)
ApplyAborts ==
  /\ stopped
  /\ Changed(Head(queue).platform) # {}
  /\ NextApplication(TRUE)
  /\ UNCHANGED <<store, phase, config, apps>>

(* The new configuration is installed and missing Apps are started; a      *)
(* changed App that fails makes the application fail, one that another     *)
(* instance runs does not; so does a Model Broker that cannot start, and   *)
(* then no App is started.                                                 *)
ApplyInstalls ==
  /\ stopped
  /\ LET next == Head(queue) IN
     /\ config' = [rev |-> next.rev, platform |-> next.platform]
     /\ \E up \in SUBSET Missing(next.platform, apps) :
          /\ apps' = WithStarted(next.platform, apps, up)
          /\ \/ NextApplication(FALSE)
             \/ /\ \/ up = {}
                   \/ Changed(next.platform) \cap Missing(next.platform, apps') # {}
                /\ NextApplication(TRUE)
  /\ UNCHANGED <<store, phase>>

(* A maintenance run between two applications: a runtime without its lease *)
(* is stopped, or a missing App is started.                                *)
Maintenance(a) ==
  /\ phase = "started" /\ queue = <<>>
  /\ \/ apps[a] # None /\ apps' = [apps EXCEPT ![a] = None]
     \/ a \in Missing(config.platform, apps) /\ apps' = [apps EXCEPT ![a] = config.platform[a]]
  /\ UNCHANGED <<store, request, phase, queue, stopped, config, failed>>

(* The process exits or crashes: only the database stays.  (While stop()   *)
(* drains it, every application is refused; see ApplyRefused.)             *)
ProcessEnds ==
  /\ phase # "down"
  /\ phase' = "down"
  /\ request' = [m \in Admin |-> Idle]
  /\ queue' = <<>>
  /\ stopped' = FALSE
  /\ config' = [rev |-> 0, platform |-> Idle.platform]
  /\ apps' = Idle.platform
  /\ failed' = {}
  /\ UNCHANGED store

-----------------------------------------------------------------------------
Begin(m) ==
  \/ \E d \in Documents, expected \in {Unchecked} \cup Revisions : SaveDraft(m, d, expected)
  \/ \E expected \in {Unchecked} \cup Revisions : PublishRead(m, expected)
  \/ \E id \in Ids : RollbackRead(m, id)
  \/ \E c \in Credential, v \in Value : SetCredential(m, c, v)
  \/ \E c \in Credential : DeleteCredential(m, c)

Proceed(m) == PublishCommit(m) \/ RollbackCommit(m) \/ ReloadCommit(m) \/ LoadFails(m)

Apply == ApplyRefused \/ ApplyStops \/ ApplyAborts \/ ApplyInstalls

Next ==
  \/ \E m \in Admin : Begin(m) \/ Proceed(m)
  \/ \E d \in Documents, v \in Value : ImportSeed(d, v)
  \/ Boot \/ Started \/ Apply \/ ProcessEnds
  \/ \E a \in App : Maintenance(a)

Spec == Init /\ [][Next]_vars

(* Files are read or fail to be read, a started operation of the chain     *)
(* ends: the stop of a runtime is bounded in time, and so is its start.    *)
FairSpec == Spec /\ WF_vars(Apply) /\ \A m \in Admin : WF_vars(Proceed(m))

-----------------------------------------------------------------------------
(* When no application waits and none was reported as failed, the Host     *)
(* runs the revision that the database calls active: no revision that was  *)
(* committed is overtaken by an older one (platform-backend.ts:290-379,    *)
(* 613-637; host.ts:185-287).                                              *)
RunsActive ==
  phase = "started" /\ queue = <<>> /\ "apply" \notin failed => config.rev = active

(* What the Host runs under the id of a revision is the document of that   *)
(* revision, although the platform was loaded before the id was committed  *)
(* and drafts may be saved in between.                                     *)
RunsWhatWasPublished ==
  config.rev # 0 =>
    {a \in App : config.platform[a] # None} = Enabled(revisions[config.rev])

(* Within a process configurations are applied in the order in which they  *)
(* were committed.                                                         *)
AppliedInOrder == [][phase # "down" => config'.rev >= config.rev \/ phase' = "down"]_vars

(* No App goes on with the settings or the credential of an earlier        *)
(* configuration, at no moment of an application.                          *)
NoStaleRuntime ==
  \A a \in App : apps[a] # None => apps[a] = config.platform[a]

(* Every request is answered, whichever of the others fail.                *)
RequestEnds == \A m \in Admin : request[m].pc # "idle" ~> request[m].pc = "idle"
=============================================================================
