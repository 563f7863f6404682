------------------------------ MODULE LarkCli ------------------------------
(***************************************************************************)
(* The Host's use of the lark-cli program (src/src/tools/lark-cli.ts): the *)
(* profile of an App in its home directory, initialized by one call and    *)
(* shared by those that come within a minute; the risk that the program    *)
(* itself reports for each configured command, asked once per executable;  *)
(* and the process of an operation.                                        *)
(*                                                                         *)
(* A step is a process of the program that ends, or what runs between two  *)
(* of them.  A process that fails, times out, writes too much or whose     *)
(* signal fires may have had its effect on the home directory or not.      *)
(* Rendering of flags and the scope of a turn may refuse any operation.    *)
(***************************************************************************)
EXTENDS FiniteSets

CONSTANTS
  App, Call, Executable, Command, Nothing,
  AppOf,       \* the App a call is for
  ExecutableOf,\* larkCli.executable of an App
  Operations,  \* the commands of the operations of an App, all configured as read
  WantedBy,    \* the command of a call; Nothing: a start, or a skill is read
  Signalled,   \* the calls with a signal; a binding starts without
  Risk         \* what an executable reports for a command: read, write, unknown

ASSUME LarkCliAssumption ==
  /\ AppOf \in [Call -> App] /\ ExecutableOf \in [App -> Executable]
  /\ Operations \in [App -> SUBSET Command]
  /\ \A c \in Call : WantedBy[c] \in Operations[AppOf[c]] \cup {Nothing}
  /\ Signalled \subseteq Call
  /\ Risk \in [Executable \X Command -> {"read", "write", "unknown"}]
  /\ Nothing \notin Call \cup Command

VARIABLES
  home,     \* what the home directory of an App holds
  entry,    \* profileInitializations: the call that initializes, or Nothing
  current,  \* the Apps whose entry has not expired
  init,     \* how far the initialization that a call started is
  check,    \* commandRiskChecks: who asks, and what was reported
  call,     \* where each call is, and what it waits for or has to check
  aborted   \* the calls whose signal fired

larkVars == <<home, entry, current, init, check, call, aborted>>

Settings == [marker : BOOLEAN, strict : BOOLEAN, bot : BOOLEAN]
Processes == {"version", "config", "marker", "strict", "bot"}
LarkStages ==
  {"idle", "profile", "risks", "check", "render", "running", "done", "failed"}
Checks == [by : Call \cup {Nothing}, risk : {"none", "read", "write"}]
CallStates ==
  [at : LarkStages, on : Call \cup Command \cup {Nothing}, todo : SUBSET Command]
Unasked == [by |-> Nothing, risk |-> "none"]

LarkTypeOK ==
  /\ home \in [App -> Settings]
  /\ entry \in [App -> Call \cup {Nothing}] /\ current \subseteq App
  /\ init \in [Call -> Processes \cup {"none", "ok", "failed"}]
  /\ check \in [Executable \X Command -> Checks]
  /\ call \in [Call -> CallStates]
  /\ aborted \subseteq Signalled

Untouched == [at |-> "idle", on |-> Nothing, todo |-> {}]
Ended(end) == [at |-> end, on |-> Nothing, todo |-> {}]
Going(c) == call[c].at \notin {"idle", "done", "failed"}

LarkInit ==
  /\ home = [a \in App |-> [marker |-> FALSE, strict |-> FALSE, bot |-> FALSE]]
  /\ entry = [a \in App |-> Nothing] /\ current = {}
  /\ init = [c \in Call |-> "none"]
  /\ check = [k \in Executable \X Command |-> Unasked]
  /\ call = [c \in Call |-> Untouched]
  /\ aborted = {}

-----------------------------------------------------------------------------
(* The profile.  A call that finds an entry of the last minute shares its  *)
(* promise, which may have settled.                                        *)
Profiled(c) == [at |-> "risks", on |-> Nothing, todo |-> Operations[AppOf[c]]]

Join(c) ==
  LET a == AppOf[c]
  IN  /\ call[c].at = "idle"
      /\ entry[a] # Nothing /\ a \in current
      /\ call' = [call EXCEPT ![c] =
                    CASE init[entry[a]] = "ok"     -> Profiled(c)
                      [] init[entry[a]] = "failed" -> Ended("failed")
                      [] OTHER ->
                           [Untouched EXCEPT !.at = "profile", !.on = entry[a]]]
      /\ UNCHANGED <<home, entry, current, init, check, aborted>>

Initialize(c) ==
  LET a == AppOf[c]
  IN  /\ call[c].at = "idle"
      /\ entry[a] = Nothing \/ a \notin current
      /\ entry' = [entry EXCEPT ![a] = c]
      /\ current' = current \cup {a}
      /\ init' = [init EXCEPT ![c] = "version"]
      /\ call' = [call EXCEPT ![c] =
                    [Untouched EXCEPT !.at = "profile", !.on = c]]
      /\ UNCHANGED <<home, check, aborted>>

Expire(a) ==
  /\ a \in current
  /\ current' = current \ {a}
  /\ UNCHANGED <<home, entry, init, check, call, aborted>>

(* What a process of the initialization leaves in the home directory.      *)
Effect(h, process) ==
  CASE process = "marker" -> [h EXCEPT !.marker = TRUE]
    [] process = "strict" -> [h EXCEPT !.strict = TRUE]
    [] process = "bot"    -> [h EXCEPT !.bot = TRUE]
    [] OTHER -> h

(* "config init" runs only where the marker is missing, the two settings   *)
(* are made every time.                                                    *)
After(h, process) ==
  CASE process = "version" -> IF h.marker THEN "strict" ELSE "config"
    [] process = "config"  -> "marker"
    [] process = "marker"  -> "strict"
    [] process = "strict"  -> "bot"
    [] process = "bot"     -> "ok"

Waiting(c) == {d \in Call : call[d].at = "profile" /\ call[d].on = c}

InitStep(c) ==
  LET a == AppOf[c]
  IN  /\ init[c] \in Processes
      /\ c \notin aborted \/ init[c] = "marker"
      /\ init' = [init EXCEPT ![c] = After(home[a], @)]
      /\ home' = [home EXCEPT ![a] = Effect(@, init[c])]
      /\ call' = [d \in Call |-> IF d \in Waiting(c) /\ init'[c] = "ok"
                                 THEN Profiled(d) ELSE call[d]]
      /\ UNCHANGED <<entry, current, check, aborted>>

(* Mutant: a failed initialization stays in the map. *)
InitFailsKeeping(c) ==
  LET a == AppOf[c]
  IN  /\ init[c] \in Processes
      /\ init' = [init EXCEPT ![c] = "failed"]
      /\ home' \in {home, [home EXCEPT ![a] = Effect(@, init[c])]}
      /\ call' = [d \in Call |-> IF d \in Waiting(c) THEN Ended("failed")
                                 ELSE call[d]]
      /\ UNCHANGED <<entry, current, check, aborted>>

(* The entry of the App is removed, whichever initialization it is for,    *)
(* and every call that shares the promise fails with it.                   *)
InitFails(c) ==
  LET a == AppOf[c]
  IN  /\ init[c] \in Processes
      /\ init' = [init EXCEPT ![c] = "failed"]
      /\ home' \in {home, [home EXCEPT ![a] = Effect(@, init[c])]}
      /\ entry' = [entry EXCEPT ![a] = Nothing]
      /\ current' = current \ {a}
      /\ call' = [d \in Call |-> IF d \in Waiting(c) THEN Ended("failed")
                                 ELSE call[d]]
      /\ UNCHANGED <<check, aborted>>

-----------------------------------------------------------------------------
(* The risks. *)
(* Mutant: the executable is not part of the key. *)
KeyOfCommand(a, m) == <<CHOOSE e \in Executable : TRUE, m>>

Key(a, m) == <<ExecutableOf[a], m>>

(* A call compares what was reported with its own configuration.           *)
Compared(c, m, risk) ==
  IF risk = "read"
  THEN [at |-> "risks", on |-> Nothing, todo |-> call[c].todo \ {m}]
  ELSE Ended("failed")

Ask(c, m) ==
  LET k == Key(AppOf[c], m)
  IN  /\ call[c].at = "risks" /\ m \in call[c].todo
      /\ IF check[k].risk # "none"
         THEN call' = [call EXCEPT ![c] = Compared(c, m, check[k].risk)]
         ELSE call' = [call EXCEPT ![c].at = "check", ![c].on = m]
      /\ check' = IF check[k] = Unasked THEN [check EXCEPT ![k].by = c] ELSE check
      /\ UNCHANGED <<home, entry, current, init, aborted>>

Asking(k) == {c \in Call : call[c].at = "check" /\ Key(AppOf[c], call[c].on) = k}

(* The help of the command, from the executable of the call that asked.    *)
Reported(k) == Risk[<<ExecutableOf[AppOf[check[k].by]], k[2]>>]

CheckEnds(k) ==
  /\ check[k].by # Nothing /\ check[k].risk = "none"
  /\ check[k].by \notin aborted /\ Reported(k) # "unknown"
  /\ check' = [check EXCEPT ![k].risk = Reported(k)]
  /\ call' = [c \in Call |-> IF c \in Asking(k) THEN Compared(c, k[2], Reported(k))
                             ELSE call[c]]
  /\ UNCHANGED <<home, entry, current, init, aborted>>

CheckFails(k) ==
  /\ check[k].by # Nothing /\ check[k].risk = "none"
  /\ check' = [check EXCEPT ![k] = Unasked]
  /\ call' = [c \in Call |-> IF c \in Asking(k) THEN Ended("failed") ELSE call[c]]
  /\ UNCHANGED <<home, entry, current, init, aborted>>

-----------------------------------------------------------------------------
(* The operation. *)
Checked(c) ==
  /\ call[c].at = "risks" /\ call[c].todo = {}
  /\ call' = [call EXCEPT ![c] = IF WantedBy[c] = Nothing THEN Ended("done")
                                 ELSE [@ EXCEPT !.at = "render"]]
  /\ UNCHANGED <<home, entry, current, init, check, aborted>>

(* Parameters that the operation does not allow, or that leave the turn,   *)
(* are refused; the process of an aborted call is started all the same.    *)
Render(c) ==
  /\ call[c].at = "render"
  /\ \E next \in {Ended("failed"), [call[c] EXCEPT !.at = "running"]} :
       call' = [call EXCEPT ![c] = next]
  /\ UNCHANGED <<home, entry, current, init, check, aborted>>

Finish(c) ==
  /\ call[c].at = "running"
  /\ \/ c \notin aborted /\ call' = [call EXCEPT ![c] = Ended("done")]
     \/ call' = [call EXCEPT ![c] = Ended("failed")]
  /\ UNCHANGED <<home, entry, current, init, check, aborted>>

Abort(c) ==
  /\ c \in Signalled \ aborted /\ Going(c)
  /\ aborted' = aborted \cup {c}
  /\ UNCHANGED <<home, entry, current, init, check, call>>

(* Both maps are in memory; the home directories stay.                     *)
Crash ==
  /\ entry' = [a \in App |-> Nothing] /\ current' = {}
  /\ init' = [c \in Call |-> IF init[c] \in Processes THEN "failed" ELSE init[c]]
  /\ check' = [k \in DOMAIN check |-> Unasked]
  /\ call' = [c \in Call |-> IF Going(c) THEN Ended("failed") ELSE call[c]]
  /\ UNCHANGED <<home, aborted>>

LarkNext ==
  \/ \E c \in Call : \/ Join(c) \/ Initialize(c) \/ InitStep(c) \/ InitFails(c)
                     \/ Checked(c) \/ Render(c) \/ Finish(c) \/ Abort(c)
  \/ \E c \in Call, m \in Command : Ask(c, m)
  \/ \E a \in App : Expire(a)
  \/ \E k \in Executable \X Command : CheckEnds(k) \/ CheckFails(k)
  \/ Crash

LarkSpec == LarkInit /\ [][LarkNext]_larkVars

-----------------------------------------------------------------------------
(* A command runs only where the program that runs it says that it reads,  *)
(* as do all the commands the App configured, and in a home directory that *)
(* is bound to the bot identity: whichever App or call the answer was      *)
(* fetched for, whichever call initialized and wherever a process died.    *)
RunsBoundAndReading ==
  \A c \in Call : call[c].at = "running" =>
    /\ \A m \in Operations[AppOf[c]] : Risk[<<ExecutableOf[AppOf[c]], m>>] = "read"
    /\ home[AppOf[c]].strict /\ home[AppOf[c]].bot

(* A failure is not served again: what the maps hold has succeeded, or     *)
(* somebody is at it.                                                      *)
NoFailureStays ==
  /\ \A a \in App : entry[a] # Nothing =>
       init[entry[a]] = "ok" \/ init[entry[a]] \in Processes
  /\ \A k \in Executable \X Command :
       check[k].by # Nothing /\ check[k].risk = "none" => check[k].by \in Asking(k)
=============================================================================
