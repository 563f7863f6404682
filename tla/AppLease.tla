------------------------------ MODULE AppLease ------------------------------
(***************************************************************************)
(* The Hosts that share one platform database and compete for one Feishu   *)
(* App: the lease row and its lease objects                                *)
(* (src/src/storage/app-lease-store.ts) and the lifecycle operations of a  *)
(* Host, which a promise chain makes sequential (src/src/app/host.ts).     *)
(*                                                                         *)
(* Time is the part of the row's TTL that is left.  A tick may happen at   *)
(* any moment, a heartbeat or a maintenance run may come arbitrarily late: *)
(* an event loop can be blocked and a process suspended.                   *)
(***************************************************************************)
EXTENDS Integers, FiniteSets

CONSTANTS
  Host,      \* processes that share the database
  Lease,     \* lease objects, one randomUUID token each
  OwnerOf,   \* the Host that creates a lease object
  None,      \* no token, no lease object
  Ttl        \* APP_LEASE_TTL_MS in ticks

ASSUME LeaseAssumption ==
  /\ OwnerOf \in [Lease -> Host]
  /\ None \notin Lease
  /\ Ttl \in Nat \ {0}

VARIABLES
  row,      \* the row of app_runtime_leases: token and time left
  lease,    \* a lease object: not in use, acquired, or marked lost
  mode,     \* the process and the flags started and stopping
  task,     \* the lifecycle operation under way
  desired,  \* desiredApps has the App
  holds,    \* the lease of the running or starting App
  runtime   \* the FeishuAppRuntime of the App

vars == <<row, lease, mode, task, desired, holds, runtime>>

LeaseStates == {"free", "acquired", "lost"}
Modes    == {"down", "booting", "started", "stopRequested", "stopping", "crashed"}
Tasks    == {"none", "reconcile", "starting", "abandoning", "dropping", "changing"}
Runtimes == {"none", "connecting", "up", "stopping"}

TypeOK ==
  /\ row \in [token : Lease \cup {None}, left : 0 .. Ttl]
  /\ lease \in [Lease -> LeaseStates]
  /\ mode \in [Host -> Modes]
  /\ task \in [Host -> Tasks]
  /\ desired \in [Host -> BOOLEAN]
  /\ holds \in [Host -> Lease \cup {None}]
  /\ runtime \in [Host -> Runtimes]

Init ==
  /\ row = [token |-> None, left |-> 0]
  /\ lease = [l \in Lease |-> "free"]
  /\ mode = [h \in Host |-> "down"]
  /\ task = [h \in Host |-> "none"]
  /\ desired = [h \in Host |-> FALSE]
  /\ holds = [h \in Host |-> None]
  /\ runtime = [h \in Host |-> "none"]

-----------------------------------------------------------------------------
(* The row, as the three statements of app-lease-store.ts change it.       *)
Live(r) == r.left > 0

(* UPDATE ... WHERE token = ? AND expires_at > now finds the row.          *)
Owns(l) == row.token = l /\ Live(row)

(* Mutant of CanAcquire: an expired row is never taken over.               *)
CanAcquireAbsent == row.token = None

(* INSERT ... ON CONFLICT DO UPDATE ... WHERE expires_at <= now.           *)
CanAcquire == ~Live(row)

Granted(l) == [token |-> l, left |-> Ttl]

(* Mutant of WithoutToken: the DELETE names the key and not the token.     *)
WithoutRow(r, l) == [token |-> None, left |-> 0]

(* DELETE ... WHERE token = ?.                                             *)
WithoutToken(r, l) ==
  IF r.token = l THEN [token |-> None, left |-> 0] ELSE r

(* release() of the lease a Host holds.                                    *)
ReleaseHeld(h) ==
  /\ row' = IF holds[h] = None THEN row ELSE WithoutToken(row, holds[h])
  /\ lease' = [l \in Lease |-> IF l = holds[h] THEN "free" ELSE lease[l]]
  /\ holds' = [holds EXCEPT ![h] = None]

Tick ==
  /\ Live(row)
  /\ row' = [row EXCEPT !.left = @ - 1]
  /\ UNCHANGED <<lease, mode, task, desired, holds, runtime>>

(* Mutants of Heartbeat: a failed renewal goes unnoticed, or resets the    *)
(* lease object as if it had been released.                                *)
HeartbeatUnnoticed(l) ==
  /\ lease[l] = "acquired"
  /\ Owns(l)
  /\ row' = Granted(l)
  /\ UNCHANGED <<lease, mode, task, desired, holds, runtime>>

(* The interval timer of an acquired lease; a renewal that finds no row    *)
(* marks the lease lost and stops the timer.                               *)
Heartbeat(l) ==
  /\ lease[l] = "acquired"
  /\ \/ /\ Owns(l)
        /\ row' = Granted(l)
        /\ lease' = lease
     \/ /\ ~Owns(l)
        /\ lease' = [lease EXCEPT ![l] = "lost"]
        /\ row' = row
  /\ UNCHANGED <<mode, task, desired, holds, runtime>>

-----------------------------------------------------------------------------
(* A lifecycle operation ends; the first one ends start().                 *)
EndTask(h) ==
  /\ task' = [task EXCEPT ![h] = "none"]
  /\ mode' = [mode EXCEPT ![h] = IF @ = "booting" THEN "started" ELSE @]

Boot(h) ==
  /\ mode[h] = "down"
  /\ mode' = [mode EXCEPT ![h] = "booting"]
  /\ desired' = [desired EXCEPT ![h] = TRUE]
  /\ task' = [task EXCEPT ![h] = "reconcile"]
  /\ UNCHANGED <<row, lease, holds, runtime>>

(* reconcileApps finds nothing to start.                                   *)
NothingToStart(h) ==
  \/ mode[h] = "stopRequested"
  \/ ~desired[h]
  \/ holds[h] # None

ReconcileNothing(h) ==
  /\ task[h] = "reconcile"
  /\ NothingToStart(h)
  /\ EndTask(h)
  /\ UNCHANGED <<row, lease, desired, holds, runtime>>

(* tryStartApp: another token is live, the assignment becomes standby.  A  *)
(* database error ends the attempt too, with the assignment failed.        *)
Standby(h) ==
  /\ task[h] = "reconcile"
  /\ ~NothingToStart(h)
  /\ ~CanAcquire
  /\ EndTask(h)
  /\ UNCHANGED <<row, lease, desired, holds, runtime>>

(* tryStartApp acquires the lease with a new object and starts connecting. *)
Acquire(h, l) ==
  /\ task[h] = "reconcile"
  /\ ~NothingToStart(h)
  /\ CanAcquire
  /\ OwnerOf[l] = h /\ lease[l] = "free"
  /\ row' = Granted(l)
  /\ lease' = [lease EXCEPT ![l] = "acquired"]
  /\ holds' = [holds EXCEPT ![h] = l]
  /\ runtime' = [runtime EXCEPT ![h] = "connecting"]
  /\ task' = [task EXCEPT ![h] = "starting"]
  /\ UNCHANGED <<mode, desired>>

(* The constructor of FeishuAppRuntime throws: only the outer catch runs,  *)
(* so nothing releases the lease and its timer keeps renewing it.  The     *)
(* second conjunct bounds the leaks: a lease object must be left to use.   *)
ConstructorThrows(h, l) ==
  /\ task[h] = "reconcile"
  /\ \E k \in Lease \ {l} : OwnerOf[k] = h /\ lease[k] = "free"
  /\ ~NothingToStart(h)
  /\ CanAcquire
  /\ OwnerOf[l] = h /\ lease[l] = "free"
  /\ row' = Granted(l)
  /\ lease' = [lease EXCEPT ![l] = "acquired"]
  /\ EndTask(h)
  /\ UNCHANGED <<desired, holds, runtime>>

(* runtime.start() returns, whatever became of the lease meanwhile.        *)
Connected(h) ==
  /\ task[h] = "starting"
  /\ runtime' = [runtime EXCEPT ![h] = "up"]
  /\ EndTask(h)
  /\ UNCHANGED <<row, lease, desired, holds>>

(* runtime.start() fails: it stops its bindings and channels before it     *)
(* throws, then tryStartApp releases the lease.                            *)
ConnectFails(h) ==
  /\ task[h] = "starting"
  /\ runtime' = [runtime EXCEPT ![h] = "stopping"]
  /\ task' = [task EXCEPT ![h] = "abandoning"]
  /\ UNCHANGED <<row, lease, mode, desired, holds>>

Abandoned(h) ==
  /\ task[h] = "abandoning"
  /\ runtime' = [runtime EXCEPT ![h] = "none"]
  /\ ReleaseHeld(h)
  /\ EndTask(h)
  /\ UNCHANGED desired

(* A maintenance run of a Host whose App does not run tries to start it.   *)
MaintainStandby(h) ==
  /\ mode[h] = "started" /\ task[h] = "none"
  /\ runtime[h] = "none" /\ desired[h]
  /\ task' = [task EXCEPT ![h] = "reconcile"]
  /\ UNCHANGED <<row, lease, mode, desired, holds, runtime>>

(* A maintenance run notices a lost lease: runtime.stop() and              *)
(* lease.release() start together, and the release is immediate.           *)
DropLost(h) ==
  /\ mode[h] = "started" /\ task[h] = "none"
  /\ runtime[h] = "up"
  /\ lease[holds[h]] # "acquired"
  /\ runtime' = [runtime EXCEPT ![h] = "stopping"]
  /\ ReleaseHeld(h)
  /\ task' = [task EXCEPT ![h] = "dropping"]
  /\ UNCHANGED <<mode, desired>>

Dropped(h) ==
  /\ task[h] = "dropping"
  /\ runtime' = [runtime EXCEPT ![h] = "none"]
  /\ task' = [task EXCEPT ![h] = "reconcile"]
  /\ UNCHANGED <<row, lease, mode, desired, holds>>

(* The applied configuration has the App or has not.                       *)
NextDesired(h) ==
  \E next \in BOOLEAN : desired' = [desired EXCEPT ![h] = next]

(* applyPlatformConfig with a changed App, or without it: the old runtime  *)
(* stops first and gives its lease back after that.                        *)
Apply(h) ==
  /\ mode[h] = "started" /\ task[h] = "none"
  /\ \/ /\ runtime[h] = "up"
        /\ runtime' = [runtime EXCEPT ![h] = "stopping"]
        /\ task' = [task EXCEPT ![h] = "changing"]
        /\ desired' = desired
     \/ /\ runtime[h] = "none"
        /\ runtime' = runtime
        /\ task' = [task EXCEPT ![h] = "reconcile"]
        /\ NextDesired(h)
  /\ UNCHANGED <<row, lease, mode, holds>>

Changed(h) ==
  /\ task[h] = "changing"
  /\ runtime' = [runtime EXCEPT ![h] = "none"]
  /\ ReleaseHeld(h)
  /\ NextDesired(h)
  /\ task' = [task EXCEPT ![h] = "reconcile"]
  /\ mode' = mode

(* stop(): the flag first, then the operations under way, then the rest.   *)
RequestStop(h) ==
  /\ mode[h] = "started"
  /\ mode' = [mode EXCEPT ![h] = "stopRequested"]
  /\ UNCHANGED <<row, lease, task, desired, holds, runtime>>

StopRuntime(h) ==
  /\ mode[h] = "stopRequested" /\ task[h] = "none"
  /\ mode' = [mode EXCEPT ![h] = "stopping"]
  /\ runtime' = [runtime EXCEPT ![h] = IF @ = "up" THEN "stopping" ELSE @]
  /\ UNCHANGED <<row, lease, task, desired, holds>>

(* releaseAllLeases, and the process ends with what it leaked.             *)
Stopped(h) ==
  /\ mode[h] = "stopping"
  /\ mode' = [mode EXCEPT ![h] = "down"]
  /\ runtime' = [runtime EXCEPT ![h] = "none"]
  /\ row' = IF holds[h] = None THEN row ELSE WithoutToken(row, holds[h])
  /\ lease' = [l \in Lease |-> IF OwnerOf[l] = h THEN "free" ELSE lease[l]]
  /\ holds' = [holds EXCEPT ![h] = None]
  /\ desired' = [desired EXCEPT ![h] = FALSE]
  /\ task' = task

(* The process dies and leaves its row behind.  It does not come back; its *)
(* replacement is another member of Host.                                  *)
Crash(h) ==
  /\ mode[h] \notin {"down", "crashed"}
  /\ mode' = [mode EXCEPT ![h] = "crashed"]
  /\ lease' = [l \in Lease |-> IF OwnerOf[l] = h THEN "free" ELSE lease[l]]
  /\ runtime' = [runtime EXCEPT ![h] = "none"]
  /\ holds' = [holds EXCEPT ![h] = None]
  /\ task' = [task EXCEPT ![h] = "none"]
  /\ UNCHANGED <<row, desired>>

-----------------------------------------------------------------------------
Progress(h) ==
  \/ ReconcileNothing(h) \/ Standby(h)
  \/ \E l \in Lease : Acquire(h, l) \/ ConstructorThrows(h, l)
  \/ Abandoned(h) \/ Dropped(h) \/ Changed(h) \/ StopRuntime(h) \/ Stopped(h)

Maintain(h) == MaintainStandby(h) \/ DropLost(h)

Next ==
  \/ Tick
  \/ \E l \in Lease : Heartbeat(l)
  \/ \E h \in Host :
       \/ Boot(h) \/ Progress(h) \/ Maintain(h)
       \/ Connected(h) \/ ConnectFails(h)
       \/ Apply(h) \/ RequestStop(h) \/ Crash(h)

(* Clock, interval timers and running operations make progress.  That      *)
(* Feishu accepts a connection sooner or later is assumed of it, not of    *)
(* this code.                                                              *)
Fairness ==
  /\ WF_vars(Tick)
  /\ \A l \in Lease : WF_vars(Heartbeat(l))
  /\ \A h \in Host :
       /\ WF_vars(Progress(h))
       /\ WF_vars(Maintain(h))
       /\ SF_vars(Connected(h))

Spec == Init /\ [][Next]_vars

FairSpec == Spec /\ Fairness

-----------------------------------------------------------------------------
(* A runtime that may take events has a lease object, never one already    *)
(* given back, and only a Host process that is alive has one (host.ts:     *)
(* tryStartApp, doApplyPlatformConfig, doRunMaintenance, stop).            *)
RunningHoldsLease ==
  \A h \in Host :
    runtime[h] \in {"connecting", "up"} =>
      /\ mode[h] \notin {"down", "crashed"}
      /\ holds[h] # None
      /\ OwnerOf[holds[h]] = h
      /\ lease[holds[h]] \in {"acquired", "lost"}

(* A live row changes hands only because its owner gave it back, and the   *)
(* owner's runtime has stopped by then: no late heartbeat, no release by a *)
(* former owner and no acquisition takes a lease from a Host that renews   *)
(* it (the WHERE clauses of app-lease-store.ts, the order of stop() and    *)
(* release() in host.ts).                                                  *)
HandoverIsClean ==
  [][ Live(row) /\ row'.token # row.token =>
        /\ lease[row.token] = "acquired" /\ lease'[row.token] = "free"
        /\ runtime'[OwnerOf[row.token]] = "none" ]_vars

(* A Host that runs the App without owning the row stops running it.       *)
StaleHostStops ==
  \A h \in Host :
    (runtime[h] = "up" /\ ~Owns(holds[h])) ~> (runtime[h] # "up")

(* A lease renewed by a timer that no App runtime belongs to.              *)
Leaked(l) == lease[l] = "acquired" /\ holds[OwnerOf[l]] # l

(* While some Host stays up, wants the App and no lease is leaked, the App *)
(* runs again and again: a crashed owner is replaced.                      *)
Failover ==
  \A h \in Host :
    <>[](mode[h] = "started" /\ desired[h] /\ \A l \in Lease : ~Leaked(l))
      => []<>(\E g \in Host : runtime[g] = "up")
=============================================================================
