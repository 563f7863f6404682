--------------------------- MODULE AppLeaseProofs ---------------------------
(***************************************************************************)
(* For any set of Hosts, of lease objects and any TTL: a running App       *)
(* runtime holds a lease object, and a live lease row changes hands only   *)
(* after its owner stopped and gave it back.                               *)
(***************************************************************************)
EXTENDS AppLease, TLAPS

(* A lease object a Host holds is its own, was acquired and not given      *)
(* back, and the process lives.                                            *)
HeldIsOwn ==
  \A h \in Host : holds[h] # None =>
    /\ OwnerOf[holds[h]] = h
    /\ lease[holds[h]] \in {"acquired", "lost"}
    /\ mode[h] \notin {"down", "crashed"}

(* A runtime that may take events has a lease object.                      *)
RunningHolds ==
  \A h \in Host : runtime[h] \in {"connecting", "up"} => holds[h] # None

(* What the lifecycle operations know of the runtime.                      *)
TaskRuntime ==
  \A h \in Host :
    /\ task[h] = "starting" => holds[h] # None
    /\ task[h] = "dropping" => holds[h] = None
    /\ task[h] # "none" => mode[h] \in {"booting", "started", "stopRequested"}

(* A lost lease has no live row, and an absent row no time left.           *)
LostIsOver ==
  /\ \A l \in Lease : lease[l] = "lost" => ~Owns(l)
  /\ row.token = None => row.left = 0

IInv == TypeOK /\ HeldIsOwn /\ RunningHolds /\ TaskRuntime /\ LostIsOver

(* The property of every step that HandoverIsClean boxes.                  *)
CleanHandover ==
  Live(row) /\ row'.token # row.token =>
    /\ lease[row.token] = "acquired" /\ lease'[row.token] = "free"
    /\ runtime'[OwnerOf[row.token]] = "none"

(* The initial states satisfy the invariant.                               *)
LEMMA InitIInv == Init => IInv
  BY LeaseAssumption
  DEF Init, IInv, TypeOK, HeldIsOwn, RunningHolds, TaskRuntime, LostIsOver,
      Owns, Live, LeaseStates, Modes, Tasks, Runtimes

(* Releasing what a Host holds keeps the row well formed and every lost    *)
(* lease without a live row.                                               *)
LEMMA ReleaseKeepsLost ==
  ASSUME IInv, NEW h \in Host, ReleaseHeld(h)
  PROVE  /\ row' \in [token : Lease \cup {None}, left : 0 .. Ttl]
         /\ lease' \in [Lease -> LeaseStates]
         /\ holds' \in [Host -> Lease \cup {None}]
         /\ holds'[h] = None
         /\ \A g \in Host \ {h} : holds'[g] = holds[g]
         /\ \A l \in Lease : l # holds[h] => lease'[l] = lease[l]
         /\ holds[h] # None => lease'[holds[h]] = "free"
         /\ row' = row \/ (row' = [token |-> None, left |-> 0]
                            /\ holds[h] # None /\ row.token = holds[h])
         /\ LostIsOver'
<1>1. row \in [token : Lease \cup {None}, left : 0 .. Ttl] /\ Ttl \in Nat \ {0}
  BY LeaseAssumption DEF IInv, TypeOK
<1>2. row' = row \/ (row' = [token |-> None, left |-> 0]
                      /\ holds[h] # None /\ row.token = holds[h])
  BY DEF ReleaseHeld, WithoutToken
<1>3. row' \in [token : Lease \cup {None}, left : 0 .. Ttl]
  BY <1>1, <1>2
<1>4. /\ lease' \in [Lease -> LeaseStates]
      /\ holds' \in [Host -> Lease \cup {None}]
      /\ holds'[h] = None
      /\ \A g \in Host \ {h} : holds'[g] = holds[g]
      /\ \A l \in Lease : l # holds[h] => lease'[l] = lease[l]
      /\ holds[h] # None => lease'[holds[h]] = "free"
  BY DEF ReleaseHeld, IInv, TypeOK, LeaseStates
<1>5. LostIsOver'
  <2>1. ASSUME NEW l \in Lease, lease'[l] = "lost"
        PROVE  ~Owns(l)'
    <3>1. lease[l] = "lost"
      BY <1>4, <2>1, LeaseAssumption
    <3>2. ~Owns(l)
      BY <3>1 DEF IInv, LostIsOver
    <3> QED
      BY <1>1, <1>2, <3>2 DEF Owns, Live
  <2>2. row'.token = None => row'.left = 0
    BY <1>2 DEF IInv, LostIsOver
  <2> QED
    BY <2>1, <2>2 DEF LostIsOver
<1> QED
  BY <1>2, <1>3, <1>4, <1>5

(* Granting the row to a lease that was free keeps every lost lease        *)
(* without a live row.                                                     *)
LEMMA GrantKeepsLost ==
  ASSUME IInv, NEW l \in Lease, row' = Granted(l),
         lease' = [lease EXCEPT ![l] = "acquired"]
  PROVE  /\ row' \in [token : Lease \cup {None}, left : 0 .. Ttl]
         /\ lease' \in [Lease -> LeaseStates]
         /\ lease'[l] = "acquired"
         /\ \A k \in Lease \ {l} : lease'[k] = lease[k]
         /\ LostIsOver'
<1>1. /\ lease \in [Lease -> LeaseStates]
      /\ l # None /\ Ttl \in Nat \ {0}
      /\ row' = [token |-> l, left |-> Ttl]
  BY LeaseAssumption DEF IInv, TypeOK, Granted
<1>2. row' \in [token : Lease \cup {None}, left : 0 .. Ttl]
  BY <1>1
<1>3. /\ lease' \in [Lease -> LeaseStates] /\ lease'[l] = "acquired"
      /\ \A k \in Lease \ {l} : lease'[k] = lease[k]
  BY <1>1 DEF LeaseStates
<1>4. LostIsOver'
  BY <1>1, <1>3 DEF LostIsOver, Owns, Live
<1> QED
  BY <1>2, <1>3, <1>4

(* Every step keeps the invariant.                                         *)
LEMMA NextIInv == IInv /\ [Next]_vars => IInv'
<1> SUFFICES ASSUME IInv, [Next]_vars
             PROVE  IInv'
  OBVIOUS
<1> USE LeaseAssumption
<1> USE DEF LeaseStates, Modes, Tasks, Runtimes
<1>1. CASE Tick
  <2>1. /\ row.left \in 1 .. Ttl /\ row.token \in Lease
        /\ row' = [token |-> row.token, left |-> row.left - 1]
    BY <1>1 DEF Tick, Live, IInv, TypeOK, LostIsOver
  <2>2. TypeOK'
    BY <1>1, <2>1 DEF Tick, IInv, TypeOK
  <2>3. LostIsOver'
    BY <1>1, <2>1 DEF Tick, IInv, LostIsOver, Owns, Live
  <2> QED
    BY <1>1, <2>2, <2>3
    DEF Tick, IInv, HeldIsOwn, RunningHolds, TaskRuntime
<1>2. ASSUME NEW l \in Lease, Heartbeat(l)
      PROVE  IInv'
  <2>1. CASE Owns(l) /\ row' = Granted(l) /\ lease' = lease
    <3>1. lease' = [lease EXCEPT ![l] = "acquired"]
      BY <1>2, <2>1 DEF Heartbeat, IInv, TypeOK
    <3>2. /\ row' \in [token : Lease \cup {None}, left : 0 .. Ttl]
          /\ LostIsOver'
      BY <2>1, <3>1, GrantKeepsLost
    <3> QED
      BY <1>2, <2>1, <3>2
      DEF Heartbeat, IInv, TypeOK, HeldIsOwn, RunningHolds, TaskRuntime
  <2>2. CASE ~Owns(l) /\ lease' = [lease EXCEPT ![l] = "lost"] /\ row' = row
    <3>1. LostIsOver'
      BY <2>2 DEF IInv, TypeOK, LostIsOver, Owns, Live
    <3> QED
      BY <1>2, <2>2, <3>1
      DEF Heartbeat, IInv, TypeOK, HeldIsOwn, RunningHolds, TaskRuntime
  <2> QED
    BY <1>2, <2>1, <2>2 DEF Heartbeat
<1>3. ASSUME NEW h \in Host, Boot(h)
      PROVE  IInv'
  BY <1>3 DEF Boot, IInv, TypeOK, HeldIsOwn, RunningHolds, TaskRuntime,
              LostIsOver, Owns, Live
<1>4. ASSUME NEW h \in Host, ReconcileNothing(h) \/ Standby(h)
      PROVE  IInv'
  BY <1>4 DEF ReconcileNothing, Standby, EndTask, IInv, TypeOK, HeldIsOwn,
              RunningHolds, TaskRuntime, LostIsOver, Owns, Live
<1>5. ASSUME NEW h \in Host, NEW l \in Lease, Acquire(h, l)
      PROVE  IInv'
  <2>1. /\ row' \in [token : Lease \cup {None}, left : 0 .. Ttl]
        /\ lease' \in [Lease -> LeaseStates]
        /\ lease'[l] = "acquired"
        /\ \A k \in Lease \ {l} : lease'[k] = lease[k]
        /\ LostIsOver'
    BY <1>5, GrantKeepsLost DEF Acquire
  <2>2. TypeOK'
    BY <1>5, <2>1 DEF Acquire, IInv, TypeOK
  <2>3. mode[h] \notin {"down", "crashed"}
    BY <1>5 DEF Acquire, IInv, TaskRuntime
  <2>4. HeldIsOwn'
    BY <1>5, <2>1, <2>3 DEF Acquire, IInv, TypeOK, HeldIsOwn
  <2>5. RunningHolds' /\ TaskRuntime'
    BY <1>5 DEF Acquire, IInv, TypeOK, RunningHolds, TaskRuntime
  <2> QED
    BY <2>1, <2>2, <2>4, <2>5 DEF IInv
<1>6. ASSUME NEW h \in Host, NEW l \in Lease, ConstructorThrows(h, l)
      PROVE  IInv'
  <2>1. /\ row' \in [token : Lease \cup {None}, left : 0 .. Ttl]
        /\ lease' \in [Lease -> LeaseStates]
        /\ lease'[l] = "acquired"
        /\ \A k \in Lease \ {l} : lease'[k] = lease[k]
        /\ LostIsOver'
    BY <1>6, GrantKeepsLost DEF ConstructorThrows
  <2> QED
    BY <1>6, <2>1
    DEF ConstructorThrows, EndTask, IInv, TypeOK, HeldIsOwn, RunningHolds,
        TaskRuntime
<1>7. ASSUME NEW h \in Host, Connected(h) \/ ConnectFails(h)
      PROVE  IInv'
  BY <1>7 DEF Connected, ConnectFails, EndTask, IInv, TypeOK, HeldIsOwn,
              RunningHolds, TaskRuntime, LostIsOver, Owns, Live
<1>8. ASSUME NEW h \in Host, Abandoned(h) \/ Changed(h) \/ DropLost(h)
      PROVE  IInv'
  <2>1. ReleaseHeld(h)
    BY <1>8 DEF Abandoned, Changed, DropLost
  <2>2. /\ row' \in [token : Lease \cup {None}, left : 0 .. Ttl]
        /\ lease' \in [Lease -> LeaseStates]
        /\ holds' \in [Host -> Lease \cup {None}]
        /\ holds'[h] = None
        /\ \A g \in Host \ {h} : holds'[g] = holds[g]
        /\ \A l \in Lease : l # holds[h] => lease'[l] = lease[l]
        /\ LostIsOver'
    BY <2>1, ReleaseKeepsLost
  <2>3. /\ TypeOK'
        /\ runtime'[h] \in {"none", "stopping"}
        /\ task'[h] \in {"none", "reconcile", "dropping"}
        /\ task'[h] # "none" => mode'[h] \in {"booting", "started", "stopRequested"}
        /\ \A g \in Host \ {h} : /\ runtime'[g] = runtime[g]
                                 /\ task'[g] = task[g]
                                 /\ mode'[g] = mode[g]
    <3>1. desired' \in [Host -> BOOLEAN]
      BY <1>8 DEF Abandoned, Changed, DropLost, NextDesired, IInv, TypeOK
    <3>2. /\ runtime' \in [Host -> Runtimes]
          /\ runtime'[h] \in {"none", "stopping"}
          /\ \A g \in Host \ {h} : runtime'[g] = runtime[g]
      BY <1>8 DEF Abandoned, Changed, DropLost, IInv, TypeOK
    <3>3. /\ task' \in [Host -> Tasks]
          /\ task'[h] \in {"none", "reconcile", "dropping"}
          /\ \A g \in Host \ {h} : task'[g] = task[g]
      BY <1>8 DEF Abandoned, Changed, DropLost, EndTask, IInv, TypeOK
    <3>4. /\ mode' \in [Host -> Modes]
          /\ \A g \in Host \ {h} : mode'[g] = mode[g]
      BY <1>8 DEF Abandoned, Changed, DropLost, EndTask, IInv, TypeOK
    <3>5. task'[h] # "none" => mode'[h] \in {"booting", "started", "stopRequested"}
      BY <1>8 DEF Abandoned, Changed, DropLost, EndTask, IInv, TypeOK, TaskRuntime
    <3> QED
      BY <2>2, <3>1, <3>2, <3>3, <3>4, <3>5 DEF TypeOK
  <2>4. \A g \in Host \ {h} : holds[g] # None => holds[g] # holds[h]
    BY DEF IInv, HeldIsOwn
  <2>5. HeldIsOwn'
    BY <2>2, <2>3, <2>4 DEF IInv, TypeOK, HeldIsOwn
  <2>6. RunningHolds' /\ TaskRuntime'
    BY <2>2, <2>3 DEF IInv, RunningHolds, TaskRuntime
  <2> QED
    BY <2>2, <2>3, <2>5, <2>6 DEF IInv
<1>9. ASSUME NEW h \in Host, Dropped(h) \/ MaintainStandby(h)
      PROVE  IInv'
  BY <1>9 DEF Dropped, MaintainStandby, IInv, TypeOK, HeldIsOwn,
              RunningHolds, TaskRuntime, LostIsOver, Owns, Live
<1>10. ASSUME NEW h \in Host, Apply(h)
       PROVE  IInv'
  BY <1>10 DEF Apply, NextDesired, IInv, TypeOK, HeldIsOwn, RunningHolds,
               TaskRuntime, LostIsOver, Owns, Live
<1>11. ASSUME NEW h \in Host, RequestStop(h) \/ StopRuntime(h)
       PROVE  IInv'
  BY <1>11 DEF RequestStop, StopRuntime, IInv, TypeOK, HeldIsOwn,
               RunningHolds, TaskRuntime, LostIsOver, Owns, Live
<1>12. ASSUME NEW h \in Host, Stopped(h) \/ Crash(h)
       PROVE  IInv'
  <2>1. TypeOK'
    <3>1. row' \in [token : Lease \cup {None}, left : 0 .. Ttl]
      BY <1>12 DEF Stopped, Crash, WithoutToken, IInv, TypeOK
    <3>2. lease' \in [Lease -> LeaseStates]
      BY <1>12 DEF Stopped, Crash, IInv, TypeOK
    <3>3. desired' \in [Host -> BOOLEAN]
      BY <1>12 DEF Stopped, Crash, IInv, TypeOK
    <3>4. /\ mode' \in [Host -> Modes]
          /\ task' \in [Host -> Tasks]
          /\ holds' \in [Host -> Lease \cup {None}]
          /\ runtime' \in [Host -> Runtimes]
      BY <1>12 DEF Stopped, Crash, IInv, TypeOK
    <3> QED
      BY <3>1, <3>2, <3>3, <3>4 DEF TypeOK
  <2>2. LostIsOver'
    BY <1>12 DEF Stopped, Crash, WithoutToken, IInv, TypeOK, LostIsOver,
                 Owns, Live
  <2>3. HeldIsOwn'
    BY <1>12 DEF Stopped, Crash, IInv, TypeOK, HeldIsOwn
  <2>4. RunningHolds' /\ TaskRuntime'
    BY <1>12 DEF Stopped, Crash, IInv, TypeOK, RunningHolds, TaskRuntime
  <2> QED
    BY <2>1, <2>2, <2>3, <2>4 DEF IInv
<1>13. CASE UNCHANGED vars
  BY <1>13 DEF vars, IInv, TypeOK, HeldIsOwn, RunningHolds, TaskRuntime,
               LostIsOver, Owns, Live
<1> QED
  BY <1>1, <1>2, <1>3, <1>4, <1>5, <1>6, <1>7, <1>8, <1>9, <1>10, <1>11,
     <1>12, <1>13 DEF Next, Progress, Maintain

(* Every step hands a live row over cleanly.                               *)
LEMMA NextCleanHandover == IInv /\ [Next]_vars => CleanHandover
<1> SUFFICES ASSUME IInv, [Next]_vars, Live(row), row'.token # row.token
             PROVE  /\ lease[row.token] = "acquired"
                    /\ lease'[row.token] = "free"
                    /\ runtime'[OwnerOf[row.token]] = "none"
  BY DEF CleanHandover
<1> USE LeaseAssumption
<1>1. row.token \in Lease /\ Ttl \in Nat \ {0}
  BY DEF IInv, TypeOK, LostIsOver, Live
<1>2. ~Tick
  BY DEF Tick, IInv, TypeOK
<1>3. ASSUME NEW l \in Lease, Heartbeat(l)
      PROVE  FALSE
  BY <1>3 DEF Heartbeat, Owns, Granted
<1>4. ASSUME NEW h \in Host, NEW l \in Lease,
             Acquire(h, l) \/ ConstructorThrows(h, l)
      PROVE  FALSE
  BY <1>4 DEF Acquire, ConstructorThrows, CanAcquire
<1>5. ASSUME NEW h \in Host, Abandoned(h) \/ Changed(h) \/ DropLost(h) \/ Stopped(h)
      PROVE  /\ lease[row.token] = "acquired"
             /\ lease'[row.token] = "free"
             /\ runtime'[OwnerOf[row.token]] = "none"
  <2>1. holds[h] # None /\ row.token = holds[h]
    BY <1>5 DEF Abandoned, Changed, DropLost, Stopped, ReleaseHeld, WithoutToken
  <2>2. OwnerOf[row.token] = h
    BY <2>1 DEF IInv, HeldIsOwn
  <2>3. lease[row.token] = "acquired"
    <3>1. lease[row.token] # "lost"
      BY <1>1 DEF IInv, LostIsOver, Owns
    <3> QED
      BY <2>1, <3>1 DEF IInv, HeldIsOwn
  <2>4. ~DropLost(h)
    BY <2>1, <2>3 DEF DropLost
  <2>5. lease'[row.token] = "free"
    BY <1>1, <1>5, <2>1, <2>2 DEF Abandoned, Changed, DropLost, Stopped, ReleaseHeld
  <2>6. runtime'[h] = "none"
    BY <1>5, <2>4 DEF Abandoned, Changed, Stopped, IInv, TypeOK
  <2> QED
    BY <2>2, <2>3, <2>5, <2>6
<1>6. ASSUME row' = row
      PROVE  FALSE
  BY <1>6
<1>7. ASSUME NEW h \in Host,
             \/ Boot(h) \/ ReconcileNothing(h) \/ Standby(h) \/ Connected(h)
             \/ ConnectFails(h) \/ Dropped(h) \/ MaintainStandby(h)
             \/ Apply(h) \/ RequestStop(h) \/ StopRuntime(h) \/ Crash(h)
      PROVE  FALSE
  BY <1>6, <1>7 DEF Boot, ReconcileNothing, Standby, Connected, ConnectFails,
                    Dropped, MaintainStandby, Apply, RequestStop, StopRuntime,
                    Crash
<1>8. ~UNCHANGED vars
  BY <1>6 DEF vars
<1> QED
  BY <1>2, <1>3, <1>4, <1>5, <1>7, <1>8 DEF Next, Progress, Maintain

(* Every reachable state satisfies the invariant.                          *)
LEMMA SpecIInv == Spec => []IInv
  BY InitIInv, NextIInv, PTL DEF Spec

(* The variables of AppLease keep their types.                             *)
THEOREM LeaseTypes == Spec => []TypeOK
<1>1. IInv => TypeOK
  BY DEF IInv
<1> QED
  BY <1>1, SpecIInv, PTL

(* A runtime that may take events holds a lease object of its own, not yet *)
(* given back, in a process that is alive.                                 *)
THEOREM RunningRuntimeHoldsLease == Spec => []RunningHoldsLease
<1>1. IInv => RunningHoldsLease
  BY DEF IInv, HeldIsOwn, RunningHolds, RunningHoldsLease
<1> QED
  BY <1>1, SpecIInv, PTL

(* A live lease row changes hands only when its owner gives it back, with  *)
(* the owner's runtime stopped.                                            *)
THEOREM LeaseHandoverIsClean == Spec => HandoverIsClean
<1>1. IInv /\ [Next]_vars => [CleanHandover]_vars
  BY NextCleanHandover
<1> QED
  BY <1>1, SpecIInv, PTL DEF Spec, HandoverIsClean, CleanHandover
=============================================================================
