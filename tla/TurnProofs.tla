---------------------------- MODULE TurnProofs ----------------------------
(***************************************************************************)
(* The turns of conversations and the files they leave.  For any tasks,    *)
(* conversations, bindings and capacities: both kinds of slots are         *)
(* accounted for, no grant is lost, and no turn of a stopped binding runs  *)
(* with a live signal.  For any jobs, files and limits: what is written    *)
(* keeps the quota of the workspace, and a prompt names what is there.     *)
(***************************************************************************)
EXTENDS TurnPipeline, Workspace, FiniteSetTheorems, TLAPS

(***************************************************************************)
(* What each operation of a semaphore does to the set of its holders and   *)
(* the set of its waiters, for every capacity and every set of clients.    *)
(***************************************************************************)

(* No client is listed twice.                                              *)
ListedOnce(w) == \A i, j \in DOMAIN w : w[i] = w[j] => i = j

(* The semaphore s counts exactly the holders, lists exactly the waiting   *)
(* clients, once each, and makes none wait while a slot is free.           *)
Accounts(s, Client, capacity, holders, waiting) ==
  /\ s \in Semaphores(Client, capacity)
  /\ IsFiniteSet(holders)
  /\ s.active = Cardinality(holders)
  /\ Waiting(s) = waiting
  /\ ListedOnce(s.waiters)
  /\ s.waiters # <<>> => s.active = capacity

(* A fresh semaphore has neither holders nor waiters.                      *)
LEMMA FreshAccounts ==
  ASSUME NEW Client, NEW capacity \in Nat
  PROVE  Accounts(Fresh, Client, capacity, {}, {})
<1>1. Cardinality({}) = 0 /\ IsFiniteSet({})
  BY FS_EmptySet
<1>2. <<>> \in Seq(Client) /\ DOMAIN <<>> = {}
  OBVIOUS
<1> QED
  BY <1>1, <1>2 DEF Accounts, Fresh, Semaphores, Waiting, ListedOnce

(* acquire() with a free slot adds one holder.                             *)
LEMMA TakeAccounts ==
  ASSUME NEW Client, NEW capacity \in Nat, NEW s, NEW H, NEW W,
         Accounts(s, Client, capacity, H, W),
         HasFreeSlot(s, capacity), NEW t, t \notin H
  PROVE  Accounts(Take(s), Client, capacity, H \cup {t}, W)
<1>1. /\ s \in Semaphores(Client, capacity) /\ IsFiniteSet(H)
      /\ s.active = Cardinality(H) /\ s.waiters = <<>>
  BY DEF Accounts, HasFreeSlot, Semaphores
<1>2. /\ IsFiniteSet(H \cup {t})
      /\ Cardinality(H \cup {t}) = Cardinality(H) + 1
  BY <1>1, FS_AddElement
<1>3. /\ Take(s) \in Semaphores(Client, capacity)
      /\ Take(s).active = s.active + 1 /\ Take(s).waiters = s.waiters
  BY <1>1 DEF Take, Semaphores, HasFreeSlot
<1> QED
  BY <1>1, <1>2, <1>3 DEF Accounts, Waiting

(* acquire() with no free slot appends one waiter.                         *)
LEMMA WaitAccounts ==
  ASSUME NEW Client, NEW capacity \in Nat, NEW s, NEW H, NEW W,
         Accounts(s, Client, capacity, H, W),
         ~HasFreeSlot(s, capacity), NEW t \in Client, t \notin W
  PROVE  Accounts(Wait(s, t), Client, capacity, H, W \cup {t})
<1> DEFINE w == s.waiters
           v == Append(w, t)
<1>1. w \in Seq(Client) /\ s \in Semaphores(Client, capacity) /\ s.active = capacity
  BY DEF Accounts, HasFreeSlot, Semaphores
<1>2. /\ v \in Seq(Client) /\ Len(v) = Len(w) + 1 /\ v[Len(w) + 1] = t
      /\ \A i \in 1 .. Len(w) : v[i] = w[i]
      /\ DOMAIN v = 1 .. Len(w) + 1 /\ DOMAIN w = 1 .. Len(w) /\ Len(w) \in Nat
  BY <1>1
<1>3. {v[i] : i \in DOMAIN v} = {w[i] : i \in DOMAIN w} \cup {t}
  BY <1>2
<1>4. t \notin {w[i] : i \in DOMAIN w} /\ ListedOnce(w)
  BY DEF Accounts, Waiting
<1>5. ListedOnce(v)
  <2> SUFFICES ASSUME NEW i \in DOMAIN v, NEW j \in DOMAIN v, v[i] = v[j]
               PROVE  i = j
    BY DEF ListedOnce
  <2>1. CASE i \in 1 .. Len(w) /\ j \in 1 .. Len(w)
    BY <2>1, <1>2, <1>4 DEF ListedOnce
  <2>2. CASE i = Len(w) + 1 /\ j \in 1 .. Len(w)
    BY <2>2, <1>2, <1>4
  <2>3. CASE i \in 1 .. Len(w) /\ j = Len(w) + 1
    BY <2>3, <1>2, <1>4
  <2> QED
    BY <2>1, <2>2, <2>3, <1>2
<1>6. /\ Wait(s, t) \in Semaphores(Client, capacity)
      /\ Wait(s, t).active = s.active /\ Wait(s, t).waiters = v
  BY <1>1, <1>2 DEF Wait, Semaphores
<1> QED
  BY <1>1, <1>3, <1>5, <1>6 DEF Accounts, Waiting

(* An aborted waiter leaves the list, and only it.                         *)
LEMMA AbandonAccounts ==
  ASSUME NEW Client, NEW capacity \in Nat, NEW s, NEW H, NEW W,
         Accounts(s, Client, capacity, H, W), NEW t \in W
  PROVE  Accounts(Abandon(s, t), Client, capacity, H, W \ {t})
<1> DEFINE w == s.waiters
           at == CHOOSE i \in DOMAIN w : w[i] = t
           v == [i \in 1 .. Len(w) - 1 |-> IF i < at THEN w[i] ELSE w[i + 1]]
<1>1. /\ w \in Seq(Client) /\ s \in Semaphores(Client, capacity) /\ ListedOnce(w)
      /\ DOMAIN w = 1 .. Len(w) /\ Len(w) \in Nat
  BY DEF Accounts, Semaphores
<1>2. at \in DOMAIN w /\ w[at] = t
  <2>1. \E i \in DOMAIN w : w[i] = t
    BY DEF Accounts, Waiting
  <2> QED
    BY <2>1
<1>. HIDE DEF at
<1>3. /\ v \in Seq(Client) /\ Len(v) = Len(w) - 1 /\ DOMAIN v = 1 .. Len(w) - 1
      /\ w # <<>>
  <2>1. Len(w) >= 1 /\ Len(w) - 1 \in Nat
    BY <1>1, <1>2
  <2>2. \A i \in 1 .. Len(w) - 1 : v[i] \in Client
    BY <1>1, <1>2
  <2>3. v \in [1 .. Len(w) - 1 -> Client]
    BY <2>2
  <2> QED
    BY <2>1, <2>3, <1>2
<1>4. /\ \A i \in DOMAIN v : i < at => v[i] = w[i]
      /\ \A i \in DOMAIN v : ~(i < at) => v[i] = w[i + 1]
  BY <1>3
<1>5. \A i \in DOMAIN v : /\ i \in DOMAIN w /\ i + 1 \in DOMAIN w
                          /\ i \in Int /\ at \in Int
  BY <1>1, <1>2, <1>3
<1>6. {v[i] : i \in DOMAIN v} = {w[i] : i \in DOMAIN w} \ {t}
  <2>1. ASSUME NEW i \in DOMAIN v
        PROVE  v[i] \in {w[k] : k \in DOMAIN w} \ {t}
    <3>1. CASE i < at
      BY <3>1, <1>1, <1>2, <1>4, <1>5 DEF ListedOnce
    <3>2. CASE ~(i < at)
      BY <3>2, <1>1, <1>2, <1>4, <1>5 DEF ListedOnce
    <3> QED
      BY <3>1, <3>2
  <2>2. ASSUME NEW k \in DOMAIN w, w[k] # t
        PROVE  \E i \in DOMAIN v : v[i] = w[k]
    <3>1. CASE k < at
      BY <3>1, <1>1, <1>2, <1>3, <1>4
    <3>2. CASE k > at
      <4>1. k - 1 \in DOMAIN v /\ ~(k - 1 < at) /\ (k - 1) + 1 = k
        BY <3>2, <1>1, <1>2, <1>3
      <4> QED
        BY <4>1, <1>4
    <3>3. k < at \/ k > at
      BY <2>2, <1>1, <1>2
    <3> QED
      BY <3>1, <3>2, <3>3
  <2> HIDE DEF v, w
  <2> QED
    BY <2>1, <2>2
<1>7. ListedOnce(v)
  <2> SUFFICES ASSUME NEW i \in DOMAIN v, NEW j \in DOMAIN v, v[i] = v[j]
               PROVE  i = j
    BY DEF ListedOnce
  <2>1. CASE i < at /\ j < at
    BY <2>1, <1>1, <1>4, <1>5 DEF ListedOnce
  <2>2. CASE ~(i < at) /\ ~(j < at)
    BY <2>2, <1>1, <1>4, <1>5 DEF ListedOnce
  <2>3. CASE i < at /\ ~(j < at)
    BY <2>3, <1>1, <1>4, <1>5 DEF ListedOnce
  <2>4. CASE ~(i < at) /\ j < at
    BY <2>4, <1>1, <1>4, <1>5 DEF ListedOnce
  <2> QED
    BY <2>1, <2>2, <2>3, <2>4
<1>8. /\ Abandon(s, t) \in Semaphores(Client, capacity)
      /\ Abandon(s, t).active = s.active /\ Abandon(s, t).waiters = v
  BY <1>1, <1>3 DEF Abandon, Semaphores, at
<1>9. s.active = capacity
  BY <1>3 DEF Accounts
<1>10. {w[i] : i \in DOMAIN w} = W
  BY DEF Accounts, Waiting
<1> HIDE DEF v, w
<1> QED
  BY <1>6, <1>7, <1>8, <1>9, <1>10 DEF Accounts, Waiting

(* A release replaces the holder by the first waiter, if there is one.     *)
LEMMA ReleaseAccounts ==
  ASSUME NEW Client, NEW capacity \in Nat, NEW s, NEW H, NEW W,
         Accounts(s, Client, capacity, H, W), H \cap W = {}, NEW t \in H
  PROVE  /\ NextServed(s) \subseteq W
         /\ Accounts(Release(s), Client, capacity,
                     (H \ {t}) \cup NextServed(s), W \ NextServed(s))
<1> DEFINE w == s.waiters
<1>1. /\ w \in Seq(Client) /\ s \in Semaphores(Client, capacity) /\ ListedOnce(w)
      /\ DOMAIN w = 1 .. Len(w) /\ Len(w) \in Nat
      /\ IsFiniteSet(H) /\ s.active = Cardinality(H)
      /\ {w[i] : i \in DOMAIN w} = W
  BY DEF Accounts, Semaphores, Waiting
<1>2. /\ IsFiniteSet(H \ {t}) /\ Cardinality(H \ {t}) = Cardinality(H) - 1
      /\ Cardinality(H) \in Nat
  BY <1>1, FS_RemoveElement, FS_CardinalityType
<1>3. CASE w = <<>>
  <2>1. NextServed(s) = {}
    BY <1>3 DEF NextServed
  <2>2. Cardinality(H) > 0
    BY <1>1, <1>2, FS_CardinalityType
  <2>3. /\ Release(s) \in Semaphores(Client, capacity)
        /\ Release(s).active = s.active - 1 /\ Release(s).waiters = w
    BY <1>1, <1>3, <2>2 DEF Release, Semaphores
  <2> QED
    BY <1>1, <1>2, <1>3, <2>1, <2>3 DEF Accounts, Waiting
<1>4. CASE w # <<>>
  <2> DEFINE first == Head(w)
             v == Tail(w)
  <2>1. /\ v \in Seq(Client) /\ Len(v) = Len(w) - 1 /\ DOMAIN v = 1 .. Len(w) - 1
        /\ \A i \in DOMAIN v : v[i] = w[i + 1]
        /\ first = w[1] /\ 1 \in DOMAIN w /\ first \in W
    BY <1>1, <1>4
  <2>2. NextServed(s) = {first} /\ first \notin H \ {t}
    BY <1>4, <2>1 DEF NextServed
  <2>3. /\ IsFiniteSet((H \ {t}) \cup {first})
        /\ Cardinality((H \ {t}) \cup {first}) = Cardinality(H)
    <3> HIDE DEF first
    <3>1. /\ IsFiniteSet((H \ {t}) \cup {first})
          /\ Cardinality((H \ {t}) \cup {first}) = Cardinality(H \ {t}) + 1
      BY <1>2, <2>2, FS_AddElement
    <3> QED
      BY <3>1, <1>2
  <2>4. /\ Release(s) \in Semaphores(Client, capacity)
        /\ Release(s).active = s.active /\ Release(s).waiters = v
    BY <1>1, <1>4, <2>1 DEF Release, Semaphores
  <2>5. \A i \in DOMAIN v : i \in Int /\ i + 1 \in DOMAIN w /\ i + 1 # 1
    BY <1>1, <2>1
  <2>6. ListedOnce(v)
    <3> SUFFICES ASSUME NEW i \in DOMAIN v, NEW j \in DOMAIN v, v[i] = v[j]
                 PROVE  i = j
      BY DEF ListedOnce
    <3>1. w[i + 1] = w[j + 1]
      BY <2>1
    <3>2. i + 1 = j + 1
      BY <3>1, <2>5, <1>1 DEF ListedOnce
    <3> QED
      BY <3>2, <2>5
  <2>7. {v[i] : i \in DOMAIN v} = W \ {first}
    <3>1. \A i \in DOMAIN v : v[i] \in W \ {first}
      BY <1>1, <2>1, <2>5 DEF ListedOnce
    <3>2. ASSUME NEW k \in DOMAIN w, w[k] # first
          PROVE  \E i \in DOMAIN v : v[i] = w[k]
      <4>1. k - 1 \in DOMAIN v /\ (k - 1) + 1 = k
        BY <3>2, <1>1, <2>1
      <4> QED
        BY <4>1, <2>1
    <3> HIDE DEF v, w, first
    <3> QED
      BY <3>1, <3>2, <1>1
  <2>8. s.active = capacity
    BY <1>4 DEF Accounts
  <2> HIDE DEF v, first
  <2> QED
    BY <1>1, <2>1, <2>2, <2>3, <2>4, <2>6, <2>7, <2>8 DEF Accounts, Waiting
<1> QED
  BY <1>3, <1>4

-----------------------------------------------------------------------------
(***************************************************************************)
(* The turns.                                                              *)
(***************************************************************************)

GlobalWaiters     == {t \in Turn : pc[t] = "globalWait"}
BindingWaiters(b) == {t \in Turn : BindingOfTurn(t) = b /\ pc[t] = "bindingWait"}

(* The control states and the two kinds of semaphores agree.               *)
GlobalAccounts ==
  Accounts(global, Turn, GlobalCapacity, GlobalHolders, GlobalWaiters)

LocalAccounts ==
  /\ DOMAIN local = Binding
  /\ \A b \in Binding :
       Accounts(local[b], Turn, BindingCapacity[b],
                BindingHolders(b), BindingWaiters(b))

SlotInv == pc \in [Turn -> PCs] /\ GlobalAccounts /\ LocalAccounts

(* The parameters as the steps below need them.                            *)
LEMMA Parameters ==
  /\ GlobalCapacity \in Nat
  /\ \A b \in Binding : BindingCapacity[b] \in Nat
  /\ \A t \in Turn : BindingOfTurn(t) \in Binding
  BY PipelineAssumption DEF BindingOfTurn

(* The initial states satisfy the slot invariant.                          *)
LEMMA InitSlotInv == Init => SlotInv
<1> SUFFICES ASSUME Init
             PROVE  SlotInv
  OBVIOUS
<1>1. pc \in [Turn -> PCs]
  BY DEF Init, PCs
<1>2. /\ GlobalHolders = {} /\ GlobalWaiters = {}
      /\ \A b \in Binding : BindingHolders(b) = {} /\ BindingWaiters(b) = {}
  BY DEF Init, GlobalHolders, GlobalWaiters, BindingHolders, BindingWaiters,
         HoldsGlobal, HoldsBinding
<1>3. GlobalAccounts
  BY <1>2, Parameters, FreshAccounts DEF Init, GlobalAccounts
<1>4. LocalAccounts
  BY <1>2, Parameters, FreshAccounts DEF Init, LocalAccounts
<1> QED
  BY <1>1, <1>3, <1>4 DEF SlotInv

(* A step that moves no task into or out of a waiting or holding control   *)
(* state, and leaves the semaphores alone, keeps the slot invariant.       *)
LEMMA SameSlots ==
  ASSUME SlotInv, UNCHANGED <<global, local>>, pc' \in [Turn -> PCs],
         \A t \in Turn : /\ pc'[t] \in HoldsGlobal  <=> pc[t] \in HoldsGlobal
                         /\ pc'[t] \in HoldsBinding <=> pc[t] \in HoldsBinding
                         /\ pc'[t] = "globalWait"  <=> pc[t] = "globalWait"
                         /\ pc'[t] = "bindingWait" <=> pc[t] = "bindingWait"
  PROVE  SlotInv'
<1>1. /\ GlobalHolders' = GlobalHolders /\ GlobalWaiters' = GlobalWaiters
      /\ \A b \in Binding : /\ BindingHolders(b)' = BindingHolders(b)
                            /\ BindingWaiters(b)' = BindingWaiters(b)
  BY DEF GlobalHolders, GlobalWaiters, BindingHolders, BindingWaiters
<1> QED
  BY <1>1 DEF SlotInv, GlobalAccounts, LocalAccounts

(* Holders and waiters are different tasks.                                *)
LEMMA Disjoint ==
  /\ GlobalHolders \cap GlobalWaiters = {}
  /\ \A b \in Binding : BindingHolders(b) \cap BindingWaiters(b) = {}
  BY DEF GlobalHolders, GlobalWaiters, BindingHolders, BindingWaiters,
         HoldsGlobal, HoldsBinding

(* acquireTurnSlots at the Host-wide semaphore.                            *)
LEMMA AcquireGlobalSlots ==
  ASSUME SlotInv, NEW t \in Turn, AcquireGlobal(t)
  PROVE  SlotInv'
<1>1. /\ pc \in [Turn -> PCs] /\ pc[t] = "queued" /\ local' = local
      /\ GlobalAccounts /\ LocalAccounts
  BY DEF SlotInv, AcquireGlobal, NextUp
<1>2. t \notin GlobalHolders /\ t \notin GlobalWaiters
  BY <1>1 DEF GlobalHolders, GlobalWaiters, HoldsGlobal, HoldsBinding
<1>3. CASE /\ HasFreeSlot(global, GlobalCapacity) /\ global' = Take(global)
           /\ pc' = [pc EXCEPT ![t] = "holdsGlobal"]
  <2>1. /\ pc' \in [Turn -> PCs]
        /\ GlobalHolders' = GlobalHolders \cup {t}
        /\ GlobalWaiters' = GlobalWaiters
        /\ \A b \in Binding : /\ BindingHolders(b)' = BindingHolders(b)
                              /\ BindingWaiters(b)' = BindingWaiters(b)
    BY <1>1, <1>3
    DEF GlobalHolders, GlobalWaiters, BindingHolders, BindingWaiters,
        HoldsGlobal, HoldsBinding, PCs
  <2>2. GlobalAccounts'
    BY <1>1, <1>2, <1>3, <2>1, Parameters, TakeAccounts DEF GlobalAccounts
  <2> QED
    BY <1>1, <2>1, <2>2 DEF SlotInv, LocalAccounts
<1>4. CASE /\ ~HasFreeSlot(global, GlobalCapacity) /\ global' = Wait(global, t)
           /\ pc' = [pc EXCEPT ![t] = "globalWait"]
  <2>1. /\ pc' \in [Turn -> PCs]
        /\ GlobalHolders' = GlobalHolders
        /\ GlobalWaiters' = GlobalWaiters \cup {t}
        /\ \A b \in Binding : /\ BindingHolders(b)' = BindingHolders(b)
                              /\ BindingWaiters(b)' = BindingWaiters(b)
    BY <1>1, <1>4
    DEF GlobalHolders, GlobalWaiters, BindingHolders, BindingWaiters,
        HoldsGlobal, HoldsBinding, PCs
  <2>2. GlobalAccounts'
    BY <1>1, <1>2, <1>4, <2>1, Parameters, WaitAccounts DEF GlobalAccounts
  <2> QED
    BY <1>1, <2>1, <2>2 DEF SlotInv, LocalAccounts
<1> QED
  BY <1>3, <1>4 DEF AcquireGlobal

(* acquireTurnSlots at the binding's semaphore.                            *)
LEMMA AcquireBindingSlots ==
  ASSUME SlotInv, NEW t \in Turn, AcquireBinding(t)
  PROVE  SlotInv'
<1> DEFINE b == BindingOfTurn(t)
<1>1. /\ pc \in [Turn -> PCs] /\ pc[t] = "holdsGlobal" /\ global' = global
      /\ GlobalAccounts /\ LocalAccounts /\ b \in Binding /\ DOMAIN local = Binding
      /\ Accounts(local[b], Turn, BindingCapacity[b],
                  BindingHolders(b), BindingWaiters(b))
      /\ BindingCapacity[b] \in Nat
  BY Parameters DEF SlotInv, AcquireBinding, LocalAccounts
<1>2. t \notin BindingHolders(b) /\ t \notin BindingWaiters(b)
  BY <1>1 DEF BindingHolders, BindingWaiters, HoldsBinding
<1>3. CASE /\ HasFreeSlot(local[b], BindingCapacity[b])
           /\ local' = [local EXCEPT ![b] = Take(@)]
           /\ pc' = [pc EXCEPT ![t] = "granted"]
  <2>1. /\ pc' \in [Turn -> PCs]
        /\ GlobalHolders' = GlobalHolders /\ GlobalWaiters' = GlobalWaiters
        /\ BindingHolders(b)' = BindingHolders(b) \cup {t}
        /\ \A c \in Binding : c # b => BindingHolders(c)' = BindingHolders(c)
        /\ \A c \in Binding : BindingWaiters(c)' = BindingWaiters(c)
    BY <1>1, <1>3
    DEF GlobalHolders, GlobalWaiters, BindingHolders, BindingWaiters,
        HoldsGlobal, HoldsBinding, PCs
  <2>2. Accounts(local'[b], Turn, BindingCapacity[b],
                 BindingHolders(b)', BindingWaiters(b)')
    BY <1>1, <1>2, <1>3, <2>1, TakeAccounts
  <2>3. LocalAccounts'
    BY <1>1, <1>3, <2>1, <2>2 DEF LocalAccounts
  <2> QED
    BY <1>1, <2>1, <2>3 DEF SlotInv, GlobalAccounts
<1>4. CASE /\ ~HasFreeSlot(local[b], BindingCapacity[b])
           /\ local' = [local EXCEPT ![b] = Wait(@, t)]
           /\ pc' = [pc EXCEPT ![t] = "bindingWait"]
  <2>1. /\ pc' \in [Turn -> PCs]
        /\ GlobalHolders' = GlobalHolders /\ GlobalWaiters' = GlobalWaiters
        /\ BindingWaiters(b)' = BindingWaiters(b) \cup {t}
        /\ \A c \in Binding : c # b => BindingWaiters(c)' = BindingWaiters(c)
        /\ \A c \in Binding : BindingHolders(c)' = BindingHolders(c)
    BY <1>1, <1>4
    DEF GlobalHolders, GlobalWaiters, BindingHolders, BindingWaiters,
        HoldsGlobal, HoldsBinding, PCs
  <2>2. Accounts(local'[b], Turn, BindingCapacity[b],
                 BindingHolders(b)', BindingWaiters(b)')
    BY <1>1, <1>2, <1>4, <2>1, WaitAccounts
  <2>3. LocalAccounts'
    BY <1>1, <1>4, <2>1, <2>2 DEF LocalAccounts
  <2> QED
    BY <1>1, <2>1, <2>3 DEF SlotInv, GlobalAccounts
<1> QED
  BY <1>3, <1>4 DEF AcquireBinding

(* The slot timer fires at the Host-wide semaphore.                        *)
LEMMA GlobalWaitTimeoutSlots ==
  ASSUME SlotInv, NEW t \in Turn, GlobalWaitTimeout(t)
  PROVE  SlotInv'
<1>1. /\ pc \in [Turn -> PCs] /\ t \in GlobalWaiters
      /\ global' = Abandon(global, t) /\ local' = local
      /\ pc' = [pc EXCEPT ![t] = "settled"]
      /\ GlobalAccounts /\ LocalAccounts
  BY DEF SlotInv, GlobalWaitTimeout, GlobalWaiters
<1>2. /\ pc' \in [Turn -> PCs]
      /\ GlobalHolders' = GlobalHolders
      /\ GlobalWaiters' = GlobalWaiters \ {t}
      /\ \A b \in Binding : /\ BindingHolders(b)' = BindingHolders(b)
                            /\ BindingWaiters(b)' = BindingWaiters(b)
  BY <1>1 DEF GlobalHolders, GlobalWaiters, BindingHolders, BindingWaiters,
              HoldsGlobal, HoldsBinding, PCs
<1>3. GlobalAccounts'
  BY <1>1, <1>2, Parameters, AbandonAccounts DEF GlobalAccounts
<1> QED
  BY <1>1, <1>2, <1>3 DEF SlotInv, LocalAccounts

(* The slot timer fires at the binding's semaphore.                        *)
LEMMA BindingWaitTimeoutSlots ==
  ASSUME SlotInv, NEW t \in Turn, BindingWaitTimeout(t)
  PROVE  SlotInv'
<1> DEFINE b == BindingOfTurn(t)
<1>1. /\ pc \in [Turn -> PCs] /\ b \in Binding /\ DOMAIN local = Binding
      /\ t \in BindingWaiters(b) /\ t \in GlobalHolders
      /\ local' = [local EXCEPT ![b] = Abandon(@, t)]
      /\ global' = Release(global)
      /\ GlobalAccounts /\ LocalAccounts
      /\ Accounts(local[b], Turn, BindingCapacity[b],
                  BindingHolders(b), BindingWaiters(b))
      /\ BindingCapacity[b] \in Nat
  BY Parameters
  DEF SlotInv, BindingWaitTimeout, BindingWaiters, GlobalHolders, HoldsGlobal,
      LocalAccounts
<1>2. pc' = [u \in Turn |->
               CASE u = t -> "settled"
                 [] u # t /\ u \in NextServed(global) -> "holdsGlobal"
                 [] OTHER -> pc[u]]
  BY DEF BindingWaitTimeout
<1>3. /\ NextServed(global) \subseteq GlobalWaiters
      /\ Accounts(Release(global), Turn, GlobalCapacity,
                  (GlobalHolders \ {t}) \cup NextServed(global),
                  GlobalWaiters \ NextServed(global))
  BY <1>1, Disjoint, Parameters, ReleaseAccounts DEF GlobalAccounts
<1>4. /\ t \notin NextServed(global)
      /\ \A u \in NextServed(global) : u \in Turn /\ pc[u] = "globalWait"
  BY <1>1, <1>3 DEF GlobalWaiters, BindingWaiters
<1>5. /\ pc' \in [Turn -> PCs]
      /\ pc'[t] = "settled"
      /\ \A u \in NextServed(global) : pc'[u] = "holdsGlobal"
      /\ \A u \in Turn : u # t /\ u \notin NextServed(global) => pc'[u] = pc[u]
  BY <1>1, <1>2, <1>4 DEF PCs, HoldsGlobal, HoldsBinding
<1>6. /\ GlobalHolders' = (GlobalHolders \ {t}) \cup NextServed(global)
      /\ GlobalWaiters' = GlobalWaiters \ NextServed(global)
  BY <1>1, <1>4, <1>5
  DEF GlobalHolders, GlobalWaiters, BindingWaiters, HoldsGlobal, HoldsBinding
<1>7. /\ \A c \in Binding : BindingHolders(c)' = BindingHolders(c)
      /\ BindingWaiters(b)' = BindingWaiters(b) \ {t}
      /\ \A c \in Binding : c # b => BindingWaiters(c)' = BindingWaiters(c)
  BY <1>1, <1>4, <1>5 DEF BindingHolders, BindingWaiters, HoldsBinding
<1>8. GlobalAccounts'
  BY <1>1, <1>3, <1>6 DEF GlobalAccounts
<1>9. Accounts(local'[b], Turn, BindingCapacity[b],
               BindingHolders(b)', BindingWaiters(b)')
  BY <1>1, <1>7, AbandonAccounts
<1>10. LocalAccounts'
  BY <1>1, <1>7, <1>9 DEF LocalAccounts
<1> QED
  BY <1>5, <1>8, <1>10 DEF SlotInv

(* The finally block gives both slots back and may serve two waiters.      *)
LEMMA UnwindSlots ==
  ASSUME SlotInv, NEW t \in Turn, Unwind(t)
  PROVE  SlotInv'
<1> DEFINE b == BindingOfTurn(t)
           L == NextServed(local[b])
           G == NextServed(global)
<1>1. /\ pc \in [Turn -> PCs] /\ b \in Binding /\ DOMAIN local = Binding
      /\ t \in BindingHolders(b) /\ t \in GlobalHolders /\ pc[t] = "unwinding"
      /\ local' = [local EXCEPT ![b] = Release(@)]
      /\ global' = Release(global)
      /\ GlobalAccounts /\ LocalAccounts
      /\ Accounts(local[b], Turn, BindingCapacity[b],
                  BindingHolders(b), BindingWaiters(b))
      /\ BindingCapacity[b] \in Nat
  BY Parameters
  DEF SlotInv, Unwind, BindingHolders, GlobalHolders, HoldsGlobal,
      HoldsBinding, LocalAccounts
<1>2. pc' = [u \in Turn |->
               CASE u = t -> "settled"
                 [] u # t /\ u \in L -> "granted"
                 [] u # t /\ u \notin L /\ u \in G -> "holdsGlobal"
                 [] OTHER -> pc[u]]
  BY DEF Unwind
<1>3. /\ G \subseteq GlobalWaiters
      /\ Accounts(Release(global), Turn, GlobalCapacity,
                  (GlobalHolders \ {t}) \cup G, GlobalWaiters \ G)
  BY <1>1, Disjoint, Parameters, ReleaseAccounts DEF GlobalAccounts
<1>4. /\ L \subseteq BindingWaiters(b)
      /\ Accounts(Release(local[b]), Turn, BindingCapacity[b],
                  (BindingHolders(b) \ {t}) \cup L, BindingWaiters(b) \ L)
  BY <1>1, Disjoint, ReleaseAccounts
<1>5. /\ \A u \in G : u \in Turn /\ pc[u] = "globalWait" /\ u \notin L
      /\ \A u \in L : /\ u \in Turn /\ pc[u] = "bindingWait"
                      /\ BindingOfTurn(u) = b /\ u \notin G
      /\ t \notin L /\ t \notin G
  BY <1>1, <1>3, <1>4 DEF GlobalWaiters, BindingWaiters
<1> HIDE DEF L, G
<1>6. /\ pc' \in [Turn -> PCs]
      /\ pc'[t] = "settled"
      /\ \A u \in G : pc'[u] = "holdsGlobal"
      /\ \A u \in L : pc'[u] = "granted"
      /\ \A u \in Turn : u # t /\ u \notin G /\ u \notin L => pc'[u] = pc[u]
  BY <1>1, <1>2, <1>5 DEF PCs, HoldsGlobal, HoldsBinding
<1>7. /\ GlobalHolders' = (GlobalHolders \ {t}) \cup G
      /\ GlobalWaiters' = GlobalWaiters \ G
  BY <1>1, <1>5, <1>6
  DEF GlobalHolders, GlobalWaiters, HoldsGlobal, HoldsBinding
<1>8. /\ BindingHolders(b)' = (BindingHolders(b) \ {t}) \cup L
      /\ BindingWaiters(b)' = BindingWaiters(b) \ L
      /\ \A c \in Binding : c # b =>
           /\ BindingHolders(c)' = BindingHolders(c)
           /\ BindingWaiters(c)' = BindingWaiters(c)
  BY <1>1, <1>5, <1>6 DEF BindingHolders, BindingWaiters, HoldsBinding
<1>9. GlobalAccounts'
  BY <1>1, <1>3, <1>7 DEF GlobalAccounts
<1>10. Accounts(local'[b], Turn, BindingCapacity[b],
                BindingHolders(b)', BindingWaiters(b)')
  BY <1>1, <1>4, <1>8
<1>11. LocalAccounts'
  BY <1>1, <1>8, <1>10 DEF LocalAccounts
<1> QED
  BY <1>6, <1>9, <1>11 DEF SlotInv

(* Every step keeps the slot invariant.                                    *)
LEMMA NextSlotInv == SlotInv /\ [Next]_vars => SlotInv'
<1> SUFFICES ASSUME SlotInv, [Next]_vars
             PROVE  SlotInv'
  OBVIOUS
<1>1. ASSUME NEW t \in Turn,
             \/ Enqueue(t) \/ Refuse(t) \/ ExpireQueued(t) \/ EnterHandler(t)
             \/ HandlerReturns(t) \/ TurnDeadline(t)
             \/ StartReset(t) \/ FinishReset(t)
      PROVE  SlotInv'
  BY <1>1, SameSlots
  DEF Enqueue, Refuse, ExpireQueued, EnterHandler, HandlerReturns, TurnDeadline,
      StartReset, FinishReset, NextUp, SlotInv, PCs, HoldsGlobal, HoldsBinding
<1>2. ASSUME NEW b \in Binding,
             Start(b) \/ Stop(b) \/ Drained(b) \/ DrainTimeout(b) \/ StopReturns(b)
      PROVE  SlotInv'
  BY <1>2, SameSlots
  DEF Start, Stop, Drained, DrainTimeout, StopReturns, SlotInv, PCs,
      HoldsGlobal, HoldsBinding
<1>3. CASE UNCHANGED vars
  BY <1>3, SameSlots DEF vars, SlotInv
<1> QED
  BY <1>1, <1>2, <1>3, AcquireGlobalSlots, AcquireBindingSlots,
     GlobalWaitTimeoutSlots, BindingWaitTimeoutSlots, UnwindSlots
  DEF Next, TurnStep, StopStep

(* Every reachable state satisfies the slot invariant.                     *)
LEMMA SpecSlotInv == Spec => []SlotInv
  BY InitSlotInv, NextSlotInv, PTL DEF Spec

(* No path through timeouts, aborts and hand-overs leaks or doubles a      *)
(* Host-wide or a binding's slot.                                          *)
THEOREM SlotsAreAccounted == Spec => []SlotsAccounted
<1>1. SlotInv => SlotsAccounted
  BY DEF SlotInv, GlobalAccounts, LocalAccounts, Accounts, SlotsAccounted
<1> QED
  BY <1>1, SpecSlotInv, PTL

(* Nobody waits while a slot is free, and exactly the waiting turns are    *)
(* listed.                                                                 *)
THEOREM NoGrantIsLost == Spec => []NoLostGrant
<1>1. SlotInv => NoLostGrant
  BY DEF SlotInv, GlobalAccounts, LocalAccounts, Accounts, NoLostGrant,
         GlobalWaiters, BindingWaiters
<1> QED
  BY <1>1, SpecSlotInv, PTL

-----------------------------------------------------------------------------
(* Queues and stop().  A task that left the front of its queue's waiting   *)
(* part is the head of the queue until it settles; so a queue that is      *)
(* empty has nothing that runs, which is what the drain of stop() relies on*)
Underway == HoldsGlobal \cup {"globalWait", "resetting"}

Listed(t) ==
  /\ pc[t] = "queued" => \E i \in 1 .. Len(QueueOf(t)) : QueueOf(t)[i] = t
  /\ pc[t] \in Underway => QueueOf(t) # <<>> /\ Head(QueueOf(t)) = t

QueueInv ==
  /\ queue \in [Conversation -> Seq(Turn)]
  /\ \A c \in Conversation : Len(queue[c]) <= MaxPending[BindingOf[c]]
  /\ \A t \in Turn : Listed(t)

(* A binding that is not running accepts nothing, and has aborted its      *)
(* handlers, or found none, by the time its drain is over.                 *)
StopInv ==
  /\ handler \in [Turn -> BOOLEAN]
  /\ accepting \in [Binding -> BOOLEAN]
  /\ phase \in [Binding -> Phases]
  /\ \A b \in Binding : phase[b] # "running" => ~accepting[b]
  /\ \A t \in Turn : phase[BindingOfTurn(t)] \in {"stopped", "finishing"} =>
       pc[t] # "handling"

PipelineInv == SlotInv /\ QueueInv /\ StopInv

LEMMA InitPipelineInv == Init => PipelineInv
<1> SUFFICES ASSUME Init PROVE PipelineInv
  OBVIOUS
<1>1. QueueInv
  <2>1. \A c \in Conversation : MaxPending[BindingOf[c]] \in Nat
    BY PipelineAssumption
  <2>2. \A t \in Turn : Listed(t)
    BY DEF Init, Listed, Underway, HoldsGlobal, HoldsBinding
  <2>3. queue \in [Conversation -> Seq(Turn)] /\ \A c \in Conversation : Len(queue[c]) = 0
    BY DEF Init
  <2> QED
    BY <2>1, <2>2, <2>3 DEF QueueInv
<1>2. StopInv
  BY PipelineAssumption DEF Init, StopInv, Phases, BindingOfTurn
<1> QED
  BY <1>1, <1>2, InitSlotInv DEF PipelineInv

(* The queues stay, and a task gets under way only from their front.       *)
LEMMA QueuesUnmoved ==
  ASSUME QueueInv, queue' = queue,
         \A t \in Turn : /\ pc'[t] = "queued" => pc[t] = "queued"
                         /\ pc'[t] \in Underway => pc[t] \in Underway \/ NextUp(t)
  PROVE  QueueInv'
<1>1. ASSUME NEW t \in Turn PROVE Listed(t)'
  <2>1. Listed(t) /\ QueueOf(t) \in Seq(Turn) /\ QueueOf(t)' = QueueOf(t)
    BY PipelineAssumption DEF QueueInv, QueueOf
  <2>2. NextUp(t) => QueueOf(t) # <<>> /\ Head(QueueOf(t)) = t
    BY <2>1 DEF NextUp, Listed
  <2> QED
    BY <2>1, <2>2 DEF Listed
<1> QED
  BY <1>1 DEF QueueInv

(* The head of a queue settles and leaves it.                              *)
LEMMA HeadSettles ==
  ASSUME QueueInv, NEW t \in Turn, NextUp(t) \/ pc[t] \in Underway,
         Dequeue(t), pc'[t] = "settled",
         \A u \in Turn : u # t =>
           \/ pc'[u] = pc[u]
           \/ pc[u] \in Underway /\ pc'[u] \in Underway
  PROVE  QueueInv'
<1> DEFINE c == ConversationOf[t]
<1>1. /\ c \in Conversation /\ queue \in [Conversation -> Seq(Turn)]
      /\ queue' = [queue EXCEPT ![c] = Tail(queue[c])]
      /\ queue[c] = QueueOf(t)
  BY PipelineAssumption DEF QueueInv, Dequeue, QueueOf
<1>2. queue[c] # <<>> /\ Head(queue[c]) = t
  BY <1>1 DEF QueueInv, Listed, NextUp
<1>3. /\ queue[c] \in Seq(Turn) /\ Tail(queue[c]) \in Seq(Turn)
      /\ Len(Tail(queue[c])) = Len(queue[c]) - 1
      /\ \A i \in 1 .. Len(queue[c]) - 1 : Tail(queue[c])[i] = queue[c][i + 1]
      /\ queue[c][1] = t /\ Len(queue[c]) \in Nat \ {0}
  BY <1>1, <1>2
<1>4. queue' \in [Conversation -> Seq(Turn)]
  BY <1>1, <1>3
<1>5. \A d \in Conversation : Len(queue'[d]) <= MaxPending[BindingOf[d]]
  <2>1. ASSUME NEW d \in Conversation
        PROVE  Len(queue'[d]) <= MaxPending[BindingOf[d]]
    <3>1. Len(queue[d]) <= MaxPending[BindingOf[d]] /\ MaxPending[BindingOf[d]] \in Nat
      BY PipelineAssumption DEF QueueInv
    <3>2. CASE d = c
      BY <1>1, <1>3, <3>1, <3>2
    <3>3. CASE d # c
      BY <1>1, <3>1, <3>3
    <3> QED
      BY <3>2, <3>3
  <2> QED
    BY <2>1
<1>6. ASSUME NEW u \in Turn PROVE Listed(u)'
  <2>1. Listed(u)
    BY DEF QueueInv
  <2>2. CASE u = t
    BY <2>2 DEF Listed, Underway, HoldsGlobal, HoldsBinding
  <2>3. CASE u # t /\ ConversationOf[u] # c
    <3>1. QueueOf(u)' = QueueOf(u)
      BY <1>1, <2>3, PipelineAssumption DEF QueueOf
    <3> QED
      BY <2>1, <2>3, <3>1
      DEF Listed, Underway, HoldsGlobal, HoldsBinding
  <2>4. CASE u # t /\ ConversationOf[u] = c
    <3>1. QueueOf(u) = queue[c] /\ QueueOf(u)' = Tail(queue[c])
      BY <1>1, <2>4 DEF QueueOf
    <3>2. pc[u] \notin Underway
      BY <1>2, <2>1, <2>4, <3>1 DEF Listed
    <3>3. pc'[u] = pc[u]
      BY <2>4, <3>2
    <3>4. ASSUME pc[u] = "queued"
          PROVE  \E i \in 1 .. Len(Tail(queue[c])) : Tail(queue[c])[i] = u
      <4>1. PICK i \in 1 .. Len(queue[c]) : queue[c][i] = u
        BY <2>1, <3>1, <3>4 DEF Listed
      <4>2. i # 1
        BY <1>3, <2>4, <4>1
      <4>3. i - 1 \in 1 .. Len(Tail(queue[c])) /\ Tail(queue[c])[i - 1] = u
        BY <1>3, <4>1, <4>2
      <4> QED
        BY <4>3
    <3> QED
      BY <3>1, <3>2, <3>3, <3>4 DEF Listed
  <2> QED
    BY <2>2, <2>3, <2>4
<1> QED
  BY <1>4, <1>5, <1>6 DEF QueueInv

(* A task is appended to a queue that is not full.                         *)
LEMMA TaskQueued ==
  ASSUME QueueInv, NEW t \in Turn, pc \in [Turn -> PCs], Enqueue(t)
  PROVE  QueueInv'
<1> DEFINE c == ConversationOf[t]
<1>1. /\ c \in Conversation /\ queue \in [Conversation -> Seq(Turn)]
      /\ queue' = [queue EXCEPT ![c] = Append(queue[c], t)]
      /\ pc' = [pc EXCEPT ![t] = "queued"] /\ pc[t] = "idle"
      /\ Len(queue[c]) < MaxPending[BindingOf[c]] /\ MaxPending[BindingOf[c]] \in Nat
  BY PipelineAssumption DEF QueueInv, Enqueue, Admitted, QueueOf, BindingOfTurn
<1>2. /\ queue[c] \in Seq(Turn) /\ Append(queue[c], t) \in Seq(Turn)
      /\ Len(Append(queue[c], t)) = Len(queue[c]) + 1 /\ Len(queue[c]) \in Nat
      /\ \A i \in 1 .. Len(queue[c]) : Append(queue[c], t)[i] = queue[c][i]
      /\ Append(queue[c], t)[Len(queue[c]) + 1] = t
  BY <1>1
<1>3. queue' \in [Conversation -> Seq(Turn)]
  BY <1>1, <1>2
<1>4. \A d \in Conversation : Len(queue'[d]) <= MaxPending[BindingOf[d]]
  <2>1. ASSUME NEW d \in Conversation
        PROVE  Len(queue'[d]) <= MaxPending[BindingOf[d]]
    <3>1. CASE d = c
      BY <1>1, <1>2, <3>1
    <3>2. CASE d # c
      BY <1>1, <3>2 DEF QueueInv
    <3> QED
      BY <3>1, <3>2
  <2> QED
    BY <2>1
<1>5. ASSUME NEW u \in Turn PROVE Listed(u)'
  <2>1. Listed(u) /\ ConversationOf[u] \in Conversation
    BY PipelineAssumption DEF QueueInv
  <2>2. CASE u = t
    <3>1. QueueOf(u)' = Append(queue[c], t) /\ pc'[u] = "queued"
      BY <1>1, <2>2 DEF QueueOf
    <3> QED
      BY <1>2, <2>2, <3>1 DEF Listed, Underway, HoldsGlobal, HoldsBinding
  <2>3. CASE u # t /\ ConversationOf[u] # c
    <3>1. QueueOf(u)' = QueueOf(u) /\ pc'[u] = pc[u]
      BY <1>1, <2>1, <2>3 DEF QueueOf
    <3> QED
      BY <2>1, <3>1 DEF Listed
  <2>4. CASE u # t /\ ConversationOf[u] = c
    <3>1. QueueOf(u) = queue[c] /\ QueueOf(u)' = Append(queue[c], t) /\ pc'[u] = pc[u]
      BY <1>1, <2>4 DEF QueueOf
    <3>2. queue[c] # <<>> => Head(Append(queue[c], t)) = Head(queue[c])
                              /\ Append(queue[c], t) # <<>>
      BY <1>2
    <3>3. pc[u] = "queued" => \E i \in 1 .. Len(Append(queue[c], t)) :
                                Append(queue[c], t)[i] = u
      BY <1>2, <2>1, <3>1 DEF Listed
    <3> QED
      BY <2>1, <3>1, <3>2, <3>3 DEF Listed
  <2> QED
    BY <2>2, <2>3, <2>4
<1> QED
  BY <1>3, <1>4, <1>5 DEF QueueInv

(* Whom a release serves waits for that semaphore.                         *)
LEMMA ServedWait ==
  ASSUME SlotInv
  PROVE  /\ NextServed(global) \subseteq GlobalWaiters
         /\ \A b \in Binding : NextServed(local[b]) \subseteq BindingWaiters(b)
<1>1. ASSUME NEW s, NEW W, NEW capacity, NEW H, Accounts(s, Turn, capacity, H, W)
      PROVE  NextServed(s) \subseteq W
  <2>1. s.waiters \in Seq(Turn) /\ Waiting(s) = W
    BY <1>1 DEF Accounts, Semaphores
  <2>2. s.waiters # <<>> => Head(s.waiters) \in Waiting(s)
    BY <2>1 DEF Waiting
  <2> QED
    BY <2>1, <2>2 DEF NextServed
<1> QED
  BY <1>1 DEF SlotInv, GlobalAccounts, LocalAccounts

LEMMA NextQueueInv ==
  ASSUME PipelineInv, [Next]_vars
  PROVE  QueueInv'
<1> USE DEF PipelineInv
<1>0. pc \in [Turn -> PCs]
  BY DEF SlotInv
<1>1. ASSUME NEW t \in Turn, Enqueue(t) PROVE QueueInv'
  BY <1>0, <1>1, TaskQueued
<1>2. ASSUME NEW t \in Turn,
             \/ Refuse(t) \/ AcquireGlobal(t) \/ AcquireBinding(t) \/ EnterHandler(t)
             \/ HandlerReturns(t) \/ TurnDeadline(t) \/ StartReset(t)
      PROVE  QueueInv'
  BY <1>0, <1>2, QueuesUnmoved
  DEF Refuse, AcquireGlobal, AcquireBinding, EnterHandler, HandlerReturns,
      TurnDeadline, StartReset, Underway, HoldsGlobal, HoldsBinding
<1>3. ASSUME NEW t \in Turn, ExpireQueued(t) \/ GlobalWaitTimeout(t) \/ FinishReset(t)
      PROVE  QueueInv'
  BY <1>0, <1>3, HeadSettles
  DEF ExpireQueued, GlobalWaitTimeout, FinishReset, Underway
<1>4. ASSUME NEW t \in Turn, BindingWaitTimeout(t) PROVE QueueInv'
  <2>1. \A u \in NextServed(global) : pc[u] = "globalWait"
    BY ServedWait DEF GlobalWaiters
  <2> QED
    BY <1>0, <1>4, <2>1, HeadSettles
    DEF BindingWaitTimeout, Underway, HoldsGlobal, HoldsBinding
<1>5. ASSUME NEW t \in Turn, Unwind(t) PROVE QueueInv'
  <2>1. BindingOfTurn(t) \in Binding
    BY Parameters
  <2>2. /\ \A u \in NextServed(global) : pc[u] = "globalWait"
        /\ \A u \in NextServed(local[BindingOfTurn(t)]) : pc[u] = "bindingWait"
    BY <2>1, ServedWait DEF GlobalWaiters, BindingWaiters
  <2> QED
    BY <1>0, <1>5, <2>2, HeadSettles
    DEF Unwind, Underway, HoldsGlobal, HoldsBinding
<1>6. ASSUME NEW b \in Binding,
             Start(b) \/ Stop(b) \/ Drained(b) \/ DrainTimeout(b) \/ StopReturns(b)
      PROVE  QueueInv'
  BY <1>0, <1>6, QueuesUnmoved
  DEF Start, Stop, Drained, DrainTimeout, StopReturns, Underway, HoldsGlobal,
      HoldsBinding
<1>7. CASE UNCHANGED vars
  BY <1>7, QueuesUnmoved DEF vars
<1> QED
  BY <1>1, <1>2, <1>3, <1>4, <1>5, <1>6, <1>7 DEF Next, TurnStep, StopStep

LEMMA NextStopInv ==
  ASSUME PipelineInv, [Next]_vars
  PROVE  StopInv'
<1> USE Parameters DEF PipelineInv
<1>0. pc \in [Turn -> PCs]
  BY DEF SlotInv
<1>1. ASSUME NEW t \in Turn,
             \/ Enqueue(t) \/ Refuse(t) \/ HandlerReturns(t) \/ ExpireQueued(t)
             \/ AcquireGlobal(t) \/ AcquireBinding(t) \/ GlobalWaitTimeout(t)
             \/ TurnDeadline(t) \/ StartReset(t) \/ FinishReset(t)
      PROVE  StopInv'
  BY <1>0, <1>1
  DEF Enqueue, Refuse, HandlerReturns, ExpireQueued, AcquireGlobal,
      AcquireBinding, GlobalWaitTimeout, TurnDeadline, StartReset, FinishReset,
      StopInv
<1>2. ASSUME NEW t \in Turn, BindingWaitTimeout(t) \/ Unwind(t) PROVE StopInv'
  BY <1>0, <1>2 DEF BindingWaitTimeout, Unwind, StopInv
<1>3. ASSUME NEW t \in Turn, EnterHandler(t) PROVE StopInv'
  BY <1>0, <1>3 DEF EnterHandler, StopInv
<1>4. ASSUME NEW b \in Binding, Start(b) \/ Stop(b) \/ StopReturns(b)
      PROVE  StopInv'
  BY <1>0, <1>4 DEF Start, Stop, StopReturns, StopInv, Phases
<1>5. ASSUME NEW b \in Binding, Drained(b) PROVE StopInv'
  <2>1. ASSUME NEW t \in Turn, BindingOfTurn(t) = b PROVE pc[t] # "handling"
    <3>1. QueueOf(t) = <<>>
      BY <1>5, <2>1, PipelineAssumption DEF Drained, QueuesIdle, QueueOf, BindingOfTurn
    <3> QED
      BY <3>1 DEF QueueInv, Listed, Underway, HoldsGlobal, HoldsBinding
  <2> QED
    BY <1>5, <2>1 DEF Drained, StopInv, Phases
<1>6. ASSUME NEW b \in Binding, DrainTimeout(b) PROVE StopInv'
  BY <1>0, <1>6 DEF DrainTimeout, StopInv, Phases
<1>7. CASE UNCHANGED vars
  BY <1>7 DEF vars, StopInv, BindingOfTurn
<1> QED
  BY <1>1, <1>2, <1>3, <1>4, <1>5, <1>6, <1>7 DEF Next, TurnStep, StopStep

LEMMA SpecPipelineInv == Spec => []PipelineInv
<1>1. PipelineInv /\ [Next]_vars => PipelineInv'
  BY NextSlotInv, NextQueueInv, NextStopInv DEF PipelineInv
<1> QED
  BY <1>1, InitPipelineInv, PTL DEF Spec

(* The types; a queue never exceeds the limit of its binding.              *)
THEOREM TypeCorrect == Spec => []TypeOK
<1>1. PipelineInv => TypeOK
  BY DEF PipelineInv, SlotInv, GlobalAccounts, LocalAccounts, Accounts, QueueInv,
         StopInv, TypeOK
<1> QED
  BY <1>1, SpecPipelineInv, PTL

(* Once stop() has returned no turn of the binding runs with a live signal:*)
(* the drain found its queues empty, or its timeout aborted what ran, and  *)
(* what came to its handler afterwards found acceptingMessages false.      *)
THEOREM StoppedBindingIsQuiet == Spec => []NoHandlerOutlivesStop
<1>1. PipelineInv => NoHandlerOutlivesStop
  BY DEF PipelineInv, StopInv, NoHandlerOutlivesStop
<1> QED
  BY <1>1, SpecPipelineInv, PTL

-----------------------------------------------------------------------------
(* The files of the conversation.                                          *)
(* The users of the lock stand in a line: the first one holds it, each     *)
(* other one waits for the one before it, and the map has the last one.    *)
Line(q) ==
  /\ users = {q[i] : i \in 1 .. Len(q)}
  /\ \A i, k \in 1 .. Len(q) : q[i] = q[k] => i = k
  /\ \A i \in 1 .. Len(q) : ahead[q[i]] = IF i = 1 THEN None ELSE q[i - 1]
  /\ tail = IF q = <<>> THEN None ELSE q[Len(q)]

LineFits == \E q \in Seq(Job) : Line(q)

(* Whoever is in persist() uses the lock, and holds it from its            *)
(* measurement on.                                                         *)
WritersLocked ==
  \A j \in Job :
    /\ j \in users <=> job[j].at \in Locking
    /\ job[j].at \in {"checked", "written"} => ahead[j] = None

(* What was measured is still so, the temporary file apart.                *)
FitsNow(item) ==
  FitsIn(item, BytesOf(files) + debris.bytes, Cardinality(Existing) + debris.count)

Measured ==
  \A j \in Job : job[j].at \in {"checked", "written"} => FitsNow(Item(j))

(* A job is at one of its items, names what is there, and has taken no     *)
(* more than its turn may.                                                 *)
AtAnItem(j, w) ==
  w.at \in {"download"} \cup Locking => w.item \in 1 .. Len(Items[j])

JobsFit ==
  \A j \in Job : /\ AtAnItem(j, job[j])
                 /\ job[j].paths \subseteq Existing
                 /\ job[j].total <= MaxTurnBytes

WorkspaceInv ==
  WorkspaceTypeOK /\ LineFits /\ WritersLocked /\ Measured /\ JobsFit

LEMMA ItemsTyped ==
  ASSUME NEW j \in Job
  PROVE  /\ Len(Items[j]) \in Nat /\ Taken(j) \in Nat /\ Taken(j) <= Len(Items[j])
         /\ j \in Calls => Len(Items[j]) = 1
         /\ \A i \in 1 .. Len(Items[j]) :
              Items[j][i] \in [path : Path, size : Nat, kept : BOOLEAN]
<1>. DEFINE R == [path : Path, size : Nat, kept : BOOLEAN]
<1>1. Items[j] \in Seq(R)
  BY WorkspaceAssumption
<1>2. MaxItems \in Nat /\ (j \in Calls => Len(Items[j]) = 1)
  BY WorkspaceAssumption
<1>. HIDE DEF R
<1>3. Len(Items[j]) \in Nat /\ \A i \in 1 .. Len(Items[j]) : Items[j][i] \in R
  BY <1>1
<1>. QED  BY <1>2, <1>3 DEF Taken, R

(* The next item, or the end.                                              *)
LEMMA AfterAnItem ==
  ASSUME NEW j \in Job, NEW w \in JobStates
  PROVE  /\ After(j, w) \in JobStates
         /\ After(j, w).at \in {"done", "download"} /\ AtAnItem(j, After(j, w))
         /\ After(j, w).paths = w.paths /\ After(j, w).total = w.total
<1>1. CASE j \in Calls \/ w.item >= Taken(j)
  <2>1. After(j, w) = [w EXCEPT !.at = "done"]
    BY <1>1 DEF After
  <2>. QED  BY <2>1 DEF JobStates, Stages, AtAnItem, Locking
<1>2. CASE ~(j \in Calls \/ w.item >= Taken(j))
  <2>1. After(j, w) = [w EXCEPT !.at = "download", !.item = @ + 1]
    BY <1>2 DEF After
  <2>2. w.item \in Nat /\ w.item + 1 \in 1 .. Len(Items[j]) /\ w.item + 1 \in Nat
    BY <1>2, ItemsTyped DEF JobStates
  <2>3. /\ After(j, w).at = "download" /\ After(j, w).item = w.item + 1
        /\ After(j, w).paths = w.paths /\ After(j, w).total = w.total
        /\ After(j, w) \in JobStates
    BY <2>1, <2>2 DEF JobStates, Stages
  <2>. QED  BY <2>2, <2>3 DEF AtAnItem
<1>. QED  BY <1>1, <1>2

(* Whoever comes goes to the end of the line.                              *)
LEMMA Entered ==
  ASSUME WorkspaceInv, NEW j \in Job, j \notin users, Enter(j)
  PROVE  /\ LineFits' /\ users' = users \cup {j}
         /\ \A k \in Job : k # j => ahead'[k] = ahead[k]
         /\ tail' \in Job /\ users' \subseteq Job /\ ahead' \in [Job -> Job \cup {None}]
<1>1. PICK q \in Seq(Job) : Line(q)
  BY DEF WorkspaceInv, LineFits
<1>. DEFINE r == Append(q, j)
<1>2. /\ r \in Seq(Job) /\ Len(q) \in Nat /\ Len(r) = Len(q) + 1 /\ r # <<>>
      /\ \A i \in 1 .. Len(q) : r[i] = q[i] /\ r[i] \in Job
      /\ r[Len(r)] = j
      /\ q # <<>> <=> Len(q) # 0
  OBVIOUS
<1>3. /\ users' = users \cup {j} /\ tail' = j
      /\ ahead' = [ahead EXCEPT ![j] = tail]
      /\ tail \in Job \cup {None} /\ users \subseteq Job
      /\ ahead \in [Job -> Job \cup {None}]
  BY DEF Enter, WorkspaceInv, WorkspaceTypeOK
<1>4. \A i \in 1 .. Len(q) : q[i] \in users /\ q[i] # j
  BY <1>1 DEF Line
<1>. HIDE DEF r
<1>5. users' = {r[i] : i \in 1 .. Len(r)}
  <2>1. ASSUME NEW x \in users'  PROVE \E i \in 1 .. Len(r) : r[i] = x
    <3>1. CASE x = j
      BY <1>2, <3>1
    <3>2. CASE x \in users
      <4>1. PICK i \in 1 .. Len(q) : q[i] = x
        BY <1>1, <3>2 DEF Line
      <4>. QED  BY <1>2, <4>1
    <3>. QED  BY <1>3, <2>1, <3>1, <3>2
  <2>2. ASSUME NEW i \in 1 .. Len(r)  PROVE r[i] \in users'
    BY <1>2, <1>3, <1>4
  <2>. QED  BY <2>1, <2>2
<1>6. \A i, k \in 1 .. Len(r) : r[i] = r[k] => i = k
  <2>1. ASSUME NEW i \in 1 .. Len(r), NEW k \in 1 .. Len(r), r[i] = r[k]
        PROVE  i = k
    <3>1. CASE i \in 1 .. Len(q) /\ k \in 1 .. Len(q)
      BY <1>1, <1>2, <2>1, <3>1 DEF Line
    <3>2. CASE i = Len(r) \/ k = Len(r)
      BY <1>2, <1>4, <2>1, <3>2
    <3>. QED  BY <1>2, <3>1, <3>2
  <2>. QED  BY <2>1
<1>7. \A i \in 1 .. Len(r) : ahead'[r[i]] = IF i = 1 THEN None ELSE r[i - 1]
  <2>1. ASSUME NEW i \in 1 .. Len(q)
        PROVE  ahead'[r[i]] = IF i = 1 THEN None ELSE r[i - 1]
    <3>1. r[i] = q[i] /\ q[i] \in Job /\ q[i] # j
      BY <1>2, <1>4
    <3>2. i # 1 => i - 1 \in 1 .. Len(q) /\ r[i - 1] = q[i - 1]
      BY <1>2
    <3>3. ahead[q[i]] = IF i = 1 THEN None ELSE q[i - 1]
      BY <1>1 DEF Line
    <3>. QED  BY <1>3, <3>1, <3>2, <3>3
  <2>2. ahead'[r[Len(r)]] = IF Len(r) = 1 THEN None ELSE r[Len(r) - 1]
    BY <1>1, <1>2, <1>3 DEF Line
  <2>. QED  BY <1>2, <2>1, <2>2
<1>8. Line(r)'
  BY <1>2, <1>3, <1>5, <1>6, <1>7 DEF Line
<1>. QED  BY <1>2, <1>3, <1>8 DEF LineFits

(* Nobody else is at the head of the line.                                 *)
LEMMA OneHolds ==
  ASSUME WorkspaceInv, NEW j \in Job, Holds(j), NEW k \in Job, Holds(k)
  PROVE  j = k
<1>1. PICK q \in Seq(Job) : Line(q)
  BY DEF WorkspaceInv, LineFits
<1>2. \A x \in Job : Holds(x) => Len(q) >= 1 /\ x = q[1]
  <2>1. ASSUME NEW x \in Job, Holds(x)  PROVE Len(q) >= 1 /\ x = q[1]
    <3>1. PICK i \in 1 .. Len(q) : x = q[i]
      BY <1>1, <2>1 DEF Line, Holds
    <3>2. \A m \in 1 .. Len(q) : q[m] \in Job /\ q[m] # None
      BY WorkspaceAssumption
    <3>3. Len(q) \in Nat /\ i \in Int
      OBVIOUS
    <3>. QED  BY <1>1, <2>1, <3>1, <3>2, <3>3 DEF Line, Holds
  <2>. QED  BY <2>1
<1>. QED  BY <1>2

(* Whoever held the lock leaves it to the next one.                        *)
LEMMA LeftByHolder ==
  ASSUME WorkspaceInv, NEW j \in Job, Holds(j), Leave({j})
  PROVE  /\ LineFits' /\ users' = users \ {j}
         /\ tail' \in Job \cup {None} /\ users' \subseteq Job
         /\ ahead' \in [Job -> Job \cup {None}]
<1>1. PICK q \in Seq(Job) : Line(q)
  BY DEF WorkspaceInv, LineFits
<1>2. /\ users' = users \ {j}
      /\ ahead' = [k \in Job |-> IF k = j \/ ahead[k] = j THEN None ELSE ahead[k]]
      /\ tail' = IF users \ {j} = {} THEN None ELSE tail
      /\ tail \in Job \cup {None} /\ users \subseteq Job
      /\ ahead \in [Job -> Job \cup {None}]
  BY DEF Leave, WorkspaceInv, WorkspaceTypeOK
<1>3. /\ Len(q) \in Nat /\ \A m \in 1 .. Len(q) : q[m] \in Job /\ q[m] # None
      /\ j \in users /\ ahead[j] = None
  BY WorkspaceAssumption DEF Holds
<1>4. Len(q) >= 1 /\ q[1] = j
  <2>1. PICK i \in 1 .. Len(q) : j = q[i]
    BY <1>1, <1>3 DEF Line
  <2>. QED  BY <1>1, <1>3, <2>1 DEF Line
<1>. DEFINE r == Tail(q)
<1>5. /\ r \in Seq(Job) /\ Len(r) = Len(q) - 1
      /\ \A i \in 1 .. Len(r) : r[i] = q[i + 1]
      /\ r = <<>> <=> Len(q) = 1
  <2>1. q # <<>>
    BY <1>4
  <2>2. /\ r \in Seq(Job) /\ Len(r) = Len(q) - 1
        /\ \A i \in 1 .. Len(r) : r[i] = q[i + 1]
    BY <2>1
  <2>3. r = <<>> <=> Len(r) = 0
    BY <2>2
  <2>. QED  BY <1>3, <2>2, <2>3
<1>. HIDE DEF r
<1>6. \A i \in 1 .. Len(q) : q[i] \in users /\ (q[i] = j => i = 1)
  BY <1>1, <1>3, <1>4 DEF Line
<1>7. users' = {r[i] : i \in 1 .. Len(r)}
  <2>1. ASSUME NEW x \in users'  PROVE \E i \in 1 .. Len(r) : r[i] = x
    <3>1. PICK i \in 1 .. Len(q) : q[i] = x
      BY <1>1, <1>2, <2>1 DEF Line
    <3>2. i # 1
      BY <1>2, <1>4, <2>1, <3>1
    <3>3. i - 1 \in 1 .. Len(r) /\ r[i - 1] = x
      BY <1>3, <1>5, <3>1, <3>2
    <3>. QED  BY <3>3
  <2>2. ASSUME NEW i \in 1 .. Len(r)  PROVE r[i] \in users'
    BY <1>2, <1>3, <1>5, <1>6
  <2>. QED  BY <2>1, <2>2
<1>8. \A i, k \in 1 .. Len(r) : r[i] = r[k] => i = k
  <2>1. ASSUME NEW i \in 1 .. Len(r), NEW k \in 1 .. Len(r), r[i] = r[k]
        PROVE  i = k
    <3>1. i + 1 \in 1 .. Len(q) /\ k + 1 \in 1 .. Len(q) /\ q[i + 1] = q[k + 1]
      BY <1>3, <1>5, <2>1
    <3>2. i + 1 = k + 1
      BY <1>1, <3>1 DEF Line
    <3>. QED  BY <3>2
  <2>. QED  BY <2>1
<1>9. \A i \in 1 .. Len(r) : ahead'[r[i]] = IF i = 1 THEN None ELSE r[i - 1]
  <2>1. ASSUME NEW i \in 1 .. Len(r)
        PROVE  ahead'[r[i]] = IF i = 1 THEN None ELSE r[i - 1]
    <3>1. /\ i + 1 \in 1 .. Len(q) /\ i \in 1 .. Len(q) /\ r[i] = q[i + 1]
          /\ i # 1 => i - 1 \in 1 .. Len(r) /\ r[i - 1] = q[i]
      BY <1>3, <1>5
    <3>2. ahead[q[i + 1]] = q[i] /\ q[i + 1] # j /\ (q[i] = j <=> i = 1)
      BY <1>1, <1>3, <1>4, <1>6, <3>1 DEF Line
    <3>. QED  BY <1>2, <1>3, <3>1, <3>2
  <2>. QED  BY <2>1
<1>10. tail' = IF r = <<>> THEN None ELSE r[Len(r)]
  <2>1. CASE Len(q) = 1
    <3>1. users \ {j} = {}
      BY <1>1, <1>4, <2>1 DEF Line
    <3>. QED  BY <1>2, <1>5, <2>1, <3>1
  <2>2. CASE Len(q) # 1
    <3>1. /\ Len(q) \in 1 .. Len(q) /\ q[Len(q)] \in users \ {j} /\ q # <<>>
          /\ Len(r) \in 1 .. Len(r) /\ r[Len(r)] = q[Len(q)] /\ r # <<>>
      BY <1>3, <1>4, <1>5, <1>6, <2>2
    <3>. QED  BY <1>1, <1>2, <3>1 DEF Line
  <2>. QED  BY <2>1, <2>2
<1>11. Line(r)'
  BY <1>7, <1>8, <1>9, <1>10 DEF Line
<1>. QED  BY <1>2, <1>3, <1>5, <1>11 DEF LineFits

(* The bytes of finitely many files are finitely many.                     *)
LEMMA BytesFinite ==
  ASSUME NEW S, IsFiniteSet(S), NEW size, \A x \in S : size[x] \in Nat
  PROVE  /\ IsFiniteSet(UNION {{x} \X (1 .. size[x]) : x \in S})
         /\ BytesIn(S, size) \in Nat
<1>. DEFINE T == {{x} \X (1 .. size[x]) : x \in S}
            f == [x \in S |-> {x} \X (1 .. size[x])]
<1>1. f \in Surjection(S, T)
  BY DEF Surjection
<1>2. IsFiniteSet(T)
  BY <1>1, FS_Surjection
<1>3. ASSUME NEW B \in T  PROVE IsFiniteSet(B)
  <2>1. PICK x \in S : B = {x} \X (1 .. size[x])
    OBVIOUS
  <2>2. 1 \in Int /\ size[x] \in Int
    OBVIOUS
  <2>3. IsFiniteSet(1 .. size[x])
    BY <2>2, FS_Interval
  <2>4. IsFiniteSet({x})
    BY FS_Singleton
  <2>. QED  BY <2>1, <2>3, <2>4, FS_Product
<1>4. IsFiniteSet(UNION T)
  BY <1>2, <1>3, FS_UNION
<1>. QED  BY <1>4, FS_CardinalityType DEF BytesIn

LEMMA BytesAgree ==
  ASSUME NEW S, NEW size, NEW other, \A x \in S : size[x] = other[x]
  PROVE  BytesIn(S, size) = BytesIn(S, other)
<1>1. \A x \in S : {x} \X (1 .. size[x]) = {x} \X (1 .. other[x])
  OBVIOUS
<1>2. UNION {{x} \X (1 .. size[x]) : x \in S} = UNION {{x} \X (1 .. other[x]) : x \in S}
  BY <1>1
<1>. QED  BY <1>2 DEF BytesIn

(* The bytes of one file and those of the others.                          *)
LEMMA BytesSplit ==
  ASSUME NEW S, IsFiniteSet(S), NEW p \in S, NEW size, \A x \in S : size[x] \in Nat
  PROVE  BytesIn(S, size) = BytesIn(S \ {p}, size) + size[p]
<1>. DEFINE B == UNION {{x} \X (1 .. size[x]) : x \in S}
            C == UNION {{x} \X (1 .. size[x]) : x \in S \ {p}}
            D == {p} \X (1 .. size[p])
<1>1. IsFiniteSet(C)
  <2>1. IsFiniteSet(S \ {p})
    BY FS_RemoveElement
  <2>. QED  BY <2>1, BytesFinite
<1>2. IsFiniteSet(D) /\ Cardinality(D) = size[p]
  <2>1. IsFiniteSet({p}) /\ Cardinality({p}) = 1
    BY FS_Singleton
  <2>2. size[p] \in Nat /\ size[p] \in Int /\ 1 \in Int
    OBVIOUS
  <2>3. IsFiniteSet(1 .. size[p]) /\ Cardinality(1 .. size[p]) = size[p]
    <3>1. /\ IsFiniteSet(1 .. size[p])
          /\ Cardinality(1 .. size[p]) = IF 1 > size[p] THEN 0 ELSE size[p] - 1 + 1
      BY <2>2, FS_Interval
    <3>. QED  BY <2>2, <3>1
  <2>4. IsFiniteSet(D) /\ Cardinality(D) = 1 * size[p]
    BY <2>1, <2>3, FS_Product
  <2>. QED  BY <2>2, <2>4
<1>3. B = C \cup D
  <2>1. B \subseteq C \cup D
    OBVIOUS
  <2>2. C \subseteq B /\ D \subseteq B
    OBVIOUS
  <2>. QED  BY <2>1, <2>2
<1>4. C \cap D = {}
  OBVIOUS
<1>5. Cardinality(C) \in Nat
  BY <1>1, FS_CardinalityType
<1>. HIDE DEF B, C, D
<1>6. Cardinality(C \cup D) = Cardinality(C) + Cardinality(D) - Cardinality({})
  BY <1>1, <1>2, <1>4, FS_Union
<1>7. Cardinality(B) = Cardinality(C) + size[p]
  BY <1>2, <1>3, <1>5, <1>6, FS_EmptySet
<1>. QED  BY <1>7 DEF BytesIn, B, C

(* A file takes the place of what was there.                               *)
LEMMA FileSized ==
  ASSUME NEW f \in [Path -> Nat \cup {None}], NEW p \in Path, NEW n \in Nat,
         NEW g \in [Path -> Nat \cup {None}],
         g[p] = n, \A x \in Path : x # p => g[x] = f[x]
  PROVE  /\ BytesOf(f) \in Nat
         /\ BytesOf(g) = BytesOf(f) - OrZero(f[p]) + n
<1>. DEFINE F == {x \in Path : f[x] # None}
            G == {x \in Path : g[x] # None}
<1>0. n # None /\ None \notin Nat /\ IsFiniteSet(Path)
  BY WorkspaceAssumption
<1>1. G = F \cup {p} /\ g[p] = n /\ \A x \in Path : x # p => g[x] = f[x]
  BY <1>0
<1>2. /\ IsFiniteSet(F) /\ IsFiniteSet(G)
      /\ \A x \in F : f[x] \in Nat
      /\ \A x \in G : g[x] \in Nat
  <2>1. F \in SUBSET Path /\ G \in SUBSET Path
    OBVIOUS
  <2>2. IsFiniteSet(F) /\ IsFiniteSet(G)
    BY <1>0, <2>1, FS_Subset
  <2>. QED  BY <1>1, <2>2
<1>3. BytesIn(F, f) \in Nat
  BY <1>2, BytesFinite
<1>4. BytesIn(G, g) = BytesIn(G \ {p}, g) + n
  <2>1. p \in G /\ IsFiniteSet(G) /\ \A x \in G : g[x] \in Nat
    BY <1>1, <1>2
  <2>2. BytesIn(G, g) = BytesIn(G \ {p}, g) + g[p]
    BY <2>1, BytesSplit
  <2>. QED  BY <1>1, <2>2
<1>5. G \ {p} = F \ {p} /\ BytesIn(F \ {p}, g) = BytesIn(F \ {p}, f)
  BY <1>1, BytesAgree
<1>6. BytesIn(F \ {p}, f) \in Nat
  <2>1. IsFiniteSet(F \ {p})
    BY <1>2, FS_RemoveElement
  <2>. QED  BY <1>2, <2>1, BytesFinite
<1>7. BytesIn(F, f) = BytesIn(F \ {p}, f) + (IF f[p] = None THEN 0 ELSE f[p])
  <2>1. CASE p \in F
    BY <1>2, <2>1, BytesSplit
  <2>2. CASE p \notin F
    <3>1. F \ {p} = F /\ f[p] = None
      BY <2>2
    <3>. QED  BY <1>3, <3>1
  <2>. QED  BY <2>1, <2>2
<1>8. (IF f[p] = None THEN 0 ELSE f[p]) \in Nat
  OBVIOUS
<1>9. BytesOf(f) = BytesIn(F, f) /\ BytesOf(g) = BytesIn(G, g)
  BY DEF BytesOf
<1>. DEFINE old  == IF f[p] = None THEN 0 ELSE f[p]
            rest == BytesIn(F \ {p}, f)
<1>10. BytesIn(G, g) = BytesIn(F, f) - old + n
  <2>1. old \in Nat /\ rest \in Nat
    BY <1>6, <1>8
  <2>2. BytesIn(G, g) = rest + n /\ BytesIn(F, f) = rest + old
    BY <1>4, <1>5, <1>7
  <2>. HIDE DEF old, rest, F, G
  <2>. QED  BY <2>1, <2>2
<1>. HIDE DEF F, G
<1>. QED  BY <1>1, <1>3, <1>9, <1>10 DEF F, G, OrZero

(* The files that are there can be counted.                                *)
LEMMA UsageTyped ==
  ASSUME WorkspaceInv
  PROVE  /\ IsFiniteSet(Existing) /\ Cardinality(Existing) \in Nat
         /\ BytesOf(files) \in Nat
<1>1. IsFiniteSet(Existing)
  <2>1. Existing \in SUBSET Path /\ IsFiniteSet(Path)
    BY WorkspaceAssumption DEF Existing
  <2>. QED  BY <2>1, FS_Subset
<1>2. \A x \in Existing : files[x] \in Nat
  BY DEF WorkspaceInv, WorkspaceTypeOK, Existing
<1>. QED  BY <1>1, <1>2, BytesFinite, FS_CardinalityType DEF BytesOf, Existing

(* While somebody measures, nobody has a temporary file: what it finds is  *)
(* the directory.                                                          *)
LEMMA MeasuredAlone ==
  ASSUME WorkspaceInv, NEW j \in Job, Holds(j), job[j].at = "queued", Fits(Item(j))
  PROVE  FitsNow(Item(j))
<1>1. Temporary = {}
  <2>1. ASSUME NEW k \in Temporary  PROVE FALSE
    <3>1. k \in Job /\ job[k].at = "written" /\ Holds(k)
      BY DEF Temporary, WorkspaceInv, WritersLocked, Locking, Holds
    <3>. QED  BY <3>1, OneHolds
  <2>. QED  BY <2>1
<1>2. BytesIn(Temporary, [k \in Temporary |-> Item(k).size]) = 0
  BY <1>1, FS_EmptySet DEF BytesIn
<1>3. /\ UsedBytes = BytesOf(files) + debris.bytes
      /\ UsedFiles = Cardinality(Existing) + debris.count
  <2>1. debris.bytes \in Nat /\ debris.count \in Nat /\ Cardinality(Temporary) = 0
    BY <1>1, FS_EmptySet DEF WorkspaceInv, WorkspaceTypeOK
  <2>. QED  BY <1>2, <2>1, UsageTyped DEF UsedBytes, UsedFiles
<1>. QED  BY <1>3 DEF Fits, FitsNow

LEMMA WorkspaceInvInit == WorkspaceInit => WorkspaceInv
<1>. SUFFICES ASSUME WorkspaceInit  PROVE WorkspaceInv
  OBVIOUS
<1>1. WorkspaceTypeOK
  BY WorkspaceAssumption
  DEF WorkspaceInit, WorkspaceTypeOK, JobStates, Stages, Locking
<1>2. Line(<<>>) /\ <<>> \in Seq(Job)
  BY DEF WorkspaceInit, Line
<1>3. WritersLocked /\ Measured /\ JobsFit
  BY WorkspaceAssumption
  DEF WorkspaceInit, WritersLocked, Measured, JobsFit, AtAnItem, Locking
<1>. QED  BY <1>1, <1>2, <1>3 DEF WorkspaceInv, LineFits

(* One job goes on, without coming to the lock or leaving it.              *)
LEMMA JobMoves ==
  ASSUME WorkspaceInv, NEW j \in Job, NEW w \in JobStates,
         job' = [job EXCEPT ![j] = w], UNCHANGED <<files, debris, aborted, lock>>,
         w.at \in Locking <=> job[j].at \in Locking,
         AtAnItem(j, w), w.paths = job[j].paths, w.total <= MaxTurnBytes,
         w.at \in {"checked", "written"} =>
           ahead[j] = None /\ FitsNow(Items[j][w.item])
  PROVE  WorkspaceInv'
<1>1. job'[j] = w /\ \A k \in Job : k # j => job'[k] = job[k]
  BY DEF WorkspaceInv, WorkspaceTypeOK
<1>2. WorkspaceTypeOK'
  BY DEF WorkspaceInv, WorkspaceTypeOK, lock
<1>3. LineFits'
  BY DEF WorkspaceInv, LineFits, Line, lock
<1>4. WritersLocked'
  BY <1>1 DEF WorkspaceInv, WritersLocked, lock
<1>5. Measured'
  <2>1. \A k \in Job : job'[k].at \in {"checked", "written"} =>
          FitsNow(Items[k][job'[k].item])
    BY <1>1 DEF WorkspaceInv, Measured, Item
  <2>. QED  BY <2>1 DEF Measured, FitsNow, FitsIn, Existing, Item
<1>6. JobsFit'
  BY <1>1 DEF WorkspaceInv, JobsFit, Existing, AtAnItem
<1>. QED  BY <1>2, <1>3, <1>4, <1>5, <1>6 DEF WorkspaceInv

(* One job comes to the lock.                                              *)
LEMMA JobQueues ==
  ASSUME WorkspaceInv, NEW j \in Job, NEW w \in JobStates,
         job' = [job EXCEPT ![j] = w], UNCHANGED <<files, debris, aborted>>, Enter(j),
         w.at = "queued", job[j].at \notin Locking,
         AtAnItem(j, w), w.paths = job[j].paths, w.total <= MaxTurnBytes
  PROVE  WorkspaceInv'
<1>0. j \notin users
  BY DEF WorkspaceInv, WritersLocked
<1>1. job'[j] = w /\ \A k \in Job : k # j => job'[k] = job[k]
  BY DEF WorkspaceInv, WorkspaceTypeOK
<1>2. /\ LineFits' /\ users' = users \cup {j}
      /\ \A k \in Job : k # j => ahead'[k] = ahead[k]
      /\ tail' \in Job /\ users' \subseteq Job /\ ahead' \in [Job -> Job \cup {None}]
  BY <1>0, Entered
<1>3. WorkspaceTypeOK'
  BY <1>2 DEF WorkspaceInv, WorkspaceTypeOK
<1>4. WritersLocked'
  BY <1>1, <1>2 DEF WorkspaceInv, WritersLocked, Locking
<1>5. Measured'
  <2>1. \A k \in Job : job'[k].at \in {"checked", "written"} =>
          FitsNow(Items[k][job'[k].item])
    BY <1>1 DEF WorkspaceInv, Measured, Item
  <2>. QED  BY <2>1 DEF Measured, FitsNow, FitsIn, Existing, Item
<1>6. JobsFit'
  BY <1>1 DEF WorkspaceInv, JobsFit, Existing, AtAnItem
<1>. QED  BY <1>2, <1>3, <1>4, <1>5, <1>6 DEF WorkspaceInv

(* Whoever holds the lock leaves it: nobody else has measured anything.    *)
LEMMA JobLeaves ==
  ASSUME WorkspaceInv, NEW j \in Job, NEW w \in JobStates, Holds(j), Leave({j}),
         job' = [job EXCEPT ![j] = w], w.at \notin Locking, aborted' = aborted,
         files' \in [Path -> Nat \cup {None}], debris' \in [count : Nat, bytes : Nat],
         Existing \subseteq Existing', AtAnItem(j, w),
         w.paths \subseteq Existing', w.total <= MaxTurnBytes
  PROVE  WorkspaceInv'
<1>1. job'[j] = w /\ \A k \in Job : k # j => job'[k] = job[k]
  BY DEF WorkspaceInv, WorkspaceTypeOK
<1>2. /\ LineFits' /\ users' = users \ {j}
      /\ tail' \in Job \cup {None} /\ users' \subseteq Job
      /\ ahead' \in [Job -> Job \cup {None}]
  BY LeftByHolder
<1>3. \A k \in Job : k # j => job[k].at \notin {"checked", "written"}
  BY OneHolds DEF WorkspaceInv, WritersLocked, Holds, Locking
<1>4. WorkspaceTypeOK'
  BY <1>2 DEF WorkspaceInv, WorkspaceTypeOK
<1>5. WritersLocked' /\ Measured'
  BY <1>1, <1>2, <1>3 DEF WorkspaceInv, WritersLocked, Measured, Locking
<1>6. JobsFit'
  BY <1>1 DEF WorkspaceInv, JobsFit, AtAnItem
<1>. QED  BY <1>2, <1>4, <1>5, <1>6 DEF WorkspaceInv

LEMMA FailedJob ==
  ASSUME WorkspaceInv, NEW j \in Job, Fail(j)
  PROVE  \E w \in JobStates :
           /\ job' = [job EXCEPT ![j] = w] /\ w.at = "failed" /\ AtAnItem(j, w)
           /\ w.paths = job[j].paths /\ w.total = job[j].total
<1>. DEFINE w == [job[j] EXCEPT !.at = "failed"]
<1>1. job[j] \in JobStates
  BY DEF WorkspaceInv, WorkspaceTypeOK
<1>2. w \in JobStates /\ w.at = "failed" /\ w.paths = job[j].paths /\ w.total = job[j].total
  BY <1>1 DEF JobStates, Stages
<1>. QED  BY <1>2 DEF Fail, AtAnItem, Locking

LEMMA TurnBegins ==
  ASSUME WorkspaceInv, NEW j \in Job, Begin(j) \/ Skip(j)
  PROVE  WorkspaceInv'
<1>. DEFINE w == After(j, job[j])
<1>1. /\ job[j] \in JobStates /\ job[j].total <= MaxTurnBytes
      /\ job[j].at \in {"idle", "download"}
      /\ job' = [job EXCEPT ![j] = w] /\ UNCHANGED <<files, debris, aborted, lock>>
  BY DEF Begin, Skip, WorkspaceInv, WorkspaceTypeOK, JobsFit
<1>2. /\ w \in JobStates /\ w.at \in {"done", "download"} /\ AtAnItem(j, w)
      /\ w.paths = job[j].paths /\ w.total = job[j].total
  BY <1>1, AfterAnItem
<1>. HIDE DEF w
<1>. QED  BY <1>1, <1>2, JobMoves DEF Locking

LEMMA CallBegins ==
  ASSUME WorkspaceInv, NEW j \in Job, Write(j)
  PROVE  WorkspaceInv'
<1>1. /\ job[j] \in JobStates /\ job[j].total <= MaxTurnBytes
      /\ job[j].at = "idle" /\ UNCHANGED <<files, debris, aborted>>
  BY DEF Write, WorkspaceInv, WorkspaceTypeOK, JobsFit
<1>2. CASE Fail(j) /\ UNCHANGED lock
  BY <1>1, <1>2, FailedJob, JobMoves DEF Locking
<1>3. CASE /\ job' = [job EXCEPT ![j].at = "queued", ![j].item = 1]
           /\ Enter(j)
  <2>. DEFINE w == [job[j] EXCEPT !.at = "queued", !.item = 1]
  <2>1. job' = [job EXCEPT ![j] = w]
    BY <1>3 DEF WorkspaceInv, WorkspaceTypeOK
  <2>2. /\ w \in JobStates /\ w.at = "queued" /\ w.item = 1
        /\ w.paths = job[j].paths /\ w.total = job[j].total
    BY <1>1 DEF JobStates, Stages, Locking
  <2>3. AtAnItem(j, w)
    BY <2>2, ItemsTyped DEF Write, AtAnItem
  <2>. HIDE DEF w
  <2>. QED  BY <1>1, <1>3, <2>1, <2>2, <2>3, JobQueues DEF Locking
<1>. QED  BY <1>2, <1>3 DEF Write

LEMMA AttachmentCame ==
  ASSUME WorkspaceInv, NEW j \in Job, Downloaded(j)
  PROVE  WorkspaceInv'
<1>. DEFINE v == [job[j] EXCEPT !.total = @ + Item(j).size]
<1>1. /\ job[j] \in JobStates /\ job[j].total <= MaxTurnBytes
      /\ job[j].at = "download" /\ AtAnItem(j, job[j])
      /\ UNCHANGED <<files, debris, aborted>>
  BY DEF Downloaded, WorkspaceInv, WorkspaceTypeOK, JobsFit
<1>2. job[j].item \in 1 .. Len(Items[j]) /\ Item(j).size \in Nat
  BY <1>1, ItemsTyped DEF AtAnItem, Item
<1>3. job[j].total + Item(j).size <= MaxTurnBytes
  <2>1. MaxTurnBytes \in Nat /\ MaxBytesPerItem \in Nat /\ job[j].total \in Nat
    BY <1>1, WorkspaceAssumption DEF JobStates
  <2>2. Item(j).size <= Remaining(j)
    BY DEF Downloaded
  <2>. QED  BY <1>2, <2>1, <2>2 DEF Remaining
<1>4. /\ v \in JobStates /\ v.at = "download" /\ v.item = job[j].item
      /\ v.paths = job[j].paths /\ v.total <= MaxTurnBytes
  BY <1>1, <1>2, <1>3 DEF JobStates
<1>5. CASE job' = [job EXCEPT ![j] = [v EXCEPT !.at = "queued"]] /\ Enter(j)
  <2>. DEFINE w == [v EXCEPT !.at = "queued"]
  <2>. HIDE DEF v
  <2>1. /\ w \in JobStates /\ w.at = "queued" /\ w.item = job[j].item
        /\ w.paths = job[j].paths /\ w.total <= MaxTurnBytes
    BY <1>4 DEF JobStates, Stages, Locking
  <2>2. AtAnItem(j, w)
    BY <1>2, <2>1 DEF AtAnItem
  <2>3. job' = [job EXCEPT ![j] = w]
    BY <1>5
  <2>. HIDE DEF w
  <2>. QED  BY <1>1, <1>5, <2>1, <2>2, <2>3, JobQueues DEF Locking
<1>6. CASE job' = [job EXCEPT ![j] = After(j, v)] /\ UNCHANGED lock
  <2>. HIDE DEF v
  <2>1. /\ After(j, v) \in JobStates /\ After(j, v).at \in {"done", "download"}
        /\ AtAnItem(j, After(j, v)) /\ After(j, v).paths = v.paths
        /\ After(j, v).total = v.total
    BY <1>4, AfterAnItem
  <2>. QED  BY <1>1, <1>4, <1>6, <2>1, JobMoves DEF Locking
<1>. QED  BY <1>5, <1>6 DEF Downloaded

LEMMA DownloadGivenUp ==
  ASSUME WorkspaceInv, NEW j \in Job, DownloadAborted(j)
  PROVE  WorkspaceInv'
<1>1. /\ job[j].total <= MaxTurnBytes /\ job[j].at = "download" /\ Fail(j)
      /\ UNCHANGED <<files, debris, aborted, lock>>
  BY DEF DownloadAborted, WorkspaceInv, JobsFit
<1>. QED  BY <1>1, FailedJob, JobMoves DEF Locking

LEMMA WriteGoesOn ==
  ASSUME WorkspaceInv, NEW j \in Job, Check(j) \/ WriteTemporary(j)
  PROVE  WorkspaceInv'
<1>1. PICK next \in {"checked", "written"} : job' = [job EXCEPT ![j].at = next]
  BY DEF Check, WriteTemporary
<1>. DEFINE w == [job[j] EXCEPT !.at = next]
<1>2. /\ job[j] \in JobStates /\ job[j].total <= MaxTurnBytes
      /\ job[j].at \in Locking /\ AtAnItem(j, job[j])
      /\ UNCHANGED <<files, debris, aborted, lock>>
  BY DEF Check, WriteTemporary, WorkspaceInv, WorkspaceTypeOK, JobsFit, Locking
<1>3. ahead[j] = None /\ FitsNow(Item(j))
  <2>1. CASE Check(j)
    BY <2>1, MeasuredAlone DEF Check, Holds
  <2>2. CASE WriteTemporary(j)
    BY <2>2 DEF WriteTemporary, WorkspaceInv, WritersLocked, Measured
  <2>. QED  BY <2>1, <2>2
<1>4. /\ w \in JobStates /\ w.at = next /\ w.item = job[j].item
      /\ w.paths = job[j].paths /\ w.total = job[j].total
  BY <1>2 DEF JobStates, Stages, Locking
<1>5. AtAnItem(j, w) /\ FitsNow(Items[j][w.item])
  BY <1>2, <1>3, <1>4 DEF AtAnItem, Item
<1>6. job' = [job EXCEPT ![j] = w]
  BY <1>1
<1>. HIDE DEF w
<1>. QED  BY <1>2, <1>3, <1>4, <1>5, <1>6, JobMoves DEF Locking

LEMMA WriteRefused ==
  ASSUME WorkspaceInv, NEW j \in Job, OverQuota(j)
  PROVE  WorkspaceInv'
<1>1. /\ job[j] \in JobStates /\ job[j].total <= MaxTurnBytes
      /\ job[j].paths \subseteq Existing /\ Holds(j) /\ Leave({j})
      /\ UNCHANGED <<files, debris, aborted>>
      /\ Existing' = Existing
      /\ files' \in [Path -> Nat \cup {None}] /\ debris' \in [count : Nat, bytes : Nat]
  BY DEF OverQuota, WorkspaceInv, WorkspaceTypeOK, JobsFit, Existing
<1>2. CASE Fail(j)
  <2>1. PICK w \in JobStates :
           /\ job' = [job EXCEPT ![j] = w] /\ w.at = "failed" /\ AtAnItem(j, w)
           /\ w.paths = job[j].paths /\ w.total = job[j].total
    BY <1>2, FailedJob
  <2>. QED  BY <1>1, <2>1, JobLeaves DEF Locking
<1>3. CASE job' = [job EXCEPT ![j] = After(j, @)]
  <2>. DEFINE w == After(j, job[j])
  <2>1. job' = [job EXCEPT ![j] = w]
    BY <1>3
  <2>2. /\ w \in JobStates /\ w.at \in {"done", "download"} /\ AtAnItem(j, w)
        /\ w.paths = job[j].paths /\ w.total = job[j].total
    BY <1>1, AfterAnItem
  <2>. HIDE DEF w
  <2>. QED  BY <1>1, <2>1, <2>2, JobLeaves DEF Locking
<1>. QED  BY <1>2, <1>3 DEF OverQuota

(* What a rename does to the directory.                                    *)
LEMMA Renamed ==
  ASSUME WorkspaceInv, NEW j \in Job, Rename(j)
  PROVE  /\ Holds(j) /\ FitsNow(Item(j))
         /\ Item(j).path \in Path /\ Item(j).size \in Nat
         /\ files' \in [Path -> Nat \cup {None}]
         /\ Existing' = Existing \cup {Item(j).path}
         /\ BytesOf(files')
              = BytesOf(files) - OrZero(files[Item(j).path]) + Item(j).size
         /\ UNCHANGED debris
<1>1. Holds(j) /\ FitsNow(Item(j)) /\ AtAnItem(j, job[j])
  BY DEF Rename, WorkspaceInv, WritersLocked, Measured, JobsFit, Holds, Locking
<1>2. Item(j).path \in Path /\ Item(j).size \in Nat
  BY <1>1, ItemsTyped DEF Rename, AtAnItem, Locking, Item
<1>3. /\ files \in [Path -> Nat \cup {None}]
      /\ files' = [files EXCEPT ![Item(j).path] = Item(j).size] /\ UNCHANGED debris
  BY DEF Rename, WorkspaceInv, WorkspaceTypeOK
<1>. DEFINE p == Item(j).path
            n == Item(j).size
<1>. HIDE DEF p, n
<1>4. p \in Path /\ n \in Nat /\ files' = [files EXCEPT ![p] = n]
  BY <1>2, <1>3 DEF p, n
<1>5. /\ files' \in [Path -> Nat \cup {None}] /\ files'[p] = n
      /\ \A x \in Path : x # p => files'[x] = files[x]
  BY <1>3, <1>4
<1>6. BytesOf(files') = BytesOf(files) - OrZero(files[p]) + n
  <2>. DEFINE g == files'
  <2>1. /\ files \in [Path -> Nat \cup {None}] /\ g \in [Path -> Nat \cup {None}]
        /\ p \in Path /\ n \in Nat /\ g[p] = n
        /\ \A x \in Path : x # p => g[x] = files[x]
    BY <1>3, <1>4, <1>5
  <2>. HIDE DEF g
  <2>2. BytesOf(g) = BytesOf(files) - OrZero(files[p]) + n
    BY <2>1, FileSized
  <2>. QED  BY <2>2 DEF g
<1>7. Existing' = Existing \cup {p}
  BY <1>4, <1>5, WorkspaceAssumption DEF Existing
<1>. QED  BY <1>1, <1>2, <1>3, <1>5, <1>6, <1>7 DEF p, n

LEMMA WriteEnds ==
  ASSUME WorkspaceInv, NEW j \in Job, Rename(j)
  PROVE  WorkspaceInv'
<1>. DEFINE v == [job[j] EXCEPT !.paths = @ \cup {Item(j).path}]
            w == After(j, v)
<1>1. /\ job[j] \in JobStates /\ job[j].total <= MaxTurnBytes
      /\ job[j].paths \subseteq Existing /\ Leave({j}) /\ aborted' = aborted
      /\ debris' \in [count : Nat, bytes : Nat]
  BY DEF Rename, WorkspaceInv, WorkspaceTypeOK, JobsFit
<1>5. job' = [job EXCEPT ![j] = w]
  BY DEF Rename
<1>2. /\ v \in JobStates /\ v.paths = job[j].paths \cup {Item(j).path}
      /\ v.total = job[j].total
  BY <1>1, Renamed DEF JobStates
<1>3. /\ w \in JobStates /\ w.at \in {"done", "download"} /\ AtAnItem(j, w)
      /\ w.paths = v.paths /\ w.total = v.total
  BY <1>2, AfterAnItem
<1>. HIDE DEF v, w
<1>4. w.paths \subseteq Existing' /\ Existing \subseteq Existing'
  BY <1>1, <1>2, <1>3, Renamed
<1>. QED  BY <1>1, <1>2, <1>3, <1>4, <1>5, Renamed, JobLeaves DEF Locking

(* What may be left behind is counted.                                     *)
LEMMA LeavingsTyped ==
  ASSUME WorkspaceInv, NEW j \in Job, NEW rest \in Leavings(j)
  PROVE  rest \in [count : Nat, bytes : Nat]
<1>1. debris.count \in Nat /\ debris.bytes \in Nat
  BY DEF WorkspaceInv, WorkspaceTypeOK
<1>2. job[j].at \in {"checked", "written"} => Item(j).size \in Nat
  BY ItemsTyped DEF WorkspaceInv, JobsFit, AtAnItem, Locking, Item
<1>. QED  BY <1>1, <1>2 DEF Leavings

LEMMA WriteFails ==
  ASSUME WorkspaceInv, NEW j \in Job, PersistFails(j)
  PROVE  WorkspaceInv'
<1>1. /\ job[j].total <= MaxTurnBytes /\ job[j].paths \subseteq Existing
      /\ Holds(j) /\ Leave({j}) /\ Fail(j) /\ Existing' = Existing /\ aborted' = aborted
      /\ files' \in [Path -> Nat \cup {None}] /\ debris' \in [count : Nat, bytes : Nat]
  BY LeavingsTyped
  DEF PersistFails, WorkspaceInv, WorkspaceTypeOK, JobsFit, Existing
<1>2. PICK w \in JobStates :
         /\ job' = [job EXCEPT ![j] = w] /\ w.at = "failed" /\ AtAnItem(j, w)
         /\ w.paths = job[j].paths /\ w.total = job[j].total
  BY <1>1, FailedJob
<1>. QED  BY <1>1, <1>2, JobLeaves DEF Locking

LEMMA ProcessDies ==
  ASSUME WorkspaceInv, Crash
  PROVE  WorkspaceInv'
<1>1. \A k \in Job :
        /\ job'[k] \in JobStates /\ job'[k].at \in {"idle", "done", "failed"}
        /\ job'[k].paths = job[k].paths /\ job'[k].total = job[k].total
  <2>1. \A k \in Job : job[k] \in JobStates
    BY DEF WorkspaceInv, WorkspaceTypeOK
  <2>. QED  BY <2>1 DEF Crash, Going, JobStates, Stages, Locking
<1>2. WorkspaceTypeOK'
  <2>1. debris' \in [count : Nat, bytes : Nat]
    BY LeavingsTyped DEF Crash, WorkspaceInv, WorkspaceTypeOK
  <2>2. job' \in [Job -> JobStates]
    BY <1>1 DEF Crash
  <2>. QED  BY <2>1, <2>2 DEF Crash, WorkspaceInv, WorkspaceTypeOK
<1>3. LineFits'
  <2>1. Line(<<>>)' /\ <<>> \in Seq(Job)
    BY DEF Crash, Line
  <2>. QED  BY <2>1 DEF LineFits
<1>4. WritersLocked' /\ Measured'
  BY <1>1 DEF Crash, WritersLocked, Measured, Locking
<1>5. JobsFit'
  BY <1>1 DEF Crash, WorkspaceInv, JobsFit, AtAnItem, Locking, Existing
<1>. QED  BY <1>2, <1>3, <1>4, <1>5 DEF WorkspaceInv

LEMMA SignalFires ==
  ASSUME WorkspaceInv, UNCHANGED <<files, debris, job, lock>>, aborted' \subseteq Job
  PROVE  WorkspaceInv'
<1>1. WorkspaceTypeOK' /\ LineFits' /\ WritersLocked' /\ JobsFit'
  BY DEF WorkspaceInv, WorkspaceTypeOK, LineFits, Line, WritersLocked, JobsFit,
         AtAnItem, Existing, lock
<1>2. Measured'
  BY DEF WorkspaceInv, Measured, FitsNow, FitsIn, Existing, Item
<1>. QED  BY <1>1, <1>2 DEF WorkspaceInv

LEMMA WorkspaceInvHolds == WorkspaceSpec => []WorkspaceInv
<1>1. WorkspaceInv /\ [WorkspaceNext]_workspaceVars => WorkspaceInv'
  <2>. SUFFICES ASSUME WorkspaceInv, [WorkspaceNext]_workspaceVars
                PROVE  WorkspaceInv'
    OBVIOUS
  <2>1. aborted \subseteq Job
    BY DEF WorkspaceInv, WorkspaceTypeOK
  <2>2. CASE UNCHANGED workspaceVars
    BY <2>1, <2>2, SignalFires DEF workspaceVars, lock
  <2>3. ASSUME NEW j \in Job, Abort(j)  PROVE WorkspaceInv'
    BY <2>1, <2>3, SignalFires DEF Abort
  <2>. QED  BY <2>2, <2>3, TurnBegins, CallBegins, AttachmentCame, DownloadGivenUp,
               WriteGoesOn, WriteRefused, WriteEnds, WriteFails, ProcessDies
            DEF WorkspaceNext
<1>. QED  BY <1>1, WorkspaceInvInit, PTL DEF WorkspaceSpec

(* Files, jobs and the lock keep their types, for any jobs, sizes and      *)
(* limits (sandbox/workspace-guard.ts, feishu/attachments.ts).             *)
THEOREM WorkspaceTypes == WorkspaceSpec => []WorkspaceTypeOK
BY WorkspaceInvHolds, PTL DEF WorkspaceInv

(* Whatever is refused, fails, is overtaken or dies, a prompt names files  *)
(* that are there, and the attachments of a turn stay within its budget    *)
(* (prepareTurnInput()).                                                   *)
THEOREM PromptNamesFiles == WorkspaceSpec => []PromptIsTrue
<1>1. WorkspaceInv => PromptIsTrue
  BY DEF WorkspaceInv, JobsFit, PromptIsTrue
<1>. QED  BY <1>1, WorkspaceInvHolds, PTL

(* However many write, and whatever earlier ones left behind: a write that *)
(* makes the directory larger, or adds a file, leaves it within its limits *)
(* (persist(), withRootMutationLock()).                                    *)
THEOREM WritesKeepQuota == WorkspaceSpec => QuotaKept
<1>. DEFINE Kept == /\ BytesOf(files') > BytesOf(files) =>
                         BytesOf(files') + debris'.bytes <= MaxTotalBytes
                    /\ Cardinality(Existing') > Cardinality(Existing) =>
                         Cardinality(Existing') + debris'.count <= MaxFiles
<1>1. WorkspaceInv /\ [WorkspaceNext]_workspaceVars => [Kept]_workspaceVars
  <2>. SUFFICES ASSUME WorkspaceInv, WorkspaceNext  PROVE Kept
    OBVIOUS
  <2>0. BytesOf(files) \in Nat /\ Cardinality(Existing) \in Nat /\ IsFiniteSet(Existing)
    BY UsageTyped
  <2>1. ASSUME NEW j \in Job, Rename(j)  PROVE Kept
    <3>. DEFINE p   == Item(j).path
                n   == Item(j).size
                old == OrZero(files[p])
    <3>1. /\ FitsNow(Item(j)) /\ p \in Path /\ n \in Nat
          /\ Existing' = Existing \cup {p}
          /\ BytesOf(files') = BytesOf(files) - old + n /\ debris' = debris
      BY <2>1, Renamed
    <3>2. /\ p \in Existing <=> files[p] # None
          /\ Cardinality(Existing \cup {p}) =
               IF p \in Existing THEN Cardinality(Existing) ELSE Cardinality(Existing) + 1
      BY <2>0, <3>1, FS_AddElement DEF Existing
    <3>3. /\ old \in Nat /\ debris.bytes \in Nat /\ debris.count \in Nat
          /\ MaxTotalBytes \in Nat /\ MaxFiles \in Nat
          /\ files[p] # None => old = files[p]
      BY <3>1, WorkspaceAssumption DEF WorkspaceInv, WorkspaceTypeOK, OrZero
    <3>4. \/ files[p] # None /\ n <= files[p]
          \/ /\ BytesOf(files) + debris.bytes - old + n <= MaxTotalBytes
             /\ files[p] = None => Cardinality(Existing) + debris.count + 1 <= MaxFiles
      <4>1. CASE \/ BytesOf(files) + debris.bytes > MaxTotalBytes
                 \/ Cardinality(Existing) + debris.count > MaxFiles
        BY <3>1, <4>1 DEF FitsNow, FitsIn
      <4>2. CASE ~(\/ BytesOf(files) + debris.bytes > MaxTotalBytes
                   \/ Cardinality(Existing) + debris.count > MaxFiles)
        BY <2>0, <3>1, <3>3, <4>2 DEF FitsNow, FitsIn
      <4>. QED  BY <4>1, <4>2
    <3>. HIDE DEF p, n, old
    <3>5. CASE files[p] # None /\ n <= files[p]
      BY <2>0, <3>1, <3>2, <3>3, <3>5
    <3>6. CASE /\ BytesOf(files) + debris.bytes - old + n <= MaxTotalBytes
               /\ files[p] = None => Cardinality(Existing) + debris.count + 1 <= MaxFiles
      BY <2>0, <3>1, <3>2, <3>3, <3>6
    <3>. QED  BY <3>4, <3>5, <3>6
  <2>2. CASE UNCHANGED files
    <3>1. BytesOf(files') = BytesOf(files) /\ Existing' = Existing
      BY <2>2 DEF Existing
    <3>. QED  BY <2>0, <3>1
  <2>. QED  BY <2>1, <2>2
            DEF WorkspaceNext, Begin, Write, Downloaded, Skip, DownloadAborted, Check,
                OverQuota, WriteTemporary, PersistFails, Abort, Crash
<1>2. QuotaKept <=> [][Kept]_workspaceVars
  BY DEF QuotaKept
<1>. QED  BY <1>1, <1>2, WorkspaceInvHolds, PTL DEF WorkspaceSpec
=============================================================================
