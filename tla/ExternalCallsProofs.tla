------------------------ MODULE ExternalCallsProofs ------------------------
(***************************************************************************)
(* What a conversation reaches outside the Host.  For every number of      *)
(* sessions and requests, and for every choice of the lifetimes: the       *)
(* capabilities of the model broker belong to sessions that can have a     *)
(* Worker, and a request is forwarded only within the lifetime of its      *)
(* capability, however long its body took.  For any Apps, executables and  *)
(* calls: lark-cli runs bound to the bot identity and only where it calls  *)
(* the commands of the App reads, and no failure of it is served twice.    *)
(***************************************************************************)
EXTENDS ModelAccess, LarkCli, TLAPS

(* A request that is being read or forwarded is known to a broker that     *)
(* runs and comes from a Worker that has not exited: this is what the      *)
(* second look at the capability may take for granted.                     *)
RequestInv ==
  \A r \in Request : request[r] \in {"body", "upstream"} =>
    broker = "on" /\ session[OwnerOf[r]].at \in {"turn", "closing"}

IInv == TypeOK /\ NoOrphanCapability /\ RequestInv

-----------------------------------------------------------------------------
LEMMA InitEstablishesIInv == Init => IInv
  BY ModelAssumption
     DEF Init, IInv, TypeOK, NoOrphanCapability, RequestInv, Stages, None, Times

(* A capability issued or renewed now is typed, and ends within its limit. *)
LEMMA ExpiryBounded ==
  ASSUME now \in 0 .. MaxTime, NEW issued \in 0 .. MaxTime
  PROVE  /\ Expiry(issued) \in Times
         /\ Expiry(issued) <= issued + MaxLifetime
  BY ModelAssumption DEF Expiry, Least, Times

-----------------------------------------------------------------------------
LEMMA IInvKept == ASSUME IInv, [Next]_vars PROVE IInv'
<1> USE ModelAssumption DEF IInv
<1>1. CASE StartBroker
  BY <1>1 DEF StartBroker, TypeOK, NoOrphanCapability, RequestInv, Limit
<1>2. CASE StopBroker
  BY <1>2 DEF StopBroker, TypeOK, NoOrphanCapability, RequestInv, Limit
<1>3. CASE Tick
  BY <1>3 DEF Tick, TypeOK, NoOrphanCapability, RequestInv, Limit
<1>4. CASE Prune
  BY <1>4 DEF Prune, TypeOK, NoOrphanCapability, RequestInv, Limit
<1>5. ASSUME NEW x \in Session, Create(x) PROVE IInv'
  <2> DEFINE new == [issued |-> now, expires |-> Expiry(now)]
  <2>1. now \in 0 .. MaxTime  BY DEF TypeOK
  <2>2. /\ new \in [issued : 0 .. MaxTime, expires : Times]
        /\ new.expires <= new.issued + MaxLifetime
    BY <2>1, ExpiryBounded
  <2>3. cap' = [cap EXCEPT ![x] = new]  BY <1>5 DEF Create
  <2> HIDE DEF new
  <2>4. TypeOK'
    BY <1>5, <2>2, <2>3 DEF Create, TypeOK, Stages, Limit
  <2>5. NoOrphanCapability'
    BY <1>5, <2>3 DEF Create, TypeOK, NoOrphanCapability
  <2>6. RequestInv'
    BY <1>5 DEF Create, TypeOK, RequestInv
  <2>7. QED  BY <2>4, <2>5, <2>6
<1>6. ASSUME NEW x \in Session, CreateFails(x) PROVE IInv'
  <2>1. TypeOK'
    BY <1>6 DEF CreateFails, TypeOK, Stages, Limit
  <2>2. NoOrphanCapability'
    BY <1>6 DEF CreateFails, TypeOK, NoOrphanCapability
  <2>3. RequestInv'
    BY <1>6 DEF CreateFails, TypeOK, RequestInv
  <2>4. QED  BY <2>1, <2>2, <2>3
<1>7. ASSUME NEW x \in Session, Release(x) PROVE IInv'
  <2>1. TypeOK'
    BY <1>7 DEF Release, TypeOK, Stages, Limit
  <2>2. NoOrphanCapability'
    BY <1>7 DEF Release, TypeOK, NoOrphanCapability
  <2>3. RequestInv'
    BY <1>7 DEF Release, TypeOK, RequestInv
  <2>4. QED  BY <2>1, <2>2, <2>3
<1>8. ASSUME NEW x \in Session, Ready(x) \/ BeginTurn(x) \/ EndTurn(x) PROVE IInv'
  <2>1. PICK stage \in {"resident", "turn"} :
          session' = [session EXCEPT ![x] = [at |-> stage, used |-> now]]
    BY <1>8 DEF Ready, BeginTurn, EndTurn
  <2>2. /\ UNCHANGED <<now, broker, cap, request, sentAt>>
        /\ session[x].at \in {"starting", "resident", "turn"}
        /\ session[x].at = "turn" => Idle(x)
    BY <1>8 DEF Ready, BeginTurn, EndTurn
  <2>3. TypeOK'
    BY <2>1, <2>2 DEF TypeOK, Stages, Limit
  <2>4. NoOrphanCapability'
    BY <2>1, <2>2 DEF TypeOK, NoOrphanCapability
  <2>5. RequestInv'
    BY <2>1, <2>2 DEF Idle, TypeOK, RequestInv
  <2>6. QED  BY <2>3, <2>4, <2>5
<1>9. ASSUME NEW x \in Session, WorkerExits(x) PROVE IInv'
  <2>1. TypeOK'
    BY <1>9 DEF WorkerExits, TypeOK, Stages, Limit
  <2>2. NoOrphanCapability'
    BY <1>9 DEF WorkerExits, TypeOK, NoOrphanCapability
  <2>3. RequestInv'
    BY <1>9 DEF WorkerExits, TypeOK, RequestInv
  <2>4. QED  BY <2>1, <2>2, <2>3
<1>10. ASSUME NEW r \in Request, Arrive(r) \/ Reject(r) \/ Disconnect(r) \/ Answered(r)
       PROVE  IInv'
  <2>1. TypeOK'
    BY <1>10 DEF Arrive, Reject, Disconnect, Answered, Answer, TypeOK, Limit
  <2>2. NoOrphanCapability'
    BY <1>10 DEF Arrive, Reject, Disconnect, Answered, Answer, TypeOK, NoOrphanCapability
  <2>3. RequestInv'
    BY <1>10 DEF Arrive, Reject, Disconnect, Answered, Answer, TypeOK, RequestInv, Live,
                 NoOrphanCapability
  <2>4. QED  BY <2>1, <2>2, <2>3
<1>11. ASSUME NEW r \in Request, Forward(r) PROVE IInv'
  <2> DEFINE x == OwnerOf[r]
  <2>1. /\ x \in Session /\ now \in 0 .. MaxTime
        /\ cap[x] \in [issued : 0 .. MaxTime, expires : Times]
    BY <1>11 DEF Forward, Live, TypeOK
  <2>2. /\ Expiry(cap[x].issued) \in Times
        /\ Expiry(cap[x].issued) <= cap[x].issued + MaxLifetime
    BY <2>1, ExpiryBounded
  <2>3. cap' = [cap EXCEPT ![x].expires = Expiry(cap[x].issued)]
    BY <1>11 DEF Forward
  <2>4. TypeOK'
    BY <1>11, <2>1, <2>2, <2>3 DEF Forward, TypeOK, Limit
  <2>5. NoOrphanCapability'
    BY <1>11, <2>1, <2>3 DEF Forward, Live, TypeOK, NoOrphanCapability
  <2>6. RequestInv'
    BY <1>11 DEF Forward, TypeOK, RequestInv
  <2>7. QED  BY <2>4, <2>5, <2>6
<1>12. CASE UNCHANGED vars
  BY <1>12 DEF vars, TypeOK, NoOrphanCapability, RequestInv, Limit
<1>13. QED
  BY <1>1, <1>2, <1>3, <1>4, <1>5, <1>6, <1>7, <1>8, <1>9, <1>10, <1>11, <1>12 DEF Next

(* The inductive invariant of the specification.                           *)
THEOREM IInvHolds == Spec => []IInv
<1>1. Init => IInv  BY InitEstablishesIInv
<1>2. IInv /\ [Next]_vars => IInv'  BY IInvKept
<1>3. QED  BY <1>1, <1>2, PTL DEF Spec

(* The types, and that no renewal takes a capability past the absolute     *)
(* lifetime that was fixed when it was issued.                             *)
THEOREM TypeCorrect == Spec => []TypeOK
<1>1. IInv => TypeOK  BY DEF IInv
<1>2. QED  BY <1>1, IInvHolds, PTL

(* No capability stays in the broker's map after its session's Worker has  *)
(* exited or could not be created.                                         *)
THEOREM CapabilitiesHaveOwners == Spec => []NoOrphanCapability
<1>1. IInv => NoOrphanCapability  BY DEF IInv
<1>2. QED  BY <1>1, IInvHolds, PTL

(* A request goes upstream only while the broker runs, its Worker lives    *)
(* and the lifetime of its capability has not passed.                      *)
THEOREM ForwardsAreInTime == Spec => ForwardedInTime
<1> DEFINE InTime(r) ==
      /\ broker = "on"
      /\ session[OwnerOf[r]].at \in {"turn", "closing"}
      /\ cap[OwnerOf[r]] # None /\ now < Limit(cap[OwnerOf[r]])
<1>1. ASSUME IInv, [Next]_vars
      PROVE  \A r \in Request : sentAt'[r] # sentAt[r] => InTime(r)
  <2>1. ASSUME NEW q \in Request, Forward(q)
        PROVE  \A r \in Request : sentAt'[r] # sentAt[r] => InTime(r)
    <3>1. InTime(q)
      BY <1>1, <2>1 DEF Forward, Live, IInv, RequestInv
    <3>2. sentAt' = [sentAt EXCEPT ![q] = now] /\ sentAt \in [Request -> -1 .. MaxTime]
      BY <1>1, <2>1 DEF Forward, IInv, TypeOK
    <3>3. \A r \in Request : sentAt'[r] # sentAt[r] => r = q
      BY <3>2
    <3>4. QED  BY <3>1, <3>3
  <2>2. CASE UNCHANGED sentAt  BY <2>2
  <2>3. QED
    BY <1>1, <2>1, <2>2
       DEF Next, vars, StartBroker, StopBroker, Tick, Prune, Create, CreateFails, Ready,
           BeginTurn, EndTurn, WorkerExits, Release, Arrive, Reject, Disconnect, Answered
<1>2. QED  BY <1>1, IInvHolds, PTL DEF Spec, ForwardedInTime

-----------------------------------------------------------------------------
(* The lark-cli program.                                                   *)
(* The home directory of an App is bound to the bot identity.              *)
Bound(a) == home[a].strict /\ home[a].bot

(* What the map of profiles holds was made for its App and has not failed. *)
EntriesFit ==
  \A a \in App : entry[a] # Nothing =>
    /\ AppOf[entry[a]] = a
    /\ init[entry[a]] \in Processes \cup {"ok"}

(* Settings that a process made stay: nobody unmakes them.                 *)
HomesBound ==
  \A c \in Call :
    /\ init[c] = "bot" => home[AppOf[c]].strict
    /\ init[c] = "ok" => Bound(AppOf[c])

(* Whoever waits for an initialization waits for one of its own App that   *)
(* has not settled; whoever is past it is in a bound directory, and the    *)
(* commands it has no longer to check are reported as reading.             *)
CallsFit ==
  \A c \in Call :
    /\ call[c].at = "profile" =>
         /\ call[c].on \in Call /\ AppOf[call[c].on] = AppOf[c]
         /\ init[call[c].on] \in Processes
    /\ call[c].at \in {"risks", "check", "render", "running"} =>
         /\ Bound(AppOf[c])
         /\ \A m \in Operations[AppOf[c]] \ call[c].todo :
              Risk[Key(AppOf[c], m)] = "read"
    /\ call[c].at = "check" => call[c].on \in Command
    /\ call[c].at \in {"render", "running"} => call[c].todo = {}

(* An answer is that of the executable in its key, and whoever asks for    *)
(* one waits for it.                                                       *)
ChecksFit ==
  \A k \in Executable \X Command :
    /\ check[k].by = Nothing => check[k].risk = "none"
    /\ check[k].by # Nothing => ExecutableOf[AppOf[check[k].by]] = k[1]
    /\ check[k].risk # "none" => check[k].risk = Risk[k]
    /\ check[k].by # Nothing /\ check[k].risk = "none" => check[k].by \in Asking(k)

LarkInv == LarkTypeOK /\ EntriesFit /\ HomesBound /\ CallsFit /\ ChecksFit

LEMMA LarkConstants ==
  ASSUME NEW c \in Call
  PROVE  /\ c # Nothing /\ AppOf[c] \in App /\ Operations[AppOf[c]] \subseteq Command
         /\ ExecutableOf[AppOf[c]] \in Executable
         /\ \A m \in Command :
              /\ Key(AppOf[c], m) \in Executable \X Command
              /\ Key(AppOf[c], m)[1] = ExecutableOf[AppOf[c]]
              /\ Key(AppOf[c], m)[2] = m
BY LarkCliAssumption DEF Key

LEMMA PairOfParts ==
  ASSUME NEW k \in Executable \X Command
  PROVE  k[1] \in Executable /\ k[2] \in Command /\ k = <<k[1], k[2]>>
OBVIOUS

LEMMA LarkInvInit == LarkInit => LarkInv
<1>. SUFFICES ASSUME LarkInit  PROVE LarkInv
  OBVIOUS
<1>1. LarkTypeOK
  BY DEF LarkInit, LarkTypeOK, Settings, Processes, LarkStages, Unasked, Untouched, CallStates, Checks
<1>2. EntriesFit /\ HomesBound /\ CallsFit /\ ChecksFit
  BY DEF LarkInit, EntriesFit, HomesBound, CallsFit, ChecksFit, Unasked, Untouched
<1>. QED  BY <1>1, <1>2 DEF LarkInv

(* The map of profiles stays, or loses entries, and nothing in it fails.   *)
LEMMA EntriesStay ==
  ASSUME LarkInv,
         \A a \in App : entry'[a] \in {entry[a], Nothing},
         \A a \in App : entry'[a] # Nothing /\ init[entry[a]] \in Processes
                          => init'[entry[a]] \in Processes \cup {"ok"},
         \A a \in App : entry'[a] # Nothing /\ init[entry[a]] = "ok"
                          => init'[entry[a]] = "ok"
  PROVE  EntriesFit'
BY DEF LarkInv, EntriesFit

(* Whoever asks goes on asking.                                            *)
LEMMA AskersStay ==
  ASSUME LarkInv, check' = check,
         \A d \in Call : call[d].at = "check" => call'[d] = call[d]
  PROVE  ChecksFit'
<1>1. ASSUME NEW k \in Executable \X Command
      PROVE  Asking(k) \subseteq Asking(k)'
  BY <1>1 DEF Asking
<1>. QED  BY <1>1 DEF LarkInv, ChecksFit

(* A call begins or ends without a check and without waiting.              *)
LEMMA CallsStay ==
  ASSUME LarkInv, UNCHANGED <<home, init>>,
         \A d \in Call : call'[d] = call[d] \/ call'[d].at \in {"idle", "done", "failed"}
  PROVE  CallsFit'
<1>. \A d \in Call : AppOf[d] \in App
  BY LarkConstants
<1>. QED  BY DEF LarkInv, CallsFit, Bound, Key

LEMMA Joined ==
  ASSUME LarkInv, NEW c \in Call, Join(c)
  PROVE  LarkInv'
<1>. DEFINE a == AppOf[c]
<1>0. a \in App /\ entry[a] \in Call /\ entry[a] # Nothing /\ AppOf[entry[a]] = a
  BY LarkConstants DEF LarkInv, LarkTypeOK, EntriesFit, Join
<1>1. PICK w : /\ call' = [call EXCEPT ![c] = w]
               /\ \/ w = Profiled(c) /\ init[entry[a]] = "ok"
                  \/ w = Ended("failed")
                  \/ /\ w = [Untouched EXCEPT !.at = "profile", !.on = entry[a]]
                     /\ init[entry[a]] \in Processes
  BY <1>0 DEF Join, LarkInv, EntriesFit
<1>2. LarkTypeOK'
  <2>1. w \in CallStates
    <3>1. CASE w = Profiled(c)
      BY <3>1, LarkConstants DEF Profiled, CallStates, LarkStages
    <3>2. CASE w = Ended("failed")
      BY <3>2 DEF Ended, CallStates, LarkStages
    <3>3. CASE w = [Untouched EXCEPT !.at = "profile", !.on = entry[a]]
      BY <1>0, <3>3 DEF Untouched, CallStates, LarkStages
    <3>. QED  BY <1>1, <3>1, <3>2, <3>3
  <2>2. call' \in [Call -> CallStates]
    BY <1>1, <2>1 DEF LarkInv, LarkTypeOK
  <2>. QED  BY <2>2 DEF LarkInv, LarkTypeOK, Join
<1>3. EntriesFit'
  BY EntriesStay DEF Join
<1>4. HomesBound'
  BY DEF Join, LarkInv, HomesBound, Bound
<1>5. CallsFit'
  <2>1. Bound(a) \/ init[entry[a]] # "ok"
    BY <1>0 DEF LarkInv, HomesBound
  <2>2. call'[c] = w /\ \A d \in Call : d # c => call'[d] = call[d]
    BY <1>1 DEF LarkInv, LarkTypeOK
  <2>3. UNCHANGED <<home, init>>
    BY DEF Join
  <2>4. /\ w.at = "profile" => /\ w.on \in Call /\ AppOf[w.on] = a
                               /\ init[w.on] \in Processes
        /\ w.at \in {"risks", "check", "render", "running"} =>
             w.at = "risks" /\ Bound(a) /\ w.todo = Operations[a]
    <3>1. CASE w = Profiled(c) /\ init[entry[a]] = "ok"
      BY <2>1, <3>1 DEF Profiled
    <3>2. CASE w = Ended("failed")
      BY <3>2 DEF Ended
    <3>3. CASE /\ w = [Untouched EXCEPT !.at = "profile", !.on = entry[a]]
               /\ init[entry[a]] \in Processes
      <4>1. w.at = "profile" /\ w.on = entry[a]
        BY <3>3 DEF Untouched
      <4>. QED  BY <1>0, <3>3, <4>1
    <3>. QED  BY <1>1, <3>1, <3>2, <3>3
  <2>. QED  BY <2>2, <2>3, <2>4 DEF LarkInv, CallsFit, Bound, Key
<1>6. ChecksFit'
  BY <1>1, AskersStay DEF Join, LarkInv, LarkTypeOK
<1>. QED  BY <1>2, <1>3, <1>4, <1>5, <1>6 DEF LarkInv

LEMMA Initialized ==
  ASSUME LarkInv, NEW c \in Call, Initialize(c)
  PROVE  LarkInv'
<1>. DEFINE a == AppOf[c]
<1>0. a \in App /\ c # Nothing
  BY LarkConstants
<1>1. LarkTypeOK'
  BY <1>0 DEF LarkInv, LarkTypeOK, Initialize, Untouched, LarkStages, Processes, CallStates
<1>2. EntriesFit'
  BY <1>0 DEF LarkInv, LarkTypeOK, EntriesFit, Initialize, Processes
<1>3. HomesBound'
  BY DEF LarkInv, LarkTypeOK, HomesBound, Bound, Initialize
<1>4. CallsFit'
  BY <1>0 DEF LarkInv, LarkTypeOK, CallsFit, Bound, Initialize, Untouched, Processes, Key
<1>5. ChecksFit'
  BY AskersStay DEF LarkInv, LarkTypeOK, Initialize
<1>. QED  BY <1>1, <1>2, <1>3, <1>4, <1>5 DEF LarkInv

LEMMA Expired ==
  ASSUME LarkInv, NEW a \in App, Expire(a)
  PROVE  LarkInv'
<1>1. LarkTypeOK'
  BY DEF LarkInv, LarkTypeOK, Expire
<1>2. EntriesFit' /\ HomesBound' /\ CallsFit' /\ ChecksFit'
  BY EntriesStay, CallsStay, AskersStay
  DEF Expire, LarkInv, LarkTypeOK, HomesBound, Bound
<1>. QED  BY <1>1, <1>2 DEF LarkInv

(* A process of the program, whether it succeeds or not, unmakes nothing.  *)
LEMMA EffectsOnlyAdd ==
  ASSUME NEW h \in Settings, NEW process
  PROVE  /\ Effect(h, process) \in Settings
         /\ h.strict => Effect(h, process).strict
         /\ h.bot => Effect(h, process).bot
         /\ process = "strict" => Effect(h, process).strict
         /\ process = "bot" => Effect(h, process).bot
BY DEF Effect, Settings

LEMMA InitStepped ==
  ASSUME LarkInv, NEW c \in Call, InitStep(c)
  PROVE  LarkInv'
<1>. DEFINE a == AppOf[c]
            next == After(home[a], init[c])
<1>0. /\ a \in App /\ home[a] \in Settings /\ init[c] \in Processes
      /\ init' = [init EXCEPT ![c] = next]
      /\ home' = [home EXCEPT ![a] = Effect(home[a], init[c])]
      /\ UNCHANGED <<entry, current, check, aborted>>
  BY LarkConstants DEF LarkInv, LarkTypeOK, InitStep
<1>1. /\ next \in Processes \cup {"ok"}
      /\ next = "bot" => init[c] = "strict"
      /\ next = "ok" => init[c] = "bot"
  BY <1>0 DEF After, Processes
<1>2. /\ home' \in [App -> Settings]
      /\ \A b \in App : /\ home[b].strict => home'[b].strict
                        /\ home[b].bot => home'[b].bot
      /\ init[c] = "strict" => home'[a].strict
      /\ init[c] = "bot" => home'[a].bot
  BY <1>0, EffectsOnlyAdd DEF LarkInv, LarkTypeOK
<1>. HIDE DEF next
<1>3. init'[c] = next /\ \A d \in Call : d # c => init'[d] = init[d]
  BY <1>0 DEF LarkInv, LarkTypeOK
<1>4. HomesBound'
  BY <1>0, <1>1, <1>2, <1>3, LarkConstants DEF LarkInv, LarkTypeOK, HomesBound, Bound
<1>5. \A d \in Call : IF call[d].at = "profile" /\ call[d].on = c /\ next = "ok"
                      THEN call'[d] = Profiled(d) ELSE call'[d] = call[d]
  BY <1>3 DEF InitStep, Waiting
<1>6. LarkTypeOK'
  <2>1. \A d \in Call : Profiled(d) \in CallStates
    BY LarkConstants DEF Profiled, CallStates, LarkStages
  <2>2. call' \in [Call -> CallStates]
    BY <2>1 DEF InitStep, LarkInv, LarkTypeOK
  <2>. QED  BY <1>0, <1>1, <1>2, <2>2 DEF LarkInv, LarkTypeOK
<1>7. EntriesFit'
  BY <1>0, <1>1, <1>3 DEF LarkInv, LarkTypeOK, EntriesFit
<1>8. CallsFit'
  <2>. SUFFICES ASSUME NEW d \in Call
                PROVE  /\ call'[d].at = "profile" =>
                            /\ call'[d].on \in Call /\ AppOf[call'[d].on] = AppOf[d]
                            /\ init'[call'[d].on] \in Processes
                       /\ call'[d].at \in {"risks", "check", "render", "running"} =>
                            /\ Bound(AppOf[d])'
                            /\ \A m \in Operations[AppOf[d]] \ call'[d].todo :
                                 Risk[Key(AppOf[d], m)] = "read"
                       /\ call'[d].at = "check" => call'[d].on \in Command
                       /\ call'[d].at \in {"render", "running"} => call'[d].todo = {}
    BY DEF CallsFit, Key
  <2>1. CASE call[d].at = "profile" /\ call[d].on = c /\ next = "ok"
    <3>1. AppOf[d] = a /\ Bound(a)'
      BY <1>0, <1>1, <1>2, <1>3, <1>4, <2>1 DEF LarkInv, CallsFit, HomesBound
    <3>2. call'[d] = Profiled(d)
      BY <1>5, <2>1
    <3>. QED  BY <3>1, <3>2 DEF Profiled, Bound
  <2>2. CASE ~(call[d].at = "profile" /\ call[d].on = c /\ next = "ok")
    <3>1. call'[d] = call[d] /\ AppOf[d] \in App
      BY <1>5, <2>2, LarkConstants
    <3>2. Bound(AppOf[d]) => Bound(AppOf[d])'
      BY <1>2, <3>1 DEF Bound
    <3>. QED  BY <1>1, <1>3, <2>2, <3>1, <3>2 DEF LarkInv, CallsFit
  <2>. QED  BY <2>1, <2>2
<1>9. ChecksFit'
  BY <1>0, <1>5, AskersStay
<1>. QED  BY <1>4, <1>6, <1>7, <1>8, <1>9 DEF LarkInv

LEMMA InitFailed ==
  ASSUME LarkInv, NEW c \in Call, InitFails(c)
  PROVE  LarkInv'
<1>. DEFINE a == AppOf[c]
<1>0. /\ a \in App /\ home[a] \in Settings /\ init[c] \in Processes
      /\ init' = [init EXCEPT ![c] = "failed"]
      /\ entry' = [entry EXCEPT ![a] = Nothing] /\ current' = current \ {a}
      /\ UNCHANGED <<check, aborted>>
  BY LarkConstants DEF LarkInv, LarkTypeOK, InitFails
<1>1. /\ home' \in [App -> Settings]
      /\ \A b \in App : /\ home[b].strict => home'[b].strict
                        /\ home[b].bot => home'[b].bot
  <2>1. CASE home' = home
    BY <2>1 DEF LarkInv, LarkTypeOK
  <2>2. CASE home' = [home EXCEPT ![a] = Effect(@, init[c])]
    BY <1>0, <2>2, EffectsOnlyAdd DEF LarkInv, LarkTypeOK
  <2>. QED  BY <2>1, <2>2 DEF InitFails
<1>2. \A d \in Call : IF call[d].at = "profile" /\ call[d].on = c
                      THEN call'[d] = Ended("failed") ELSE call'[d] = call[d]
  BY DEF InitFails, Waiting
<1>3. init'[c] = "failed" /\ \A d \in Call : d # c => init'[d] = init[d]
  BY <1>0 DEF LarkInv, LarkTypeOK
<1>4. LarkTypeOK'
  <2>1. call' \in [Call -> CallStates]
    BY DEF InitFails, LarkInv, LarkTypeOK, Ended, LarkStages, CallStates
  <2>. QED  BY <1>0, <1>1, <2>1 DEF LarkInv, LarkTypeOK
<1>5. EntriesFit'
  BY <1>0, <1>3 DEF LarkInv, LarkTypeOK, EntriesFit
<1>6. HomesBound'
  BY <1>0, <1>1, <1>3, LarkConstants
  DEF LarkInv, LarkTypeOK, HomesBound, Bound, Processes
<1>7. CallsFit'
  BY <1>1, <1>2, <1>3, LarkConstants DEF LarkInv, CallsFit, Bound, Ended, Key
<1>8. ChecksFit'
  BY <1>0, <1>2, AskersStay
<1>. QED  BY <1>4, <1>5, <1>6, <1>7, <1>8 DEF LarkInv

(* A command that the program calls a read is checked, any other ends the  *)
(* call.                                                                   *)
LEMMA ComparedRight ==
  ASSUME LarkInv, NEW c \in Call, NEW m \in Command, call[c].at \in {"risks", "check"},
         NEW risk, risk = Risk[Key(AppOf[c], m)]
  PROVE  LET w == Compared(c, m, risk)
         IN  /\ w \in CallStates
             /\ w.at \in {"risks", "failed"}
             /\ w.at = "risks" => /\ Bound(AppOf[c])
                                  /\ \A n \in Operations[AppOf[c]] \ w.todo :
                                       Risk[Key(AppOf[c], n)] = "read"
<1>1. CASE risk = "read"
  BY <1>1 DEF Compared, LarkInv, LarkTypeOK, CallsFit, LarkStages, CallStates
<1>2. CASE risk # "read"
  BY <1>2 DEF Compared, Ended, CallStates, LarkStages
<1>. QED  BY <1>1, <1>2

LEMMA Asked ==
  ASSUME LarkInv, NEW c \in Call, NEW m \in Command, Ask(c, m)
  PROVE  LarkInv'
<1>. DEFINE k == Key(AppOf[c], m)
            w == Compared(c, m, check[k].risk)
<1>0. /\ k \in Executable \X Command /\ k[1] = ExecutableOf[AppOf[c]] /\ k[2] = m
      /\ c # Nothing
  BY LarkConstants
<1>1. /\ call[c].at = "risks" /\ m \in call[c].todo
      /\ UNCHANGED <<home, entry, current, init, aborted>>
  BY DEF Ask
<1>. HIDE DEF k
<1>2. CASE check[k].risk # "none"
  <2>1. check' = check /\ call' = [call EXCEPT ![c] = w]
    BY <1>2 DEF Ask, Unasked, k
  <2>2. check[k].risk = Risk[Key(AppOf[c], m)]
    BY <1>0, <1>2 DEF LarkInv, ChecksFit, k
  <2>3. /\ w \in CallStates
        /\ w.at \in {"risks", "failed"}
        /\ w.at = "risks" => /\ Bound(AppOf[c])
                             /\ \A n \in Operations[AppOf[c]] \ w.todo :
                                  Risk[Key(AppOf[c], n)] = "read"
    BY <1>1, <2>2, ComparedRight
  <2>. HIDE DEF w
  <2>4. LarkTypeOK'
    BY <1>1, <2>1, <2>3 DEF LarkInv, LarkTypeOK
  <2>5. EntriesFit' /\ HomesBound'
    BY <1>1 DEF LarkInv, EntriesFit, HomesBound, Bound
  <2>6. CallsFit'
    BY <1>1, <2>1, <2>3 DEF LarkInv, LarkTypeOK, CallsFit, Bound, Key
  <2>7. ChecksFit'
    BY <1>1, <2>1, AskersStay DEF LarkInv, LarkTypeOK
  <2>. QED  BY <2>4, <2>5, <2>6, <2>7 DEF LarkInv
<1>3. CASE check[k].risk = "none"
  <2>1. /\ call' = [call EXCEPT ![c] = [call[c] EXCEPT !.at = "check", !.on = m]]
        /\ check' = IF check[k] = Unasked THEN [check EXCEPT ![k].by = c] ELSE check
    BY <1>3 DEF Ask, k
  <2>2. check[k] = Unasked <=> check[k].by = Nothing
    BY <1>0, <1>3 DEF LarkInv, LarkTypeOK, Unasked, Checks
  <2>3. /\ call'[c].at = "check" /\ call'[c].on = m /\ call'[c].todo = call[c].todo
        /\ \A d \in Call : d # c => call'[d] = call[d]
    BY <2>1 DEF LarkInv, LarkTypeOK
  <2>4. /\ check[k].by = Nothing => check'[k] = [check[k] EXCEPT !.by = c]
        /\ check[k].by # Nothing => check'[k] = check[k]
        /\ \A x \in Executable \X Command : x # k => check'[x] = check[x]
    BY <1>0, <2>1, <2>2 DEF LarkInv, LarkTypeOK
  <2>5. LarkTypeOK'
    <3>1. call' \in [Call -> CallStates]
      BY <2>1 DEF LarkInv, LarkTypeOK, LarkStages, CallStates
    <3>2. check' \in [Executable \X Command -> Checks]
      BY <1>0, <2>1 DEF LarkInv, LarkTypeOK, Checks
    <3>. QED  BY <1>1, <3>1, <3>2 DEF LarkInv, LarkTypeOK
  <2>6. EntriesFit' /\ HomesBound'
    BY <1>1 DEF LarkInv, EntriesFit, HomesBound, Bound
  <2>7. CallsFit'
    BY <1>1, <2>3 DEF LarkInv, CallsFit, Bound, Key
  <2>8. ChecksFit'
    <3>. SUFFICES ASSUME NEW x \in Executable \X Command
                  PROVE  /\ check'[x].by = Nothing => check'[x].risk = "none"
                         /\ check'[x].by # Nothing => ExecutableOf[AppOf[check'[x].by]] = x[1]
                         /\ check'[x].risk # "none" => check'[x].risk = Risk[x]
                         /\ check'[x].by # Nothing /\ check'[x].risk = "none"
                              => check'[x].by \in Asking(x)'
      BY DEF ChecksFit
    <3>1. Asking(x) \subseteq Asking(x)' /\ c \in Asking(k)'
      <4>1. ASSUME NEW d \in Asking(x)
            PROVE  d \in Asking(x)'
        BY <1>1, <2>3, <4>1 DEF Asking, Key
      <4>2. c \in Asking(k)'
        BY <2>3 DEF Asking, Key, k
      <4>. QED  BY <4>1, <4>2
    <3>2. /\ check[x].by = Nothing => check[x].risk = "none"
          /\ check[x].by # Nothing => ExecutableOf[AppOf[check[x].by]] = x[1]
          /\ check[x].risk # "none" => check[x].risk = Risk[x]
          /\ check[x].by # Nothing /\ check[x].risk = "none" => check[x].by \in Asking(x)
      BY DEF LarkInv, ChecksFit
    <3>3. check[x] \in Checks
      BY DEF LarkInv, LarkTypeOK
    <3>4. CASE x = k /\ check[k].by = Nothing
      <4>1. check'[x].by = c /\ check'[x].risk = "none"
        BY <1>3, <2>4, <3>3, <3>4 DEF Checks
      <4>. QED  BY <1>0, <3>1, <3>4, <4>1
    <3>5. CASE ~(x = k /\ check[k].by = Nothing)
      BY <2>4, <3>1, <3>2, <3>5
    <3>. QED  BY <3>4, <3>5
  <2>. QED  BY <2>5, <2>6, <2>7, <2>8 DEF LarkInv
<1>. QED  BY <1>2, <1>3

LEMMA CheckEnded ==
  ASSUME LarkInv, NEW k \in Executable \X Command, CheckEnds(k)
  PROVE  LarkInv'
<1>. DEFINE risk == Reported(k)
            w(c) == Compared(c, k[2], risk)
<1>1. /\ check[k].by \in Call /\ ExecutableOf[AppOf[check[k].by]] = k[1]
      /\ k[2] \in Command /\ k = <<k[1], k[2]>>
  BY PairOfParts DEF CheckEnds, LarkInv, LarkTypeOK, ChecksFit, Checks
<1>2. risk = Risk[k] /\ risk \in {"read", "write"}
  <2>1. risk = Risk[Key(AppOf[check[k].by], k[2])] /\ Key(AppOf[check[k].by], k[2]) = k
    BY <1>1 DEF Reported, Key
  <2>. QED  BY <1>1, <2>1, LarkCliAssumption DEF CheckEnds
<1>3. ASSUME NEW c \in Call, c \in Asking(k)
      PROVE  /\ call[c].at = "check" /\ Key(AppOf[c], k[2]) = k
             /\ w(c) \in CallStates
             /\ w(c).at \in {"risks", "failed"}
             /\ w(c).at = "risks" => /\ Bound(AppOf[c])
                                     /\ \A n \in Operations[AppOf[c]] \ w(c).todo :
                                          Risk[Key(AppOf[c], n)] = "read"
  <2>1. call[c].at = "check" /\ call[c].on \in Command /\ Key(AppOf[c], call[c].on) = k
    BY <1>3 DEF Asking, LarkInv, CallsFit
  <2>2. k[2] = call[c].on
    BY <2>1, LarkConstants
  <2>. QED  BY <1>1, <1>2, <2>1, <2>2, ComparedRight
<1>4. /\ \A c \in Call : call'[c] = IF c \in Asking(k) THEN w(c) ELSE call[c]
      /\ check'[k] = [check[k] EXCEPT !.risk = risk]
      /\ \A x \in Executable \X Command : x # k => check'[x] = check[x]
      /\ UNCHANGED <<home, entry, current, init, aborted>>
  BY DEF CheckEnds, LarkInv, LarkTypeOK
<1>5. LarkTypeOK'
  <2>1. call' \in [Call -> CallStates]
    BY <1>3 DEF CheckEnds, LarkInv, LarkTypeOK
  <2>2. check' \in [Executable \X Command -> Checks]
    BY <1>2 DEF CheckEnds, LarkInv, LarkTypeOK, Checks
  <2>. QED  BY <1>4, <2>1, <2>2 DEF LarkInv, LarkTypeOK
<1>. HIDE DEF risk, w
<1>6. EntriesFit' /\ HomesBound'
  BY <1>4 DEF LarkInv, EntriesFit, HomesBound, Bound
<1>7. CallsFit'
  BY <1>3, <1>4 DEF LarkInv, CallsFit, Bound, Key
<1>8. ChecksFit'
  <2>1. ASSUME NEW x \in Executable \X Command, x # k
        PROVE  Asking(x) \subseteq Asking(x)'
    BY <1>4, <2>1 DEF Asking
  <2>2. check[k] \in Checks
    BY DEF LarkInv, LarkTypeOK
  <2>3. /\ check'[k].by = check[k].by /\ check'[k].risk = Risk[k]
        /\ check'[k].risk # "none"
    BY <1>2, <1>4, <2>2
  <2>. SUFFICES ASSUME NEW x \in Executable \X Command
                PROVE  /\ check'[x].by = Nothing => check'[x].risk = "none"
                       /\ check'[x].by # Nothing => ExecutableOf[AppOf[check'[x].by]] = x[1]
                       /\ check'[x].risk # "none" => check'[x].risk = Risk[x]
                       /\ check'[x].by # Nothing /\ check'[x].risk = "none"
                            => check'[x].by \in Asking(x)'
    BY DEF ChecksFit
  <2>4. CASE x = k
    BY <1>1, <2>3, <2>4, LarkConstants
  <2>5. CASE x # k
    <3>1. check'[x] = check[x] /\ Asking(x) \subseteq Asking(x)'
      BY <1>4, <2>1, <2>5
    <3>. QED  BY <3>1 DEF LarkInv, ChecksFit
  <2>. QED  BY <2>4, <2>5
<1>. QED  BY <1>5, <1>6, <1>7, <1>8 DEF LarkInv

LEMMA CheckFailed ==
  ASSUME LarkInv, NEW k \in Executable \X Command, CheckFails(k)
  PROVE  LarkInv'
<1>1. /\ \A c \in Call : call'[c] = IF c \in Asking(k) THEN Ended("failed") ELSE call[c]
      /\ check'[k] = Unasked
      /\ \A x \in Executable \X Command : x # k => check'[x] = check[x]
      /\ UNCHANGED <<home, entry, current, init, aborted>>
  BY DEF CheckFails, LarkInv, LarkTypeOK
<1>2. LarkTypeOK'
  <2>1. call' \in [Call -> CallStates]
    BY DEF CheckFails, LarkInv, LarkTypeOK, Ended, LarkStages, CallStates
  <2>2. check' \in [Executable \X Command -> Checks]
    BY DEF CheckFails, LarkInv, LarkTypeOK, Unasked, Checks
  <2>. QED  BY <1>1, <2>1, <2>2 DEF LarkInv, LarkTypeOK
<1>3. EntriesFit' /\ HomesBound'
  BY <1>1 DEF LarkInv, EntriesFit, HomesBound, Bound
<1>4. CallsFit'
  BY <1>1, CallsStay DEF Ended
<1>5. ChecksFit'
  <2>1. ASSUME NEW x \in Executable \X Command, x # k
        PROVE  Asking(x) \subseteq Asking(x)'
    BY <1>1, <2>1 DEF Asking
  <2>. QED  BY <1>1, <2>1 DEF LarkInv, ChecksFit, Unasked
<1>. QED  BY <1>2, <1>3, <1>4, <1>5 DEF LarkInv

LEMMA Operated ==
  ASSUME LarkInv, NEW c \in Call, Checked(c) \/ Render(c) \/ Finish(c) \/ Abort(c)
  PROVE  LarkInv'
<1>1. UNCHANGED <<home, entry, current, init, check>>
  BY DEF Checked, Render, Finish, Abort
<1>2. /\ \A d \in Call : d # c => call'[d] = call[d]
      /\ \/ call'[c] = call[c]
         \/ /\ call[c].at # "check" /\ call'[c] \in {Ended("done"), Ended("failed")}
         \/ /\ call[c].at \in {"risks", "render"} /\ call[c].todo = {}
            /\ call'[c] = [call[c] EXCEPT !.at = call'[c].at]
            /\ call'[c].at \in {"render", "running"}
  BY DEF Checked, Render, Finish, Abort, LarkInv, LarkTypeOK, CallsFit, CallStates
<1>3. LarkTypeOK'
  <2>1. /\ aborted' \subseteq Signalled
        /\ call' \in [Call -> CallStates]
    BY DEF Checked, Render, Finish, Abort, LarkInv, LarkTypeOK, Ended, LarkStages, CallStates
  <2>. QED  BY <1>1, <2>1 DEF LarkInv, LarkTypeOK
<1>4. EntriesFit' /\ HomesBound'
  BY <1>1 DEF LarkInv, EntriesFit, HomesBound, Bound
<1>5. CallsFit'
  BY <1>1, <1>2 DEF LarkInv, LarkTypeOK, CallsFit, Bound, Ended, Key, CallStates
<1>6. ChecksFit'
  BY <1>1, <1>2, AskersStay
<1>. QED  BY <1>3, <1>4, <1>5, <1>6 DEF LarkInv

LEMMA ProgramDies ==
  ASSUME LarkInv, Crash
  PROVE  LarkInv'
<1>1. /\ \A a \in App : entry'[a] = Nothing
      /\ \A k \in Executable \X Command : check'[k] = Unasked
      /\ \A c \in Call : init'[c] = "ok" => init[c] = "ok"
      /\ \A c \in Call : init'[c] # "bot"
      /\ \A c \in Call : call'[c].at \in {"idle", "done", "failed"}
      /\ UNCHANGED home
  BY DEF Crash, LarkInv, LarkTypeOK, Going, Ended, Processes
<1>2. LarkTypeOK'
  BY DEF Crash, LarkInv, LarkTypeOK, Going, Ended, LarkStages, Unasked, CallStates, Checks
<1>3. EntriesFit' /\ HomesBound' /\ CallsFit' /\ ChecksFit'
  BY <1>1 DEF LarkInv, EntriesFit, HomesBound, CallsFit, ChecksFit, Bound, Unasked
<1>. QED  BY <1>2, <1>3 DEF LarkInv

LEMMA LarkInvHolds == LarkSpec => []LarkInv
<1>1. LarkInv /\ [LarkNext]_larkVars => LarkInv'
  <2>. SUFFICES ASSUME LarkInv, [LarkNext]_larkVars  PROVE LarkInv'
    OBVIOUS
  <2>1. CASE UNCHANGED larkVars
    <3>1. LarkTypeOK' /\ EntriesFit' /\ HomesBound' /\ CallsFit' /\ ChecksFit'
      BY <2>1, EntriesStay, CallsStay, AskersStay
      DEF larkVars, LarkInv, LarkTypeOK, HomesBound, Bound
    <3>. QED  BY <3>1 DEF LarkInv
  <2>. QED  BY <2>1, Joined, Initialized, InitStepped, InitFailed, Operated, Asked,
               Expired, CheckEnded, CheckFailed, ProgramDies DEF LarkNext
<1>. QED  BY <1>1, LarkInvInit, PTL DEF LarkSpec

(* Profiles, settings, answers and calls keep their types, for any Apps,   *)
(* executables, commands and calls (tools/lark-cli.ts).                    *)
THEOREM LarkCliTypes == LarkSpec => []LarkTypeOK
BY LarkInvHolds, PTL DEF LarkInv

(* A command runs only in a home directory bound to the bot identity, by   *)
(* a program that calls every command of the App a read, whichever call    *)
(* made the profile or asked for the risk and wherever a process died      *)
(* (runLarkCliOperation(), ensureLarkCliProfile()).                        *)
THEOREM CommandsOnlyRead == LarkSpec => []RunsBoundAndReading
<1>1. ASSUME LarkInv
      PROVE  RunsBoundAndReading
  BY <1>1 DEF LarkInv, CallsFit, Bound, Key, RunsBoundAndReading
<1>. QED  BY <1>1, LarkInvHolds, PTL

(* Neither a failed initialization nor a failed question is served to a    *)
(* later call (profileInitializations, commandRiskChecks).                 *)
THEOREM FailuresAreForgotten == LarkSpec => []NoFailureStays
<1>1. ASSUME LarkInv
      PROVE  NoFailureStays
  BY <1>1 DEF LarkInv, EntriesFit, ChecksFit, NoFailureStays
<1>. QED  BY <1>1, LarkInvHolds, PTL
=============================================================================
