----------------------- MODULE SessionRegistryProofs -----------------------
(***************************************************************************)
(* For any number of turns, conversations and runtimes: the budget of      *)
(* resident Workers holds, the reservations of a runtime count exactly who *)
(* uses it, and a runtime in use is never evicted as idle.                 *)
(***************************************************************************)
EXTENDS SessionRegistry, FiniteSetTheorems, TLAPS

EntryRecord ==
  [stage : Stages, conv : Conversation \cup {None}, reservations : Nat,
   after : Entry \cup {None}, disposing : BOOLEAN, leased : BOOLEAN,
   worker : {"none", "live", "dead", "closing"}, context : Turn \cup {None},
   streaming : BOOLEAN]

TurnRecord == [pc : TurnPCs, at : Entry \cup {None}, attached : BOOLEAN]

AbortRecord ==
  [pc : {"none", "await", "asked", "evicting"}, at : Entry \cup {None}]

Rest ==
  /\ sessions \in [Conversation -> Entry \cup {None}]
  /\ reset \in [Conversation ->
       [pc : {"none", "disposing", "removing"}, at : Entry \cup {None}]]
  /\ stopped \in BOOLEAN
  /\ upsets \in 0 .. MaxUpsets
  /\ missed \in BOOLEAN
  /\ maxResident \in Limits

Using == {"await", "preparing", "streaming", "evicting"}

Waiting == {"waitPredecessor", "leaseWait", "leaseAsk", "leaseRefused",
            "leaseSleep", "leaseEvict"}

(* An abort is of a conversation.                                          *)
LEMMA TargetType == ASSUME NEW a \in Aborter PROVE Target(a) \in Conversation
  BY RegistryAssumption DEF Aborter, Target

(* Whoever uses a runtime refers to an entry.                              *)
AtInv ==
  /\ \A t \in Turn : turn[t].pc \in Using \cup {"replacing"} => turn[t].at \in Entry
  /\ \A c \in Aborter : abort[c].pc = "none" <=> abort[c].at = None

(* A Worker exists only under the lease of a startup that came that far,   *)
(* and is closed only by a disposal.                                       *)
WorkerOf(e) ==
  /\ entry[e].stage \in {"starting", "discarding", "ready"} => entry[e].leased
  /\ entry[e].worker # "none" => entry[e].stage \in {"discarding", "ready"}
  /\ entry[e].worker = "live" => entry[e].stage = "ready"
  /\ entry[e].worker = "closing" => entry[e].disposing

WorkerInv == \A e \in Entry : WorkerOf(e)

(* What the map holds is on its way up or ready, is of that conversation   *)
(* and is not being disposed of; and an abort is of the conversation whose *)
(* runtime it found.                                                       *)
MapInv ==
  /\ \A c \in Conversation, e \in Entry : sessions[c] = e =>
       ~Inert(e) /\ ~entry[e].disposing /\ entry[e].conv = c
  /\ \A c \in Aborter, e \in Entry : abort[c].at = e =>
       Inert(e) \/ entry[e].conv = Target(c)

Balanced(e) ==
  Mapped(e) =>
    entry[e].reservations = Cardinality(Users(e)) + Cardinality(Aborters(e))

IInv ==
  /\ TypeOK /\ AtInv /\ WorkerInv /\ MapInv
  /\ Cardinality(Leased) <= Capacity
  /\ \A e \in Entry : Balanced(e)

-----------------------------------------------------------------------------
(* What the helpers on entries do to one entry.                            *)
LEMMA Records ==
  TypeOK => /\ entry \in [Entry -> EntryRecord] /\ turn \in [Turn -> TurnRecord]
            /\ abort \in [Aborter -> AbortRecord] /\ Rest
  BY DEF TypeOK, EntryRecord, TurnRecord, AbortRecord, Rest

LEMMA RecordsAfter ==
  ASSUME entry' \in [Entry -> EntryRecord], turn' \in [Turn -> TurnRecord],
         abort' \in [Aborter -> AbortRecord], Rest'
  PROVE  TypeOK'
  BY DEF TypeOK, EntryRecord, TurnRecord, AbortRecord, Rest

LEMMA UpsetCounted ==
  Rest /\ Upset => /\ upsets' \in 0 .. MaxUpsets
                   /\ UNCHANGED <<missed, maxResident>>
  BY RegistryAssumption DEF Rest, Upset

LEMMA NotifyFields ==
  ASSUME NEW E \in [Entry -> EntryRecord]
  PROVE  /\ Notify(E) \in [Entry -> EntryRecord]
         /\ \A x \in Entry :
              Notify(E)[x] = IF E[x].stage = "leaseSleep"
                             THEN [E[x] EXCEPT !.stage = "leaseWait"] ELSE E[x]
  BY DEF Notify, EntryRecord, Stages

LEMMA DisposeFields ==
  ASSUME NEW E \in [Entry -> EntryRecord], NEW e
  PROVE  /\ Dispose(E, e) \in [Entry -> EntryRecord]
         /\ \A x \in Entry :
              Dispose(E, e)[x] = IF x = e /\ ~Inert(x)
                                 THEN [E[x] EXCEPT !.disposing = TRUE] ELSE E[x]
  BY DEF Dispose, EntryRecord

(* Two records of an entry that is as far as it was, and no less in use of *)
(* a lease or a Worker.                                                    *)
AsFar(a, b) ==
  /\ b.conv = a.conv /\ b.leased = a.leased /\ b.worker = a.worker
  /\ \/ b.stage = a.stage
     \/ a.stage \in Waiting /\ b.stage \in Waiting

LEMMA NotifyAsFar ==
  ASSUME NEW E \in [Entry -> EntryRecord], NEW x \in Entry
  PROVE  /\ AsFar(E[x], Notify(E)[x])
         /\ Notify(E)[x].disposing = E[x].disposing
         /\ Notify(E)[x].reservations = E[x].reservations
<1>1. E[x] \in EntryRecord
  OBVIOUS
<1>2. CASE E[x].stage = "leaseSleep"
  <2>1. Notify(E)[x] = [E[x] EXCEPT !.stage = "leaseWait"]
    BY <1>2, NotifyFields
  <2> QED
    BY <1>1, <1>2, <2>1 DEF AsFar, Waiting, EntryRecord
<1>3. CASE E[x].stage # "leaseSleep"
  <2>1. Notify(E)[x] = E[x]
    BY <1>3, NotifyFields
  <2> QED
    BY <2>1 DEF AsFar
<1> QED
  BY <1>2, <1>3

LEMMA UnreserveFields ==
  ASSUME NEW E \in [Entry -> EntryRecord], NEW e \in Entry
  PROVE  /\ Unreserve(E, e) \in [Entry -> EntryRecord]
         /\ \A x \in Entry :
              /\ AsFar(E[x], Unreserve(E, e)[x])
              /\ Unreserve(E, e)[x].disposing = E[x].disposing
              /\ x # e \/ ~Mapped(e) =>
                   Unreserve(E, e)[x].reservations = E[x].reservations
         /\ Mapped(e) /\ E[e].reservations > 0 =>
              Unreserve(E, e)[e].reservations = E[e].reservations - 1
<1> DEFINE fewer == [E EXCEPT ![e].reservations = IF @ > 0 THEN @ - 1 ELSE 0]
<1>1. /\ fewer \in [Entry -> EntryRecord]
      /\ \A x \in Entry :
           /\ fewer[x].conv = E[x].conv /\ fewer[x].leased = E[x].leased
           /\ fewer[x].worker = E[x].worker /\ fewer[x].stage = E[x].stage
           /\ fewer[x].disposing = E[x].disposing
           /\ x # e => fewer[x].reservations = E[x].reservations
      /\ E[e].reservations > 0 => fewer[e].reservations = E[e].reservations - 1
  BY DEF EntryRecord
<1> HIDE DEF fewer
<1>2. CASE ~Mapped(e)
  <2>1. Unreserve(E, e) = E
    BY <1>2 DEF Unreserve
  <2> QED
    BY <1>2, <2>1 DEF AsFar
<1>3. CASE Mapped(e) /\ ~E[e].leased
  <2>1. Unreserve(E, e) = fewer
    BY <1>3 DEF Unreserve, fewer
  <2> QED
    BY <1>1, <1>3, <2>1 DEF AsFar
<1>4. CASE Mapped(e) /\ E[e].leased
  <2>1. Unreserve(E, e) = Notify(fewer)
    BY <1>4 DEF Unreserve, fewer
  <2>2. ASSUME NEW x \in Entry
        PROVE  /\ AsFar(fewer[x], Notify(fewer)[x])
               /\ Notify(fewer)[x].disposing = fewer[x].disposing
               /\ Notify(fewer)[x].reservations = fewer[x].reservations
    BY <1>1, NotifyAsFar
  <2>3. Notify(fewer) \in [Entry -> EntryRecord]
    BY <1>1, NotifyFields
  <2>4. ASSUME NEW x \in Entry
        PROVE  /\ AsFar(E[x], Notify(fewer)[x])
               /\ Notify(fewer)[x].disposing = E[x].disposing
               /\ x # e => Notify(fewer)[x].reservations = E[x].reservations
    BY <1>1, <2>2 DEF AsFar
  <2>5. E[e].reservations > 0 =>
          Notify(fewer)[e].reservations = E[e].reservations - 1
    BY <1>1, <2>2
  <2> QED
    BY <1>4, <2>1, <2>3, <2>4, <2>5
<1> QED
  BY <1>2, <1>3, <1>4

-----------------------------------------------------------------------------
(* Steps that take entries out of the map or leave it alone.  They may let *)
(* a startup wait for something else, dispose of what left the map, and    *)
(* point an abort to what its conversation has.                            *)
Frame ==
  /\ \A c \in Conversation, e \in Entry : sessions'[c] = e => sessions[c] = e
  /\ \A e \in Entry :
       /\ AsFar(entry[e], entry'[e])
       /\ \/ entry'[e].disposing = entry[e].disposing
          \/ entry'[e].disposing /\ ~Mapped(e)'
  /\ \A c \in Aborter, e \in Entry :
       abort'[c].at = e => abort[c].at = e \/ sessions[Target(c)] = e

LEMMA FrameKeeps ==
  ASSUME IInv, TypeOK', Frame
  PROVE  WorkerInv' /\ MapInv' /\ Cardinality(Leased') <= Capacity
<1>1. WorkerInv'
  <2>1. ASSUME NEW e \in Entry
        PROVE  WorkerOf(e)'
    <3>1. /\ AsFar(entry[e], entry'[e])
          /\ entry'[e].disposing = entry[e].disposing \/ entry'[e].disposing
      BY DEF Frame
    <3>2. WorkerOf(e)
      BY DEF IInv, WorkerInv
    <3> QED
      BY <3>1, <3>2 DEF WorkerOf, AsFar, Waiting
  <2> QED
    BY <2>1 DEF WorkerInv
<1>2. MapInv'
  <2>1. ASSUME NEW c \in Conversation, NEW e \in Entry, sessions'[c] = e
        PROVE  ~Inert(e)' /\ ~entry'[e].disposing /\ entry'[e].conv = c
    <3>1. sessions[c] = e /\ Mapped(e)'
      BY <2>1 DEF Frame, Mapped
    <3>2. ~Inert(e) /\ ~entry[e].disposing /\ entry[e].conv = c
      BY <3>1 DEF IInv, MapInv
    <3> QED
      BY <3>1, <3>2 DEF Frame, AsFar, Inert, Waiting
  <2>2. ASSUME NEW c \in Aborter, NEW e \in Entry, abort'[c].at = e
        PROVE  Inert(e)' \/ entry'[e].conv = Target(c)
    <3>1. Inert(e) \/ entry[e].conv = Target(c)
      BY <2>2, TargetType DEF Frame, IInv, MapInv
    <3> QED
      BY <3>1 DEF Frame, AsFar, Inert, Waiting
  <2> QED
    BY <2>1, <2>2 DEF MapInv
<1>3. Leased' = Leased
  BY DEF Leased, Frame, AsFar
<1> QED
  BY <1>1, <1>2, <1>3 DEF IInv

(* Who uses an entry is the same before and after the step.                *)
SameUsers(e) == Users(e)' = Users(e) /\ Aborters(e)' = Aborters(e)

CountKept(e) ==
  Mapped(e)' => /\ Mapped(e) /\ SameUsers(e)
                /\ entry'[e].reservations = entry[e].reservations

LEMMA QuietStep ==
  ASSUME IInv, TypeOK', AtInv', Frame, \A e \in Entry : CountKept(e)
  PROVE  IInv'
<1>1. \A e \in Entry : Balanced(e)'
  BY DEF IInv, Balanced, CountKept, SameUsers
<1> QED
  BY <1>1, FrameKeeps DEF IInv

(* Users and aborters are finitely many.                                   *)
LEMMA FinitelyMany ==
  ASSUME NEW e
  PROVE  /\ IsFiniteSet(Users(e)) /\ IsFiniteSet(Aborters(e))
         /\ Cardinality(Users(e)) \in Nat /\ Cardinality(Aborters(e)) \in Nat
<1>1. Users(e) \subseteq Turn /\ Aborters(e) \subseteq Aborter
  BY DEF Users, Aborters
<1>2. IsFiniteSet(Aborter)
  BY RegistryAssumption, FS_Union DEF Aborter
<1> QED
  BY <1>1, <1>2, RegistryAssumption, FS_Subset, FS_CardinalityType

(* A handler or an abort that stops to use a mapped runtime takes one      *)
(* reservation along, and one that begins adds one.                        *)
LEMMA UserLeaves ==
  ASSUME IInv, NEW e \in Entry, Mapped(e),
         \/ \E t \in Users(e) : Users(e)' = Users(e) \ {t} /\ Aborters(e)' = Aborters(e)
         \/ \E c \in Aborters(e) : Aborters(e)' = Aborters(e) \ {c} /\ Users(e)' = Users(e)
  PROVE  /\ entry[e].reservations > 0
         /\ entry[e].reservations - 1 = Cardinality(Users(e)') + Cardinality(Aborters(e)')
<1>1. entry[e].reservations = Cardinality(Users(e)) + Cardinality(Aborters(e))
  BY DEF IInv, Balanced
<1>2. CASE \E t \in Users(e) : Users(e)' = Users(e) \ {t} /\ Aborters(e)' = Aborters(e)
  <2>1. PICK t \in Users(e) : Users(e)' = Users(e) \ {t} /\ Aborters(e)' = Aborters(e)
    BY <1>2
  <2>2. Cardinality(Users(e)') = Cardinality(Users(e)) - 1
        /\ Cardinality(Users(e)') \in Nat
    BY <2>1, FinitelyMany, FS_RemoveElement, FS_CardinalityType
  <2> QED
    BY <1>1, <2>1, <2>2, FinitelyMany
<1>3. CASE \E c \in Aborters(e) : Aborters(e)' = Aborters(e) \ {c} /\ Users(e)' = Users(e)
  <2>1. PICK c \in Aborters(e) : Aborters(e)' = Aborters(e) \ {c} /\ Users(e)' = Users(e)
    BY <1>3
  <2>2. Cardinality(Aborters(e)') = Cardinality(Aborters(e)) - 1
        /\ Cardinality(Aborters(e)') \in Nat
    BY <2>1, FinitelyMany, FS_RemoveElement, FS_CardinalityType
  <2> QED
    BY <1>1, <2>1, <2>2, FinitelyMany
<1> QED
  BY <1>2, <1>3

LEMMA UserComes ==
  ASSUME IInv, NEW e \in Entry, Mapped(e),
         entry'[e].reservations = entry[e].reservations + 1,
         \/ \E t \in Turn \ Users(e) :
              Users(e)' = Users(e) \cup {t} /\ Aborters(e)' = Aborters(e)
         \/ \E c \in Aborter \ Aborters(e) :
              Aborters(e)' = Aborters(e) \cup {c} /\ Users(e)' = Users(e)
  PROVE  Balanced(e)'
<1>1. entry[e].reservations = Cardinality(Users(e)) + Cardinality(Aborters(e))
  BY DEF IInv, Balanced
<1>2. CASE \E t \in Turn \ Users(e) :
             Users(e)' = Users(e) \cup {t} /\ Aborters(e)' = Aborters(e)
  <2>1. PICK t \in Turn \ Users(e) :
          Users(e)' = Users(e) \cup {t} /\ Aborters(e)' = Aborters(e)
    BY <1>2
  <2>2. Cardinality(Users(e)') = Cardinality(Users(e)) + 1
    BY <2>1, FinitelyMany, FS_AddElement
  <2> QED
    BY <1>1, <2>1, <2>2, FinitelyMany DEF Balanced
<1>3. CASE \E c \in Aborter \ Aborters(e) :
             Aborters(e)' = Aborters(e) \cup {c} /\ Users(e)' = Users(e)
  <2>1. PICK c \in Aborter \ Aborters(e) :
          Aborters(e)' = Aborters(e) \cup {c} /\ Users(e)' = Users(e)
    BY <1>3
  <2>2. Cardinality(Aborters(e)') = Cardinality(Aborters(e)) + 1
    BY <2>1, FinitelyMany, FS_AddElement
  <2> QED
    BY <1>1, <2>1, <2>2, FinitelyMany DEF Balanced
<1> QED
  BY <1>2, <1>3
-----------------------------------------------------------------------------
(* One handler moves, or one abort.                                        *)
Uses(t, e) == turn[t].at = e /\ turn[t].pc \in Using

OnlyTurn(t) ==
  \A u \in Turn \ {t} : turn'[u].at = turn[u].at /\ turn'[u].pc = turn[u].pc

OnlyAbort(c) == \A d \in Aborter \ {c} : abort'[d] = abort[d]

LEMMA OneTurn ==
  ASSUME NEW t \in Turn, OnlyTurn(t), NEW e
  PROVE  /\ (Uses(t, e)' <=> Uses(t, e)) => Users(e)' = Users(e)
         /\ Uses(t, e) /\ ~Uses(t, e)' =>
              t \in Users(e) /\ Users(e)' = Users(e) \ {t}
         /\ ~Uses(t, e) /\ Uses(t, e)' =>
              t \in Turn \ Users(e) /\ Users(e)' = Users(e) \cup {t}
<1>1. \A u \in Turn : u \in Users(e) <=> Uses(u, e)
  BY DEF Users, Uses, Using
<1>2. \A u \in Turn : u \in Users(e)' <=> Uses(u, e)'
  BY DEF Users, Uses, Using
<1>3. \A u \in Turn \ {t} : Uses(u, e)' <=> Uses(u, e)
  BY DEF OnlyTurn, Uses
<1>4. Users(e) \subseteq Turn /\ Users(e)' \subseteq Turn
  BY DEF Users
<1> HIDE DEF Uses, OnlyTurn
<1> QED
  BY <1>1, <1>2, <1>3, <1>4

LEMMA OneAbort ==
  ASSUME NEW c \in Aborter, OnlyAbort(c), NEW e
  PROVE  /\ (abort'[c].at = e <=> abort[c].at = e) => Aborters(e)' = Aborters(e)
         /\ abort[c].at = e /\ abort'[c].at # e =>
              c \in Aborters(e) /\ Aborters(e)' = Aborters(e) \ {c}
         /\ abort[c].at # e /\ abort'[c].at = e =>
              c \in Aborter \ Aborters(e) /\ Aborters(e)' = Aborters(e) \cup {c}
  BY DEF OnlyAbort, Aborters

LEMMA FinishMoves ==
  ASSUME turn \in [Turn -> TurnRecord], NEW t \in Turn, Finish(t)
  PROVE  /\ turn' \in [Turn -> TurnRecord] /\ OnlyTurn(t)
         /\ turn'[t].pc = "ended" /\ turn'[t].at = None
<1> DEFINE r == [pc |-> "ended", at |-> None, attached |-> FALSE]
<1>1. r \in TurnRecord /\ r.pc = "ended" /\ r.at = None
  BY DEF TurnRecord, TurnPCs
<1>2. turn' = [turn EXCEPT ![t] = r]
  BY DEF Finish
<1> HIDE DEF r
<1> QED
  BY <1>1, <1>2 DEF OnlyTurn

(* Nobody begins or stops to use what stays mapped.                        *)
SameCount(e) == Mapped(e)' => entry'[e].reservations = entry[e].reservations

LEMMA FrameMapped == ASSUME Frame, NEW e \in Entry, Mapped(e)' PROVE Mapped(e)
  BY DEF Frame, Mapped

LEMMA QuietTurn ==
  ASSUME IInv, TypeOK', Frame, abort' = abort, NEW t \in Turn, OnlyTurn(t),
         turn'[t].pc \in Using \cup {"replacing"} => turn'[t].at \in Entry,
         \A e \in Entry : Mapped(e)' => (Uses(t, e)' <=> Uses(t, e)),
         \A e \in Entry : SameCount(e)
  PROVE  IInv'
<1>1. AtInv'
  BY DEF IInv, AtInv, OnlyTurn
<1>2. ASSUME NEW e \in Entry, Mapped(e)'
      PROVE  Mapped(e) /\ SameUsers(e) /\ entry'[e].reservations = entry[e].reservations
  BY <1>2, OneTurn, FrameMapped DEF SameUsers, SameCount, Aborters
<1> QED
  BY <1>1, <1>2, QuietStep DEF CountKept

LEMMA QuietRest ==
  ASSUME IInv, TypeOK', Frame, UNCHANGED <<turn, abort>>, \A e \in Entry : SameCount(e)
  PROVE  IInv'
<1>1. AtInv'
  BY DEF IInv, AtInv
<1>2. ASSUME NEW e \in Entry, Mapped(e)'
      PROVE  Mapped(e) /\ SameUsers(e) /\ entry'[e].reservations = entry[e].reservations
  BY <1>2, FrameMapped DEF SameUsers, SameCount, Aborters, Users
<1> QED
  BY <1>1, <1>2, QuietStep DEF CountKept

(* The entries stand still.                                                *)
LEMMA StandsStill ==
  ASSUME IInv, UNCHANGED <<sessions, entry>>,
         \A c \in Aborter, e \in Entry : abort'[c].at = e => abort[c].at = e
  PROVE  /\ Frame
         /\ \A e \in Entry : SameCount(e) /\ (Mapped(e)' <=> Mapped(e))
  BY DEF Frame, AsFar, SameCount, Mapped

LEMMA MappedActive == ASSUME IInv, NEW e \in Entry, Mapped(e) PROVE ~Inert(e)
  BY DEF IInv, MapInv, Mapped

-----------------------------------------------------------------------------
(* Handlers that move without touching an entry.                           *)
LEMMA HandlerMoves ==
  ASSUME IInv, NEW t \in Turn,
         \/ Arrive(t) \/ RefuseFull(t) \/ StartupFailed(t)
         \/ Replaced(t) \/ Evicted(t)
  PROVE  IInv'
<1>0. turn \in [Turn -> TurnRecord] /\ turn[t] \in TurnRecord
  BY Records DEF IInv
<1>a. UNCHANGED <<sessions, entry, abort>> /\ Rest'
  <2>1. /\ UNCHANGED <<sessions, entry, abort, reset>> /\ stopped' = stopped
        /\ UNCHANGED <<upsets, missed, maxResident>>
    BY DEF Arrive, RefuseFull, StartupFailed, Replaced, Evicted
  <2> QED
    BY <2>1, Records, UpsetCounted DEF IInv, Rest
<1>b. turn' \in [Turn -> TurnRecord] /\ OnlyTurn(t)
  <2>1. CASE Arrive(t) \/ Replaced(t)
    BY <1>0, <2>1 DEF Arrive, Replaced, TurnRecord, TurnPCs, OnlyTurn
  <2>2. CASE RefuseFull(t) \/ StartupFailed(t) \/ Evicted(t)
    <3>1. Finish(t)
      BY <2>2 DEF RefuseFull, StartupFailed, Evicted
    <3> QED
      BY <1>0, <3>1, FinishMoves
  <2> QED
    BY <2>1, <2>2
<1>1. TypeOK' /\ OnlyTurn(t) /\ UNCHANGED <<sessions, entry, abort>>
  BY <1>a, <1>b, Records, RecordsAfter DEF IInv
<1>2. Frame /\ \A e \in Entry : SameCount(e) /\ (Mapped(e)' <=> Mapped(e))
  BY <1>1, StandsStill
<1>3. turn'[t].pc \in Using \cup {"replacing"} => turn'[t].at \in Entry
  BY DEF IInv, TypeOK, AtInv, Using, Arrive, RefuseFull, StartupFailed,
         Replaced, Evicted, Finish, Upset
<1>4. ASSUME NEW e \in Entry, Mapped(e)'
      PROVE  Uses(t, e)' <=> Uses(t, e)
  <2>1. ~Inert(e)
    BY <1>2, <1>4, MappedActive
  <2> QED
    BY <2>1 DEF IInv, TypeOK, Using, Uses, Inert, Arrive, RefuseFull,
         StartupFailed, Replaced, Evicted, Finish, Upset
<1> QED
  BY <1>1, <1>2, <1>3, <1>4, QuietTurn
LEMMA UsersEntry ==
  ASSUME IInv, NEW t \in Turn, turn[t].pc \in Using \cup {"replacing"}
  PROVE  turn[t].at \in Entry
  BY DEF IInv, AtInv

LEMMA GotoMoves ==
  ASSUME turn \in [Turn -> TurnRecord], NEW t \in Turn, NEW pc \in TurnPCs, Goto(t, pc)
  PROVE  /\ turn' \in [Turn -> TurnRecord] /\ OnlyTurn(t)
         /\ turn'[t].pc = pc /\ turn'[t].at = turn[t].at
  BY DEF Goto, TurnRecord, OnlyTurn

-----------------------------------------------------------------------------
(* Whoever stops to use a runtime gives its reservation back.              *)
Alike(E) ==
  /\ E \in [Entry -> EntryRecord]
  /\ \A x \in Entry : /\ AsFar(entry[x], E[x])
                      /\ E[x].disposing = entry[x].disposing
                      /\ E[x].reservations = entry[x].reservations

LEMMA ReservationGone ==
  ASSUME IInv, TypeOK', AtInv', sessions' = sessions,
         NEW E, Alike(E), NEW e \in Entry, entry' = Unreserve(E, e),
         \A c \in Aborter, x \in Entry : abort'[c].at = x => abort[c].at = x,
         \A x \in Entry \ {e} : SameUsers(x),
         \/ \E t \in Users(e) : Users(e)' = Users(e) \ {t} /\ Aborters(e)' = Aborters(e)
         \/ \E c \in Aborters(e) : Aborters(e)' = Aborters(e) \ {c} /\ Users(e)' = Users(e)
  PROVE  IInv'
<1>1. /\ \A x \in Entry :
           /\ AsFar(E[x], entry'[x])
           /\ entry'[x].disposing = E[x].disposing
           /\ x # e \/ ~Mapped(e) => entry'[x].reservations = E[x].reservations
      /\ Mapped(e) /\ E[e].reservations > 0 =>
           entry'[e].reservations = E[e].reservations - 1
  <2>1. E \in [Entry -> EntryRecord]
    BY DEF Alike
  <2> QED
    BY <2>1, UnreserveFields
<1>2. Frame
  <2>1. ASSUME NEW x \in Entry
        PROVE  AsFar(entry[x], entry'[x]) /\ entry'[x].disposing = entry[x].disposing
    <3>1. /\ AsFar(entry[x], E[x]) /\ E[x].disposing = entry[x].disposing
          /\ AsFar(E[x], entry'[x]) /\ entry'[x].disposing = E[x].disposing
      BY <1>1 DEF Alike
    <3> QED
      BY <3>1 DEF AsFar
  <2> QED
    BY <2>1 DEF Frame
<1>3. \A x \in Entry : Mapped(x)' <=> Mapped(x)
  BY DEF Mapped
<1>4. ASSUME NEW x \in Entry \ {e}
      PROVE  Balanced(x)'
  <2>1. entry'[x].reservations = entry[x].reservations
    BY <1>1 DEF Alike
  <2> QED
    BY <1>3, <2>1 DEF IInv, Balanced, SameUsers
<1>5. Balanced(e)'
  <2>1. CASE Mapped(e)
    <3>1. /\ entry[e].reservations > 0
          /\ entry[e].reservations - 1 = Cardinality(Users(e)') + Cardinality(Aborters(e)')
      BY <2>1, UserLeaves
    <3>2. entry'[e].reservations = entry[e].reservations - 1
      BY <1>1, <2>1, <3>1 DEF Alike
    <3> QED
      BY <3>1, <3>2 DEF Balanced
  <2> QED
    BY <1>3, <2>1 DEF Balanced
<1>6. \A x \in Entry : Balanced(x)'
  BY <1>4, <1>5
<1> QED
  BY <1>2, <1>6, FrameKeeps DEF IInv

LEMMA HandlerLeaves ==
  ASSUME IInv, NEW t \in Turn, turn[t].pc \in Using, Finish(t),
         NEW E, Alike(E), entry' = Unreserve(E, turn[t].at),
         UNCHANGED <<sessions, abort, reset, stopped, upsets, missed, maxResident>>
  PROVE  IInv'
<1>1. PICK e \in Entry : e = turn[t].at
  BY UsersEntry
<1>2. turn' \in [Turn -> TurnRecord] /\ OnlyTurn(t) /\ turn'[t].pc = "ended"
  BY Records, FinishMoves DEF IInv
<1>3. TypeOK'
  <2>1. entry' \in [Entry -> EntryRecord]
    BY <1>1, UnreserveFields DEF Alike
  <2>2. Rest' /\ abort' \in [Aborter -> AbortRecord]
    BY Records DEF IInv, Rest
  <2> QED
    BY <1>2, <2>1, <2>2, RecordsAfter
<1>4. AtInv'
  BY <1>2 DEF IInv, AtInv, OnlyTurn, Using
<1>5. Uses(t, e) /\ \A x : ~Uses(t, x)'
  BY <1>1, <1>2 DEF Uses, Using
<1>6. \A x : Aborters(x)' = Aborters(x)
  BY DEF Aborters
<1>7. t \in Users(e) /\ Users(e)' = Users(e) \ {t}
  BY <1>2, <1>5, OneTurn
<1>8. ASSUME NEW x \in Entry \ {e}
      PROVE  SameUsers(x)
  <2>1. ~Uses(t, x)
    BY <1>1 DEF Uses
  <2>2. Users(x)' = Users(x)
    BY <1>2, <1>5, <2>1, OneTurn
  <2> QED
    BY <1>6, <2>2 DEF SameUsers
<1>9. entry' = Unreserve(E, e)
  BY <1>1
<1> QED
  BY <1>3, <1>4, <1>6, <1>7, <1>8, <1>9, ReservationGone

LEMMA AborterLeaves ==
  ASSUME IInv, NEW c \in Aborter, abort[c].pc # "none",
         abort' = [abort EXCEPT ![c] = Resting], entry' = Unreserve(entry, abort[c].at),
         UNCHANGED <<sessions, turn, reset, stopped, upsets, missed, maxResident>>
  PROVE  IInv'
<1>0. abort \in [Aborter -> AbortRecord] /\ entry \in [Entry -> EntryRecord]
  BY Records DEF IInv
<1>1. PICK e \in Entry : e = abort[c].at
  BY <1>0 DEF IInv, AtInv, AbortRecord
<1>2. /\ abort' \in [Aborter -> AbortRecord] /\ OnlyAbort(c)
      /\ abort'[c] = Resting
  BY <1>0 DEF AbortRecord, OnlyAbort, Resting
<1>3. TypeOK'
  <2>1. entry' \in [Entry -> EntryRecord]
    BY <1>0, <1>1, UnreserveFields
  <2>2. Rest' /\ turn' \in [Turn -> TurnRecord]
    BY Records DEF IInv, Rest
  <2> QED
    BY <1>2, <2>1, <2>2, RecordsAfter
<1>4. AtInv'
  BY <1>2 DEF IInv, AtInv, OnlyAbort, Resting
<1>5. \A x \in Entry : abort'[c].at # x
  BY <1>2, RegistryAssumption DEF Resting
<1>6. \A x : Users(x)' = Users(x)
  BY DEF Users
<1>7. c \in Aborters(e) /\ Aborters(e)' = Aborters(e) \ {c}
  BY <1>1, <1>2, <1>5, OneAbort
<1>8. ASSUME NEW x \in Entry \ {e}
      PROVE  SameUsers(x)
  BY <1>1, <1>2, <1>5, <1>6, OneAbort DEF SameUsers
<1>9. \A d \in Aborter, x \in Entry : abort'[d].at = x => abort[d].at = x
  BY <1>2, <1>5 DEF OnlyAbort
<1>10. Alike(entry)
  BY <1>0 DEF Alike, AsFar
<1>11. entry' = Unreserve(entry, e)
  BY <1>1
<1> QED
  BY <1>3, <1>4, <1>6, <1>7, <1>8, <1>9, <1>10, <1>11, ReservationGone
LEMMA HandlerStops ==
  ASSUME IInv, NEW t \in Turn,
         GiveUp(t) \/ StatusReturns(t) \/ PrepareFails(t) \/ StreamEnds(t)
  PROVE  IInv'
<1>0. entry \in [Entry -> EntryRecord]
  BY Records DEF IInv
<1>1. /\ turn[t].pc \in Using
      /\ Finish(t) /\ UNCHANGED <<sessions, abort, reset, stopped, upsets, missed, maxResident>>
  BY DEF GiveUp, StatusReturns, PrepareFails, StreamEnds, Using
<1>2. PICK e \in Entry : e = turn[t].at
  BY <1>1, UsersEntry
<1>3. CASE GiveUp(t) \/ PrepareFails(t)
  <2>1. entry' = Unreserve([entry EXCEPT ![e].context = None], e)
    BY <1>2, <1>3 DEF GiveUp, PrepareFails, EndTurn
  <2>2. Alike([entry EXCEPT ![e].context = None])
    BY <1>0 DEF Alike, AsFar, EntryRecord
  <2> QED
    BY <1>1, <1>2, <2>1, <2>2, HandlerLeaves
<1>4. CASE StatusReturns(t)
  <2>1. entry' = Unreserve(entry, turn[t].at)
    BY <1>4 DEF StatusReturns
  <2>2. Alike(entry)
    BY <1>0 DEF Alike, AsFar
  <2> QED
    BY <1>1, <2>1, <2>2, HandlerLeaves
<1>5. CASE StreamEnds(t)
  <2> DEFINE D == [entry EXCEPT ![e].streaming = FALSE]
  <2>0. Alike(D)
    BY <1>0 DEF Alike, AsFar, EntryRecord
  <2> HIDE DEF D
  <2> DEFINE E == [D EXCEPT ![e].context = None]
  <2>1. entry' = Unreserve(E, e)
    BY <1>2, <1>5 DEF StreamEnds, EndTurn, D
  <2>2. Alike(E)
    BY <2>0 DEF Alike, AsFar, EntryRecord
  <2> HIDE DEF E
  <2> QED
    BY <1>1, <1>2, <2>1, <2>2, HandlerLeaves
<1> QED
  BY <1>3, <1>4, <1>5

-----------------------------------------------------------------------------
(* A runtime that leaves the map is being disposed of, and nothing else    *)
(* changes for the others.                                                 *)
LEMMA DisposeFrame ==
  ASSUME IInv, NEW e \in Entry, NEW E, E \in [Entry -> EntryRecord],
         \A x \in Entry : /\ AsFar(entry[x], E[x])
                          /\ E[x].disposing = entry[x].disposing
                          /\ x # e => E[x].reservations = entry[x].reservations,
         entry' = Dispose(E, e),
         \A c \in Conversation :
           sessions'[c] # e /\ sessions'[c] \in {sessions[c], None},
         \A c \in Aborter, x \in Entry : abort'[c].at = x => abort[c].at = x
  PROVE  Frame /\ (\A x \in Entry : SameCount(x)) /\ entry' \in [Entry -> EntryRecord]
<1>0. ~Mapped(e)'
  BY DEF Mapped
<1>1. ASSUME NEW x \in Entry
      PROVE  /\ AsFar(E[x], entry'[x])
             /\ \/ entry'[x].disposing = E[x].disposing
                \/ x = e /\ entry'[x].disposing
             /\ entry'[x].reservations = E[x].reservations
  <2>1. entry'[x] = IF x = e /\ ~Inert(x) THEN [E[x] EXCEPT !.disposing = TRUE] ELSE E[x]
    BY DisposeFields
  <2>2. E[x] \in EntryRecord
    OBVIOUS
  <2>3. CASE x = e /\ ~Inert(x)
    BY <2>1, <2>2, <2>3 DEF AsFar, EntryRecord
  <2>4. CASE ~(x = e /\ ~Inert(x))
    BY <2>1, <2>4 DEF AsFar
  <2> QED
    BY <2>3, <2>4
<1>2. entry' \in [Entry -> EntryRecord]
  BY DisposeFields
<1>3. \A x \in Entry : AsFar(entry[x], entry'[x])
  BY <1>1 DEF AsFar
<1>4. \A c \in Conversation, x \in Entry : sessions'[c] = x => sessions[c] = x
  BY RegistryAssumption
<1>5. Frame
  BY <1>0, <1>1, <1>3, <1>4 DEF Frame
<1>6. \A x \in Entry : SameCount(x)
  BY <1>0, <1>1 DEF SameCount
<1> QED
  BY <1>2, <1>5, <1>6

LEMMA WithoutFields ==
  ASSUME sessions \in [Conversation -> Entry \cup {None}], NEW e
  PROVE  /\ Without(e) \in [Conversation -> Entry \cup {None}]
         /\ \A c \in Conversation :
              /\ Without(e)[c] \in {sessions[c], None}
              /\ e # None => Without(e)[c] # e
         /\ ~Mapped(e) => Without(e) = sessions
  BY DEF Without, Mapped

LEMMA EntryAlike ==
  ASSUME IInv
  PROVE  /\ entry \in [Entry -> EntryRecord]
         /\ \A x \in Entry : AsFar(entry[x], entry[x])
  BY Records DEF IInv, AsFar

(* A runtime somebody uses is reserved.                                    *)
LEMMA UsedIsReserved ==
  ASSUME IInv, NEW e \in Entry, Mapped(e), Users(e) # {} \/ Aborters(e) # {}
  PROVE  entry[e].reservations > 0
<1>1. entry[e].reservations = Cardinality(Users(e)) + Cardinality(Aborters(e))
  BY DEF IInv, Balanced
<1>2. Cardinality(Users(e)) # 0 \/ Cardinality(Aborters(e)) # 0
  BY FinitelyMany, FS_EmptySet
<1> QED
  BY <1>1, <1>2, FinitelyMany

LEMMA HandlerReplaces ==
  ASSUME IInv, NEW t \in Turn, Replace(t)
  PROVE  IInv'
<1>0. turn \in [Turn -> TurnRecord] /\ entry \in [Entry -> EntryRecord] /\ Rest
  BY Records DEF IInv
<1>1. PICK e \in Entry : e = turn[t].at
  BY UsersEntry DEF Replace, Using
<1>2. /\ sessions' = Without(e) /\ turn[t].pc = "await"
      /\ UNCHANGED <<abort, reset, stopped, upsets, missed, maxResident>>
  BY <1>1 DEF Replace
<1>3. Rest' /\ abort' \in [Aborter -> AbortRecord]
  BY <1>0, <1>2, WithoutFields, Records DEF IInv, Rest
<1>4. \A c \in Conversation :
        sessions'[c] # e /\ sessions'[c] \in {sessions[c], None}
  BY <1>0, <1>2, WithoutFields, RegistryAssumption DEF Rest
<1>5. \A x \in Entry \ {e} : ~Uses(t, x)
  BY <1>1 DEF Uses
<1>6. CASE Mapped(e)
  <2> DEFINE E == [entry EXCEPT ![e].reservations = @ - 1]
  <2>1. entry' = Dispose(E, e) /\ Goto(t, "replacing")
    BY <1>1, <1>6 DEF Replace
  <2>2. t \in Users(e)
    BY <1>1, <1>2 DEF Users
  <2>3. entry[e].reservations > 0
    BY <1>6, <2>2, UsedIsReserved
  <2>4. /\ E \in [Entry -> EntryRecord]
        /\ \A x \in Entry : /\ AsFar(entry[x], E[x])
                            /\ E[x].disposing = entry[x].disposing
                            /\ x # e => E[x].reservations = entry[x].reservations
    BY <1>0, <2>3 DEF EntryRecord, AsFar
  <2> HIDE DEF E
  <2>5. Frame /\ (\A x \in Entry : SameCount(x)) /\ entry' \in [Entry -> EntryRecord]
    BY <1>2, <1>4, <2>1, <2>4, DisposeFrame
  <2>6. /\ turn' \in [Turn -> TurnRecord] /\ OnlyTurn(t)
        /\ turn'[t].pc = "replacing" /\ turn'[t].at = e
    BY <1>0, <1>1, <2>1, GotoMoves DEF TurnPCs
  <2>7. TypeOK'
    BY <1>3, <2>5, <2>6, RecordsAfter
  <2>8. \A x \in Entry : Mapped(x)' => (Uses(t, x)' <=> Uses(t, x))
    BY <1>4, <1>5, <2>6 DEF Uses, Using, Mapped
  <2> QED
    BY <1>2, <2>5, <2>6, <2>7, <2>8, QuietTurn
<1>7. CASE ~Mapped(e)
  <2>1. /\ entry' = entry /\ sessions' = sessions
        /\ turn' = [turn EXCEPT ![t].pc = "acquire", ![t].at = None]
    BY <1>0, <1>1, <1>2, <1>7, WithoutFields DEF Replace, Rest
  <2>2. /\ turn' \in [Turn -> TurnRecord] /\ OnlyTurn(t)
        /\ turn'[t].pc = "acquire"
    BY <1>0, <2>1 DEF TurnRecord, TurnPCs, OnlyTurn
  <2>3. TypeOK'
    BY <1>0, <1>3, <2>1, <2>2, RecordsAfter
  <2>4. Frame /\ \A x \in Entry : SameCount(x) /\ (Mapped(x)' <=> Mapped(x))
    BY <1>2, <2>1, StandsStill
  <2>5. \A x \in Entry : Mapped(x)' => (Uses(t, x)' <=> Uses(t, x))
    BY <1>5, <1>7, <2>2, <2>4 DEF Uses, Using
  <2> QED
    BY <1>2, <2>2, <2>3, <2>4, <2>5, QuietTurn DEF Using
<1> QED
  BY <1>6, <1>7
LEMMA AlikeFrame ==
  ASSUME IInv, NEW E, Alike(E), entry' = E, sessions' = sessions,
         \A c \in Aborter, x \in Entry : abort'[c].at = x => abort[c].at = x
  PROVE  Frame /\ (\A x \in Entry : SameCount(x)) /\ entry' \in [Entry -> EntryRecord]
  BY DEF Alike, Frame, SameCount

LEMMA StreamStops ==
  ASSUME IInv, NEW t \in Turn, StreamFails(t)
  PROVE  IInv'
<1>0. turn \in [Turn -> TurnRecord] /\ entry \in [Entry -> EntryRecord] /\ Rest
  BY Records DEF IInv
<1>1. PICK e \in Entry : e = turn[t].at
  BY UsersEntry DEF StreamFails, Using
<1>2. /\ sessions' = Without(e) /\ turn[t].pc \in Using
      /\ UNCHANGED <<abort, reset, stopped, upsets, missed, maxResident>>
  BY <1>1 DEF StreamFails, Using
<1>3. CASE Mapped(e)
  <2>1. entry' = Dispose(entry, e) /\ Goto(t, "evicting")
    BY <1>1, <1>3 DEF StreamFails
  <2>2. \A c \in Conversation :
          sessions'[c] # e /\ sessions'[c] \in {sessions[c], None}
    BY <1>0, <1>2, WithoutFields, RegistryAssumption DEF Rest
  <2>3. Frame /\ (\A x \in Entry : SameCount(x)) /\ entry' \in [Entry -> EntryRecord]
    BY <1>2, <2>1, <2>2, EntryAlike, DisposeFrame
  <2>4. /\ turn' \in [Turn -> TurnRecord] /\ OnlyTurn(t)
        /\ turn'[t].pc = "evicting" /\ turn'[t].at = e
    BY <1>0, <1>1, <2>1, GotoMoves DEF TurnPCs
  <2>5. Rest' /\ abort' \in [Aborter -> AbortRecord]
    BY <1>0, <1>2, WithoutFields, Records DEF IInv, Rest
  <2>6. TypeOK'
    BY <2>3, <2>4, <2>5, RecordsAfter
  <2>7. \A x \in Entry : Uses(t, x)' <=> Uses(t, x)
    BY <1>1, <1>2, <2>4 DEF Uses, Using
  <2> QED
    BY <1>2, <2>3, <2>4, <2>6, <2>7, QuietTurn
<1>4. CASE ~Mapped(e)
  <2>1. entry' = Unreserve([entry EXCEPT ![e].context = None], e) /\ Finish(t)
    BY <1>1, <1>4 DEF StreamFails, EndTurn
  <2>2. Alike([entry EXCEPT ![e].context = None])
    BY <1>0 DEF Alike, AsFar, EntryRecord
  <2>3. sessions' = sessions
    BY <1>0, <1>2, <1>4, WithoutFields DEF Rest
  <2> QED
    BY <1>1, <1>2, <2>1, <2>2, <2>3, HandlerLeaves
<1> QED
  BY <1>3, <1>4

LEMMA HandlerGoesOn ==
  ASSUME IInv, NEW t \in Turn, BeginTurn(t) \/ Prompt(t)
  PROVE  IInv'
<1>0. turn \in [Turn -> TurnRecord] /\ entry \in [Entry -> EntryRecord] /\ Rest
  BY Records DEF IInv
<1>1. PICK e \in Entry : e = turn[t].at
  BY UsersEntry DEF BeginTurn, Prompt, Using
<1>2. /\ turn[t].pc \in Using
      /\ UNCHANGED <<sessions, abort, reset, stopped, upsets, missed, maxResident>>
  BY DEF BeginTurn, Prompt, Using
<1>3. Alike(entry')
  <2>1. CASE BeginTurn(t)
    <3>1. entry' = [entry EXCEPT ![e].context = t]
      BY <1>1, <2>1 DEF BeginTurn
    <3> QED
      BY <1>0, <3>1 DEF Alike, AsFar, EntryRecord
  <2>2. CASE Prompt(t)
    <3>1. entry' = [entry EXCEPT ![e].streaming = TRUE]
      BY <1>1, <2>2 DEF Prompt
    <3> QED
      BY <1>0, <3>1 DEF Alike, AsFar, EntryRecord
  <2> QED
    BY <2>1, <2>2
<1>4. Frame /\ (\A x \in Entry : SameCount(x)) /\ entry' \in [Entry -> EntryRecord]
  BY <1>2, <1>3, AlikeFrame
<1>5. /\ turn' \in [Turn -> TurnRecord] /\ OnlyTurn(t)
      /\ turn'[t].pc \in Using /\ turn'[t].at = e
  BY <1>0, <1>1, GotoMoves DEF BeginTurn, Prompt, TurnPCs, Using
<1>6. TypeOK'
  BY <1>0, <1>2, <1>4, <1>5, Records, RecordsAfter DEF IInv, Rest
<1>7. \A x \in Entry : Uses(t, x)' <=> Uses(t, x)
  BY <1>1, <1>2, <1>5 DEF Uses
<1> QED
  BY <1>2, <1>4, <1>5, <1>6, <1>7, QuietTurn

-----------------------------------------------------------------------------
(* Whoever begins to use a mapped runtime adds a reservation.              *)
LEMMA ReservationMade ==
  ASSUME IInv, TypeOK', AtInv', sessions' = sessions,
         NEW e \in Entry, Mapped(e),
         entry' = [entry EXCEPT ![e].reservations = @ + 1],
         \A c \in Aborter, x \in Entry :
           abort'[c].at = x => abort[c].at = x \/ sessions[Target(c)] = x,
         \A x \in Entry \ {e} : SameUsers(x),
         \/ \E t \in Turn \ Users(e) :
              Users(e)' = Users(e) \cup {t} /\ Aborters(e)' = Aborters(e)
         \/ \E c \in Aborter \ Aborters(e) :
              Aborters(e)' = Aborters(e) \cup {c} /\ Users(e)' = Users(e)
  PROVE  IInv'
<1>1. ASSUME NEW x \in Entry
      PROVE  /\ AsFar(entry[x], entry'[x])
             /\ entry'[x].disposing = entry[x].disposing
             /\ entry'[x].reservations =
                  entry[x].reservations + (IF x = e THEN 1 ELSE 0)
  BY EntryAlike DEF AsFar, EntryRecord
<1>2. Frame
  BY <1>1 DEF Frame
<1>3. \A x \in Entry : Mapped(x)' <=> Mapped(x)
  BY DEF Mapped
<1>4. ASSUME NEW x \in Entry \ {e}
      PROVE  Balanced(x)'
  <2>1. entry'[x].reservations = entry[x].reservations
    BY <1>1, EntryAlike DEF EntryRecord
  <2> QED
    BY <1>3, <2>1 DEF IInv, Balanced, SameUsers
<1>5. Balanced(e)'
  <2>1. entry'[e].reservations = entry[e].reservations + 1
    BY <1>1
  <2> QED
    BY <2>1, UserComes
<1>6. \A x \in Entry : Balanced(x)'
  BY <1>4, <1>5
<1> QED
  BY <1>2, <1>6, FrameKeeps DEF IInv

LEMMA MoreReservations ==
  ASSUME IInv, NEW e \in Entry
  PROVE  [entry EXCEPT ![e].reservations = @ + 1] \in [Entry -> EntryRecord]
  BY EntryAlike DEF EntryRecord

LEMMA HandlerJoins ==
  ASSUME IInv, NEW t \in Turn, Join(t)
  PROVE  IInv'
<1>0. turn \in [Turn -> TurnRecord] /\ Rest
  BY Records DEF IInv
<1>1. PICK e \in Entry : e = sessions[ConversationOf[t]]
  BY <1>0, RegistryAssumption DEF Join, Rest
<1>2. /\ turn[t].pc = "acquire" /\ Mapped(e)
      /\ entry' = [entry EXCEPT ![e].reservations = @ + 1]
      /\ turn' = [turn EXCEPT ![t].pc = "await", ![t].at = e]
      /\ UNCHANGED <<sessions, abort, reset, stopped, upsets, missed, maxResident>>
  BY <1>1, RegistryAssumption DEF Join, Mapped
<1>3. /\ turn' \in [Turn -> TurnRecord] /\ OnlyTurn(t)
      /\ turn'[t].pc = "await" /\ turn'[t].at = e
  BY <1>0, <1>2 DEF TurnRecord, TurnPCs, OnlyTurn
<1>4. TypeOK'
  BY <1>0, <1>2, <1>3, MoreReservations, Records, RecordsAfter DEF IInv, Rest
<1>5. AtInv'
  BY <1>2, <1>3 DEF IInv, AtInv, OnlyTurn
<1>6. \A x : Aborters(x)' = Aborters(x)
  BY <1>2 DEF Aborters
<1>7. t \in Turn \ Users(e) /\ Users(e)' = Users(e) \cup {t}
  BY <1>2, <1>3, OneTurn DEF Uses, Using
<1>8. \A x \in Entry \ {e} : SameUsers(x)
  BY <1>2, <1>3, <1>6, OneTurn DEF Uses, Using, SameUsers
<1> QED
  BY <1>2, <1>4, <1>5, <1>6, <1>7, <1>8, ReservationMade

(* abort() takes the runtime of its conversation, if there is one; the     *)
(* turn, if any, is abandoned in the same step.                            *)
LEMMA Taken ==
  ASSUME IInv, NEW a \in Aborter, TakeForAbort(a), Upset,
         UNCHANGED <<sessions, reset, stopped>>,
         turn' \in [Turn -> TurnRecord],
         \A t \in Turn : turn'[t].pc = turn[t].pc /\ turn'[t].at = turn[t].at
  PROVE  IInv'
<1>0. abort \in [Aborter -> AbortRecord] /\ Rest /\ Rest'
  BY Records, UpsetCounted DEF IInv, Rest
<1>1. \A x : Users(x)' = Users(x)
  BY DEF Users
<1>2. CASE sessions[Target(a)] = None
  <2>1. UNCHANGED <<sessions, entry, abort>>
    BY <1>2 DEF TakeForAbort
  <2>2. TypeOK'
    BY <1>0, <2>1, Records, RecordsAfter DEF IInv
  <2>3. Frame /\ \A x \in Entry : SameCount(x) /\ (Mapped(x)' <=> Mapped(x))
    BY <2>1, StandsStill
  <2>4. AtInv'
    BY <2>1 DEF IInv, AtInv
  <2>5. \A x \in Entry : SameUsers(x)
    BY <1>1, <2>1 DEF SameUsers, Aborters
  <2> QED
    BY <2>2, <2>3, <2>4, <2>5, QuietStep DEF CountKept, SameCount
<1>3. CASE sessions[Target(a)] # None
  <2>1. PICK e \in Entry : e = sessions[Target(a)]
    BY <1>0, <1>3, TargetType DEF Rest
  <2>2. /\ abort[a].pc = "none" /\ Mapped(e)
        /\ entry' = [entry EXCEPT ![e].reservations = @ + 1]
        /\ abort' = [abort EXCEPT ![a] = [pc |-> "await", at |-> e]]
    BY <1>3, <2>1, TargetType DEF TakeForAbort, Mapped
  <2>3. /\ abort' \in [Aborter -> AbortRecord] /\ OnlyAbort(a)
        /\ abort'[a].pc = "await" /\ abort'[a].at = e /\ abort[a].at = None
    BY <1>0, <2>2 DEF AbortRecord, OnlyAbort, IInv, AtInv
  <2>4. TypeOK'
    BY <1>0, <2>2, <2>3, MoreReservations, RecordsAfter
  <2>5. AtInv'
    BY <2>2, <2>3, RegistryAssumption DEF IInv, AtInv, OnlyAbort
  <2>6. \A x \in Entry : abort[a].at # x
    BY <2>3, RegistryAssumption
  <2>7. a \in Aborter \ Aborters(e) /\ Aborters(e)' = Aborters(e) \cup {a}
    BY <2>3, <2>6, OneAbort
  <2>8. \A x \in Entry \ {e} : SameUsers(x)
    BY <1>1, <2>3, <2>6, OneAbort DEF SameUsers
  <2>9. \A d \in Aborter, x \in Entry :
          abort'[d].at = x => abort[d].at = x \/ sessions[Target(d)] = x
    BY <2>1, <2>3 DEF OnlyAbort
  <2> QED
    BY <1>1, <2>2, <2>4, <2>5, <2>7, <2>8, <2>9, ReservationMade
<1> QED
  BY <1>2, <1>3

LEMMA AbortBegins ==
  ASSUME IInv, NEW c \in Conversation, AbortStarts(c)
  PROVE  IInv'
<1>1. c \in Aborter /\ turn' = turn /\ turn \in [Turn -> TurnRecord]
  BY Records DEF Aborter, AbortStarts, IInv
<1> QED
  BY <1>1, Taken DEF AbortStarts

LEMMA HandlerAbandoned ==
  ASSUME IInv, NEW t \in Turn, Deadline(t)
  PROVE  IInv'
<1>1. t \in Aborter /\ turn \in [Turn -> TurnRecord]
      /\ turn' = [turn EXCEPT ![t].attached = FALSE]
  BY Records DEF Aborter, Deadline, IInv
<1>2. /\ turn' \in [Turn -> TurnRecord]
      /\ \A u \in Turn : turn'[u].pc = turn[u].pc /\ turn'[u].at = turn[u].at
  BY <1>1 DEF TurnRecord
<1> QED
  BY <1>1, <1>2, Taken DEF Deadline
-----------------------------------------------------------------------------
(* A new entry takes the place of an idle one.                             *)
LEMMA EntryCreated ==
  ASSUME IInv, NEW t \in Turn, Create(t)
  PROVE  IInv'
<1>0. /\ turn \in [Turn -> TurnRecord] /\ entry \in [Entry -> EntryRecord] /\ Rest
      /\ ConversationOf[t] \in Conversation
  BY Records, RegistryAssumption DEF IInv
<1>1. PICK c \in Conversation, e \in Entry, out \in Entry \cup {None} :
        /\ c = ConversationOf[t] /\ turn[t].pc = "acquire" /\ Unused(e)
        /\ sessions' = [Without(out) EXCEPT ![c] = e]
        /\ \E s \in {"waitPredecessor", "leaseWait"} :
             entry' = [Dispose(entry, out) EXCEPT ![e] =
               [Gone EXCEPT !.stage = s, !.conv = c, !.reservations = 1, !.after = out]]
        /\ turn' = [turn EXCEPT ![t].pc = "await", ![t].at = e]
        /\ UNCHANGED <<abort, reset, stopped, upsets, missed, maxResident>>
  <2> DEFINE e == CHOOSE x \in Entry : Unused(x)
  <2>1. e \in Entry /\ Unused(e)
    BY DEF Create
  <2>2. PICK out \in IF Full THEN {x \in Entry : Idle(x)} ELSE {None} :
          /\ sessions' = [Without(out) EXCEPT ![ConversationOf[t]] = e]
          /\ entry' = [Dispose(entry, out) EXCEPT ![e] =
               [Gone EXCEPT
                  !.stage = IF Full THEN "waitPredecessor" ELSE "leaseWait",
                  !.conv = ConversationOf[t], !.reservations = 1, !.after = out]]
    BY DEF Create
  <2>3. /\ turn[t].pc = "acquire"
        /\ turn' = [turn EXCEPT ![t].pc = "await", ![t].at = e]
        /\ UNCHANGED <<abort, reset, stopped, upsets, missed, maxResident>>
    BY DEF Create
  <2> HIDE DEF e
  <2> QED
    BY <1>0, <2>1, <2>2, <2>3
<1>2. PICK n \in EntryRecord :
        /\ n.stage \in Waiting /\ n.conv = c /\ n.reservations = 1 /\ ~n.disposing
        /\ ~n.leased /\ n.worker = "none"
        /\ entry' = [Dispose(entry, out) EXCEPT ![e] = n]
  BY <1>1 DEF Gone, EntryRecord, Stages, Waiting
<1>3. /\ Inert(e) /\ \A u \in Turn : turn[u].at # e
      /\ \A d \in Aborter : abort[d].at # e
  BY <1>1 DEF Unused
<1>4. /\ entry' \in [Entry -> EntryRecord] /\ entry'[e] = n
      /\ \A x \in Entry \ {e} :
           /\ AsFar(entry[x], entry'[x])
           /\ entry'[x].disposing = entry[x].disposing \/ (x = out /\ entry'[x].disposing)
           /\ entry'[x].reservations = entry[x].reservations
  <2>1. /\ Dispose(entry, out) \in [Entry -> EntryRecord]
        /\ \A x \in Entry :
             Dispose(entry, out)[x] = IF x = out /\ ~Inert(x)
                                      THEN [entry[x] EXCEPT !.disposing = TRUE]
                                      ELSE entry[x]
    BY <1>0, DisposeFields
  <2>2. entry' \in [Entry -> EntryRecord] /\ entry'[e] = n
    BY <1>2, <2>1
  <2>3. ASSUME NEW x \in Entry \ {e}
        PROVE  /\ AsFar(entry[x], entry'[x])
               /\ entry'[x].disposing = entry[x].disposing \/ (x = out /\ entry'[x].disposing)
               /\ entry'[x].reservations = entry[x].reservations
    <3>1. entry'[x] = Dispose(entry, out)[x] /\ entry[x] \in EntryRecord
      BY <1>0, <1>2, <2>1
    <3>2. CASE x = out /\ ~Inert(x)
      BY <2>1, <3>1, <3>2 DEF AsFar, EntryRecord
    <3>3. CASE ~(x = out /\ ~Inert(x))
      BY <2>1, <3>1, <3>3 DEF AsFar
    <3> QED
      BY <3>2, <3>3
  <2> QED
    BY <2>2, <2>3
<1>5. /\ turn' \in [Turn -> TurnRecord] /\ OnlyTurn(t)
      /\ turn'[t].pc = "await" /\ turn'[t].at = e
  BY <1>0, <1>1 DEF TurnRecord, TurnPCs, OnlyTurn
<1>6. /\ sessions' \in [Conversation -> Entry \cup {None}]
      /\ sessions'[c] = e
      /\ \A d \in Conversation \ {c}, x \in Entry :
           sessions'[d] = x => sessions[d] = x /\ x # out /\ x # e
  <2>1. /\ Without(out) \in [Conversation -> Entry \cup {None}]
        /\ \A d \in Conversation : /\ Without(out)[d] \in {sessions[d], None}
                                   /\ out # None => Without(out)[d] # out
    BY <1>0, WithoutFields DEF Rest
  <2>2. \A d \in Conversation : sessions[d] # e
    BY <1>3 DEF IInv, MapInv
  <2> QED
    BY <1>1, <2>1, <2>2, RegistryAssumption
<1>7. TypeOK'
  BY <1>0, <1>1, <1>4, <1>5, <1>6, Records, RecordsAfter DEF IInv, Rest
<1>8. AtInv'
  BY <1>1, <1>5 DEF IInv, AtInv, OnlyTurn
<1>9. WorkerInv'
  <2>1. ASSUME NEW x \in Entry
        PROVE  WorkerOf(x)'
    <3>1. CASE x = e
      BY <1>2, <1>4, <3>1 DEF WorkerOf, Waiting
    <3>2. CASE x # e
      <4>1. /\ AsFar(entry[x], entry'[x]) /\ WorkerOf(x)
            /\ entry'[x].disposing = entry[x].disposing \/ entry'[x].disposing
        BY <1>4, <3>2 DEF IInv, WorkerInv
      <4> QED
        BY <4>1 DEF WorkerOf, AsFar, Waiting
    <3> QED
      BY <3>1, <3>2
  <2> QED
    BY <2>1 DEF WorkerInv
<1>10. MapInv'
  <2>1. ASSUME NEW d \in Conversation, NEW x \in Entry, sessions'[d] = x
        PROVE  ~Inert(x)' /\ ~entry'[x].disposing /\ entry'[x].conv = d
    <3>1. CASE d = c
      BY <1>2, <1>4, <1>6, <2>1, <3>1 DEF Inert, Waiting
    <3>2. CASE d # c
      <4>1. sessions[d] = x /\ x # out /\ x # e
        BY <1>6, <2>1, <3>2
      <4>2. ~Inert(x) /\ ~entry[x].disposing /\ entry[x].conv = d
        BY <4>1 DEF IInv, MapInv
      <4>3. AsFar(entry[x], entry'[x]) /\ entry'[x].disposing = entry[x].disposing
        BY <1>4, <4>1
      <4> QED
        BY <4>2, <4>3 DEF AsFar, Inert, Waiting
    <3> QED
      BY <3>1, <3>2
  <2>2. ASSUME NEW d \in Aborter, NEW x \in Entry, abort'[d].at = x
        PROVE  Inert(x)' \/ entry'[x].conv = Target(d)
    <3>1. x # e /\ (Inert(x) \/ entry[x].conv = Target(d))
      BY <1>1, <1>3, <2>2 DEF IInv, MapInv
    <3>2. AsFar(entry[x], entry'[x])
      BY <1>4, <3>1
    <3> QED
      BY <3>1, <3>2 DEF AsFar, Inert, Waiting
  <2> QED
    BY <2>1, <2>2 DEF MapInv
<1>11. Cardinality(Leased') <= Capacity
  <2>1. Leased' \subseteq Leased
    BY <1>2, <1>4 DEF Leased, AsFar
  <2>2. IsFiniteSet(Leased)
    BY RegistryAssumption, FS_Subset DEF Leased
  <2>3. /\ Cardinality(Leased') <= Cardinality(Leased)
        /\ Cardinality(Leased) \in Nat /\ Cardinality(Leased') \in Nat
    BY <2>1, <2>2, FS_Subset, FS_CardinalityType
  <2> QED
    BY <2>3, RegistryAssumption DEF IInv
<1>12. \A x : Aborters(x)' = Aborters(x)
  BY <1>1 DEF Aborters
<1>13. Balanced(e)'
  <2>1. Users(e) = {} /\ Aborters(e) = {}
    BY <1>3 DEF Users, Aborters
  <2>2. Users(e)' = Users(e) \cup {t}
    BY <1>3, <1>5, OneTurn DEF Uses, Using
  <2>3. Users(e)' = {t} /\ Aborters(e)' = {}
    BY <1>12, <2>1, <2>2
  <2>4. Cardinality({t}) = 1 /\ Cardinality({}) = 0
    BY FS_Singleton, FS_EmptySet
  <2> QED
    BY <1>2, <1>4, <2>3, <2>4 DEF Balanced
<1>14. ASSUME NEW x \in Entry \ {e}
       PROVE  Balanced(x)'
  <2>1. Users(x)' = Users(x)
    BY <1>1, <1>5, OneTurn DEF Uses, Using
  <2>2. Mapped(x)' => Mapped(x)
    BY <1>6 DEF Mapped
  <2> QED
    BY <1>4, <1>12, <2>1, <2>2 DEF IInv, Balanced
<1>15. \A x \in Entry : Balanced(x)'
  BY <1>13, <1>14
<1> QED
  BY <1>7, <1>8, <1>9, <1>10, <1>11, <1>15 DEF IInv
-----------------------------------------------------------------------------
(* Steps of one entry: its startup, its Worker and its disposal.           *)
LEMMA EntryMoves ==
  ASSUME IInv, TypeOK', UNCHANGED <<turn, abort>>, NEW e \in Entry,
         \A c \in Conversation, x \in Entry : sessions'[c] = x => sessions[c] = x,
         \A x \in Entry \ {e} : /\ AsFar(entry[x], entry'[x])
                                /\ entry'[x].disposing = entry[x].disposing
                                /\ entry'[x].reservations = entry[x].reservations,
         ~Inert(e), WorkerOf(e)',
         Inert(e)' \/ entry'[e].conv = entry[e].conv,
         Mapped(e)' => /\ ~Inert(e)' /\ entry'[e].disposing = entry[e].disposing
                       /\ entry'[e].reservations = entry[e].reservations,
         Cardinality(Leased') <= Capacity
  PROVE  IInv'
<1>1. AtInv'
  BY DEF IInv, AtInv
<1>2. WorkerInv'
  <2>1. ASSUME NEW x \in Entry \ {e}
        PROVE  WorkerOf(x)'
    <3>1. WorkerOf(x) /\ AsFar(entry[x], entry'[x]) /\ entry'[x].disposing = entry[x].disposing
      BY DEF IInv, WorkerInv
    <3> QED
      BY <3>1 DEF WorkerOf, AsFar, Waiting
  <2> QED
    BY <2>1 DEF WorkerInv
<1>3. MapInv'
  <2>1. ASSUME NEW d \in Conversation, NEW x \in Entry, sessions'[d] = x
        PROVE  ~Inert(x)' /\ ~entry'[x].disposing /\ entry'[x].conv = d
    <3>1. sessions[d] = x /\ Mapped(x)'
      BY <2>1 DEF Mapped
    <3>2. ~Inert(x) /\ ~entry[x].disposing /\ entry[x].conv = d
      BY <3>1 DEF IInv, MapInv
    <3>3. CASE x = e
      BY <3>1, <3>2, <3>3
    <3>4. CASE x # e
      <4>1. AsFar(entry[x], entry'[x]) /\ entry'[x].disposing = entry[x].disposing
        BY <3>4
      <4> QED
        BY <3>2, <4>1 DEF AsFar, Inert, Waiting
    <3> QED
      BY <3>3, <3>4
  <2>2. ASSUME NEW d \in Aborter, NEW x \in Entry, abort'[d].at = x
        PROVE  Inert(x)' \/ entry'[x].conv = Target(d)
    <3>1. Inert(x) \/ entry[x].conv = Target(d)
      BY <2>2 DEF IInv, MapInv
    <3>2. CASE x = e
      BY <3>1, <3>2
    <3>3. CASE x # e
      <4>1. AsFar(entry[x], entry'[x])
        BY <3>3
      <4> QED
        BY <3>1, <4>1 DEF AsFar, Inert, Waiting
    <3> QED
      BY <3>2, <3>3
  <2> QED
    BY <2>1, <2>2 DEF MapInv
<1>4. ASSUME NEW x \in Entry
      PROVE  Balanced(x)'
  <2>1. Mapped(x)' => Mapped(x) /\ entry'[x].reservations = entry[x].reservations
    BY DEF Mapped
  <2>2. Users(x)' = Users(x) /\ Aborters(x)' = Aborters(x)
    BY DEF Users, Aborters
  <2> QED
    BY <2>1, <2>2 DEF IInv, Balanced
<1> QED
  BY <1>1, <1>2, <1>3, <1>4 DEF IInv

LEMMA LeasedCount ==
  ASSUME IInv, entry' \in [Entry -> EntryRecord], Leased' \subseteq Leased
  PROVE  Cardinality(Leased') <= Capacity
<1>1. IsFiniteSet(Leased)
  BY RegistryAssumption, FS_Subset DEF Leased
<1>2. /\ Cardinality(Leased') <= Cardinality(Leased)
      /\ Cardinality(Leased) \in Nat /\ Cardinality(Leased') \in Nat
  BY <1>1, FS_Subset, FS_CardinalityType
<1> QED
  BY <1>2, RegistryAssumption DEF IInv

(* An entry moves on, and whoever waits for a lease may be told.           *)
LEMMA OthersAlike ==
  ASSUME IInv, NEW e \in Entry, NEW r \in EntryRecord,
         \/ entry' = [entry EXCEPT ![e] = r]
         \/ r.stage # "leaseSleep" /\ entry' = Notify([entry EXCEPT ![e] = r])
  PROVE  /\ entry' \in [Entry -> EntryRecord] /\ entry'[e] = r
         /\ \A x \in Entry \ {e} :
              /\ AsFar(entry[x], entry'[x])
              /\ entry'[x].disposing = entry[x].disposing
              /\ entry'[x].reservations = entry[x].reservations
<1> DEFINE E == [entry EXCEPT ![e] = r]
<1>1. /\ E \in [Entry -> EntryRecord] /\ E[e] = r
      /\ \A x \in Entry \ {e} : E[x] = entry[x] /\ AsFar(entry[x], E[x])
  BY EntryAlike
<1>2. CASE entry' = E
  BY <1>1, <1>2
<1> HIDE DEF E
<1>3. CASE r.stage # "leaseSleep" /\ entry' = Notify(E)
  <2>1. entry' \in [Entry -> EntryRecord] /\ entry'[e] = r
    BY <1>1, <1>3, NotifyFields
  <2>2. ASSUME NEW x \in Entry \ {e}
        PROVE  /\ AsFar(entry[x], entry'[x])
               /\ entry'[x].disposing = entry[x].disposing
               /\ entry'[x].reservations = entry[x].reservations
    BY <1>1, <1>3, NotifyAsFar
  <2> QED
    BY <2>1, <2>2
<1> QED
  BY <1>2, <1>3 DEF E

LEMMA LeasedKept ==
  ASSUME IInv, entry' \in [Entry -> EntryRecord], NEW e \in Entry,
         \A x \in Entry \ {e} : AsFar(entry[x], entry'[x]),
         entry'[e].leased => entry[e].leased
  PROVE  Cardinality(Leased') <= Capacity
<1>1. Leased' \subseteq Leased
  BY DEF Leased, AsFar
<1> QED
  BY <1>1, LeasedCount

LEMMA EntryFails ==
  ASSUME IInv, NEW e \in Entry,
         StartupCancelled(e) \/ WorkerStartFails(e) \/ Discarded(e)
  PROVE  IInv'
<1>1. FailEntry(e) /\ ~Inert(e) /\ missed' \in BOOLEAN
  BY Records DEF StartupCancelled, WorkerStartFails, Discarded, Inert, IInv, Rest
<1>2. Failed \in EntryRecord /\ Failed.stage = "failed" /\ Failed.worker = "none"
      /\ ~Failed.leased
  BY DEF Failed, Gone, EntryRecord, Stages
<1>3. /\ entry' \in [Entry -> EntryRecord] /\ entry'[e] = Failed
      /\ \A x \in Entry \ {e} :
           /\ AsFar(entry[x], entry'[x])
           /\ entry'[x].disposing = entry[x].disposing
           /\ entry'[x].reservations = entry[x].reservations
  BY <1>1, <1>2, OthersAlike DEF FailEntry
<1>4. /\ sessions' \in [Conversation -> Entry \cup {None}] /\ ~Mapped(e)'
      /\ \A c \in Conversation, x \in Entry : sessions'[c] = x => sessions[c] = x
  BY <1>1, Records, WithoutFields, RegistryAssumption DEF FailEntry, IInv, Rest, Mapped
<1>5. TypeOK'
  BY <1>1, <1>3, <1>4, Records, RecordsAfter DEF FailEntry, IInv, Rest
<1>6. Inert(e)' /\ WorkerOf(e)'
  BY <1>2, <1>3 DEF Inert, WorkerOf
<1>7. Cardinality(Leased') <= Capacity
  BY <1>2, <1>3, LeasedKept
<1> QED
  BY <1>1, <1>3, <1>4, <1>5, <1>6, <1>7, EntryMoves DEF FailEntry

LEMMA WorkerMoves ==
  ASSUME IInv, NEW e \in Entry,
         WorkerStarts(e) \/ WorkerExits(e) \/ DisposeStarts(e) \/ DisposeEnds(e)
  PROVE  IInv'
<1>0. entry[e] \in EntryRecord /\ WorkerOf(e)
  BY EntryAlike DEF IInv, WorkerInv
<1>1. /\ ~Inert(e) /\ UNCHANGED <<sessions, turn, abort, reset, stopped>>
      /\ Upset \/ UNCHANGED <<upsets, missed, maxResident>>
  BY DEF WorkerStarts, WorkerExits, DisposeStarts, DisposeEnds, Inert
<1>2. entry[e].disposing => ~Mapped(e)
  BY DEF IInv, MapInv, Mapped
<1>3. \E r \in EntryRecord :
        /\ \/ entry' = [entry EXCEPT ![e] = r]
           \/ r.stage # "leaseSleep" /\ entry' = Notify([entry EXCEPT ![e] = r])
        /\ r = Gone \/ r.conv = entry[e].conv
        /\ Mapped(e) => /\ r.stage \notin {"gone", "failed"}
                        /\ r.disposing = entry[e].disposing
                        /\ r.reservations = entry[e].reservations
        /\ r.leased => entry[e].leased
        /\ r.stage \in {"starting", "discarding", "ready"} => r.leased
        /\ r.worker # "none" => r.stage \in {"discarding", "ready"}
        /\ r.worker = "live" => r.stage = "ready"
        /\ r.worker = "closing" => r.disposing
  <2>1. CASE WorkerStarts(e) /\ ~entry[e].disposing
    <3> DEFINE r == [entry[e] EXCEPT !.stage = "ready", !.worker = "live"]
    <3>1. entry' = Notify([entry EXCEPT ![e] = r])
      BY <2>1, EntryAlike DEF WorkerStarts
    <3>2. r \in EntryRecord
      BY <1>0 DEF EntryRecord, Stages
    <3> QED
      BY <1>0, <2>1, <3>1, <3>2 DEF WorkerStarts, WorkerOf, EntryRecord
  <2>2. CASE WorkerStarts(e) /\ entry[e].disposing
    <3> DEFINE r == [entry[e] EXCEPT !.stage = "discarding", !.worker = "closing"]
    <3>1. entry' = [entry EXCEPT ![e] = r]
      BY <2>2, EntryAlike DEF WorkerStarts
    <3>2. r \in EntryRecord
      BY <1>0 DEF EntryRecord, Stages
    <3> QED
      BY <1>0, <1>2, <2>2, <3>1, <3>2 DEF WorkerStarts, WorkerOf, EntryRecord
  <2>3. CASE WorkerExits(e)
    <3> DEFINE r == [entry[e] EXCEPT !.worker = "dead", !.streaming = FALSE]
    <3>1. entry' = [entry EXCEPT ![e] = r]
      BY <2>3, EntryAlike DEF WorkerExits
    <3>2. r \in EntryRecord
      BY <1>0 DEF EntryRecord
    <3> QED
      BY <1>0, <2>3, <3>1, <3>2 DEF WorkerExits, WorkerOf, EntryRecord
  <2>4. CASE DisposeStarts(e)
    <3> DEFINE r == [entry[e] EXCEPT !.worker = "closing", !.context = None,
                                     !.streaming = FALSE]
    <3>1. entry' = [entry EXCEPT ![e] = r]
      BY <2>4, EntryAlike DEF DisposeStarts
    <3>2. r \in EntryRecord
      BY <1>0 DEF EntryRecord
    <3> QED
      BY <1>0, <1>2, <2>4, <3>1, <3>2 DEF DisposeStarts, WorkerOf, EntryRecord
  <2>5. CASE DisposeEnds(e)
    <3>1. entry' = Notify([entry EXCEPT ![e] = Gone]) /\ ~Mapped(e)
      BY <1>0, <1>2, <2>5 DEF DisposeEnds, WorkerOf
    <3>2. /\ Gone \in EntryRecord /\ Gone.stage = "gone" /\ Gone.worker = "none"
          /\ ~Gone.leased
      BY DEF Gone, EntryRecord, Stages
    <3> QED
      BY <3>1, <3>2
  <2> QED
    BY <2>1, <2>2, <2>3, <2>4, <2>5
<1>4. PICK r \in EntryRecord :
        /\ \/ entry' = [entry EXCEPT ![e] = r]
           \/ r.stage # "leaseSleep" /\ entry' = Notify([entry EXCEPT ![e] = r])
        /\ r = Gone \/ r.conv = entry[e].conv
        /\ Mapped(e) => /\ r.stage \notin {"gone", "failed"}
                        /\ r.disposing = entry[e].disposing
                        /\ r.reservations = entry[e].reservations
        /\ r.leased => entry[e].leased
        /\ r.stage \in {"starting", "discarding", "ready"} => r.leased
        /\ r.worker # "none" => r.stage \in {"discarding", "ready"}
        /\ r.worker = "live" => r.stage = "ready"
        /\ r.worker = "closing" => r.disposing
  BY <1>3
<1>5. /\ entry' \in [Entry -> EntryRecord] /\ entry'[e] = r
      /\ \A x \in Entry \ {e} :
           /\ AsFar(entry[x], entry'[x])
           /\ entry'[x].disposing = entry[x].disposing
           /\ entry'[x].reservations = entry[x].reservations
  BY <1>4, OthersAlike
<1>6. TypeOK'
  BY <1>1, <1>5, Records, RecordsAfter, UpsetCounted DEF IInv, Rest
<1>7. WorkerOf(e)'
  BY <1>4, <1>5 DEF WorkerOf
<1>8. Inert(e)' \/ entry'[e].conv = entry[e].conv
  BY <1>4, <1>5 DEF Inert, Gone
<1>9. Mapped(e)' => /\ ~Inert(e)' /\ entry'[e].disposing = entry[e].disposing
                    /\ entry'[e].reservations = entry[e].reservations
  <2>1. Mapped(e)' <=> Mapped(e)
    BY <1>1 DEF Mapped
  <2> QED
    BY <1>4, <1>5, <2>1 DEF Inert
<1>10. Cardinality(Leased') <= Capacity
  BY <1>4, <1>5, LeasedKept
<1> QED
  BY <1>1, <1>5, <1>6, <1>7, <1>8, <1>9, <1>10, EntryMoves

LEMMA LeaseGranted ==
  ASSUME IInv, NEW e \in Entry, LeaseGrant(e)
  PROVE  IInv'
<1>0. entry[e] \in EntryRecord /\ WorkerOf(e)
  BY EntryAlike DEF IInv, WorkerInv
<1> DEFINE r == [entry[e] EXCEPT !.stage = "starting", !.leased = TRUE]
<1>1. /\ entry[e].stage = "leaseWait" /\ Cardinality(Leased) < Capacity
      /\ entry' = [entry EXCEPT ![e] = r]
      /\ UNCHANGED <<sessions, turn, abort, reset, stopped, upsets, missed, maxResident>>
  BY EntryAlike DEF LeaseGrant
<1>2. /\ r \in EntryRecord /\ r.stage = "starting" /\ r.leased
      /\ r.conv = entry[e].conv /\ r.disposing = entry[e].disposing
      /\ r.reservations = entry[e].reservations /\ r.worker = entry[e].worker
  BY <1>0 DEF EntryRecord, Stages
<1> HIDE DEF r
<1>3. /\ entry' \in [Entry -> EntryRecord] /\ entry'[e] = r
      /\ \A x \in Entry \ {e} :
           /\ AsFar(entry[x], entry'[x])
           /\ entry'[x].disposing = entry[x].disposing
           /\ entry'[x].reservations = entry[x].reservations
  BY <1>1, <1>2, OthersAlike
<1>4. TypeOK'
  BY <1>1, <1>3, Records, RecordsAfter DEF IInv, Rest
<1>5. ~Inert(e) /\ ~Inert(e)' /\ WorkerOf(e)'
  BY <1>0, <1>1, <1>2, <1>3 DEF Inert, WorkerOf
<1>6. Cardinality(Leased') <= Capacity
  <2>1. IsFiniteSet(Leased) /\ Cardinality(Leased) \in Nat
    BY RegistryAssumption, FS_Subset, FS_CardinalityType DEF Leased
  <2>2. Leased' \subseteq Leased \cup {e}
    BY <1>3 DEF Leased, AsFar
  <2>3. /\ IsFiniteSet(Leased \cup {e})
        /\ Cardinality(Leased \cup {e}) <= Cardinality(Leased) + 1
    <3>1. /\ IsFiniteSet(Leased \cup {e})
          /\ \/ Cardinality(Leased \cup {e}) = Cardinality(Leased)
             \/ Cardinality(Leased \cup {e}) = Cardinality(Leased) + 1
      BY <2>1, FS_AddElement
    <3> QED
      BY <2>1, <3>1
  <2>4. /\ Cardinality(Leased') <= Cardinality(Leased \cup {e})
        /\ Cardinality(Leased') \in Nat /\ Cardinality(Leased \cup {e}) \in Nat
    BY <2>2, <2>3, FS_Subset, FS_CardinalityType
  <2> QED
    BY <1>1, <2>1, <2>3, <2>4, RegistryAssumption
<1> QED
  BY <1>1, <1>2, <1>3, <1>4, <1>5, <1>6, EntryMoves
-----------------------------------------------------------------------------
(* Startups that wait, one for an idle resident it evicts.                 *)
LEMMA StartupWaits ==
  ASSUME IInv, NEW e \in Entry,
         \/ PredecessorGone(e) \/ ResidentGone(e) \/ EvictRefuses(e) \/ LeaseSleep(e)
         \/ EvictAgrees(e)
         \/ \E resident \in Entry : LeasePick(e, resident)
  PROVE  IInv'
<1>0. entry \in [Entry -> EntryRecord] /\ Rest
  BY Records DEF IInv
<1>1. CASE \/ PredecessorGone(e) \/ ResidentGone(e) \/ EvictRefuses(e) \/ LeaseSleep(e)
           \/ \E resident \in Entry : LeasePick(e, resident)
  <2>1. /\ UNCHANGED <<sessions, turn, abort, reset, stopped, upsets, maxResident>>
        /\ missed' \in BOOLEAN
    BY <1>0, <1>1 DEF PredecessorGone, ResidentGone, EvictRefuses, LeaseSleep,
       LeasePick, Rest
  <2>2. Alike(entry')
    <3>1. \E s \in Waiting, after \in Entry \cup {None} :
            /\ entry[e].stage \in Waiting
            /\ entry' = [entry EXCEPT ![e] =
                           [entry[e] EXCEPT !.stage = s, !.after = after]]
      <4>1. CASE PredecessorGone(e) \/ ResidentGone(e)
        <5>1. entry[e].stage \in Waiting
              /\ entry' = [entry EXCEPT ![e] =
                             [entry[e] EXCEPT !.stage = "leaseWait", !.after = None]]
          BY <1>0, <4>1 DEF PredecessorGone, ResidentGone, Waiting
        <5> QED
          BY <5>1 DEF Waiting
      <4>2. CASE LeaseSleep(e)
        <5>1. entry[e].stage \in Waiting
              /\ entry' = [entry EXCEPT ![e] =
                             [entry[e] EXCEPT !.stage = "leaseSleep", !.after = None]]
          BY <1>0, <4>2 DEF LeaseSleep, Waiting
        <5> QED
          BY <5>1 DEF Waiting
      <4>3. CASE EvictRefuses(e)
        <5>1. entry[e].stage \in Waiting /\ entry[e].after \in Entry \cup {None}
              /\ entry' = [entry EXCEPT ![e] =
                   [entry[e] EXCEPT !.stage = "leaseRefused", !.after = entry[e].after]]
          BY <1>0, <4>3 DEF EvictRefuses, Waiting, EntryRecord
        <5> QED
          BY <5>1 DEF Waiting
      <4>4. CASE \E resident \in Entry : LeasePick(e, resident)
        <5>1. PICK resident \in Entry : LeasePick(e, resident)
          BY <4>4
        <5>2. entry[e].stage \in Waiting
              /\ entry' = [entry EXCEPT ![e] =
                   [entry[e] EXCEPT !.stage = "leaseAsk", !.after = resident]]
          BY <1>0, <5>1 DEF LeasePick, Waiting
        <5> QED
          BY <5>2 DEF Waiting
      <4> QED
        BY <1>1, <4>1, <4>2, <4>3, <4>4
    <3>2. PICK s \in Waiting, after \in Entry \cup {None} :
            /\ entry[e].stage \in Waiting
            /\ entry' = [entry EXCEPT ![e] =
                           [entry[e] EXCEPT !.stage = s, !.after = after]]
      BY <3>1
    <3> DEFINE r == [entry[e] EXCEPT !.stage = s, !.after = after]
    <3>3. r \in EntryRecord /\ AsFar(entry[e], r)
          /\ r.disposing = entry[e].disposing
          /\ r.reservations = entry[e].reservations
      BY <1>0, <3>2 DEF EntryRecord, Stages, AsFar, Waiting
    <3> HIDE DEF r
    <3>4. entry' = [entry EXCEPT ![e] = r]
      BY <3>2 DEF r
    <3> QED
      BY <1>0, <3>3, <3>4, EntryAlike DEF Alike
  <2>3. Frame /\ (\A x \in Entry : SameCount(x)) /\ entry' \in [Entry -> EntryRecord]
    BY <2>1, <2>2, AlikeFrame
  <2>4. TypeOK'
    BY <1>0, <2>1, <2>3, Records, RecordsAfter DEF IInv, Rest
  <2> QED
    BY <2>1, <2>3, <2>4, QuietRest
<1>2. CASE EvictAgrees(e)
  <2>1. PICK resident \in Entry :
          /\ entry[e].stage = "leaseAsk" /\ Idle(resident)
          /\ sessions' = Without(resident)
          /\ entry' = [Dispose(entry, resident) EXCEPT ![e].stage = "leaseEvict"]
          /\ UNCHANGED <<turn, abort, reset, stopped, upsets, missed, maxResident>>
    BY <1>2 DEF EvictAgrees
  <2>2. /\ e # resident /\ entry[e].stage = "leaseAsk" /\ sessions' = Without(resident)
        /\ entry' = [Dispose(entry, resident) EXCEPT ![e].stage = "leaseEvict"]
        /\ UNCHANGED <<turn, abort, reset, stopped, upsets, missed, maxResident>>
    BY <2>1 DEF Idle
  <2> DEFINE E == [entry EXCEPT ![e] =
                     [entry[e] EXCEPT !.stage = "leaseEvict"]]
  <2>3. /\ E \in [Entry -> EntryRecord]
        /\ \A x \in Entry : /\ AsFar(entry[x], E[x])
                            /\ E[x].disposing = entry[x].disposing
                            /\ E[x].reservations = entry[x].reservations
    <3> DEFINE r == [entry[e] EXCEPT !.stage = "leaseEvict"]
    <3>1. /\ r \in EntryRecord /\ AsFar(entry[e], r)
          /\ r.disposing = entry[e].disposing
          /\ r.reservations = entry[e].reservations
      BY <1>0, <2>2 DEF EntryRecord, Stages, AsFar, Waiting
    <3> HIDE DEF r
    <3>2. E = [entry EXCEPT ![e] = r]
      BY DEF r
    <3> HIDE DEF E
    <3> QED
      BY <1>0, <3>1, <3>2, EntryAlike
  <2>4. entry' = Dispose(E, resident)
    <3>1. Dispose(entry, resident)[e] = entry[e]
      BY <1>0, <2>2, DisposeFields
    <3>2. entry' = [Dispose(entry, resident) EXCEPT ![e] =
                      [entry[e] EXCEPT !.stage = "leaseEvict"]]
      BY <2>2, <3>1 DEF Dispose
    <3> QED
      BY <1>0, <2>2, <3>2 DEF Dispose
  <2> HIDE DEF E
  <2>5. \A c \in Conversation :
          sessions'[c] # resident /\ sessions'[c] \in {sessions[c], None}
    BY <1>0, <2>2, WithoutFields, RegistryAssumption DEF Rest
  <2>6. Frame /\ (\A x \in Entry : SameCount(x)) /\ entry' \in [Entry -> EntryRecord]
    BY <2>2, <2>3, <2>4, <2>5, DisposeFrame
  <2>7. TypeOK'
    BY <1>0, <2>2, <2>6, WithoutFields, Records, RecordsAfter DEF IInv, Rest
  <2> QED
    BY <2>2, <2>6, <2>7, QuietRest
<1> QED
  BY <1>1, <1>2

-----------------------------------------------------------------------------
(* Aborts, resets, maintenance and stop().                                 *)
LEMMA QuietAbort ==
  ASSUME IInv, TypeOK', Frame, turn' = turn, NEW c \in Aborter, OnlyAbort(c),
         abort'[c].pc = "none" <=> abort'[c].at = None,
         \A e \in Entry : Mapped(e)' => (abort'[c].at = e <=> abort[c].at = e),
         \A e \in Entry : SameCount(e)
  PROVE  IInv'
<1>1. AtInv'
  BY DEF IInv, AtInv, OnlyAbort
<1>2. ASSUME NEW e \in Entry, Mapped(e)'
      PROVE  Mapped(e) /\ SameUsers(e) /\ entry'[e].reservations = entry[e].reservations
  BY <1>2, OneAbort, FrameMapped DEF SameUsers, SameCount, Users
<1> QED
  BY <1>1, <1>2, QuietStep DEF CountKept

LEMMA AbortMoves ==
  ASSUME IInv, NEW c \in Aborter,
         AbortStep(c) \/ AbortEvicts(c) \/ AbortFails(c)
  PROVE  IInv'
<1>0. /\ abort \in [Aborter -> AbortRecord] /\ entry \in [Entry -> EntryRecord]
      /\ Rest
  BY Records DEF IInv
<1>1. CASE AbortFindsNothing(c) \/ AbortFails(c)
  <2>1. /\ abort[c].pc # "none" /\ abort' = [abort EXCEPT ![c] = Resting]
        /\ entry' = Unreserve(entry, abort[c].at)
        /\ UNCHANGED <<sessions, turn, reset, stopped, upsets, missed, maxResident>>
    BY <1>1 DEF AbortFindsNothing, AbortFails
  <2> QED
    BY <2>1, AborterLeaves
<1>2. CASE AbortAsks(c)
  <2>1. /\ abort[c].pc = "await" /\ abort' = [abort EXCEPT ![c].pc = "asked"]
        /\ UNCHANGED <<sessions, entry, turn, reset, stopped, upsets, missed, maxResident>>
    BY <1>2 DEF AbortAsks
  <2>2. /\ abort' \in [Aborter -> AbortRecord] /\ OnlyAbort(c)
        /\ abort'[c].pc = "asked" /\ abort'[c].at = abort[c].at
    BY <1>0, <2>1 DEF AbortRecord, OnlyAbort
  <2>3. TypeOK'
    BY <1>0, <2>1, <2>2, Records, RecordsAfter DEF IInv, Rest
  <2>4. Frame /\ \A x \in Entry : SameCount(x)
    BY <2>1, <2>2, StandsStill DEF OnlyAbort
  <2>5. abort'[c].at # None
    BY <2>1, <2>2 DEF IInv, AtInv
  <2> QED
    BY <2>1, <2>2, <2>3, <2>4, <2>5, QuietAbort
<1>3. CASE AbortEvicts(c)
  <2>1. PICK e \in Entry : e = abort[c].at
    BY <1>0, <1>3 DEF AbortEvicts, IInv, AtInv, AbortRecord
  <2>2. /\ abort[c].pc = "asked" /\ abort' = [abort EXCEPT ![c].pc = "evicting"]
        /\ sessions' = Without(e)
        /\ UNCHANGED <<turn, reset, stopped, upsets, missed, maxResident>>
    BY <1>3, <2>1 DEF AbortEvicts
  <2>3. /\ abort' \in [Aborter -> AbortRecord] /\ OnlyAbort(c)
        /\ abort'[c].pc = "evicting" /\ abort'[c].at = e
        /\ \A d \in Aborter, x \in Entry : abort'[d].at = x => abort[d].at = x
    BY <1>0, <2>1, <2>2 DEF AbortRecord, OnlyAbort
  <2>4. Frame /\ (\A x \in Entry : SameCount(x)) /\ entry' \in [Entry -> EntryRecord]
    <3>1. CASE Mapped(e)
      <4>1. entry' = Dispose(entry, e)
        BY <1>3, <2>1, <3>1 DEF AbortEvicts
      <4>2. \A d \in Conversation :
              sessions'[d] # e /\ sessions'[d] \in {sessions[d], None}
        BY <1>0, <2>2, WithoutFields, RegistryAssumption DEF Rest
      <4> QED
        BY <2>3, <4>1, <4>2, EntryAlike, DisposeFrame
    <3>2. CASE ~Mapped(e)
      <4>1. entry' = entry /\ sessions' = sessions
        BY <1>0, <1>3, <2>1, <2>2, <3>2, WithoutFields DEF AbortEvicts, Rest
      <4> QED
        BY <1>0, <2>3, <4>1, StandsStill
    <3> QED
      BY <3>1, <3>2
  <2>5. TypeOK'
    BY <1>0, <2>2, <2>3, <2>4, WithoutFields, Records, RecordsAfter DEF IInv, Rest
  <2> QED
    BY <2>1, <2>2, <2>3, <2>4, <2>5, QuietAbort, RegistryAssumption
<1>4. CASE AbortEnds(c)
  <2>1. /\ abort[c].pc = "evicting" /\ Inert(abort[c].at)
        /\ abort' = [abort EXCEPT ![c] = Resting]
        /\ UNCHANGED <<sessions, entry, turn, reset, stopped, upsets, missed, maxResident>>
    BY <1>4 DEF AbortEnds
  <2>2. /\ abort' \in [Aborter -> AbortRecord] /\ OnlyAbort(c)
        /\ abort'[c].pc = "none" /\ abort'[c].at = None
    BY <1>0, <2>1 DEF AbortRecord, OnlyAbort, Resting
  <2>3. TypeOK'
    BY <1>0, <2>1, <2>2, Records, RecordsAfter DEF IInv, Rest
  <2>4. Frame /\ \A x \in Entry : SameCount(x) /\ (Mapped(x)' <=> Mapped(x))
    BY <2>1, <2>2, StandsStill, RegistryAssumption DEF OnlyAbort
  <2>5. \A x \in Entry : Mapped(x)' => abort'[c].at # x /\ abort[c].at # x
    BY <2>1, <2>2, <2>4, MappedActive, RegistryAssumption
  <2> QED
    BY <2>1, <2>2, <2>3, <2>4, <2>5, QuietAbort
<1> QED
  BY <1>1, <1>2, <1>3, <1>4 DEF AbortStep
LEMMA ResetMoves ==
  ASSUME IInv, NEW c \in Conversation, ResetStarts(c) \/ ResetStep(c)
  PROVE  IInv'
<1>0. entry \in [Entry -> EntryRecord] /\ Rest
  BY Records DEF IInv
<1>1. CASE ResetStep(c)
  <2>1. UNCHANGED <<sessions, entry, turn, abort, stopped, upsets, missed, maxResident>>
    BY <1>1 DEF ResetStep, ResetRemoves, ResetEnds
  <2>2. Rest'
    BY <1>0, <1>1, <2>1 DEF Rest, ResetStep, ResetRemoves, ResetEnds, Resting
  <2>3. TypeOK'
    BY <1>0, <2>1, <2>2, Records, RecordsAfter DEF IInv
  <2>4. Frame /\ \A x \in Entry : SameCount(x)
    BY <2>1, StandsStill
  <2> QED
    BY <2>1, <2>3, <2>4, QuietRest
<1>2. CASE ResetStarts(c)
  <2>1. /\ Upset /\ UNCHANGED <<turn, abort, stopped>>
        /\ sessions' = [sessions EXCEPT ![c] = None]
        /\ entry' = IF sessions[c] = None THEN entry ELSE Dispose(entry, sessions[c])
    BY <1>2 DEF ResetStarts
  <2>2. Rest'
    <3>1. reset' \in [Conversation ->
            [pc : {"none", "disposing", "removing"}, at : Entry \cup {None}]]
      BY <1>0, <1>2 DEF Rest, ResetStarts
    <3>2. sessions' \in [Conversation -> Entry \cup {None}]
      BY <1>0, <2>1 DEF Rest
    <3> QED
      BY <1>0, <2>1, <3>1, <3>2, UpsetCounted DEF Rest
  <2>3. Frame /\ (\A x \in Entry : SameCount(x)) /\ entry' \in [Entry -> EntryRecord]
    <3>1. CASE sessions[c] = None
      <4>1. UNCHANGED <<sessions, entry>>
        BY <1>0, <2>1, <3>1 DEF Rest
      <4> QED
        BY <1>0, <2>1, <4>1, StandsStill
    <3>2. CASE sessions[c] # None
      <4>1. PICK e \in Entry : e = sessions[c]
        BY <1>0, <3>2 DEF Rest
      <4>2. \A d \in Conversation : d # c => sessions[d] # e
        BY <4>1 DEF IInv, MapInv
      <4>3. \A d \in Conversation :
              sessions'[d] # e /\ sessions'[d] \in {sessions[d], None}
        BY <1>0, <2>1, <4>1, <4>2, RegistryAssumption DEF Rest
      <4>4. entry' = Dispose(entry, e)
        BY <2>1, <3>2, <4>1
      <4> QED
        BY <2>1, <4>3, <4>4, EntryAlike, DisposeFrame
    <3> QED
      BY <3>1, <3>2
  <2>4. TypeOK'
    BY <2>1, <2>2, <2>3, Records, RecordsAfter DEF IInv
  <2> QED
    BY <2>1, <2>3, <2>4, QuietRest
<1> QED
  BY <1>1, <1>2

LEMMA IdlePruned ==
  ASSUME IInv, NEW e \in Entry, PruneIdle(e)
  PROVE  IInv'
<1>0. entry \in [Entry -> EntryRecord] /\ Rest
  BY Records DEF IInv
<1>1. /\ Upset /\ sessions' = Without(e) /\ entry' = Dispose(entry, e)
      /\ UNCHANGED <<turn, abort, reset, stopped>>
  BY DEF PruneIdle
<1>2. \A d \in Conversation :
        sessions'[d] # e /\ sessions'[d] \in {sessions[d], None}
  BY <1>0, <1>1, WithoutFields, RegistryAssumption DEF Rest
<1>3. Frame /\ (\A x \in Entry : SameCount(x)) /\ entry' \in [Entry -> EntryRecord]
  BY <1>1, <1>2, EntryAlike, DisposeFrame
<1>4. Rest'
  BY <1>0, <1>1, WithoutFields, UpsetCounted DEF Rest
<1>5. TypeOK'
  BY <1>1, <1>3, <1>4, Records, RecordsAfter DEF IInv
<1> QED
  BY <1>1, <1>3, <1>5, QuietRest

LEMMA AllDisposed ==
  ASSUME IInv, DisposeAll
  PROVE  IInv'
<1>0. /\ turn \in [Turn -> TurnRecord] /\ entry \in [Entry -> EntryRecord] /\ Rest
  BY Records DEF IInv
<1>1. /\ sessions' = [c \in Conversation |-> None]
      /\ entry' = [e \in Entry |->
           IF Mapped(e) THEN [entry[e] EXCEPT !.disposing = TRUE] ELSE entry[e]]
      /\ turn' = [t \in Turn |-> [turn[t] EXCEPT !.attached = FALSE]]
      /\ stopped' = TRUE /\ Upset /\ UNCHANGED <<abort, reset>>
  BY DEF DisposeAll
<1>2. /\ turn' \in [Turn -> TurnRecord]
      /\ \A t \in Turn : turn'[t].pc = turn[t].pc /\ turn'[t].at = turn[t].at
  BY <1>0, <1>1 DEF TurnRecord
<1>3. entry' \in [Entry -> EntryRecord]
  BY <1>0, <1>1 DEF EntryRecord
<1>4. \A e \in Entry : ~Mapped(e)'
  BY <1>1, RegistryAssumption DEF Mapped
<1>5. ASSUME NEW e \in Entry
      PROVE  /\ AsFar(entry[e], entry'[e])
             /\ entry'[e].disposing = entry[e].disposing \/ entry'[e].disposing
  BY <1>0, <1>1 DEF AsFar, EntryRecord
<1>6. Frame
  BY <1>1, <1>4, <1>5, RegistryAssumption DEF Frame
<1>7. TypeOK'
  BY <1>0, <1>1, <1>2, <1>3, Records, RecordsAfter, UpsetCounted DEF IInv, Rest
<1>8. AtInv'
  BY <1>1, <1>2 DEF IInv, AtInv
<1> QED
  BY <1>4, <1>6, <1>7, <1>8, QuietStep DEF CountKept

-----------------------------------------------------------------------------
LEMMA InitIInv == Init => IInv
<1> SUFFICES ASSUME Init PROVE IInv
  OBVIOUS
<1>1. /\ \A e \in Entry : entry[e] = Gone
      /\ \A c \in Conversation : sessions[c] = None
      /\ \A a \in Aborter : abort[a] = Resting
      /\ \A t \in Turn : turn[t] = [pc |-> "idle", at |-> None, attached |-> FALSE]
  BY DEF Init
<1>2. TypeOK
  <2>1. entry \in [Entry -> EntryRecord]
    BY DEF Init, Gone, EntryRecord, Stages
  <2>2. turn \in [Turn -> TurnRecord]
    BY DEF Init, TurnRecord, TurnPCs
  <2>3. abort \in [Aborter -> AbortRecord]
    BY DEF Init, AbortRecord, Resting
  <2>4. Rest
    <3>1. /\ sessions = [c \in Conversation |-> None]
          /\ reset = [c \in Conversation |-> Resting]
          /\ stopped = FALSE /\ upsets = 0 /\ missed = FALSE /\ maxResident \in Limits
      BY DEF Init
    <3>2. Resting \in [pc : {"none", "disposing", "removing"}, at : Entry \cup {None}]
      BY DEF Resting
    <3>3. upsets \in 0 .. MaxUpsets
      BY <3>1, RegistryAssumption
    <3> QED
      BY <3>1, <3>2, <3>3 DEF Rest
  <2> QED
    BY <2>1, <2>2, <2>3, <2>4 DEF TypeOK, EntryRecord, TurnRecord, AbortRecord, Rest
<1>3. AtInv /\ WorkerInv
  BY <1>1 DEF AtInv, WorkerInv, WorkerOf, Gone, Resting, Using
<1>4. MapInv /\ \A e \in Entry : Balanced(e)
  BY <1>1, RegistryAssumption DEF MapInv, Balanced, Mapped, Resting
<1>5. Leased = {}
  BY <1>1 DEF Leased, Gone
<1> QED
  BY <1>2, <1>3, <1>4, <1>5, FS_EmptySet, RegistryAssumption DEF IInv

LEMMA Stutters == IInv /\ UNCHANGED vars => IInv'
<1> SUFFICES ASSUME IInv, UNCHANGED vars PROVE IInv'
  OBVIOUS
<1>1. UNCHANGED <<sessions, entry, turn, abort, reset, stopped, upsets, missed, maxResident>>
  BY DEF vars
<1>2. TypeOK'
  BY <1>1 DEF IInv, TypeOK
<1>3. Frame /\ \A x \in Entry : SameCount(x)
  BY <1>1, StandsStill
<1> QED
  BY <1>1, <1>2, <1>3, QuietRest

LEMMA Inductive == IInv /\ [Next]_vars => IInv'
<1> SUFFICES ASSUME IInv, [Next]_vars PROVE IInv'
  OBVIOUS
<1>1. ASSUME NEW t \in Turn, Arrive(t) \/ Deadline(t) \/ TurnStep(t)
      PROVE  IInv'
  BY <1>1, HandlerMoves, HandlerAbandoned, HandlerJoins, EntryCreated, HandlerGoesOn, HandlerStops,
     HandlerReplaces, StreamStops DEF TurnStep
<1>2. ASSUME NEW e \in Entry,
             StartupStep(e) \/ DisposeStep(e) \/ WorkerExits(e) \/ PruneIdle(e)
      PROVE  IInv'
  BY <1>2, StartupWaits, EntryFails, WorkerMoves, LeaseGranted, IdlePruned
     DEF StartupStep, DisposeStep
<1>3. ASSUME NEW c \in Conversation,
             AbortStarts(c) \/ ResetStarts(c) \/ ResetStep(c)
      PROVE  IInv'
  BY <1>3, AbortBegins, ResetMoves
<1>4. ASSUME NEW a \in Aborter, AbortStep(a) \/ AbortEvicts(a) \/ AbortFails(a)
      PROVE  IInv'
  BY <1>4, AbortMoves
<1> QED
  BY <1>1, <1>2, <1>3, <1>4, AllDisposed, Stutters DEF Next

LEMMA Invariance == Spec => []IInv
  BY InitIInv, Inductive, PTL DEF Spec

(* The variables keep their types.                                         *)
THEOREM TypeCorrect == Spec => []TypeOK
<1>1. IInv => TypeOK
  BY DEF IInv
<1> QED
  BY <1>1, Invariance, PTL

(* runtime-capacity.ts and startManagedSession: never more leases than     *)
(* MAX_RESIDENT_PI_WORKERS, and no Worker without one.                     *)
THEOREM BudgetHolds == Spec => []ResidentBound
<1>1. IInv => ResidentBound
  BY DEF IInv, WorkerInv, WorkerOf, ResidentBound
<1> QED
  BY <1>1, Invariance, PTL

(* acquireForTurn, endTurn and abort: the reservations of a mapped runtime *)
(* are the handlers and aborts that use it.                                *)
THEOREM ReservationsCountUsers == Spec => []ReservationsExact
<1>1. IInv => ReservationsExact
  BY DEF IInv, Balanced, ReservationsExact
<1> QED
  BY <1>1, Invariance, PTL

(* What a step may do to a runtime that somebody uses.                     *)
Kept ==
  \A c \in Conversation :
    LET e == sessions[c]
    IN  e # None /\ sessions'[c] # e /\ ~Inert(e) /\ Available(e) /\ Users(e) # {} =>
          \/ stopped'
          \/ \E a \in Aborter : Target(a) = c /\ abort'[a] # abort[a]
          \/ reset'[c] # reset[c]
          \/ \E t \in Users(e) : turn'[t].pc = "evicting"

LEMMA StepKeeps == IInv /\ [Next]_vars => Kept
<1> SUFFICES ASSUME IInv, [Next]_vars, NEW c \in Conversation,
                    NEW e \in Entry, e = sessions[c], sessions'[c] # e,
                    Available(e), Users(e) # {}, ~stopped'
             PROVE  \/ \E a \in Aborter : Target(a) = c /\ abort'[a] # abort[a]
                    \/ reset'[c] # reset[c]
                    \/ \E t \in Users(e) : turn'[t].pc = "evicting"
  BY Records DEF Kept, IInv, Rest
<1>0. /\ turn \in [Turn -> TurnRecord] /\ abort \in [Aborter -> AbortRecord]
      /\ Rest
  BY Records DEF IInv
<1>1. Mapped(e) /\ ~Idle(e) /\ entry[e].stage = "ready" /\ entry[e].conv = c
  <2>1. Mapped(e) /\ entry[e].conv = c
    BY DEF Mapped, IInv, MapInv
  <2>2. entry[e].reservations # 0
    BY <2>1, UsedIsReserved
  <2>3. entry[e].stage = "ready"
    BY DEF Available, IInv, WorkerInv, WorkerOf
  <2> QED
    BY <2>1, <2>2, <2>3 DEF Idle
<1>2. \A x : x # e => Without(x)[c] = sessions[c]
  BY DEF Without
<1>3. ASSUME NEW t \in Turn, Create(t)
      PROVE  FALSE
  <2>1. PICK x \in Entry, out \in Entry \cup {None} :
          /\ out # e /\ sessions[ConversationOf[t]] = None
          /\ sessions' = [Without(out) EXCEPT ![ConversationOf[t]] = x]
    <3>1. \E x \in Entry : Unused(x)
      BY <1>3 DEF Create
    <3>2. (CHOOSE x \in Entry : Unused(x)) \in Entry
      BY <3>1
    <3> QED
      BY <1>1, <1>3, <3>2, RegistryAssumption DEF Create
  <2>2. c # ConversationOf[t]
    BY <2>1, RegistryAssumption
  <2>3. sessions'[c] = Without(out)[c]
    BY <2>1, <2>2 DEF Without
  <2> QED
    BY <1>2, <2>1, <2>3
<1>4. ASSUME NEW t \in Turn, Replace(t)
      PROVE  FALSE
  BY <1>2, <1>4 DEF Replace
<1>5. ASSUME NEW t \in Turn, StreamFails(t)
      PROVE  t \in Users(e) /\ turn'[t].pc = "evicting"
  <2>1. turn[t].at = e
    BY <1>2, <1>5 DEF StreamFails
  <2>2. Goto(t, "evicting")
    BY <1>1, <1>5, <2>1 DEF StreamFails
  <2> QED
    BY <1>0, <1>5, <2>1, <2>2, GotoMoves DEF StreamFails, Users, TurnPCs
<1>6. ASSUME NEW x \in Entry, StartupCancelled(x) \/ WorkerStartFails(x) \/ Discarded(x)
      PROVE  FALSE
  BY <1>1, <1>2, <1>6 DEF StartupCancelled, WorkerStartFails, Discarded, FailEntry
<1>7. ASSUME NEW x \in Entry, PruneIdle(x) \/ EvictAgrees(x)
      PROVE  FALSE
  BY <1>1, <1>2, <1>7 DEF PruneIdle, EvictAgrees
<1>8. ASSUME NEW d \in Aborter, AbortEvicts(d)
      PROVE  Target(d) = c /\ abort'[d] # abort[d]
  <2>1. abort[d].at = e /\ abort[d].pc = "asked"
    BY <1>2, <1>8 DEF AbortEvicts
  <2>2. Target(d) = c
    BY <1>1, <2>1 DEF IInv, MapInv, Inert
  <2> QED
    BY <1>0, <1>8, <2>1, <2>2 DEF AbortEvicts, AbortRecord
<1>9. ASSUME NEW d \in Conversation, ResetStarts(d)
      PROVE  reset'[c] # reset[c]
  <2>1. d = c
    BY <1>9 DEF ResetStarts
  <2> QED
    BY <1>0, <1>9, <2>1 DEF ResetStarts, Rest
<1>10. ~DisposeAll
  BY DEF DisposeAll
<1>11. CASE sessions' # sessions
  BY <1>3, <1>4, <1>5, <1>6, <1>7, <1>8, <1>9, <1>10, <1>11
     DEF Next, TurnStep, StartupStep, DisposeStep, AbortStep, ResetStep, vars,
         Arrive, Deadline, Join, RefuseFull, StartupFailed, BeginTurn, GiveUp,
         StatusReturns, Replaced, PrepareFails, Prompt, StreamEnds, Evicted,
         PredecessorGone, LeaseGrant, LeasePick, EvictRefuses, LeaseSleep, ResidentGone, WorkerStarts,
         DisposeStarts, DisposeEnds, WorkerExits, AbortStarts, AbortFindsNothing,
         AbortAsks, AbortFails, AbortEnds, ResetRemoves, ResetEnds
<1> QED
  BY <1>11

(* binding-runtime.ts and the registry's evictions: a live runtime that    *)
(* somebody uses leaves the map by an abort, a reset, a failed stream or   *)
(* stop() only.                                                            *)
THEOREM UsedIsNeverIdle == Spec => UsedRuntimeKept
<1>1. IInv /\ [Next]_vars => [Kept]_vars
  BY StepKeeps
<1> QED
  BY <1>1, Invariance, PTL DEF Spec, UsedRuntimeKept, Kept
=============================================================================
