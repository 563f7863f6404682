------------------------- MODULE WorkerSessionProofs -------------------------
(***************************************************************************)
(* For any number of turns, aborts, tool calls and deltas: nothing waits   *)
(* for a dead Worker, no late answer revives a session, no tool call goes  *)
(* on in the Host for nobody, and a turn that gets its answer has heard    *)
(* all of it.                                                              *)
(***************************************************************************)
EXTENDS WorkerSession, FiniteSetTheorems, SequenceTheorems, TLAPS

Request(k) == Message("tool_request", k)
Cancel(k)  == Message("tool_cancel", k)
Answer(k)  == Message("tool_result", k)

Has(s, m) == \E i \in 1 .. Len(s) : s[i] = m

(* The call of a request that the Host has not seen has not started, and   *)
(* is wanted or its cancellation comes after it.                           *)
RequestsAreNew ==
  \A k \in Tools : \A i \in 1 .. Len(toHost) : toHost[i] = Request(k) =>
    /\ toolRun[k] = "none" /\ toolCall[k] # "none"
    /\ \A j \in 1 .. Len(toHost) : toHost[j] = Request(k) => j = i
    /\ \/ toolCall[k] = "waiting"
       \/ \E j \in 1 .. Len(toHost) : j > i /\ toHost[j] = Cancel(k)

(* What runs was asked for.                                                *)
RunsAreCalls == \A k \in Tools : toolRun[k] # "none" => toolCall[k] # "none"

(* Only what has ended is answered.                                        *)
AnswersAreOver == \A k \in Tools : Has(toWorker, Answer(k)) => toolRun[k] = "ended"

(* The capability is kept for as long as there is a child.                 *)
RevokedWithChild == revoked => ~Child

SessionInv == NothingWaitsForADeadWorker /\ RevokedWithChild /\ AvailableIsUsable

(* What runs is wanted, or its cancellation is on the way.                 *)
RunsAreWanted == \A k \in Tools : toolRun[k] = "running" => Wanted(k)

ToolInv == RequestsAreNew /\ RunsAreCalls /\ AnswersAreOver /\ RunsAreWanted

IInv == TypeOK /\ SessionInv /\ ToolInv

-----------------------------------------------------------------------------
(* Facts about sequences and messages.                                     *)

(* What is left after the first element.                                   *)
LEMMA AfterHead ==
  ASSUME NEW S, NEW s \in Seq(S), s # <<>>
  PROVE  /\ Head(s) \in S /\ Head(s) = s[1]
         /\ Tail(s) \in Seq(S)
         /\ Len(s) \in Nat \ {0} /\ Len(Tail(s)) = Len(s) - 1
         /\ \A i \in 1 .. Len(s) - 1 : Tail(s)[i] = s[i + 1]
<1>1. Len(s) \in Nat \ {0}  BY EmptySeq
<1>2. QED  BY <1>1, HeadTailProperties

(* A function on 1 .. n is a sequence of length n.                         *)
LEMMA FunctionIsSeq ==
  ASSUME NEW S, NEW n \in Nat, NEW f \in [1 .. n -> S]
  PROVE  f \in Seq(S) /\ Len(f) = n
<1>1. f \in UNION {[1 .. m -> S] : m \in Nat}  OBVIOUS
<1>2. f \in Seq(S)  BY <1>1, SeqDef
<1>3. Len(f) \in Nat /\ DOMAIN f = 1 .. Len(f)  BY <1>2, LenProperties
<1>4. QED  BY <1>2, <1>3

(* SetToSeq lists a finite set: there is a bijection for it to choose.     *)
LEMMA ListOfSet ==
  ASSUME NEW S, IsFiniteSet(S)
  PROVE  /\ SetToSeq(S) \in Seq(S)
         /\ \A x \in S : Has(SetToSeq(S), x)
<1> DEFINE n == Cardinality(S)
           f == SetToSeq(S)
<1>1. PICK m \in Nat : ExistsBijection(1 .. m, S)  BY FS_NatBijection
<1>2. n = m  BY <1>1, FS_CountingElements
<1>3. PICK g \in Bijection(1 .. n, S) : TRUE  BY <1>1, <1>2 DEF ExistsBijection
<1>4. g \in [1 .. n -> S] /\ IsInjective(g)
  BY <1>3 DEF Bijection, Injection
<1>5. f \in [1 .. n -> S] /\ IsInjective(f)
  BY <1>4 DEF SetToSeq
<1>6. n \in Nat  BY <1>1, <1>2
<1>7. f \in Seq(S) /\ Len(f) = n
  BY <1>5, <1>6, FunctionIsSeq
<1>8. f \in Surjection(1 .. n, S)
  <2>1. f \in Injection(1 .. n, S)  BY <1>5 DEF Injection
  <2>2. Cardinality(1 .. n) = n  BY <1>6, FS_Interval
  <2> QED  BY <2>1, <2>2, FS_Injection
<1>9. QED  BY <1>7, <1>8 DEF Surjection, Has

(* Each sends one message for each of the requests.                        *)
LEMMA EachRequest ==
  ASSUME NEW type, NEW ids, IsFiniteSet(ids)
  PROVE  /\ Each(type, ids) \in Seq([type : {type}, id : ids])
         /\ \A x \in ids : Has(Each(type, ids), Message(type, x))
<1> DEFINE s == SetToSeq(ids)
<1>1. s \in Seq(ids) /\ \A x \in ids : Has(s, x)  BY ListOfSet
<1>2. Len(s) \in Nat /\ \A i \in 1 .. Len(s) : s[i] \in ids
  BY <1>1, LenProperties, ElementOfSeq
<1>3. Each(type, ids) \in [1 .. Len(s) -> [type : {type}, id : ids]]
  BY <1>2 DEF Each, Message
<1>4. Each(type, ids) \in Seq([type : {type}, id : ids]) /\ Len(Each(type, ids)) = Len(s)
  BY <1>2, <1>3, FunctionIsSeq
<1>5. QED  BY <1>1, <1>4 DEF Each, Has

(* Appending and taking keep a channel a sequence of its messages.         *)
LEMMA PostTyped ==
  ASSUME TypeOK, NEW m \in ToWorker, Post(m)
  PROVE  toWorker' \in Seq(ToWorker)
BY DEF TypeOK, Post

LEMMA ReplyTyped ==
  ASSUME TypeOK, NEW ms \in Seq(ToHost), Reply(ms)
  PROVE  toHost' \in Seq(ToHost)
BY ConcatProperties DEF TypeOK, Reply

LEMMA ArrivedTyped ==
  ASSUME TypeOK, NEW type, Arrives(type)
  PROVE  /\ toHost' \in Seq(ToHost)
         /\ Head(toHost) \in ToHost /\ Head(toHost).type = type
BY AfterHead DEF TypeOK, Arrives

LEMMA TakenTyped ==
  ASSUME TypeOK, NEW type, Takes(type)
  PROVE  /\ toWorker' \in Seq(ToWorker)
         /\ Head(toWorker) \in ToWorker /\ Head(toWorker).type = type
BY AfterHead DEF TypeOK, Takes

(* The cancellations of a run, and the answers to its aborts.              *)
LEMMA CancelsTyped ==
  ASSUME TypeOK
  PROVE  /\ Cancels \in Seq(ToHost)
         /\ \A k \in Waiting : Has(Cancels, Cancel(k))
<1>1. IsFiniteSet(Waiting)  BY WorkerAssumption, FS_Subset DEF Waiting
<1>2. [type : {"tool_cancel"}, id : Waiting] \subseteq ToHost
  BY DEF ToHost, Waiting
<1>3. Cancels \in Seq([type : {"tool_cancel"}, id : Waiting])
  BY <1>1, EachRequest DEF Cancels
<1>4. Cancels \in Seq(ToHost)  BY <1>2, <1>3, SeqMonotonic
<1>5. QED  BY <1>1, <1>4, EachRequest DEF Cancels, Cancel

LEMMA AbortAnswersTyped ==
  ASSUME TypeOK
  PROVE  Each("result", waiters \ {Dispose}) \in Seq(ToHost)
<1>1. waiters \ {Dispose} \subseteq Aborts  BY DEF TypeOK
<1>2. IsFiniteSet(waiters \ {Dispose})  BY <1>1, WorkerAssumption, FS_Subset
<1>3. [type : {"result"}, id : waiters \ {Dispose}] \subseteq ToHost
  BY <1>1 DEF ToHost, Requests
<1>4. QED  BY <1>2, <1>3, EachRequest, SeqMonotonic

LEMMA MessagesTyped ==
  /\ \A r \in Prompts : Message("prompt", r) \in ToWorker
  /\ \A r \in Aborts : Message("abort", r) \in ToWorker
  /\ \A r \in Prompts \cup Aborts : Message(KindOf(r), r) \in ToWorker
  /\ Message("dispose", Dispose) \in ToWorker
  /\ \A k \in Tools : Message("tool_result", k) \in ToWorker
  /\ \A type \in {"ready", "fatal"} : <<Message(type, None)>> \in Seq(ToHost)
  /\ \A r \in Requests : \A type \in {"result", "error"} :
       <<Message(type, r)>> \in Seq(ToHost)
  /\ \A p \in Prompts : <<Message("event", p)>> \in Seq(ToHost)
  /\ \A k \in Tools : <<Message("tool_request", k)>> \in Seq(ToHost)
<1>1. \A m \in ToHost : <<m>> \in Seq(ToHost)  OBVIOUS
<1>2. /\ \A type \in {"ready", "fatal"} : Message(type, None) \in ToHost
      /\ \A r \in Requests : \A type \in {"result", "error"} : Message(type, r) \in ToHost
      /\ \A p \in Prompts : Message("event", p) \in ToHost
      /\ \A k \in Tools : Message("tool_request", k) \in ToHost
  BY DEF ToHost, Message
<1>3. QED  BY <1>1, <1>2 DEF ToWorker, Message, KindOf

-----------------------------------------------------------------------------
(* The type invariant, one step per action.                                *)

LEMMA InitTyped == Init => TypeOK
<1>1. ASSUME Init
      PROVE  /\ heard \in [Prompts -> [Prompts -> Nat]]
             /\ emitted \in [Prompts -> 0 .. MaxDeltas]
             /\ toWorker \in Seq(ToWorker) /\ toHost \in Seq(ToHost)
  BY <1>1, WorkerAssumption DEF Init
<1>2. QED  BY <1>1 DEF Init, TypeOK

(* A request is sent, or fails at once.                                    *)
LEMMA SendTyped ==
  ASSUME TypeOK, NEW kind, NEW r \in Requests, Message(kind, r) \in ToWorker,
         Send(kind, r)
  PROVE  /\ call' \in [Requests -> {"idle", "open", "answered", "failed"}]
         /\ toWorker' \in Seq(ToWorker)
<1>1. toWorker' \in Seq(ToWorker)  BY PostTyped DEF Send
<1>2. QED  BY <1>1 DEF Send, TypeOK

LEMMA RejectAllTyped ==
  ASSUME TypeOK
  PROVE  /\ RejectCalls => call' \in [Requests -> {"idle", "open", "answered", "failed"}]
         /\ AbortTools =>
              toolRun' \in [Tools -> {"none", "running", "aborted", "ended"}]
         /\ FailStartup => startup' \in {"waiting", "ready", "failed"}
         /\ EndTools => toolCall' \in [Tools -> {"none", "waiting", "over"}]
         /\ \A b \in StatusAvailable : b \in BOOLEAN
BY DEF TypeOK, RejectCalls, AbortTools, FailStartup, EndTools, StatusAvailable, Connected

(* A Worker that takes no message any more.                                *)
LEMMA GoesDeafTyped ==
  ASSUME TypeOK, NEW state \in {"exiting", "hung", "gone"}, GoesDeaf(state)
  PROVE  /\ worker' = state /\ run' = "idle" /\ active' = None /\ waiters' = {}
         /\ toWorker' \in Seq(ToWorker)
BY DEF GoesDeaf, RunOver

LEMMA StopRunTyped ==
  ASSUME TypeOK, NEW r \in Aborts \cup {Dispose}, StopRun(r)
  PROVE  /\ run' = "stopping" /\ waiters' \subseteq Aborts \cup {Dispose}
         /\ toolCall' \in [Tools -> {"none", "waiting", "over"}]
         /\ toHost' \in Seq(ToHost)
<1>1. toHost' \in Seq(ToHost)  BY CancelsTyped, ReplyTyped DEF StopRun
<1>2. QED  BY <1>1, RejectAllTyped DEF StopRun, TypeOK

LEMMA TypePreserved ==
  ASSUME TypeOK, [Next]_vars
  PROVE  TypeOK'
<1> USE DEF hostVars, workerVars
<1>1. ASSUME NEW r \in Prompts \cup Aborts, Ask(r)  PROVE TypeOK'
  <2>1. r \in Requests  BY DEF Requests
  <2>2. Send(KindOf(r), r)  BY <1>1 DEF Ask
  <2>3. /\ call' \in [Requests -> {"idle", "open", "answered", "failed"}]
        /\ toWorker' \in Seq(ToWorker)
    BY <2>1, <2>2, SendTyped, MessagesTyped
  <2> QED  BY <1>1, <2>3 DEF Ask, TypeOK
<1>2. ASSUME NEW r \in Prompts \cup Aborts, Refuse(r)  PROVE TypeOK'
  BY <1>2 DEF Refuse, TypeOK, Requests
<1>3. ASSUME NEW p \in Prompts, TurnTimeout(p)  PROVE TypeOK'
  <2>1. /\ call' \in [Requests -> {"idle", "open", "answered", "failed"}]
        /\ toWorker' \in Seq(ToWorker)
    <3>1. ASSUME NEW a \in Aborts, Send("abort", a)
          PROVE  /\ call' \in [Requests -> {"idle", "open", "answered", "failed"}]
                 /\ toWorker' \in Seq(ToWorker)
      BY <3>1, SendTyped, MessagesTyped DEF Requests
    <3> QED  BY <1>3, <3>1 DEF TurnTimeout, TypeOK
  <2> QED  BY <1>3, <2>1 DEF TurnTimeout, TypeOK
<1>4. ASSUME NEW k \in Tools, ToolEnds(k)  PROVE TypeOK'
  <2>1. toWorker' \in Seq(ToWorker)
    BY <1>4, PostTyped, MessagesTyped DEF ToolEnds, TypeOK
  <2> QED  BY <1>4, <2>1 DEF ToolEnds, TypeOK
<1>5. ASSUME NEW k \in Tools, RequestTool(k)  PROVE TypeOK'
  <2>1. toHost' \in Seq(ToHost)
    BY <1>5, ReplyTyped, MessagesTyped DEF RequestTool
  <2> QED  BY <1>5, <2>1 DEF RequestTool, TypeOK
<1>6. CASE CallDispose
  <2>1. /\ call' \in [Requests -> {"idle", "open", "answered", "failed"}]
        /\ toWorker' \in Seq(ToWorker)
    BY <1>6, SendTyped, MessagesTyped DEF CallDispose, TypeOK, Requests
  <2> QED  BY <1>6, <2>1 DEF CallDispose, TypeOK
<1>7. CASE OnReady
  BY <1>7, ArrivedTyped, RejectAllTyped DEF OnReady, TypeOK
<1>8. CASE OnEvent
  <2>1. toHost' \in Seq(ToHost) /\ Arrived \in Prompts
    BY <1>8, ArrivedTyped DEF OnEvent, Arrived, ToHost
  <2>2. \A p \in Prompts : [heard[p] EXCEPT ![Arrived] = @ + 1] \in [Prompts -> Nat]
    BY <2>1 DEF TypeOK
  <2>3. heard' \in [Prompts -> [Prompts -> Nat]]
    BY <1>8, <2>2 DEF OnEvent, TypeOK
  <2> QED  BY <1>8, <2>1, <2>3 DEF OnEvent, TypeOK
<1>9. CASE OnResult
  <2>1. toHost' \in Seq(ToHost) /\ Arrived \in Requests
    BY <1>9, ArrivedTyped DEF OnResult, Arrived, ToHost
  <2>2. available' \in BOOLEAN
    BY <1>9, RejectAllTyped DEF OnResult, TypeOK
  <2> QED  BY <1>9, <2>1, <2>2 DEF OnResult, TypeOK
<1>10. CASE OnError
  <2>1. toHost' \in Seq(ToHost) /\ Arrived \in Requests
    BY <1>10, ArrivedTyped DEF OnError, Arrived, ToHost
  <2> QED  BY <1>10, <2>1 DEF OnError, TypeOK
<1>11. CASE OnToolRequest
  <2>1. toHost' \in Seq(ToHost) /\ Arrived \in Tools
    BY <1>11, ArrivedTyped DEF OnToolRequest, Arrived, ToHost
  <2> QED  BY <1>11, <2>1 DEF OnToolRequest, TypeOK
<1>12. CASE OnToolCancel
  <2>1. toHost' \in Seq(ToHost) /\ Arrived \in Tools
    BY <1>12, ArrivedTyped DEF OnToolCancel, Arrived, ToHost
  <2> QED  BY <1>12, <2>1 DEF OnToolCancel, TypeOK
<1>13. CASE OnFatal
  BY <1>13, ArrivedTyped, RejectAllTyped DEF OnFatal, RejectAll, TypeOK, Child
<1>14. CASE ExitEvent
  BY <1>14, RejectAllTyped DEF ExitEvent, RejectAll, TypeOK
<1>15. CASE GraceExpires
  BY <1>15 DEF GraceExpires, TypeOK
<1>16. CASE FinishDispose
  BY <1>16, RejectAllTyped DEF FinishDispose, RejectAll, TypeOK
<1>17. CASE StartupTimeout
  BY <1>17 DEF StartupTimeout, TypeOK
<1>18. CASE TakePrompt
  <2>1. toWorker' \in Seq(ToWorker) /\ Taken \in Prompts
    BY <1>18, TakenTyped DEF TakePrompt, Taken, ToWorker
  <2>2. toHost' \in Seq(ToHost)
    BY <1>18, <2>1, ReplyTyped, MessagesTyped DEF TakePrompt, TypeOK, Requests
  <2> QED  BY <1>18, <2>1, <2>2, WorkerAssumption DEF TakePrompt, TypeOK
<1>19. CASE TakeAbort
  <2>1. toWorker' \in Seq(ToWorker) /\ Taken \in Aborts
    BY <1>19, TakenTyped DEF TakeAbort, Taken, ToWorker
  <2>2. CASE TRUE \in Streaming /\ StopRun(Taken)
    <3>1. run # "idle"  BY <2>2 DEF Streaming
    <3> QED  BY <1>19, <2>1, <2>2, <3>1, StopRunTyped DEF TakeAbort, TypeOK
  <2>3. CASE \E type \in {"result", "error"} :
               Reply(<<Message(type, Taken)>>) /\ UNCHANGED <<run, waiters, toolCall>>
    <3>1. toHost' \in Seq(ToHost)
      BY <2>1, <2>3, ReplyTyped, MessagesTyped DEF Requests
    <3> QED  BY <1>19, <2>1, <2>3, <3>1 DEF TakeAbort, TypeOK
  <2> QED  BY <1>19, <2>2, <2>3 DEF TakeAbort
<1>20. CASE TakeDispose
  <2>1. toWorker' \in Seq(ToWorker)
    BY <1>20, TakenTyped DEF TakeDispose
  <2>2. CASE TRUE \in Streaming /\ StopRun(Dispose) /\ UNCHANGED worker
    <3>1. run # "idle"  BY <2>2 DEF Streaming
    <3> QED  BY <1>20, <2>1, <2>2, <3>1, StopRunTyped DEF TakeDispose, TypeOK
  <2>3. CASE worker' = "closing" /\ UNCHANGED <<run, waiters, toolCall, toHost>>
    BY <1>20, <2>1, <2>3 DEF TakeDispose, TypeOK
  <2> QED  BY <1>20, <2>2, <2>3 DEF TakeDispose
<1>21. CASE TakeToolResult
  <2>1. toWorker' \in Seq(ToWorker) /\ Taken \in Tools
    BY <1>21, TakenTyped DEF TakeToolResult, Taken, ToWorker
  <2> QED  BY <1>21, <2>1 DEF TakeToolResult, TypeOK
<1>22. CASE WorkerDisposed
  <2>1. toHost' \in Seq(ToHost)
    BY <1>22, CancelsTyped, MessagesTyped, ConcatProperties, ReplyTyped
    DEF WorkerDisposed, Requests
  <2> QED  BY <1>22, <2>1, GoesDeafTyped, RejectAllTyped DEF WorkerDisposed, TypeOK
<1>23. CASE WorkerReady
  <2>1. toHost' \in Seq(ToHost)
    BY <1>23, ReplyTyped, MessagesTyped DEF WorkerReady
  <2> QED  BY <1>23, <2>1 DEF WorkerReady, TypeOK
<1>24. CASE EmitDelta
  <2>1. active \in Prompts  BY <1>24 DEF EmitDelta, Runs, TypeOK
  <2>2. toHost' \in Seq(ToHost)
    BY <1>24, <2>1, ReplyTyped, MessagesTyped DEF EmitDelta
  <2>3. emitted' \in [Prompts -> 0 .. MaxDeltas]
    BY <1>24, <2>1, WorkerAssumption DEF EmitDelta, TypeOK
  <2> QED  BY <1>24, <2>2, <2>3 DEF EmitDelta, TypeOK
<1>25. CASE EndRun
  <2>1. active \in Prompts  BY <1>25 DEF EndRun, TypeOK
  <2>2. \A type \in {"result", "error"} : <<Message(type, active)>> \in Seq(ToHost)
    BY <2>1, MessagesTyped DEF Requests
  <2>3. toHost' \in Seq(ToHost)
    BY <1>25, <2>2, AbortAnswersTyped, ConcatProperties, ReplyTyped DEF EndRun
  <2> QED  BY <1>25, <2>3 DEF EndRun, RunOver, TypeOK
<1>26. CASE WorkerPanics
  <2>1. toHost' \in Seq(ToHost)
    BY <1>26, CancelsTyped, MessagesTyped, ConcatProperties, ReplyTyped DEF WorkerPanics
  <2> QED  BY <1>26, <2>1, GoesDeafTyped, RejectAllTyped DEF WorkerPanics, TypeOK
<1>27. CASE WorkerHangs
  BY <1>27, GoesDeafTyped DEF WorkerHangs, TypeOK
<1>28. CASE WorkerDies
  BY <1>28, GoesDeafTyped DEF WorkerDies, TypeOK
<1>29. CASE UNCHANGED vars
  BY <1>29 DEF vars, TypeOK
<1>30. QED
  BY <1>1, <1>2, <1>3, <1>4, <1>5, <1>6, <1>7, <1>8, <1>9, <1>10, <1>11, <1>12, <1>13,
     <1>14, <1>15, <1>16, <1>17, <1>18, <1>19, <1>20, <1>21, <1>22, <1>23, <1>24,
     <1>25, <1>26, <1>27, <1>28, <1>29
  DEF Next, HostStep, HostReceives, WorkerStep, WorkerReceives

(* Every variable keeps its type: sequences of known messages in both      *)
(* channels (worker-protocol.ts), and a run always has its prompt.         *)
THEOREM TypeCorrect == Spec => []TypeOK
<1>1. Init => TypeOK  BY InitTyped
<1>2. TypeOK /\ [Next]_vars => TypeOK'  BY TypePreserved
<1>3. QED  BY <1>1, <1>2, PTL DEF Spec

-----------------------------------------------------------------------------
(* A session does not come back once its child is gone.                    *)

LEMMA RequestsClose ==
  ASSUME TypeOK, RejectCalls
  PROVE  Open' = {}
BY DEF TypeOK, RejectCalls, Open

LEMMA SessionInvPreserved ==
  ASSUME TypeOK, SessionInv, [Next]_vars
  PROVE  SessionInv'
<1> USE DEF SessionInv, hostVars, workerVars
<1> DEFINE Kept == /\ \A r \in Requests : call'[r] = "open" => call[r] = "open"
                   /\ UNCHANGED <<exitSeen, disposal, revoked>>
                   /\ available' = available \/ available' \in StatusAvailable
<1>1. ASSUME Kept  PROVE SessionInv'
  <2>1. Open' \subseteq Open  BY <1>1 DEF Open
  <2>2. NothingWaitsForADeadWorker'
    BY <1>1, <2>1 DEF NothingWaitsForADeadWorker
  <2>3. RevokedWithChild'  BY <1>1 DEF RevokedWithChild, Child
  <2>4. available' => available \/ Child
    BY <1>1 DEF StatusAvailable, TypeOK
  <2>5. AvailableIsUsable'
    BY <1>1, <2>4 DEF AvailableIsUsable, RevokedWithChild, Child
  <2> QED  BY <2>2, <2>3, <2>5
<1>2. ASSUME NEW r \in Prompts \cup Aborts, Ask(r)  PROVE SessionInv'
  BY <1>2 DEF Ask, NothingWaitsForADeadWorker, RevokedWithChild, AvailableIsUsable, Child
<1>3. ASSUME NEW r \in Prompts \cup Aborts, Refuse(r)  PROVE SessionInv'
  <2>1. Kept  BY <1>3 DEF Refuse, TypeOK
  <2> QED  BY <2>1, <1>1
<1>4. ASSUME NEW p \in Prompts, TurnTimeout(p)  PROVE SessionInv'
  BY <1>4 DEF TurnTimeout, NothingWaitsForADeadWorker, RevokedWithChild,
              AvailableIsUsable, Child, Open
<1>5. CASE CallDispose
  BY <1>5 DEF CallDispose, NothingWaitsForADeadWorker, RevokedWithChild,
              AvailableIsUsable, Child, Open
<1>6. CASE OnResult
  <2>1. Kept  BY <1>6 DEF OnResult, TypeOK
  <2> QED  BY <2>1, <1>1
<1>7. CASE OnError
  <2>1. Kept  BY <1>7 DEF OnError, TypeOK
  <2> QED  BY <2>1, <1>1
<1>8. CASE OnFatal
  <2>1. Kept  BY <1>8 DEF OnFatal, RejectAll, RejectCalls, TypeOK
  <2> QED  BY <2>1, <1>1
<1>9. CASE ExitEvent
  BY <1>9, RequestsClose DEF ExitEvent, RejectAll, NothingWaitsForADeadWorker,
              RevokedWithChild, AvailableIsUsable, Child
<1>10. CASE FinishDispose
  BY <1>10, RequestsClose DEF FinishDispose, RejectAll, NothingWaitsForADeadWorker,
              RevokedWithChild, AvailableIsUsable, Child
<1>11. CASE OnReady \/ OnEvent \/ OnToolRequest \/ OnToolCancel
  <2>1. Kept  BY <1>11 DEF OnReady, OnEvent, OnToolRequest, OnToolCancel
  <2> QED  BY <2>1, <1>1
<1>12. CASE GraceExpires \/ StartupTimeout
  <2>1. Kept  BY <1>12 DEF GraceExpires, StartupTimeout
  <2> QED  BY <2>1, <1>1
<1>13. CASE TakePrompt \/ TakeAbort \/ TakeDispose \/ TakeToolResult
  <2>1. Kept  BY <1>13 DEF TakePrompt, TakeAbort, TakeDispose, TakeToolResult
  <2> QED  BY <2>1, <1>1
<1>14. CASE WorkerDisposed \/ WorkerReady \/ EmitDelta \/ EndRun
  <2>1. Kept  BY <1>14 DEF WorkerDisposed, WorkerReady, EmitDelta, EndRun
  <2> QED  BY <2>1, <1>1
<1>15. CASE WorkerPanics \/ WorkerHangs \/ WorkerDies
  <2>1. Kept  BY <1>15 DEF WorkerPanics, WorkerHangs, WorkerDies
  <2> QED  BY <2>1, <1>1
<1>16. ASSUME NEW k \in Tools, ToolEnds(k) \/ RequestTool(k)  PROVE SessionInv'
  <2>1. Kept  BY <1>16 DEF ToolEnds, RequestTool
  <2> QED  BY <2>1, <1>1
<1>17. CASE UNCHANGED vars
  <2>1. Kept  BY <1>17 DEF vars
  <2> QED  BY <2>1, <1>1
<1>18. QED
  BY <1>2, <1>3, <1>4, <1>5, <1>6, <1>7, <1>8, <1>9, <1>10, <1>11, <1>12, <1>13, <1>14,
     <1>15, <1>16, <1>17
  DEF Next, HostStep, HostReceives, WorkerStep, WorkerReceives

-----------------------------------------------------------------------------
(* Tool calls: what the three ways a step touches the channels preserve.   *)

(* Nothing is started, and what has ended stays so.                        *)
Settles ==
  \A k \in Tools : \/ toolRun'[k] = toolRun[k]
                   \/ /\ toolRun[k] \in {"running", "aborted"}
                      /\ toolRun'[k] \in {"aborted", "ended"}

(* The messages of the Worker other than its requests for tools.           *)
Plain == {m \in ToHost : m.type # "tool_request"}

(* Every message about an answer was there, or is the one that was posted. *)
LEMMA PostHas ==
  ASSUME TypeOK, NEW m, Post(m), NEW k \in Tools, Has(toWorker', Answer(k))
  PROVE  Has(toWorker, Answer(k)) \/ m = Answer(k)
<1>1. CASE toWorker' = toWorker  BY <1>1
<1>2. CASE toWorker' = Append(toWorker, m)
  <2>1. PICK i \in 1 .. Len(toWorker') : toWorker'[i] = Answer(k)  BY DEF Has
  <2>2. Len(toWorker) \in Nat  BY LenProperties DEF TypeOK
  <2>3. /\ Len(toWorker') = Len(toWorker) + 1
        /\ \A j \in 1 .. Len(toWorker) : toWorker'[j] = toWorker[j]
        /\ toWorker'[Len(toWorker) + 1] = m
    <3>1. toWorker \in Seq(ToWorker \cup {m})  BY DEF TypeOK
    <3> QED  BY <1>2, <3>1, AppendProperties
  <2>4. i \in 1 .. Len(toWorker) \/ i = Len(toWorker) + 1  BY <2>1, <2>2, <2>3
  <2> QED  BY <2>1, <2>3, <2>4 DEF Has
<1>3. QED  BY <1>1, <1>2 DEF Post

LEMMA TakesHas ==
  ASSUME TypeOK, NEW type, Takes(type), NEW k \in Tools, Has(toWorker', Answer(k))
  PROVE  Has(toWorker, Answer(k))
<1>1. PICK i \in 1 .. Len(Tail(toWorker)) : Tail(toWorker)[i] = Answer(k)
  BY DEF Has, Takes
<1>2. /\ Len(toWorker) \in Nat \ {0} /\ Len(Tail(toWorker)) = Len(toWorker) - 1
      /\ \A j \in 1 .. Len(toWorker) - 1 : Tail(toWorker)[j] = toWorker[j + 1]
  BY AfterHead DEF TypeOK, Takes
<1>3. i + 1 \in 1 .. Len(toWorker) /\ toWorker[i + 1] = Answer(k)  BY <1>1, <1>2
<1>4. QED  BY <1>3 DEF Has

(* A step that leaves the channel to the Host alone.                       *)
LEMMA HostChannelKept ==
  ASSUME TypeOK, ToolInv, Settles, UNCHANGED <<toHost, toolCall>>
  PROVE  RequestsAreNew' /\ RunsAreCalls' /\ RunsAreWanted'
<1>1. RunsAreCalls'  BY DEF ToolInv, RunsAreCalls, Settles
<1>2. RequestsAreNew'
  <2>1. \A k \in Tools : toolRun[k] = "none" => toolRun'[k] = "none"  BY DEF Settles
  <2> QED  BY <2>1 DEF ToolInv, RequestsAreNew
<1>3. RunsAreWanted'
  <2>1. \A k \in Tools : toolRun'[k] = "running" => toolRun[k] = "running"
    BY DEF Settles
  <2> QED  BY <2>1 DEF ToolInv, RunsAreWanted, Wanted
<1>4. QED  BY <1>1, <1>2, <1>3

(* The Host takes a message that asks for no tool.                         *)
LEMMA HostTakes ==
  ASSUME TypeOK, ToolInv, NEW type, Arrives(type), type # "tool_request",
         Settles, toolCall' = toolCall, exitSeen' = exitSeen,
         \A k \in Tools : Head(toHost) = Cancel(k) => toolRun'[k] # "running"
  PROVE  RequestsAreNew' /\ RunsAreCalls' /\ RunsAreWanted'
<1>1. RunsAreCalls'  BY DEF ToolInv, RunsAreCalls, Settles
<1>2. /\ Len(toHost) \in Nat \ {0} /\ Len(toHost') = Len(toHost) - 1
      /\ \A i \in 1 .. Len(toHost) - 1 : toHost'[i] = toHost[i + 1]
      /\ Head(toHost) = toHost[1]
  BY AfterHead DEF TypeOK, Arrives
<1>3. RequestsAreNew'
  <2> SUFFICES ASSUME NEW k \in Tools, NEW i \in 1 .. Len(toHost'),
                      toHost'[i] = Request(k)
               PROVE  /\ toolRun'[k] = "none" /\ toolCall'[k] # "none"
                      /\ \A j \in 1 .. Len(toHost') : toHost'[j] = Request(k) => j = i
                      /\ \/ toolCall'[k] = "waiting"
                         \/ \E j \in 1 .. Len(toHost') : j > i /\ toHost'[j] = Cancel(k)
    BY DEF RequestsAreNew, Request, Cancel, Message
  <2>1. i + 1 \in 1 .. Len(toHost) /\ toHost[i + 1] = Request(k)  BY <1>2
  <2>2. /\ toolRun[k] = "none" /\ toolCall[k] # "none"
        /\ \A j \in 1 .. Len(toHost) : toHost[j] = Request(k) => j = i + 1
        /\ \/ toolCall[k] = "waiting"
           \/ \E j \in 1 .. Len(toHost) : j > i + 1 /\ toHost[j] = Cancel(k)
    BY <2>1 DEF ToolInv, RequestsAreNew
  <2>3. toolRun'[k] = "none"  BY <2>2 DEF Settles
  <2>4. \A j \in 1 .. Len(toHost') : toHost'[j] = Request(k) => j = i
    BY <1>2, <2>2
  <2>5. ASSUME NEW j \in 1 .. Len(toHost), j > i + 1, toHost[j] = Cancel(k)
        PROVE  \E n \in 1 .. Len(toHost') : n > i /\ toHost'[n] = Cancel(k)
    <3>1. j - 1 \in 1 .. Len(toHost') /\ j - 1 > i /\ toHost'[j - 1] = Cancel(k)
      BY <1>2, <2>5
    <3> QED  BY <3>1
  <2> QED  BY <2>2, <2>3, <2>4, <2>5
<1>4. RunsAreWanted'
  <2> SUFFICES ASSUME NEW k \in Tools, toolRun'[k] = "running"
               PROVE  toolCall'[k] = "waiting" \/ Has(toHost', Cancel(k))
    BY DEF RunsAreWanted, Has, Cancel, Message, Wanted
  <2>1. toolRun[k] = "running"  BY DEF Settles
  <2>2. toolCall[k] = "waiting" \/ Has(toHost, Cancel(k))
    BY <2>1 DEF ToolInv, RunsAreWanted, Has, Cancel, Wanted
  <2>3. ASSUME Has(toHost, Cancel(k))  PROVE Has(toHost', Cancel(k))
    <3>1. PICK i \in 1 .. Len(toHost) : toHost[i] = Cancel(k)  BY <2>3 DEF Has
    <3>2. i # 1  BY <1>2, <3>1
    <3>3. i - 1 \in 1 .. Len(toHost') /\ toHost'[i - 1] = Cancel(k)
      BY <1>2, <3>1, <3>2
    <3> QED  BY <3>3 DEF Has
  <2> QED  BY <2>2, <2>3
<1>5. QED  BY <1>1, <1>3, <1>4

(* The Worker sends messages that ask for no tool; a call it gives up, it  *)
(* cancels.                                                                *)
LEMMA WorkerReplies ==
  ASSUME TypeOK, ToolInv, NEW ms \in Seq(Plain), Reply(ms),
         UNCHANGED <<toolRun, exitSeen>>,
         \A k \in Tools : \/ toolCall'[k] = toolCall[k]
                          \/ /\ toolCall[k] = "waiting" /\ toolCall'[k] # "none"
                             /\ Has(ms, Cancel(k))
  PROVE  RequestsAreNew' /\ RunsAreCalls' /\ RunsAreWanted'
<1>1. RunsAreCalls'  BY DEF ToolInv, RunsAreCalls
<1>2. ms \in Seq(ToHost)  BY SeqMonotonic DEF Plain
<1>3. /\ Len(toHost) \in Nat /\ Len(ms) \in Nat
      /\ Len(toHost') = Len(toHost) + Len(ms)
      /\ \A i \in 1 .. Len(toHost) : toHost'[i] = toHost[i]
      /\ \A i \in 1 .. Len(ms) : toHost'[Len(toHost) + i] = ms[i]
  <2>1. Len(toHost) \in Nat /\ Len(ms) \in Nat
    BY <1>2, LenProperties DEF TypeOK
  <2>2. /\ Len(toHost') = Len(toHost) + Len(ms)
        /\ \A i \in 1 .. Len(toHost) + Len(ms) :
             toHost'[i] = IF i <= Len(toHost) THEN toHost[i] ELSE ms[i - Len(toHost)]
    BY <1>2, ConcatProperties DEF TypeOK, Reply
  <2>3. ASSUME NEW i \in 1 .. Len(ms)  PROVE toHost'[Len(toHost) + i] = ms[i]
    <3>1. /\ Len(toHost) + i \in 1 .. Len(toHost) + Len(ms)
          /\ ~(Len(toHost) + i <= Len(toHost))
          /\ Len(toHost) + i - Len(toHost) = i
      BY <2>1
    <3> QED  BY <2>2, <3>1
  <2> QED  BY <2>1, <2>2, <2>3
<1>4. \A k \in Tools : \A i \in 1 .. Len(ms) : ms[i] # Request(k)
  <2>1. \A i \in 1 .. Len(ms) : ms[i] \in Plain  BY ElementOfSeq
  <2> QED  BY <2>1 DEF Plain, Request, Message
<1>5. ASSUME NEW k \in Tools, Has(ms, Cancel(k))
      PROVE  \E j \in 1 .. Len(toHost') : j > Len(toHost) /\ toHost'[j] = Cancel(k)
  <2>1. PICK j \in 1 .. Len(ms) : ms[j] = Cancel(k)  BY <1>5 DEF Has
  <2>2. /\ Len(toHost) + j \in 1 .. Len(toHost')
        /\ Len(toHost) + j > Len(toHost)
        /\ toHost'[Len(toHost) + j] = Cancel(k)
    BY <1>3, <2>1
  <2> QED  BY <2>2
<1>6. ASSUME NEW k \in Tools, NEW i \in 1 .. Len(toHost'), toHost'[i] = Request(k)
      PROVE  i \in 1 .. Len(toHost) /\ toHost[i] = Request(k)
  <2>1. CASE i > Len(toHost)
    <3>1. i - Len(toHost) \in 1 .. Len(ms) /\ Len(toHost) + (i - Len(toHost)) = i
      BY <1>3, <2>1
    <3>2. ms[i - Len(toHost)] = Request(k)  BY <1>3, <1>6, <3>1
    <3> QED  BY <1>4, <3>1, <3>2
  <2>2. CASE ~(i > Len(toHost))
    <3>1. i \in 1 .. Len(toHost)  BY <1>3, <2>2
    <3> QED  BY <1>3, <1>6, <3>1
  <2> QED  BY <2>1, <2>2
<1>7. RequestsAreNew'
  <2> SUFFICES ASSUME NEW k \in Tools, NEW i \in 1 .. Len(toHost'),
                      toHost'[i] = Request(k)
               PROVE  /\ toolRun'[k] = "none" /\ toolCall'[k] # "none"
                      /\ \A j \in 1 .. Len(toHost') : toHost'[j] = Request(k) => j = i
                      /\ \/ toolCall'[k] = "waiting"
                         \/ \E j \in 1 .. Len(toHost') : j > i /\ toHost'[j] = Cancel(k)
    BY DEF RequestsAreNew, Request, Cancel, Message
  <2>1. i \in 1 .. Len(toHost) /\ toHost[i] = Request(k)  BY <1>6
  <2>2. /\ toolRun[k] = "none" /\ toolCall[k] # "none"
        /\ \A j \in 1 .. Len(toHost) : toHost[j] = Request(k) => j = i
        /\ \/ toolCall[k] = "waiting"
           \/ \E j \in 1 .. Len(toHost) : j > i /\ toHost[j] = Cancel(k)
    BY <2>1 DEF ToolInv, RequestsAreNew
  <2>3. \A j \in 1 .. Len(toHost') : toHost'[j] = Request(k) => j = i
    BY <1>6, <2>2
  <2>4. toolRun'[k] = "none" /\ toolCall'[k] # "none"  BY <2>2
  <2>5. CASE \E j \in 1 .. Len(toHost) : j > i /\ toHost[j] = Cancel(k)
    <3>1. PICK j \in 1 .. Len(toHost) : j > i /\ toHost[j] = Cancel(k)  BY <2>5
    <3>2. j \in 1 .. Len(toHost') /\ toHost'[j] = Cancel(k)  BY <1>3, <3>1
    <3> QED  BY <2>3, <2>4, <3>1, <3>2
  <2>6. CASE toolCall[k] = "waiting"
    <3>1. CASE Has(ms, Cancel(k))
      <4>1. PICK j \in 1 .. Len(toHost') : j > Len(toHost) /\ toHost'[j] = Cancel(k)
        BY <1>5, <3>1
      <4>2. j > i  BY <1>3, <2>1, <4>1
      <4> QED  BY <2>3, <2>4, <4>1, <4>2
    <3>2. CASE ~Has(ms, Cancel(k))
      BY <2>3, <2>4, <2>6, <3>2
    <3> QED  BY <3>1, <3>2
  <2> QED  BY <2>2, <2>5, <2>6
<1>8. RunsAreWanted'
  <2> SUFFICES ASSUME NEW k \in Tools, toolRun'[k] = "running"
               PROVE  toolCall'[k] = "waiting" \/ Has(toHost', Cancel(k))
    BY DEF RunsAreWanted, Has, Cancel, Message, Wanted
  <2>1. toolCall[k] = "waiting" \/ Has(toHost, Cancel(k))
    BY DEF ToolInv, RunsAreWanted, Has, Cancel, Wanted
  <2>2. Has(ms, Cancel(k)) => Has(toHost', Cancel(k))  BY <1>5 DEF Has
  <2>3. Has(toHost, Cancel(k)) => Has(toHost', Cancel(k))
    <3>1. \A j \in 1 .. Len(toHost) : j \in 1 .. Len(toHost')  BY <1>3
    <3> QED  BY <1>3, <3>1 DEF Has
  <2> QED  BY <2>1, <2>2, <2>3
<1>9. QED  BY <1>1, <1>7, <1>8

(* What the Worker sends, its requests for tools apart.                    *)
LEMMA PlainMessages ==
  ASSUME TypeOK
  PROVE  /\ Cancels \in Seq(Plain)
         /\ Each("result", waiters \ {Dispose}) \in Seq(Plain)
         /\ \A type \in {"ready", "fatal"} : <<Message(type, None)>> \in Seq(Plain)
         /\ \A r \in Requests : \A type \in {"result", "error"} :
              <<Message(type, r)>> \in Seq(Plain)
         /\ \A p \in Prompts : <<Message("event", p)>> \in Seq(Plain)
         /\ <<>> \in Seq(Plain)
<1>1. \A m \in Plain : <<m>> \in Seq(Plain)  OBVIOUS
<1>2. /\ \A type \in {"ready", "fatal"} : Message(type, None) \in Plain
      /\ \A r \in Requests : \A type \in {"result", "error"} : Message(type, r) \in Plain
      /\ \A p \in Prompts : Message("event", p) \in Plain
  BY DEF Plain, ToHost, Message
<1>3. Cancels \in Seq(Plain)
  <2>1. IsFiniteSet(Waiting)  BY WorkerAssumption, FS_Subset DEF Waiting
  <2>2. [type : {"tool_cancel"}, id : Waiting] \subseteq Plain
    BY DEF Plain, ToHost, Waiting
  <2>3. Cancels \in Seq([type : {"tool_cancel"}, id : Waiting])
    BY <2>1, EachRequest DEF Cancels
  <2> QED  BY <2>2, <2>3, SeqMonotonic
<1>4. Each("result", waiters \ {Dispose}) \in Seq(Plain)
  <2>1. waiters \ {Dispose} \subseteq Aborts  BY DEF TypeOK
  <2>2. IsFiniteSet(waiters \ {Dispose})  BY <2>1, WorkerAssumption, FS_Subset
  <2>3. [type : {"result"}, id : waiters \ {Dispose}] \subseteq Plain
    BY <2>1 DEF Plain, ToHost, Requests
  <2> QED  BY <2>2, <2>3, EachRequest, SeqMonotonic
<1>5. QED  BY <1>1, <1>2, <1>3, <1>4

(* A request reaches the Host: its call starts, once.                      *)
LEMMA ToolStarts ==
  ASSUME TypeOK, ToolInv, OnToolRequest
  PROVE  ToolInv'
<1> DEFINE k == Arrived
<1>1. /\ Len(toHost) \in Nat \ {0} /\ Len(toHost') = Len(toHost) - 1
      /\ \A i \in 1 .. Len(toHost) - 1 : toHost'[i] = toHost[i + 1]
      /\ Head(toHost) = toHost[1]
  BY AfterHead DEF TypeOK, Arrives, OnToolRequest
<1>2. k \in Tools /\ Head(toHost) = Request(k)
  BY ArrivedTyped DEF OnToolRequest, Arrived, ToHost, Request, Message
<1>3. 1 \in 1 .. Len(toHost) /\ toHost[1] = Request(k)  BY <1>1, <1>2
<1>4. /\ toolRun[k] = "none" /\ toolCall[k] # "none"
      /\ \A j \in 1 .. Len(toHost) : toHost[j] = Request(k) => j = 1
      /\ \/ toolCall[k] = "waiting"
         \/ \E j \in 1 .. Len(toHost) : j > 1 /\ toHost[j] = Cancel(k)
  BY <1>2, <1>3 DEF ToolInv, RequestsAreNew
<1>5. /\ toolRun' = [toolRun EXCEPT ![k] = "running"]
      /\ UNCHANGED <<toolCall, toWorker, exitSeen>>
  BY DEF OnToolRequest, workerVars
<1>6. \A x \in Tools : x # k => toolRun'[x] = toolRun[x]
  BY <1>2, <1>5 DEF TypeOK
<1>7. toolRun'[k] = "running"
  BY <1>2, <1>5 DEF TypeOK
<1>8. RunsAreCalls'
  BY <1>4, <1>5, <1>6 DEF ToolInv, RunsAreCalls
<1>9. AnswersAreOver'
  BY <1>4, <1>5, <1>6 DEF ToolInv, AnswersAreOver, Has, Answer
<1>10. ASSUME NEW x \in Tools, NEW j \in 1 .. Len(toHost), j > 1, toHost[j] = Cancel(x)
       PROVE  j - 1 \in 1 .. Len(toHost') /\ toHost'[j - 1] = Cancel(x)
  BY <1>1, <1>10
<1>11. RequestsAreNew'
  <2> SUFFICES ASSUME NEW x \in Tools, NEW i \in 1 .. Len(toHost'),
                      toHost'[i] = Request(x)
               PROVE  /\ toolRun'[x] = "none" /\ toolCall'[x] # "none"
                      /\ \A j \in 1 .. Len(toHost') : toHost'[j] = Request(x) => j = i
                      /\ \/ toolCall'[x] = "waiting"
                         \/ \E j \in 1 .. Len(toHost') : j > i /\ toHost'[j] = Cancel(x)
    BY DEF RequestsAreNew, Request, Cancel, Message
  <2>1. i + 1 \in 1 .. Len(toHost) /\ toHost[i + 1] = Request(x)  BY <1>1
  <2>2. /\ toolRun[x] = "none" /\ toolCall[x] # "none"
        /\ \A j \in 1 .. Len(toHost) : toHost[j] = Request(x) => j = i + 1
        /\ \/ toolCall[x] = "waiting"
           \/ \E j \in 1 .. Len(toHost) : j > i + 1 /\ toHost[j] = Cancel(x)
    BY <2>1 DEF ToolInv, RequestsAreNew
  <2>3. x # k  BY <1>1, <1>3, <2>2
  <2>4. toolRun'[x] = "none"  BY <1>6, <2>2, <2>3
  <2>5. \A j \in 1 .. Len(toHost') : toHost'[j] = Request(x) => j = i
    BY <1>1, <2>2
  <2>6. ASSUME NEW j \in 1 .. Len(toHost), j > i + 1, toHost[j] = Cancel(x)
        PROVE  \E n \in 1 .. Len(toHost') : n > i /\ toHost'[n] = Cancel(x)
    <3>1. j - 1 \in 1 .. Len(toHost') /\ toHost'[j - 1] = Cancel(x) /\ j - 1 > i
      BY <1>1, <2>6
    <3> QED  BY <3>1
  <2> QED  BY <1>5, <2>2, <2>4, <2>5, <2>6
<1>12. RunsAreWanted'
  <2> SUFFICES ASSUME NEW x \in Tools, toolRun'[x] = "running"
               PROVE  toolCall'[x] = "waiting" \/ Has(toHost', Cancel(x))
    BY DEF RunsAreWanted, Has, Cancel, Message, Wanted
  <2>1. CASE x = k
    BY <1>2, <1>4, <1>5, <1>7, <1>10, <2>1 DEF Has
  <2>2. CASE x # k
    <3>1. toolRun[x] = "running"  BY <1>6, <2>2
    <3>2. toolCall[x] = "waiting" \/ Has(toHost, Cancel(x))
      BY <3>1 DEF ToolInv, RunsAreWanted, Has, Cancel, Wanted
    <3>3. ASSUME NEW j \in 1 .. Len(toHost), toHost[j] = Cancel(x)
          PROVE  Has(toHost', Cancel(x))
      <4>1. j # 1  BY <1>3, <3>3 DEF Request, Cancel, Message
      <4>2. j > 1  BY <1>1, <4>1
      <4> QED  BY <1>10, <3>3, <4>2 DEF Has
    <3> QED  BY <1>5, <3>2, <3>3 DEF Has
  <2> QED  BY <2>1, <2>2
<1>13. QED  BY <1>8, <1>9, <1>11, <1>12 DEF ToolInv

(* The Worker asks for a tool, under an id it has not used.                *)
LEMMA ToolIsRequested ==
  ASSUME TypeOK, ToolInv, NEW k \in Tools, RequestTool(k)
  PROVE  ToolInv'
<1>1. /\ toolCall[k] = "none" /\ toolCall' = [toolCall EXCEPT ![k] = "waiting"]
      /\ toHost' = toHost \o <<Request(k)>>
      /\ UNCHANGED <<toolRun, toWorker, exitSeen>>
  BY DEF RequestTool, Reply, Request, hostVars
<1>2. /\ toolCall'[k] = "waiting"
      /\ \A x \in Tools : x # k => toolCall'[x] = toolCall[x]
  BY <1>1 DEF TypeOK
<1>3. toolRun[k] = "none"  BY <1>1 DEF ToolInv, RunsAreCalls
<1>4. /\ Len(toHost) \in Nat /\ Len(toHost') = Len(toHost) + 1
      /\ \A i \in 1 .. Len(toHost) : toHost'[i] = toHost[i]
      /\ toHost'[Len(toHost) + 1] = Request(k)
  <2>1. Len(toHost) \in Nat  BY LenProperties DEF TypeOK
  <2>2. <<Request(k)>> \in Seq(ToHost)  BY MessagesTyped DEF Request
  <2>3. Len(<<Request(k)>>) = 1 /\ <<Request(k)>>[1] = Request(k)  OBVIOUS
  <2>4. /\ Len(toHost') = Len(toHost) + 1
        /\ \A i \in 1 .. Len(toHost) + 1 :
             toHost'[i] = IF i <= Len(toHost) THEN toHost[i]
                                              ELSE <<Request(k)>>[i - Len(toHost)]
    BY <1>1, <2>2, <2>3, ConcatProperties DEF TypeOK
  <2>5. /\ Len(toHost) + 1 \in 1 .. Len(toHost) + 1
        /\ ~(Len(toHost) + 1 <= Len(toHost)) /\ Len(toHost) + 1 - Len(toHost) = 1
    BY <2>1
  <2> QED  BY <2>1, <2>3, <2>4, <2>5
<1>5. \A i \in 1 .. Len(toHost) : toHost[i] # Request(k)
  BY <1>1 DEF ToolInv, RequestsAreNew
<1>6. \A i \in 1 .. Len(toHost') : i \in 1 .. Len(toHost) \/ i = Len(toHost) + 1
  BY <1>4
<1>7. \A i \in 1 .. Len(toHost) : i \in 1 .. Len(toHost')  BY <1>4
<1>8. RequestsAreNew'
  <2> SUFFICES ASSUME NEW x \in Tools, NEW i \in 1 .. Len(toHost'),
                      toHost'[i] = Request(x)
               PROVE  /\ toolRun'[x] = "none" /\ toolCall'[x] # "none"
                      /\ \A j \in 1 .. Len(toHost') : toHost'[j] = Request(x) => j = i
                      /\ \/ toolCall'[x] = "waiting"
                         \/ \E j \in 1 .. Len(toHost') : j > i /\ toHost'[j] = Cancel(x)
    BY DEF RequestsAreNew, Request, Cancel, Message
  <2>1. CASE x = k
    <3>1. \A j \in 1 .. Len(toHost') : toHost'[j] = Request(k) => j = Len(toHost) + 1
      BY <1>4, <1>5, <1>6
    <3> QED  BY <1>1, <1>2, <1>3, <2>1, <3>1
  <2>2. CASE x # k
    <3>1. Request(x) # Request(k)  BY <2>2 DEF Request, Message
    <3>2. i \in 1 .. Len(toHost) /\ toHost[i] = Request(x)  BY <1>4, <1>6, <3>1
    <3>3. /\ toolRun[x] = "none" /\ toolCall[x] # "none"
          /\ \A j \in 1 .. Len(toHost) : toHost[j] = Request(x) => j = i
          /\ \/ toolCall[x] = "waiting"
             \/ \E j \in 1 .. Len(toHost) : j > i /\ toHost[j] = Cancel(x)
      BY <3>2 DEF ToolInv, RequestsAreNew
    <3>4. \A j \in 1 .. Len(toHost') : toHost'[j] = Request(x) => j = i
      BY <1>4, <1>6, <3>1, <3>3
    <3>5. (\E j \in 1 .. Len(toHost) : j > i /\ toHost[j] = Cancel(x)) =>
            \E j \in 1 .. Len(toHost') : j > i /\ toHost'[j] = Cancel(x)
      BY <1>4, <1>7
    <3> QED  BY <1>1, <1>2, <2>2, <3>3, <3>4, <3>5
  <2> QED  BY <2>1, <2>2
<1>9. RunsAreCalls'  BY <1>1, <1>2 DEF ToolInv, RunsAreCalls
<1>10. AnswersAreOver'  BY <1>1 DEF ToolInv, AnswersAreOver, Has, Answer
<1>11. RunsAreWanted'
  <2> SUFFICES ASSUME NEW x \in Tools, toolRun'[x] = "running"
               PROVE  toolCall'[x] = "waiting" \/ Has(toHost', Cancel(x))
    BY DEF RunsAreWanted, Has, Cancel, Message, Wanted
  <2>1. toolCall[x] = "waiting" \/ Has(toHost, Cancel(x))
    BY <1>1 DEF ToolInv, RunsAreWanted, Has, Cancel, Wanted
  <2>2. Has(toHost, Cancel(x)) => Has(toHost', Cancel(x))  BY <1>4, <1>7 DEF Has
  <2> QED  BY <1>1, <1>2, <2>1, <2>2
<1>12. QED  BY <1>8, <1>9, <1>10, <1>11 DEF ToolInv

(* Answers: nothing is posted for a call but by its end.                   *)
LEMMA AnswersKept ==
  ASSUME TypeOK, ToolInv, Settles,
         \/ UNCHANGED toWorker
         \/ toWorker' = <<>>
         \/ \E type \in {"prompt", "abort", "dispose", "tool_result"} : Takes(type)
         \/ \E m \in ToWorker : Post(m) /\ \A k \in Tools :
                                           m = Answer(k) => toolRun'[k] = "ended"
  PROVE  AnswersAreOver'
<1>1. \A k \in Tools : toolRun[k] = "ended" => toolRun'[k] = "ended"
  BY DEF Settles
<1> SUFFICES ASSUME NEW k \in Tools, Has(toWorker', Answer(k))
             PROVE  toolRun'[k] = "ended"
  BY DEF AnswersAreOver, Has, Answer, Message
<1>2. Has(toWorker, Answer(k)) => toolRun[k] = "ended"
  BY DEF ToolInv, AnswersAreOver
<1>3. CASE UNCHANGED toWorker  BY <1>1, <1>2, <1>3
<1>4. CASE toWorker' = <<>>  BY <1>4 DEF Has
<1>5. CASE \E type \in {"prompt", "abort", "dispose", "tool_result"} : Takes(type)
  BY <1>1, <1>2, <1>5, TakesHas
<1>6. CASE \E m \in ToWorker : Post(m) /\ \A x \in Tools :
                                     m = Answer(x) => toolRun'[x] = "ended"
  BY <1>1, <1>2, <1>6, PostHas
<1>7. QED  BY <1>3, <1>4, <1>5, <1>6

(* What is sent with Send is no answer.                                    *)
LEMMA SendPosts ==
  ASSUME NEW kind \in {"prompt", "abort", "dispose"}, NEW r,
         Message(kind, r) \in ToWorker, Send(kind, r)
  PROVE  \E m \in ToWorker : Post(m) /\ \A k \in Tools :
                                      m = Answer(k) => toolRun'[k] = "ended"
<1>1. \A k \in Tools : Message(kind, r) # Answer(k)  BY DEF Answer, Message
<1>2. QED  BY <1>1 DEF Send

LEMMA ToolInvPreserved ==
  ASSUME TypeOK, ToolInv, [Next]_vars
  PROVE  ToolInv'
<1> USE DEF hostVars, workerVars
<1>1. ASSUME RequestsAreNew' /\ RunsAreCalls' /\ RunsAreWanted', AnswersAreOver'
      PROVE  ToolInv'
  BY <1>1 DEF ToolInv
<1>2. AbortTools => Settles
  BY DEF AbortTools, Settles, TypeOK
<1>3. toolRun' = toolRun => Settles  BY DEF Settles
<1>4. ASSUME NEW r \in Prompts \cup Aborts, Ask(r)  PROVE ToolInv'
  <2>1. RequestsAreNew' /\ RunsAreCalls' /\ RunsAreWanted'
    BY <1>3, <1>4, HostChannelKept DEF Ask
  <2>2. AnswersAreOver'
    BY <1>3, <1>4, SendPosts, MessagesTyped, AnswersKept DEF Ask, KindOf
  <2> QED  BY <1>1, <2>1, <2>2
<1>5. ASSUME NEW r \in Prompts \cup Aborts, Refuse(r)  PROVE ToolInv'
  BY <1>1, <1>3, <1>5, HostChannelKept, AnswersKept DEF Refuse
<1>6. ASSUME NEW p \in Prompts, TurnTimeout(p)  PROVE ToolInv'
  <2>1. RequestsAreNew' /\ RunsAreCalls' /\ RunsAreWanted'
    BY <1>3, <1>6, HostChannelKept DEF TurnTimeout
  <2>2. AnswersAreOver'
    BY <1>3, <1>6, SendPosts, MessagesTyped, AnswersKept DEF TurnTimeout
  <2> QED  BY <1>1, <2>1, <2>2
<1>7. ASSUME NEW k \in Tools, ToolEnds(k)  PROVE ToolInv'
  <2>1. Settles /\ toolRun'[k] = "ended"
    BY <1>7 DEF ToolEnds, Settles, TypeOK
  <2>2. RequestsAreNew' /\ RunsAreCalls' /\ RunsAreWanted'
    BY <1>7, <2>1, HostChannelKept DEF ToolEnds
  <2>3. Answer(k) \in ToWorker /\ \A x \in Tools : Answer(k) = Answer(x) => x = k
    BY MessagesTyped DEF Answer, Message
  <2>4. AnswersAreOver'
    <3>1. CASE Post(Answer(k))  BY <2>1, <2>3, <3>1, AnswersKept
    <3>2. CASE UNCHANGED toWorker  BY <2>1, <3>2, AnswersKept
    <3> QED  BY <1>7, <3>1, <3>2 DEF ToolEnds, Answer
  <2> QED  BY <1>1, <2>2, <2>4
<1>8. ASSUME NEW k \in Tools, RequestTool(k)  PROVE ToolInv'
  BY <1>8, ToolIsRequested
<1>9. CASE CallDispose
  <2>1. RequestsAreNew' /\ RunsAreCalls' /\ RunsAreWanted'
    BY <1>3, <1>9, HostChannelKept DEF CallDispose
  <2>2. AnswersAreOver'
    BY <1>3, <1>9, SendPosts, MessagesTyped, AnswersKept DEF CallDispose
  <2> QED  BY <1>1, <2>1, <2>2
<1>10. ASSUME NEW type \in {"ready", "event", "result", "error", "fatal", "tool_cancel"},
              Arrives(type), Settles, UNCHANGED <<toolCall, exitSeen, toWorker>>,
              type = "tool_cancel" => toolRun'[Arrived] # "running"
       PROVE  ToolInv'
  <2>1. \A k \in Tools : Head(toHost) = Cancel(k) => toolRun'[k] # "running"
    BY <1>10, ArrivedTyped DEF Cancel, Message, Arrived
  <2> QED  BY <1>1, <1>10, <2>1, HostTakes, AnswersKept
<1>11. CASE OnReady
  BY <1>3, <1>10, <1>11 DEF OnReady
<1>12. CASE OnEvent
  BY <1>3, <1>10, <1>12 DEF OnEvent
<1>13. CASE OnResult
  BY <1>3, <1>10, <1>13 DEF OnResult
<1>14. CASE OnError
  BY <1>3, <1>10, <1>14 DEF OnError
<1>15. CASE OnFatal
  BY <1>2, <1>10, <1>15 DEF OnFatal, RejectAll
<1>16. CASE OnToolCancel
  <2>1. Arrived \in Tools
    BY <1>16, ArrivedTyped DEF OnToolCancel, Arrived, ToHost
  <2>2. Settles /\ toolRun'[Arrived] # "running"
    BY <1>16, <2>1 DEF OnToolCancel, Settles, TypeOK
  <2> QED  BY <1>10, <1>16, <2>2 DEF OnToolCancel
<1>17. CASE OnToolRequest
  BY <1>17, ToolStarts
<1>18. CASE ExitEvent
  BY <1>1, <1>2, <1>18, HostChannelKept, AnswersKept DEF ExitEvent, RejectAll
<1>19. CASE FinishDispose
  BY <1>1, <1>2, <1>19, HostChannelKept, AnswersKept DEF FinishDispose, RejectAll
<1>20. CASE GraceExpires \/ StartupTimeout
  BY <1>1, <1>3, <1>20, HostChannelKept, AnswersKept DEF GraceExpires, StartupTimeout
<1>21. ASSUME NEW ms \in Seq(Plain), Reply(ms), UNCHANGED <<toolRun, exitSeen>>,
              AnswersAreOver',
              toolCall' = toolCall \/ (EndTools /\ \A k \in Waiting : Has(ms, Cancel(k)))
       PROVE  ToolInv'
  <2>1. \A k \in Tools : \/ toolCall'[k] = toolCall[k]
                         \/ /\ toolCall[k] = "waiting" /\ toolCall'[k] # "none"
                            /\ Has(ms, Cancel(k))
    BY <1>21 DEF EndTools, Waiting, TypeOK
  <2> QED  BY <1>1, <1>21, <2>1, WorkerReplies
<1>22. CASE TakePrompt
  <2>1. AnswersAreOver'  BY <1>3, <1>22, AnswersKept DEF TakePrompt
  <2>2. Taken \in Requests
    BY <1>22, TakenTyped DEF TakePrompt, Taken, ToWorker, Requests
  <2>3. CASE UNCHANGED toHost
    BY <1>1, <1>3, <1>22, <2>1, <2>3, HostChannelKept DEF TakePrompt
  <2>4. CASE Reply(<<Message("error", Taken)>>)
    BY <1>21, <1>22, <2>1, <2>2, <2>4, PlainMessages DEF TakePrompt
  <2> QED  BY <1>22, <2>3, <2>4 DEF TakePrompt
<1>23. CASE TakeAbort
  <2>1. AnswersAreOver'  BY <1>3, <1>23, AnswersKept DEF TakeAbort
  <2>2. Taken \in Requests
    BY <1>23, TakenTyped DEF TakeAbort, Taken, ToWorker, Requests
  <2>3. CASE StopRun(Taken)
    BY <1>21, <1>23, <2>1, <2>3, CancelsTyped, PlainMessages DEF TakeAbort, StopRun
  <2>4. CASE \E type \in {"result", "error"} :
               Reply(<<Message(type, Taken)>>) /\ UNCHANGED toolCall
    BY <1>21, <1>23, <2>1, <2>2, <2>4, PlainMessages DEF TakeAbort
  <2> QED  BY <1>23, <2>3, <2>4 DEF TakeAbort
<1>24. CASE TakeDispose
  <2>1. AnswersAreOver'  BY <1>3, <1>24, AnswersKept DEF TakeDispose
  <2>2. CASE StopRun(Dispose)
    BY <1>21, <1>24, <2>1, <2>2, CancelsTyped, PlainMessages DEF TakeDispose, StopRun
  <2>3. CASE UNCHANGED <<toolCall, toHost>>
    BY <1>1, <1>3, <1>24, <2>1, <2>3, HostChannelKept DEF TakeDispose
  <2> QED  BY <1>24, <2>2, <2>3 DEF TakeDispose
<1>25. CASE TakeToolResult
  <2> DEFINE k == Taken
  <2>1. k \in Tools /\ Head(toWorker) = Answer(k) /\ Has(toWorker, Answer(k))
    <3>1. k \in Tools /\ Head(toWorker) = Answer(k)
      BY <1>25, TakenTyped DEF TakeToolResult, Taken, ToWorker, Answer, Message
    <3>2. Head(toWorker) = toWorker[1] /\ Len(toWorker) \in Nat \ {0}
      BY <1>25, AfterHead DEF TakeToolResult, Takes, TypeOK
    <3>3. 1 \in 1 .. Len(toWorker) /\ toWorker[1] = Answer(k)  BY <3>1, <3>2
    <3> QED  BY <3>1, <3>3 DEF Has
  <2>2. toolRun[k] = "ended"  BY <2>1 DEF ToolInv, AnswersAreOver
  <2>3. AnswersAreOver'  BY <1>3, <1>25, AnswersKept DEF TakeToolResult
  <2>4. /\ \A x \in Tools : x # k => toolCall'[x] = toolCall[x]
        /\ toolCall[k] # "none" => toolCall'[k] # "none"
        /\ UNCHANGED <<toolRun, toHost, exitSeen>>
    BY <1>25, <2>1 DEF TakeToolResult, TypeOK
  <2>5. RunsAreCalls'  BY <2>4 DEF ToolInv, RunsAreCalls
  <2>6. RequestsAreNew'
    <3>1. \A i \in 1 .. Len(toHost) : toHost[i] # Request(k)
      BY <2>1, <2>2 DEF ToolInv, RequestsAreNew
    <3> QED  BY <2>4, <3>1 DEF ToolInv, RequestsAreNew
  <2>7. RunsAreWanted'  BY <2>2, <2>4 DEF ToolInv, RunsAreWanted, Wanted
  <2> QED  BY <1>1, <2>3, <2>5, <2>6, <2>7
<1>26. CASE WorkerDisposed
  <2>1. AnswersAreOver'  BY <1>3, <1>26, AnswersKept DEF WorkerDisposed, GoesDeaf
  <2> DEFINE ms == Cancels \o <<Message("result", Dispose)>>
  <2>2. <<Message("result", Dispose)>> \in Seq(Plain) /\ Cancels \in Seq(Plain)
    BY PlainMessages DEF Requests
  <2>3. ms \in Seq(Plain)  BY <2>2, ConcatProperties
  <2>4. ASSUME NEW k \in Waiting  PROVE Has(ms, Cancel(k))
    <3>1. PICK i \in 1 .. Len(Cancels) : Cancels[i] = Cancel(k)
      BY <2>4, CancelsTyped DEF Has
    <3>2. Len(Cancels) \in Nat  BY <2>2, LenProperties
    <3>3. /\ Len(ms) = Len(Cancels) + 1
          /\ \A j \in 1 .. Len(Cancels) : ms[j] = Cancels[j]
      <4>1. Len(<<Message("result", Dispose)>>) = 1  OBVIOUS
      <4> QED  BY <2>2, <3>2, <4>1, ConcatProperties
    <3>4. i \in 1 .. Len(ms) /\ ms[i] = Cancel(k)  BY <3>1, <3>2, <3>3
    <3> QED  BY <3>4 DEF Has
  <2> HIDE DEF ms
  <2>5. Reply(ms)  BY <1>26 DEF WorkerDisposed, ms
  <2> QED  BY <1>21, <1>26, <2>1, <2>3, <2>4, <2>5 DEF WorkerDisposed
<1>27. CASE WorkerReady
  <2>1. AnswersAreOver'  BY <1>3, <1>27, AnswersKept DEF WorkerReady
  <2> QED  BY <1>21, <1>27, <2>1, PlainMessages DEF WorkerReady
<1>28. CASE EmitDelta
  <2>1. AnswersAreOver'  BY <1>3, <1>28, AnswersKept DEF EmitDelta
  <2>2. active \in Prompts  BY <1>28 DEF EmitDelta, Runs, TypeOK
  <2> QED  BY <1>21, <1>28, <2>1, <2>2, PlainMessages DEF EmitDelta
<1>29. CASE EndRun
  <2>1. AnswersAreOver'  BY <1>3, <1>29, AnswersKept DEF EndRun
  <2>2. active \in Requests  BY <1>29 DEF EndRun, TypeOK, Requests
  <2>3. \A type \in {"result", "error"} : <<Message(type, active)>> \in Seq(Plain)
    BY <2>2, PlainMessages
  <2>4. \E ms \in Seq(Plain) : Reply(ms)
    BY <1>29, <2>3, PlainMessages, ConcatProperties DEF EndRun
  <2> QED  BY <1>21, <1>29, <2>1, <2>4 DEF EndRun
<1>30. CASE WorkerPanics
  <2>1. AnswersAreOver'  BY <1>3, <1>30, AnswersKept DEF WorkerPanics, GoesDeaf
  <2> DEFINE ms == <<Message("fatal", None)>> \o Cancels
  <2>2. <<Message("fatal", None)>> \in Seq(Plain) /\ Cancels \in Seq(Plain)
    BY PlainMessages
  <2>3. ms \in Seq(Plain)  BY <2>2, ConcatProperties
  <2>4. ASSUME NEW k \in Waiting  PROVE Has(ms, Cancel(k))
    <3>1. PICK i \in 1 .. Len(Cancels) : Cancels[i] = Cancel(k)
      BY <2>4, CancelsTyped DEF Has
    <3>2. Len(Cancels) \in Nat  BY <2>2, LenProperties
    <3>3. /\ Len(ms) = 1 + Len(Cancels)
          /\ \A j \in 1 .. 1 + Len(Cancels) : j > 1 => ms[j] = Cancels[j - 1]
      <4>1. Len(<<Message("fatal", None)>>) = 1  OBVIOUS
      <4> QED  BY <2>2, <3>2, <4>1, ConcatProperties
    <3>4. i + 1 \in 1 .. Len(ms) /\ ms[i + 1] = Cancel(k)
      BY <3>1, <3>2, <3>3
    <3> QED  BY <3>4 DEF Has
  <2> HIDE DEF ms
  <2>5. Reply(ms)  BY <1>30 DEF WorkerPanics, ms
  <2> QED  BY <1>21, <1>30, <2>1, <2>3, <2>4, <2>5 DEF WorkerPanics
<1>31. CASE WorkerHangs \/ WorkerDies
  <2>1. AnswersAreOver'
    BY <1>3, <1>31, AnswersKept DEF WorkerHangs, WorkerDies, GoesDeaf
  <2> QED  BY <1>1, <1>3, <1>31, <2>1, HostChannelKept DEF WorkerHangs, WorkerDies
<1>32. CASE UNCHANGED vars
  BY <1>1, <1>3, <1>32, HostChannelKept, AnswersKept DEF vars
<1>33. QED
  BY <1>4, <1>5, <1>6, <1>7, <1>8, <1>9, <1>11, <1>12, <1>13, <1>14, <1>15, <1>16,
     <1>17, <1>18, <1>19, <1>20, <1>22, <1>23, <1>24, <1>25, <1>26, <1>27, <1>28,
     <1>29, <1>30, <1>31, <1>32
  DEF Next, HostStep, HostReceives, WorkerStep, WorkerReceives

-----------------------------------------------------------------------------
LEMMA InitInv == Init => IInv
<1>1. ASSUME Init  PROVE SessionInv
  BY <1>1 DEF Init, SessionInv, NothingWaitsForADeadWorker, RevokedWithChild,
              AvailableIsUsable
<1>2. ASSUME Init  PROVE ToolInv
  BY <1>2 DEF Init, ToolInv, RequestsAreNew, RunsAreCalls, AnswersAreOver,
              RunsAreWanted, Has
<1>3. QED  BY <1>1, <1>2, InitTyped DEF IInv

LEMMA Invariance == Spec => []IInv
<1>1. IInv /\ [Next]_vars => IInv'
  BY TypePreserved, SessionInvPreserved, ToolInvPreserved DEF IInv
<1>2. QED  BY InitInv, <1>1, PTL DEF Spec

(* Whatever the Worker does, and however it ends: when its exit was seen   *)
(* or dispose() returned, no request of the session is open any more       *)
(* (process-session.ts, the exit handler, dispose and rejectAll).          *)
THEOREM NothingWaits == Spec => []NothingWaitsForADeadWorker
<1>1. IInv => NothingWaitsForADeadWorker  BY DEF IInv, SessionInv
<1>2. QED  BY Invariance, <1>1, PTL

(* No message that arrives late makes a session available whose model      *)
(* capability is revoked or that is disposed of (updateStatus).            *)
THEOREM AvailableStaysUsable == Spec => []AvailableIsUsable
<1>1. IInv => AvailableIsUsable  BY DEF IInv, SessionInv
<1>2. QED  BY Invariance, <1>1, PTL

(* Only the exit handler sees the exit, and it aborts what runs.           *)
LEMMA ExitAborts ==
  ASSUME TypeOK, [Next]_vars
  PROVE  \/ exitSeen' = exitSeen
         \/ \A k \in Tools : toolRun'[k] # "running"
<1> USE DEF hostVars, workerVars
<1>1. CASE ExitEvent
  BY <1>1 DEF ExitEvent, RejectAll, AbortTools, TypeOK
<1>2. CASE UNCHANGED vars  BY <1>2 DEF vars
<1>3. CASE \E r \in Prompts \cup Aborts : Ask(r) \/ Refuse(r)
  BY <1>3 DEF Ask, Refuse
<1>4. CASE \/ \E p \in Prompts : TurnTimeout(p)
           \/ \E k \in Tools : ToolEnds(k) \/ RequestTool(k)
  BY <1>4 DEF TurnTimeout, ToolEnds, RequestTool
<1>5. CASE HostReceives
  BY <1>5 DEF HostReceives, OnReady, OnEvent, OnResult, OnError, OnToolRequest,
     OnToolCancel, OnFatal
<1>6. CASE CallDispose \/ GraceExpires \/ FinishDispose \/ StartupTimeout
  BY <1>6 DEF CallDispose, GraceExpires, FinishDispose, StartupTimeout
<1>7. CASE WorkerStep
  BY <1>7 DEF WorkerStep, WorkerReceives, TakePrompt, TakeAbort, TakeDispose,
     TakeToolResult, WorkerDisposed
<1>8. CASE WorkerReady \/ EmitDelta \/ EndRun \/ WorkerPanics \/ WorkerHangs \/ WorkerDies
  BY <1>8 DEF WorkerReady, EmitDelta, EndRun, WorkerPanics, WorkerHangs, WorkerDies
<1>9. QED  BY <1>1, <1>2, <1>3, <1>4, <1>5, <1>6, <1>7, <1>8 DEF Next, HostStep

(* Until the exit is handled a tool call runs in the Host only for a       *)
(* Worker that waits for it, or until a cancellation on its way is         *)
(* handled; the exit aborts every call that runs by then (handleMessage,   *)
(* rejectAll; worker.ts requestTool).                                      *)
THEOREM NoToolIsOrphaned == Spec => NoOrphanTool
<1>1. ASSUME IInv, IInv', [Next]_vars, NEW k \in Tools, ~exitSeen, toolRun'[k] = "running"
      PROVE  ~exitSeen' /\ Wanted(k)'
  <2>1. exitSeen' = exitSeen  BY <1>1, ExitAborts DEF IInv
  <2>2. Wanted(k)'  BY <1>1 DEF IInv, ToolInv, RunsAreWanted
  <2> QED  BY <1>1, <2>1, <2>2
<1>2. IInv /\ IInv' /\ [Next]_vars =>
        [\A k \in Tools : ~exitSeen /\ toolRun'[k] = "running" =>
           ~exitSeen' /\ Wanted(k)']_vars
  BY <1>1
<1>3. QED  BY Invariance, <1>2, PTL DEF Spec, NoOrphanTool

-----------------------------------------------------------------------------
(* The reply of a turn: its deltas, in the order of the channel, and then  *)
(* the result of its prompt.                                               *)

(* The places of a message in a channel.                                   *)
At(s, m) == {i \in 1 .. Len(s) : s[i] = m}

Events(p)  == At(toHost, Message("event", p))
Results(p) == At(toHost, Message("result", p))
Queued(p)  == At(toWorker, Message("prompt", p))

Untouched(p) ==
  /\ active # p
  /\ emitted[p] = 0 /\ heard[p][p] = 0
  /\ Events(p) = {} /\ Results(p) = {}

Untaken(p) ==
  /\ call[p] = "idle" => Untouched(p) /\ Queued(p) = {}
  /\ Queued(p) # {} => Untouched(p) /\ call[p] # "answered"
  /\ \A i, j \in Queued(p) : i = j

Unanswered(p) == active = p => Results(p) = {} /\ call[p] # "answered"

Before(events, results) == \A i \in events, j \in results : i < j

InOrder(p) ==
  /\ Before(Events(p), Results(p))
  /\ call[p] = "answered" => Events(p) = {}

(* No delta is lost: what the turn has heard and what is still on its way. *)
AllHeard(p) ==
  p \notin abandoned =>
    /\ call[p] = "open" => heard[p][p] + Cardinality(Events(p)) = emitted[p]
    /\ call[p] = "answered" => heard[p][p] = emitted[p]

PromptInv(p) == Untaken(p) /\ Unanswered(p) /\ InOrder(p) /\ AllHeard(p)

ReplyInv == \A p \in Prompts : PromptInv(p)

(* Appending keeps the places and adds the appended ones behind them.      *)
LEMMA PlacesAppended ==
  ASSUME NEW S, NEW s \in Seq(S), NEW t \in Seq(S), NEW m
  PROVE  /\ Len(s) \in Nat
         /\ \A i \in At(s, m) : i \in At(s \o t, m) /\ i <= Len(s)
         /\ \A i \in At(s \o t, m) :
              i \in At(s, m) \/ (i > Len(s) /\ Len(t) # 0 /\ i - Len(s) \in At(t, m))
<1>1. /\ Len(s) \in Nat /\ Len(t) \in Nat /\ Len(s \o t) = Len(s) + Len(t)
      /\ \A i \in 1 .. Len(s) + Len(t) :
           (s \o t)[i] = IF i <= Len(s) THEN s[i] ELSE t[i - Len(s)]
  BY ConcatProperties, LenProperties
<1>2. ASSUME NEW i \in At(s, m)  PROVE i \in At(s \o t, m) /\ i <= Len(s)
  BY <1>1, <1>2 DEF At
<1>3. ASSUME NEW i \in At(s \o t, m), i \notin At(s, m)
      PROVE  i > Len(s) /\ Len(t) # 0 /\ i - Len(s) \in At(t, m)
  <2>1. i \in 1 .. Len(s) + Len(t) /\ (s \o t)[i] = m  BY <1>1 DEF At
  <2>2. i > Len(s)  BY <1>1, <1>3, <2>1 DEF At
  <2> QED  BY <1>1, <2>1, <2>2 DEF At
<1>4. QED  BY <1>1, <1>2, <1>3

LEMMA PlacesKept ==
  ASSUME NEW S, NEW s \in Seq(S), NEW t \in Seq(S), NEW m, At(t, m) = {}
  PROVE  At(s \o t, m) = At(s, m)
<1>1. At(s, m) \subseteq At(s \o t, m)  BY PlacesAppended
<1>2. At(s \o t, m) \subseteq At(s, m)  BY PlacesAppended
<1>3. QED  BY <1>1, <1>2

LEMMA PlaceAppended ==
  ASSUME NEW S, NEW s \in Seq(S), NEW e \in S, NEW m
  PROVE  /\ At(Append(s, e), m) = IF e = m THEN At(s, m) \cup {Len(s) + 1} ELSE At(s, m)
         /\ Len(s) + 1 \notin At(s, m)
<1>1. /\ Len(s) \in Nat /\ Len(Append(s, e)) = Len(s) + 1
      /\ \A i \in 1 .. Len(s) : Append(s, e)[i] = s[i]
      /\ Append(s, e)[Len(s) + 1] = e
  BY AppendProperties, LenProperties
<1>2. 1 .. Len(s) + 1 = (1 .. Len(s)) \cup {Len(s) + 1}  BY <1>1
<1>3. QED  BY <1>1, <1>2 DEF At

(* Nothing else is in a sequence that is made of other messages.           *)
LEMMA NoPlace ==
  ASSUME NEW S, NEW t \in Seq(S), NEW m, m \notin S
  PROVE  At(t, m) = {}
BY ElementOfSeq, LenProperties DEF At

LEMMA PlacesFinite ==
  ASSUME NEW S, NEW s \in Seq(S), NEW m
  PROVE  IsFiniteSet(At(s, m)) /\ At(s, m) \subseteq Nat \ {0}
<1>1. Len(s) \in Nat  BY LenProperties
<1>2. IsFiniteSet(1 .. Len(s))  BY <1>1, FS_Interval
<1>3. QED  BY <1>1, <1>2, FS_Subset DEF At

(* Taking the first element moves the places of the others.                *)
LEMMA PlacesTaken ==
  ASSUME NEW S, NEW s \in Seq(S), s # <<>>, NEW m
  PROVE  /\ \A i \in At(Tail(s), m) : i \in Nat \ {0} /\ i + 1 \in At(s, m)
         /\ \A i \in At(s, m) : i # 1 => i - 1 \in At(Tail(s), m)
         /\ 1 \in At(s, m) <=> Head(s) = m
         /\ Cardinality(At(Tail(s), m)) =
              Cardinality(At(s, m)) - (IF Head(s) = m THEN 1 ELSE 0)
<1> DEFINE T == At(s, m) \ {1}
           U == At(Tail(s), m)
           f == [i \in U |-> i + 1]
<1>1. /\ Head(s) = s[1]
      /\ Len(s) \in Nat \ {0} /\ Len(Tail(s)) = Len(s) - 1
      /\ \A i \in 1 .. Len(s) - 1 : Tail(s)[i] = s[i + 1]
  BY AfterHead
<1>2. ASSUME NEW i \in U  PROVE i \in Nat \ {0} /\ i + 1 \in At(s, m)
  BY <1>1, <1>2 DEF At
<1>3. ASSUME NEW i \in At(s, m), i # 1  PROVE i - 1 \in U
  <2>1. i \in 1 .. Len(s) /\ s[i] = m  BY DEF At
  <2>2. i - 1 \in 1 .. Len(s) - 1 /\ Tail(s)[i - 1] = s[(i - 1) + 1]
    BY <1>1, <1>3, <2>1
  <2>3. (i - 1) + 1 = i  BY <2>1
  <2> QED  BY <1>1, <2>1, <2>2, <2>3 DEF At
<1>4. 1 \in At(s, m) <=> Head(s) = m  BY <1>1 DEF At
<1>5. f \in Bijection(U, T)
  <2>1. ASSUME NEW i \in U  PROVE f[i] \in T
    BY <1>2, <2>1
  <2>2. \A i, j \in U : f[i] = f[j] => i = j  BY <1>2
  <2>3. ASSUME NEW i \in T  PROVE \E j \in U : f[j] = i
    <3>1. i - 1 \in U  BY <1>3
    <3>2. i \in Nat  BY PlacesFinite
    <3> QED  BY <3>1, <3>2
  <2>4. f \in [U -> T]  BY <2>1
  <2> HIDE DEF U, T, f
  <2>5. f \in Injection(U, T)
    BY <2>2, <2>4 DEF Injection, IsInjective, f
  <2>6. f \in Surjection(U, T)
    BY <2>3, <2>4 DEF Surjection
  <2> QED  BY <2>5, <2>6 DEF Bijection
<1>6. IsFiniteSet(At(s, m)) /\ IsFiniteSet(U)
  <2>1. Tail(s) \in Seq(S)  BY AfterHead
  <2> QED  BY <2>1, PlacesFinite
<1>7. Cardinality(T) = Cardinality(U)
  BY <1>5, <1>6, FS_Bijection DEF ExistsBijection
<1>8. Cardinality(T) = Cardinality(At(s, m)) - (IF Head(s) = m THEN 1 ELSE 0)
  <2>1. Cardinality(At(s, m)) \in Nat  BY <1>6, FS_CardinalityType
  <2>2. Cardinality(T) = IF 1 \in At(s, m) THEN Cardinality(At(s, m)) - 1
                                           ELSE Cardinality(At(s, m))
    BY <1>6, FS_RemoveElement
  <2> QED  BY <1>4, <2>1, <2>2
<1>9. QED  BY <1>2, <1>3, <1>4, <1>7, <1>8

-----------------------------------------------------------------------------
(* What a step leaves alone that has nothing to do with the prompt p.      *)

HostQuiet(p) ==
  /\ Events(p) = {} => Events(p)' = {}
  /\ Results(p) = {} => Results(p)' = {}
  /\ Before(Events(p), Results(p)) => Before(Events(p)', Results(p)')
  /\ Cardinality(Events(p)') = Cardinality(Events(p))

WorkerQuiet(p) ==
  /\ Queued(p) = {} => Queued(p)' = {}
  /\ (\A i, j \in Queued(p) : i = j) => \A i, j \in Queued(p)' : i = j

TurnQuiet(p) ==
  /\ call'[p] \in {call[p], "failed"}
  /\ heard'[p][p] = heard[p][p] /\ emitted'[p] = emitted[p]
  /\ abandoned \subseteq abandoned'
  /\ active' = p => active = p

(* Such a step keeps what is known of the prompt.                          *)
LEMMA PromptKept ==
  ASSUME NEW p \in Prompts, PromptInv(p), HostQuiet(p), WorkerQuiet(p), TurnQuiet(p)
  PROVE  PromptInv(p)'
<1> USE DEF HostQuiet, TurnQuiet
<1>1. Untouched(p) => Untouched(p)'  BY DEF Untouched
<1>2. Untaken(p)'  BY <1>1 DEF WorkerQuiet, PromptInv, Untaken
<1>3. Unanswered(p)'  BY DEF PromptInv, Unanswered
<1>4. InOrder(p)'  BY DEF PromptInv, InOrder, Before
<1>5. AllHeard(p)'  BY DEF PromptInv, AllHeard
<1>6. QED  BY <1>2, <1>3, <1>4, <1>5 DEF PromptInv

(* The messages of the Worker that are no part of the reply to p.          *)
Silent(p) == {m \in ToHost : m # Message("event", p) /\ m # Message("result", p)}

LEMMA QuietReply ==
  ASSUME TypeOK, NEW p \in Prompts, NEW ms \in Seq(Silent(p)), Reply(ms)
  PROVE  Events(p)' = Events(p) /\ Results(p)' = Results(p)
<1>1. ms \in Seq(ToHost)  BY SeqMonotonic DEF Silent
<1>2. ASSUME NEW m \in {Message("event", p), Message("result", p)}
      PROVE  At(toHost', m) = At(toHost, m)
  <2>1. At(ms, m) = {}  BY NoPlace DEF Silent
  <2>2. toHost' = toHost \o ms  BY DEF Reply
  <2>3. At(toHost \o ms, m) = At(toHost, m)
    BY <1>1, <2>1, PlacesKept DEF TypeOK
  <2> QED  BY <2>2, <2>3
<1>3. QED  BY <1>2 DEF Events, Results

LEMMA SilentIsQuiet ==
  ASSUME TypeOK, NEW p \in Prompts
  PROVE  /\ \A ms \in Seq(Silent(p)) : Reply(ms) => HostQuiet(p)
         /\ toHost' = toHost => HostQuiet(p)
         /\ \A m \in Silent(p) : <<m>> \in Seq(Silent(p))
<1>1. Events(p)' = Events(p) /\ Results(p)' = Results(p) => HostQuiet(p)
  BY DEF HostQuiet
<1>2. toHost' = toHost => Events(p)' = Events(p) /\ Results(p)' = Results(p)
  BY DEF Events, Results
<1>3. QED  BY <1>1, <1>2, QuietReply

(* The places that are left when the Host takes a message.                 *)
LEMMA ReplyTaken ==
  ASSUME TypeOK, NEW p \in Prompts, NEW type, Arrives(type)
  PROVE  /\ Before(Events(p), Results(p)) => Before(Events(p)', Results(p)')
         /\ Events(p) = {} => Events(p)' = {}
         /\ Results(p) = {} => Results(p)' = {}
         /\ 1 \in Events(p) <=> Head(toHost) = Message("event", p)
         /\ 1 \in Results(p) <=> Head(toHost) = Message("result", p)
         /\ Cardinality(Events(p)') = Cardinality(Events(p)) -
              (IF Head(toHost) = Message("event", p) THEN 1 ELSE 0)
         /\ Events(p) \subseteq Nat \ {0}
         /\ IsFiniteSet(Events(p)) /\ IsFiniteSet(Events(p)')
<1>1. toHost \in Seq(ToHost) /\ toHost # <<>> /\ toHost' = Tail(toHost)
  BY DEF TypeOK, Arrives
<1>2. ASSUME NEW m
      PROVE  /\ \A i \in At(toHost', m) : i \in Nat \ {0} /\ i + 1 \in At(toHost, m)
             /\ 1 \in At(toHost, m) <=> Head(toHost) = m
             /\ Cardinality(At(toHost', m)) =
                  Cardinality(At(toHost, m)) - (IF Head(toHost) = m THEN 1 ELSE 0)
             /\ IsFiniteSet(At(toHost, m)) /\ At(toHost, m) \subseteq Nat \ {0}
             /\ IsFiniteSet(At(toHost', m))
  <2>1. toHost' \in Seq(ToHost)  BY <1>1, AfterHead
  <2> QED  BY <1>1, <2>1, PlacesTaken, PlacesFinite
<1>3. ASSUME Before(Events(p), Results(p))
      PROVE  Before(Events(p)', Results(p)')
  <2> SUFFICES ASSUME NEW i \in At(toHost', Message("event", p)),
                      NEW j \in At(toHost', Message("result", p))
               PROVE  i < j
    BY DEF Before, Events, Results, Message
  <2>1. i \in Nat /\ j \in Nat /\ i + 1 \in Events(p) /\ j + 1 \in Results(p)
    BY <1>2 DEF Events, Results
  <2>2. i + 1 < j + 1  BY <1>3, <2>1 DEF Before
  <2> QED  BY <2>1, <2>2
<1>4. /\ Events(p) = {} => Events(p)' = {}
      /\ Results(p) = {} => Results(p)' = {}
  BY <1>2 DEF Events, Results, Message
<1>5. /\ 1 \in Events(p) <=> Head(toHost) = Message("event", p)
      /\ 1 \in Results(p) <=> Head(toHost) = Message("result", p)
      /\ Cardinality(Events(p)') = Cardinality(Events(p)) -
           (IF Head(toHost) = Message("event", p) THEN 1 ELSE 0)
      /\ Events(p) \subseteq Nat \ {0}
      /\ IsFiniteSet(Events(p)) /\ IsFiniteSet(Events(p)')
  BY <1>2 DEF Events, Results, Message
<1>6. QED  BY <1>3, <1>4, <1>5

LEMMA QuietArrival ==
  ASSUME TypeOK, NEW p \in Prompts, NEW type, Arrives(type), Head(toHost) \in Silent(p)
  PROVE  HostQuiet(p)
<1>1. Head(toHost) # Message("event", p)  BY DEF Silent
<1>2. Cardinality(Events(p)) \in Nat  BY ReplyTaken, FS_CardinalityType
<1>3. Cardinality(Events(p)') = Cardinality(Events(p))
  BY <1>1, <1>2, ReplyTaken
<1>4. QED  BY <1>3, ReplyTaken DEF HostQuiet

(* The channel to the Worker.                                              *)
LEMMA QuietPost ==
  ASSUME TypeOK, NEW p \in Prompts, NEW m \in ToWorker, m # Message("prompt", p), Post(m)
  PROVE  WorkerQuiet(p)
<1>1. Queued(p)' = Queued(p)
  <2>1. CASE toWorker' = toWorker  BY <2>1 DEF Queued
  <2>2. CASE toWorker' = Append(toWorker, m)
    BY <2>2, PlaceAppended DEF TypeOK, Queued, Message
  <2> QED  BY <2>1, <2>2 DEF Post
<1>2. QED  BY <1>1 DEF WorkerQuiet

LEMMA PromptTaken ==
  ASSUME TypeOK, NEW p \in Prompts, NEW type, Takes(type)
  PROVE  /\ WorkerQuiet(p)
         /\ Head(toWorker) = Message("prompt", p) /\ (\A i, j \in Queued(p) : i = j)
              => Queued(p) # {} /\ Queued(p)' = {}
<1> DEFINE m == Message("prompt", p)
<1>1. toWorker \in Seq(ToWorker) /\ toWorker # <<>> /\ toWorker' = Tail(toWorker)
  BY DEF TypeOK, Takes
<1>2. /\ \A i \in At(toWorker', m) : i \in Nat \ {0} /\ i + 1 \in At(toWorker, m)
      /\ 1 \in At(toWorker, m) <=> Head(toWorker) = m
  BY <1>1, PlacesTaken
<1>3. /\ \A i \in Queued(p)' : i \in Nat \ {0} /\ i + 1 \in Queued(p)
      /\ 1 \in Queued(p) <=> Head(toWorker) = m
  BY <1>2 DEF Queued, Message
<1> HIDE DEF m
<1>4. WorkerQuiet(p)
  <2>1. Queued(p) = {} => Queued(p)' = {}  BY <1>3
  <2>2. ASSUME \A i, j \in Queued(p) : i = j, NEW i \in Queued(p)', NEW j \in Queued(p)'
        PROVE  i = j
    <3>1. i + 1 = j + 1  BY <1>3, <2>2
    <3> QED  BY <1>3, <3>1
  <2> QED  BY <2>1, <2>2 DEF WorkerQuiet
<1>5. ASSUME Head(toWorker) = m, \A i, j \in Queued(p) : i = j
      PROVE  Queued(p) # {} /\ Queued(p)' = {}
  <2>1. 1 \in Queued(p)  BY <1>3, <1>5
  <2>2. ASSUME NEW i \in Queued(p)'  PROVE FALSE
    <3>1. i + 1 = 1 /\ i \in Nat \ {0}  BY <1>3, <1>5, <2>1, <2>2
    <3> QED  BY <3>1
  <2> QED  BY <2>1, <2>2
<1>6. QED  BY <1>4, <1>5 DEF m

LEMMA WorkerChannelKept ==
  ASSUME NEW p \in Prompts, toWorker' = toWorker \/ toWorker' = <<>>
  PROVE  WorkerQuiet(p)
<1>1. toWorker' = <<>> => Queued(p)' = {}  BY DEF Queued, At
<1>2. toWorker' = toWorker => Queued(p)' = Queued(p)  BY DEF Queued
<1>3. QED  BY <1>1, <1>2 DEF WorkerQuiet

-----------------------------------------------------------------------------
(* What the Worker sends that is no part of the reply to p.                *)
LEMMA SilentMessages ==
  ASSUME TypeOK, NEW p \in Prompts
  PROVE  /\ Cancels \in Seq(Silent(p))
         /\ Each("result", waiters \ {Dispose}) \in Seq(Silent(p))
         /\ \A type \in {"ready", "fatal"} : Message(type, None) \in Silent(p)
         /\ \A r \in Requests : Message("error", r) \in Silent(p)
         /\ \A r \in Requests : r # p => Message("result", r) \in Silent(p)
         /\ \A q \in Prompts : q # p => Message("event", q) \in Silent(p)
         /\ \A k \in Tools : Message("tool_request", k) \in Silent(p)
<1>1. Cancels \in Seq(Silent(p))
  <2>1. IsFiniteSet(Waiting)  BY WorkerAssumption, FS_Subset DEF Waiting
  <2>2. [type : {"tool_cancel"}, id : Waiting] \subseteq Silent(p)
    BY DEF Silent, ToHost, Waiting, Message
  <2>3. Cancels \in Seq([type : {"tool_cancel"}, id : Waiting])
    BY <2>1, EachRequest DEF Cancels
  <2> QED  BY <2>2, <2>3, SeqMonotonic
<1>2. Each("result", waiters \ {Dispose}) \in Seq(Silent(p))
  <2>1. waiters \ {Dispose} \subseteq Aborts  BY DEF TypeOK
  <2>2. IsFiniteSet(waiters \ {Dispose})  BY <2>1, WorkerAssumption, FS_Subset
  <2>3. [type : {"result"}, id : waiters \ {Dispose}] \subseteq Silent(p)
    BY <2>1, WorkerAssumption DEF Silent, ToHost, Requests, Message
  <2> QED  BY <2>2, <2>3, EachRequest, SeqMonotonic
<1>3. QED  BY <1>1, <1>2 DEF Silent, ToHost, Message

(* prompt() sends the first message of p.                                  *)
LEMMA PromptAsked ==
  ASSUME TypeOK, NEW p \in Prompts, PromptInv(p), Ask(p)
  PROVE  PromptInv(p)'
<1>1. p \in Requests  BY DEF Requests
<1>2. /\ Untouched(p) /\ Queued(p) = {}
      /\ call'[p] \in {"open", "failed"}
      /\ UNCHANGED <<abandoned, heard, emitted, active, toHost>>
  BY <1>1 DEF Ask, Unused, Send, PromptInv, Untaken, TypeOK, workerVars
<1>3. Untouched(p)'  BY <1>2 DEF Untouched, Events, Results
<1>4. \A i, j \in Queued(p)' : i = j
  <2>1. CASE toWorker' = toWorker  BY <1>2, <2>1 DEF Queued
  <2>2. CASE toWorker' = Append(toWorker, Message("prompt", p))
    <3>1. At(toWorker', Message("prompt", p)) = Queued(p) \cup {Len(toWorker) + 1}
      BY <2>2, MessagesTyped, PlaceAppended DEF TypeOK, Queued
    <3> QED  BY <1>2, <3>1 DEF Queued, Message
  <2> QED  BY <2>1, <2>2 DEF Ask, Send, Post, KindOf
<1>5. Cardinality(Events(p)') = 0  BY <1>3, FS_EmptySet DEF Untouched
<1>6. Untaken(p)'  BY <1>2, <1>3, <1>4 DEF Untaken
<1>7. Unanswered(p)' /\ InOrder(p)'  BY <1>2, <1>3 DEF Unanswered, InOrder, Before, Untouched
<1>8. AllHeard(p)'  BY <1>2, <1>3, <1>5 DEF AllHeard, Untouched
<1>9. QED  BY <1>6, <1>7, <1>8 DEF PromptInv

(* The Worker begins with p: the one message of the prompt is taken.       *)
LEMMA PromptBegins ==
  ASSUME TypeOK, NEW p \in Prompts, PromptInv(p), Takes("prompt"), Taken = p,
         active' = p, UNCHANGED <<hostVars, emitted, toHost>>
  PROVE  PromptInv(p)'
<1> USE DEF hostVars
<1>1. Head(toWorker) = Message("prompt", p)
  BY TakenTyped DEF Taken, ToWorker, Message
<1>2. Queued(p) # {} /\ Queued(p)' = {}
  BY <1>1, PromptTaken DEF PromptInv, Untaken
<1>3. Untouched(p) /\ call[p] # "answered" /\ call[p] # "idle"
  BY <1>2 DEF PromptInv, Untaken
<1>4. Events(p)' = Events(p) /\ Results(p)' = Results(p)  BY DEF Events, Results
<1>5. Untaken(p)'  BY <1>2, <1>3 DEF Untaken
<1>6. Unanswered(p)' /\ InOrder(p)'
  BY <1>3, <1>4 DEF Unanswered, InOrder, Before, Untouched
<1>7. AllHeard(p)'  BY <1>3, <1>4 DEF AllHeard, PromptInv
<1>8. QED  BY <1>5, <1>6, <1>7 DEF PromptInv

(* While p runs, its request was taken and is not answered.                *)
LEMMA Running ==
  ASSUME TypeOK, NEW p \in Prompts, PromptInv(p), active = p
  PROVE  /\ Results(p) = {} /\ Queued(p) = {}
         /\ call[p] # "answered" /\ call[p] # "idle"
BY DEF PromptInv, Untaken, Untouched, Unanswered

LEMMA DeltaEmitted ==
  ASSUME TypeOK, NEW p \in Prompts, PromptInv(p), EmitDelta, active = p
  PROVE  PromptInv(p)'
<1> USE DEF hostVars
<1>1. UNCHANGED <<hostVars, active, toWorker>> /\ emitted'[p] = emitted[p] + 1
  BY DEF EmitDelta, TypeOK
<1>2. Queued(p)' = {}  BY <1>1, Running DEF Queued
<1>3. Message("event", p) \in ToHost  BY DEF ToHost, Message
<1>4. toHost' = Append(toHost, Message("event", p))
  BY <1>3, AppendIsConcat DEF EmitDelta, Reply, TypeOK
<1>5. \A m : /\ At(toHost', m) = IF Message("event", p) = m
                                 THEN At(toHost, m) \cup {Len(toHost) + 1}
                                 ELSE At(toHost, m)
            /\ Len(toHost) + 1 \notin At(toHost, m)
  BY <1>3, <1>4, PlaceAppended DEF TypeOK
<1>6. Results(p)' = {}
  BY <1>5, Running DEF Results, Message
<1>7. Cardinality(Events(p)') = Cardinality(Events(p)) + 1
  <2>1. /\ Events(p)' = Events(p) \cup {Len(toHost) + 1}
        /\ Len(toHost) + 1 \notin Events(p)
    BY <1>5 DEF Events, Message
  <2>2. IsFiniteSet(Events(p))  BY PlacesFinite DEF TypeOK, Events
  <2> QED  BY <2>1, <2>2, FS_AddElement
<1>8. Untaken(p)'  BY <1>1, <1>2, Running DEF Untaken
<1>9. Unanswered(p)' /\ InOrder(p)'
  BY <1>1, <1>6, Running DEF Unanswered, InOrder, Before
<1>10. AllHeard(p)'
  <2>1. Cardinality(Events(p)) \in Nat
    BY PlacesFinite, FS_CardinalityType DEF TypeOK, Events
  <2>2. heard[p][p] \in Nat /\ emitted[p] \in Nat  BY WorkerAssumption DEF TypeOK
  <2> QED  BY <1>1, <1>7, <2>1, <2>2, Running DEF AllHeard, PromptInv
<1>11. QED  BY <1>8, <1>9, <1>10 DEF PromptInv

(* The run of p ends: its answer comes behind all its deltas.              *)
LEMMA RunAnswered ==
  ASSUME TypeOK, NEW p \in Prompts, PromptInv(p), EndRun, active = p
  PROVE  PromptInv(p)'
<1> USE DEF hostVars
<1>1. UNCHANGED <<hostVars, emitted, toWorker>> /\ active' = None
  BY DEF EndRun, RunOver
<1>2. Queued(p)' = {}  BY <1>1, Running DEF Queued
<1>3. active' # p  BY <1>1, WorkerAssumption
<1>4. \E ms \in Seq(ToHost) :
        toHost' = toHost \o ms /\ At(ms, Message("event", p)) = {}
  <2> DEFINE Other == {m \in ToHost : m # Message("event", p)}
  <2>1. \A type \in {"result", "error"} : <<Message(type, p)>> \in Seq(Other)
    BY DEF Message, ToHost, Requests
  <2>2. Each("result", waiters \ {Dispose}) \in Seq(Other)
    <3>1. Silent(p) \subseteq Other  BY DEF Silent
    <3> HIDE DEF Other
    <3> QED  BY <3>1, SilentMessages, SeqMonotonic
  <2>3. \E ms \in Seq(Other) : toHost' = toHost \o ms
    <3> HIDE DEF Other
    <3> QED  BY <2>1, <2>2, ConcatProperties DEF EndRun, Reply
  <2>4. \A ms \in Seq(Other) : At(ms, Message("event", p)) = {}
    <3>1. Message("event", p) \notin Other  OBVIOUS
    <3> HIDE DEF Other
    <3> QED  BY <3>1, NoPlace
  <2>5. Seq(Other) \subseteq Seq(ToHost)
    <3>1. Other \subseteq ToHost  OBVIOUS
    <3> HIDE DEF Other
    <3> QED  BY <3>1, SeqMonotonic
  <2> QED  BY <2>3, <2>4, <2>5
<1>5. PICK ms \in Seq(ToHost) :
        toHost' = toHost \o ms /\ At(ms, Message("event", p)) = {}
  BY <1>4
<1>6. Events(p)' = Events(p)
  BY <1>5, PlacesKept DEF TypeOK, Events, Message
<1>7. Before(Events(p)', Results(p)')
  <2>1. /\ Len(toHost) \in Nat
        /\ \A i \in Events(p) : i <= Len(toHost)
        /\ \A i \in Results(p)' : i \in Results(p) \/ i > Len(toHost)
    BY <1>5, PlacesAppended DEF TypeOK, Events, Results, Message
  <2>2. Events(p) \subseteq Int /\ Results(p)' \subseteq Int
    BY DEF Events, Results, At
  <2> QED  BY <1>6, <2>1, <2>2, Running DEF Before
<1>8. Untaken(p)'  BY <1>1, <1>2, Running DEF Untaken
<1>9. Unanswered(p)'  BY <1>3 DEF Unanswered
<1>10. InOrder(p)'  BY <1>1, <1>7, Running DEF InOrder, Before
<1>11. AllHeard(p)'  BY <1>1, <1>6 DEF AllHeard, PromptInv
<1>12. QED  BY <1>8, <1>9, <1>10, <1>11 DEF PromptInv

(* A delta of p reaches the turn, if it still listens.                     *)
LEMMA DeltaHeard ==
  ASSUME TypeOK, NEW p \in Prompts, PromptInv(p), OnEvent, Arrived = p
  PROVE  PromptInv(p)'
<1> USE DEF workerVars
<1>1. Head(toHost) = Message("event", p)
  BY ArrivedTyped DEF OnEvent, Arrived, ToHost, Message
<1>2. /\ Before(Events(p), Results(p)) => Before(Events(p)', Results(p)')
      /\ Results(p) = {} => Results(p)' = {}
      /\ 1 \in Events(p)
      /\ Cardinality(Events(p)') = Cardinality(Events(p)) - 1
      /\ IsFiniteSet(Events(p))
  BY <1>1, ReplyTaken DEF OnEvent
<1>3. call[p] # "idle" /\ call[p] # "answered" /\ Queued(p) = {}
  BY <1>2 DEF PromptInv, Untaken, Untouched, InOrder, Before
<1>4. /\ UNCHANGED <<call, abandoned, active, emitted, toWorker>>
      /\ heard'[p][p] = heard[p][p] + (IF Listening(p) THEN 1 ELSE 0)
  BY DEF OnEvent, TypeOK
<1>5. Queued(p)' = {}  BY <1>3, <1>4 DEF Queued
<1>6. Untaken(p)'  BY <1>3, <1>4, <1>5 DEF Untaken
<1>7. Unanswered(p)'  BY <1>2, <1>4 DEF PromptInv, Unanswered
<1>8. InOrder(p)'  BY <1>2, <1>3, <1>4 DEF PromptInv, InOrder, Before
<1>9. AllHeard(p)'
  <2>1. Cardinality(Events(p)) \in Nat  BY <1>2, FS_CardinalityType
  <2>2. heard[p][p] \in Nat  BY DEF TypeOK
  <2> QED  BY <1>2, <1>3, <1>4, <2>1, <2>2 DEF PromptInv, AllHeard, Listening
<1>10. QED  BY <1>6, <1>7, <1>8, <1>9 DEF PromptInv

(* The result of p arrives: no delta of p is left in the channel.          *)
LEMMA ResultArrives ==
  ASSUME TypeOK, NEW p \in Prompts, PromptInv(p), OnResult, Arrived = p
  PROVE  PromptInv(p)'
<1> USE DEF workerVars
<1>1. p \in Requests /\ Head(toHost) = Message("result", p)
  BY ArrivedTyped DEF OnResult, Arrived, ToHost, Message, Requests
<1>2. /\ 1 \in Results(p) /\ Events(p) \subseteq Nat \ {0}
      /\ Events(p) = {} => Events(p)' = {}
  BY <1>1, ReplyTaken DEF OnResult
<1>3. Events(p) = {} /\ Events(p)' = {}
  <2>1. \A i \in Events(p) : i < 1 /\ i \in Nat \ {0}
    BY <1>2 DEF PromptInv, InOrder, Before
  <2> QED  BY <1>2, <2>1
<1>4. call[p] # "idle" /\ Queued(p) = {} /\ active # p
  BY <1>2 DEF PromptInv, Untaken, Untouched, Unanswered
<1>5. /\ UNCHANGED <<abandoned, heard, active, emitted, toWorker>>
      /\ call'[p] = IF call[p] = "open" THEN "answered" ELSE call[p]
  BY <1>1 DEF OnResult, TypeOK
<1>6. Queued(p)' = {}  BY <1>4, <1>5 DEF Queued
<1>7. Untaken(p)' /\ Unanswered(p)' /\ InOrder(p)'
  BY <1>3, <1>4, <1>5, <1>6 DEF Untaken, Unanswered, InOrder, Before
<1>8. AllHeard(p)'
  <2>1. Cardinality(Events(p)) = 0  BY <1>3, FS_EmptySet
  <2>2. heard[p][p] \in Nat  BY DEF TypeOK
  <2>3. call'[p] # "open"  BY <1>5, <1>4 DEF TypeOK
  <2> QED  BY <1>5, <2>1, <2>2, <2>3 DEF PromptInv, AllHeard
<1>9. QED  BY <1>7, <1>8 DEF PromptInv

-----------------------------------------------------------------------------
LEMMA ReplyInvInit == Init => ReplyInv
<1> SUFFICES ASSUME Init, NEW p \in Prompts  PROVE PromptInv(p)
  BY DEF ReplyInv
<1>1. Events(p) = {} /\ Results(p) = {} /\ Queued(p) = {}
  BY DEF Init, Events, Results, Queued, At
<1>2. Untouched(p) /\ call[p] = "idle"
  BY <1>1, WorkerAssumption DEF Init, Untouched, Requests
<1>3. QED
  BY <1>1, <1>2 DEF PromptInv, Untaken, Unanswered, InOrder, Before, AllHeard, Untouched

(* A request is sent to the Worker that is not the prompt p.               *)
LEMMA QuietSend ==
  ASSUME TypeOK, NEW p \in Prompts, NEW kind, NEW r \in Requests, r # p,
         Message(kind, r) \in ToWorker, Send(kind, r)
  PROVE  WorkerQuiet(p) /\ call'[p] = call[p]
<1>1. Message(kind, r) # Message("prompt", p)  BY DEF Message
<1>2. p \in Requests  BY DEF Requests
<1>3. QED  BY <1>1, <1>2, QuietPost DEF Send, TypeOK

LEMMA PromptInvPreserved ==
  ASSUME TypeOK, NEW p \in Prompts, PromptInv(p), [Next]_vars
  PROVE  PromptInv(p)'
<1> USE DEF hostVars, workerVars
<1>0. p \in Requests /\ p # Dispose /\ p \notin Aborts /\ p # None
  BY WorkerAssumption DEF Requests
<1> DEFINE Rest == UNCHANGED <<call, abandoned, heard, emitted>>
                     /\ (active' = active \/ active' = None)
<1>1. Rest => TurnQuiet(p)  BY <1>0 DEF TurnQuiet
<1>2. RejectCalls => call'[p] \in {call[p], "failed"}
  BY <1>0 DEF RejectCalls
<1>3. toHost' = toHost => HostQuiet(p)  BY SilentIsQuiet
<1>4. ASSUME NEW r \in Prompts \cup Aborts, Ask(r)  PROVE PromptInv(p)'
  <2>1. CASE r = p  BY <1>4, <2>1, PromptAsked
  <2>2. CASE r # p
    <3>1. r \in Requests  BY DEF Requests
    <3>2. WorkerQuiet(p) /\ call'[p] = call[p]
      BY <1>4, <2>2, <3>1, QuietSend, MessagesTyped DEF Ask
    <3>3. TurnQuiet(p)  BY <1>4, <3>2 DEF Ask, TurnQuiet
    <3> QED  BY <1>3, <1>4, <3>2, <3>3, PromptKept DEF Ask
  <2> QED  BY <2>1, <2>2
<1>5. ASSUME NEW r \in Prompts \cup Aborts, Refuse(r)  PROVE PromptInv(p)'
  <2>1. TurnQuiet(p)  BY <1>0, <1>5 DEF Refuse, TurnQuiet, TypeOK
  <2> QED  BY <1>3, <1>5, <2>1, WorkerChannelKept, PromptKept DEF Refuse
<1>6. ASSUME NEW q \in Prompts, TurnTimeout(q)  PROVE PromptInv(p)'
  <2>1. WorkerQuiet(p) /\ call'[p] = call[p]
    <3>1. ASSUME NEW a \in Aborts, Send("abort", a)
          PROVE  WorkerQuiet(p) /\ call'[p] = call[p]
      <4>1. a \in Requests /\ a # p  BY <1>0 DEF Requests
      <4> QED  BY <3>1, <4>1, QuietSend, MessagesTyped
    <3> QED  BY <1>6, <3>1, WorkerChannelKept DEF TurnTimeout
  <2>2. TurnQuiet(p)  BY <1>6, <2>1 DEF TurnTimeout, TurnQuiet
  <2> QED  BY <1>3, <1>6, <2>1, <2>2, PromptKept DEF TurnTimeout
<1>7. ASSUME NEW k \in Tools, ToolEnds(k)  PROVE PromptInv(p)'
  <2>1. WorkerQuiet(p)
    <3>1. Message("tool_result", k) # Message("prompt", p)  BY DEF Message
    <3> QED  BY <1>7, <3>1, QuietPost, MessagesTyped, WorkerChannelKept DEF ToolEnds
  <2> QED  BY <1>1, <1>3, <1>7, <2>1, PromptKept DEF ToolEnds
<1>8. ASSUME NEW k \in Tools, RequestTool(k)  PROVE PromptInv(p)'
  <2>1. HostQuiet(p)  BY <1>8, SilentMessages, SilentIsQuiet DEF RequestTool
  <2> QED  BY <1>1, <1>8, <2>1, WorkerChannelKept, PromptKept DEF RequestTool
<1>9. CASE CallDispose
  <2>1. WorkerQuiet(p) /\ call'[p] = call[p]
    <3>1. Dispose \in Requests  BY DEF Requests
    <3> QED  BY <1>0, <1>9, <3>1, QuietSend, MessagesTyped, WorkerChannelKept
             DEF CallDispose
  <2>2. TurnQuiet(p)  BY <1>9, <2>1 DEF CallDispose, TurnQuiet
  <2> QED  BY <1>3, <1>9, <2>1, <2>2, PromptKept DEF CallDispose
<1>10. ASSUME NEW type \in {"ready", "fatal", "error", "tool_request", "tool_cancel"},
              Arrives(type)
       PROVE  HostQuiet(p)
  <2>1. Head(toHost) \in Silent(p)
    BY <1>10, ArrivedTyped DEF Silent, Message
  <2> QED  BY <1>10, <2>1, QuietArrival
<1>11. CASE OnReady \/ OnToolRequest \/ OnToolCancel
  <2>1. HostQuiet(p) /\ Rest /\ toWorker' = toWorker
    BY <1>10, <1>11 DEF OnReady, OnToolRequest, OnToolCancel
  <2> QED  BY <1>1, <2>1, WorkerChannelKept, PromptKept
<1>12. CASE OnEvent
  <2>1. CASE Arrived = p  BY <1>12, <2>1, DeltaHeard
  <2>2. CASE Arrived # p
    <3>1. Head(toHost) \in Silent(p)
      BY <1>12, <2>2, ArrivedTyped DEF OnEvent, Arrived, Silent, Message
    <3>2. HostQuiet(p)  BY <1>12, <3>1, QuietArrival DEF OnEvent
    <3>3. heard'[p][p] = heard[p][p]  BY <1>12, <2>2 DEF OnEvent, TypeOK
    <3>4. TurnQuiet(p)  BY <1>12, <3>3 DEF OnEvent, TurnQuiet
    <3> QED  BY <1>12, <3>2, <3>4, WorkerChannelKept, PromptKept DEF OnEvent
  <2> QED  BY <2>1, <2>2
<1>13. CASE OnResult
  <2>1. CASE Arrived = p  BY <1>13, <2>1, ResultArrives
  <2>2. CASE Arrived # p
    <3>1. Head(toHost) \in Silent(p)
      BY <1>13, <2>2, ArrivedTyped DEF OnResult, Arrived, Silent, Message
    <3>2. HostQuiet(p)  BY <1>13, <3>1, QuietArrival DEF OnResult
    <3>3. TurnQuiet(p)  BY <1>0, <1>13, <2>2 DEF OnResult, TurnQuiet, TypeOK
    <3> QED  BY <1>13, <3>2, <3>3, WorkerChannelKept, PromptKept DEF OnResult
  <2> QED  BY <2>1, <2>2
<1>14. CASE OnError
  <2>1. TurnQuiet(p)  BY <1>0, <1>14 DEF OnError, TurnQuiet, TypeOK
  <2> QED  BY <1>10, <1>14, <2>1, WorkerChannelKept, PromptKept DEF OnError
<1>15. CASE OnFatal
  <2>1. TurnQuiet(p)  BY <1>2, <1>15 DEF OnFatal, RejectAll, TurnQuiet
  <2> QED  BY <1>10, <1>15, <2>1, WorkerChannelKept, PromptKept DEF OnFatal
<1>16. CASE ExitEvent \/ FinishDispose
  <2>1. TurnQuiet(p)  BY <1>2, <1>16 DEF ExitEvent, FinishDispose, RejectAll, TurnQuiet
  <2> QED  BY <1>3, <1>16, <2>1, WorkerChannelKept, PromptKept DEF ExitEvent, FinishDispose
<1>17. CASE GraceExpires \/ StartupTimeout \/ UNCHANGED vars
  <2>1. Rest /\ UNCHANGED <<toWorker, toHost>>
    BY <1>17 DEF GraceExpires, StartupTimeout, vars
  <2> QED  BY <1>1, <1>3, <2>1, WorkerChannelKept, PromptKept
<1>18. CASE TakePrompt
  <2>1. Taken \in Requests /\ WorkerQuiet(p)
    BY <1>18, TakenTyped, PromptTaken DEF TakePrompt, Taken, ToWorker, Requests
  <2>2. CASE active' = Taken /\ UNCHANGED toHost
    <3>1. CASE Taken = p  BY <1>18, <2>2, <3>1, PromptBegins DEF TakePrompt
    <3>2. CASE Taken # p
      <4>1. TurnQuiet(p)  BY <1>18, <2>2, <3>2 DEF TakePrompt, TurnQuiet
      <4> QED  BY <1>3, <2>1, <2>2, <4>1, PromptKept
    <3> QED  BY <3>1, <3>2
  <2>3. CASE active' = active /\ Reply(<<Message("error", Taken)>>)
    <3>1. HostQuiet(p)  BY <2>1, <2>3, SilentMessages, SilentIsQuiet
    <3> QED  BY <1>1, <1>18, <2>1, <2>3, <3>1, PromptKept DEF TakePrompt
  <2> QED  BY <1>18, <2>2, <2>3 DEF TakePrompt
<1>19. ASSUME Reply(Cancels) \/ toHost' = toHost  PROVE HostQuiet(p)
  BY <1>3, <1>19, SilentMessages, SilentIsQuiet
<1>20. CASE TakeAbort
  <2>1. Taken \in Requests /\ Taken # p /\ WorkerQuiet(p)
    BY <1>0, <1>20, TakenTyped, PromptTaken DEF TakeAbort, Taken, ToWorker, Requests
  <2>2. HostQuiet(p)
    <3>1. ASSUME NEW type \in {"result", "error"}, Reply(<<Message(type, Taken)>>)
          PROVE  HostQuiet(p)
      BY <2>1, <3>1, SilentMessages, SilentIsQuiet
    <3> QED  BY <1>19, <1>20, <3>1 DEF TakeAbort, StopRun
  <2> QED  BY <1>1, <1>20, <2>1, <2>2, PromptKept DEF TakeAbort
<1>21. CASE TakeDispose
  <2>1. WorkerQuiet(p)  BY <1>21, PromptTaken DEF TakeDispose
  <2>2. HostQuiet(p)  BY <1>19, <1>21 DEF TakeDispose, StopRun
  <2> QED  BY <1>1, <1>21, <2>1, <2>2, PromptKept DEF TakeDispose
<1>22. CASE TakeToolResult
  <2>1. WorkerQuiet(p)  BY <1>22, PromptTaken DEF TakeToolResult
  <2> QED  BY <1>1, <1>3, <1>22, <2>1, PromptKept DEF TakeToolResult
<1>23. CASE WorkerDisposed
  <2>1. <<Message("result", Dispose)>> \in Seq(Silent(p)) /\ Cancels \in Seq(Silent(p))
    BY <1>0, SilentMessages, SilentIsQuiet DEF Requests
  <2>2. HostQuiet(p)
    BY <1>23, <2>1, ConcatProperties, SilentIsQuiet DEF WorkerDisposed
  <2> QED  BY <1>1, <1>23, <2>2, WorkerChannelKept, PromptKept
           DEF WorkerDisposed, GoesDeaf, RunOver
<1>24. CASE WorkerReady
  <2>1. HostQuiet(p)  BY <1>24, SilentMessages, SilentIsQuiet DEF WorkerReady
  <2> QED  BY <1>1, <1>24, <2>1, WorkerChannelKept, PromptKept DEF WorkerReady
<1>25. CASE EmitDelta
  <2>1. CASE active = p  BY <1>25, <2>1, DeltaEmitted
  <2>2. CASE active # p
    <3>1. active \in Prompts  BY <1>25 DEF EmitDelta, Runs, TypeOK
    <3>2. HostQuiet(p)  BY <1>25, <2>2, <3>1, SilentMessages, SilentIsQuiet DEF EmitDelta
    <3>3. TurnQuiet(p)  BY <1>25, <2>2 DEF EmitDelta, TurnQuiet, TypeOK
    <3> QED  BY <1>25, <3>2, <3>3, WorkerChannelKept, PromptKept DEF EmitDelta
  <2> QED  BY <2>1, <2>2
<1>26. CASE EndRun
  <2>1. CASE active = p  BY <1>26, <2>1, RunAnswered
  <2>2. CASE active # p
    <3>1. active \in Requests  BY <1>26 DEF EndRun, TypeOK, Requests
    <3>2. \A type \in {"result", "error"} : <<Message(type, active)>> \in Seq(Silent(p))
      BY <2>2, <3>1, SilentMessages, SilentIsQuiet
    <3>3. \E ms \in Seq(Silent(p)) : Reply(ms)
      BY <1>26, <3>2, SilentMessages, ConcatProperties DEF EndRun
    <3>4. HostQuiet(p)  BY <3>3, SilentIsQuiet
    <3> QED  BY <1>1, <1>26, <3>4, WorkerChannelKept, PromptKept DEF EndRun, RunOver
  <2> QED  BY <2>1, <2>2
<1>27. CASE WorkerPanics
  <2>1. <<Message("fatal", None)>> \in Seq(Silent(p)) /\ Cancels \in Seq(Silent(p))
    BY SilentMessages, SilentIsQuiet
  <2>2. HostQuiet(p)
    BY <1>27, <2>1, ConcatProperties, SilentIsQuiet DEF WorkerPanics
  <2> QED  BY <1>1, <1>27, <2>2, WorkerChannelKept, PromptKept
           DEF WorkerPanics, GoesDeaf, RunOver
<1>28. CASE WorkerHangs \/ WorkerDies
  <2>1. Rest /\ toHost' = toHost /\ toWorker' = <<>>
    BY <1>28 DEF WorkerHangs, WorkerDies, GoesDeaf, RunOver
  <2> QED  BY <1>1, <1>3, <2>1, WorkerChannelKept, PromptKept
<1>29. QED
  BY <1>4, <1>5, <1>6, <1>7, <1>8, <1>9, <1>11, <1>12, <1>13, <1>14, <1>15, <1>16,
     <1>17, <1>18, <1>20, <1>21, <1>22, <1>23, <1>24, <1>25, <1>26, <1>27, <1>28
  DEF Next, HostStep, HostReceives, WorkerStep, WorkerReceives

(* When prompt() resolves for a turn that still waits, the turn has heard  *)
(* every delta its run produced: in whatever order answers, aborts, tool   *)
(* calls and other turns' deltas use the channel, the answer comes behind  *)
(* the deltas (text-delta-bridge.ts, process-session.ts, worker.ts).       *)
THEOREM ReplyComesWhole == Spec => []ReplyIsComplete
<1>1. TypeOK /\ ReplyInv /\ [Next]_vars => ReplyInv'
  BY PromptInvPreserved DEF ReplyInv, Prompts
<1>2. ReplyInv => ReplyIsComplete
  BY DEF ReplyInv, PromptInv, AllHeard, ReplyIsComplete
<1>3. QED  BY TypeCorrect, ReplyInvInit, <1>1, <1>2, PTL DEF Spec
=============================================================================
