------------------------------ MODULE Ingress ------------------------------
(***************************************************************************)
(* What one Feishu App does with the events that reach it: FeishuAppRuntime *)
(* of src/src/feishu/app-runtime.ts with its window of event keys          *)
(* (core/dedupe-window.ts) and its router, for the platform that Boot      *)
(* loads and operators publish.                                            *)
(*                                                                         *)
(* Feishu delivers an event again when it saw no answer, over the          *)
(* WebSocket or over HTTP.  The window keeps a key for Ttl; a maintenance  *)
(* run or an overflow prunes it.  A card action is handled within a unit   *)
(* of the clock: the handlers acknowledge before they do the long work.    *)
(***************************************************************************)
EXTENDS Boot

CONSTANTS
  App,            \* the identifier of the App
  Message, Card,  \* event keys: message ids and card action ids
  Content,        \* what the router sees of each message
  Ttl,            \* how long the window keeps a key
  MaxEntries,     \* how many keys the window keeps
  MaxTime,        \* bound of the clock
  MaxDeliveries   \* bound on the deliveries of one event

ASSUME IngressAssumption ==
  /\ Message \cap Card = {} /\ Content \in [Message -> RoutedMessage]
  /\ Ttl \in Nat \ {0} /\ MaxEntries \in Nat \ {0}
  /\ MaxTime \in Nat /\ MaxDeliveries \in Nat

VARIABLES
  runtime,    \* off, connecting, on
  now,        \* the clock
  window,     \* DedupeWindow.seen: each key with the end of its time and
              \* the keys that the Map holds before it
  handling,   \* how many handlers work on each card action
  deliveries, \* how often each event has been delivered
  answer,     \* who took each event last, nobody when it was ambiguous,
              \* when, and how often it was taken
  lost        \* the keys that left the window before their time, until the
              \* event has its next effect and no handler works on it

ingressVars ==
  <<runtime, now, window, handling, deliveries, answer, lost>>
vars == <<bootVars, ingressVars>>

Key == Message \cup Card

Unanswered == [by |-> {Unset}, at |-> -1, times |-> 0]

Busy(k) == k \in Card /\ handling[k] > 0

TypeOK ==
  /\ BootTypeOK
  /\ runtime \in {"off", "connecting", "on"}
  /\ now \in 0 .. MaxTime
  /\ Cardinality(window) <= MaxEntries
  /\ \A e, f \in window : e.key = f.key => e = f
  /\ handling \in [Card -> 0 .. MaxDeliveries]
  /\ deliveries \in [Key -> 0 .. MaxDeliveries]
  /\ lost \subseteq Key
  /\ runtime # "off" => stage = "serving"

Init ==
  /\ BootInit
  /\ runtime = "off" /\ now = 0
  /\ window = {} /\ handling = [c \in Card |-> 0]
  /\ deliveries = [k \in Key |-> 0]
  /\ answer = [k \in Key |-> Unanswered]
  /\ lost = {}

-----------------------------------------------------------------------------
(* DedupeWindow.                                                           *)
Keys(entries) == {e.key : e \in entries}

Keep(entries, keys) ==
  {[key |-> e.key, until |-> e.until, older |-> e.older \cap keys] :
     e \in {e \in entries : e.key \in keys}}

Live(entries) == Keep(entries, Keys({e \in entries : e.until > now}))

Knows(k) == k \in Keys(window)

IsDuplicate(k) == \E e \in window : e.key = k /\ e.until > now

Overflows(k) == ~Knows(k) /\ Cardinality(window) = MaxEntries

Eldest == Keys({e \in window : e.older = {}})

(* accept(): a Map keeps the place of a key it has; an overflow removes    *)
(* the oldest place and whatever else has expired.                         *)
WindowWith(k) ==
  IF Knows(k)
  THEN {[key |-> e.key, older |-> e.older,
         until |-> IF e.key = k THEN now + Ttl ELSE e.until] : e \in window}
  ELSE LET entries ==
             window \cup
               {[key |-> k, until |-> now + Ttl, older |-> Keys(window)]}
       IN  IF Overflows(k) THEN Live(Keep(entries, Keys(entries) \ Eldest))
           ELSE entries

Displaced(k) == IF Overflows(k) THEN Eldest ELSE {}

Forget(k) == window' = Keep(window, Keys(window) \ {k})

-----------------------------------------------------------------------------
(* The runtime.                                                            *)
AppHere == {m \in platform.apps : m.id = App}

Bindings == BindingsOfApp(platform, App)

Events == (CHOOSE m \in AppHere : TRUE).events
Callbacks == (CHOOSE m \in AppHere : TRUE).callbacks

(* start(): every binding is prepared, with or without success, and the    *)
(* App takes messages before its channels are connected.                   *)
StartRuntime ==
  /\ stage = "serving" /\ runtime = "off" /\ AppHere # {}
  /\ runtime' = "connecting"
  /\ UNCHANGED <<bootVars, now, window, handling, deliveries, answer, lost>>

Connected ==
  /\ runtime = "connecting"
  /\ runtime' = "on"
  /\ UNCHANGED <<bootVars, now, window, handling, deliveries, answer, lost>>

(* The next runtime has a new window: a stop loses the keys of this one.   *)
Gone ==
  /\ runtime' = "off"
  /\ window' = {} /\ handling' = [c \in Card |-> 0]
  /\ lost' = lost \cup Keys(window)

(* A channel that cannot connect, a lease that is lost, a shutdown.        *)
StopRuntime ==
  /\ runtime # "off"
  /\ Gone
  /\ UNCHANGED <<bootVars, now, deliveries, answer>>

Tick ==
  /\ now < MaxTime /\ \A c \in Card : ~Busy(c)
  /\ now' = now + 1
  /\ UNCHANGED <<bootVars, runtime, window, handling, deliveries,
                 answer, lost>>

(* Mutant: the maintenance clears the window. *)
MaintenanceClears ==
  /\ runtime = "on" /\ window # {}
  /\ window' = {}
  /\ UNCHANGED <<bootVars, runtime, now, handling, deliveries, answer,
                 lost>>

Maintenance ==
  /\ runtime = "on" /\ window # Live(window)
  /\ window' = Live(window)
  /\ UNCHANGED <<bootVars, runtime, now, handling, deliveries, answer,
                 lost>>

Delivered(k) ==
  /\ deliveries[k] < MaxDeliveries
  /\ deliveries' = [deliveries EXCEPT ![k] = @ + 1]

Takes(k, who) ==
  answer' = [answer EXCEPT ![k] =
               [by |-> who, at |-> now, times |-> @.times + 1]]

(* The message handler: a key that is known is dropped, a new one is kept  *)
(* before the router is asked.  The binding queues it, or the sender is    *)
(* told that the binding is not ready or that two bindings are equal.      *)
OnMessage(m) ==
  /\ \/ runtime = "on" /\ Events # "disabled"
     \/ runtime = "connecting" /\ Events = "websocket"
  /\ Delivered(m)
  /\ IF IsDuplicate(m)
     THEN UNCHANGED <<window, answer, lost>>
     ELSE /\ window' = WindowWith(m)
          /\ lost' = (lost \ {m}) \cup Displaced(m)
          /\ Takes(m, IF Ambiguous(Bindings, Content[m]) THEN {}
                      ELSE {Resolve(Bindings, Content[m]).id})
  /\ UNCHANGED <<bootVars, runtime, now, handling>>

(* The cardAction handler.  An action that the window lost while it was    *)
(* handled, and that is delivered again, is handled twice at a time.       *)
OnCardAction(c) ==
  /\ runtime = "on" /\ Callbacks = "http"
  /\ Delivered(c)
  /\ IF IsDuplicate(c)
     THEN UNCHANGED <<window, handling, lost>>
     ELSE /\ window' = WindowWith(c)
          /\ lost' = lost \cup Displaced(c)
          /\ handling' = [handling EXCEPT ![c] = @ + 1]
  /\ UNCHANGED <<bootVars, runtime, now, answer>>

CardHandled(c) ==
  /\ Busy(c)
  /\ handling' = [handling EXCEPT ![c] = @ - 1]
  /\ Takes(c, {"handled"})
  /\ lost' = IF Knows(c) /\ ~Busy(c)' THEN lost \ {c} ELSE lost
  /\ UNCHANGED <<bootVars, runtime, now, window, deliveries>>

(* Mutant: a card action that fails stays in the window. *)
CardFailsAccepted(c) ==
  /\ Busy(c)
  /\ handling' = [handling EXCEPT ![c] = @ - 1]
  /\ UNCHANGED <<bootVars, runtime, now, window, deliveries, answer,
                 lost>>

(* An unknown conversation, another App's key, an approval that fails: the *)
(* key is forgotten, so that Feishu may try again.                         *)
CardFails(c) ==
  /\ Busy(c)
  /\ handling' = [handling EXCEPT ![c] = @ - 1]
  /\ Forget(c)
  /\ UNCHANGED <<bootVars, runtime, now, deliveries, answer, lost>>

(* The process: its end takes the runtime with it; a publication replaces  *)
(* the runtime of an App whose configuration, bindings or Agents it        *)
(* changes.  For new values of its credentials StopRuntime stands.         *)
Outlives ==
  /\ stage' = "serving"
  /\ AppHere' = AppHere
  /\ Bindings' = Bindings
  /\ Agents(platform, Bindings)' = Agents(platform, Bindings)

HostStep ==
  /\ BootNext
  /\ IF runtime = "off" \/ Outlives
     THEN UNCHANGED ingressVars
     ELSE Gone /\ UNCHANGED <<now, deliveries, answer>>

Next ==
  \/ HostStep
  \/ StartRuntime \/ Connected \/ StopRuntime \/ Tick \/ Maintenance
  \/ \E m \in Message : OnMessage(m)
  \/ \E c \in Card : OnCardAction(c) \/ CardHandled(c) \/ CardFails(c)

Spec == Init /\ [][Next]_vars

-----------------------------------------------------------------------------
(* Whatever was published, the router never has to give up on a message.   *)
NeverAmbiguous == \A m \in Message : answer[m].by # {}

(* However often, over whatever channel and how close together an event    *)
(* arrives, it has an effect again only when its time in the window is     *)
(* over or the window lost it: to an overflow or with its runtime.         *)
EffectOnce ==
  [][\A k \in Key : answer'[k] # answer[k] /\ answer[k] # Unanswered =>
       now - answer[k].at >= Ttl \/ k \in lost]_vars

(* A key that makes the App turn a delivery away stands for an event that  *)
(* had its effect or is being handled: a failed card action can be tried   *)
(* again.                                                                  *)
NothingSwallowed ==
  \A k \in Key : IsDuplicate(k) =>
    \/ Busy(k)
    \/ answer[k] # Unanswered /\ now - answer[k].at < Ttl
=============================================================================
