---------------------------- MODULE EventHandling ----------------------------
(***************************************************************************)
(* What the outbox promises to the contexts that react to an event: the    *)
(* work an event asks for is done at most once, after the event, and is    *)
(* eventually done unless it is refused, whatever workers do meanwhile.    *)
(***************************************************************************)
EXTENDS Naturals

CONSTANTS
  Events,    \* how many events are emitted, in this order
  Work,      \* the kinds of work every event asks for
  Refused    \* pairs of event and work that cannot be done

Event == 1..Events

VARIABLES emitted, done

handlingVars == <<emitted, done>>

HandlingInit == emitted = 0 /\ done = {}

Emit ==
  /\ emitted < Events
  /\ emitted' = emitted + 1
  /\ UNCHANGED done

Handle(e, w) ==
  /\ e <= emitted
  /\ <<e, w>> \notin done \cup Refused
  /\ done' = done \cup {<<e, w>>}
  /\ UNCHANGED emitted

HandlingNext == Emit \/ \E e \in Event, w \in Work : Handle(e, w)

HandlingSafety == HandlingInit /\ [][HandlingNext]_handlingVars

HandlingSpec ==
  /\ HandlingSafety
  /\ \A e \in Event, w \in Work : WF_handlingVars(Handle(e, w))
=============================================================================
