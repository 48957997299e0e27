------------------------------ MODULE EventBus ------------------------------
(***************************************************************************)
(* internal/bus/eventbus.go: publishers, the buffered stream, the          *)
(* dispatching goroutine with its drain after Stop, and callers of Stop.   *)
(*                                                                         *)
(* The stream is kept as the history of the events it accepted and the     *)
(* number already taken from it: its content is accepted[taken+1 ..].  An  *)
(* event is identified by its position in that history.                    *)
(***************************************************************************)
EXTENDS Naturals, Sequences

CONSTANTS
  Publisher,   \* the goroutines that call Publish
  Handler,     \* the consumers: TUI, log file, SqliteStore
  Stopper,     \* the goroutines that call Stop
  Capacity,    \* bufferSize of NewEventBus
  MaxEvents    \* bound: calls of Publish

ASSUME BusAssumption == Capacity \in Nat \ {0} /\ MaxEvents \in Nat

VARIABLES
  accepted,   \* the publishers of the events the stream accepted, in order
  taken,      \* how many of them the dispatcher has received
  sending,    \* the publishers inside Publish
  published,  \* calls of Publish so far
  handlers,   \* the registered handlers, in order
  since,      \* since[h]: events received before h was registered
  calls,      \* calls[h]: positions HandleEvent of h was called with
  loop,       \* the dispatcher: "off", "select", "drain", "exit"
  pending,    \* the handlers the current event still has to be given to
  stopped,    \* stopCh is closed
  promised,   \* history: events accepted when stopCh was closed
  stopping,   \* stopping[k]: how far Stop called by k got
  toClose,    \* toClose[k]: the handlers k still has to close
  closes      \* closes[h]: Close calls h received

vars == <<accepted, taken, sending, published, handlers, since, calls, loop,
          pending, stopped, promised, stopping, toClose, closes>>
pubVars == <<accepted, sending, published>>
regVars == <<handlers, since>>
dispatchVars == <<taken, calls, loop, pending>>
stopVars == <<stopped, promised, stopping, toClose, closes>>

Registered == {handlers[i] : i \in 1..Len(handlers)}
Backlog == Len(accepted) - taken

Init ==
  /\ accepted = <<>>
  /\ taken = 0
  /\ sending = {}
  /\ published = 0
  /\ handlers = <<>>
  /\ since = [h \in Handler |-> 0]
  /\ calls = [h \in Handler |-> <<>>]
  /\ loop = "off"
  /\ pending = <<>>
  /\ stopped = FALSE
  /\ promised = 0
  /\ stopping = [k \in Stopper |-> "idle"]
  /\ toClose = [k \in Stopper |-> <<>>]
  /\ closes = [h \in Handler |-> 0]

-----------------------------------------------------------------------------
(* Register and Start.                                                     *)

Register(h) ==
  /\ h \notin Registered
  /\ handlers' = Append(handlers, h)
  /\ since' = [since EXCEPT ![h] = taken]
  /\ UNCHANGED <<pubVars, dispatchVars, stopVars>>

\* The callers start the bus once, before any of them stops it.
Start ==
  /\ loop = "off"
  /\ \A k \in Stopper : stopping[k] = "idle"
  /\ loop' = "select"
  /\ UNCHANGED <<pubVars, regVars, taken, calls, pending, stopVars>>

-----------------------------------------------------------------------------
(* Publish.                                                                *)

CallPublish(p) ==
  /\ p \notin sending
  /\ published < MaxEvents
  /\ sending' = sending \cup {p}
  /\ published' = published + 1
  /\ UNCHANGED <<accepted, regVars, dispatchVars, stopVars>>

Enqueue(p) ==
  /\ p \in sending
  /\ Backlog < Capacity
  /\ accepted' = Append(accepted, p)
  /\ sending' = sending \ {p}
  /\ UNCHANGED <<published, regVars, dispatchVars, stopVars>>

\* The other branch of the select, ready once stopCh is closed.
Discard(p) ==
  /\ p \in sending
  /\ stopped
  /\ sending' = sending \ {p}
  /\ UNCHANGED <<accepted, published, regVars, dispatchVars, stopVars>>

-----------------------------------------------------------------------------
(* The dispatcher.                                                         *)

\* Mutant of Receive: the handlers are not called for the received event when
\* the bus has been stopped.
ReceiveMutedByStop ==
  /\ loop \in {"select", "drain"}
  /\ pending = <<>>
  /\ Backlog > 0
  /\ taken' = taken + 1
  /\ pending' = IF stopped THEN <<>> ELSE handlers
  /\ UNCHANGED <<pubVars, regVars, calls, loop, stopVars>>

\* An event is received, in the main select or in the drain, and dispatch
\* copies the list of handlers.
Receive ==
  /\ loop \in {"select", "drain"}
  /\ pending = <<>>
  /\ Backlog > 0
  /\ taken' = taken + 1
  /\ pending' = handlers
  /\ UNCHANGED <<pubVars, regVars, calls, loop, stopVars>>

\* HandleEvent of the next handler; a panic in it is recovered.
Deliver ==
  /\ pending # <<>>
  /\ calls' = [calls EXCEPT ![Head(pending)] = Append(@, taken)]
  /\ pending' = Tail(pending)
  /\ UNCHANGED <<pubVars, regVars, taken, loop, stopVars>>

\* Mutant of SeeStop: the goroutine returns without draining.
SeeStopAndExit ==
  /\ loop = "select"
  /\ pending = <<>>
  /\ stopped
  /\ loop' = "exit"
  /\ UNCHANGED <<pubVars, regVars, taken, calls, pending, stopVars>>

SeeStop ==
  /\ loop = "select"
  /\ pending = <<>>
  /\ stopped
  /\ loop' = "drain"
  /\ UNCHANGED <<pubVars, regVars, taken, calls, pending, stopVars>>

\* Mutant of DrainEnds: the goroutine goes back to its main select.
DrainOver ==
  /\ loop = "drain"
  /\ pending = <<>>
  /\ Backlog = 0
  /\ loop' = "select"
  /\ UNCHANGED <<pubVars, regVars, taken, calls, pending, stopVars>>

DrainEnds ==
  /\ loop = "drain"
  /\ pending = <<>>
  /\ Backlog = 0
  /\ loop' = "exit"
  /\ UNCHANGED <<pubVars, regVars, taken, calls, pending, stopVars>>

-----------------------------------------------------------------------------
(* Stop.                                                                   *)

CloseStopCh(k) ==
  /\ stopping[k] = "idle"
  /\ stopped' = TRUE
  /\ promised' = IF stopped THEN promised ELSE Len(accepted)
  /\ stopping' = [stopping EXCEPT ![k] = "waiting"]
  /\ UNCHANGED <<pubVars, regVars, dispatchVars, toClose, closes>>

\* wg.Wait, then the copy of the list of handlers.
AwaitDispatcher(k) ==
  /\ stopping[k] = "waiting"
  /\ loop \in {"off", "exit"}
  /\ stopping' = [stopping EXCEPT ![k] = "closing"]
  /\ toClose' = [toClose EXCEPT ![k] = handlers]
  /\ UNCHANGED <<pubVars, regVars, dispatchVars, stopped, promised, closes>>

CloseHandler(k) ==
  /\ stopping[k] = "closing"
  /\ toClose[k] # <<>>
  /\ closes' = [closes EXCEPT ![Head(toClose[k])] = @ + 1]
  /\ toClose' = [toClose EXCEPT ![k] = Tail(@)]
  /\ UNCHANGED <<pubVars, regVars, dispatchVars, stopped, promised, stopping>>

StopReturn(k) ==
  /\ stopping[k] = "closing"
  /\ toClose[k] = <<>>
  /\ stopping' = [stopping EXCEPT ![k] = "done"]
  /\ UNCHANGED <<pubVars, regVars, dispatchVars, stopped, promised, toClose, closes>>

-----------------------------------------------------------------------------
InPublish(p) == Enqueue(p) \/ Discard(p)
Dispatcher == Receive \/ Deliver \/ SeeStop \/ DrainEnds
InStop(k) == AwaitDispatcher(k) \/ CloseHandler(k) \/ StopReturn(k)

Next ==
  \/ Start
  \/ Dispatcher
  \/ \E h \in Handler : Register(h)
  \/ \E p \in Publisher : CallPublish(p) \/ InPublish(p)
  \/ \E k \in Stopper : CloseStopCh(k) \/ InStop(k)

Spec == Init /\ [][Next]_vars

\* Goroutines that can go on are scheduled, handlers return, and the owner of
\* the bus starts it. Nobody has to publish, register or stop.
Fairness ==
  /\ WF_vars(Start)
  /\ WF_vars(Dispatcher)
  /\ \A p \in Publisher : WF_vars(InPublish(p))
  /\ \A k \in Stopper : WF_vars(InStop(k))

FairSpec == Spec /\ Fairness

-----------------------------------------------------------------------------
(* Properties.                                                             *)

\* The variables stay in their types, and the stream within its capacity.
TypeOK ==
  /\ accepted \in Seq(Publisher)
  /\ taken \in 0..Len(accepted)
  /\ Backlog <= Capacity
  /\ sending \subseteq Publisher
  /\ published \in 0..MaxEvents
  /\ handlers \in Seq(Handler)
  /\ since \in [Handler -> Nat]
  /\ calls \in [Handler -> Seq(Nat)]
  /\ loop \in {"off", "select", "drain", "exit"}
  /\ pending \in Seq(Handler)
  /\ stopped \in BOOLEAN
  /\ promised \in Nat
  /\ stopping \in [Stopper -> {"idle", "waiting", "closing", "done"}]
  /\ toClose \in [Stopper -> Seq(Handler)]
  /\ closes \in [Handler -> Nat]

\* Every handler is called with every event received since it was registered,
\* once and in the order of the stream; only the event being dispatched may
\* still be missing, and only for the handlers dispatch has not reached.
DeliveredInOrder ==
  \A h \in Registered :
    LET owed == taken - since[h]
        late == IF \E i \in 1..Len(pending) : pending[i] = h THEN 1 ELSE 0
    IN  calls[h] = [i \in 1..(owed - late) |-> since[h] + i]

\* What was published before Stop is dispatched before the goroutine exits:
\* the stop signal may win every select, but the drain then takes the rest.
NothingLostAtStop == loop = "exit" => taken >= promised /\ pending = <<>>

\* A handler is closed only after its last HandleEvent.
ClosedAfterLastEvent ==
  \A h \in Handler : closes[h] > 0 => loop \in {"off", "exit"} /\ pending = <<>>

\* No event is discarded while the bus runs: a publisher that leaves Publish
\* without handing its event to the stream has seen Stop.
NoDiscardWhileRunning ==
  [][\A p \in Publisher : p \in sending \ sending' /\ accepted' = accepted => stopped]_vars

\* Stop returns, with publishers still active and the buffer full.
StopReturns == \A k \in Stopper : stopping[k] = "waiting" ~> stopping[k] = "done"
=============================================================================
