--------------------------- MODULE EventBusProofs ---------------------------
(***************************************************************************)
(* Proofs about EventBus, for any publishers, handlers, callers of Stop,   *)
(* buffer size and number of events; and about ApprovalConsole, the        *)
(* terminal that is one of the handlers, for any gates and buffers.        *)
(***************************************************************************)
EXTENDS EventBus, ApprovalConsole, SequenceTheorems, FiniteSetTheorems, WellFoundedInduction, TLAPS

\* What the stop flag, the dispatcher and the callers of Stop know of each other.
StopProtocol ==
  /\ stopped <=> \E k \in Stopper : stopping[k] # "idle"
  /\ loop \in {"drain", "exit"} => stopped
  /\ promised <= Len(accepted)
  /\ loop \in {"off", "exit"} => pending = <<>>
  /\ \A k \in Stopper : stopping[k] \in {"closing", "done"} => loop \in {"off", "exit"}
  /\ \A h \in Handler :
       closes[h] > 0 => \E k \in Stopper : stopping[k] \in {"closing", "done"}

\* Who is still to be called for the current event, and what was called so far.
Owed(h) == IF \E i \in 1..Len(pending) : pending[i] = h THEN 1 ELSE 0

Dispatched ==
  /\ \A i, j \in 1..Len(handlers) : handlers[i] = handlers[j] => i = j
  /\ \A i, j \in 1..Len(pending) : pending[i] = pending[j] => i = j
  /\ \A i \in 1..Len(pending) : pending[i] \in Registered
  /\ pending # <<>> => taken > 0
  /\ \A h \in Handler \ Registered : calls[h] = <<>>
  /\ \A h \in Registered :
       /\ since[h] + Owed(h) + Len(calls[h]) = taken
       /\ \A i \in 1..Len(calls[h]) : calls[h][i] = since[h] + i

-----------------------------------------------------------------------------
LEMMA InitType == Init => TypeOK
<1> SUFFICES ASSUME Init PROVE TypeOK
  OBVIOUS
<1>1. accepted \in Seq(Publisher) /\ handlers \in Seq(Handler) /\ pending \in Seq(Handler)
  BY EmptySeq DEF Init
<1>2. taken \in 0..Len(accepted) /\ Backlog <= Capacity
  BY BusAssumption, EmptySeq DEF Init, Backlog, BusAssumption
<1>3. calls \in [Handler -> Seq(Nat)] /\ toClose \in [Stopper -> Seq(Handler)]
  BY EmptySeq DEF Init
<1>4. /\ since \in [Handler -> Nat] /\ closes \in [Handler -> Nat]
      /\ stopping \in [Stopper -> {"idle", "waiting", "closing", "done"}]
  BY DEF Init
<1>5. stopped \in BOOLEAN /\ sending \subseteq Publisher /\ loop = "off"
  BY DEF Init
<1>6. published \in 0..MaxEvents /\ promised \in Nat
  BY BusAssumption DEF Init, BusAssumption
<1> QED
  BY <1>1, <1>2, <1>3, <1>4, <1>5, <1>6 DEF TypeOK

\* Every step keeps the variables in their types and the stream in its buffer.
LEMMA NextType == TypeOK /\ [Next]_vars => TypeOK'
<1> SUFFICES ASSUME TypeOK, [Next]_vars PROVE TypeOK'
  OBVIOUS
<1> USE BusAssumption DEF BusAssumption, TypeOK, Backlog, pubVars, regVars,
        dispatchVars, stopVars
<1>1. CASE Start
  BY <1>1 DEF Start
<1>2. CASE Receive
  BY <1>2, SMTT(20) DEF Receive
<1>3. CASE Deliver
  BY <1>3, SMTT(20) DEF Deliver
<1>4. CASE SeeStop
  BY <1>4 DEF SeeStop
<1>5. CASE DrainEnds
  BY <1>5 DEF DrainEnds
<1>6. ASSUME NEW h \in Handler, Register(h) PROVE TypeOK'
  BY <1>6, SMTT(20) DEF Register
<1>7. ASSUME NEW p \in Publisher, CallPublish(p) PROVE TypeOK'
  BY <1>7 DEF CallPublish
<1>8. ASSUME NEW p \in Publisher, Enqueue(p) PROVE TypeOK'
  <2>1. /\ accepted' = Append(accepted, p) /\ sending' = sending \ {p}
        /\ Len(accepted) - taken < Capacity
        /\ UNCHANGED <<published, regVars, dispatchVars, stopVars>>
    BY <1>8 DEF Enqueue
  <2>2. accepted' \in Seq(Publisher) /\ Len(accepted') = Len(accepted) + 1
    BY <2>1
  <2>3. taken' \in 0..Len(accepted') /\ Len(accepted') - taken' <= Capacity
    BY <2>1, <2>2
  <2> QED
    BY <2>1, <2>2, <2>3
<1>9. ASSUME NEW p \in Publisher, Discard(p) PROVE TypeOK'
  BY <1>9 DEF Discard
<1>10. ASSUME NEW k \in Stopper, CloseStopCh(k) PROVE TypeOK'
  BY <1>10, SMTT(20) DEF CloseStopCh
<1>11. ASSUME NEW k \in Stopper, AwaitDispatcher(k) PROVE TypeOK'
  BY <1>11, SMTT(20) DEF AwaitDispatcher
<1>12. ASSUME NEW k \in Stopper, CloseHandler(k) PROVE TypeOK'
  BY <1>12, SMTT(20) DEF CloseHandler
<1>13. ASSUME NEW k \in Stopper, StopReturn(k) PROVE TypeOK'
  BY <1>13 DEF StopReturn
<1>14. CASE UNCHANGED vars
  BY <1>14 DEF vars
<1> QED
  BY <1>1, <1>2, <1>3, <1>4, <1>5, <1>6, <1>7, <1>8, <1>9, <1>10, <1>11, <1>12,
     <1>13, <1>14 DEF Next, Dispatcher, InPublish, InStop

\* The stop flag, the dispatcher and the callers of Stop keep in step.
LEMMA NextStop == TypeOK /\ StopProtocol /\ [Next]_vars => StopProtocol'
<1> SUFFICES ASSUME TypeOK /\ StopProtocol, [Next]_vars
             PROVE  StopProtocol'
  OBVIOUS
<1> USE DEF TypeOK, StopProtocol, pubVars, regVars,
        dispatchVars, stopVars
<1>1. CASE Start
  BY <1>1 DEF Start
<1>2. CASE Receive
  BY <1>2 DEF Receive
<1>3. CASE Deliver
  BY <1>3 DEF Deliver
<1>4. CASE SeeStop
  BY <1>4 DEF SeeStop
<1>5. CASE DrainEnds
  BY <1>5 DEF DrainEnds
<1>6. ASSUME NEW h \in Handler, Register(h) PROVE StopProtocol'
  BY <1>6 DEF Register
<1>7. ASSUME NEW p \in Publisher, CallPublish(p) PROVE StopProtocol'
  BY <1>7 DEF CallPublish
<1>8. ASSUME NEW p \in Publisher, Enqueue(p) PROVE StopProtocol'
  BY <1>8 DEF Enqueue
<1>9. ASSUME NEW p \in Publisher, Discard(p) PROVE StopProtocol'
  BY <1>9 DEF Discard
<1>10. ASSUME NEW k \in Stopper, CloseStopCh(k) PROVE StopProtocol'
  <2>1. /\ stopping[k] = "idle" /\ stopping' = [stopping EXCEPT ![k] = "waiting"]
        /\ loop' = loop /\ accepted' = accepted /\ pending' = pending /\ closes' = closes
        /\ promised' = IF stopped THEN promised ELSE Len(accepted)
    BY <1>10 DEF CloseStopCh
  <2>2. stopped'
    BY <1>10 DEF CloseStopCh
  <2>3. stopping'[k] = "waiting" /\ \A j \in Stopper \ {k} : stopping'[j] = stopping[j]
    BY <2>1
  <2>4. promised' <= Len(accepted)
    BY <2>1
  <2>5. ASSUME NEW j \in Stopper, stopping'[j] \in {"closing", "done"}
        PROVE  loop \in {"off", "exit"}
    BY <2>3, <2>5
  <2>6. ASSUME NEW h \in Handler, closes[h] > 0
        PROVE  \E j \in Stopper : stopping'[j] \in {"closing", "done"}
    BY <2>1, <2>3, <2>6
  <2> QED
    BY <2>1, <2>2, <2>3, <2>4, <2>5, <2>6
<1>11. ASSUME NEW k \in Stopper, AwaitDispatcher(k) PROVE StopProtocol'
  BY <1>11 DEF AwaitDispatcher
<1>12. ASSUME NEW k \in Stopper, CloseHandler(k) PROVE StopProtocol'
  BY <1>12 DEF CloseHandler
<1>13. ASSUME NEW k \in Stopper, StopReturn(k) PROVE StopProtocol'
  BY <1>13 DEF StopReturn
<1>14. CASE UNCHANGED vars
  BY <1>14 DEF vars
<1> QED
  BY <1>1, <1>2, <1>3, <1>4, <1>5, <1>6, <1>7, <1>8, <1>9, <1>10, <1>11, <1>12,
     <1>13, <1>14 DEF Next, Dispatcher, InPublish, InStop

\* Only what was received, called and registered matters to Dispatched.
LEMMA SameDispatched ==
  Dispatched /\ UNCHANGED <<taken, handlers, since, calls, pending>> => Dispatched'
  BY DEF Dispatched, Owed, Registered

\* The types of the dispatcher's state.
LEMMA DispatchTypes ==
  ASSUME TypeOK
  PROVE  /\ Len(pending) \in Nat /\ Len(handlers) \in Nat /\ taken \in Nat
         /\ DOMAIN calls = Handler /\ DOMAIN since = Handler
         /\ \A h \in Handler : calls[h] \in Seq(Nat) /\ since[h] \in Nat
                               /\ Len(calls[h]) \in Nat
         /\ \A i \in 1..Len(handlers) : handlers[i] \in Handler
         /\ \A i \in 1..Len(pending) : pending[i] \in Handler
         /\ Registered \subseteq Handler
  BY DEF TypeOK, Registered

\* Every registered handler keeps having been called for what was received.
LEMMA NextDispatched == TypeOK /\ Dispatched /\ [Next]_vars => Dispatched'
<1> SUFFICES ASSUME TypeOK /\ Dispatched, [Next]_vars
             PROVE  Dispatched'
  OBVIOUS
<1>1. CASE Start
  BY <1>1, SameDispatched DEF Start, pubVars, regVars, dispatchVars, stopVars
<1>2. CASE Receive
  <2>1. /\ pending = <<>> /\ pending' = handlers /\ taken' = taken + 1
        /\ UNCHANGED <<handlers, since, calls>> /\ Registered' = Registered
        /\ Len(pending) = 0
    BY <1>2 DEF Receive, regVars, Registered
  <2>2. ASSUME NEW h \in Registered
        PROVE  Owed(h) = 0 /\ (\E i \in 1..Len(handlers) : handlers[i] = h)
    BY <2>1 DEF Owed, Registered
  <2>3. ASSUME NEW h \in Registered
        PROVE  since[h] + 1 + Len(calls[h]) = taken + 1
    BY <2>2, DispatchTypes DEF Dispatched
  <2>4. ASSUME NEW h \in Registered PROVE Owed(h)' = 1
    BY <2>1, <2>2 DEF Owed
  <2>5. \A i \in 1..Len(handlers) : handlers[i] \in Registered
    BY DEF Registered
  <2>6. /\ \A i, j \in 1..Len(handlers) : handlers[i] = handlers[j] => i = j
        /\ \A h \in Handler \ Registered : calls[h] = <<>>
        /\ \A h \in Registered : \A i \in 1..Len(calls[h]) : calls[h][i] = since[h] + i
    BY DEF Dispatched
  <2>7. ASSUME NEW h \in Registered
        PROVE  since'[h] + Owed(h)' + Len(calls'[h]) = taken'
    <3>1. since[h] \in Nat /\ Len(calls[h]) \in Nat /\ taken \in Nat
      BY DispatchTypes
    <3>2. since'[h] = since[h] /\ Len(calls'[h]) = Len(calls[h])
      BY <2>1
    <3> QED
      BY <2>1, <2>3, <2>4, <3>1, <3>2
  <2>8. taken' > 0
    BY <2>1, DispatchTypes
  <2> QED
    BY <2>1, <2>5, <2>6, <2>7, <2>8 DEF Dispatched
<1>3. CASE Deliver
  <2>11. pending # <<>> /\ pending \in Seq(Handler)
    BY <1>3 DEF Deliver, TypeOK
  <2>12. PICK g \in Handler : g = Head(pending)
    BY <2>11
  <2>1. /\ pending # <<>> /\ pending' = Tail(pending)
        /\ calls' = [calls EXCEPT ![g] = Append(calls[g], taken)]
        /\ UNCHANGED <<handlers, since, taken>> /\ Registered' = Registered
    BY <1>3, <2>12 DEF Deliver, regVars, Registered
  <2>2. /\ Len(pending) \in Nat \ {0} /\ g = pending[1] /\ g \in Handler /\ g \in Registered
        /\ Len(pending') = Len(pending) - 1
        /\ \A i \in 1..Len(pending') : pending'[i] = pending[i + 1]
    <3>1. pending \in Seq(Handler) /\ pending # <<>>
      BY <2>1 DEF TypeOK
    <3>2. Len(pending) \in Nat \ {0}
      BY <3>1, EmptySeq
    <3>3. g = pending[1] /\ g \in Handler
      BY <2>12, <3>1
    <3>4. g \in Registered
      BY <3>2, <3>3 DEF Dispatched
    <3>5. Len(Tail(pending)) = Len(pending) - 1
      BY <3>1
    <3>6. \A i \in 1..Len(Tail(pending)) : Tail(pending)[i] = pending[i + 1]
      BY <3>1
    <3> QED
      BY <2>1, <3>2, <3>3, <3>4, <3>5, <3>6
  <2>3. Owed(g) = 1 /\ Owed(g)' = 0
    <3>1. Owed(g) = 1
      BY <2>2 DEF Owed
    <3>2. ASSUME NEW i \in 1..Len(pending'), pending'[i] = g PROVE FALSE
      <4>1. i \in Nat /\ i >= 1 /\ i + 1 \in 1..Len(pending) /\ 1 \in 1..Len(pending)
        BY <2>2
      <4>2. pending[i + 1] = pending[1]
        BY <2>2, <3>2
      <4>3. i + 1 = 1
        BY <4>1, <4>2 DEF Dispatched
      <4> QED
        BY <4>1, <4>3
    <3> QED
      BY <3>1, <3>2 DEF Owed
  <2>4. ASSUME NEW h \in Registered, h # g PROVE Owed(h)' = Owed(h)
    <3>1. ASSUME NEW i \in 1..Len(pending), pending[i] = h
          PROVE  \E j \in 1..Len(pending') : pending'[j] = h
      <4>1. i # 1
        BY <2>2, <2>4, <3>1
      <4>2. i - 1 \in 1..Len(pending') /\ (i - 1) + 1 = i
        BY <2>2, <4>1
      <4> QED
        BY <2>2, <3>1, <4>2
    <3>2. ASSUME NEW j \in 1..Len(pending'), pending'[j] = h
          PROVE  \E i \in 1..Len(pending) : pending[i] = h
      <4>1. j + 1 \in 1..Len(pending)
        BY <2>2
      <4> QED
        BY <2>2, <3>2, <4>1
    <3>3. (\E i \in 1..Len(pending) : pending[i] = h)
            <=> (\E j \in 1..Len(pending') : pending'[j] = h)
      BY <3>1, <3>2
    <3> QED
      BY <3>3 DEF Owed
  <2>5. /\ Len(calls'[g]) = Len(calls[g]) + 1
        /\ calls'[g][Len(calls[g]) + 1] = taken
        /\ \A i \in 1..Len(calls[g]) : calls'[g][i] = calls[g][i]
    <3>1. calls[g] \in Seq(Nat) /\ taken \in Nat /\ calls'[g] = Append(calls[g], taken)
      BY <2>1, <2>2, DispatchTypes
    <3> QED
      BY <3>1
  <2>6. ASSUME NEW h \in Registered
        PROVE  /\ since[h] + Owed(h)' + Len(calls'[h]) = taken
               /\ \A i \in 1..Len(calls'[h]) : calls'[h][i] = since[h] + i
    <3>1. CASE h = g
      <4>1. since[g] + 1 + Len(calls[g]) = taken
        BY <2>2, <2>3 DEF Dispatched
      <4>2. since[g] \in Nat /\ Len(calls[g]) \in Nat /\ taken \in Nat
        BY <2>2, DispatchTypes
      <4>3. \A i \in 1..Len(calls[g]) : calls[g][i] = since[g] + i
        BY <2>2 DEF Dispatched
      <4>6. Len(calls'[g]) = Len(calls[g]) + 1 /\ calls'[g][Len(calls[g]) + 1] = taken
        BY <2>5
      <4>4. since[g] + 0 + Len(calls'[g]) = taken
        <5>1. \A a, b, c \in Nat : a + 1 + b = c => a + 0 + (b + 1) = c
          OBVIOUS
        <5> QED
          BY <4>1, <4>2, <4>6, <5>1, SMTT(20)
      <4>5. ASSUME NEW i \in 1..Len(calls'[g]) PROVE calls'[g][i] = since[g] + i
        <5>1. i \in 1..Len(calls[g]) \/ i = Len(calls[g]) + 1
          BY <4>2, <4>6
        <5>2. CASE i \in 1..Len(calls[g])
          BY <2>5, <4>3, <5>2
        <5>3. CASE i = Len(calls[g]) + 1
          <6>1. \A a, b, c \in Nat : a + 1 + b = c => a + (b + 1) = c
            OBVIOUS
          <6>2. since[g] + i = taken
            BY <4>1, <4>2, <5>3, <6>1
          <6> QED
            BY <4>6, <5>3, <6>2
        <5> QED
          BY <5>1, <5>2, <5>3
      <4>7. Owed(h)' = 0
        BY <2>3, <3>1
      <4> QED
        BY <3>1, <4>4, <4>5, <4>7
    <3>2. CASE h # g
      <4>1. calls'[h] = calls[h]
        BY <2>1, <3>2, DispatchTypes
      <4>2. since[h] + Owed(h) + Len(calls[h]) = taken
        BY DEF Dispatched
      <4>3. \A i \in 1..Len(calls[h]) : calls[h][i] = since[h] + i
        BY DEF Dispatched
      <4>4. Owed(h)' = Owed(h)
        BY <2>4, <3>2
      <4> QED
        BY <4>1, <4>2, <4>3, <4>4
    <3> QED
      BY <3>1, <3>2
  <2>7. ASSUME NEW i \in 1..Len(pending'), NEW j \in 1..Len(pending'),
               pending'[i] = pending'[j]
        PROVE  i = j
    <3>1. i + 1 \in 1..Len(pending) /\ j + 1 \in 1..Len(pending)
      BY <2>2
    <3>2. i + 1 = j + 1
      BY <2>2, <2>7, <3>1 DEF Dispatched
    <3> QED
      BY <3>2
  <2>8. ASSUME NEW i \in 1..Len(pending') PROVE pending'[i] \in Registered
    <3>1. i + 1 \in 1..Len(pending)
      BY <2>2
    <3> QED
      BY <2>2, <3>1 DEF Dispatched
  <2>9. \A h \in Handler \ Registered : calls'[h] = <<>>
    BY <2>1, <2>2, DispatchTypes DEF Dispatched
  <2>10. taken > 0
    BY <2>1 DEF Dispatched
  <2> QED
    BY <2>1, <2>6, <2>7, <2>8, <2>9, <2>10 DEF Dispatched
<1>4. CASE SeeStop
  BY <1>4, SameDispatched DEF SeeStop, pubVars, regVars, dispatchVars, stopVars
<1>5. CASE DrainEnds
  BY <1>5, SameDispatched DEF DrainEnds, pubVars, regVars, dispatchVars, stopVars
<1>6. ASSUME NEW h \in Handler, Register(h) PROVE Dispatched'
  <2>1. /\ h \notin Registered /\ handlers' = Append(handlers, h)
        /\ since' = [since EXCEPT ![h] = taken]
        /\ UNCHANGED <<taken, calls, pending>>
    BY <1>6 DEF Register, dispatchVars
  <2>2. /\ Len(handlers') = Len(handlers) + 1 /\ handlers'[Len(handlers) + 1] = h
        /\ \A i \in 1..Len(handlers) : handlers'[i] = handlers[i]
    BY <2>1 DEF TypeOK
  <2>3. Registered' = Registered \cup {h}
    <3>1. ASSUME NEW g \in Registered' PROVE g \in Registered \cup {h}
      <4>1. PICK i \in 1..Len(handlers') : handlers'[i] = g
        BY DEF Registered
      <4>2. i \in 1..Len(handlers) \/ i = Len(handlers) + 1
        BY <2>2, DispatchTypes
      <4> QED
        BY <2>2, <4>1, <4>2 DEF Registered
    <3>2. ASSUME NEW g \in Registered PROVE g \in Registered'
      <4>1. PICK i \in 1..Len(handlers) : handlers[i] = g
        BY DEF Registered
      <4>2. i \in 1..Len(handlers')
        BY <2>2, DispatchTypes
      <4> QED
        BY <2>2, <4>1, <4>2 DEF Registered
    <3>3. h \in Registered'
      <4>1. Len(handlers) + 1 \in 1..Len(handlers')
        BY <2>2, DispatchTypes
      <4> QED
        BY <2>2, <4>1 DEF Registered
    <3> QED
      BY <3>1, <3>2, <3>3
  <2>4. Owed(h)' = 0 /\ \A g \in Registered : Owed(g)' = Owed(g)
    BY <2>1 DEF Owed, Dispatched
  <2>5. ASSUME NEW i \in 1..Len(handlers'), NEW j \in 1..Len(handlers'),
               handlers'[i] = handlers'[j]
        PROVE  i = j
    <3>1. \A l \in 1..Len(handlers) : handlers[l] # h
      BY <2>1 DEF Registered
    <3>2. /\ i \in 1..Len(handlers) \/ i = Len(handlers) + 1
          /\ j \in 1..Len(handlers) \/ j = Len(handlers) + 1
      BY <2>2, DispatchTypes
    <3> QED
      BY <2>2, <2>5, <3>1, <3>2 DEF Dispatched
  <2>6. ASSUME NEW g \in Registered \cup {h}
        PROVE  /\ since'[g] + Owed(g)' + Len(calls[g]) = taken
               /\ \A i \in 1..Len(calls[g]) : calls[g][i] = since'[g] + i
    <3>1. CASE g = h
      <4>1. calls[h] = <<>> /\ Len(calls[h]) = 0
        BY <2>1 DEF Dispatched
      <4>2. since'[h] = taken /\ taken \in Nat
        BY <2>1, DispatchTypes
      <4> QED
        BY <2>4, <3>1, <4>1, <4>2
    <3>2. CASE g # h
      <4>1. since'[g] = since[g] /\ g \in Registered
        BY <2>1, <3>2, DispatchTypes
      <4> QED
        BY <2>4, <4>1 DEF Dispatched
    <3> QED
      BY <3>1, <3>2
  <2>7. /\ \A i, j \in 1..Len(pending) : pending[i] = pending[j] => i = j
        /\ \A i \in 1..Len(pending) : pending[i] \in Registered'
        /\ pending # <<>> => taken > 0
        /\ \A g \in Handler \ Registered' : calls[g] = <<>>
    BY <2>3 DEF Dispatched
  <2> QED
    BY <2>1, <2>3, <2>5, <2>6, <2>7 DEF Dispatched
<1>7. ASSUME NEW p \in Publisher, CallPublish(p) PROVE Dispatched'
  BY <1>7, SameDispatched DEF CallPublish, pubVars, regVars, dispatchVars, stopVars
<1>8. ASSUME NEW p \in Publisher, Enqueue(p) PROVE Dispatched'
  BY <1>8, SameDispatched DEF Enqueue, pubVars, regVars, dispatchVars, stopVars
<1>9. ASSUME NEW p \in Publisher, Discard(p) PROVE Dispatched'
  BY <1>9, SameDispatched DEF Discard, pubVars, regVars, dispatchVars, stopVars
<1>10. ASSUME NEW k \in Stopper, CloseStopCh(k) PROVE Dispatched'
  BY <1>10, SameDispatched DEF CloseStopCh, pubVars, regVars, dispatchVars, stopVars
<1>11. ASSUME NEW k \in Stopper, AwaitDispatcher(k) PROVE Dispatched'
  BY <1>11, SameDispatched DEF AwaitDispatcher, pubVars, regVars, dispatchVars, stopVars
<1>12. ASSUME NEW k \in Stopper, CloseHandler(k) PROVE Dispatched'
  BY <1>12, SameDispatched DEF CloseHandler, pubVars, regVars, dispatchVars, stopVars
<1>13. ASSUME NEW k \in Stopper, StopReturn(k) PROVE Dispatched'
  BY <1>13, SameDispatched DEF StopReturn, pubVars, regVars, dispatchVars, stopVars
<1>14. CASE UNCHANGED vars
  BY <1>14, SameDispatched DEF vars
<1> QED
  BY <1>1, <1>2, <1>3, <1>4, <1>5, <1>6, <1>7, <1>8, <1>9, <1>10, <1>11, <1>12,
     <1>13, <1>14 DEF Next, Dispatcher, InPublish, InStop

-----------------------------------------------------------------------------
Inv == TypeOK /\ StopProtocol /\ Dispatched /\ (loop = "exit" => taken >= promised)

LEMMA InitInv == Init => Inv
<1> SUFFICES ASSUME Init PROVE Inv
  OBVIOUS
<1>1. TypeOK
  BY InitType
<1>2. StopProtocol
  BY EmptySeq DEF Init, StopProtocol
<1>3. Len(handlers) = 0 /\ Len(pending) = 0 /\ Registered = {}
  BY DEF Init, Registered
<1>4. Dispatched
  BY <1>3 DEF Init, Dispatched
<1> QED
  BY <1>1, <1>2, <1>4 DEF Init, Inv

\* The drain reaches what was accepted before Stop.
LEMMA NextDrained ==
  TypeOK /\ StopProtocol /\ (loop = "exit" => taken >= promised) /\ [Next]_vars
    => (loop = "exit" => taken >= promised)'
<1> SUFFICES ASSUME TypeOK, StopProtocol, loop = "exit" => taken >= promised,
                    [Next]_vars, loop' = "exit"
             PROVE  taken' >= promised'
  OBVIOUS
<1> USE DEF TypeOK, StopProtocol
<1>1. CASE DrainEnds
  BY <1>1 DEF DrainEnds, Backlog, pubVars, stopVars
<1>2. CASE ~DrainEnds
  <2>1. loop = "exit" /\ taken >= promised /\ stopped
    BY <1>2 DEF Next, Dispatcher, InPublish, InStop, Start, Receive, Deliver, SeeStop,
                Register, CallPublish, Enqueue, Discard, CloseStopCh, AwaitDispatcher,
                CloseHandler, StopReturn, vars, dispatchVars
  <2>2. promised' = promised
    BY <2>1 DEF Next, Dispatcher, InPublish, InStop, Start, Receive, Deliver, SeeStop,
                DrainEnds, Register, CallPublish, Enqueue, Discard, CloseStopCh,
                AwaitDispatcher, CloseHandler, StopReturn, vars, stopVars
  <2>3. taken' = taken
    BY <2>1 DEF Next, Dispatcher, InPublish, InStop, Start, Receive, Deliver, SeeStop,
                DrainEnds, Register, CallPublish, Enqueue, Discard, CloseStopCh,
                AwaitDispatcher, CloseHandler, StopReturn, vars, dispatchVars
  <2> QED
    BY <2>1, <2>2, <2>3
<1> QED
  BY <1>1, <1>2

LEMMA Invariance == Spec => []Inv
<1>1. Inv /\ [Next]_vars => Inv'
  BY NextType, NextStop, NextDispatched, NextDrained DEF Inv
<1> QED
  BY <1>1, InitInv, PTL DEF Spec

-----------------------------------------------------------------------------
\* The variables stay in their types and the stream never outgrows its buffer.
THEOREM TypeCorrect == Spec => []TypeOK
  BY Invariance, PTL DEF Inv

\* Every handler is called for every event since it was registered, in order.
THEOREM DeliveryInOrder == Spec => []DeliveredInOrder
<1>1. Inv => DeliveredInOrder
  <2> SUFFICES ASSUME Inv, NEW h \in Registered
               PROVE  calls[h] = [i \in 1..(taken - since[h] - Owed(h)) |-> since[h] + i]
    BY DEF DeliveredInOrder, Owed
  <2>1. h \in Handler /\ calls[h] \in Seq(Nat) /\ since[h] \in Nat /\ taken \in Nat
    BY DispatchTypes DEF Inv
  <2>2. Owed(h) \in Nat
    BY DEF Owed
  <2>3. Len(calls[h]) = taken - since[h] - Owed(h) /\ Len(calls[h]) \in Nat
    BY <2>1, <2>2 DEF Inv, Dispatched
  <2>4. \A i \in 1..Len(calls[h]) : calls[h][i] = since[h] + i
    BY DEF Inv, Dispatched
  <2>5. calls[h] = [i \in 1..Len(calls[h]) |-> calls[h][i]]
    BY <2>1, LenProperties
  <2> QED
    BY <2>3, <2>4, <2>5
<1> QED
  BY <1>1, Invariance, PTL

\* Whatever was accepted before Stop is dispatched before the goroutine exits.
THEOREM NothingIsLostAtStop == Spec => []NothingLostAtStop
<1>1. Inv => NothingLostAtStop
  BY DEF Inv, StopProtocol, NothingLostAtStop
<1> QED
  BY <1>1, Invariance, PTL

\* A handler is closed only after its last event, with any number of callers of
\* Stop and publishers still at work.
THEOREM ClosedLast == Spec => []ClosedAfterLastEvent
<1>1. Inv => ClosedAfterLastEvent
  BY DEF Inv, StopProtocol, ClosedAfterLastEvent
<1> QED
  BY <1>1, Invariance, PTL

\* No event is discarded while the bus runs.
THEOREM NothingIsDiscarded == Spec => NoDiscardWhileRunning
<1>1. TypeOK /\ [Next]_vars =>
        [\A p \in Publisher : p \in sending \ sending' /\ accepted' = accepted => stopped]_vars
  <2> SUFFICES ASSUME TypeOK, Next, NEW p \in Publisher, p \in sending \ sending',
                      accepted' = accepted
               PROVE  stopped
    OBVIOUS
  <2>1. ASSUME NEW q \in Publisher, Enqueue(q) PROVE FALSE
    <3>1. accepted \in Seq(Publisher) /\ accepted' = Append(accepted, q)
      BY <2>1 DEF Enqueue, TypeOK
    <3>2. Len(accepted') = Len(accepted) + 1 /\ Len(accepted) \in Nat
      BY <3>1
    <3> QED
      BY <3>2
  <2>2. ASSUME NEW q \in Publisher, CallPublish(q) PROVE FALSE
    BY <2>2 DEF CallPublish
  <2>3. ASSUME NEW q \in Publisher, Discard(q) PROVE stopped
    BY <2>3 DEF Discard
  <2>4. CASE Start \/ Dispatcher \/ (\E h \in Handler : Register(h))
    BY <2>4 DEF Start, Dispatcher, Receive, Deliver, SeeStop, DrainEnds, Register, pubVars
  <2>5. ASSUME NEW k \in Stopper, CloseStopCh(k) \/ InStop(k) PROVE FALSE
    BY <2>5 DEF CloseStopCh, InStop, AwaitDispatcher, CloseHandler, StopReturn, pubVars
  <2> QED
    BY <2>1, <2>2, <2>3, <2>4, <2>5 DEF Next, InPublish
<1> QED
  BY <1>1, TypeCorrect, PTL DEF Spec, NoDiscardWhileRunning

-----------------------------------------------------------------------------
(* The terminal behind the bus: what holds of ApprovalConsole.             *)

Phases == {"pending", "running", "waiting", "done", "failed", "skipped", "refused"}
Statuses == {"pending", "running", "done", "failed"}
Events ==
  [type : {"status", "log", "approval"}, step : Step,
   what : {"Running", "Skipped", "Done", "Failed", "ERROR", "COMPLETE", "INFO", ""}]

ConsoleTypeOK ==
  /\ tui \in BOOLEAN /\ capacity \in Nat
  /\ step \in [Step -> Phases]
  /\ cancelled \in BOOLEAN /\ logged \in 0..Logs /\ errored \in BOOLEAN
  /\ buffer \in Seq(Events) /\ sendCh \in Seq(Seq(Events))
  /\ drain \in {"ticking", "stopping", "gone"} /\ closed \in BOOLEAN
  /\ approvalChan \in Seq(Answer) /\ readers \in SUBSET Gate
  /\ reply \in [Gate -> Answer \cup {"none", "other"}]
  /\ waitingApproval \in BOOLEAN /\ quit \in BOOLEAN
  /\ stepStatus \in [Step -> Statuses]
  /\ nodeStatus \in {"none", "running", "done", "failed"}
  /\ shown \in SUBSET Step /\ spent \in Nat /\ lost \in BOOLEAN /\ panicked \in BOOLEAN

\* Only the goroutine that is stopped before the channel is closed sends on it.
SendsBeforeClose == (closed => drain = "gone") /\ ~panicked

\* Once the handler is being closed every step has ended, and after its last flush
\* nothing is left in its buffer.
Quiescent ==
  /\ drain # "ticking" => \A s \in Step : Ended(s)
  /\ drain = "gone" => buffer = <<>>

\* What was published and not yet applied, batch by batch.
Batches == Append(sendCh, buffer)

\* A gate asks once: its event is under way until the gate is shown waiting. Like
\* LastEnds below, said of n batches B, of phases st and of the gates sh shown.
OnceAsked(B, n, st, sh) ==
  /\ \A b \in 1..n : \A i \in 1..Len(B[b]) : B[b][i].type = "approval" =>
       /\ st[B[b][i].step] \notin {"pending", "running"} /\ B[b][i].step \notin sh
       /\ \A c \in 1..n : \A j \in 1..Len(B[c]) :
            B[c][j].type = "approval" /\ B[c][j].step = B[b][i].step => c = b
  /\ \A s \in sh : st[s] \notin {"pending", "running"}

AskedOnce == OnceAsked(Batches, Len(Batches), step, shown)

\* A key may still be pressed for a gate that was shown, and only for that one.
KeysCounted ==
  /\ IsFiniteSet(shown)
  /\ tui => /\ readers = {}
            /\ spent + Len(approvalChan) + (IF waitingApproval THEN 1 ELSE 0) <= Cardinality(shown)

\* The events that end the step s with the outcome o.
Ends(e, s, o) == e.step = s /\ e.type = "status" /\ e.what = IF o = "done" THEN "Done" ELSE "Failed"

\* The event that ends a step is its last.
LastEnds(B, n, st) ==
  \A b \in 1..n : \A i \in 1..Len(B[b]) : \A s \in Step, o \in {"done", "failed"} :
    Ends(B[b][i], s, o) =>
      /\ st[s] = o
      /\ \A c \in 1..n : \A j \in 1..Len(B[c]) :
           c > b \/ (c = b /\ j > i) => B[c][j].step # s

LastEventEnds == LastEnds(Batches, Len(Batches), step)

\* A step shown as ended did end so, and nothing more is to come from it.
ShownEndIsEnd ==
  \A s \in Step : stepStatus[s] \in {"done", "failed"} =>
    /\ step[s] = stepStatus[s]
    /\ \A b \in 1..Len(Batches) : \A i \in 1..Len(Batches[b]) : Batches[b][i].step # s

\* The end of a step is shown, or under way to the screen.
EndsArrive ==
  \A s \in Step, o \in {"done", "failed"} : step[s] = o =>
    \/ stepStatus[s] = o
    \/ \E b \in 1..Len(Batches) : \E i \in 1..Len(Batches[b]) : Ends(Batches[b][i], s, o)

IsError(e) == e.step = Worker /\ e.type = "log" /\ e.what = "ERROR"

\* So is the error of a target.
ErrorsArrive ==
  errored <=> \/ nodeStatus = "failed"
              \/ \E b \in 1..Len(Batches) : \E i \in 1..Len(Batches[b]) : IsError(Batches[b][i])

NothingLost == tui /\ ~lost => EndsArrive /\ ErrorsArrive

ConsoleInv ==
  /\ ConsoleTypeOK /\ SendsBeforeClose /\ Quiescent /\ AskedOnce /\ KeysCounted
  /\ LastEventEnds /\ ShownEndIsEnd /\ NothingLost

-----------------------------------------------------------------------------
(* Recursion over a batch.                                                 *)

\* Every set of numbers has a least one.
LEMMA Least ==
  ASSUME NEW T \in SUBSET Nat, NEW n \in T
  PROVE  \E m \in T : \A k \in T : m <= k
<1> DEFINE Below == {1..k : k \in T}
<1>1. IsWellFoundedOn(StrictSubsetOrdering(Nat), FiniteSubsetsOf(Nat))
  BY FS_StrictSubsetOrderingWellFounded
<1>2. Below \subseteq FiniteSubsetsOf(Nat) /\ Below # {}
  BY FS_Interval DEF FiniteSubsetsOf
<1>3. PICK x \in Below : \A y \in Below : ~ (<<y, x>> \in StrictSubsetOrdering(Nat))
  <2> HIDE DEF Below
  <2> QED
    BY <1>1, <1>2, WFMin
<1>4. PICK m \in T : x = 1..m
  BY <1>3
<1>5. ASSUME NEW k \in T, k < m PROVE FALSE
  <2>1. m \in 1..m /\ m \notin 1..k
    BY <1>5
  <2>2. 1..k \subseteq 1..m /\ 1..k # 1..m /\ 1..m \subseteq Nat
    BY <1>5, <2>1
  <2>3. <<1..k, x>> \in StrictSubsetOrdering(Nat)
    BY <2>2, <1>4 DEF StrictSubsetOrdering
  <2> QED
    BY <2>3, <1>3
<1> QED
  BY <1>5

\* What holds of zero, and with a number of the next, holds up to any bound.
LEMMA UpTo ==
  ASSUME NEW n \in Nat, NEW Good, 0 \in Good,
         \A k \in 0..n : k < n /\ k \in Good => k + 1 \in Good
  PROVE  0..n \subseteq Good
<1> SUFFICES ASSUME NEW l \in 0..n, l \notin Good PROVE FALSE
  OBVIOUS
<1> DEFINE Bad == {k \in 0..n : k \notin Good}
<1>1. PICK m \in Bad : \A k \in Bad : m <= k
  <2>1. Bad \in SUBSET Nat /\ l \in Bad
    OBVIOUS
  <2> HIDE DEF Bad
  <2> QED
    BY <2>1, Least
<1>2. m \in 1..n /\ m - 1 \in 0..n /\ m - 1 < n /\ (m - 1) + 1 = m
  OBVIOUS
<1>3. m - 1 \in Good
  BY <1>1, <1>2
<1> QED
  BY <1>1, <1>2, <1>3

\* A function that is stepped along 1..n from a.
Run(f, a, n, G) == f[0] = a /\ \A i \in 1..n : f[i] = G[<<f[i - 1], i>>]

LEMMA RunExists ==
  ASSUME NEW R, NEW a \in R, NEW n \in Nat, NEW G \in [R \X (1..n) -> R]
  PROVE  \E f \in [0..n -> R] : Run(f, a, n, G)
<1> DEFINE Good == {k \in 0..n : \E f \in [0..k -> R] : Run(f, a, k, G)}
<1>1. 0 \in Good
  <2>1. [i \in 0..0 |-> a] \in [0..0 -> R] /\ Run([i \in 0..0 |-> a], a, 0, G)
    BY DEF Run
  <2> QED
    BY <2>1
<1>2. ASSUME NEW k \in 0..n, k < n, k \in Good PROVE k + 1 \in Good
  <2>1. PICK f \in [0..k -> R] : Run(f, a, k, G)
    BY <1>2
  <2> DEFINE h == [i \in 0..(k + 1) |-> IF i = k + 1 THEN G[<<f[k], k + 1>>] ELSE f[i]]
  <2>2. k \in 0..k /\ k + 1 \in 1..n /\ f[k] \in R
    BY <1>2
  <2>3. G[<<f[k], k + 1>>] \in R
    BY <2>2
  <2>4. h \in [0..(k + 1) -> R]
    BY <2>3
  <2>5. h[0] = a
    BY <2>1 DEF Run
  <2>6. ASSUME NEW i \in 1..(k + 1) PROVE h[i] = G[<<h[i - 1], i>>]
    <3>1. i - 1 \in 0..k /\ i \in 0..(k + 1) /\ i - 1 \in 0..(k + 1) /\ i - 1 # k + 1
      OBVIOUS
    <3>2. h[i - 1] = f[i - 1]
      BY <3>1
    <3>3. CASE i = k + 1
      <4>1. h[i] = G[<<f[k], k + 1>>] /\ i - 1 = k
        BY <3>3, <3>1
      <4> QED
        BY <4>1, <3>2, <3>3
    <3>4. CASE i # k + 1
      <4>1. i \in 1..k /\ h[i] = f[i]
        BY <3>4, <3>1
      <4> QED
        BY <4>1, <3>2, <2>1 DEF Run
    <3> QED
      BY <3>3, <3>4
  <2>7. Run(h, a, k + 1, G)
    <3> HIDE DEF h
    <3> QED
      BY <2>5, <2>6 DEF Run
  <2>8. k + 1 \in 0..n
    BY <1>2
  <2> HIDE DEF h
  <2> QED
    BY <2>4, <2>7, <2>8
<1>3. 0..n \subseteq Good
  <2> HIDE DEF Good
  <2> QED
    BY <1>1, <1>2, UpTo
<1> QED
  BY <1>3

\* A step's event as a function of the status before, and the same for the target.
StepRun(f, batch) ==
  /\ f \in [0..Len(batch) -> [Step -> Statuses]]
  /\ f[0] = stepStatus
  /\ \A i \in 1..Len(batch) :
       f[i] = [f[i - 1] EXCEPT ![batch[i].step] = StepAfter(@, batch[i])]

LEMMA StepsRun ==
  ASSUME stepStatus \in [Step -> Statuses], NEW batch \in Seq(Events)
  PROVE  \E f : StepRun(f, batch) /\ StepsAfter(batch) = f[Len(batch)]
<1> DEFINE n == Len(batch)
           R == [Step -> Statuses]
           G == [x \in R \X (1..n) |->
                   [x[1] EXCEPT ![batch[x[2]].step] = StepAfter(@, batch[x[2]])]]
           Eq(f) == f = [i \in 0..Len(batch) |->
                   IF i = 0 THEN stepStatus
                   ELSE [f[i - 1] EXCEPT ![batch[i].step] = StepAfter(@, batch[i])]]
           F == CHOOSE f : Eq(f)
<1>1. n \in Nat /\ \A i \in 1..n : batch[i] \in Events /\ batch[i].step \in Step
  <2>1. n \in Nat /\ \A i \in 1..n : batch[i] \in Events
    OBVIOUS
  <2>2. \A e \in Events : e.step \in Step
    BY DEF Events
  <2> QED
    BY <2>1, <2>2
<1>2. \A r \in R, i \in 1..n : [r EXCEPT ![batch[i].step] = StepAfter(@, batch[i])] \in R
  <2>1. \A k \in Statuses, i \in 1..n : StepAfter(k, batch[i]) \in Statuses
    BY DEF StepAfter, Statuses
  <2> SUFFICES ASSUME NEW r \in R, NEW i \in 1..n
               PROVE  [r EXCEPT ![batch[i].step] = StepAfter(@, batch[i])] \in R
    OBVIOUS
  <2>2. StepAfter(r[batch[i].step], batch[i]) \in Statuses
    BY <1>1, <2>1
  <2>3. batch[i].step \in Step /\ r \in [Step -> Statuses]
    BY <1>1
  <2> QED
    BY <2>2, <2>3
<1>3. G \in [R \X (1..n) -> R]
  BY <1>2
<1>4. PICK f \in [0..n -> R] : Run(f, stepStatus, n, G)
  <2> HIDE DEF n, G
  <2> QED
    BY <1>1, <1>3, RunExists
<1>5. ASSUME NEW i \in 1..n, NEW r \in R
      PROVE  G[<<r, i>>] = [r EXCEPT ![batch[i].step] = StepAfter(@, batch[i])]
  OBVIOUS
<1>6. \A i \in 1..n : i - 1 \in 0..n /\ f[i - 1] \in R
  <2>1. \A i \in 1..n : i - 1 \in 0..n
    BY <1>1
  <2> HIDE DEF n, R
  <2> QED
    BY <2>1
<1>7. Eq(f)
  <2>1. \A i \in 0..n : f[i] = IF i = 0 THEN stepStatus
                   ELSE [f[i - 1] EXCEPT ![batch[i].step] = StepAfter(@, batch[i])]
    <3> SUFFICES ASSUME NEW i \in 0..n, i # 0
                 PROVE  f[i] = [f[i - 1] EXCEPT ![batch[i].step] = StepAfter(@, batch[i])]
      BY <1>4 DEF Run
    <3>1. i \in 1..n
      BY <1>1
    <3>2. f[i] = G[<<f[i - 1], i>>]
      <4> HIDE DEF G
      <4> QED
        BY <3>1, <1>4 DEF Run
    <3> HIDE DEF G
    <3> QED
      BY <3>1, <3>2, <1>5, <1>6
  <2> QED
    BY <2>1
<1>8. Eq(F)
  <2> HIDE DEF Eq
  <2> QED
    BY <1>7
<1>9. F[0] = stepStatus
  <2> HIDE DEF F
  <2> QED
    BY <1>8, <1>1
<1>10. \A i \in 1..n : F[i] = [F[i - 1] EXCEPT ![batch[i].step] = StepAfter(@, batch[i])]
  <2> SUFFICES ASSUME NEW i \in 1..n
               PROVE  F[i] = [F[i - 1] EXCEPT ![batch[i].step] = StepAfter(@, batch[i])]
    OBVIOUS
  <2> HIDE DEF F
  <2>1. i \in 0..n /\ i # 0
    BY <1>1
  <2> QED
    BY <1>8, <2>1
<1>11. 0..n \subseteq {k \in 0..n : F[k] \in R}
  <2> DEFINE Good == {k \in 0..n : F[k] \in R}
  <2> HIDE DEF F
  <2>1. 0 \in Good
    BY <1>9, <1>1
  <2>2. ASSUME NEW k \in 0..n, k < n, k \in Good PROVE k + 1 \in Good
    <3>1. k + 1 \in 1..n /\ (k + 1) - 1 = k /\ F[k] \in R /\ k + 1 \in 0..n
      BY <2>2, <1>1
    <3>2. F[k + 1] = [F[k] EXCEPT ![batch[k + 1].step] = StepAfter(@, batch[k + 1])]
      BY <3>1, <1>10
    <3>3. PICK r \in R : r = F[k]
      <4> HIDE DEF R
      <4> QED
        BY <3>1
    <3>4. [r EXCEPT ![batch[k + 1].step] = StepAfter(@, batch[k + 1])] \in R
      <4> HIDE DEF R, n
      <4> QED
        BY <3>1, <1>2
    <3>5. F[k + 1] \in R
      <4> HIDE DEF R
      <4> QED
        BY <3>2, <3>3, <3>4
    <3> QED
      BY <3>1, <3>5
  <2>3. n \in Nat
    BY <1>1
  <2>4. 0..n \subseteq Good
    <3> HIDE DEF Good, n
    <3> QED
      BY <2>1, <2>2, <2>3, UpTo
  <2> QED
    BY <2>4
<1>12. StepsAfter(batch) = F[n]
  BY DEF StepsAfter
<1>13. F \in [0..n -> R]
  <2>1. F = [i \in 0..n |-> F[i]]
    <3> HIDE DEF F
    <3> QED
      BY <1>8
  <2> HIDE DEF F
  <2> QED
    BY <2>1, <1>11
<1> HIDE DEF F
<1> QED
  BY <1>9, <1>10, <1>12, <1>13 DEF StepRun

LEMMA StepsFacts ==
  ASSUME stepStatus \in [Step -> Statuses], NEW batch \in Seq(Events)
  PROVE  /\ StepsAfter(batch) \in [Step -> Statuses]
         /\ \A s \in Step :
              /\ (\A i \in 1..Len(batch) : batch[i].step # s) => StepsAfter(batch)[s] = stepStatus[s]
              /\ \A i \in 1..Len(batch), o \in {"done", "failed"} :
                   Ends(batch[i], s, o) /\ (\A j \in (i + 1)..Len(batch) : batch[j].step # s)
                     => StepsAfter(batch)[s] = o
              /\ \A o \in {"done", "failed"} :
                   StepsAfter(batch)[s] = o
                     => stepStatus[s] = o \/ \E i \in 1..Len(batch) : Ends(batch[i], s, o)
<1> DEFINE n == Len(batch)
<1>1. PICK f : StepRun(f, batch) /\ StepsAfter(batch) = f[n]
  BY StepsRun
<1>2. n \in Nat /\ f \in [0..n -> [Step -> Statuses]] /\ f[0] = stepStatus
  BY <1>1 DEF StepRun
<1>3. \A i \in 1..n : batch[i] \in Events /\ batch[i].step \in Step /\ i \in 0..n /\ i - 1 \in 0..n
  <2>1. \A e \in Events : e.step \in Step
    BY DEF Events
  <2>2. \A i \in 1..n : batch[i] \in Events /\ i \in 0..n /\ i - 1 \in 0..n
    BY <1>2
  <2> QED
    BY <2>1, <2>2
<1>4. ASSUME NEW s \in Step, NEW i \in 1..n
      PROVE  f[i][s] = IF batch[i].step = s THEN StepAfter(f[i - 1][s], batch[i]) ELSE f[i - 1][s]
  <2>1. f[i] = [f[i - 1] EXCEPT ![batch[i].step] = StepAfter(@, batch[i])]
    BY <1>1 DEF StepRun
  <2>2. f[i - 1] \in [Step -> Statuses]
    BY <1>2, <1>3
  <2> HIDE DEF n
  <2> QED
    BY <2>1, <2>2, <1>3
<1>5. ASSUME NEW s \in Step, NEW i \in 0..n, \A j \in (i + 1)..n : batch[j].step # s
      PROVE  f[n][s] = f[i][s]
  <2> DEFINE Good == {k \in 0..n : k >= i => f[k][s] = f[i][s]}
  <2>1. 0 \in Good
    <3>1. 0 >= i => i = 0
      BY <1>2
    <3> QED
      BY <3>1, <1>2
  <2>2. ASSUME NEW k \in 0..n, k < n, k \in Good PROVE k + 1 \in Good
    <3>1. k + 1 \in 1..n /\ (k + 1) - 1 = k /\ k + 1 \in 0..n
      BY <2>2, <1>2
    <3>2. CASE k >= i
      <4>1. k + 1 \in (i + 1)..n
        BY <3>1, <3>2, <1>2
      <4>2. f[k + 1][s] = f[k][s]
        BY <4>1, <3>1, <1>4, <1>5
      <4> QED
        BY <4>2, <2>2, <3>1, <3>2
    <3>3. CASE ~ (k >= i)
      <4>1. k + 1 >= i => k + 1 = i
        BY <3>3, <1>2
      <4> QED
        BY <4>1, <3>1
    <3> QED
      BY <3>2, <3>3
  <2>3. 0..n \subseteq Good
    <3> HIDE DEF Good, n
    <3> QED
      BY <2>1, <2>2, <1>2, UpTo
  <2>4. n \in Good /\ n >= i
    BY <2>3, <1>2
  <2> QED
    BY <2>4
<1>6. ASSUME NEW s \in Step, NEW o \in {"done", "failed"}
      PROVE  f[n][s] = o => stepStatus[s] = o \/ \E i \in 1..n : Ends(batch[i], s, o)
  <2> DEFINE Good == {k \in 0..n : f[k][s] = o => stepStatus[s] = o \/ \E i \in 1..n : Ends(batch[i], s, o)}
  <2>1. 0 \in Good
    BY <1>2
  <2>2. ASSUME NEW k \in 0..n, k < n, k \in Good PROVE k + 1 \in Good
    <3>1. k + 1 \in 1..n /\ (k + 1) - 1 = k /\ k + 1 \in 0..n
      BY <2>2, <1>2
    <3>2. ASSUME f[k + 1][s] = o, f[k][s] # o PROVE Ends(batch[k + 1], s, o)
      <4>1. batch[k + 1].step = s /\ o = StepAfter(f[k][s], batch[k + 1])
        BY <3>1, <3>2, <1>4
      <4> QED
        BY <4>1, <3>2 DEF StepAfter, Ends
    <3> QED
      BY <3>1, <3>2, <2>2
  <2>3. 0..n \subseteq Good
    <3> HIDE DEF Good, n
    <3> QED
      BY <2>1, <2>2, <1>2, UpTo
  <2> QED
    BY <2>3, <1>2
<1>7. ASSUME NEW s \in Step, NEW i \in 1..n, NEW o \in {"done", "failed"}, Ends(batch[i], s, o),
             \A j \in (i + 1)..n : batch[j].step # s
      PROVE  f[n][s] = o
  <2>1. f[n][s] = f[i][s]
    BY <1>5, <1>3, <1>7
  <2>2. f[i][s] = StepAfter(f[i - 1][s], batch[i])
    BY <1>4, <1>7 DEF Ends
  <2> QED
    BY <2>1, <2>2, <1>7 DEF StepAfter, Ends
<1>8. ASSUME NEW s \in Step, \A i \in 1..n : batch[i].step # s PROVE f[n][s] = stepStatus[s]
  <2>1. 0 \in 0..n /\ \A j \in (0 + 1)..n : batch[j].step # s
    BY <1>2, <1>8
  <2> HIDE DEF n
  <2> QED
    BY <2>1, <1>5, <1>2
<1>9. f[n] \in [Step -> Statuses]
  BY <1>2
<1> QED
  BY <1>1, <1>6, <1>7, <1>8, <1>9

\* The target of the worker.
NodeStatuses == {"none", "running", "done", "failed"}

LEMMA NodesFacts ==
  ASSUME nodeStatus \in NodeStatuses, NEW batch \in Seq(Events)
  PROVE  /\ NodesAfter(batch) \in NodeStatuses
         /\ NodesAfter(batch) = "failed"
              <=> nodeStatus = "failed" \/ \E i \in 1..Len(batch) : IsError(batch[i])
<1> DEFINE n == Len(batch)
           Eq(f) == f = [i \in 0..Len(batch) |-> IF i = 0 THEN nodeStatus ELSE NodeAfter(f[i-1], batch[i])]
           F == CHOOSE f : Eq(f)
           G == [x \in NodeStatuses \X (1..n) |-> NodeAfter(x[1], batch[x[2]])]
<1>1. n \in Nat /\ \A i \in 1..n : batch[i] \in Events /\ i - 1 \in 0..n
  OBVIOUS
<1>2. \A r \in NodeStatuses, i \in 1..n : NodeAfter(r, batch[i]) \in NodeStatuses
  BY DEF NodeAfter, NodeStatuses
<1>3. G \in [NodeStatuses \X (1..n) -> NodeStatuses]
  BY <1>2
<1>4. PICK f \in [0..n -> NodeStatuses] : Run(f, nodeStatus, n, G)
  <2> HIDE DEF n, G
  <2> QED
    BY <1>1, <1>3, RunExists
<1>5. Eq(f)
  <2>1. \A i \in 0..n : f[i] = IF i = 0 THEN nodeStatus ELSE NodeAfter(f[i-1], batch[i])
    <3> SUFFICES ASSUME NEW i \in 0..n, i # 0 PROVE f[i] = NodeAfter(f[i-1], batch[i])
      BY <1>4 DEF Run
    <3>1. i \in 1..n /\ f[i - 1] \in NodeStatuses
      BY <1>1
    <3> QED
      BY <3>1, <1>4 DEF Run
  <2> QED
    BY <2>1
<1>6. Eq(F)
  <2> HIDE DEF Eq
  <2> QED
    BY <1>5
<1>7. F[0] = nodeStatus /\ \A i \in 1..n : F[i] = NodeAfter(F[i - 1], batch[i])
  <2> HIDE DEF F
  <2>1. \A i \in 1..n : i \in 0..n /\ i # 0
    BY <1>1
  <2> QED
    BY <1>6, <2>1, <1>1
<1>8. NodesAfter(batch) = F[n]
  BY DEF NodesAfter
<1> DEFINE Good == {k \in 0..n : /\ F[k] \in NodeStatuses
                                 /\ F[k] = "failed" <=>
                                      nodeStatus = "failed" \/ \E i \in 1..k : IsError(batch[i])}
<1> HIDE DEF F
<1>9. 0 \in Good
  BY <1>7, <1>1
<1>10. ASSUME NEW k \in 0..n, k < n, k \in Good PROVE k + 1 \in Good
  <2>1. k + 1 \in 1..n /\ (k + 1) - 1 = k /\ k + 1 \in 0..n /\ 1..(k + 1) = (1..k) \cup {k + 1}
    BY <1>10, <1>1
  <2>2. F[k + 1] = NodeAfter(F[k], batch[k + 1])
    BY <2>1, <1>7
  <2>3. F[k + 1] \in NodeStatuses
    BY <2>1, <2>2, <1>2, <1>10
  <2>4. F[k + 1] = "failed" <=> F[k] = "failed" \/ IsError(batch[k + 1])
    <3>1. F[k] \in NodeStatuses
      BY <1>10
    <3> QED
      BY <2>2, <3>1 DEF NodeAfter, IsError, NodeStatuses
  <2> QED
    BY <2>1, <2>3, <2>4, <1>10
<1>11. 0..n \subseteq Good
  <2> HIDE DEF Good, n
  <2> QED
    BY <1>9, <1>10, <1>1, UpTo
<1> QED
  BY <1>8, <1>11, <1>1

-----------------------------------------------------------------------------
(* What is under way from the steps to the screen.                         *)

LEMMA BatchesFacts ==
  ASSUME buffer \in Seq(Events), sendCh \in Seq(Seq(Events))
  PROVE  /\ Len(Batches) = Len(sendCh) + 1 /\ Len(sendCh) \in Nat
         /\ Batches[Len(sendCh) + 1] = buffer
         /\ \A b \in 1..Len(sendCh) : Batches[b] = sendCh[b]
         /\ \A b \in 1..Len(Batches) :
              Len(Batches[b]) \in Nat /\ \A i \in 1..Len(Batches[b]) : Batches[b][i] \in Events
<1>1. buffer \in Seq(Events) /\ sendCh \in Seq(Seq(Events)) /\ Batches = Append(sendCh, buffer)
  BY DEF Batches
<1>2. Batches \in Seq(Seq(Events))
  BY <1>1
<1>3. Len(Batches) = Len(sendCh) + 1 /\ Len(sendCh) \in Nat
  BY <1>1
<1>4. Batches[Len(sendCh) + 1] = buffer /\ \A b \in 1..Len(sendCh) : Batches[b] = sendCh[b]
  BY <1>1
<1>5. ASSUME NEW b \in 1..Len(Batches)
      PROVE  Len(Batches[b]) \in Nat /\ \A i \in 1..Len(Batches[b]) : Batches[b][i] \in Events
  <2>1. Batches[b] \in Seq(Events)
    BY <1>2
  <2> QED
    BY <2>1
<1> QED
  BY <1>3, <1>4, <1>5

LEMMA BatchesFactsNext ==
  ASSUME buffer' \in Seq(Events), sendCh' \in Seq(Seq(Events))
  PROVE  /\ Len(Batches') = Len(sendCh') + 1 /\ Len(sendCh') \in Nat
         /\ Batches'[Len(sendCh') + 1] = buffer'
         /\ \A b \in 1..Len(sendCh') : Batches'[b] = sendCh'[b]
<1>1. Batches' = Append(sendCh', buffer')
  BY DEF Batches
<1> QED
  BY <1>1

\* The step s goes from work under way to the state new, and publishes e of it,
\* or a thing that ends nothing and needs no event.
Publishes(s, new, e) ==
  /\ step[s] \in {"pending", "running", "waiting"}
  /\ step' = [step EXCEPT ![s] = new]
  /\ new \in {"pending", "running"} => step[s] \in {"pending", "running"}
  /\ \/ HandleEvent(e)
     \/ UNCHANGED <<buffer, lost>> /\ new \notin {"done", "failed"} /\ ~ IsError(e)
  /\ \A o \in {"done", "failed"} : Ends(e, s, o) <=> new = o
  /\ e.type = "approval" => step[s] = "running" /\ new = "waiting"
  /\ errored' <=> errored \/ IsError(e)
  /\ UNCHANGED <<tui, sendCh, stepStatus, nodeStatus, shown>>

LEMMA Published ==
  ASSUME ConsoleInv, NEW s \in Step, NEW new \in Phases, NEW e \in Events, e.step = s,
         Publishes(s, new, e)
  PROVE  AskedOnce' /\ LastEventEnds' /\ ShownEndIsEnd' /\ NothingLost'
<1>1. buffer \in Seq(Events) /\ sendCh \in Seq(Seq(Events)) /\ lost \in BOOLEAN /\ tui \in BOOLEAN
  BY DEF ConsoleInv, ConsoleTypeOK
<1>2. PICK B : B = Batches
  OBVIOUS
<1>3. PICK C : C = Batches'
  OBVIOUS
<1>4. PICK n \in Nat : n = Len(B) /\ n = Len(sendCh) + 1 /\ n - 1 = Len(sendCh)
  BY <1>1, <1>2, BatchesFacts
<1>5. n >= 1 /\ B[n] = buffer /\ (\A b \in 1..n : Len(B[b]) \in Nat) /\ \A b \in 1..(n - 1) : B[b] = sendCh[b]
  <2>1. Len(sendCh) \in Nat
    BY <1>1, BatchesFacts
  <2>2. n >= 1
    BY <2>1, <1>4
  <2>3. B[Len(sendCh) + 1] = buffer /\ \A b \in 1..Len(sendCh) : B[b] = sendCh[b]
    BY <1>1, <1>2, BatchesFacts
  <2>4. \A b \in 1..Len(B) : Len(B[b]) \in Nat
    BY <1>1, <1>2, BatchesFacts
  <2> QED
    BY <2>2, <2>3, <2>4, <1>4
<1>inv. OnceAsked(B, n, step, shown) /\ LastEnds(B, n, step) /\ ShownEndIsEnd
  BY <1>2, <1>4 DEF ConsoleInv, AskedOnce, LastEventEnds
<1>6. sendCh' = sendCh /\ buffer' \in {buffer, Append(buffer, e)}
  BY DEF Publishes, HandleEvent
<1>7. Len(C) = n /\ C[n] = buffer' /\ \A b \in 1..(n - 1) : C[b] = B[b]
  <2>1. buffer' \in Seq(Events)
    BY <1>1, <1>6
  <2>2. sendCh' \in Seq(Seq(Events))
    BY <1>1, <1>6
  <2> QED
    BY <2>1, <2>2, <1>3, <1>4, <1>5, <1>6, BatchesFactsNext
<1>8. PICK l \in Nat : l = Len(buffer) /\ l = Len(B[n])
  BY <1>1, <1>5
<1>9. buffer' # buffer => /\ Len(C[n]) = l + 1 /\ C[n][l + 1] = e
                          /\ \A i \in 1..l : C[n][i] = B[n][i]
  <2> SUFFICES ASSUME buffer' # buffer
               PROVE  /\ Len(C[n]) = l + 1 /\ C[n][l + 1] = e
                      /\ \A i \in 1..l : C[n][i] = B[n][i]
    OBVIOUS
  <2>1. PICK q \in Seq(Events) : q = buffer
    BY <1>1
  <2>2. C[n] = Append(q, e) /\ B[n] = q /\ l = Len(q)
    BY <2>1, <1>5, <1>6, <1>7, <1>8
  <2>3. /\ Len(Append(q, e)) = Len(q) + 1 /\ Append(q, e)[Len(q) + 1] = e
        /\ \A i \in 1..Len(q) : Append(q, e)[i] = q[i]
    OBVIOUS
  <2> QED
    BY <2>2, <2>3
<1>10. buffer' = buffer => C[n] = B[n]
  BY <1>7, <1>5
<1>11. ASSUME NEW b \in 1..n, NEW i \in 1..Len(C[b])
       PROVE  \/ i \in 1..Len(B[b]) /\ C[b][i] = B[b][i]
              \/ b = n /\ i = l + 1 /\ C[b][i] = e /\ buffer' # buffer
  <2>1. CASE b # n
    BY <2>1, <1>4, <1>5, <1>7
  <2>2. CASE b = n /\ buffer' = buffer
    BY <2>2, <1>10
  <2>3. CASE b = n /\ buffer' # buffer
    <3>1. i \in 1..(l + 1)
      BY <2>3, <1>9
    <3> QED
      BY <3>1, <2>3, <1>9, <1>8
  <2> QED
    BY <2>1, <2>2, <2>3
<1>12. ASSUME NEW b \in 1..n, NEW i \in 1..Len(B[b])
       PROVE  i \in 1..Len(C[b]) /\ C[b][i] = B[b][i]
  <2>1. CASE b # n
    BY <2>1, <1>4, <1>5, <1>7
  <2>2. CASE b = n /\ buffer' = buffer
    BY <2>2, <1>10
  <2>3. CASE b = n /\ buffer' # buffer
    BY <2>3, <1>9, <1>8
  <2> QED
    BY <2>1, <2>2, <2>3
<1>13. step[s] \in {"pending", "running", "waiting"} /\ step'[s] = new
       /\ \A t \in Step : t # s => step'[t] = step[t]
  BY DEF Publishes, ConsoleInv, ConsoleTypeOK
<1>14. shown' = shown /\ stepStatus' = stepStatus /\ nodeStatus' = nodeStatus /\ tui' = tui
       /\ shown \in SUBSET Step
  BY DEF Publishes, ConsoleInv, ConsoleTypeOK
<1>15. \A b \in 1..n : \A i \in 1..Len(B[b]) : B[b][i].step \in Step
  <2>1. \A x \in Events : x.step \in Step
    BY DEF Events
  <2> QED
    BY <2>1, <1>1, <1>2, <1>4, BatchesFacts
<1>16. new \in {"pending", "running"} => step[s] \in {"pending", "running"}
  BY DEF Publishes
<1>20. AskedOnce'
  <2>1. ASSUME NEW b \in 1..n, NEW i \in 1..Len(B[b]), B[b][i].type = "approval"
        PROVE  /\ step[B[b][i].step] \notin {"pending", "running"} /\ B[b][i].step \notin shown
               /\ \A c \in 1..n : \A j \in 1..Len(B[c]) :
                    B[c][j].type = "approval" /\ B[c][j].step = B[b][i].step => c = b
    BY <1>inv, <2>1 DEF OnceAsked
  <2>2. \A t \in shown : step[t] \notin {"pending", "running"}
    BY <1>inv DEF OnceAsked
  <2>3. \A t \in Step : step[t] \notin {"pending", "running"} => step'[t] \notin {"pending", "running"}
    BY <1>13, <1>16
  <2>4. e.type = "approval" => step[s] = "running" /\ step'[s] = "waiting"
    BY <1>13 DEF Publishes
  <2>5. ASSUME NEW b \in 1..n, NEW i \in 1..Len(C[b]), C[b][i].type = "approval"
        PROVE  /\ step'[C[b][i].step] \notin {"pending", "running"} /\ C[b][i].step \notin shown
               /\ \A c \in 1..n : \A j \in 1..Len(C[c]) :
                    C[c][j].type = "approval" /\ C[c][j].step = C[b][i].step => c = b
    <3>1. CASE i \in 1..Len(B[b]) /\ C[b][i] = B[b][i]
      <4>1. /\ step[B[b][i].step] \notin {"pending", "running"} /\ B[b][i].step \notin shown
            /\ \A c \in 1..n : \A j \in 1..Len(B[c]) :
                    B[c][j].type = "approval" /\ B[c][j].step = B[b][i].step => c = b
        BY <3>1, <2>1, <2>5
      <4>2. ASSUME NEW c \in 1..n, NEW j \in 1..Len(C[c]),
                   C[c][j].type = "approval", C[c][j].step = C[b][i].step
            PROVE  c = b
        <5>1. CASE j \in 1..Len(B[c]) /\ C[c][j] = B[c][j]
          BY <5>1, <4>1, <4>2, <3>1
        <5>2. CASE C[c][j] = e
          BY <5>2, <4>1, <4>2, <3>1, <2>4
        <5> QED
          BY <5>1, <5>2, <1>11
      <4> QED
        BY <4>1, <4>2, <3>1, <2>3, <1>15
    <3>2. CASE b = n /\ C[b][i] = e
      <4>1. step[s] = "running" /\ step'[s] = "waiting" /\ s \notin shown
        BY <3>2, <2>4, <2>5, <2>2
      <4>2. ASSUME NEW c \in 1..n, NEW j \in 1..Len(C[c]),
                   C[c][j].type = "approval", C[c][j].step = C[b][i].step
            PROVE  c = b
        <5>1. CASE j \in 1..Len(B[c]) /\ C[c][j] = B[c][j]
          BY <5>1, <4>1, <4>2, <3>2, <2>1
        <5>2. CASE c = n
          BY <5>2, <3>2
        <5> QED
          BY <5>1, <5>2, <1>11
      <4> QED
        BY <4>1, <4>2, <3>2
    <3> QED
      BY <3>1, <3>2, <1>11
  <2>6. OnceAsked(C, n, step', shown')
    BY <2>5, <2>2, <2>3, <1>14 DEF OnceAsked
  <2> QED
    BY <2>6, <1>3, <1>7 DEF AskedOnce
<1>21. LastEventEnds'
  <2>1. ASSUME NEW b \in 1..n, NEW i \in 1..Len(B[b]), NEW t \in Step, NEW o \in {"done", "failed"},
               Ends(B[b][i], t, o)
        PROVE  /\ step[t] = o
               /\ \A c \in 1..n : \A j \in 1..Len(B[c]) :
                    c > b \/ (c = b /\ j > i) => B[c][j].step # t
    BY <1>inv, <2>1 DEF LastEnds
  <2>2. ASSUME NEW b \in 1..n, NEW i \in 1..Len(C[b]), NEW t \in Step, NEW o \in {"done", "failed"},
               Ends(C[b][i], t, o)
        PROVE  /\ step'[t] = o
               /\ \A c \in 1..n : \A j \in 1..Len(C[c]) :
                    c > b \/ (c = b /\ j > i) => C[c][j].step # t
    <3>1. CASE i \in 1..Len(B[b]) /\ C[b][i] = B[b][i]
      <4>1. /\ step[t] = o
            /\ \A c \in 1..n : \A j \in 1..Len(B[c]) :
                 c > b \/ (c = b /\ j > i) => B[c][j].step # t
        BY <3>1, <2>1, <2>2
      <4>2. t # s /\ step'[t] = o
        BY <4>1, <1>13
      <4> QED
        BY <4>1, <4>2, <1>11
    <3>2. CASE b = n /\ i = l + 1 /\ C[b][i] = e /\ buffer' # buffer
      <4>1. t = s /\ new = o
        BY <3>2, <2>2 DEF Ends, Publishes
      <4>2. \A c \in 1..n : \A j \in 1..Len(C[c]) : ~ (c > b \/ (c = b /\ j > i))
        BY <3>2, <1>9
      <4> QED
        BY <4>1, <4>2, <1>13
    <3> QED
      BY <3>1, <3>2, <1>11
  <2>3. \A b \in 1..Len(C) : \A i \in 1..Len(C[b]) : \A t \in Step, o \in {"done", "failed"} :
          Ends(C[b][i], t, o) =>
            /\ step'[t] = o
            /\ \A c \in 1..Len(C) : \A j \in 1..Len(C[c]) :
                 c > b \/ (c = b /\ j > i) => C[c][j].step # t
    BY <2>2, <1>7
  <2>4. LastEnds(C, Len(C), step')
    BY <2>3 DEF LastEnds
  <2> QED
    BY <2>4, <1>3 DEF LastEventEnds
<1>22. ShownEndIsEnd'
  <2>1. ASSUME NEW t \in Step, stepStatus[t] \in {"done", "failed"}
        PROVE  /\ step[t] = stepStatus[t]
               /\ \A b \in 1..n : \A i \in 1..Len(B[b]) : B[b][i].step # t
    BY <1>inv, <2>1, <1>2, <1>4 DEF ShownEndIsEnd
  <2>2. ASSUME NEW t \in Step, stepStatus[t] \in {"done", "failed"}
        PROVE  /\ step'[t] = stepStatus[t]
               /\ \A b \in 1..n : \A i \in 1..Len(C[b]) : C[b][i].step # t
    <3>1. t # s
      BY <2>1, <2>2, <1>13
    <3> QED
      BY <3>1, <2>1, <2>2, <1>11, <1>13
  <2> QED
    BY <2>2, <1>3, <1>7, <1>14 DEF ShownEndIsEnd
<1>23. NothingLost'
  <2> SUFFICES ASSUME tui', ~ lost' PROVE EndsArrive' /\ ErrorsArrive'
    BY DEF NothingLost
  <2>1. tui /\ ~ lost
    BY <1>1 DEF Publishes, HandleEvent
  <2>2. EndsArrive /\ ErrorsArrive
    BY <2>1 DEF ConsoleInv, NothingLost
  <2>3. buffer' = Append(buffer, e) \/ (new \notin {"done", "failed"} /\ ~ IsError(e) /\ buffer' = buffer)
    BY <2>1 DEF Publishes, HandleEvent
  <2>4. buffer' = Append(buffer, e) => /\ l + 1 \in 1..Len(C[n]) /\ C[n][l + 1] = e
                                       /\ buffer' # buffer
    BY <1>1, <1>7, <1>8, <1>9
  <2>5. EndsArrive'
    <3>1. ASSUME NEW t \in Step, NEW o \in {"done", "failed"}, step[t] = o
          PROVE  \/ stepStatus[t] = o
                 \/ \E b \in 1..n : \E i \in 1..Len(B[b]) : Ends(B[b][i], t, o)
      BY <3>1, <2>2, <1>2, <1>4 DEF EndsArrive
    <3>2. ASSUME NEW t \in Step, NEW o \in {"done", "failed"}, step'[t] = o
          PROVE  \/ stepStatus[t] = o
                 \/ \E b \in 1..n : \E i \in 1..Len(C[b]) : Ends(C[b][i], t, o)
      <4>1. CASE t # s
        <5>1. step[t] = o
          BY <4>1, <3>2, <1>13
        <5> QED
          BY <5>1, <3>1, <1>12
      <4>2. CASE t = s
        <5>1. new = o /\ Ends(e, s, o)
          BY <4>2, <3>2, <1>13 DEF Publishes
        <5>2. n \in 1..n /\ l + 1 \in 1..Len(C[n]) /\ C[n][l + 1] = e
          BY <5>1, <2>3, <2>4, <1>5
        <5> QED
          BY <5>1, <5>2, <4>2
      <4> QED
        BY <4>1, <4>2
    <3> QED
      BY <3>2, <1>3, <1>7, <1>14 DEF EndsArrive
  <2>6. ErrorsArrive'
    <3>1. errored <=> \/ nodeStatus = "failed"
                      \/ \E b \in 1..n : \E i \in 1..Len(B[b]) : IsError(B[b][i])
      BY <2>2, <1>2, <1>4 DEF ErrorsArrive
    <3>2. errored' <=> errored \/ IsError(e)
      BY DEF Publishes
    <3>3. (\E b \in 1..n : \E i \in 1..Len(C[b]) : IsError(C[b][i]))
            <=> \/ \E b \in 1..n : \E i \in 1..Len(B[b]) : IsError(B[b][i])
                \/ IsError(e)
      <4>1. IsError(e) => \E b \in 1..n : \E i \in 1..Len(C[b]) : IsError(C[b][i])
        <5> SUFFICES ASSUME IsError(e) PROVE \E b \in 1..n : \E i \in 1..Len(C[b]) : IsError(C[b][i])
          OBVIOUS
        <5>1. n \in 1..n /\ l + 1 \in 1..Len(C[n]) /\ C[n][l + 1] = e
          BY <2>3, <2>4, <1>5
        <5> QED
          BY <5>1
      <4>2. (\E b \in 1..n : \E i \in 1..Len(B[b]) : IsError(B[b][i]))
              => \E b \in 1..n : \E i \in 1..Len(C[b]) : IsError(C[b][i])
        BY <1>12
      <4>3. ASSUME NEW b \in 1..n, NEW i \in 1..Len(C[b]), IsError(C[b][i])
            PROVE  IsError(e) \/ \E c \in 1..n : \E j \in 1..Len(B[c]) : IsError(B[c][j])
        BY <4>3, <1>11
      <4> QED
        BY <4>1, <4>2, <4>3
    <3> QED
      BY <3>1, <3>2, <3>3, <1>3, <1>7, <1>14 DEF ErrorsArrive
  <2> QED
    BY <2>5, <2>6
<1> QED
  BY <1>20, <1>21, <1>22, <1>23

LEMMA Kept ==
  ASSUME ConsoleInv,
         UNCHANGED <<buffer, sendCh, step, shown, stepStatus, nodeStatus, tui, errored, lost>>
  PROVE  AskedOnce' /\ LastEventEnds' /\ ShownEndIsEnd' /\ NothingLost'
<1>1. Batches' = Batches
  BY DEF Batches
<1>2. AskedOnce' /\ LastEventEnds' /\ ShownEndIsEnd'
  BY <1>1 DEF ConsoleInv, AskedOnce, LastEventEnds, ShownEndIsEnd
<1>3. EndsArrive => EndsArrive'
  BY <1>1 DEF EndsArrive
<1>4. ErrorsArrive => ErrorsArrive'
  BY <1>1 DEF ErrorsArrive
<1> QED
  BY <1>2, <1>3, <1>4 DEF ConsoleInv, NothingLost

LEMMA Flushed ==
  ASSUME ConsoleInv, Flush,
         UNCHANGED <<tui, step, errored, shown, stepStatus, nodeStatus>>
  PROVE  AskedOnce' /\ LastEventEnds' /\ ShownEndIsEnd' /\ NothingLost'
<1>1. buffer \in Seq(Events) /\ sendCh \in Seq(Seq(Events)) /\ lost \in BOOLEAN /\ tui \in BOOLEAN
  BY DEF ConsoleInv, ConsoleTypeOK
<1>2. PICK B : B = Batches
  OBVIOUS
<1>3. PICK C : C = Batches'
  OBVIOUS
<1>4. PICK n \in Nat : n = Len(B) /\ n = Len(sendCh) + 1 /\ n - 1 = Len(sendCh)
  BY <1>1, <1>2, BatchesFacts
<1>5. n >= 1 /\ B[n] = buffer /\ (\A b \in 1..n : Len(B[b]) \in Nat) /\ \A b \in 1..(n - 1) : B[b] = sendCh[b]
  <2>1. Len(sendCh) \in Nat
    BY <1>1, BatchesFacts
  <2>2. n >= 1
    BY <2>1, <1>4
  <2>3. B[Len(sendCh) + 1] = buffer /\ \A b \in 1..Len(sendCh) : B[b] = sendCh[b]
    BY <1>1, <1>2, BatchesFacts
  <2>4. \A b \in 1..Len(B) : Len(B[b]) \in Nat
    BY <1>1, <1>2, BatchesFacts
  <2> QED
    BY <2>2, <2>3, <2>4, <1>4
<1>inv. OnceAsked(B, n, step, shown) /\ LastEnds(B, n, step) /\ ShownEndIsEnd
  BY <1>2, <1>4 DEF ConsoleInv, AskedOnce, LastEventEnds
<1>6. /\ buffer' = <<>>
      /\ \/ buffer = <<>> /\ sendCh' = sendCh
         \/ sendCh' = Append(sendCh, buffer)
         \/ sendCh' = sendCh /\ lost'
      /\ ~ lost' => ~ lost
  BY <1>1 DEF Flush
<1>7. buffer' \in Seq(Events) /\ sendCh' \in Seq(Seq(Events))
  <2>1. <<>> \in Seq(Events) /\ Append(sendCh, buffer) \in Seq(Seq(Events))
    BY <1>1
  <2> QED
    BY <2>1, <1>1, <1>6
<1>8. PICK m \in Nat : m = Len(C) /\ m = Len(sendCh') + 1 /\ m >= 1
  BY <1>7, <1>3, BatchesFactsNext
<1>9. Len(C[m]) = 0 /\ \A b \in 1..(m - 1) : C[b] = sendCh'[b]
  <2>1. C[m] = <<>>
    BY <1>6, <1>7, <1>3, <1>8, BatchesFactsNext
  <2> QED
    BY <2>1, <1>7, <1>3, <1>8, BatchesFactsNext
<1> DEFINE Fewer == \A b \in 1..m : \A i \in 1..Len(C[b]) :
                     b \in 1..n /\ i \in 1..Len(B[b]) /\ C[b][i] = B[b][i]
           All == \A b \in 1..n : \A i \in 1..Len(B[b]) :
                    b \in 1..m /\ i \in 1..Len(C[b]) /\ C[b][i] = B[b][i]
<1>10. Fewer /\ (~ lost' => All)
  <2>1. CASE sendCh' = sendCh /\ (buffer = <<>> \/ lost')
    <3>1. m = n /\ (\A b \in 1..(n - 1) : C[b] = B[b]) /\ Len(C[n]) = 0
      BY <2>1, <1>4, <1>5, <1>8, <1>9
    <3>2. ASSUME NEW b \in 1..m, NEW i \in 1..Len(C[b])
          PROVE  b \in 1..n /\ i \in 1..Len(B[b]) /\ C[b][i] = B[b][i]
      <4>1. b # n
        BY <3>1
      <4> QED
        BY <4>1, <3>1
    <3>3. ASSUME ~ lost', NEW b \in 1..n, NEW i \in 1..Len(B[b])
          PROVE  b \in 1..m /\ i \in 1..Len(C[b]) /\ C[b][i] = B[b][i]
      <4>1. Len(B[n]) = 0
        BY <2>1, <3>3, <1>5
      <4>2. b # n
        BY <4>1
      <4> QED
        BY <4>2, <3>1
    <3> QED
      BY <3>2, <3>3
  <2>2. CASE sendCh' = Append(sendCh, buffer)
    <3>1. PICK q \in Seq(Seq(Events)) : q = sendCh
      BY <1>1
    <3>2. Len(Append(q, buffer)) = Len(q) + 1 /\ Append(q, buffer)[Len(q) + 1] = buffer
          /\ \A b \in 1..Len(q) : Append(q, buffer)[b] = q[b]
      BY <1>1
    <3>3. m = n + 1 /\ Len(q) = n - 1
      BY <3>1, <3>2, <2>2, <1>4, <1>8
    <3>4. \A b \in 1..n : C[b] = B[b]
      <4>1. C[n] = B[n]
        BY <3>1, <3>2, <3>3, <2>2, <1>5, <1>9
      <4>2. \A b \in 1..(n - 1) : C[b] = B[b]
        BY <3>1, <3>2, <3>3, <2>2, <1>5, <1>9
      <4> QED
        BY <4>1, <4>2
    <3>5. ASSUME NEW b \in 1..m, NEW i \in 1..Len(C[b]) PROVE b \in 1..n
      BY <3>3, <1>9
    <3> QED
      BY <3>3, <3>4, <3>5
  <2>3. \/ sendCh' = sendCh /\ (buffer = <<>> \/ lost')
        \/ sendCh' = Append(sendCh, buffer)
    BY <1>6
  <2>4. CASE sendCh' = sendCh /\ (buffer = <<>> \/ lost')
    <3> HIDE DEF Fewer, All
    <3> QED
      BY <2>1, <2>4
  <2>5. CASE sendCh' = Append(sendCh, buffer)
    <3> HIDE DEF Fewer, All
    <3> QED
      BY <2>2, <2>5
  <2> QED
    BY <2>3, <2>4, <2>5
<1>11. AskedOnce'
  <2>1. \A b \in 1..n : \A i \in 1..Len(B[b]) : B[b][i].type = "approval" =>
           /\ step[B[b][i].step] \notin {"pending", "running"} /\ B[b][i].step \notin shown
           /\ \A c \in 1..n : \A j \in 1..Len(B[c]) :
                B[c][j].type = "approval" /\ B[c][j].step = B[b][i].step => c = b
    BY <1>inv DEF OnceAsked
  <2>2. \A b \in 1..m : \A i \in 1..Len(C[b]) : C[b][i].type = "approval" =>
           /\ step[C[b][i].step] \notin {"pending", "running"} /\ C[b][i].step \notin shown
           /\ \A c \in 1..m : \A j \in 1..Len(C[c]) :
                C[c][j].type = "approval" /\ C[c][j].step = C[b][i].step => c = b
    <3> SUFFICES ASSUME NEW b \in 1..m, NEW i \in 1..Len(C[b]), C[b][i].type = "approval"
                 PROVE  /\ step[C[b][i].step] \notin {"pending", "running"}
                        /\ C[b][i].step \notin shown
                        /\ \A c \in 1..m : \A j \in 1..Len(C[c]) :
                             C[c][j].type = "approval" /\ C[c][j].step = C[b][i].step => c = b
      OBVIOUS
    <3>1. b \in 1..n /\ i \in 1..Len(B[b]) /\ C[b][i] = B[b][i]
      BY <1>10
    <3>2. /\ step[C[b][i].step] \notin {"pending", "running"} /\ C[b][i].step \notin shown
          /\ \A c \in 1..n : \A j \in 1..Len(B[c]) :
               B[c][j].type = "approval" /\ B[c][j].step = C[b][i].step => c = b
      BY <3>1, <2>1
    <3>3. \A c \in 1..m : \A j \in 1..Len(C[c]) :
            c \in 1..n /\ j \in 1..Len(B[c]) /\ C[c][j] = B[c][j]
      BY <1>10
    <3> QED
      BY <3>2, <3>3
  <2>3. \A t \in shown : step[t] \notin {"pending", "running"}
    BY <1>inv DEF OnceAsked
  <2>4. OnceAsked(C, m, step, shown)
    BY <2>2, <2>3 DEF OnceAsked
  <2> QED
    BY <2>4, <1>3, <1>8 DEF AskedOnce
<1>12. LastEventEnds'
  <2>1. \A b \in 1..n : \A i \in 1..Len(B[b]) : \A t \in Step, o \in {"done", "failed"} :
          Ends(B[b][i], t, o) =>
            /\ step[t] = o
            /\ \A c \in 1..n : \A j \in 1..Len(B[c]) :
                 c > b \/ (c = b /\ j > i) => B[c][j].step # t
    BY <1>inv DEF LastEnds
  <2>2. \A b \in 1..m : \A i \in 1..Len(C[b]) : \A t \in Step, o \in {"done", "failed"} :
          Ends(C[b][i], t, o) =>
            /\ step[t] = o
            /\ \A c \in 1..m : \A j \in 1..Len(C[c]) :
                 c > b \/ (c = b /\ j > i) => C[c][j].step # t
    <3> SUFFICES ASSUME NEW b \in 1..m, NEW i \in 1..Len(C[b]), NEW t \in Step,
                        NEW o \in {"done", "failed"}, Ends(C[b][i], t, o)
                 PROVE  /\ step[t] = o
                        /\ \A c \in 1..m : \A j \in 1..Len(C[c]) :
                             c > b \/ (c = b /\ j > i) => C[c][j].step # t
      OBVIOUS
    <3>1. b \in 1..n /\ i \in 1..Len(B[b]) /\ C[b][i] = B[b][i] /\ Ends(B[b][i], t, o)
      BY <1>10
    <3>2. /\ step[t] = o
          /\ \A c \in 1..n : \A j \in 1..Len(B[c]) :
               c > b \/ (c = b /\ j > i) => B[c][j].step # t
      <4> HIDE DEF Ends
      <4> QED
        BY <3>1, <2>1
    <3>3. \A c \in 1..m : \A j \in 1..Len(C[c]) :
            c \in 1..n /\ j \in 1..Len(B[c]) /\ C[c][j] = B[c][j]
      BY <1>10
    <3> QED
      BY <3>2, <3>3
  <2>3. LastEnds(C, m, step)
    BY <2>2 DEF LastEnds
  <2> QED
    BY <2>3, <1>3, <1>8 DEF LastEventEnds
<1>13. ShownEndIsEnd'
  <2>1. \A t \in Step : stepStatus[t] \in {"done", "failed"} =>
          /\ step[t] = stepStatus[t]
          /\ \A b \in 1..n : \A i \in 1..Len(B[b]) : B[b][i].step # t
    BY <1>inv, <1>2, <1>4 DEF ShownEndIsEnd
  <2>2. \A t \in Step : stepStatus[t] \in {"done", "failed"} =>
          /\ step[t] = stepStatus[t]
          /\ \A b \in 1..m : \A i \in 1..Len(C[b]) : C[b][i].step # t
    BY <2>1, <1>10
  <2> QED
    BY <2>2, <1>3, <1>8 DEF ShownEndIsEnd
<1>14. NothingLost'
  <2> SUFFICES ASSUME tui', ~ lost' PROVE EndsArrive' /\ ErrorsArrive'
    BY DEF NothingLost
  <2>1. EndsArrive /\ ErrorsArrive
    BY <1>6 DEF ConsoleInv, NothingLost
  <2>2. EndsArrive'
    <3>1. \A t \in Step, o \in {"done", "failed"} : step[t] = o =>
            \/ stepStatus[t] = o
            \/ \E b \in 1..n : \E i \in 1..Len(B[b]) : Ends(B[b][i], t, o)
      BY <2>1, <1>2, <1>4 DEF EndsArrive
    <3>2. \A t \in Step, o \in {"done", "failed"} : step[t] = o =>
            \/ stepStatus[t] = o
            \/ \E b \in 1..m : \E i \in 1..Len(C[b]) : Ends(C[b][i], t, o)
      BY <3>1, <1>10
    <3> QED
      BY <3>2, <1>3, <1>8 DEF EndsArrive
  <2>3. ErrorsArrive'
    <3>1. errored <=> \/ nodeStatus = "failed"
                      \/ \E b \in 1..n : \E i \in 1..Len(B[b]) : IsError(B[b][i])
      BY <2>1, <1>2, <1>4 DEF ErrorsArrive
    <3>2. (\E b \in 1..n : \E i \in 1..Len(B[b]) : IsError(B[b][i]))
            <=> \E b \in 1..m : \E i \in 1..Len(C[b]) : IsError(C[b][i])
      BY <1>10
    <3> QED
      BY <3>1, <3>2, <1>3, <1>8 DEF ErrorsArrive
  <2> QED
    BY <2>2, <2>3
<1> QED
  BY <1>11, <1>12, <1>13, <1>14

\* A batch is applied: its places are gone, what it says is on the screen.
LEMMA Applied ==
  ASSUME ConsoleInv, ApplyEvents
  PROVE  AskedOnce' /\ LastEventEnds' /\ ShownEndIsEnd' /\ NothingLost' /\ KeysCounted'
<1>1. /\ buffer \in Seq(Events) /\ sendCh \in Seq(Seq(Events)) /\ stepStatus \in [Step -> Statuses]
      /\ nodeStatus \in NodeStatuses /\ lost \in BOOLEAN /\ tui \in BOOLEAN
      /\ waitingApproval \in BOOLEAN /\ spent \in Nat /\ approvalChan \in Seq(Answer)
  BY DEF ConsoleInv, ConsoleTypeOK, NodeStatuses
<1>2. PICK B : B = Batches
  OBVIOUS
<1>3. PICK C : C = Batches'
  OBVIOUS
<1>4. PICK batch : batch = Head(sendCh)
  OBVIOUS
<1>5. PICK asking : asking = {batch[i].step : i \in {j \in DOMAIN batch : batch[j].type = "approval"}}
  OBVIOUS
<1>6. /\ sendCh # <<>> /\ sendCh' = Tail(sendCh) /\ buffer' = buffer
      /\ waitingApproval' = (waitingApproval \/ asking # {})
      /\ stepStatus' = StepsAfter(batch) /\ nodeStatus' = NodesAfter(batch)
      /\ shown' = shown \cup asking
      /\ step' = step /\ tui' = tui /\ lost' = lost /\ errored' = errored /\ spent' = spent
      /\ approvalChan' = approvalChan /\ readers' = readers
  BY <1>4, <1>5 DEF ApplyEvents, engineVars, inputVars
<1>7. PICK n \in Nat : n = Len(B) /\ n = Len(sendCh) + 1 /\ n >= 2
  BY <1>1, <1>2, <1>6, BatchesFacts
<1>inv. OnceAsked(B, n, step, shown) /\ LastEnds(B, n, step) /\ ShownEndIsEnd
  BY <1>2, <1>7 DEF ConsoleInv, AskedOnce, LastEventEnds
<1>8. /\ B[1] = batch /\ B[n] = buffer /\ batch \in Seq(Events)
      /\ \A b \in 1..(n - 1) : B[b] = sendCh[b]
  <2>1. B[n] = buffer /\ \A b \in 1..(n - 1) : B[b] = sendCh[b]
    BY <1>1, <1>2, <1>7, BatchesFacts
  <2>2. batch = sendCh[1] /\ batch \in Seq(Events)
    BY <1>1, <1>4, <1>6
  <2> QED
    BY <2>1, <2>2, <1>7
<1>9. Len(C) = n - 1 /\ \A b \in 1..(n - 1) : C[b] = B[b + 1]
  <2>1. PICK q \in Seq(Seq(Events)) : q = sendCh /\ q # <<>>
    BY <1>1, <1>6
  <2>2. /\ Tail(q) \in Seq(Seq(Events)) /\ Len(Tail(q)) = Len(q) - 1 /\ Len(q) = n - 1
        /\ \A b \in 1..(Len(q) - 1) : Tail(q)[b] = q[b + 1]
    BY <2>1, <1>7
  <2>3. sendCh' \in Seq(Seq(Events)) /\ buffer' \in Seq(Events) /\ Len(sendCh') = n - 2
    BY <2>1, <2>2, <1>1, <1>6
  <2>4. /\ Len(C) = n - 1 /\ C[n - 1] = buffer
        /\ \A b \in 1..(n - 2) : C[b] = sendCh'[b]
    <3>1. (n - 2) + 1 = n - 1
      BY <1>7
    <3> QED
      BY <2>3, <3>1, <1>3, <1>6, BatchesFactsNext
  <2>5. ASSUME NEW b \in 1..(n - 1) PROVE C[b] = B[b + 1]
    <3>1. CASE b = n - 1
      BY <3>1, <2>4, <1>8, <1>7
    <3>2. CASE b # n - 1
      <4>1. b \in 1..(n - 2) /\ b + 1 \in 1..(n - 1)
        BY <3>2, <1>7
      <4>2. C[b] = q[b + 1]
        BY <4>1, <2>1, <2>2, <2>4, <1>6
      <4> QED
        BY <4>1, <4>2, <2>1, <1>8
    <3> QED
      BY <3>1, <3>2
  <2> QED
    BY <2>4, <2>5
<1>10. ASSUME NEW b \in 1..(n - 1), NEW i \in 1..Len(C[b])
       PROVE  b + 1 \in 1..n /\ b + 1 # 1 /\ b + 1 > 1 /\ i \in 1..Len(B[b + 1]) /\ C[b][i] = B[b + 1][i]
  BY <1>9, <1>7
<1>11. 1 \in 1..n /\ Len(batch) \in Nat /\ DOMAIN batch = 1..Len(batch)
  BY <1>7, <1>8
<1>12. \A b \in 1..n : \A i \in 1..Len(B[b]) : B[b][i].type = "approval" =>
           /\ step[B[b][i].step] \notin {"pending", "running"} /\ B[b][i].step \notin shown
           /\ \A c \in 1..n : \A j \in 1..Len(B[c]) :
                B[c][j].type = "approval" /\ B[c][j].step = B[b][i].step => c = b
  BY <1>inv DEF OnceAsked
<1>13. ASSUME NEW s \in asking
       PROVE  \E i \in 1..Len(B[1]) : B[1][i].type = "approval" /\ B[1][i].step = s
  BY <1>5, <1>8, <1>11
<1>14. AskedOnce'
  <2>1. ASSUME NEW b \in 1..(n - 1), NEW i \in 1..Len(C[b]), C[b][i].type = "approval"
        PROVE  /\ step[C[b][i].step] \notin {"pending", "running"}
               /\ C[b][i].step \notin shown \cup asking
               /\ \A c \in 1..(n - 1) : \A j \in 1..Len(C[c]) :
                    C[c][j].type = "approval" /\ C[c][j].step = C[b][i].step => c = b
    <3>1. b + 1 \in 1..n /\ b + 1 # 1 /\ i \in 1..Len(B[b + 1]) /\ C[b][i] = B[b + 1][i]
      BY <1>10
    <3>2. /\ step[C[b][i].step] \notin {"pending", "running"} /\ C[b][i].step \notin shown
          /\ \A c \in 1..n : \A j \in 1..Len(B[c]) :
               B[c][j].type = "approval" /\ B[c][j].step = C[b][i].step => c = b + 1
      BY <3>1, <2>1, <1>12
    <3>3. C[b][i].step \notin asking
      BY <3>1, <3>2, <1>11, <1>13
    <3>4. ASSUME NEW c \in 1..(n - 1), NEW j \in 1..Len(C[c]),
                 C[c][j].type = "approval", C[c][j].step = C[b][i].step
          PROVE  c = b
      <4>1. c + 1 \in 1..n /\ j \in 1..Len(B[c + 1]) /\ C[c][j] = B[c + 1][j]
        BY <1>10
      <4>2. c + 1 = b + 1
        BY <4>1, <3>2, <3>4
      <4> QED
        BY <4>2, <1>7
    <3> QED
      BY <3>2, <3>3, <3>4
  <2>2. \A t \in shown : step[t] \notin {"pending", "running"}
    BY <1>inv DEF OnceAsked
  <2>3. \A t \in asking : step[t] \notin {"pending", "running"}
    BY <1>11, <1>12, <1>13
  <2>4. OnceAsked(C, n - 1, step, shown \cup asking)
    BY <2>1, <2>2, <2>3 DEF OnceAsked
  <2> QED
    BY <2>4, <1>3, <1>6, <1>9 DEF AskedOnce
<1>15. KeysCounted'
  <2>1. /\ IsFiniteSet(shown)
        /\ tui => /\ readers = {}
                  /\ spent + Len(approvalChan) + (IF waitingApproval THEN 1 ELSE 0) <= Cardinality(shown)
    BY DEF ConsoleInv, KeysCounted
  <2>2. IsFiniteSet(asking)
    <3>1. IsFiniteSet(1..Len(batch))
      BY <1>11, FS_Interval
    <3>2. IsFiniteSet({j \in DOMAIN batch : batch[j].type = "approval"})
      BY <3>1, <1>11, FS_Subset
    <3> DEFINE D == {j \in DOMAIN batch : batch[j].type = "approval"}
               f == [i \in D |-> batch[i].step]
    <3>3. f \in Surjection(D, asking)
      BY <1>5 DEF Surjection
    <3> QED
      BY <3>2, <3>3, FS_Surjection
  <2>3. IsFiniteSet(shown \cup asking)
    BY <2>1, <2>2, FS_Union
  <2>4. PICK a \in Nat : a = Cardinality(shown)
    BY <2>1, FS_CardinalityType
  <2>5. PICK z \in Nat : z = Cardinality(shown \cup asking)
    BY <2>3, FS_CardinalityType
  <2>6. a <= z
    BY <2>3, <2>4, <2>5, FS_Subset
  <2>7. asking # {} => a < z
    <3> SUFFICES ASSUME NEW s \in asking PROVE a # z
      BY <2>6
    <3>1. s \notin shown
      BY <1>11, <1>12, <1>13
    <3>2. shown # shown \cup asking /\ shown \subseteq shown \cup asking
      BY <3>1
    <3> QED
      BY <3>2, <2>3, <2>4, <2>5, FS_Subset
  <2>8. PICK k \in Nat : k = Len(approvalChan)
    BY <1>1
  <2>9. tui => spent + k + (IF waitingApproval \/ asking # {} THEN 1 ELSE 0) <= z
    <3>1. tui => spent + k + (IF waitingApproval THEN 1 ELSE 0) <= a
      BY <2>1, <2>4, <2>8
    <3> QED
      BY <3>1, <2>6, <2>7, <1>1
  <2> QED
    BY <2>1, <2>3, <2>5, <2>8, <2>9, <1>6 DEF KeysCounted
<1>16. \A b \in 1..n : \A i \in 1..Len(B[b]) : \A t \in Step, o \in {"done", "failed"} :
         Ends(B[b][i], t, o) =>
           /\ step[t] = o
           /\ \A c \in 1..n : \A j \in 1..Len(B[c]) :
                c > b \/ (c = b /\ j > i) => B[c][j].step # t
  BY <1>inv DEF LastEnds
<1>17. LastEventEnds'
  <2>1. ASSUME NEW b \in 1..(n - 1), NEW i \in 1..Len(C[b]), NEW t \in Step, NEW o \in {"done", "failed"},
               Ends(C[b][i], t, o)
        PROVE  /\ step[t] = o
               /\ \A c \in 1..(n - 1) : \A j \in 1..Len(C[c]) :
                    c > b \/ (c = b /\ j > i) => C[c][j].step # t
    <3>1. b + 1 \in 1..n /\ i \in 1..Len(B[b + 1]) /\ C[b][i] = B[b + 1][i]
      BY <1>10
    <3>2. /\ step[t] = o
          /\ \A c \in 1..n : \A j \in 1..Len(B[c]) :
               c > b + 1 \/ (c = b + 1 /\ j > i) => B[c][j].step # t
      BY <3>1, <2>1, <1>16
    <3>3. ASSUME NEW c \in 1..(n - 1), NEW j \in 1..Len(C[c]), c > b \/ (c = b /\ j > i)
          PROVE  C[c][j].step # t
      <4>1. c + 1 \in 1..n /\ j \in 1..Len(B[c + 1]) /\ C[c][j] = B[c + 1][j]
        BY <1>10
      <4>2. c + 1 > b + 1 \/ (c + 1 = b + 1 /\ j > i)
        BY <3>3
      <4> QED
        BY <4>1, <4>2, <3>2
    <3> QED
      BY <3>2, <3>3
  <2>2. LastEnds(C, n - 1, step)
    BY <2>1 DEF LastEnds
  <2> QED
    BY <2>2, <1>3, <1>6, <1>9 DEF LastEventEnds
<1>18. \A t \in Step : stepStatus[t] \in {"done", "failed"} =>
         /\ step[t] = stepStatus[t]
         /\ \A b \in 1..n : \A i \in 1..Len(B[b]) : B[b][i].step # t
  BY <1>inv, <1>2, <1>7 DEF ShownEndIsEnd
<1>19. ShownEndIsEnd'
  <2>1. PICK after : after = StepsAfter(batch)
    OBVIOUS
  <2>2. ASSUME NEW t \in Step, NEW o \in {"done", "failed"}, after[t] = o
        PROVE  step[t] = o /\ \A b \in 1..(n - 1) : \A i \in 1..Len(C[b]) : C[b][i].step # t
    <3>1. stepStatus[t] = o \/ \E i \in 1..Len(batch) : Ends(batch[i], t, o)
      BY <2>1, <2>2, <1>1, <1>8, StepsFacts
    <3>2. CASE stepStatus[t] = o
      BY <3>2, <1>18, <1>10
    <3>3. CASE \E i \in 1..Len(batch) : Ends(batch[i], t, o)
      <4>1. PICK i \in 1..Len(B[1]) : Ends(B[1][i], t, o)
        BY <3>3, <1>8
      <4>2. /\ step[t] = o
            /\ \A c \in 1..n : \A j \in 1..Len(B[c]) : c > 1 => B[c][j].step # t
        BY <4>1, <1>11, <1>16
      <4> QED
        BY <4>2, <1>10
    <3> QED
      BY <3>1, <3>2, <3>3
  <2>3. stepStatus' = after
    BY <2>1, <1>6
  <2> QED
    BY <2>2, <2>3, <1>3, <1>6, <1>9 DEF ShownEndIsEnd
<1>20. NothingLost'
  <2> SUFFICES ASSUME tui', ~ lost' PROVE EndsArrive' /\ ErrorsArrive'
    BY DEF NothingLost
  <2>1. EndsArrive /\ ErrorsArrive
    BY <1>6 DEF ConsoleInv, NothingLost
  <2>2. EndsArrive'
    <3>1. PICK after : after = StepsAfter(batch)
      OBVIOUS
    <3>2. ASSUME NEW t \in Step, NEW o \in {"done", "failed"}, step[t] = o
          PROVE  \/ after[t] = o
                 \/ \E b \in 1..(n - 1) : \E i \in 1..Len(C[b]) : Ends(C[b][i], t, o)
      <4>1. \/ stepStatus[t] = o
            \/ \E b \in 1..n : \E i \in 1..Len(B[b]) : Ends(B[b][i], t, o)
        BY <3>2, <2>1, <1>2, <1>7 DEF EndsArrive
      <4>2. CASE stepStatus[t] = o
        <5>1. \A i \in 1..Len(batch) : batch[i].step # t
          BY <4>2, <1>18, <1>8, <1>11
        <5> QED
          BY <5>1, <4>2, <3>1, <1>1, <1>8, StepsFacts
      <4>3. ASSUME NEW b \in 1..n, NEW i \in 1..Len(B[b]), Ends(B[b][i], t, o)
            PROVE  \/ after[t] = o
                   \/ \E c \in 1..(n - 1) : \E j \in 1..Len(C[c]) : Ends(C[c][j], t, o)
        <5>1. CASE b = 1
          <6>1. i \in 1..Len(batch) /\ Ends(batch[i], t, o)
            BY <5>1, <4>3, <1>8
          <6>2. \A j \in (i + 1)..Len(batch) : batch[j].step # t
            <7>1. \A c \in 1..n : \A j \in 1..Len(B[c]) : c = 1 /\ j > i => B[c][j].step # t
              BY <5>1, <4>3, <1>16
            <7>2. \A j \in (i + 1)..Len(batch) : j \in 1..Len(B[1]) /\ j > i
              BY <6>1, <1>8, <1>11
            <7> QED
              BY <7>1, <7>2, <1>8, <1>11
          <6> QED
            BY <6>1, <6>2, <3>1, <1>1, <1>8, StepsFacts
        <5>2. CASE b # 1
          <6>1. b - 1 \in 1..(n - 1) /\ C[b - 1] = B[b]
            <7>1. b - 1 \in 1..(n - 1) /\ (b - 1) + 1 = b
              BY <5>2, <1>7
            <7> QED
              BY <7>1, <1>9
          <6> QED
            BY <6>1, <4>3
        <5> QED
          BY <5>1, <5>2
      <4> QED
        BY <4>1, <4>2, <4>3
    <3>3. stepStatus' = after
      BY <3>1, <1>6
    <3> QED
      BY <3>2, <3>3, <1>3, <1>6, <1>9 DEF EndsArrive
  <2>3. ErrorsArrive'
    <3>1. errored <=> \/ nodeStatus = "failed"
                      \/ \E b \in 1..n : \E i \in 1..Len(B[b]) : IsError(B[b][i])
      BY <2>1, <1>2, <1>7 DEF ErrorsArrive
    <3>2. nodeStatus' = "failed"
            <=> nodeStatus = "failed" \/ \E i \in 1..Len(B[1]) : IsError(B[1][i])
      BY <1>1, <1>6, <1>8, NodesFacts
    <3>3. (\E b \in 1..n : \E i \in 1..Len(B[b]) : IsError(B[b][i]))
            <=> \/ \E i \in 1..Len(B[1]) : IsError(B[1][i])
                \/ \E b \in 1..(n - 1) : \E i \in 1..Len(C[b]) : IsError(C[b][i])
      <4>1. ASSUME NEW b \in 1..n, NEW i \in 1..Len(B[b]), IsError(B[b][i])
            PROVE  \/ \E j \in 1..Len(B[1]) : IsError(B[1][j])
                   \/ \E c \in 1..(n - 1) : \E j \in 1..Len(C[c]) : IsError(C[c][j])
        <5>1. CASE b = 1
          BY <5>1, <4>1
        <5>2. CASE b # 1
          <6>1. b - 1 \in 1..(n - 1) /\ C[b - 1] = B[b]
            <7>1. b - 1 \in 1..(n - 1) /\ (b - 1) + 1 = b
              BY <5>2, <1>7
            <7> QED
              BY <7>1, <1>9
          <6> QED
            BY <6>1, <4>1
        <5> QED
          BY <5>1, <5>2
      <4>2. ASSUME NEW b \in 1..(n - 1), NEW i \in 1..Len(C[b]), IsError(C[b][i])
            PROVE  \E c \in 1..n : \E j \in 1..Len(B[c]) : IsError(B[c][j])
        BY <4>2, <1>10
      <4> QED
        BY <4>1, <4>2, <1>11
    <3> QED
      BY <3>1, <3>2, <3>3, <1>3, <1>6, <1>9 DEF ErrorsArrive
  <2> QED
    BY <2>2, <2>3
<1> QED
  BY <1>14, <1>15, <1>17, <1>19, <1>20

-----------------------------------------------------------------------------
LEMMA HandledType ==
  ASSUME ConsoleTypeOK, NEW e \in Events, HandleEvent(e) \/ UNCHANGED <<buffer, lost>>
  PROVE  buffer' \in Seq(Events) /\ lost' \in BOOLEAN
<1>1. buffer \in Seq(Events) /\ lost \in BOOLEAN
  BY DEF ConsoleTypeOK
<1>2. Append(buffer, e) \in Seq(Events)
  BY <1>1
<1> QED
  BY <1>1, <1>2 DEF HandleEvent

LEMMA KeysKept ==
  ASSUME ConsoleInv, UNCHANGED <<tui, spent, approvalChan, waitingApproval, shown>>,
         tui => readers' = readers
  PROVE  KeysCounted'
  BY DEF ConsoleInv, KeysCounted

LEMMA CloseKept ==
  ASSUME ConsoleInv, UNCHANGED <<drain, closed, panicked>>,
         drain = "ticking" \/ (UNCHANGED <<step, buffer>> /\ (cancelled => cancelled'))
  PROVE  SendsBeforeClose' /\ Quiescent'
<1>1. SendsBeforeClose'
  BY DEF ConsoleInv, SendsBeforeClose
<1>2. CASE drain = "ticking"
  BY <1>1, <1>2 DEF Quiescent
<1>3. CASE UNCHANGED <<step, buffer>> /\ (cancelled => cancelled')
  BY <1>1, <1>3 DEF ConsoleInv, Quiescent, Ended
<1> QED
  BY <1>1, <1>2, <1>3

\* A step that has not ended keeps the handler open.
LEMMA WorkKeepsOpen ==
  ASSUME ConsoleInv, NEW s \in Step,
         step[s] \in {"pending", "running", "waiting"}
  PROVE  drain = "ticking"
  BY DEF ConsoleInv, Quiescent, Ended

\* The end of a step, however it comes.
LEMMA FinishKeeps ==
  ASSUME ConsoleInv, NEW s \in Step, NEW outcome \in {"done", "failed"}, Finish(s, outcome),
         step[s] \in {"running", "waiting"}, s \in Gate => step[s] \in {"running", "waiting"},
         approvalChan' = approvalChan, readers' = readers, spent' = spent,
         reply' \in [Gate -> Answer \cup {"none", "other"}]
  PROVE  ConsoleInv'
<1> DEFINE e == Event("status", s, IF outcome = "done" THEN "Done" ELSE "Failed")
<1>1. /\ e \in Events /\ e.step = s /\ e.type = "status"
      /\ e.what = IF outcome = "done" THEN "Done" ELSE "Failed"
  BY DEF Event, Events
<1>2. ConsoleTypeOK
  BY DEF ConsoleInv
<1>3. HandleEvent(e)
  BY DEF Finish
<1>4. buffer' \in Seq(Events) /\ lost' \in BOOLEAN
  <2> HIDE DEF e
  <2> QED
    BY <1>1, <1>2, <1>3, HandledType
<1>5. ConsoleTypeOK'
  BY <1>2, <1>4 DEF Finish, ConsoleTypeOK, screenVars, Phases
<1>6. Publishes(s, outcome, e)
  <2> HIDE DEF e
  <2> QED
    BY <1>1, <1>3 DEF Finish, Publishes, screenVars, Ends, IsError
<1>7. AskedOnce' /\ LastEventEnds' /\ ShownEndIsEnd' /\ NothingLost'
  <2> HIDE DEF e
  <2>1. outcome \in Phases
    BY DEF Phases
  <2> QED
    BY <1>1, <1>6, <2>1, Published
<1>8. KeysCounted' /\ SendsBeforeClose' /\ Quiescent'
  <2>1. /\ UNCHANGED <<tui, spent, approvalChan, waitingApproval, shown, readers>>
        /\ UNCHANGED <<drain, closed, panicked>>
    BY DEF Finish, screenVars
  <2>2. drain = "ticking"
    BY WorkKeepsOpen
  <2> QED
    BY <2>1, <2>2, KeysKept, CloseKept
<1> QED
  BY <1>5, <1>7, <1>8 DEF ConsoleInv

LEMMA StartStepKeeps ==
  ASSUME ConsoleInv, NEW s \in Step, StartStep(s) \/ (s \in Gate /\ GiveUp(s))
  PROVE  ConsoleInv'
<1>1. /\ step[s] = "pending"
      /\ UNCHANGED <<tui, capacity, logged, errored, sendCh, drain, closed, approvalChan, readers, reply,
                     waitingApproval, stepStatus, nodeStatus, quit, shown, spent, panicked>>
      /\ cancelled' \in BOOLEAN
  BY DEF StartStep, GiveUp, handlerVars, inputVars, screenVars, ConsoleInv, ConsoleTypeOK
<1>2. \E new \in Phases, e \in Events :
        e.step = s /\ Publishes(s, new, e) /\ (HandleEvent(e) \/ UNCHANGED <<buffer, lost>>)
  <2>1. ASSUME NEW new \in {"running", "skipped"}, NEW what \in {"Running", "Skipped"},
               step' = [step EXCEPT ![s] = new], HandleEvent(Event("status", s, what))
        PROVE  \E k \in Phases, e \in Events :
                 e.step = s /\ Publishes(s, k, e) /\ (HandleEvent(e) \/ UNCHANGED <<buffer, lost>>)
    <3>1. PICK e \in Events : /\ e.step = s /\ e.type = "status" /\ e.what = what
                              /\ e = Event("status", s, what)
      <4> DEFINE x == Event("status", s, what)
      <4>1. x \in Events /\ x.step = s /\ x.type = "status" /\ x.what = what
        BY DEF Event, Events
      <4> QED
        BY <4>1
    <3>2. Publishes(s, new, e)
      BY <3>1, <2>1, <1>1 DEF Publishes, Ends, IsError
    <3> QED
      BY <3>1, <3>2, <2>1 DEF Phases
  <2>2. ASSUME step' = [step EXCEPT ![s] = "refused"], UNCHANGED <<buffer, lost>>
        PROVE  \E k \in Phases, e \in Events :
                 e.step = s /\ Publishes(s, k, e) /\ (HandleEvent(e) \/ UNCHANGED <<buffer, lost>>)
    <3>1. PICK e \in Events : e.step = s /\ e.type = "status" /\ e.what = "Running"
      <4> DEFINE x == Event("status", s, "Running")
      <4>1. x \in Events /\ x.step = s /\ x.type = "status" /\ x.what = "Running"
        BY DEF Event, Events
      <4> QED
        BY <4>1
    <3>2. Publishes(s, "refused", e)
      BY <3>1, <2>2, <1>1 DEF Publishes, Ends, IsError
    <3> QED
      BY <3>1, <3>2, <2>2 DEF Phases
  <2> QED
    BY <2>1, <2>2 DEF StartStep, GiveUp, handlerVars
<1>3. PICK new \in Phases, e \in Events :
        e.step = s /\ Publishes(s, new, e) /\ (HandleEvent(e) \/ UNCHANGED <<buffer, lost>>)
  BY <1>2
<1>4. buffer' \in Seq(Events) /\ lost' \in BOOLEAN
  BY <1>3, HandledType DEF ConsoleInv
<1>5. step' \in [Step -> Phases]
  BY <1>3 DEF Publishes, ConsoleInv, ConsoleTypeOK
<1>6. ConsoleTypeOK'
  BY <1>1, <1>4, <1>5 DEF ConsoleInv, ConsoleTypeOK
<1>7. AskedOnce' /\ LastEventEnds' /\ ShownEndIsEnd' /\ NothingLost'
  BY <1>3, Published
<1>8. KeysCounted' /\ SendsBeforeClose' /\ Quiescent'
  <2>1. drain = "ticking"
    BY <1>1, WorkKeepsOpen
  <2> QED
    BY <2>1, <1>1, KeysKept, CloseKept
<1> QED
  BY <1>6, <1>7, <1>8 DEF ConsoleInv

LEMMA WorkerLogsKeeps ==
  ASSUME ConsoleInv, NEW level \in {"ERROR", "COMPLETE", "INFO"}, WorkerLogs(level)
  PROVE  ConsoleInv'
<1>1. Worker \in Step
  BY DEF Step
<1>2. PICK e \in Events : /\ e.step = Worker /\ e.type = "log" /\ e.what = level
                          /\ e = Event("log", Worker, level)
  <2> DEFINE x == Event("log", Worker, level)
  <2>1. x \in Events /\ x.step = Worker /\ x.type = "log" /\ x.what = level
    BY <1>1 DEF Event, Events
  <2> QED
    BY <2>1
<1>3. /\ step[Worker] = "running" /\ step' = step /\ HandleEvent(e)
      /\ errored' = (errored \/ level = "ERROR")
      /\ UNCHANGED <<tui, capacity, cancelled, sendCh, drain, closed, approvalChan, readers, reply,
                     waitingApproval, stepStatus, nodeStatus, quit, shown, spent, panicked>>
  BY <1>2 DEF WorkerLogs, inputVars, screenVars
<1>4. step \in [Step -> Phases] /\ errored \in BOOLEAN /\ logged' \in 0..Logs /\ errored' \in BOOLEAN
  <2>1. step \in [Step -> Phases] /\ errored \in BOOLEAN /\ logged \in 0..Logs
    BY DEF ConsoleInv, ConsoleTypeOK
  <2>2. logged' = logged + 1 /\ logged < Logs
    BY DEF WorkerLogs
  <2> QED
    BY <2>1, <2>2, <1>3, ConsoleAssumption DEF ConsoleAssumption
<1>5. step' = [step EXCEPT ![Worker] = "running"]
  BY <1>1, <1>3, <1>4
<1>6. Publishes(Worker, "running", e)
  BY <1>2, <1>3, <1>4, <1>5 DEF Publishes, Ends, IsError
<1>7. "running" \in Phases
  BY DEF Phases
<1>8. AskedOnce' /\ LastEventEnds' /\ ShownEndIsEnd' /\ NothingLost'
  BY <1>1, <1>2, <1>6, <1>7, Published
<1>9. buffer' \in Seq(Events) /\ lost' \in BOOLEAN
  BY <1>3, HandledType DEF ConsoleInv
<1>10. ConsoleTypeOK'
  BY <1>3, <1>4, <1>9 DEF ConsoleInv, ConsoleTypeOK
<1>11. KeysCounted' /\ SendsBeforeClose' /\ Quiescent'
  <2>1. drain = "ticking"
    BY <1>1, <1>3, WorkKeepsOpen
  <2> QED
    BY <2>1, <1>3, KeysKept, CloseKept
<1> QED
  BY <1>8, <1>10, <1>11 DEF ConsoleInv

LEMMA AskKeeps ==
  ASSUME ConsoleInv, NEW g \in Gate, Ask(g)
  PROVE  ConsoleInv'
<1>1. g \in Step
  BY DEF Step
<1>2. PICK e \in Events : /\ e.step = g /\ e.type = "approval" /\ e.what = ""
                          /\ e = Event("approval", g, "")
  <2> DEFINE x == Event("approval", g, "")
  <2>1. x \in Events /\ x.step = g /\ x.type = "approval" /\ x.what = ""
    BY <1>1 DEF Event, Events
  <2> QED
    BY <2>1
<1>3. /\ step[g] = "running" /\ step' = [step EXCEPT ![g] = "waiting"]
      /\ HandleEvent(e) \/ UNCHANGED <<buffer, lost>>
      /\ tui => readers' = readers
      /\ readers' \in {readers, readers \cup {g}}
      /\ UNCHANGED <<tui, capacity, cancelled, logged, errored, sendCh, drain, closed, approvalChan, reply,
                     waitingApproval, stepStatus, nodeStatus, quit, shown, spent, panicked>>
  BY <1>2 DEF Ask, screenVars
<1>4. Publishes(g, "waiting", e)
  BY <1>2, <1>3 DEF Publishes, Ends, IsError
<1>5. "waiting" \in Phases
  BY DEF Phases
<1>6. AskedOnce' /\ LastEventEnds' /\ ShownEndIsEnd' /\ NothingLost'
  BY <1>1, <1>2, <1>4, <1>5, Published
<1>7. buffer' \in Seq(Events) /\ lost' \in BOOLEAN
  BY <1>3, HandledType DEF ConsoleInv
<1>8. ConsoleTypeOK'
  <2>1. step' \in [Step -> Phases] /\ readers' \in SUBSET Gate
    BY <1>3, <1>5 DEF ConsoleInv, ConsoleTypeOK
  <2> QED
    BY <1>3, <1>7, <2>1 DEF ConsoleInv, ConsoleTypeOK
<1>9. KeysCounted' /\ SendsBeforeClose' /\ Quiescent'
  <2>1. drain = "ticking"
    BY <1>1, <1>3, WorkKeepsOpen
  <2> QED
    BY <2>1, <1>3, KeysKept, CloseKept
<1> QED
  BY <1>6, <1>8, <1>9 DEF ConsoleInv

\* A key or a line reaches a gate, or waits in the channel for one.
LEMMA TakeKeyKeeps ==
  ASSUME ConsoleInv, NEW g \in Gate, TakeKey(g)
  PROVE  ConsoleInv'
<1>1. /\ approvalChan # <<>> /\ approvalChan' = Tail(approvalChan) /\ spent' = spent + 1
      /\ reply' = [reply EXCEPT ![g] = Head(approvalChan)]
      /\ UNCHANGED <<engineVars, handlerVars, readers, screenVars, shown, lost, panicked>>
  BY DEF TakeKey
<1>2. PICK q \in Seq(Answer) : q = approvalChan
  BY DEF ConsoleInv, ConsoleTypeOK
<1>3. /\ Tail(q) \in Seq(Answer) /\ Head(q) \in Answer
      /\ Len(q) \in Nat /\ Len(Tail(q)) = Len(q) - 1
  BY <1>1, <1>2
<1>4. ConsoleTypeOK'
  <2>1. approvalChan' \in Seq(Answer) /\ reply' \in [Gate -> Answer \cup {"none", "other"}] /\ spent' \in Nat
    BY <1>1, <1>2, <1>3 DEF ConsoleInv, ConsoleTypeOK
  <2> QED
    BY <1>1, <2>1 DEF ConsoleInv, ConsoleTypeOK, engineVars, handlerVars, screenVars
<1>5. AskedOnce' /\ LastEventEnds' /\ ShownEndIsEnd' /\ NothingLost'
  BY <1>1, Kept DEF engineVars, handlerVars, screenVars
<1>6. spent' + Len(approvalChan') = spent + Len(approvalChan)
  <2>1. spent \in Nat
    BY DEF ConsoleInv, ConsoleTypeOK
  <2> QED
    BY <2>1, <1>1, <1>2, <1>3
<1>7. KeysCounted' /\ SendsBeforeClose' /\ Quiescent'
  <2>1. KeysCounted'
    BY <1>1, <1>6 DEF ConsoleInv, KeysCounted, engineVars, handlerVars, screenVars
  <2> QED
    BY <2>1, <1>1, CloseKept DEF engineVars, handlerVars, screenVars
<1> QED
  BY <1>4, <1>5, <1>7 DEF ConsoleInv

LEMMA LineKeeps ==
  ASSUME ConsoleInv, NEW g \in Gate, Line(g)
  PROVE  ConsoleInv'
<1>1. /\ g \in readers /\ readers' = readers \ {g} /\ spent' = spent + 1
      /\ UNCHANGED <<engineVars, handlerVars, approvalChan, screenVars, shown, lost, panicked>>
      /\ reply' \in [Gate -> Answer \cup {"none", "other"}]
  <2>1. reply \in [Gate -> Answer \cup {"none", "other"}]
    BY DEF ConsoleInv, ConsoleTypeOK
  <2> QED
    BY <2>1 DEF Line
<1>2. ~ tui
  BY <1>1 DEF ConsoleInv, KeysCounted
<1>3. ConsoleTypeOK'
  BY <1>1 DEF ConsoleInv, ConsoleTypeOK, engineVars, handlerVars, screenVars
<1>4. AskedOnce' /\ LastEventEnds' /\ ShownEndIsEnd' /\ NothingLost'
  BY <1>1, Kept DEF engineVars, handlerVars, screenVars
<1>5. KeysCounted' /\ SendsBeforeClose' /\ Quiescent'
  <2>1. KeysCounted'
    BY <1>1, <1>2 DEF ConsoleInv, KeysCounted, engineVars, handlerVars, screenVars
  <2> QED
    BY <2>1, <1>1, CloseKept DEF engineVars, handlerVars, screenVars
<1> QED
  BY <1>3, <1>4, <1>5 DEF ConsoleInv

LEMMA KeyKeeps ==
  ASSUME ConsoleInv, NEW key \in Answer, Key(key)
  PROVE  ConsoleInv'
<1>1. /\ tui /\ waitingApproval /\ waitingApproval' = FALSE /\ Sent(key)
      /\ UNCHANGED <<engineVars, handlerVars, readers, stepStatus, nodeStatus, quit, shown, lost, panicked>>
  BY DEF Key
<1>2. PICK q \in Seq(Answer) : q = approvalChan
  BY DEF ConsoleInv, ConsoleTypeOK
<1>3. Len(q) \in Nat /\ Append(q, key) \in Seq(Answer) /\ Len(Append(q, key)) = Len(q) + 1
  OBVIOUS
<1>4. spent \in Nat /\ reply \in [Gate -> Answer \cup {"none", "other"}]
  BY DEF ConsoleInv, ConsoleTypeOK
<1>5. /\ approvalChan' \in Seq(Answer) /\ spent' \in Nat
      /\ reply' \in [Gate -> Answer \cup {"none", "other"}]
      /\ spent' + Len(approvalChan') = spent + Len(approvalChan) + 1
  <2>1. CASE approvalChan' = Append(approvalChan, key) /\ UNCHANGED <<reply, spent>>
    BY <2>1, <1>2, <1>3, <1>4
  <2>2. CASE /\ \E g \in Gate : reply' = [reply EXCEPT ![g] = key]
             /\ spent' = spent + 1 /\ approvalChan' = approvalChan
    BY <2>2, <1>2, <1>3, <1>4
  <2> QED
    BY <2>1, <2>2, <1>1 DEF Sent
<1>6. ConsoleTypeOK'
  BY <1>1, <1>5 DEF ConsoleInv, ConsoleTypeOK, engineVars, handlerVars
<1>7. AskedOnce' /\ LastEventEnds' /\ ShownEndIsEnd' /\ NothingLost'
  BY <1>1, Kept DEF engineVars, handlerVars
<1>8. KeysCounted' /\ SendsBeforeClose' /\ Quiescent'
  <2>1. /\ IsFiniteSet(shown) /\ readers = {}
        /\ spent + Len(approvalChan) + 1 <= Cardinality(shown)
    BY <1>1 DEF ConsoleInv, KeysCounted
  <2>2. (spent' + Len(approvalChan')) + 0 <= Cardinality(shown)
    <3>1. Cardinality(shown) \in Nat
      BY <2>1, FS_CardinalityType
    <3> QED
      BY <2>1, <3>1, <1>2, <1>3, <1>4, <1>5
  <2>3. waitingApproval' = FALSE /\ shown' = shown /\ readers' = readers
    BY <1>1
  <2>4. KeysCounted'
    BY <2>1, <2>2, <2>3 DEF KeysCounted
  <2> QED
    BY <2>4, <1>1, CloseKept DEF engineVars, handlerVars
<1> QED
  BY <1>6, <1>7, <1>8 DEF ConsoleInv

LEMMA HandlerKeeps ==
  ASSUME ConsoleInv, Tick \/ Close \/ Quit
  PROVE  ConsoleInv'
<1>1. ASSUME Flush, UNCHANGED <<engineVars, closed, inputVars, screenVars, shown, spent>>,
             \/ drain = "ticking" /\ drain' = drain
             \/ drain = "stopping" /\ drain' = "gone"
      PROVE  ConsoleInv'
  <2>1. AskedOnce' /\ LastEventEnds' /\ ShownEndIsEnd' /\ NothingLost'
    BY <1>1, Flushed DEF engineVars, screenVars
  <2>2. buffer \in Seq(Events) /\ sendCh \in Seq(Seq(Events)) /\ lost \in BOOLEAN /\ panicked = FALSE
        /\ closed = FALSE
    BY <1>1 DEF ConsoleInv, ConsoleTypeOK, SendsBeforeClose
  <2>3. buffer' \in Seq(Events) /\ sendCh' \in Seq(Seq(Events)) /\ lost' \in BOOLEAN /\ panicked' = FALSE
    <3>1. <<>> \in Seq(Events) /\ Append(sendCh, buffer) \in Seq(Seq(Events))
      BY <2>2
    <3> QED
      BY <3>1, <2>2, <1>1 DEF Flush
  <2>4. ConsoleTypeOK'
    BY <2>3, <1>1 DEF ConsoleInv, ConsoleTypeOK, engineVars, inputVars, screenVars
  <2>5. KeysCounted' /\ SendsBeforeClose' /\ Quiescent'
    <3>1. KeysCounted'
      BY <1>1, KeysKept DEF engineVars, inputVars, screenVars
    <3>2. SendsBeforeClose'
      BY <2>2, <2>3, <1>1 DEF SendsBeforeClose
    <3>3. buffer' = <<>> /\ step' = step /\ cancelled' = cancelled
      BY <1>1 DEF Flush, engineVars
    <3>4. drain' # "ticking" => drain # "ticking"
      BY <1>1
    <3>5. Quiescent'
      BY <3>3, <3>4 DEF ConsoleInv, Quiescent, Ended
    <3> QED
      BY <3>1, <3>2, <3>5
  <2> QED
    BY <2>1, <2>4, <2>5 DEF ConsoleInv
<1>2. CASE Tick
  BY <1>1, <1>2 DEF Tick
<1>3. CASE LastFlush
  BY <1>1, <1>3 DEF LastFlush
<1>4. CASE CloseBegins \/ CloseEnds \/ Quit
  <2>1. /\ UNCHANGED <<tui, capacity, step, logged, errored, buffer, sendCh, inputVars, waitingApproval,
                       stepStatus, nodeStatus, shown, spent, lost, panicked>>
        /\ cancelled' \in {cancelled, TRUE} /\ quit' \in {quit, TRUE}
    BY <1>4 DEF CloseBegins, CloseEnds, Quit, engineVars, handlerVars, screenVars
  <2>2. drain \in {"ticking", "stopping", "gone"} /\ closed \in BOOLEAN /\ (closed => drain = "gone")
        /\ cancelled \in BOOLEAN /\ quit \in BOOLEAN
    BY DEF ConsoleInv, ConsoleTypeOK, SendsBeforeClose
  <2>3. /\ drain' \in {"ticking", "stopping", "gone"} /\ closed' \in BOOLEAN
        /\ closed' => drain' = "gone"
        /\ drain' = "gone" => drain = "gone"
        /\ drain' # drain => \A s \in Step : Ended(s)
    <3>1. CASE CloseBegins
      BY <3>1, <2>2 DEF CloseBegins
    <3>2. CASE CloseEnds
      BY <3>2, <2>2 DEF CloseEnds
    <3>3. CASE Quit
      BY <3>3, <2>2 DEF Quit, handlerVars
    <3> QED
      BY <3>1, <3>2, <3>3, <1>4
  <2>4. ConsoleTypeOK'
    <3>1. cancelled' \in BOOLEAN /\ quit' \in BOOLEAN
      BY <2>1, <2>2
    <3> QED
      BY <2>1, <2>3, <3>1 DEF ConsoleInv, ConsoleTypeOK, inputVars
  <2>5. AskedOnce' /\ LastEventEnds' /\ ShownEndIsEnd' /\ NothingLost'
    BY <2>1, Kept
  <2>6. KeysCounted'
    BY <2>1, KeysKept DEF inputVars
  <2>7. SendsBeforeClose'
    BY <2>1, <2>3 DEF ConsoleInv, SendsBeforeClose
  <2>8. Quiescent'
    <3>1. drain' # "ticking" => \A s \in Step : Ended(s)
      BY <2>3 DEF ConsoleInv, Quiescent
    <3>2. drain' = "gone" => buffer = <<>>
      BY <2>3 DEF ConsoleInv, Quiescent
    <3> QED
      BY <2>1, <3>1, <3>2 DEF Quiescent, Ended
  <2> QED
    BY <2>4, <2>5, <2>6, <2>7, <2>8 DEF ConsoleInv
<1> QED
  BY <1>2, <1>3, <1>4 DEF Close

LEMMA ApplyKeeps ==
  ASSUME ConsoleInv, ApplyEvents
  PROVE  ConsoleInv'
<1>1. AskedOnce' /\ LastEventEnds' /\ ShownEndIsEnd' /\ NothingLost' /\ KeysCounted'
  BY Applied
<1>2. sendCh # <<>> /\ sendCh \in Seq(Seq(Events)) /\ stepStatus \in [Step -> Statuses]
      /\ nodeStatus \in NodeStatuses /\ waitingApproval \in BOOLEAN /\ shown \in SUBSET Step
  BY DEF ApplyEvents, ConsoleInv, ConsoleTypeOK, NodeStatuses
<1>3. PICK batch \in Seq(Events) : batch = Head(sendCh)
  BY <1>2
<1>4. /\ sendCh' \in Seq(Seq(Events)) /\ stepStatus' \in [Step -> Statuses] /\ nodeStatus' \in NodeStatuses
      /\ waitingApproval' \in BOOLEAN
  <2>1. sendCh' = Tail(sendCh) /\ stepStatus' = StepsAfter(batch) /\ nodeStatus' = NodesAfter(batch)
    BY <1>3 DEF ApplyEvents
  <2>2. waitingApproval' \in BOOLEAN
    BY DEF ApplyEvents
  <2>3. Tail(sendCh) \in Seq(Seq(Events))
    BY <1>2
  <2>4. StepsAfter(batch) \in [Step -> Statuses]
    BY <1>2, StepsFacts
  <2>5. NodesAfter(batch) \in NodeStatuses
    BY <1>2, NodesFacts
  <2> QED
    BY <2>1, <2>2, <2>3, <2>4, <2>5
<1>5. shown' \in SUBSET Step
  <2>1. \A e \in Events : e.step \in Step
    BY DEF Events
  <2>2. \A i \in DOMAIN batch : batch[i] \in Events
    OBVIOUS
  <2>3. shown' = shown \cup {batch[i].step : i \in {j \in DOMAIN batch : batch[j].type = "approval"}}
    BY <1>3 DEF ApplyEvents
  <2> QED
    BY <2>1, <2>2, <2>3, <1>2
<1>6. ConsoleTypeOK' /\ SendsBeforeClose' /\ Quiescent'
  BY <1>4, <1>5 DEF ApplyEvents, ConsoleInv, ConsoleTypeOK, SendsBeforeClose, Quiescent, Ended, engineVars, inputVars, NodeStatuses
<1> QED
  BY <1>1, <1>6 DEF ConsoleInv

LEMMA GateEnds ==
  ASSUME ConsoleInv, NEW g \in Gate, Ungated(g) \/ Decide(g) \/ Expire(g)
  PROVE  ConsoleInv'
<1>1. g \in Step
  BY DEF Step
<1>2. reply \in [Gate -> Answer \cup {"none", "other"}]
  BY DEF ConsoleInv, ConsoleTypeOK
<1>3. CASE Ungated(g)
  <2>1. /\ step[g] = "running" /\ approvalChan' = approvalChan /\ readers' = readers /\ spent' = spent
        /\ reply' = reply /\ \E outcome \in {"done", "failed"} : Finish(g, outcome)
    BY <1>3 DEF Ungated, inputVars
  <2> QED
    BY <1>1, <1>2, <2>1, FinishKeeps
<1>4. CASE Decide(g) \/ Expire(g)
  <2>1. /\ step[g] = "waiting" /\ approvalChan' = approvalChan /\ readers' = readers /\ spent' = spent
        /\ reply' = [reply EXCEPT ![g] = "none"]
        /\ \E outcome \in {"done", "failed"} : Finish(g, outcome)
    BY <1>4 DEF Decide, Expire
  <2>2. reply' \in [Gate -> Answer \cup {"none", "other"}]
    BY <1>2, <2>1
  <2> QED
    BY <1>1, <2>1, <2>2, FinishKeeps
<1> QED
  BY <1>3, <1>4

LEMMA WorkerEndsKeeps ==
  ASSUME ConsoleInv, WorkerEnds
  PROVE  ConsoleInv'
<1>1. /\ Worker \in Step /\ step[Worker] = "running"
      /\ approvalChan' = approvalChan /\ readers' = readers /\ spent' = spent /\ reply' = reply
      /\ \E outcome \in {"done", "failed"} : Finish(Worker, outcome)
  BY DEF WorkerEnds, inputVars, Step
<1>2. reply' \in [Gate -> Answer \cup {"none", "other"}] /\ step[Worker] \in {"running", "waiting"}
  BY <1>1 DEF ConsoleInv, ConsoleTypeOK
<1> QED
  BY <1>1, <1>2, FinishKeeps

LEMMA ConsoleInvInit == ConsoleInit => ConsoleInv
<1> SUFFICES ASSUME ConsoleInit PROVE ConsoleInv
  OBVIOUS
<1>1. <<>> \in Seq(Events) /\ <<>> \in Seq(Seq(Events)) /\ <<>> \in Seq(Answer)
  BY EmptySeq
<1>2. ConsoleTypeOK
  <2>1. /\ step \in [Step -> Phases] /\ stepStatus \in [Step -> Statuses]
        /\ reply \in [Gate -> Answer \cup {"none", "other"}]
    BY DEF ConsoleInit, Phases, Statuses
  <2>2. tui \in BOOLEAN /\ capacity \in Nat /\ logged \in 0..Logs
    BY ConsoleAssumption DEF ConsoleInit, ConsoleAssumption
  <2>3. buffer \in Seq(Events) /\ sendCh \in Seq(Seq(Events)) /\ approvalChan \in Seq(Answer)
    BY <1>1 DEF ConsoleInit
  <2> QED
    BY <2>1, <2>2, <2>3 DEF ConsoleInit, ConsoleTypeOK
<1>3. Len(Batches) = 1 /\ Len(Batches[1]) = 0
  BY DEF ConsoleInit, Batches
<1>4. AskedOnce /\ LastEventEnds
  BY <1>3 DEF AskedOnce, LastEventEnds, OnceAsked, LastEnds, ConsoleInit
<1>5. ShownEndIsEnd /\ SendsBeforeClose /\ Quiescent
  BY <1>3 DEF ShownEndIsEnd, SendsBeforeClose, Quiescent, ConsoleInit
<1>6. EndsArrive
  BY DEF EndsArrive, ConsoleInit
<1>7. ErrorsArrive
  BY <1>3 DEF ErrorsArrive, ConsoleInit
<1>8. KeysCounted
  BY FS_EmptySet DEF KeysCounted, ConsoleInit
<1> QED
  BY <1>2, <1>4, <1>5, <1>6, <1>7, <1>8 DEF ConsoleInv, NothingLost

LEMMA ConsoleInvariant == ConsoleSpec => []ConsoleInv
<1>1. ASSUME ConsoleInv, [ConsoleNext]_consoleVars PROVE ConsoleInv'
  <2>1. ASSUME NEW s \in Step, StartStep(s) PROVE ConsoleInv'
    BY <1>1, <2>1, StartStepKeeps
  <2>2. ASSUME NEW g \in Gate, GateStep(g) \/ Line(g) \/ GiveUp(g) PROVE ConsoleInv'
    <3>1. g \in Step
      BY DEF Step
    <3> QED
      BY <1>1, <2>2, <3>1, GateEnds, AskKeeps, TakeKeyKeeps, LineKeeps, StartStepKeeps DEF GateStep
  <2>3. CASE Work
    BY <1>1, <2>3, WorkerEndsKeeps, WorkerLogsKeeps DEF Work
  <2>4. CASE Tick \/ Close \/ Quit
    BY <1>1, <2>4, HandlerKeeps
  <2>5. CASE ApplyEvents
    BY <1>1, <2>5, ApplyKeeps
  <2>6. ASSUME NEW key \in Answer, Key(key) PROVE ConsoleInv'
    BY <1>1, <2>6, KeyKeeps
  <2>7. CASE UNCHANGED consoleVars
    <3>1. AskedOnce' /\ LastEventEnds' /\ ShownEndIsEnd' /\ NothingLost'
      BY <1>1, <2>7, Kept DEF consoleVars, engineVars, handlerVars, inputVars, screenVars
    <3>2. ConsoleTypeOK' /\ KeysCounted' /\ SendsBeforeClose' /\ Quiescent'
      BY <1>1, <2>7 DEF consoleVars, engineVars, handlerVars, inputVars, screenVars,
         ConsoleInv, ConsoleTypeOK, KeysCounted, SendsBeforeClose, Quiescent, Ended
    <3> QED
      BY <3>1, <3>2 DEF ConsoleInv
  <2> QED
    BY <1>1, <2>1, <2>2, <2>3, <2>4, <2>5, <2>6, <2>7 DEF ConsoleNext
<1> QED
  BY <1>1, ConsoleInvInit, PTL DEF ConsoleSpec

\* The variables of the console stay in their types.
THEOREM ConsoleTypes == ConsoleSpec => []ConsoleTypeOK
<1>1. ConsoleInv => ConsoleTypeOK
  BY DEF ConsoleInv
<1> QED
  BY <1>1, ConsoleInvariant, PTL

\* With a terminal, no more keys are received and kept than gates were shown waiting,
\* however many gates there are and however batches are lost.
THEOREM KeysMatchGates == ConsoleSpec => []OneKeyOneGate
<1>1. ConsoleInv => OneKeyOneGate
  <2> SUFFICES ASSUME ConsoleInv, tui PROVE spent + Len(approvalChan) <= Cardinality(shown)
    BY DEF OneKeyOneGate
  <2>1. /\ spent + Len(approvalChan) + (IF waitingApproval THEN 1 ELSE 0) <= Cardinality(shown)
        /\ IsFiniteSet(shown) /\ spent \in Nat /\ approvalChan \in Seq(Answer)
    BY DEF ConsoleInv, KeysCounted, ConsoleTypeOK
  <2>2. Len(approvalChan) \in Nat /\ Cardinality(shown) \in Nat
    BY <2>1, FS_CardinalityType
  <2> QED
    BY <2>1, <2>2
<1> QED
  BY <1>1, ConsoleInvariant, PTL

\* Nothing is sent on the channel once the handler has closed it.
THEOREM ChannelIsRespected == ConsoleSpec => []NoSendOnClosed
<1>1. ConsoleInv => NoSendOnClosed
  BY DEF ConsoleInv, SendsBeforeClose, NoSendOnClosed
<1> QED
  BY <1>1, ConsoleInvariant, PTL

\* Once everything was applied and nothing was lost, the screen shows how the steps
\* and the target ended, however the events were cut into batches.
THEOREM ScreenIsTrue == ConsoleSpec => []ScreenTellsTheTruth
<1>1. ConsoleInv => ScreenTellsTheTruth
  <2> SUFFICES ASSUME ConsoleInv, tui, closed, sendCh = <<>>, ~ lost
               PROVE  /\ \A s \in Step, outcome \in {"done", "failed"} :
                           stepStatus[s] = outcome <=> step[s] = outcome
                      /\ nodeStatus = "failed" <=> errored
    BY DEF ScreenTellsTheTruth
  <2>1. buffer = <<>>
    BY DEF ConsoleInv, SendsBeforeClose, Quiescent
  <2>2. Len(Batches) = 1 /\ Len(Batches[1]) = 0
    BY <2>1 DEF Batches
  <2>3. EndsArrive /\ ErrorsArrive /\ ShownEndIsEnd
    BY DEF ConsoleInv, NothingLost
  <2> QED
    BY <2>2, <2>3 DEF EndsArrive, ErrorsArrive, ShownEndIsEnd
<1> QED
  BY <1>1, ConsoleInvariant, PTL
=============================================================================
