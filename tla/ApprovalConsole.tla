---------------------------- MODULE ApprovalConsole ----------------------------
(***************************************************************************)
(* Manual approvals and the terminal that shows them: steps publish their  *)
(* events, the handler of the bus batches them, the terminal applies the   *)
(* batches and sends the keys y and n to a gate that waits.  Without a     *)
(* terminal every gate reads a line of the standard input by itself.       *)
(***************************************************************************)
EXTENDS Naturals, Sequences, FiniteSets

CONSTANTS
  Worker,       \* a step with one target
  Gate,         \* the steps that wait for approval, which need the worker
  Conditional,  \* the steps with a run_if
  BufferSize,   \* events the handler keeps
  SendSize,     \* batches the channel to the terminal holds
  Logs          \* bound: how many lines the worker logs

ASSUME ConsoleAssumption ==
  /\ Worker \notin Gate /\ Conditional \subseteq Gate \cup {Worker}
  /\ {BufferSize, SendSize} \subseteq Nat \ {0} /\ Logs \in Nat

Step == Gate \cup {Worker}

Answer == {"y", "n"}

VARIABLES
  tui,               \* whether there is a terminal
  capacity,          \* of the channel of keys, the command line's choice
  step,              \* step[s]: how far the step s is
  cancelled,         \* the context of the steps
  logged,            \* lines the worker has logged
  errored,           \* one of them was an error
  buffer,            \* events not yet sent, oldest first
  sendCh,            \* batches not yet applied
  drain,             \* the goroutine that sends batches
  closed,            \* the handler closed sendCh
  approvalChan,      \* keys not yet received
  readers,           \* gates whose goroutine reads a line, ended or not
  reply,             \* reply[g]: what the gate g received
  waitingApproval, stepStatus, nodeStatus, quit,   \* the terminal
  shown, spent, lost, panicked   \* history: gates shown waiting, keys received,
                                 \* an event was lost, a send on a closed channel

engineVars == <<tui, capacity, step, cancelled, logged, errored>>
handlerVars == <<buffer, sendCh, drain, closed>>
inputVars == <<approvalChan, readers, reply>>
screenVars == <<waitingApproval, stepStatus, nodeStatus, quit>>
consoleVars == <<engineVars, handlerVars, inputVars, screenVars, shown, spent, lost, panicked>>

Ended(s) == step[s] \in {"done", "failed", "skipped", "refused"}

ConsoleInit ==
  /\ tui \in BOOLEAN /\ capacity \in IF tui THEN 0..1 ELSE {0}
  /\ step = [s \in Step |-> "pending"]
  /\ cancelled = FALSE
  /\ logged = 0 /\ errored = FALSE
  /\ buffer = <<>> /\ sendCh = <<>> /\ drain = "ticking" /\ closed = FALSE
  /\ approvalChan = <<>> /\ readers = {} /\ reply = [g \in Gate |-> "none"]
  /\ waitingApproval = FALSE /\ quit = FALSE
  /\ stepStatus = [s \in Step |-> "pending"] /\ nodeStatus = "none"
  /\ shown = {} /\ spent = 0 /\ lost = FALSE /\ panicked = FALSE

-----------------------------------------------------------------------------
(* The engine's goroutines.  The bus hands events on in their order.       *)

Event(type, s, what) == [type |-> type, step |-> s, what |-> what]

\* A full buffer drops the event.
HandleEvent(e) ==
  IF ~tui THEN UNCHANGED <<buffer, lost>>
  ELSE IF Len(buffer) < BufferSize
       THEN buffer' = Append(buffer, e) /\ UNCHANGED lost
       ELSE lost' = TRUE /\ UNCHANGED buffer

\* Needs that are fulfilled may be taken although the context is cancelled, and a step
\* without needs never looks at it.  A step whose type or targets are unknown fails
\* without an event.
StartStep(s) ==
  /\ step[s] = "pending"
  /\ s \in Gate => step[Worker] \in {"done", "skipped"}
  /\ \/ /\ step' = [step EXCEPT ![s] = "running"]
        /\ HandleEvent(Event("status", s, "Running"))
        /\ UNCHANGED cancelled
     \/ /\ s \in Conditional
        /\ step' = [step EXCEPT ![s] = "skipped"]
        /\ HandleEvent(Event("status", s, "Skipped"))
        /\ UNCHANGED cancelled
     \/ /\ step' = [step EXCEPT ![s] = "refused"]
        /\ cancelled' = TRUE
        /\ UNCHANGED <<buffer, lost>>
  /\ UNCHANGED <<tui, capacity, logged, errored, sendCh, drain, closed, inputVars,
                 screenVars, shown, spent, panicked>>

\* The need has failed, or the context is cancelled while a gate waits for it.
GiveUp(g) ==
  /\ step[g] = "pending"
  /\ cancelled \/ step[Worker] = "failed"
  /\ step' = [step EXCEPT ![g] = "refused"]
  /\ cancelled' = TRUE
  /\ UNCHANGED <<tui, capacity, logged, errored, handlerVars, inputVars, screenVars, shown, spent,
                 lost, panicked>>

\* The step returns; the group cancels the context of the others if it failed.
Finish(s, outcome) ==
  /\ step' = [step EXCEPT ![s] = outcome]
  /\ cancelled' = (cancelled \/ outcome = "failed")
  /\ HandleEvent(Event("status", s, IF outcome = "done" THEN "Done" ELSE "Failed"))
  /\ UNCHANGED <<tui, capacity, logged, errored, sendCh, drain, closed, screenVars, shown, panicked>>

WorkerLogs(level) ==
  /\ step[Worker] = "running" /\ logged < Logs
  /\ logged' = logged + 1
  /\ errored' = (errored \/ level = "ERROR")
  /\ HandleEvent(Event("log", Worker, level))
  /\ UNCHANGED <<tui, capacity, step, cancelled, sendCh, drain, closed, inputVars, screenVars,
                 shown, spent, panicked>>

WorkerEnds ==
  /\ step[Worker] = "running"
  /\ \E outcome \in {"done", "failed"} : Finish(Worker, outcome)
  /\ UNCHANGED <<inputVars, spent>>

-----------------------------------------------------------------------------
(* A gate.                                                                 *)

\* The environment approves, or no message is configured.
Ungated(g) ==
  /\ step[g] = "running"
  /\ \E outcome \in {"done", "failed"} : Finish(g, outcome)
  /\ UNCHANGED <<inputVars, spent>>

Ask(g) ==
  /\ step[g] = "running"
  /\ step' = [step EXCEPT ![g] = "waiting"]
  /\ IF tui THEN HandleEvent(Event("approval", g, "")) /\ UNCHANGED readers
            ELSE readers' = readers \cup {g} /\ UNCHANGED <<buffer, lost>>
  /\ UNCHANGED <<tui, capacity, cancelled, logged, errored, sendCh, drain, closed, approvalChan,
                 reply, screenVars, shown, spent, panicked>>

\* A gate takes a key that waits in the channel.
TakeKey(g) ==
  /\ step[g] = "waiting" /\ reply[g] = "none" /\ approvalChan # <<>>
  /\ reply' = [reply EXCEPT ![g] = Head(approvalChan)]
  /\ approvalChan' = Tail(approvalChan)
  /\ spent' = spent + 1
  /\ UNCHANGED <<engineVars, handlerVars, readers, screenVars, shown, lost, panicked>>

Decide(g) ==
  /\ step[g] = "waiting" /\ reply[g] # "none"
  /\ Finish(g, IF reply[g] = "y" THEN "done" ELSE "failed")
  /\ reply' = [reply EXCEPT ![g] = "none"]
  /\ UNCHANGED <<approvalChan, readers, spent>>

\* Mutant of Expire: the gate waits without a deadline of its own.
ExpireOnCancelOnly(g) ==
  /\ step[g] = "waiting" /\ (tui => reply[g] = "none") /\ cancelled
  /\ Finish(g, "failed")
  /\ reply' = [reply EXCEPT ![g] = "none"]
  /\ UNCHANGED <<approvalChan, readers, spent>>

\* The timeout, or the cancelled context.  A line that is there may lose to it.
Expire(g) ==
  /\ step[g] = "waiting" /\ (tui => reply[g] = "none")
  /\ Finish(g, "failed")
  /\ reply' = [reply EXCEPT ![g] = "none"]
  /\ UNCHANGED <<approvalChan, readers, spent>>

\* A line of the standard input goes to any of the goroutines that read, also to
\* that of a gate that is over.
Line(g) ==
  /\ g \in readers
  /\ readers' = readers \ {g}
  /\ IF step[g] = "waiting"
     THEN \E answer \in Answer \cup {"other"} : reply' = [reply EXCEPT ![g] = answer]
     ELSE UNCHANGED reply
  /\ spent' = spent + 1
  /\ UNCHANGED <<engineVars, handlerVars, approvalChan, screenVars, shown, lost, panicked>>

-----------------------------------------------------------------------------
(* The handler.                                                            *)

\* A batch that does not fit is gone.
Flush ==
  /\ buffer' = <<>>
  /\ panicked' = (panicked \/ (closed /\ buffer # <<>>))
  /\ IF buffer = <<>> THEN UNCHANGED <<sendCh, lost>>
     ELSE IF Len(sendCh) < SendSize /\ ~closed
          THEN sendCh' = Append(sendCh, buffer) /\ UNCHANGED lost
          ELSE lost' = TRUE /\ UNCHANGED sendCh

Tick ==
  /\ drain = "ticking" /\ buffer # <<>>
  /\ Flush
  /\ UNCHANGED <<engineVars, drain, closed, inputVars, screenVars, shown, spent>>

\* The bus was stopped after the phase: every step has returned.  The lines that a
\* rollback logs before are left out: they name no target and change no
\* status of a step whose own events have arrived.
CloseBegins ==
  /\ drain = "ticking"
  /\ \A s \in Step : Ended(s)
  /\ drain' = "stopping"
  /\ UNCHANGED <<engineVars, buffer, sendCh, closed, inputVars, screenVars, shown, spent, lost, panicked>>

LastFlush ==
  /\ drain = "stopping"
  /\ Flush
  /\ drain' = "gone"
  /\ UNCHANGED <<engineVars, closed, inputVars, screenVars, shown, spent>>

\* Mutant of CloseEnds: it does not wait for the goroutine.
CloseEndsAtOnce ==
  /\ drain \in {"stopping", "gone"} /\ ~closed
  /\ closed' = TRUE
  /\ UNCHANGED <<engineVars, buffer, sendCh, drain, inputVars, screenVars, shown, spent, lost, panicked>>

CloseEnds ==
  /\ drain = "gone" /\ ~closed
  /\ closed' = TRUE
  /\ UNCHANGED <<engineVars, buffer, sendCh, drain, inputVars, screenVars, shown, spent, lost, panicked>>

-----------------------------------------------------------------------------
(* The terminal.                                                           *)

\* The status of a step after the event e.
StepAfter(status, e) ==
  IF e.type = "status"
  THEN CASE e.what = "Done" -> "done"
         [] e.what = "Failed" -> "failed"
         [] OTHER -> "running"
  ELSE IF e.type = "log" /\ status = "pending" THEN "running" ELSE status

\* Mutant of NodeAfter: the end of the step also ends the target that failed.
NodeAfterForgiving(status, e) ==
  IF e.step # Worker THEN status
  ELSE IF e.type = "log"
       THEN CASE e.what = "ERROR" -> "failed"
              [] e.what = "COMPLETE" -> "done"
              [] OTHER -> IF status = "none" THEN "running" ELSE status
       ELSE IF e.what \in {"Done", "Failed"} /\ status # "none" THEN "done" ELSE status

\* The status of the worker's target after the event e.
NodeAfter(status, e) ==
  IF e.step # Worker THEN status
  ELSE IF e.type = "log"
       THEN IF e.what = "ERROR" THEN "failed"
            ELSE IF status = "failed" THEN status
            ELSE IF e.what = "COMPLETE" THEN "done"
            ELSE IF status = "none" THEN "running" ELSE status
       ELSE IF e.what \in {"Done", "Failed"} /\ status = "running" THEN "done" ELSE status

\* The states that the events of a batch lead to, one after the other.
StepsAfter(batch) ==
  LET f[i \in 0..Len(batch)] ==
        IF i = 0 THEN stepStatus
        ELSE [f[i-1] EXCEPT ![batch[i].step] = StepAfter(@, batch[i])]
  IN  f[Len(batch)]

NodesAfter(batch) ==
  LET f[i \in 0..Len(batch)] == IF i = 0 THEN nodeStatus ELSE NodeAfter(f[i-1], batch[i])
  IN  f[Len(batch)]

ApplyEvents ==
  /\ sendCh # <<>> /\ ~quit
  /\ sendCh' = Tail(sendCh)
  /\ LET batch == Head(sendCh)
         asking == {batch[i].step : i \in {j \in DOMAIN batch : batch[j].type = "approval"}}
     IN  /\ waitingApproval' = (waitingApproval \/ asking # {})
         /\ stepStatus' = StepsAfter(batch)
         /\ nodeStatus' = NodesAfter(batch)
         /\ shown' = shown \cup asking
  /\ UNCHANGED <<engineVars, buffer, drain, closed, inputVars, quit, spent, lost, panicked>>

\* The key goes to the channel, or straight to a gate when that holds nothing.
Sent(key) ==
  \/ /\ Len(approvalChan) < capacity
     /\ approvalChan' = Append(approvalChan, key)
     /\ UNCHANGED <<reply, spent>>
  \/ /\ capacity = 0
     /\ \E g \in Gate :
          /\ step[g] = "waiting" /\ reply[g] = "none"
          /\ reply' = [reply EXCEPT ![g] = key]
     /\ spent' = spent + 1
     /\ UNCHANGED approvalChan

\* Mutant of Key: the flag stays until the next batch.
KeyKeepsFlag(key) ==
  /\ tui /\ waitingApproval /\ ~quit
  /\ Sent(key)
  /\ UNCHANGED <<engineVars, handlerVars, readers, screenVars, shown, lost, panicked>>

\* A key that nobody can take leaves everything as it is.
Key(key) ==
  /\ tui /\ waitingApproval /\ ~quit
  /\ Sent(key)
  /\ waitingApproval' = FALSE
  /\ UNCHANGED <<engineVars, handlerVars, readers, stepStatus, nodeStatus, quit, shown, lost, panicked>>

\* q and ctrl+c cancel the run and end the terminal.
Quit ==
  /\ tui /\ ~quit
  /\ quit' = TRUE /\ cancelled' = TRUE
  /\ UNCHANGED <<tui, capacity, step, logged, errored, handlerVars, inputVars, waitingApproval,
                 stepStatus, nodeStatus, shown, spent, lost, panicked>>

-----------------------------------------------------------------------------
GateStep(g) == Ungated(g) \/ Ask(g) \/ TakeKey(g) \/ Decide(g) \/ Expire(g)

Work == WorkerEnds \/ \E level \in {"ERROR", "COMPLETE", "INFO"} : WorkerLogs(level)

Close == CloseBegins \/ LastFlush \/ CloseEnds

ConsoleNext ==
  \/ (\E s \in Step : StartStep(s)) \/ (\E g \in Gate : GiveUp(g) \/ GateStep(g) \/ Line(g)) \/ Work
  \/ Tick \/ Close
  \/ ApplyEvents \/ (\E key \in Answer : Key(key)) \/ Quit

\* Goroutines get on, timers fire; nobody has to type, and the terminal may hang.
ConsoleFairness ==
  /\ WF_consoleVars(StartStep(Worker))
  /\ \A g \in Gate : WF_consoleVars(StartStep(g) \/ GiveUp(g))
  /\ \A g \in Gate : WF_consoleVars(Ungated(g) \/ Ask(g)) /\ WF_consoleVars(Expire(g) \/ Decide(g))
  /\ WF_consoleVars(WorkerEnds) /\ WF_consoleVars(Close)

ConsoleSpec == ConsoleInit /\ [][ConsoleNext]_consoleVars /\ ConsoleFairness

-----------------------------------------------------------------------------
(* Properties.                                                             *)

\* With a terminal, the keys that gates have received and those that lie in the channel
\* are never more than the gates shown waiting: one key pressed twice counts once, and
\* no key is taken before a gate was shown.  Which gate a key answers is not said: one
\* typed for a gate that has expired may approve another that was not shown yet.
OneKeyOneGate == tui => spent + Len(approvalChan) <= Cardinality(shown)

\* When the handler is closed while its goroutine is at work, nothing is sent on
\* the closed channel, which would end the program with a panic.
NoSendOnClosed == ~panicked

\* When the last batch is applied and none was lost, the terminal shows a step as
\* done or failed exactly when it ran to that end, and the target as failed when it logged an
\* error, however the events were cut into batches.
ScreenTellsTheTruth ==
  tui /\ closed /\ sendCh = <<>> /\ ~lost =>
    /\ \A s \in Step, outcome \in {"done", "failed"} : stepStatus[s] = outcome <=> step[s] = outcome
    /\ nodeStatus = "failed" <=> errored

\* A gate that waits ends by its timeout at the latest, even when the event that
\* asks was lost, another gate took the key, or nobody types.
GatesEnd == \A g \in Gate : step[g] = "waiting" ~> step[g] \in {"done", "failed"}
=============================================================================
