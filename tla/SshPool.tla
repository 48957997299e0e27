------------------------------- MODULE SshPool -------------------------------
(***************************************************************************)
(* pkg/sshutil/pool.go and the calls executor.go makes of it: SSH          *)
(* connections shared by host, the keep-alive loop and Close.              *)
(*                                                                         *)
(* The pool's mutex is held over the whole lookup, the probe of the pooled *)
(* connection included, so a peer that does not answer holds up everyone;  *)
(* it is not held while dialling, nor while the keep-alive loop probes.    *)
(* A pooled entry is identified by its connection: every insertion makes a *)
(* new entry for a new connection.                                         *)
(***************************************************************************)
EXTENDS Naturals, FiniteSets

CONSTANTS
  User,      \* the goroutines that run remote commands
  Host,      \* the pool keys
  Conn,      \* bound: the connections that may be dialled
  NoConn,    \* no connection
  NoUser     \* nobody holds the mutex

ASSUME PoolAssumption == NoConn \notin Conn /\ NoUser \notin User

VARIABLES
  clients,    \* clients[h]: the pooled connection of h
  link,       \* link[c]: "unused", "up", "silent", "broken" or "closed"
  mutex,      \* the user that holds the mutex over several steps
  task,       \* task[u]: how far the command of u got
  wants,      \* wants[u]: the host u runs its command on
  got,        \* got[u]: the connection u dialled or was given
  loop,       \* the keep-alive loop: "sleep", "sweep", "drop", "exit"
  candidates, \* the entries the loop still has to probe: <<host, connection>>
  invalid,    \* the entry the loop found invalid
  stopped,    \* stopKeepAlive is closed
  displaced   \* history: entries another insertion took the place of

vars == <<clients, link, mutex, task, wants, got, loop, candidates, invalid, stopped,
          displaced>>
userVars == <<task, wants, got>>
loopVars == <<loop, candidates, invalid>>

NoEntry == <<NoConn, NoConn>>
Open == {c \in Conn : link[c] \in {"up", "silent", "broken"}}
Pooled == {clients[h] : h \in Host} \ {NoConn}

Init ==
  /\ clients = [h \in Host |-> NoConn]
  /\ link = [c \in Conn |-> "unused"]
  /\ mutex = NoUser
  /\ task = [u \in User |-> "idle"]
  /\ wants \in [User -> Host]
  /\ got = [u \in User |-> NoConn]
  /\ loop = "sleep"
  /\ candidates = {}
  /\ invalid = NoEntry
  /\ stopped = FALSE
  /\ displaced = {}

-----------------------------------------------------------------------------
(* Executor.Run and GetOrCreate.                                           *)

Call(u, h) ==
  /\ task[u] = "idle"
  /\ task' = [task EXCEPT ![u] = "lookup"]
  /\ wants' = [wants EXCEPT ![u] = h]
  /\ UNCHANGED <<clients, link, mutex, got, loopVars, stopped, displaced>>

\* The mutex is taken, and kept while the pooled connection is probed.
Hit(u) ==
  /\ task[u] = "lookup"
  /\ mutex = NoUser
  /\ clients[wants[u]] # NoConn
  /\ mutex' = u
  /\ task' = [task EXCEPT ![u] = "probe"]
  /\ UNCHANGED <<clients, link, wants, got, loopVars, stopped, displaced>>

Miss(u) ==
  /\ task[u] = "lookup"
  /\ mutex = NoUser
  /\ clients[wants[u]] = NoConn
  /\ task' = [task EXCEPT ![u] = "dial"]
  /\ UNCHANGED <<clients, link, mutex, wants, got, loopVars, stopped, displaced>>

\* Mutant of Reuse: the early return forgets to unlock.
ReuseLocked(u) ==
  /\ task[u] = "probe"
  /\ link[clients[wants[u]]] = "up"
  /\ got' = [got EXCEPT ![u] = clients[wants[u]]]
  /\ task' = [task EXCEPT ![u] = "running"]
  /\ UNCHANGED <<clients, link, mutex, wants, loopVars, stopped, displaced>>

Reuse(u) ==
  /\ task[u] = "probe"
  /\ link[clients[wants[u]]] = "up"
  /\ got' = [got EXCEPT ![u] = clients[wants[u]]]
  /\ task' = [task EXCEPT ![u] = "running"]
  /\ mutex' = NoUser
  /\ UNCHANGED <<clients, link, wants, loopVars, stopped, displaced>>

Evict(u) ==
  /\ task[u] = "probe"
  /\ link[clients[wants[u]]] \in {"broken", "closed"}
  /\ link' = [link EXCEPT ![clients[wants[u]]] = "closed"]
  /\ clients' = [clients EXCEPT ![wants[u]] = NoConn]
  /\ task' = [task EXCEPT ![u] = "dial"]
  /\ mutex' = NoUser
  /\ UNCHANGED <<wants, got, loopVars, stopped, displaced>>

Dial(u, c) ==
  /\ task[u] = "dial"
  /\ link[c] = "unused"
  /\ link' = [link EXCEPT ![c] = "up"]
  /\ got' = [got EXCEPT ![u] = c]
  /\ task' = [task EXCEPT ![u] = "insert"]
  /\ UNCHANGED <<clients, mutex, wants, loopVars, stopped, displaced>>

DialFails(u) ==
  /\ task[u] = "dial"
  /\ task' = [task EXCEPT ![u] = "idle"]
  /\ UNCHANGED <<clients, link, mutex, wants, got, loopVars, stopped, displaced>>

\* The entry is stored without a look at what is there by now.
Insert(u) ==
  /\ task[u] = "insert"
  /\ mutex = NoUser
  /\ clients' = [clients EXCEPT ![wants[u]] = got[u]]
  /\ displaced' = displaced \cup ({clients[wants[u]]} \ {NoConn})
  /\ task' = [task EXCEPT ![u] = "running"]
  /\ UNCHANGED <<link, mutex, wants, got, loopVars, stopped>>

\* The command ends, or its session cannot be opened; the connection stays.
Finish(u) ==
  /\ task[u] = "running"
  /\ task' = [task EXCEPT ![u] = "idle"]
  /\ got' = [got EXCEPT ![u] = NoConn]
  /\ UNCHANGED <<clients, link, mutex, wants, loopVars, stopped, displaced>>

-----------------------------------------------------------------------------
(* The keep-alive loop.                                                    *)

\* A tick: any entries may have been idle for long enough.
Sweep ==
  /\ loop = "sleep"
  /\ mutex = NoUser
  /\ loop' = "sweep"
  /\ candidates' \in SUBSET {<<h, clients[h]>> : h \in {x \in Host : clients[x] # NoConn}}
  /\ UNCHANGED <<clients, link, mutex, userVars, invalid, stopped, displaced>>

\* Only the time of last use changes, if the entry is still the same.
ProbeValid(e) ==
  /\ loop = "sweep"
  /\ mutex = NoUser
  /\ e \in candidates
  /\ link[e[2]] = "up"
  /\ candidates' = candidates \ {e}
  /\ UNCHANGED <<clients, link, mutex, userVars, loop, invalid, stopped, displaced>>

ProbeInvalid(e) ==
  /\ loop = "sweep"
  /\ e \in candidates
  /\ link[e[2]] \in {"broken", "closed"}
  /\ candidates' = candidates \ {e}
  /\ invalid' = e
  /\ loop' = "drop"
  /\ UNCHANGED <<clients, link, mutex, userVars, stopped, displaced>>

\* Mutants of Drop: the entry of the host is removed, or closed, although it
\* need not be the one that was probed.
DropAnyEntry ==
  /\ loop = "drop"
  /\ mutex = NoUser
  /\ loop' = "sweep"
  /\ invalid' = NoEntry
  /\ clients' = [clients EXCEPT ![invalid[1]] = NoConn]
  /\ link' = [link EXCEPT ![invalid[2]] = "closed"]
  /\ UNCHANGED <<mutex, userVars, candidates, stopped, displaced>>

DropCurrent ==
  /\ loop = "drop"
  /\ mutex = NoUser
  /\ loop' = "sweep"
  /\ invalid' = NoEntry
  /\ clients' = [clients EXCEPT ![invalid[1]] = NoConn]
  /\ link' = IF clients[invalid[1]] # NoConn
             THEN [link EXCEPT ![clients[invalid[1]]] = "closed"] ELSE link
  /\ UNCHANGED <<mutex, userVars, candidates, stopped, displaced>>

Drop ==
  /\ loop = "drop"
  /\ mutex = NoUser
  /\ loop' = "sweep"
  /\ invalid' = NoEntry
  /\ IF clients[invalid[1]] = invalid[2]
     THEN /\ clients' = [clients EXCEPT ![invalid[1]] = NoConn]
          /\ link' = [link EXCEPT ![invalid[2]] = "closed"]
     ELSE UNCHANGED <<clients, link>>
  /\ UNCHANGED <<mutex, userVars, candidates, stopped, displaced>>

SweepEnds ==
  /\ loop = "sweep"
  /\ candidates = {}
  /\ loop' = "sleep"
  /\ UNCHANGED <<clients, link, mutex, userVars, candidates, invalid, stopped, displaced>>

LoopExits ==
  /\ loop = "sleep"
  /\ stopped
  /\ loop' = "exit"
  /\ UNCHANGED <<clients, link, mutex, userVars, candidates, invalid, stopped, displaced>>

-----------------------------------------------------------------------------
\* Pool.Close; a second call closes what was inserted since.
Close ==
  /\ mutex = NoUser
  /\ stopped' = TRUE
  /\ link' = [c \in Conn |-> IF c \in Pooled THEN "closed" ELSE link[c]]
  /\ clients' = [h \in Host |-> NoConn]
  /\ UNCHANGED <<mutex, userVars, loopVars, displaced>>

\* The peer stops answering.
FallSilent(c) ==
  /\ link[c] = "up"
  /\ link' = [link EXCEPT ![c] = "silent"]
  /\ UNCHANGED <<clients, mutex, userVars, loopVars, stopped, displaced>>

\* The network, the server or TCP's own keep-alive ends a connection.
Break(c) ==
  /\ link[c] \in {"up", "silent"}
  /\ link' = [link EXCEPT ![c] = "broken"]
  /\ UNCHANGED <<clients, mutex, userVars, loopVars, stopped, displaced>>

-----------------------------------------------------------------------------
InRun(u) ==
  \/ Hit(u) \/ Miss(u) \/ Reuse(u) \/ Evict(u)
  \/ DialFails(u) \/ (\E c \in Conn : Dial(u, c))
  \/ Insert(u) \/ Finish(u)

InSweep ==
  \/ \E e \in candidates : ProbeValid(e) \/ ProbeInvalid(e)
  \/ Drop \/ SweepEnds

KeepAlive == Sweep \/ InSweep \/ LoopExits

Next ==
  \/ \E u \in User : InRun(u) \/ \E h \in Host : Call(u, h)
  \/ KeepAlive
  \/ Close
  \/ \E c \in Conn : FallSilent(c) \/ Break(c)

Spec == Init /\ [][Next]_vars

\* A goroutine inside GetOrCreate is scheduled, dialling and a command end, and
\* the loop goes on; who waits for the mutex gets it in the end, as Go's mutexes
\* do not starve, and a silent connection is ended by TCP's keep-alive.  Of the
\* tick and the stop signal either may win for long, but not for ever: select
\* chooses at random.
Fairness ==
  /\ \A u \in User : SF_vars(InRun(u))
  /\ SF_vars(InSweep)
  /\ SF_vars(LoopExits)
  /\ \A c \in Conn : WF_vars(link[c] = "silent" /\ Break(c))

FairSpec == Spec /\ Fairness

-----------------------------------------------------------------------------
(* Properties.                                                             *)

\* The variables stay in their types; who inserts or runs has a connection.
TypeOK ==
  /\ clients \in [Host -> Conn \cup {NoConn}]
  /\ link \in [Conn -> {"unused", "up", "silent", "broken", "closed"}]
  /\ mutex \in User \cup {NoUser}
  /\ task \in [User -> {"idle", "lookup", "probe", "dial", "insert", "running"}]
  /\ wants \in [User -> Host]
  /\ got \in [User -> Conn \cup {NoConn}]
  /\ \A u \in User : task[u] \in {"insert", "running"} => got[u] \in Conn
  /\ loop \in {"sleep", "sweep", "drop", "exit"}
  /\ candidates \subseteq Host \X Conn
  /\ invalid \in (Host \X Conn) \cup {NoEntry}
  /\ stopped \in BOOLEAN
  /\ displaced \subseteq Conn

\* The pool never offers a connection it has closed, nor one connection for
\* two hosts, however lookups, sweeps and Close overlap.
PooledAreOpen ==
  /\ Pooled \subseteq Open
  /\ \A g, h \in Host : clients[g] = clients[h] /\ clients[g] # NoConn => g = h

\* A connection that is still open is in the pool, in the hands of the user
\* that dialled it, or was displaced by another insertion: neither the lookup
\* nor the keep-alive loop nor Close loses one.
OpenAreAccounted ==
  \A c \in Open :
    c \in Pooled \cup displaced \/ \E u \in User : task[u] = "insert" /\ got[u] = c

\* A connection that works, or whose peer is only slow, is closed by Close only:
\* no lookup and no sweep takes it from the users that run commands on it.
WorkingStayOpen ==
  [][\A c \in Conn : link[c] \in {"up", "silent"} /\ link'[c] = "closed" => Close]_vars

\* GetOrCreate returns, and the command with it, also when another lookup holds
\* the mutex over the probe of a connection whose peer is silent.
CommandsEnd == \A u \in User : task[u] = "lookup" ~> task[u] = "idle"

=============================================================================
