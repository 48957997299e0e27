---------------------------- MODULE SshPoolProofs ----------------------------
(***************************************************************************)
(* Proofs about SshPool, for any users, hosts and connections.             *)
(***************************************************************************)
EXTENDS SshPool, TLAPS

\* A user that probes holds the mutex, so the entry it probes stays.
MutexHeld ==
  \A u \in User : task[u] = "probe" => mutex = u /\ clients[wants[u]] # NoConn

\* A connection dialled and not yet inserted is open and known to its user only.
Fresh ==
  \A u \in User : task[u] = "insert" =>
    /\ got[u] \in Open
    /\ \A h \in Host : clients[h] # got[u]
    /\ \A v \in User : task[v] = "insert" /\ got[v] = got[u] => u = v

\* The pool is injective and its entries are open: PooledAreOpen, pointwise.
Entries ==
  /\ \A h \in Host : clients[h] # NoConn => clients[h] \in Open
  /\ \A g, h \in Host : clients[g] = clients[h] /\ clients[g] # NoConn => g = h

\* An open connection is an entry, displaced, or about to be inserted.
Accounted ==
  \A c \in Conn : c \in Open =>
    \/ \E h \in Host : clients[h] = c
    \/ c \in displaced
    \/ \E u \in User : task[u] = "insert" /\ got[u] = c

\* What the loop is about to drop was found dead, and stays dead.
FoundDead ==
  loop = "drop" => invalid \in Host \X Conn /\ link[invalid[2]] \in {"broken", "closed"}

Inv == TypeOK /\ MutexHeld /\ Fresh /\ Entries /\ Accounted /\ FoundDead

-----------------------------------------------------------------------------
LEMMA InitInv == Init => Inv
<1> SUFFICES ASSUME Init PROVE Inv
  OBVIOUS
<1> USE DEF Init
<1>1. TypeOK
  BY DEF TypeOK, NoEntry
<1>2. MutexHeld /\ Fresh /\ Entries /\ FoundDead
  BY DEF MutexHeld, Fresh, Entries, FoundDead
<1>3. Accounted
  BY DEF Accounted, Open
<1> QED
  BY <1>1, <1>2, <1>3 DEF Inv

\* Every step keeps the variables in their types.
LEMMA NextType == TypeOK /\ MutexHeld /\ [Next]_vars => TypeOK'
<1> SUFFICES ASSUME TypeOK, MutexHeld, [Next]_vars PROVE TypeOK'
  OBVIOUS
<1> USE PoolAssumption DEF PoolAssumption, TypeOK, userVars, loopVars
<1>1. ASSUME NEW u \in User, NEW h \in Host, Call(u, h) PROVE TypeOK'
  BY <1>1 DEF Call
<1>2. ASSUME NEW u \in User, Hit(u) PROVE TypeOK'
  BY <1>2 DEF Hit
<1>3. ASSUME NEW u \in User, Miss(u) PROVE TypeOK'
  BY <1>3 DEF Miss
<1>4. ASSUME NEW u \in User, Reuse(u) PROVE TypeOK'
  <2>1. clients[wants[u]] \in Conn
    BY <1>4 DEF Reuse, MutexHeld
  <2> QED
    BY <1>4, <2>1 DEF Reuse
<1>5. ASSUME NEW u \in User, Evict(u) PROVE TypeOK'
  BY <1>5 DEF Evict
<1>6. ASSUME NEW u \in User, NEW c \in Conn, Dial(u, c) PROVE TypeOK'
  BY <1>6 DEF Dial
<1>7. ASSUME NEW u \in User, DialFails(u) PROVE TypeOK'
  BY <1>7 DEF DialFails
<1>8. ASSUME NEW u \in User, Insert(u) PROVE TypeOK'
  <2>1. got[u] \in Conn /\ displaced' \subseteq Conn
    BY <1>8 DEF Insert
  <2> QED
    BY <1>8, <2>1 DEF Insert
<1>9. ASSUME NEW u \in User, Finish(u) PROVE TypeOK'
  BY <1>9 DEF Finish
<1>10. CASE Sweep
  <2>1. candidates' \subseteq Host \X Conn
    BY <1>10 DEF Sweep
  <2> QED
    BY <1>10, <2>1 DEF Sweep
<1>11. ASSUME NEW e \in candidates, ProbeValid(e) PROVE TypeOK'
  BY <1>11 DEF ProbeValid
<1>12. ASSUME NEW e \in candidates, ProbeInvalid(e) PROVE TypeOK'
  BY <1>12 DEF ProbeInvalid
<1>13. CASE Drop
  <2>1. clients' \in [Host -> Conn \cup {NoConn}]
    BY <1>13 DEF Drop
  <2>2. link' \in [Conn -> {"unused", "up", "silent", "broken", "closed"}]
    BY <1>13 DEF Drop
  <2> QED
    BY <1>13, <2>1, <2>2 DEF Drop
<1>14. CASE SweepEnds \/ LoopExits
  BY <1>14 DEF SweepEnds, LoopExits
<1>15. CASE Close
  BY <1>15 DEF Close
<1>16. ASSUME NEW c \in Conn, FallSilent(c) \/ Break(c) PROVE TypeOK'
  BY <1>16 DEF FallSilent, Break
<1>17. CASE UNCHANGED vars
  BY <1>17 DEF vars
<1> QED
  BY <1>1, <1>2, <1>3, <1>4, <1>5, <1>6, <1>7, <1>8, <1>9, <1>10, <1>11, <1>12,
     <1>13, <1>14, <1>15, <1>16, <1>17 DEF Next, InRun, KeepAlive, InSweep

-----------------------------------------------------------------------------
\* While a user probes, nobody else has the mutex that changing the pool needs.
LEMMA NextMutex == TypeOK /\ MutexHeld /\ [Next]_vars => MutexHeld'
<1> SUFFICES ASSUME TypeOK, MutexHeld, [Next]_vars PROVE MutexHeld'
  OBVIOUS
<1> USE PoolAssumption DEF PoolAssumption, TypeOK, MutexHeld, userVars, loopVars
<1>1. ASSUME NEW u \in User, NEW h \in Host, Call(u, h) PROVE MutexHeld'
  BY <1>1 DEF Call
<1>2. ASSUME NEW u \in User, Hit(u) \/ Miss(u) PROVE MutexHeld'
  BY <1>2 DEF Hit, Miss
<1>3. ASSUME NEW u \in User, Reuse(u) \/ Evict(u) PROVE MutexHeld'
  BY <1>3 DEF Reuse, Evict
<1>4. ASSUME NEW u \in User, NEW c \in Conn, Dial(u, c) PROVE MutexHeld'
  BY <1>4 DEF Dial
<1>5. ASSUME NEW u \in User, DialFails(u) \/ Insert(u) \/ Finish(u) PROVE MutexHeld'
  BY <1>5 DEF DialFails, Insert, Finish
<1>6. CASE Sweep \/ SweepEnds \/ LoopExits
  BY <1>6 DEF Sweep, SweepEnds, LoopExits
<1>7. ASSUME NEW e \in candidates, ProbeValid(e) \/ ProbeInvalid(e) PROVE MutexHeld'
  BY <1>7 DEF ProbeValid, ProbeInvalid
<1>8. CASE Drop \/ Close
  BY <1>8 DEF Drop, Close
<1>9. ASSUME NEW c \in Conn, FallSilent(c) \/ Break(c) PROVE MutexHeld'
  BY <1>9 DEF FallSilent, Break
<1>10. CASE UNCHANGED vars
  BY <1>10 DEF vars
<1> QED
  BY <1>1, <1>2, <1>3, <1>4, <1>5, <1>6, <1>7, <1>8, <1>9, <1>10
     DEF Next, InRun, KeepAlive, InSweep

\* Only what is dead is dropped, and a dead connection does not come back.
LEMMA NextFoundDead == TypeOK /\ FoundDead /\ [Next]_vars => FoundDead'
<1> SUFFICES ASSUME TypeOK, FoundDead, [Next]_vars PROVE FoundDead'
  OBVIOUS
<1> USE PoolAssumption DEF PoolAssumption, TypeOK, FoundDead, userVars, loopVars
<1>1. ASSUME NEW u \in User, NEW h \in Host, Call(u, h) PROVE FoundDead'
  BY <1>1 DEF Call
<1>2. ASSUME NEW u \in User, Hit(u) \/ Miss(u) \/ Reuse(u) PROVE FoundDead'
  BY <1>2 DEF Hit, Miss, Reuse
<1>3. ASSUME NEW u \in User, Evict(u) PROVE FoundDead'
  BY <1>3 DEF Evict
<1>4. ASSUME NEW u \in User, NEW c \in Conn, Dial(u, c) PROVE FoundDead'
  BY <1>4 DEF Dial
<1>5. ASSUME NEW u \in User, DialFails(u) \/ Insert(u) \/ Finish(u) PROVE FoundDead'
  BY <1>5 DEF DialFails, Insert, Finish
<1>6. CASE Sweep \/ Drop \/ SweepEnds \/ LoopExits
  BY <1>6 DEF Sweep, Drop, SweepEnds, LoopExits
<1>7. ASSUME NEW e \in candidates, ProbeValid(e) \/ ProbeInvalid(e) PROVE FoundDead'
  BY <1>7 DEF ProbeValid, ProbeInvalid
<1>8. CASE Close
  BY <1>8 DEF Close
<1>9. ASSUME NEW c \in Conn, FallSilent(c) \/ Break(c) PROVE FoundDead'
  BY <1>9 DEF FallSilent, Break
<1>10. CASE UNCHANGED vars
  BY <1>10 DEF vars
<1> QED
  BY <1>1, <1>2, <1>3, <1>4, <1>5, <1>6, <1>7, <1>8, <1>9, <1>10
     DEF Next, InRun, KeepAlive, InSweep

-----------------------------------------------------------------------------
\* Entries stay open and distinct, and a fresh connection stays out of the pool
\* until its user inserts it.
LEMMA NextEntries ==
  (TypeOK /\ MutexHeld /\ Fresh /\ Entries) /\ [Next]_vars => Fresh' /\ Entries'
<1> SUFFICES ASSUME TypeOK, MutexHeld, Fresh, Entries, [Next]_vars
             PROVE  Fresh' /\ Entries'
  OBVIOUS
<1> USE PoolAssumption DEF PoolAssumption, TypeOK, Fresh, Entries, Open, userVars, loopVars
<1>1. ASSUME NEW u \in User, NEW h \in Host, Call(u, h) PROVE Fresh' /\ Entries'
  BY <1>1 DEF Call
<1>2. ASSUME NEW u \in User, Hit(u) \/ Miss(u) PROVE Fresh' /\ Entries'
  BY <1>2 DEF Hit, Miss
<1>3. ASSUME NEW u \in User, Reuse(u) PROVE Fresh' /\ Entries'
  BY <1>3 DEF Reuse
<1>4. ASSUME NEW u \in User, Evict(u) PROVE Fresh' /\ Entries'
  <2>1. clients[wants[u]] \in Conn /\ wants[u] \in Host
    BY <1>4 DEF Evict, MutexHeld
  <2>2. Entries'
    BY <1>4, <2>1 DEF Evict
  <2>3. Fresh'
    BY <1>4, <2>1 DEF Evict
  <2> QED
    BY <2>2, <2>3
<1>5. ASSUME NEW u \in User, NEW c \in Conn, Dial(u, c) PROVE Fresh' /\ Entries'
  <2>1. Entries'
    BY <1>5 DEF Dial
  <2>2. Fresh'
    BY <1>5 DEF Dial
  <2> QED
    BY <2>1, <2>2
<1>6. ASSUME NEW u \in User, DialFails(u) \/ Finish(u) PROVE Fresh' /\ Entries'
  BY <1>6 DEF DialFails, Finish
<1>7. ASSUME NEW u \in User, Insert(u) PROVE Fresh' /\ Entries'
  <2>1. Entries'
    BY <1>7 DEF Insert
  <2>2. Fresh'
    BY <1>7 DEF Insert
  <2> QED
    BY <2>1, <2>2
<1>8. CASE Sweep \/ SweepEnds \/ LoopExits
  BY <1>8 DEF Sweep, SweepEnds, LoopExits
<1>9. ASSUME NEW e \in candidates, ProbeValid(e) \/ ProbeInvalid(e) PROVE Fresh' /\ Entries'
  BY <1>9 DEF ProbeValid, ProbeInvalid
<1>10. CASE Drop
  <2>1. CASE clients[invalid[1]] # invalid[2]
    BY <1>10, <2>1 DEF Drop
  <2>2. CASE clients[invalid[1]] = invalid[2] /\ invalid \in Host \X Conn
    <3>1. Entries'
      BY <1>10, <2>2 DEF Drop
    <3>2. Fresh'
      BY <1>10, <2>2 DEF Drop
    <3> QED
      BY <3>1, <3>2
  <2>3. CASE invalid = NoEntry
    BY <1>10, <2>3 DEF Drop, NoEntry
  <2> QED
    BY <2>1, <2>2, <2>3
<1>11. CASE Close
  <2>1. Entries'
    BY <1>11 DEF Close
  <2>2. \A u \in User : task[u] = "insert" => got[u] \notin Pooled
    BY DEF Pooled
  <2>3. Fresh'
    BY <1>11, <2>2 DEF Close
  <2> QED
    BY <2>1, <2>3
<1>12. ASSUME NEW c \in Conn, FallSilent(c) \/ Break(c) PROVE Fresh' /\ Entries'
  BY <1>12 DEF FallSilent, Break
<1>13. CASE UNCHANGED vars
  BY <1>13 DEF vars
<1> QED
  BY <1>1, <1>2, <1>3, <1>4, <1>5, <1>6, <1>7, <1>8, <1>9, <1>10, <1>11, <1>12,
     <1>13 DEF Next, InRun, KeepAlive, InSweep

-----------------------------------------------------------------------------
\* Nobody forgets an open connection: what leaves the pool is closed or displaced.
LEMMA NextAccounted ==
  (TypeOK /\ MutexHeld /\ Entries /\ Accounted) /\ [Next]_vars => Accounted'
<1> SUFFICES ASSUME TypeOK, MutexHeld, Entries, Accounted, [Next]_vars
             PROVE  Accounted'
  OBVIOUS
<1> USE PoolAssumption DEF PoolAssumption, TypeOK, Accounted, Open, userVars, loopVars
<1>1. ASSUME NEW u \in User, NEW h \in Host, Call(u, h) PROVE Accounted'
  BY <1>1 DEF Call
<1>2. ASSUME NEW u \in User, Hit(u) \/ Miss(u) \/ Reuse(u) PROVE Accounted'
  BY <1>2 DEF Hit, Miss, Reuse
<1>3. ASSUME NEW u \in User, Evict(u) PROVE Accounted'
  <2>1. clients[wants[u]] \in Conn /\ wants[u] \in Host
    BY <1>3 DEF Evict, MutexHeld
  <2> QED
    BY <1>3, <2>1 DEF Evict
<1>4. ASSUME NEW u \in User, NEW c \in Conn, Dial(u, c) PROVE Accounted'
  BY <1>4 DEF Dial
<1>5. ASSUME NEW u \in User, DialFails(u) \/ Finish(u) PROVE Accounted'
  BY <1>5 DEF DialFails, Finish
<1>6. ASSUME NEW u \in User, Insert(u) PROVE Accounted'
  BY <1>6 DEF Insert
<1>7. CASE Sweep \/ SweepEnds \/ LoopExits
  BY <1>7 DEF Sweep, SweepEnds, LoopExits
<1>8. ASSUME NEW e \in candidates, ProbeValid(e) \/ ProbeInvalid(e) PROVE Accounted'
  BY <1>8 DEF ProbeValid, ProbeInvalid
<1>9. CASE Drop
  <2>1. CASE clients[invalid[1]] # invalid[2]
    BY <1>9, <2>1 DEF Drop
  <2>2. CASE clients[invalid[1]] = invalid[2] /\ invalid \in Host \X Conn
    BY <1>9, <2>2 DEF Drop
  <2>3. CASE invalid = NoEntry
    BY <1>9, <2>3 DEF Drop, NoEntry
  <2> QED
    BY <2>1, <2>2, <2>3
<1>10. CASE Close
  <2>1. \A h \in Host : clients[h] # NoConn => clients[h] \in Pooled
    BY DEF Pooled
  <2> QED
    BY <1>10, <2>1 DEF Close
<1>11. ASSUME NEW c \in Conn, FallSilent(c) \/ Break(c) PROVE Accounted'
  BY <1>11 DEF FallSilent, Break
<1>12. CASE UNCHANGED vars
  BY <1>12 DEF vars
<1> QED
  BY <1>1, <1>2, <1>3, <1>4, <1>5, <1>6, <1>7, <1>8, <1>9, <1>10, <1>11, <1>12
     DEF Next, InRun, KeepAlive, InSweep

LEMMA Invariance == Spec => []Inv
<1>1. Inv /\ [Next]_vars => Inv'
  BY NextType, NextMutex, NextFoundDead, NextEntries, NextAccounted DEF Inv
<1> QED
  BY <1>1, InitInv, PTL DEF Spec

-----------------------------------------------------------------------------
\* The variables stay in their types, and who inserts has a connection.
THEOREM TypeCorrect == Spec => []TypeOK
  BY Invariance, PTL DEF Inv

\* Whatever the interleaving of lookups, sweeps and Close, the pool holds open
\* connections only, each for one host.
THEOREM PoolIsOpen == Spec => []PooledAreOpen
<1>1. Inv => PooledAreOpen
  BY DEF Inv, Entries, PooledAreOpen, Pooled
<1> QED
  BY <1>1, Invariance, PTL

\* No open connection is lost, except to another insertion for the same host.
THEOREM NothingIsLost == Spec => []OpenAreAccounted
<1>1. Inv => OpenAreAccounted
  BY PoolAssumption DEF PoolAssumption, Inv, Accounted, OpenAreAccounted, Pooled, Open
<1> QED
  BY <1>1, Invariance, PTL

\* Only Close closes a connection whose peer may still answer.
THEOREM WorkingAreKept == Spec => WorkingStayOpen
<1>1. Inv /\ [Next]_vars =>
        [\A c \in Conn : link[c] \in {"up", "silent"} /\ link'[c] = "closed" => Close]_vars
  <2> SUFFICES ASSUME Inv, Next, NEW c \in Conn, link[c] \in {"up", "silent"},
                      link'[c] = "closed"
               PROVE  Close
    OBVIOUS
  <2> USE DEF Inv, TypeOK, userVars, loopVars
  <2>1. ASSUME NEW u \in User, InRun(u) PROVE FALSE
    BY <2>1 DEF InRun, Hit, Miss, Reuse, Evict, Dial, DialFails, Insert, Finish
  <2>2. ASSUME NEW u \in User, NEW h \in Host, Call(u, h) PROVE FALSE
    BY <2>2 DEF Call
  <2>3. CASE KeepAlive
    BY <2>3 DEF KeepAlive, InSweep, Sweep, ProbeValid, ProbeInvalid, Drop, SweepEnds,
                LoopExits, FoundDead
  <2>4. ASSUME NEW d \in Conn, FallSilent(d) \/ Break(d) PROVE FALSE
    BY <2>4 DEF FallSilent, Break
  <2> QED
    BY <2>1, <2>2, <2>3, <2>4 DEF Next
<1> QED
  BY <1>1, Invariance, PTL DEF Spec, WorkingStayOpen
=============================================================================
