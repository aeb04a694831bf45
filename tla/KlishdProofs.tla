---------------------------- MODULE KlishdProofs ----------------------------
(* Proofs about klishd, for every set of daemons, services, clients, data  *)
(* bases and plugins.                                                      *)
EXTENDS Klishd, FiniteSetTheorems, SequenceTheorems, TLAPS

Libs == DBs \cup Plugins

\* Where a process has nothing loaded, has one data base loaded, and has all
\* plugins loaded.
Bare == {"none", "db_open", "zombie", "gone"}
InDb == {"db_init", "db_load", "db_fini"}
Ready == {"socket", "leave", "loop", "forked", "reap", "child", "new", "serve",
          "end", "fini"}
Clearing == {"free", "dlclose", "exit"}

Pcs == Bare \cup InDb \cup {"plugins"} \cup Ready \cup Clearing

TypeOK ==
  /\ pc \in [Procs -> Pcs]
  /\ parent \in [Services -> Daemons \cup {NoProc}]
  /\ left \in [Procs -> SUBSET Libs]
  /\ ret \in [Procs -> BOOLEAN]
  /\ open \in [Procs -> SUBSET Libs]
  /\ inited \in [Procs -> SUBSET Libs]
  /\ session \in [Procs -> SUBSET Plugins]
  /\ udata \in [Procs -> SUBSET Libs]
  /\ prepared \in [Procs -> BOOLEAN]
  /\ path \in Daemons \cup {NoProc}
  /\ holds \in [Procs -> SUBSET Daemons]
  /\ backlog \in [Daemons -> Seq(Clients)]
  /\ held \in [Clients -> SUBSET Procs]
  /\ client \in [Clients -> {"out", "up", "left"}]
  /\ chld \in [Daemons -> BOOLEAN]

\* What is loaded in process p, by where it is.
Loaded(p) ==
  /\ pc[p] \in Bare => open[p] = {}
  /\ pc[p] \in Bare \cup {"db_init"} => inited[p] = {}
  /\ pc[p] \in InDb =>
       \E d \in DBs : open[p] = {d} /\ inited[p] \subseteq {d}
  /\ pc[p] \in Bare \cup InDb => udata[p] = {} /\ ~prepared[p]
  /\ pc[p] \in {"db_open"} \cup InDb => left[p] \subseteq DBs
  /\ pc[p] = "plugins" =>
       /\ ~prepared[p] /\ left[p] \subseteq Plugins
       /\ udata[p] \subseteq inited[p] /\ inited[p] \subseteq open[p]
       /\ open[p] \subseteq Plugins
       /\ ret[p] => Plugins \ left[p] \subseteq inited[p]
  /\ pc[p] \in Ready =>
       /\ open[p] = Plugins /\ inited[p] = Plugins
       /\ udata[p] \subseteq Plugins
  /\ pc[p] \in Clearing =>
       /\ inited[p] \subseteq Plugins /\ open[p] \subseteq Plugins
       /\ prepared[p] => inited[p] = {}
  /\ pc[p] = "free" => udata[p] \subseteq open[p]
  /\ pc[p] \in {"dlclose", "exit"} => udata[p] = {}
  /\ session[p] # {} => pc[p] \in {"serve", "end"}

\* Who has the connections of the clients open.
Connections ==
  /\ \A c \in Clients : \A s, t \in held[c] \cap Services : s = t
  /\ \A c \in Clients : \A p \in held[c] \cap Daemons : pc[p] = "forked"
  /\ \A c, d \in Clients : \A s \in held[c] \cap held[d] \cap Services : c = d
  /\ \A c \in Clients : \A s \in held[c] \cap Services : pc[s] # "none"

\* The daemon of a zombie knows that it has something to reap.
ZombieKnown ==
  \A s \in Services : pc[s] = "zombie" =>
    /\ parent[s] \in Daemons
    /\ chld[parent[s]] \/ pc[parent[s]] = "reap"

IInv ==
  /\ TypeOK
  /\ \A p \in Procs : Loaded(p)
  /\ Connections

(* What is loaded, who holds a connection and all else keep their types.   *)
LEMMA TypeStep ==
  ASSUME TypeOK, [Next]_vars
  PROVE  TypeOK'
<1>pc. pc \in [Procs -> Pcs]
  BY DEF TypeOK
<1>parent. parent \in [Services -> Daemons \cup {NoProc}]
  BY DEF TypeOK
<1>left. left \in [Procs -> SUBSET Libs]
  BY DEF TypeOK
<1>ret. ret \in [Procs -> BOOLEAN]
  BY DEF TypeOK
<1>open. open \in [Procs -> SUBSET Libs]
  BY DEF TypeOK
<1>inited. inited \in [Procs -> SUBSET Libs]
  BY DEF TypeOK
<1>path. path \in Daemons \cup {NoProc}
  BY DEF TypeOK
<1>holds. holds \in [Procs -> SUBSET Daemons]
  BY DEF TypeOK
<1>backlog. backlog \in [Daemons -> Seq(Clients)]
  BY DEF TypeOK
<1>held. held \in [Clients -> SUBSET Procs]
  BY DEF TypeOK
<1>chld. chld \in [Daemons -> BOOLEAN]
  BY DEF TypeOK
<1>session. session \in [Procs -> SUBSET Plugins]
  BY DEF TypeOK
<1>udata. udata \in [Procs -> SUBSET Libs]
  BY DEF TypeOK
<1>prepared. prepared \in [Procs -> BOOLEAN]
  BY DEF TypeOK
<1>client. client \in [Clients -> {"out", "up", "left"}]
  BY DEF TypeOK
<1>. USE DEF Procs, Goto, fds, loaded
<1>1. ASSUME NEW p \in Daemons, Start(p)
      PROVE  TypeOK'
  <2>1. (pc \in [Procs -> Pcs])'
    BY <1>1, <1>pc DEF Start, Pcs, Bare, InDb, Ready, Clearing
  <2>2. (left \in [Procs -> SUBSET Libs])'
    BY <1>1, <1>left DEF Start, Libs
  <2>. QED
    BY <1>1, <2>1, <2>2 DEF Start, TypeOK
<1>2. ASSUME NEW p \in Daemons, OpenDb(p)
      PROVE  TypeOK'
  <2>1. (pc \in [Procs -> Pcs])'
    BY <1>2, <1>pc DEF OpenDb, FreeDb, Pcs, Bare, InDb, Ready, Clearing
  <2>2. (ret \in [Procs -> BOOLEAN])'
    BY <1>2, <1>ret DEF OpenDb, FreeDb
  <2>3. (left \in [Procs -> SUBSET Libs])'
    BY <1>2, <1>left DEF OpenDb, FreeDb
  <2>4. (open \in [Procs -> SUBSET Libs])'
    BY <1>2, <1>open, <1>left DEF OpenDb, FreeDb
  <2>. QED
    BY <1>2, <2>1, <2>2, <2>3, <2>4 DEF OpenDb, FreeDb, TypeOK
<1>3. ASSUME NEW p \in Daemons, InitDb(p)
      PROVE  TypeOK'
  <2>1. (pc \in [Procs -> Pcs])'
    BY <1>3, <1>pc DEF InitDb, FreeDb, Pcs, Bare, InDb, Ready, Clearing
  <2>2. (ret \in [Procs -> BOOLEAN])'
    BY <1>3, <1>ret DEF InitDb, FreeDb
  <2>3. (open \in [Procs -> SUBSET Libs])'
    BY <1>3, <1>open DEF InitDb, FreeDb
  <2>4. (inited \in [Procs -> SUBSET Libs])'
    BY <1>3, <1>inited, <1>open DEF InitDb, FreeDb
  <2>. QED
    BY <1>3, <2>1, <2>2, <2>3, <2>4 DEF InitDb, FreeDb, TypeOK
<1>4. ASSUME NEW p \in Daemons, LoadDb(p)
      PROVE  TypeOK'
  <2>1. (pc \in [Procs -> Pcs])'
    BY <1>4, <1>pc DEF LoadDb, FreeDb, Pcs, Bare, InDb, Ready, Clearing
  <2>2. (ret \in [Procs -> BOOLEAN])'
    BY <1>4, <1>ret DEF LoadDb, FreeDb
  <2>3. (open \in [Procs -> SUBSET Libs])'
    BY <1>4, <1>open DEF LoadDb, FreeDb
  <2>4. (inited \in [Procs -> SUBSET Libs])'
    BY <1>4, <1>inited DEF LoadDb, FreeDb
  <2>. QED
    BY <1>4, <2>1, <2>2, <2>3, <2>4 DEF LoadDb, FreeDb, TypeOK
<1>5. ASSUME NEW p \in Daemons, FiniDb(p)
      PROVE  TypeOK'
  <2>1. (pc \in [Procs -> Pcs])'
    BY <1>5, <1>pc DEF FiniDb, FreeDb, Pcs, Bare, InDb, Ready, Clearing
  <2>2. (ret \in [Procs -> BOOLEAN])'
    BY <1>5, <1>ret DEF FiniDb, FreeDb
  <2>3. (open \in [Procs -> SUBSET Libs])'
    BY <1>5, <1>open DEF FiniDb, FreeDb
  <2>4. (inited \in [Procs -> SUBSET Libs])'
    BY <1>5, <1>inited DEF FiniDb, FreeDb
  <2>. QED
    BY <1>5, <2>1, <2>2, <2>3, <2>4 DEF FiniDb, FreeDb, TypeOK
<1>6. ASSUME NEW p \in Daemons, DbsLoaded(p)
      PROVE  TypeOK'
  <2>1. (pc \in [Procs -> Pcs])'
    BY <1>6, <1>pc DEF DbsLoaded, Pcs, Bare, InDb, Ready, Clearing
  <2>2. (left \in [Procs -> SUBSET Libs])'
    BY <1>6, <1>left DEF DbsLoaded, Libs
  <2>. QED
    BY <1>6, <2>1, <2>2 DEF DbsLoaded, TypeOK
<1>7. ASSUME NEW p \in Daemons, LoadPlugin(p)
      PROVE  TypeOK'
  <2>1. (left \in [Procs -> SUBSET Libs])'
    BY <1>7, <1>left DEF LoadPlugin, Libs
  <2>2. (ret \in [Procs -> BOOLEAN])'
    BY <1>7, <1>ret DEF LoadPlugin
  <2>3. (open \in [Procs -> SUBSET Libs])'
    BY <1>7, <1>open, <1>left DEF LoadPlugin, Libs
  <2>4. (inited \in [Procs -> SUBSET Libs])'
    BY <1>7, <1>inited, <1>left DEF LoadPlugin, Libs
  <2>5. (udata \in [Procs -> SUBSET Libs])'
    BY <1>7, <1>udata, <1>left DEF LoadPlugin, Libs
  <2>. QED
    BY <1>7, <2>1, <2>2, <2>3, <2>4, <2>5 DEF LoadPlugin, TypeOK
<1>8. ASSUME NEW p \in Daemons, PrepareEntries(p)
      PROVE  TypeOK'
  <2>1. (pc \in [Procs -> Pcs])'
    BY <1>8, <1>pc DEF PrepareEntries, Pcs, Bare, InDb, Ready, Clearing
  <2>2. (prepared \in [Procs -> BOOLEAN])'
    BY <1>8, <1>prepared DEF PrepareEntries
  <2>. QED
    BY <1>8, <2>1, <2>2 DEF PrepareEntries, TypeOK
<1>9. ASSUME NEW p \in Daemons, CreateListenUnixSock(p)
      PROVE  TypeOK'
  <2>1. (pc \in [Procs -> Pcs])'
    BY <1>9, <1>pc DEF CreateListenUnixSock, Pcs, Bare, InDb, Ready, Clearing
  <2>2. (path \in Daemons \cup {NoProc})'
    BY <1>9, <1>path DEF CreateListenUnixSock
  <2>3. (holds \in [Procs -> SUBSET Daemons])'
    BY <1>9, <1>holds DEF CreateListenUnixSock
  <2>. QED
    BY <1>9, <2>1, <2>2, <2>3 DEF CreateListenUnixSock, TypeOK
<1>10. ASSUME NEW p \in Daemons, Accept(p)
      PROVE  TypeOK'
  <2>1. (pc \in [Procs -> Pcs])'
    BY <1>10, <1>pc DEF Accept, Pcs, Bare, InDb, Ready, Clearing
  <2>2. (parent \in [Services -> Daemons \cup {NoProc}])'
    BY <1>10, <1>parent DEF Accept
  <2>3. (backlog \in [Daemons -> Seq(Clients)])'
    BY <1>10, <1>backlog DEF Accept
  <2>4. (held \in [Clients -> SUBSET Procs])'
    <3>1. \/ held' = held
          \/ \E s \in Services :
               held' = [held EXCEPT ![Head(backlog[p])] = {p, s}]
      BY <1>10 DEF Accept
    <3>2. QED
      BY <3>1, <1>held
  <2>5. (holds \in [Procs -> SUBSET Daemons])'
    BY <1>10, <1>holds DEF Accept
  <2>6. (open \in [Procs -> SUBSET Libs])'
    BY <1>10, <1>open DEF Accept, Libs
  <2>7. (inited \in [Procs -> SUBSET Libs])'
    BY <1>10, <1>inited DEF Accept, Libs
  <2>8. (udata \in [Procs -> SUBSET Libs])'
    BY <1>10, <1>udata DEF Accept, Libs
  <2>9. (prepared \in [Procs -> BOOLEAN])'
    BY <1>10, <1>prepared DEF Accept
  <2>. QED
    BY <1>10, <2>1, <2>2, <2>3, <2>4, <2>5, <2>6, <2>7, <2>8, <2>9
       DEF Accept, TypeOK
<1>11. ASSUME NEW p \in Daemons, ParentCloses(p)
      PROVE  TypeOK'
  <2>1. (pc \in [Procs -> Pcs])'
    BY <1>11, <1>pc
       DEF ParentCloses, CloseConnection, Pcs, Bare, InDb, Ready, Clearing
  <2>2. (held \in [Clients -> SUBSET Procs])'
    BY <1>11, <1>held DEF ParentCloses, CloseConnection
  <2>. QED
    BY <1>11, <2>1, <2>2 DEF ParentCloses, CloseConnection, TypeOK
<1>12. ASSUME NEW p \in Daemons, SigChld(p)
      PROVE  TypeOK'
  <2>1. (pc \in [Procs -> Pcs])'
    BY <1>12, <1>pc DEF SigChld, Pcs, Bare, InDb, Ready, Clearing
  <2>2. (chld \in [Daemons -> BOOLEAN])'
    BY <1>12, <1>chld DEF SigChld
  <2>. QED
    BY <1>12, <2>1, <2>2 DEF SigChld, TypeOK
<1>13. ASSUME NEW p \in Daemons, WaitPid(p)
      PROVE  TypeOK'
  <2>1. (pc \in [Procs -> Pcs])'
    BY <1>13, <1>pc DEF WaitPid, Zombies, Pcs, Bare, InDb, Ready, Clearing
  <2>2. (parent \in [Services -> Daemons \cup {NoProc}])'
    BY <1>13, <1>parent DEF WaitPid, Zombies
  <2>. QED
    BY <1>13, <2>1, <2>2 DEF WaitPid, Zombies, TypeOK
<1>14. ASSUME NEW p \in Daemons, StopLoop(p)
      PROVE  TypeOK'
  <2>1. (pc \in [Procs -> Pcs])'
    BY <1>14, <1>pc DEF StopLoop, Pcs, Bare, InDb, Ready, Clearing
  <2>. QED
    BY <1>14, <2>1 DEF StopLoop, TypeOK
<1>15. ASSUME NEW s \in Services, NewSession(s)
      PROVE  TypeOK'
  <2>1. (pc \in [Procs -> Pcs])'
    BY <1>15, <1>pc
       DEF NewSession, CloseConnection, Pcs, Bare, InDb, Ready, Clearing
  <2>2. (held \in [Clients -> SUBSET Procs])'
    BY <1>15, <1>held DEF NewSession, CloseConnection
  <2>. QED
    BY <1>15, <2>1, <2>2 DEF NewSession, CloseConnection, TypeOK
<1>16. ASSUME NEW s \in Services, HangUp(s)
      PROVE  TypeOK'
  <2>1. (pc \in [Procs -> Pcs])'
    BY <1>16, <1>pc DEF HangUp, LeaveLoop, Pcs, Bare, InDb, Ready, Clearing
  <2>. QED
    BY <1>16, <2>1 DEF HangUp, LeaveLoop, TypeOK
<1>17. ASSUME NEW s \in Services, FreeSession(s)
      PROVE  TypeOK'
  <2>1. (pc \in [Procs -> Pcs])'
    BY <1>17, <1>pc
       DEF FreeSession, CloseConnection, Pcs, Bare, InDb, Ready, Clearing
  <2>2. (held \in [Clients -> SUBSET Procs])'
    BY <1>17, <1>held DEF FreeSession, CloseConnection
  <2>3. (session \in [Procs -> SUBSET Plugins])'
    BY <1>17, <1>session DEF FreeSession, CloseConnection, Libs
  <2>. QED
    BY <1>17, <2>1, <2>2, <2>3 DEF FreeSession, CloseConnection, TypeOK
<1>18. ASSUME NEW s \in Services, Auth(s)
      PROVE  TypeOK'
  <2>1. (session \in [Procs -> SUBSET Plugins])'
    BY <1>18, <1>session DEF Auth, Libs
  <2>. QED
    BY <1>18, <2>1 DEF Auth, TypeOK
<1>19. ASSUME NEW s \in Services, LeaveLoop(s)
      PROVE  TypeOK'
  <2>1. (pc \in [Procs -> Pcs])'
    BY <1>19, <1>pc DEF LeaveLoop, Pcs, Bare, InDb, Ready, Clearing
  <2>. QED
    BY <1>19, <2>1 DEF LeaveLoop, TypeOK
<1>20. ASSUME NEW p \in Procs, CloseListenSock(p)
      PROVE  TypeOK'
  <2>1. (pc \in [Procs -> Pcs])'
    BY <1>20, <1>pc
       DEF CloseListenSock, CloseSockets, Pcs, Bare, InDb, Ready, Clearing
  <2>2. /\ (holds \in [Procs -> SUBSET Daemons])'
        /\ (backlog \in [Daemons -> Seq(Clients)])'
    BY <1>20, <1>holds, <1>backlog DEF CloseListenSock, CloseSockets
  <2>. QED
    BY <1>20, <2>1, <2>2 DEF CloseListenSock, CloseSockets, TypeOK
<1>21. ASSUME NEW p \in Procs, FiniPlugins(p)
      PROVE  TypeOK'
  <2>1. (pc \in [Procs -> Pcs])'
    BY <1>21, <1>pc DEF FiniPlugins, Pcs, Bare, InDb, Ready, Clearing
  <2>2. (inited \in [Procs -> SUBSET Libs])'
    BY <1>21, <1>inited DEF FiniPlugins, Libs
  <2>. QED
    BY <1>21, <2>1, <2>2 DEF FiniPlugins, TypeOK
<1>22. ASSUME NEW p \in Procs, FreeStore(p)
      PROVE  TypeOK'
  <2>1. (pc \in [Procs -> Pcs])'
    BY <1>22, <1>pc DEF FreeStore, Pcs, Bare, InDb, Ready, Clearing
  <2>2. (udata \in [Procs -> SUBSET Libs])'
    BY <1>22, <1>udata DEF FreeStore, Libs
  <2>. QED
    BY <1>22, <2>1, <2>2 DEF FreeStore, TypeOK
<1>23. ASSUME NEW p \in Procs, FreePlugins(p)
      PROVE  TypeOK'
  <2>1. (pc \in [Procs -> Pcs])'
    BY <1>23, <1>pc DEF FreePlugins, Pcs, Bare, InDb, Ready, Clearing
  <2>2. (open \in [Procs -> SUBSET Libs])'
    BY <1>23, <1>open DEF FreePlugins, Libs
  <2>. QED
    BY <1>23, <2>1, <2>2 DEF FreePlugins, TypeOK
<1>24. ASSUME NEW p \in Procs, Exit(p)
      PROVE  TypeOK'
  <2>1. (pc \in [Procs -> Pcs])'
    BY <1>24, <1>pc
       DEF Exit, Ends, CloseSockets, CloseConnection, Pcs, Bare, InDb, Ready,
           Clearing
  <2>2. (parent \in [Services -> Daemons \cup {NoProc}])'
    BY <1>24, <1>parent DEF Exit, Ends, CloseSockets, CloseConnection
  <2>3. (chld \in [Daemons -> BOOLEAN])'
    BY <1>24, <1>chld, <1>parent DEF Exit, Ends, CloseSockets, CloseConnection
  <2>4. /\ (holds \in [Procs -> SUBSET Daemons])'
        /\ (backlog \in [Daemons -> Seq(Clients)])'
        /\ (held \in [Clients -> SUBSET Procs])'
    BY <1>24, <1>holds, <1>backlog, <1>held
       DEF Exit, Ends, CloseSockets, CloseConnection
  <2>5. /\ (left \in [Procs -> SUBSET Libs])'
        /\ (ret \in [Procs -> BOOLEAN])'
        /\ (prepared \in [Procs -> BOOLEAN])'
    BY <1>24, <1>left, <1>ret, <1>prepared
       DEF Exit, Ends, CloseSockets, CloseConnection, Libs
  <2>6. /\ (open \in [Procs -> SUBSET Libs])'
        /\ (inited \in [Procs -> SUBSET Libs])'
    BY <1>24, <1>open, <1>inited
       DEF Exit, Ends, CloseSockets, CloseConnection, Libs
  <2>7. /\ (session \in [Procs -> SUBSET Plugins])'
        /\ (udata \in [Procs -> SUBSET Libs])'
    BY <1>24, <1>session, <1>udata
       DEF Exit, Ends, CloseSockets, CloseConnection, Libs
  <2>. QED
    BY <1>24, <2>1, <2>2, <2>3, <2>4, <2>5, <2>6, <2>7
       DEF Exit, Ends, CloseSockets, CloseConnection, TypeOK
<1>25. ASSUME NEW p \in Procs, Killed(p)
      PROVE  TypeOK'
  <2>1. (pc \in [Procs -> Pcs])'
    BY <1>25, <1>pc
       DEF Killed, Ends, CloseSockets, CloseConnection, Pcs, Bare, InDb,
           Ready, Clearing
  <2>2. (parent \in [Services -> Daemons \cup {NoProc}])'
    BY <1>25, <1>parent DEF Killed, Ends, CloseSockets, CloseConnection
  <2>3. (chld \in [Daemons -> BOOLEAN])'
    BY <1>25, <1>chld, <1>parent DEF Killed, Ends, CloseSockets, CloseConnection
  <2>4. /\ (holds \in [Procs -> SUBSET Daemons])'
        /\ (backlog \in [Daemons -> Seq(Clients)])'
        /\ (held \in [Clients -> SUBSET Procs])'
    BY <1>25, <1>holds, <1>backlog, <1>held
       DEF Killed, Ends, CloseSockets, CloseConnection
  <2>5. /\ (left \in [Procs -> SUBSET Libs])'
        /\ (ret \in [Procs -> BOOLEAN])'
        /\ (prepared \in [Procs -> BOOLEAN])'
    BY <1>25, <1>left, <1>ret, <1>prepared
       DEF Killed, Ends, CloseSockets, CloseConnection, Libs
  <2>6. /\ (open \in [Procs -> SUBSET Libs])'
        /\ (inited \in [Procs -> SUBSET Libs])'
    BY <1>25, <1>open, <1>inited
       DEF Killed, Ends, CloseSockets, CloseConnection, Libs
  <2>7. /\ (session \in [Procs -> SUBSET Plugins])'
        /\ (udata \in [Procs -> SUBSET Libs])'
    BY <1>25, <1>session, <1>udata
       DEF Killed, Ends, CloseSockets, CloseConnection, Libs
  <2>. QED
    BY <1>25, <2>1, <2>2, <2>3, <2>4, <2>5, <2>6, <2>7
       DEF Killed, Ends, CloseSockets, CloseConnection, TypeOK
<1>26. ASSUME NEW c \in Clients, Connect(c)
      PROVE  TypeOK'
  <2>1. (client \in [Clients -> {"out", "up", "left"}])'
    BY <1>26, <1>client DEF Connect
  <2>2. (backlog \in [Daemons -> Seq(Clients)])'
    BY <1>26, <1>backlog, <1>path DEF Connect
  <2>. QED
    BY <1>26, <2>1, <2>2 DEF Connect, TypeOK
<1>27. ASSUME NEW c \in Clients, Disconnect(c)
      PROVE  TypeOK'
  <2>1. (client \in [Clients -> {"out", "up", "left"}])'
    BY <1>27, <1>client DEF Disconnect
  <2>. QED
    BY <1>27, <2>1 DEF Disconnect, TypeOK
<1>28. CASE UNCHANGED vars
  BY <1>28 DEF vars, TypeOK
<1>. QED
  BY <1>1, <1>2, <1>3, <1>4, <1>5, <1>6, <1>7, <1>8, <1>9, <1>10, <1>11,
     <1>12, <1>13, <1>14, <1>15, <1>16, <1>17, <1>18, <1>19, <1>20, <1>21,
     <1>22, <1>23, <1>24, <1>25, <1>26, <1>27, <1>28
     DEF Next, DaemonStep, ServiceStep, Finish

(* fork() gives a process that has not been used.                          *)
LEMMA NewPidIsFree ==
  ASSUME NewPid \in Services
  PROVE  pc[NewPid] = "none"
<1>1. \E s \in Services \cup {NoProc} :
        IF s = NoProc THEN \A q \in Services : pc[q] # "none"
        ELSE pc[s] = "none"
  BY ProcsDiffer DEF Procs
<1>2. IF NewPid = NoProc THEN \A q \in Services : pc[q] # "none"
      ELSE pc[NewPid] = "none"
  BY <1>1 DEF NewPid
<1>3. QED
  BY <1>2, ProcsDiffer DEF Procs

(* Every process keeps what is loaded in it consistent with where it is.   *)
LEMMA LoadedStep ==
  ASSUME TypeOK, \A p \in Procs : Loaded(p), [Next]_vars, NEW q \in Procs
  PROVE  Loaded(q)'
<1>pc. pc \in [Procs -> Pcs]
  BY DEF TypeOK
<1>left. left \in [Procs -> SUBSET Libs]
  BY DEF TypeOK
<1>ret. ret \in [Procs -> BOOLEAN]
  BY DEF TypeOK
<1>open. open \in [Procs -> SUBSET Libs]
  BY DEF TypeOK
<1>inited. inited \in [Procs -> SUBSET Libs]
  BY DEF TypeOK
<1>session. session \in [Procs -> SUBSET Plugins]
  BY DEF TypeOK
<1>udata. udata \in [Procs -> SUBSET Libs]
  BY DEF TypeOK
<1>prepared. prepared \in [Procs -> BOOLEAN]
  BY DEF TypeOK
<1>. USE DEF Procs, Goto, fds, loaded, Pcs, Bare, InDb, Ready, Clearing
<1>1. ASSUME NEW p \in Daemons, Start(p)
      PROVE  Loaded(q)'
  BY <1>1, <1>pc, <1>left, <1>ret, <1>open, <1>inited, <1>session, <1>udata,
     <1>prepared DEF Loaded, Start
<1>2. ASSUME NEW p \in Daemons, OpenDb(p)
      PROVE  Loaded(q)'
  <2>1. CASE q # p
    BY <1>2, <2>1, <1>pc, <1>left, <1>ret, <1>open, <1>inited, <1>session,
       <1>udata, <1>prepared DEF Loaded, OpenDb, FreeDb
  <2>2. CASE q = p
    <3>1. /\ open[p] = {} /\ inited[p] = {} /\ udata[p] = {} /\ ~prepared[p]
          /\ session[p] = {}
      BY <1>2, <1>pc, <1>left, <1>ret, <1>open, <1>inited, <1>session,
         <1>udata, <1>prepared DEF Loaded, OpenDb
    <3>2. /\ inited'[p] = {} /\ udata'[p] = {} /\ ~prepared'[p]
          /\ session'[p] = {} /\ left'[p] \subseteq DBs
      BY <1>2, <3>1, <1>pc, <1>left, <1>ret, <1>open, <1>inited, <1>session,
         <1>udata, <1>prepared DEF Loaded, OpenDb
    <3>3. PICK d \in left[p] :
            \/ open'[p] = {} /\ pc'[p] = "db_open"
            \/ open'[p] = {d} /\ pc'[p] = "db_init" /\ d \in DBs
      BY <1>2, <3>1, <1>pc, <1>left, <1>ret, <1>open, <1>inited, <1>session,
         <1>udata, <1>prepared DEF Loaded, OpenDb, FreeDb
    <3>4. QED
      BY <2>2, <3>2, <3>3 DEF Loaded
  <2>. QED
    BY <2>1, <2>2
<1>3. ASSUME NEW p \in Daemons, InitDb(p)
      PROVE  Loaded(q)'
  <2>1. CASE q # p
    BY <1>3, <2>1, <1>pc, <1>left, <1>ret, <1>open, <1>inited, <1>session,
       <1>udata, <1>prepared DEF Loaded, InitDb, FreeDb
  <2>2. CASE q = p
    <3>1. PICK d \in DBs : open[p] = {d} /\ inited[p] = {}
      BY <1>3, <1>pc, <1>left, <1>ret, <1>open, <1>inited, <1>session,
         <1>udata, <1>prepared DEF Loaded, InitDb
    <3>2. /\ udata'[p] = {} /\ ~prepared'[p] /\ session'[p] = {}
          /\ left'[p] \subseteq DBs
      BY <1>3, <1>pc, <1>left, <1>ret, <1>open, <1>inited, <1>session,
         <1>udata, <1>prepared DEF Loaded, InitDb
    <3>3. \/ /\ open'[p] = {d} /\ inited'[p] \subseteq {d}
             /\ pc'[p] = "db_load"
          \/ open'[p] = {} /\ inited'[p] = {} /\ pc'[p] = "db_open"
      BY <1>3, <3>1, <1>pc, <1>open, <1>inited DEF InitDb, FreeDb
    <3>4. QED
      BY <2>2, <3>2, <3>3 DEF Loaded
  <2>. QED
    BY <2>1, <2>2
<1>4. ASSUME NEW p \in Daemons, LoadDb(p)
      PROVE  Loaded(q)'
  BY <1>4, <1>pc, <1>left, <1>ret, <1>open, <1>inited, <1>session, <1>udata,
     <1>prepared DEF Loaded, LoadDb, FreeDb
<1>5. ASSUME NEW p \in Daemons, FiniDb(p)
      PROVE  Loaded(q)'
  BY <1>5, <1>pc, <1>left, <1>ret, <1>open, <1>inited, <1>session, <1>udata,
     <1>prepared DEF Loaded, FiniDb, FreeDb
<1>6. ASSUME NEW p \in Daemons, DbsLoaded(p)
      PROVE  Loaded(q)'
  BY <1>6, <1>pc, <1>left, <1>ret, <1>open, <1>inited, <1>session, <1>udata,
     <1>prepared DEF Loaded, DbsLoaded
<1>7. ASSUME NEW p \in Daemons, LoadPlugin(p)
      PROVE  Loaded(q)'
  <2>1. CASE q # p
    BY <1>7, <2>1, <1>pc, <1>left, <1>ret, <1>open, <1>inited, <1>session,
       <1>udata, <1>prepared DEF Loaded, LoadPlugin
  <2>2. CASE q = p
    <3>1. PICK g \in left[p] :
            /\ left'[p] = left[p] \ {g}
            /\ \/ ~ret'[p] /\ UNCHANGED <<open[p], inited[p], udata[p]>>
               \/ /\ ~ret'[p] /\ UNCHANGED <<inited[p], udata[p]>>
                  /\ open'[p] = open[p] \cup {g}
               \/ /\ ret'[p] = ret[p] /\ open'[p] = open[p] \cup {g}
                  /\ inited'[p] = inited[p] \cup {g}
                  /\ udata'[p] = udata[p] \cup {g}
      BY <1>7, <1>pc, <1>left, <1>ret, <1>open, <1>inited, <1>session,
         <1>udata, <1>prepared DEF LoadPlugin
    <3>2. /\ g \in Plugins /\ left[p] \subseteq Plugins
          /\ udata[p] \subseteq inited[p] /\ inited[p] \subseteq open[p]
          /\ open[p] \subseteq Plugins /\ session[p] = {}
          /\ ret[p] => Plugins \ left[p] \subseteq inited[p]
      BY <1>7, <3>1 DEF Loaded, LoadPlugin
    <3>3. /\ left'[p] \subseteq Plugins /\ udata'[p] \subseteq inited'[p]
          /\ inited'[p] \subseteq open'[p] /\ open'[p] \subseteq Plugins
          /\ ret'[p] => Plugins \ left'[p] \subseteq inited'[p]
      BY <3>1, <3>2
    <3>4. pc'[p] = "plugins" /\ ~prepared'[p] /\ session'[p] = {}
      BY <1>7, <3>2 DEF Loaded, LoadPlugin
    <3>5. QED
      BY <2>2, <3>3, <3>4 DEF Loaded
  <2>. QED
    BY <2>1, <2>2
<1>8. ASSUME NEW p \in Daemons, PrepareEntries(p)
      PROVE  Loaded(q)'
  <2>1. CASE q # p
    BY <1>8, <2>1, <1>pc, <1>left, <1>ret, <1>open, <1>inited, <1>session,
       <1>udata, <1>prepared DEF Loaded, PrepareEntries
  <2>2. CASE q = p
    <3>1. /\ udata[p] \subseteq inited[p] /\ inited[p] \subseteq open[p]
          /\ open[p] \subseteq Plugins /\ session[p] = {} /\ ~prepared[p]
          /\ ret[p] => Plugins \subseteq inited[p]
      BY <1>8 DEF Loaded, PrepareEntries
    <3>2. UNCHANGED <<open, inited, udata, session>>
      BY <1>8 DEF PrepareEntries
    <3>3. \/ ret[p] /\ pc'[p] = "socket"
          \/ pc'[p] = "free" /\ ~prepared'[p]
      BY <1>8, <3>1, <1>pc DEF PrepareEntries
    <3>4. ret[p] => open[p] = Plugins /\ inited[p] = Plugins
      BY <3>1
    <3>5. QED
      BY <2>2, <3>1, <3>2, <3>3, <3>4 DEF Loaded
  <2>. QED
    BY <2>1, <2>2
<1>9. ASSUME NEW p \in Daemons, CreateListenUnixSock(p)
      PROVE  Loaded(q)'
  BY <1>9, <1>pc, <1>left, <1>ret, <1>open, <1>inited, <1>session, <1>udata,
     <1>prepared DEF Loaded, CreateListenUnixSock
<1>10. ASSUME NEW p \in Daemons, Accept(p)
      PROVE  Loaded(q)'
  <2>. DEFINE Fork(s) ==
                /\ s \in Services /\ pc[s] = "none"
                /\ pc' = [pc EXCEPT ![p] = "forked", ![s] = "child"]
                /\ open' = [open EXCEPT ![s] = open[p]]
                /\ inited' = [inited EXCEPT ![s] = inited[p]]
                /\ udata' = [udata EXCEPT ![s] = udata[p]]
                /\ prepared' = [prepared EXCEPT ![s] = prepared[p]]
                /\ UNCHANGED <<left, ret, session>>
  <2>1. CASE UNCHANGED <<pc, left, ret, open, inited, session, udata, prepared>>
    BY <2>1 DEF Loaded
  <2>2. CASE \E s \in Services : Fork(s)
    <3>1. PICK s \in Services : Fork(s)
      BY <2>2
    <3>2. p # s /\ pc[p] = "loop"
      BY <1>10, <3>1, ProcsDiffer DEF Accept
    <3>3. /\ open[p] = Plugins /\ inited[p] = Plugins
          /\ udata[p] \subseteq Plugins /\ session[p] = {} /\ session[s] = {}
      BY <3>1, <3>2 DEF Loaded
    <3>4. CASE q = p
      BY <3>1, <3>2, <3>3, <3>4, <1>pc, <1>left, <1>ret, <1>open, <1>inited,
         <1>session, <1>udata, <1>prepared DEF Loaded
    <3>5. CASE q = s
      BY <3>1, <3>2, <3>3, <3>5, <1>pc, <1>left, <1>ret, <1>open, <1>inited,
         <1>session, <1>udata, <1>prepared DEF Loaded
    <3>6. CASE q # p /\ q # s
      BY <3>1, <3>6, <1>pc, <1>left, <1>ret, <1>open, <1>inited, <1>session,
         <1>udata, <1>prepared DEF Loaded
    <3>. QED
      BY <3>4, <3>5, <3>6
  <2>3. QED
    BY <1>10, <2>1, <2>2, NewPidIsFree DEF Accept
<1>11. ASSUME NEW p \in Daemons, ParentCloses(p)
      PROVE  Loaded(q)'
  BY <1>11, <1>pc, <1>left, <1>ret, <1>open, <1>inited, <1>session, <1>udata,
     <1>prepared DEF Loaded, ParentCloses, CloseConnection
<1>12. ASSUME NEW p \in Daemons, SigChld(p)
      PROVE  Loaded(q)'
  BY <1>12, <1>pc, <1>left, <1>ret, <1>open, <1>inited, <1>session, <1>udata,
     <1>prepared DEF Loaded, SigChld
<1>13. ASSUME NEW p \in Daemons, WaitPid(p)
      PROVE  Loaded(q)'
  BY <1>13, <1>pc, <1>left, <1>ret, <1>open, <1>inited, <1>session, <1>udata,
     <1>prepared DEF Loaded, WaitPid, Zombies
<1>14. ASSUME NEW p \in Daemons, StopLoop(p)
      PROVE  Loaded(q)'
  BY <1>14, <1>pc, <1>left, <1>ret, <1>open, <1>inited, <1>session, <1>udata,
     <1>prepared DEF Loaded, StopLoop
<1>15. ASSUME NEW s \in Services, NewSession(s)
      PROVE  Loaded(q)'
  BY <1>15, <1>pc, <1>left, <1>ret, <1>open, <1>inited, <1>session, <1>udata,
     <1>prepared DEF Loaded, NewSession, CloseConnection
<1>16. ASSUME NEW s \in Services, HangUp(s)
      PROVE  Loaded(q)'
  BY <1>16, <1>pc, <1>left, <1>ret, <1>open, <1>inited, <1>session, <1>udata,
     <1>prepared DEF Loaded, HangUp, LeaveLoop
<1>17. ASSUME NEW s \in Services, FreeSession(s)
      PROVE  Loaded(q)'
  BY <1>17, <1>pc, <1>left, <1>ret, <1>open, <1>inited, <1>session, <1>udata,
     <1>prepared DEF Loaded, FreeSession, CloseConnection
<1>18. ASSUME NEW s \in Services, Auth(s)
      PROVE  Loaded(q)'
  BY <1>18, <1>pc, <1>left, <1>ret, <1>open, <1>inited, <1>session, <1>udata,
     <1>prepared DEF Loaded, Auth
<1>19. ASSUME NEW s \in Services, LeaveLoop(s)
      PROVE  Loaded(q)'
  BY <1>19, <1>pc, <1>left, <1>ret, <1>open, <1>inited, <1>session, <1>udata,
     <1>prepared DEF Loaded, LeaveLoop
<1>20. ASSUME NEW p \in Procs, CloseListenSock(p)
      PROVE  Loaded(q)'
  BY <1>20, <1>pc, <1>left, <1>ret, <1>open, <1>inited, <1>session, <1>udata,
     <1>prepared DEF Loaded, CloseListenSock, CloseSockets
<1>21. ASSUME NEW p \in Procs, FiniPlugins(p)
      PROVE  Loaded(q)'
  <2>1. CASE q # p
    BY <1>21, <2>1, <1>pc, <1>left, <1>ret, <1>open, <1>inited, <1>session,
       <1>udata, <1>prepared DEF Loaded, FiniPlugins
  <2>2. CASE q = p
    <3>1. open[p] = Plugins /\ inited[p] = Plugins /\ session[p] = {}
      BY <1>21 DEF Loaded, FiniPlugins
    <3>2. /\ pc'[p] = "free" /\ inited'[p] = {}
          /\ UNCHANGED <<open, udata, prepared, session>>
      BY <1>21, <3>1, <1>pc, <1>inited DEF FiniPlugins
    <3>3. udata[p] \subseteq Plugins
      BY <1>21 DEF Loaded, FiniPlugins
    <3>4. QED
      BY <2>2, <3>1, <3>2, <3>3 DEF Loaded
  <2>. QED
    BY <2>1, <2>2
<1>22. ASSUME NEW p \in Procs, FreeStore(p)
      PROVE  Loaded(q)'
  BY <1>22, <1>pc, <1>left, <1>ret, <1>open, <1>inited, <1>session, <1>udata,
     <1>prepared DEF Loaded, FreeStore
<1>23. ASSUME NEW p \in Procs, FreePlugins(p)
      PROVE  Loaded(q)'
  BY <1>23, <1>pc, <1>left, <1>ret, <1>open, <1>inited, <1>session, <1>udata,
     <1>prepared DEF Loaded, FreePlugins
<1>24. ASSUME NEW p \in Procs, Exit(p)
      PROVE  Loaded(q)'
  BY <1>24, <1>pc, <1>left, <1>ret, <1>open, <1>inited, <1>session, <1>udata,
     <1>prepared DEF Loaded, Exit, Ends, CloseSockets, CloseConnection
<1>25. ASSUME NEW p \in Procs, Killed(p)
      PROVE  Loaded(q)'
  BY <1>25, <1>pc, <1>left, <1>ret, <1>open, <1>inited, <1>session, <1>udata,
     <1>prepared DEF Loaded, Killed, Ends, CloseSockets, CloseConnection
<1>26. ASSUME NEW c \in Clients, Connect(c)
      PROVE  Loaded(q)'
  BY <1>26, <1>pc, <1>left, <1>ret, <1>open, <1>inited, <1>session, <1>udata,
     <1>prepared DEF Loaded, Connect
<1>27. ASSUME NEW c \in Clients, Disconnect(c)
      PROVE  Loaded(q)'
  BY <1>27, <1>pc, <1>left, <1>ret, <1>open, <1>inited, <1>session, <1>udata,
     <1>prepared DEF Loaded, Disconnect
<1>28. CASE UNCHANGED vars
  BY <1>28 DEF vars, Loaded
<1>. QED
  BY <1>1, <1>2, <1>3, <1>4, <1>5, <1>6, <1>7, <1>8, <1>9, <1>10, <1>11,
     <1>12, <1>13, <1>14, <1>15, <1>16, <1>17, <1>18, <1>19, <1>20, <1>21,
     <1>22, <1>23, <1>24, <1>25, <1>26, <1>27, <1>28
     DEF Next, DaemonStep, ServiceStep, Finish

(* What a step may do with the connections: only fork() gives one to a     *)
(* process, the new one, and only the end of a process takes it from more  *)
(* than the process that closes it.                                        *)
LEMMA ConnectionStep ==
  ASSUME TypeOK, Connections, [Next]_vars
  PROVE  Connections'
<1>1. pc \in [Procs -> Pcs] /\ held \in [Clients -> SUBSET Procs]
  BY DEF TypeOK
<1>. DEFINE Kept(P) ==
              /\ \A c \in Clients : held'[c] \subseteq held[c] \ P
              /\ \A d \in Daemons \ P : pc[d] = "forked" => pc'[d] = "forked"
              /\ \A s \in Services \ P : pc[s] # "none" => pc'[s] # "none"
<1>2. ASSUME NEW P, Kept(P)
      PROVE  Connections'
  BY <1>1, <1>2 DEF Connections, Procs
<1>. USE DEF Procs, Goto, fds, loaded
<1>3. ASSUME NEW p \in Daemons, Accept(p)
      PROVE  Connections'
  <2>. DEFINE Fork(s) ==
                /\ s \in Services /\ pc[s] = "none"
                /\ pc' = [pc EXCEPT ![p] = "forked", ![s] = "child"]
                /\ held' = [held EXCEPT ![Head(backlog[p])] = {p, s}]
  <2>1. CASE UNCHANGED <<pc, held>>
    <3>1. Kept({})
      BY <2>1, <1>1
    <3>2. QED
      BY <3>1, <1>2
  <2>2. CASE \E s \in Services : Fork(s)
    <3>1. PICK s \in Services : Fork(s)
      BY <2>2
    <3>2. s # p
      BY ProcsDiffer
    <3>3. /\ pc'[p] = "forked" /\ pc'[s] = "child"
          /\ \A q \in Procs \ {p, s} : pc'[q] = pc[q]
      BY <3>1, <3>2, <1>1
    <3>4. \A c \in Clients : \/ held'[c] = {p, s} /\ c = Head(backlog[p])
                             \/ held'[c] = held[c] /\ c # Head(backlog[p])
      BY <3>1, <1>1
    <3>5. \A c \in Clients : s \notin held[c]
      BY <3>1 DEF Connections
    <3>6. p \notin Services /\ s \notin Daemons
      BY ProcsDiffer
    <3>7. \A c \in Clients : \A t, u \in held'[c] \cap Services : t = u
      BY <3>4, <3>6 DEF Connections
    <3>8. \A c \in Clients : \A d \in held'[c] \cap Daemons : pc'[d] = "forked"
      BY <3>3, <3>4, <3>5, <3>6 DEF Connections
    <3>9. \A c, d \in Clients :
            \A t \in held'[c] \cap held'[d] \cap Services : c = d
      BY <3>4, <3>5, <3>6 DEF Connections
    <3>10. \A c \in Clients : \A t \in held'[c] \cap Services : pc'[t] # "none"
      BY <3>3, <3>4, <3>6 DEF Connections
    <3>. QED
      BY <3>7, <3>8, <3>9, <3>10 DEF Connections
  <2>. QED
    BY <1>3, <2>1, <2>2, NewPidIsFree DEF Accept
<1>4. ASSUME NEW p \in Procs, Exit(p) \/ Killed(p)
      PROVE  Connections'
  <2>1. Kept({p})
    <3>1. \A c \in Clients : held'[c] = held[c] \ {p}
      BY <1>4 DEF Exit, Killed, Ends, CloseConnection
    <3>2. CASE p \in Daemons
      <4>1. \A q \in Procs \ {p} :
              pc'[q] = IF q \in Services /\ parent[q] = p /\ pc[q] = "zombie"
                       THEN "gone" ELSE pc[q]
        BY <1>4, <3>2 DEF Exit, Killed, Ends
      <4>2. QED
        BY <3>1, <4>1
    <3>3. CASE p \notin Daemons
      <4>1. \A q \in Procs \ {p} : pc'[q] = pc[q]
        BY <1>1, <1>4, <3>3 DEF Exit, Killed, Ends
      <4>2. QED
        BY <3>1, <4>1
    <3>4. QED
      BY <3>2, <3>3
  <2>2. QED
    BY <2>1, <1>2
<1>5. ASSUME NEW p \in Daemons, ParentCloses(p)
      PROVE  Connections'
  <2>1. Kept({p}) \/ Kept({})
    BY <1>1, <1>5, ProcsDiffer DEF ParentCloses, CloseConnection
  <2>2. QED
    BY <2>1, <1>2
<1>6. ASSUME NEW s \in Services, NewSession(s)
      PROVE  Connections'
  <2>1. Kept({s}) \/ Kept({})
    BY <1>1, <1>6, ProcsDiffer DEF NewSession, CloseConnection
  <2>2. QED
    BY <2>1, <1>2
<1>7. ASSUME NEW s \in Services, FreeSession(s)
      PROVE  Connections'
  <2>1. Kept({s}) \/ Kept({})
    BY <1>1, <1>7, ProcsDiffer DEF FreeSession, CloseConnection
  <2>2. QED
    BY <2>1, <1>2
<1>8. ASSUME UNCHANGED held, NEW p \in Procs,
             pc[p] # "forked" /\ (p \in Services => pc[p] # "none"),
             pc'[p] # "none" /\ \A q \in Procs \ {p} : pc'[q] = pc[q]
      PROVE  Connections'
  <2>1. Kept({})
    BY <1>8
  <2>2. QED
    BY <2>1, <1>2
<1>9. ASSUME NEW p \in Daemons,
             Start(p) \/ OpenDb(p) \/ InitDb(p) \/ LoadDb(p) \/ FiniDb(p)
               \/ DbsLoaded(p)
      PROVE  Connections'
  <2>1. /\ UNCHANGED held
        /\ pc[p] # "forked" /\ (p \in Services => pc[p] # "none")
        /\ pc'[p] # "none" /\ \A q \in Procs \ {p} : pc'[q] = pc[q]
    BY <1>1, <1>9, ProcsDiffer
       DEF Start, OpenDb, InitDb, LoadDb, FiniDb, DbsLoaded, FreeDb
  <2>2. QED
    BY <2>1, <1>8
<1>10. ASSUME NEW p \in Daemons,
             PrepareEntries(p) \/ CreateListenUnixSock(p) \/ SigChld(p)
               \/ StopLoop(p)
      PROVE  Connections'
  <2>1. /\ UNCHANGED held
        /\ pc[p] # "forked" /\ (p \in Services => pc[p] # "none")
        /\ pc'[p] # "none" /\ \A q \in Procs \ {p} : pc'[q] = pc[q]
    BY <1>1, <1>10, ProcsDiffer
       DEF PrepareEntries, CreateListenUnixSock, SigChld, StopLoop
  <2>2. QED
    BY <2>1, <1>8
<1>11. ASSUME NEW s \in Services,
             HangUp(s) \/ LeaveLoop(s)
      PROVE  Connections'
  <2>1. /\ UNCHANGED held
        /\ pc[s] # "forked" /\ (s \in Services => pc[s] # "none")
        /\ pc'[s] # "none" /\ \A q \in Procs \ {s} : pc'[q] = pc[q]
    BY <1>1, <1>11, ProcsDiffer DEF HangUp, LeaveLoop
  <2>2. QED
    BY <2>1, <1>8
<1>12. ASSUME NEW p \in Procs,
             CloseListenSock(p) \/ FiniPlugins(p) \/ FreeStore(p)
               \/ FreePlugins(p)
      PROVE  Connections'
  <2>1. /\ UNCHANGED held
        /\ pc[p] # "forked" /\ (p \in Services => pc[p] # "none")
        /\ pc'[p] # "none" /\ \A q \in Procs \ {p} : pc'[q] = pc[q]
    BY <1>1, <1>12, ProcsDiffer
       DEF CloseListenSock, FiniPlugins, FreeStore, FreePlugins
  <2>2. QED
    BY <2>1, <1>8
<1>13. ASSUME NEW p \in Daemons, WaitPid(p)
      PROVE  Connections'
  <2>1. CASE Zombies(p) = {} /\ Goto(p, "loop")
    <3>1. /\ UNCHANGED held /\ pc[p] = "reap" /\ pc'[p] = "loop"
          /\ \A q \in Procs \ {p} : pc'[q] = pc[q]
      BY <1>1, <1>13, <2>1 DEF WaitPid
    <3>2. QED
      BY <3>1, <1>8
  <2>2. CASE \E s \in Zombies(p) : Goto(s, "gone")
    <3>1. PICK s \in Services : pc[s] = "zombie" /\ Goto(s, "gone")
      BY <2>2 DEF Zombies
    <3>2. /\ UNCHANGED held /\ pc'[s] = "gone"
          /\ \A q \in Procs \ {s} : pc'[q] = pc[q]
      BY <1>1, <1>13, <3>1 DEF WaitPid
    <3>3. QED
      BY <3>1, <3>2, <1>8
  <2>3. QED
    BY <1>13, <2>1, <2>2 DEF WaitPid
<1>14. CASE UNCHANGED <<pc, held>>
  <2>1. Kept({})
    BY <1>14
  <2>2. QED
    BY <2>1, <1>2
<1>15. QED
  <2>1. ASSUME NEW p \in Daemons, LoadPlugin(p)
        PROVE  UNCHANGED <<pc, held>>
    BY <2>1 DEF LoadPlugin
  <2>2. ASSUME NEW s \in Services, Auth(s)
        PROVE  UNCHANGED <<pc, held>>
    BY <2>2 DEF Auth
  <2>3. ASSUME NEW c \in Clients, Connect(c) \/ Disconnect(c)
        PROVE  UNCHANGED <<pc, held>>
    BY <2>3 DEF Connect, Disconnect
  <2>4. CASE UNCHANGED vars
    BY <2>4, <1>14 DEF vars
  <2>5. QED
    BY <1>3, <1>4, <1>5, <1>6, <1>7, <1>9, <1>10, <1>11, <1>12, <1>13, <1>14,
       <2>1, <2>2, <2>3, <2>4
       DEF Next, DaemonStep, ServiceStep, Finish

-----------------------------------------------------------------------------
LEMMA InitIInv == Init => IInv
<1>. SUFFICES ASSUME Init PROVE IInv
  OBVIOUS
<1>1. TypeOK
  BY DEF Init, TypeOK, Pcs, Bare, Libs
<1>2. \A p \in Procs : Loaded(p)
  BY DEF Init, Loaded, Bare, InDb, Ready, Clearing
<1>3. Connections
  BY DEF Init, Connections
<1>4. QED
  BY <1>1, <1>2, <1>3 DEF IInv

(* The inductive invariant: it goes process by process through the life of *)
(* what is loaded, by the place where the process is (Loaded), and says    *)
(* who has a connection open (Connections).  main() of klishd.c.           *)
THEOREM KlishdInvariant == Spec => []IInv
<1>1. IInv /\ [Next]_vars => IInv'
  BY TypeStep, LoadedStep, ConnectionStep DEF IInv
<1>2. QED
  BY <1>1, InitIInv, PTL DEF Spec

(* In every process a plugin's session lies inside the time the plugin is  *)
(* initialized, that inside the time its code is open, and data of plugins *)
(* are freed while the code that frees them is open: load_all_dbs(),       *)
(* load_plugins(), ktpd_session_free(), clear_scheme(), kscheme_free().    *)
THEOREM KlishdLifetimesNest == Spec => []LifetimesNest
<1>1. IInv => LifetimesNest
  <2>. SUFFICES ASSUME IInv, NEW p \in Procs
                PROVE  /\ session[p] \subseteq inited[p]
                       /\ udata[p] \subseteq open[p]
                       /\ inited[p] \cap DBs \subseteq open[p]
                       /\ prepared[p] => inited[p] \subseteq open[p]
                       /\ pc[p] \in {"loop", "forked", "reap", "child", "new",
                                    "serve"} => Plugins \subseteq inited[p]
    BY DEF LifetimesNest
  <2>1. Loaded(p) /\ session[p] \subseteq Plugins /\ pc[p] \in Pcs
    BY DEF IInv, TypeOK
  <2>2. CASE pc[p] \in Bare
    BY <2>1, <2>2 DEF Loaded, Bare
  <2>3. CASE pc[p] \in InDb
    BY <2>1, <2>3 DEF Loaded, InDb
  <2>4. CASE pc[p] = "plugins"
    BY <2>1, <2>4, LibsDiffer DEF Loaded
  <2>5. CASE pc[p] \in Ready
    BY <2>1, <2>5, LibsDiffer DEF Loaded, Ready
  <2>6. CASE pc[p] \in Clearing
    BY <2>1, <2>6, LibsDiffer DEF Loaded, Clearing
  <2>7. QED
    BY <2>1, <2>2, <2>3, <2>4, <2>5, <2>6 DEF Pcs
<1>2. QED
  BY <1>1, KlishdInvariant, PTL

(* A set whose elements are all the same has at most one.                  *)
LEMMA AtMostOne ==
  ASSUME NEW S, \A x, y \in S : x = y
  PROVE  Cardinality(S) <= 1
<1>1. CASE S = {}
  BY <1>1, FS_EmptySet
<1>2. CASE S # {}
  <2>1. PICK x \in S : S = {x}
    BY <1>2
  <2>2. QED
    BY <2>1, FS_Singleton
<1>3. QED
  BY <1>1, <1>2

(* The connection of a client is open in one service at most, no service   *)
(* has two, and the daemon has it only until listen_socket_ev() returns:   *)
(* it is closed with its service (klishd.c:572).                           *)
THEOREM KlishdConnectionDiesWithService == Spec => []ConnectionDiesWithService
<1>1. IInv => ConnectionDiesWithService
  <2>. SUFFICES ASSUME Connections, NEW c \in Clients
                PROVE  /\ Cardinality(held[c] \cap Services) <= 1
                       /\ \A p \in held[c] \cap Daemons : pc[p] = "forked"
                       /\ \A d \in Clients \ {c} :
                            held[c] \cap held[d] \cap Services = {}
    BY DEF ConnectionDiesWithService, IInv
  <2>1. Cardinality(held[c] \cap Services) <= 1
    BY AtMostOne DEF Connections
  <2>2. QED
    BY <2>1 DEF Connections
<1>2. QED
  BY <1>1, KlishdInvariant, PTL

(* The step of the invariant below, by who moves.                          *)
LEMMA ZombieStep ==
  ASSUME TypeOK, ZombieKnown, [Next]_vars
  PROVE  ZombieKnown'
<1>1. /\ pc \in [Procs -> Pcs] /\ chld \in [Daemons -> BOOLEAN]
      /\ parent \in [Services -> Daemons \cup {NoProc}]
  BY DEF TypeOK
<1>. USE DEF Procs, Goto, fds, loaded
<1>2. ASSUME NEW p \in Procs, UNCHANGED <<parent, chld>>,
             pc[p] # "reap", pc'[p] # "zombie",
             \A q \in Procs \ {p} : pc'[q] = pc[q]
      PROVE  ZombieKnown'
  BY <1>1, <1>2 DEF ZombieKnown
<1>3. ASSUME NEW p \in Daemons,
             Start(p) \/ OpenDb(p) \/ InitDb(p) \/ LoadDb(p) \/ FiniDb(p)
               \/ DbsLoaded(p)
      PROVE  ZombieKnown'
  <2>1. /\ UNCHANGED <<parent, chld>> /\ pc[p] # "reap"
        /\ pc'[p] # "zombie" /\ \A q \in Procs \ {p} : pc'[q] = pc[q]
    BY <1>1, <1>3 DEF Start, OpenDb, InitDb, LoadDb, FiniDb, DbsLoaded, FreeDb
  <2>2. QED
    BY <2>1, <1>2
<1>4. ASSUME NEW p \in Daemons,
             PrepareEntries(p) \/ CreateListenUnixSock(p) \/ StopLoop(p)
               \/ ParentCloses(p)
      PROVE  ZombieKnown'
  <2>1. /\ UNCHANGED <<parent, chld>> /\ pc[p] # "reap"
        /\ pc'[p] # "zombie" /\ \A q \in Procs \ {p} : pc'[q] = pc[q]
    BY <1>1, <1>4
       DEF PrepareEntries, CreateListenUnixSock, StopLoop, ParentCloses
  <2>2. QED
    BY <2>1, <1>2
<1>5. ASSUME NEW s \in Services,
             HangUp(s) \/ LeaveLoop(s) \/ NewSession(s) \/ FreeSession(s)
      PROVE  ZombieKnown'
  <2>1. /\ UNCHANGED <<parent, chld>> /\ pc[s] # "reap"
        /\ pc'[s] # "zombie" /\ \A q \in Procs \ {s} : pc'[q] = pc[q]
    BY <1>1, <1>5 DEF HangUp, LeaveLoop, NewSession, FreeSession
  <2>2. QED
    BY <2>1, <1>2
<1>6. ASSUME NEW p \in Procs,
             CloseListenSock(p) \/ FiniPlugins(p) \/ FreeStore(p)
               \/ FreePlugins(p)
      PROVE  ZombieKnown'
  <2>1. /\ UNCHANGED <<parent, chld>> /\ pc[p] # "reap"
        /\ pc'[p] # "zombie" /\ \A q \in Procs \ {p} : pc'[q] = pc[q]
    BY <1>1, <1>6 DEF CloseListenSock, FiniPlugins, FreeStore, FreePlugins
  <2>2. QED
    BY <2>1, <1>2
<1>7. ASSUME NEW p \in Daemons, Accept(p)
      PROVE  ZombieKnown'
  <2>1. CASE UNCHANGED <<pc, parent>>
    BY <1>7, <2>1 DEF Accept, ZombieKnown
  <2>2. CASE \E s \in Services :
               /\ pc' = [pc EXCEPT ![p] = "forked", ![s] = "child"]
               /\ parent' = [parent EXCEPT ![s] = p]
    <3>1. PICK s \in Services :
               /\ pc' = [pc EXCEPT ![p] = "forked", ![s] = "child"]
               /\ parent' = [parent EXCEPT ![s] = p]
      BY <2>2
    <3>2. UNCHANGED chld /\ pc[p] = "loop"
      BY <1>7 DEF Accept
    <3>3. \A t \in Services : pc'[t] = "zombie" =>
            t # s /\ pc[t] = "zombie" /\ parent'[t] = parent[t]
      BY <1>1, <3>1, ProcsDiffer
    <3>4. QED
      BY <1>1, <3>1, <3>2, <3>3, ProcsDiffer DEF ZombieKnown
  <2>3. QED
    BY <1>7, <2>1, <2>2 DEF Accept
<1>8. ASSUME NEW p \in Daemons, SigChld(p)
      PROVE  ZombieKnown'
  BY <1>1, <1>8, ProcsDiffer DEF SigChld, ZombieKnown
<1>9. ASSUME NEW p \in Daemons, WaitPid(p)
      PROVE  ZombieKnown'
  <2>1. CASE Zombies(p) = {} /\ Goto(p, "loop") /\ UNCHANGED parent
    <3>1. \A s \in Services : pc[s] = "zombie" => parent[s] # p
      BY <2>1 DEF Zombies
    <3>2. QED
      BY <1>1, <1>9, <2>1, <3>1, ProcsDiffer DEF WaitPid, ZombieKnown
  <2>2. CASE \E s \in Zombies(p) :
               Goto(s, "gone") /\ parent' = [parent EXCEPT ![s] = NoProc]
    BY <1>1, <1>9, <2>2, ProcsDiffer DEF WaitPid, ZombieKnown, Zombies
  <2>3. QED
    BY <1>9, <2>1, <2>2 DEF WaitPid
<1>10. ASSUME NEW p \in Procs, Exit(p) \/ Killed(p)
      PROVE  ZombieKnown'
  <2>1. CASE p \in Daemons
    <3>1. /\ pc' = [q \in Procs |->
                      IF q = p \/ (q \in Services /\ parent[q] = p
                                     /\ pc[q] = "zombie")
                      THEN "gone" ELSE pc[q]]
          /\ parent' = [s \in Services |->
                          IF parent[s] = p THEN NoProc ELSE parent[s]]
          /\ chld' = [chld EXCEPT ![p] = FALSE]
      BY <1>10, <2>1 DEF Exit, Killed, Ends
    <3>2. \A s \in Services : pc'[s] = "zombie" =>
            /\ pc[s] = "zombie" /\ parent[s] # p
            /\ parent'[s] = parent[s]
      BY <3>1
    <3>3. \A d \in Daemons \ {p} : chld'[d] = chld[d] /\ pc'[d] = pc[d]
      BY <1>1, <3>1, ProcsDiffer
    <3>4. QED
      BY <1>1, <3>2, <3>3 DEF ZombieKnown
  <2>2. CASE p \notin Daemons
    <3>1. /\ pc' = [pc EXCEPT ![p] = IF parent[p] = NoProc THEN "gone"
                                     ELSE "zombie"]
          /\ chld' = [d \in Daemons |-> chld[d] \/ d = parent[p]]
          /\ UNCHANGED parent
      BY <1>10, <2>2 DEF Exit, Killed, Ends
    <3>2. \A d \in Daemons : (chld[d] => chld'[d]) /\ pc'[d] = pc[d]
      BY <1>1, <2>2, <3>1
    <3>3. parent[p] \in Daemons => chld'[parent[p]]
      BY <3>1
    <3>4. \A s \in Services \ {p} : pc'[s] = pc[s]
      BY <1>1, <3>1
    <3>5. pc'[p] = "zombie" => parent[p] \in Daemons
      BY <1>1, <2>2, <3>1
    <3>6. QED
      BY <3>1, <3>2, <3>3, <3>4, <3>5 DEF ZombieKnown
  <2>3. QED
    BY <2>1, <2>2
<1>11. CASE UNCHANGED <<pc, parent, chld>>
  BY <1>11 DEF ZombieKnown
<1>12. QED
  <2>1. ASSUME NEW p \in Daemons, LoadPlugin(p)
        PROVE  UNCHANGED <<pc, parent, chld>>
    BY <2>1 DEF LoadPlugin
  <2>2. ASSUME NEW s \in Services, Auth(s)
        PROVE  UNCHANGED <<pc, parent, chld>>
    BY <2>2 DEF Auth
  <2>3. ASSUME NEW c \in Clients, Connect(c) \/ Disconnect(c)
        PROVE  UNCHANGED <<pc, parent, chld>>
    BY <2>3 DEF Connect, Disconnect
  <2>4. CASE UNCHANGED vars
    BY <2>4, <1>11 DEF vars
  <2>5. QED
    BY <1>3, <1>4, <1>5, <1>6, <1>7, <1>8, <1>9, <1>10, <1>11, <2>1, <2>2,
       <2>3, <2>4
       DEF Next, DaemonStep, ServiceStep, Finish

(* The safety half of NoZombieStays: SIGCHLDs coalesce and come while the  *)
(* handler runs, yet the daemon of an ended service always has a SIGCHLD   *)
(* pending or is in the waitpid() loop of wait_for_child_ev()              *)
(* (klishd.c:513), which it leaves only when nothing is left to reap.      *)
THEOREM KlishdZombieKnown == Spec => []ZombieKnown
<1>1. Init => ZombieKnown
  BY DEF Init, ZombieKnown, Procs
<1>2. TypeOK /\ ZombieKnown /\ [Next]_vars => ZombieKnown'
  BY ZombieStep
<1>3. IInv => TypeOK
  BY DEF IInv
<1>4. QED
  BY <1>1, <1>2, <1>3, KlishdInvariant, PTL DEF Spec
=============================================================================
