------------------------------- MODULE Klishd -------------------------------
(***************************************************************************)
(* The processes of klishd (bin/klishd/klishd.c): a daemon loads its data  *)
(* bases and plugins, listens on a UNIX socket and forks a service process *)
(* for each client; a service runs one KTP session and ends.               *)
(*                                                                         *)
(* Each process has its own copy of what is loaded (fork() copies it), and *)
(* descriptors are shared by the processes that hold them: a socket is     *)
(* closed when the last of them has closed it.  Several daemons may be     *)
(* started for the same path of the socket, also one after the other.      *)
(***************************************************************************)
EXTENDS Naturals, FiniteSets, Sequences

CONSTANTS
  Daemons,   \* listening processes: what "klishd" starts as
  Services,  \* the processes that may be forked
  Clients,   \* the connections that may be made
  DBs,       \* the data bases of the option DBs
  Plugins,   \* the PLUGINs of the scheme
  NoProc     \* no process

Procs == Daemons \cup Services

ASSUME ProcsDiffer == Daemons \cap Services = {} /\ NoProc \notin Procs
ASSUME LibsDiffer == DBs \cap Plugins = {}

VARIABLES
  pc,        \* where a process is
  parent,    \* the daemon that has forked a service and still waits for it
  \* What is loaded in a process.
  left,      \* the shared objects still to be loaded
  ret,       \* no error so far (retcode of load_all_dbs, load_plugins)
  open,      \* the shared objects opened with dlopen()
  inited,    \* those whose init function has run, and fini has not
  session,   \* the plugins whose session has been initialized
  udata,     \* the plugins whose data are in the scheme's store
  prepared,  \* kscheme_prepare() has succeeded
  \* Descriptors.
  path,      \* the daemon whose socket the path of the socket leads to
  holds,     \* the listening sockets (named by their daemon) of a process
  backlog,   \* the clients that wait in a listening socket
  held,      \* the processes that have a client's connection open
  client,    \* a client: "out", "up" or "left"
  chld       \* a daemon has a SIGCHLD pending

loaded == <<left, ret, open, inited, session, udata, prepared>>
fds == <<path, holds, backlog, held>>
vars == <<pc, parent, loaded, fds, client, chld>>

Goto(p, l) == pc' = [pc EXCEPT ![p] = l]

Queued(c) == \E d \in Daemons : c \in {backlog[d][i] : i \in DOMAIN backlog[d]}

(***************************************************************************)
(* Processes and descriptors as the kernel keeps them.                     *)
(***************************************************************************)
\* The last close() of a listening socket resets the clients in its queue.
CloseSockets(p) ==
  /\ holds' = [holds EXCEPT ![p] = {}]
  /\ backlog' = [d \in Daemons |->
                   IF \E q \in Procs \ {p} : d \in holds[q] THEN backlog[d]
                   ELSE <<>>]

\* Process p closes its connections.
CloseConnection(p) == held' = [c \in Clients |-> held[c] \ {p}]

\* The end of a process: it is a zombie of its daemon, or of nobody.  What a
\* daemon leaves behind is reaped by init.
Ends(p) ==
  /\ CloseSockets(p) /\ CloseConnection(p)
  /\ open' = [open EXCEPT ![p] = {}]
  /\ inited' = [inited EXCEPT ![p] = {}]
  /\ session' = [session EXCEPT ![p] = {}]
  /\ udata' = [udata EXCEPT ![p] = {}]
  /\ left' = [left EXCEPT ![p] = {}]
  /\ ret' = [ret EXCEPT ![p] = TRUE]
  /\ prepared' = [prepared EXCEPT ![p] = FALSE]
  /\ IF p \in Daemons
     THEN /\ pc' = [q \in Procs |->
                      IF q = p \/ (q \in Services /\ parent[q] = p
                                     /\ pc[q] = "zombie")
                      THEN "gone" ELSE pc[q]]
          /\ parent' = [s \in Services |->
                          IF parent[s] = p THEN NoProc ELSE parent[s]]
          /\ chld' = [chld EXCEPT ![p] = FALSE]
     ELSE /\ Goto(p, IF parent[p] = NoProc THEN "gone" ELSE "zombie")
          /\ chld' = [d \in Daemons |-> chld[d] \/ d = parent[p]]
          /\ UNCHANGED parent
  /\ UNCHANGED <<path, client>>

(***************************************************************************)
(* load_all_dbs(): each data base is opened, initialized, read, finalized  *)
(* and closed; an error does not keep the next ones from being read.       *)
(***************************************************************************)
Start(p) ==
  /\ pc[p] = "none"
  /\ Goto(p, "db_open")
  /\ left' = [left EXCEPT ![p] = DBs]
  /\ UNCHANGED <<parent, ret, open, inited, session, udata, prepared, fds,
                 client, chld>>

\* kdb_free(), then the next data base.
FreeDb(p, d, okay) ==
  /\ open' = [open EXCEPT ![p] = @ \ {d}]
  /\ ret' = [ret EXCEPT ![p] = @ /\ okay]
  /\ Goto(p, "db_open")

\* No shared object, no version, another version than ours or no function
\* that loads or deploys: an error.
OpenDb(p) ==
  /\ pc[p] = "db_open"
  /\ \E d \in left[p] :
       /\ left' = [left EXCEPT ![p] = @ \ {d}]
       /\ \/ FreeDb(p, d, FALSE)
          \/ /\ open' = [open EXCEPT ![p] = @ \cup {d}]
             /\ Goto(p, "db_init")
             /\ UNCHANGED ret
  /\ UNCHANGED <<parent, inited, session, udata, prepared, fds, client, chld>>

InitDb(p) ==
  /\ pc[p] = "db_init"
  /\ \E d \in open[p] :
       \/ /\ inited' = [inited EXCEPT ![p] = @ \cup {d}]
          /\ Goto(p, "db_load")
          /\ UNCHANGED <<open, ret>>
       \/ Goto(p, "db_load") /\ UNCHANGED <<open, ret, inited>> \* no function
       \/ FreeDb(p, d, FALSE) /\ UNCHANGED inited
  /\ UNCHANGED <<parent, left, session, udata, prepared, fds, client, chld>>

LoadDb(p) ==
  /\ pc[p] = "db_load"
  /\ \E d \in open[p] :
       \/ Goto(p, "db_fini") /\ UNCHANGED <<open, ret, inited>>
       \/ /\ inited' = [inited EXCEPT ![p] = @ \ {d}]
          /\ FreeDb(p, d, FALSE)
  /\ UNCHANGED <<parent, left, session, udata, prepared, fds, client, chld>>

FiniDb(p) ==
  /\ pc[p] = "db_fini"
  /\ \E d \in open[p], okay \in BOOLEAN :
       /\ inited' = [inited EXCEPT ![p] = @ \ {d}]
       /\ FreeDb(p, d, okay)
  /\ UNCHANGED <<parent, left, session, udata, prepared, fds, client, chld>>

DbsLoaded(p) ==
  /\ pc[p] = "db_open" /\ left[p] = {}
  /\ IF ret[p] THEN Goto(p, "plugins") /\ left' = [left EXCEPT ![p] = Plugins]
     ELSE Goto(p, "free") /\ UNCHANGED left
  /\ UNCHANGED <<parent, ret, open, inited, session, udata, prepared, fds,
                 client, chld>>

(***************************************************************************)
(* kscheme_prepare(): all plugins are tried, then the ENTRYs are prepared  *)
(* (the module Scheme).  A scheme with errors is freed, its plugins are    *)
(* not finalized.                                                          *)
(***************************************************************************)
\* Mutant: a plugin whose init function fails is no error.
LoadPluginAnyway(p) ==
  /\ pc[p] = "plugins"
  /\ \E g \in left[p] :
       /\ left' = [left EXCEPT ![p] = @ \ {g}]
       /\ open' = [open EXCEPT ![p] = @ \cup {g}]
       /\ \/ /\ inited' = [inited EXCEPT ![p] = @ \cup {g}]
             /\ udata' = [udata EXCEPT ![p] = @ \cup {g}]
          \/ UNCHANGED <<inited, udata>>
  /\ UNCHANGED <<pc, ret, parent, session, prepared, fds, client, chld>>

LoadPlugin(p) ==
  /\ pc[p] = "plugins"
  /\ \E g \in left[p] :
       /\ left' = [left EXCEPT ![p] = @ \ {g}]
       /\ \/ /\ ret' = [ret EXCEPT ![p] = FALSE]            \* cannot load
             /\ UNCHANGED <<open, inited, udata>>
          \/ /\ open' = [open EXCEPT ![p] = @ \cup {g}]     \* cannot init
             /\ ret' = [ret EXCEPT ![p] = FALSE]
             /\ UNCHANGED <<inited, udata>>
          \/ /\ open' = [open EXCEPT ![p] = @ \cup {g}]
             /\ inited' = [inited EXCEPT ![p] = @ \cup {g}]
             /\ udata' = [udata EXCEPT ![p] = @ \cup {g}]
             /\ UNCHANGED ret
  /\ UNCHANGED <<pc, parent, session, prepared, fds, client, chld>>

PrepareEntries(p) ==
  /\ pc[p] = "plugins" /\ left[p] = {}
  /\ \/ /\ ret[p]
        /\ prepared' = [prepared EXCEPT ![p] = TRUE]
        /\ Goto(p, "socket")
     \/ Goto(p, "free") /\ UNCHANGED prepared
  /\ UNCHANGED <<parent, left, ret, open, inited, session, udata, fds, client,
                 chld>>

(***************************************************************************)
(* create_listen_unix_sock(): whatever has the path is unlinked, also the  *)
(* socket of a daemon that is running.                                     *)
(***************************************************************************)
CreateListenUnixSock(p) ==
  /\ pc[p] = "socket"
  /\ \/ /\ path' = p
        /\ holds' = [holds EXCEPT ![p] = {p}]
        /\ Goto(p, "loop")
     \/ Goto(p, "leave") /\ UNCHANGED <<path, holds>>       \* no socket
     \/ path' = NoProc /\ Goto(p, "leave") /\ UNCHANGED holds \* no bind, listen
  /\ UNCHANGED <<parent, loaded, backlog, held, client, chld>>

(***************************************************************************)
(* The event loop of the daemon.                                           *)
(***************************************************************************)
\* A process that has not been used; which one makes no difference.
NewPid == CHOOSE s \in Services \cup {NoProc} :
            IF s = NoProc THEN \A q \in Services : pc[q] # "none"
            ELSE pc[s] = "none"

\* listen_socket_ev() up to fork(), which may fail.
Accept(p) ==
  /\ pc[p] = "loop" /\ backlog[p] # <<>>
  /\ backlog' = [backlog EXCEPT ![p] = Tail(@)]
  /\ UNCHANGED <<left, ret, session, path, client, chld>>
  /\ LET c == Head(backlog[p]) IN
     \/ \E s \in Services :
          /\ s = NewPid
          /\ pc' = [pc EXCEPT ![p] = "forked", ![s] = "child"]
          /\ parent' = [parent EXCEPT ![s] = p]
          /\ held' = [held EXCEPT ![c] = {p, s}]
          /\ holds' = [holds EXCEPT ![s] = holds[p]]
          /\ open' = [open EXCEPT ![s] = open[p]]
          /\ inited' = [inited EXCEPT ![s] = inited[p]]
          /\ udata' = [udata EXCEPT ![s] = udata[p]]
          /\ prepared' = [prepared EXCEPT ![s] = prepared[p]]
     \/ UNCHANGED <<pc, parent, open, inited, udata, prepared, holds, held>>

\* Mutant: the parent keeps the connection of the client.
ParentKeeps(p) ==
  /\ pc[p] = "forked"
  /\ Goto(p, "loop")
  /\ UNCHANGED <<parent, loaded, fds, client, chld>>

\* The parent's side of listen_socket_ev() after fork().
ParentCloses(p) ==
  /\ pc[p] = "forked"
  /\ CloseConnection(p)
  /\ Goto(p, "loop")
  /\ UNCHANGED <<parent, loaded, path, holds, backlog, client, chld>>

\* SIGCHLD: wait_for_child_ev() waits for children until there is none that
\* has ended.
SigChld(p) ==
  /\ pc[p] = "loop" /\ chld[p]
  /\ chld' = [chld EXCEPT ![p] = FALSE]
  /\ Goto(p, "reap")
  /\ UNCHANGED <<parent, loaded, fds, client>>

Zombies(p) == {s \in Services : parent[s] = p /\ pc[s] = "zombie"}

\* Mutant: one waitpid() for each SIGCHLD.
WaitPidOnce(p) ==
  /\ pc[p] = "reap"
  /\ \/ \E s \in Zombies(p) :
          /\ pc' = [pc EXCEPT ![s] = "gone", ![p] = "loop"]
          /\ parent' = [parent EXCEPT ![s] = NoProc]
     \/ Zombies(p) = {} /\ Goto(p, "loop") /\ UNCHANGED parent
  /\ UNCHANGED <<loaded, fds, client, chld>>

WaitPid(p) ==
  /\ pc[p] = "reap"
  /\ \/ \E s \in Zombies(p) :
          /\ Goto(s, "gone")
          /\ parent' = [parent EXCEPT ![s] = NoProc]
     \/ Zombies(p) = {} /\ Goto(p, "loop") /\ UNCHANGED parent
  /\ UNCHANGED <<loaded, fds, client, chld>>

\* SIGINT, SIGTERM, SIGQUIT.
StopLoop(p) ==
  /\ pc[p] = "loop"
  /\ Goto(p, "leave")
  /\ UNCHANGED <<parent, loaded, fds, client, chld>>

\* Mutant: only the daemon closes the listening socket.
ChildKeepsListenSock(p) ==
  /\ pc[p] \in {"leave", "child"}
  /\ IF pc[p] = "child" THEN UNCHANGED <<holds, backlog>> ELSE CloseSockets(p)
  /\ Goto(p, IF pc[p] = "child" THEN "new" ELSE "fini")
  /\ UNCHANGED <<parent, loaded, path, held, client, chld>>

\* main() at its label err: both the daemon that stops and the child that has
\* left the daemon's loop close the listening socket.
CloseListenSock(p) ==
  /\ pc[p] \in {"leave", "child"}
  /\ CloseSockets(p)
  /\ Goto(p, IF pc[p] = "child" THEN "new" ELSE "fini")
  /\ UNCHANGED <<parent, loaded, path, held, client, chld>>

(***************************************************************************)
(* The service process.                                                    *)
(***************************************************************************)
\* ktpd_session_new() fails when the scheme has no starting ENTRY; then only
\* the connection is closed.
NewSession(s) ==
  /\ pc[s] = "new"
  /\ \/ Goto(s, "serve") /\ UNCHANGED held
     \/ Goto(s, "fini") /\ CloseConnection(s)
  /\ UNCHANGED <<parent, loaded, path, holds, backlog, client, chld>>

\* KTP_AUTH, which may come again.
Auth(s) ==
  /\ pc[s] = "serve"
  /\ \E c \in Clients : s \in held[c] /\ client[c] = "up"
  /\ session' = [session EXCEPT ![s] = Plugins]
  /\ UNCHANGED <<pc, parent, left, ret, open, inited, udata, prepared, fds,
                 client, chld>>

\* The loop of the service ends: a signal, the exit of the session or a
\* client that has left.
LeaveLoop(s) ==
  /\ pc[s] = "serve"
  /\ Goto(s, "end")
  /\ UNCHANGED <<parent, loaded, fds, client, chld>>

HangUp(s) ==
  /\ \E c \in Clients : s \in held[c] /\ client[c] = "left"
  /\ LeaveLoop(s)

\* ktpd_session_free() of a session that may be authorized.
FreeSession(s) ==
  /\ pc[s] = "end"
  /\ session' = [session EXCEPT ![s] = {}]
  /\ CloseConnection(s)
  /\ Goto(s, "fini")
  /\ UNCHANGED <<parent, left, ret, open, inited, udata, prepared, path, holds,
                 backlog, client, chld>>

(***************************************************************************)
(* clear_scheme(), of the daemon and of each service: the plugins are      *)
(* finalized, then kscheme_free() frees the store, the ENTRYs and only     *)
(* then the plugins, whose code frees the rest.                            *)
(***************************************************************************)
FiniPlugins(p) ==
  /\ pc[p] = "fini"
  /\ inited' = [inited EXCEPT ![p] = @ \ Plugins]
  /\ Goto(p, "free")
  /\ UNCHANGED <<parent, left, ret, open, session, udata, prepared, fds, client,
                 chld>>

FreeStore(p) ==
  /\ pc[p] = "free"
  /\ udata' = [udata EXCEPT ![p] = {}]
  /\ Goto(p, "dlclose")
  /\ UNCHANGED <<parent, left, ret, open, inited, session, prepared, fds,
                 client, chld>>

FreePlugins(p) ==
  /\ pc[p] = "dlclose"
  /\ open' = [open EXCEPT ![p] = @ \ Plugins]
  /\ Goto(p, "exit")
  /\ UNCHANGED <<parent, left, ret, inited, session, udata, prepared, fds,
                 client, chld>>

Exit(p) == pc[p] = "exit" /\ Ends(p)

\* A crash of a plugin, or SIGKILL.
Killed(p) == pc[p] \notin {"none", "zombie", "gone"} /\ Ends(p)

(***************************************************************************)
(* The clients.                                                            *)
(***************************************************************************)
Connect(c) ==
  /\ client[c] = "out" /\ path # NoProc
  /\ \E p \in Procs : path \in holds[p]
  /\ client' = [client EXCEPT ![c] = "up"]
  /\ backlog' = [backlog EXCEPT ![path] = Append(@, c)]
  /\ UNCHANGED <<pc, parent, loaded, path, holds, held, chld>>

Disconnect(c) ==
  /\ client[c] = "up"
  /\ client' = [client EXCEPT ![c] = "left"]
  /\ UNCHANGED <<pc, parent, loaded, fds, chld>>

Init ==
  /\ pc = [p \in Procs |-> "none"]
  /\ parent = [s \in Services |-> NoProc]
  /\ left = [p \in Procs |-> {}]
  /\ ret = [p \in Procs |-> TRUE]
  /\ open = [p \in Procs |-> {}]
  /\ inited = [p \in Procs |-> {}]
  /\ session = [p \in Procs |-> {}]
  /\ udata = [p \in Procs |-> {}]
  /\ prepared = [p \in Procs |-> FALSE]
  /\ path = NoProc
  /\ holds = [p \in Procs |-> {}]
  /\ backlog = [d \in Daemons |-> <<>>]
  /\ held = [c \in Clients |-> {}]
  /\ client = [c \in Clients |-> "out"]
  /\ chld = [d \in Daemons |-> FALSE]

\* What a daemon does by itself once it has been started.
DaemonStep(p) ==
  \/ OpenDb(p) \/ InitDb(p) \/ LoadDb(p) \/ FiniDb(p) \/ DbsLoaded(p)
  \/ LoadPlugin(p) \/ PrepareEntries(p) \/ CreateListenUnixSock(p)
  \/ Accept(p) \/ ParentCloses(p) \/ SigChld(p) \/ WaitPid(p)

\* What a service does once it has been forked.
ServiceStep(s) == NewSession(s) \/ HangUp(s) \/ FreeSession(s)

Finish(p) ==
  CloseListenSock(p) \/ FiniPlugins(p) \/ FreeStore(p) \/ FreePlugins(p)
    \/ Exit(p)

Next ==
  \/ \E p \in Daemons : Start(p) \/ DaemonStep(p) \/ StopLoop(p)
  \/ \E s \in Services : ServiceStep(s) \/ Auth(s) \/ LeaveLoop(s)
  \/ \E p \in Procs : Finish(p) \/ Killed(p)
  \/ \E c \in Clients : Connect(c) \/ Disconnect(c)

\* A process that can go on does; nobody has to start, stop or kill it, and a
\* client need not connect or leave.
Fairness ==
  /\ \A p \in Daemons : WF_vars(DaemonStep(p))
  /\ \A s \in Services : WF_vars(ServiceStep(s))
  /\ \A p \in Procs : WF_vars(Finish(p))

Spec == Init /\ [][Next]_vars
FairSpec == Spec /\ Fairness

(***************************************************************************)
(* Properties.                                                             *)
(***************************************************************************)
\* In every process, shared objects are used only while they are there: the
\* session of a plugin lasts inside the time it is initialized, that inside
\* the time its code is open, and data that plugins have put into the scheme
\* are freed while the code that frees them is open.  A process that serves
\* has initialized all plugins.  (When a scheme cannot be prepared, plugins
\* are closed without being finalized.)  load_db() (klishd.c:264),
\* kscheme_load_plugins() (kscheme.c:115), ktpd_session_free(), clear_scheme()
\* (klishd.c:425) and the order of kscheme_free() (kscheme.c:76).
LifetimesNest ==
  \A p \in Procs :
    /\ session[p] \subseteq inited[p]
    /\ udata[p] \subseteq open[p]
    /\ inited[p] \cap DBs \subseteq open[p]
    /\ prepared[p] => inited[p] \subseteq open[p]
    /\ pc[p] \in {"loop", "forked", "reap", "child", "new", "serve"} =>
         Plugins \subseteq inited[p]

\* A connection is closed with its service process, so that its client
\* notices: it is held by one service at most, and by the daemon only until
\* the handler that has forked the service returns.  No service holds the
\* connection of another one.  listen_socket_ev() (klishd.c:572).
ConnectionDiesWithService ==
  \A c \in Clients :
    /\ Cardinality(held[c] \cap Services) <= 1
    /\ \A p \in held[c] \cap Daemons : pc[p] = "forked"
    /\ \A d \in Clients \ {c} : held[c] \cap held[d] \cap Services = {}

\* No ended service stays a zombie, though the SIGCHLDs of several services
\* coalesce and may come while the handler runs: wait_for_child_ev()
\* (klishd.c:513).
NoZombieStays ==
  \A s \in Services : (pc[s] = "zombie") ~> (pc[s] = "gone")

\* A client that has connected does not wait for ever: it gets a service, or
\* its connection is closed or reset, also when its daemon stops or dies, or
\* another daemon takes the path over.  listen_socket_ev(), and main() at err.
EveryClientAnswered == \A c \in Clients : Queued(c) ~> ~Queued(c)

=============================================================================
