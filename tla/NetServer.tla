----------------------------- MODULE NetServer -----------------------------
(***************************************************************************)
(* net.Server: listen() spawns a task that binds, accepts connections and, *)
(* once close() has told it to, waits until the sockets are gone; every    *)
(* accepted connection is a task of its own that registers its socket,     *)
(* serves it and takes it off the list again.  The tasks share two flags   *)
(* (should_close, already_listen), the list of sockets, a broadcast        *)
(* channel from close() to the accept loops, and one Notify per listen()   *)
(* through which the last socket wakes the waiting loop.                   *)
(*                                                                         *)
(* One task runs at a time and only an await lets another one in, so every *)
(* action is the code between two awaits.  A listener that throws ends the *)
(* process, after which nothing is left to check.                          *)
(***************************************************************************)
EXTENDS Naturals, FiniteSets

CONSTANTS
  MaxListens,        \* bound: calls of listen()
  MaxConns,          \* bound: connections that clients open
  Disciplines        \* the programs considered, by when they call listen()
                     \* again: "quiet", not before the earlier task and its
                     \* connections are gone; "started", not before an
                     \* earlier task has taken its first step; "any",
                     \* whenever they like

VARIABLES
  discipline,     \* the program's discipline
  should_close,   \* close() has been called since the last "close" event
  already_listen, \* a listen task is past its first step
  listens,        \* the listen tasks
  conns,          \* the connections
  sockets         \* the connections on the server's list of sockets

server == <<discipline, should_close, already_listen, listens, conns, sockets>>

Listens == 1..MaxListens
Conns == 1..MaxConns

\* A listen task: where it stands, whether its broadcast receiver holds a
\* message, and whether its Notify holds a permit.
ListenTask ==
  [pc : {"none", "spawned", "binding", "accepting", "waiting", "ended"},
   close_rx : BOOLEAN, permit : BOOLEAN]

\* A connection: in the backlog of the listener, accepted with its task not
\* yet run, on the list, finished, or reset by the kernel.
Connection ==
  [pc : {"none", "backlog", "spawned", "open", "ended", "reset"},
   of : Listens \cup {0}]

\* Server::new.
ServerInit ==
  /\ discipline \in Disciplines
  /\ should_close = FALSE
  /\ already_listen = FALSE
  /\ listens = [l \in Listens |->
                  [pc |-> "none", close_rx |-> FALSE, permit |-> FALSE]]
  /\ conns = [c \in Conns |-> [pc |-> "none", of |-> 0]]
  /\ sockets = {}

---------------------------------------------------------------------------
(* The program's calls *)

\* What the program waits for before it calls listen().
MayListen ==
  CASE discipline = "quiet" ->
         /\ \A k \in Listens : listens[k].pc \in {"none", "ended"}
         /\ \A c \in Conns : conns[c].pc \notin {"spawned", "open"}
    [] discipline = "started" -> \A k \in Listens : listens[k].pc # "spawned"
    [] discipline = "any" -> TRUE

ListenFault(l) ==
  /\ listens[l].pc = "none"
  /\ MayListen
  /\ listens' = [listens EXCEPT ![l].pc = "spawned"]
  /\ UNCHANGED <<discipline, should_close, already_listen, conns, sockets>>

\* listen(): subscribes to close() and spawns the task, or throws (and leaves
\* everything alone) when a listen task is running.
Listen(l) ==
  /\ listens[l].pc = "none"
  /\ ~already_listen
  /\ MayListen
  /\ listens' = [listens EXCEPT ![l].pc = "spawned"]
  /\ UNCHANGED <<discipline, should_close, already_listen, conns, sockets>>

\* The listen tasks that hold a receiver: from listen() until they end.
Subscribed == {l \in Listens : listens[l].pc \notin {"none", "ended"}}

\* close(): raises the flag and broadcasts.
CloseServer ==
  /\ should_close' = TRUE
  /\ listens' = [l \in Listens |->
                   IF l \in Subscribed
                   THEN [listens[l] EXCEPT !.close_rx = TRUE]
                   ELSE listens[l]]
  /\ UNCHANGED <<discipline, already_listen, conns, sockets>>

---------------------------------------------------------------------------
(* The listen task *)

\* First step: only now does the server count as listening.
StartListening(l) ==
  /\ listens[l].pc = "spawned"
  /\ already_listen' = TRUE
  /\ listens' = [listens EXCEPT ![l].pc = "binding"]
  /\ UNCHANGED <<discipline, should_close, conns, sockets>>

\* The listener is bound and "listening" emitted.
BindSucceeds(l) ==
  /\ listens[l].pc = "binding"
  /\ listens' = [listens EXCEPT ![l].pc = "accepting"]
  /\ UNCHANGED <<discipline, should_close, already_listen, conns, sockets>>

\* The error is emitted and the task ends; the server can listen again.
BindFails(l) ==
  /\ listens[l].pc = "binding"
  /\ already_listen' = FALSE
  /\ listens' = [listens EXCEPT ![l].pc = "ended"]
  /\ UNCHANGED <<discipline, should_close, conns, sockets>>

\* The accept branch of the select, which may win over a waiting close
\* message.  The connection gets a task of its own.
Accept(l, c) ==
  /\ listens[l].pc = "accepting"
  /\ conns[c] = [pc |-> "backlog", of |-> l]
  /\ conns' = [conns EXCEPT ![c].pc = "spawned"]
  /\ UNCHANGED <<discipline, should_close, already_listen, listens, sockets>>

\* The end of the task: flags reset, "close" emitted, and the listening
\* socket dropped, which resets the connections still in its backlog.
EndListening(l) ==
  /\ already_listen' = FALSE
  /\ should_close' = FALSE
  /\ listens' = [listens EXCEPT ![l].pc = "ended", ![l].permit = FALSE]
  /\ conns' = [c \in Conns |->
                 IF conns[c] = [pc |-> "backlog", of |-> l]
                 THEN [conns[c] EXCEPT !.pc = "reset"] ELSE conns[c]]
  /\ UNCHANGED <<discipline, sockets>>

\* The close branch of the select: the loop breaks.  With no socket on the
\* list, or a permit left in the Notify, the task runs to its end at once;
\* otherwise it waits to be notified.
StopAccepting(l) ==
  /\ listens[l].pc = "accepting"
  /\ listens[l].close_rx
  /\ IF sockets = {} \/ listens[l].permit
     THEN EndListening(l)
     ELSE /\ listens' = [listens EXCEPT ![l].pc = "waiting"]
          /\ UNCHANGED <<discipline, should_close, already_listen, conns, sockets>>

\* close_notify resolves.
SocketsFinished(l) ==
  /\ listens[l].pc = "waiting"
  /\ listens[l].permit
  /\ EndListening(l)

---------------------------------------------------------------------------
(* Connections *)

\* A client connects.  The listening socket lives until the listen task ends,
\* so the kernel takes connections that nobody will accept any more.
ClientConnects(l, c) ==
  /\ listens[l].pc \in {"accepting", "waiting"}
  /\ conns[c].pc = "none"
  /\ conns' = [conns EXCEPT ![c] = [pc |-> "backlog", of |-> l]]
  /\ UNCHANGED <<discipline, should_close, already_listen, listens, sockets>>

\* First step of the connection's task: the socket is put on the list,
\* "connection" is emitted and the reading and writing tasks are started.
ServeConnection(c) ==
  /\ conns[c].pc = "spawned"
  /\ conns' = [conns EXCEPT ![c].pc = "open"]
  /\ sockets' = sockets \cup {c}
  /\ UNCHANGED <<discipline, should_close, already_listen, listens>>

EndConnectionFault(c) ==
  /\ conns[c].pc = "open"
  /\ conns' = [conns EXCEPT ![c].pc = "ended"]
  /\ sockets' = sockets \ {c}
  /\ listens' = IF sockets = {} /\ should_close
                THEN [listens EXCEPT ![conns[c].of].permit = TRUE]
                ELSE listens
  /\ UNCHANGED <<discipline, should_close, already_listen>>

\* Both directions are done: "close" is emitted on the socket, the socket
\* leaves the list, and the last one of a closing server notifies the Notify
\* of its own listen task.
EndConnection(c) ==
  /\ conns[c].pc = "open"
  /\ conns' = [conns EXCEPT ![c].pc = "ended"]
  /\ sockets' = sockets \ {c}
  /\ listens' = IF sockets' = {} /\ should_close
                THEN [listens EXCEPT ![conns[c].of].permit = TRUE]
                ELSE listens
  /\ UNCHANGED <<discipline, should_close, already_listen>>

ServerNext ==
  \/ CloseServer
  \/ \E l \in Listens :
       \/ Listen(l) \/ StartListening(l) \/ BindSucceeds(l) \/ BindFails(l)
       \/ StopAccepting(l) \/ SocketsFinished(l)
  \/ \E l \in Listens, c \in Conns : Accept(l, c) \/ ClientConnects(l, c)
  \/ \E c \in Conns : ServeConnection(c) \/ EndConnection(c)

ServerSpec == ServerInit /\ [][ServerNext]_server

\* Every spawned task that can run does (the runtime polls woken tasks), a
\* bind completes, and the peers end their connections.
ServerOwed ==
  \/ \E l \in Listens :
       \/ StartListening(l) \/ BindSucceeds(l) \/ BindFails(l)
       \/ StopAccepting(l) \/ SocketsFinished(l)
  \/ \E c \in Conns : ServeConnection(c) \/ EndConnection(c)

ServerFairSpec == ServerSpec /\ WF_server(ServerOwed)

---------------------------------------------------------------------------
(* Properties *)

ServerTypeOK ==
  /\ discipline \in Disciplines
  /\ should_close \in BOOLEAN
  /\ already_listen \in BOOLEAN
  /\ listens \in [Listens -> ListenTask]
  /\ conns \in [Conns -> Connection]
  /\ sockets \subseteq Conns

Running == {l \in Listens : listens[l].pc \in {"binding", "accepting", "waiting"}}

\* At most one listen task is past its first step, and already_listen tells
\* whether there is one: what ERR_SERVER_ALREADY_LISTEN is there to ensure,
\* and does for a program that does not call listen() twice in one turn.
OneListener ==
  /\ ServerTypeOK
  /\ discipline # "any" =>
       /\ \A k, l \in Running : k = l
       /\ already_listen <=> Running # {}

\* A listen task that close() reaches ends, even when close() comes before
\* its first step or while it binds, provided that the clients go away.
CloseReaches(l) == listens[l].close_rx => listens[l].pc = "ended"

\* So it is for a program that calls listen() again only when nothing of the
\* earlier one is left.
Completed == discipline = "quiet" => \A l \in Listens : CloseReaches(l)
CloseCompletes == []<>Completed

\* The same of every program, as net.d.ts:281 says of close(): "the server is
\* finally closed when all connections are ended and the server emits a
\* 'close' event".
CloseAlwaysCompletes == []<>(\A l \in Listens : CloseReaches(l))
=============================================================================
