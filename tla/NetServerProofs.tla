-------------------------- MODULE NetServerProofs --------------------------
(* Proofs about NetServer, for any number of calls of listen() and of      *)
(* connections.                                                            *)
EXTENDS NetServer, TLAPS

(* One task at a time is between listen() and its end.  The flag itself    *)
(* only rises with the task's first step, so the discipline has to bridge  *)
(* the time from listen() to that step.                                    *)
Exclusive ==
  discipline # "any" =>
    /\ \A k, l \in Subscribed : k = l
    /\ already_listen = TRUE <=> Running # {}

(* For a program that lets everything end before it listens again: the     *)
(* connections being served are those of the task that is there, the       *)
(* message of close() does not outlive the flag, and a task that waits is  *)
(* notified or has a socket to wait for.                                   *)
Quiet ==
  discipline = "quiet" =>
    /\ \A c \in Conns : conns[c].pc \in {"spawned", "open"} =>
         \A l \in Subscribed : conns[c].of = l
    /\ \A l \in Subscribed : listens[l].close_rx = TRUE => should_close = TRUE
    /\ \A l \in Listens : listens[l].pc = "waiting" =>
         listens[l].close_rx = TRUE /\ (listens[l].permit = TRUE \/ sockets # {})

(* The list holds the open connections; only a listen() that was called    *)
(* has a message of close().                                               *)
Lists ==
  /\ sockets = {c \in Conns : conns[c].pc = "open"}
  /\ \A l \in Listens : listens[l].pc = "none" => listens[l].close_rx = FALSE

Inv == ServerTypeOK /\ Lists /\ Exclusive /\ Quiet

(* No notification is lost: a listen task that waits for its sockets holds *)
(* the permit of its Notify, or there are sockets, all of them its own,    *)
(* and the flag is up by which the last one to end notifies it.            *)
NoLostNotify ==
  discipline = "quiet" =>
    \A l \in Listens : listens[l].pc = "waiting" =>
      \/ listens[l].permit
      \/ /\ should_close /\ sockets # {}
         /\ \A c \in sockets : conns[c].of = l

----------------------------------------------------------------------------
LEMMA InitInv == ServerInit => Inv
<1> SUFFICES ASSUME ServerInit PROVE Inv
  OBVIOUS
<1>1. /\ \A l \in Listens : listens[l].pc = "none" /\ listens[l].close_rx = FALSE
      /\ \A c \in Conns : conns[c].pc = "none"
  BY DEF ServerInit
<1>2. Subscribed = {} /\ Running = {}
  BY <1>1 DEF Subscribed, Running
<1>3. ServerTypeOK
  <2>1. listens \in [Listens -> ListenTask]
    BY DEF ServerInit, ListenTask
  <2>2. conns \in [Conns -> Connection]
    BY DEF ServerInit, Connection
  <2> QED
    BY <2>1, <2>2, Zenon DEF ServerInit, ServerTypeOK
<1>4. Lists
  BY <1>1 DEF ServerInit, Lists
<1>5. Exclusive /\ Quiet
  BY <1>1, <1>2 DEF ServerInit, Exclusive, Quiet
<1> QED
  BY <1>3, <1>4, <1>5 DEF Inv

(* A step that only takes task l from one point to another.                *)
LEMMA TypesKept ==
  ASSUME ServerTypeOK, NEW l \in Listens,
         NEW pc \in {"none", "spawned", "binding", "accepting", "waiting", "ended"},
         listens' = [listens EXCEPT ![l].pc = pc]
  PROVE  /\ listens' \in [Listens -> ListenTask]
         /\ listens'[l].pc = pc
         /\ listens'[l].close_rx = listens[l].close_rx
         /\ listens'[l].permit = listens[l].permit
         /\ \A k \in Listens : k # l => listens'[k] = listens[k]
  BY DEF ServerTypeOK, ListenTask

(* The end of a task that is past its first step.                          *)
LEMMA EndListeningInv ==
  ASSUME Inv, NEW l \in Listens, l \in Running, EndListening(l)
  PROVE  Inv'
<1>1. /\ already_listen' = FALSE /\ should_close' = FALSE
      /\ discipline' = discipline /\ sockets' = sockets
      /\ listens' \in [Listens -> ListenTask]
      /\ listens'[l].pc = "ended"
      /\ \A k \in Listens : k # l => listens'[k] = listens[k]
  BY Zenon DEF EndListening, Inv, ServerTypeOK, ListenTask
<1>2. /\ conns' \in [Conns -> Connection]
      /\ \A c \in Conns : conns'[c].of = conns[c].of
      /\ \A c \in Conns : conns'[c].pc = conns[c].pc \/
                          (conns[c].pc = "backlog" /\ conns'[c].pc = "reset")
  BY DEF EndListening, Inv, ServerTypeOK, Connection
<1>3. ServerTypeOK'
  BY <1>1, <1>2, Zenon DEF Inv, ServerTypeOK
<1>4. Lists'
  BY <1>1, <1>2 DEF Inv, Lists
<1>5. \A k \in Listens : /\ k \in Subscribed' => k # l /\ k \in Subscribed
                         /\ k \in Running' => k # l /\ k \in Running
  BY <1>1 DEF Subscribed, Running
<1>6. l \in Subscribed
  BY DEF Subscribed, Running
<1>7. Subscribed' \subseteq Listens /\ Running' \subseteq Listens
  BY DEF Subscribed, Running
<1>8. discipline # "any" => Subscribed' = {} /\ Running' = {}
  <2>1. Running \subseteq Subscribed
    BY DEF Subscribed, Running
  <2> QED
    BY <2>1, <1>5, <1>6, <1>7 DEF Inv, Exclusive
<1>9. Exclusive'
  BY <1>1, <1>8 DEF Exclusive
<1>10. Quiet'
  <2> SUFFICES ASSUME discipline = "quiet" PROVE Quiet'
    BY <1>1, Zenon DEF Quiet
  <2>1. Subscribed' = {}
    BY <1>8
  <2>2. \A k \in Listens : listens'[k].pc # "waiting"
    BY <2>1 DEF Subscribed
  <2> QED
    BY <2>1, <2>2 DEF Quiet
<1> QED
  BY <1>3, <1>4, <1>9, <1>10 DEF Inv

----------------------------------------------------------------------------
LEMMA StepInv ==
  ASSUME Disciplines \subseteq {"quiet", "started", "any"}, Inv, [ServerNext]_server
  PROVE  Inv'
<1>1. Running \subseteq Subscribed /\ Subscribed \subseteq Listens
  BY DEF Running, Subscribed
<1>2. ASSUME NEW l \in Listens, Listen(l) PROVE Inv'
  <2>1. /\ listens[l].pc = "none" /\ already_listen = FALSE /\ MayListen
        /\ listens' = [listens EXCEPT ![l].pc = "spawned"]
        /\ UNCHANGED <<discipline, should_close, already_listen, conns, sockets>>
    BY <1>2 DEF Listen, Inv, ServerTypeOK
  <2>2. /\ listens' \in [Listens -> ListenTask]
        /\ listens'[l].pc = "spawned"
        /\ listens'[l].close_rx = listens[l].close_rx
        /\ \A k \in Listens : k # l => listens'[k] = listens[k]
    BY <2>1, TypesKept, Zenon DEF Inv
  <2>3. ServerTypeOK' /\ Lists'
    BY <2>1, <2>2 DEF Inv, ServerTypeOK, Lists
  <2>4. Subscribed' = Subscribed \cup {l} /\ Running' = Running
    BY <2>1, <2>2 DEF Subscribed, Running
  <2>5. ASSUME discipline # "any" PROVE Subscribed = {}
    <3>1. discipline \in {"quiet", "started"}
      BY <2>5 DEF Inv, ServerTypeOK
    <3>2. \A k \in Listens : listens[k].pc # "spawned"
      BY <3>1, <2>1, Zenon DEF MayListen
    <3>3. Running = {}
      BY <2>1, <2>5 DEF Inv, Exclusive
    <3> QED
      BY <3>2, <3>3 DEF Subscribed, Running, Inv, ServerTypeOK, ListenTask
  <2>6. Exclusive'
    BY <2>1, <2>4, <2>5 DEF Inv, Exclusive
  <2>7. Quiet'
    <3> SUFFICES ASSUME discipline = "quiet" PROVE Quiet'
      BY <2>1, Zenon DEF Quiet
    <3>1. \A c \in Conns : conns[c].pc \notin {"spawned", "open"}
      BY <2>1 DEF MayListen
    <3>2. listens[l].close_rx = FALSE
      BY <2>1 DEF Inv, Lists
    <3> QED
      BY <3>1, <3>2, <2>1, <2>2, <2>4, <2>5 DEF Quiet, Inv
  <2> QED
    BY <2>3, <2>6, <2>7 DEF Inv
<1>3. ASSUME CloseServer PROVE Inv'
  <2>1. /\ should_close' = TRUE
        /\ UNCHANGED <<discipline, already_listen, conns, sockets>>
        /\ listens' \in [Listens -> ListenTask]
        /\ \A l \in Listens : /\ listens'[l].pc = listens[l].pc
                              /\ listens'[l].permit = listens[l].permit
                              /\ l \in Subscribed => listens'[l].close_rx = TRUE
                              /\ l \notin Subscribed => listens'[l] = listens[l]
    <3>1. listens \in [Listens -> ListenTask]
      BY DEF Inv, ServerTypeOK
    <3>2. ASSUME NEW l \in Listens
          PROVE  LET closed == [listens[l] EXCEPT !.close_rx = TRUE]
                 IN  /\ closed \in ListenTask
                     /\ closed.pc = listens[l].pc
                     /\ closed.permit = listens[l].permit
                     /\ closed.close_rx = TRUE
      <4>1. listens[l] \in ListenTask
        BY <3>1
      <4> QED
        BY <4>1, Zenon DEF ListenTask
    <3>3. ASSUME NEW l \in Listens
          PROVE  listens'[l] = IF l \in Subscribed
                               THEN [listens[l] EXCEPT !.close_rx = TRUE]
                               ELSE listens[l]
      BY <1>3 DEF CloseServer
    <3>4. \A l \in Listens : listens'[l] \in ListenTask
      BY <3>1, <3>2, <3>3, Zenon
    <3>5. listens' \in [Listens -> ListenTask]
      BY <1>3, <3>4 DEF CloseServer
    <3>6. /\ should_close' = TRUE
          /\ UNCHANGED <<discipline, already_listen, conns, sockets>>
      BY <1>3 DEF CloseServer
    <3> QED
      BY <3>2, <3>3, <3>5, <3>6, Zenon
  <2>2. Subscribed' = Subscribed /\ Running' = Running
    BY <2>1 DEF Subscribed, Running
  <2>3. ServerTypeOK' /\ Lists' /\ Exclusive'
    BY <2>1, <2>2 DEF Inv, ServerTypeOK, Lists, Exclusive, Subscribed
  <2>4. Quiet'
    BY <2>1, <2>2 DEF Inv, Quiet, Subscribed
  <2> QED
    BY <2>3, <2>4 DEF Inv
<1>4. ASSUME NEW l \in Listens, StartListening(l) PROVE Inv'
  <2>1. /\ listens[l].pc = "spawned" /\ already_listen' = TRUE
        /\ listens' = [listens EXCEPT ![l].pc = "binding"]
        /\ UNCHANGED <<discipline, should_close, conns, sockets>>
    BY <1>4 DEF StartListening
  <2>2. /\ listens' \in [Listens -> ListenTask]
        /\ listens'[l].pc = "binding"
        /\ listens'[l].close_rx = listens[l].close_rx
        /\ \A k \in Listens : k # l => listens'[k] = listens[k]
    BY <2>1, TypesKept, Zenon DEF Inv
  <2>3. Subscribed' = Subscribed /\ Running' = Running \cup {l}
    BY <2>1, <2>2 DEF Subscribed, Running
  <2>4. ServerTypeOK' /\ Lists' /\ Exclusive'
    BY <2>1, <2>2, <2>3 DEF Inv, ServerTypeOK, Lists, Exclusive
  <2>5. Quiet'
    BY <2>1, <2>2, <2>3 DEF Inv, Quiet, Subscribed
  <2> QED
    BY <2>4, <2>5 DEF Inv
<1>5. ASSUME NEW l \in Listens, BindSucceeds(l) PROVE Inv'
  <2>1. /\ listens[l].pc = "binding"
        /\ listens' = [listens EXCEPT ![l].pc = "accepting"]
        /\ UNCHANGED <<discipline, should_close, already_listen, conns, sockets>>
    BY <1>5 DEF BindSucceeds
  <2>2. /\ listens' \in [Listens -> ListenTask]
        /\ listens'[l].pc = "accepting"
        /\ listens'[l].close_rx = listens[l].close_rx
        /\ \A k \in Listens : k # l => listens'[k] = listens[k]
    BY <2>1, TypesKept, Zenon DEF Inv
  <2>3. Subscribed' = Subscribed /\ Running' = Running
    BY <2>1, <2>2 DEF Subscribed, Running
  <2>4. ServerTypeOK' /\ Lists' /\ Exclusive'
    BY <2>1, <2>2, <2>3 DEF Inv, ServerTypeOK, Lists, Exclusive
  <2>5. Quiet'
    BY <2>1, <2>2, <2>3 DEF Inv, Quiet, Subscribed
  <2> QED
    BY <2>4, <2>5 DEF Inv
<1>6. ASSUME NEW l \in Listens, BindFails(l) PROVE Inv'
  <2>1. /\ listens[l].pc = "binding" /\ already_listen' = FALSE
        /\ listens' = [listens EXCEPT ![l].pc = "ended"]
        /\ UNCHANGED <<discipline, should_close, conns, sockets>>
    BY <1>6 DEF BindFails
  <2>2. /\ listens' \in [Listens -> ListenTask]
        /\ listens'[l].pc = "ended"
        /\ \A k \in Listens : k # l => listens'[k] = listens[k]
    BY <2>1, TypesKept, Zenon DEF Inv
  <2>3. Subscribed' = Subscribed \ {l} /\ Running' = Running \ {l} /\ l \in Subscribed
    BY <2>1, <2>2 DEF Subscribed, Running
  <2>4. ServerTypeOK' /\ Lists'
    BY <2>1, <2>2, Zenon DEF Inv, ServerTypeOK, Lists
  <2>5. Exclusive'
    BY <2>1, <2>3, <1>1 DEF Inv, Exclusive
  <2>6. Quiet'
    BY <2>1, <2>2, <2>3 DEF Inv, Quiet, Subscribed
  <2> QED
    BY <2>4, <2>5, <2>6 DEF Inv
<1>7. ASSUME NEW l \in Listens, StopAccepting(l) PROVE Inv'
  <2>1. CASE EndListening(l)
    BY <1>7, <2>1, EndListeningInv DEF StopAccepting, Running
  <2>2. CASE /\ ~(sockets = {} \/ listens[l].permit)
             /\ listens' = [listens EXCEPT ![l].pc = "waiting"]
             /\ UNCHANGED <<discipline, should_close, already_listen, conns, sockets>>
    <3>1. /\ listens[l].pc = "accepting" /\ listens[l].close_rx = TRUE
      BY <1>7 DEF StopAccepting, Inv, ServerTypeOK, ListenTask
    <3>2. /\ listens' \in [Listens -> ListenTask]
          /\ listens'[l].pc = "waiting"
          /\ listens'[l].close_rx = listens[l].close_rx
          /\ \A k \in Listens : k # l => listens'[k] = listens[k]
      BY <2>2, TypesKept, Zenon DEF Inv
    <3>3. Subscribed' = Subscribed /\ Running' = Running
      BY <3>1, <3>2 DEF Subscribed, Running
    <3>4. ServerTypeOK' /\ Lists' /\ Exclusive'
      BY <2>2, <3>2, <3>3 DEF Inv, ServerTypeOK, Lists, Exclusive
    <3>5. Quiet'
      BY <2>2, <3>1, <3>2, <3>3 DEF Inv, Quiet, Subscribed
    <3> QED
      BY <3>4, <3>5 DEF Inv
  <2> QED
    BY <1>7, <2>1, <2>2 DEF StopAccepting
<1>8. ASSUME NEW l \in Listens, SocketsFinished(l) PROVE Inv'
  BY <1>8, EndListeningInv DEF SocketsFinished, Running
<1>9. ASSUME NEW l \in Listens, NEW c \in Conns, Accept(l, c) PROVE Inv'
  <2>1. /\ listens[l].pc = "accepting" /\ conns[c].pc = "backlog" /\ conns[c].of = l
        /\ conns' \in [Conns -> Connection]
        /\ conns'[c].pc = "spawned" /\ conns'[c].of = l
        /\ \A b \in Conns : b # c => conns'[b] = conns[b]
        /\ UNCHANGED <<discipline, should_close, already_listen, listens, sockets>>
    BY <1>9 DEF Accept, Inv, ServerTypeOK, Connection
  <2>2. Subscribed' = Subscribed /\ Running' = Running /\ l \in Subscribed
    BY <2>1 DEF Subscribed, Running
  <2>3. ServerTypeOK' /\ Lists' /\ Exclusive'
    BY <2>1, <2>2 DEF Inv, ServerTypeOK, Lists, Exclusive
  <2>4. Quiet'
    BY <2>1, <2>2 DEF Inv, Quiet, Exclusive
  <2> QED
    BY <2>3, <2>4 DEF Inv
<1>10. ASSUME NEW l \in Listens, NEW c \in Conns, ClientConnects(l, c) PROVE Inv'
  <2>1. /\ conns[c].pc = "none"
        /\ conns' \in [Conns -> Connection]
        /\ conns'[c].pc = "backlog"
        /\ \A b \in Conns : b # c => conns'[b] = conns[b]
        /\ UNCHANGED <<discipline, should_close, already_listen, listens, sockets>>
    BY <1>10 DEF ClientConnects, Inv, ServerTypeOK, Connection
  <2>2. Subscribed' = Subscribed /\ Running' = Running
    BY <2>1 DEF Subscribed, Running
  <2>3. ServerTypeOK' /\ Lists' /\ Exclusive'
    BY <2>1, <2>2 DEF Inv, ServerTypeOK, Lists, Exclusive
  <2>4. Quiet'
    BY <2>1, <2>2 DEF Inv, Quiet
  <2> QED
    BY <2>3, <2>4 DEF Inv
<1>11. ASSUME NEW c \in Conns, ServeConnection(c) PROVE Inv'
  <2>1. /\ conns[c].pc = "spawned" /\ sockets' = sockets \cup {c}
        /\ conns' \in [Conns -> Connection]
        /\ conns'[c].pc = "open" /\ conns'[c].of = conns[c].of
        /\ \A b \in Conns : b # c => conns'[b] = conns[b]
        /\ UNCHANGED <<discipline, should_close, already_listen, listens>>
    BY <1>11 DEF ServeConnection, Inv, ServerTypeOK, Connection
  <2>2. Subscribed' = Subscribed /\ Running' = Running
    BY <2>1 DEF Subscribed, Running
  <2>3. ServerTypeOK' /\ Lists' /\ Exclusive'
    BY <2>1, <2>2 DEF Inv, ServerTypeOK, Lists, Exclusive
  <2>4. Quiet'
    BY <2>1, <2>2 DEF Inv, Quiet
  <2> QED
    BY <2>3, <2>4 DEF Inv
<1>12. ASSUME NEW c \in Conns, EndConnection(c) PROVE Inv'
  <2>1. /\ conns[c].pc = "open" /\ sockets' = sockets \ {c}
        /\ conns' \in [Conns -> Connection]
        /\ conns'[c].pc = "ended"
        /\ \A b \in Conns : b # c => conns'[b] = conns[b]
        /\ UNCHANGED <<discipline, should_close, already_listen>>
    BY <1>12 DEF EndConnection, Inv, ServerTypeOK, Connection
  <2>2. /\ listens' \in [Listens -> ListenTask]
        /\ \A l \in Listens : /\ listens'[l].pc = listens[l].pc
                              /\ listens'[l].close_rx = listens[l].close_rx
                              /\ listens[l].permit = TRUE => listens'[l].permit = TRUE
    <3>1. CASE listens' = listens
      BY <3>1 DEF Inv, ServerTypeOK
    <3>2. CASE listens' = [listens EXCEPT ![conns[c].of].permit = TRUE]
      <4>1. \A l \in Listens :
              listens'[l] = IF l = conns[c].of THEN [listens[l] EXCEPT !.permit = TRUE]
                            ELSE listens[l]
        BY <3>2, Zenon DEF Inv, ServerTypeOK
      <4>2. \A l \in Listens : listens[l] \in ListenTask
        BY DEF Inv, ServerTypeOK
      <4>3. \A l \in Listens : listens'[l] \in ListenTask
        <5> SUFFICES ASSUME NEW l \in Listens PROVE listens'[l] \in ListenTask
          OBVIOUS
        <5>1. CASE l = conns[c].of
          <6>1. listens'[l] = [listens[l] EXCEPT !.permit = TRUE]
            BY <5>1, <4>1
          <6>2. listens[l] \in ListenTask
            BY <4>2
          <6> QED
            BY <6>1, <6>2, Zenon DEF ListenTask
        <5>2. CASE l # conns[c].of
          BY <5>2, <4>1, <4>2, Zenon
        <5> QED
          BY <5>1, <5>2
      <4>4. listens' \in [Listens -> ListenTask]
        <5>1. listens' = [l \in Listens |-> listens'[l]]
          BY <3>2, Zenon DEF Inv, ServerTypeOK
        <5> QED
          BY <5>1, <4>3
      <4> QED
        BY <4>1, <4>2, <4>4 DEF ListenTask
    <3> QED
      BY <1>12, <3>1, <3>2, Zenon DEF EndConnection
  <2>3. ASSUME sockets' = {}, should_close = TRUE, conns[c].of \in Listens
        PROVE  listens'[conns[c].of].permit = TRUE
    BY <1>12, <2>3 DEF EndConnection, Inv, ServerTypeOK, ListenTask
  <2>4. Subscribed' = Subscribed /\ Running' = Running
    BY <2>2 DEF Subscribed, Running
  <2>5. ServerTypeOK' /\ Lists' /\ Exclusive'
    BY <2>1, <2>2, <2>4 DEF Inv, ServerTypeOK, Lists, Exclusive
  <2>6. Quiet'
    <3> SUFFICES ASSUME discipline = "quiet" PROVE Quiet'
      BY <2>1, Zenon DEF Quiet
    <3>1. ASSUME NEW l \in Listens, listens[l].pc = "waiting", sockets' = {}
          PROVE  listens'[l].permit = TRUE
      <4>1. l \in Subscribed
        BY <3>1 DEF Subscribed
      <4>2. conns[c].of = l /\ should_close = TRUE
        BY <3>1, <4>1, <2>1 DEF Inv, Quiet
      <4> QED
        BY <3>1, <4>2, <2>3, Zenon
    <3>2. \A b \in Conns : conns'[b].pc \in {"spawned", "open"} =>
            \A l \in Subscribed' : conns'[b].of = l
      BY <2>1, <2>4 DEF Inv, Quiet
    <3>3. \A l \in Subscribed' : listens'[l].close_rx = TRUE => should_close' = TRUE
      BY <2>1, <2>2, <2>4, <1>1 DEF Inv, Quiet
    <3>4. ASSUME NEW l \in Listens, listens'[l].pc = "waiting"
          PROVE  listens'[l].close_rx = TRUE /\ (listens'[l].permit = TRUE \/ sockets' # {})
      BY <3>1, <3>4, <2>2, Zenon DEF Inv, Quiet
    <3> QED
      BY <3>2, <3>3, <3>4, Zenon DEF Quiet
  <2> QED
    BY <2>5, <2>6 DEF Inv
<1>13. CASE UNCHANGED server
  BY <1>13 DEF server, Inv, ServerTypeOK, Lists, Exclusive, Quiet, Subscribed, Running
<1> QED
  BY <1>2, <1>3, <1>4, <1>5, <1>6, <1>7, <1>8, <1>9, <1>10, <1>11, <1>12, <1>13 DEF ServerNext

LEMMA InvImplies == Inv => OneListener /\ NoLostNotify
<1> SUFFICES ASSUME Inv PROVE OneListener /\ NoLostNotify
  OBVIOUS
<1>1. Running \subseteq Subscribed
  BY DEF Running, Subscribed
<1>2. OneListener
  BY <1>1 DEF Inv, OneListener, Exclusive, ServerTypeOK
<1>3. NoLostNotify
  <2> SUFFICES ASSUME discipline = "quiet", NEW l \in Listens, listens[l].pc = "waiting",
                      listens[l].permit # TRUE
               PROVE  /\ should_close /\ sockets # {}
                      /\ \A c \in sockets : conns[c].of = l
    BY Zenon DEF NoLostNotify, Inv, ServerTypeOK, ListenTask
  <2>1. l \in Subscribed
    BY DEF Subscribed
  <2>2. should_close = TRUE /\ sockets # {}
    BY <2>1, Zenon DEF Inv, Quiet
  <2>3. \A c \in sockets : conns[c].of = l
    BY <2>1 DEF Inv, Quiet, Lists
  <2> QED
    BY <2>2, <2>3
<1> QED
  BY <1>2, <1>3

(* A server has one listen task past its first step at most, and           *)
(* already_listen tells whether it has one, for every program that does    *)
(* not call listen() twice in a turn; and when nothing of an earlier       *)
(* listen() is left as it listens again, the notification that a closing   *)
(* server waits for is never lost.                                         *)
THEOREM NetServerSafe ==
  ASSUME Disciplines \subseteq {"quiet", "started", "any"}
  PROVE  ServerSpec => [](OneListener /\ NoLostNotify)
<1>1. ServerInit => Inv
  BY InitInv
<1>2. Inv /\ [ServerNext]_server => Inv'
  BY StepInv
<1>3. Inv => OneListener /\ NoLostNotify
  BY InvImplies
<1> QED
  BY <1>1, <1>2, <1>3, PTL DEF ServerSpec
=============================================================================
