----------------------------- MODULE MCNetwork -----------------------------
(***************************************************************************)
(* The tasks behind net.Socket, net.Server, dgram.Socket and a child       *)
(* process.  The first state says which one runs; the others stay as they  *)
(* are.                                                                    *)
(***************************************************************************)
EXTENDS NetSocket, NetServer, DgramSocket, ChildProcess

VARIABLE part   \* the component that runs

all == <<part, vars, server, dgram, child_process>>

MCInit ==
  /\ part \in {"socket", "server", "dgram", "child"}
  /\ Init /\ ServerInit /\ DgramInit /\ ChildInit
  /\ part # "socket" => connect = "new" /\ allow_half_open
  /\ part # "server" => discipline = "any"
  /\ part # "dgram" => early = {}
  /\ part # "child" => exec /\ child = "failed"

InSocket(A) == part = "socket" /\ A /\ UNCHANGED <<part, server, dgram, child_process>>
InServer(A) == part = "server" /\ A /\ UNCHANGED <<part, vars, dgram, child_process>>
InDgram(A) == part = "dgram" /\ A /\ UNCHANGED <<part, vars, server, child_process>>
InChild(A) == part = "child" /\ A /\ UNCHANGED <<part, vars, server, dgram>>

MCNext ==
  \/ InSocket(Next) \/ InServer(ServerNext)
  \/ InDgram(DgramNext) \/ InChild(ChildNext)

(* The fairness of each component's FairSpec.                              *)
MCSpec ==
  /\ MCInit /\ [][MCNext]_all
  /\ WF_all(InChild(Exits))
  /\ WF_all( \/ InSocket(Owed) \/ InServer(ServerOwed)
             \/ InDgram(DgramOwed) \/ InChild(ChildOwed) )

----------------------------------------------------------------------------
(* Properties; OneListener, DgramIsReady and CloseMeansAll are those of    *)
(* NetServer, DgramSocket and ChildProcess.                                *)

(* The buffer of a socket keeps within its capacity, what it reads reaches *)
(* the program in order and completely, and a write that reports success   *)
(* has left the process, in order.                                         *)
SocketKeepsData ==
  part = "socket" => WithinCapacity /\ NothingLost /\ WritesArrive

(* A socket that is destroyed or ended and a process come to "close",      *)
(* close() of a server to its end; sends settle and the loops of a closed  *)
(* datagram socket end.                                                    *)
TasksEnd ==
  []<>( /\ part = "socket" => SocketClosed
        /\ part = "server" => Completed
        /\ part = "dgram" => NoSendWaits /\ LoopsEnded
        /\ part = "child" => Closed )
=============================================================================
