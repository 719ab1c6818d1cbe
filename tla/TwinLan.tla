-------------------------------- MODULE TwinLan --------------------------------
(***************************************************************************)
(* The accept loop of main: TwinLanServer::accept takes a command          *)
(* connection from one listener and then a data connection from the other, *)
(* and what the two belong to is decided by their order alone.             *)
(*                                                                         *)
(* A client is one attempt to use the bridge: it connects to the command   *)
(* port, then to the data port, and leaves when it wants, half connected   *)
(* too; whoever tries again is another client.  A connection that its      *)
(* client has left is still accepted, and reads as its end.  What happens  *)
(* while a pair is served is BridgeServer's subject.                       *)
(***************************************************************************)
EXTENDS Naturals, Sequences

CONSTANTS
  Clients,  \* clients, in all
  Nobody

ASSUME ClientsAssumption == Nobody \notin Clients

VARIABLES
  server,              \* the next step of the accept loop
  cmd_stream, data_stream,  \* the owners of the connections accept returns
  cmd_queue, data_queue,    \* the backlogs of the listeners, oldest first
  client,              \* how far each client has come
  \* history
  clean  \* clients have connected one after the other and completely, and
         \* the server has dropped no connection

streams == <<cmd_stream, data_stream>>
queues  == <<cmd_queue, data_queue>>
lanVars == <<server, streams, queues, client, clean>>

LanInit ==
  /\ server = "acceptCmd" /\ cmd_stream = Nobody /\ data_stream = Nobody
  /\ cmd_queue = <<>> /\ data_queue = <<>>
  /\ client = [c \in Clients |-> "new"] /\ clean = TRUE

-----------------------------------------------------------------------------
\* Variant: the newest command connection is taken.
AcceptCmdNewest ==
  /\ server = "acceptCmd" /\ cmd_queue # <<>> /\ server' = "acceptData"
  /\ cmd_stream' = cmd_queue[Len(cmd_queue)]
  /\ cmd_queue' = SubSeq(cmd_queue, 1, Len(cmd_queue) - 1)
  /\ UNCHANGED <<data_stream, data_queue, client, clean>>

AcceptCmd ==
  /\ server = "acceptCmd" /\ cmd_queue # <<>> /\ server' = "acceptData"
  /\ cmd_stream' = Head(cmd_queue) /\ cmd_queue' = Tail(cmd_queue)
  /\ UNCHANGED <<data_stream, data_queue, client, clean>>

AcceptData ==
  /\ server = "acceptData" /\ data_queue # <<>> /\ server' = "serving"
  /\ data_stream' = Head(data_queue) /\ data_queue' = Tail(data_queue)
  /\ UNCHANGED <<cmd_stream, cmd_queue, client, clean>>

\* Variant: main leaves the loop when accept fails.
AcceptErrorExits ==
  /\ server \in {"acceptCmd", "acceptData"} /\ server' = "exited"
  /\ UNCHANGED <<streams, queues, client, clean>>

\* accept, set_nodelay or try_clone fails, before or after it has taken a
\* connection: accept returns, what it took is closed, and main goes on.
AcceptError ==
  /\ server \in {"acceptCmd", "acceptData"} /\ server' = "acceptCmd"
  /\ cmd_stream' = Nobody /\ UNCHANGED <<data_stream, client>>
  /\ \/ UNCHANGED queues /\ clean' = (clean /\ server = "acceptCmd")
     \/ /\ server = "acceptCmd" /\ cmd_queue # <<>> /\ clean' = FALSE
        /\ cmd_queue' = Tail(cmd_queue) /\ UNCHANGED data_queue
     \/ /\ server = "acceptData" /\ data_queue # <<>> /\ clean' = FALSE
        /\ data_queue' = Tail(data_queue) /\ UNCHANGED cmd_queue

\* handle_client returns, not before the command stream ends.
HandleClient ==
  /\ server = "serving" /\ client[cmd_stream] = "gone" /\ server' = "acceptCmd"
  /\ cmd_stream' = Nobody /\ data_stream' = Nobody
  /\ UNCHANGED <<queues, client, clean>>

-----------------------------------------------------------------------------
ConnectCmd(c) ==
  /\ client[c] = "new" /\ client' = [client EXCEPT ![c] = "half"]
  /\ cmd_queue' = Append(cmd_queue, c)
  /\ clean' = (clean /\ \A d \in Clients : client[d] # "half")
  /\ UNCHANGED <<server, streams, data_queue>>

ConnectData(c) ==
  /\ client[c] = "half" /\ client' = [client EXCEPT ![c] = "both"]
  /\ data_queue' = Append(data_queue, c)
  /\ UNCHANGED <<server, streams, cmd_queue, clean>>

Leave(c) ==
  /\ client[c] \in {"half", "both"} /\ client' = [client EXCEPT ![c] = "gone"]
  /\ clean' = (clean /\ client[c] = "both")
  /\ UNCHANGED <<server, streams, queues>>

-----------------------------------------------------------------------------
LanNext ==
  \/ AcceptCmd \/ AcceptData \/ AcceptError \/ HandleClient
  \/ \E c \in Clients : ConnectCmd(c) \/ ConnectData(c) \/ Leave(c)

LanSpec == LanInit /\ [][LanNext]_lanVars

\* The server's thread is scheduled and handle_client returns when both owners
\* have gone (BridgeServer's Released); a client connects to both ports, and
\* one whose command connection is served is done with it at some time.
LanFairness ==
  /\ WF_lanVars(AcceptCmd) /\ WF_lanVars(AcceptData)
  /\ WF_lanVars(data_stream # Nobody /\ client[data_stream] = "gone" /\ HandleClient)
  /\ \A c \in Clients :
       WF_lanVars(ConnectData(c)) /\ WF_lanVars(server = "serving" /\ cmd_stream = c /\ Leave(c))

LanFairSpec == LanSpec /\ LanFairness

-----------------------------------------------------------------------------
(***************************************************************************)
(* Properties                                                              *)
(***************************************************************************)
LanTypeOK ==
  /\ server \in {"acceptCmd", "acceptData", "serving"}
  /\ cmd_stream \in Clients \cup {Nobody} /\ data_stream \in Clients \cup {Nobody}
  /\ server # "acceptCmd" <=> cmd_stream # Nobody
  /\ server = "serving" <=> data_stream # Nobody
  /\ cmd_queue \in Seq(Clients) /\ data_queue \in Seq(Clients)
  /\ client \in [Clients -> {"new", "half", "both", "gone"}] /\ clean \in BOOLEAN

\* The streams that accept pairs are those of one client, as long as clients
\* connect one at a time and completely and the server drops no connection.
PairOwn == server = "serving" /\ clean => cmd_stream = data_stream

\* "An accepted twinlan client connection pair" (TwinLanConnection): whatever
\* other clients did, the two streams are one client's.
PairAlways == server = "serving" => cmd_stream = data_stream

\* Every client that stays is served, with both its connections, as long as
\* no other breaks the order: on a disconnect "the next client can connect".
ServedOrGone(c) == (cmd_stream = c /\ data_stream = c) \/ client[c] = "gone"

Served == \A c \in Clients : (client[c] = "both") ~> (ServedOrGone(c) \/ ~clean)
=============================================================================
