---------------------------- MODULE RequestReply ----------------------------
(***************************************************************************)
(* What the server promises on the data socket: one client at a time, and  *)
(* each request of a connected client is answered by exactly one header,   *)
(* in order, the headers of a connection being numbered from zero.         *)
(* Requests are abandoned only while the connection is being closed.       *)
(***************************************************************************)
EXTENDS Naturals, Sequences

CONSTANT SeqMod  \* the numbers of the headers wrap here

VARIABLES
  phase,    \* no client, a client with both sockets open, a client hanging up
  pending,  \* requests without an answer
  replies   \* headers of this connection

abstract == <<phase, pending, replies>>

RRInit == phase = "closed" /\ pending = 0 /\ replies = <<>>

Open == /\ phase = "closed" /\ phase' = "open"
        /\ pending' = 0 /\ replies' = <<>>

Request == /\ phase # "closed" /\ pending' = pending + 1
           /\ UNCHANGED <<phase, replies>>

Number == IF replies = <<>> THEN 0 ELSE (replies[Len(replies)].seq + 1) % SeqMod

Answer == /\ phase # "closed" /\ pending > 0 /\ pending' = pending - 1
          /\ \E real \in BOOLEAN :
               replies' = Append(replies, [seq |-> Number, real |-> real])
          /\ UNCHANGED phase

Hangup == /\ phase = "open" /\ phase' = "closing"
          /\ UNCHANGED <<pending, replies>>

Abandon == /\ phase = "closing" /\ pending > 0 /\ pending' = pending - 1
           /\ UNCHANGED <<phase, replies>>

Close == /\ phase = "closing" /\ phase' = "closed" /\ pending' = 0
         /\ UNCHANGED replies

RRNext == Open \/ Request \/ Answer \/ Hangup \/ Abandon \/ Close

RRSafety == RRInit /\ [][RRNext]_abstract

\* Every request of a client that stays is answered.
Live == WF_abstract(phase = "open" /\ Answer)

RRSpec == RRSafety /\ Live
=============================================================================
