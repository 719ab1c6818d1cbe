---------------------------- MODULE CommandStream ----------------------------
(***************************************************************************)
(* The command socket as a stream of lines: what a client sends, what      *)
(* read_command takes for a line, what parse_scpi_line makes of it, what   *)
(* handle_scpi_commands does with it, and the configuration of the device  *)
(* that results.  Clients come one after another and the configuration     *)
(* stays; a client may leave in the middle of a line.  Replies are written *)
(* to a socket with room for some, and the thread that writes them is the  *)
(* one that reads: a client that asks and does not read stops it.          *)
(*                                                                         *)
(* A line has a head, an argument and possibly an end: read_line returns   *)
(* what precedes the end of the stream as if it were a line.  A number is  *)
(* its decimal digits, so that a number cut short is a quotient by a power *)
(* of ten.  Signs and fractions are left out.  What START and the others   *)
(* do to the device is BridgeServer's subject, what a driver makes of a    *)
(* rate is DeviceConfig's: here it takes or refuses it.                    *)
(***************************************************************************)
EXTENDS Naturals, Sequences

CONSTANTS
  Values,     \* numbers that clients send, and indices of the channels they name
  MaxNumber,  \* the largest number that parses (u64, i64), smaller in a model
  Rates,      \* the advertised rates
  Refused,    \* rates and depths that the driver refuses
  Controls,   \* acquisition commands that clients send
  Queries,    \* queries that clients send
  Edges,      \* edge directions that clients name
  Room,       \* replies that the socket takes before a write blocks
  MaxDigits,  \* bound: digits of a number
  MaxLines,   \* bound: whole lines that the clients send
  MaxClients, \* bound: clients
  None

Numbers    == {"RATE", "DEPTH", "TRIG:DELAY", "TRIG:LEV"}
KnownEdges == {"RISING", "FALLING", "ANY"}
Fields     == Numbers \cup {"TRIG:SOU", "TRIG:EDGE:DIR", "control"}

ASSUME ValuesAssumption ==
  /\ Values \subseteq Nat /\ {MaxNumber, MaxDigits, MaxLines, MaxClients} \subseteq Nat
  /\ Rates \cup Refused \subseteq 0 .. MaxNumber
ASSUME RoomAssumption == Room \in Nat \ {0}
ASSUME NoneAssumption == None \notin Nat
ASSUME CommandsAssumption ==
  /\ Controls \subseteq {"START", "SINGLE", "STOP", "FORCE"}
  /\ Queries \subseteq {"*IDN?", "CHANS?", "LAYOUT?", "RATES?", "DEPTHS?", "ARMED?"}

VARIABLES
  config,                 \* what was set last, and the last acquisition command
  open, eof,              \* the server serves a client; it has closed its side
  gone,                   \*   or its socket, and reads no more either
  pending,                \* lines sent and not read
  replies, unread,        \* the queries answered; how many replies were not read
  lines, clients,
  \* history
  asked,                  \* the queries sent
  intended,               \* the configuration that the lines sent stand for
  cut                     \* a line without its end was executed

stream == <<open, eof, gone, pending, lines, clients>>
vars   == <<config, stream, replies, unread, asked, intended, cut>>

Line(head, arg, whole) == [head |-> head, arg |-> arg, whole |-> whole]

\* What is left of a number that is cut short.
Prefixes(n) == {m \in 0 .. n : \E k \in 0 .. MaxDigits : m = n \div 10 ^ k} \ ({0} \ {n})

\* What a client may ask for: [head, arg].  "ignored" is a line that is logged
\* only, a channel command (":A0:ON") or one that does not parse; "binary" is
\* no text at all.
Request(heads, args) == {[head |-> h, arg |-> a] : h \in heads, a \in args}

Requests == Request(Numbers \cup {"TRIG:SOU"}, Values) \cup Request({"TRIG:EDGE:DIR"}, Edges)
            \cup Request(Controls \cup Queries \cup {"ignored", "binary"}, {None})

\* A request whose line was cut: nothing that parses, a shorter argument (a
\* channel may lose its index), or all of it but the end of the line.
Cuts(r) ==
  {Line("ignored", None, FALSE)} \cup
  {Line(r.head, a, FALSE) : a \in IF r.head \in Numbers THEN Prefixes(r.arg)
                                  ELSE IF r.head = "TRIG:SOU" THEN Prefixes(r.arg) \cup {None}
                                  ELSE {r.arg}}

Init ==
  /\ config = [f \in Fields |-> None] /\ intended = config
  /\ open = FALSE /\ eof = FALSE /\ gone = FALSE /\ pending = <<>> /\ lines = 0 /\ clients = 0
  /\ replies = <<>> /\ unread = 0 /\ asked = <<>> /\ cut = FALSE

-----------------------------------------------------------------------------
(* The client. *)

\* reset_for_new_connection resets the run state, and no more.
Reset(c) == [c EXCEPT !["control"] = None]

Connect ==
  /\ ~open /\ clients < MaxClients /\ clients' = clients + 1
  /\ open' = TRUE /\ eof' = FALSE
  /\ config' = Reset(config) /\ intended' = [intended EXCEPT !["control"] = None]
  /\ UNCHANGED <<gone, pending, lines, replies, unread, asked, cut>>

\* What SCPI-PROTOCOL.md says of a request, under the limits of the program.
Meant(c, r) ==
  CASE r.head = "RATE"          -> IF r.arg \in Rates \ Refused THEN [c EXCEPT !["RATE"] = r.arg] ELSE c
    [] r.head = "DEPTH"         -> IF r.arg \in 0 .. MaxNumber \ Refused
                                     THEN [c EXCEPT !["DEPTH"] = r.arg] ELSE c
    [] r.head = "TRIG:DELAY"    -> IF r.arg <= MaxNumber THEN [c EXCEPT !["TRIG:DELAY"] = r.arg] ELSE c
    [] r.head = "TRIG:EDGE:DIR" -> IF r.arg \in KnownEdges THEN [c EXCEPT ![r.head] = r.arg] ELSE c
    [] r.head \in {"TRIG:LEV", "TRIG:SOU"} -> [c EXCEPT ![r.head] = r.arg]
    [] r.head \in Controls      -> [c EXCEPT !["control"] = r.head]
    [] OTHER                    -> c

Asking(l) == IF l.head \in Queries THEN Append(asked, l.head) ELSE asked

Send(r) ==
  /\ open /\ ~eof /\ lines < MaxLines /\ lines' = lines + 1
  /\ pending' = Append(pending, Line(r.head, r.arg, TRUE))
  /\ asked' = Asking(r)
  /\ intended' = Meant(intended, r)
  /\ UNCHANGED <<config, open, eof, gone, clients, replies, unread, cut>>

\* The client reads a reply.
Receive ==
  /\ open /\ ~gone /\ unread > 0 /\ unread' = unread - 1
  /\ UNCHANGED <<config, stream, replies, asked, intended, cut>>

\* It closes its side of the connection, or all of it.
HangUp ==
  /\ open /\ ~gone /\ eof' = TRUE /\ gone' \in {eof, TRUE}
  /\ UNCHANGED <<config, open, pending, lines, clients, replies, unread, asked, intended, cut>>

\* The client leaves in the middle of a line.
HangUpInLine(r) ==
  /\ open /\ ~eof /\ eof' = TRUE /\ gone' \in {eof, TRUE}
  /\ \E l \in Cuts(r) : pending' = Append(pending, l) /\ asked' = Asking(l)
  /\ UNCHANGED <<config, open, lines, clients, replies, unread, intended, cut>>

-----------------------------------------------------------------------------
(* handle_scpi_commands: one line, to its end. *)

\* The connection ends; lines that were not read are lost with it.
Close ==
  /\ open' = FALSE /\ eof' = FALSE /\ gone' = FALSE /\ pending' = <<>>
  /\ replies' = <<>> /\ unread' = 0 /\ asked' = <<>> /\ intended' = config /\ cut' = FALSE
  /\ UNCHANGED <<config, lines, clients>>

Handled == /\ pending' = Tail(pending) /\ cut' = ~Head(pending).whole
           /\ UNCHANGED <<open, eof, gone, lines, clients, asked, intended>>

Silent == UNCHANGED <<replies, unread>>

Reads(heads) == open /\ pending # <<>> /\ Head(pending).head \in heads

\* Variant: a number that is too large wraps around.
NumberOfWrapping(l) == l.arg % (MaxNumber + 1)

\* parse::<u64>, ::<i64> and ::<f32>; a float of many digits is still a float.
NumberOf(l) == IF l.arg <= MaxNumber \/ l.head = "TRIG:LEV" THEN l.arg ELSE None

\* set_rate looks at the advertised rates first; then the driver is asked.
Accepted(l, n) ==
  /\ n # None
  /\ l.head = "RATE" => n \in Rates
  /\ l.head \in {"RATE", "DEPTH"} => n \notin Refused

SetNumber ==
  /\ Reads(Numbers) /\ Handled /\ Silent
  /\ LET l == Head(pending)
     IN  config' = IF Accepted(l, NumberOf(l)) THEN [config EXCEPT ![l.head] = NumberOf(l)] ELSE config

\* Any name is taken for a source.
SetSource ==
  /\ Reads({"TRIG:SOU"}) /\ Handled /\ Silent
  /\ config' = [config EXCEPT !["TRIG:SOU"] = Head(pending).arg]

\* TriggerEdgeDir::from_scpi; an unknown direction is logged.
SetEdge ==
  /\ Reads({"TRIG:EDGE:DIR"}) /\ Handled /\ Silent
  /\ config' = IF Head(pending).arg \in KnownEdges
                 THEN [config EXCEPT !["TRIG:EDGE:DIR"] = Head(pending).arg] ELSE config

Control ==
  /\ Reads(Controls) /\ Handled /\ Silent
  /\ config' = [config EXCEPT !["control"] = Head(pending).head]

\* A reply is written where there is room.
Reply(text) == unread < Room /\ unread' = unread + 1 /\ replies' = Append(replies, text)

\* Variant: a query waits until another line has come.
AnswerLater == Reads(Queries) /\ Len(pending) > 1 /\ Handled /\ Reply(Head(pending).head)
               /\ UNCHANGED config

\* send_reply blocks until the client makes room.
Answer == Reads(Queries) /\ Handled /\ Reply(Head(pending).head) /\ UNCHANGED config

\* The reply cannot be written: the client is gone.
AnswerFails == Reads(Queries) /\ gone /\ Close

\* Variant: a line that does not parse is answered with an error.
IgnoreAloud == Reads({"ignored"}) /\ Handled /\ Reply("ERROR") /\ UNCHANGED config

Ignore == Reads({"ignored"}) /\ Handled /\ Silent /\ UNCHANGED config

\* read_line fails on a line that is not UTF-8.
RejectBinary == Reads({"binary"}) /\ Close

EndOfStream == open /\ eof /\ pending = <<>> /\ Close

Serve == SetNumber \/ SetSource \/ SetEdge \/ Control \/ Answer \/ AnswerFails \/ Ignore
         \/ RejectBinary \/ EndOfStream

\* The connection is reset: read_line fails whatever was sent before.
Broken == open /\ Close

Next ==
  \/ Connect \/ Receive \/ HangUp \/ Broken \/ Serve
  \/ \E r \in Requests : Send(r) \/ HangUpInLine(r)

\* The command thread is scheduled; what the client does is its own choice.
Spec == Init /\ [][Next]_vars /\ WF_vars(Serve)

-----------------------------------------------------------------------------
(***************************************************************************)
(* Properties                                                              *)
(***************************************************************************)
TypeOK ==
  /\ DOMAIN config = Fields /\ DOMAIN intended = Fields
  /\ \A f \in Numbers : config[f] \in Nat \cup {None}
  /\ config["RATE"] \in Rates \cup {None} /\ config["DEPTH"] \notin Refused
  /\ config["TRIG:EDGE:DIR"] \in KnownEdges \cup {None}
  /\ config["control"] \in Controls \cup {None}
  /\ {open, eof, gone, cut} \subseteq BOOLEAN /\ unread \in 0 .. Room
  /\ lines \in 0 .. MaxLines /\ clients \in 0 .. MaxClients
  /\ \A i \in 1 .. Len(pending) : ~pending[i].whole => eof /\ i = Len(pending)
  /\ gone => eof
  /\ ~open => pending = <<>> /\ asked = <<>> /\ unread = 0

\* Once the lines are read the device is configured as the client found it (its
\* predecessor left it) and the requests say, taken in order: no refused,
\* overlong or unknown value has changed anything, and none was set in part.
\* The exception is a line that the end of the stream has cut.
ConfigAsSent == pending = <<>> /\ ~cut => config = intended

\* A client tells replies apart by their order alone: they are the replies to
\* the queries it has sent, one for each, and no other line has one.
RepliesMatch ==
  /\ Len(replies) <= Len(asked) /\ replies = SubSeq(asked, 1, Len(replies))
  /\ open /\ pending = <<>> => replies = asked

\* A client that does not leave its replies unread for ever, or goes.
ClientReads == []<>(unread < Room \/ gone)

\* Every query of such a client is answered, or its connection ends: if it is at
\* times too slow, the thread goes on where it was held up.
Answered == ClientReads => ((open /\ asked # replies) ~> (~open \/ asked = replies))

\* The same of all clients.  A client that asks, does not read and keeps its
\* socket stops the command thread, its commands and the clients after it.
AnsweredAlways == (open /\ asked # replies) ~> (~open \/ asked = replies)

\* SCPI-PROTOCOL.md: commands are "newline-delimited".  What a client has not
\* finished sending is no command.
OnlyWholeLines == pending = <<>> => config = intended
=============================================================================
