------------------------- MODULE CommandStreamProofs -------------------------
(***************************************************************************)
(* Proofs about the command socket as a stream of lines: the configuration *)
(* that results is the one that the lines sent stand for, and the replies  *)
(* are the replies to the queries sent, in order.                          *)
(*                                                                         *)
(* Between the configuration that is in force and the one that is intended *)
(* there is a trail: one configuration for each line that is still to be   *)
(* read, which is what its predecessor becomes when the line before it is  *)
(* executed.  A client adds to its end, the command thread takes off its   *)
(* beginning.  The queries that are still to be answered are counted the   *)
(* same way.                                                               *)
(***************************************************************************)
EXTENDS CommandStream, SequenceTheorems, TLAPS

Heads == Numbers \cup {"TRIG:SOU", "TRIG:EDGE:DIR", "ignored", "binary"} \cup Controls \cup Queries
Args  == Nat \cup Edges \cup {None}
Lines == [head : Heads, arg : Args, whole : BOOLEAN]

\* What handle_scpi_commands makes of the configuration.
Executed(c, l) ==
  IF l.head \in Numbers
    THEN IF Accepted(l, NumberOf(l)) THEN [c EXCEPT ![l.head] = NumberOf(l)] ELSE c
    ELSE IF l.head = "TRIG:SOU" THEN [c EXCEPT !["TRIG:SOU"] = l.arg]
    ELSE IF l.head = "TRIG:EDGE:DIR"
           THEN IF l.arg \in KnownEdges THEN [c EXCEPT !["TRIG:EDGE:DIR"] = l.arg] ELSE c
    ELSE IF l.head \in Controls THEN [c EXCEPT !["control"] = l.head]
    ELSE c

\* What the client means by it: nothing, by a line that it has not finished.
Effect(c, l) == IF l.whole THEN Executed(c, l) ELSE c

Typed ==
  /\ pending \in Seq(Lines) /\ replies \in Seq(Queries) /\ asked \in Seq(Queries)
  /\ open \in BOOLEAN /\ eof \in BOOLEAN /\ cut \in BOOLEAN

\* Only the last line can lack its end, and nothing is sent behind it.
OnlyLast == \A i \in 1 .. Len(pending) : ~pending[i].whole => eof /\ i = Len(pending)

CutInv ==
  /\ OnlyLast
  /\ cut => eof /\ pending = <<>>
  /\ ~open => pending = <<>> /\ ~cut /\ asked = <<>> /\ replies = <<>>

Trail(t, from, sent, to) ==
  /\ t[1] = from /\ t[Len(sent) + 1] = to
  /\ \A i \in 1 .. Len(sent) : t[i + 1] = Effect(t[i], sent[i])

TrailInv == ~cut => \E t : Trail(t, config, pending, intended)

Count(k, from, sent, questions) ==
  /\ k[1] = from /\ k[Len(sent) + 1] = Len(questions)
  /\ \A i \in 1 .. Len(sent) + 1 : k[i] \in 0 .. Len(questions)
  /\ \A i \in 1 .. Len(sent) :
       IF sent[i].head \in Queries
         THEN k[i + 1] = k[i] + 1 /\ questions[k[i] + 1] = sent[i].head
         ELSE k[i + 1] = k[i]

RepliesInv ==
  /\ \E k : Count(k, Len(replies), pending, asked)
  /\ \A i \in 1 .. Len(replies) : replies[i] = asked[i]

-----------------------------------------------------------------------------
(* A step is one of these, as far as lines and replies are concerned. *)

Adds(l) ==
  /\ open /\ ~eof /\ l \in Lines /\ pending' = Append(pending, l)
  /\ asked' = Asking(l) /\ intended' = Effect(intended, l)
  /\ eof' \in BOOLEAN /\ (~l.whole => eof')
  /\ UNCHANGED <<config, open, replies, cut>>

Executes ==
  /\ open /\ pending # <<>> /\ pending' = Tail(pending) /\ cut' = ~Head(pending).whole
  /\ config' = Executed(config, Head(pending))
  /\ replies' = IF Head(pending).head \in Queries THEN Append(replies, Head(pending).head)
                                                 ELSE replies
  /\ UNCHANGED <<open, eof, asked, intended>>

Connects == /\ ~open /\ config' = Reset(config) /\ intended' = Reset(intended)
            /\ open' = TRUE /\ eof' = FALSE /\ UNCHANGED <<pending, replies, asked, cut>>

HangsUp == /\ open /\ eof' = TRUE
           /\ UNCHANGED <<config, open, pending, replies, asked, intended, cut>>

\* What a client means by a request is what handle_scpi_commands does with its
\* line: for every request, those that are refused, too large or unknown too.
LEMMA MeansExecutes ==
  ASSUME NEW c, NEW r \in Requests
  PROVE  /\ Line(r.head, r.arg, TRUE) \in Lines
         /\ Meant(c, r) = Executed(c, Line(r.head, r.arg, TRUE))
<1> DEFINE l == Line(r.head, r.arg, TRUE)
<1>1. l.head = r.head /\ l.arg = r.arg /\ l.whole
  BY DEF Line
<1>2. r.head \in Heads /\ r.arg \in Args
  BY ValuesAssumption DEF Requests, Request, Heads, Args
<1>3. l \in Lines
  BY <1>2 DEF Line, Lines
<1> HIDE DEF l
<1>4. CASE r.head \in Numbers
  <2>1. r.arg \in Nat
    BY <1>4, ValuesAssumption, CommandsAssumption DEF Requests, Request, Numbers
  <2>2. NumberOf(l) = IF r.arg <= MaxNumber \/ r.head = "TRIG:LEV" THEN r.arg ELSE None
    BY <1>1 DEF NumberOf
  <2>3. Executed(c, l) = IF Accepted(l, NumberOf(l)) THEN [c EXCEPT ![r.head] = NumberOf(l)] ELSE c
    BY <1>1, <1>4 DEF Executed
  <2>4. r.arg # None
    BY <2>1, NoneAssumption
  <2>5. CASE r.head = "RATE"
    <3>1. Accepted(l, NumberOf(l)) <=> r.arg \in Rates \ Refused
      BY <1>1, <2>1, <2>2, <2>4, <2>5, ValuesAssumption DEF Accepted
    <3>2. Meant(c, r) = IF r.arg \in Rates \ Refused THEN [c EXCEPT !["RATE"] = r.arg] ELSE c
      BY <2>5, CommandsAssumption DEF Meant
    <3>3. r.arg \in Rates => NumberOf(l) = r.arg
      BY <2>1, <2>2, ValuesAssumption
    <3> QED
      BY <1>3, <2>3, <2>5, <3>1, <3>2, <3>3 DEF l
  <2>6. CASE r.head = "DEPTH"
    <3>1. Accepted(l, NumberOf(l)) <=> r.arg \in (0 .. MaxNumber) \ Refused
      BY <1>1, <2>1, <2>2, <2>4, <2>6, ValuesAssumption DEF Accepted
    <3>2. Meant(c, r) = IF r.arg \in (0 .. MaxNumber) \ Refused
                          THEN [c EXCEPT !["DEPTH"] = r.arg] ELSE c
      BY <2>6, CommandsAssumption DEF Meant
    <3>3. r.arg \in 0 .. MaxNumber => NumberOf(l) = r.arg
      BY <2>1, <2>2, ValuesAssumption
    <3> QED
      BY <1>3, <2>3, <2>6, <3>1, <3>2, <3>3 DEF l
  <2>7. CASE r.head = "TRIG:DELAY"
    <3>1. Accepted(l, NumberOf(l)) <=> r.arg <= MaxNumber
      BY <1>1, <2>1, <2>2, <2>4, <2>7, ValuesAssumption DEF Accepted
    <3>2. Meant(c, r) = IF r.arg <= MaxNumber THEN [c EXCEPT !["TRIG:DELAY"] = r.arg] ELSE c
      BY <2>7, CommandsAssumption DEF Meant
    <3>3. r.arg <= MaxNumber => NumberOf(l) = r.arg
      BY <2>2
    <3> QED
      BY <1>3, <2>3, <2>7, <3>1, <3>2, <3>3 DEF l
  <2>8. CASE r.head = "TRIG:LEV"
    <3>1. Accepted(l, NumberOf(l)) /\ NumberOf(l) = r.arg
      BY <1>1, <2>2, <2>4, <2>8 DEF Accepted
    <3>2. Meant(c, r) = [c EXCEPT ![r.head] = r.arg]
      BY <2>8, CommandsAssumption DEF Meant
    <3> QED
      BY <1>3, <2>3, <2>8, <3>1, <3>2 DEF l
  <2> QED
    BY <1>4, <2>5, <2>6, <2>7, <2>8 DEF Numbers
<1>5. CASE r.head \notin Numbers
  <2>1. Meant(c, r) = Executed(c, l)
    BY <1>1, <1>2, <1>5, CommandsAssumption DEF Meant, Executed, Numbers, Heads
  <2> QED
    BY <1>3, <2>1 DEF l
<1> QED
  BY <1>4, <1>5

LEMMA CutsTyped == ASSUME NEW r \in Requests, NEW l \in Cuts(r) PROVE l \in Lines /\ ~l.whole
<1>1. r.head \in Heads /\ r.arg \in Args /\ "ignored" \in Heads
      /\ (r.head \in Numbers \cup {"TRIG:SOU"} => r.arg \in Nat)
  BY ValuesAssumption, CommandsAssumption DEF Requests, Request, Heads, Args, Numbers
<1>2. \A n \in Nat : Prefixes(n) \subseteq Nat
  BY DEF Prefixes
<1>3. \A h \in Heads, a \in Args : Line(h, a, FALSE) \in Lines /\ ~Line(h, a, FALSE).whole
  BY DEF Line, Lines
<1>4. None \in Args /\ Nat \subseteq Args
  BY DEF Args
<1> QED
  BY <1>1, <1>2, <1>3, <1>4 DEF Cuts

\* Every step is of one of the kinds above, or leaves all of it alone.
LEMMA Kinds ==
  ASSUME Typed, CutInv, [Next]_vars
  PROVE  \/ \E l \in Lines : Adds(l)
         \/ Executes \/ Connects \/ HangsUp \/ (open /\ Close)
         \/ UNCHANGED <<config, open, eof, pending, replies, asked, intended, cut>>
<1>1. ASSUME NEW r \in Requests, Send(r) PROVE \E l \in Lines : Adds(l)
  <2> DEFINE l == Line(r.head, r.arg, TRUE)
  <2>1. l.head = r.head /\ l.whole
    BY DEF Line
  <2>2. l \in Lines /\ Meant(intended, r) = Executed(intended, l)
    BY MeansExecutes
  <2>3. Asking(r) = Asking(l)
    BY <2>1 DEF Asking
  <2>4. pending' = Append(pending, l) /\ asked' = Asking(r) /\ intended' = Meant(intended, r)
        /\ open /\ ~eof /\ UNCHANGED <<config, open, replies, cut>> /\ eof' = FALSE
    BY <1>1 DEF Send, Typed
  <2> HIDE DEF l
  <2> QED
    BY <2>1, <2>2, <2>3, <2>4 DEF Adds, Effect
<1>2. ASSUME NEW r \in Requests, HangUpInLine(r) PROVE \E l \in Lines : Adds(l)
  <2>1. PICK l \in Cuts(r) : pending' = Append(pending, l) /\ asked' = Asking(l)
    BY <1>2 DEF HangUpInLine
  <2> QED
    BY <1>2, <2>1, CutsTyped DEF HangUpInLine, Adds, Effect
<1>3. CASE Connect
  BY <1>3 DEF Connect, Connects, Reset
<1>4. CASE HangUp
  BY <1>4 DEF HangUp, HangsUp
<1>5. CASE Broken \/ RejectBinary \/ EndOfStream \/ AnswerFails
  BY <1>5 DEF Broken, RejectBinary, EndOfStream, AnswerFails, Reads
<1>6. CASE SetNumber \/ SetSource \/ SetEdge \/ Control \/ Answer \/ Ignore
  <2> DEFINE l == Head(pending)
  <2>1. /\ open /\ pending # <<>> /\ pending' = Tail(pending) /\ cut' = ~l.whole
        /\ UNCHANGED <<open, eof, asked, intended>>
    BY <1>6 DEF SetNumber, SetSource, SetEdge, Control, Answer, Ignore, Reads, Handled
  <2>2. /\ config' = Executed(config, l)
        /\ replies' = IF l.head \in Queries THEN Append(replies, l.head) ELSE replies
    <3>1. CASE SetNumber
      BY <3>1, CommandsAssumption DEF SetNumber, Silent, Reads, Executed, Numbers
    <3>2. CASE SetSource
      BY <3>2, CommandsAssumption DEF SetSource, Silent, Reads, Executed, Numbers
    <3>3. CASE SetEdge
      BY <3>3, CommandsAssumption DEF SetEdge, Silent, Reads, Executed, Numbers
    <3>4. CASE Control
      BY <3>4, CommandsAssumption DEF Control, Silent, Reads, Executed, Numbers
    <3>5. CASE Answer
      BY <3>5, CommandsAssumption DEF Answer, Reply, Reads, Executed, Numbers
    <3>6. CASE Ignore
      BY <3>6, CommandsAssumption DEF Ignore, Silent, Reads, Executed, Numbers
    <3> QED
      BY <1>6, <3>1, <3>2, <3>3, <3>4, <3>5, <3>6
  <2> QED
    BY <2>1, <2>2 DEF Executes
<1>7. CASE Receive \/ UNCHANGED vars
  BY <1>7 DEF Receive, vars, stream
<1> QED
  BY <1>1, <1>2, <1>3, <1>4, <1>5, <1>6, <1>7 DEF Next, Serve

LEMMA TypeStep == Typed /\ CutInv /\ [Next]_vars => Typed' /\ CutInv'
<1> SUFFICES ASSUME Typed, CutInv, [Next]_vars PROVE Typed' /\ CutInv'
  OBVIOUS
<1>1. ASSUME NEW l \in Lines, Adds(l) PROVE Typed' /\ CutInv'
  <2>1. /\ pending' \in Seq(Lines) /\ Len(pending') = Len(pending) + 1
        /\ \A i \in 1 .. Len(pending) : pending'[i] = pending[i]
        /\ pending'[Len(pending) + 1] = l /\ Len(pending) \in Nat
    BY <1>1, AppendProperties, LenProperties DEF Typed, Adds
  <2>2. asked' \in Seq(Queries)
    BY <1>1, AppendProperties DEF Typed, Adds, Asking
  <2>3. Typed'
    BY <1>1, <2>1, <2>2 DEF Typed, Adds
  <2>4. \A i \in 1 .. Len(pending) : pending[i].whole
    BY <1>1 DEF CutInv, OnlyLast, Adds
  <2>5. ASSUME NEW i \in 1 .. Len(pending'), ~pending'[i].whole PROVE eof' /\ i = Len(pending')
    BY <1>1, <2>1, <2>4, <2>5 DEF Adds
  <2> QED
    BY <1>1, <2>3, <2>5 DEF CutInv, OnlyLast, Adds
<1>2. CASE Executes
  <2> DEFINE l == Head(pending)
  <2>1. /\ pending' \in Seq(Lines) /\ Len(pending') = Len(pending) - 1
        /\ \A i \in 1 .. Len(pending') : pending'[i] = pending[i + 1]
        /\ l \in Lines /\ l = pending[1] /\ Len(pending) \in Nat \ {0}
    BY <1>2, HeadTailProperties, EmptySeq DEF Typed, Executes
  <2>2. replies' \in Seq(Queries) /\ cut' \in BOOLEAN
    BY <1>2, <2>1, AppendProperties DEF Typed, Executes, Lines
  <2>3. Typed'
    BY <1>2, <2>1, <2>2 DEF Typed, Executes
  <2>4. ASSUME NEW i \in 1 .. Len(pending'), ~pending'[i].whole PROVE eof' /\ i = Len(pending')
    <3>1. i + 1 \in 1 .. Len(pending) /\ ~pending[i + 1].whole
      BY <2>1, <2>4
    <3>2. eof /\ i + 1 = Len(pending)
      BY <3>1 DEF CutInv, OnlyLast
    <3>3. eof'
      BY <1>2, <3>2, Zenon DEF Executes
    <3>4. i = Len(pending')
      BY <2>1, <3>2
    <3> QED
      BY <3>3, <3>4
  <2>5. cut' => eof' /\ pending' = <<>>
    <3> SUFFICES ASSUME cut' PROVE eof' /\ pending' = <<>>
      OBVIOUS
    <3>1. eof /\ Len(pending) = 1
      <4>1. ~l.whole
        BY <1>2, Zenon DEF Executes
      <4>2. 1 \in 1 .. Len(pending)
        BY <2>1
      <4> QED
        BY <2>1, <4>1, <4>2 DEF CutInv, OnlyLast
    <3> QED
      BY <1>2, <2>1, <3>1, EmptySeq DEF Executes
  <2> QED
    BY <1>2, <2>3, <2>4, <2>5 DEF CutInv, OnlyLast, Executes
<1>3. CASE Connects
  <2>1. Len(pending') = 0
    BY <1>3, EmptySeq DEF Connects, CutInv
  <2>2. OnlyLast'
    BY <2>1 DEF OnlyLast
  <2> QED
    BY <1>3, <2>2 DEF Typed, CutInv, Connects
<1>4. CASE HangsUp
  BY <1>4 DEF Typed, CutInv, OnlyLast, HangsUp
<1>5. CASE open /\ Close
  <2>1. <<>> \in Seq(Lines) /\ <<>> \in Seq(Queries) /\ Len(<<>>) = 0
    BY EmptySeq
  <2>2. /\ pending' \in Seq(Lines) /\ asked' \in Seq(Queries) /\ replies' \in Seq(Queries)
        /\ Len(pending') = 0
    BY <1>5, <2>1, Zenon DEF Close
  <2>3. OnlyLast'
    BY <2>2 DEF OnlyLast
  <2> HIDE DEF OnlyLast
  <2>4. CutInv'
    BY <1>5, <2>3 DEF CutInv, Close
  <2>5. Typed'
    BY <1>5, <2>2, Zenon DEF Typed, Close
  <2> QED
    BY <2>4, <2>5
<1>6. CASE UNCHANGED <<config, open, eof, pending, replies, asked, intended, cut>>
  BY <1>6 DEF Typed, CutInv, OnlyLast
<1> QED
  BY <1>1, <1>2, <1>3, <1>4, <1>5, <1>6, Kinds

LEMMA TypeInit == Init => Typed /\ CutInv
<1> SUFFICES ASSUME Init PROVE Typed /\ CutInv
  OBVIOUS
<1>1. /\ pending \in Seq(Lines) /\ asked \in Seq(Queries) /\ replies \in Seq(Queries)
      /\ Len(pending) = 0
  BY EmptySeq, Zenon DEF Init
<1>2. OnlyLast
  BY <1>1 DEF OnlyLast
<1>3. open \in BOOLEAN /\ eof \in BOOLEAN /\ cut \in BOOLEAN
  BY DEF Init
<1>4. CutInv
  BY <1>2, Zenon DEF Init, CutInv
<1> QED
  BY <1>1, <1>3, <1>4, Zenon DEF Typed

\* The types hold, and only the last line that was sent can lack its end.
THEOREM StreamTyped == Spec => [](Typed /\ CutInv)
BY TypeInit, TypeStep, PTL DEF Spec

-----------------------------------------------------------------------------
(* ConfigAsSent. *)

LEMMA TrailStep == Typed /\ CutInv /\ TrailInv /\ [Next]_vars => TrailInv'
<1> SUFFICES ASSUME Typed, CutInv, TrailInv, [Next]_vars, ~cut' PROVE \E t : Trail(t, config', pending', intended')
  BY DEF TrailInv
<1> DEFINE n == Len(pending)
<1>0. n \in Nat
  BY LenProperties DEF Typed
<1>1. ASSUME NEW l \in Lines, Adds(l) PROVE \E t : Trail(t, config', pending', intended')
  <2>1. PICK t : Trail(t, config, pending, intended)
    BY <1>1 DEF TrailInv, Adds
  <2>2. /\ Len(pending') = n + 1 /\ pending'[n + 1] = l
        /\ \A i \in 1 .. n : pending'[i] = pending[i]
        /\ config' = config /\ intended' = Effect(intended, l)
    BY <1>1, AppendProperties DEF Typed, Adds
  <2> DEFINE u == [i \in 1 .. n + 2 |-> IF i = n + 2 THEN Effect(intended, l) ELSE t[i]]
  <2>3. Trail(u, config', pending', intended')
    <3>1. u[1] = config'
      BY <1>0, <2>1, <2>2 DEF Trail
    <3>2. u[Len(pending') + 1] = intended'
      BY <1>0, <2>2
    <3>3. ASSUME NEW i \in 1 .. Len(pending') PROVE u[i + 1] = Effect(u[i], pending'[i])
      <4>1. CASE i \in 1 .. n
        BY <1>0, <2>1, <2>2, <4>1 DEF Trail
      <4>2. CASE i = n + 1
        BY <1>0, <2>1, <2>2, <4>2 DEF Trail
      <4> QED
        BY <1>0, <2>2, <4>1, <4>2
    <3> QED
      BY <3>1, <3>2, <3>3 DEF Trail
  <2> QED
    BY <2>3
<1>2. CASE Executes
  <2>1. /\ Len(pending') = n - 1 /\ n > 0 /\ Head(pending) = pending[1]
        /\ \A i \in 1 .. n - 1 : pending'[i] = pending[i + 1]
    BY <1>0, <1>2, HeadTailProperties, EmptySeq DEF Typed, Executes
  <2>2. /\ pending[1].whole /\ ~cut /\ config' = Executed(config, pending[1])
        /\ intended' = intended
    BY <1>2, <2>1 DEF CutInv, OnlyLast, Executes, Typed
  <2>3. PICK t : Trail(t, config, pending, intended)
    BY <2>2 DEF TrailInv
  <2> DEFINE u == [i \in 1 .. n |-> t[i + 1]]
  <2>4. Trail(u, config', pending', intended')
    <3>1. u[1] = config'
      BY <1>0, <2>1, <2>2, <2>3 DEF Trail, Effect
    <3>2. u[Len(pending') + 1] = intended'
      BY <1>0, <2>1, <2>2, <2>3 DEF Trail
    <3>3. ASSUME NEW i \in 1 .. Len(pending') PROVE u[i + 1] = Effect(u[i], pending'[i])
      <4>1. i + 1 \in 1 .. n /\ i \in 1 .. n /\ pending'[i] = pending[i + 1]
        BY <1>0, <2>1
      <4> QED
        BY <1>0, <2>3, <4>1 DEF Trail
    <3> QED
      BY <3>1, <3>2, <3>3 DEF Trail
  <2> QED
    BY <2>4
<1>3. CASE Connects
  <2>1. PICK t : Trail(t, config, pending, intended)
    BY <1>3 DEF TrailInv, Connects
  <2>2. n = 0 /\ pending' = pending
    BY <1>3, EmptySeq DEF CutInv, Connects
  <2>3. config = intended
    BY <2>1, <2>2 DEF Trail
  <2>4. Trail([i \in {1} |-> config'], config', pending', intended')
    BY <1>3, <2>2, <2>3 DEF Trail, Connects
  <2> QED
    BY <2>4
<1>4. CASE open /\ Close
  <2>1. Len(pending') = 0 /\ intended' = config'
    BY <1>4, EmptySeq DEF Close
  <2>2. Trail([i \in {1} |-> config'], config', pending', intended')
    BY <2>1 DEF Trail
  <2> QED
    BY <2>2
<1>5. CASE HangsUp \/ UNCHANGED <<config, open, eof, pending, replies, asked, intended, cut>>
  <2>1. UNCHANGED <<config, pending, intended, cut>>
    BY <1>5 DEF HangsUp
  <2>2. PICK t : Trail(t, config, pending, intended)
    BY <2>1 DEF TrailInv
  <2>3. Trail(t, config', pending', intended')
    BY <2>1, <2>2 DEF Trail
  <2> QED
    BY <2>3
<1> QED
  BY <1>1, <1>2, <1>3, <1>4, <1>5, Kinds

\* Once the lines are read the device is configured as they say, in order, for
\* all values, rates and commands: the line that the end of the stream has cut
\* is the only exception.
THEOREM Configured == Spec => []ConfigAsSent
<1>1. Init => TrailInv
  <2> SUFFICES ASSUME Init PROVE \E t : Trail(t, config, pending, intended)
    BY DEF TrailInv
  <2>1. Len(pending) = 0 /\ intended = config
    BY EmptySeq DEF Init
  <2>2. Trail([i \in {1} |-> config], config, pending, intended)
    BY <2>1 DEF Trail
  <2> QED
    BY <2>2
<1>2. TrailInv => ConfigAsSent
  <2> SUFFICES ASSUME TrailInv, pending = <<>>, ~cut PROVE config = intended
    BY DEF ConfigAsSent
  <2>1. Len(pending) = 0
    BY EmptySeq
  <2> QED
    BY <2>1 DEF TrailInv, Trail
<1> QED
  BY <1>1, <1>2, StreamTyped, TrailStep, PTL DEF Spec

-----------------------------------------------------------------------------
(* RepliesMatch. *)

LEMMA RepliesStep == Typed /\ CutInv /\ RepliesInv /\ [Next]_vars => RepliesInv'
<1> SUFFICES ASSUME Typed, CutInv, RepliesInv, [Next]_vars PROVE RepliesInv'
  OBVIOUS
<1> DEFINE n == Len(pending)
           m == Len(asked)
<1>0. n \in Nat /\ m \in Nat /\ Len(replies) \in Nat
  BY LenProperties DEF Typed
<1>p. PICK k : Count(k, Len(replies), pending, asked)
  BY DEF RepliesInv
<1>q. \A i \in 1 .. Len(replies) : i \in 1 .. m /\ replies[i] = asked[i]
  <2>1. Len(replies) <= m
    BY <1>0, <1>p DEF Count
  <2> QED
    BY <1>0, <2>1 DEF RepliesInv
<1>1. ASSUME NEW l \in Lines, Adds(l) PROVE RepliesInv'
  <2>1. /\ Len(pending') = n + 1 /\ pending'[n + 1] = l /\ replies' = replies
        /\ \A i \in 1 .. n : pending'[i] = pending[i]
    BY <1>1, AppendProperties DEF Typed, Adds
  <2>2. /\ \A i \in 1 .. m : asked'[i] = asked[i]
        /\ IF l.head \in Queries THEN Len(asked') = m + 1 /\ asked'[m + 1] = l.head
                                 ELSE Len(asked') = m
    BY <1>1, AppendProperties DEF Typed, Adds, Asking
  <2> DEFINE u == [i \in 1 .. n + 2 |-> IF i = n + 2 THEN Len(asked') ELSE k[i]]
  <2>3. Count(u, Len(replies'), pending', asked')
    <3> HIDE DEF n, m
    <3>1. u[1] = Len(replies') /\ u[Len(pending') + 1] = Len(asked')
      BY <1>0, <1>p, <2>1 DEF Count, n
    <3>2. ASSUME NEW i \in 1 .. Len(pending') + 1 PROVE u[i] \in 0 .. Len(asked')
      <4>1. Len(asked') \in Nat /\ m <= Len(asked')
        BY <1>0, <2>2
      <4>2. CASE i = n + 2
        BY <4>1, <4>2
      <4>3. CASE i \in 1 .. n + 1
        <5>1. u[i] = k[i] /\ k[i] \in 0 .. m
          BY <1>0, <1>p, <4>3 DEF Count, n, m
        <5> QED
          BY <1>0, <4>1, <5>1
      <4> QED
        BY <1>0, <2>1, <4>2, <4>3
    <3>3. ASSUME NEW i \in 1 .. Len(pending')
          PROVE  IF pending'[i].head \in Queries
                   THEN u[i + 1] = u[i] + 1 /\ asked'[u[i] + 1] = pending'[i].head
                   ELSE u[i + 1] = u[i]
      <4>1. CASE i \in 1 .. n
        <5>1. /\ u[i] = k[i] /\ u[i + 1] = k[i + 1] /\ pending'[i] = pending[i]
              /\ i \in 1 .. n + 1 /\ i + 1 \in 1 .. n + 1
          BY <1>0, <2>1, <4>1
        <5>2. CASE pending[i].head \in Queries
          <6>1. k[i + 1] = k[i] + 1 /\ asked[k[i] + 1] = pending[i].head
            BY <1>p, <4>1, <5>2 DEF Count, n
          <6>2. k[i] + 1 \in 1 .. m
            BY <1>0, <1>p, <5>1, <6>1 DEF Count, n, m
          <6> QED
            BY <2>2, <5>1, <5>2, <6>1, <6>2
        <5>3. CASE pending[i].head \notin Queries
          BY <1>p, <4>1, <5>1, <5>3 DEF Count, n
        <5> QED
          BY <5>2, <5>3
      <4>2. CASE i = n + 1
        <5>1. u[i] = m /\ u[i + 1] = Len(asked') /\ pending'[i] = l
          BY <1>0, <1>p, <2>1, <4>2 DEF Count, n, m
        <5> QED
          BY <2>2, <5>1
      <4> QED
        BY <1>0, <2>1, <4>1, <4>2
    <3> HIDE DEF u
    <3> QED
      BY <3>1, <3>2, <3>3 DEF Count
  <2> QED
    BY <1>q, <2>1, <2>2, <2>3 DEF RepliesInv
<1>2. CASE Executes
  <2>1. /\ Len(pending') = n - 1 /\ n > 0 /\ Head(pending) = pending[1] /\ pending[1] \in Lines
        /\ \A i \in 1 .. n - 1 : pending'[i] = pending[i + 1]
        /\ asked' = asked
    BY <1>0, <1>2, HeadTailProperties, EmptySeq DEF Typed, Executes
  <2> DEFINE u == [i \in 1 .. n |-> k[i + 1]]
             h == pending[1].head
  <2>2. /\ u[1] = Len(replies')
        /\ \A i \in 1 .. Len(replies') : replies'[i] = asked'[i]
    <3>1. CASE h \in Queries
      <4>1. k[2] = Len(replies) + 1 /\ asked[Len(replies) + 1] = h
        <5>1. 1 \in 1 .. n /\ k[1] = Len(replies)
          BY <1>0, <1>p, <2>1 DEF Count
        <5>2. k[1 + 1] = k[1] + 1 /\ asked[k[1] + 1] = h
          BY <1>p, <3>1, <5>1 DEF Count
        <5> QED
          BY <5>1, <5>2
      <4>2. /\ Len(replies') = Len(replies) + 1 /\ replies'[Len(replies) + 1] = h
            /\ \A i \in 1 .. Len(replies) : replies'[i] = replies[i]
        BY <1>2, <2>1, <3>1, AppendProperties DEF Typed, Executes
      <4> QED
        BY <1>0, <1>q, <2>1, <4>1, <4>2
    <3>2. CASE h \notin Queries
      <4>1. k[2] = Len(replies) /\ replies' = replies
        BY <1>0, <1>2, <1>p, <2>1, <3>2 DEF Count, Executes
      <4> QED
        BY <1>0, <1>q, <2>1, <4>1
    <3> QED
      BY <3>1, <3>2
  <2>3. Count(u, Len(replies'), pending', asked')
    <3> HIDE DEF n, m
    <3>1. u[Len(pending') + 1] = Len(asked')
      BY <1>0, <1>p, <2>1 DEF Count, n
    <3>2. ASSUME NEW i \in 1 .. Len(pending') + 1 PROVE u[i] \in 0 .. Len(asked')
      BY <1>0, <1>p, <2>1 DEF Count, n
    <3>3. ASSUME NEW i \in 1 .. Len(pending')
          PROVE  IF pending'[i].head \in Queries
                   THEN u[i + 1] = u[i] + 1 /\ asked'[u[i] + 1] = pending'[i].head
                   ELSE u[i + 1] = u[i]
      <4>1. /\ i + 1 \in 1 .. n /\ i \in 1 .. n /\ pending'[i] = pending[i + 1]
            /\ u[i] = k[i + 1] /\ u[i + 1] = k[i + 1 + 1]
        BY <1>0, <2>1
      <4> QED
        BY <1>p, <2>1, <4>1 DEF Count, n
    <3> HIDE DEF u
    <3> QED
      BY <2>2, <3>1, <3>2, <3>3 DEF Count
  <2> QED
    BY <2>2, <2>3 DEF RepliesInv
<1>3. CASE Connects \/ HangsUp
           \/ UNCHANGED <<config, open, eof, pending, replies, asked, intended, cut>>
  <2>1. UNCHANGED <<pending, replies, asked>>
    BY <1>3 DEF Connects, HangsUp
  <2>2. Count(k, Len(replies'), pending', asked')
    BY <1>p, <2>1
  <2> QED
    BY <1>q, <2>1, <2>2 DEF RepliesInv
<1>4. CASE open /\ Close
  <2>1. Len(pending') = 0 /\ Len(asked') = 0 /\ Len(replies') = 0
    BY <1>4, EmptySeq DEF Close
  <2>2. Count([i \in {1} |-> 0], Len(replies'), pending', asked')
    BY <2>1 DEF Count
  <2>3. \A i \in 1 .. Len(replies') : replies'[i] = asked'[i]
    BY <2>1
  <2> QED
    BY <2>2, <2>3 DEF RepliesInv
<1> QED
  BY <1>1, <1>2, <1>3, <1>4, Kinds

LEMMA CountedMatch == Typed /\ RepliesInv => RepliesMatch
<1> SUFFICES ASSUME Typed, RepliesInv PROVE RepliesMatch
  OBVIOUS
<1> DEFINE r == Len(replies)
           s == SubSeq(asked, 1, r)
<1>1. r \in Nat /\ Len(asked) \in Nat /\ replies \in Seq(Queries) /\ asked \in Seq(Queries)
  BY LenProperties DEF Typed
<1>2. PICK k : Count(k, r, pending, asked)
  BY DEF RepliesInv
<1>3. r <= Len(asked)
  BY <1>1, <1>2, LenProperties DEF Count, Typed
<1>4. \A i \in 1 .. r : asked[i] \in Queries /\ replies[i] = asked[i]
  BY <1>1, <1>3, ElementOfSeq DEF RepliesInv
<1>5. /\ s \in Seq(Queries) /\ Len(s) = r
      /\ \A i \in 1 .. r : s[i] = asked[i]
  BY <1>1, <1>4, SubSeqProperties
<1> HIDE DEF s
<1>6. replies = s
  BY <1>1, <1>4, <1>5, SeqEqual
<1>7. ASSUME pending = <<>> PROVE replies = asked
  <2>1. Len(pending) = 0
    BY <1>7, EmptySeq
  <2>2. r = Len(asked)
    BY <1>2, <2>1 DEF Count
  <2> QED
    BY <1>1, <1>4, <2>2, SeqEqual
<1> QED
  BY <1>3, <1>6, <1>7 DEF RepliesMatch, s

\* The replies that a client has read are those to the first of its queries, in
\* their order, whatever else it has sent; and to all of them, once they are
\* read.
THEOREM RepliesInOrder == Spec => []RepliesMatch
<1>1. Init => RepliesInv
  <2> SUFFICES ASSUME Init PROVE RepliesInv
    OBVIOUS
  <2>1. Len(pending) = 0 /\ Len(asked) = 0 /\ Len(replies) = 0
    BY EmptySeq DEF Init
  <2>2. Count([i \in {1} |-> 0], Len(replies), pending, asked)
    BY <2>1 DEF Count
  <2>3. \A i \in 1 .. Len(replies) : replies[i] = asked[i]
    BY <2>1
  <2> QED
    BY <2>2, <2>3 DEF RepliesInv
<1> QED
  BY <1>1, StreamTyped, RepliesStep, CountedMatch, PTL DEF Spec
=============================================================================
