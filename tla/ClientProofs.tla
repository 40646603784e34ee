---------------------------- MODULE ClientProofs ----------------------------
(***************************************************************************)
(* Proofs about qmemctl, the two halves of which share no state.  Whatever *)
(* the daemon sends fits into the client's buffer: for every message size, *)
(* text size and request.  And the commands show of that text what they    *)
(* are meant to: for every snapshot and wherever it was cut off.           *)
(***************************************************************************)
EXTENDS IpcExchange, Commands, Lemmas

(* What travels over the connection. *)
Word == Types \cup {"none", "count", "text"}
Unit == [type : Word, length : Nat]
Stream == Seq(Unit)

(* The payload of a reply. *)
Text(n) == [i \in 1 .. n |-> [type |-> "text", length |-> i]]

(* A payload of n units is a stream of length n. *)
LEMMA TextFacts ==
  ASSUME NEW n \in Nat
  PROVE  Text(n) \in Seq(Unit) /\ Len(Text(n)) = n
<1>1. \A i \in 1 .. n : [type |-> "text", length |-> i] \in Unit
  BY DEF Unit, Word
<1> QED BY <1>1 DEF Text

(* A reply is its header followed by the payload. *)
LEMMA MessageFacts ==
  ASSUME NEW t \in Word, NEW n \in Nat
  PROVE  /\ Message(t, n) \in Seq(Unit) /\ Len(Message(t, n)) = n + 1
         /\ Message(t, n) # << >>
         /\ Head(Message(t, n)).length = n /\ Tail(Message(t, n)) = Text(n)
         /\ SubSeq(Message(t, n), 1, n + 1) = Message(t, n)
<1> DEFINE h == [type |-> t, length |-> n]
           m == Message(t, n)
<1>1. h \in Unit
  BY DEF Unit
<1>2. m = <<h>> \o Text(n)
  BY DEF Message, Text
<1>3. Text(n) \in Seq(Unit) /\ Len(Text(n)) = n
  BY TextFacts
<1> HIDE DEF m, h
<1>4. m \in Seq(Unit) /\ Len(m) = n + 1 /\ m[1] = h
      /\ \A i \in 1 .. n : m[i + 1] = Text(n)[i]
  BY <1>1, <1>2, <1>3
<1>5. m # << >> /\ Head(m) = h
  BY <1>4
<1>6. Tail(m) = Text(n)
  <2>1. Tail(m) \in Seq(Unit) /\ Len(Tail(m)) = n
    BY <1>4
  <2>2. \A i \in 1 .. n : Tail(m)[i] = Text(n)[i]
    BY <1>4
  <2> QED BY <1>3, <2>1, <2>2
<1>7. SubSeq(m, 1, n + 1) = m
  BY <1>4
<1>8. h.length = n
  BY DEF h
<1> QED BY <1>4, <1>5, <1>6, <1>7, <1>8 DEF m

(* The lengths handle_client puts into a reply: the client's buffer, as    *)
(* long as a message, has room for one more byte.                          *)
LEMMA ReplyFits ==
  ASSUME NEW type, NEW n \in ReplyLengths(type)
  PROVE  n \in Nat /\ n < MsgMax /\ ToRead(n) = n
<1>1. MsgMax \in Nat /\ MsgMax > 2 /\ TextSizes \subseteq Nat
  BY ExchangeAssumption DEF HeaderSize
<1>2. n \in Nat /\ n < MsgMax
  <2>1. n = 1 \/ \E k \in TextSizes : n = Payload(k)
    BY DEF ReplyLengths
  <2> QED BY <1>1, <2>1 DEF Payload, HeaderSize
<1> QED BY <1>1, <1>2 DEF ToRead

Client0 == [pc : {"connect", "header", "count", "answer", "text", "done", "null"},
            type : Types, count : BOOLEAN, length : Nat, text : Stream]
Server0 == [pc : {"accept", "header", "count", "reply", "closed"},
            req : Unit, length : Nat]

(* The client's call succeeded with all that was sent. *)
Whole ==
  /\ cli.length = srv.length
  /\ Len(cli.text) = srv.length
  /\ \A i \in 1 .. srv.length : cli.text[i].length = i

(* The inductive invariant.  Until the daemon has closed there is nothing  *)
(* to read; afterwards, when nothing was cut, all of the reply is either   *)
(* on its way or with the client.                                          *)
IInv ==
  /\ cli \in Client0 /\ srv \in Server0 /\ cut \in BOOLEAN
  /\ toSrv \in Stream /\ toCli \in Stream
  /\ srv.pc # "closed" => toCli = << >> /\ cli.pc \notin {"text", "done"}
  /\ ToRead(srv.length) = srv.length
  /\ srv.pc = "closed" /\ ~cut =>
       /\ cli.pc \notin {"text", "done"} =>
            toCli = << >> \/ \E t \in Word : toCli = Message(t, srv.length)
       /\ cli.pc = "text" => cli.length = srv.length /\ toCli = Text(srv.length)
       /\ cli.pc = "done" => Whole

(* Before anything was sent. *)
LEMMA InitIInv == Init => IInv
<1> SUFFICES ASSUME Init PROVE IInv
  OBVIOUS
<1>1. << >> \in Stream /\ None \in Unit
  BY DEF Stream, None, Unit, Word
<1>2. PICK t \in Types, c \in BOOLEAN :
        cli = [pc |-> "connect", type |-> t, count |-> c, length |-> 0, text |-> << >>]
  BY DEF Init
<1>3. cli \in Client0 /\ cli.pc = "connect"
  BY <1>1, <1>2 DEF Client0
<1>4. srv = [pc |-> "accept", req |-> None, length |-> 0]
  BY DEF Init
<1>5. srv \in Server0 /\ srv.pc = "accept"
  BY <1>1, <1>4 DEF Server0
<1>6. ToRead(srv.length) = srv.length
  BY <1>4, ExchangeAssumption DEF ToRead, HeaderSize
<1> QED BY <1>1, <1>3, <1>5, <1>6 DEF Init, IInv

(* Every step of the exchange keeps the invariant. *)
LEMMA NextIInv == IInv /\ [Next]_vars => IInv'
<1> SUFFICES ASSUME IInv, [Next]_vars PROVE IInv'
  OBVIOUS
<1>0. /\ cli \in Client0 /\ srv \in Server0 /\ cut \in BOOLEAN
      /\ toSrv \in Stream /\ toCli \in Stream
  BY DEF IInv
(* Steps of the client before it receives, and giving up. *)
<1>1. ASSUME NEW pc \in {"connect", "header", "count", "answer", "null"},
             cli' = [cli EXCEPT !.pc = pc], cli.pc \notin {"text", "done"},
             toSrv' \in Stream, UNCHANGED <<srv, toCli, cut>>
      PROVE  IInv'
  <2>1. cli' \in Client0 /\ cli'.pc = pc
    BY <1>0, <1>1 DEF Client0
  <2>2. pc \notin {"text", "done"}
    BY <1>1
  <2> QED BY <1>1, <2>1, <2>2 DEF IInv
<1>2. CASE Connect
  <2>1. cli.pc = "connect" /\ UNCHANGED <<srv, toSrv, toCli, cut>>
        /\ (cli' = [cli EXCEPT !.pc = "header"] \/ cli' = [cli EXCEPT !.pc = "null"])
    BY <1>2 DEF Connect, ClientGoes, GiveUp
  <2> QED BY <1>0, <1>1, <2>1
<1>3. CASE SendHeader
  <2>1. /\ cli.pc = "header" /\ UNCHANGED <<srv, toCli, cut>>
        /\ \/ cli' = [cli EXCEPT !.pc = "count"] \/ cli' = [cli EXCEPT !.pc = "answer"]
           \/ cli' = [cli EXCEPT !.pc = "null"]
    BY <1>3 DEF SendHeader, ClientGoes, GiveUp
  <2>2. toSrv' \in Stream
    <3> DEFINE u == [type |-> cli.type, length |-> IF cli.count THEN 1 ELSE 0]
    <3>1. u \in Unit
      BY <1>0 DEF Client0, Unit, Word
    <3>2. toSrv' = toSrv \/ toSrv' = Append(toSrv, u)
      BY <1>3 DEF SendHeader
    <3> HIDE DEF u
    <3> QED BY <1>0, <3>1, <3>2 DEF Stream
  <2> QED BY <1>1, <2>1, <2>2
<1>4. CASE SendCount
  <2>1. /\ cli.pc = "count" /\ UNCHANGED <<srv, toCli, cut>>
        /\ cli' = [cli EXCEPT !.pc = "answer"] \/ cli' = [cli EXCEPT !.pc = "null"]
    BY <1>4 DEF SendCount, ClientGoes, GiveUp
  <2>2. toSrv' \in Stream
    <3> DEFINE u == [type |-> "count", length |-> 0]
    <3>1. u \in Unit
      BY DEF Unit, Word
    <3>2. toSrv' = toSrv \/ toSrv' = Append(toSrv, u)
      BY <1>4 DEF SendCount
    <3> HIDE DEF u
    <3> QED BY <1>0, <3>1, <3>2 DEF Stream
  <2> QED BY <1>1, <2>1, <2>2
<1>5. CASE RecvAnswer
  <2>1. cli.pc = "answer" /\ UNCHANGED <<srv, toSrv, cut>>
    BY <1>5 DEF RecvAnswer
  <2>2. CASE GiveUp /\ UNCHANGED toCli
    BY <1>0, <1>1, <2>1, <2>2 DEF GiveUp, ClientGoes
  <2>3. CASE /\ toCli # << >>
             /\ cli' = [cli EXCEPT !.pc = "text", !.length = Head(toCli).length]
             /\ toCli' = Tail(toCli)
    <3>1. Head(toCli) \in Unit /\ Tail(toCli) \in Stream
      BY <1>0, <2>3 DEF Stream
    <3>2. Head(toCli).length \in Nat
      BY <3>1 DEF Unit
    <3>3. cli' \in Client0 /\ cli'.pc = "text" /\ cli'.length = Head(toCli).length
      BY <1>0, <2>3, <3>2 DEF Client0
    <3>4. srv.pc = "closed"
      BY <2>3 DEF IInv
    <3>5. ASSUME ~cut
          PROVE  cli'.length = srv.length /\ toCli' = Text(srv.length)
      <4>1. PICK t \in Word : toCli = Message(t, srv.length)
        BY <2>1, <2>3, <3>4, <3>5 DEF IInv
      <4>2. srv.length \in Nat
        BY <1>0 DEF Server0
      <4>3. Head(toCli).length = srv.length /\ Tail(toCli) = Text(srv.length)
        BY <4>1, <4>2, MessageFacts
      <4> QED BY <2>3, <3>3, <4>3
    <3> QED BY <1>0, <2>1, <2>3, <3>1, <3>3, <3>4, <3>5 DEF IInv
  <2> QED BY <1>5, <2>2, <2>3 DEF RecvAnswer
<1>6. CASE RecvText
  <2> DEFINE n == Min({ToRead(cli.length), Len(toCli)})
  <2>1. /\ cli.pc = "text" /\ UNCHANGED <<srv, toSrv, cut>>
        /\ cli' = [cli EXCEPT !.pc = "done", !.text = SubSeq(toCli, 1, n)]
        /\ toCli' = SubSeq(toCli, n + 1, Len(toCli))
    BY <1>6 DEF RecvText
  <2>2. /\ n \in Nat /\ n =< Len(toCli) /\ Len(toCli) \in Nat
        /\ (ToRead(cli.length) = Len(toCli) => n = Len(toCli))
    <3>1. ToRead(cli.length) \in Nat /\ Len(toCli) \in Nat
      <4>1. cli.length \in Nat /\ MsgMax \in Nat /\ MsgMax > 2
        BY <1>0, ExchangeAssumption DEF Client0, HeaderSize
      <4>2. Len(toCli) \in Nat
        BY <1>0, ElementIn DEF Stream
      <4> QED BY <4>1, <4>2 DEF ToRead
    <3> DEFINE S == {ToRead(cli.length), Len(toCli)}
    <3>2. S \in SUBSET Nat /\ S # {}
      BY <3>1
    <3>3. Min(S) \in S /\ \A x \in S : Min(S) =< x
      <4> HIDE DEF S
      <4> QED BY <3>2, MinIsLeast
    <3>4. n \in {ToRead(cli.length), Len(toCli)} /\ n =< Len(toCli)
      BY <3>3
    <3> HIDE DEF n
    <3> QED BY <3>1, <3>4
  <2> HIDE DEF n
  <2>3. SubSeq(toCli, 1, n) \in Stream /\ toCli' \in Stream
    BY <1>0, <2>1, <2>2 DEF Stream
  <2>4. cli' \in Client0 /\ cli'.pc = "done" /\ cli'.text = SubSeq(toCli, 1, n)
        /\ cli'.length = cli.length
    BY <1>0, <2>1, <2>3 DEF Client0
  <2>5. srv.pc = "closed"
    BY <2>1 DEF IInv
  <2>6. ASSUME ~cut PROVE Whole'
    <3>1. /\ ToRead(srv.length) = srv.length
          /\ cli.length = srv.length /\ toCli = Text(srv.length)
      BY <2>1, <2>5, <2>6 DEF IInv
    <3>2. srv.length \in Nat
      BY <1>0 DEF Server0
    <3>3. Text(srv.length) \in Seq(Unit) /\ Len(Text(srv.length)) = srv.length
      BY <3>2, TextFacts
    <3>4. n = srv.length
      BY <2>2, <3>1, <3>3
    <3>5. SubSeq(toCli, 1, n) = Text(srv.length)
      BY <3>1, <3>2, <3>3, <3>4
    <3>6. \A i \in 1 .. srv.length : Text(srv.length)[i].length = i
      BY DEF Text
    <3> QED BY <2>1, <2>4, <3>1, <3>3, <3>5, <3>6 DEF Whole
  <2> QED BY <1>0, <2>1, <2>3, <2>4, <2>5, <2>6 DEF IInv
(* Steps of the daemon before it replies. *)
<1>7. ASSUME srv' \in Server0, srv'.length = srv.length, srv.pc # "closed",
             toSrv' \in Stream, UNCHANGED <<cli, toCli>>, cut' \in BOOLEAN
      PROVE  IInv'
  <2>1. toCli = << >> /\ cli.pc \notin {"text", "done"}
    BY <1>7 DEF IInv
  <2> QED BY <1>0, <1>7, <2>1 DEF IInv
<1>8. ASSUME NEW pc \in {"accept", "header", "count", "reply", "closed"},
             srv' = [srv EXCEPT !.pc = pc]
      PROVE  srv' \in Server0 /\ srv'.length = srv.length
  BY <1>0, <1>8 DEF Server0
<1>9. CASE Accept
  <2>1. srv.pc = "accept" /\ srv' = [srv EXCEPT !.pc = "header"]
        /\ UNCHANGED <<cli, toSrv, toCli, cut>>
    BY <1>9 DEF Accept
  <2> QED BY <1>0, <1>7, <1>8, <2>1
<1>10. CASE RecvHeader
  <2>1. srv.pc = "header" /\ UNCHANGED <<cli, toCli, cut>>
    BY <1>10 DEF RecvHeader
  <2>2. CASE Close /\ UNCHANGED toSrv
    BY <1>0, <1>7, <1>8, <2>1, <2>2 DEF Close
  <2>3. CASE /\ toSrv # << >> /\ toSrv' = Tail(toSrv)
             /\ srv' = [srv EXCEPT !.req = Head(toSrv),
                                   !.pc = IF WantsCount(Head(toSrv)) THEN "count"
                                          ELSE "reply"]
    <3>1. Head(toSrv) \in Unit /\ toSrv' \in Stream
      BY <1>0, <2>3 DEF Stream
    <3>2. srv' \in Server0 /\ srv'.length = srv.length
      BY <1>0, <2>3, <3>1 DEF Server0
    <3> QED BY <1>0, <1>7, <2>1, <3>1, <3>2
  <2> QED BY <1>10, <2>2, <2>3 DEF RecvHeader
<1>11. CASE RecvCount
  <2>1. /\ srv.pc = "count" /\ srv' = [srv EXCEPT !.pc = "reply"]
        /\ UNCHANGED <<cli, toCli, cut>>
    BY <1>11 DEF RecvCount
  <2>2. toSrv' \in Stream
    BY <1>0, <1>11 DEF RecvCount, Stream
  <2> QED BY <1>0, <1>7, <1>8, <2>1, <2>2
<1>12. CASE Killed
  <2>1. /\ srv' = [srv EXCEPT !.pc = "closed"] /\ cut' = TRUE
        /\ UNCHANGED <<cli, toSrv, toCli>>
    BY <1>12 DEF Killed, Close
  <2>2. srv' \in Server0 /\ srv'.length = srv.length /\ srv'.pc = "closed"
    BY <1>0, <2>1 DEF Server0
  <2> QED BY <1>0, <2>1, <2>2 DEF IInv
<1>13. CASE Reply
  <2>1. srv.pc = "reply" /\ UNCHANGED <<cli, toSrv>>
    BY <1>13 DEF Reply
  <2>2. PICK n \in ReplyLengths(srv.req.type) :
          LET m == Message(srv.req.type, n) IN
          \E k \in 0 .. Len(m) :
            /\ toCli' = SubSeq(m, 1, k) /\ cut' = (k < Len(m))
            /\ srv' = [srv EXCEPT !.length = n, !.pc = "closed"]
    BY <1>13 DEF Reply
  <2>3. n \in Nat /\ ToRead(n) = n
    BY ReplyFits
  <2>4. srv.req.type \in Word
    BY <1>0 DEF Server0, Unit
  <2> DEFINE m == Message(srv.req.type, n)
  <2>5. /\ m \in Seq(Unit) /\ Len(m) = n + 1 /\ SubSeq(m, 1, n + 1) = m
    BY <2>3, <2>4, MessageFacts
  <2>6. PICK k \in 0 .. Len(m) : toCli' = SubSeq(m, 1, k) /\ cut' = (k < Len(m))
    BY <2>2
  <2>7. srv' \in Server0 /\ srv'.length = n /\ srv'.pc = "closed"
    BY <1>0, <2>2, <2>3 DEF Server0
  <2>8. cli.pc \notin {"text", "done"}
    BY <2>1 DEF IInv
  <2>9. cut' \in BOOLEAN /\ (~cut' => toCli' = m)
    <3> HIDE DEF m
    <3>1. cut' \in BOOLEAN
      BY <2>6
    <3>2. ~(k < Len(m)) => k = n + 1
      BY <2>3, <2>5
    <3> QED BY <2>5, <2>6, <3>1, <3>2
  <2>10. toCli' \in Stream
    <3> HIDE DEF m
    <3> QED BY <2>3, <2>5, <2>6 DEF Stream
  <2> QED BY <1>0, <2>1, <2>3, <2>4, <2>7, <2>8, <2>9, <2>10 DEF IInv
<1>14. CASE UNCHANGED vars
  BY <1>14 DEF vars, IInv, Whole
<1> QED
  BY <1>2, <1>3, <1>4, <1>5, <1>6, <1>9, <1>10, <1>11, <1>12, <1>13, <1>14
     DEF Next, Client, Server, Done

(* Every call that nothing interrupts returns the whole text the daemon    *)
(* sent, for every size of message and text.                               *)
THEOREM NothingClippedHolds == Spec => []NothingClipped
<1>1. IInv => NothingClipped
  <2> SUFFICES ASSUME IInv, cli.pc = "done", ~cut PROVE Whole
    BY DEF NothingClipped, Whole
  <2>1. srv.pc = "closed"
    BY DEF IInv
  <2> QED BY <2>1 DEF IInv
<1> QED BY <1>1, InitIInv, NextIInv, PTL DEF Spec

-----------------------------------------------------------------------------
(***************************************************************************)
(* Commands.  What a snapshot is like is shown from its rows up to its     *)
(* services, each of them the text of parts that follow one another.  All  *)
(* that a command needs of it is kept in Laid: from where a row opens back *)
(* to the heading of its section there is nothing but the section, the     *)
(* heading is what the two searches find, and the keys of the row stay     *)
(* together.  Every beginning of such a text is such a text.               *)
(***************************************************************************)
(* FlattenSeq puts the sequences one after the other, part by part. *)
LEMMA Flattened ==
  ASSUME NEW T, NEW seqs \in Seq(Seq(T))
  PROVE  FlattenSeq(seqs) \in Seq(T) /\ \E b : Blocks(b, seqs, FlattenSeq(seqs))
<1> DEFINE n == Len(seqs)
           g == CHOOSE g : IsFlat(g, seqs, n)
           b == [i \in 0 .. n |-> IF i = 0 THEN 0 ELSE Len(g[i])]
           Good(k) == /\ g[k] \in Seq(T)
                      /\ k > 1 => b[k] = b[k - 1] + Len(seqs[k])
                      /\ \A i \in 1 .. k : \A m \in 1 .. Len(seqs[i]) :
                           b[i - 1] + m \in 1 .. Len(g[k]) /\ g[k][b[i - 1] + m] = seqs[i][m]
<1>1. n \in Nat /\ \A i \in 1 .. n : seqs[i] \in Seq(T)
  OBVIOUS
<1>2. CASE n = 0
  <2>1. FlattenSeq(seqs) = seqs
    BY <1>2 DEF FlattenSeq
  <2>2. seqs \in Seq(T)
    BY <1>2
  <2>3. Blocks([i \in {0} |-> 0], seqs, seqs)
    BY <1>2 DEF Blocks
  <2> QED BY <2>1, <2>2, <2>3
<1>3. CASE n # 0
  <2>1. IsFlat(g, seqs, n)
    BY <1>1, FlatExists
  <2>2. FlattenSeq(seqs) = g[n]
    BY <1>3 DEF FlattenSeq, IsFlat
  <2> HIDE DEF g
  <2>3. \A i \in 1 .. n : g[i] = IF i = 1 THEN seqs[i] ELSE g[i - 1] \o seqs[i]
    BY <2>1 DEF IsFlat
  <2>4. b[0] = 0 /\ \A i \in 1 .. n : b[i] = Len(g[i])
    BY <1>1
  <2> HIDE DEF b
  <2>5. ASSUME NEW k \in 1 .. n, k > 1 => Good(k - 1) PROVE Good(k)
    <3>1. CASE k = 1
      <4>1. g[k] = seqs[1] /\ 1 \in 1 .. n /\ seqs[1] \in Seq(T) /\ b[1 - 1] = 0
        BY <1>1, <2>3, <2>4, <3>1
      <4> QED BY <3>1, <4>1
    <3>2. CASE k > 1
      <4>0. k - 1 \in 1 .. n
        BY <1>1, <3>2
      <4>1. /\ seqs[k] \in Seq(T) /\ g[k] = g[k - 1] \o seqs[k] /\ g[k - 1] \in Seq(T)
            /\ b[k] = Len(g[k]) /\ b[k - 1] = Len(g[k - 1])
        <5>1. g[k - 1] \in Seq(T)
          BY <2>5, <3>2
        <5>2. b[k] = Len(g[k]) /\ b[k - 1] = Len(g[k - 1])
          BY <2>4, <4>0
        <5>3. g[k] = g[k - 1] \o seqs[k]
          <6>1. k # 1
            BY <3>2
          <6> QED BY <2>3, <6>1, Zenon
        <5> QED BY <1>1, <5>1, <5>2, <5>3
      <4>2. /\ g[k] \in Seq(T)
            /\ Len(g[k]) = Len(g[k - 1]) + Len(seqs[k])
            /\ \A q \in 1 .. Len(g[k - 1]) : g[k][q] = g[k - 1][q]
            /\ \A m \in 1 .. Len(seqs[k]) : g[k][Len(g[k - 1]) + m] = seqs[k][m]
        <5>1. PICK s \in Seq(T), t \in Seq(T) : s = g[k - 1] /\ t = seqs[k]
          BY <4>1, Zenon
        <5>2. g[k] = s \o t
          BY <4>1, <5>1, Zenon
        <5>3. /\ s \o t \in Seq(T)
              /\ Len(s \o t) = Len(s) + Len(t)
              /\ \A q \in 1 .. Len(s) : (s \o t)[q] = s[q]
              /\ \A m \in 1 .. Len(t) : (s \o t)[Len(s) + m] = t[m]
          BY Joined
        <5> QED BY <5>1, <5>2, <5>3, Zenon
      <4>3. ASSUME NEW i \in 1 .. k, NEW m \in 1 .. Len(seqs[i])
            PROVE  b[i - 1] + m \in 1 .. Len(g[k]) /\ g[k][b[i - 1] + m] = seqs[i][m]
        <5>1. CASE i = k
          <6>1. m \in 1 .. Len(seqs[k]) /\ b[i - 1] = Len(g[k - 1])
            BY <4>1, <5>1
          <6>2. Len(g[k - 1]) \in Nat /\ Len(seqs[k]) \in Nat
            BY <4>1
          <6>3. g[k][b[i - 1] + m] = seqs[k][m]
            BY <4>2, <6>1
          <6>4. Len(g[k]) = Len(g[k - 1]) + Len(seqs[k])
            BY <4>2
          <6>5. b[i - 1] + m \in 1 .. Len(g[k])
            BY <6>1, <6>2, <6>4, InSecond, Zenon
          <6> QED BY <5>1, <6>3, <6>5
        <5>2. CASE i # k
          <6>1. i \in 1 .. k - 1
            BY <5>2
          <6>2. b[i - 1] + m \in 1 .. Len(g[k - 1]) /\ g[k - 1][b[i - 1] + m] = seqs[i][m]
            BY <2>5, <3>2, <6>1
          <6>3. Len(g[k - 1]) \in Nat /\ Len(seqs[k]) \in Nat
            BY <4>1
          <6>4. g[k][b[i - 1] + m] = g[k - 1][b[i - 1] + m]
            BY <4>2, <6>2
          <6>5. Len(g[k]) = Len(g[k - 1]) + Len(seqs[k])
            BY <4>2
          <6>6. b[i - 1] + m \in 1 .. Len(g[k])
            BY <6>2, <6>3, <6>5, InFirst, Zenon
          <6> QED BY <6>2, <6>4, <6>6
        <5> QED BY <5>1, <5>2
      <4> QED BY <4>1, <4>2, <4>3
    <3>3. k = 1 \/ k > 1
      BY <1>1
    <3> HIDE DEF Good
    <3> QED BY <3>1, <3>2, <3>3
  <2>6. \A k \in 1 .. n : Good(k)
    <3> DEFINE B == {k \in 1 .. n : ~ Good(k)}
    <3> HIDE DEF Good
    <3> SUFFICES ASSUME B # {} PROVE FALSE
      OBVIOUS
    <3>1. PICK k \in B : \A x \in B : k =< x
      <4> HIDE DEF B
      <4>1. B \in SUBSET Nat
        BY DEF B
      <4> QED BY <4>1, NatMinimum
    <3>2. k > 1 => Good(k - 1)
      <4>1. ASSUME k > 1 PROVE k - 1 \in 1 .. n /\ k - 1 \notin B
        <5> HIDE DEF B
        <5>1. k \in 1 .. n
          BY DEF B
        <5> QED BY <3>1, <4>1, <5>1
      <4> QED BY <4>1
    <3> QED BY <2>5, <3>2
  <2>7. Blocks(b, seqs, g[n])
    <3>1. \A i \in 1 .. n : g[i] \in Seq(T)
      BY <2>6
    <3>2. \A i \in 0 .. n : b[i] \in Nat
      <4>1. \A i \in 1 .. n : b[i] \in Nat
        <5> HIDE DEF n
        <5> QED BY <2>4, <3>1
      <4> QED BY <1>1, <2>4, <4>1
    <3>3. b[n] = Len(g[n]) /\ n \in 1 .. n
      BY <1>1, <1>3, <2>4
    <3>4. ASSUME NEW i \in 1 .. n PROVE b[i] = b[i - 1] + Len(seqs[i])
      <4>1. CASE i = 1
        <5>1. b[i - 1] = 0 /\ b[i] = Len(seqs[1]) /\ seqs[1] \in Seq(T)
          BY <1>1, <2>3, <2>4, <4>1
        <5> QED BY <4>1, <5>1
      <4>2. CASE i > 1
        BY <2>6, <4>2
      <4> QED BY <4>1, <4>2
    <3>5. \A i \in 1 .. n : \A m \in 1 .. Len(seqs[i]) : g[n][b[i - 1] + m] = seqs[i][m]
      BY <2>6, <3>3
    <3> HIDE DEF Good
    <3> QED BY <2>4, <3>2, <3>3, <3>4, <3>5 DEF Blocks
  <2>8. g[n] \in Seq(T)
    BY <1>1, <1>3, <2>6
  <2> QED BY <2>2, <2>7, <2>8
<1> QED BY <1>2, <1>3

(* Ascending(S) has for each k the element with k - 1 others below it. *)
LEMMA AscendingIs ==
  ASSUME NEW S \in SUBSET Nat, IsFiniteSet(S)
  PROVE  /\ Cardinality(S) \in Nat
         /\ Ascending(S) \in Seq(S) /\ Len(Ascending(S)) = Cardinality(S)
         /\ \A k \in 1 .. Cardinality(S) :
              Ascending(S)[k] \in S /\ Cardinality(Below(S, Ascending(S)[k])) = k - 1
<1> DEFINE n == Cardinality(S)
<1>1. n \in Nat
  BY BelowAll
<1>2. Ascending(S) = [k \in 1 .. n |-> CHOOSE i \in S : Cardinality(Below(S, i)) = k - 1]
  BY DEF Ascending, Below
<1>3. ASSUME NEW k \in 1 .. n
      PROVE  Ascending(S)[k] \in S /\ Cardinality(Below(S, Ascending(S)[k])) = k - 1
  BY <1>2, BelowAll
<1>4. Ascending(S) \in [1 .. n -> S]
  BY <1>2, <1>3
<1> HIDE DEF n
<1>5. Ascending(S) \in Seq(S) /\ Len(Ascending(S)) = n
  BY <1>1, <1>4
<1> QED BY <1>1, <1>3, <1>5 DEF n

(* A set that is the lower part of another comes first in its order, too. *)
LEMMA AscendingPart ==
  ASSUME NEW S \in SUBSET Nat, IsFiniteSet(S), NEW R \in SUBSET S,
         \A i \in R, x \in S : x < i => x \in R
  PROVE  /\ Cardinality(R) \in Nat /\ Cardinality(S) \in Nat
         /\ Cardinality(R) =< Cardinality(S)
         /\ \A k \in 1 .. Cardinality(R) : Ascending(S)[k] = Ascending(R)[k]
<1>1. IsFiniteSet(R) /\ Cardinality(R) =< Cardinality(S)
  BY FS_Subset
<1>2. Cardinality(R) \in Nat /\ Cardinality(S) \in Nat
  BY <1>1, FS_CardinalityType
<1>3. ASSUME NEW k \in 1 .. Cardinality(R) PROVE Ascending(S)[k] = Ascending(R)[k]
  <2>1. Ascending(R)[k] \in R /\ Cardinality(Below(R, Ascending(R)[k])) = k - 1
    BY <1>1, AscendingIs
  <2>2. PICK i \in R : i = Ascending(R)[k]
    BY <2>1
  <2>3. Below(S, i) = Below(R, i)
    BY DEF Below
  <2>4. k \in 1 .. Cardinality(S)
    BY <1>1, <1>2
  <2>5. Ascending(S)[k] \in S /\ Cardinality(Below(S, Ascending(S)[k])) = k - 1
    BY <2>4, AscendingIs
  <2>6. i \in S /\ Cardinality(Below(S, i)) = Cardinality(Below(S, Ascending(S)[k]))
    BY <2>1, <2>2, <2>3, <2>5
  <2>7. i = Ascending(S)[k]
    BY <2>5, <2>6, BelowTells
  <2> QED BY <2>2, <2>7
<1> QED BY <1>1, <1>2, <1>3
-----------------------------------------------------------------------------
(* The services that are published. *)
ServiceNames ==
  {"meminfo", "cpuload", "netstat", "sockstat", "procstat", "procevent", "procmem",
   "slabinfo", "vmstat", "fdmon", "memleak"}

(* No section and no key has one of these names. *)
Reserved == ServiceNames \cup {"none"}

(* Lists that commands search; no key has one of these names.  (The list   *)
(* "sockets" is searched, too, but rows of fdmon have a key of that name.) *)
Sought ==
  {"interfaces", "recent_events", "top_growers", "top_rss", "process_usage",
   "kernel_usage", "user_leaks", "top_consumers", "leakers"}
Keyless == Reserved \cup Sought

(* A list of n keys. *)
KeyList(keys, n) ==
  /\ keys \in Seq(ToSet(keys)) /\ Len(keys) = n
  /\ \A i \in 1 .. n : keys[i] \notin Keyless

SectionOK(sec) ==
  /\ sec.list \in BOOLEAN /\ sec.name \notin Reserved
  /\ sec.keys \in Seq(ToSet(sec.keys))
  /\ \A i \in 1 .. Len(sec.keys) : sec.keys[i] \notin Keyless
  /\ sec.list => Len(sec.keys) >= 1
  /\ sec.name = "sockets" => Len(sec.keys) >= 3

SectionsOK(secs) ==
  secs \in Seq(ToSet(secs)) /\ \A i \in 1 .. Len(secs) : SectionOK(secs[i])

(* Sections that are made as the services make them. *)
LEMMA BlockFine ==
  ASSUME NEW name, NEW keys, NEW n \in Nat, KeyList(keys, n), name # "sockets",
         name \notin Reserved
  PROVE  SectionOK(Block(name, keys))
<1>1. PICK b : b = Block(name, keys)
  OBVIOUS
<1>2. b.name = name /\ b.keys = keys /\ b.list = FALSE
  BY <1>1 DEF Block
<1> QED BY <1>1, <1>2 DEF SectionOK, KeyList

(* The same for a list. *)
LEMMA ListFine ==
  ASSUME NEW name, NEW keys, NEW n \in Nat, KeyList(keys, n), n >= 1,
         name = "sockets" => n >= 3, name \notin Reserved
  PROVE  SectionOK(List(name, keys))
<1>1. PICK b : b = List(name, keys)
  OBVIOUS
<1>2. b.name = name /\ b.keys = keys /\ b.list = TRUE
  BY <1>1 DEF List
<1> QED BY <1>1, <1>2 DEF SectionOK, KeyList

(* The sections of a service, put together. *)
LEMMA SectionsFine ==
  /\ \A a : SectionOK(a) => SectionsOK(<<a>>)
  /\ \A a, b : SectionOK(a) /\ SectionOK(b) => SectionsOK(<<a, b>>)
  /\ \A a, b, c : SectionOK(a) /\ SectionOK(b) /\ SectionOK(c) => SectionsOK(<<a, b, c>>)
<1>1. ASSUME NEW a, SectionOK(a) PROVE SectionsOK(<<a>>)
  BY <1>1 DEF SectionsOK, ToSet
<1>2. ASSUME NEW a, NEW b, SectionOK(a), SectionOK(b) PROVE SectionsOK(<<a, b>>)
  BY <1>2 DEF SectionsOK, ToSet
<1>3. ASSUME NEW a, NEW b, NEW c, SectionOK(a), SectionOK(b), SectionOK(c)
      PROVE  SectionsOK(<<a, b, c>>)
  BY <1>3 DEF SectionsOK, ToSet
<1> QED BY <1>1, <1>2, <1>3

(* And of the services with five or six of them. *)
LEMMA ManySectionsFine ==
  ASSUME NEW a, NEW b, NEW c, NEW d, NEW e,
         SectionOK(a), SectionOK(b), SectionOK(c), SectionOK(d), SectionOK(e)
  PROVE  /\ SectionsOK(<<a, b, c, d, e>>)
         /\ \A f : SectionOK(f) => SectionsOK(<<a, b, c, d, e, f>>)
<1>1. SectionsOK(<<a, b, c, d, e>>)
  BY DEF SectionsOK, ToSet
<1>2. ASSUME NEW f, SectionOK(f) PROVE SectionsOK(<<a, b, c, d, e, f>>)
  BY <1>2 DEF SectionsOK, ToSet
<1> QED BY <1>1, <1>2

(* What the services publish. *)
LEMMA PublishedIs ==
  /\ DOMAIN Published = ServiceNames
  /\ \A svc \in ServiceNames : SectionsOK(Published[svc])
<1>1. DOMAIN Published = ServiceNames
  BY DEF Published, ServiceNames
<1>2. SectionsOK(meminfo_snapshot)
  <2>1. SectionOK(Block("usage_percent", << >>))
    <3>1. KeyList(<< >>, 0) /\ "usage_percent" \notin Reserved
      BY DEF KeyList, ToSet, Keyless, Sought, Reserved, ServiceNames
    <3> QED BY <3>1, BlockFine
  <2>2. SectionOK(Block("memory", << >>))
    <3>1. KeyList(<< >>, 0) /\ "memory" \notin Reserved
      BY DEF KeyList, ToSet, Keyless, Sought, Reserved, ServiceNames
    <3> QED BY <3>1, BlockFine
  <2>3. SectionOK(Block("total_kb", <<"value", "delta">>))
    <3>1. KeyList(<<"value", "delta">>, 2) /\ "total_kb" \notin Reserved
      BY DEF KeyList, ToSet, Keyless, Sought, Reserved, ServiceNames
    <3> QED BY <3>1, BlockFine
  <2>4. SectionOK(Block("available_kb", <<"value", "delta">>))
    <3>1. KeyList(<<"value", "delta">>, 2) /\ "available_kb" \notin Reserved
      BY DEF KeyList, ToSet, Keyless, Sought, Reserved, ServiceNames
    <3> QED BY <3>1, BlockFine
  <2>5. SectionOK(Block("free_kb", <<"value", "delta">>))
    <3>1. KeyList(<<"value", "delta">>, 2) /\ "free_kb" \notin Reserved
      BY DEF KeyList, ToSet, Keyless, Sought, Reserved, ServiceNames
    <3> QED BY <3>1, BlockFine
  <2>6. SectionOK(Block("cached_kb", <<"value", "delta">>))
    <3>1. KeyList(<<"value", "delta">>, 2) /\ "cached_kb" \notin Reserved
      BY DEF KeyList, ToSet, Keyless, Sought, Reserved, ServiceNames
    <3> QED BY <3>1, BlockFine
  <2> QED BY <2>1, <2>2, <2>3, <2>4, <2>5, <2>6, ManySectionsFine DEF meminfo_snapshot
<1>3. SectionsOK(cpuload_snapshot)
  <2>1. SectionOK(Block("system", <<"user_percent", "system_percent", "idle_percent",
                                    "iowait_percent">>))
    <3>1. KeyList(<<"user_percent", "system_percent", "idle_percent", "iowait_percent">>, 4)
          /\ "system" \notin Reserved
      BY DEF KeyList, ToSet, Keyless, Sought, Reserved, ServiceNames
    <3> QED BY <3>1, BlockFine
  <2>2. SectionOK(List("top_consumers", Owner))
    <3>1. KeyList(Owner, 2) /\ "top_consumers" \notin Reserved
      BY DEF KeyList, ToSet, Keyless, Sought, Reserved, ServiceNames, Owner
    <3> QED BY <3>1, ListFine
  <2> QED BY <2>1, <2>2, SectionsFine DEF cpuload_snapshot
<1>4. SectionsOK(netstat_snapshot)
  <2>1. SectionOK(List("interfaces", <<"name">>))
    <3>1. KeyList(<<"name">>, 1) /\ "interfaces" \notin Reserved
      BY DEF KeyList, ToSet, Keyless, Sought, Reserved, ServiceNames
    <3> QED BY <3>1, ListFine
  <2> QED BY <2>1, SectionsFine DEF netstat_snapshot
<1>5. SectionsOK(sockstat_snapshot)
  <2>1. SectionOK(Block("tcp", <<"total", "total_delta", "established", "established_delta",
                                 "time_wait", "time_wait_delta", "listen">>))
    <3>1. KeyList(<<"total", "total_delta", "established", "established_delta",
                    "time_wait", "time_wait_delta", "listen">>, 7)
          /\ "tcp" \notin Reserved
      BY DEF KeyList, ToSet, Keyless, Sought, Reserved, ServiceNames
    <3> QED BY <3>1, BlockFine
  <2>2. SectionOK(Block("udp_total", << >>))
    <3>1. KeyList(<< >>, 0) /\ "udp_total" \notin Reserved
      BY DEF KeyList, ToSet, Keyless, Sought, Reserved, ServiceNames
    <3> QED BY <3>1, BlockFine
  <2>3. SectionOK(Block("udp_total_delta", << >>))
    <3>1. KeyList(<< >>, 0) /\ "udp_total_delta" \notin Reserved
      BY DEF KeyList, ToSet, Keyless, Sought, Reserved, ServiceNames
    <3> QED BY <3>1, BlockFine
  <2>4. SectionOK(Block("unix_total", << >>))
    <3>1. KeyList(<< >>, 0) /\ "unix_total" \notin Reserved
      BY DEF KeyList, ToSet, Keyless, Sought, Reserved, ServiceNames
    <3> QED BY <3>1, BlockFine
  <2>5. SectionOK(Block("unix_total_delta", << >>))
    <3>1. KeyList(<< >>, 0) /\ "unix_total_delta" \notin Reserved
      BY DEF KeyList, ToSet, Keyless, Sought, Reserved, ServiceNames
    <3> QED BY <3>1, BlockFine
  <2>6. SectionOK(List("sockets", <<"local", "remote", "state", "tx_q", "rx_q">> \o Owner))
    <3>1. KeyList(<<"local", "remote", "state", "tx_q", "rx_q">> \o Owner, 7)
          /\ "sockets" \notin Reserved
      BY DEF KeyList, ToSet, Keyless, Sought, Reserved, ServiceNames, Owner
    <3> QED BY <3>1, ListFine
  <2> QED BY <2>1, <2>2, <2>3, <2>4, <2>5, <2>6, ManySectionsFine DEF sockstat_snapshot
<1>6. SectionsOK(procstat_snapshot)
  <2>1. SectionOK(Block("summary", <<"total", "running", "sleeping", "zombie">>))
    <3>1. KeyList(<<"total", "running", "sleeping", "zombie">>, 4)
          /\ "summary" \notin Reserved
      BY DEF KeyList, ToSet, Keyless, Sought, Reserved, ServiceNames
    <3> QED BY <3>1, BlockFine
  <2>2. SectionOK(List("blocked", Owner \o <<"state">>))
    <3>1. KeyList(Owner \o <<"state">>, 3) /\ "blocked" \notin Reserved
      BY DEF KeyList, ToSet, Keyless, Sought, Reserved, ServiceNames, Owner
    <3> QED BY <3>1, ListFine
  <2> QED BY <2>1, <2>2, SectionsFine DEF procstat_snapshot
<1>7. SectionsOK(procevent_snapshot)
  <2>1. SectionOK(Block("counters", <<"forks", "exits">>))
    <3>1. KeyList(<<"forks", "exits">>, 2) /\ "counters" \notin Reserved
      BY DEF KeyList, ToSet, Keyless, Sought, Reserved, ServiceNames
    <3> QED BY <3>1, BlockFine
  <2>2. SectionOK(List("recent_events", Owner \o <<"type">>))
    <3>1. KeyList(Owner \o <<"type">>, 3) /\ "recent_events" \notin Reserved
      BY DEF KeyList, ToSet, Keyless, Sought, Reserved, ServiceNames, Owner
    <3> QED BY <3>1, ListFine
  <2> QED BY <2>1, <2>2, SectionsFine DEF procevent_snapshot
<1>8. SectionsOK(procmem_snapshot)
  <2>1. SectionOK(List("top_growers", ProcRow))
    <3>1. KeyList(ProcRow, 5) /\ "top_growers" \notin Reserved
      BY DEF KeyList, ToSet, Keyless, Sought, Reserved, ServiceNames, ProcRow
    <3> QED BY <3>1, ListFine
  <2>2. SectionOK(List("top_shrinkers", ProcRow))
    <3>1. KeyList(ProcRow, 5) /\ "top_shrinkers" \notin Reserved
      BY DEF KeyList, ToSet, Keyless, Sought, Reserved, ServiceNames, ProcRow
    <3> QED BY <3>1, ListFine
  <2>3. SectionOK(List("top_rss", ProcRow))
    <3>1. KeyList(ProcRow, 5) /\ "top_rss" \notin Reserved
      BY DEF KeyList, ToSet, Keyless, Sought, Reserved, ServiceNames, ProcRow
    <3> QED BY <3>1, ListFine
  <2> QED BY <2>1, <2>2, <2>3, SectionsFine DEF procmem_snapshot
<1>9. SectionsOK(slabinfo_snapshot)
  <2>1. SectionOK(List("top_growers", SlabRow))
    <3>1. KeyList(SlabRow, 3) /\ "top_growers" \notin Reserved
      BY DEF KeyList, ToSet, Keyless, Sought, Reserved, ServiceNames, SlabRow
    <3> QED BY <3>1, ListFine
  <2>2. SectionOK(List("top_shrinkers", SlabRow))
    <3>1. KeyList(SlabRow, 3) /\ "top_shrinkers" \notin Reserved
      BY DEF KeyList, ToSet, Keyless, Sought, Reserved, ServiceNames, SlabRow
    <3> QED BY <3>1, ListFine
  <2> QED BY <2>1, <2>2, SectionsFine DEF slabinfo_snapshot
<1>10. SectionsOK(vmstat_snapshot)
  BY DEF SectionsOK, ToSet, vmstat_snapshot
<1>11. SectionsOK(fdmon_snapshot)
  <2>1. SectionOK(Block("summary", <<"total_fds", "proc_count", "potential_leaks">>))
    <3>1. KeyList(<<"total_fds", "proc_count", "potential_leaks">>, 3)
          /\ "summary" \notin Reserved
      BY DEF KeyList, ToSet, Keyless, Sought, Reserved, ServiceNames
    <3> QED BY <3>1, BlockFine
  <2>2. SectionOK(List("top_consumers",
                       FdRow \o <<"files", "sockets", "pipes", "eventfds", "other">>))
    <3>1. KeyList(FdRow \o <<"files", "sockets", "pipes", "eventfds", "other">>, 10)
          /\ "top_consumers" \notin Reserved
      BY DEF KeyList, ToSet, Keyless, Sought, Reserved, ServiceNames, FdRow
    <3> QED BY <3>1, ListFine
  <2>3. SectionOK(List("leakers", FdRow))
    <3>1. KeyList(FdRow, 5) /\ "leakers" \notin Reserved
      BY DEF KeyList, ToSet, Keyless, Sought, Reserved, ServiceNames, FdRow
    <3> QED BY <3>1, ListFine
  <2> QED BY <2>1, <2>2, <2>3, SectionsFine DEF fdmon_snapshot
<1>12. SectionsOK(memleak_snapshot)
  <2>1. SectionOK(Block("memory_summary", <<"total_kb", "free_kb", "available_kb", "cached_kb">>))
    <3>1. KeyList(<<"total_kb", "free_kb", "available_kb", "cached_kb">>, 4)
          /\ "memory_summary" \notin Reserved
      BY DEF KeyList, ToSet, Keyless, Sought, Reserved, ServiceNames
    <3> QED BY <3>1, BlockFine
  <2>2. SectionOK(List("kernel_leaks", <<"cache", "delta_bytes", "total_bytes">>))
    <3>1. KeyList(<<"cache", "delta_bytes", "total_bytes">>, 3)
          /\ "kernel_leaks" \notin Reserved
      BY DEF KeyList, ToSet, Keyless, Sought, Reserved, ServiceNames
    <3> QED BY <3>1, ListFine
  <2>3. SectionOK(List("user_leaks", HeapRow))
    <3>1. KeyList(HeapRow, 6) /\ "user_leaks" \notin Reserved
      BY DEF KeyList, ToSet, Keyless, Sought, Reserved, ServiceNames, HeapRow
    <3> QED BY <3>1, ListFine
  <2>4. SectionOK(List("process_usage", HeapRow))
    <3>1. KeyList(HeapRow, 6) /\ "process_usage" \notin Reserved
      BY DEF KeyList, ToSet, Keyless, Sought, Reserved, ServiceNames, HeapRow
    <3> QED BY <3>1, ListFine
  <2>5. SectionOK(List("kernel_usage", <<"cache", "total_bytes", "delta_bytes", "active_objs",
                                         "delta_objs">>))
    <3>1. KeyList(<<"cache", "total_bytes", "delta_bytes", "active_objs", "delta_objs">>, 5)
          /\ "kernel_usage" \notin Reserved
      BY DEF KeyList, ToSet, Keyless, Sought, Reserved, ServiceNames
    <3> QED BY <3>1, ListFine
  <2> QED BY <2>1, <2>2, <2>3, <2>4, <2>5, ManySectionsFine DEF memleak_snapshot
<1> QED
  BY <1>1, <1>2, <1>3, <1>4, <1>5, <1>6, <1>7, <1>8, <1>9, <1>10, <1>11, <1>12
  DEF Published, ServiceNames

(* Tokens with names of N. *)
Tok(N) == [key : N, opens : BOOLEAN, place : N \X N \X Nat]

(* Keys of a section, all of them or those of a shorter row. *)
KeysOf(keys, sec) ==
  /\ keys \in Seq(ToSet(sec.keys)) /\ Len(keys) \in Nat
  /\ \A n \in 1 .. Len(keys) : \E l \in 1 .. Len(sec.keys) : keys[n] = sec.keys[l]
  /\ sec.list => Len(keys) >= 1 /\ keys[1] = sec.keys[1]

(* The keys of a row are keys of its section, and the first is kept. *)
LEMMA RowKeysIs ==
  ASSUME NEW sec, SectionOK(sec), NEW i, NEW owned
  PROVE  KeysOf(RowKeys(sec, i, owned), sec)
<1> DEFINE keys == RowKeys(sec, i, owned)
<1>1. PICK K, T : K = sec.keys /\ T = ToSet(sec.keys)
  OBVIOUS
<1>2. K \in Seq(T) /\ Len(K) \in Nat /\ Len(Owner) = 2
  BY <1>1 DEF SectionOK, Owner
<1>3. CASE sec.name = "sockets" /\ i \notin owned
  <2>1. Len(K) >= 3
    BY <1>1, <1>3 DEF SectionOK
  <2>2. keys = SubSeq(K, 1, Len(K) - 2)
    BY <1>1, <1>2, <1>3 DEF RowKeys
  <2>3. /\ SubSeq(K, 1, Len(K) - 2) \in Seq(T) /\ Len(SubSeq(K, 1, Len(K) - 2)) = Len(K) - 2
        /\ \A n \in 1 .. Len(K) - 2 : SubSeq(K, 1, Len(K) - 2)[n] = K[n]
    BY <1>2, <2>1
  <2>4. keys \in Seq(T) /\ Len(keys) = Len(K) - 2 /\ \A n \in 1 .. Len(K) - 2 : keys[n] = K[n]
    BY <2>2, <2>3
  <2> HIDE DEF keys
  <2>5. ASSUME NEW n \in 1 .. Len(keys) PROVE \E l \in 1 .. Len(K) : keys[n] = K[l]
    <3>1. n \in 1 .. Len(K) - 2 /\ n \in 1 .. Len(K)
      BY <1>2, <2>4
    <3> QED BY <2>4, <3>1
  <2>6. Len(keys) \in Nat /\ Len(keys) >= 1 /\ keys[1] = K[1]
    BY <1>2, <2>1, <2>4
  <2>7. KeysOf(keys, sec)
    BY <1>1, <2>4, <2>5, <2>6 DEF KeysOf
  <2> QED BY <2>7 DEF keys
<1>4. CASE ~ (sec.name = "sockets" /\ i \notin owned)
  <2>1. keys = K
    BY <1>1, <1>4 DEF RowKeys
  <2>2. sec.list => Len(K) >= 1
    BY <1>1 DEF SectionOK
  <2> HIDE DEF keys
  <2>3. KeysOf(keys, sec)
    BY <1>1, <1>2, <2>1, <2>2 DEF KeysOf
  <2> QED BY <2>3 DEF keys
<1> QED BY <1>3, <1>4

SectionIn(sec, N) == sec.name \in N /\ ToSet(sec.keys) \subseteq N

(* The text of row i of a section. *)
RowLaid(row, N, svc, sec, i) ==
  /\ row \in Seq(Tok(N)) /\ Len(row) \in Nat
  /\ \A n \in 1 .. Len(row) :
       /\ row[n].place = <<svc, sec.name, i>>
       /\ \E l \in 1 .. Len(sec.keys) : row[n].key = sec.keys[l]
       /\ row[n].opens => n = 1 /\ sec.list
       /\ sec.list /\ n = 1 => row[n].key = sec.keys[1]

(* A row is laid out as RowLaid says. *)
LEMMA RowTextIs ==
  ASSUME NEW N, NEW svc \in N, NEW sec, SectionOK(sec), SectionIn(sec, N), NEW i \in Nat,
         NEW owned
  PROVE  RowLaid(RowText(svc, sec, i, owned), N, svc, sec, i)
<1> DEFINE keys == RowKeys(sec, i, owned)
           row == RowText(svc, sec, i, owned)
<1>0. KeysOf(keys, sec)
  BY RowKeysIs
<1>1. /\ keys \in Seq(ToSet(sec.keys)) /\ Len(keys) \in Nat
      /\ \A n \in 1 .. Len(keys) : \E l \in 1 .. Len(sec.keys) : keys[n] = sec.keys[l]
      /\ sec.list => Len(keys) >= 1 /\ keys[1] = sec.keys[1]
  <2> HIDE DEF keys
  <2> QED BY <1>0 DEF KeysOf
<1>2. row = [n \in 1 .. Len(keys) |->
               Token(keys[n], sec.list /\ n = 1, <<svc, sec.name, i>>)]
  BY DEF RowText
<1> HIDE DEF keys, row
<1>3. ASSUME NEW n \in 1 .. Len(keys)
      PROVE  /\ row[n] \in Tok(N) /\ row[n].place = <<svc, sec.name, i>>
             /\ row[n].key = keys[n] /\ row[n].opens = (sec.list /\ n = 1)
  <2>1. keys[n] \in ToSet(sec.keys)
    BY <1>1
  <2>2. PICK key \in N, name \in N : key = keys[n] /\ name = sec.name
    BY <2>1 DEF SectionIn
  <2>3. PICK o \in BOOLEAN : o = (sec.list /\ n = 1)
    OBVIOUS
  <2>4. row[n] = [key |-> key, opens |-> o, place |-> <<svc, name, i>>]
    BY <1>2, <2>2, <2>3 DEF Token
  <2>5. [key |-> key, opens |-> o, place |-> <<svc, name, i>>] \in Tok(N)
    BY DEF Tok
  <2> QED BY <2>2, <2>3, <2>4, <2>5
<1>4. row \in Seq(Tok(N)) /\ Len(row) = Len(keys)
  <2>1. row \in [1 .. Len(keys) -> Tok(N)]
    BY <1>2, <1>3
  <2> QED BY <1>1, <2>1
<1>5. ASSUME NEW n \in 1 .. Len(row)
      PROVE  /\ row[n].place = <<svc, sec.name, i>>
             /\ \E l \in 1 .. Len(sec.keys) : row[n].key = sec.keys[l]
             /\ row[n].opens => n = 1 /\ sec.list
             /\ sec.list /\ n = 1 => row[n].key = sec.keys[1]
  <2>1. n \in 1 .. Len(keys)
    BY <1>4
  <2>2. /\ row[n].place = <<svc, sec.name, i>>
        /\ row[n].key = keys[n] /\ row[n].opens = (sec.list /\ n = 1)
    BY <1>3, <2>1
  <2>3. \E l \in 1 .. Len(sec.keys) : keys[n] = sec.keys[l]
    BY <1>1, <2>1
  <2> QED BY <1>1, <2>2, <2>3
<1>6. row \in Seq(Tok(N)) /\ Len(row) \in Nat
  BY <1>1, <1>4
<1> QED BY <1>5, <1>6 DEF row, RowLaid

(* The first token of a row comes before the others, and nothing comes     *)
(* between them.                                                           *)
Together(text) ==
  \A a, p \in 1 .. Len(text) :
    text[a].opens /\ text[p].place = text[a].place =>
      a =< p /\ \A q \in a .. p : text[q].place = text[a].place

(* The text of a section. *)
SectionLaid(S, N, svc, sec) ==
  /\ S \in Seq(Tok(N)) /\ Len(S) \in Nat /\ Len(S) >= 1
  /\ S[1].opens = FALSE /\ S[1].key = sec.name
  /\ \A p \in 1 .. Len(S) : S[p].place[1] = svc /\ S[p].place[2] = sec.name
  /\ \A p \in 2 .. Len(S) : \E l \in 1 .. Len(sec.keys) : S[p].key = sec.keys[l]
  /\ \A p \in 1 .. Len(S) : S[p].opens => sec.list /\ S[p].key = sec.keys[1]
  /\ Together(S)

(* A section is laid out as SectionLaid says. *)
LEMMA SectionTextIs ==
  ASSUME NEW N, NEW svc \in N, NEW sec, SectionOK(sec), SectionIn(sec, N), NEW rows \in Nat,
         NEW owned
  PROVE  SectionLaid(SectionText(svc, sec, rows, owned), N, svc, sec)
<1> DEFINE n == IF sec.list THEN rows ELSE 1
           parts == [i \in 1 .. n |-> RowText(svc, sec, i, owned)]
           h == Token(sec.name, FALSE, <<svc, sec.name, 0>>)
           F == FlattenSeq(parts)
           S == SectionText(svc, sec, rows, owned)
           T == Tok(N)
<1>1. n \in Nat
  OBVIOUS
<1>2. S = <<h>> \o F
  BY DEF SectionText
<1>3. h \in T /\ h.key = sec.name /\ h.opens = FALSE /\ h.place = <<svc, sec.name, 0>>
  BY DEF Token, Tok, SectionIn
<1>4. ASSUME NEW i \in 1 .. n PROVE parts[i] \in Seq(T) /\ RowLaid(parts[i], N, svc, sec, i)
  <2>1. parts[i] = RowText(svc, sec, i, owned) /\ i \in Nat
    BY <1>1
  <2>2. RowLaid(parts[i], N, svc, sec, i)
    <3> HIDE DEF parts
    <3> QED BY <2>1, RowTextIs
  <2> QED BY <2>2 DEF RowLaid
<1>5. parts \in Seq(Seq(T)) /\ Len(parts) = n
  <2>1. parts \in [1 .. n -> Seq(T)]
    <3>1. parts = [i \in 1 .. n |-> parts[i]]
      OBVIOUS
    <3> HIDE DEF parts, T, n
    <3> QED BY <1>4, <3>1
  <2> HIDE DEF parts, T, n
  <2> QED BY <1>1, <2>1
<1> HIDE DEF n, parts, h, S, T
<1>6. PICK b : Flat(T, parts, F, b)
  <2>1. F \in Seq(T) /\ \E b : Blocks(b, parts, F)
    BY <1>5, Flattened
  <2> QED BY <1>5, <2>1 DEF Flat
<1>7. F \in Seq(T)
  BY <1>6 DEF Flat
<1> HIDE DEF F
<1>8. /\ S \in Seq(T) /\ Len(S) = Len(F) + 1 /\ Len(F) \in Nat
      /\ S[1] = h
      /\ \A p \in 2 .. Len(S) : p - 1 \in 1 .. Len(F) /\ S[p] = F[p - 1]
  BY <1>2, <1>3, <1>7, Headed
<1>9. ASSUME NEW p \in 2 .. Len(S)
      PROVE  \E i, m :
               /\ InPart(b, parts, F, p - 1, i, m) /\ S[p].place = <<svc, sec.name, i>>
               /\ \E l \in 1 .. Len(sec.keys) : S[p].key = sec.keys[l]
               /\ S[p].opens => m = 1 /\ sec.list /\ S[p].key = sec.keys[1]
  <2>1. PICK x \in 1 .. Len(F) : x = p - 1 /\ S[p] = F[x]
    BY <1>8
  <2>2. PICK i, m : InPart(b, parts, F, x, i, m)
    BY <1>6, BlockOf
  <2>3. i \in 1 .. n /\ m \in 1 .. Len(parts[i]) /\ S[p] = parts[i][m]
    BY <1>5, <2>1, <2>2 DEF InPart
  <2>4. PICK row : row = parts[i]
    OBVIOUS
  <2>5. RowLaid(row, N, svc, sec, i) /\ m \in 1 .. Len(row) /\ S[p] = row[m]
    BY <1>4, <2>3, <2>4
  <2>6. /\ row[m].place = <<svc, sec.name, i>>
        /\ \E l \in 1 .. Len(sec.keys) : row[m].key = sec.keys[l]
        /\ row[m].opens => m = 1 /\ sec.list
        /\ sec.list /\ m = 1 => row[m].key = sec.keys[1]
    BY <2>5 DEF RowLaid
  <2> QED BY <2>1, <2>2, <2>5, <2>6
<1>10. Len(S) \in Nat /\ Len(S) >= 1 /\ S[1].opens = FALSE /\ S[1].key = sec.name
       /\ S[1].place = <<svc, sec.name, 0>>
  BY <1>3, <1>8
<1>11. ASSUME NEW p \in 1 .. Len(S) PROVE S[p].place[1] = svc /\ S[p].place[2] = sec.name
  <2>1. CASE p = 1
    BY <1>10, <2>1
  <2>2. CASE p # 1
    <3>1. p \in 2 .. Len(S)
      BY <1>10, <2>2
    <3>2. PICK i : S[p].place = <<svc, sec.name, i>>
      BY <1>9, <3>1
    <3> QED BY <3>2
  <2> QED BY <2>1, <2>2
<1>12. \A p \in 2 .. Len(S) : \E l \in 1 .. Len(sec.keys) : S[p].key = sec.keys[l]
  BY <1>9
<1>13. ASSUME NEW p \in 1 .. Len(S), S[p].opens
       PROVE  p \in 2 .. Len(S) /\ sec.list /\ S[p].key = sec.keys[1]
  <2>1. p # 1
    BY <1>10, <1>13
  <2>2. p \in 2 .. Len(S)
    BY <1>10, <2>1
  <2> QED BY <1>9, <1>13, <2>2
<1>14. ASSUME NEW a \in 1 .. Len(S), NEW p \in 1 .. Len(S), S[a].opens,
              S[p].place = S[a].place
       PROVE  a =< p /\ \A q \in a .. p : S[q].place = S[a].place
  <2>1. a \in 2 .. Len(S)
    BY <1>13, <1>14
  <2>2. PICK i, m : InPart(b, parts, F, a - 1, i, m) /\ m = 1 /\ S[a].place = <<svc, sec.name, i>>
    BY <1>9, <1>14, <2>1
  <2>3. i \in 1 .. n /\ a - 1 = b[i - 1] + 1
    BY <1>5, <2>2 DEF InPart
  <2>4. p # 1
    <3>1. i # 0
      BY <2>3
    <3> QED BY <1>10, <1>14, <2>2, <3>1
  <2>5. p \in 2 .. Len(S)
    BY <1>10, <2>4
  <2>6. ASSUME NEW q \in 2 .. Len(S)
        PROVE  \E k, l : InPart(b, parts, F, q - 1, k, l) /\ S[q].place = <<svc, sec.name, k>>
    BY <1>9
  <2>7. PICK l : InPart(b, parts, F, p - 1, i, l)
    <3>1. PICK k, l : InPart(b, parts, F, p - 1, k, l) /\ S[p].place = <<svc, sec.name, k>>
      BY <2>5, <2>6
    <3>2. k = i
      BY <1>14, <2>2, <3>1
    <3> QED BY <3>1, <3>2
  <2>8. b[i - 1] \in Nat /\ Len(parts[i]) \in Nat
    BY <1>5, <1>6, <2>3, FlatNumbers
  <2>9. a =< p
    <3>1. l \in 1 .. Len(parts[i]) /\ p - 1 = b[i - 1] + l
      BY <2>7 DEF InPart
    <3> QED BY <2>1, <2>3, <2>5, <2>8, <3>1
  <2>10. ASSUME NEW q \in a .. p PROVE S[q].place = S[a].place
    <3>1. q \in 2 .. Len(S) /\ a - 1 =< q - 1 /\ q - 1 =< p - 1
      BY <2>1, <2>5
    <3>2. PICK k, x : InPart(b, parts, F, q - 1, k, x) /\ S[q].place = <<svc, sec.name, k>>
      BY <2>6, <3>1
    <3>3. i =< k
      BY <1>6, <2>2, <3>1, <3>2, BlockOrder
    <3>4. k =< i
      BY <1>6, <2>7, <3>1, <3>2, BlockOrder
    <3>5. k \in 1 .. n
      BY <1>5, <3>2 DEF InPart
    <3>6. k = i
      BY <1>1, <2>3, <3>3, <3>4, <3>5
    <3> QED BY <2>2, <3>2, <3>6
  <2> QED BY <2>9, <2>10
<1>15. Together(S)
  BY <1>14 DEF Together
<1> QED BY <1>8, <1>10, <1>11, <1>12, <1>13, <1>15 DEF SectionLaid, S, T

(* Where the rows of a section open. *)
OwnRows(text, svc, sec) ==
  {a \in 1 .. Len(text) :
     text[a].opens /\ text[a].place[1] = svc /\ text[a].place[2] = sec}

(* A search for svc leads to s, one for sec from there to h, and from      *)
(* there to a there is nothing but the section.                            *)
Leads(text, svc, sec, s, h, a) ==
  /\ s < h /\ h < a /\ text[s].key = svc /\ text[h].key = sec
  /\ \A i \in 1 .. s - 1 : text[i].key # svc
  /\ \A i \in s .. h - 1 : text[i].key # sec
  /\ \A i \in h + 1 .. a : text[i].place[1] = svc /\ text[i].place[2] = sec

Laid(text, svc, sec, first) ==
  \A a \in OwnRows(text, svc, sec) :
    /\ text[a].key = first
    /\ \E s, h \in 1 .. Len(text) : Leads(text, svc, sec, s, h, a)
    /\ \A p \in 1 .. Len(text) :
         text[p].place = text[a].place =>
           a =< p /\ \A q \in a .. p : text[q].place = text[a].place

(* The text of a service, by its sections. *)
ServiceOf(text, N, svc, parts, F, b) ==
  /\ text \in Seq(Tok(N)) /\ Len(text) \in Nat /\ Len(text) >= 1
  /\ text[1].key = svc /\ text[1].opens = FALSE /\ text[1].place = <<svc, "none", 0>>
  /\ Flat(Tok(N), parts, F, b) /\ Len(parts) = Len(Published[svc])
  /\ Len(text) = Len(F) + 1 /\ Len(F) \in Nat
  /\ \A p \in 2 .. Len(text) : p - 1 \in 1 .. Len(F) /\ text[p] = F[p - 1]
  /\ \A i \in 1 .. Len(parts) : SectionLaid(parts[i], N, svc, Published[svc][i])
  /\ Len(Published[svc]) \in Nat
  /\ \A i \in 1 .. Len(parts) : SectionOK(Published[svc][i])

(* The text of a service comes in such parts. *)
LEMMA ServiceParts ==
  ASSUME NEW N, NEW svc \in ServiceNames \cap N, "none" \in N, NEW rows \in Nat, NEW owned,
         \A i \in 1 .. Len(Published[svc]) : SectionIn(Published[svc][i], N)
  PROVE  \E parts, F, b : ServiceOf(ServiceText(svc, rows, owned), N, svc, parts, F, b)
<1> DEFINE secs == Published[svc]
           n == Len(secs)
           parts == [i \in 1 .. n |-> SectionText(svc, secs[i], rows, owned)]
           h == Token(svc, FALSE, <<svc, "none", 0>>)
           F == FlattenSeq(parts)
           S == ServiceText(svc, rows, owned)
           T == Tok(N)
<1>1. SectionsOK(secs)
  BY PublishedIs
<1>2. n \in Nat /\ \A i \in 1 .. n : SectionOK(secs[i])
  <2> HIDE DEF secs
  <2> QED BY <1>1 DEF SectionsOK
<1>3. S = <<h>> \o F
  BY DEF ServiceText
<1>4. h \in T /\ h.key = svc /\ h.opens = FALSE /\ h.place = <<svc, "none", 0>>
  BY DEF Token, Tok
<1>5. ASSUME NEW i \in 1 .. n PROVE parts[i] \in Seq(T) /\ SectionLaid(parts[i], N, svc, secs[i])
  <2>1. parts[i] = SectionText(svc, secs[i], rows, owned)
    OBVIOUS
  <2>2. SectionLaid(parts[i], N, svc, secs[i])
    <3> HIDE DEF parts
    <3> QED BY <1>2, <2>1, SectionTextIs
  <2> QED BY <2>2 DEF SectionLaid
<1>6. parts \in Seq(Seq(T)) /\ Len(parts) = n
  <2>1. parts \in [1 .. n -> Seq(T)]
    <3>1. parts = [i \in 1 .. n |-> parts[i]]
      OBVIOUS
    <3> HIDE DEF parts, T, n
    <3> QED BY <1>5, <3>1
  <2> HIDE DEF parts, T, n
  <2> QED BY <1>2, <2>1
<1> HIDE DEF n, parts, h, S, T, secs
<1>7. PICK b : Flat(T, parts, F, b)
  <2>1. F \in Seq(T) /\ \E b : Blocks(b, parts, F)
    BY <1>6, Flattened
  <2> QED BY <1>6, <2>1 DEF Flat
<1>8. F \in Seq(T)
  BY <1>7 DEF Flat
<1> HIDE DEF F
<1>9. /\ S \in Seq(T) /\ Len(S) = Len(F) + 1 /\ Len(F) \in Nat
      /\ S[1] = h
      /\ \A p \in 2 .. Len(S) : p - 1 \in 1 .. Len(F) /\ S[p] = F[p - 1]
  BY <1>3, <1>4, <1>8, Headed
<1>10. S[1].key = svc /\ S[1].opens = FALSE /\ S[1].place = <<svc, "none", 0>>
       /\ Len(S) \in Nat /\ Len(S) >= 1
  BY <1>4, <1>9
<1> QED BY <1>2, <1>5, <1>6, <1>7, <1>9, <1>10 DEF S, T, n, secs, ServiceOf

(* A position of the text behind the name of the service. *)
LEMMA ServiceAt ==
  ASSUME NEW text, NEW N, NEW svc, NEW parts, NEW F, NEW b,
         ServiceOf(text, N, svc, parts, F, b), NEW p \in 2 .. Len(text)
  PROVE  text[p] = F[p - 1] /\ \E i, m : InPart(b, parts, F, p - 1, i, m)
<1>1. p - 1 \in 1 .. Len(F) /\ text[p] = F[p - 1] /\ Flat(Tok(N), parts, F, b)
  BY DEF ServiceOf
<1>2. PICK x \in 1 .. Len(F) : x = p - 1
  BY <1>1
<1>3. \E i, m : InPart(b, parts, F, x, i, m)
  BY <1>1, BlockOf
<1> QED BY <1>1, <1>2, <1>3

(* A row opens in one of the lists of the service only. *)
InList(token, svc) ==
  token.opens => \E y \in 1 .. Len(Published[svc]) :
                   Published[svc][y].list /\ Published[svc][y].name = token.place[2]

(* The name of a service is in its text once, at the beginning. *)
LEMMA ServicePlain ==
  ASSUME NEW text, NEW N, NEW svc, NEW parts, NEW F, NEW b,
         ServiceOf(text, N, svc, parts, F, b)
  PROVE  /\ \A p \in 1 .. Len(text) : text[p].place[1] = svc /\ InList(text[p], svc)
         /\ \A p \in 2 .. Len(text) : text[p].key \notin ServiceNames
<1>1. Len(text) \in Nat
  BY DEF ServiceOf
<1>2. ASSUME NEW p \in 2 .. Len(text)
      PROVE  text[p].place[1] = svc /\ InList(text[p], svc)
             /\ text[p].key \notin ServiceNames
  <2>1. PICK i, m : text[p] = F[p - 1] /\ InPart(b, parts, F, p - 1, i, m)
    BY ServiceAt
  <2>2. i \in 1 .. Len(parts) /\ m \in 1 .. Len(parts[i]) /\ text[p] = parts[i][m]
    BY <2>1 DEF InPart
  <2>3. SectionLaid(parts[i], N, svc, Published[svc][i]) /\ SectionOK(Published[svc][i])
    BY <2>2 DEF ServiceOf
  <2>4. PICK S, sec : S = parts[i] /\ sec = Published[svc][i]
    OBVIOUS
  <2>5. SectionLaid(S, N, svc, sec) /\ SectionOK(sec) /\ m \in 1 .. Len(S) /\ text[p] = S[m]
    BY <2>2, <2>3, <2>4
  <2>6. S[m].place[1] = svc
    BY <2>5 DEF SectionLaid
  <2>7. S[m].key \notin ServiceNames
    <3>1. CASE m = 1
      BY <2>5, <3>1 DEF SectionLaid, SectionOK, Reserved
    <3>2. CASE m # 1
      <4>1. m \in 2 .. Len(S)
        BY <2>5, <3>2
      <4>2. PICK l \in 1 .. Len(sec.keys) : S[m].key = sec.keys[l]
        BY <2>5, <4>1 DEF SectionLaid
      <4> QED BY <2>5, <4>2 DEF SectionOK, Keyless, Reserved
    <3> QED BY <3>1, <3>2
  <2>8. InList(S[m], svc)
    <3>1. ASSUME S[m].opens PROVE sec.list /\ sec.name = S[m].place[2]
      BY <2>5, <3>1 DEF SectionLaid
    <3>2. i \in 1 .. Len(Published[svc])
      BY <2>2 DEF ServiceOf
    <3> QED BY <2>4, <3>1, <3>2 DEF InList
  <2> QED BY <2>5, <2>6, <2>7, <2>8
<1>3. text[1].place[1] = svc /\ InList(text[1], svc)
  BY DEF ServiceOf, InList
<1> QED BY <1>1, <1>2, <1>3

(* Section k is the first with its name, and no key before it has it. *)
Sole(secs, k) ==
  /\ \A i \in 1 .. Len(secs) : secs[i].name = secs[k].name => i = k
  /\ \A i \in 1 .. k - 1 : \A l \in 1 .. Len(secs[i].keys) :
       secs[i].keys[l] # secs[k].name

(* In the text of its service, a section with a name of its own is laid    *)
(* out as the commands need it.                                            *)
LEMMA ServiceLaid ==
  ASSUME NEW text, NEW N, NEW svc \in ServiceNames, NEW parts, NEW F, NEW b,
         ServiceOf(text, N, svc, parts, F, b),
         NEW k \in 1 .. Len(Published[svc]), Sole(Published[svc], k)
  PROVE  Laid(text, svc, Published[svc][k].name, Published[svc][k].keys[1])
<1> DEFINE secs == Published[svc]
           sec == secs[k].name
           start == b[k - 1] + 1
<1>1. /\ Len(text) \in Nat /\ Len(parts) = Len(secs) /\ Flat(Tok(N), parts, F, b)
      /\ text[1].key = svc /\ text[1].opens = FALSE /\ text[1].place = <<svc, "none", 0>>
      /\ Len(text) = Len(F) + 1 /\ Len(F) \in Nat /\ Len(secs) \in Nat
      /\ \A i \in 1 .. Len(parts) : SectionLaid(parts[i], N, svc, secs[i])
      /\ \A i \in 1 .. Len(parts) : SectionOK(secs[i])
      /\ \A p \in 2 .. Len(text) : text[p] = F[p - 1]
  BY DEF ServiceOf
<1>2. /\ \A i \in 1 .. Len(secs) : secs[i].name = sec => i = k
      /\ \A i \in 1 .. k - 1 : \A l \in 1 .. Len(secs[i].keys) : secs[i].keys[l] # sec
      /\ sec # svc /\ sec # "none"
  BY <1>1 DEF Sole, SectionOK, Reserved
<1>3. b[k - 1] \in Nat /\ Len(parts[k]) \in Nat
  BY <1>1, FlatNumbers
<1> HIDE DEF secs, sec
<1>4. ASSUME NEW p \in 1 .. Len(text), p # 1
      PROVE  text[p] = F[p - 1] /\ \E i, m : InPart(b, parts, F, p - 1, i, m)
  <2>1. p \in 2 .. Len(text)
    BY <1>1, <1>4
  <2> QED BY <2>1, ServiceAt
<1>5. ASSUME NEW p \in 1 .. Len(text), p # 1, text[p].place[2] = sec
      PROVE  \E m \in 1 .. Len(parts[k]) : p = b[k - 1] + m + 1 /\ text[p] = parts[k][m]
  <2>1. PICK i, m : text[p] = F[p - 1] /\ InPart(b, parts, F, p - 1, i, m)
    BY <1>4, <1>5
  <2>2. /\ i \in 1 .. Len(parts) /\ m \in 1 .. Len(parts[i]) /\ p - 1 = b[i - 1] + m
        /\ text[p] = parts[i][m]
    BY <2>1 DEF InPart
  <2>3. secs[i].name = sec
    <3>1. SectionLaid(parts[i], N, svc, secs[i])
      BY <1>1, <2>2
    <3>2. parts[i][m].place[2] = secs[i].name
      BY <2>2, <3>1 DEF SectionLaid
    <3> QED BY <1>5, <2>2, <3>2
  <2>4. i = k
    BY <1>1, <1>2, <2>2, <2>3
  <2>5. PICK c \in Nat : c = b[k - 1]
    BY <1>3
  <2>6. m \in 1 .. Len(parts[k]) /\ p - 1 = c + m
    BY <2>2, <2>4, <2>5
  <2>7. p = c + m + 1
    BY <1>3, <2>6
  <2> QED BY <2>2, <2>4, <2>5, <2>6, <2>7
<1>6. ASSUME NEW m \in 1 .. Len(parts[k])
      PROVE  /\ b[k - 1] + m + 1 \in 1 .. Len(text)
             /\ text[b[k - 1] + m + 1] = parts[k][m]
  <2>1. k \in 1 .. Len(parts) /\ Flat(Tok(N), parts, F, b)
    BY <1>1 DEF secs
  <2>2. PICK x \in 1 .. Len(F) : InPart(b, parts, F, x, k, m)
    BY <2>1, BlockAt
  <2>3. x = b[k - 1] + m /\ F[x] = parts[k][m]
    BY <2>2 DEF InPart
  <2>4. x + 1 \in 1 .. Len(text) /\ x + 1 \in 2 .. Len(text) /\ (x + 1) - 1 = x
    BY <1>1
  <2>5. text[x + 1] = F[x]
    BY <1>1, <2>4
  <2> QED BY <2>3, <2>4, <2>5
<1>7. SectionLaid(parts[k], N, svc, secs[k])
  BY <1>1 DEF secs
<1>8. ASSUME NEW a \in OwnRows(text, svc, sec)
      PROVE  \E m \in 2 .. Len(parts[k]) :
               a = b[k - 1] + m + 1 /\ text[a] = parts[k][m] /\ parts[k][m].opens
  <2>1. a \in 1 .. Len(text) /\ text[a].opens /\ text[a].place[2] = sec
    BY DEF OwnRows
  <2>2. a # 1
    BY <1>1, <2>1
  <2>3. PICK m \in 1 .. Len(parts[k]) : a = b[k - 1] + m + 1 /\ text[a] = parts[k][m]
    BY <1>5, <2>1, <2>2
  <2>4. m # 1
    BY <1>7, <2>1, <2>3 DEF SectionLaid
  <2>5. m \in 2 .. Len(parts[k])
    BY <1>3, <2>4
  <2> QED BY <2>1, <2>3, <2>5
<1>9. ASSUME NEW i \in 1 .. b[k - 1] + 1 PROVE text[i].key # sec
  <2>1. CASE i = 1
    BY <1>1, <1>2, <2>1
  <2>2. CASE i # 1
    <3>1. 1 \in 1 .. Len(parts[k])
      BY <1>3, <1>7 DEF SectionLaid
    <3>2. b[k - 1] + 1 + 1 \in 1 .. Len(text)
      BY <1>6, <3>1
    <3>3. i \in 1 .. Len(text)
      BY <1>1, <1>3, <3>2
    <3>4. PICK x, m : text[i] = F[i - 1] /\ InPart(b, parts, F, i - 1, x, m)
      BY <1>4, <2>2, <3>3
    <3>5. /\ x \in 1 .. Len(parts) /\ m \in 1 .. Len(parts[x])
          /\ i - 1 = b[x - 1] + m /\ text[i] = parts[x][m]
      BY <3>4 DEF InPart
    <3>6. b[x - 1] \in Nat /\ Len(parts[x]) \in Nat
      BY <1>1, <3>5, FlatNumbers
    <3>7. PICK y \in 1 .. Len(F) : InPart(b, parts, F, y, k, 1)
      BY <1>1, <3>1, BlockAt DEF secs
    <3>8. x =< k
      <4>1. y = b[k - 1] + 1
        BY <3>7 DEF InPart
      <4>2. i - 1 =< y
        BY <1>3, <4>1
      <4> QED BY <1>1, <3>4, <3>7, <4>2, BlockOrder
    <3>9. x # k
      BY <1>3, <3>5, <3>6
    <3>10. x \in 1 .. k - 1 /\ x \in 1 .. Len(secs)
      BY <1>1, <3>5, <3>8, <3>9
    <3>11. secs[x].name # sec
      BY <1>2, <3>9, <3>10
    <3>12. SectionLaid(parts[x], N, svc, secs[x])
      BY <1>1, <3>5
    <3>13. CASE m = 1
      BY <3>5, <3>11, <3>12, <3>13 DEF SectionLaid
    <3>14. CASE m # 1
      <4>1. m \in 2 .. Len(parts[x])
        BY <3>5, <3>6, <3>14
      <4>2. PICK l \in 1 .. Len(secs[x].keys) : parts[x][m].key = secs[x].keys[l]
        BY <3>12, <4>1 DEF SectionLaid
      <4> QED BY <1>2, <3>5, <3>10, <4>2
    <3> QED BY <3>13, <3>14
  <2> QED BY <2>1, <2>2
<1>10. ASSUME NEW a \in OwnRows(text, svc, sec)
       PROVE  /\ text[a].key = secs[k].keys[1]
              /\ \E s, h \in 1 .. Len(text) : Leads(text, svc, sec, s, h, a)
              /\ \A p \in 1 .. Len(text) :
                   text[p].place = text[a].place =>
                     a =< p /\ \A q \in a .. p : text[q].place = text[a].place
  <2>1. PICK m \in 2 .. Len(parts[k]) :
               a = b[k - 1] + m + 1 /\ text[a] = parts[k][m] /\ parts[k][m].opens
    BY <1>8
  <2>2. PICK S : S = parts[k]
    OBVIOUS
  <2>3. PICK c \in Nat : c = b[k - 1] + 1
    BY <1>3
  <2>4. /\ m \in 2 .. Len(S) /\ m \in 1 .. Len(S) /\ 1 \in 1 .. Len(S) /\ Len(S) \in Nat
        /\ a = c + m /\ text[a] = S[m] /\ S[m].opens
    <3>1. Len(S) \in Nat /\ m \in 2 .. Len(S)
      BY <1>3, <2>2
    <3>2. m \in 1 .. Len(S) /\ 1 \in 1 .. Len(S)
      BY <3>1
    <3>3. b[k - 1] + m + 1 = c + m
      BY <1>3, <2>3
    <3> QED BY <2>1, <2>2, <3>1, <3>2, <3>3
  <2>5. ASSUME NEW x \in 1 .. Len(S) PROVE c + x \in 1 .. Len(text) /\ text[c + x] = S[x]
    <3>1. x \in 1 .. Len(parts[k])
      BY <2>2
    <3>2. b[k - 1] + x + 1 \in 1 .. Len(text) /\ text[b[k - 1] + x + 1] = parts[k][x]
      BY <1>6, <3>1
    <3>3. b[k - 1] + x + 1 = c + x
      BY <1>3, <2>3
    <3> QED BY <2>2, <3>2, <3>3
  <2>6. /\ S[1].key = sec
        /\ \A p \in 1 .. Len(S) : S[p].place[1] = svc /\ S[p].place[2] = sec
        /\ S[m].key = secs[k].keys[1]
        /\ \A p \in 1 .. Len(S) :
              S[p].place = S[m].place => m =< p /\ \A q \in m .. p : S[q].place = S[m].place
    BY <1>7, <2>2, <2>4 DEF SectionLaid, Together, sec
  <2>7. Leads(text, svc, sec, 1, c + 1, a)
    <3>1. 1 < c + 1 /\ c + 1 < a
      BY <1>3, <2>3, <2>4
    <3>2. text[1].key = svc /\ text[c + 1].key = sec
      BY <1>1, <2>4, <2>5, <2>6
    <3>3. \A i \in 1 .. 1 - 1 : text[i].key # svc
      OBVIOUS
    <3>4. \A i \in 1 .. (c + 1) - 1 : text[i].key # sec
      BY <1>9, <2>3
    <3>5. ASSUME NEW i \in (c + 1) + 1 .. a PROVE text[i].place[1] = svc /\ text[i].place[2] = sec
      <4>1. i - c \in 1 .. Len(S) /\ c + (i - c) = i
        BY <2>4
      <4>2. PICK x \in 1 .. Len(S) : c + x = i
        BY <4>1
      <4>3. text[i] = S[x]
        BY <2>5, <4>2
      <4> QED BY <2>6, <4>3
    <3> QED BY <3>1, <3>2, <3>3, <3>4, <3>5 DEF Leads
  <2>8. 1 \in 1 .. Len(text) /\ c + 1 \in 1 .. Len(text)
    BY <1>1, <2>4, <2>5
  <2>9. ASSUME NEW p \in 1 .. Len(text), text[p].place = text[a].place
        PROVE  a =< p /\ \A q \in a .. p : text[q].place = text[a].place
    <3>1. text[p].place[2] = sec
      BY <2>4, <2>6, <2>9
    <3>2. p # 1
      BY <1>1, <1>2, <3>1
    <3>3. PICK x \in 1 .. Len(S) : p = c + x /\ text[p] = S[x]
      <4>1. PICK x \in 1 .. Len(parts[k]) : p = b[k - 1] + x + 1 /\ text[p] = parts[k][x]
        BY <1>5, <3>1, <3>2
      <4>2. b[k - 1] + x + 1 = c + x
        BY <1>3, <2>3
      <4> QED BY <2>2, <4>1, <4>2
    <3>4. m =< x /\ \A q \in m .. x : S[q].place = S[m].place
      BY <2>4, <2>6, <2>9, <3>3
    <3>5. ASSUME NEW q \in a .. p PROVE text[q].place = text[a].place
      <4>1. q - c \in m .. x /\ q - c \in 1 .. Len(S) /\ c + (q - c) = q
        BY <2>4, <3>3, <3>4
      <4>2. text[q] = S[q - c]
        BY <2>5, <4>1
      <4> QED BY <2>4, <3>4, <4>1, <4>2
    <3>6. a =< p
      BY <2>4, <3>3, <3>4
    <3> QED BY <3>5, <3>6
  <2> QED BY <2>4, <2>6, <2>7, <2>8, <2>9
<1> QED BY <1>10 DEF Laid, sec, secs

(* All names that occur. *)
Names ==
  Reserved \cup
  UNION {UNION {{Published[svc][i].name} \cup ToSet(Published[svc][i].keys)
                : i \in 1 .. Len(Published[svc])} : svc \in ServiceNames}

(* They are the names of the services and the sections. *)
LEMMA NamesHold ==
  /\ "none" \in Names
  /\ \A svc \in ServiceNames :
       svc \in Names /\ \A i \in 1 .. Len(Published[svc]) : SectionIn(Published[svc][i], Names)
<1>1. "none" \in Names /\ \A svc \in ServiceNames : svc \in Names
  BY DEF Names, Reserved
<1>2. ASSUME NEW svc \in ServiceNames, NEW i \in 1 .. Len(Published[svc])
      PROVE  SectionIn(Published[svc][i], Names)
  <2> DEFINE U(v) == UNION {{Published[v][x].name} \cup ToSet(Published[v][x].keys)
                            : x \in 1 .. Len(Published[v])}
  <2>1. Published[svc][i].name \in U(svc) /\ ToSet(Published[svc][i].keys) \subseteq U(svc)
    OBVIOUS
  <2>2. U(svc) \subseteq Names
    <3> HIDE DEF U
    <3>1. Names = Reserved \cup UNION {U(v) : v \in ServiceNames}
      BY DEF Names, U
    <3> QED BY <3>1
  <2> HIDE DEF U
  <2> QED BY <2>1, <2>2 DEF SectionIn
<1> QED BY <1>1, <1>2

(* The text of the snapshot, by its services. *)
ServicePart(text, svc) ==
  /\ text \in Seq(Tok(Names)) /\ Len(text) \in Nat
  /\ text[1].key = svc
  /\ \A p \in 1 .. Len(text) : text[p].place[1] = svc /\ InList(text[p], svc)
  /\ \A p \in 2 .. Len(text) : text[p].key \notin ServiceNames
  /\ \A k \in 1 .. Len(Published[svc]) :
       Sole(Published[svc], k) =>
         Laid(text, svc, Published[svc][k].name, Published[svc][k].keys[1])

(* The text of a service is such a part. *)
LEMMA ServiceTextIs ==
  ASSUME NEW svc \in ServiceNames, NEW rows \in Nat, NEW owned
  PROVE  ServicePart(ServiceText(svc, rows, owned), svc)
<1>1. PICK text : text = ServiceText(svc, rows, owned)
  OBVIOUS
<1>2. PICK parts, F, b : ServiceOf(text, Names, svc, parts, F, b)
  <2>1. "none" \in Names /\ svc \in ServiceNames \cap Names
        /\ \A i \in 1 .. Len(Published[svc]) : SectionIn(Published[svc][i], Names)
    BY NamesHold
  <2> QED BY <1>1, <2>1, ServiceParts
<1>3. text \in Seq(Tok(Names)) /\ Len(text) \in Nat /\ text[1].key = svc
  BY <1>2 DEF ServiceOf
<1>4. /\ \A p \in 1 .. Len(text) : text[p].place[1] = svc /\ InList(text[p], svc)
      /\ \A p \in 2 .. Len(text) : text[p].key \notin ServiceNames
  BY <1>2, ServicePlain
<1>5. ASSUME NEW k \in 1 .. Len(Published[svc]), Sole(Published[svc], k)
      PROVE  Laid(text, svc, Published[svc][k].name, Published[svc][k].keys[1])
  BY <1>2, <1>5, ServiceLaid
<1> QED BY <1>1, <1>3, <1>4, <1>5 DEF ServicePart

(* What the text of a snapshot is like, cut off or not. *)
GoodText(X) ==
  /\ X \in Seq(Tok(Names))
  /\ \A p \in 1 .. Len(X) : X[p].place[1] \in ServiceNames /\ InList(X[p], X[p].place[1])
  /\ \A svc \in ServiceNames : \A y \in 1 .. Len(Published[svc]) :
       Sole(Published[svc], y) =>
         Laid(X, svc, Published[svc][y].name, Published[svc][y].keys[1])

(* A snapshot of several services, in any order, each at most once. *)
LEMMA SnapshotLaid ==
  ASSUME NEW order \in Seq(ServiceNames), NEW rows \in Nat, NEW owned,
         \A i, k \in 1 .. Len(order) : order[i] = order[k] => i = k
  PROVE  GoodText(SnapshotText(order, rows, owned))
<1> DEFINE n == Len(order)
           parts == [k \in 1 .. n |-> ServiceText(order[k], rows, owned)]
           X == SnapshotText(order, rows, owned)
           T == Tok(Names)
<1>1. n \in Nat /\ \A k \in 1 .. n : order[k] \in ServiceNames
  OBVIOUS
<1>2. X = FlattenSeq(parts)
  BY DEF SnapshotText
<1>3. ASSUME NEW k \in 1 .. n PROVE parts[k] \in Seq(T) /\ ServicePart(parts[k], order[k])
  <2>1. parts[k] = ServiceText(order[k], rows, owned)
    OBVIOUS
  <2>2. ServicePart(parts[k], order[k])
    <3> HIDE DEF parts, n
    <3> QED BY <1>1, <2>1, ServiceTextIs
  <2> QED BY <2>2 DEF ServicePart
<1>4. parts \in Seq(Seq(T)) /\ Len(parts) = n
  <2>1. parts \in [1 .. n -> Seq(T)]
    <3>1. parts = [i \in 1 .. n |-> parts[i]]
      OBVIOUS
    <3> HIDE DEF parts, T, n
    <3> QED BY <1>3, <3>1
  <2> HIDE DEF parts, T, n
  <2> QED BY <1>1, <2>1
<1>5. \A i, k \in 1 .. n : order[i] = order[k] => i = k
  OBVIOUS
<1> HIDE DEF n, parts, X, T
<1>6. PICK b : Flat(T, parts, X, b)
  <2>1. X \in Seq(T) /\ \E b : Blocks(b, parts, X)
    BY <1>2, <1>4, Flattened
  <2> QED BY <1>4, <2>1 DEF Flat
<1>7. X \in Seq(T) /\ Len(X) \in Nat
  BY <1>6 DEF Flat
<1>8. ASSUME NEW p \in 1 .. Len(X)
      PROVE  \E k, m : /\ InPart(b, parts, X, p, k, m) /\ k \in 1 .. n /\ m \in 1 .. Len(parts[k])
                       /\ p = b[k - 1] + m /\ X[p] = parts[k][m]
                       /\ X[p].place[1] = order[k]
                       /\ b[k - 1] \in Nat /\ Len(parts[k]) \in Nat
  <2>1. PICK k, m : InPart(b, parts, X, p, k, m)
    BY <1>6, BlockOf
  <2>2. k \in 1 .. n /\ m \in 1 .. Len(parts[k]) /\ p = b[k - 1] + m /\ X[p] = parts[k][m]
    BY <1>4, <2>1 DEF InPart
  <2>3. parts[k][m].place[1] = order[k]
    BY <1>3, <2>2 DEF ServicePart
  <2>4. b[k - 1] \in Nat /\ Len(parts[k]) \in Nat
    BY <1>4, <1>6, <2>2, FlatNumbers
  <2> QED BY <2>1, <2>2, <2>3, <2>4
<1>11. ASSUME NEW p \in 1 .. Len(X)
       PROVE  X[p].place[1] \in ServiceNames /\ InList(X[p], X[p].place[1])
  <2>1. PICK k, m : /\ InPart(b, parts, X, p, k, m) /\ k \in 1 .. n /\ m \in 1 .. Len(parts[k])
                    /\ p = b[k - 1] + m /\ X[p] = parts[k][m]
                    /\ X[p].place[1] = order[k]
                    /\ b[k - 1] \in Nat /\ Len(parts[k]) \in Nat
    BY <1>8
  <2>2. InList(parts[k][m], order[k])
    BY <1>3, <2>1 DEF ServicePart
  <2> QED BY <1>1, <2>1, <2>2
<1>9. ASSUME NEW k \in 1 .. n, NEW m \in 1 .. Len(parts[k])
      PROVE  b[k - 1] + m \in 1 .. Len(X) /\ X[b[k - 1] + m] = parts[k][m]
             /\ InPart(b, parts, X, b[k - 1] + m, k, m)
  <2>1. PICK p \in 1 .. Len(X) : InPart(b, parts, X, p, k, m)
    BY <1>4, <1>6, BlockAt
  <2> QED BY <2>1 DEF InPart
<1>10. ASSUME NEW svc \in ServiceNames, NEW y \in 1 .. Len(Published[svc]),
              Sole(Published[svc], y)
       PROVE  Laid(X, svc, Published[svc][y].name, Published[svc][y].keys[1])
  <2> DEFINE sec == Published[svc][y].name
             first == Published[svc][y].keys[1]
  <2> HIDE DEF sec, first
  <2>1. ASSUME NEW a \in OwnRows(X, svc, sec)
        PROVE  /\ X[a].key = first
               /\ \E s, h \in 1 .. Len(X) : Leads(X, svc, sec, s, h, a)
               /\ \A p \in 1 .. Len(X) :
                    X[p].place = X[a].place =>
                      a =< p /\ \A q \in a .. p : X[q].place = X[a].place
    <3>1. a \in 1 .. Len(X) /\ X[a].opens /\ X[a].place[1] = svc /\ X[a].place[2] = sec
      BY DEF OwnRows
    <3>2. PICK k, m : /\ InPart(b, parts, X, a, k, m) /\ k \in 1 .. n /\ m \in 1 .. Len(parts[k])
                      /\ a = b[k - 1] + m /\ X[a] = parts[k][m]
                      /\ X[a].place[1] = order[k]
                      /\ b[k - 1] \in Nat /\ Len(parts[k]) \in Nat
      BY <1>8, <3>1
    <3>0. PICK t : t = parts[k]
      OBVIOUS
    <3>3. PICK c \in Nat : t = parts[k] /\ c = b[k - 1]
      BY <3>0, <3>2
    <3>4. order[k] = svc
      BY <3>1, <3>2
    <3>5. Laid(t, svc, sec, first) /\ m \in OwnRows(t, svc, sec) /\ Len(t) \in Nat
      <4>1. Laid(t, svc, sec, first)
        BY <1>3, <1>10, <3>2, <3>3, <3>4 DEF ServicePart, sec, first
      <4>2. m \in OwnRows(t, svc, sec)
        BY <3>1, <3>2, <3>3 DEF OwnRows
      <4> QED BY <3>2, <3>3, <4>1, <4>2
    <3>6. ASSUME NEW x \in 1 .. Len(t)
          PROVE  c + x \in 1 .. Len(X) /\ X[c + x] = t[x] /\ InPart(b, parts, X, c + x, k, x)
      BY <1>9, <3>2, <3>3
    <3>7. PICK s \in 1 .. Len(t), h \in 1 .. Len(t) : Leads(t, svc, sec, s, h, m)
      BY <3>5 DEF Laid
    <3>8. /\ s < h /\ h < m /\ t[s].key = svc /\ t[h].key = sec
          /\ \A i \in 1 .. s - 1 : t[i].key # svc
          /\ \A i \in s .. h - 1 : t[i].key # sec
          /\ \A i \in h + 1 .. m : t[i].place[1] = svc /\ t[i].place[2] = sec
      BY <3>7 DEF Leads
    <3>9. a = c + m /\ X[a] = t[m] /\ m \in 1 .. Len(t)
      BY <3>2, <3>3
    <3>10. ASSUME NEW i \in 1 .. (c + s) - 1 PROVE X[i].key # svc
      <4>1. c + s \in 1 .. Len(X) /\ InPart(b, parts, X, c + s, k, s)
        BY <3>6
      <4>2. i \in 1 .. Len(X) /\ i =< c + s
        BY <1>7, <4>1
      <4>3. PICK l, x : /\ InPart(b, parts, X, i, l, x) /\ l \in 1 .. n /\ x \in 1 .. Len(parts[l])
                        /\ i = b[l - 1] + x /\ X[i] = parts[l][x]
                        /\ b[l - 1] \in Nat /\ Len(parts[l]) \in Nat
        BY <1>8, <4>2
      <4>4. l =< k
        BY <1>6, <4>1, <4>2, <4>3, BlockOrder
      <4>5. CASE l = k
        <5>1. i = c + x /\ X[i] = t[x] /\ x \in 1 .. Len(t)
          BY <3>3, <4>3, <4>5
        <5>2. x \in 1 .. s - 1
          BY <3>5, <5>1
        <5> QED BY <3>8, <5>1, <5>2
      <4>6. CASE l # k
        <5>1. order[l] # svc /\ order[l] \in ServiceNames
          BY <1>1, <1>5, <3>2, <3>4, <4>3, <4>6
        <5>2. ServicePart(parts[l], order[l])
          BY <1>3, <4>3
        <5>3. CASE x = 1
          BY <4>3, <5>1, <5>2, <5>3 DEF ServicePart
        <5>4. CASE x # 1
          <6>1. x \in 2 .. Len(parts[l])
            BY <4>3, <5>4
          <6> QED BY <4>3, <5>2, <6>1 DEF ServicePart
        <5> QED BY <5>3, <5>4
      <4> QED BY <4>5, <4>6
    <3>11. Leads(X, svc, sec, c + s, c + h, a)
      <4>1. c + s < c + h /\ c + h < a
        BY <3>5, <3>8, <3>9
      <4>2. X[c + s].key = svc /\ X[c + h].key = sec
        BY <3>6, <3>8
      <4>3. ASSUME NEW i \in c + s .. (c + h) - 1 PROVE X[i].key # sec
        <5>1. PICK x \in 1 .. Len(t) : x \in s .. h - 1 /\ c + x = i
          <6>1. i - c \in s .. h - 1 /\ i - c \in 1 .. Len(t) /\ c + (i - c) = i
            BY <3>5
          <6> QED BY <6>1
        <5> QED BY <3>6, <3>8, <5>1
      <4>4. ASSUME NEW i \in (c + h) + 1 .. a PROVE X[i].place[1] = svc /\ X[i].place[2] = sec
        <5>1. PICK x \in 1 .. Len(t) : x \in h + 1 .. m /\ c + x = i
          <6>1. i - c \in h + 1 .. m /\ i - c \in 1 .. Len(t) /\ c + (i - c) = i
            BY <3>5, <3>9
          <6> QED BY <6>1
        <5>2. X[i] = t[x]
          BY <3>6, <5>1
        <5> QED BY <3>8, <5>1, <5>2
      <4> QED BY <3>10, <4>1, <4>2, <4>3, <4>4 DEF Leads
    <3>12. c + s \in 1 .. Len(X) /\ c + h \in 1 .. Len(X)
      BY <3>6
    <3>13. X[a].key = first
      BY <3>5, <3>9 DEF Laid
    <3>14. ASSUME NEW p \in 1 .. Len(X), X[p].place = X[a].place
           PROVE  a =< p /\ \A q \in a .. p : X[q].place = X[a].place
      <4>1. PICK l, x : /\ l \in 1 .. n /\ x \in 1 .. Len(parts[l])
                        /\ p = b[l - 1] + x /\ X[p] = parts[l][x]
                        /\ X[p].place[1] = order[l]
        <5>1. PICK l, x : /\ InPart(b, parts, X, p, l, x) /\ l \in 1 .. n /\ x \in 1 .. Len(parts[l])
                          /\ p = b[l - 1] + x /\ X[p] = parts[l][x]
                          /\ X[p].place[1] = order[l]
                          /\ b[l - 1] \in Nat /\ Len(parts[l]) \in Nat
          BY <1>8
        <5> QED BY <5>1
      <4>2. l = k
        <5>1. X[p].place[1] = svc
          BY <3>1, <3>14
        <5>2. order[l] = order[k] /\ l \in 1 .. n /\ k \in 1 .. n
          BY <3>2, <3>4, <4>1, <5>1
        <5> QED BY <1>5, <5>2
      <4>3. p = c + x /\ X[p] = t[x] /\ x \in 1 .. Len(t)
        BY <3>3, <4>1, <4>2
      <4>4. m =< x /\ \A q \in m .. x : t[q].place = t[m].place
        BY <3>5, <3>9, <3>14, <4>3 DEF Laid
      <4>5. a =< p
        BY <3>5, <3>9, <4>3, <4>4
      <4>6. ASSUME NEW q \in a .. p PROVE X[q].place = X[a].place
        <5>1. PICK z \in 1 .. Len(t) : z \in m .. x /\ c + z = q
          <6>1. q - c \in m .. x /\ q - c \in 1 .. Len(t) /\ c + (q - c) = q
            BY <3>5, <3>9, <4>3, <4>4
          <6> QED BY <6>1
        <5> QED BY <3>6, <3>9, <4>4, <5>1
      <4> QED BY <4>5, <4>6
    <3> QED BY <3>11, <3>12, <3>13, <3>14
  <2> QED BY <2>1 DEF Laid, sec, first
<1> QED BY <1>7, <1>10, <1>11 DEF X, T, GoodText
-----------------------------------------------------------------------------
(* What a text keeps when its end is cut off. *)
LEMMA LaidCut ==
  ASSUME NEW T, NEW X \in Seq(T), NEW end \in 0 .. Len(X), NEW svc, NEW sec, NEW first,
         Laid(X, svc, sec, first)
  PROVE  Laid(SubSeq(X, 1, end), svc, sec, first)
<1>1. PICK text : text = SubSeq(X, 1, end)
  OBVIOUS
<1>2. Len(X) \in Nat /\ Len(text) = end /\ \A i \in 1 .. end : text[i] = X[i]
  BY <1>1
<1>3. ASSUME NEW a \in OwnRows(text, svc, sec)
      PROVE  /\ text[a].key = first
             /\ \E s, h \in 1 .. Len(text) : Leads(text, svc, sec, s, h, a)
             /\ \A p \in 1 .. Len(text) :
                  text[p].place = text[a].place =>
                    a =< p /\ \A q \in a .. p : text[q].place = text[a].place
  <2>1. a \in 1 .. end /\ a \in OwnRows(X, svc, sec) /\ text[a] = X[a]
    BY <1>2 DEF OwnRows
  <2>2. X[a].key = first
    BY <2>1 DEF Laid
  <2>3. PICK s \in 1 .. Len(X), h \in 1 .. Len(X) : Leads(X, svc, sec, s, h, a)
    BY <2>1 DEF Laid
  <2>4. s \in 1 .. end /\ h \in 1 .. end /\ Leads(text, svc, sec, s, h, a)
    <3>1. /\ s < h /\ h < a /\ X[s].key = svc /\ X[h].key = sec
          /\ \A i \in 1 .. s - 1 : X[i].key # svc
          /\ \A i \in s .. h - 1 : X[i].key # sec
          /\ \A i \in h + 1 .. a : X[i].place[1] = svc /\ X[i].place[2] = sec
      BY <2>3 DEF Leads
    <3>2. s \in 1 .. end /\ h \in 1 .. end
      BY <1>2, <2>1, <3>1
    <3>3. ASSUME NEW i \in 1 .. s - 1 PROVE text[i].key # svc
      <4>1. i \in 1 .. end
        BY <3>2
      <4> QED BY <1>2, <3>1, <4>1
    <3>4. ASSUME NEW i \in s .. h - 1 PROVE text[i].key # sec
      <4>1. i \in 1 .. end
        BY <3>2
      <4> QED BY <1>2, <3>1, <4>1
    <3>5. ASSUME NEW i \in h + 1 .. a PROVE text[i].place[1] = svc /\ text[i].place[2] = sec
      <4>1. i \in 1 .. end
        BY <2>1, <3>2
      <4> QED BY <1>2, <3>1, <4>1
    <3>6. text[s].key = svc /\ text[h].key = sec
      BY <1>2, <3>1, <3>2
    <3> QED BY <3>1, <3>2, <3>3, <3>4, <3>5, <3>6 DEF Leads
  <2>5. ASSUME NEW p \in 1 .. end, text[p].place = text[a].place
        PROVE  a =< p /\ \A q \in a .. p : text[q].place = text[a].place
    <3>1. p \in 1 .. Len(X) /\ X[p].place = X[a].place
      BY <1>2, <2>1, <2>5
    <3>2. a =< p /\ \A q \in a .. p : X[q].place = X[a].place
      BY <2>1, <3>1 DEF Laid
    <3> QED BY <1>2, <2>1, <3>2
  <2> QED BY <1>2, <2>1, <2>2, <2>4, <2>5
<1>4. Laid(text, svc, sec, first)
  BY <1>3 DEF Laid
<1> QED BY <1>1, <1>4

(* A path of two keys, searched one after the other. *)
LEMMA DescendTwo ==
  ASSUME NEW text, NEW a, NEW b
  PROVE  Descend(text, <<a, b>>) = FindKey(text, FindKey(text, 1, a), b)
<1> DEFINE Reads(f, path) ==
             f = [T \in SUBSET (1 .. 2) |->
                    IF T = {} THEN 1 ELSE FindKey(text, f[T \ {Max(T)}], path[Max(T)])]
<1>1. PICK path : path = <<a, b>>
  OBVIOUS
<1>2. Len(path) = 2 /\ path[1] = a /\ path[2] = b /\ DOMAIN path = 1 .. 2
  BY <1>1
<1>3. Max({1}) = 1 /\ Max({2}) = 2 /\ Max({1, 2}) = 2
  <2>1. \A x \in {1} : Max({1}) \in {1}
    BY MaxIsGreatest
  <2>2. Max({2}) \in {2}
    BY MaxIsGreatest
  <2>3. Max({1, 2}) \in {1, 2} /\ \A x \in {1, 2} : x =< Max({1, 2})
    BY MaxIsGreatest
  <2> QED BY <2>1, <2>2, <2>3
<1>4. SUBSET (1 .. 2) = {{}, {1}, {2}, {1, 2}}
  <2>1. 1 .. 2 = {1, 2}
    OBVIOUS
  <2>2. \A T : T \in SUBSET {1, 2} <=> T \in {{}, {1}, {2}, {1, 2}}
    OBVIOUS
  <2> QED BY <2>1, <2>2
<1>5. \E f : Reads(f, path)
  <2> DEFINE g == [T \in SUBSET (1 .. 2) |->
                     IF T = {} THEN 1
                     ELSE IF T = {1} THEN FindKey(text, 1, a)
                     ELSE IF T = {2} THEN FindKey(text, 1, b)
                     ELSE FindKey(text, FindKey(text, 1, a), b)]
  <2>1. g[{}] = 1 /\ g[{1}] = FindKey(text, 1, a)
    BY <1>4
  <2>2. ASSUME NEW T \in SUBSET (1 .. 2)
        PROVE  g[T] = IF T = {} THEN 1 ELSE FindKey(text, g[T \ {Max(T)}], path[Max(T)])
    <3>1. CASE T = {}
      BY <2>1, <3>1
    <3>2. CASE T = {1}
      <4>1. T \ {Max(T)} = {}
        BY <1>3, <3>2
      <4> QED BY <1>2, <1>3, <2>1, <3>2, <4>1
    <3>3. CASE T = {2}
      <4>1. T \ {Max(T)} = {}
        BY <1>3, <3>3
      <4>2. g[T] = FindKey(text, 1, b)
        BY <3>3
      <4> HIDE DEF g
      <4> QED BY <1>2, <1>3, <2>1, <3>3, <4>1, <4>2
    <3>4. CASE T = {1, 2}
      <4>1. T \ {Max(T)} = {1}
        BY <1>3, <3>4
      <4>2. g[T] = FindKey(text, FindKey(text, 1, a), b)
        BY <3>4
      <4> HIDE DEF g
      <4> QED BY <1>2, <1>3, <2>1, <3>4, <4>1, <4>2
    <3> QED BY <1>4, <3>1, <3>2, <3>3, <3>4
  <2>3. g = [T \in SUBSET (1 .. 2) |-> g[T]]
    OBVIOUS
  <2>4. Reads(g, path)
    <3> HIDE DEF g
    <3> QED BY <2>2, <2>3
  <2> QED BY <2>4
<1>6. PICK f : Reads(f, path) /\ Descend(text, path) = f[1 .. 2]
  <2>1. Descend(text, path) = (CHOOSE f : Reads(f, path))[1 .. 2]
    BY <1>2 DEF Descend, FoldLeft, MapThenFoldSet
  <2> HIDE DEF Reads
  <2> QED BY <1>5, <2>1
<1>7. 1 .. 2 = {1, 2} /\ {1, 2} \ {2} = {1} /\ {1} \ {1} = {} /\ {1, 2} # {} /\ {1} # {}
  OBVIOUS
<1>8. f[{1, 2}] = FindKey(text, f[{1}], b) /\ f[{1}] = FindKey(text, f[{}], a) /\ f[{}] = 1
  <2>1. ASSUME NEW T \in SUBSET (1 .. 2)
        PROVE  f[T] = IF T = {} THEN 1 ELSE FindKey(text, f[T \ {Max(T)}], path[Max(T)])
    BY <1>6
  <2>2. f[{}] = 1
    BY <2>1
  <2>3. f[{1}] = FindKey(text, f[{1} \ {Max({1})}], path[Max({1})])
    BY <1>4, <1>7, <2>1
  <2>4. f[{1, 2}] = FindKey(text, f[{1, 2} \ {Max({1, 2})}], path[Max({1, 2})])
    BY <1>4, <1>7, <2>1
  <2> QED BY <1>2, <1>3, <1>7, <2>2, <2>3, <2>4
<1> QED BY <1>1, <1>6, <1>7, <1>8

(* A search finds the first match. *)
LEMMA FindKeyIs ==
  ASSUME NEW text, Len(text) \in Nat, NEW from \in 1 .. Len(text), NEW key
  PROVE  /\ FindKey(text, from, key) \in 0 .. Len(text)
         /\ FindKey(text, from, key) # 0 =>
              /\ FindKey(text, from, key) \in from .. Len(text)
              /\ text[FindKey(text, from, key)].key = key
         /\ \A i \in from .. Len(text) :
              text[i].key = key => FindKey(text, from, key) # 0 /\ FindKey(text, from, key) =< i
<1> DEFINE at == {i \in from .. Len(text) : text[i].key = key}
<1>1. FindKey(text, from, key) = IF at = {} THEN 0 ELSE Min(at)
  BY DEF FindKey
<1>2. CASE at = {}
  BY <1>1, <1>2
<1>3. CASE at # {}
  <2>1. at \in SUBSET Nat
    OBVIOUS
  <2>2. Min(at) \in at /\ \A x \in at : Min(at) =< x
    <3> HIDE DEF at
    <3> QED BY <1>3, <2>1, MinIsLeast
  <2>3. PICK m \in at : m = Min(at) /\ \A x \in at : m =< x
    BY <2>2
  <2>4. FindKey(text, from, key) = m
    BY <1>1, <1>3, <2>3
  <2>5. m \in from .. Len(text) /\ text[m].key = key /\ m \in 0 .. Len(text) /\ m # 0
    BY <2>3
  <2>6. \A i \in from .. Len(text) : text[i].key = key => m =< i
    BY <2>3
  <2> QED BY <2>4, <2>5, <2>6
<1> QED BY <1>2, <1>3

(* A match that no other precedes is what is found. *)
LEMMA FindKeyLeast ==
  ASSUME NEW text, Len(text) \in Nat, NEW from \in 1 .. Len(text), NEW key,
         NEW x \in from .. Len(text), text[x].key = key,
         \A i \in from .. x - 1 : text[i].key # key
  PROVE  FindKey(text, from, key) = x
<1>1. PICK m : m = FindKey(text, from, key)
  OBVIOUS
<1>2. m # 0 /\ m =< x /\ m \in from .. Len(text) /\ text[m].key = key
  BY <1>1, FindKeyIs
<1> QED BY <1>1, <1>2

(* The number of rows shown: at most all, and not fewer when there are more. *)
LEMMA UpToIs ==
  ASSUME NEW limit \in Nat, NEW n \in Nat, NEW m \in Nat, n =< m
  PROVE  /\ UpTo(limit, n) \in Nat /\ UpTo(limit, n) =< n
         /\ UpTo(limit, n) =< UpTo(limit, m)
<1>1. ASSUME NEW x \in Nat
      PROVE  Min({limit, x}) \in {limit, x} /\ \A y \in {limit, x} : Min({limit, x}) =< y
  BY MinIsLeast
<1>2. PICK p \in Nat, q \in Nat : p = Min({limit, n}) /\ q = Min({limit, m})
  BY <1>1
<1>3. p =< n /\ p =< q
  BY <1>1, <1>2
<1> QED BY <1>2, <1>3 DEF UpTo

(* The rows of a section are what the loop over its rows finds first. *)
LEMMA RowsFound ==
  ASSUME NEW text, Len(text) \in Nat, NEW svc, NEW sec, NEW first, Laid(text, svc, sec, first),
         NEW limit \in Nat, NEW k \in 1 .. UpTo(limit, Cardinality(OwnRows(text, svc, sec)))
  PROVE  LET found == RowStarts(text, Descend(text, <<svc, sec>>), first, limit)
             own == Ascending(OwnRows(text, svc, sec))
         IN  /\ Len(found) \in Nat /\ k =< Len(found) /\ found[k] = own[k]
             /\ own[k] \in OwnRows(text, svc, sec)
<1> DEFINE S == OwnRows(text, svc, sec)
           h == Descend(text, <<svc, sec>>)
           A == {i \in h + 1 .. Len(text) : text[i].opens /\ text[i].key = first}
<1>1. S \in SUBSET Nat /\ IsFiniteSet(S)
  <2>1. S \subseteq 1 .. Len(text)
    BY DEF OwnRows
  <2>2. IsFiniteSet(1 .. Len(text))
    BY FS_Interval
  <2>3. IsFiniteSet(S)
    <3> HIDE DEF S
    <3> QED BY <2>1, <2>2, FS_Subset
  <2>4. S \in SUBSET Nat
    <3> HIDE DEF S
    <3> QED BY <2>1
  <2> QED BY <2>3, <2>4
<1> HIDE DEF S
<1>2. Cardinality(S) \in Nat /\ k \in Nat /\ k >= 1 /\ k =< Cardinality(S)
  <2>1. PICK n \in Nat : n = Cardinality(S)
    BY <1>1, FS_CardinalityType
  <2>2. UpTo(limit, n) \in Nat /\ UpTo(limit, n) =< n /\ k \in 1 .. UpTo(limit, n)
    BY <2>1, UpToIs DEF S
  <2> QED BY <2>1, <2>2
<1>3. ASSUME NEW a \in S
      PROVE  /\ h < a /\ h \in 1 .. Len(text)
             /\ Leads(text, svc, sec, FindKey(text, 1, svc), h, a)
  <2>1. PICK s \in 1 .. Len(text), x \in 1 .. Len(text) : Leads(text, svc, sec, s, x, a)
    BY DEF Laid, S
  <2>2. /\ s < x /\ x < a /\ text[s].key = svc /\ text[x].key = sec
        /\ \A i \in 1 .. s - 1 : text[i].key # svc
        /\ \A i \in s .. x - 1 : text[i].key # sec
    BY <2>1 DEF Leads
  <2>3. 1 \in 1 .. Len(text) /\ x \in s .. Len(text)
    BY <2>2
  <2>4. FindKey(text, 1, svc) = s
    BY <2>2, <2>3, FindKeyLeast
  <2>5. FindKey(text, s, sec) = x
    BY <2>2, <2>3, FindKeyLeast
  <2>6. h = x
    BY <2>4, <2>5, DescendTwo
  <2> HIDE DEF h
  <2> QED BY <2>1, <2>2, <2>4, <2>6
<1>4. S # {}
  <2>1. S = {} => Cardinality(S) = 0
    BY FS_EmptySet
  <2> QED BY <1>2, <2>1
<1> HIDE DEF h
<1>5. h \in 1 .. Len(text)
  BY <1>3, <1>4
<1>6. A \in SUBSET Nat /\ IsFiniteSet(A)
  <2>1. A \subseteq 1 .. Len(text)
    BY <1>5
  <2>2. IsFiniteSet(1 .. Len(text))
    BY FS_Interval
  <2>3. IsFiniteSet(A)
    <3> HIDE DEF A
    <3> QED BY <2>1, <2>2, FS_Subset
  <2>4. A \in SUBSET Nat
    <3> HIDE DEF A
    <3> QED BY <2>1
  <2> QED BY <2>3, <2>4
<1>7. ASSUME NEW a \in S PROVE a \in A
  <2>1. a \in 1 .. Len(text) /\ text[a].opens
    BY DEF S, OwnRows
  <2>2. text[a].key = first
    BY DEF S, Laid
  <2>3. h < a
    BY <1>3
  <2> QED BY <1>5, <2>1, <2>2, <2>3
<1>8. ASSUME NEW i \in S, NEW x \in A, x < i PROVE x \in S
  <2>1. Leads(text, svc, sec, FindKey(text, 1, svc), h, i)
    BY <1>3
  <2>2. x \in h + 1 .. i /\ x \in 1 .. Len(text) /\ text[x].opens
    BY <1>1, <1>5, <1>8
  <2>3. text[x].place[1] = svc /\ text[x].place[2] = sec
    BY <2>1, <2>2 DEF Leads
  <2> QED BY <2>2, <2>3 DEF S, OwnRows
<1> HIDE DEF A
<1>9. /\ Cardinality(A) \in Nat /\ Cardinality(S) =< Cardinality(A)
      /\ \A y \in 1 .. Cardinality(S) : Ascending(A)[y] = Ascending(S)[y]
  BY <1>6, <1>7, <1>8, AscendingPart
<1>10. PICK all : all = Ascending(A)
  OBVIOUS
<1>11. all \in Seq(A) /\ Len(all) = Cardinality(A)
  BY <1>6, <1>10, AscendingIs
<1>12. PICK n \in Nat : n = UpTo(limit, Len(all)) /\ k =< n /\ n =< Len(all)
  <2>1. PICK x \in Nat, y \in Nat : x = Cardinality(S) /\ y = Len(all) /\ x =< y
    BY <1>2, <1>9, <1>11
  <2>2. /\ UpTo(limit, y) \in Nat /\ UpTo(limit, y) =< y /\ UpTo(limit, x) \in Nat
        /\ UpTo(limit, x) =< UpTo(limit, y)
    BY <2>1, UpToIs
  <2>3. k \in 1 .. UpTo(limit, x)
    BY <2>1 DEF S
  <2> QED BY <1>2, <2>1, <2>2, <2>3
<1>13. RowStarts(text, h, first, limit) = SubSeq(all, 1, n)
  <2>1. h # 0
    BY <1>5
  <2> QED BY <1>10, <1>12, <2>1 DEF RowStarts, A
<1>14. Len(SubSeq(all, 1, n)) = n /\ SubSeq(all, 1, n)[k] = all[k]
  BY <1>2, <1>11, <1>12
<1>15. all[k] = Ascending(S)[k]
  BY <1>2, <1>9, <1>10
<1>16. Ascending(S)[k] \in S
  BY <1>1, <1>2, AscendingIs
<1> QED BY <1>12, <1>13, <1>14, <1>15, <1>16 DEF S, h

(* What a cell of the row that opens at a shows. *)
CellRight(text, a, f, cell) ==
  LET mine == {i \in 1 .. Len(text) : text[i].place = text[a].place}
      own == {i \in mine : text[i].key = f}
      behind == {i \in 1 .. Len(text) : text[i].key = f /\ \A j \in mine : j < i}
  IN  IF own # {} THEN cell \in own ELSE cell = IF behind = {} THEN 0 ELSE Min(behind)

(* What is found of a field from where a row opens. *)
LEMMA CellsAreOwn ==
  ASSUME NEW text, Len(text) \in Nat, NEW svc, NEW sec, NEW first, Laid(text, svc, sec, first),
         NEW a \in OwnRows(text, svc, sec), NEW f
  PROVE  CellRight(text, a, f, FindKey(text, a, f))
<1> DEFINE mine == {i \in 1 .. Len(text) : text[i].place = text[a].place}
           own == {i \in mine : text[i].key = f}
           behind == {i \in 1 .. Len(text) : text[i].key = f /\ \A j \in mine : j < i}
           cell == FindKey(text, a, f)
<1>1. a \in 1 .. Len(text)
  BY DEF OwnRows
<1>2. \A p \in mine : a =< p /\ \A q \in a .. p : text[q].place = text[a].place
  BY DEF Laid
<1>3. /\ cell \in 0 .. Len(text)
      /\ cell # 0 => cell \in a .. Len(text) /\ text[cell].key = f
      /\ \A i \in a .. Len(text) : text[i].key = f => cell # 0 /\ cell =< i
  BY <1>1, FindKeyIs
<1>4. ASSUME NEW i \in own PROVE cell \in own
  <2> HIDE DEF cell
  <2>1. i \in a .. Len(text) /\ text[i].key = f
    BY <1>1, <1>2
  <2>2. cell # 0 /\ cell =< i
    BY <1>3, <2>1
  <2>3. cell \in a .. i /\ cell \in 1 .. Len(text) /\ text[cell].key = f
    BY <1>1, <1>3, <2>1, <2>2
  <2>4. text[cell].place = text[a].place
    BY <1>2, <2>3
  <2> QED BY <2>3, <2>4
<1>5. ASSUME own = {} PROVE cell = IF behind = {} THEN 0 ELSE Min(behind)
  <2> DEFINE at == {i \in a .. Len(text) : text[i].key = f}
  <2>1. ASSUME NEW i \in at PROVE i \in behind
    <3>1. i \in a .. Len(text) /\ i \in 1 .. Len(text) /\ text[i].key = f
      BY <1>1
    <3>2. text[i].place # text[a].place
      BY <1>5, <3>1
    <3>3. ASSUME NEW j \in mine PROVE j < i
      <4>1. j \in 1 .. Len(text) /\ \A q \in a .. j : text[q].place = text[a].place
        BY <1>2
      <4>2. i \notin a .. j
        BY <3>2, <4>1
      <4> QED BY <1>1, <3>1, <4>1, <4>2
    <3> QED BY <3>1, <3>3
  <2>2. ASSUME NEW i \in behind PROVE i \in at
    <3>1. a \in mine
      BY <1>1
    <3> QED BY <1>1, <3>1
  <2>3. at = behind
    BY <2>1, <2>2
  <2>4. cell = IF at = {} THEN 0 ELSE Min(at)
    BY <1>1 DEF FindKey
  <2> HIDE DEF at, behind, cell
  <2> QED BY <2>3, <2>4
<1> QED BY <1>4, <1>5 DEF CellRight
-----------------------------------------------------------------------------
(* Section k has this name, and no other has; its rows open with first. *)
Listed(secs, k, name, first) ==
  /\ k \in 1 .. Len(secs) /\ secs[k].name = name /\ secs[k].keys[1] = first
  /\ \A i \in 1 .. Len(secs) : secs[i].name = name => i = k

(* No list has this name. *)
Unlisted(secs, name) == \A i \in 1 .. Len(secs) : secs[i].list => secs[i].name # name

(* The tables of the commands: rows of a list, or figures of a block. *)
ListTable(t) ==
  \E svc, y :
    /\ svc \in ServiceNames
    /\ Listed(Published[svc], y, t.path[2], t.first) /\ Sole(Published[svc], y)
    /\ t.path = <<svc, t.path[2]>> /\ t.first # "none" /\ t.limit \in Nat
BlockTable(t) ==
  /\ t.limit = 1
  /\ t.path[1] \in ServiceNames => Unlisted(Published[t.path[1]], Last(t.path))
TableOK(t) == ListTable(t) \/ BlockTable(t)
AllTables(ts) == ts \in Seq(ToSet(ts)) /\ \A k \in 1 .. Len(ts) : TableOK(ts[k])

(* A list that a command searches is found by its name. *)
LEMMA SoleWhenListed ==
  ASSUME NEW svc \in ServiceNames, NEW k, NEW name, NEW first,
         Listed(Published[svc], k, name, first), name \in Sought \/ svc = "sockstat",
         svc = "sockstat" => k = 6 /\ name = "sockets"
  PROVE  Sole(Published[svc], k)
<1>1. PICK secs : secs = Published[svc]
  OBVIOUS
<1>2. SectionsOK(secs)
  BY <1>1, PublishedIs
<1>3. Listed(secs, k, name, first)
  BY <1>1
<1>4. k \in 1 .. Len(secs) /\ Len(secs) \in Nat /\ secs[k].name = name
      /\ \A i \in 1 .. Len(secs) : secs[i].name = name => i = k
  BY <1>2, <1>3 DEF Listed, SectionsOK
<1>5. ASSUME NEW i \in 1 .. k - 1, NEW l \in 1 .. Len(secs[i].keys)
      PROVE  secs[i].keys[l] # name
  <2>1. i \in 1 .. Len(secs) /\ SectionOK(secs[i])
    BY <1>2, <1>4 DEF SectionsOK
  <2>2. secs[i].keys[l] \notin Sought
    BY <2>1 DEF SectionOK, Keyless
  <2>3. CASE svc = "sockstat"
    <3>1. secs = sockstat_snapshot /\ k = 6 /\ name = "sockets"
      BY <1>1, <2>3 DEF Published
    <3>2. /\ secs[1].keys = <<"total", "total_delta", "established", "established_delta",
                              "time_wait", "time_wait_delta", "listen">>
          /\ secs[2].keys = << >> /\ secs[3].keys = << >> /\ secs[4].keys = << >>
          /\ secs[5].keys = << >>
      BY <3>1 DEF sockstat_snapshot, Block
    <3>3. i \in 1 .. 5
      BY <3>1
    <3>4. CASE i = 1
      BY <3>1, <3>2, <3>4
    <3>5. CASE i # 1
      <4>1. secs[i].keys = << >>
        BY <3>2, <3>3, <3>5
      <4> QED BY <4>1
    <3> QED BY <3>4, <3>5
  <2> QED BY <2>2, <2>3
<1>6. Sole(secs, k)
  BY <1>4, <1>5 DEF Sole
<1> QED BY <1>1, <1>6

(* A table of such a list, *)
LEMMA TableListed ==
  ASSUME NEW svc \in ServiceNames, NEW k, NEW name, NEW first, NEW fields, NEW limit \in Nat,
         Listed(Published[svc], k, name, first), name \in Sought \/ svc = "sockstat",
         svc = "sockstat" => k = 6 /\ name = "sockets", first # "none"
  PROVE  TableOK(Table(<<svc, name>>, first, fields, limit))
<1>1. Sole(Published[svc], k)
  BY SoleWhenListed
<1>2. PICK t : t = Table(<<svc, name>>, first, fields, limit)
  OBVIOUS
<1>3. t.path = <<svc, name>> /\ t.first = first /\ t.limit = limit
  BY <1>2 DEF Table
<1>4. t.path[2] = name
  BY <1>3
<1>5. ListTable(t)
  BY <1>1, <1>3, <1>4 DEF ListTable
<1> QED BY <1>2, <1>5 DEF TableOK

(* and one of figures. *)
LEMMA TableOfFigures ==
  ASSUME NEW path, NEW fields, path[1] \in ServiceNames => Unlisted(Published[path[1]], Last(path))
  PROVE  TableOK(Figures(path, fields))
<1>1. PICK t : t = Figures(path, fields)
  OBVIOUS
<1>2. t.path = path /\ t.limit = 1
  BY <1>1 DEF Figures, Table
<1>3. BlockTable(t)
  BY <1>2 DEF BlockTable
<1> QED BY <1>1, <1>3 DEF TableOK

(* The tables of a command, put together. *)
LEMMA TablesFine ==
  /\ \A a : TableOK(a) => AllTables(<<a>>)
  /\ \A a, b : TableOK(a) /\ TableOK(b) => AllTables(<<a, b>>)
  /\ \A a, b, c : TableOK(a) /\ TableOK(b) /\ TableOK(c) => AllTables(<<a, b, c>>)
  /\ \A a, b, c, d : TableOK(a) /\ TableOK(b) /\ TableOK(c) /\ TableOK(d) =>
                       AllTables(<<a, b, c, d>>)
<1>1. ASSUME NEW a, TableOK(a) PROVE AllTables(<<a>>)
  BY <1>1 DEF AllTables, ToSet
<1>2. ASSUME NEW a, NEW b, TableOK(a), TableOK(b) PROVE AllTables(<<a, b>>)
  BY <1>2 DEF AllTables, ToSet
<1>3. ASSUME NEW a, NEW b, NEW c, TableOK(a), TableOK(b), TableOK(c)
      PROVE  AllTables(<<a, b, c>>)
  BY <1>3 DEF AllTables, ToSet
<1>4. ASSUME NEW a, NEW b, NEW c, NEW d, TableOK(a), TableOK(b), TableOK(c), TableOK(d)
      PROVE  AllTables(<<a, b, c, d>>)
  BY <1>4 DEF AllTables, ToSet
<1> QED BY <1>1, <1>2, <1>3, <1>4

(* Five of them. *)
LEMMA FiveTablesFine ==
  ASSUME NEW a, NEW b, NEW c, NEW d, NEW e,
         TableOK(a), TableOK(b), TableOK(c), TableOK(d), TableOK(e)
  PROVE  AllTables(<<a, b, c, d, e>>)
  BY DEF AllTables, ToSet

(* And the two halves of status. *)
LEMMA TablesJoined ==
  ASSUME NEW s, NEW t, AllTables(s), AllTables(t)
  PROVE  AllTables(s \o t)
<1>1. PICK T : T = ToSet(s) \cup ToSet(t)
  OBVIOUS
<1>2. s \in Seq(T) /\ t \in Seq(T)
  BY <1>1 DEF AllTables
<1>3. PICK u : u = s \o t
  OBVIOUS
<1>4. /\ u \in Seq(T) /\ Len(u) = Len(s) + Len(t) /\ Len(s) \in Nat /\ Len(t) \in Nat
      /\ \A q \in 1 .. Len(s) : u[q] = s[q]
      /\ \A m \in 1 .. Len(t) : u[Len(s) + m] = t[m]
  BY <1>2, <1>3, Joined
<1>5. u \in Seq(ToSet(u))
  BY <1>4 DEF ToSet
<1>6. ASSUME NEW k \in 1 .. Len(u) PROVE TableOK(u[k])
  <2>1. CASE k =< Len(s)
    <3>1. k \in 1 .. Len(s)
      BY <1>4, <2>1
    <3> QED BY <1>4, <3>1 DEF AllTables
  <2>2. CASE ~ (k =< Len(s))
    <3>1. k - Len(s) \in 1 .. Len(t) /\ Len(s) + (k - Len(s)) = k
      BY <1>4, <2>2
    <3>2. PICK m \in 1 .. Len(t) : Len(s) + m = k
      BY <3>1
    <3> QED BY <1>4, <3>2 DEF AllTables
  <2> QED BY <2>1, <2>2
<1>7. AllTables(u)
  BY <1>5, <1>6 DEF AllTables
<1> QED BY <1>3, <1>7

(* The lists the commands search. *)
LEMMA ListsAre ==
  /\ Listed(Published["netstat"], 1, "interfaces", "name")
  /\ Listed(Published["procevent"], 2, "recent_events", "pid")
  /\ Listed(Published["procmem"], 1, "top_growers", "pid")
  /\ Listed(Published["procmem"], 3, "top_rss", "pid")
  /\ Listed(Published["slabinfo"], 1, "top_growers", "name")
  /\ Listed(Published["sockstat"], 6, "sockets", "local")
  /\ Listed(Published["memleak"], 4, "process_usage", "pid")
  /\ Listed(Published["memleak"], 5, "kernel_usage", "cache")
  /\ Listed(Published["memleak"], 3, "user_leaks", "pid")
  /\ Listed(Published["fdmon"], 2, "top_consumers", "pid")
  /\ Listed(Published["fdmon"], 3, "leakers", "pid")
<1>1. Listed(netstat_snapshot, 1, "interfaces", "name")
  BY DEF Listed, netstat_snapshot, Block, List
<1>2. Listed(procevent_snapshot, 2, "recent_events", "pid")
  BY DEF Listed, procevent_snapshot, Block, List, Owner
<1>3. Listed(procmem_snapshot, 1, "top_growers", "pid")
  BY DEF Listed, procmem_snapshot, Block, List, ProcRow
<1>4. Listed(procmem_snapshot, 3, "top_rss", "pid")
  BY DEF Listed, procmem_snapshot, Block, List, ProcRow
<1>5. Listed(slabinfo_snapshot, 1, "top_growers", "name")
  BY DEF Listed, slabinfo_snapshot, Block, List, SlabRow
<1>6. Listed(sockstat_snapshot, 6, "sockets", "local")
  BY DEF Listed, sockstat_snapshot, Block, List, Owner
<1>7. Listed(memleak_snapshot, 4, "process_usage", "pid")
  BY DEF Listed, memleak_snapshot, Block, List, HeapRow
<1>8. Listed(memleak_snapshot, 5, "kernel_usage", "cache")
  BY DEF Listed, memleak_snapshot, Block, List, HeapRow
<1>9. Listed(memleak_snapshot, 3, "user_leaks", "pid")
  BY DEF Listed, memleak_snapshot, Block, List, HeapRow
<1>10. Listed(fdmon_snapshot, 2, "top_consumers", "pid")
  BY DEF Listed, fdmon_snapshot, Block, List, FdRow
<1>11. Listed(fdmon_snapshot, 3, "leakers", "pid")
  BY DEF Listed, fdmon_snapshot, Block, List, FdRow
<1> QED BY <1>1, <1>2, <1>3, <1>4, <1>5, <1>6, <1>7, <1>8, <1>9, <1>10, <1>11 DEF Published

(* The blocks they search have the name of no list. *)
LEMMA BlocksAre ==
  /\ Unlisted(Published["memleak"], "memory_summary")
  /\ Unlisted(Published["meminfo"], "meminfo")
  /\ Unlisted(Published["meminfo"], "memory")
  /\ Unlisted(Published["meminfo"], "available_kb")
  /\ Unlisted(Published["cpuload"], "system")
  /\ Unlisted(Published["sockstat"], "tcp")
  /\ Unlisted(Published["sockstat"], "sockstat")
  /\ Unlisted(Published["procstat"], "summary")
  /\ Unlisted(Published["procevent"], "counters")
  /\ Unlisted(Published["fdmon"], "summary")
<1>1. Unlisted(memleak_snapshot, "memory_summary")
  BY DEF Unlisted, memleak_snapshot, Block, List
<1>2. Unlisted(meminfo_snapshot, "meminfo")
  BY DEF Unlisted, meminfo_snapshot, Block, List
<1>3. Unlisted(meminfo_snapshot, "memory") /\ Unlisted(meminfo_snapshot, "available_kb")
  BY DEF Unlisted, meminfo_snapshot, Block, List
<1>4. Unlisted(cpuload_snapshot, "system")
  BY DEF Unlisted, cpuload_snapshot, Block, List
<1>5. Unlisted(sockstat_snapshot, "tcp")
  BY DEF Unlisted, sockstat_snapshot, Block, List
<1>6. Unlisted(sockstat_snapshot, "sockstat")
  BY DEF Unlisted, sockstat_snapshot, Block, List
<1>7. Unlisted(procstat_snapshot, "summary")
  BY DEF Unlisted, procstat_snapshot, Block, List
<1>8. Unlisted(procevent_snapshot, "counters")
  BY DEF Unlisted, procevent_snapshot, Block, List
<1>9. Unlisted(fdmon_snapshot, "summary")
  BY DEF Unlisted, fdmon_snapshot, Block, List
<1> QED BY <1>1, <1>2, <1>3, <1>4, <1>5, <1>6, <1>7, <1>8, <1>9 DEF Published

(* Figures by paths of one, two and three keys. *)
LEMMA Figures1 ==
  ASSUME NEW a, NEW fields, a \in ServiceNames => Unlisted(Published[a], a)
  PROVE  TableOK(Figures(<<a>>, fields))
<1>1. PICK path : path = <<a>>
  OBVIOUS
<1>2. path[1] = a /\ Last(path) = a
  BY <1>1 DEF Last
<1> QED BY <1>1, <1>2, TableOfFigures

(* Two keys, *)
LEMMA Figures2 ==
  ASSUME NEW a, NEW b, NEW fields, Unlisted(Published[a], b)
  PROVE  TableOK(Figures(<<a, b>>, fields))
<1>1. PICK path : path = <<a, b>>
  OBVIOUS
<1>2. path[1] = a /\ Last(path) = b
  BY <1>1 DEF Last
<1> QED BY <1>1, <1>2, TableOfFigures

(* three keys. *)
LEMMA Figures3 ==
  ASSUME NEW a, NEW b, NEW c, NEW fields, Unlisted(Published[a], c)
  PROVE  TableOK(Figures(<<a, b, c>>, fields))
<1>1. PICK path : path = <<a, b, c>>
  OBVIOUS
<1>2. path[1] = a /\ Last(path) = c
  BY <1>1 DEF Last
<1> QED BY <1>1, <1>2, TableOfFigures

(* No section has the name of a service. *)
LEMMA NoServiceListed ==
  ASSUME NEW a \in ServiceNames PROVE Unlisted(Published[a], a)
<1>1. PICK secs : secs = Published[a]
  OBVIOUS
<1>2. SectionsOK(secs)
  BY <1>1, PublishedIs
<1>3. Unlisted(secs, a)
  BY <1>2 DEF SectionsOK, SectionOK, Unlisted, Reserved
<1> QED BY <1>1, <1>3

(* So all tables of all commands are of these two kinds. *)
LEMMA TablesAre ==
  \A c \in DOMAIN Tables : AllTables(Tables[c])
<1>0. {"netstat", "procevent", "procmem", "slabinfo", "sockstat", "memleak", "fdmon"}
        \subseteq ServiceNames
      /\ NoLimit \in Nat
  BY DEF ServiceNames, NoLimit
<1>1. AllTables(MachineTables)
  <2>1. TableOK(Figures(<<"meminfo">>, {"usage_percent"}))
    BY NoServiceListed, Figures1
  <2>2. TableOK(Figures(<<"meminfo", "memory", "available_kb">>, {"value", "delta"}))
    BY BlocksAre, Figures3
  <2>3. TableOK(Figures(<<"cpuload", "system">>,
            {"user_percent", "system_percent", "idle_percent", "iowait_percent"}))
    BY BlocksAre, Figures2
  <2>4. TableOK(Table(<<"netstat", "interfaces">>, "name",
          {"name", "rx_bytes", "tx_bytes", "rx_bytes_delta", "tx_bytes_delta"}, NoLimit))
    <3>1. Listed(Published["netstat"], 1, "interfaces", "name") /\ "interfaces" \in Sought
      BY ListsAre DEF Sought
    <3> QED BY <1>0, <3>1, TableListed
  <2>5. TableOK(Figures(<<"meminfo", "memory">>, {QuotedValue}))
    BY BlocksAre, Figures2
  <2> QED BY <2>1, <2>2, <2>3, <2>4, <2>5, FiveTablesFine DEF MachineTables
<1>2. AllTables(ActivityTables)
  <2>1. TableOK(Figures(<<"sockstat", "tcp">>,
            {"total", "established", "time_wait", "listen", "total_delta",
             "established_delta", "time_wait_delta"}))
    BY BlocksAre, Figures2
  <2>2. TableOK(Figures(<<"sockstat">>,
            {"udp_total", "unix_total", "udp_total_delta", "unix_total_delta"}))
    BY NoServiceListed, Figures1
  <2>3. TableOK(Figures(<<"procstat", "summary">>,
            {"total", "running", "sleeping", "blocked", "zombie"}))
    BY BlocksAre, Figures2
  <2>4. TableOK(Figures(<<"procevent", "counters">>, {"forks", "exits"}))
    BY BlocksAre, Figures2
  <2>5. TableOK(Table(<<"procevent", "recent_events">>, "pid", {"pid", "cmd", "type"}, 5))
    <3>1. Listed(Published["procevent"], 2, "recent_events", "pid") /\ "recent_events" \in Sought
      BY ListsAre DEF Sought
    <3> QED BY <1>0, <3>1, TableListed
  <2> QED BY <2>1, <2>2, <2>3, <2>4, <2>5, FiveTablesFine DEF ActivityTables
<1>3. AllTables(TopTables)
  <2>1. TableOK(Table(<<"procmem", "top_growers">>, "pid",
          {"pid", "rss_kb", "rss_delta_kb", "cmd"}, NoLimit))
    <3>1. Listed(Published["procmem"], 1, "top_growers", "pid") /\ "top_growers" \in Sought
      BY ListsAre DEF Sought
    <3> QED BY <1>0, <3>1, TableListed
  <2>2. TableOK(Table(<<"procmem", "top_rss">>, "pid", {"pid", "rss_kb", "data_kb", "cmd"},
                      NoLimit))
    <3>1. Listed(Published["procmem"], 3, "top_rss", "pid") /\ "top_rss" \in Sought
      BY ListsAre DEF Sought
    <3> QED BY <1>0, <3>1, TableListed
  <2> QED BY <2>1, <2>2, TablesFine DEF TopTables
<1>4. AllTables(SlabTables)
  <2>1. TableOK(Table(<<"slabinfo", "top_growers">>, "name",
          {"name", "size_bytes", "delta_bytes"}, NoLimit))
    <3>1. Listed(Published["slabinfo"], 1, "top_growers", "name") /\ "top_growers" \in Sought
      BY ListsAre DEF Sought
    <3> QED BY <1>0, <3>1, TableListed
  <2> QED BY <2>1, TablesFine DEF SlabTables
<1>5. AllTables(SocketsTables)
  <2>1. TableOK(Table(<<"sockstat", "sockets">>, "local",
          {"local", "remote", "state", "tx_q", "rx_q", "pid", "cmd"}, NoLimit))
    <3>1. Listed(Published["sockstat"], 6, "sockets", "local")
      BY ListsAre
    <3> QED BY <1>0, <3>1, TableListed
  <2> QED BY <2>1, TablesFine DEF SocketsTables
<1>6. AllTables(MemleakTables)
  <2>1. TableOK(Figures(<<"memleak", "memory_summary">>,
            {"total_kb", "available_kb", "free_kb", "cached_kb"}))
    BY BlocksAre, Figures2
  <2>2. TableOK(Table(<<"memleak", "process_usage">>, "pid",
          {"pid", "cmd", "rss_kb", "initial_rss_kb", "heap_rss_kb",
           "initial_heap_rss_kb", "heap_size_kb"}, NoLimit))
    <3>1. Listed(Published["memleak"], 4, "process_usage", "pid") /\ "process_usage" \in Sought
      BY ListsAre DEF Sought
    <3> QED BY <1>0, <3>1, TableListed
  <2>3. TableOK(Table(<<"memleak", "kernel_usage">>, "cache",
          {"cache", "total_bytes", "delta_bytes", "active_objs", "delta_objs"}, NoLimit))
    <3>1. Listed(Published["memleak"], 5, "kernel_usage", "cache") /\ "kernel_usage" \in Sought
      BY ListsAre DEF Sought
    <3> QED BY <1>0, <3>1, TableListed
  <2>4. TableOK(LeakWarning)
    <3>1. Listed(Published["memleak"], 3, "user_leaks", "pid") /\ "user_leaks" \in Sought
      BY ListsAre DEF Sought
    <3>2. TableOK(Table(<<"memleak", "user_leaks">>, "pid", {}, 1))
      BY <1>0, <3>1, TableListed
    <3> QED BY <3>2 DEF LeakWarning
  <2> QED BY <2>1, <2>2, <2>3, <2>4, TablesFine DEF MemleakTables
<1>7. AllTables(FdmonTables)
  <2>1. TableOK(Figures(<<"fdmon", "summary">>, {"total_fds", "proc_count", "potential_leaks"}))
    BY BlocksAre, Figures2
  <2>2. TableOK(Table(<<"fdmon", "top_consumers">>, "pid",
          {"pid", "fd_count", "initial_fd_count", "fd_change", "files", "sockets",
           "pipes", "other", "eventfds", "cmd"}, 15))
    <3>1. Listed(Published["fdmon"], 2, "top_consumers", "pid") /\ "top_consumers" \in Sought
      BY ListsAre DEF Sought
    <3> QED BY <1>0, <3>1, TableListed
  <2>3. TableOK(Table(<<"fdmon", "leakers">>, "pid",
          {"pid", "fd_count", "initial_fd_count", "fd_change", "cmd"}, 10))
    <3>1. Listed(Published["fdmon"], 3, "leakers", "pid") /\ "leakers" \in Sought
      BY ListsAre DEF Sought
    <3> QED BY <1>0, <3>1, TableListed
  <2> QED BY <2>1, <2>2, <2>3, TablesFine DEF FdmonTables
<1>8. AllTables(ServicesTables)
  <2>1. ASSUME NEW k \in 1 .. 10 PROVE TableOK(ServicesTables[k])
    <3>1. PICK a : ServicesTables[k] = Figures(<<a>>, {})
      BY DEF ServicesTables
    <3> QED BY <3>1, NoServiceListed, Figures1
  <2>2. ServicesTables \in [1 .. 10 -> ToSet(ServicesTables)]
    BY DEF ServicesTables, ToSet
  <2>3. ServicesTables \in Seq(ToSet(ServicesTables)) /\ Len(ServicesTables) = 10
    <3>1. PICK n \in Nat : n = 10
      OBVIOUS
    <3>2. PICK T, ts : T = ToSet(ServicesTables) /\ ts = ServicesTables
      OBVIOUS
    <3>3. ts \in [1 .. n -> T]
      BY <2>2, <3>1, <3>2
    <3>4. ts \in Seq(T) /\ Len(ts) = n
      BY <3>3
    <3> QED BY <3>1, <3>2, <3>4
  <2> QED BY <2>1, <2>3 DEF AllTables
<1>9. AllTables(MachineTables \o ActivityTables)
  BY <1>1, <1>2, TablesJoined
<1>10. PICK st : st = MachineTables \o ActivityTables
  OBVIOUS
<1>11. Tables = [status |-> st, top |-> TopTables, slab |-> SlabTables,
                 sockets |-> SocketsTables, memleak |-> MemleakTables,
                 fdmon |-> FdmonTables, services |-> ServicesTables]
  BY <1>10, Zenon DEF Tables
<1>12. AllTables(st)
  BY <1>9, <1>10
<1>13. DOMAIN Tables = {"status", "top", "slab", "sockets", "memleak", "fdmon", "services"}
  BY <1>11
<1>14. /\ Tables["status"] = st /\ Tables["top"] = TopTables /\ Tables["slab"] = SlabTables
       /\ Tables["sockets"] = SocketsTables /\ Tables["memleak"] = MemleakTables
       /\ Tables["fdmon"] = FdmonTables /\ Tables["services"] = ServicesTables
  BY <1>11
<1> QED BY <1>3, <1>4, <1>5, <1>6, <1>7, <1>8, <1>12, <1>13, <1>14
-----------------------------------------------------------------------------
(* Every service is in a snapshot at most once. *)
LEMMA OrdersAre ==
  ASSUME NEW order \in Orders
  PROVE  /\ order \in Seq(ServiceNames)
         /\ \A i, k \in 1 .. Len(order) : order[i] = order[k] => i = k
<1>1. DOMAIN Published = ServiceNames /\ CmdServices \subseteq ServiceNames
  BY PublishedIs, CommandsAssumption
<1>2. CASE \E s \in DOMAIN Published : order = <<s>>
  BY <1>1, <1>2
<1>3. CASE \E n \in 0 .. MaxPublished :
             order \in {s \in [1 .. n -> CmdServices] : IsInjective(s)}
  <2>1. PICK n \in Nat : order \in [1 .. n -> CmdServices] /\ IsInjective(order)
    BY <1>3
  <2>2. order \in [1 .. n -> ServiceNames]
    BY <1>1, <2>1
  <2>3. order \in Seq(ServiceNames) /\ Len(order) = n /\ DOMAIN order = 1 .. n
    BY <2>2
  <2> QED BY <2>1, <2>3 DEF IsInjective
<1>4. order \in UNION {{s \in [1 .. n -> CmdServices] : IsInjective(s)} : n \in 0 .. MaxPublished}
        => \E n \in 0 .. MaxPublished : order \in {s \in [1 .. n -> CmdServices] : IsInjective(s)}
  BY Zenon
<1> QED BY <1>2, <1>3, <1>4 DEF Orders

(* Every snapshot is laid out as the commands need it, *)
LEMMA SnapshotsGood ==
  ASSUME NEW text \in Snapshots PROVE GoodText(text)
<1> DEFINE U(o, r) == {SnapshotText(o, r, owned) : owned \in SUBSET (1 .. r)}
<1>0. Snapshots = UNION {U(order, rows) : order \in Orders, rows \in 0 .. MaxRows}
  BY DEF Snapshots
<1>1. PICK order \in Orders, rows \in 0 .. MaxRows : text \in U(order, rows)
  <2> HIDE DEF U
  <2> QED BY <1>0
<1>2. PICK owned : text = SnapshotText(order, rows, owned)
  BY <1>1
<1>3. rows \in Nat
  OBVIOUS
<1> QED BY <1>2, <1>3, OrdersAre, SnapshotLaid

(* also when its end is cut off. *)
LEMMA GoodCut ==
  ASSUME NEW X, GoodText(X), NEW end \in 0 .. Len(X)
  PROVE  GoodText(SubSeq(X, 1, end))
<1>1. PICK T : T = Tok(Names)
  OBVIOUS
<1>2. PICK text : text = SubSeq(X, 1, end)
  OBVIOUS
<1>3. X \in Seq(T) /\ Len(X) \in Nat
  BY <1>1 DEF GoodText
<1>4. text \in Seq(T) /\ Len(text) = end /\ \A i \in 1 .. end : text[i] = X[i]
  BY <1>2, <1>3
<1>5. ASSUME NEW p \in 1 .. Len(text)
      PROVE  text[p].place[1] \in ServiceNames /\ InList(text[p], text[p].place[1])
  <2>1. p \in 1 .. Len(X) /\ text[p] = X[p]
    BY <1>3, <1>4
  <2> QED BY <2>1 DEF GoodText
<1>6. ASSUME NEW svc \in ServiceNames, NEW y \in 1 .. Len(Published[svc]),
             Sole(Published[svc], y)
      PROVE  Laid(text, svc, Published[svc][y].name, Published[svc][y].keys[1])
  <2>1. PICK sec, first : sec = Published[svc][y].name /\ first = Published[svc][y].keys[1]
    OBVIOUS
  <2>2. Laid(X, svc, sec, first)
    BY <1>6, <2>1 DEF GoodText
  <2>3. Laid(text, svc, sec, first)
    BY <1>2, <1>3, <2>2, LaidCut
  <2> QED BY <2>1, <2>3
<1>7. GoodText(text)
  BY <1>1, <1>4, <1>5, <1>6 DEF GoodText
<1> QED BY <1>2, <1>7

(* RowsAreOwn of one row, and of one table. *)
RowOwn(row, a, fields) ==
  LET mine == {i \in DOMAIN reply : reply[i].place = reply[a].place}
  IN  row.at = a /\ CellsOf(row, fields, mine)
TableOwn(t, shown) ==
  LET own == OwnStarts(t)
  IN  \A k \in 1 .. UpTo(t.limit, Len(own)) :
        Len(shown) >= k /\ RowOwn(shown[k], own[k], t.fields)

(* The rows of a table. *)
LEMMA ListShown ==
  ASSUME GoodText(reply), NEW t, ListTable(t)
  PROVE  TableOwn(t, Show(reply, t))
<1>1. PICK svc, y :
        /\ svc \in ServiceNames
        /\ Listed(Published[svc], y, t.path[2], t.first) /\ Sole(Published[svc], y)
        /\ t.path = <<svc, t.path[2]>> /\ t.first # "none" /\ t.limit \in Nat
  BY DEF ListTable
<1>2. PICK sec, first, path : sec = t.path[2] /\ first = t.first /\ path = t.path
  OBVIOUS
<1>3. /\ y \in 1 .. Len(Published[svc]) /\ Published[svc][y].name = sec
      /\ Published[svc][y].keys[1] = first
  BY <1>1, <1>2 DEF Listed
<1>4. Laid(reply, svc, sec, first)
  BY <1>1, <1>3 DEF GoodText
<1>5. Len(reply) \in Nat /\ DOMAIN reply = 1 .. Len(reply)
  <2>1. reply \in Seq(Tok(Names))
    BY DEF GoodText
  <2> QED BY <2>1
<1>6. path = <<svc, sec>>
  BY <1>1, <1>2
<1>7. path[1] = svc /\ Last(path) = sec
  BY <1>6 DEF Last
<1> DEFINE own == Ascending(OwnRows(reply, svc, sec))
           found == RowStarts(reply, Descend(reply, <<svc, sec>>), first, t.limit)
<1>8. OwnStarts(t) = own
  BY <1>2, <1>7 DEF OwnStarts, OwnRows
<1>9. Len(own) = Cardinality(OwnRows(reply, svc, sec))
  <2>1. OwnRows(reply, svc, sec) \subseteq 1 .. Len(reply)
    BY DEF OwnRows
  <2>2. IsFiniteSet(1 .. Len(reply))
    BY <1>5, FS_Interval
  <2>3. IsFiniteSet(OwnRows(reply, svc, sec))
    BY <2>1, <2>2, FS_Subset
  <2>4. OwnRows(reply, svc, sec) \in SUBSET Nat
    BY <2>1
  <2> QED BY <2>3, <2>4, AscendingIs
<1>10. Show(reply, t) = [k \in 1 .. Len(found) |-> Row(reply, found[k], t.fields)]
  <2>1. Starts(reply, t) = found
    BY <1>1, <1>2, <1>6 DEF Starts
  <2> HIDE DEF found
  <2> QED BY <2>1 DEF Show
<1>11. PICK shown : shown = Show(reply, t)
  OBVIOUS
<1> HIDE DEF own, found
<1>12. ASSUME NEW k \in 1 .. UpTo(t.limit, Len(own))
       PROVE  /\ Len(shown) >= k /\ shown[k] = Row(reply, own[k], t.fields)
              /\ own[k] \in OwnRows(reply, svc, sec)
  <2>1. PICK limit \in Nat : limit = t.limit
    BY <1>1
  <2>2. k \in 1 .. UpTo(limit, Cardinality(OwnRows(reply, svc, sec)))
    BY <1>9, <2>1
  <2>3. /\ Len(found) \in Nat /\ k =< Len(found) /\ found[k] = own[k]
        /\ own[k] \in OwnRows(reply, svc, sec)
    BY <1>4, <1>5, <2>1, <2>2, RowsFound DEF own, found
  <2>4. k \in 1 .. Len(found)
    BY <2>2, <2>3
  <2>5. shown[k] = Row(reply, found[k], t.fields) /\ Len(shown) = Len(found)
    BY <1>10, <1>11, <2>3, <2>4
  <2>6. k \in Nat
    BY <2>2
  <2> QED BY <2>3, <2>5, <2>6
<1>13. ASSUME NEW k \in 1 .. UpTo(t.limit, Len(own))
       PROVE  RowOwn(shown[k], own[k], t.fields)
  <2>1. PICK a, row : a = own[k] /\ row = shown[k]
    OBVIOUS
  <2>2. a \in OwnRows(reply, svc, sec) /\ row = Row(reply, a, t.fields)
    BY <1>12, <2>1
  <2>3. row.at = a
    BY <2>2 DEF Row
  <2> DEFINE mine == {i \in DOMAIN reply : reply[i].place = reply[a].place}
  <2>4. ASSUME NEW f \in t.fields
        PROVE  LET own1 == {i \in mine : reply[i].key = f}
                   behind == {i \in DOMAIN reply :
                                reply[i].key = f /\ \A j \in mine : j < i}
               IN  IF own1 # {} THEN row.cells[f] \in own1
                   ELSE row.cells[f] = IF behind = {} THEN 0 ELSE Min(behind)
    <3>1. row.cells[f] = FindKey(reply, a, f)
      BY <2>2 DEF Row
    <3>2. CellRight(reply, a, f, row.cells[f])
      BY <1>4, <1>5, <2>2, <3>1, CellsAreOwn
    <3> QED BY <1>5, <3>2 DEF CellRight
  <2>5. CellsOf(row, t.fields, mine)
    <3> HIDE DEF mine
    <3> QED BY <2>4 DEF CellsOf
  <2>6. RowOwn(row, a, t.fields)
    BY <2>3, <2>5 DEF RowOwn
  <2> QED BY <2>1, <2>6
<1>14. TableOwn(t, shown)
  BY <1>8, <1>12, <1>13 DEF TableOwn
<1> QED BY <1>11, <1>14

(* Figures have no rows of their own. *)
LEMMA BlockShown ==
  ASSUME GoodText(reply), NEW t, BlockTable(t), NEW shown
  PROVE  TableOwn(t, shown)
<1> DEFINE S == {i \in 1 .. Len(reply) : /\ reply[i].opens
                                         /\ reply[i].place[1] = t.path[1]
                                         /\ reply[i].place[2] = Last(t.path)}
<1>1. ASSUME NEW i \in S PROVE FALSE
  <2>1. PICK svc, name : svc = t.path[1] /\ name = Last(t.path)
    OBVIOUS
  <2>2. i \in 1 .. Len(reply) /\ reply[i].opens /\ reply[i].place[1] = svc
        /\ reply[i].place[2] = name
    BY <2>1
  <2>3. svc \in ServiceNames /\ InList(reply[i], svc)
    BY <2>2 DEF GoodText
  <2>4. Unlisted(Published[svc], name)
    BY <2>1, <2>3 DEF BlockTable
  <2> QED BY <2>2, <2>3, <2>4 DEF InList, Unlisted
<1>2. S = {}
  BY <1>1
<1>3. OwnStarts(t) = Ascending({})
  BY <1>2 DEF OwnStarts
<1>4. Len(Ascending({})) = 0
  <2>1. IsFiniteSet({}) /\ Cardinality({}) = 0 /\ {} \in SUBSET Nat
    BY FS_EmptySet
  <2> QED BY <2>1, AscendingIs
<1>5. t.limit = 1
  BY DEF BlockTable
<1>6. UpTo(1, 0) = 0
  BY UpToIs
<1>7. 1 .. UpTo(t.limit, Len(OwnStarts(t))) = {}
  <2>1. UpTo(t.limit, Len(OwnStarts(t))) = 0
    BY <1>3, <1>4, <1>5, <1>6
  <2> QED BY <2>1
<1> QED BY <1>7 DEF TableOwn

(* The inductive invariant: what is on the screen comes from the reply,    *)
(* and the reply is the beginning of a snapshot.                           *)
CmdInv ==
  /\ cmd \in DOMAIN Tables \cup {"none"} /\ watching \in {"no", "all", "target"}
  /\ screen # << >> =>
       /\ cmd \in DOMAIN Tables /\ GoodText(reply)
       /\ screen = [k \in DOMAIN Tables[cmd] |-> Show(reply, Tables[cmd][k])]

(* It is enough for the property. *)
LEMMA CmdInvRows ==
  ASSUME CmdInv PROVE RowsAreOwn
<1>1. ASSUME NEW n \in DOMAIN screen PROVE TableOwn(Tables[cmd][n], screen[n])
  <2>1. screen # << >>
    OBVIOUS
  <2>2. /\ cmd \in DOMAIN Tables /\ GoodText(reply)
        /\ screen = [k \in DOMAIN Tables[cmd] |-> Show(reply, Tables[cmd][k])]
    BY <2>1 DEF CmdInv
  <2>3. PICK ts : ts = Tables[cmd]
    OBVIOUS
  <2>4. n \in DOMAIN ts /\ screen[n] = Show(reply, ts[n])
    BY <2>2, <2>3
  <2>5. AllTables(ts)
    BY <2>2, <2>3, TablesAre
  <2>6. TableOK(ts[n])
    <3>1. DOMAIN ts = 1 .. Len(ts)
      BY <2>5 DEF AllTables
    <3> QED BY <2>4, <2>5, <3>1 DEF AllTables
  <2>7. TableOwn(ts[n], Show(reply, ts[n]))
    BY <2>2, <2>6, ListShown, BlockShown DEF TableOK
  <2> QED BY <2>3, <2>4, <2>7
<1> QED BY <1>1 DEF RowsAreOwn, TableOwn, RowOwn

(* It holds at the beginning, *)
LEMMA CmdInvInit == CmdInit => CmdInv
  BY DEF CmdInit, CmdInv

(* The commands. *)
LEMMA CommandNames ==
  DOMAIN Tables = {"status", "top", "slab", "sockets", "memleak", "fdmon", "services"}
<1>1. PICK st : st = MachineTables \o ActivityTables
  OBVIOUS
<1>2. Tables = [status |-> st, top |-> TopTables, slab |-> SlabTables,
                sockets |-> SocketsTables, memleak |-> MemleakTables,
                fdmon |-> FdmonTables, services |-> ServicesTables]
  BY <1>1, Zenon DEF Tables
<1> QED BY <1>2

(* What cmd_watch runs next is a command. *)
LEMMA FollowingIs ==
  ASSUME CmdInv PROVE Following \in DOMAIN Tables \cup {"none"}
<1>1. CASE watching = "no"
  BY <1>1 DEF Following
<1>2. CASE watching = "target"
  BY <1>2 DEF Following, CmdInv
<1>3. CASE watching = "all"
  BY <1>3, CommandNames DEF Following
<1> QED BY <1>1, <1>2, <1>3 DEF CmdInv

(* and every step keeps it. *)
LEMMA CmdInvStep ==
  ASSUME CmdInv, CmdNext PROVE CmdInv'
<1>1. /\ cmd \in DOMAIN Tables \cup {"none"} /\ watching \in {"no", "all", "target"}
      /\ screen # << >> => cmd \in DOMAIN Tables
  BY DEF CmdInv
<1>2. ASSUME NEW c \in DOMAIN Tables, NEW w \in {"no", "all", "target"}, CmdStart(c, w)
      PROVE  CmdInv'
  <2>1. cmd' = c /\ watching' = w /\ screen' = screen /\ cmd = "none"
    BY <1>2 DEF CmdStart
  <2>2. screen = << >>
    BY <1>1, <2>1, CommandNames
  <2> QED BY <2>1, <2>2 DEF CmdInv
<1>3. ASSUME NEW text \in Snapshots, NEW end \in 0 .. Len(text), CmdShow(text, end)
      PROVE  CmdInv'
  <2>1. /\ cmd \in DOMAIN Tables /\ cmd' = cmd /\ watching' = watching
        /\ reply' = SubSeq(text, 1, end)
        /\ screen' = [k \in DOMAIN Tables[cmd] |-> Show(reply', Tables[cmd][k])]
    BY <1>1, <1>3 DEF CmdShow
  <2>2. GoodText(SubSeq(text, 1, end))
    BY SnapshotsGood, GoodCut
  <2>3. GoodText(reply')
    BY <2>1, <2>2
  <2>4. screen' = [k \in DOMAIN Tables[cmd'] |-> Show(reply', Tables[cmd'][k])]
    BY <2>1
  <2> QED BY <1>1, <2>1, <2>3, <2>4 DEF CmdInv
<1>4. ASSUME CmdNoReply \/ CmdReturn PROVE CmdInv'
  <2>1. cmd' = Following /\ watching' = watching /\ screen' = << >>
    BY <1>4 DEF CmdNoReply, CmdReturn
  <2>2. cmd' \in DOMAIN Tables \cup {"none"}
    BY <2>1, FollowingIs
  <2> QED BY <1>1, <2>1, <2>2 DEF CmdInv
<1> QED BY <1>2, <1>3, <1>4 DEF CmdNext

(* Although nothing but the text is searched: every table of rows begins   *)
(* with the rows of its own section, in order and none left out below the  *)
(* limit; a key the row has shows the row's own value, and a key it lacks  *)
(* that of the first place behind the row that has it, nothing if none     *)
(* has.  For any number of services in any order, any number of rows, and  *)
(* wherever the snapshot was cut off.                                      *)
THEOREM RowsAreOwnHolds == CmdInit /\ [][CmdNext]_cmdVars => []RowsAreOwn
<1>1. CmdInv /\ [CmdNext]_cmdVars => CmdInv'
  <2> SUFFICES ASSUME CmdInv, [CmdNext]_cmdVars PROVE CmdInv'
    OBVIOUS
  <2>1. CASE CmdNext
    BY <2>1, CmdInvStep
  <2>2. CASE UNCHANGED cmdVars
    BY <2>2 DEF cmdVars, CmdInv
  <2> QED BY <2>1, <2>2
<1>2. CmdInv => RowsAreOwn
  BY CmdInvRows
<1> QED BY <1>1, <1>2, CmdInvInit, PTL
=============================================================================
