----------------------------- MODULE ProxyProofs -----------------------------
(***************************************************************************)
(* What a session of the proxy of p3 guarantees for every size of socket   *)
(* and every length of the streams: no byte is lost, repeated or overtaken *)
(* on its way, and the session implements two streams.                     *)
(***************************************************************************)
EXTENDS ProxySession, SequenceTheorems, TLAPS

Chunks == 1 .. MaxSend

(* Before the session nothing has been sent; while it lives at most one end *)
(* of stream has been counted, the second one frees it.                    *)
Before ==
  session = "none" =>
    /\ closed_sides = 0
    /\ \A d \in Side :
         /\ wire[d] = <<>> /\ output[d] = <<>> /\ arrived[d] = <<>>
         /\ sent[d] = 0

OneEnd == session = "open" => closed_sides \in {0, 1}

IInv == TypeOK /\ Before /\ OneEnd /\ InTransit

LEMMA SideFacts ==
  /\ Side = {"cl", "sv"}
  /\ \A d \in Side : Other(d) \in Side /\ Other(d) # d /\ Other(Other(d)) = d
  BY DEF Side, Other

(* The first k elements and the rest.                                      *)
LEMMA Cutting ==
  ASSUME NEW S, NEW s \in Seq(S), NEW k \in 1 .. Len(s)
  PROVE  /\ SubSeq(s, 1, k) \in Seq(S) /\ SubSeq(s, k + 1, Len(s)) \in Seq(S)
         /\ SubSeq(s, 1, k) \o SubSeq(s, k + 1, Len(s)) = s
         /\ Len(SubSeq(s, 1, k)) = k
         /\ \A i \in 1 .. k : SubSeq(s, 1, k)[i] = s[i]
<1>1. Len(s) \in Nat /\ \A i \in 1 .. Len(s) : s[i] \in S
  BY LenProperties, ElementOfSeq
<1>2. /\ SubSeq(s, 1, k) \in Seq(S)
      /\ Len(SubSeq(s, 1, k)) = k
      /\ \A i \in 1 .. k : SubSeq(s, 1, k)[i] = s[i]
  <2>1. \A i \in 1 .. k : s[i] \in S
    BY <1>1
  <2> QED
    BY <1>1, <2>1, SubSeqProperties
<1>3. SubSeq(s, k + 1, Len(s)) \in Seq(S)
  <2>1. \A i \in k + 1 .. Len(s) : s[i] \in S
    BY <1>1
  <2> QED
    BY <1>1, <2>1, SubSeqProperties
<1>4. SubSeq(s, 1, k) \o SubSeq(s, k + 1, Len(s)) = SubSeq(s, 1, Len(s))
  BY <1>1, ConcatAdjacentSubSeq
<1> QED
  BY <1>2, <1>3, <1>4, SubSeqFull

LEMMA InitIInv == Init => IInv
<1> SUFFICES ASSUME Init PROVE IInv
  OBVIOUS
<1>1. TypeOK
  BY BoundAssumption DEF Init, TypeOK
<1>2. Before /\ OneEnd /\ InTransit
  BY DEF Init, Before, OneEnd, InTransit, Side
<1> QED
  BY <1>1, <1>2 DEF IInv

-----------------------------------------------------------------------------
(* The peers *)

(* A chunk at the end of the last of two sequences is at the end of both.  *)
LEMMA AppendLast ==
  ASSUME NEW S, NEW a \in Seq(S), NEW b \in Seq(S), NEW m \in S
  PROVE  a \o Append(b, m) = Append(a \o b, m)
<1>1. a \o b \in Seq(S)
  BY ConcatProperties
<1>2. Append(b, m) = b \o <<m>> /\ Append(a \o b, m) = (a \o b) \o <<m>>
  BY <1>1, AppendIsConcat
<1>3. \E c \in Seq(S) : c = <<m>>
  <2>1. <<m>> \in Seq(S)
    OBVIOUS
  <2> QED
    BY <2>1
<1>4. PICK c \in Seq(S) : c = <<m>>
  BY <1>3
<1>5. a \o (b \o c) = (a \o b) \o c
  BY ConcatAssociative
<1> QED
  BY <1>2, <1>4, <1>5

LEMMA AppendStream ==
  ASSUME NEW n \in Nat
  PROVE  Append([k \in 1 .. n |-> k], n + 1) = [k \in 1 .. n + 1 |-> k]
<1> DEFINE s == [k \in 1 .. n |-> k]
           t == [k \in 1 .. n + 1 |-> k]
<1>1. s \in Seq(Nat) /\ t \in Seq(Nat) /\ Len(s) = n /\ Len(t) = n + 1
  OBVIOUS
<1>2. /\ \A k \in 1 .. n : s[k] = k
      /\ \A k \in 1 .. n + 1 : t[k] = k
  OBVIOUS
<1> HIDE DEF s, t
<1>3. /\ Append(s, n + 1) \in Seq(Nat) /\ Len(Append(s, n + 1)) = n + 1
      /\ \A k \in 1 .. n : Append(s, n + 1)[k] = s[k]
      /\ Append(s, n + 1)[n + 1] = n + 1
  BY <1>1, AppendProperties
<1>4. \A k \in 1 .. n + 1 : Append(s, n + 1)[k] = t[k]
  <2> SUFFICES ASSUME NEW k \in 1 .. n + 1 PROVE Append(s, n + 1)[k] = t[k]
    OBVIOUS
  <2>1. k \in 1 .. n \/ k = n + 1
    OBVIOUS
  <2> QED
    BY <2>1, <1>2, <1>3
<1>5. Append(s, n + 1) = t
  BY <1>1, <1>3, <1>4, SeqEqual
<1> QED
  BY <1>5 DEF s, t

LEMMA PeerSendsIInv ==
  ASSUME IInv, NEW d \in Side, PeerSends(d)
  PROVE  IInv'
<1>1. session = "open" /\ session' = session /\ closed_sides' = closed_sides
  BY DEF PeerSends, Exists, Open, ssn
<1> DEFINE m == sent[d] + 1
<1>2. m \in Chunks /\ sent[d] \in Nat
  BY BoundAssumption DEF IInv, TypeOK, PeerSends, Chunks
<1>3. /\ sent' = [sent EXCEPT ![d] = m]
      /\ wire' = [wire EXCEPT ![d] = Append(wire[d], m)]
      /\ UNCHANGED <<ssn, arrived, taken, ended, aborted, broken>>
  BY DEF PeerSends
<1>4. Append(wire[d], m) \in Seq(Chunks)
  <2>1. wire[d] \in Seq(Chunks)
    BY DEF IInv, TypeOK, Chunks
  <2> HIDE DEF m
  <2> QED
    BY <1>2, <2>1, AppendProperties
<1>5. TypeOK'
  <2>1. sent' \in [Side -> 0 .. MaxSend]
    BY <1>2, <1>3, BoundAssumption DEF IInv, TypeOK, Chunks
  <2>2. wire' \in [Side -> Seq(1 .. MaxSend)]
    BY <1>3, <1>4 DEF IInv, TypeOK, Chunks
  <2> QED
    BY <2>1, <2>2, <1>3 DEF IInv, TypeOK, ssn
<1>6. InTransit'
  <2> SUFFICES ASSUME NEW e \in Side
               PROVE  arrived[Other(e)] \o output[Other(e)] \o wire'[e] = Stream(e)'
    BY <1>1, <1>3 DEF InTransit, ssn
  <2>1. arrived[Other(e)] \o output[Other(e)] \o wire[e] = Stream(e)
    BY <1>1 DEF IInv, InTransit
  <2>2. CASE e # d
    <3>1. wire'[e] = wire[e] /\ sent'[e] = sent[e]
      BY <2>2, <1>3 DEF IInv, TypeOK
    <3> QED
      BY <2>1, <3>1 DEF Stream
  <2>3. CASE e = d
    <3> DEFINE x == arrived[Other(d)] \o output[Other(d)]
    <3>1. wire'[d] = Append(wire[d], m) /\ sent'[d] = m
      BY <1>3 DEF IInv, TypeOK
    <3>2. wire[d] \in Seq(Chunks) /\ x \in Seq(Chunks)
      BY SideFacts, ConcatProperties DEF IInv, TypeOK, Chunks
    <3>3. x \o Append(wire[d], m) = Append(x \o wire[d], m)
      <4> HIDE DEF x, m
      <4> QED
        BY <1>2, <3>2, AppendLast
    <3>4. Append(Stream(d), m) = [k \in 1 .. m |-> k]
      BY <1>2, AppendStream DEF Stream
    <3> QED
      BY <3>1, <3>3, <3>4, <2>1, <2>3 DEF Stream
  <2> QED
    BY <2>2, <2>3
<1>7. Before' /\ OneEnd'
  BY <1>1 DEF IInv, Before, OneEnd
<1> QED
  BY <1>5, <1>6, <1>7 DEF IInv

(* The other moves of the peers touch no byte on its way.                  *)
LEMMA BytesKeptIInv ==
  ASSUME IInv, TypeOK', OneEnd',
         UNCHANGED <<session, closed_sides, wire, output, arrived, sent>>
  PROVE  IInv'
<1>1. Before'
  BY DEF IInv, Before
<1>2. InTransit'
  BY DEF IInv, InTransit, Stream
<1> QED
  BY <1>1, <1>2 DEF IInv

LEMMA PeersIInv ==
  ASSUME IInv, Peers
  PROVE  IInv'
<1>1. CASE ConnectAnswered
  <2>1. TypeOK' /\ OneEnd'
    BY <1>1 DEF IInv, TypeOK, OneEnd, ConnectAnswered, peers
  <2> QED
    BY <1>1, <2>1, BytesKeptIInv DEF ConnectAnswered, peers
<1>2. ASSUME NEW d \in Side, PeerSends(d) PROVE IInv'
  BY <1>2, PeerSendsIInv
<1>3. ASSUME NEW d \in Side, PeerEnds(d) PROVE IInv'
  <2>1. TypeOK' /\ OneEnd'
    BY <1>3 DEF IInv, TypeOK, OneEnd, PeerEnds, ssn
  <2> QED
    BY <1>3, <2>1, BytesKeptIInv DEF PeerEnds, ssn
<1>4. ASSUME NEW d \in Side, PeerReads(d) PROVE IInv'
  <2>1. Len(arrived[d]) \in Nat /\ taken[d] + 1 \in 0 .. Len(arrived[d])
    BY <1>4 DEF IInv, TypeOK, PeerReads
  <2>2. TypeOK'
    <3>1. /\ taken' = [taken EXCEPT ![d] = taken[d] + 1]
          /\ UNCHANGED <<ssn, wire, arrived, sent, ended, aborted, broken>>
      BY <1>4 DEF PeerReads
    <3>2. /\ taken' \in [Side -> Nat]
          /\ \A e \in Side : /\ taken'[e] <= Len(arrived[e])
                             /\ Len(arrived[e]) - taken'[e] <= Room
      BY <3>1, <2>1, BoundAssumption, SMTT(30) DEF IInv, TypeOK
    <3> QED
      BY <3>1, <3>2 DEF IInv, TypeOK, ssn
  <2>3. OneEnd'
    BY <1>4 DEF IInv, OneEnd, PeerReads, ssn
  <2> QED
    BY <1>4, <2>2, <2>3, BytesKeptIInv DEF PeerReads, ssn
<1>5. ASSUME NEW d \in Side, PeerAborts(d) PROVE IInv'
  <2>1. TypeOK' /\ OneEnd'
    BY <1>5 DEF IInv, TypeOK, OneEnd, PeerAborts, ssn
  <2> QED
    BY <1>5, <2>1, BytesKeptIInv DEF PeerAborts, ssn
<1>6. ASSUME NEW d \in Side, ResetArrives(d) PROVE IInv'
  <2>1. TypeOK' /\ OneEnd'
    BY <1>6 DEF IInv, TypeOK, OneEnd, ResetArrives, ssn
  <2> QED
    BY <1>6, <2>1, BytesKeptIInv DEF ResetArrives, ssn
<1> QED
  BY <1>1, <1>2, <1>3, <1>4, <1>5, <1>6 DEF Peers

-----------------------------------------------------------------------------
(* The callbacks of the event loop *)

(* A session that is over has no bytes on their way left.                  *)
LEMMA FreedIInv ==
  ASSUME IInv, TypeOK', session' = "freed"
  PROVE  IInv'
BY DEF IInv, Before, OneEnd, InTransit

LEMMA OnAcceptIInv ==
  ASSUME IInv, OnAccept
  PROVE  IInv'
<1>1. TypeOK'
  BY DEF IInv, TypeOK, OnAccept, peers
<1>2. Before' /\ OneEnd'
  BY DEF Before, OneEnd, OnAccept
<1>3. InTransit'
  <2> SUFFICES ASSUME NEW d \in Side
               PROVE  arrived[Other(d)] \o output[Other(d)] \o wire[d] = Stream(d)
    BY DEF InTransit, OnAccept, peers, Stream
  <2>1. /\ arrived[Other(d)] = <<>> /\ output[Other(d)] = <<>> /\ wire[d] = <<>>
        /\ sent[d] = 0
    BY SideFacts DEF IInv, Before, OnAccept
  <2> QED
    BY <2>1 DEF Stream
<1> QED
  BY <1>1, <1>2, <1>3 DEF IInv

LEMMA ReadCbIInv ==
  ASSUME IInv, NEW d \in Side, ReadCb(d)
  PROVE  IInv'
<1>1. session = "open" /\ session' = session /\ closed_sides' = closed_sides
  BY DEF ReadCb, Exists, Open
<1>2. PICK k \in 1 .. Len(wire[d]) :
        /\ wire' = [wire EXCEPT ![d] = SubSeq(wire[d], k + 1, Len(wire[d]))]
        /\ output' = [output EXCEPT ![Other(d)] =
                        output[Other(d)] \o SubSeq(wire[d], 1, k)]
  BY DEF ReadCb, OutputOf
<1> DEFINE x == SubSeq(wire[d], 1, k)
           y == SubSeq(wire[d], k + 1, Len(wire[d]))
           a == arrived[Other(d)]
           b == output[Other(d)]
<1>3. wire[d] \in Seq(Chunks) /\ a \in Seq(Chunks) /\ b \in Seq(Chunks)
  BY SideFacts DEF IInv, TypeOK, Chunks
<1>4. x \in Seq(Chunks) /\ y \in Seq(Chunks) /\ x \o y = wire[d]
  BY <1>3, Cutting
<1>5. b \o x \in Seq(Chunks)
  BY <1>3, <1>4, ConcatProperties
<1>6. UNCHANGED <<proxy, session, link, closed_sides, shut, seen,
                  arrived, taken, sent, ended, aborted, broken>>
  BY DEF ReadCb
<1>7. TypeOK'
  <2>1. wire' \in [Side -> Seq(1 .. MaxSend)] /\ output' \in [Side -> Seq(1 .. MaxSend)]
    BY <1>2, <1>4, <1>5 DEF IInv, TypeOK, Chunks
  <2> QED
    BY <1>6, <2>1 DEF IInv, TypeOK
<1>8. InTransit'
  <2> SUFFICES ASSUME NEW e \in Side
               PROVE  arrived[Other(e)] \o output'[Other(e)] \o wire'[e] = Stream(e)
    BY <1>6 DEF InTransit, Stream
  <2>1. arrived[Other(e)] \o output[Other(e)] \o wire[e] = Stream(e)
    BY <1>1 DEF IInv, InTransit
  <2>2. CASE e # d
    <3>1. Other(e) # Other(d) /\ Other(e) \in Side
      BY <2>2, SideFacts
    <3>2. wire'[e] = wire[e] /\ output'[Other(e)] = output[Other(e)]
      BY <2>2, <3>1, <1>2 DEF IInv, TypeOK
    <3> QED
      BY <2>1, <3>2
  <2>3. CASE e = d
    <3>1. wire'[d] = y /\ output'[Other(d)] = b \o x
      BY <1>2, SideFacts DEF IInv, TypeOK
    <3>2. a \o (b \o x) \o y = a \o b \o (x \o y)
      <4>1. a \in Seq(Chunks) /\ b \in Seq(Chunks) /\ x \in Seq(Chunks) /\ y \in Seq(Chunks)
        BY <1>3, <1>4
      <4> HIDE DEF a, b, x, y
      <4> QED
        <5>1. a \o (b \o x) = (a \o b) \o x
          BY ONLY <4>1, ConcatAssociative, SMTT(30)
        <5>2. a \o b \in Seq(Chunks)
          BY ONLY <4>1, ConcatProperties
        <5>3. ((a \o b) \o x) \o y = (a \o b) \o (x \o y)
          BY ONLY <4>1, <5>2, ConcatAssociative, SMTT(30)
        <5> QED
          BY <5>1, <5>3
    <3> QED
      BY <1>4, <2>1, <2>3, <3>1, <3>2
  <2> QED
    BY <2>2, <2>3
<1>9. Before' /\ OneEnd'
  BY <1>1 DEF IInv, Before, OneEnd
<1> QED
  BY <1>7, <1>8, <1>9 DEF IInv

LEMMA WriteOutIInv ==
  ASSUME IInv, NEW d \in Side, WriteOut(d)
  PROVE  IInv'
<1>1. session = "open" /\ session' = session /\ closed_sides' = closed_sides
  BY DEF WriteOut, Exists, Open
<1>2. PICK k \in 1 .. Len(output[d]) :
        /\ k <= Room - (Len(arrived[d]) - taken[d])
        /\ output' = [output EXCEPT ![d] = SubSeq(output[d], k + 1, Len(output[d]))]
        /\ arrived' = [arrived EXCEPT ![d] = arrived[d] \o SubSeq(output[d], 1, k)]
  BY DEF WriteOut
<1> DEFINE x == SubSeq(output[d], 1, k)
           y == SubSeq(output[d], k + 1, Len(output[d]))
           a == arrived[d]
           w == wire[Other(d)]
<1>3. output[d] \in Seq(Chunks) /\ a \in Seq(Chunks) /\ w \in Seq(Chunks)
  BY SideFacts DEF IInv, TypeOK, Chunks
<1>4. x \in Seq(Chunks) /\ y \in Seq(Chunks) /\ x \o y = output[d] /\ Len(x) = k
  BY <1>3, Cutting
<1>5. a \o x \in Seq(Chunks) /\ Len(a \o x) = Len(a) + k
  BY <1>3, <1>4, ConcatProperties
<1>6. UNCHANGED <<proxy, session, link, closed_sides, shut, seen,
                  wire, taken, sent, ended, aborted, broken>>
  BY DEF WriteOut
<1>7. TypeOK'
  <2>1. output' \in [Side -> Seq(1 .. MaxSend)] /\ arrived' \in [Side -> Seq(1 .. MaxSend)]
    BY <1>2, <1>4, <1>5 DEF IInv, TypeOK, Chunks
  <2>2. ASSUME NEW e \in Side
        PROVE  taken[e] <= Len(arrived'[e]) /\ Len(arrived'[e]) - taken[e] <= Room
    <3>1. taken[e] \in Nat /\ Len(arrived[e]) \in Nat
      BY LenProperties DEF IInv, TypeOK
    <3>2. taken[e] <= Len(arrived[e]) /\ Len(arrived[e]) - taken[e] <= Room
      BY DEF IInv, TypeOK
    <3>3. CASE e # d
      <4>1. arrived'[e] = arrived[e]
        BY <3>3, <1>2 DEF IInv, TypeOK
      <4> QED
        BY <3>2, <4>1
    <3>4. CASE e = d
      <4>1. Len(arrived'[e]) = Len(arrived[e]) + k
        BY <3>4, <1>2, <1>5 DEF IInv, TypeOK
      <4>2. k \in Nat /\ k <= Room - (Len(arrived[e]) - taken[e])
        BY <3>4, <1>2, <1>3, LenProperties
      <4> QED
        BY <3>1, <3>2, <4>1, <4>2, BoundAssumption
    <3> QED
      BY <3>3, <3>4
  <2> QED
    BY <1>6, <2>1, <2>2 DEF IInv, TypeOK
<1>8. InTransit'
  <2> SUFFICES ASSUME NEW e \in Side
               PROVE  arrived'[Other(e)] \o output'[Other(e)] \o wire[e] = Stream(e)
    BY <1>6 DEF InTransit, Stream
  <2>1. arrived[Other(e)] \o output[Other(e)] \o wire[e] = Stream(e)
    BY <1>1 DEF IInv, InTransit
  <2>2. CASE Other(e) # d
    <3>1. arrived'[Other(e)] = arrived[Other(e)] /\ output'[Other(e)] = output[Other(e)]
      BY <2>2, <1>2, SideFacts DEF IInv, TypeOK
    <3> QED
      BY <2>1, <3>1
  <2>3. CASE Other(e) = d
    <3>1. e = Other(d)
      BY <2>3, SideFacts
    <3>2. arrived'[d] = a \o x /\ output'[d] = y
      BY <1>2 DEF IInv, TypeOK
    <3>3. (a \o x) \o y \o w = a \o (x \o y) \o w
      <4>1. a \in Seq(Chunks) /\ x \in Seq(Chunks) /\ y \in Seq(Chunks)
        BY <1>3, <1>4
      <4> HIDE DEF a, x, y, w
      <4> QED
        BY ONLY <4>1, ConcatAssociative
    <3> QED
      BY <1>4, <2>1, <2>3, <3>1, <3>2, <3>3
  <2> QED
    BY <2>2, <2>3
<1>9. Before' /\ OneEnd'
  BY <1>1 DEF IInv, Before, OneEnd
<1> QED
  BY <1>7, <1>8, <1>9 DEF IInv

LEMMA EofIInv ==
  ASSUME IInv, NEW d \in Side, Eof(d)
  PROVE  IInv'
<1>1. session = "open" /\ closed_sides \in {0, 1}
  BY DEF Eof, Exists, Open, IInv, OneEnd
<1>2. TypeOK'
  <2>1. closed_sides' \in 0 .. 2
    BY <1>1 DEF Eof, Counted
  <2>2. session' \in {"open", "freed"} /\ output' \in [Side -> Seq(1 .. MaxSend)]
    BY <1>1 DEF Eof, Freed, IInv, TypeOK
  <2>3. shut' \cup seen' \subseteq Side
    BY SideFacts DEF Eof, IInv, TypeOK
  <2>4. UNCHANGED <<proxy, peers>> /\ link' \in {"none", "connecting", "connected", "refused"}
    BY DEF Eof, IInv, TypeOK
  <2> QED
    BY <2>1, <2>2, <2>3, <2>4 DEF IInv, TypeOK, peers
<1>3. CASE Counted = 2
  BY <1>2, <1>3, FreedIInv DEF Eof, Freed
<1>4. CASE Counted # 2
  <2>1. OneEnd'
    BY <1>1, <1>4 DEF Eof, OneEnd, Counted
  <2> QED
    <3>1. UNCHANGED <<session, output>> /\ UNCHANGED peers
      BY <1>4 DEF Eof
    <3>2. Before'
      BY <1>1, <3>1 DEF Before
    <3>3. InTransit'
      BY <3>1 DEF IInv, InTransit, Stream, peers
    <3> QED
      BY <1>2, <2>1, <3>2, <3>3 DEF IInv
<1> QED
  BY <1>3, <1>4

LEMMA EventLoopIInv ==
  ASSUME IInv, EventLoop
  PROVE  IInv'
<1>1. CASE OnAccept
  BY <1>1, OnAcceptIInv
<1>2. CASE OnAcceptThrows
  <2>1. TypeOK' /\ OneEnd'
    BY <1>2 DEF IInv, TypeOK, OneEnd, OnAcceptThrows, peers
  <2> QED
    BY <1>2, <2>1, BytesKeptIInv DEF OnAcceptThrows, peers
<1>3. CASE Error
  <2>1. TypeOK'
    BY <1>3 DEF IInv, TypeOK, Error, Freed, peers
  <2> QED
    BY <1>3, <2>1, FreedIInv DEF Error, Freed
<1>4. ASSUME NEW d \in Side, ReadCb(d) PROVE IInv'
  BY <1>4, ReadCbIInv
<1>5. ASSUME NEW d \in Side, Eof(d) PROVE IInv'
  BY <1>5, EofIInv
<1>6. ASSUME NEW d \in Side, WriteOut(d) PROVE IInv'
  BY <1>6, WriteOutIInv
<1>7. ASSUME NEW d \in Side, WriteFails(d) PROVE IInv'
  <2>1. TypeOK' /\ OneEnd'
    BY <1>7 DEF IInv, TypeOK, OneEnd, WriteFails, peers
  <2> QED
    BY <1>7, <2>1, BytesKeptIInv DEF WriteFails, peers
<1> QED
  BY <1>1, <1>2, <1>3, <1>4, <1>5, <1>6, <1>7 DEF EventLoop

LEMMA NextIInv == IInv /\ [Next]_vars => IInv'
<1> SUFFICES ASSUME IInv, [Next]_vars PROVE IInv'
  OBVIOUS
<1>1. CASE Next
  BY <1>1, EventLoopIInv, PeersIInv DEF Next
<1>2. CASE UNCHANGED vars
  BY <1>2 DEF IInv, TypeOK, Before, OneEnd, InTransit, Stream, vars, ssn, peers
<1> QED
  BY <1>1, <1>2

LEMMA IInvAlways == Spec => []IInv
  BY InitIInv, NextIInv, PTL DEF Spec

(* Every variable keeps its type, and no socket holds more than it has     *)
(* room for: the value checks of TypeOK of the session of proxy.cpp.       *)
THEOREM SessionTypes == Spec => []TypeOK
<1>1. IInv => TypeOK
  BY DEF IInv
<1> QED
  BY <1>1, IInvAlways, PTL

(* While the session lives, what a peer has sent is what the other has got, *)
(* what waits in the output buffer of the other side and what read() has   *)
(* not returned, in this order: no callback of proxy.cpp loses, repeats or *)
(* overtakes a byte, whatever the sizes of the sockets and of the streams. *)
THEOREM NothingLost == Spec => []InTransit
<1>1. IInv => InTransit
  BY DEF IInv
<1> QED
  BY <1>1, IInvAlways, PTL

-----------------------------------------------------------------------------
(* The session implements the two streams *)

LEMMA SameSides ==
  /\ Session!Side = Side
  /\ \A d \in Side : Session!Other(d) = Other(d)
BY DEF Side, Other, Session!Side, Session!Other

(* The next chunks of a stream are the ones the output buffer begins with. *)
LEMMA NextOfStream ==
  ASSUME NEW S, NEW a \in Seq(S), NEW b \in Seq(S), NEW w \in Seq(S), NEW n \in Nat,
         a \o b \o w = [i \in 1 .. n |-> i], NEW k \in 1 .. Len(b)
  PROVE  /\ k <= n - Len(a)
         /\ SubSeq(b, 1, k) = [j \in 1 .. k |-> Len(a) + j]
<1>1. Len(a) \in Nat /\ Len(b) \in Nat /\ Len(w) \in Nat
  BY LenProperties
<1>2. a \o b \in Seq(S) /\ Len(a \o b) = Len(a) + Len(b)
  BY ConcatProperties
<1>3. Len(a \o b \o w) = Len(a) + Len(b) + Len(w)
  BY <1>2, ConcatProperties
<1>4. n = Len(a) + Len(b) + Len(w)
  <2>1. Len([i \in 1 .. n |-> i]) = n
    OBVIOUS
  <2> QED
    BY <1>3, <2>1
<1>5. \A j \in 1 .. k : b[j] = Len(a) + j
  <2> SUFFICES ASSUME NEW j \in 1 .. k PROVE b[j] = Len(a) + j
    OBVIOUS
  <2>1. j \in 1 .. Len(b) /\ Len(a) + j \in 1 .. Len(a \o b) /\ Len(a) + j \in 1 .. n
    BY <1>1, <1>2, <1>4
  <2>2. (a \o b)[Len(a) + j] = b[j]
    BY <1>1, <2>1, ConcatProperties
  <2>3. (a \o b \o w)[Len(a) + j] = (a \o b)[Len(a) + j]
    <3> DEFINE p == a \o b
               i == Len(a) + j
    <3>1. p \in Seq(S) /\ i \in 1 .. Len(p)
      BY <1>2, <2>1
    <3> HIDE DEF p, i
    <3>2. (p \o w)[i] = p[i]
      BY <3>1, ConcatProperties
    <3> QED
      BY <3>2 DEF p, i
  <2>4. (a \o b \o w)[Len(a) + j] = Len(a) + j
    BY <2>1
  <2> QED
    BY <2>2, <2>3, <2>4
<1>6. SubSeq(b, 1, k) = [j \in 1 .. k |-> b[j]]
  BY <1>1
<1> QED
  BY <1>1, <1>4, <1>5, <1>6

LEMMA OpenIsNotOver == Open => ~Over
BY DEF Open, Over

LEMMA InitStreams == Init => Session!Init
<1> SUFFICES ASSUME Init PROVE Session!Init
  OBVIOUS
<1>1. Over = FALSE
  BY DEF Init, Over
<1> QED
  BY <1>1 DEF Init, Session!Init, Session!Side, Side

LEMMA WriteOutDelivers ==
  ASSUME IInv, NEW d \in Side, WriteOut(d)
  PROVE  Session!Deliver(d)
<1>1. ~Over /\ session = "open" /\ sent' = sent /\ Over' = Over
  BY OpenIsNotOver DEF WriteOut, Exists, Open, Over
<1>2. PICK k \in 1 .. Len(output[d]) :
        arrived' = [arrived EXCEPT ![d] = arrived[d] \o SubSeq(output[d], 1, k)]
  BY DEF WriteOut
<1>3. /\ arrived[d] \in Seq(Chunks) /\ output[d] \in Seq(Chunks)
      /\ wire[Other(d)] \in Seq(Chunks) /\ sent[Other(d)] \in Nat
  BY SideFacts, BoundAssumption DEF IInv, TypeOK, Chunks
<1>4. arrived[d] \o output[d] \o wire[Other(d)] = [i \in 1 .. sent[Other(d)] |-> i]
  BY <1>1, SideFacts DEF IInv, InTransit, Stream
<1>5. /\ k <= sent[Other(d)] - Len(arrived[d])
      /\ SubSeq(output[d], 1, k) = [j \in 1 .. k |-> Len(arrived[d]) + j]
  <2> DEFINE a == arrived[d]
             b == output[d]
             w == wire[Other(d)]
             n == sent[Other(d)]
  <2>1. /\ a \in Seq(Chunks) /\ b \in Seq(Chunks) /\ w \in Seq(Chunks) /\ n \in Nat
        /\ a \o b \o w = [i \in 1 .. n |-> i] /\ k \in 1 .. Len(b)
    BY <1>3, <1>4
  <2> HIDE DEF a, b, w, n
  <2>2. /\ k <= n - Len(a)
        /\ SubSeq(b, 1, k) = [j \in 1 .. k |-> Len(a) + j]
    BY ONLY <2>1, NextOfStream
  <2> QED
    BY <2>2 DEF a, b, n
<1>6. k \in 1 .. sent[Session!Other(d)] - Len(arrived[d])
  <2>1. Len(arrived[d]) \in Nat /\ Len(output[d]) \in Nat
    BY <1>3, LenProperties
  <2> QED
    BY <1>3, <1>5, <2>1, SameSides
<1> QED
  BY <1>1, <1>2, <1>5, <1>6 DEF Session!Deliver

LEMMA NextStreams ==
  IInv /\ [Next]_vars => [Session!Next]_<<sent, arrived, Over>>
<1> SUFFICES ASSUME IInv, [Next]_vars
             PROVE  Session!Next \/ UNCHANGED <<sent, arrived, Over>>
  OBVIOUS
<1>1. ASSUME NEW d \in Side, PeerSends(d) PROVE Session!Next
  <2>1. ~Over /\ Over' = Over
    BY <1>1, OpenIsNotOver DEF PeerSends, Exists, Over, ssn
  <2>2. Session!Send(d)
    BY <1>1, <2>1 DEF PeerSends, Session!Send
  <2> QED
    BY <2>2, SameSides DEF Session!Next
<1>2. ASSUME NEW d \in Side, WriteOut(d) PROVE Session!Next
  BY <1>2, WriteOutDelivers, SameSides DEF Session!Next
<1>3. ASSUME OnAcceptThrows \/ Error \/ \E d \in Side : WriteFails(d)
      PROVE  Session!Next
  <2>1. ~Over /\ Over' /\ UNCHANGED <<sent, arrived>>
    BY <1>3 DEF OnAcceptThrows, Error, Freed, WriteFails, Exists, Open, Over, peers
  <2> QED
    BY <2>1 DEF Session!Next, Session!Cut
<1>4. ASSUME NEW d \in Side, Eof(d)
      PROVE  Session!Next \/ UNCHANGED <<sent, arrived, Over>>
  <2>1. ~Over /\ UNCHANGED <<proxy, sent, arrived>>
    BY <1>4 DEF Eof, Exists, Open, Over, peers
  <2>2. session' = "freed" \/ session' = session
    BY <1>4 DEF Eof, Freed
  <2>3. Over' = TRUE \/ Over' = Over
    BY <2>1, <2>2 DEF Over
  <2> QED
    BY <2>1, <2>3 DEF Session!Next, Session!Cut
<1>5. ASSUME \/ OnAccept \/ ConnectAnswered
             \/ \E d \in Side : ReadCb(d) \/ PeerEnds(d) \/ PeerReads(d) \/ PeerAborts(d)
                              \/ ResetArrives(d)
      PROVE  UNCHANGED <<sent, arrived, Over>>
  BY <1>5 DEF OnAccept, ConnectAnswered, ReadCb, PeerEnds, PeerReads, PeerAborts,
              ResetArrives, Over, ssn, peers
<1>6. CASE UNCHANGED vars
  BY <1>6 DEF vars, ssn, peers, Over
<1> QED
  BY <1>1, <1>2, <1>3, <1>4, <1>5, <1>6 DEF Next, EventLoop, Peers

(* Each peer gets what the other has sent, from the beginning and in order, *)
(* until the session is over: the callbacks of proxy.cpp implement the two *)
(* streams of Streams.tla, with what has arrived at a peer as what it got. *)
THEOREM TwoStreams == Spec => ImplementsStreams
<1>1. Init => Session!Init
  BY InitStreams
<1>2. IInv /\ [Next]_vars => [Session!Next]_<<sent, arrived, Over>>
  BY NextStreams
<1> QED
  BY <1>1, <1>2, IInvAlways, PTL DEF Spec, ImplementsStreams, Session!Spec
=============================================================================
