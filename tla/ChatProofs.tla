------------------------------ MODULE ChatProofs ------------------------------
(***************************************************************************)
(* Proofs about the chat server, for every number of clients and           *)
(* descriptors, every size of events[], of recv() and of the sockets.      *)
(***************************************************************************)
EXTENDS ChatServer, ListTheorems

-----------------------------------------------------------------------------
(* The inductive invariant *)

\* Every user has a descriptor of its own, which leads to a client of its own.
Users ==
  Running =>
    /\ IsInjective(users) /\ Range(users) = {f \in Fds : conn[f] # None}
    /\ \A f, g \in Fds : conn[f] = conn[g] /\ conn[f] # None => f = g

\* Whoever is not accepted yet waits once at most and has read nothing.
Newcomers ==
  Running =>
    /\ IsInjective(backlog)
    /\ \A c \in Range(backlog) : peer[c] # "none"
    /\ \A c \in Clients :
         c \in Range(backlog) \/ peer[c] = "none" =>
           inbox[c] = <<>> /\ \A f \in Fds : conn[f] # c

\* No descriptor stands twice in the ready list or in the batch, and the events of
\* the batch are still good.
Good(d) == IF d = Listen THEN backlog # <<>> ELSE conn[d] # None /\ Readable(d)

Events ==
  Running =>
    /\ IsInjective(ready) /\ IsInjective(batch)
    /\ \A d \in Range(batch) : Good(d)

Logged ==
  Running =>
    \A c \in Clients :
      Times("CONNECT", c) =
        Times("DISCON", c) + (IF \E f \in Fds : conn[f] = c THEN 1 ELSE 0)

\* While the server runs, no client has got what is not logged, and a user that has
\* not closed has got the greeting.
Delivered ==
  /\ InboxInOrder
  /\ Running =>
       \A c \in Clients :
         /\ \A k \in DOMAIN inbox[c] : inbox[c][k][1] <= Len(log)
         /\ peer[c] = "open" /\ (\E f \in Fds : conn[f] = c) => inbox[c] # <<>>

IInv == TypeOK /\ Users /\ Newcomers /\ Events /\ Logged /\ Delivered

-----------------------------------------------------------------------------
(* The ready list *)

\* The function that Only computes exists, so that it is what its equation says.
LEMMA OnlyExists ==
  ASSUME NEW T, NEW queue \in Seq(T), NEW S
  PROVE  LET n == Len(queue)
             next(f, i) == IF i = 0 THEN <<>>
                           ELSE IF queue[i] \in S THEN Append(f[i - 1], queue[i]) ELSE f[i - 1]
         IN  \E f : f = [i \in 0 .. n |-> next(f, i)]
<1> DEFINE n == Len(queue)
           next(f, i) == IF i = 0 THEN <<>>
                         ELSE IF queue[i] \in S THEN Append(f[i - 1], queue[i]) ELSE f[i - 1]
           Fine(k) == \E f : f = [i \in 0 .. k |-> next(f, i)]
           Bad == {k \in Nat : ~ Fine(k)}
<1>1. Fine(0)
  <2> DEFINE f == [i \in 0 .. 0 |-> <<>>]
  <2>1. f = [i \in 0 .. 0 |-> next(f, i)]
    OBVIOUS
  <2> QED BY <2>1
<1>2. ASSUME NEW k \in Nat, Fine(k) PROVE Fine(k + 1)
  <2>1. PICK f : f = [i \in 0 .. k |-> next(f, i)]
    BY <1>2
  <2> DEFINE g == [i \in 0 .. k + 1 |-> IF i <= k THEN f[i] ELSE next(f, k + 1)]
  <2>2. \A i \in 0 .. k + 1 : g[i] = next(g, i)
    <3> SUFFICES ASSUME NEW i \in 0 .. k + 1 PROVE g[i] = next(g, i)
      OBVIOUS
    <3>1. CASE i = 0
      <4>1. g[i] = f[i] /\ 0 \in 0 .. k
        BY <3>1
      <4>2. f[0] = next(f, 0)
        BY <2>1, <4>1
      <4> QED BY <3>1, <4>1, <4>2
    <3>2. CASE i # 0
      <4>1. i - 1 \in 0 .. k /\ g[i - 1] = f[i - 1]
        BY <3>2
      <4>2. g[i] = next(f, i)
        <5>1. CASE i <= k
          <6>1. g[i] = f[i] /\ i \in 0 .. k
            BY <5>1
          <6> HIDE DEF next, g
          <6> QED BY <6>1, <2>1
        <5>2. CASE i = k + 1
          <6> HIDE DEF next
          <6> QED BY <5>2
        <5> QED BY <5>1, <5>2
      <4> HIDE DEF g
      <4> QED BY <3>2, <4>1, <4>2
    <3> QED BY <3>1, <3>2
  <2>3. g = [i \in 0 .. k + 1 |-> next(g, i)]
    <3> HIDE DEF next
    <3> QED BY <2>2
  <2> QED BY <2>3
<1>3. Bad = {}
  <2> SUFFICES ASSUME Bad # {} PROVE FALSE
    OBVIOUS
  <2> HIDE DEF Fine
  <2>1. PICK m \in Bad : \A x \in Bad : m <= x
    <3>1. Bad \subseteq Nat
      OBVIOUS
    <3> HIDE DEF Bad
    <3> QED BY <3>1, LeastNumber
  <2>2. m \in Nat /\ ~ Fine(m) /\ m # 0
    BY <1>1
  <2>3. m - 1 \in Nat /\ m - 1 \notin Bad
    BY <2>1, <2>2
  <2>4. Fine(m - 1)
    BY <2>3
  <2>5. Fine((m - 1) + 1) /\ (m - 1) + 1 = m
    BY <2>2, <2>3, <2>4, <1>2
  <2> QED BY <2>2, <2>5
<1>4. Fine(n)
  <2>1. n \in Nat
    OBVIOUS
  <2> HIDE DEF Fine, n
  <2> QED BY <1>3, <2>1
<1> QED BY <1>4

\* What epoll_wait() finds stands in the list once, as in the list, and is in S.
LEMMA OnlyOnce ==
  ASSUME NEW T, NEW queue \in Seq(T), IsInjective(queue), NEW S
  PROVE  LET r == Only(queue, S)
         IN  r \in Seq(T) /\ IsInjective(r) /\ Range(r) \subseteq Range(queue) \cap S
<1> DEFINE n == Len(queue)
           next(f, i) == IF i = 0 THEN <<>>
                         ELSE IF queue[i] \in S THEN Append(f[i - 1], queue[i]) ELSE f[i - 1]
           upto == CHOOSE f : f = [i \in 0 .. n |-> next(f, i)]
           First(i) == {queue[j] : j \in 1 .. i}
           Fine(i) == /\ upto[i] \in Seq(T) /\ IsInjective(upto[i])
                      /\ Range(upto[i]) \subseteq First(i) \cap S
           Bad == {i \in 0 .. n : ~ Fine(i)}
<1>1. upto = [i \in 0 .. n |-> next(upto, i)]
  <2>1. \E f : f = [i \in 0 .. n |-> next(f, i)]
    BY OnlyExists
  <2> HIDE DEF next
  <2> QED BY <2>1
<1>2. Only(queue, S) = upto[n]
  BY DEF Only
<1> HIDE DEF upto
<1>3. n \in Nat
  OBVIOUS
<1>4. \A i \in 0 .. n : upto[i] = next(upto, i)
  <2> HIDE DEF next, n
  <2> QED BY <1>1
<1>5. Fine(0)
  <2>1. upto[0] = <<>>
    BY <1>3, <1>4
  <2> QED BY <2>1 DEF IsInjective, Range
<1>6. ASSUME NEW i \in 1 .. n, Fine(i - 1) PROVE Fine(i)
  <2>1. upto[i] = IF queue[i] \in S THEN Append(upto[i - 1], queue[i]) ELSE upto[i - 1]
    BY <1>3, <1>4
  <2>2. queue[i] \in T /\ queue[i] \notin First(i - 1) /\ First(i) = First(i - 1) \cup {queue[i]}
    <3>1. queue[i] \in T
      OBVIOUS
    <3>2. \A j \in 1 .. i - 1 : j \in 1 .. n /\ j # i
      BY <1>3
    <3>3. \A j \in 1 .. i - 1 : queue[j] # queue[i]
      BY <3>2 DEF IsInjective
    <3>4. \A j \in 1 .. i : j \in 1 .. i - 1 \/ j = i
      BY <1>3
    <3>5. i \in 1 .. i /\ \A j \in 1 .. i - 1 : j \in 1 .. i
      BY <1>3
    <3>6. First(i) = First(i - 1) \cup {queue[i]}
      BY <3>4, <3>5
    <3> QED BY <3>1, <3>3, <3>6
  <2>3. CASE queue[i] \in S
    <3>1. queue[i] \notin Range(upto[i - 1])
      BY <2>2, <1>6
    <3> DEFINE u == upto[i - 1]
               v == upto[i]
               e == queue[i]
    <3>2. u \in Seq(T) /\ IsInjective(u) /\ e \in T /\ e \notin Range(u) /\ v = Append(u, e)
      BY <2>1, <2>2, <2>3, <3>1, <1>6
    <3>3. v \in Seq(T) /\ IsInjective(v) /\ Range(v) = Range(u) \cup {e}
      <4> HIDE DEF u, v, e
      <4> QED BY <3>2, AppendNew
    <3> QED BY <3>3, <2>2, <2>3, <1>6
  <2>4. CASE queue[i] \notin S
    BY <2>1, <2>2, <2>4, <1>6
  <2> QED BY <2>3, <2>4
<1>7. Bad = {}
  <2> SUFFICES ASSUME Bad # {} PROVE FALSE
    OBVIOUS
  <2> HIDE DEF Fine
  <2>1. PICK m \in Bad : \A x \in Bad : m <= x
    <3>1. Bad \subseteq Nat
      OBVIOUS
    <3> HIDE DEF Bad
    <3> QED BY <3>1, LeastNumber
  <2> HIDE DEF n
  <2>2. m \in 1 .. n /\ ~ Fine(m)
    BY <1>3, <1>5
  <2>3. m - 1 \in 0 .. n /\ m - 1 \notin Bad
    BY <1>3, <2>1, <2>2
  <2>4. Fine(m - 1)
    BY <2>3
  <2> QED BY <2>2, <2>4, <1>6
<1>8. Fine(n)
  <2> HIDE DEF Fine, n
  <2> QED BY <1>3, <1>7
<1>9. First(n) = Range(queue)
  BY DEF Range
<1> QED BY <1>2, <1>8, <1>9

LEMMA QueuedOnce ==
  ASSUME NEW T, NEW queue \in Seq(T), IsInjective(queue), NEW S \in SUBSET T,
         \A d, e \in S : d = e
  PROVE  Queued(queue, S) \in Seq(T) /\ IsInjective(Queued(queue, S))
<1>1. CASE S \subseteq Range(queue)
  BY <1>1 DEF Queued
<1>2. CASE ~ (S \subseteq Range(queue))
  <2>1. PICK d \in S : d \notin Range(queue)
    BY <1>2
  <2>2. (CHOOSE x \in S : TRUE) = d
    BY <2>1
  <2>3. Queued(queue, S) = Append(queue, d)
    BY <1>2, <2>2 DEF Queued
  <2> QED BY <2>1, <2>3, AppendNew
<1> QED BY <1>1, <1>2

-----------------------------------------------------------------------------
(* The log and the inboxes *)

Entry == [kind : {"CONNECT", "COMMON", "DISCON"}, from : Clients, text : Seq(Chunk)]
Piece == Nat \X (1 .. MessageSize)

\* Entries of a kind about a client.
Places(lg, kind, c) == {i \in DOMAIN lg : lg[i].kind = kind /\ lg[i].from = c}

LEMMA PlacesFinite ==
  ASSUME NEW lg \in Seq(Entry), NEW kind, NEW c
  PROVE  IsFiniteSet(Places(lg, kind, c)) /\ Cardinality(Places(lg, kind, c)) \in Nat
<1> DEFINE n == Len(lg)
<1>1. n \in Nat /\ Places(lg, kind, c) \subseteq 1 .. n
  BY DEF Places
<1>2. IsFiniteSet(1 .. n)
  <2> HIDE DEF n
  <2> QED BY <1>1, FS_Interval
<1> QED BY <1>1, <1>2, FS_Subset, FS_CardinalityType

LEMMA PlacesAppend ==
  ASSUME NEW lg \in Seq(Entry), NEW msg \in Entry, NEW kind, NEW c
  PROVE  Cardinality(Places(Append(lg, msg), kind, c)) =
           Cardinality(Places(lg, kind, c)) + (IF msg.kind = kind /\ msg.from = c THEN 1 ELSE 0)
<1> DEFINE n == Len(lg)
           P == Places(lg, kind, c)
           Q == Places(Append(lg, msg), kind, c)
<1>1. n \in Nat /\ n + 1 \notin P
  BY DEF Places
<1>2. /\ DOMAIN Append(lg, msg) = 1 .. n + 1 /\ Append(lg, msg)[n + 1] = msg
      /\ \A i \in 1 .. n : Append(lg, msg)[i] = lg[i]
      /\ DOMAIN lg = 1 .. n
  OBVIOUS
<1>3. Q = IF msg.kind = kind /\ msg.from = c THEN P \cup {n + 1} ELSE P
  <2> HIDE DEF n
  <2> QED BY <1>1, <1>2 DEF Places
<1>4. IsFiniteSet(P) /\ Cardinality(P) \in Nat
  BY PlacesFinite
<1> HIDE DEF P, Q, n
<1>5. Cardinality(P \cup {n + 1}) = Cardinality(P) + 1
  BY <1>1, <1>4, FS_AddElement
<1> QED BY <1>3, <1>4, <1>5 DEF P, Q

\* InboxInOrder for the pieces `in' of client c and the log lg.
InOrder(in, c, lg) ==
  /\ in # <<>> => in[1] = <<0, 1>>
  /\ \A k \in 2 .. Len(in) :
       /\ \/ in[k - 1][1] < in[k][1] /\ in[k][2] = 1
          \/ in[k - 1][1] = in[k][1] /\ in[k - 1][2] < in[k][2]
       /\ \E i \in 1 .. in[k][1] - 1 : i <= Len(lg) /\ lg[i].kind = "CONNECT" /\ lg[i].from = c

LEMMA InOrderAll == InboxInOrder <=> \A c \in Clients : InOrder(inbox[c], c, log)
BY DEF InboxInOrder, InOrder

LEMMA InOrderLater ==
  ASSUME NEW in \in Seq(Piece), NEW c, NEW lg \in Seq(Entry), NEW msg \in Entry, InOrder(in, c, lg)
  PROVE  InOrder(in, c, Append(lg, msg))
<1>1. \A i \in Nat : i >= 1 /\ i <= Len(lg) =>
        i <= Len(Append(lg, msg)) /\ Append(lg, msg)[i] = lg[i]
  OBVIOUS
<1>2. \A k \in 2 .. Len(in) : in[k][1] \in Nat
  BY DEF Piece
<1> QED BY <1>1, <1>2 DEF InOrder

LEMMA InOrderMore ==
  ASSUME NEW in \in Seq(Piece), NEW c, NEW lg, NEW id \in Nat, NEW n \in 0 .. 2,
         in # <<>>, InOrder(in, c, lg), \A k \in DOMAIN in : in[k][1] < id,
         \E i \in 1 .. id - 1 : i <= Len(lg) /\ lg[i].kind = "CONNECT" /\ lg[i].from = c
  PROVE  InOrder(in \o Pieces(id, n), c, lg)
<1> DEFINE out == in \o Pieces(id, n)
           m == Len(in)
<1>1. /\ m \in Nat \ {0} /\ Len(out) = m + n
      /\ \A k \in 1 .. m : out[k] = in[k]
      /\ \A k \in 1 .. n : out[m + k] = <<id, k>>
  <2> DEFINE p == Pieces(id, n)
  <2>1. p \in Seq(Piece) /\ Len(p) = n /\ \A k \in 1 .. n : p[k] = <<id, k>>
    BY DEF Pieces, Piece, MessageSize
  <2> HIDE DEF p
  <2>2. m \in Nat \ {0} /\ Len(out) = m + n /\ \A k \in 1 .. m : out[k] = in[k]
    BY <2>1 DEF p
  <2>3. ASSUME NEW k \in 1 .. n PROVE out[m + k] = p[k]
    <3>1. m + k \in 1 .. Len(out) /\ ~ (m + k <= m) /\ (m + k) - m = k
      BY <2>2
    <3>2. out = in \o p /\ Len(in) = m
      BY DEF p
    <3> HIDE DEF out, m
    <3> QED BY <2>1, <2>2, <3>1, <3>2
  <2> HIDE DEF out, m
  <2> QED BY <2>1, <2>2, <2>3
<1> HIDE DEF out, m
<1>2. out # <<>> => out[1] = <<0, 1>>
  BY <1>1 DEF InOrder, m
<1>3. ASSUME NEW k \in 2 .. Len(out)
      PROVE  /\ \/ out[k - 1][1] < out[k][1] /\ out[k][2] = 1
                \/ out[k - 1][1] = out[k][1] /\ out[k - 1][2] < out[k][2]
             /\ \E i \in 1 .. out[k][1] - 1 : i <= Len(lg) /\ lg[i].kind = "CONNECT" /\ lg[i].from = c
  <2>1. CASE k <= m
    <3>1. k \in 2 .. Len(in) /\ out[k] = in[k] /\ out[k - 1] = in[k - 1]
      BY <1>1, <2>1 DEF m
    <3> QED BY <3>1 DEF InOrder
  <2>2. CASE k = m + 1
    <3>1. k - 1 = m /\ m \in 1 .. m /\ 1 \in 1 .. n
      BY <1>1, <2>2
    <3>2. out[k - 1] = in[m] /\ out[k] = <<id, 1>>
      BY <1>1, <2>2, <3>1
    <3>3. in[m][1] < id
      BY <1>1 DEF m
    <3> QED BY <3>2, <3>3
  <2>3. CASE k = m + 2
    <3>1. k - 1 = m + 1 /\ 1 \in 1 .. n /\ 2 \in 1 .. n
      BY <1>1, <2>3
    <3>2. out[k - 1] = <<id, 1>> /\ out[k] = <<id, 2>>
      BY <1>1, <2>3, <3>1
    <3> QED BY <3>2
  <2> QED BY <1>1, <2>1, <2>2, <2>3
<1> QED BY <1>2, <1>3 DEF InOrder, out

-----------------------------------------------------------------------------
(* Sending *)

\* The states a connection goes through that is sent to.
Poked(old, new) ==
  new = old \/ (old = "fin" /\ new = "poked") \/ (old = "reset" /\ new = "broken")

\* What Broadcast does to each client: nothing, or the message for those who had a
\* descriptor already, or the greeting.
LEMMA BroadcastDoes ==
  ASSUME TypeOK, NEW msg \in Entry, NEW at \in [Fds -> Clients \cup {None}], NEW us \in Seq(Fds),
         NEW G \in SUBSET {msg.from}, \A c \in G : inbox[c] = <<>>,
         status = "running", Broadcast(msg, at, us, G)
  PROVE  /\ peer' \in [Clients -> PeerState] /\ \A c \in Clients : Poked(peer[c], peer'[c])
         /\ \/ status' = "running" /\ log' = Append(log, msg)
            \/ status' = "killed" /\ log' = log
         /\ inbox' \in [Clients -> Seq(Piece)]
         /\ \A c \in Clients : Len(inbox'[c]) - seen[c] \in 0 .. SendBuf
         /\ \A c \in Clients :
              \/ inbox'[c] = inbox[c]
              \/ /\ peer[c] = "open" /\ c # msg.from /\ \E k \in DOMAIN us : at[us[k]] = c
                 /\ \E n \in 0 .. 2 : inbox'[c] = inbox[c] \o Pieces(Len(log) + 1, n)
              \/ c \in G /\ inbox'[c] = <<<<0, 1>>>>
         /\ status' = "running" => \A c \in G : peer[c] = "open" => inbox'[c] = <<<<0, 1>>>>
<1> DEFINE R       == Reached(msg, at, us)
           fatal   == Fatal(msg, at, us)
           greeted == IF fatal THEN {} ELSE G
           new(c)  == (IF c \in R THEN Pieces(Len(log) + 1, CanTake(c)) ELSE <<>>)
                        \o (IF c \in greeted THEN Pieces(0, 1) ELSE <<>>)
<1>1. /\ inbox' = [c \in Clients |-> IF peer[c] = "open" THEN inbox[c] \o new(c) ELSE inbox[c]]
      /\ peer' = [c \in Clients |->
                    IF c \in R \cup greeted THEN AfterSend(peer[c]) ELSE peer[c]]
      /\ IF fatal THEN status' = "killed" /\ log' = log
                   ELSE status' = status /\ log' = Append(log, msg)
  BY DEF Broadcast
<1>2. \A c \in R : c # msg.from /\ \E k \in DOMAIN us : at[us[k]] = c
  BY DEF Reached, Recipients
<1> HIDE DEF R, fatal
<1>3. peer' \in [Clients -> PeerState] /\ \A c \in Clients : Poked(peer[c], peer'[c])
  BY <1>1 DEF TypeOK, PeerState, AfterSend, Poked
<1>4. \A c \in Clients : CanTake(c) \in 0 .. 2 /\ CanTake(c) <= SendBuf - (Len(inbox[c]) - seen[c])
  BY SizeAssumption DEF TypeOK, CanTake, Lesser, MessageSize
<1>5. ASSUME NEW id \in Nat, NEW n \in 0 .. 2
      PROVE  Pieces(id, n) \in Seq(Piece) /\ Len(Pieces(id, n)) = n
  BY DEF Pieces, Piece, MessageSize
<1>6. Pieces(0, 1) = <<<<0, 1>>>>
  BY DEF Pieces
<1>7. \A c \in Clients : inbox[c] \in Seq(Piece) /\ seen[c] \in Nat
  BY DEF TypeOK, Piece
<1>8. Len(log) + 1 \in Nat
  BY DEF TypeOK
<1>9. ASSUME NEW c \in Clients
      PROVE  /\ inbox'[c] \in Seq(Piece) /\ Len(inbox'[c]) - seen[c] \in 0 .. SendBuf
             /\ \/ inbox'[c] = inbox[c]
                \/ /\ peer[c] = "open" /\ c # msg.from /\ \E k \in DOMAIN us : at[us[k]] = c
                   /\ \E n \in 0 .. 2 : inbox'[c] = inbox[c] \o Pieces(Len(log) + 1, n)
                \/ c \in G /\ inbox'[c] = <<<<0, 1>>>>
             /\ ~ fatal /\ c \in G /\ peer[c] = "open" => inbox'[c] = <<<<0, 1>>>>
  <2> DEFINE i == inbox[c]
             m == Pieces(Len(log) + 1, CanTake(c))
             g == Pieces(0, 1)
  <2>1. /\ i \in Seq(Piece) /\ m \in Seq(Piece) /\ Len(m) = CanTake(c)
        /\ Len(i) - seen[c] \in 0 .. SendBuf /\ seen[c] \in Nat
        /\ g \in Seq(Piece) /\ Len(g) = 1
    <3>1. m \in Seq(Piece) /\ Len(m) = CanTake(c)
      BY <1>4, <1>5, <1>8
    <3>2. g \in Seq(Piece) /\ Len(g) = 1
      BY <1>5
    <3>3. Len(i) - seen[c] \in 0 .. SendBuf
      BY DEF TypeOK
    <3> QED BY <3>1, <3>2, <3>3, <1>7
  <2>2. inbox'[c] = IF peer[c] = "open" THEN i \o new(c) ELSE i
    BY <1>1
  <2>3. CASE peer[c] # "open" \/ (c \notin R /\ c \notin greeted)
    <3>1. inbox'[c] = i
      <4>1. CASE peer[c] # "open"
        BY <2>2, <4>1
      <4>2. CASE c \notin R /\ c \notin greeted
        <5>1. new(c) = <<>> \o <<>>
          BY <4>2
        <5> HIDE DEF new, i
        <5>2. i \o (<<>> \o <<>>) = i
          BY <2>1
        <5> QED BY <2>2, <5>1, <5>2
      <4> QED BY <2>3, <4>1, <4>2
    <3> QED BY <3>1, <2>1, <2>3
  <2>4. CASE peer[c] = "open" /\ c \in R
    <3>1. c \notin greeted /\ c \notin G
      BY <2>4, <1>2
    <3>2. new(c) = m \o <<>>
      BY <2>4, <3>1
    <3>3. inbox'[c] = i \o m
      <4> HIDE DEF new, i, m
      <4>1. m \o <<>> = m
        BY <2>1
      <4> QED BY <2>2, <2>4, <3>2, <4>1
    <3>4. inbox'[c] \in Seq(Piece) /\ Len(inbox'[c]) - seen[c] \in 0 .. SendBuf
      <4>1. CanTake(c) \in 0 .. 2 /\ CanTake(c) <= SendBuf - (Len(i) - seen[c]) /\ SendBuf \in Nat
        BY <1>4, SizeAssumption
      <4> HIDE DEF i, m
      <4>2. inbox'[c] \in Seq(Piece) /\ Len(inbox'[c]) = Len(i) + CanTake(c) /\ Len(i) \in Nat
        BY <2>1, <3>3
      <4> QED BY <2>1, <4>1, <4>2, SMTT(30)
    <3> QED BY <3>1, <3>3, <3>4, <2>4, <1>2, <1>4
  <2>5. CASE peer[c] = "open" /\ c \notin R /\ c \in greeted
    <3>1. i = <<>> /\ c \in G
      BY <2>5
    <3>2. new(c) = <<>> \o g
      BY <2>5
    <3>3. inbox'[c] = g
      <4> HIDE DEF new, i, g
      <4>1. <<>> \o (<<>> \o g) = g
        BY <2>1
      <4> QED BY <2>2, <2>5, <3>1, <3>2, <4>1
    <3>4. Len(inbox'[c]) = 1 /\ seen[c] = 0
      BY <2>1, <3>1, <3>3
    <3>5. Len(inbox'[c]) - seen[c] \in 0 .. SendBuf
      BY <3>4, SizeAssumption
    <3>6. inbox'[c] = <<<<0, 1>>>> /\ inbox'[c] \in Seq(Piece)
      BY <2>1, <3>3, <1>6
    <3> QED BY <3>1, <3>5, <3>6
  <2> QED BY <2>3, <2>4, <2>5
<1>10. inbox' \in [Clients -> Seq(Piece)]
  BY <1>1, <1>9
<1>11. /\ \/ status' = "running" /\ log' = Append(log, msg)
          \/ status' = "killed" /\ log' = log
       /\ status' = "running" => ~ fatal
  BY <1>1
<1>12. status' = "running" => \A c \in G : c \in Clients /\ peer[c] = "open" => inbox'[c] = <<<<0, 1>>>>
  BY <1>9, <1>11
<1>13. G \subseteq Clients
  BY DEF Entry
<1> QED BY <1>3, <1>9, <1>10, <1>11, <1>12, <1>13

\* Who has a descriptor is in the log as connected.
LEMMA ConnectLogged ==
  ASSUME TypeOK, Logged, Running, NEW c \in Clients, \E f \in Fds : conn[f] = c
  PROVE  \E i \in 1 .. Len(log) : log[i].kind = "CONNECT" /\ log[i].from = c
<1> DEFINE P == Places(log, "CONNECT", c)
           Q == Places(log, "DISCON", c)
<1>1. log \in Seq(Entry)
  BY DEF TypeOK, Entry
<1>2. Cardinality(P) = Cardinality(Q) + 1
  BY DEF Logged, Times, Places
<1>3. IsFiniteSet(P) /\ Cardinality(P) \in Nat /\ Cardinality(Q) \in Nat
  BY <1>1, PlacesFinite
<1>4. P # {}
  <2> HIDE DEF P, Q
  <2> QED BY <1>2, <1>3, FS_EmptySet
<1> QED BY <1>1, <1>4 DEF Places

LEMMA DeliveredStays ==
  ASSUME IInv, Running,
         NEW msg \in Entry, NEW at \in [Fds -> Clients \cup {None}], NEW us \in Seq(Fds),
         NEW G \in SUBSET {msg.from}, \A c \in G : inbox[c] = <<>>, Broadcast(msg, at, us, G),
         \A k \in DOMAIN us, c \in Clients :
           at[us[k]] = c /\ c # msg.from => \E f \in Fds : conn[f] = c,
         \A c \in Clients, f \in Fds : conn'[f] = c => c \in G \/ \E g \in Fds : conn[g] = c
  PROVE  Delivered'
<1>1. /\ \A c \in Clients : Poked(peer[c], peer'[c])
      /\ \/ status' = "running" /\ log' = Append(log, msg)
         \/ status' = "killed" /\ log' = log
      /\ \A c \in Clients :
           \/ inbox'[c] = inbox[c]
           \/ /\ peer[c] = "open" /\ c # msg.from /\ \E k \in DOMAIN us : at[us[k]] = c
              /\ \E n \in 0 .. 2 : inbox'[c] = inbox[c] \o Pieces(Len(log) + 1, n)
           \/ c \in G /\ inbox'[c] = <<<<0, 1>>>>
      /\ status' = "running" => \A c \in G : peer[c] = "open" => inbox'[c] = <<<<0, 1>>>>
  BY BroadcastDoes DEF IInv, Running
<1>2. log \in Seq(Entry) /\ Len(log) \in Nat /\ Len(Append(log, msg)) = Len(log) + 1
  BY DEF IInv, TypeOK, Entry
<1>3. \A c \in Clients :
        /\ inbox[c] \in Seq(Piece) /\ InOrder(inbox[c], c, log)
        /\ \A k \in DOMAIN inbox[c] : inbox[c][k][1] <= Len(log) /\ inbox[c][k][1] \in Nat
        /\ peer[c] = "open" /\ (\E f \in Fds : conn[f] = c) => inbox[c] # <<>>
  <2>1. inbox \in [Clients -> Seq(Piece)]
    BY DEF IInv, TypeOK, Piece
  <2>2. \A c \in Clients : InOrder(inbox[c], c, log)
    BY InOrderAll DEF IInv, Delivered
  <2>3. ASSUME NEW c \in Clients, NEW k \in DOMAIN inbox[c]
        PROVE  inbox[c][k][1] <= Len(log) /\ inbox[c][k][1] \in Nat
    <3>1. inbox[c] \in Seq(Piece) /\ k \in 1 .. Len(inbox[c])
      BY <2>1, <2>3
    <3>2. inbox[c][k] \in Piece
      BY <3>1
    <3> QED BY <3>2 DEF IInv, Delivered, Piece
  <2>4. \A c \in Clients : peer[c] = "open" /\ (\E f \in Fds : conn[f] = c) => inbox[c] # <<>>
    BY DEF IInv, Delivered
  <2> QED BY <2>1, <2>2, <2>3, <2>4
<1>a. ASSUME NEW x \in Seq(Piece), NEW c, InOrder(x, c, log) PROVE InOrder(x, c, log')
  <2>1. InOrder(x, c, Append(log, msg))
    BY <1>a, <1>2, InOrderLater
  <2> QED BY <2>1, <1>a, <1>1
<1>4. ASSUME NEW c \in Clients
      PROVE  /\ InOrder(inbox'[c], c, log')
             /\ status' = "running" =>
                  /\ \A k \in DOMAIN inbox'[c] : inbox'[c][k][1] <= Len(log) + 1
                  /\ peer'[c] = "open" /\ (\E f \in Fds : conn'[f] = c) => inbox'[c] # <<>>
  <2>1. CASE inbox'[c] = inbox[c]
    <3>1. InOrder(inbox'[c], c, log')
      BY <2>1, <1>3, <1>a
    <3>2. \A k \in DOMAIN inbox'[c] : inbox'[c][k][1] <= Len(log) + 1
      BY <2>1, <1>2, <1>3
    <3>3. ASSUME status' = "running", peer'[c] = "open", \E f \in Fds : conn'[f] = c
          PROVE  inbox'[c] # <<>>
      <4>1. peer[c] = "open"
        BY <3>3, <1>1 DEF Poked
      <4>2. CASE c \in G
        <5>1. inbox'[c] = <<<<0, 1>>>>
          BY <4>1, <4>2, <3>3, <1>1
        <5> QED BY <5>1
      <4>3. CASE \E f \in Fds : conn[f] = c
        BY <4>1, <4>3, <2>1, <1>3
      <4> QED BY <4>2, <4>3, <3>3
    <3> QED BY <3>1, <3>2, <3>3
  <2>2. CASE /\ peer[c] = "open" /\ c # msg.from /\ \E k \in DOMAIN us : at[us[k]] = c
             /\ \E n \in 0 .. 2 : inbox'[c] = inbox[c] \o Pieces(Len(log) + 1, n)
    <3>1. PICK n \in 0 .. 2 : inbox'[c] = inbox[c] \o Pieces(Len(log) + 1, n)
      BY <2>2
    <3> DEFINE in == inbox[c]
               id == Len(log) + 1
               p == Pieces(id, n)
    <3>2. \E f \in Fds : conn[f] = c
      BY <2>2
    <3>3. in # <<>> /\ in \in Seq(Piece) /\ InOrder(in, c, log)
      BY <2>2, <3>2, <1>3
    <3>4. \E i \in 1 .. id - 1 : i <= Len(log) /\ log[i].kind = "CONNECT" /\ log[i].from = c
      <4>1. \E i \in 1 .. Len(log) : log[i].kind = "CONNECT" /\ log[i].from = c
        BY <3>2, ConnectLogged DEF IInv
      <4> QED BY <4>1, <1>2
    <3>5. id \in Nat /\ \A k \in DOMAIN in : in[k][1] < id
      BY <1>2, <1>3
    <3>6. InOrder(in \o p, c, log)
      <4> HIDE DEF in, id
      <4> QED BY <3>3, <3>4, <3>5, InOrderMore
    <3>7. p \in Seq(Piece) /\ Len(p) = n /\ \A k \in 1 .. n : p[k][1] = id
      BY <3>5 DEF Pieces, Piece, MessageSize
    <3>8. /\ in \o p \in Seq(Piece) /\ in \o p # <<>>
          /\ \A k \in DOMAIN (in \o p) : (in \o p)[k][1] <= id
      <4> HIDE DEF in, id, p
      <4>1. in \o p \in Seq(Piece) /\ in \o p # <<>> /\ Len(in \o p) = Len(in) + n /\ Len(in) \in Nat
        BY <3>3, <3>7
      <4>2. ASSUME NEW k \in 1 .. Len(in) + n PROVE (in \o p)[k][1] <= id
        <5>1. CASE k <= Len(in)
          <6>1. (in \o p)[k] = in[k] /\ k \in DOMAIN in
            BY <5>1, <3>3, <3>7, <4>1
          <6> QED BY <6>1, <1>3, <3>5 DEF in
        <5>2. CASE k > Len(in)
          <6>1. (in \o p)[k] = p[k - Len(in)] /\ k - Len(in) \in 1 .. n
            BY <5>2, <3>3, <3>7, <4>1
          <6> QED BY <6>1, <3>5, <3>7
        <5> QED BY <5>1, <5>2, <4>1
      <4> QED BY <4>1, <4>2
    <3>9. InOrder(inbox'[c], c, log')
      <4> HIDE DEF in, id, p
      <4>1. inbox'[c] = in \o p
        BY <3>1 DEF in, id, p
      <4> QED BY <4>1, <3>6, <3>8, <1>a
    <3> QED BY <3>1, <3>8, <3>9
  <2>3. CASE c \in G /\ inbox'[c] = <<<<0, 1>>>>
    BY <2>3, <1>2 DEF InOrder
  <2> QED BY <1>1, <2>1, <2>2, <2>3
<1>5. InboxInOrder'
  BY <1>4 DEF InboxInOrder, InOrder
<1>6. status' = "running" => Len(log') = Len(log) + 1
  BY <1>1, <1>2
<1> QED BY <1>4, <1>5, <1>6 DEF Delivered, Running
-----------------------------------------------------------------------------
(* Every step preserves the invariant: the environment and epoll_wait() *)

Descriptors == Fds \cup {Listen}

LEMMA InitInv == Init => IInv
<1> SUFFICES ASSUME Init PROVE IInv
  OBVIOUS
<1> USE DEF Init
<1>1. TypeOK
  BY SizeAssumption DEF TypeOK, PeerState
<1>2. Users
  BY DEF Users, IsInjective, Range
<1>3. Newcomers
  BY ListenAssumption DEF Newcomers, IsInjective, Range
<1>4. Events
  BY DEF Events, IsInjective, Range
<1>5. Logged
  <2>1. \A kind, c : Times(kind, c) = 0
    BY FS_EmptySet DEF Times
  <2>2. \A c \in Clients : ~ \E f \in Fds : conn[f] = c
    BY ListenAssumption
  <2> QED BY <2>1, <2>2 DEF Logged
<1>6. Delivered
  BY ListenAssumption DEF Delivered, InboxInOrder
<1> QED BY <1>1, <1>2, <1>3, <1>4, <1>5, <1>6 DEF IInv

\* What has been delivered stays in order while nothing is sent.
LEMMA DeliveredSame ==
  ASSUME Delivered, inbox' = inbox, log' = log,
         Running' =>
           /\ Running
           /\ \A c \in Clients :
                peer'[c] = "open" /\ (\E f \in Fds : conn'[f] = c) =>
                  peer[c] = "open" /\ \E f \in Fds : conn[f] = c
  PROVE  Delivered'
<1>1. InboxInOrder'
  BY DEF Delivered, InboxInOrder
<1>2. ASSUME Running', NEW c \in Clients
      PROVE  /\ \A k \in DOMAIN inbox'[c] : inbox'[c][k][1] <= Len(log')
             /\ peer'[c] = "open" /\ (\E f \in Fds : conn'[f] = c) => inbox'[c] # <<>>
  BY <1>2 DEF Delivered
<1> QED BY <1>1, <1>2 DEF Delivered

LEMMA LoggedSame ==
  ASSUME Logged, log' = log, conn' = conn, status' = status
  PROVE  Logged'
BY DEF Logged, Times, Running

\* The server has ended.
LEMMA StopInv ==
  ASSUME IInv, NEW reason \in {"accept", "recv", "SIGINT"}, Stop(reason)
  PROVE  IInv'
<1>1. ~ Running'
  BY DEF Stop, Running
<1>2. TypeOK'
  BY SizeAssumption DEF IInv, TypeOK, Stop
<1>3. Delivered'
  BY <1>1, DeliveredSame DEF IInv, Stop
<1> QED BY <1>1, <1>2, <1>3 DEF IInv, Users, Newcomers, Events, Logged

\* An event of the batch stays good unless its own client's data are taken.
LEMMA GoodStays ==
  ASSUME TypeOK, NEW d \in Descriptors, Good(d),
         d = Listen => backlog' # <<>>,
         d # Listen =>
           /\ conn'[d] = conn[d]
           /\ \A c \in Clients : conn[d] = c =>
                /\ unread[c] # <<>> => unread'[c] # <<>>
                /\ peer[c] \in {"fin", "poked", "broken", "reset"} =>
                     peer'[c] \in {"fin", "poked", "broken", "reset"}
  PROVE  Good(d)'
<1>1. CASE d = Listen
  BY <1>1 DEF Good
<1>2. CASE d # Listen
  <2>1. d \in Fds /\ conn[d] \in Clients
    BY <1>2 DEF Descriptors, Good, TypeOK
  <2> QED BY <1>2, <2>1 DEF Good, Readable
<1> QED BY <1>1, <1>2

LEMMA WakeOnce ==
  ASSUME IInv, Running, NEW c \in Clients, Wake(c)
  PROVE  ready' \in Seq(Descriptors) /\ IsInjective(ready')
<1>1. FdOf(c) \in SUBSET Descriptors /\ \A d, e \in FdOf(c) : d = e
  BY ListenAssumption DEF IInv, Users, FdOf, Descriptors
<1>2. ready \in Seq(Descriptors) /\ IsInjective(ready)
  BY DEF IInv, TypeOK, Events, Descriptors
<1> DEFINE q == FdOf(c)
<1>3. Queued(ready, q) \in Seq(Descriptors) /\ IsInjective(Queued(ready, q))
  <2> HIDE DEF q
  <2> QED BY <1>1, <1>2, QueuedOnce DEF q
<1> QED BY <1>3 DEF Wake

\* The peer of a connection goes on without the server.
LEMMA PeerInv ==
  ASSUME IInv, Running, UNCHANGED <<server, inbox, backlog>>, TypeOK',
         IsInjective(ready'),
         \A c \in Clients :
           /\ unread[c] # <<>> => unread'[c] # <<>>
           /\ \/ peer'[c] = peer[c]
              \/ peer[c] = "open" /\ peer'[c] \in {"fin", "reset"}
              \/ peer[c] = "poked" /\ peer'[c] = "broken"
  PROVE  IInv'
<1>1. UNCHANGED <<status, users, batch, log, conn>>
  BY DEF server
<1>2. Users'
  BY <1>1 DEF IInv, Users, Running
<1>3. Newcomers'
  <2>1. backlog \in Seq(Clients)
    BY DEF IInv, TypeOK
  <2>2. \A c \in Range(backlog) : c \in Clients
    BY <2>1 DEF Range
  <2>3. IsInjective(backlog) /\ \A c \in Range(backlog) : peer[c] # "none"
    BY DEF IInv, Newcomers
  <2>4. \A c \in Range(backlog) : peer'[c] # "none"
    BY <2>2, <2>3
  <2>5. ASSUME NEW c \in Clients, c \in Range(backlog) \/ peer'[c] = "none"
        PROVE  inbox[c] = <<>> /\ \A f \in Fds : conn[f] # c
    BY <2>5 DEF IInv, Newcomers
  <2> QED BY <1>1, <2>3, <2>4, <2>5 DEF Newcomers
<1>4. Events'
  <2>1. IsInjective(batch) /\ \A d \in Range(batch) : d \in Descriptors /\ Good(d)
    <3>1. batch \in Seq(Descriptors)
      BY DEF IInv, TypeOK, Descriptors
    <3> QED BY <3>1 DEF IInv, Events, Range
  <2>2. ASSUME NEW d \in Range(batch) PROVE Good(d)'
    <3>1. d \in Descriptors /\ Good(d) /\ TypeOK
      BY <2>1 DEF IInv
    <3>2. d = Listen => backlog' # <<>>
      BY <3>1 DEF Good
    <3> QED BY <3>1, <3>2, <1>1, GoodStays
  <2> QED BY <1>1, <2>1, <2>2 DEF Events
<1>5. Logged'
  BY <1>1, LoggedSame DEF IInv
<1>6. Delivered'
  <2>1. \A c \in Clients : peer'[c] = "open" => peer[c] = "open"
    OBVIOUS
  <2> QED BY <1>1, <2>1, DeliveredSame DEF IInv
<1> QED BY <1>2, <1>3, <1>4, <1>5, <1>6 DEF IInv

LEMMA ReadInv == ASSUME IInv, NEW c \in Clients, Read(c) PROVE IInv'
<1>1. TypeOK'
  <2>1. /\ seen' \in [Clients -> Nat] /\ inbox' = inbox
        /\ \A x \in Clients : Len(inbox[x]) - seen'[x] \in 0 .. SendBuf
    <3>1. Len(inbox[c]) \in Nat /\ SendBuf \in Nat
      BY SizeAssumption DEF IInv, TypeOK
    <3>2. seen \in [Clients -> Nat] /\ \A x \in Clients : Len(inbox[x]) - seen[x] \in 0 .. SendBuf
      BY DEF IInv, TypeOK
    <3>3. seen' = [seen EXCEPT ![c] = Len(inbox[c])] /\ inbox' = inbox
      BY DEF Read
    <3>4. \A x \in Clients : seen'[x] = IF x = c THEN Len(inbox[c]) ELSE seen[x]
      BY <3>2, <3>3
    <3>5. Len(inbox[c]) - Len(inbox[c]) \in 0 .. SendBuf
      BY <3>1
    <3> QED BY <3>1, <3>2, <3>3, <3>4, <3>5
  <2> QED BY <2>1 DEF IInv, TypeOK, Read, server
<1>2. IsInjective(ready')
  BY DEF IInv, Events, Read
<1> QED BY <1>1, <1>2, PeerInv DEF Read

LEMMA SendInv == ASSUME IInv, NEW c \in Clients, NEW k \in Chunk, Send(c, k) PROVE IInv'
<1>1. ready' \in Seq(Descriptors) /\ IsInjective(ready')
  BY WakeOnce DEF Send
<1>2. unread' = [unread EXCEPT ![c] = Append(@, k)] /\ unread \in [Clients -> Seq(Chunk)]
  BY DEF IInv, TypeOK, Send
<1>3. \A x \in Clients :
        unread'[x] \in Seq(Chunk) /\ (unread[x] # <<>> => unread'[x] # <<>>)
  BY <1>2
<1>4. TypeOK'
  <2>1. unread' \in [Clients -> Seq(Chunk)]
    BY <1>2, <1>3
  <2>2. sent' \in [Clients -> 0 .. MaxSend]
    BY SizeAssumption DEF IInv, TypeOK, Send
  <2> QED BY <1>1, <2>1, <2>2 DEF IInv, TypeOK, Send, server, Descriptors
<1> QED BY <1>1, <1>3, <1>4, PeerInv DEF Send

LEMMA CloseInv == ASSUME IInv, NEW c \in Clients, Close(c) PROVE IInv'
<1>1. ready' \in Seq(Descriptors) /\ IsInjective(ready')
  BY WakeOnce DEF Close
<1>2. /\ peer' \in [Clients -> PeerState]
      /\ \A x \in Clients :
           \/ peer'[x] = peer[x]
           \/ peer[x] = "open" /\ peer'[x] \in {"fin", "reset"}
  BY DEF IInv, TypeOK, Close, PeerState
<1>3. TypeOK'
  BY <1>1, <1>2 DEF IInv, TypeOK, Close, server, Descriptors
<1> QED BY <1>1, <1>2, <1>3, PeerInv DEF Close

LEMMA ResetInv == ASSUME IInv, NEW c \in Clients, ResetArrives(c) PROVE IInv'
<1>1. ready' \in Seq(Descriptors) /\ IsInjective(ready')
  BY WakeOnce DEF ResetArrives
<1>2. /\ peer' \in [Clients -> PeerState]
      /\ \A x \in Clients : peer'[x] = peer[x] \/ (peer[x] = "poked" /\ peer'[x] = "broken")
  BY DEF IInv, TypeOK, ResetArrives, PeerState
<1>3. TypeOK'
  BY <1>1, <1>2 DEF IInv, TypeOK, ResetArrives, server, Descriptors
<1> QED BY <1>1, <1>2, <1>3, PeerInv DEF ResetArrives
LEMMA ConnectInv == ASSUME IInv, NEW c \in Clients, Connect(c) PROVE IInv'
<1>1. /\ UNCHANGED <<status, users, batch, log, conn, unread, sent, inbox, seen>>
      /\ Running /\ peer[c] = "none" /\ peer' = [peer EXCEPT ![c] = "open"]
      /\ backlog' = Append(backlog, c)
  BY DEF Connect, server
<1>2. ready' \in Seq(Descriptors) /\ IsInjective(ready')
  <2>1. /\ ready \in Seq(Descriptors) /\ IsInjective(ready)
        /\ {Listen} \in SUBSET Descriptors /\ \A d, e \in {Listen} : d = e
    BY <1>1 DEF IInv, TypeOK, Events, Descriptors
  <2> DEFINE S == {Listen}
  <2>2. Queued(ready, S) \in Seq(Descriptors) /\ IsInjective(Queued(ready, S))
    <3> HIDE DEF S
    <3> QED BY <2>1, QueuedOnce DEF S
  <2> QED BY <2>2 DEF Connect
<1>3. backlog \in Seq(Clients) /\ IsInjective(backlog) /\ c \notin Range(backlog)
  BY <1>1 DEF IInv, TypeOK, Newcomers
<1>4. /\ backlog' \in Seq(Clients) /\ IsInjective(backlog')
      /\ Range(backlog') = Range(backlog) \cup {c} /\ backlog' # <<>>
  BY <1>1, <1>3, AppendNew
<1>5. peer' \in [Clients -> PeerState] /\ \A x \in Clients : x # c => peer'[x] = peer[x]
  BY <1>1 DEF IInv, TypeOK, PeerState
<1>6. TypeOK'
  BY <1>1, <1>2, <1>4, <1>5 DEF IInv, TypeOK, Descriptors
<1>7. Users'
  BY <1>1 DEF IInv, Users, Running
<1>8. Newcomers'
  <2>1. Range(backlog) \subseteq Clients
    BY <1>3 DEF Range
  <2>a. peer'[c] = "open"
    BY <1>1 DEF IInv, TypeOK
  <2>2. \A x \in Range(backlog') : peer'[x] # "none"
    BY <1>1, <1>4, <1>5, <2>1, <2>a DEF IInv, Newcomers
  <2>3. ASSUME NEW x \in Clients, x \in Range(backlog') \/ peer'[x] = "none"
        PROVE  inbox[x] = <<>> /\ \A f \in Fds : conn[f] # x
    <3>1. x \in Range(backlog) \/ peer[x] = "none"
      BY <1>1, <1>4, <1>5, <2>a, <2>3
    <3> QED BY <1>1, <3>1 DEF IInv, Newcomers
  <2> QED BY <1>1, <1>4, <2>2, <2>3 DEF Newcomers
<1>9. Events'
  <2>1. batch \in Seq(Descriptors) /\ IsInjective(batch)
    BY <1>1 DEF IInv, TypeOK, Events, Descriptors
  <2>2. ASSUME NEW d \in Range(batch) PROVE Good(d)'
    <3>1. d \in Descriptors /\ Good(d) /\ TypeOK
      BY <1>1, <2>1 DEF IInv, Events, Range
    <3>2. \A x \in Clients : peer[x] \in {"fin", "poked", "broken", "reset"} => peer'[x] = peer[x]
      BY <1>1, <1>5
    <3> QED BY <3>1, <3>2, <1>1, <1>4, GoodStays
  <2> QED BY <1>1, <1>2, <2>1, <2>2 DEF Events
<1>10. Logged'
  BY <1>1, LoggedSame DEF IInv
<1>11. Delivered'
  <2>1. ASSUME NEW x \in Clients, \E f \in Fds : conn[f] = x PROVE peer'[x] = peer[x]
    BY <1>1, <1>5, <2>1 DEF IInv, Newcomers
  <2> QED BY <1>1, <2>1, DeliveredSame DEF IInv
<1> QED BY <1>6, <1>7, <1>8, <1>9, <1>10, <1>11 DEF IInv

LEMMA EpollWaitInv == ASSUME IInv, EpollWait PROVE IInv'
<1> DEFINE S == {d \in Fds \cup {Listen} : Readable(d)}
           w == Found
           n == Lesser(Len(w), MaxEvents)
           a == SubSeq(w, 1, n)
           b == SubSeq(w, n + 1, Len(w))
           l == Level(a)
<1>1. /\ UNCHANGED <<status, users, log, conn, backlog, peer, unread, sent, inbox, seen>>
      /\ Running /\ batch' = a /\ ready' = b \o l
  BY DEF EpollWait
<1>2. w \in Seq(Descriptors) /\ IsInjective(w) /\ Range(w) \subseteq S
  <2>1. ready \in Seq(Descriptors) /\ IsInjective(ready)
    BY <1>1 DEF IInv, TypeOK, Events, Descriptors
  <2>2. w = Only(ready, S)
    BY DEF Found
  <2> HIDE DEF S, w
  <2> QED BY <2>1, <2>2, OnlyOnce
<1> HIDE DEF w
<1>3. n \in 0 .. Len(w) /\ n <= MaxEvents
  BY <1>2, SizeAssumption DEF Lesser
<1> HIDE DEF n
<1>4. /\ a \in Seq(Descriptors) /\ IsInjective(a) /\ Len(a) = n
      /\ b \in Seq(Descriptors) /\ IsInjective(b)
      /\ Range(a) \subseteq Range(w) /\ Range(b) \subseteq Range(w) \ Range(a)
  BY <1>2, <1>3, SplitNew
<1> HIDE DEF a, b
<1>5. l \in Seq(Descriptors) /\ IsInjective(l) /\ Range(l) \subseteq Range(a)
  <2>1. CASE Listen \in Range(a)
    <3> DEFINE x == <<Listen>>
    <3>1. l = x
      BY <2>1 DEF Level
    <3>2. x \in Seq(Descriptors) /\ DOMAIN x = 1 .. 1 /\ x[1] = Listen
      BY DEF Descriptors
    <3> HIDE DEF x, l
    <3>3. \A k \in DOMAIN x : k = 1
      BY <3>2
    <3>4. IsInjective(x) /\ Range(x) \subseteq {Listen}
      BY <3>2, <3>3 DEF IsInjective, Range
    <3> QED BY <2>1, <3>1, <3>2, <3>4
  <2>2. CASE Listen \notin Range(a)
    BY <2>2 DEF Level, IsInjective, Range
  <2> QED BY <2>1, <2>2
<1> HIDE DEF l
<1>6. b \o l \in Seq(Descriptors) /\ IsInjective(b \o l)
  BY <1>4, <1>5, JoinNew
<1>7. TypeOK'
  BY <1>1, <1>3, <1>4, <1>6 DEF IInv, TypeOK, Descriptors
<1>8. Users' /\ Newcomers'
  BY <1>1 DEF IInv, Users, Newcomers, Running
<1>9. Events'
  <2>1. ASSUME NEW d \in Range(a) PROVE Good(d)'
    <3>1. d \in S
      BY <1>2, <1>4
    <3>2. d \in Descriptors /\ Good(d) /\ (d = Listen => backlog # <<>>)
      BY <3>1 DEF Good, Readable, Descriptors
    <3>3. TypeOK
      BY DEF IInv
    <3> HIDE DEF S
    <3> QED BY <3>2, <3>3, <1>1, GoodStays
  <2> QED BY <1>1, <1>4, <1>6, <2>1 DEF Events
<1>10. Logged'
  BY <1>1, LoggedSame DEF IInv
<1>11. Delivered'
  BY <1>1, DeliveredSame DEF IInv
<1> QED BY <1>7, <1>8, <1>9, <1>10, <1>11 DEF IInv
-----------------------------------------------------------------------------
(* Every step preserves the invariant: the handling of an event *)

LEMMA LoggedStays ==
  ASSUME TypeOK, Logged, Running, NEW msg \in Entry, log' = Append(log, msg),
         \A c \in Clients :
           (IF \E f \in Fds : conn'[f] = c THEN 1 ELSE 0)
               + (IF msg.kind = "DISCON" /\ msg.from = c THEN 1 ELSE 0) =
             (IF \E f \in Fds : conn[f] = c THEN 1 ELSE 0)
               + (IF msg.kind = "CONNECT" /\ msg.from = c THEN 1 ELSE 0)
  PROVE  Logged'
<1>1. log \in Seq(Entry)
  BY DEF TypeOK, Entry
<1>2. ASSUME NEW kind, NEW c
      PROVE  /\ Times(kind, c) \in Nat
             /\ Times(kind, c)' =
                  Times(kind, c) + (IF msg.kind = kind /\ msg.from = c THEN 1 ELSE 0)
  <2>1. Times(kind, c) = Cardinality(Places(log, kind, c))
    BY DEF Times, Places
  <2>2. Times(kind, c)' = Cardinality(Places(Append(log, msg), kind, c))
    BY DEF Times, Places
  <2> QED BY <1>1, <2>1, <2>2, PlacesFinite, PlacesAppend
<1>3. ASSUME NEW c \in Clients
      PROVE  Times("CONNECT", c)' =
               Times("DISCON", c)' + (IF \E f \in Fds : conn'[f] = c THEN 1 ELSE 0)
  <2> DEFINE old == IF \E f \in Fds : conn[f] = c THEN 1 ELSE 0
             new == IF \E f \in Fds : conn'[f] = c THEN 1 ELSE 0
             on  == IF msg.kind = "CONNECT" /\ msg.from = c THEN 1 ELSE 0
             off == IF msg.kind = "DISCON" /\ msg.from = c THEN 1 ELSE 0
             con == Times("CONNECT", c)
             dis == Times("DISCON", c)
  <2>1. con = dis + old
    BY DEF Logged
  <2>2. con \in Nat /\ con' = con + on
    BY <1>2
  <2>3. dis \in Nat /\ dis' = dis + off
    BY <1>2
  <2>4. new + off = old + on
    OBVIOUS
  <2>5. old \in Nat /\ new \in Nat /\ on \in Nat /\ off \in Nat
    OBVIOUS
  <2>6. con' = dis' + new
    <3> HIDE DEF con, dis, old, new, on, off
    <3> QED BY <2>1, <2>2, <2>3, <2>4, <2>5
  <2> QED BY <2>6
<1> QED BY <1>3 DEF Logged

LEMMA NewcomersStay ==
  ASSUME TypeOK, Newcomers, Running,
         IsInjective(backlog'), Range(backlog') \subseteq Range(backlog),
         \A c \in Clients : Poked(peer[c], peer'[c]),
         \A c \in Clients :
           c \in Range(backlog') \/ peer[c] = "none" =>
             inbox'[c] = inbox[c] /\ \A f \in Fds : conn'[f] # c
  PROVE  Newcomers'
<1>1. \A c \in Range(backlog') : c \in Clients /\ c \in Range(backlog) /\ peer[c] # "none"
  <2>1. backlog \in Seq(Clients)
    BY DEF TypeOK
  <2>2. Range(backlog) \subseteq Clients
    BY <2>1 DEF Range
  <2> QED BY <2>2 DEF Newcomers
<1>2. \A c \in Range(backlog') : peer'[c] # "none"
  BY <1>1 DEF Poked
<1>3. ASSUME NEW c \in Clients, c \in Range(backlog') \/ peer'[c] = "none"
      PROVE  inbox'[c] = <<>> /\ \A f \in Fds : conn'[f] # c
  <2>1. c \in Range(backlog') \/ peer[c] = "none"
    BY <1>3 DEF Poked
  <2> QED BY <2>1 DEF Newcomers
<1> QED BY <1>2, <1>3 DEF Newcomers

\* The event that is handled, and the rest of the batch.
LEMMA HandledEvent ==
  ASSUME IInv, NEW d, Handling(d)
  PROVE  /\ Running /\ status = "running" /\ d \in Descriptors /\ Good(d)
         /\ Tail(batch) \in Seq(Descriptors) /\ IsInjective(Tail(batch))
         /\ Len(Tail(batch)) <= MaxEvents
         /\ \A e \in Range(Tail(batch)) : e \in Descriptors /\ e # d /\ Good(e)
<1>1. Running /\ status = "running" /\ batch # <<>> /\ Head(batch) = d
  BY DEF Handling, Running
<1>2. /\ batch \in Seq(Descriptors) /\ IsInjective(batch) /\ Len(batch) <= MaxEvents
      /\ \A e \in Range(batch) : Good(e)
  BY <1>1 DEF IInv, TypeOK, Events, Descriptors
<1>3. /\ Tail(batch) \in Seq(Descriptors) /\ IsInjective(Tail(batch))
      /\ Range(Tail(batch)) = Range(batch) \ {d} /\ Len(Tail(batch)) = Len(batch) - 1
      /\ d \in Descriptors
  BY <1>1, <1>2, TailOfNew
<1>4. d \in Range(batch) /\ Range(batch) \subseteq Descriptors
  BY <1>1, <1>2 DEF Range
<1>5. Len(Tail(batch)) <= MaxEvents
  BY <1>2, <1>3, SizeAssumption
<1> QED BY <1>1, <1>2, <1>3, <1>4, <1>5
LEMMA MessageTypes ==
  ASSUME NEW c \in Clients, NEW text \in Seq(Chunk)
  PROVE  \A kind \in {"CONNECT", "COMMON", "DISCON"} :
           LET msg == Message(kind, c, text)
           IN  msg \in Entry /\ msg.kind = kind /\ msg.from = c
BY DEF Message, Entry

\* What a message to the connected users changes, when nobody is greeted.
LEMMA SentToUsers ==
  ASSUME IInv, Running, NEW msg \in Entry, Broadcast(msg, conn, users, {})
  PROVE  /\ peer' \in [Clients -> PeerState] /\ \A c \in Clients : Poked(peer[c], peer'[c])
         /\ \/ status' = "running" /\ log' = Append(log, msg)
            \/ status' = "killed" /\ log' = log
         /\ inbox' \in [Clients -> Seq(Piece)]
         /\ \A c \in Clients : Len(inbox'[c]) - seen[c] \in 0 .. SendBuf
         /\ \A c \in Clients :
              inbox'[c] = inbox[c] \/ (peer[c] = "open" /\ \E f \in Fds : conn[f] = c)
         /\ (\A c \in Clients, f \in Fds : conn'[f] = c => conn[f] = c) => Delivered'
<1> DEFINE G == {}
<1>1. /\ TypeOK /\ status = "running"
      /\ G \in SUBSET {msg.from} /\ (\A c : c \notin G) /\ Broadcast(msg, conn, users, G)
  BY DEF IInv, Running
<1> HIDE DEF G
<1>2. conn \in [Fds -> Clients \cup {None}] /\ users \in Seq(Fds)
  BY DEF IInv, TypeOK
<1>3. ASSUME NEW k \in DOMAIN users PROVE users[k] \in Fds
  BY <1>2
<1>4. /\ peer' \in [Clients -> PeerState] /\ \A c \in Clients : Poked(peer[c], peer'[c])
      /\ \/ status' = "running" /\ log' = Append(log, msg)
         \/ status' = "killed" /\ log' = log
      /\ inbox' \in [Clients -> Seq(Piece)]
      /\ \A c \in Clients : Len(inbox'[c]) - seen[c] \in 0 .. SendBuf
      /\ \A c \in Clients :
           \/ inbox'[c] = inbox[c]
           \/ /\ peer[c] = "open" /\ c # msg.from /\ \E k \in DOMAIN users : conn[users[k]] = c
              /\ \E n \in 0 .. 2 : inbox'[c] = inbox[c] \o Pieces(Len(log) + 1, n)
           \/ c \in G /\ inbox'[c] = <<<<0, 1>>>>
  BY <1>1, <1>2, BroadcastDoes
<1>5. ASSUME \A c \in Clients, f \in Fds : conn'[f] = c => conn[f] = c
      PROVE  Delivered'
  <2>1. /\ \A k \in DOMAIN users, c \in Clients :
             conn[users[k]] = c /\ c # msg.from => \E f \in Fds : conn[f] = c
        /\ \A c \in Clients, f \in Fds : conn'[f] = c => c \in G \/ \E g \in Fds : conn[g] = c
    BY <1>3, <1>5
  <2> QED BY <2>1, <1>1, <1>2, DeliveredStays
<1> QED BY <1>1, <1>3, <1>4, <1>5

LEMMA RelayInv == ASSUME IInv, NEW f \in Fds, Relay(f) PROVE IInv'
<1> DEFINE c   == conn[f]
           n   == Lesser(Len(unread[c]), Recv)
           txt == SubSeq(unread[c], 1, n)
           msg == Message("COMMON", c, txt)
<1>1. /\ Handling(f) /\ n > 0
      /\ unread' = [unread EXCEPT ![c] = SubSeq(@, n + 1, Len(@))]
      /\ Broadcast(msg, conn, users, {}) /\ batch' = Tail(batch)
      /\ UNCHANGED <<users, conn, backlog, ready, sent, seen>>
  BY DEF Relay
<1>2. /\ Running /\ status = "running" /\ Good(f)
      /\ batch' \in Seq(Descriptors) /\ IsInjective(batch') /\ Len(batch') <= MaxEvents
      /\ \A e \in Range(batch') : e \in Descriptors /\ e # f /\ Good(e)
  BY <1>1, HandledEvent
<1>3. f # Listen /\ c \in Clients
  BY <1>2, ListenAssumption DEF Good, IInv, TypeOK
<1>4. unread[c] \in Seq(Chunk) /\ n \in 0 .. Len(unread[c])
  BY <1>3, SizeAssumption DEF Lesser, IInv, TypeOK
<1>5. txt \in Seq(Chunk) /\ SubSeq(unread[c], n + 1, Len(unread[c])) \in Seq(Chunk)
  <2> HIDE DEF n, c
  <2>1. txt \in Seq(Chunk)
    BY <1>4
  <2>2. SubSeq(unread[c], n + 1, Len(unread[c])) \in Seq(Chunk)
    BY <1>4
  <2> QED BY <2>1, <2>2
<1>6. msg \in Entry /\ msg.kind = "COMMON" /\ msg.from = c
  <2> HIDE DEF c, txt
  <2> QED BY <1>3, <1>5, MessageTypes
<1>7. conn \in [Fds -> Clients \cup {None}] /\ users \in Seq(Fds)
  BY DEF IInv, TypeOK
<1> HIDE DEF msg, txt
<1>8. /\ peer' \in [Clients -> PeerState] /\ \A x \in Clients : Poked(peer[x], peer'[x])
      /\ \/ status' = "running" /\ log' = Append(log, msg)
         \/ status' = "killed" /\ log' = log
      /\ inbox' \in [Clients -> Seq(Piece)]
      /\ \A x \in Clients : Len(inbox'[x]) - seen[x] \in 0 .. SendBuf
      /\ \A x \in Clients :
           inbox'[x] = inbox[x] \/ (peer[x] = "open" /\ \E g \in Fds : conn[g] = x)
      /\ (\A x \in Clients, g \in Fds : conn'[g] = x => conn[g] = x) => Delivered'
  BY <1>1, <1>2, <1>6, SentToUsers
<1>9. unread' \in [Clients -> Seq(Chunk)] /\ \A x \in Clients : x # c => unread'[x] = unread[x]
  <2>1. unread \in [Clients -> Seq(Chunk)]
    BY DEF IInv, TypeOK
  <2> HIDE DEF n, c
  <2> QED BY <2>1, <1>1, <1>3, <1>5
<1>10. TypeOK'
  <2>1. log' \in Seq(Entry)
    <3>1. log \in Seq(Entry)
      BY DEF IInv, TypeOK, Entry
    <3> QED BY <3>1, <1>6, <1>8, SMTT(30)
  <2>2. TypeOK
    BY DEF IInv
  <2> QED BY <2>1, <2>2, <1>1, <1>2, <1>8, <1>9 DEF TypeOK, Entry, Piece, Descriptors
<1>11. Users'
  BY <1>1, <1>2 DEF IInv, Users
<1>13. Newcomers'
  <2>1. \A x \in Clients : x \in Range(backlog) \/ peer[x] = "none" =>
          inbox'[x] = inbox[x] /\ \A g \in Fds : conn[g] # x
    BY <1>2, <1>8 DEF IInv, Newcomers
  <2>2. TypeOK /\ Newcomers /\ IsInjective(backlog)
    BY <1>2 DEF IInv, Newcomers
  <2> QED BY <2>1, <2>2, <1>1, <1>2, <1>8, NewcomersStay
<1>14. Events'
  <2>1. ASSUME NEW d \in Range(batch') PROVE Good(d)'
    <3>1. d \in Descriptors /\ d # f /\ Good(d) /\ TypeOK
      BY <1>2 DEF IInv
    <3>2. d = Listen => backlog' # <<>>
      BY <1>1, <3>1 DEF Good
    <3>3. d # Listen => d \in Fds /\ conn[d] # c
      BY <1>2, <1>3, <3>1, ListenAssumption DEF IInv, Users, Descriptors
    <3>4. ASSUME d # Listen, NEW x \in Clients, conn[d] = x
          PROVE  /\ unread'[x] = unread[x]
                 /\ peer[x] \in {"fin", "poked", "broken", "reset"} =>
                      peer'[x] \in {"fin", "poked", "broken", "reset"}
      BY <3>3, <3>4, <1>8, <1>9 DEF Poked
    <3> HIDE DEF c, n
    <3> QED BY <3>1, <3>2, <3>4, <1>1, GoodStays
  <2>2. Running => IsInjective(ready)
    BY DEF IInv, Events
  <2> QED BY <2>1, <2>2, <1>1, <1>2 DEF Events
<1>15. Logged'
  <2>1. CASE log' = Append(log, msg)
    <3>1. TypeOK /\ Logged
      BY DEF IInv
    <3> QED BY <3>1, <2>1, <1>1, <1>2, <1>6, LoggedStays
  <2>2. CASE status' = "killed"
    BY <2>2 DEF Logged, Running
  <2> QED BY <2>1, <2>2, <1>8
<1>16. Delivered'
  BY <1>1, <1>8
<1> QED BY <1>10, <1>11, <1>13, <1>14, <1>15, <1>16 DEF IInv
LEMMA DisconnectInv == ASSUME IInv, NEW f \in Fds, ManageDisconnect(f) PROVE IInv'
<1> DEFINE c   == conn[f]
           msg == Message("DISCON", c, <<>>)
<1>1. /\ Handling(f)
      /\ Broadcast(msg, conn, users, {})
      /\ users' = RemoveFirst(users, f) /\ ready' = RemoveFirst(ready, f)
      /\ conn' = [conn EXCEPT ![f] = None] /\ batch' = Tail(batch)
      /\ UNCHANGED <<backlog, unread, sent, seen>>
  BY DEF ManageDisconnect
<1>2. /\ Running /\ status = "running" /\ Good(f)
      /\ batch' \in Seq(Descriptors) /\ IsInjective(batch') /\ Len(batch') <= MaxEvents
      /\ \A e \in Range(batch') : e \in Descriptors /\ e # f /\ Good(e)
  BY <1>1, HandledEvent
<1>3. f # Listen /\ c \in Clients /\ c # None
  BY <1>2, ListenAssumption DEF Good, IInv, TypeOK
<1>4. msg \in Entry /\ msg.kind = "DISCON" /\ msg.from = c
  <2>1. <<>> \in Seq(Chunk)
    OBVIOUS
  <2> HIDE DEF c
  <2> QED BY <1>3, <2>1, MessageTypes
<1> HIDE DEF msg
<1>5. conn \in [Fds -> Clients \cup {None}] /\ \A g \in Fds : conn'[g] = IF g = f THEN None ELSE conn[g]
  BY <1>1 DEF IInv, TypeOK
<1>6. /\ peer' \in [Clients -> PeerState] /\ \A x \in Clients : Poked(peer[x], peer'[x])
      /\ \/ status' = "running" /\ log' = Append(log, msg)
         \/ status' = "killed" /\ log' = log
      /\ inbox' \in [Clients -> Seq(Piece)]
      /\ \A x \in Clients : Len(inbox'[x]) - seen[x] \in 0 .. SendBuf
      /\ \A x \in Clients :
           inbox'[x] = inbox[x] \/ (peer[x] = "open" /\ \E g \in Fds : conn[g] = x)
      /\ (\A x \in Clients, g \in Fds : conn'[g] = x => conn[g] = x) => Delivered'
  BY <1>1, <1>2, <1>4, SentToUsers
<1>7. users' \in Seq(Fds) /\ IsInjective(users') /\ Range(users') = Range(users) \ {f}
  <2>1. users \in Seq(Fds) /\ IsInjective(users) /\ f \in Range(users)
    BY <1>2, <1>3 DEF IInv, TypeOK, Users
  <2> QED BY <2>1, <1>1, RemovedForGood
<1>8. ready' \in Seq(Descriptors) /\ IsInjective(ready')
  <2>1. ready \in Seq(Descriptors) /\ IsInjective(ready)
    BY <1>2 DEF IInv, TypeOK, Events, Descriptors
  <2>2. CASE f \in Range(ready)
    BY <2>1, <2>2, <1>1, RemovedForGood
  <2>3. CASE f \notin Range(ready)
    BY <2>1, <2>3, <1>1, NothingRemoved
  <2> QED BY <2>2, <2>3
<1>9. TypeOK'
  <2>1. log' \in Seq(Entry)
    <3>1. log \in Seq(Entry)
      BY DEF IInv, TypeOK, Entry
    <3> QED BY <3>1, <1>4, <1>6, SMTT(30)
  <2>2. TypeOK
    BY DEF IInv
  <2>3. conn' \in [Fds -> Clients \cup {None}]
    BY <1>1, <1>5
  <2> QED BY <2>1, <2>2, <2>3, <1>1, <1>2, <1>6, <1>7, <1>8 DEF TypeOK, Entry, Piece, Descriptors
<1>10. Users'
  <2>1. /\ Range(users) = {g \in Fds : conn[g] # None}
        /\ \A g, h \in Fds : conn[g] = conn[h] /\ conn[g] # None => g = h
    BY <1>2 DEF IInv, Users
  <2>2. Range(users') = {g \in Fds : conn'[g] # None}
    BY <2>1, <1>5, <1>7
  <2>3. \A g, h \in Fds : conn'[g] = conn'[h] /\ conn'[g] # None => g = h
    BY <2>1, <1>5
  <2> QED BY <2>2, <2>3, <1>7 DEF Users
<1>11. Newcomers'
  <2>1. \A x \in Clients : x \in Range(backlog) \/ peer[x] = "none" =>
          inbox'[x] = inbox[x] /\ \A g \in Fds : conn'[g] # x
    BY <1>2, <1>5, <1>6, ListenAssumption DEF IInv, Newcomers
  <2>2. TypeOK /\ Newcomers /\ IsInjective(backlog)
    BY <1>2 DEF IInv, Newcomers
  <2> QED BY <2>1, <2>2, <1>1, <1>2, <1>6, NewcomersStay
<1>12. Events'
  <2>1. ASSUME NEW d \in Range(batch') PROVE Good(d)'
    <3>1. d \in Descriptors /\ d # f /\ Good(d) /\ TypeOK
      BY <1>2 DEF IInv
    <3>2. d = Listen => backlog' # <<>>
      BY <1>1, <3>1 DEF Good
    <3>3. d # Listen => conn'[d] = conn[d]
      BY <1>5, <3>1 DEF Descriptors
    <3>4. \A x \in Clients : peer[x] \in {"fin", "poked", "broken", "reset"} =>
            peer'[x] \in {"fin", "poked", "broken", "reset"}
      BY <1>6 DEF Poked
    <3> QED BY <3>1, <3>2, <3>3, <3>4, <1>1, GoodStays
  <2> QED BY <2>1, <1>2, <1>8 DEF Events
<1>13. Logged'
  <2>1. CASE log' = Append(log, msg)
    <3>1. TypeOK /\ Logged
      BY DEF IInv
    <3>2. \A g \in Fds : conn[g] = c => g = f
      BY <1>2, <1>3 DEF IInv, Users
    <3>3. ASSUME NEW x \in Clients
          PROVE  (\E g \in Fds : conn'[g] = x) <=> x # c /\ \E g \in Fds : conn[g] = x
      BY <3>2, <1>5, <1>3, ListenAssumption
    <3>4. \E g \in Fds : conn[g] = c
      OBVIOUS
    <3> HIDE DEF c
    <3> QED BY <3>1, <3>3, <3>4, <2>1, <1>2, <1>4, LoggedStays
  <2>2. CASE status' = "killed"
    BY <2>2 DEF Logged, Running
  <2> QED BY <2>1, <2>2, <1>6
<1>14. Delivered'
  BY <1>5, <1>6, ListenAssumption
<1> QED BY <1>9, <1>10, <1>11, <1>12, <1>13, <1>14 DEF IInv
LEMMA ConnectionInv == ASSUME IInv, ManageConnection PROVE IInv'
<1> DEFINE c   == Head(backlog)
           f   == Least(FreeFds)
           at  == [conn EXCEPT ![f] = c]
           us  == Append(users, f)
           msg == Message("CONNECT", c, <<>>)
           G   == {c}
<1>1. /\ Handling(Listen) /\ FreeFds # {}
      /\ conn' = at /\ users' = us
      /\ ready' = IF unread[c] # <<>> \/ peer[c] # "open" THEN Queued(ready, {f}) ELSE ready
      /\ Broadcast(msg, at, us, G)
      /\ backlog' = Tail(backlog) /\ batch' = Tail(batch)
      /\ UNCHANGED <<unread, sent, seen>>
  BY DEF ManageConnection
<1>2. /\ Running /\ status = "running" /\ Good(Listen)
      /\ batch' \in Seq(Descriptors) /\ IsInjective(batch') /\ Len(batch') <= MaxEvents
      /\ \A e \in Range(batch') : e \in Descriptors /\ e # Listen /\ Good(e)
  BY <1>1, HandledEvent
<1>3. f \in Fds /\ conn[f] = None /\ f # Listen
  <2>1. FreeFds \subseteq Nat /\ FreeFds # {}
    BY <1>1, FdAssumption DEF FreeFds
  <2>2. \E m \in FreeFds : \A x \in FreeFds : m <= x
    BY <2>1, LeastNumber
  <2>3. f \in FreeFds
    BY <2>2 DEF Least
  <2> HIDE DEF f
  <2> QED BY <2>3, ListenAssumption DEF FreeFds
<1>4. /\ backlog' \in Seq(Clients) /\ IsInjective(backlog') /\ c \in Clients
      /\ Range(backlog') = Range(backlog) \ {c} /\ c \in Range(backlog)
  <2>1. backlog \in Seq(Clients) /\ backlog # <<>> /\ IsInjective(backlog)
    BY <1>2 DEF Good, IInv, TypeOK, Newcomers
  <2>2. c \in Range(backlog)
    BY <2>1 DEF Range
  <2> QED BY <2>1, <2>2, <1>1, TailOfNew
<1>5. inbox[c] = <<>> /\ c # None /\ \A g \in Fds : conn[g] # c
  BY <1>2, <1>4, ListenAssumption DEF IInv, Newcomers
<1>6. msg \in Entry /\ msg.kind = "CONNECT" /\ msg.from = c
  <2>1. <<>> \in Seq(Chunk)
    OBVIOUS
  <2> HIDE DEF c
  <2> QED BY <1>4, <2>1, MessageTypes
<1> HIDE DEF msg, c, f
<1>7. /\ conn \in [Fds -> Clients \cup {None}] /\ at \in [Fds -> Clients \cup {None}]
      /\ \A g \in Fds : at[g] = IF g = f THEN c ELSE conn[g]
  BY <1>3, <1>4 DEF IInv, TypeOK
<1>8. /\ us \in Seq(Fds) /\ IsInjective(us) /\ Range(us) = Range(users) \cup {f}
  <2>1. users \in Seq(Fds) /\ IsInjective(users) /\ f \notin Range(users)
    BY <1>2, <1>3 DEF IInv, TypeOK, Users
  <2> QED BY <2>1, <1>3, AppendNew
<1>9. ASSUME NEW k \in DOMAIN us PROVE us[k] \in Fds
  BY <1>8
<1>10. G \in SUBSET {msg.from} /\ (\A x \in G : inbox[x] = <<>>) /\ \A x : x \in G <=> x = c
  BY <1>5, <1>6
<1> HIDE DEF at, us, G
<1>11. /\ peer' \in [Clients -> PeerState] /\ \A x \in Clients : Poked(peer[x], peer'[x])
       /\ \/ status' = "running" /\ log' = Append(log, msg)
          \/ status' = "killed" /\ log' = log
       /\ inbox' \in [Clients -> Seq(Piece)]
       /\ \A x \in Clients : Len(inbox'[x]) - seen[x] \in 0 .. SendBuf
       /\ \A x \in Clients :
            \/ inbox'[x] = inbox[x]
            \/ /\ peer[x] = "open" /\ x # msg.from /\ \E k \in DOMAIN us : at[us[k]] = x
               /\ \E n \in 0 .. 2 : inbox'[x] = inbox[x] \o Pieces(Len(log) + 1, n)
            \/ x \in G /\ inbox'[x] = <<<<0, 1>>>>
  <2>1. TypeOK
    BY DEF IInv
  <2> QED BY <2>1, <1>1, <1>2, <1>6, <1>7, <1>8, <1>10, BroadcastDoes
<1>12. \A x \in Clients :
         \/ inbox'[x] = inbox[x]
         \/ peer[x] = "open" /\ \E g \in Fds : conn[g] = x
         \/ x = c
  BY <1>6, <1>7, <1>9, <1>10, <1>11
<1>13. ready' \in Seq(Descriptors) /\ IsInjective(ready')
  <2>1. /\ ready \in Seq(Descriptors) /\ IsInjective(ready)
        /\ {f} \in SUBSET Descriptors /\ \A d, e \in {f} : d = e
    BY <1>2, <1>3 DEF IInv, TypeOK, Events, Descriptors
  <2> DEFINE S == {f}
  <2>2. Queued(ready, S) \in Seq(Descriptors) /\ IsInjective(Queued(ready, S))
    <3> HIDE DEF S
    <3> QED BY <2>1, QueuedOnce DEF S
  <2> QED BY <2>1, <2>2, <1>1
<1>14. TypeOK'
  <2>1. log' \in Seq(Entry)
    <3>1. log \in Seq(Entry)
      BY DEF IInv, TypeOK, Entry
    <3> QED BY <3>1, <1>6, <1>11
  <2>2. TypeOK
    BY DEF IInv
  <2> QED BY <2>1, <2>2, <1>1, <1>2, <1>4, <1>7, <1>8, <1>11, <1>13
       DEF TypeOK, Entry, Piece, Descriptors
<1>15. Users'
  <2>1. /\ Range(users) = {g \in Fds : conn[g] # None}
        /\ \A g, h \in Fds : conn[g] = conn[h] /\ conn[g] # None => g = h
    BY <1>2 DEF IInv, Users
  <2>2. Range(users') = {g \in Fds : conn'[g] # None}
    BY <2>1, <1>1, <1>3, <1>5, <1>7, <1>8
  <2>3. \A g, h \in Fds : conn'[g] = conn'[h] /\ conn'[g] # None => g = h
    BY <2>1, <1>1, <1>5, <1>7
  <2> QED BY <2>2, <2>3, <1>1, <1>8 DEF Users
<1>16. Newcomers'
  <2>1. ASSUME NEW x \in Clients, x \in Range(backlog') \/ peer[x] = "none"
        PROVE  inbox'[x] = inbox[x] /\ \A g \in Fds : conn'[g] # x
    <3>1. x \in Range(backlog) \/ peer[x] = "none"
      BY <2>1, <1>4
    <3>2. x # c
      BY <2>1, <1>2, <1>4 DEF IInv, Newcomers
    <3>3. \A g \in Fds : conn[g] # x
      BY <3>1, <1>2 DEF IInv, Newcomers
    <3> QED BY <3>2, <3>3, <1>1, <1>7, <1>12
  <2>2. TypeOK /\ Newcomers /\ Range(backlog') \subseteq Range(backlog)
    BY <1>4 DEF IInv
  <2> QED BY <2>1, <2>2, <1>2, <1>4, <1>11, NewcomersStay
<1>17. Events'
  <2>1. ASSUME NEW d \in Range(batch') PROVE Good(d)'
    <3>1. d \in Fds /\ d # Listen /\ Good(d) /\ TypeOK
      BY <1>2 DEF IInv, Descriptors
    <3>2. d # f
      BY <3>1, <1>3 DEF Good
    <3>3. conn'[d] = conn[d]
      BY <3>1, <3>2, <1>1, <1>7
    <3>4. \A x \in Clients : peer[x] \in {"fin", "poked", "broken", "reset"} =>
            peer'[x] \in {"fin", "poked", "broken", "reset"}
      BY <1>11 DEF Poked
    <3> QED BY <3>1, <3>3, <3>4, <1>1, GoodStays DEF Descriptors
  <2> QED BY <2>1, <1>2, <1>13 DEF Events
<1>18. Logged'
  <2>1. CASE log' = Append(log, msg)
    <3>1. TypeOK /\ Logged
      BY DEF IInv
    <3>2. ASSUME NEW x \in Clients
          PROVE  (\E g \in Fds : conn'[g] = x) <=> x = c \/ \E g \in Fds : conn[g] = x
      BY <1>1, <1>3, <1>7, ListenAssumption
    <3> QED BY <3>1, <3>2, <2>1, <1>2, <1>5, <1>6, LoggedStays
  <2>2. CASE status' = "killed"
    BY <2>2 DEF Logged, Running
  <2> QED BY <2>1, <2>2, <1>11
<1>19. Delivered'
  <2>1. /\ \A k \in DOMAIN us, x \in Clients :
             at[us[k]] = x /\ x # msg.from => \E g \in Fds : conn[g] = x
        /\ \A x \in Clients, g \in Fds : conn'[g] = x => x \in G \/ \E h \in Fds : conn[h] = x
    BY <1>1, <1>6, <1>7, <1>9, <1>10
  <2> QED BY <2>1, <1>1, <1>2, <1>6, <1>7, <1>8, <1>10, DeliveredStays
<1> QED BY <1>14, <1>15, <1>16, <1>17, <1>18, <1>19 DEF IInv

-----------------------------------------------------------------------------
(* The theorems *)

LEMMA StutterInv == ASSUME IInv, UNCHANGED vars PROVE IInv'
<1>1. /\ UNCHANGED <<status, users, batch, log, conn>>
      /\ UNCHANGED <<backlog, ready, peer, unread, sent, inbox, seen>>
  BY DEF vars, server
<1>2. TypeOK' /\ Users' /\ Newcomers'
  BY <1>1 DEF IInv, TypeOK, Users, Newcomers, Running
<1>3. \A d : Good(d)' <=> Good(d)
  BY <1>1 DEF Good, Readable
<1>4. Events'
  BY <1>1, <1>3 DEF IInv, Events, Running
<1>5. Logged'
  BY <1>1, LoggedSame DEF IInv
<1>6. Delivered'
  BY <1>1, DeliveredSame DEF IInv, Running
<1> QED BY <1>2, <1>4, <1>5, <1>6 DEF IInv

LEMMA StepInv == IInv /\ [Next]_vars => IInv'
<1> SUFFICES ASSUME IInv, [Next]_vars PROVE IInv'
  OBVIOUS
<1>1. ASSUME NEW c \in Clients, Connect(c) PROVE IInv'
  BY <1>1, ConnectInv
<1>2. ASSUME NEW c \in Clients, NEW k \in Chunk, Send(c, k) PROVE IInv'
  BY <1>2, SendInv
<1>3. ASSUME NEW c \in Clients, Read(c) PROVE IInv'
  BY <1>3, ReadInv
<1>4. ASSUME NEW c \in Clients, Close(c) PROVE IInv'
  BY <1>4, CloseInv
<1>5. ASSUME NEW c \in Clients, ResetArrives(c) PROVE IInv'
  BY <1>5, ResetInv
<1>6. CASE EpollWait
  BY <1>6, EpollWaitInv
<1>7. CASE ManageConnection
  BY <1>7, ConnectionInv
<1>8. CASE AcceptFails
  BY <1>8, StopInv DEF AcceptFails
<1>9. ASSUME NEW f \in Fds, Relay(f) PROVE IInv'
  BY <1>9, RelayInv
<1>10. ASSUME NEW f \in Fds, ManageDisconnect(f) PROVE IInv'
  BY <1>10, DisconnectInv
<1>11. ASSUME NEW f \in Fds, RecvFails(f) PROVE IInv'
  BY <1>11, StopInv DEF RecvFails
<1>12. CASE Interrupt
  BY <1>12, StopInv DEF Interrupt
<1>13. CASE UNCHANGED vars
  BY <1>13, StutterInv
<1> QED BY <1>1, <1>2, <1>3, <1>4, <1>5, <1>6, <1>7, <1>8, <1>9, <1>10, <1>11, <1>12, <1>13
     DEF Next, Environment, ManageChat, HandleEvent

LEMMA AlwaysInv == Spec => []IInv
BY InitInv, StepInv, PTL DEF Spec

\* The state of the server, the kernel's queues and what the sockets hold have their
\* types: a batch is never longer than events[], a connection never holds more than
\* its socket takes.
THEOREM ChatTypes == Spec => []TypeOK
<1>1. IInv => TypeOK
  BY DEF IInv
<1> QED BY <1>1, AlwaysInv, PTL

\* Every event of a batch is still good when its turn comes, whatever is connected,
\* closed and reused while the batch is worked off: id_by_fd() never returns -1 and
\* accept() always finds a connection.
THEOREM EventsAlwaysGood == Spec => []EventsStayGood
<1>1. IInv => EventsStayGood
  <2> SUFFICES ASSUME IInv, Running, NEW i \in DOMAIN batch
               PROVE  /\ \A j \in DOMAIN batch : batch[i] = batch[j] => i = j
                      /\ IF batch[i] = Listen THEN backlog # <<>>
                         ELSE batch[i] \in Range(users) /\ Readable(batch[i])
    BY DEF EventsStayGood
  <2>1. batch \in Seq(Descriptors) /\ IsInjective(batch)
    BY DEF IInv, TypeOK, Events, Descriptors
  <2>2. batch[i] \in Range(batch) /\ batch[i] \in Descriptors /\ Good(batch[i])
    BY <2>1 DEF IInv, Events, Range
  <2>3. Range(users) = {g \in Fds : conn[g] # None}
    BY DEF IInv, Users
  <2>4. CASE batch[i] = Listen
    BY <2>1, <2>2, <2>4 DEF Good, IsInjective
  <2>5. CASE batch[i] # Listen
    BY <2>1, <2>2, <2>3, <2>5 DEF Good, IsInjective, Descriptors
  <2> QED BY <2>4, <2>5
<1> QED BY <1>1, AlwaysInv, PTL

\* The log tells who is connected: a client has one CONNECT more than DISCON while it
\* has a descriptor and as many otherwise; there are as many users as clients that
\* have a descriptor, and no descriptor without its user.
THEOREM LogIsTrue == Spec => []LogTellsUsers
<1>1. IInv => LogTellsUsers
  <2> SUFFICES ASSUME IInv, Running
               PROVE  /\ \A c \in Clients :
                           Times("CONNECT", c) = Times("DISCON", c)
                                                   + (IF c \in Connected THEN 1 ELSE 0)
                      /\ Range(users) = {f \in Fds : conn[f] # None}
                      /\ Cardinality(Connected) = Len(users)
    BY DEF LogTellsUsers
  <2>1. /\ users \in Seq(Fds) /\ IsInjective(users) /\ Range(users) = {f \in Fds : conn[f] # None}
        /\ \A f, g \in Fds : conn[f] = conn[g] /\ conn[f] # None => f = g
        /\ conn \in [Fds -> Clients \cup {None}]
    BY DEF IInv, Users, TypeOK
  <2>2. \A c \in Clients : c \in Connected <=> \E f \in Fds : conn[f] = c
    BY <2>1, ListenAssumption DEF Connected
  <2>3. \A c \in Clients :
          Times("CONNECT", c) = Times("DISCON", c) + (IF c \in Connected THEN 1 ELSE 0)
    BY <2>2 DEF IInv, Logged
  <2>4. Cardinality(Connected) = Len(users)
    <3> DEFINE n == Len(users)
               s == [k \in 1 .. n |-> conn[users[k]]]
    <3>1. n \in Nat /\ DOMAIN users = 1 .. n
      BY <2>1
    <3>2. \A k \in 1 .. n : users[k] \in Fds /\ conn[users[k]] \in Clients
      <4>1. \A k \in 1 .. n : users[k] \in Range(users)
        BY <3>1 DEF Range
      <4> QED BY <4>1, <2>1
    <3>3. s \in Seq(Clients) /\ Len(s) = n /\ \A k \in 1 .. n : s[k] = conn[users[k]]
      <4> HIDE DEF n
      <4> QED BY <3>1, <3>2
    <3> HIDE DEF s
    <3>4. DOMAIN s = 1 .. n
      BY <3>1, <3>3
    <3> HIDE DEF n
    <3>5. IsInjective(s)
      <4> SUFFICES ASSUME NEW j \in 1 .. n, NEW k \in 1 .. n, s[j] = s[k] PROVE j = k
        BY <3>4 DEF IsInjective
      <4>1. users[j] = users[k]
        BY <2>1, <3>2, <3>3, ListenAssumption
      <4> QED BY <4>1, <2>1, <3>1 DEF IsInjective
    <3>6. Range(s) = Connected
      BY <3>1, <3>3, <3>4 DEF Range, Connected
    <3> QED BY <3>3, <3>5, <3>6, CountRange DEF n
  <2> QED BY <2>1, <2>3, <2>4
<1> QED BY <1>1, AlwaysInv, PTL

\* What a client gets starts with the greeting and goes on with what was logged after
\* its own CONNECT, in the order of the log, whatever a full socket makes send() drop.
THEOREM InboxesInOrder == Spec => []InboxInOrder
<1>1. IInv => InboxInOrder
  BY DEF IInv, Delivered
<1> QED BY <1>1, AlwaysInv, PTL
===============================================================================
