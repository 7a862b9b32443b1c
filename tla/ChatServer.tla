------------------------------ MODULE ChatServer ------------------------------
(***************************************************************************)
(* The chat server of p2 (server.cpp): one thread that waits in            *)
(* epoll_wait() and handles the reported descriptors one after the other,  *)
(* while the clients go on connecting, sending, reading and closing.       *)
(*                                                                         *)
(* The handling of one event is one step.  The kernel's side of a          *)
(* connection is modelled from how the server uses it: the listening       *)
(* socket is level-triggered, connections are edge-triggered, recv() takes *)
(* what is there, send() on a non-blocking socket takes what fits.         *)
(***************************************************************************)
EXTENDS Integers, SequencesExt

CONSTANTS
  Clients,    \* the peers; each connects once
  Chunk,      \* what a client sends: "line" ends in a newline, "part" does not
  Fds,        \* descriptors accept() can return
  Listen,     \* listen_sock
  None,       \* no connection
  MaxEvents,  \* MAX_EVENTS
  Recv,       \* BUFFER_SIZE of recv(), in chunks
  SendBuf,    \* pieces a connection holds until its client reads them
  MaxSend     \* chunks each client sends at most

\* Message.text has BUFFER_SIZE bytes whatever it says: two pieces.
MessageSize == 2

ASSUME FdAssumption == Fds \subseteq Nat /\ Fds # {} /\ IsFiniteSet(Fds)
ASSUME ChunkAssumption == Chunk \subseteq {"line", "part"}
ASSUME ListenAssumption == Listen \notin Fds /\ None \notin Clients
ASSUME SizeAssumption ==
  MaxEvents \in Nat \ {0} /\ Recv \in Nat \ {0} /\ SendBuf \in Nat \ {0} /\ MaxSend \in Nat

VARIABLES
  \* the server
  status,   \* "running", or how it ended
  users,    \* Server::users: the descriptors of the connected users
  batch,    \* events[n .. nfds - 1], not handled yet
  log,      \* print_log(): the messages handled
  \* the kernel
  conn,     \* descriptor -> client at the other end
  backlog,  \* connections that accept() has not returned yet
  ready,    \* epoll's ready list
  peer,     \* client -> state of its connection, as the server's kernel knows it
  unread,   \* client -> chunks that recv() has not returned yet
  sent,     \* client -> how many chunks it has sent
  inbox,    \* client -> the pieces send() has accepted for it
  seen      \* client -> how many of them it has read

server == <<status, users, batch, log, conn>>
vars   == <<server, backlog, ready, peer, unread, sent, inbox, seen>>

Running == status = "running"

FdOf(c)       == {f \in Fds : conn[f] = c}
Least(S)      == CHOOSE f \in S : \A g \in S : f <= g
Lesser(m, n)  == IF m <= n THEN m ELSE n

Init ==
  /\ status = "running" /\ users = <<>> /\ batch = <<>> /\ log = <<>>
  /\ conn = [f \in Fds |-> None]
  /\ backlog = <<>> /\ ready = <<>>
  /\ peer = [c \in Clients |-> "none"]
  /\ unread = [c \in Clients |-> <<>>]
  /\ sent = [c \in Clients |-> 0]
  /\ inbox = [c \in Clients |-> <<>>]
  /\ seen = [c \in Clients |-> 0]

-----------------------------------------------------------------------------
(* epoll *)

\* The descriptors of S, at most one, go to the end of the ready list.
Queued(queue, S) ==
  IF S \subseteq Range(queue) THEN queue ELSE Append(queue, CHOOSE d \in S : TRUE)

\* Data or the end of the stream has arrived from c.
Wake(c) == ready' = Queued(ready, FdOf(c))

Readable(d) ==
  IF d = Listen THEN backlog # <<>>
  ELSE /\ conn[d] # None
       /\ unread[conn[d]] # <<>> \/ peer[conn[d]] \in {"fin", "poked", "broken", "reset"}

\* The entries of the queue that are in S.
Only(queue, S) ==
  LET upto[i \in 0 .. Len(queue)] ==
        IF i = 0 THEN <<>>
        ELSE IF queue[i] \in S THEN Append(upto[i - 1], queue[i]) ELSE upto[i - 1]
  IN  upto[Len(queue)]

\* What epoll_wait() finds: the entries of the ready list that are readable.
Found == Only(ready, {d \in Fds \cup {Listen} : Readable(d)})

\* The level-triggered socket stays on the list.
Level(reported) == IF Listen \in Range(reported) THEN <<Listen>> ELSE <<>>

\* Mutation: the listening socket is edge-triggered too.
EpollWaitEdge ==
  /\ Running /\ batch = <<>>
  /\ LET waiting == Found
         n       == Lesser(Len(waiting), MaxEvents)
     IN  /\ n > 0
         /\ batch' = SubSeq(waiting, 1, n)
         /\ ready' = SubSeq(waiting, n + 1, Len(waiting))
  /\ UNCHANGED <<status, users, log, conn, backlog, peer, unread, sent, inbox, seen>>

\* Mutation: the size of events[] is not passed on.
EpollWaitAll ==
  /\ Running /\ batch = <<>>
  /\ LET waiting == Found
     IN  /\ waiting # <<>>
         /\ batch' = waiting
         /\ ready' = Level(waiting)
  /\ UNCHANGED <<status, users, log, conn, backlog, peer, unread, sent, inbox, seen>>

\* Mutation: what does not fit into events[] is forgotten.
EpollWaitForgets ==
  /\ Running /\ batch = <<>>
  /\ LET waiting == Found
         n       == Lesser(Len(waiting), MaxEvents)
     IN  /\ n > 0
         /\ batch' = SubSeq(waiting, 1, n)
         /\ ready' = Level(waiting)
  /\ UNCHANGED <<status, users, log, conn, backlog, peer, unread, sent, inbox, seen>>

\* epoll_wait() reports the first MaxEvents descriptors of the list that are
\* readable.
EpollWait ==
  /\ Running /\ batch = <<>>
  /\ LET waiting  == Found
         n        == Lesser(Len(waiting), MaxEvents)
         reported == SubSeq(waiting, 1, n)
     IN  /\ n > 0
         /\ batch' = reported
         /\ ready' = SubSeq(waiting, n + 1, Len(waiting)) \o Level(reported)
  /\ UNCHANGED <<status, users, log, conn, backlog, peer, unread, sent, inbox, seen>>

-----------------------------------------------------------------------------
(* The clients *)

Connect(c) ==
  /\ Running /\ peer[c] = "none"
  /\ peer' = [peer EXCEPT ![c] = "open"]
  /\ backlog' = Append(backlog, c)
  /\ ready' = Queued(ready, {Listen})
  /\ UNCHANGED <<server, unread, sent, inbox, seen>>

Send(c, k) ==
  /\ Running /\ peer[c] = "open" /\ sent[c] < MaxSend
  /\ unread' = [unread EXCEPT ![c] = Append(@, k)]
  /\ sent' = [sent EXCEPT ![c] = @ + 1]
  /\ Wake(c)
  /\ UNCHANGED <<server, backlog, peer, inbox, seen>>

Read(c) ==
  /\ Running /\ peer[c] = "open" /\ seen[c] < Len(inbox[c])
  /\ seen' = [seen EXCEPT ![c] = Len(inbox[c])]
  /\ UNCHANGED <<server, backlog, ready, peer, unread, sent, inbox>>

\* A client that closes without having read everything resets the connection.
Close(c) ==
  /\ Running /\ peer[c] = "open"
  /\ peer' = [peer EXCEPT ![c] = IF seen[c] < Len(inbox[c]) THEN "reset" ELSE "fin"]
  /\ Wake(c)
  /\ UNCHANGED <<server, backlog, unread, sent, inbox, seen>>

\* The answer to a send() to a client that has closed: the next one fails.
ResetArrives(c) ==
  /\ Running /\ peer[c] = "poked"
  /\ peer' = [peer EXCEPT ![c] = "broken"]
  /\ Wake(c)
  /\ UNCHANGED <<server, backlog, unread, sent, inbox, seen>>

-----------------------------------------------------------------------------
(* send_message() *)

CanTake(c) == Lesser(SendBuf - (Len(inbox[c]) - seen[c]), MessageSize)
Pieces(i, n) == [p \in 1 .. n |-> <<i, p>>]

\* Mutation: a message goes to its sender too, so does the notice that it came.
RecipientsAll(msg, at, us) == DOMAIN us

\* The users that send_message(msg, us) sends to; `at' is conn.
Recipients(msg, at, us) == {k \in DOMAIN us : at[us[k]] # msg.from}

\* send() to a connection that is known to be broken raises SIGPIPE, which ends
\* the process: the users after it are not reached.
Broken(c) == peer[c] = "broken"
Fatal(msg, at, us) == \E k \in Recipients(msg, at, us) : Broken(at[us[k]])
Reached(msg, at, us) ==
  LET to == Recipients(msg, at, us)
  IN  {at[us[k]] : k \in {k \in to : \A l \in to : l <= k => ~Broken(at[us[l]])}}

\* After a send(), the peer that has closed answers with a reset; the error of
\* a reset that has arrived is reported, once.
AfterSend(state) ==
  IF state = "fin" THEN "poked" ELSE IF state = "reset" THEN "broken" ELSE state

Message(kind, c, text) == [kind |-> kind, from |-> c, text |-> text]

\* send_message(msg, us), the greeting of the clients of G, then print_log().
\* The greeting is one piece that always fits: its connection is new.
Broadcast(msg, at, us, G) ==
  LET R       == Reached(msg, at, us)
      fatal   == Fatal(msg, at, us)
      greeted == IF fatal THEN {} ELSE G
      New(c)  == (IF c \in R THEN Pieces(Len(log) + 1, CanTake(c)) ELSE <<>>)
                   \o (IF c \in greeted THEN Pieces(0, 1) ELSE <<>>)
  IN  /\ inbox' = [c \in Clients |-> IF peer[c] = "open" THEN inbox[c] \o New(c)
                                                        ELSE inbox[c]]
      /\ peer' = [c \in Clients |->
                    IF c \in R \cup greeted THEN AfterSend(peer[c]) ELSE peer[c]]
      /\ IF fatal THEN status' = "killed" /\ log' = log
                  ELSE status' = status /\ log' = Append(log, msg)

-----------------------------------------------------------------------------
(* manage_chat(): the handling of one event *)

Handling(d) == Running /\ batch # <<>> /\ Head(batch) = d
FreeFds     == {f \in Fds : conn[f] = None}

\* manage_connection(): the others are told, then the new user is greeted.
ManageConnection ==
  /\ Handling(Listen) /\ FreeFds # {}
  /\ LET c == Head(backlog)
         f == Least(FreeFds)
     IN  /\ conn' = [conn EXCEPT ![f] = c]
         /\ users' = Append(users, f)
         /\ ready' = IF unread[c] # <<>> \/ peer[c] # "open"
                       THEN Queued(ready, {f}) ELSE ready
         /\ Broadcast(Message("CONNECT", c, <<>>), [conn EXCEPT ![f] = c],
                      Append(users, f), {c})
  /\ backlog' = Tail(backlog) /\ batch' = Tail(batch)
  /\ UNCHANGED <<unread, sent, seen>>

\* read_from_user() returns a message: one recv() of at most BUFFER_SIZE.
Relay(f) ==
  /\ Handling(f)
  /\ LET c == conn[f]
         n == Lesser(Len(unread[c]), Recv)
     IN  /\ n > 0
         /\ unread' = [unread EXCEPT ![c] = SubSeq(@, n + 1, Len(@))]
         /\ Broadcast(Message("COMMON", c, SubSeq(unread[c], 1, n)), conn, users, {})
  /\ batch' = Tail(batch)
  /\ UNCHANGED <<users, conn, backlog, ready, sent, seen>>

\* Mutation: users.erase() removes the first user.
ManageDisconnectFirst(f) ==
  /\ Handling(f)
  /\ unread[conn[f]] = <<>> /\ peer[conn[f]] # "reset"
  /\ Broadcast(Message("DISCON", conn[f], <<>>), conn, users, {})
  /\ users' = Tail(users)
  /\ conn' = [conn EXCEPT ![f] = None]
  /\ ready' = RemoveFirst(ready, f)
  /\ batch' = Tail(batch)
  /\ UNCHANGED <<backlog, unread, sent, seen>>

\* recv() returns 0, manage_disconnect().
ManageDisconnect(f) ==
  /\ Handling(f)
  /\ unread[conn[f]] = <<>> /\ peer[conn[f]] # "reset"
  /\ Broadcast(Message("DISCON", conn[f], <<>>), conn, users, {})
  /\ users' = RemoveFirst(users, f)
  /\ conn' = [conn EXCEPT ![f] = None]
  /\ ready' = RemoveFirst(ready, f)
  /\ batch' = Tail(batch)
  /\ UNCHANGED <<backlog, unread, sent, seen>>

\* An exception, or SIGINT, whose handler throws: ~Server() or the end of the
\* process closes everything.
Stop(reason) ==
  /\ status' = reason
  /\ users' = <<>> /\ batch' = <<>>
  /\ conn' = [f \in Fds |-> None]
  /\ UNCHANGED <<log, backlog, ready, peer, unread, sent, inbox, seen>>

AcceptFails == Handling(Listen) /\ FreeFds = {} /\ Stop("accept")

RecvFails(f) ==
  /\ Handling(f)
  /\ unread[conn[f]] = <<>> /\ peer[conn[f]] = "reset"
  /\ Stop("recv")

Interrupt == Running /\ Stop("SIGINT")

-----------------------------------------------------------------------------

Environment ==
  \E c \in Clients :
    \/ Connect(c)
    \/ \E k \in Chunk : Send(c, k)
    \/ Read(c)
    \/ Close(c)
    \/ ResetArrives(c)

HandleEvent ==
  \/ ManageConnection
  \/ AcceptFails
  \/ \E f \in Fds : Relay(f) \/ ManageDisconnect(f) \/ RecvFails(f)

ManageChat == EpollWait \/ HandleEvent

Next == Environment \/ ManageChat \/ Interrupt

Spec == Init /\ [][Next]_vars

\* The loop of manage_chat() goes on as long as epoll_wait() reports something.
FairSpec == Spec /\ WF_vars(ManageChat)

-----------------------------------------------------------------------------
(* Properties *)

Connected == {conn[f] : f \in Range(users)}
PeerState == {"none", "open", "fin", "poked", "broken", "reset"}

TypeOK ==
  /\ status \in {"running", "killed", "accept", "recv", "SIGINT"}
  /\ users \in Seq(Fds)
  /\ batch \in Seq(Fds \cup {Listen}) /\ Len(batch) <= MaxEvents
  /\ ready \in Seq(Fds \cup {Listen})
  /\ log \in Seq([kind : {"CONNECT", "COMMON", "DISCON"}, from : Clients, text : Seq(Chunk)])
  /\ conn \in [Fds -> Clients \cup {None}]
  /\ backlog \in Seq(Clients)
  /\ peer \in [Clients -> PeerState]
  /\ unread \in [Clients -> Seq(Chunk)]
  /\ sent \in [Clients -> 0 .. MaxSend]
  /\ inbox \in [Clients -> Seq(Nat \X (1 .. MessageSize))]
  /\ seen \in [Clients -> Nat]
  /\ \A c \in Clients : Len(inbox[c]) - seen[c] \in 0 .. SendBuf

\* Every event of a batch is still good when its turn comes: id_by_fd() never
\* returns -1, which would index users[-1], and accept() never finds nothing,
\* although descriptors are closed and reused while the batch is worked off.
EventsStayGood ==
  Running =>
    \A i \in DOMAIN batch :
      /\ \A j \in DOMAIN batch : batch[i] = batch[j] => i = j
      /\ IF batch[i] = Listen THEN backlog # <<>>
         ELSE batch[i] \in Range(users) /\ Readable(batch[i])

\* How often the log has a message of a kind about a client.
Times(kind, c) == Cardinality({i \in DOMAIN log : log[i].kind = kind /\ log[i].from = c})

\* The log tells who is connected (the tests count "accepted connection" and
\* "connection terminated"), and no descriptor outlives its user.
LogTellsUsers ==
  Running =>
    /\ \A c \in Clients :
         Times("CONNECT", c) = Times("DISCON", c) + (IF c \in Connected THEN 1 ELSE 0)
    /\ Range(users) = {f \in Fds : conn[f] # None}
    /\ Cardinality(Connected) = Len(users)

\* What a client reads starts with the greeting, and then it finds only
\* messages that came after it was accepted, in the order of the log: there is
\* no history, nothing comes twice, whatever a full socket makes send() drop.
InboxInOrder ==
  \A c \in Clients :
    LET in == inbox[c]
    IN  /\ in # <<>> => in[1] = <<0, 1>>
        /\ \A k \in 2 .. Len(in) :
             /\ \/ in[k - 1][1] < in[k][1] /\ in[k][2] = 1
                \/ in[k - 1][1] = in[k][1] /\ in[k - 1][2] < in[k][2]
             /\ \E i \in 1 .. in[k][1] - 1 :
                  i <= Len(log) /\ log[i].kind = "CONNECT" /\ log[i].from = c

Waiting(c) == \E i \in DOMAIN backlog : backlog[i] = c

\* A client that connects gets its connection, however many events there are.
ConnectionAccepted == \A c \in Clients : Waiting(c) ~> ~Waiting(c) \/ ~Running

\* No chunk waits for ever because its wake-up was lost (between recv() and the
\* next epoll_wait(), or when more descriptors are ready than events[] holds),
\* as long as one recv() can take what a connection holds.
ChunksRelayed ==
  [](\A c \in Clients : Len(unread[c]) <= Recv) =>
    \A c \in Clients : unread[c] # <<>> ~> unread[c] = <<>> \/ ~Running

Told(c)  == \E i \in DOMAIN log : log[i].kind = "DISCON" /\ log[i].from = c
Ended(c) == c \in Connected /\ peer[c] \in {"fin", "poked", "broken", "reset"}

\* info.txt:31: the end of a user's connection, a reset included, is handled: it is
\* logged, and it does not end the server.
EndNoticed == \A c \in Clients : Ended(c) ~> Told(c) \/ status = "SIGINT"
=============================================================================
