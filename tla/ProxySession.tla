----------------------------- MODULE ProxySession -----------------------------
(***************************************************************************)
(* One session of the proxy of p3 (proxy.cpp): a client connection, the    *)
(* connection to a server that on_accept() opens for it, and the two       *)
(* bufferevents between which read_cb() and special_cb() move the bytes.   *)
(*                                                                         *)
(* A step is one callback of the event loop, or one thing the peers or the *)
(* network do.  libevent is modelled from how proxy.cpp uses it: a         *)
(* bufferevent calls read_cb() after each read(), writes its output buffer *)
(* when its socket is connected and has room, and calls special_cb() on    *)
(* the end of the stream (once: it then stops reading) and on errors.  The *)
(* input buffers are always empty between two steps.                       *)
(***************************************************************************)
EXTENDS Integers, Sequences

CONSTANTS
  Room,      \* chunks a socket holds until its peer reads them
  MaxSend    \* chunks each peer sends at most

Side     == {"cl", "sv"}
Other(d) == IF d = "cl" THEN "sv" ELSE "cl"

ASSUME BoundAssumption == Room \in Nat \ {0} /\ MaxSend \in Nat

VARIABLES
  proxy,         \* "running", or how the process ended
  session,       \* "none", "open", "freed"
  link,          \* sock_sv: "none", "connecting", "connected", "refused"
  closed_sides,  \* ssn->closed_sides
  output,        \* output buffer of the bufferevent of each side
  shut,          \* sides on whose socket shutdown(SHUT_WR) was called
  wire,          \* chunks each peer has sent that read() has not returned yet
  arrived,       \* chunks write() has put on the socket of each side
  taken,         \* how many of them the peer has read
  sent,          \* how many chunks each peer has sent: 1, 2, ...
  ended,         \* peers that have said they send no more
  seen,          \* those whose end of stream special_cb() has been told of
  aborted,       \* peers that have closed their connection altogether
  broken         \* sides whose peer's reset has come behind its end of stream

ssn   == <<proxy, session, link, closed_sides, output, shut, seen>>
peers == <<wire, arrived, taken, sent, ended, aborted, broken>>
vars  == <<ssn, peers>>

Init ==
  /\ proxy = "running" /\ session = "none" /\ link = "none" /\ closed_sides = 0
  /\ output = [d \in Side |-> <<>>]
  /\ wire = [d \in Side |-> <<>>] /\ arrived = [d \in Side |-> <<>>]
  /\ taken = [d \in Side |-> 0] /\ sent = [d \in Side |-> 0]
  /\ shut = {} /\ ended = {} /\ seen = {} /\ aborted = {} /\ broken = {}

Open == proxy = "running" /\ session = "open"
Exists(d) == Open /\ (d = "sv" => link = "connected")
Reset     == aborted \ ended

-----------------------------------------------------------------------------
(* The peers and the network *)

PeerSends(d) ==
  /\ Exists(d) /\ d \notin ended \cup aborted /\ sent[d] < MaxSend
  /\ sent' = [sent EXCEPT ![d] = @ + 1]
  /\ wire' = [wire EXCEPT ![d] = Append(@, sent[d] + 1)]
  /\ UNCHANGED <<ssn, arrived, taken, ended, aborted, broken>>

PeerEnds(d) ==
  /\ Exists(d) /\ d \notin ended \cup aborted
  /\ ended' = ended \cup {d}
  /\ UNCHANGED <<ssn, wire, arrived, taken, sent, aborted, broken>>

PeerReads(d) ==
  /\ session # "none" /\ d \notin aborted /\ taken[d] < Len(arrived[d])
  /\ taken' = [taken EXCEPT ![d] = @ + 1]
  /\ UNCHANGED <<ssn, wire, arrived, sent, ended, aborted, broken>>

\* A peer closes the whole connection: one that has not ended its stream resets
\* it.  One that has is not noticed until its reset arrives.
PeerAborts(d) ==
  /\ Exists(d) /\ d \notin aborted
  /\ aborted' = aborted \cup {d}
  /\ UNCHANGED <<ssn, wire, arrived, taken, sent, ended, broken>>

\* What a peer that has closed after its end of stream has not read, or what is
\* written to it since, is answered with a reset.
ResetArrives(d) ==
  /\ Exists(d) /\ d \in (aborted \cap ended) \ broken
  /\ taken[d] < Len(arrived[d])
  /\ broken' = broken \cup {d}
  /\ UNCHANGED <<ssn, wire, arrived, taken, sent, ended, aborted>>

ConnectAnswered ==
  /\ Open /\ link = "connecting"
  /\ link' \in {"connected", "refused"}
  /\ UNCHANGED <<proxy, session, closed_sides, output, shut, seen, peers>>

-----------------------------------------------------------------------------
(* on_accept() *)

\* Mutation: closed_sides is not initialised.
OnAcceptGarbage ==
  /\ proxy = "running" /\ session = "none"
  /\ session' = "open" /\ link' = "connecting"
  /\ closed_sides' \in 0 .. 3
  /\ UNCHANGED <<proxy, output, shut, seen, peers>>

OnAccept ==
  /\ proxy = "running" /\ session = "none"
  /\ session' = "open" /\ link' = "connecting"
  /\ closed_sides' = 0
  /\ UNCHANGED <<proxy, output, shut, seen, peers>>

\* bufferevent_socket_connect() fails at once: the exception leaves the event
\* loop, main() returns.
OnAcceptThrows ==
  /\ proxy = "running" /\ session = "none"
  /\ proxy' = "ended"
  /\ UNCHANGED <<session, link, closed_sides, output, shut, seen, peers>>

-----------------------------------------------------------------------------
(* read_cb() *)

\* Mutation: the bytes go back to where they came from.
OutputOfOwn(d) == d

Reading(d) == d \notin seen

\* Whose output buffer the bytes that come from side d go to.
OutputOf(d) == Other(d)

\* Mutation: nothing is moved any more when one stream has ended.
ReadCbUntilEnd(d) ==
  /\ Exists(d) /\ Reading(d) /\ d \notin Reset /\ closed_sides = 0
  /\ \E k \in 1 .. Len(wire[d]) :
       /\ wire' = [wire EXCEPT ![d] = SubSeq(@, k + 1, Len(@))]
       /\ output' = [output EXCEPT ![OutputOf(d)] = @ \o SubSeq(wire[d], 1, k)]
  /\ UNCHANGED <<proxy, session, link, closed_sides, shut, seen,
                 arrived, taken, sent, ended, aborted, broken>>

\* A read() returns the first k chunks, read_cb() moves them.
ReadCb(d) ==
  /\ Exists(d) /\ Reading(d) /\ d \notin Reset
  /\ \E k \in 1 .. Len(wire[d]) :
       /\ wire' = [wire EXCEPT ![d] = SubSeq(@, k + 1, Len(@))]
       /\ output' = [output EXCEPT ![OutputOf(d)] = @ \o SubSeq(wire[d], 1, k)]
  /\ UNCHANGED <<proxy, session, link, closed_sides, shut, seen,
                 arrived, taken, sent, ended, aborted, broken>>

-----------------------------------------------------------------------------
(* special_cb() *)

\* delete ssn, bufferevent_free() of both sides: what is buffered is gone.  The
\* sockets end with the session (they are closed once or, behind the second end of
\* a stream, twice: which session has the descriptor by then is left out).
Freed == session' = "freed" /\ output' = [d \in Side |-> <<>>]

\* Mutation: the sides that have ended are not counted.
CountedNot == 0

Counted == closed_sides + 1

\* BEV_EVENT_EOF from side d.  shutdown() of a socket that is still connecting
\* gives up the connection.
Eof(d) ==
  /\ Exists(d) /\ Reading(d)
  /\ d \in ended /\ wire[d] = <<>>
  /\ seen' = seen \cup {d}
  /\ shut' = shut \cup {Other(d)}
  /\ link' = IF d = "cl" /\ link = "connecting" THEN "refused" ELSE link
  /\ closed_sides' = Counted
  /\ IF Counted = 2 THEN Freed ELSE UNCHANGED <<session, output>>
  /\ UNCHANGED <<proxy, peers>>

\* BEV_EVENT_ERROR: the connection to the server failed, or read() did.
Error ==
  /\ Open
  /\ link = "refused" \/ Reset # {}
  /\ Freed
  /\ UNCHANGED <<proxy, link, closed_sides, shut, seen, peers>>

-----------------------------------------------------------------------------
(* The write side of a bufferevent *)

\* write() takes what the socket has room for.
WriteOut(d) ==
  /\ Exists(d) /\ d \notin shut \cup Reset \cup broken
  /\ \E k \in 1 .. Len(output[d]) :
       /\ k <= Room - (Len(arrived[d]) - taken[d])
       /\ output' = [output EXCEPT ![d] = SubSeq(@, k + 1, Len(@))]
       /\ arrived' = [arrived EXCEPT ![d] = @ \o SubSeq(output[d], 1, k)]
  /\ UNCHANGED <<proxy, session, link, closed_sides, shut, seen,
                 wire, taken, sent, ended, aborted, broken>>

\* write() after shutdown(SHUT_WR), or after the reset of a peer whose stream had
\* ended: SIGPIPE, which main() does not ignore.
WriteFails(d) ==
  /\ Exists(d) /\ d \in shut \cup broken /\ output[d] # <<>>
  /\ proxy' = "killed"
  /\ UNCHANGED <<session, link, closed_sides, output, shut, seen, peers>>

-----------------------------------------------------------------------------

EventLoop ==
  \/ OnAccept
  \/ OnAcceptThrows
  \/ Error
  \/ \E d \in Side : ReadCb(d) \/ Eof(d) \/ WriteOut(d) \/ WriteFails(d)

Peers ==
  \/ ConnectAnswered
  \/ \E d \in Side : PeerSends(d) \/ PeerEnds(d) \/ PeerReads(d) \/ PeerAborts(d)
                      \/ ResetArrives(d)

Next == EventLoop \/ Peers

Spec == Init /\ [][Next]_vars

\* Every event that stays pending gets its callback; connect() is answered, and
\* the peers read what arrives.
FairSpec ==
  /\ Spec
  /\ WF_vars(OnAccept \/ OnAcceptThrows)
  /\ WF_vars(Error) /\ WF_vars(ConnectAnswered)
  /\ \A d \in Side : /\ WF_vars(ReadCb(d)) /\ WF_vars(Eof(d))
                     /\ WF_vars(WriteOut(d)) /\ WF_vars(WriteFails(d))
                     /\ WF_vars(PeerReads(d))

-----------------------------------------------------------------------------
(* Properties *)

Stream(d) == [k \in 1 .. sent[d] |-> k]

TypeOK ==
  /\ proxy \in {"running", "ended", "killed"}
  /\ session \in {"none", "open", "freed"}
  /\ link \in {"none", "connecting", "connected", "refused"}
  /\ closed_sides \in 0 .. 2
  /\ shut \cup ended \cup seen \cup aborted \cup broken \subseteq Side
  /\ sent \in [Side -> 0 .. MaxSend]
  /\ output \in [Side -> Seq(1 .. MaxSend)] /\ wire \in [Side -> Seq(1 .. MaxSend)]
  /\ arrived \in [Side -> Seq(1 .. MaxSend)] /\ taken \in [Side -> Nat]
  /\ \A d \in Side : taken[d] <= Len(arrived[d]) /\ Len(arrived[d]) - taken[d] <= Room

\* While the session lives, each byte a peer has sent is in exactly one place
\* on its way to the other peer, and in order: no callback loses, repeats or
\* overtakes anything, the end of a stream included.
InTransit ==
  session = "open" =>
    \A d \in Side : arrived[Other(d)] \o output[Other(d)] \o wire[d] = Stream(d)

Over == proxy # "running" \/ session = "freed"

Session == INSTANCE Streams WITH got <- arrived, cut <- Over

\* What a peer has got is always the beginning of what the other has sent, and it
\* only grows, whatever the callbacks buffer and whoever ends or resets what;
\* when the session is over nothing moves any more.
ImplementsStreams == Session!Spec

\* When both peers have ended their streams, or one has reset its connection, the
\* session is freed: neither connection is left behind.
SessionEnds == ended = Side \/ Reset # {} ~> Over

\* A peer that has ended its own stream goes on receiving what the other sends
\* (3.txt:9), as long as that one has not ended or broken anything.
HalfOpenFlows ==
  \A d \in Side :
    sent[d] > Len(arrived[Other(d)]) ~> \/ sent[d] = Len(arrived[Other(d)])
                                        \/ Over \/ d \in ended \/ aborted # {}

\* 3.txt:9: at the end of a peer's stream all that is buffered is still sent:
\* the other peer is told of the end after it has got everything.
AllBeforeEnd == \A d \in shut : Len(arrived[d]) = sent[Other(d)]
=============================================================================
