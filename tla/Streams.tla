------------------------------- MODULE Streams -------------------------------
(***************************************************************************)
(* What a proxy session promises its two peers: each gets what the other   *)
(* has sent, from the beginning, in order, nothing twice and nothing left  *)
(* out, until the session is cut.  A stream is the chunks 1, 2, 3, ...     *)
(***************************************************************************)
EXTENDS Integers, Sequences

VARIABLES
  sent,   \* how many chunks each peer has sent
  got,    \* what each peer has got of the other
  cut     \* the session is over

Side     == {"cl", "sv"}
Other(d) == IF d = "cl" THEN "sv" ELSE "cl"

Init ==
  /\ sent = [d \in Side |-> 0] /\ got = [d \in Side |-> <<>>]
  /\ cut = FALSE

Send(d) ==
  /\ ~cut
  /\ sent' = [sent EXCEPT ![d] = @ + 1]
  /\ UNCHANGED <<got, cut>>

\* The next chunks arrive.
Deliver(d) ==
  /\ ~cut
  /\ \E n \in 1 .. sent[Other(d)] - Len(got[d]) :
       got' = [got EXCEPT ![d] = @ \o [k \in 1 .. n |-> Len(@) + k]]
  /\ UNCHANGED <<sent, cut>>

Cut == ~cut /\ cut' = TRUE /\ UNCHANGED <<sent, got>>

Next == Cut \/ \E d \in Side : Send(d) \/ Deliver(d)

Spec == Init /\ [][Next]_<<sent, got, cut>>
=============================================================================
