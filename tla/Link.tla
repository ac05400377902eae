-------------------------------- MODULE Link --------------------------------
(***************************************************************************)
(* What a mine_net::Connection promises its two ends: messages arrive in   *)
(* the order they were sent, each at most once and whole; the server gets  *)
(* none before it accepted the client.                                     *)
(***************************************************************************)
EXTENDS Naturals, Sequences

VARIABLES sent, received, accepted

vars == <<sent, received, accepted>>

Sides == {"server", "client"}
Peer(s) == CHOOSE p \in Sides : p # s

NoBody == 0

Init ==
  /\ sent = [s \in Sides |-> << >>]
  /\ received = [s \in Sides |-> << >>]
  /\ accepted = FALSE

Accept ==
  /\ ~accepted
  /\ accepted' = TRUE
  /\ UNCHANGED <<sent, received>>

(* A message has a body of its own, or none.                               *)
Send(s, empty) ==
  /\ LET n == Len(sent[s]) + 1
         m == [id |-> n, body |-> IF empty THEN NoBody ELSE n]
     IN  sent' = [sent EXCEPT ![s] = Append(@, m)]
  /\ UNCHANGED <<received, accepted>>

(* The next message of the peer; what a message without a body is delivered *)
(* with is left open.                                                      *)
Deliver(s) ==
  LET n == Len(received[s]) + 1
  IN  /\ s = "server" => accepted
      /\ n <= Len(sent[Peer(s)])
      /\ \E b \in 0 .. n :
           /\ sent[Peer(s)][n].body # NoBody => b = sent[Peer(s)][n].body
           /\ received' = [received EXCEPT ![s] = Append(@, [id |-> n, body |-> b])]
      /\ UNCHANGED <<sent, accepted>>

Next ==
  \/ Accept
  \/ \E s \in Sides :
       \/ \E empty \in BOOLEAN : Send(s, empty)
       \/ Deliver(s)

Spec == Init /\ [][Next]_vars

=============================================================================
