---------------------------- MODULE MCSeckeyAgree ----------------------------
(***************************************************************************)
(* Instances of SeckeyAgree for TLC.  Requests and pool threads are        *)
(* interchangeable: every action and property quantifies over them.        *)
(***************************************************************************)
EXTENDS SeckeyAgree, TLC

CONSTANTS c1, c2, k1, k2, junk

Agreement(c, k, s) ==
  [kind |-> "kSeckeyAgree", client |-> c, key |-> k, sign |-> s]

(* Handlers of the other kinds look at no field.                           *)
OtherMessages ==
  {[kind |-> t, client |-> c1, key |-> k1, sign |-> "invalid"] :
     t \in {"kSeckeyVerify", "kSeckeyLogout", "kFailed"}}

(* All agreements of one client: two keys and a text that is no key, for   *)
(* which there is no good signature.                                       *)
OneClient ==
  {Agreement(c1, k, s) : k \in {k1, k2}, s \in Signs}
    \union {Agreement(c1, junk, s) : s \in Signs \ {"valid"}}

(* One client's agreements under two keys, good and not, another client's  *)
(* agreement, and a message of another kind.                               *)
TwoClients ==
  {Agreement(c1, k, "valid") : k \in {k1, k2}}
    \union {Agreement(c1, k1, s) : s \in {"invalid", "undecodable"}}
    \union {Agreement(c2, k1, "valid")}
    \union {m \in OtherMessages : m.kind = "kSeckeyLogout"}

(* Agreements in good form: readable keys, signatures that decode.         *)
WellFormed ==
  {Agreement(c1, k, s) : k \in {k1, k2}, s \in {"valid", "invalid"}}

WithOthers == OneClient \union OtherMessages

Symmetry == Permutations(Requests) \union Permutations(Workers)

=============================================================================
