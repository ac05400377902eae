----------------------------- MODULE MCLibrary -----------------------------
(***************************************************************************)
(* Library with small values: three calls of Connect; three workers and    *)
(* three tasks; two processes with an array of two nodes, and ids of which *)
(* one is that of zeroed memory; two key objects and five structures;      *)
(* texts of at most two characters; two objects of each message class.     *)
(***************************************************************************)
EXTENDS Library

CONSTANTS a, b, e  \* values of fields; e is the empty one

MCTexts == {<<"h">>, <<"h", "h">>}

(* With and without empty fields.                                          *)
MCRequestInfos ==
  {[client_id |-> a, server_id |-> a, sign |-> a, data |-> a],
   [client_id |-> b, server_id |-> e, sign |-> b, data |-> e]}

(* The server's own number, 0 and one below 0; 3 bits hold -4 to 3.        *)
MCRespondInfos ==
  {[seckey_id |-> 3, client_id |-> a, server_id |-> e, data |-> b],
   [seckey_id |-> 0, client_id |-> e, server_id |-> b, data |-> b],
   [seckey_id |-> -1, client_id |-> e, server_id |-> b, data |-> e]}

(* One of another version of the message that ends inside a value, and one *)
(* whose last tag has no value; one that is no message from some point on, *)
(* and one with a number that it has already and that is cut off.          *)
MCRequestTexts ==
  {<<Tag("client_id"), Value(b), Tag("other"), Value(a), Tag("sign"), Cut(a)>>,
   <<Tag("data"), Value(b), Tag("data"), Cut(e)>>}
MCRespondTexts ==
  {<<Tag("client_id"), Value(b), Value(b), Tag("data"), Value(a)>>,
   <<Tag("seckey_id"), Value(6), Tag("seckey_id"), Cut(1)>>}

=============================================================================
