----------------------------- MODULE KeyRegistry -----------------------------
(***************************************************************************)
(* What Server::SeckeyAgree promises its clients, with no file, thread or  *)
(* process in sight: a client id is registered once, with the key of one   *)
(* genuine request (its signature is good); only a request that was        *)
(* registered is answered with an AES key, and that is encrypted for the   *)
(* registered key; any other request may be declined; the answer to any    *)
(* request may be lost, what was registered may not.                       *)
(***************************************************************************)
CONSTANTS Requests, Clients, Keys, None

VARIABLES
  request,     \* the client, the key and the genuineness of each request
  registry,    \* the key registered for each client
  registered,  \* the requests that registered one
  outcome,     \* how each request ended
  sealed       \* the key that the answer to each request is encrypted for

vars == <<request, registry, registered, outcome, sealed>>

Request == [client : Clients, key : Keys, genuine : BOOLEAN]

Init ==
  /\ request \in [Requests -> Request]
  /\ registry = [c \in Clients |-> None]
  /\ registered = {}
  /\ outcome = [r \in Requests |-> "pending"]
  /\ sealed = [r \in Requests |-> None]

Register(r) ==
  /\ outcome[r] = "pending"
  /\ r \notin registered
  /\ request[r].genuine
  /\ registry[request[r].client] = None
  /\ registry' = [registry EXCEPT ![request[r].client] = request[r].key]
  /\ registered' = registered \union {r}
  /\ UNCHANGED <<request, outcome, sealed>>

Agree(r) ==
  /\ outcome[r] = "pending"
  /\ r \in registered
  /\ outcome' = [outcome EXCEPT ![r] = "agreed"]
  /\ sealed' = [sealed EXCEPT ![r] = registry[request[r].client]]
  /\ UNCHANGED <<request, registry, registered>>

Decline(r) ==
  /\ outcome[r] = "pending"
  /\ r \notin registered
  /\ outcome' = [outcome EXCEPT ![r] = "failed"]
  /\ UNCHANGED <<request, registry, registered, sealed>>

(* A message of another kind, which the service does not answer.           *)
Ignore(r) ==
  /\ outcome[r] = "pending"
  /\ ~request[r].genuine
  /\ outcome' = [outcome EXCEPT ![r] = "silent"]
  /\ UNCHANGED <<request, registry, registered, sealed>>

Lose(S) ==
  /\ \A r \in S : outcome[r] = "pending"
  /\ outcome' = [r \in Requests |-> IF r \in S THEN "lost" ELSE outcome[r]]
  /\ UNCHANGED <<request, registry, registered, sealed>>

Next ==
  \/ \E r \in Requests : Register(r) \/ Agree(r) \/ Decline(r) \/ Ignore(r)
  \/ \E S \in SUBSET Requests : Lose(S)

Spec == Init /\ [][Next]_vars

=============================================================================
