------------------------------ MODULE Platform -------------------------------
(***************************************************************************)
(* The server process: main, its key files (ServerKeys) and the server it  *)
(* runs (ServerInterface).  The server exists while main serves; when the  *)
(* process ends, connections and messages are gone and files stay.         *)
(***************************************************************************)
EXTENDS ServerKeys, ServerInterface

vars == <<keys, service>>

Init == KeysInit /\ ServiceInit

(* main before the server is constructed, or files while it is off.        *)
StartUp == main # "serve" /\ KeysNext /\ UNCHANGED service

(* server.Start() and the loop over Update, the io_service and the pool.   *)
Serve == main = "serve" /\ ServiceNext /\ UNCHANGED keys

(* An exception on the io_service thread or a handler without its object.  *)
Die == main = "serve" /\ ServiceDies /\ EndMain /\ ServiceLost

(* The process is killed from outside.                                     *)
Kill == main = "serve" /\ EndMain /\ ServiceLost

Next == StartUp \/ Serve \/ Die \/ Kill

Spec == Init /\ [][Next]_vars

(* Every variable has its type, and the server's are initial unless main   *)
(* serves.                                                                 *)
TypeOK ==
  /\ KeysTypeOK
  /\ ServiceTypeOK
  /\ main # "serve" => ServiceInit

=============================================================================
