----------------------------- MODULE ServerKeys ------------------------------
(***************************************************************************)
(* The start of main up to the construction of the server: the server's    *)
(* key pair is in two files, and it is generated when one is missing.      *)
(* MyRSA::SaveRSAKey opens both files, which truncates them, and writes to *)
(* their buffers; the text of each arrives when its BIO is freed at the    *)
(* end of the function, the private key's first.  The process may be       *)
(* killed between any two of these steps, and it is started again in the   *)
(* same directory.  One process runs at a time.                            *)
(***************************************************************************)
CONSTANTS
  Pairs,   \* key pairs that MyRSA(1) generates
  NoFile,  \* there is no file of that name
  Empty    \* the file is there and has no content

ASSUME KeysAssumption == NoFile \notin Pairs /\ Empty \notin Pairs /\ NoFile # Empty

VARIABLES
  pub,   \* server_pubkey.pem: the pair whose public key it holds
  pri,   \* server_prikey.pem
  main,  \* where main is
  rsa,   \* the pair being saved
  torn   \* history: a kill hit SaveRSAKey since a pair was last complete

keys == <<pub, pri, main, rsa, torn>>

Saving == {"openPub", "openPri", "closePri", "closePub"}
Stages == Saving \union {"off", "exists", "serve"}
Contents == Pairs \union {NoFile, Empty}

KeysInit ==
  /\ pub = NoFile /\ pri = NoFile
  /\ main = "off"
  /\ rsa \in Pairs
  /\ torn = FALSE

Proceed(from, to) == main = from /\ main' = to

StartMain == Proceed("off", "exists") /\ UNCHANGED <<pub, pri, rsa, torn>>

(* Mutant: !exists(pub) && !exists(pri).                                   *)
KeepOneKey ==
  /\ pub # NoFile \/ pri # NoFile
  /\ Proceed("exists", "serve")
  /\ UNCHANGED <<pub, pri, rsa, torn>>

(* Both files are there: nothing is generated, whatever they contain.      *)
KeepKeys ==
  /\ pub # NoFile /\ pri # NoFile
  /\ Proceed("exists", "serve")
  /\ UNCHANGED <<pub, pri, rsa, torn>>

(* MyRSA rsa(1): a pair that no file holds.                                *)
GenerateKeys ==
  /\ pub = NoFile \/ pri = NoFile
  /\ Proceed("exists", "openPub")
  /\ rsa' \in Pairs \ {pub, pri}
  /\ UNCHANGED <<pub, pri, torn>>

(* BIO_new_file(pub_key_path, "w"), and the same for the private key.      *)
OpenPub == Proceed("openPub", "openPri") /\ pub' = Empty /\ UNCHANGED <<pri, rsa, torn>>

(* Mutant: the private key is opened only if its file is missing.          *)
OpenPriIfMissing ==
  /\ Proceed("openPri", IF pri = NoFile THEN "closePri" ELSE "closePub")
  /\ pri' = IF pri = NoFile THEN Empty ELSE pri
  /\ UNCHANGED <<pub, rsa, torn>>

OpenPri == Proceed("openPri", "closePri") /\ pri' = Empty /\ UNCHANGED <<pub, rsa, torn>>

ClosePri == Proceed("closePri", "closePub") /\ pri' = rsa /\ UNCHANGED <<pub, rsa, torn>>

ClosePub ==
  /\ Proceed("closePub", "serve")
  /\ pub' = rsa
  /\ torn' = FALSE
  /\ UNCHANGED <<pri, rsa>>

(* The process ends; buffers that were not written are lost.               *)
EndMain ==
  /\ main # "off"
  /\ main' = "off"
  /\ torn' = (torn \/ main \in Saving \ {"openPub"})
  /\ UNCHANGED <<pub, pri, rsa>>

(* Somebody deletes a file while the server does not run.                  *)
DeleteKey ==
  /\ main = "off"
  /\ \/ pub # NoFile /\ pub' = NoFile /\ UNCHANGED pri
     \/ pri # NoFile /\ pri' = NoFile /\ UNCHANGED pub
  /\ UNCHANGED <<main, rsa, torn>>

KeysNext ==
  \/ StartMain \/ KeepKeys \/ GenerateKeys
  \/ OpenPub \/ OpenPri \/ ClosePri \/ ClosePub
  \/ EndMain \/ DeleteKey

KeysTypeOK ==
  /\ pub \in Contents /\ pri \in Contents
  /\ main \in Stages
  /\ rsa \in Pairs
  /\ torn \in BOOLEAN

(* Two keys in the two files are of one pair, however often saving was     *)
(* interrupted, files were deleted and the server was started again.       *)
KeysBelongTogether == pub \in Pairs /\ pri \in Pairs => pub = pri

(* The server runs with a complete pair, but for a kill inside SaveRSAKey: *)
(* it leaves files that are there and empty, which main takes for keys.    *)
ServesWithKeys == main = "serve" /\ ~torn => pub \in Pairs /\ pri \in Pairs

=============================================================================
