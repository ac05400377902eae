------------------------------- MODULE MyRSA -------------------------------
(***************************************************************************)
(* mine_openssl::MyRSA: objects and the RSA structures their two pointers  *)
(* refer to, as objects are generated, loaded from files, copied, loaded   *)
(* again and destroyed.  Half of a key pair is known by its pair.          *)
(*                                                                         *)
(* A file gives its half, or it cannot be read and the new structure stays *)
(* blank, or what is read is no key, and OpenSSL frees the public          *)
(* structure and sets the pointer to null.  Both files are of one pair.    *)
(***************************************************************************)
EXTENDS Naturals

CONSTANTS
  KeyObjects,  \* of MyRSA
  KeyPairs,    \* pairs of keys, generated or in files
  Blank,       \* the content of a structure without a key
  Freed,       \* that of one that was given back
  MaxMade      \* bound on the structures made

ASSUME RSAAssumption ==
  /\ Blank \notin KeyPairs /\ Freed \notin KeyPairs /\ Blank # Freed
  /\ "undefined" \notin KeyPairs
  /\ MaxMade \in Nat

Structures == 1 .. MaxMade
Null == 0

VARIABLES
  madeKeys,      \* how many structures were made
  heap,          \* the content of each
  alive,         \* the objects there are
  pub_key_ptr_,
  pri_key_ptr_,
  only_pubkey_,
  refused        \* history: the last loading of the object failed

rsaVars == <<madeKeys, heap, alive, pub_key_ptr_, pri_key_ptr_, only_pubkey_, refused>>

RSAInit ==
  /\ madeKeys = 0
  /\ heap = [s \in Structures |-> Blank]
  /\ alive = {}
  /\ pub_key_ptr_ = [o \in KeyObjects |-> Null]
  /\ pri_key_ptr_ = [o \in KeyObjects |-> Null]
  /\ only_pubkey_ = [o \in KeyObjects |-> FALSE]
  /\ refused = [o \in KeyObjects |-> FALSE]

Content(s) == IF s = Null THEN Blank ELSE heap[s]
PubKey(o) == Content(pub_key_ptr_[o])
PriKey(o) == Content(pri_key_ptr_[o])

-----------------------------------------------------------------------------
Born(o, only) ==
  /\ o \notin alive /\ madeKeys + 2 <= MaxMade
  /\ alive' = alive \union {o}
  /\ only_pubkey_' = [only_pubkey_ EXCEPT ![o] = only]

(* MyRSA(n): both halves are copies of what was generated.                 *)
Generate(o, p) ==
  /\ Born(o, FALSE)
  /\ madeKeys' = madeKeys + 2
  /\ heap' = [heap EXCEPT ![madeKeys + 1] = p, ![madeKeys + 2] = p]
  /\ pub_key_ptr_' = [pub_key_ptr_ EXCEPT ![o] = madeKeys + 1]
  /\ pri_key_ptr_' = [pri_key_ptr_ EXCEPT ![o] = madeKeys + 2]
  /\ refused' = [refused EXCEPT ![o] = FALSE]

(* The public half is read into a new structure; read is what comes of it. *)
InitPubImpl(o, read) ==
  pub_key_ptr_' = [pub_key_ptr_ EXCEPT ![o] =
                     IF read = Freed THEN Null ELSE madeKeys + 1]

(* Mutant: the private half is replaced when it has been read.             *)
InitPriIfRead(o, read) ==
  pri_key_ptr_' = [pri_key_ptr_ EXCEPT ![o] =
                     IF read = Blank THEN @ ELSE madeKeys + 2]

(* The private half; a structure that could not be filled stays blank.     *)
InitPriImpl(o, read) == pri_key_ptr_' = [pri_key_ptr_ EXCEPT ![o] = madeKeys + 2]

(* Both; an error in the first leaves the second as it was.  The tests for *)
(* structures to free first are the wrong way round: none is freed.        *)
ReadBoth(o, p) ==
  \/ \E read \in {Blank, Freed} :
       /\ InitPubImpl(o, read)
       /\ heap' = [heap EXCEPT ![madeKeys + 1] = read]
       /\ madeKeys' = madeKeys + 1
       /\ refused' = [refused EXCEPT ![o] = TRUE]
       /\ UNCHANGED pri_key_ptr_
  \/ \E read \in {p, Blank} :
       /\ InitPubImpl(o, p)
       /\ InitPriImpl(o, read)
       /\ heap' = [heap EXCEPT ![madeKeys + 1] = p, ![madeKeys + 2] = read]
       /\ madeKeys' = madeKeys + 2
       /\ refused' = [refused EXCEPT ![o] = read = Blank]

(* MyRSA(pub, pri): the constructor prints the error and goes on.          *)
LoadBoth(o, p) == Born(o, FALSE) /\ ReadBoth(o, p)

(* Init on an object there is; an error goes to the caller.                *)
InitKeys(o, p) ==
  /\ o \in alive /\ madeKeys + 2 <= MaxMade
  /\ ReadBoth(o, p)
  /\ UNCHANGED <<alive, only_pubkey_>>

(* Mutant: only_pubkey_ is left FALSE.                                     *)
LoadPubPlain(o, p) ==
  /\ Born(o, FALSE)
  /\ \E read \in {p, Blank, Freed} :
       /\ InitPubImpl(o, read)
       /\ heap' = [heap EXCEPT ![madeKeys + 1] = read]
       /\ refused' = [refused EXCEPT ![o] = read # p]
  /\ madeKeys' = madeKeys + 1
  /\ UNCHANGED pri_key_ptr_

(* MyRSA(pub), with the same handling of errors.                           *)
LoadPub(o, p) ==
  /\ Born(o, TRUE)
  /\ \E read \in {p, Blank, Freed} :
       /\ InitPubImpl(o, read)
       /\ heap' = [heap EXCEPT ![madeKeys + 1] = read]
       /\ refused' = [refused EXCEPT ![o] = read # p]
  /\ madeKeys' = madeKeys + 1
  /\ UNCHANGED pri_key_ptr_

(* The compiler's copy constructor copies the pointers.                    *)
Copy(o, from) ==
  /\ o \notin alive /\ from \in alive
  /\ alive' = alive \union {o}
  /\ pub_key_ptr_' = [pub_key_ptr_ EXCEPT ![o] = pub_key_ptr_[from]]
  /\ pri_key_ptr_' = [pri_key_ptr_ EXCEPT ![o] = pri_key_ptr_[from]]
  /\ only_pubkey_' = [only_pubkey_ EXCEPT ![o] = only_pubkey_[from]]
  /\ refused' = [refused EXCEPT ![o] = refused[from]]
  /\ UNCHANGED <<madeKeys, heap>>

Dies(o) ==
  /\ o \in alive
  /\ alive' = alive \ {o}
  /\ pub_key_ptr_' = [pub_key_ptr_ EXCEPT ![o] = Null]
  /\ pri_key_ptr_' = [pri_key_ptr_ EXCEPT ![o] = Null]
  /\ UNCHANGED <<madeKeys, only_pubkey_, refused>>

(* Mutant: the tests of ~RSAImpl are the right way round.                  *)
DestroyFrees(o) ==
  /\ Dies(o)
  /\ heap' = [s \in Structures |->
                IF s \in {pub_key_ptr_[o], pri_key_ptr_[o]} THEN Freed ELSE heap[s]]

(* ~RSAImpl calls RSA_free for null pointers only.                         *)
DestroyKeys(o) == Dies(o) /\ UNCHANGED heap

RSANext ==
  \E o \in KeyObjects :
    \/ \E p \in KeyPairs :
         Generate(o, p) \/ LoadBoth(o, p) \/ InitKeys(o, p) \/ LoadPub(o, p)
    \/ \E from \in KeyObjects : Copy(o, from)
    \/ DestroyKeys(o)

RSASpec == RSAInit /\ [][RSANext]_rsaVars

-----------------------------------------------------------------------------
(* What the operations come to: they need a half that is there, and        *)
(* OpenSSL does not survive a null pointer or a blank structure.           *)
Needs(half, result) == IF half \in KeyPairs THEN result ELSE "undefined"

EncryptPubKey(o) == Needs(PubKey(o), PubKey(o))
DecryptPriKey(o, by) ==
  IF only_pubkey_[o] THEN "thrown"
  ELSE Needs(PriKey(o), IF by = PriKey(o) THEN "plain" ELSE "thrown")
SignWith(o) ==
  IF only_pubkey_[o] THEN "thrown" ELSE Needs(PriKey(o), PriKey(o))
Verify(o, by) ==
  Needs(PubKey(o), IF by = PubKey(o) THEN "good" ELSE "bad")

(* Every variable has its type.                                            *)
RSATypeOK ==
  /\ madeKeys \in 0 .. MaxMade
  /\ heap \in [Structures -> KeyPairs \union {Blank, Freed}]
  /\ alive \subseteq KeyObjects
  /\ pub_key_ptr_ \in [KeyObjects -> 0 .. madeKeys]
  /\ pri_key_ptr_ \in [KeyObjects -> 0 .. madeKeys]
  /\ only_pubkey_ \in [KeyObjects -> BOOLEAN]
  /\ refused \in [KeyObjects -> BOOLEAN]

(* No object refers to a structure that was given back, though copies      *)
(* share their structures: the tests before RSA_free are the wrong way     *)
(* round, and the structures are never given back.                         *)
PointersValid ==
  \A o \in alive : /\ pub_key_ptr_[o] # Null => heap[pub_key_ptr_[o]] # Freed
                   /\ pri_key_ptr_[o] # Null => heap[pri_key_ptr_[o]] # Freed

(* An object never has halves of two pairs, also when Init replaces one    *)
(* and fails with the other: what it encrypts it decrypts, what it signs   *)
(* it verifies.                                                            *)
HalvesMatch ==
  \A o \in alive :
    PubKey(o) \in KeyPairs /\ PriKey(o) \in KeyPairs => PubKey(o) = PriKey(o)

(* An object for which no error was reported has every half that its       *)
(* operations use; those that would need a private key it has not throw.   *)
DefinedUnlessRefused ==
  \A o \in alive :
    ~refused[o] =>
      /\ EncryptPubKey(o) # "undefined" /\ SignWith(o) # "undefined"
      /\ \A p \in KeyPairs : /\ DecryptPriKey(o, p) # "undefined"
                             /\ Verify(o, p) # "undefined"

=============================================================================
