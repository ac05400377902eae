---------------------------- MODULE CryptoProofs ---------------------------
(***************************************************************************)
(* Proofs of the safety properties of MyRSA, for any number of objects,    *)
(* key pairs and structures, and of Hash, for any texts and holders.       *)
(***************************************************************************)
EXTENDS MyRSA, Hash, TLAPS

(* Objects that are no more have no structures.                            *)
DeadHaveNone ==
  \A o \in KeyObjects \ alive :
    pub_key_ptr_[o] = Null /\ pri_key_ptr_[o] = Null

(* An object for which no error was reported has the halves it should.     *)
Complete ==
  \A o \in alive :
    ~refused[o] => /\ PubKey(o) \in KeyPairs
                   /\ only_pubkey_[o] \/ PriKey(o) \in KeyPairs

RSAInv ==
  /\ RSATypeOK /\ DeadHaveNone /\ Complete /\ PointersValid /\ HalvesMatch

USE RSAAssumption DEF RSAAssumption, Structures, Null

(* Before the first object there is nothing to point to.                   *)
LEMMA RSAInvInit == ASSUME RSAInit PROVE RSAInv
<1> USE DEF RSAInit
<1>1. RSATypeOK
      <2>1. heap \in [Structures -> KeyPairs \union {Blank, Freed}]
            OBVIOUS
      <2>2. /\ only_pubkey_ \in [KeyObjects -> BOOLEAN]
            /\ refused \in [KeyObjects -> BOOLEAN]
            OBVIOUS
      <2>3. /\ pub_key_ptr_ \in [KeyObjects -> 0 .. madeKeys]
            /\ pri_key_ptr_ \in [KeyObjects -> 0 .. madeKeys]
            /\ madeKeys \in 0 .. MaxMade
            OBVIOUS
      <2> QED BY <2>1, <2>2, <2>3 DEF RSATypeOK
<1>2. DeadHaveNone
      BY DEF DeadHaveNone
<1>3. Complete /\ PointersValid /\ HalvesMatch
      BY DEF Complete, PointersValid, HalvesMatch
<1> QED BY <1>1, <1>2, <1>3 DEF RSAInv

(* What the invariant says of one object.                                  *)
Sound(o) ==
  /\ o \notin alive => pub_key_ptr_[o] = Null /\ pri_key_ptr_[o] = Null
  /\ o \in alive =>
       /\ ~refused[o] => /\ PubKey(o) \in KeyPairs
                         /\ only_pubkey_[o] \/ PriKey(o) \in KeyPairs
       /\ pub_key_ptr_[o] # Null => heap[pub_key_ptr_[o]] # Freed
       /\ pri_key_ptr_[o] # Null => heap[pri_key_ptr_[o]] # Freed
       /\ PubKey(o) \in KeyPairs /\ PriKey(o) \in KeyPairs =>
            PubKey(o) = PriKey(o)

(* A step makes structures and changes none that it finds, and it leaves   *)
(* all objects but one as they are.                                        *)
HeapGrows ==
  /\ madeKeys' >= madeKeys
  /\ \A s \in 1 .. madeKeys : heap'[s] = heap[s]
OthersKept(o) ==
  /\ alive' \ {o} = alive \ {o}
  /\ \A q \in KeyObjects \ {o} :
       /\ pub_key_ptr_'[q] = pub_key_ptr_[q]
       /\ pri_key_ptr_'[q] = pri_key_ptr_[q]
       /\ only_pubkey_'[q] = only_pubkey_[q]
       /\ refused'[q] = refused[q]

(* So what it makes of that one object is all there is to show.            *)
LEMMA OneObjectChanges ==
  ASSUME RSAInv, NEW o \in KeyObjects, RSATypeOK', HeapGrows, OthersKept(o),
         Sound(o)'
  PROVE  RSAInv'
<1> USE DEF RSAInv, OthersKept
<1>1. \A q \in KeyObjects \ {o} :
        PubKey(q)' = PubKey(q) /\ PriKey(q)' = PriKey(q)
      BY DEF RSATypeOK, PubKey, PriKey, Content, HeapGrows
<1>2. \A q \in alive' : q = o \/ (q \in alive /\ q \in KeyObjects \ {o})
      BY DEF RSATypeOK
<1>3. DeadHaveNone'
      BY DEF DeadHaveNone, Sound
<1>4. Complete'
      BY <1>1, <1>2 DEF Complete, Sound
<1>5. PointersValid'
      BY <1>2 DEF PointersValid, RSATypeOK, HeapGrows, Sound
<1>6. HalvesMatch'
      BY <1>1, <1>2 DEF HalvesMatch, Sound
<1> QED BY <1>3, <1>4, <1>5, <1>6

(* A generated pair: each half is a structure of its own with that pair.   *)
LEMMA GenerateStep ==
  ASSUME RSAInv, NEW o \in KeyObjects, NEW p \in KeyPairs, Generate(o, p)
  PROVE  RSAInv'
<1> USE DEF RSAInv, Generate, Born
<1>1. /\ madeKeys + 1 \in Structures /\ madeKeys + 2 \in Structures
      /\ madeKeys \in Nat /\ madeKeys' = madeKeys + 2
      BY DEF RSATypeOK
<1>2. /\ heap'[madeKeys + 1] = p /\ heap'[madeKeys + 2] = p
      /\ \A s \in 1 .. madeKeys : heap'[s] = heap[s]
      BY <1>1 DEF RSATypeOK
<1>3. RSATypeOK'
      <2>1. heap' \in [Structures -> KeyPairs \union {Blank, Freed}]
            BY <1>1 DEF RSATypeOK
      <2>2. /\ pub_key_ptr_' \in [KeyObjects -> 0 .. madeKeys']
            /\ pri_key_ptr_' \in [KeyObjects -> 0 .. madeKeys']
            BY <1>1 DEF RSATypeOK
      <2>3. /\ only_pubkey_' \in [KeyObjects -> BOOLEAN]
            /\ refused' \in [KeyObjects -> BOOLEAN]
            BY DEF RSATypeOK
      <2> QED BY <1>1, <2>1, <2>2, <2>3 DEF RSATypeOK
<1>4. /\ pub_key_ptr_'[o] = madeKeys + 1 /\ pri_key_ptr_'[o] = madeKeys + 2
      /\ PubKey(o)' = p /\ PriKey(o)' = p
      BY <1>1, <1>2 DEF RSATypeOK, PubKey, PriKey, Content
<1>5. HeapGrows
      BY ONLY <1>1, <1>2 DEF HeapGrows
<1>6. OthersKept(o)
      BY DEF OthersKept, RSATypeOK
<1>7. Sound(o)'
      BY <1>1, <1>2, <1>4 DEF Sound
<1> QED BY <1>3, <1>5, <1>6, <1>7, OneObjectChanges

(* What a constructor or Init makes of an object, whose private half is    *)
(* none or of a pair that the public half then is not of.                  *)
LEMMA ReadStep ==
  ASSUME RSAInv, NEW o \in KeyObjects, NEW p \in KeyPairs,
         ReadBoth(o, p), madeKeys + 2 <= MaxMade,
         alive' = alive \union {o},
         only_pubkey_' \in [KeyObjects -> BOOLEAN],
         \A q \in KeyObjects \ {o} : only_pubkey_'[q] = only_pubkey_[q]
  PROVE  RSAInv'
<1> USE DEF RSAInv
<1>0. /\ madeKeys + 1 \in Structures /\ madeKeys + 2 \in Structures
      /\ madeKeys \in Nat
      BY DEF RSATypeOK
<1>1. ASSUME NEW read \in {Blank, Freed},
             InitPubImpl(o, read),
             heap' = [heap EXCEPT ![madeKeys + 1] = read],
             madeKeys' = madeKeys + 1,
             refused' = [refused EXCEPT ![o] = TRUE],
             UNCHANGED pri_key_ptr_
      PROVE  RSAInv'
      <2> USE <1>0, <1>1
      <2>1. /\ heap'[madeKeys + 1] = read
            /\ \A s \in 1 .. madeKeys : heap'[s] = heap[s]
            BY DEF RSATypeOK
      <2>2. RSATypeOK'
            <3>1. heap' \in [Structures -> KeyPairs \union {Blank, Freed}]
                  BY DEF RSATypeOK
            <3>2. /\ pub_key_ptr_' \in [KeyObjects -> 0 .. madeKeys']
                  /\ pri_key_ptr_' \in [KeyObjects -> 0 .. madeKeys']
                  BY DEF RSATypeOK, InitPubImpl
            <3>3. refused' \in [KeyObjects -> BOOLEAN]
                  BY DEF RSATypeOK
            <3> QED BY <3>1, <3>2, <3>3 DEF RSATypeOK
      <2>3. \/ pub_key_ptr_'[o] = Null
            \/ pub_key_ptr_'[o] = madeKeys + 1 /\ read = Blank
            BY DEF RSATypeOK, InitPubImpl
      <2>4. PubKey(o)' = Blank
            BY <2>1, <2>3 DEF PubKey, Content
      <2>5. pri_key_ptr_'[o] # Null => heap'[pri_key_ptr_'[o]] # Freed
            BY <2>1 DEF RSATypeOK, PointersValid, DeadHaveNone
      <2>6. HeapGrows
            BY <2>1 DEF HeapGrows
      <2>7. OthersKept(o)
            BY DEF OthersKept, RSATypeOK, InitPubImpl
      <2>8. Sound(o)'
            <3>1. o \in alive' /\ refused'[o]
                  BY DEF RSATypeOK
            <3> QED BY <2>1, <2>3, <2>4, <2>5, <3>1 DEF Sound
      <2> QED BY <2>2, <2>6, <2>7, <2>8, OneObjectChanges
<1>2. ASSUME NEW read \in {p, Blank},
             InitPubImpl(o, p), InitPriImpl(o, read),
             heap' = [heap EXCEPT ![madeKeys + 1] = p, ![madeKeys + 2] = read],
             madeKeys' = madeKeys + 2,
             refused' = [refused EXCEPT ![o] = read = Blank]
      PROVE  RSAInv'
      <2> USE <1>0, <1>2
      <2>1. /\ heap'[madeKeys + 1] = p /\ heap'[madeKeys + 2] = read
            /\ \A s \in 1 .. madeKeys : heap'[s] = heap[s]
            BY DEF RSATypeOK
      <2>2. RSATypeOK'
            <3>1. heap' \in [Structures -> KeyPairs \union {Blank, Freed}]
                  BY DEF RSATypeOK
            <3>2. /\ pub_key_ptr_' \in [KeyObjects -> 0 .. madeKeys']
                  /\ pri_key_ptr_' \in [KeyObjects -> 0 .. madeKeys']
                  BY DEF RSATypeOK, InitPubImpl, InitPriImpl
            <3>3. refused' \in [KeyObjects -> BOOLEAN]
                  BY DEF RSATypeOK
            <3> QED BY <3>1, <3>2, <3>3 DEF RSATypeOK
      <2>3. pub_key_ptr_'[o] = madeKeys + 1 /\ pri_key_ptr_'[o] = madeKeys + 2
            BY DEF RSATypeOK, InitPubImpl, InitPriImpl
      <2>4. PubKey(o)' = p /\ PriKey(o)' = read
            BY <2>1, <2>3 DEF PubKey, PriKey, Content
      <2>5. refused'[o] = (read = Blank)
            BY DEF RSATypeOK
      <2>6. HeapGrows
            <3>1. madeKeys' = madeKeys + 2
                  OBVIOUS
            <3> QED BY ONLY <1>0, <2>1, <3>1 DEF HeapGrows
      <2>7. OthersKept(o)
            BY DEF OthersKept, RSATypeOK, InitPubImpl, InitPriImpl
      <2>8. Sound(o)'
            <3>1. /\ o \in alive'
                  /\ pub_key_ptr_'[o] # Null /\ pri_key_ptr_'[o] # Null
                  BY <2>3
            <3>2. /\ heap'[pub_key_ptr_'[o]] = p
                  /\ heap'[pri_key_ptr_'[o]] = read
                  BY ONLY <2>1, <2>3
            <3>3. p # Freed /\ read # Freed
                  OBVIOUS
            <3>4. read \in KeyPairs => read = p
                  OBVIOUS
            <3>5. ~refused'[o] => read = p
                  BY ONLY <2>5, read \in {p, Blank}, Zenon
            <3> QED BY ONLY <2>4, <3>1, <3>2, <3>3, <3>4, <3>5,
                    p \in KeyPairs, Zenon DEF Sound
      <2> QED BY <2>2, <2>6, <2>7, <2>8, OneObjectChanges
<1> QED BY <1>1, <1>2 DEF ReadBoth

(* The public half is loaded: the object is not whole until Init ends.     *)
LEMMA LoadPubStep ==
  ASSUME RSAInv, NEW o \in KeyObjects, NEW p \in KeyPairs, LoadPub(o, p)
  PROVE  RSAInv'
<1> USE DEF RSAInv, LoadPub, Born
<1>1. PICK read \in {p, Blank, Freed} :
        /\ InitPubImpl(o, read)
        /\ heap' = [heap EXCEPT ![madeKeys + 1] = read]
        /\ refused' = [refused EXCEPT ![o] = read # p]
      OBVIOUS
<1>2. /\ madeKeys + 1 \in Structures /\ madeKeys \in Nat
      /\ madeKeys' = madeKeys + 1
      BY DEF RSATypeOK
<1>3. /\ heap'[madeKeys + 1] = read
      /\ \A s \in 1 .. madeKeys : heap'[s] = heap[s]
      BY <1>1, <1>2 DEF RSATypeOK
<1>4. RSATypeOK'
      <2>1. heap' \in [Structures -> KeyPairs \union {Blank, Freed}]
            BY <1>1, <1>2 DEF RSATypeOK
      <2>2. /\ pub_key_ptr_' \in [KeyObjects -> 0 .. madeKeys']
            /\ pri_key_ptr_' \in [KeyObjects -> 0 .. madeKeys']
            BY <1>1, <1>2 DEF RSATypeOK, InitPubImpl
      <2>3. refused' \in [KeyObjects -> BOOLEAN]
            BY <1>1 DEF RSATypeOK
      <2>4. only_pubkey_' \in [KeyObjects -> BOOLEAN]
            BY DEF RSATypeOK
      <2> QED BY <1>2, <2>1, <2>2, <2>3, <2>4 DEF RSATypeOK
<1>5. /\ pub_key_ptr_'[o] = IF read = Freed THEN Null ELSE madeKeys + 1
      /\ pri_key_ptr_'[o] = Null
      /\ only_pubkey_'[o] /\ refused'[o] = (read # p)
      BY <1>1 DEF RSATypeOK, InitPubImpl, DeadHaveNone
<1>6. /\ PubKey(o)' = IF read = Freed THEN Blank ELSE read
      /\ PriKey(o)' = Blank
      BY <1>2, <1>3, <1>5 DEF PubKey, PriKey, Content
<1>7. HeapGrows
      BY <1>2, <1>3 DEF HeapGrows
<1>8. OthersKept(o)
      BY <1>1 DEF OthersKept, RSATypeOK, InitPubImpl
<1>9. Sound(o)'
      <2>1. o \in alive'
            OBVIOUS
      <2>2. ~refused'[o] => PubKey(o)' \in KeyPairs
            BY <1>5, <1>6
      <2>3. pub_key_ptr_'[o] # Null => heap'[pub_key_ptr_'[o]] # Freed
            BY <1>3, <1>5
      <2>4. PriKey(o)' \notin KeyPairs
            BY <1>6
      <2> QED BY <1>5, <2>1, <2>2, <2>3, <2>4 DEF Sound
<1> QED BY <1>4, <1>7, <1>8, <1>9, OneObjectChanges

(* A copy refers to what its original refers to.                           *)
LEMMA CopyStep ==
  ASSUME RSAInv, NEW o \in KeyObjects, NEW from \in KeyObjects, Copy(o, from)
  PROVE  RSAInv'
<1> USE DEF RSAInv, Copy
<1>1. RSATypeOK'
      BY DEF RSATypeOK
<1>2. /\ pub_key_ptr_'[o] = pub_key_ptr_[from]
      /\ pri_key_ptr_'[o] = pri_key_ptr_[from]
      /\ only_pubkey_'[o] = only_pubkey_[from] /\ refused'[o] = refused[from]
      BY DEF RSATypeOK
<1>3. PubKey(o)' = PubKey(from) /\ PriKey(o)' = PriKey(from)
      BY <1>2 DEF PubKey, PriKey, Content
<1>4. /\ ~refused'[o] => /\ PubKey(o)' \in KeyPairs
                         /\ only_pubkey_'[o] \/ PriKey(o)' \in KeyPairs
      /\ PubKey(o)' \in KeyPairs /\ PriKey(o)' \in KeyPairs =>
           PubKey(o)' = PriKey(o)'
      BY <1>2, <1>3, Zenon DEF Complete, HalvesMatch
<1>5. /\ pub_key_ptr_'[o] # Null => heap'[pub_key_ptr_'[o]] # Freed
      /\ pri_key_ptr_'[o] # Null => heap'[pri_key_ptr_'[o]] # Freed
      BY <1>2 DEF PointersValid
<1>6. HeapGrows /\ OthersKept(o)
      BY DEF HeapGrows, OthersKept, RSATypeOK
<1>7. Sound(o)'
      BY <1>4, <1>5 DEF Sound
<1> QED BY <1>1, <1>6, <1>7, OneObjectChanges

(* The destructor gives nothing back.                                      *)
LEMMA DestroyStep ==
  ASSUME RSAInv, NEW o \in KeyObjects, DestroyKeys(o)
  PROVE  RSAInv'
<1> USE DEF RSAInv, DestroyKeys, Dies
<1>1. RSATypeOK'
      BY DEF RSATypeOK
<1>2. o \notin alive' /\ pub_key_ptr_'[o] = Null /\ pri_key_ptr_'[o] = Null
      BY DEF RSATypeOK
<1>3. HeapGrows /\ OthersKept(o)
      BY DEF HeapGrows, OthersKept, RSATypeOK
<1> QED BY <1>1, <1>2, <1>3, OneObjectChanges DEF Sound

(* Every operation keeps the invariant.                                    *)
LEMMA RSAInvStep == ASSUME RSAInv, [RSANext]_rsaVars PROVE RSAInv'
<1>1. CASE UNCHANGED rsaVars
      BY <1>1 DEF rsaVars, RSAInv, RSATypeOK, DeadHaveNone, Complete,
         PointersValid, HalvesMatch, PubKey, PriKey, Content
<1>2. ASSUME NEW o \in KeyObjects, NEW p \in KeyPairs,
             LoadBoth(o, p) \/ InitKeys(o, p)
      PROVE  RSAInv'
      <2>1. /\ ReadBoth(o, p) /\ madeKeys + 2 <= MaxMade
            /\ alive' = alive \union {o}
            BY <1>2 DEF LoadBoth, InitKeys, Born
      <2>2. /\ only_pubkey_' \in [KeyObjects -> BOOLEAN]
            /\ \A q \in KeyObjects \ {o} : only_pubkey_'[q] = only_pubkey_[q]
            BY <1>2 DEF LoadBoth, InitKeys, Born, RSAInv, RSATypeOK
      <2> QED BY <2>1, <2>2, ReadStep
<1>3. CASE RSANext
      BY <1>2, <1>3, GenerateStep, LoadPubStep, CopyStep, DestroyStep
      DEF RSANext
<1> QED BY <1>1, <1>3

(* Whatever objects are made, copied, loaded and destroyed, RSAInv holds.  *)
THEOREM RSAInvariant == RSASpec => []RSAInv
BY RSAInvInit, RSAInvStep, PTL DEF RSASpec

(* Objects and structures have their types.                                *)
THEOREM RSATypes == RSASpec => []RSATypeOK
<1>1. RSAInv => RSATypeOK
      BY DEF RSAInv
<1> QED BY <1>1, RSAInvariant, PTL

(* However objects are copied, loaded again and destroyed, none refers to  *)
(* a structure that was given back.                                        *)
THEOREM RSAPointersValid == RSASpec => []PointersValid
<1>1. RSAInv => PointersValid
      BY DEF RSAInv
<1> QED BY <1>1, RSAInvariant, PTL

(* No sequence of loadings, failed ones among them, leaves an object with  *)
(* halves of two pairs.                                                    *)
THEOREM RSAHalvesMatch == RSASpec => []HalvesMatch
<1>1. RSAInv => HalvesMatch
      BY DEF RSAInv
<1> QED BY <1>1, RSAInvariant, PTL

(* An object for which no error was reported has the halves that its       *)
(* operations use.                                                         *)
THEOREM RSADefinedUnlessRefused == RSASpec => []DefinedUnlessRefused
<1>1. RSAInv => DefinedUnlessRefused
      <2> SUFFICES ASSUME RSAInv, NEW o \in alive, ~refused[o]
                   PROVE  /\ EncryptPubKey(o) # "undefined"
                          /\ SignWith(o) # "undefined"
                          /\ \A p \in KeyPairs :
                               /\ DecryptPriKey(o, p) # "undefined"
                               /\ Verify(o, p) # "undefined"
          BY DEF DefinedUnlessRefused
      <2>1. /\ PubKey(o) \in KeyPairs
            /\ only_pubkey_[o] \/ PriKey(o) \in KeyPairs
            BY DEF RSAInv, Complete
      <2> QED BY <2>1 DEF EncryptPubKey, SignWith, DecryptPriKey, Verify, Needs
<1> QED BY <1>1, RSAInvariant, PTL

HIDE RSAAssumption DEF RSAAssumption, Structures, Null

-----------------------------------------------------------------------------
(* Hash.  The signature is by a holder, of the digest that was meant, or   *)
(* empty because that digest is too long for the key, or there is none.    *)
NotSigned == signature = [by |-> "none", of |-> NoText] /\ signed = NoText
SignedBy(p) == signature = [by |-> p, of |-> signed] /\ signed # NoText /\ Fits
TooLong == signature = [by |-> "", of |-> NoText] /\ ~Fits

(* A context has what was given to it since it last started, and a digest  *)
(* is of what it should be of.                                             *)
HashInv ==
  /\ HashTypeOK
  /\ md_ctx_ = since /\ digest = hashed
  /\ NotSigned \/ TooLong \/ \E p \in Holders : SignedBy(p)

(* Which digests fit into which keys.                                      *)
LEMMA FitsWhen ==
  ASSUME hash_type_ \in Types, units \in 1 .. 2
  PROVE  Fits <=> ~(hash_type_ = "SHA512" /\ units = 1)
<1>1. HashLength \in {32, 48, 64} /\ (HashLength = 64 <=> hash_type_ = "SHA512")
  BY DEF HashLength, Types
<1>2. ResultLength = HashLength * 2 + 1 /\ KeyBytes = 128 * units
  BY DEF ResultLength, KeyBytes, kKeyBitsLen
<1> QED BY <1>1, <1>2 DEF Fits

(* The invariant holds of contexts that were just made.                    *)
LEMMA HashInvInit == ASSUME HashInit PROVE HashInv
<1>1. << >> \in Seq(Characters)
  OBVIOUS
<1>2. HashTypeOK
  BY <1>1 DEF HashInit, HashTypeOK
<1> QED BY <1>2 DEF HashInit, HashInv, NotSigned

(* Every Update, Final and Sign keeps it.                                  *)
LEMMA HashInvStep == ASSUME HashInv, [HashNext]_hashVars PROVE HashInv'
<1>1. ASSUME NEW e \in Ends, Final(e) PROVE HashInv'
  <2>1. /\ md_ctx_ \in [Ends -> Seq(Characters)] /\ since \in [Ends -> Seq(Characters)]
        /\ digest \in [Ends -> {NoText} \union Seq(Characters)]
        /\ hashed \in [Ends -> {NoText} \union Seq(Characters)]
    BY DEF HashInv, HashTypeOK
  <2>2. md_ctx_[e] \in Seq(Characters) /\ since[e] \in Seq(Characters)
    BY <2>1
  <2>3. << >> \in Seq(Characters)
    OBVIOUS
  <2>4. /\ md_ctx_' \in [Ends -> Seq(Characters)] /\ since' \in [Ends -> Seq(Characters)]
        /\ digest' \in [Ends -> {NoText} \union Seq(Characters)]
        /\ hashed' \in [Ends -> {NoText} \union Seq(Characters)]
    BY <1>1, <2>1, <2>2, <2>3 DEF Final, FinalImpl
  <2>5. HashTypeOK'
    BY <1>1, <2>4 DEF HashInv, HashTypeOK, Final
  <2> QED BY <1>1, <2>5 DEF HashInv, Final, FinalImpl, NotSigned, SignedBy, TooLong,
                            Fits, ResultLength, HashLength, KeyBytes
<1>2. ASSUME NEW e \in Ends, NEW text \in Texts, Update(e, text) PROVE HashInv'
  <2>1. /\ md_ctx_[e] \o text \in Seq(Characters)
        /\ since[e] \o text \in Seq(Characters)
    <3>1. /\ text \in Seq(Characters)
          /\ md_ctx_[e] \in Seq(Characters) /\ since[e] \in Seq(Characters)
      BY HashAssumption DEF HashAssumption, HashInv, HashTypeOK
    <3> QED BY ONLY <3>1
  <2>2. HashTypeOK'
    BY <1>2, <2>1 DEF HashInv, HashTypeOK, Update
  <2> QED BY <1>2, <2>2 DEF HashInv, Update, NotSigned, SignedBy, TooLong,
                            Fits, ResultLength, HashLength, KeyBytes
<1>3. ASSUME NEW p \in Holders, Sign(p) PROVE HashInv'
  <2>1. /\ HashTypeOK' /\ md_ctx_' = since' /\ digest' = hashed' /\ Fits' = Fits
    <3>1. /\ digest["signer"] \in {NoText} \union Seq(Characters)
          /\ hashed["signer"] \in {NoText} \union Seq(Characters)
      BY DEF HashInv, HashTypeOK, Ends
    <3>2. signature' \in [by : {"none", ""} \union Holders,
                          of : {NoText} \union Seq(Characters)]
      BY <1>3, <3>1 DEF Sign
    <3>3. HashTypeOK'
      BY <1>3, <3>1, <3>2 DEF HashInv, HashTypeOK, Sign
    <3> QED BY <1>3, <3>3 DEF HashInv, Sign, Fits, ResultLength, HashLength, KeyBytes
  <2>2. signed' = digest["signer"] /\ signed' # NoText
    BY <1>3 DEF HashInv, Sign
  <2>3. CASE Fits
    <3>1. SignedBy(p)'
      BY <1>3, <2>1, <2>2, <2>3 DEF Sign, SignedBy
    <3> QED BY <2>1, <3>1 DEF HashInv
  <2>4. CASE ~Fits
    <3>1. TooLong'
      BY <1>3, <2>1, <2>4 DEF Sign, TooLong
    <3> QED BY <2>1, <3>1 DEF HashInv
  <2> QED BY <2>3, <2>4
<1>4. CASE UNCHANGED hashVars
  BY <1>4 DEF HashInv, HashTypeOK, hashVars, NotSigned, SignedBy, TooLong,
              Fits, ResultLength, HashLength, KeyBytes
<1> QED BY <1>1, <1>2, <1>3, <1>4 DEF HashNext

(* The invariant, in every behaviour.                                      *)
LEMMA HashInvariant == HashSpec => []HashInv
BY HashInvInit, HashInvStep, PTL DEF HashSpec

(* What the signature says.                                                *)
LEMMA HashAccepts == ASSUME HashInv PROVE AcceptsTheSigned
<1>1. CASE NotSigned
  <2>1. signature.by = "none" /\ signature.of = NoText /\ signed = NoText
    BY <1>1 DEF NotSigned
  <2>2. \A p \in Holders : ~Accepts(p)
    BY <2>1 DEF Accepts
  <2> QED BY <2>1, <2>2 DEF AcceptsTheSigned
<1>2. ASSUME NEW q \in Holders, SignedBy(q) PROVE AcceptsTheSigned
  <2>1. signature = [by |-> q, of |-> signed] /\ signed # NoText /\ q # ""
    BY <1>2, HashAssumption DEF SignedBy
  <2>2. digest["verifier"] = hashed["verifier"]
    BY DEF HashInv
  <2>3. ASSUME NEW p \in Holders
        PROVE  Accepts(p) <=> /\ signature.by = p
                              /\ hashed["verifier"] = signed
                              /\ signed # NoText
    <3>1. ASSUME Accepts(p)
          PROVE  /\ signature.by = p
                 /\ hashed["verifier"] = signed
                 /\ signed # NoText
      <4>1. /\ signature = [by |-> p, of |-> digest["verifier"]]
            /\ digest["verifier"] # NoText
        BY <3>1 DEF Accepts
      <4>2. signature.by = p /\ signature.by = q
            /\ signature.of = digest["verifier"] /\ signature.of = signed
        <5>1. signature.by = p /\ signature.of = digest["verifier"]
          BY <4>1
        <5>2. signature.by = q /\ signature.of = signed
          BY <2>1
        <5> QED BY <5>1, <5>2
      <4> QED BY <2>1, <2>2, <4>2
    <3>2. ASSUME signature.by = p, hashed["verifier"] = signed
          PROVE  Accepts(p)
      BY <2>1, <2>2, <3>2 DEF Accepts
    <3> QED BY <3>1, <3>2
  <2>4. signature.by # ""
    BY <2>1
  <2> QED BY <2>3, <2>4 DEF AcceptsTheSigned
<1>3. CASE TooLong
  <2>1. signature.by = "" /\ hash_type_ = "SHA512" /\ units = 1
    BY <1>3, FitsWhen DEF TooLong, HashInv, HashTypeOK
  <2> QED BY <2>1 DEF AcceptsTheSigned
<1> QED BY <1>1, <1>2, <1>3 DEF HashInv

(* Every variable has its type.                                            *)
THEOREM HashTypes == HashSpec => []HashTypeOK
<1>1. HashInv => HashTypeOK
  BY DEF HashInv
<1> QED BY <1>1, HashInvariant, PTL

(* A signature is accepted with the key that made it and for the text it   *)
(* was made for, and only then; and it is empty for nothing but a SHA-512  *)
(* digest with a key of 1024 bits.                                         *)
THEOREM HashAcceptsTheSigned == HashSpec => []AcceptsTheSigned
BY HashInvariant, HashAccepts, PTL

=============================================================================
