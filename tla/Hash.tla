-------------------------------- MODULE Hash --------------------------------
(***************************************************************************)
(* mine_openssl::Hash at two ends, of one that signs and of one that       *)
(* verifies: each has one Hash object, which it uses for one text after    *)
(* another, and what Final returns is signed, sent and verified by MyRSA.  *)
(*                                                                         *)
(* A digest is known by the text it is of; what counts of its form is how  *)
(* long it is, since RSA_sign takes no more than the key has room for.     *)
(***************************************************************************)
EXTENDS Naturals, Sequences

CONSTANTS
  Texts,    \* sequences, what Update is called with
  Holders,  \* pairs of keys; the signer's are all, the verifier has a public half
  NoText,   \* no digest
  MaxText   \* bound on the length of what is hashed

Characters == UNION {{text[i] : i \in DOMAIN text} : text \in Texts}

(* The empty string stands for no holder.                                  *)
ASSUME HashAssumption ==
  /\ Texts \subseteq Seq(Characters) /\ MaxText \in Nat
  /\ "" \notin Holders

Ends == {"signer", "verifier"}
Types == {"SHA256", "SHA384", "SHA512"}

VARIABLES
  hash_type_,  \* HashType and SignType of both ends
  units,       \* MyRSA(n): keys of n * kKeyBitsLen bits
  md_ctx_,     \* what each context has been given
  since,       \* history: the arguments of Update since the last Final
  digest,      \* what each end's last Final returned is a digest of
  hashed,      \* history: what the end meant to be hashed by it
  signature,   \* on its way: the pair and the digest; "" when RSA_sign failed
  signed       \* history: what the signer meant to sign

hashVars == <<hash_type_, units, md_ctx_, since, digest, hashed, signature, signed>>

kKeyBitsLen == 1024
KeyBytes == (kKeyBitsLen * units) \div 8

HashLength == CASE hash_type_ = "SHA256" -> 32
                [] hash_type_ = "SHA384" -> 48
                [] hash_type_ = "SHA512" -> 64

(* Mutant: the bytes are separated.                                        *)
ResultLengthSeparated == HashLength * 3

(* Final returns two digits for each byte, and the 0 at the end.           *)
ResultLength == HashLength * 2 + 1

(* EMSA-PKCS1-v1_5: the identifier of the digest has 19 bytes for each of  *)
(* the types, the padding at least 11.                                     *)
Fits == ResultLength + 19 + 11 <= KeyBytes

HashInit ==
  /\ hash_type_ \in Types /\ units \in 1 .. 2
  /\ md_ctx_ = [e \in Ends |-> << >>]
  /\ since = [e \in Ends |-> << >>]
  /\ digest = [e \in Ends |-> NoText]
  /\ hashed = [e \in Ends |-> NoText]
  /\ signature = [by |-> "none", of |-> NoText] /\ signed = NoText

Update(e, text) ==
  /\ Len(since[e]) + Len(text) <= MaxText
  /\ md_ctx_' = [md_ctx_ EXCEPT ![e] = @ \o text]
  /\ since' = [since EXCEPT ![e] = @ \o text]
  /\ UNCHANGED <<hash_type_, units, digest, hashed, signature, signed>>

(* Mutant: the context is not initialized again.                           *)
FinalImplOnce(e) ==
  /\ digest' = [digest EXCEPT ![e] = md_ctx_[e]]
  /\ UNCHANGED md_ctx_

(* EVP_DigestFinal_ex, and the context starts anew.                        *)
FinalImpl(e) ==
  /\ digest' = [digest EXCEPT ![e] = md_ctx_[e]]
  /\ md_ctx_' = [md_ctx_ EXCEPT ![e] = << >>]

Final(e) ==
  /\ FinalImpl(e)
  /\ hashed' = [hashed EXCEPT ![e] = since[e]]
  /\ since' = [since EXCEPT ![e] = << >>]
  /\ UNCHANGED <<hash_type_, units, signature, signed>>

(* MyRSA::Sign tests the result of RSA_sign for -1, but it is 0 when the   *)
(* digest is too long: the signature is empty then, and nothing thrown.    *)
Sign(p) ==
  /\ digest["signer"] # NoText
  /\ signature' = IF Fits THEN [by |-> p, of |-> digest["signer"]]
                  ELSE [by |-> "", of |-> NoText]
  /\ signed' = hashed["signer"]
  /\ UNCHANGED <<hash_type_, units, md_ctx_, since, digest, hashed>>

HashNext ==
  \/ \E e \in Ends : Final(e) \/ \E text \in Texts : Update(e, text)
  \/ \E p \in Holders : Sign(p)

HashSpec == HashInit /\ [][HashNext]_hashVars

(* MyRSA::Verify with the public half of p.                                *)
Accepts(p) ==
  /\ digest["verifier"] # NoText
  /\ signature = [by |-> p, of |-> digest["verifier"]]

-----------------------------------------------------------------------------
(* Every variable has its type.                                            *)
HashTypeOK ==
  LET Digests == {NoText} \union Seq(Characters)
  IN  /\ hash_type_ \in Types /\ units \in 1 .. 2
      /\ md_ctx_ \in [Ends -> Seq(Characters)]
      /\ since \in [Ends -> Seq(Characters)]
      /\ digest \in [Ends -> Digests] /\ hashed \in [Ends -> Digests]
      /\ signature \in [by : {"none", ""} \union Holders, of : Digests]
      /\ signed \in Digests

(* A signature is accepted with the key that made it and for the text it   *)
(* was made for, and only then, whatever both objects hashed before and in *)
(* how many pieces; but a SHA-512 digest is never signed with a key of     *)
(* 1024 bits.  (SHA-384, which the server uses, has one byte to spare.)    *)
AcceptsTheSigned ==
  IF signature.by = "" THEN hash_type_ = "SHA512" /\ units = 1
  ELSE \A p \in Holders :
         Accepts(p) <=> /\ signature.by = p
                        /\ hashed["verifier"] = signed
                        /\ signed # NoText

=============================================================================
