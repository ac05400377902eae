----------------------------- MODULE SeckeyAgree -----------------------------
(***************************************************************************)
(* The key agreement service of platform::Server: OnMessage posts every    *)
(* incoming message to a boost::asio::thread_pool, and a pool thread runs  *)
(* Work, which for kSeckeyAgree runs SeckeyAgree.  SeckeyAgree keeps the   *)
(* client's public key in the file seckey/<client_id>_pubkey.pem, and it   *)
(* uses that file, not the message, each time it needs the key.  The steps *)
(* of the handler are therefore file-system calls, and the handlers of two *)
(* messages that name the same client interleave at every one of them.     *)
(*                                                                         *)
(* An exception that leaves Work ends the process (asio's pool threads     *)
(* call std::terminate); the files outlive it and the server is started    *)
(* again on the same directory.                                            *)
(*                                                                         *)
(* Abstracted: the text of messages and keys, hashing, the AES key itself. *)
(* Public keys are PEM texts of one length, so a write of one replaces     *)
(* another; opening a key file and reading it is one step.                 *)
(***************************************************************************)
EXTENDS Naturals, Sequences

CONSTANTS
  Workers,      \* threads of thread_pool_ (4 in the code)
  Requests,     \* identities of the messages clients send
  Clients,      \* values of RequestInfo::client_id
  Keys,         \* values of RequestInfo::data, the public key in PEM
  GoodKeys,     \* those that PEM_read_bio_RSAPublicKey can read
  Messages,     \* the messages that clients may send
  Exclusive,    \* TRUE: a client id never has two agreements outstanding
  MaxRestarts,  \* bound on restarts of the server
  NoFile,       \* there is no file of that name
  Empty,        \* the file is there and has no content
  Nil           \* no request, no key

(* The header id and the fields of the request that the handler acts on.   *)
(* sign is what the Base64 text in RequestInfo::sign amounts to: the       *)
(* signature of data by data's own private key, another signature, or text *)
(* that FromBase64 cannot decode.                                          *)
Kinds == {"kSeckeyAgree", "kSeckeyVerify", "kSeckeyLogout", "kFailed"}
Signs == {"valid", "invalid", "undecodable"}
Message == [kind : Kinds, client : Clients, key : Keys, sign : Signs]

ASSUME ConstantsAssumption ==
  /\ GoodKeys \subseteq Keys
  /\ Messages \subseteq Message
  /\ Exclusive \in BOOLEAN
  /\ MaxRestarts \in Nat
  /\ NoFile \notin Keys /\ Empty \notin Keys /\ Nil \notin Keys
  /\ NoFile # Empty
  /\ Nil \notin Requests

Stages == {"unsent", "posted", "working",
           "agreed", "failed", "silent", "lost"}
PCs == {"idle", "exists", "open", "close", "check", "reject", "remove",
        "refuse", "fail", "encrypt", "respond", "stub"}

VARIABLES
  msg,         \* what each request carries; chosen once
  stage,       \* how far each request is, and how it ended
  jobs,        \* handlers posted to the pool and not started, in order
  pc,          \* where each pool thread is in Work
  job,         \* the request each pool thread works on
  file,        \* seckey/<client>_pubkey.pem
  attached,    \* the thread's ofstream writes to the file of that name
  sealed,      \* the key that encrypted the AES key of the reply
  logger,      \* "SeckeyAgree logger" is in spdlog's registry
  alive,       \* the server process runs
  restarts,    \* how often it was started again
  verified,    \* history: requests whose signature was found good
  interrupted  \* history: clients whose file was in doubt at a crash

vars == <<msg, stage, jobs, pc, job, file, attached, sealed, logger,
          alive, restarts, verified, interrupted>>

process == <<logger, alive, restarts, interrupted>>

-----------------------------------------------------------------------------
Init ==
  /\ msg \in [Requests -> Messages]
  /\ stage = [r \in Requests |-> "unsent"]
  /\ jobs = << >>
  /\ pc = [w \in Workers |-> "idle"]
  /\ job = [w \in Workers |-> Nil]
  /\ file = [c \in Clients |-> NoFile]
  /\ attached = [w \in Workers |-> FALSE]
  /\ sealed = [r \in Requests |-> Nil]
  /\ logger = FALSE
  /\ alive = TRUE
  /\ restarts = 0
  /\ verified = {}
  /\ interrupted = {}

At(w, p) == alive /\ pc[w] = p
Goto(w, p) == pc' = [pc EXCEPT ![w] = p]

(* The client whose key file the handler on w works on.                    *)
ClientOf(w) == msg[job[w]].client

Outstanding(c) ==
  \E r \in Requests : /\ stage[r] \in {"posted", "working"}
                      /\ msg[r].kind = "kSeckeyAgree"
                      /\ msg[r].client = c

(* The handler returns to the pool; s says how its request ended.          *)
Finish(w, s) ==
  /\ Goto(w, "idle")
  /\ job' = [job EXCEPT ![w] = Nil]
  /\ stage' = [stage EXCEPT ![job[w]] = s]

-----------------------------------------------------------------------------
(* Server::OnMessage: boost::asio::post(thread_pool_, Work(client, msg)).  *)
OnMessage(r) ==
  /\ alive
  /\ stage[r] = "unsent"
  /\ (Exclusive /\ msg[r].kind = "kSeckeyAgree") => ~Outstanding(msg[r].client)
  /\ stage' = [stage EXCEPT ![r] = "posted"]
  /\ jobs' = Append(jobs, r)
  /\ UNCHANGED <<msg, pc, job, file, attached, sealed, verified, process>>

(* An idle pool thread takes the oldest handler; Work switches on the id.  *)
Work(w) ==
  /\ At(w, "idle")
  /\ jobs # << >>
  /\ LET r == Head(jobs)
     IN  /\ job' = [job EXCEPT ![w] = r]
         /\ stage' = [stage EXCEPT ![r] = "working"]
         /\ Goto(w, IF msg[r].kind = "kSeckeyAgree" THEN "exists" ELSE "stub")
  /\ jobs' = Tail(jobs)
  /\ UNCHANGED <<msg, file, attached, sealed, verified, process>>

(* SeckeyVerify and SeckeyLogout parse the message and return true, and    *)
(* Work's default case does nothing: no reply is sent.                     *)
ReturnSilently(w) ==
  /\ At(w, "stub")
  /\ Finish(w, "silent")
  /\ UNCHANGED <<msg, jobs, file, attached, sealed, verified, process>>

(* Mutant: the check for an existing key is left out.                      *)
CheckExistsDropped(w) ==
  /\ At(w, "exists")
  /\ Goto(w, "open")
  /\ UNCHANGED <<msg, stage, jobs, job, file, attached, sealed, verified, process>>

(* std::filesystem::exists(client_id_pubkey_file_name)                     *)
CheckExists(w) ==
  /\ At(w, "exists")
  /\ Goto(w, IF file[ClientOf(w)] # NoFile THEN "refuse" ELSE "open")
  /\ UNCHANGED <<msg, stage, jobs, job, file, attached, sealed, verified, process>>

(* std::ofstream file_out(name): creates the file, or truncates the one    *)
(* that another handler created in the meantime.                           *)
OpenFile(w) ==
  /\ At(w, "open")
  /\ file' = [file EXCEPT ![ClientOf(w)] = Empty]
  /\ attached' = [attached EXCEPT ![w] = TRUE]
  /\ Goto(w, "close")
  /\ UNCHANGED <<msg, stage, jobs, job, sealed, verified, process>>

(* Mutant: the stream is still open when the key is read back.             *)
CloseFileLate(w) ==
  /\ At(w, "close")
  /\ file' = IF attached[w]
             THEN [file EXCEPT ![ClientOf(w)] = msg[job[w]].key]
             ELSE file
  /\ Goto(w, "check")
  /\ UNCHANGED <<msg, stage, jobs, job, attached, sealed, verified, process>>

(* file_out << data; file_out.close(): the buffered key reaches the file,  *)
(* unless another handler removed the name, when it is written nowhere.    *)
CloseFile(w) ==
  /\ At(w, "close")
  /\ file' = IF attached[w]
             THEN [file EXCEPT ![ClientOf(w)] = msg[job[w]].key]
             ELSE file
  /\ attached' = [attached EXCEPT ![w] = FALSE]
  /\ Goto(w, "check")
  /\ UNCHANGED <<msg, stage, jobs, job, sealed, verified, process>>

-----------------------------------------------------------------------------
(* The process ends: std::terminate for an exception that leaves Work, or  *)
(* the operating system.  What is in memory is gone, files stay.           *)
InDoubt(w) == pc[w] \in {"close", "check", "reject", "remove"}

Terminate ==
  /\ alive' = FALSE
  /\ logger' = FALSE
  /\ jobs' = << >>
  /\ pc' = [w \in Workers |-> "idle"]
  /\ job' = [w \in Workers |-> Nil]
  /\ attached' = [w \in Workers |-> FALSE]
  /\ stage' = [r \in Requests |->
                 IF stage[r] \in {"posted", "working"} THEN "lost" ELSE stage[r]]
  /\ interrupted' =
       interrupted \union {ClientOf(w) : w \in {v \in Workers : InDoubt(v)}}
  /\ UNCHANGED <<msg, file, sealed, restarts, verified>>

(* Mutant: the result of the verification is ignored.                      *)
SignUnchecked(r, stored) ==
  /\ stored \in GoodKeys
  /\ stored = msg[r].key

(* CheckSign reads the key from the file and verifies the signature with   *)
(* it: good only if the file holds the very key that was sent.             *)
SignIsGood(r, stored) ==
  /\ stored \in GoodKeys
  /\ stored = msg[r].key
  /\ msg[r].sign = "valid"

CheckSignPasses(w) ==
  /\ At(w, "check")
  /\ SignIsGood(job[w], file[ClientOf(w)])
  /\ verified' = verified \union {job[w]}
  /\ Goto(w, "encrypt")
  /\ UNCHANGED <<msg, stage, jobs, job, file, attached, sealed, process>>

CheckSignFails(w) ==
  /\ At(w, "check")
  /\ msg[job[w]].sign # "undecodable"
  /\ ~SignIsGood(job[w], file[ClientOf(w)])
  /\ Goto(w, "reject")
  /\ UNCHANGED <<msg, stage, jobs, job, file, attached, sealed, verified, process>>

(* FromBase64 calls resize(-1) on text it cannot decode, and throws.  If   *)
(* the file has no readable key, MyRSA is left without one; RSA_verify is  *)
(* then undefined: it reports failure (CheckSignFails) or the process dies. *)
CheckSignThrows(w) ==
  /\ At(w, "check")
  /\ \/ msg[job[w]].sign = "undecodable"
     \/ file[ClientOf(w)] \notin GoodKeys
  /\ Terminate

-----------------------------------------------------------------------------
(* spdlog::basic_logger_mt registers the name, and throws spdlog_ex if it  *)
(* is registered already; nothing ever drops it from the registry.         *)
LogRejection(w, from, to) ==
  /\ At(w, from)
  /\ ~logger
  /\ logger' = TRUE
  /\ Goto(w, to)
  /\ UNCHANGED <<msg, stage, jobs, job, file, attached, sealed, verified,
                 alive, restarts, interrupted>>

LogThrows(w, from) ==
  /\ At(w, from)
  /\ logger
  /\ Terminate

(* Mutant: a rejected key is left in the directory.                        *)
RemoveFileDropped(w) ==
  /\ At(w, "remove")
  /\ Goto(w, "fail")
  /\ UNCHANGED <<msg, stage, jobs, job, file, attached, sealed, verified, process>>

(* std::filesystem::remove(name): streams open on the file lose their name. *)
RemoveFile(w) ==
  /\ At(w, "remove")
  /\ file' = [file EXCEPT ![ClientOf(w)] = NoFile]
  /\ attached' = [v \in Workers |-> attached[v] /\ ClientOf(v) # ClientOf(w)]
  /\ Goto(w, "fail")
  /\ UNCHANGED <<msg, stage, jobs, job, sealed, verified, process>>

(* Mutant: Work returns without the kFailed message.                       *)
SendFailedDropped(w) ==
  /\ At(w, "fail")
  /\ Goto(w, "idle")
  /\ job' = [job EXCEPT ![w] = Nil]
  /\ UNCHANGED <<msg, stage, jobs, file, attached, sealed, verified, process>>

(* SeckeyAgree returned false: Work sends a kFailed message.               *)
SendFailed(w) ==
  /\ At(w, "fail")
  /\ Finish(w, "failed")
  /\ UNCHANGED <<msg, jobs, file, attached, sealed, verified, process>>

(* MyRSA rsa(name) reads the file again, and EncryptPubKey encrypts with   *)
(* whatever key it holds now.                                              *)
Encrypt(w) ==
  /\ At(w, "encrypt")
  /\ file[ClientOf(w)] \in GoodKeys
  /\ sealed' = [sealed EXCEPT ![job[w]] = file[ClientOf(w)]]
  /\ Goto(w, "respond")
  /\ UNCHANGED <<msg, stage, jobs, job, file, attached, verified, process>>

(* Without a key, EncryptPubKey throws or dereferences a null pointer.     *)
EncryptThrows(w) ==
  /\ At(w, "encrypt")
  /\ file[ClientOf(w)] \notin GoodKeys
  /\ Terminate

(* client->Send(msg_out); return true.                                     *)
SendAgreed(w) ==
  /\ At(w, "respond")
  /\ Finish(w, "agreed")
  /\ UNCHANGED <<msg, jobs, file, attached, sealed, verified, process>>

-----------------------------------------------------------------------------
(* The process is killed from outside at any step.                         *)
Kill ==
  /\ alive
  /\ restarts < MaxRestarts
  /\ Terminate

(* main again: the key directory is kept, everything else starts afresh.   *)
Restart ==
  /\ ~alive
  /\ restarts < MaxRestarts
  /\ alive' = TRUE
  /\ restarts' = restarts + 1
  /\ UNCHANGED <<msg, stage, jobs, pc, job, file, attached, sealed, logger,
                 verified, interrupted>>

Seckey(w) ==
  \/ CheckExists(w)
  \/ OpenFile(w)
  \/ CloseFile(w)
  \/ CheckSignPasses(w)
  \/ CheckSignFails(w)
  \/ CheckSignThrows(w)
  \/ LogRejection(w, "refuse", "fail")
  \/ LogRejection(w, "reject", "remove")
  \/ LogThrows(w, "refuse")
  \/ LogThrows(w, "reject")
  \/ RemoveFile(w)
  \/ Encrypt(w)
  \/ EncryptThrows(w)

PoolThread(w) ==
  \/ Work(w)
  \/ ReturnSilently(w)
  \/ Seckey(w)
  \/ SendFailed(w)
  \/ SendAgreed(w)

Next ==
  \/ \E r \in Requests : OnMessage(r)
  \/ \E w \in Workers : PoolThread(w)
  \/ Kill
  \/ Restart

Spec == Init /\ [][Next]_vars

(* The operating system runs every pool thread that can run.               *)
FairSpec == Spec /\ \A w \in Workers : WF_vars(PoolThread(w))

-----------------------------------------------------------------------------
(* Every variable has its type, and a stream is attached to the named file *)
(* only while its handler is between opening and closing it.               *)
TypeOK ==
  /\ msg \in [Requests -> Messages]
  /\ stage \in [Requests -> Stages]
  /\ jobs \in Seq(Requests)
  /\ pc \in [Workers -> PCs]
  /\ job \in [Workers -> Requests \union {Nil}]
  /\ \A w \in Workers : pc[w] # "idle" => job[w] \in Requests
  /\ file \in [Clients -> Keys \union {NoFile, Empty}]
  /\ attached \in [Workers -> BOOLEAN]
  /\ \A w \in Workers : attached[w] => pc[w] = "close"
  /\ sealed \in [Requests -> Keys \union {Nil}]
  /\ logger \in BOOLEAN
  /\ alive \in BOOLEAN
  /\ ~alive => \A w \in Workers : pc[w] = "idle"
  /\ restarts \in 0 .. MaxRestarts
  /\ verified \subseteq Requests
  /\ interrupted \subseteq Clients

VerifiedKey(c, k) ==
  \E r \in verified : msg[r].client = c /\ msg[r].key = k

Settled(c) == \A w \in Workers : InDoubt(w) => ClientOf(w) # c

(* Whatever handlers ran on a client's key file, and in whatever order     *)
(* their calls hit the file system: once none of them is between opening   *)
(* the file and deciding about it, the file is absent or holds a key whose *)
(* signature was found good.  Excepted are the clients that a crash caught *)
(* in between: SeckeyAgree writes first and verifies afterwards.           *)
StoredKeyVerified ==
  \A c \in Clients \ interrupted :
    Settled(c) => file[c] = NoFile \/ VerifiedKey(c, file[c])

(* Why: an empty file will still be written by a handler that opened it,   *)
(* and a key that was not found good will still be read by the handler     *)
(* that wrote it last, or is about to be removed.                          *)
EmptyIsBeingWritten(c) ==
  file[c] = Empty =>
    \E w \in Workers : pc[w] = "close" /\ attached[w] /\ ClientOf(w) = c

KeyIsBeingDecided(c) ==
  file[c] \in Keys /\ ~VerifiedKey(c, file[c]) =>
    \E w \in Workers :
      /\ \/ pc[w] \in {"reject", "remove"}
         \/ pc[w] = "check" /\ msg[job[w]].key = file[c]
      /\ ClientOf(w) = c

FileInv ==
  \A c \in Clients \ interrupted : EmptyIsBeingWritten(c) /\ KeyIsBeingDecided(c)

(* With one agreement at a time per client: an agreement that was answered *)
(* was answered for the key that its own request carried, although the key *)
(* was read back from the file, and this key stays registered, over later  *)
(* requests for the same client, rejected ones included, and over crashes  *)
(* and restarts.                                                           *)
AgreedIsRegistered ==
  \A r \in Requests :
    stage[r] = "agreed" => /\ sealed[r] = msg[r].key
                           /\ file[msg[r].client] = msg[r].key

(* A posted message is settled: its handler ends with a reply or by        *)
(* design without one, or the process ends first.                          *)
PostedIsSettled ==
  \A r \in Requests :
    stage[r] = "posted" ~> stage[r] \in {"agreed", "failed", "silent", "lost"}

(* What the registry of keys promises (module KeyRegistry), seen through   *)
(* the key files: a client's registered key is its file's content from the *)
(* step on that found the signature good.                                  *)
Registry == INSTANCE KeyRegistry WITH
  None <- Nil,
  request <- [r \in Requests |->
    [client |-> msg[r].client,
     key |-> msg[r].key,
     genuine |-> /\ msg[r].kind = "kSeckeyAgree"
                 /\ msg[r].sign = "valid"
                 /\ msg[r].key \in GoodKeys]],
  registry <- [c \in Clients |->
    IF VerifiedKey(c, file[c]) THEN file[c] ELSE Nil],
  registered <- verified,
  outcome <- [r \in Requests |->
    IF stage[r] \in {"unsent", "posted", "working"} THEN "pending" ELSE stage[r]],
  sealed <- [r \in Requests |-> IF stage[r] = "agreed" THEN sealed[r] ELSE Nil]

(* With one agreement at a time per client, the handlers implement the     *)
(* atomic registry.                                                        *)
ImplementsRegistry == Registry!Spec

-----------------------------------------------------------------------------
(* Server.h, OnMessage: the pool is there "to respond".  Each agreement    *)
(* that is posted gets its reply, kSeckeyAgree or kFailed.                 *)
AgreementAnswered ==
  \A r \in Requests :
    stage[r] = "posted" /\ msg[r].kind = "kSeckeyAgree"
      ~> stage[r] \in {"agreed", "failed"}

(* Server.cc, SeckeyAgree: an agreement fails if there already is a key of *)
(* that name.  So no later message replaces a key that is registered.      *)
ExistingKeyRefuses ==
  \A r \in Requests : stage[r] = "agreed" => file[msg[r].client] = msg[r].key

=============================================================================
