# Verification of SecurityTransmissionPlatformServer

TLA+ models of the key transmission platform server, TLC configurations that
check them on small instances, and TLAPS proofs of the results that matter most.
Paths are relative to the repository (`src/Server.cc`, `include/net/...`).

## 1. The system

The server keeps one RSA public key per client. A client opens a TCP connection,
answers a challenge, and sends a `kSeckeyAgree` message that carries its id, its
public key and a signature of that key made with its private key. The server
stores the key, verifies the signature, and answers with a fresh AES key encrypted
for the client, or with a `kFailed` message.

| Part | Source | State it keeps | Operations |
|---|---|---|---|
| Key agreement service, `platform::Server` | `include/Server.h`, `src/Server.cc` | the directory `seckey/` of key files, the thread pool, spdlog's registry of loggers | `OnMessage`, `Work`, `SeckeyAgree`, `SeckeyVerify`, `SeckeyLogout`, `OnClientDisconnect` |
| Server framework, `mine_net::ServerInterface` | `include/net/net_client_server.hpp` | `m_qMessagesIn`, the container `m_deqConnections`, the io_service and its thread | `Start`, `Stop`, `WaitForClientConnection`, `MessageClient`, `MessageAllClients`, `Update` |
| Client framework, `mine_net::ClientInterface` | same file | one connection, an io_service, its thread | `Connect`, `Disconnect`, the destructor, `IsConnect`, `Send`, `Incoming` |
| Connection, `mine_net::Connection` | `include/net/net_connection.hpp` | the socket, `m_qMessagesOut`, `m_msgTemporaryIn`, the handshake values, `m_connectionFlag` | `ConnectToClient`, `ConnectToServer`, `Send`, `Disconnect` and the handlers of reads and writes |
| Queue, `mine_net::TSQueue` | `include/net/net_tsqueue.hpp` | a deque, `muxQueue`, `muxBlocking`, `cvBlocking` | push, pop, front, back, `empty`, `size`, `clear`, `wait` |
| Message codec | `include/net/net_msg.hpp`, `include/msg.h`, `include/factory.h`, `Message.pb.*` | a body used as a stack, its size in the header; `msg_` and `enc_str_` of each codec object | `<<`, `>>`, `InitMessage`, `EncodeMsg`, `DecodeMsg`, factories |
| Cryptography | `include/openssl/*.hpp` | two pointers to RSA structures; a digest context | generate, load, copy, destroy, sign, verify, encrypt, decrypt, hash, encode |
| Start-up, `main` | `src/main.cpp` | the server's key pair, two files | generation and saving of the pair, the loop over `Update` |
| Thread pool, `mine_thread::ThreadPool` | `include/ThreadPool.hpp`, `src/ThreadPool.cc` | a vector of tasks, a running flag, threads | `Put`, `Stop`, `ThreadFunc` |
| Shared memory of keys | `include/base_shm.h`, `include/seckey_shm.hpp` | a name, a segment of nodes, a mapping; per object a node count | make, open, `Write`, `Find`, `Reset`, `Truncate`, `DeleteShm`, destruction |
| MySQL access | `include/mysql_seckey.hpp`, `src/mysql_seckey.cc` | none | one statement per call |

How they interact:

- The io_service thread of `ServerInterface` accepts clients, runs every handler
  of every `Connection` and pushes complete messages to `m_qMessagesIn`.
- `main` calls `Update` in a loop; it pops `m_qMessagesIn` and calls `OnMessage`.
- `OnMessage` posts `Work` to a `boost::asio::thread_pool` of four threads, so
  messages that arrived in order, from one client or from several, are handled
  at the same time. `Work` calls `Connection::Send`, which posts a function to
  the io_service thread; that thread owns `m_qMessagesOut`.
- The handlers share the key files. Nothing else orders them: there is no lock
  around the file, and the file is read again each time the key is needed.

What is hard here, and hardly reached by a test:

1. handlers of one client id interleave at file-system calls (exists, create,
   write, verify from the file, remove, encrypt from the file);
2. an exception on a pool thread or a kill ends the process between two of them;
3. a mutex is taken under another, and the test before a wait is made under a
   mutex that the condition variable does not use;
4. reads and writes complete later, when the queue, the socket and the shared
   incoming message may have changed; the handshake shares the byte stream with
   messages that nothing holds back;
5. removal of items in two critical sections (`empty()`, then `pop_front()`);
6. life cycles: closed connections in the container, stopping threads and pools,
   key pairs half written, a client that is connected again, names of shared
   memory that outlive their makers;
7. objects used again: a key object that is loaded over, a digest context after
   `Final`, a codec object that decodes a second text.

What makes each part correct:

- service: an agreement that was answered was answered for the key of its own
  request; a registered key is genuine and stays; every message comes to an end;
- queue: every call is atomic, no pop of an empty deque, every call returns;
- connection: delivery in order, once, whole, and to the server only after the
  handshake; one write at a time; an end that is closed is followed by the other,
  where the network tells it;
- framework: a handler that the io_service runs finds its connection alive;
- thread pool: every task runs once, stopping ends; start-up: the two key files
  belong together;
- client framework: no handler meets a deleted connection, every call returns, the
  destructor leaves nothing, what `Connect` began is under way;
- shared memory: `Find` gives what its object wrote,
  every array has memory behind it, no name is left without a maker;
- key objects: no pointer to a freed structure, no halves of two pairs; digests: a
  signature is accepted for its own text only; codec: decoding undoes encoding.

## 2. Modules

| Module | Kind | Models |
|---|---|---|
| `SeckeyAgree` | detailed | `Server::OnMessage`, `Work` and the handlers, one action per file-system call |
| `KeyRegistry` | abstract | what the service promises |
| `MCSeckeyAgree`, `SeckeyAgreeProofs` | instances, proofs | |
| `DequeOps` | operators | what each operation of `TSQueue` does to the deque and returns |
| `TSQueue` | detailed | `TSQueue`, one action per lock, unlock, notify and sleep |
| `Deque` | abstract | a deque whose calls take effect in one step |
| `MCTSQueue`, `TSQueueProofs` | instances, proofs | |
| `Connection` | detailed | both ends of a connection, one action per function that the io_service runs |
| `Link` | abstract | ordered delivery after acceptance |
| `MCConnection`, `ConnectionProofs` | instances, proofs | |
| `ServerKeys` | detailed | `main` up to the construction of the server, `MyRSA::SaveRSAKey` file operation by file operation |
| `ServerInterface` | detailed | the accept loop, the container, `Update`, the pool's handlers, `MessageClient`, `MessageAllClients`: who keeps a `Connection` alive |
| `Platform` | composition | the process: `ServerKeys`, then `ServerInterface` while `main` serves, and the ends of both |
| `MCPlatform`, `PlatformProofs` | instances, proofs | |
| `ClientInterface` | detailed | the life of a client's connections against the threads of its io_service |
| `ThreadPool`, `ThreadPoolProofs` | detailed, proofs | `ThreadPool`, one action per step of `ThreadFunc` and of `Stop` |
| `SeckeyShm` | detailed | `BaseShm` and `SeckeyShm`, objects of several processes |
| `MyRSA` | detailed | the structures behind the pointers of `MyRSA` |
| `Hash` | detailed | digests at a signer and a verifier, from `Update` to `Verify` |
| `CryptoProofs` | proofs | of `MyRSA` and `Hash` |
| `MsgCodec`, `MsgCodecProofs` | detailed, proofs | the codec's objects, protobuf's reader and writer, the stack of bytes |
| `Library`, `MCLibrary` | composition, instances | the six parts above from `ClientInterface` on, each by itself |
| `LibraryProofs` | proofs | of `ClientInterface`, `SeckeyShm` and the composition |

### SeckeyAgree

`pc[w]` is the place of pool thread `w` in `Work` and `SeckeyAgree`:

| `pc` | action | code |
|---|---|---|
| `idle` | `Work` | a pool thread takes the oldest handler; the switch in `Work` |
| `exists` | `CheckExists` | `std::filesystem::exists` |
| `open`, `close` | `OpenFile`, `CloseFile` | the constructor of `std::ofstream` truncates; the text arrives at `close()` |
| `check` | `CheckSignPasses`, `CheckSignFails`, `CheckSignThrows` | `CheckSign`: decodes the signature, reads the key *from the file*, verifies |
| `reject`, `refuse` | `LogRejection`, `LogThrows` | `spdlog::basic_logger_mt("SeckeyAgree logger", ...)` |
| `remove` | `RemoveFile` | `std::filesystem::remove` |
| `encrypt` | `Encrypt`, `EncryptThrows` | `MyRSA rsa(name)` reads the file a second time |
| `respond`, `fail` | `SendAgreed`, `SendFailed` | `client->Send` |
| `stub` | `ReturnSilently` | `SeckeyVerify`, `SeckeyLogout`, the default case |

`file` holds, per client, the content of the key file; `attached[w]` is TRUE while
the ofstream of `w` is open on the file that has the name: a removal detaches it,
and what it writes then is seen by nobody. `Terminate` is an exception that leaves
`Work` (boost's pool threads let it reach `std::terminate`) or a kill: memory is
lost, files stay, unfinished requests are lost. `Restart` starts the server on the
same directory. `verified` and `interrupted` are history variables.

What is undefined in the code is a choice: `RSA_verify` without a key fails or
ends the process. Keys are PEM texts of one length, so that one write over another
leaves one of the two; opening and reading a file is one step.

The constant `Exclusive` says whether a client id may have two agreements
outstanding. `FALSE` is what the code admits; `TRUE` is the usual client, which
waits for its answer.

`KeyRegistry` has no file, thread or process: `Register` a genuine request of a
client that has no key, `Agree` to it, `Decline` what is not registered, `Ignore`
the other kinds, `Lose` any set of unfinished requests. Under the mapping in
`SeckeyAgree` (`Registry`), a client's registered key is its file's content
once a request with that key was verified; `CheckSignPasses` is `Register`,
`SendAgreed` is `Agree`, a termination is `Lose`, and the other file steps are
stutters.

### TSQueue

A call is `Start` (in `Push`, `Pop`, `Look`), `LockQueue`, `InQueue` (the body),
for a push `LockBlocking`, `NotifyOne`, `UnlockBlocking`, then `UnlockQueue`.
`wait()` is `while (empty()) { lock muxBlocking; cvBlocking.wait }`: its `empty()`
is a critical section of `muxQueue` of its own, and `Sleep`, `WakeSpuriously`,
`LockBlocking`, `UnlockBlocking` lead back to it. `Pop` is called only by a thread
whose last `empty()` returned false: so does `Update` (`m_qMessagesIn`). The write
handlers pop `m_qMessagesOut` without asking, since the message that was being
written is in it; that it is, is `OneWriter` of `Connection`. `ThreadsAssumption` lets
one thread remove items (`main` for `m_qMessagesIn`, the io_service thread for
`m_qMessagesOut`). `front`, `back` and `size` are not separate
operations: they read under `muxQueue` as `empty` does.

`Deque` promises that every call takes effect in one step between start and return,
that pops find an item and that `wait` returns only after it found one. The mapping
is direct: `InQueue` is the step that takes effect.

### Connection

A TCP stream carries units: the challenge, its answer, headers and bodies. An
`async_write` is in `writing[s]` from its start to its handler; its unit is taken
from the buffer it refers to when `Transmit` puts it on the wire, so a queue that
changes under a write in progress would be seen. An `async_read` is `reading[s]`.
Each end has one thread, so each handler is one action: `ConnectToClient`,
`ConnectToServer`, `RunSend` and `RunClose` (the posted functions), `HeaderWritten`,
`BodyWritten`, `ValidationWritten`, `ServerValidates`, `ClientSolves`, `HeaderRead`,
`BodyRead`, and the error handlers `ConnectFails`, `WriteFails` and `ReadFails`. `Send`
and `Disconnect` are called from other threads and only post.

`Break` loses what is on its way. Either an end that closed with data unread resets
the connection (`network = "reset"`), and the other end is told; or the network is gone
(`"lost"`), and nobody need ever be told: the code sets no timeout and no keepalive, so
a read in progress stays so. Errors are possible in both cases; at an end whose own
socket is open they are certain in the first case only (`Owed`, see Fairness). `linked[s]` is how the accept and the connect
ended; `"yes"` is `m_connectionFlag`. The handler of a connect that failed does nothing
(`ConnectFails`, no `else` at line 80): the socket stays open with no operation that
could end it. `BothClose` therefore says that an end follows the other that closed,
but for a network that was lost, and for an end whose connect is not done or failed.

The eight bytes of a header and of a handshake value are the same length (a header
is a 32-bit id and a 32-bit size), which is why a header can be read as an answer;
that the two values then differ is an abstraction (`Challenge`, `Response` and
headers are distinct). `Patient` says whether the client's user waits for the
handshake; the code gives it no means to.

`Link` promises order, no loss in the middle, no duplicate, and no delivery to the
server before acceptance. What a message *without* a body is delivered with is
left open in `Link` and is the subject of the run `conn_stale`.

The safety of the streams rests on reader and writer being in step: the server that
reads a header as an answer to its challenge closes its socket and reads no more, so
only a client whose answer came first is read at all.

### ThreadPool

`pc[w]` follows `ThreadFunc`: `test` is `while (running_)`, `lock`, `look` is the
condition of the inner loop, `sleep` and `asleep` the two halves of
`cond_.wait(lock)`, `relock`, `check` is `if (!running_)`, `pop` lies between
`tasks_.back()` and `pop_back()`, `run` is the task. `Put` holds the lock
throughout and waits for nothing while it does, so it is one action whose guard is
the free lock. `Stop` is three actions, `StopRunning`, `NotifyAll` and `JoinAll`: it
takes no lock, and `running_` is a plain `bool`. That is a data race; since the
workers' reads are next to calls that the compiler cannot see through, each of them
returns the value of its moment, and it may change at any of the worker's steps.
A task may be put again after it ran, so puts go on for ever. Tasks return; a task
that throws ends the process and is not modelled.

`missed` is a history variable: the workers that were about to sleep, with
`running_` already read, when `Stop` notified. `StopReturns` holds with that
exception and only with it: if `missed` is not empty, `Stop` waits in `join()` for a
thread that nothing wakes. No comment of the source says otherwise, so no
run refutes a claim; the exception *is* the result. Taking `lock_` around the
assignment of `running_` would make `missed` empty.

### ServerKeys, ServerInterface, Platform

`main` is the place of the start-up: `exists` is the test of both files, `openPub`
and `openPri` the two `BIO_new_file(..., "w")` (each truncates), `closePri` and
`closePub` the two `BIO_free` at the end of `SaveRSAKey`, in the order in which the
smart pointers are destroyed; that is when the buffered text reaches the file.
`EndMain` may come between any two. `torn` is a history variable: a kill came after
the first truncation, and no pair was saved completely since. One process runs at a
time, and files are deleted only while none does.

What a kill inside `SaveRSAKey` leaves is two files that are there, one or both of
them empty; the next start finds both and serves. `ServesWithKeys` excepts exactly
that case and holds otherwise. The files never hold keys of two *different* pairs
(`KeysBelongTogether`), also when one file was lost: both are truncated before
either is written.

`ServerInterface` follows the pointers to a `Connection`: the container, the queued
messages, the posted handlers and the handlers at work hold shared pointers
(`Referenced`); the functions that the io_service still has to run for it
(`Pending`: reads and writes in progress in `ops`, posted sends in `posted`)
captured `this`. `HandlersHaveConnection` says that the object is there when they
run, but for connections that `MessageAllClients` erased (`erased`). It rests on a
line that looks like an oversight: `MessageClient` resets its pointer *before* it
searches the container for it (line 209), so a closed connection stays, and with it
the object that its failed operations need. The mutant that puts the two lines in
order violates the property; so would the server calling `MessageAllClients`.
A peer that resets its connection before the accept handler runs makes
`remote_endpoint()` throw on the io_service thread, which ends the process
(`ServiceDies`, `Die`).

Abstractions: messages have no content (module `SeckeyAgree` has it), the handshake
and the streams are in `Connection`, the queue's locks in `TSQueue`. `Written` is
the end of a chain of writes. The container is a set, as nothing depends on its
order. Nothing in the program calls `MessageClient` and `MessageAllClients`; the
model calls them on the io_service thread, the only one on which the container is
free of data races. A connection that was erased and has nothing pending is
destroyed, and the others have undefined behaviour: the model ends the process.

### ClientInterface

The n-th call of `Connect` makes connection `n` and thread `n`. `user` is the call
that the user's thread is in: `assigning` is the assignment of the `jthread`, which
joins the one that was there; `stopping` and `joining` are the two halves of
`Disconnect` after its post. `pending[n]` has the kinds of operations that the
io_service holds for connection `n`, `busy[t]` the connection whose handler thread
`t` runs. A service without work stops itself (`HandlerEnds`), and nothing in the code
calls `restart()`. `ConnectUnderWay` says what `Connect`'s comment and its result
say, that a connect which it began is under way once it has returned: there is a
service and a thread to complete it. The run `client_reconnect` refutes that with
`Connect`, `Disconnect`, `Connect`: the second connection has an open socket,
`Connect` has returned true, and no handler of it ever runs.

`Connect` on a client in use deletes the old connection while the old thread may be in
one of its handlers, and then waits for that thread. The history variable `hasty`
says that this happened, and `HandlersHaveObject` and `CallsEnd` except it. No comment
forbids it or promises anything for it.

### SeckeyShm

Each process has one object. `Create` and `Map` are the two halves of the maker's
constructor (`create_only`, then `truncate`, mapping and `memset`), `Open` is the
other one. `Abandon` is a kill, or an exception of the constructor after the name
was taken; no destructor runs then and the segment is in `left`. `Destroy` removes the
name *of the object*, also when the object only opened the memory or another segment
has the name by now. Segments are recycled (`Free`) once neither a name nor an
object refers to them. `Truncate` adds to the size of its own mapping, so two
objects that enlarge a segment overwrite each other's size; `ArrayBacked` says that
no array loses its memory by that. The lengths it adds are not negative here, though
`offset_t` is signed.

The comment at `include/seckey_shm.hpp:13` says that the constructor makes *or opens*
("通过名字打开或创建") while `base_shm.h` passes `create_only` and a second maker gets
an exception. No run refutes that: a state that merely lacks an object violates no
property about what the objects do.

### MyRSA, Hash

Half of a key pair is known by its pair. `Generate`, `LoadBoth`, `LoadPub`, `InitKeys`,
`Copy` and `DestroyKeys` are the constructors, `Init`, the copy that the compiler makes
and the destructor. A file that cannot be read leaves a blank structure, a file that
is no key makes OpenSSL free the public structure. Constructors print such an
error and go on: `refused`. The tests before `RSA_free` are the wrong way round
(line 228 of `mine_rsa.hpp`), which leaks every structure, and which is what keeps
the copies that share them sound: the mutant with the tests put right violates
`PointersValid`.

`Hash` has a signer and a verifier, each with one object that hashes text after
text. What counts of a digest's form is its length, since `RSA_sign` refuses what
the key has no room for: `Fits` is the arithmetic of PKCS #1 on the printed digest.
SHA-512 with a 1024-bit key does not fit, and `MyRSA::Sign` does not notice
(it compares with -1, `RSA_sign` returns 0): the signature is empty. SHA-384, which
the server uses, fits with one byte to spare.

### MsgCodec

A text is a sequence of tags and values, the units of protobuf's format. `Serialize`
and `ParseUnit` are what `protoc` generated: fields with default values are not
written, unknown fields are kept, the parser stops at the first unit that does not
fit and leaves the fields it has. A text may end inside a value: `Cut(v)` is what
the end leaves of one. The generated reader takes the field and reads into it
before it looks whether the value was whole (`Message.pb.cc:228-230` and its like), so
the cut value is in the field when the parser fails. A text that ends with a tag ends
in a cut value of length 0, as the reader finds zeros behind the end.
`DecodeMsg` does not look at the parser's result. `NothingFromBefore` is about every
field, the number of `RespondInfo` after its conversion included.
`body` is the stack of bytes of `net_msg.hpp`: `EncodeMsg` pushes the text from its
end, `InitText` pops it. Objects are used again, with `InitMessage` or another text.

### Library

These six parts share no state and no call with each other: the server uses the
codec and the cryptography inside single steps of `SeckeyAgree`, the shared memory is
included and not used, the thread pool is linked and not constructed, and the client's
end is another process. `Library` looks at one
of them in each behaviour (`subject`), so that one run has all six state spaces
side by side and not their product. Nothing is lost by it, as no step of one
changes what another reads.

## 3. Runs

| Run | Question | Result |
|---|---|---|
| `agree_concurrent` | any messages for one client id at once, kill and restart | `TypeOK`, `StoredKeyVerified`, `FileInv` hold |
| `agree_exclusive` | one agreement at a time per client id | `AgreedIsRegistered`, `ImplementsRegistry`, `PostedIsSettled` hold |
| `agree_answer` | is each agreement answered? | violated |
| `agree_overwrite` | does a registered key refuse later ones? | violated |
| `queue_calls` | every operation, three threads | `TypeOK`, `PopFindsItem`, `ImplementsDeque`, `CallsReturn` hold |
| `queue_wait` | is a thread in `wait()` woken for an item? | violated |
| `conn_ends` | two ends, failures at every step, fair threads | `TypeOK`, `OneWriter`, `Framing`, `ImplementsLink`, `SentArrives`, `BothClose` hold |
| `conn_early` | is a client that solves the challenge accepted? | violated |
| `conn_stale` | is a message delivered with the body it was sent with? | violated |
| `platform` | starts, kills, lost key files, two clients that come and fail | `TypeOK`, `KeysBelongTogether`, `ServesWithKeys`, `HandlersHaveConnection` hold |
| `library` | client's end: calls and handlers in any order, over several connections | `HandlersHaveObject`, `NothingLeft`, `CallsEnd` hold |
| | thread pool: any tasks, Stop at any moment | `TakesATask`, `EachTaskOnce`, `WorkConserved`, `StopReturns` hold |
| | shared memory: two processes, one name, kills and failed constructors | `FindsFirst`, `ArrayBacked`, `NameHasMaker` hold |
| | key objects: generated, loaded with errors, copied, loaded again | `PointersValid`, `HalvesMatch`, `DefinedUnlessRefused` hold |
| | digests: texts in pieces, one object for many, every type and size | `AcceptsTheSigned` holds |
| | codec: objects used again, foreign, damaged and cut-off texts | `DecodedIsSent`, `NothingFromBefore`, `SizesAgree` hold |
| | the six together | `TypeOK` holds |
| `client_reconnect` | is the connect that `Connect` began under way when it has returned? | violated |

The violated ones are disagreements of the code with what its comments say of it:

- `agree_answer`: `basic_logger_mt` registers the name "SeckeyAgree logger" for the
  life of the process. The second rejection throws `spdlog_ex` out of `Work`: the
  process ends, and a key that was written and not yet removed stays. Two messages
  suffice, one thread is enough.
- `agree_overwrite`: two agreements of one client both find no file. The second
  `ofstream` truncates the key the first was answered for, and its rejection
  removes it.
- `queue_wait`: a push between `empty()` and `cvBlocking.wait()` notifies nobody.
  `Update(n, true)` then sleeps on a queue that holds a message. `main` calls
  `Update` without waiting, so the server as it is does not meet it.
- `conn_early`: `m_connectionFlag` is TRUE from the TCP connection on; a message
  sent then goes out before the answer to the challenge.
- `conn_stale`: `ReadHeader` does not clear `m_msgTemporaryIn.body` for a header of
  size 0.
- `client_reconnect`: `Disconnect` stops the io_service and nothing restarts it; the
  thread of the next `Connect` returns from `run()` at once, and `Connect` returns true.
  A service that ran out of work after a failed connect or a lost connection stopped as
  well.

### Bounds

| Bound | Value | Why it is enough |
|---|---|---|
| `Workers` | 2 (1 in `agree_answer`) | handlers meet only on one client's file or at the logger; two interleave in every way two can, and the proofs hold for any number |
| `Requests` | 2 or 3 | a registered key, a rejected request and a third that meets the logger or the file the two left |
| `Clients`, `Keys` | 1–2, 2–3 with one unreadable | equal and different keys of one client; a second client for the shared logger |
| `MaxRestarts` | 0 or 1 | one crash reaches every intermediate state; a second starts from states the first left |
| `Threads` of the queue | 2 or 3 | one remover and two pushers; a waiter and a pusher |
| `Items` | 2 or 3 | bounds the pushes; order shows from two on |
| `Threads`, `Tasks` of the thread pool | 3, 3 | a worker that is woken, one that takes its task, and one that sleeps; tasks return, so the number of puts is unbounded |
| `MaxSends` | 2 per end | a second message is the first that can meet a write in progress or a stale incoming message |
| `Pairs` | 3 | a pair in each file and a new one |
| `Clients`, `Workers` of the platform | 2, 2 | a connection's state concerns no other but through the queues and the container |
| `MaxMessages`, `MaxCalls` | 1 per client, 2 | one message is enough for an answer after the connection failed; two calls, one before and one after |
| `MaxConnects` | 3 | the first connection, one after it, and one more, whose thread can meet the other two |
| `Objects`, `Names` of the shared memory | 2, 1 | makers and openers meet on one name; a third process adds no step that these two lack, and the proofs hold for any number |
| `MaxNodes`, `MaxSize`, `Segments`, `Ids` | 2, 4, 2, {0, 1} | a full array; an enlarged one and one smaller than that; a segment without its name beside a new one; 0 is the id of zeroed memory |
| `KeyObjects`, `KeyPairs`, `MaxMade` | 2, 2, 5 | an original and its copy; a pair loaded over another; two loadings of both halves and one of one |
| `MaxText`, `Texts` | 2, one and two characters | the same text in one piece and in two |
| `RequestTexts`, `RespondTexts` | 2 each | one that ends inside a value of a known field, after a field the message does not know; one whose last tag has no value; one that is no message from some unit on; one that sets its number a second time and is cut off there |
| `Messages` of the codec | 2 | one that encodes and one that decodes, each of which may change its part |
| `MaxInt` | 3 | -4 to 3: a number below 0, 0, and the largest; the code's is 2^31 - 1 |

Symmetry is declared for requests and pool threads (`agree_concurrent`) and for clients,
pool threads and key pairs (`platform`), in runs without liveness. `CHECK_DEADLOCK FALSE`
is set where the system really stops: all requests are settled, the connection is
closed, the process has ended, the client is gone or the pool has returned. The queue
runs do check deadlock.

### Fairness

- `SeckeyAgree`: weak fairness of each pool thread: the operating system runs it,
  and no step of a handler waits for another. Clients, kills and restarts are not
  fair.
- `TSQueue`: strong fairness of each thread's way through a call: a mutex that is
  released again and again is obtained in the end. Nobody need call, and spurious
  wake-ups need not happen, so `wait()` cannot rely on them.
- `Connection`: weak fairness of the network in each direction while it is up, and of
  what an end's io_service runs for certain (`Owed`): posted functions and operations
  that are complete; the accept and the connect while nothing has failed; the error
  handlers of an end that is closed itself, as `close()` cancels its operations, and of
  one that the network tells of the other end's close. The error handlers of an open end
  on a lost network may run and need not. Users need not send or disconnect, and the
  network need not fail.
- `Library`: for the client, weak fairness of its call once it can go on (`Returns`) and
  of the end of a handler and of a thread's `run()`. That a handler begins is not assumed:
  `CallsEnd` holds although the network never answers, because `Disconnect` stops
  the service and does not wait for it to run out of work. For the thread pool, strong
  fairness of each worker, as for `TSQueue`, and weak fairness of `Stop` once it has
  begun. Tasks return. Nobody need put a task or call `Stop`. The other parts are
  called, or not.

## 4. Proofs

TLAPS proves, for all values of the constants under the named assumptions:

| Theorem | Statement | Argument |
|---|---|---|
| `SeckeyAgreeProofs!TypeCorrect` | `Spec => []TypeOK` | inductive as it stands, with the clauses that relate `pc`, `job` and `attached`; one step per action |
| `SeckeyAgreeProofs!StoredKeys` | `Spec => []StoredKeyVerified` | `StoredKeyVerified` is not inductive: it says nothing while a handler is at work. `FileInv` does: an empty file has a writer attached to it (`EmptyIsBeingWritten`), and a key not yet verified has a handler that wrote that very key and will check it, or one that will remove it (`KeyIsBeingDecided`). `TypeOK /\ FileInv` is inductive and implies it |
| `SeckeyAgreeProofs!FilesDecided` | `Spec => []FileInv` | the strengthening itself, with its two parts |
| `SeckeyAgreeProofs!AgreedStays` | `Exclusive`: `Spec => []AgreedIsRegistered` | `ServiceInv`: each request is in the queue once or at one thread (`JobsInv`), pending agreements have different clients (`OnePerClient`), a handler that may still change its file works for a client without a verified request (`HandlersInv`), and a verified key is in its file (`VerifiedInv`). The last two carry each other: the key stays because nobody who could remove it is at work, and nobody comes to be, since `exists` finds the file |
| `SeckeyAgreeProofs!RefinesRegistry` | `Exclusive`: `Spec => ImplementsRegistry` | from `ServiceInv`: `CheckSignPasses` is `Register`, a reply is `Agree` or `Decline`, silence is `Ignore`, an end of the process is `Lose`; changes of a file concern clients without a verified request and are stutters |
| `TSQueueProofs!TypeCorrect` | `Spec => [](TypeOK /\ CallInv)` | the mutexes are held by exactly the threads in their sections; `CallInv` ties what a call has done to its place |
| `TSQueueProofs!PopsFindItems` | `Spec => []PopFindsItem` | `KnownInv`: a "nonempty" reply of the thread that removes stays true, as the others only push; needs that one thread removes |
| `TSQueueProofs!RefinesDeque` | `Spec => ImplementsDeque` | `InQueue` is the abstract step (for `wait` only when it finds an item), start and return map to themselves, the locks to stutters |
| `ThreadPoolProofs!PoolTypes`, `BackFindsTask` | `PoolSpec => []PoolTypeOK`, `PoolSpec => []TakesATask` | neither is inductive alone: `PoolInv` proves both with `SleepersSawNone` (a worker about to sleep holds the lock over an empty vector) |
| `ThreadPoolProofs!TasksRunOnce` | `PoolSpec => []EachTaskOnce` | on top of `PoolInv`: the lock is held from `back()` to `pop_back()` |
| `ThreadPoolProofs!TasksHaveWorkers` | `PoolSpec => []WorkConserved` | a counting argument, with the cardinality lemmas of `FiniteSetTheorems`: `Put` adds a task and wakes a sleeper, `PopBack` removes a task and a seeker, and a worker falls asleep on an empty vector only |
| `ConnectionProofs!TypeCorrect`, `WritesAlone`, `ReadsInStep` | `Spec => []TypeOK`, `[]OneWriter`, `[]Framing` | all from `ConnectionInv`, see below |
| `ConnectionProofs!RefinesLink` | `Spec => ImplementsLink` | `OrderInv` on top of `ConnectionInv`: `Send` is `Send`, `ServerValidates` is `Accept`, a header without a body or a body that is read is `Deliver`, every other step is a stutter |
| `PlatformProofs!TypeCorrect`, `KeysMatch`, `ServerHasKeys`, `HandlersAlive` | `Spec => []TypeOK` and so on, for each invariant of the run `platform` | all from `PlatformInvariant`. `FilesInv` strengthens the two statements about files: the public key's file is empty from its truncation until the private key of the same pair is written, and without a kill in between a file that is there holds a key. `ContainerKeeps` strengthens `HandlersHaveConnection`: an accepted connection stays in the container unless `MessageAllClients` erased it, and only accepted ones have handlers or messages |
| `LibraryProofs!ClientTypes`, `ClientHandlersHaveObject`, `ClientLeavesNothing` | the types and two invariants of the client's end | `ClientInv`: until a hasty `Connect` the service runs for the first connection only, and a stopped service has no handler under way unless `Disconnect` is about to join its thread (`FirstOnly`); the `jthread` stands for every thread but the one a `Connect` just made (`OneThread`) |
| `LibraryProofs!ShmTypes`, `ShmFindsFirst`, `ShmArrayBacked`, `ShmNameHasMaker` | the types and three invariants of the shared memory | `ShmInv`: a segment has one maker (`OneMaker`) and one name (`OneName`), so what the owner wrote is what its first nodes hold (`Recorded`); every mapping, and so every sum that `Truncate` makes, has room for the array (`Backed`). That a first match exists is the least element of a set of numbers |
| `CryptoProofs!RSATypes`, `RSAPointersValid`, `RSAHalvesMatch`, `RSADefinedUnlessRefused` | the types and three invariants of the key objects | `RSAInv`: objects that are no more have no structures, and an object without an error has the halves it should (`Complete`) |
| `CryptoProofs!HashTypes`, `HashAcceptsTheSigned` | types, `HashSpec => []AcceptsTheSigned` | `HashInv`: a context holds what it was given since it last started, a digest is of what it should be of, and a signature is of the digest that was meant, or empty where that does not fit. Which digests fit is arithmetic on six cases (`FitsWhen`) |
| `MsgCodecProofs!CodecTypeCorrect`, `DecodedAsSent`, `NoneFromBefore`, `SizesRight` | `CodecSpec => []CodecTypeOK`, `[]DecodedIsSent` and so on, for any objects, strings, infos, texts and range of the number | `CodecInv`, see below |
| `LibraryProofs!LibraryTypes`, `LibraryPartsCorrect` | `Spec => []TypeOK` and all fifteen invariants of the run `library` beside it, of `Library`'s own `Spec` | `LibraryIsItsParts`: a behaviour of `Library` is one of each part, since its actions leave the variables of the other parts alone |
| `ConnectionProofs!DeliversInOrder` | `Spec => []DeliveredInOrder` | from `RefinesLink`: what an end was given is the beginning of what the other sent; the steps of `Link` keep that |
| `ConnectionProofs!PatientNotRejected` | `Patient`: `Spec => []RejectedIfWrong` | `PatientInv`: until the server looked at the answer, the client's units on the wire begin with it, or there are none and it has sent nothing. Without `Patient` the run `conn_early` refutes it |
| `ConnectionProofs!BodiesFromBefore` | `Spec => []BodiesCarryOver` | `CarryInv`: `m_msgTemporaryIn` has the body of the last message delivered; with `OrderInv`, which says to which message an arriving header or body belongs. It says how far the disagreement of `conn_stale` goes: the body of a message without one is that of the message before |

`ConnectionInv` has five parts beside the types. `WritesOK`: at most one write of a
message and one of the handshake are in progress, the message's is at the front of
the queue. `AllSent`: whatever is posted, queued, or on its way was sent, and carries
the number of its place in the history. `Quiet`: before it accepted the client the
server has delivered and sent nothing. `ClientOK` and `ServerOK` say that the units
on their way to an end are framed from what its reader waits for (`Wanted`) to what
the other end's writer has yet to send (`Awaited`): a header with a body is
followed by that body, and a body by a header. `Framing` alone says nothing about
the writer and is not inductive. The two ends differ because of the handshake: what
the client reads begins with the challenge; what the server reads matters only if the
answer is the first of it, and until that answer is on the wire (`Unanswered`) the server
accepts nobody.

`ConnectionInv` counts no messages: it would allow two of them to change places.
`OrderInv` numbers them from the history to the reader. Of the messages sent, those
posted are the last ones, a posted close among them (`InPlace`); those in the queue
come just before (`Queued`); and the headers on the wire, each of the message after
the one before it (`InOrder`), lead from the last one that the reader began
(`ReadTo`) to the last one that the writer put out (`WrittenTo`). The last part holds
for a writer whose socket is open only: one that failed drops what it has, and then
nothing it sends arrives. As in `ConnectionInv`, the handshake decides when an end
reads at all; `NothingWritten` says that the server has nothing to write before it
accepted its client.

The codec's proofs rest on one fact: a text that `Serialize` wrote is parsed into the
fields it was written from (`RequestRoundTrip`, `RespondRoundTrip`). `Parsers` is a
recursive function of the place in the text, and what is said of every place is
shown at the least place where it would fail (`UpTo`, from the well-foundedness of
`<`), so no induction over sequences is needed: `ParserRuns` shows that the function satisfies
its equation, `ParserStays` that it keeps its type, and `ParsedAppend` that a text is
parsed piece by piece. Each field is a piece: empty, or a tag and a value
(`BytesParsed`, `NumberParsed`); unknown units are the last one and change no
field. `CodecInv` then says of every object that its protobuf message stands for the
info it was given (`StandsFor`) and its text for the info or the foreign text it
comes from (`ComesFrom`), with the body turned round (`ReversedTwice`).
`FieldsOfText` is the counterpart for foreign texts: each field has its default value or
stands in the text as a value behind its tag, whole or cut off. The sizes are a count of the fields
that are not empty, with the cardinality lemmas of `FiniteSetTheorems`.

Assumptions: `ConstantsAssumption`, `ThreadsAssumption`, `PoolAssumption`, `KeysAssumption`,
`InterfaceAssumption`, `ConnectionAssumption`, `ConnectsAssumption`, `ShmAssumption`,
`RSAAssumption`, `HashAssumption` and `CodecAssumption`, which TLC evaluates in the
runs of their modules. `AgreedStays` and `RefinesRegistry` also assume `Exclusive`;
without it the run `agree_overwrite` refutes what they say. `PatientNotRejected`
assumes `Patient`, and the run `conn_early` refutes it without. The theorems about the parts of `Library` are
about each part's own specification (`ClientSpec`, `PoolSpec`, `ShmSpec`, `RSASpec`, `HashSpec`,
`CodecSpec`), and `LibraryPartsCorrect` carries them over to the whole.

Lemmas: `QuietStep` (steps that leave files and verdicts alone), `FileStep`, and
`CrashStep` carry `FileInv`; `OthersApart` (two handlers at work have different
clients), `FileChangeStep` and `PassStep` carry `ServiceInv`, and `Stutters` and
`Mapping` say what a step does to the registry; `OperationTypes` types the
deque's operators; `KnownStep` carries `KnownInv`; `QueueMoves` and `QueueGrows` say
what a queue holds after a message left or entered it; `KeysStep` and `ServiceStep`
carry the two halves of `PlatformInvariant`; `FramedTail` and `NextUnit` say what
stays in step when a unit is read or put on the wire; `PostMessage`, `RunPosted`,
`QueueAppend` and `OrderAppend` move the numbers of `OrderInv` along, and `OrderKept`
disposes of the steps that leave the wire alone.

Every invariant and every refinement that a passing run checks is the subject of a
theorem. Only model-checked is all liveness (`PostedIsSettled`, `CallsReturn`,
`SentArrives`, `BothClose`, `StopReturns`, `CallsEnd`): the prover does not do
fairness.

## 5. Not modelled

- `OnClientDisconnect`: nothing in the program reaches it.
- `ServerInterface::Stop` and the destructor: `main` never returns from its loop but
  by an exception, and then the process ends. An acceptor that fails: the handler
  prints a message and waits for the next client (`net_client_server.hpp:187-193`), so
  no state changes.
- The characters of an AES key (`GetAESRandStr`), of PEM files and of Base64: no
  property tells them apart. That undecodable Base64 throws is in `SeckeyAgree`.
- Of `Message.pb.*`: accessors that the program does not call, arenas, reflection
  and descriptors.
- `SeckeyMysql`: stateless wrappers of the connector, called by nothing. Each call
  opens a session, runs one statement and returns its rows.
- The second `Find` of `SeckeyShm`, with a comparison of the caller's: the loop is
  that of the first.
- Reading `server.json`, logging other than the registry of loggers, build files.

Hazards without a property, each with its reason in `PROJECT.json`:

- handlers that answer nothing (`Server.cc:174`): the two handlers are stubs, nothing is
  promised for them yet;
- connections that are never removed from the container (`net_client_server.hpp:175`):
  how much memory that takes is not a property of the model;
- the container without a lock (line 212): a data race as soon as another thread than the
  io_service's calls `MessageClient`; nothing does;
- `remote_endpoint()` that throws (line 165): modelled as an end of the process, across
  which the other properties hold; that it should not end is promised nowhere;
- a queue that is never drained after a failed write (`net_connection.hpp:169`), a connect
  that fails and leaves its socket open (line 80), reads without timeout or keepalive
  (line 208): all three are in `Connection`, and the code promises nothing for them;
- `Stop` that notifies a worker about to sleep (`ThreadPool.cc:45`), `Connect` on a client
  in use (`net_client_server.hpp:42`), handlers of connections that `MessageAllClients` erased
  (line 231): the models reach them, and `StopReturns`, `HandlersHaveObject`, `CallsEnd` and
  `HandlersHaveConnection` except exactly them;
- a name of shared memory that an object removes under its maker (`base_shm.h:31`):
  modelled; `FindsFirst` and `ArrayBacked` hold across it.

## 6. What could follow

- `ServerInterface::Stop`, when the program gets an orderly end.
- `SeckeyVerify` and `SeckeyLogout`, when they do something; `OnClientDisconnect`, when it
  is called.
