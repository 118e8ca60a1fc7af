# Verification of pico-hybrid-crypto

TLA+ models of the programs in this repository, TLC configurations that check
them on small instances, and TLAPS proofs that what these runs check holds for every
size, count and memory layout. Every definition is translated from the code;
`PROJECT.json` ("map") gives the lines each one stands for.

    tlc -workers 2 -config TcpSocket.cfg MCTcpSocket    # one run
    for m in SequenceLemmas TcpSocketProofs ClientMainProofs TcpClientProofs \
             TlsClientProofs ProgramProofs BoardPartProofs BoardProofs
    do tlapm $m.tla; done                               # the proofs

## The system

The repository holds small programs for the Raspberry Pi Pico W / Pico 2 W. One
program at a time is flashed; it runs alone from reset, with no file system and no
persistent state. They fall into two groups.

| Component | State | Operations | Interacts with |
|---|---|---|---|
| TCP socket (`src/tcp.c`, `include/wolf/tcp.h`) | `WOLF_SOCKET_T`: pcb pointer, 8 KiB receive buffer, `sent_len`, `complete`, `run_count`, `connected` | `socket`, `connect`, `send`, `recv`, `close`; callbacks connected, recv, sent, poll, err | lwIP runs the callbacks, inside `cyw43_arch_poll` |
| Wi-Fi join (`src/wifi.c`) | retry counter, link | `wolf_wifiConnect`, `wolf_wifiDisconnect` | SDK calls |
| TCP client (`src/tcpClient_main.c`) | position in `main`/`tcpClient_test`, lwIP lock | one hello, one answer | socket, join |
| TLS client (`src/tlsClient_main.c`) | wolfSSL library, context, session, `sock` | handshake, write, read through two I/O callbacks | socket, join, wolfSSL |
| ML-KEM exchange (`src/mlkem.c`) | generator, two keys, four buffers, `ret` | twelve calls, one cleanup | wolfCrypt |
| ML-KEM benchmark (`src/mlkem_benchmark.c`) | the same per iteration, heap blocks recycled | unchecked calls, a comparison | wolfCrypt, malloc |
| RSA-PSS benchmark (`src/bench_main.c`, copy `src/rsaSign_benchmark.c`) | `rc`, `sig` | key, malloc, sign, verify per iteration | wolfCrypt, malloc |
| ML-DSA (`src/mldsa_benchmark.c`, `src/mldsa.c`) | `rc`, `verify_res`, `sig` | the same | wolfCrypt, malloc |
| AES-GCM benchmark (`src/aes_benchmark.c`) | AES context, `cipher`, `decrypted` | unchecked encryption and decryption, a comparison | wolfCrypt |
| RSA round trips (`src/rsa.c`, `src/rsaKeydis_benchmark.c`, `src/blink.c`) | key, generator, lengths in `word32`; blink: the timer | a straight line of untested calls | wolfCrypt, the timer's two registers |
| ECC (`src/ecc.c`) | two keys, a generator | a straight line of calls | wolfCrypt |
| wolfCrypt test driver (`src/test_main.c`) | - | one call | wolfCrypt's own test suite |
| Memory layout (`memmap_custom.ld`, `src/stackheap.c`) | end of image, heap limit, stack pointer | probe, stress, a key, a recursion | the linker, newlib's allocator |
| Wi-Fi demonstration (`src/wifi_main.c`) | as `main()` of the clients | join, blink, disconnect | join |
| Host script (`host.py`) | bytes on the serial line | two reads with a timeout, one decryption | a board program that is not in the repository |

What is hard here:

* **Callbacks inside a blocking call.** `connect` and `recv` loop over
  `cyw43_arch_poll`; one poll may run any number of callbacks in any order, and
  the thread sees only what they left in the struct.
* **Two streams through one struct.** The *sent* callback empties the *receive*
  buffer when `BUF_SIZE` bytes have been acknowledged. Whether that can lose data
  depends on lwIP's send window, `wolf_TCPwrite`'s resets and the reader together.
* **Lifetimes.** lwIP frees a pcb on an error and the socket keeps its pointer; the
  TLS client frees a socket whose callbacks are registered.
* **Failure of any call.** Every SDK, lwIP, wolfSSL, wolfCrypt and malloc call can
  fail, and errors meet in shared exits or are not tested at all.
* **Timeouts nobody looks at.** The serial reads of `host.py` return short after a
  second, and the join retries.
* **Two reads of one clock.** `blink.c` reads a running 64-bit timer in two halves.
* **Heap and stack in one RAM.** The heap's limit lies inside the stack section.
* **State that outlives an iteration.** The benchmarks compare buffers and test
  variables which an earlier iteration filled.

`PROJECT.json` ("hazards") lists each of these at its line with the properties
that cover it.

## Modules

### `TcpSocket`: the socket and lwIP around it

The struct's fields are variables of their own names; `buffer` is the used part of
`sock->buffer`, so `buffer_len` is its length. Byte *i* of the peer's stream is the
number *i*, which is all the properties need to tell loss, repetition and
reordering apart. `pc` is where the calling thread is: `open` (socket allocated),
`connectStarted` (the SYN is out), `connectLoop`/`connectPoll` and
`readLoop`/`readPoll` (the two loops, outside and inside the poll), `ready` (between
calls), `done`, and `fault` (an API call handed lwIP a freed pcb, undefined from there on). lwIP is five variables: the pcb's
state, whether it holds our callbacks, bytes queued and not acknowledged, bytes
of the peer's stream handed over, and the peer's FIN.

One action per operation and per callback. A callback is one action because
it runs to its end inside the poll; `connect` and `recv` are split at the points where
callbacks can run. Some choices that matter:

* `ConnectStart` and `ConnectClear` are the two halves of connect's beginning, with
  the release of the lwIP lock (`tcp.c:183`) between them and `connected = false` (`tcp.c:188`)
  in the second. No callback runs between the two in these programs: with the polling
  architecture they run in `cyw43_arch_poll` alone, and with a background one only
  while nobody holds the lock, which nests and which `main()` holds throughout.
* `ConnectNoPcb`: `return false` is `WOLF_SUCCESS`, so the thread goes on.
* `Write` takes the length modulo `U16` into `tcp_write`, ignores the outcome and
  claims the whole length, as `wolf_TCPwrite` does.
* `LwipRecv(n)` copies what fits and acknowledges all *n*; `spilt` counts the rest.
* `LwipErr` releases the pcb first and leaves `tcp_pcb` alone, so that the next `send` or
  `close` is a `fault`.
* `Close` leaves the pcb `closing` when lwIP still has to finish the close.

`Init` is a thread without a socket. lwIP's own protocol (retransmission, windows)
is abstracted to what the callbacks can observe.

### `ByteStream`: what the socket promises

Bytes arrive in order into a buffer of `Capacity` bytes, which keeps of each arrival
what it has room for; the reader takes the oldest ones; at the end of a run the buffer
is emptied, unless it is run number `Runs` or a later one. No other step drops, repeats
or reorders a byte. `TcpSocket!Stream` maps `arrived`, `pending`, `taken` and `runs` to
`handed`, `buffer`, `delivered` and `run_count`. The socket implements it for all sizes, the
repository's (`TCP_SND_BUF` and `TCP_WND` 11680, `BUF_SIZE` 8192) among them: with these
the socket does lose bytes of a peer that fills the window, which is why the
specification says where bytes are lost instead of promising that none is.

### `Wifi`, `ClientMain`, `TcpClient`, `TlsClient`: the network programs

`Wifi` is the retry loop. `ClientMain` extends it with the `main()` both clients
share: initialise the chip, join, take the lwIP lock, test, release, shut down.
`TcpClient` extends `TcpSocket` and `ClientMain` and adds the position in
`tcpClient_test`; each of its steps is one call of the test conjoined with the
socket's action. `TlsClient` adds wolfSSL's library, context and session. wolfSSL
itself is any sequence of the two I/O callbacks followed by success or failure of
`wolfSSL_connect`, `_write` or `_read`: nothing claimed here depends on the
protocol. `sock`, which has no initialiser, starts as garbage. `InterfaceRemoved`
is the part of `cyw43_arch_deinit` that reaches the socket's callbacks.

`WifiMain` extends `ClientMain` with the third `main()`, which does not look at the
result of the join and so shuts the chip down also where the clients leave it up.

### `Nesting`: what the clients promise of their resources

Chip, link, lock, socket and pcb (in the TLS client: library, context, socket,
callbacks on the pcb, and session) are acquired each on top of those already held and
given back from the top. `held` lists those a client holds at the moment in that order.
A release may drop several from the top in one step: the loss of a connection, an early
return, the shutdown of the chip. `lost` is the set of what went without being given back
and is now out of reach: of the kinds in `Losable` only, and for good. The TCP client
loses nothing. The TLS client can lose the library and the context, which are local to
`tlsClient_test` and still there after a return for lack of memory, and the callbacks, which
stay registered on a pcb that only the freed struct named. `ResourcesNest` is the
refinement; `LeftBehind` says on which ways out each of the three is lost.

### `MlKem`, `MlKemBench`, `RsaPssBench`, `MlDsaBench`, `AesGcmBench`: the crypto programs

One action per wolfCrypt call with every outcome it can have, and the allocations,
comparisons, cleanups and statuses of the source. Keys, signatures and secrets are
abstract; contents matter only where a stale value can be mistaken for a fresh one
(`MlKemBench`: the secret of iteration *i* is *i*+1, one made up on rejection
-(*i*+1), unwritten memory 0; malloc may hand out the block either secret was in; a public
key that was not encoded is read from what its recycled block held, and gives Bob a
`stale` key, for which he makes ciphertext -(*i*+1)). In `AesGcmBench` the generator is
modelled with the failure nobody looks at, which may fault at once, and with its
missing free. Key and generator of `bench_main.c` and `mldsa_benchmark.c` are initialised before
the loop and freed in the one cleanup all ways lead to; they are not modelled, and their
initialisation, which is not tested, is taken to succeed.

### `CallChain`, `Timer`, `StackHeap`, `HostScript`: the rest

`CallChain` is five programs that make their calls one after the other and test
none of the results (`rsa.c`, `rsaKeydis_benchmark.c`, `blink.c`, `ecc.c`,
`test_main.c`). A program is its list of calls; a call names the structs an earlier
call must have initialised (on a raw one it may fault, or do anything), the data
without which wolfCrypt returns an error, and what it makes. Results are kept as
`word32` as in `rsa.c`, where an error code is a large positive length.

`Timer` is the measurement in `blink.c`: `timerawl | (timerawh << 32)`, two reads in an
order C leaves open, with the timer running between them.

`StackHeap` is `stackheap.c` in the RAM of `memmap_custom.ld`, in bytes: image, heap,
stack section and heap limit are the linker script's symbols, and the actions are what
the program allocates, frees and pushes. The allocator is newlib's: it grows to the
heap limit (to the top of RAM in older SDKs) and then returns `NULL` or, as the SDK's
wrapper does by default, panics.

`HostScript` is `host.py` against a board that answers at any pace and may stop at
any byte.

`MCPrograms` puts the five crypto programs next to each other, and `MCBoard`
adds the others: the board (or the PC) holds one program, which runs from
reset to its end. Programs share variables only because never more than one runs.

## Runs

| Run | Question | Bounds |
|---|---|---|
| `tcp_socket` | With the repository's proportions, overruns, lengths above `U16` and resets: is the socket a buffered stream (refinement), where are bytes lost, does a callback meet a freed socket, do `connect` and `recv` return when the peer answers, and do they wait for ever on a dead connection? | buffer 3, window 4, pbufs up to 4, `U16` = 4, stream and burst 5, 8 bytes sent |
| `tcp_client` | The whole TCP client, any call failing: how it ends, what it holds, what it reads | hello 3, recv 2, buffer 4, window, stream and burst 6, five join attempts |
| `tls_client` | The TLS client's life cycles, any call failing: what it holds, what it leaves behind | records of 1 or 2, buffer 3, two join attempts |
| `programs` | Every program that opens no connection, any call failing: its status, what it prints, what it keeps | 3 iterations; words of 16, timer of 5 ticks a turn, time up to 13; real RAM, stack and heap sizes with images just inside and outside each limit; ciphertext of 4 bytes, bytes of 4 values |
| `tcp_no_pcb`, `tcp_write_fails`, `tcp_stale_pcb`, `tls_no_close`, `mlkem_free`, `mlkem_stale`, `rsa_pss_status`, `blink_decrypts` | statements of the source that the code contradicts | as the passing run of the module |

Why the bounds are enough. A stream of 5 bytes over a buffer of 3 has a full
buffer, a partial read with a shift, an overrun and a second fill. Two runs
(`TEST_ITERATIONS` = 2) have both branches of the sent callback; 8 sent bytes
reach both. `U16` = 4 makes a length of 5 wrap. Three iterations are a first, a
middle and a last. A turn of 5 ticks with time up to 13 meets no wrap, one and two,
in either read or between them; a read is shorter than a turn (`READ_TICKS` <
`LOW`). `CipherLen` = `BASE` makes both bytes of the length count, as 256 does on the
wire. The images end where the stress block just fits or fails under each limit and at the last byte
the linker accepts. `MaxBurst` bounds how far the peer runs ahead of the reader: in the
socket's and the TCP client's runs it is the whole stream, which is longer than the
buffer, as the receive window of the repository is.
`PeerBytes` and `WriteBytes` only bound the histories. What the proofs use of the
constants is in named assumptions, which every run evaluates; `MAX_TIME < LOW * LOW` in
`TimerAssumption` says that the 64-bit timer of the board does not wrap (in 584942
years).

### What the properties say

* Bounds and order: `BufferBound`, `StreamOrder`, `AckBound`.
* Loss: `BufferedStream`, the refinement of `ByteStream`; `LossNeedsFullRun`: before the end
  of a run of `BUF_SIZE` acknowledged bytes the only bytes lost are those that
  met a full buffer; `AnswerIntact`: the client's 815-byte hello never causes such an
  end, so the client keeps the first `BUF_SIZE` bytes of its answer. What the peer sends
  beyond them before the client reads is lost (`tcp.c:140-141`: the copy is cut and the window
  reopened).
* Lifetimes: `CallbackArgLive` (no callback with a freed socket, for users of
  `close`), `NoWriteAfterFree` (the TLS client, which does not use it), `ConnectedIsUp`,
  `SessionIsBacked`, `CleanShutdown`, `LeftBehind`, `ResourcesNest`. `CleanShutdown` also
  says that the chip stays up exactly after a failed join.
* `AnswerFits`: what is read fits the client's buffer, however much is waiting.
* Waiting: `DeadWaitsStay` states that a thread which waits on a dead connection waits in
  every later state, whatever callbacks run; `ConnectReturns`, `ReadReturns`,
  `Terminates` and `TlsTerminates` state when waits do end.
* `WifiResult`, `LockedAndJoined`, `HandshakeNeedsConnect`, `ChipDownAtExit`: the
  socket layer is used only joined and locked, TLS only on a connection
  reported up, and the demonstration ends with the chip down.
* `StatusIsOutcome`, `ReportIsTrue` and `KeptAtEnd` say of each program what its exit
  status means, what calls are behind the match or outcome it prints, and what it still
  holds when it ends. The part of each program is a definition of its own module:
  - status: `StatusIsLastVerdict` (in `bench_main` 0 means that no call failed and the
    last verdict was FAILED, in `mldsa_benchmark` that the last iteration passed),
    `StatusIsAgreement` (`mlkem`: 0 exactly when the secrets agree);
  - prints: `MatchHasOpening` (`aes_benchmark`: a match has this or an earlier decryption
    behind it), `SuccessMatches` and `OneSideNeverMatches` (`mlkem_benchmark`: where both
    calls succeeded the match says whether Bob had Alice's key, and one half alone never
    matches), `SuccessIsRoundTrip` (`rsa`);
  - kept: `OneBuffer`, `BufferOnce`, `NothingLeft`, `NothingKept` (nothing of what is
    modelled), and where the code does keep something, exactly that: `AesGcmBench!KeptAtEnd`
    (the context after a refused key, `aes_benchmark.c:50`, and the generator always),
    `CallChain!KeptAtEnd` (`rsa.c` and `rsaKeydis_benchmark.c` free nothing),
    `OnlyKeyIsKept` (`stackheap.c`'s RSA key).
* `ExchangeIsReady`, `FaultNeedsFailedInit`: no use of what is missing, a raw
  struct only after a failed init.
* `OffByTurns`: a printed time is the true one up to a turn of the low register for each
  torn read. `HeapAndStackBounded`: how far heap and stack of `stackheap.c` come towards
  each other, for every image the linker accepts. Nothing keeps them apart: the
  allocator's limit lies inside the stack section, and the bounds only say that neither a
  kept block nor an endless recursion makes it worse.
  `KeyNeedsBothReads`: a short read of the length never leads to a key.
* `EveryProgramEnds`: in its exit, its idle loop, a panic or a fault.

Each property has a mutant in `PROJECT.json`: a faulty variant of one definition,
kept next to it in its module, under which TLC finds the property violated.

### What the violated runs show

1. `connect` reports success when lwIP has no pcb (`tcp.c:169`).
2. `send` claims bytes `tcp_write` refused or truncated (`tcp.c:221`).
3. The TLS client's "close the connection" frees memory only (`tlsClient_main.c:152`).
4. `mlkem.c:138` frees a key that may never have been initialised.
5. `mlkem_benchmark.c:64` can report "Shared secrets match!" for an exchange in which both
   calls failed.
6. `bench_main.c:87` returns 1 after a run in which everything verified.
7. After lwIP reported an error, `send` and `close` use the pcb it has freed: the err
   callback (`tcp.c:121`) leaves `sock->tcp_pcb` alone, and `tcp.c:49` tests only that.
8. `blink.c:91` prints as the decrypted message a buffer nothing was decrypted into: the
   key was decoded from its public half.

Three more of the same kind need no run to be seen in the models: the linker
script's `ASSERT(__StackLimit >= __HeapLimit, ...)` (`memmap_custom.ld:302`), commented
"Check if data + heap + stack exceeds RAM limit", compares two constants and excludes no
image (the section placement does, see `Links`); `mldsa_benchmark` returns 0
although an earlier iteration printed FAILED (`StatusIsLastVerdict` says exactly what
its status means), and `aes_benchmark` can report a match after a
failed decryption (`MatchHasOpening`).

## Fairness

`tcp_socket`, `tcp_client` and `tls_client` assume that the thread keeps running
inside its loop (weak fairness of its steps) and that a callback which stays available poll
after poll is eventually run. The callbacks are enabled only during a poll, which
ends after each pass, so that needs strong fairness; the code justifies it because
each pass calls `cyw43_arch_poll`, which runs all pending work of the driver. No
fairness is assumed of the peer beyond what it has already offered, none of the
poll timer, errors or FIN. In the TLS client each of `wolfSSL_connect`, `_write` and
`_read` makes finitely many I/O calls and returns once these do. The other programs get
weak fairness of their next step: wolfCrypt's calls return, the timer runs, a
serial read times out. The other runs assume none.

## Proofs

Every safety invariant and action property that a passing run checks, and the
three refinements, are also theorems: for every value of the constants that satisfies
the assumptions of the modules.

### The socket

`TcpSocketProofs` proves, for every value of the constants that satisfies
`SizeAssumption` and `UseAssumption`:

| Theorem | Statement | Argument |
|---|---|---|
| `SocketTypes` | `Spec => []TypeOK` | from `BufferIsBounded` |
| `BufferIsBounded` | `Spec => [](TypeOK /\ BufferBound)` | inductive together: the copy length needs `Len(buffer) <= BUF_SIZE` to be a natural number |
| `AckIsBounded` | `Spec => []AckBound` | what `Write` adds it checks against the window; `LwipSent` moves bytes from one summand to the other |
| `CallbacksHaveTheirSocket` | `Spec => []CallbackArgLive` | `LifeInv`, below |
| `ConnectedMeansUp` | `Spec => []ConnectedIsUp` | `LifeInv` |
| `WaitsForEver` | `Spec => DeadWaitsStay` | `ConnectDead` and `ReadDead` are stable, action by action: no step leaves the loop, revives the pcb or buffers a byte |
| `StreamIsOrdered` | `Spec => []StreamOrder` | `StreamInv` on `delivered \o buffer` |
| `LossIsExplained` | `Spec => []LossNeedsFullRun` | by `ByteSteps`, with `BufferBound` and `FreshInv` |
| `SocketIsAStream` | `Spec => BufferedStream` | `StreamStep`: each action maps to `Arrive`, `Take`, `EndRun` or a stutter |

`CallbackArgLive` and its companions are not inductive: nothing in them ties the thread's
position to the socket's memory or the pcb to the pointer. `LifeInv` adds that: a
live socket exactly between `socket` and `close`, a pcb that is named is hooked,
and in which positions the pcb can be in which state. `StreamInv` relates positions
in the stream to indices. `FreshInv` says that no byte has moved before connect, which
empties the buffer, and that `recv` was asked for at least one byte. `ByteSteps` then
sorts the steps by what they do to the peer's bytes: nothing, an arrival, a read of
the *k* oldest, or the end of a run.

### The TCP client

`TcpClientProofs` proves of the TCP client, from the same assumptions,
`RetryAssumption` and `ClientAssumption` (the client's two lengths are among those the
socket is used with, and the hello, of 815 bytes, is shorter than the buffer of 8192):

| Theorem | Statement | Argument |
|---|---|---|
| `ClientUsesSocket` | `ClientSpec => Spec` | every step of the client is a step of the socket or a stutter, so the theorems above hold inside the client |
| `ClientTypes` | `ClientSpec => []ClientTypeOK` | `TypeOK`, `MainInv`, `TestInv` |
| `JoinIsTrue` | `ClientSpec => []WifiResult` | `JoinInv`: the loop's counter is the number of failures |
| `TestIsLockedAndJoined` | `ClientSpec => []LockedAndJoined` | `MainInv` |
| `ShutdownIsClean` | `ClientSpec => []CleanShutdown` | `TestInv` with `LifeInv` and `MainInv` |
| `AnswerIsBounded` | `ClientSpec => []AnswerFits` | `AnswerInv`: one `recv`, which returns at most what it asks for |
| `AnswerIsIntact` | `ClientSpec => []AnswerIntact` | `HelloInv`: acknowledgements never exceed the hello, so no run is counted; `AnswerInv`: nothing arrives after the one read; then `ByteSteps` |
| `ClientResourcesNest` | `ClientSpec => ResourcesNest` | what is held is a prefix of a fixed order; a step makes that prefix longer by one, or shorter |

`MainInv` (in `ClientMainProofs`, about the `main()` both clients share) says which of
chip, link and lock go with each place in `main()`; `TestInv` ties the place in
`tcpClient_test` to the socket's, without which a finished test says nothing about its
socket.

The refinement of `Nesting` goes through `Depth`, how many resources are held. `HeldIsPrefix`
shows from `MainInv` and `TestInv` that none is held without all those before it in the
order, so `Held` is the first `Depth` elements; `DepthGrowsByOne` shows action by action that
a step acquires at most one. That is all `Nesting` asks, by `PrefixMoves` of
`SequenceLemmas`.

### The TLS client

`TlsClientProofs` proves, from the same assumptions but `ClientAssumption`:

| Theorem | Statement | Argument |
|---|---|---|
| `TlsTypes` | `TlsSpec => []TlsTypeOK` | `TypeStep` of the socket, `MainInv`, `TlsInv` |
| `SessionHasItsParts` | `TlsSpec => []SessionIsBacked` | `TlsInv` |
| `SessionHasItsConnection` | `TlsSpec => []HandshakeNeedsConnect` | `TlsInv` with `MainInv` |
| `ReturnsLeave` | `TlsSpec => []LeftBehind` | `TlsInv` with `HookInv`: the callbacks are registered from the moment there is a pcb, for good |
| `FreedIsLeftAlone` | `TlsSpec => NoWriteAfterFree` | a step that writes is a call of the thread or a callback inside one, and both are at places where the struct is live |
| `TlsResourcesNest` | `TlsSpec => ResourcesNest` | as for the TCP client, with eight resources, the callbacks counted only where there are any; what is lost is lost in a step that drops it from the top |

None of these is inductive: each speaks of two or three places, and the shared exit
labels `freeSsl`, `freeSock`, `freeCtx` are entered from many. `TlsInv` says at each place in
the test which of library, context and session exist (`ObjectInv`), what
`sock` points to and what the socket's thread position can be (`SocketInv`). `LifeInv` of the
socket is of no use here: it rests on `close`, which this client does not call.

### The other programs

`BoardProofs` proves of the board with any one of its programs, from
`IterationAssumption`, `TimerAssumption`, `LayoutAssumption`, `RetryAssumption` and
`BytesAssumption`:

| Theorem | Statement (`BoardSpec => []...`) | Invariant it rests on |
|---|---|---|
| `BoardTypes` | `BoardTypeOK` | all |
| `WhatIsKept` | `KeptAtEnd` | those of the crypto programs, `ChainInv` and `RamInv` |
| `StatusSaysWhat` | `StatusIsOutcome` | `RsaInv`, `DsaInv`, `KemInv` |
| `PrintsAreTrue` | `ReportIsTrue` | `AesInv`, `BenchInv`, `ChainInv` |
| `ExchangeIsSound` | `ExchangeIsReady` | `KemInv` |
| `FaultsAreExplained` | `FaultNeedsFailedInit` | `ChainInv` |
| `TimesAreOffByTurns` | `OffByTurns` | `TimeInv` |
| `HeapAndStackAreBounded` | `HeapAndStackBounded` | `RamInv` |
| `WifiMainShutsDown` | `ChipDownAtExit` | `WlanInv` |
| `KeyIsNeverGuessed` | `KeyNeedsBothReads` | `HostInv` |

The board holds one program, so its invariant `BoardInv` is one implication per
program. Each program's part is proved in `ProgramProofs` (the crypto
programs) or `BoardPartProofs` (the others):

* `RsaInv`, `DsaInv`: the present value of `rc` (and `verify_res`) is the verdict of the
  iteration that ended last, and the status is made of it.
* `AesInv`: `decrypted` is the plaintext only if some iteration has decrypted, so a
  match has one at or before it; where a context or the generator is still held.
* `KemInv`: which keys, buffers and secrets exist at each call; `ret` is still 0 at
  every call but the comparison and the cleanup.
* `BenchInv`: where the secrets of the present and of earlier iterations can lie. A secret
  made before iteration *i* is within -*i*..*i*, so a fresh one differs from what a
  recycled block holds: an exchange of which one half failed never matches, and one with
  a stale public key mismatches.
* `ChainInv`: unless an initialiser failed, the initialisers already called have
  made their structs; and in the constant lists, no call comes before the initialisers of
  the structs it uses (`StructsComeFirst`). `StructsHeld`: which structs are held at each
  call, for the programs that free nothing and for those that free everything.
* `RamInv`: the stack pointer is `main`'s frame and the frames in use, and the heap's top
  is at most the image and the largest demand (`TopBounded`). That needs the greatest
  element of a finite set of sizes, got by well-founded induction (`GreatestExists`).
* `TimeInv`: of one read, the two halves are taken at most `READ_TICKS` apart, and all
  of the first read before the second. `OffByTurns` then follows by arithmetic: the
  quotients of two times less than a turn apart differ by at most one
  (`QuotientsAreNear`), a difference of quotients makes a read wrong by that many
  turns (`WordIsOffByTurns`), and this is what a torn read is (`TornReads`).
* `HostInv`: the second read starts where the first ended. A length cut short is 0 or
  the high byte of the length, and neither reads the whole ciphertext (`NotTheCipher`).
* `WlanInv`: the loop's counter is bounded, and the chip is down at the exit.

`BoardInv` was first checked by TLC on the constants of `programs`.

### Model-checked only

The liveness properties `ConnectReturns`, `ReadReturns`, `Terminates`, `TlsTerminates` and
`EveryProgramEnds`, which are out of the proof system's reach, and the eight statements that
are violated.

## Not modelled, and the plan

Left to prove: what liveness rests on, as action properties (a natural number that every
step of a program without waiting decreases, so that no run of it is infinite), and the
socket's theorems inside the TLS client as far as they do not need `close`
(`AckBound`, `StreamOrder`, `LossNeedsFullRun`).

Not modelled:

* **Background architecture.** `CMakeLists.txt` names no cyw43 architecture, and the
  models take the polling one: `connect` and `recv` drive lwIP with
  `cyw43_arch_poll`, which does nothing in the background one. There callbacks
  would interleave with the thread at `tcp.c:180-188`, but only where the lwIP lock
  is free, and both clients hold it from before the socket exists until after it is
  gone: no callback could run at all.
* **Sections, flash and scratch banks** of `memmap_custom.ld`: placed by the linker.
  What of it the running program depends on is in `StackHeap`.
* **Configuration and build files** (`config/`, `CMakeLists.txt`): compile-time
  switches; the sizes the socket depends on are constants here.
* **`plot/` and the key files**: data.
* **lwIP, wolfSSL, wolfCrypt, newlib and the Pico SDK**: external; they appear as
  the outcomes of their calls. Assumed of them: stack garbage differs from the
  plaintext (`RsaPrints`), an error code of wolfCrypt leaves its outputs unusable,
  `sbrk` stops at `__HeapLimit` or `__StackLimit`.
* **The board's side of `host.py`**: not in the repository; any pace, any stop.
* `swapBytes` and `wolf_inet_pton` are pure and appear as the success or failure of
  the step that calls them. What is printed is modelled only where a property is
  about the outcome it reports, so the missing terminator of the printed
  message (`tcpClient_main.c:78`) is not.
