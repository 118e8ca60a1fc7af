------------------------------ MODULE TcpSocket ------------------------------
(***************************************************************************)
(* The TCP socket of src/tcp.c: a blocking connect/send/recv/close built   *)
(* on lwIP's raw callbacks.  One thread calls the wolf_TCP* functions;     *)
(* lwIP runs the callbacks registered on the protocol control block (pcb), *)
(* and it runs them only inside cyw43_arch_poll(), which the thread calls  *)
(* from the two waiting loops, in wolf_TCPconnect and in wolf_TCPread.     *)
(*                                                                         *)
(* Byte i of the peer's stream is the number i.  "buffer" is the used part *)
(* of sock->buffer, so sock->buffer_len is Len(buffer).                    *)
(***************************************************************************)
EXTENDS Integers, Sequences

CONSTANTS
  BUF_SIZE,         \* size of sock->buffer
  TEST_ITERATIONS,  \* full buffers sent before a socket counts as complete
  SND_BUF,          \* most bytes lwIP keeps unacknowledged (TCP_SND_BUF)
  MAX_PBUF,         \* longest pbuf chain lwIP hands to the recv callback
  U16,              \* 2^16: tcp_write takes its length in a u16_t
  ReadLens,         \* lengths callers pass to recv
  WriteLens,        \* lengths callers pass to send
  ConnectStatus,    \* statuses lwIP passes to the connected callback
  PeerBytes,        \* bound: length of the peer's stream
  MaxBurst,         \* bound: most bytes the peer sends ahead of the reader
  WriteBytes        \* bound: bytes callers pass to send in all

ASSUME SizeAssumption ==
  /\ BUF_SIZE \in Nat \ {0}
  /\ TEST_ITERATIONS \in Nat \ {0}
  /\ SND_BUF \in Nat
  /\ MAX_PBUF \in Nat
  /\ U16 \in Nat \ {0}

ASSUME UseAssumption ==
  /\ ReadLens \subseteq Nat \ {0}
  /\ WriteLens \subseteq Nat
  /\ ConnectStatus \subseteq {"ERR_OK", "ERR_OTHER"}
  /\ PeerBytes \in Nat
  /\ MaxBurst \in Nat
  /\ WriteBytes \in Nat

VARIABLES
  \* the WOLF_SOCKET_T struct
  tcp_pcb, buffer, sent_len, complete, run_count, connected,
  \* the calling thread: where it is, the length it asked recv for, and
  \* whether the struct is unallocated, allocated or freed
  pc, want, sockmem,
  \* lwIP: the pcb, whether it holds our callbacks and their argument, the
  \* bytes queued on it and not acknowledged, the bytes of the peer's stream
  \* handed to the recv callback, and whether the peer's FIN was
  pcb, hooked, unacked, handed, fin,
  \* history: what connect and close returned, the bytes recv returned, the
  \* bytes send claimed to have written and the bytes it did queue, and how
  \* many of the peer's bytes arrived when sock->buffer had no room for them
  connRet, closeRet, delivered, claimed, queued, spilt

sockVars   == <<tcp_pcb, buffer, sent_len, complete, run_count, connected>>
threadVars == <<pc, want, sockmem>>
lwipVars   == <<pcb, hooked, unacked, handed, fin>>
histVars   == <<connRet, closeRet, delivered, claimed, queued, spilt>>
vars       == <<sockVars, threadVars, lwipVars, histVars>>

PcbStates == {"none", "closed", "synSent", "established", "closing", "released"}
Polling   == pc \in {"connectPoll", "readPoll"}

\* lwIP has events for the pcb: also while it completes a graceful close.
Driven    == pcb \in {"synSent", "established", "closing"}

\* The n bytes of the peer's stream that follow the first from.
Bytes(from, n) == [i \in 1 .. n |-> from + i]

Smaller(a, b) == IF a <= b THEN a ELSE b

-----------------------------------------------------------------------------
(* Initially nothing is allocated.  wolf_TCPsocket zeroes the struct, so   *)
(* its fields start as calloc leaves them.                                 *)

Init ==
  /\ tcp_pcb = "NULL" /\ buffer = <<>> /\ sent_len = 0
  /\ complete = FALSE /\ run_count = 0 /\ connected = FALSE
  /\ pc = "start" /\ want = 0 /\ sockmem = "none"
  /\ pcb = "none" /\ hooked = FALSE /\ unacked = 0 /\ handed = 0 /\ fin = FALSE
  /\ connRet = "none" /\ closeRet = "none" /\ delivered = <<>>
  /\ claimed = 0 /\ queued = 0 /\ spilt = 0

\* Faulty variant: malloc instead of calloc.
SocketNotZeroed ==
  /\ pc = "start"
  /\ sockmem' = "live" /\ pc' = "open" /\ sent_len' = -1
  /\ UNCHANGED <<tcp_pcb, buffer, complete, run_count, connected, want,
                 lwipVars, histVars>>

\* wolf_TCPsocket: a zeroed struct, or NULL when calloc fails.
Socket ==
  /\ pc = "start"
  /\ \/ sockmem' = "live" /\ pc' = "open"
     \/ sockmem' = sockmem /\ pc' = "done"
  /\ UNCHANGED <<sockVars, want, lwipVars, histVars>>

-----------------------------------------------------------------------------
(* wolf_TCPconnect.                                                        *)

\* tcp_new_ip_type returned NULL: "return false", and false is WOLF_SUCCESS.
ConnectNoPcb ==
  /\ pc = "open"
  /\ tcp_pcb' = "NULL"
  /\ connRet' = "WOLF_SUCCESS"
  /\ pc' = "ready"
  /\ UNCHANGED <<buffer, sent_len, complete, run_count, connected, want,
                 sockmem, lwipVars, closeRet, delivered, claimed, queued, spilt>>

\* The callbacks are registered and tcp_connect refuses the request.
ConnectRefused ==
  /\ pc = "open"
  /\ tcp_pcb' = "pcb" /\ pcb' = "closed" /\ hooked' = TRUE
  /\ buffer' = <<>>
  /\ connRet' = "WOLF_FAIL"
  /\ pc' = "ready"
  /\ UNCHANGED <<sent_len, complete, run_count, connected, want, sockmem,
                 unacked, handed, fin, closeRet, delivered, claimed, queued, spilt>>

\* The callbacks are registered, the SYN is out, connect's pair of
\* cyw43_arch_lwip_begin and _end is over.
ConnectStart ==
  /\ pc = "open"
  /\ tcp_pcb' = "pcb" /\ pcb' = "synSent" /\ hooked' = TRUE
  /\ buffer' = <<>>
  /\ pc' = "connectStarted"
  /\ UNCHANGED <<sent_len, complete, run_count, connected, want, sockmem,
                 unacked, handed, fin, histVars>>

\* sock->connected = false, and the thread starts to wait.  No callback runs
\* between the two: lwIP runs them in cyw43_arch_poll or, under a background
\* architecture, while nobody holds its lock, which nests and which main()
\* holds from before the test to after it.
ConnectClear ==
  /\ pc = "connectStarted"
  /\ connected' = FALSE
  /\ pc' = "connectLoop"
  /\ UNCHANGED <<tcp_pcb, buffer, sent_len, complete, run_count, want, sockmem,
                 lwipVars, histVars>>

\* Faulty variant: the loop also ends once the socket is complete.
ConnectLoopUntilComplete ==
  /\ pc = "connectLoop"
  /\ \/ (connected \/ complete) /\ pc' = "ready" /\ connRet' = "WOLF_SUCCESS"
     \/ ~(connected \/ complete) /\ pc' = "connectPoll" /\ connRet' = connRet
  /\ UNCHANGED <<sockVars, want, sockmem, lwipVars, closeRet, delivered,
                 claimed, queued, spilt>>

\* while (sock->connected != true): leave the loop, or poll.
ConnectLoop ==
  /\ pc = "connectLoop"
  /\ \/ connected /\ pc' = "ready" /\ connRet' = "WOLF_SUCCESS"
     \/ ~connected /\ pc' = "connectPoll" /\ connRet' = connRet
  /\ UNCHANGED <<sockVars, want, sockmem, lwipVars, closeRet, delivered,
                 claimed, queued, spilt>>

\* cyw43_arch_poll and the bounded wait after it return to the loop's test.
PollReturns ==
  /\ Polling
  /\ pc' = IF pc = "connectPoll" THEN "connectLoop" ELSE "readLoop"
  /\ UNCHANGED <<sockVars, want, sockmem, lwipVars, histVars>>

-----------------------------------------------------------------------------
(* wolf_TCPwrite and wolf_TCPread, called once connect has reported        *)
(* WOLF_SUCCESS.                                                           *)

MayTransfer == pc = "ready" /\ connRet = "WOLF_SUCCESS"

\* sock->tcp_pcb points at a pcb lwIP has already freed.
StalePcb == tcp_pcb = "pcb" /\ pcb = "released"

\* tcp_write accepts the length as its u16_t parameter holds it.
TcpWriteOk(len) ==
  /\ tcp_pcb = "pcb" /\ pcb = "established"
  /\ unacked + (len % U16) <= SND_BUF
  /\ unacked' = unacked + (len % U16)
  /\ queued' = queued + (len % U16)

\* tcp_write returns an error (no pcb, not connected, out of memory).
TcpWriteErr == UNCHANGED <<unacked, queued>>

\* Faulty variant: sent_len is not reset.
WriteKeepsSentLen(len) ==
  /\ MayTransfer /\ ~StalePcb
  /\ claimed + len <= WriteBytes
  /\ TcpWriteOk(len) \/ TcpWriteErr
  /\ claimed' = claimed + len
  /\ UNCHANGED <<sockVars, threadVars, pcb, hooked, handed, fin, connRet,
                 closeRet, delivered, spilt>>

\* Whatever tcp_write returned, wolf_TCPwrite returns len.
Write(len) ==
  /\ MayTransfer /\ ~StalePcb
  /\ claimed + len <= WriteBytes
  /\ sent_len' = 0
  /\ TcpWriteOk(len) \/ TcpWriteErr
  /\ claimed' = claimed + len
  /\ UNCHANGED <<tcp_pcb, buffer, complete, run_count, connected, threadVars,
                 pcb, hooked, handed, fin, connRet, closeRet, delivered, spilt>>

Read(len) ==
  /\ MayTransfer
  /\ want' = len
  /\ pc' = "readLoop"
  /\ UNCHANGED <<sockVars, sockmem, lwipVars, histVars>>

\* while (1), nothing buffered: poll.
ReadWait ==
  /\ pc = "readLoop"
  /\ buffer = <<>>
  /\ pc' = "readPoll"
  /\ UNCHANGED <<sockVars, want, sockmem, lwipVars, histVars>>

\* Faulty variants: the remainder is not moved to the front; the buffer is
\* always emptied; recv waits for all the bytes it was asked for.
ReadReturnCut(keep, enough) ==
  /\ pc = "readLoop"
  /\ enough
  /\ delivered' = delivered \o SubSeq(buffer, 1, Smaller(want, Len(buffer)))
  /\ buffer' = SubSeq(buffer, 1, keep)
  /\ pc' = "ready"
  /\ UNCHANGED <<tcp_pcb, sent_len, complete, run_count, connected, want,
                 sockmem, lwipVars, connRet, closeRet, claimed, queued, spilt>>

ReadReturnNoShift ==
  ReadReturnCut(Len(buffer) - Smaller(want, Len(buffer)), buffer # <<>>)

ReadReturnEmpties == ReadReturnCut(0, buffer # <<>>)

ReadReturnWaitsForAll == ReadReturnCut(0, Len(buffer) >= want)

\* Faulty variant: everything buffered is copied, whatever was asked for.
ReadReturnAll ==
  /\ pc = "readLoop"
  /\ buffer # <<>>
  /\ delivered' = delivered \o buffer /\ buffer' = <<>>
  /\ pc' = "ready"
  /\ UNCHANGED <<tcp_pcb, sent_len, complete, run_count, connected, want,
                 sockmem, lwipVars, connRet, closeRet, claimed, queued, spilt>>

\* Bytes are buffered: recv_len of them are copied out; what remains is
\* moved to the front, or the buffer is emptied when recv_len is below len.
ReadReturn ==
  /\ pc = "readLoop"
  /\ buffer # <<>>
  /\ LET recv_len == IF want <= Len(buffer) THEN want ELSE Len(buffer)
     IN  /\ delivered' = delivered \o SubSeq(buffer, 1, recv_len)
         /\ buffer' = IF recv_len >= want
                      THEN SubSeq(buffer, recv_len + 1, Len(buffer))
                      ELSE <<>>
  /\ pc' = "ready"
  /\ UNCHANGED <<tcp_pcb, sent_len, complete, run_count, connected, want,
                 sockmem, lwipVars, connRet, closeRet, claimed, queued, spilt>>

-----------------------------------------------------------------------------
(* wolf_TCPclose: with a pcb, clear the callbacks and close it, or abort   *)
(* it when closing fails; in both cases lwIP owns it from then on.  Only   *)
(* an established pcb outlives tcp_close, to complete the close.           *)

\* Faulty variant: the struct is freed, the pcb is not closed.
CloseFreesOnly ==
  /\ pc \in {"open", "ready"}
  /\ sockmem' = "freed" /\ closeRet' = "ERR_OK" /\ pc' = "done"
  /\ UNCHANGED <<sockVars, want, lwipVars, connRet, delivered, claimed, queued,
                 spilt>>

TcpClose == pcb' \in {"released"} \cup (IF pcb = "established" THEN {"closing"} ELSE {})

Close ==
  /\ pc \in {"open", "ready"} /\ ~StalePcb
  /\ IF tcp_pcb = "NULL"
     THEN /\ closeRet' = "ERR_OK"
          /\ UNCHANGED <<tcp_pcb, pcb, hooked>>
     ELSE /\ hooked' = FALSE
          /\ \/ TcpClose /\ closeRet' = "ERR_OK"
             \/ pcb' = "released" /\ closeRet' = "ERR_ABRT"
          /\ tcp_pcb' = "NULL"
  /\ sockmem' = "freed"
  /\ pc' = "done"
  /\ UNCHANGED <<buffer, sent_len, complete, run_count, connected, want,
                 unacked, handed, fin, connRet, delivered, claimed, queued, spilt>>

\* wolf_TCPwrite or wolf_TCPclose hands lwIP a pcb it has freed: undefined
\* from there on.
UseStalePcb ==
  /\ pc = "ready" /\ StalePcb
  /\ pc' = "fault"
  /\ UNCHANGED <<sockVars, want, sockmem, lwipVars, histVars>>

-----------------------------------------------------------------------------
(* The callbacks, as lwIP runs them inside cyw43_arch_poll.                *)

\* tcp_result: the outcome is printed and the socket marked complete.
TcpResult == complete' = TRUE

\* Faulty variants: "connected" is set whatever the error; it is never set.
LwipConnectedWith(err, conn) ==
  /\ Polling /\ hooked /\ pcb = "synSent"
  /\ connected' = conn /\ complete' = (complete \/ err # "ERR_OK")
  /\ pcb' = IF err = "ERR_OK" THEN "established" ELSE pcb
  /\ UNCHANGED <<tcp_pcb, buffer, sent_len, run_count, threadVars, hooked,
                 unacked, handed, fin, histVars>>

LwipConnectedAnyErr(err) == LwipConnectedWith(err, TRUE)

LwipConnectedNoFlag(err) == LwipConnectedWith(err, connected)

LwipConnected(err) ==
  /\ Polling /\ hooked /\ pcb = "synSent"
  /\ IF err = "ERR_OK"
     THEN connected' = TRUE /\ pcb' = "established" /\ complete' = complete
     ELSE TcpResult /\ UNCHANGED <<connected, pcb>>
  /\ UNCHANGED <<tcp_pcb, buffer, sent_len, run_count, threadVars, hooked,
                 unacked, handed, fin, histVars>>

\* Faulty variant: all of the pbuf is copied.
LwipRecvUnbounded(n) ==
  /\ Polling /\ hooked /\ pcb = "established" /\ ~fin
  /\ handed + n <= PeerBytes
  /\ handed + n - Len(delivered) <= MaxBurst
  /\ buffer' = buffer \o Bytes(handed, n)
  /\ handed' = handed + n
  /\ UNCHANGED <<tcp_pcb, sent_len, complete, run_count, connected,
                 threadVars, pcb, hooked, unacked, fin, histVars>>

\* A pbuf of n bytes: what fits is copied behind the buffered bytes, and all
\* n are given back to the window (tcp_recved).
LwipRecv(n) ==
  /\ Polling /\ hooked /\ pcb = "established" /\ ~fin
  /\ handed + n <= PeerBytes
  /\ handed + n - Len(delivered) <= MaxBurst
  /\ LET copied == Smaller(n, BUF_SIZE - Len(buffer))
     IN  buffer' = buffer \o Bytes(handed, copied) /\ spilt' = spilt + n - copied
  /\ handed' = handed + n
  /\ UNCHANGED <<tcp_pcb, sent_len, complete, run_count, connected,
                 threadVars, pcb, hooked, unacked, fin, connRet, closeRet,
                 delivered, claimed, queued>>

\* The peer's FIN arrives as a NULL pbuf: the callback returns at once.
LwipRecvFin ==
  /\ Polling /\ hooked /\ pcb = "established" /\ ~fin
  /\ fin' = TRUE
  /\ UNCHANGED <<sockVars, threadVars, pcb, hooked, unacked, handed, histVars>>

\* Faulty variant: every acknowledgement empties the receive buffer.
LwipSentEmpties(n) ==
  /\ Polling /\ hooked /\ pcb = "established"
  /\ n <= unacked
  /\ unacked' = unacked - n /\ sent_len' = sent_len + n /\ buffer' = <<>>
  /\ UNCHANGED <<tcp_pcb, complete, run_count, connected, threadVars, pcb,
                 hooked, handed, fin, histVars>>

\* n bytes are acknowledged.  A full BUF_SIZE of acknowledgements counts as
\* one run, and unless that was the last run the receive buffer is emptied.
LwipSent(n) ==
  /\ Polling /\ hooked /\ pcb = "established"
  /\ n <= unacked
  /\ unacked' = unacked - n
  /\ IF sent_len + n < BUF_SIZE
     THEN sent_len' = sent_len + n /\ UNCHANGED <<run_count, buffer, complete>>
     ELSE /\ run_count' = run_count + 1
          /\ IF run_count + 1 >= TEST_ITERATIONS
             THEN TcpResult /\ sent_len' = sent_len + n /\ UNCHANGED buffer
             ELSE buffer' = <<>> /\ sent_len' = 0 /\ UNCHANGED complete
  /\ UNCHANGED <<tcp_pcb, connected, threadVars, pcb, hooked, handed, fin,
                 histVars>>

\* The poll timer (POLL_TIME_S * 2 coarse ticks) of a live pcb.
LwipPoll ==
  /\ Polling /\ hooked /\ Driven
  /\ TcpResult
  /\ UNCHANGED <<tcp_pcb, buffer, sent_len, run_count, connected, threadVars,
                 lwipVars, histVars>>

\* The err callback, and a faulty variant without its test.
ErrCallbackAlways(err) == TcpResult

\* lwIP frees the pcb, then runs the err callback; sock->tcp_pcb is kept.
ErrCallback(err) == IF err = "ERR_ABRT" THEN UNCHANGED complete ELSE TcpResult

LwipErr(err) ==
  /\ Polling /\ hooked /\ Driven
  /\ pcb' = "released" /\ unacked' = 0
  /\ ErrCallback(err)
  /\ UNCHANGED <<tcp_pcb, buffer, sent_len, run_count, connected, threadVars,
                 hooked, handed, fin, histVars>>

-----------------------------------------------------------------------------

Connect  == ConnectNoPcb \/ ConnectRefused \/ ConnectStart
Transfer == (\E len \in WriteLens : Write(len)) \/ (\E len \in ReadLens : Read(len))
Waiting  == ConnectClear \/ ConnectLoop \/ PollReturns \/ ReadWait \/ ReadReturn

Receives == \E n \in 1 .. MAX_PBUF : LwipRecv(n)

Lwip ==
  \/ \E err \in ConnectStatus : LwipConnected(err)
  \/ Receives
  \/ LwipRecvFin
  \/ \E n \in 1 .. SND_BUF : LwipSent(n)
  \/ LwipPoll
  \/ \E err \in {"ERR_RST", "ERR_ABRT"} : LwipErr(err)

Next == Socket \/ Connect \/ Transfer \/ Waiting \/ Close \/ UseStalePcb \/ Lwip

Spec == Init /\ [][Next]_vars

(***************************************************************************)
(* The thread keeps running once it is inside a waiting loop.  Each pass   *)
(* calls cyw43_arch_poll, which runs the work the driver has pending, so a *)
(* peer's answer that stays available is not passed over for ever: strong  *)
(* fairness, because the callbacks are enabled only during the poll.       *)
(***************************************************************************)
Fairness ==
  /\ WF_vars(Waiting)
  /\ SF_vars(LwipConnected("ERR_OK"))
  /\ SF_vars(Receives)

FairSpec == Spec /\ Fairness

-----------------------------------------------------------------------------
(* Properties.                                                             *)

\* Every variable keeps the values its declaration and its users allow.
TypeOK ==
  /\ tcp_pcb \in {"NULL", "pcb"}
  /\ buffer \in Seq(Nat) /\ sent_len \in Nat /\ run_count \in Nat
  /\ complete \in BOOLEAN /\ connected \in BOOLEAN
  /\ pc \in {"start", "open", "connectStarted", "connectLoop", "connectPoll",
             "ready", "readLoop", "readPoll", "done", "fault"}
  /\ want \in Nat
  /\ sockmem \in {"none", "live", "freed"}
  /\ pcb \in PcbStates /\ hooked \in BOOLEAN /\ fin \in BOOLEAN
  /\ unacked \in Nat /\ handed \in Nat
  /\ connRet \in {"none", "WOLF_SUCCESS", "WOLF_FAIL"}
  /\ closeRet \in {"none", "ERR_OK", "ERR_ABRT"}
  /\ delivered \in Seq(Nat) /\ claimed \in Nat /\ queued \in Nat /\ spilt \in Nat

\* No sequence of receive callbacks, however long the pbufs, writes past the
\* end of sock->buffer (lwip_cb_client_recv bounds its copy by buffer_left).
BufferBound == Len(buffer) <= BUF_SIZE

\* Even where bytes are lost, what recv returned followed by what it would
\* return next is in stream order and holds no byte twice and none the peer
\* has not sent (copy offset of the recv callback, shift of wolf_TCPread).
StreamOrder ==
  LET s == delivered \o buffer
  IN  /\ \A i, j \in 1 .. Len(s) : i < j => s[i] < s[j]
      /\ \A i \in 1 .. Len(s) : s[i] \in 1 .. handed

\* Until the sent callback has counted a full run of acknowledgements, the
\* only bytes that are lost are those that arrived when the buffer was full,
\* whatever the order of data, acknowledgements, writes and reads: every other
\* byte handed over was returned by recv or is still in the buffer.
LossNeedsFullRun == run_count = 0 => Len(delivered) + Len(buffer) + spilt = handed

\* Acknowledgements still to come never lift sent_len above SND_BUF: the
\* reset of sent_len in wolf_TCPwrite and the window lwIP grants together
\* decide whether the sent callback can ever reach BUF_SIZE.
AckBound == sent_len + unacked <= SND_BUF

Stream == INSTANCE ByteStream
            WITH arrived <- handed, pending <- buffer, taken <- delivered,
                 runs <- run_count, Chunk <- MAX_PBUF, Capacity <- BUF_SIZE,
                 Runs <- TEST_ITERATIONS

\* The socket implements a buffered byte stream: data, acknowledgements, reads
\* and writes in any order do to the peer's stream what the steps of
\* ByteStream do and nothing else.
BufferedStream == Stream!Spec

\* No callback can run with a freed socket as its argument: while lwIP holds
\* the callbacks of a pcb it may still drive, the socket is allocated
\* (wolf_TCPclose clears them before the close and before the free).
CallbackArgLive == hooked /\ Driven => sockmem = "live"

\* wolf_TCPconnect's loop is left only with a connection: while the socket
\* has its pcb and the peer has not failed it, connect's WOLF_SUCCESS means
\* the handshake was completed.
ConnectedIsUp ==
  connRet = "WOLF_SUCCESS" /\ tcp_pcb = "pcb"
    => connected /\ pcb \in {"established", "released"}

ConnectWaits == pc \in {"connectLoop", "connectPoll"}
ReadWaits    == pc \in {"readLoop", "readPoll"}

\* connect waits on a connection lwIP has given up; recv waits with nothing
\* buffered on one whose peer has closed, that was lost, or that never was.
ConnectDead == ConnectWaits /\ ~connected /\ pcb = "released"
ReadDead    == ReadWaits /\ buffer = <<>> /\ (fin \/ pcb \in {"none", "released"})

\* A thread that waits on a dead connection waits for ever ("no timeout for
\* now"): the err callback, the poll timer and the acknowledgements of what was
\* sent set at most "complete", which no loop reads, and nothing revives it.
DeadWaitsStay ==
  /\ [](ConnectDead => []ConnectWaits)
  /\ [](ReadDead => []ReadWaits)

\* connect returns when the peer accepts and the connection does not fail.
ConnectReturns == ConnectWaits ~> (pc = "ready" \/ pcb = "released")

\* recv returns once the peer's bytes come, unless the peer has no more.
PeerSilent == buffer = <<>> /\ (fin \/ pcb # "established" \/ handed = PeerBytes)
ReadReturns == ReadWaits ~> (pc = "ready" \/ PeerSilent)

\* Claims of the source that its code does not keep.

\* wolf_TCPclose takes "sock->tcp_pcb != NULL" for the test whether there is a
\* connection to close: no call should then hand lwIP a pcb that it has freed.
UsedPcbIsLive == pc # "fault"

\* tcp.c prints "failed to create pcb" and gives up: the caller, which tests
\* for WOLF_SUCCESS, should then not be told of a success.
SuccessHasPcb == connRet = "WOLF_SUCCESS" => connected

\* The callers print "Failed to write data" when send fails: bytes send
\* claims to have written should have been queued.
ClaimedIsQueued == claimed = queued
=============================================================================
