--------------------------- MODULE TcpSocketProofs ---------------------------
(***************************************************************************)
(* Proofs about TcpSocket, for every size of the buffer, of the window and *)
(* of the pbufs, every length callers use and every length of the streams. *)
(***************************************************************************)
EXTENDS TcpSocket, SequenceTheorems, TLAPS

-----------------------------------------------------------------------------
(* Lemmas about the operators.                                             *)

\* Bytes(from, n) is a sequence of n numbers that counts on from "from".
LEMMA BytesProperties ==
  ASSUME NEW from \in Nat, NEW n \in Nat
  PROVE  /\ Bytes(from, n) \in Seq(Nat)
         /\ Len(Bytes(from, n)) = n
         /\ \A i \in 1 .. n : Bytes(from, n)[i] = from + i
<1>1. \A i \in 1 .. n : from + i \in Nat
  OBVIOUS
<1>2. Bytes(from, n) \in [1 .. n -> Nat]
  BY <1>1 DEF Bytes
<1>3. Bytes(from, n) \in Seq(Nat)
  BY <1>2
<1>4. DOMAIN Bytes(from, n) = 1 .. n
  BY <1>2
<1>5. Len(Bytes(from, n)) = n
  BY <1>3, <1>4, LenProperties
<1> QED
  BY <1>3, <1>5 DEF Bytes

\* Concatenation of byte sequences: elements, and associativity.
LEMMA ByteConcatProperties ==
  ASSUME NEW s \in Seq(Nat), NEW t \in Seq(Nat)
  PROVE  /\ s \o t \in Seq(Nat)
         /\ Len(s \o t) = Len(s) + Len(t)
         /\ \A i \in 1 .. Len(s) + Len(t) :
              (s \o t)[i] = IF i <= Len(s) THEN s[i] ELSE t[i - Len(s)]
  BY ConcatProperties, Zenon

\* Appending to sequences of bytes is associative.
LEMMA ByteConcatAssociative ==
  ASSUME NEW s \in Seq(Nat), NEW t \in Seq(Nat), NEW u \in Seq(Nat)
  PROVE  (s \o t) \o u = s \o (t \o u)
  BY SMT

\* The bytes of the stream handed over in two pieces are those of one piece.
LEMMA BytesConcat ==
  ASSUME NEW m \in Nat, NEW n \in Nat
  PROVE  Bytes(0, m) \o Bytes(m, n) = Bytes(0, m + n)
<1> DEFINE a == Bytes(0, m)
           b == Bytes(m, n)
           c == Bytes(0, m + n)
<1>1. a \in Seq(Nat) /\ Len(a) = m /\ \A i \in 1 .. m : a[i] = 0 + i
  BY BytesProperties
<1>2. b \in Seq(Nat) /\ Len(b) = n /\ \A i \in 1 .. n : b[i] = m + i
  BY BytesProperties
<1>3. c \in Seq(Nat) /\ Len(c) = m + n /\ \A i \in 1 .. (m + n) : c[i] = 0 + i
  BY BytesProperties
<1> HIDE DEF a, b, c
<1>4. /\ a \o b \in Seq(Nat) /\ Len(a \o b) = m + n
      /\ \A i \in 1 .. m + n : (a \o b)[i] = IF i <= m THEN a[i] ELSE b[i - m]
  BY <1>1, <1>2, ByteConcatProperties
<1>5. \A i \in 1 .. m + n : (a \o b)[i] = c[i]
  BY <1>1, <1>2, <1>3, <1>4
<1>6. a \o b = c
  BY <1>3, <1>4, <1>5, SeqEqual
<1> QED
  BY <1>6 DEF a, b, c

\* Taking k bytes off the front of a sequence and keeping the rest loses none.
LEMMA TakeConcat ==
  ASSUME NEW s \in Seq(Nat), NEW k \in 0 .. Len(s)
  PROVE  /\ SubSeq(s, 1, k) \in Seq(Nat)
         /\ SubSeq(s, k + 1, Len(s)) \in Seq(Nat)
         /\ Len(SubSeq(s, 1, k)) = k
         /\ Len(SubSeq(s, k + 1, Len(s))) = Len(s) - k
         /\ SubSeq(s, 1, k) \o SubSeq(s, k + 1, Len(s)) = s
<1> DEFINE a == SubSeq(s, 1, k)
           b == SubSeq(s, k + 1, Len(s))
<1>1. Len(s) \in Nat /\ \A i \in 1 .. Len(s) : s[i] \in Nat
  BY LenProperties, ElementOfSeq
<1>2. /\ a \in Seq(Nat) /\ Len(a) = k
      /\ \A i \in 1 .. k : a[i] = s[i]
  <2>1. \A i \in 1 .. k : s[i] \in Nat
    BY <1>1
  <2>2. /\ a \in Seq(Nat)
        /\ Len(a) = IF 1 <= k THEN k - 1 + 1 ELSE 0
        /\ \A i \in 1 .. k - 1 + 1 : a[i] = s[1 + i - 1]
    BY <2>1, <1>1, SubSeqProperties
  <2> HIDE DEF a
  <2> QED
    BY <2>2, <1>1
<1>3. /\ b \in Seq(Nat) /\ Len(b) = Len(s) - k
      /\ \A i \in 1 .. Len(s) - k : b[i] = s[k + i]
  <2>1. \A i \in k + 1 .. Len(s) : s[i] \in Nat
    BY <1>1
  <2>2. /\ b \in Seq(Nat)
        /\ Len(b) = IF k + 1 <= Len(s) THEN Len(s) - (k + 1) + 1 ELSE 0
        /\ \A i \in 1 .. Len(s) - (k + 1) + 1 : b[i] = s[(k + 1) + i - 1]
    BY <2>1, <1>1, SubSeqProperties
  <2> HIDE DEF b
  <2> QED
    BY <2>2, <1>1
<1> HIDE DEF a, b
<1>4. /\ a \o b \in Seq(Nat) /\ Len(a \o b) = Len(s)
      /\ \A i \in 1 .. Len(s) : (a \o b)[i] = IF i <= k THEN a[i] ELSE b[i - k]
  BY <1>1, <1>2, <1>3, ByteConcatProperties
<1>5. \A i \in 1 .. Len(s) : (a \o b)[i] = s[i]
  BY <1>1, <1>2, <1>3, <1>4
<1>6. a \o b = s
  BY <1>4, <1>5, SeqEqual
<1> QED
  BY <1>2, <1>3, <1>6 DEF a, b

\* What recv_len stands for, and the bound of the recv callback.
LEMMA SmallerProperties ==
  ASSUME NEW a \in Int, NEW b \in Int
  PROVE  Smaller(a, b) \in {a, b} /\ Smaller(a, b) <= a /\ Smaller(a, b) <= b
BY DEF Smaller

-----------------------------------------------------------------------------
(* Types and the bound of the buffer.                                      *)

ThreadSteps ==
  \/ Socket \/ Connect \/ ConnectClear \/ ConnectLoop \/ PollReturns \/ ReadWait
  \/ Close \/ UseStalePcb

\* recv hands over the k oldest bytes and keeps the others, whatever it was
\* asked for: the emptied buffer of a short read held nothing more.
LEMMA ReadTakes ==
  ASSUME TypeOK, ReadReturn
  PROVE  \E k \in 0 .. Len(buffer) :
           /\ want > 0 => k > 0
           /\ delivered' = delivered \o SubSeq(buffer, 1, k)
           /\ buffer' = SubSeq(buffer, k + 1, Len(buffer))
<1> DEFINE k == IF want <= Len(buffer) THEN want ELSE Len(buffer)
<1>1. want \in Nat /\ buffer \in Seq(Nat) /\ Len(buffer) \in Nat \ {0}
  BY EmptySeq DEF TypeOK, ReadReturn
<1>2. k \in 0 .. Len(buffer) /\ (want > 0 => k > 0)
  BY <1>1
<1>3. delivered' = delivered \o SubSeq(buffer, 1, k)
  BY DEF ReadReturn
<1>4. buffer' = SubSeq(buffer, k + 1, Len(buffer))
  <2>1. CASE want <= Len(buffer)
    BY <2>1, <1>1 DEF ReadReturn
  <2>2. CASE ~(want <= Len(buffer))
    <3>1. buffer' = <<>> /\ k = Len(buffer)
      BY <2>2, <1>1 DEF ReadReturn
    <3>2. SubSeq(buffer, Len(buffer) + 1, Len(buffer)) = <<>>
      BY <1>1, SubSeqEmpty
    <3> QED
      BY <3>1, <3>2
  <2> QED
    BY <2>1, <2>2
<1> QED
  BY <1>2, <1>3, <1>4

\* The recv callback appends as many of the n bytes as there is room for.
LEMMA RecvAppends ==
  ASSUME TypeOK, BufferBound, NEW n \in 1 .. MAX_PBUF, LwipRecv(n)
  PROVE  \E k \in 0 .. n :
           /\ k = Smaller(n, BUF_SIZE - Len(buffer))
           /\ Bytes(handed, k) \in Seq(Nat)
           /\ Len(Bytes(handed, k)) = k
           /\ \A i \in 1 .. k : Bytes(handed, k)[i] = handed + i
           /\ buffer' = buffer \o Bytes(handed, k)
           /\ buffer' \in Seq(Nat)
           /\ Len(buffer') = Len(buffer) + k
           /\ Len(buffer') <= BUF_SIZE
           /\ spilt' = spilt + n - k
<1> DEFINE k == Smaller(n, BUF_SIZE - Len(buffer))
<1>1. /\ n \in Nat /\ handed \in Nat /\ BUF_SIZE \in Nat
      /\ buffer \in Seq(Nat) /\ Len(buffer) \in Nat /\ Len(buffer) <= BUF_SIZE
  BY SizeAssumption, LenProperties DEF TypeOK, BufferBound
<1>2. k \in 0 .. n /\ k \in Nat /\ k <= BUF_SIZE - Len(buffer)
  BY <1>1, SmallerProperties
<1>3. buffer' = buffer \o Bytes(handed, k) /\ spilt' = spilt + n - k
  BY DEF LwipRecv
<1> HIDE DEF k
<1>4. /\ Bytes(handed, k) \in Seq(Nat)
      /\ Len(Bytes(handed, k)) = k
      /\ \A i \in 1 .. k : Bytes(handed, k)[i] = handed + i
  BY <1>1, <1>2, BytesProperties
<1>5. buffer' \in Seq(Nat) /\ Len(buffer') = Len(buffer) + k
  <2> DEFINE b == Bytes(handed, k)
  <2>1. b \in Seq(Nat) /\ Len(b) = k
    BY <1>4
  <2> HIDE DEF b
  <2>2. buffer \o b \in Seq(Nat) /\ Len(buffer \o b) = Len(buffer) + Len(b)
    BY <1>1, <2>1, ByteConcatProperties
  <2> QED
    BY <1>3, <2>1, <2>2 DEF b
<1>6. Len(buffer') <= BUF_SIZE
  BY <1>1, <1>2, <1>5
<1> QED
  BY <1>2, <1>3, <1>4, <1>5, <1>6 DEF k

\* A step keeps the types and the bound on the buffer.
LEMMA TypeStep ==
  ASSUME TypeOK, BufferBound, [Next]_vars
  PROVE  TypeOK' /\ BufferBound'
<1> USE SizeAssumption, UseAssumption
<1>0. <<>> \in Seq(Nat) /\ Len(<<>>) <= BUF_SIZE
  OBVIOUS
<1>1. CASE ThreadSteps
  <2>1. CASE Socket
    BY <2>1 DEF Socket, TypeOK, BufferBound, sockVars, lwipVars, histVars
  <2>2. CASE Connect
    <3>1. CASE ConnectNoPcb
      BY <3>1 DEF ConnectNoPcb, TypeOK, BufferBound, lwipVars
    <3>2. CASE ConnectRefused
      BY <3>2, <1>0 DEF ConnectRefused, TypeOK, BufferBound, PcbStates
    <3>3. CASE ConnectStart
      BY <3>3, <1>0 DEF ConnectStart, TypeOK, BufferBound, PcbStates, histVars
    <3> QED
      BY <2>2, <3>1, <3>2, <3>3 DEF Connect
  <2>3. CASE ConnectLoop \/ PollReturns \/ ReadWait \/ UseStalePcb
    <3>1. /\ pc' \in {"connectLoop", "connectPoll", "ready", "readLoop",
                     "readPoll", "fault"}
          /\ connRet' \in {"none", "WOLF_SUCCESS", "WOLF_FAIL"}
      BY <2>3 DEF ConnectLoop, PollReturns, ReadWait, UseStalePcb, TypeOK, histVars
    <3>2. UNCHANGED <<sockVars, want, sockmem, lwipVars, closeRet, delivered,
                      claimed, queued, spilt>>
      BY <2>3 DEF ConnectLoop, PollReturns, ReadWait, UseStalePcb, histVars
    <3> QED
      BY <3>1, <3>2 DEF TypeOK, BufferBound, sockVars, lwipVars
  <2>4. CASE Close
    BY <2>4 DEF Close, TcpClose, TypeOK, BufferBound, PcbStates
  <2>5. CASE ConnectClear
    BY <2>5 DEF ConnectClear, TypeOK, BufferBound, lwipVars, histVars
  <2> QED
    BY <1>1, <2>1, <2>2, <2>3, <2>4, <2>5 DEF ThreadSteps
<1>2. CASE Transfer
  <2>1. ASSUME NEW len \in WriteLens, Write(len) PROVE TypeOK' /\ BufferBound'
    <3>1. len \in Nat /\ len % U16 \in Nat
      OBVIOUS
    <3> QED
      BY <2>1, <3>1 DEF Write, TcpWriteOk, TcpWriteErr, TypeOK, BufferBound, threadVars
  <2>2. ASSUME NEW len \in ReadLens, Read(len) PROVE TypeOK' /\ BufferBound'
    BY <2>2 DEF Read, TypeOK, BufferBound, sockVars, lwipVars, histVars
  <2> QED
    BY <1>2, <2>1, <2>2 DEF Transfer
<1>3. CASE ReadReturn
  <2>1. PICK k \in 0 .. Len(buffer) :
           /\ delivered' = delivered \o SubSeq(buffer, 1, k)
           /\ buffer' = SubSeq(buffer, k + 1, Len(buffer))
    BY <1>3, ReadTakes
  <2>2. buffer \in Seq(Nat) /\ delivered \in Seq(Nat) /\ Len(buffer) \in Nat
    BY LenProperties DEF TypeOK
  <2>3. buffer' \in Seq(Nat) /\ Len(buffer') <= Len(buffer)
    BY <2>1, <2>2, TakeConcat
  <2>4. delivered' \in Seq(Nat)
    BY <2>1, <2>2, TakeConcat, ByteConcatProperties
  <2> QED
    BY <1>3, <2>2, <2>3, <2>4 DEF ReadReturn, TypeOK, BufferBound, lwipVars
<1>4. CASE Lwip
  <2>1. ASSUME NEW err \in ConnectStatus, LwipConnected(err)
        PROVE  TypeOK' /\ BufferBound'
    <3>1. complete' \in BOOLEAN /\ connected' \in BOOLEAN /\ pcb' \in PcbStates
      BY <2>1 DEF LwipConnected, TcpResult, TypeOK, PcbStates
    <3> QED
      BY <2>1, <3>1 DEF LwipConnected, TypeOK, BufferBound, threadVars, histVars
  <2>2. ASSUME NEW n \in 1 .. MAX_PBUF, LwipRecv(n)
        PROVE  TypeOK' /\ BufferBound'
    <3>1. PICK k \in 0 .. n : /\ buffer' \in Seq(Nat) /\ Len(buffer') <= BUF_SIZE
                              /\ spilt' = spilt + n - k
      BY <2>2, RecvAppends
    <3>2. handed' \in Nat /\ spilt' \in Nat
      BY <2>2, <3>1 DEF LwipRecv, TypeOK
    <3> QED
      BY <2>2, <3>1, <3>2 DEF LwipRecv, TypeOK, BufferBound, threadVars
  <2>3. CASE LwipRecvFin
    BY <2>3 DEF LwipRecvFin, TypeOK, BufferBound, sockVars, threadVars, histVars
  <2>6. CASE LwipPoll
    <3>1. complete' \in BOOLEAN
      BY <2>6 DEF LwipPoll, TcpResult
    <3> QED
      BY <2>6, <3>1 DEF LwipPoll, TypeOK, BufferBound, threadVars, lwipVars, histVars
  <2>4. ASSUME NEW n \in 1 .. SND_BUF, LwipSent(n)
        PROVE  TypeOK' /\ BufferBound'
    <3>1. /\ unacked' \in Nat /\ sent_len' \in Nat /\ run_count' \in Nat
      BY <2>4 DEF LwipSent, TypeOK
    <3>3. complete' \in BOOLEAN
      BY <2>4 DEF LwipSent, TcpResult, TypeOK
    <3>2. buffer' \in Seq(Nat) /\ Len(buffer') <= BUF_SIZE
      BY <2>4, <1>0 DEF LwipSent, TypeOK, BufferBound
    <3> QED
      BY <2>4, <3>1, <3>2, <3>3 DEF LwipSent, TypeOK, BufferBound, threadVars, histVars
  <2>5. ASSUME NEW err \in {"ERR_RST", "ERR_ABRT"}, LwipErr(err)
        PROVE  TypeOK' /\ BufferBound'
    <3>1. complete' \in BOOLEAN
      BY <2>5 DEF LwipErr, ErrCallback, TcpResult, TypeOK
    <3>2. pcb' \in PcbStates /\ unacked' \in Nat
      BY <2>5 DEF LwipErr, PcbStates
    <3> QED
      BY <2>5, <3>1, <3>2 DEF LwipErr, TypeOK, BufferBound, threadVars, histVars
  <2> QED
    BY <1>4, <2>1, <2>2, <2>3, <2>4, <2>5, <2>6 DEF Lwip, Receives
<1>5. CASE UNCHANGED vars
  BY <1>5 DEF TypeOK, BufferBound, vars, sockVars, threadVars, lwipVars, histVars
<1> QED
  BY <1>1, <1>2, <1>3, <1>4, <1>5 DEF Next, Waiting, ThreadSteps

\* Initially the struct is zeroed and nothing is buffered.
LEMMA SocketInitially == ASSUME Init PROVE TypeOK /\ BufferBound
<1>1. BufferBound
  BY SizeAssumption DEF Init, BufferBound
<1>2. complete \in BOOLEAN /\ connected \in BOOLEAN /\ hooked \in BOOLEAN
      /\ fin \in BOOLEAN
  BY DEF Init
<1>3. buffer \in Seq(Nat) /\ delivered \in Seq(Nat)
  BY EmptySeq DEF Init
<1>4. pcb \in PcbStates
  BY DEF Init, PcbStates
<1> QED
  BY <1>1, <1>2, <1>3, <1>4 DEF Init, TypeOK

\* Every variable keeps its type, and no receive callback writes past the end
\* of sock->buffer: the copy of lwip_cb_client_recv is bounded by buffer_left.
THEOREM BufferIsBounded == Spec => [](TypeOK /\ BufferBound)
<1>1. Init => TypeOK /\ BufferBound
  BY SocketInitially
<1>2. TypeOK /\ BufferBound /\ [Next]_vars => (TypeOK /\ BufferBound)'
  BY TypeStep
<1> QED
  BY <1>1, <1>2, PTL DEF Spec

\* Every variable of the socket, of lwIP's side and of the call in progress
\* keeps its type, for every size and every way lwIP calls back.
THEOREM SocketTypes == Spec => []TypeOK
BY BufferIsBounded, PTL

-----------------------------------------------------------------------------
(* The acknowledgement window.                                             *)

\* A step keeps what is acknowledged and outstanding within the window.
LEMMA AckStep ==
  ASSUME TypeOK, AckBound, [Next]_vars
  PROVE  AckBound'
<1> USE SizeAssumption, UseAssumption
<1>1. ASSUME NEW len \in WriteLens, Write(len) PROVE AckBound'
  <2>1. sent_len' = 0
    BY <1>1 DEF Write
  <2>2. CASE TcpWriteOk(len)
    BY <2>1, <2>2 DEF TcpWriteOk, AckBound, TypeOK
  <2>3. CASE TcpWriteErr
    BY <2>1, <2>3 DEF TcpWriteErr, AckBound, TypeOK
  <2> QED
    BY <1>1, <2>2, <2>3 DEF Write
<1>2. ASSUME NEW n \in 1 .. SND_BUF, LwipSent(n) PROVE AckBound'
  <2>1. n \in Nat /\ n <= unacked /\ unacked' = unacked - n
    BY <1>2 DEF LwipSent
  <2>2. sent_len' = sent_len + n \/ sent_len' = 0
    BY <1>2 DEF LwipSent
  <2> QED
    BY <2>1, <2>2 DEF AckBound, TypeOK
<1>3. ASSUME NEW err \in {"ERR_RST", "ERR_ABRT"}, LwipErr(err) PROVE AckBound'
  BY <1>3 DEF LwipErr, AckBound, TypeOK
<1>4. CASE \/ ThreadSteps \/ ReadReturn \/ LwipRecvFin \/ LwipPoll
           \/ \E len \in ReadLens : Read(len)
           \/ \E err \in ConnectStatus : LwipConnected(err)
           \/ \E n \in 1 .. MAX_PBUF : LwipRecv(n)
           \/ UNCHANGED vars
  <2>1. UNCHANGED <<sent_len, unacked>>
    BY <1>4 DEF ThreadSteps, Socket, Connect, ConnectNoPcb, ConnectRefused,
         ConnectStart, ConnectClear, ConnectLoop, PollReturns, ReadWait, Close,
         UseStalePcb, ReadReturn, LwipRecvFin, LwipPoll, Read, LwipConnected, LwipRecv,
         vars, sockVars, threadVars, lwipVars, histVars
  <2> QED
    BY <2>1 DEF AckBound
<1> QED
  BY <1>1, <1>2, <1>3, <1>4 DEF Next, Transfer, Waiting, ThreadSteps, Lwip, Receives

\* What was acknowledged since the last send and what is still to be never
\* exceed lwIP's send buffer (reset of sent_len in wolf_TCPwrite).
THEOREM AckIsBounded == Spec => []AckBound
<1>1. Init => AckBound
  BY SizeAssumption DEF Init, AckBound
<1>2. TypeOK /\ AckBound /\ [Next]_vars => AckBound'
  BY AckStep
<1> QED
  BY <1>1, <1>2, BufferIsBounded, PTL DEF Spec

-----------------------------------------------------------------------------
(* The life of the socket.                                                 *)

\* The inductive invariant of CallbackArgLive and ConnectedIsUp: which struct,
\* pcb and flags go with each place the thread can be at.
LifeInv ==
  /\ pc = "start" => sockmem = "none"
  /\ pc \notin {"start", "done"} => sockmem = "live"
  /\ hooked => sockmem = "live" /\ tcp_pcb = "pcb"
  /\ pc \in {"start", "open"} => pcb = "none" /\ tcp_pcb = "NULL" /\ ~hooked
  /\ pc \in {"start", "open", "connectStarted", "connectLoop", "connectPoll"}
       => connRet = "none"
  /\ pc \in {"connectStarted", "connectLoop", "connectPoll"} => tcp_pcb = "pcb"
  /\ pc \in {"connectLoop", "connectPoll"} /\ connected
       => pcb \in {"established", "released"}
  /\ ConnectedIsUp

\* A step keeps the invariant of the life cycle.
LEMMA LifeStep ==
  ASSUME TypeOK, LifeInv, [Next]_vars
  PROVE  LifeInv'
<1>1. CASE Socket
  BY <1>1 DEF Socket, LifeInv, ConnectedIsUp, sockVars, lwipVars, histVars
<1>2. CASE Connect
  BY <1>2 DEF Connect, ConnectNoPcb, ConnectRefused, ConnectStart, LifeInv,
       ConnectedIsUp, lwipVars, histVars
<1>3. CASE ConnectClear \/ ConnectLoop
  BY <1>3 DEF ConnectClear, ConnectLoop, LifeInv, ConnectedIsUp, sockVars,
       lwipVars, histVars
<1>4. CASE PollReturns
  BY <1>4 DEF PollReturns, Polling, LifeInv, ConnectedIsUp, sockVars, lwipVars, histVars
<1>5. CASE Transfer
  <2>1. ASSUME NEW len \in WriteLens, Write(len) PROVE LifeInv'
    BY <2>1 DEF Write, LifeInv, ConnectedIsUp, threadVars
  <2>2. ASSUME NEW len \in ReadLens, Read(len) PROVE LifeInv'
    BY <2>2 DEF Read, MayTransfer, LifeInv, ConnectedIsUp, sockVars, lwipVars, histVars
  <2> QED
    BY <1>5, <2>1, <2>2 DEF Transfer
<1>6. CASE ReadWait \/ UseStalePcb
  BY <1>6 DEF ReadWait, UseStalePcb, LifeInv, ConnectedIsUp, sockVars, lwipVars, histVars
<1>7. CASE ReadReturn
  BY <1>7 DEF ReadReturn, LifeInv, ConnectedIsUp, lwipVars
<1>8. CASE Close
  BY <1>8 DEF Close, LifeInv, ConnectedIsUp, TypeOK
<1>9. CASE Lwip
  <2>1. ASSUME NEW err \in ConnectStatus, LwipConnected(err) PROVE LifeInv'
    BY <2>1 DEF LwipConnected, Polling, LifeInv, ConnectedIsUp, threadVars, histVars
  <2>2. ASSUME NEW n \in 1 .. MAX_PBUF, LwipRecv(n) PROVE LifeInv'
    BY <2>2 DEF LwipRecv, LifeInv, ConnectedIsUp, threadVars
  <2>3. CASE LwipRecvFin \/ LwipPoll
    BY <2>3 DEF LwipRecvFin, LwipPoll, LifeInv, ConnectedIsUp, sockVars,
         threadVars, lwipVars, histVars
  <2>4. ASSUME NEW n \in 1 .. SND_BUF, LwipSent(n) PROVE LifeInv'
    BY <2>4 DEF LwipSent, LifeInv, ConnectedIsUp, threadVars, histVars
  <2>5. ASSUME NEW err \in {"ERR_RST", "ERR_ABRT"}, LwipErr(err) PROVE LifeInv'
    BY <2>5 DEF LwipErr, Polling, LifeInv, ConnectedIsUp, threadVars, histVars
  <2> QED
    BY <1>9, <2>1, <2>2, <2>3, <2>4, <2>5 DEF Lwip, Receives
<1>10. CASE UNCHANGED vars
  BY <1>10 DEF LifeInv, ConnectedIsUp, vars, sockVars, threadVars, lwipVars, histVars
<1> QED
  BY <1>1, <1>2, <1>3, <1>4, <1>5, <1>6, <1>7, <1>8, <1>9, <1>10
     DEF Next, Waiting

\* The invariant of the life cycle holds throughout.
LEMMA LifeInvariant == Spec => []LifeInv
<1>1. Init => LifeInv
  BY DEF Init, LifeInv, ConnectedIsUp
<1>2. TypeOK /\ LifeInv /\ [Next]_vars => LifeInv'
  BY LifeStep
<1> QED
  BY <1>1, <1>2, BufferIsBounded, PTL DEF Spec

\* No callback runs with a freed struct as its argument: wolf_TCPclose clears
\* the callbacks before it gives up the pcb and frees the struct.
THEOREM CallbacksHaveTheirSocket == Spec => []CallbackArgLive
<1>1. LifeInv => CallbackArgLive
  BY DEF LifeInv, CallbackArgLive
<1> QED
  BY <1>1, LifeInvariant, PTL

\* A pcb that connect reported as connected is one: the loop is left only
\* after the connected callback ran with ERR_OK.
THEOREM ConnectedMeansUp == Spec => []ConnectedIsUp
<1>1. LifeInv => ConnectedIsUp
  BY DEF LifeInv
<1> QED
  BY <1>1, LifeInvariant, PTL

\* A thread that waits on a dead connection never gets out of its loop, whatever
\* callbacks run from then on: the deadness is stable, and no step leaves it.
THEOREM WaitsForEver == Spec => DeadWaitsStay
<1>1. ASSUME [Next]_vars PROVE ConnectDead => ConnectDead'
  <2> SUFFICES ASSUME ConnectDead PROVE ConnectDead'
    OBVIOUS
  <2> USE DEF ConnectDead, ConnectWaits
  <2>1. CASE ConnectLoop \/ PollReturns
    BY <2>1 DEF ConnectLoop, PollReturns, Polling, sockVars, lwipVars
  <2>2. CASE Lwip
    BY <2>2 DEF Lwip, Receives, LwipConnected, LwipRecv, LwipRecvFin, LwipSent,
         LwipPoll, LwipErr, Driven, threadVars, lwipVars
  <2>3. CASE UNCHANGED vars
    BY <2>3 DEF vars, sockVars, threadVars, lwipVars
  <2>4. CASE \/ Socket \/ Connect \/ Transfer \/ ConnectClear \/ ReadWait
             \/ ReadReturn \/ Close \/ UseStalePcb
    BY <2>4 DEF Socket, Connect, ConnectNoPcb, ConnectRefused, ConnectStart,
         Transfer, Write, Read, MayTransfer, ConnectClear, ReadWait, ReadReturn,
         Close, UseStalePcb
  <2> QED
    BY <1>1, <2>1, <2>2, <2>3, <2>4 DEF Next, Waiting
<1>2. ASSUME [Next]_vars PROVE ReadDead => ReadDead'
  <2> SUFFICES ASSUME ReadDead PROVE ReadDead'
    OBVIOUS
  <2> USE DEF ReadDead, ReadWaits
  <2>1. CASE PollReturns \/ ReadWait
    BY <2>1 DEF PollReturns, Polling, ReadWait, sockVars, lwipVars
  <2>2. CASE Lwip
    <3>1. ASSUME NEW n \in 1 .. SND_BUF, LwipSent(n) PROVE ReadDead'
      BY <3>1 DEF LwipSent, threadVars
    <3>2. CASE \/ \E err \in ConnectStatus : LwipConnected(err)
               \/ Receives \/ LwipRecvFin \/ LwipPoll
               \/ \E err \in {"ERR_RST", "ERR_ABRT"} : LwipErr(err)
      BY <3>2 DEF Receives, LwipConnected, LwipRecv, LwipRecvFin, LwipPoll, LwipErr,
           Driven, threadVars, lwipVars, sockVars
    <3> QED
      BY <2>2, <3>1, <3>2 DEF Lwip
  <2>3. CASE UNCHANGED vars
    BY <2>3 DEF vars, sockVars, threadVars, lwipVars
  <2>4. CASE \/ Socket \/ Connect \/ Transfer \/ ConnectClear \/ ConnectLoop
             \/ ReadReturn \/ Close \/ UseStalePcb
    BY <2>4 DEF Socket, Connect, ConnectNoPcb, ConnectRefused, ConnectStart,
         Transfer, Write, Read, MayTransfer, ConnectClear, ConnectLoop, ReadReturn,
         Close, UseStalePcb
  <2> QED
    BY <1>2, <2>1, <2>2, <2>3, <2>4 DEF Next, Waiting
<1>3. (ConnectDead => ConnectWaits) /\ (ReadDead => ReadWaits)
  BY DEF ConnectDead, ReadDead
<1> QED
  BY <1>1, <1>2, <1>3, PTL DEF Spec, DeadWaitsStay

-----------------------------------------------------------------------------
(* The order of the stream.                                                *)

\* s holds numbers of 1 .. h in increasing order.
Ordered(s, h) ==
  /\ \A i, j \in 1 .. Len(s) : i < j => s[i] < s[j]
  /\ \A i \in 1 .. Len(s) : s[i] \in 1 .. h

\* A prefix of an ordered sequence is ordered.
LEMMA OrderedPrefix ==
  ASSUME NEW a \in Seq(Nat), NEW b \in Seq(Nat), NEW h \in Nat, Ordered(a \o b, h)
  PROVE  Ordered(a, h)
<1>1. /\ Len(a \o b) = Len(a) + Len(b) /\ Len(a) \in Nat /\ Len(b) \in Nat
      /\ \A i \in 1 .. Len(a) : (a \o b)[i] = a[i]
  BY ByteConcatProperties, LenProperties
<1> DEFINE c == a \o b
<1>2. Ordered(c, h) /\ Len(c) = Len(a) + Len(b) /\ \A i \in 1 .. Len(a) : c[i] = a[i]
  BY <1>1
<1> HIDE DEF c
<1>3. \A i \in 1 .. Len(a) : a[i] \in 1 .. h
  BY <1>1, <1>2 DEF Ordered
<1>4. ASSUME NEW i \in 1 .. Len(a), NEW j \in 1 .. Len(a), i < j
      PROVE  a[i] < a[j]
  <2>1. i \in 1 .. Len(c) /\ j \in 1 .. Len(c) /\ c[i] = a[i] /\ c[j] = a[j]
    BY <1>1, <1>2
  <2> QED
    BY <2>1, <1>2, <1>4 DEF Ordered
<1> QED
  BY <1>3, <1>4 DEF Ordered

\* An ordered sequence stays ordered when later bytes are appended.
LEMMA OrderedExtend ==
  ASSUME NEW s \in Seq(Nat), NEW h \in Nat, NEW n \in Nat, NEW k \in 0 .. n,
         Ordered(s, h)
  PROVE  Ordered(s \o Bytes(h, k), h + n)
<1> DEFINE b == Bytes(h, k)
           t == s \o b
<1>0. k \in Nat
  OBVIOUS
<1>1. b \in Seq(Nat) /\ Len(b) = k /\ \A i \in 1 .. k : b[i] = h + i
  BY <1>0, BytesProperties
<1> HIDE DEF b
<1>2. /\ Len(t) = Len(s) + k /\ Len(s) \in Nat
      /\ \A i \in 1 .. Len(s) + k : t[i] = IF i <= Len(s) THEN s[i] ELSE b[i - Len(s)]
  BY <1>1, ByteConcatProperties, LenProperties
<1> HIDE DEF t
<1>3. ASSUME NEW i \in 1 .. Len(t)
      PROVE  /\ i <= Len(s) => t[i] = s[i] /\ t[i] \in 1 .. h
             /\ i > Len(s) => t[i] = h + (i - Len(s)) /\ t[i] \in 1 .. h + n
  BY <1>1, <1>2 DEF Ordered
<1>4. \A i \in 1 .. Len(t) : t[i] \in 1 .. h + n
  BY <1>2, <1>3
<1>5. ASSUME NEW i \in 1 .. Len(t), NEW j \in 1 .. Len(t), i < j
      PROVE  t[i] < t[j]
  <2>1. CASE j <= Len(s)
    <3>1. t[i] = s[i] /\ t[j] = s[j] /\ i \in 1 .. Len(s) /\ j \in 1 .. Len(s)
      BY <1>2, <1>3, <1>5, <2>1
    <3> QED
      BY <3>1, <1>5 DEF Ordered
  <2>2. CASE j > Len(s)
    <3>1. t[j] = h + (j - Len(s))
      BY <1>3, <2>2
    <3>2. CASE i <= Len(s)
      BY <1>2, <1>3, <3>1, <3>2, <2>2
    <3>3. CASE i > Len(s)
      BY <1>2, <1>3, <1>5, <3>1, <3>3
    <3> QED
      BY <1>2, <3>2, <3>3
  <2> QED
    BY <1>2, <2>1, <2>2
<1>6. Ordered(t, h + n)
  BY <1>4, <1>5 DEF Ordered
<1> QED
  BY <1>6 DEF t, b

\* What one step makes of the bytes handed over and not lost: nothing, it
\* empties the buffer, or it is the arrival of n bytes.
LEMMA StreamSteps ==
  ASSUME TypeOK, BufferBound, [Next]_vars
  PROVE  \/ handed' = handed /\ delivered' \o buffer' = delivered \o buffer
         \/ handed' = handed /\ delivered' = delivered /\ buffer' = <<>>
         \/ \E n \in 1 .. MAX_PBUF : LwipRecv(n)
<1>1. CASE ReadReturn
  <2>1. PICK k \in 0 .. Len(buffer) :
           /\ delivered' = delivered \o SubSeq(buffer, 1, k)
           /\ buffer' = SubSeq(buffer, k + 1, Len(buffer))
    BY <1>1, ReadTakes
  <2>2. buffer \in Seq(Nat) /\ delivered \in Seq(Nat)
    BY DEF TypeOK
  <2> DEFINE a == SubSeq(buffer, 1, k)
             b == SubSeq(buffer, k + 1, Len(buffer))
  <2>3. a \in Seq(Nat) /\ b \in Seq(Nat)
    BY <2>2, TakeConcat
  <2>7. a \o b = buffer
    BY <2>2, TakeConcat
  <2>4. delivered' = delivered \o a /\ buffer' = b
    BY <2>1
  <2> HIDE DEF a, b
  <2>5. (delivered \o a) \o b = delivered \o (a \o b)
    BY <2>2, <2>3, ByteConcatAssociative
  <2>6. handed' = handed
    BY <1>1 DEF ReadReturn, lwipVars
  <2> QED
    BY <2>4, <2>5, <2>6, <2>7
<1>2. CASE Connect
  BY <1>2 DEF Connect, ConnectNoPcb, ConnectRefused, ConnectStart, lwipVars, histVars
<1>3. ASSUME NEW n \in 1 .. SND_BUF, LwipSent(n)
      PROVE  /\ handed' = handed /\ delivered' = delivered
             /\ buffer' = buffer \/ buffer' = <<>>
  BY <1>3 DEF LwipSent, histVars
<1>4. ASSUME NEW err \in ConnectStatus, LwipConnected(err)
      PROVE  UNCHANGED <<handed, delivered, buffer>>
  BY <1>4 DEF LwipConnected, histVars
<1>5. CASE \/ Socket \/ Transfer \/ ConnectClear \/ ConnectLoop \/ PollReturns
           \/ ReadWait \/ Close \/ UseStalePcb \/ LwipRecvFin \/ LwipPoll
           \/ \E err \in {"ERR_RST", "ERR_ABRT"} : LwipErr(err)
           \/ UNCHANGED vars
  <2>1. UNCHANGED <<handed, delivered, buffer>>
    BY <1>5 DEF Socket, Transfer, Write, Read, ConnectClear, ConnectLoop,
         PollReturns, ReadWait, Close, UseStalePcb, LwipRecvFin, LwipPoll, LwipErr,
         vars, sockVars, threadVars, lwipVars, histVars
  <2> QED
    BY <2>1
<1> QED
  BY <1>1, <1>2, <1>3, <1>4, <1>5 DEF Next, Waiting, Lwip, Receives

\* A step keeps the order of the bytes on their way to the reader.
LEMMA OrderStep ==
  ASSUME TypeOK, BufferBound, StreamOrder, [Next]_vars, TypeOK'
  PROVE  StreamOrder'
<1> DEFINE s == delivered \o buffer
<1>1. /\ buffer \in Seq(Nat) /\ delivered \in Seq(Nat) /\ handed \in Nat
      /\ s \in Seq(Nat)
  BY ByteConcatProperties DEF TypeOK
<1>2. Ordered(s, handed)
  BY DEF StreamOrder, Ordered
<1>3. SUFFICES Ordered(delivered' \o buffer', handed')
  BY <1>3 DEF StreamOrder, Ordered
<1>4. CASE handed' = handed /\ delivered' \o buffer' = delivered \o buffer
  BY <1>4, <1>2
<1>5. CASE handed' = handed /\ delivered' = delivered /\ buffer' = <<>>
  <2>1. delivered' \o buffer' = delivered
    BY <1>1, <1>5, ConcatEmptySeq
  <2>2. Ordered(delivered, handed)
    BY <1>1, <1>2, OrderedPrefix
  <2> QED
    BY <1>5, <2>1, <2>2
<1>6. ASSUME NEW n \in 1 .. MAX_PBUF, LwipRecv(n)
      PROVE  Ordered(delivered' \o buffer', handed')
  <2>1. PICK k \in 0 .. n : /\ Bytes(handed, k) \in Seq(Nat)
                            /\ buffer' = buffer \o Bytes(handed, k)
    BY <1>6, RecvAppends
  <2>2. delivered' = delivered /\ handed' = handed + n
    BY <1>6 DEF LwipRecv, histVars
  <2>3. Ordered(s \o Bytes(handed, k), handed + n)
    <3>1. n \in Nat /\ k \in 0 .. n
      BY SizeAssumption
    <3> HIDE DEF s
    <3> QED
      BY <1>1, <1>2, <3>1, OrderedExtend
  <2> DEFINE b == Bytes(handed, k)
  <2>4. b \in Seq(Nat) /\ buffer' = buffer \o b /\ Ordered(s \o b, handed + n)
    BY <2>1, <2>3
  <2> HIDE DEF b
  <2>5. s \o b = delivered \o (buffer \o b)
    BY <1>1, <2>4, ByteConcatAssociative
  <2> QED
    BY <2>2, <2>4, <2>5
<1> QED
  BY <1>4, <1>5, <1>6, StreamSteps

\* Even where the code loses bytes, recv returns bytes the peer sent, in the
\* order it sent them, and none twice.
THEOREM StreamIsOrdered == Spec => []StreamOrder
<1>1. Init => StreamOrder
  BY DEF Init, StreamOrder
<1>2. TypeOK /\ BufferBound /\ StreamOrder /\ [Next]_vars /\ TypeOK' => StreamOrder'
  BY OrderStep
<1> QED
  BY <1>1, <1>2, BufferIsBounded, PTL DEF Spec

-----------------------------------------------------------------------------
(* The bytes that are lost.                                                *)

\* Nothing has moved before connect, and recv is asked for at least one byte.
FreshInv ==
  /\ pc \in {"start", "open"} => handed = 0 /\ buffer = <<>> /\ delivered = <<>>
  /\ ReadWaits => want > 0

\* Nothing moves before connect.
LEMMA FreshInvariant == Spec => []FreshInv
<1>1. Init => FreshInv
  BY DEF Init, FreshInv, ReadWaits
<1>2. ASSUME TypeOK, FreshInv, [Next]_vars PROVE FreshInv'
  <2> USE DEF FreshInv, ReadWaits
  <2>1. CASE Socket \/ Close \/ UseStalePcb
    BY <1>2, <2>1 DEF Socket, Close, UseStalePcb, sockVars, lwipVars, histVars
  <2>2. CASE Connect
    BY <1>2, <2>2 DEF Connect, ConnectNoPcb, ConnectRefused, ConnectStart,
         lwipVars, histVars
  <2>3. CASE Transfer
    <3>1. ASSUME NEW len \in WriteLens, Write(len) PROVE FreshInv'
      BY <1>2, <3>1 DEF Write, MayTransfer, threadVars
    <3>2. ASSUME NEW len \in ReadLens, Read(len) PROVE FreshInv'
      BY <1>2, <3>2, UseAssumption DEF Read, MayTransfer
    <3> QED
      BY <2>3, <3>1, <3>2 DEF Transfer
  <2>4. CASE Waiting
    BY <1>2, <2>4 DEF Waiting, ConnectClear, ConnectLoop, PollReturns, Polling,
         ReadWait, ReadReturn, lwipVars, histVars
  <2>5. CASE Lwip
    <3>1. ASSUME NEW n \in 1 .. SND_BUF, LwipSent(n) PROVE FreshInv'
      BY <1>2, <3>1 DEF LwipSent, Polling, threadVars, histVars
    <3>2. CASE \/ \E err \in ConnectStatus : LwipConnected(err)
               \/ Receives \/ LwipRecvFin \/ LwipPoll
               \/ \E err \in {"ERR_RST", "ERR_ABRT"} : LwipErr(err)
      BY <1>2, <3>2 DEF Receives, LwipConnected, LwipRecv, LwipRecvFin, LwipPoll,
           LwipErr, Polling, threadVars
    <3> QED
      BY <2>5, <3>1, <3>2 DEF Lwip
  <2>6. CASE UNCHANGED vars
    BY <1>2, <2>6 DEF vars, sockVars, threadVars, lwipVars, histVars
  <2> QED
    BY <1>2, <2>1, <2>2, <2>3, <2>4, <2>5, <2>6 DEF Next
<1>3. TypeOK /\ FreshInv /\ [Next]_vars => FreshInv'
  BY <1>2
<1> QED
  BY <1>1, <1>3, BufferIsBounded, PTL DEF Spec

\* What one step makes of the bytes on their way: nothing, it is the arrival of
\* n bytes, a read takes k of them, or a run of acknowledgements ends.
LEMMA ByteSteps ==
  ASSUME TypeOK, FreshInv, [Next]_vars
  PROVE  \/ UNCHANGED <<handed, buffer, delivered, run_count, spilt>>
         \/ \E n \in 1 .. MAX_PBUF : LwipRecv(n)
         \/ /\ UNCHANGED <<handed, run_count, spilt>>
            /\ \E k \in 1 .. Len(buffer) :
                 /\ delivered' = delivered \o SubSeq(buffer, 1, k)
                 /\ buffer' = SubSeq(buffer, k + 1, Len(buffer))
         \/ /\ UNCHANGED <<handed, delivered, spilt>>
            /\ run_count' = run_count + 1
            /\ buffer' = IF run_count + 1 < TEST_ITERATIONS THEN <<>> ELSE buffer
<1>1. CASE ReadReturn
  <2>1. PICK k \in 0 .. Len(buffer) :
           /\ want > 0 => k > 0
           /\ delivered' = delivered \o SubSeq(buffer, 1, k)
           /\ buffer' = SubSeq(buffer, k + 1, Len(buffer))
    BY <1>1, ReadTakes
  <2>2. k \in 1 .. Len(buffer)
    BY <1>1, <2>1, LenProperties DEF FreshInv, ReadWaits, ReadReturn, TypeOK
  <2>3. UNCHANGED <<handed, run_count, spilt>>
    BY <1>1 DEF ReadReturn, lwipVars
  <2> QED
    BY <2>1, <2>2, <2>3
<1>2. CASE Connect
  <2>1. buffer = <<>>
    BY <1>2 DEF FreshInv, Connect, ConnectNoPcb, ConnectRefused, ConnectStart
  <2> QED
    BY <1>2, <2>1 DEF Connect, ConnectNoPcb, ConnectRefused, ConnectStart,
       lwipVars, histVars
<1>3. ASSUME NEW n \in 1 .. SND_BUF, LwipSent(n)
      PROVE  /\ UNCHANGED <<handed, delivered, spilt>>
             /\ \/ UNCHANGED <<buffer, run_count>>
                \/ /\ run_count' = run_count + 1
                   /\ buffer' = IF run_count + 1 < TEST_ITERATIONS THEN <<>> ELSE buffer
  <2>1. UNCHANGED <<handed, delivered, spilt>>
    BY <1>3 DEF LwipSent, histVars
  <2>2. run_count + 1 >= TEST_ITERATIONS <=> ~(run_count + 1 < TEST_ITERATIONS)
    BY SizeAssumption DEF TypeOK
  <2> QED
    BY <1>3, <2>1, <2>2 DEF LwipSent
<1>4. CASE \/ Socket \/ Transfer \/ ConnectClear \/ ConnectLoop \/ PollReturns
           \/ ReadWait \/ Close \/ UseStalePcb \/ LwipRecvFin \/ LwipPoll
           \/ \E err \in ConnectStatus : LwipConnected(err)
           \/ \E err \in {"ERR_RST", "ERR_ABRT"} : LwipErr(err)
           \/ UNCHANGED vars
  <2>1. UNCHANGED <<handed, buffer, delivered, run_count, spilt>>
    BY <1>4 DEF Socket, Transfer, Write, Read, ConnectClear, ConnectLoop,
         PollReturns, ReadWait, Close, UseStalePcb, LwipRecvFin, LwipPoll,
         LwipConnected, LwipErr, vars, sockVars, threadVars, lwipVars, histVars
  <2> QED
    BY <2>1
<1> QED
  BY <1>1, <1>2, <1>3, <1>4 DEF Next, Waiting, Lwip, Receives

\* While no run of BUF_SIZE acknowledgements has ended, every byte handed over
\* was read, is in the buffer, or met a full buffer: the end of a run in
\* lwip_cb_client_sent and the bound of the copy in lwip_cb_client_recv are the
\* only places of tcp.c that lose one.
THEOREM LossIsExplained == Spec => []LossNeedsFullRun
<1>1. Init => LossNeedsFullRun
  BY DEF Init, LossNeedsFullRun
<1>2. ASSUME TypeOK, BufferBound, FreshInv, LossNeedsFullRun, [Next]_vars
      PROVE  LossNeedsFullRun'
  <2> USE DEF LossNeedsFullRun
  <2>0. /\ buffer \in Seq(Nat) /\ delivered \in Seq(Nat) /\ Len(buffer) \in Nat
        /\ Len(delivered) \in Nat /\ handed \in Nat /\ spilt \in Nat /\ run_count \in Nat
    BY <1>2, LenProperties DEF TypeOK
  <2>1. CASE UNCHANGED <<handed, buffer, delivered, run_count, spilt>>
    BY <1>2, <2>1
  <2>2. ASSUME NEW n \in 1 .. MAX_PBUF, LwipRecv(n) PROVE LossNeedsFullRun'
    <3>1. PICK k \in 0 .. n : Len(buffer') = Len(buffer) + k /\ spilt' = spilt + n - k
      BY <1>2, <2>2, RecvAppends
    <3>2. handed' = handed + n /\ UNCHANGED <<delivered, run_count>>
      BY <2>2 DEF LwipRecv
    <3> QED
      BY <1>2, <2>0, <3>1, <3>2
  <2>3. ASSUME UNCHANGED <<handed, run_count, spilt>>, NEW k \in 1 .. Len(buffer),
               delivered' = delivered \o SubSeq(buffer, 1, k),
               buffer' = SubSeq(buffer, k + 1, Len(buffer))
        PROVE  LossNeedsFullRun'
    <3>1. k \in 0 .. Len(buffer)
      BY <2>0
    <3>2. /\ Len(buffer') = Len(buffer) - k
          /\ SubSeq(buffer, 1, k) \in Seq(Nat) /\ Len(SubSeq(buffer, 1, k)) = k
      BY <2>0, <2>3, <3>1, TakeConcat
    <3>3. Len(delivered') = Len(delivered) + k
      BY <2>0, <2>3, <3>2, ByteConcatProperties
    <3>4. Len(delivered') + Len(buffer') = Len(delivered) + Len(buffer)
      BY <2>0, <3>2, <3>3
    <3>5. run_count' = run_count /\ spilt' = spilt /\ handed' = handed
      BY <2>3
    <3> QED
      BY <1>2, <3>4, <3>5
  <2>4. CASE run_count' = run_count + 1
    BY <2>0, <2>4
  <2> QED
    BY <1>2, <2>1, <2>2, <2>3, <2>4, ByteSteps
<1>3. /\ TypeOK /\ BufferBound /\ FreshInv /\ LossNeedsFullRun /\ [Next]_vars
      => LossNeedsFullRun'
  BY <1>2
<1> QED
  BY <1>1, <1>3, BufferIsBounded, FreshInvariant, PTL DEF Spec

-----------------------------------------------------------------------------
(* The socket implements ByteStream.                                       *)

\* Every step is a step of the stream, or leaves it as it is.
LEMMA StreamStep ==
  ASSUME TypeOK, BufferBound, FreshInv, [Next]_vars
  PROVE  [Stream!Next]_(Stream!streamVars)
<1>1. CASE UNCHANGED <<handed, buffer, delivered, run_count, spilt>>
  BY <1>1 DEF Stream!streamVars
<1>2. ASSUME NEW n \in 1 .. MAX_PBUF, LwipRecv(n) PROVE Stream!Next
  <2>1. handed' = handed + n /\ UNCHANGED <<delivered, run_count>>
    BY <1>2 DEF LwipRecv
  <2>2. buffer' = buffer \o Bytes(handed, Smaller(n, BUF_SIZE - Len(buffer)))
    BY <1>2 DEF LwipRecv
  <2>3. Stream!Arrive(n)
    BY <2>1, <2>2 DEF Stream!Arrive, Bytes, Smaller
  <2> QED
    BY <2>3 DEF Stream!Next
<1>3. ASSUME UNCHANGED <<handed, run_count, spilt>>, NEW k \in 1 .. Len(buffer),
             delivered' = delivered \o SubSeq(buffer, 1, k),
             buffer' = SubSeq(buffer, k + 1, Len(buffer))
      PROVE  Stream!Next
  BY <1>3 DEF Stream!Take, Stream!Next
<1>4. ASSUME UNCHANGED <<handed, delivered, spilt>>, run_count' = run_count + 1,
             buffer' = IF run_count + 1 < TEST_ITERATIONS THEN <<>> ELSE buffer
      PROVE  Stream!Next
  BY <1>4 DEF Stream!EndRun, Stream!Next
<1> QED
  BY <1>1, <1>2, <1>3, <1>4, ByteSteps

\* For every size of the buffer, the window and the pbufs and every length of
\* reads and writes, connect, send and recv of tcp.c do to the peer's bytes what
\* a buffered stream does: each at most once, in order, lost only where it met
\* a full buffer or one of fewer than TEST_ITERATIONS ends of a run.
THEOREM SocketIsAStream == Spec => BufferedStream
<1>1. Init => Stream!Init
  BY DEF Init, Stream!Init
<1>2. TypeOK /\ BufferBound /\ FreshInv /\ [Next]_vars
        => [Stream!Next]_(Stream!streamVars)
  BY StreamStep
<1> QED
  BY <1>1, <1>2, BufferIsBounded, FreshInvariant, PTL
     DEF Spec, BufferedStream, Stream!Spec
=============================================================================
