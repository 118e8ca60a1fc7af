---------------------------- MODULE TcpClientProofs ----------------------------
(***************************************************************************)
(* Proofs about the TCP client: its main() and its test step by step, and  *)
(* what main() keeps whatever the test and lwIP do.                        *)
(***************************************************************************)
EXTENDS TcpClient, TcpSocketProofs, ClientMainProofs, SequenceLemmas

\* What a step of the client is to main() and to the join.
LEMMA ClientMainSteps ==
  ASSUME [ClientNext]_clientVars
  PROVE  Boot \/ Join \/ Joined \/ TestReturned \/ ArchDeinit \/ UNCHANGED mainVars
<1>1. CASE MainStep
  BY <1>1 DEF MainStep
<1>2. CASE TestStep
  BY <1>2 DEF TestStep, TestSocket, TestAddress, TestConnect, TestConnected,
       TestSend, TestRecv, TestMessage, TestExit, InTest
<1>3. CASE TestWaits
  BY <1>3 DEF TestWaits, InTest
<1>4. CASE UNCHANGED clientVars
  BY <1>4 DEF clientVars
<1> QED
  BY <1>1, <1>2, <1>3, <1>4 DEF ClientNext

\* main()'s invariant holds throughout.
LEMMA MainInvariant == ClientSpec => []MainInv
<1>1. ClientInit => MainInv
  BY MainInitially DEF ClientInit
<1>2. MainInv /\ [ClientNext]_clientVars => MainInv'
  BY ClientMainSteps, MainKeepsMainInv
<1> QED
  BY <1>1, <1>2, PTL DEF ClientSpec

\* What wolf_wifiConnect returned is the truth about the link, and it gives up
\* only after MAX_RETRY failed attempts, for every MAX_RETRY.
THEOREM JoinIsTrue == ClientSpec => []WifiResult
<1>1. MainInv => WifiResult
  BY DEF MainInv, JoinInv
<1> QED
  BY <1>1, MainInvariant, PTL

\* The socket layer runs on a joined network with the lwIP lock held.
THEOREM TestIsLockedAndJoined == ClientSpec => []LockedAndJoined
<1>1. MainInv => LockedAndJoined
  BY DEF MainInv, LockedAndJoined
<1> QED
  BY <1>1, MainInvariant, PTL
-----------------------------------------------------------------------------
(* The client uses the socket as TcpSocket expects, so everything proved   *)
(* of the socket holds inside the client.                                  *)

\* What a step of the client is to the socket.
LEMMA ClientSocketSteps ==
  ASSUME [ClientNext]_clientVars
  PROVE  [Next]_vars
<1>1. CASE MainStep
  BY <1>1 DEF MainStep
<1>2. CASE TestStep
  <2>1. CASE TestSend \/ TestRecv
    BY <2>1, ClientAssumption DEF TestSend, TestRecv, Next, Transfer
  <2>2. CASE TestSocket \/ TestAddress \/ TestConnect \/ TestConnected
    BY <2>2 DEF TestSocket, TestAddress, TestConnect, TestConnected, Next
  <2>3. CASE TestMessage \/ TestExit
    BY <2>3 DEF TestMessage, TestExit, Next
  <2> QED
    BY <1>2, <2>1, <2>2, <2>3 DEF TestStep
<1>3. CASE TestWaits
  BY <1>3 DEF TestWaits, Next
<1>4. CASE UNCHANGED clientVars
  BY <1>4 DEF clientVars
<1> QED
  BY <1>1, <1>2, <1>3, <1>4 DEF ClientNext

\* Each step of the client is a step of the socket, or leaves it alone.
THEOREM ClientUsesSocket == ClientSpec => Spec
<1>1. ClientInit => Init
  BY DEF ClientInit
<1>2. [ClientNext]_clientVars => [Next]_vars
  BY ClientSocketSteps
<1> QED
  BY <1>1, <1>2, PTL DEF ClientSpec, Spec

-----------------------------------------------------------------------------
(* The shutdown.                                                           *)

\* Where the test is says where the socket is, and nothing of the socket is
\* left when the test has returned.
TestInv ==
  /\ step \in {"socket", "address", "connect", "send", "recv", "message",
               "exit", "return"}
  /\ at \in {"boot", "wifi"} => step = "socket"
  /\ at = "deinit" => step = "return"
  /\ at = "exit" => step \in {"socket", "return"}
  /\ step = "socket" => pc = "start"
  /\ step = "address" => pc = "open"
  /\ step = "return" => pc = "done"
  /\ pc \in {"start", "done"} => tcp_pcb = "NULL" /\ sockmem # "live"

\* A step keeps the invariant of the test function.
LEMMA TestInvStep ==
  ASSUME TypeOK, LifeInv, TestInv, [ClientNext]_clientVars
  PROVE  TestInv'
<1>1. CASE MainStep
  BY <1>1 DEF MainStep, Boot, Join, Joined, TestReturned, ArchDeinit, TestInv,
       vars, sockVars, threadVars
<1>2. CASE TestStep
  <2>1. CASE TestSocket
    BY <2>1 DEF TestSocket, InTest, Socket, TestInv, mainVars, sockVars
  <2>2. CASE TestAddress \/ TestConnected \/ TestMessage
    BY <2>2 DEF TestAddress, TestConnected, TestMessage, InTest, TestInv,
         mainVars, vars, sockVars, threadVars
  <2>3. CASE TestConnect
    BY <2>3 DEF TestConnect, InTest, Connect, ConnectNoPcb, ConnectRefused,
         ConnectStart, TestInv, mainVars
  <2>4. CASE TestSend
    BY <2>4 DEF TestSend, InTest, Write, MayTransfer, UseStalePcb, TestInv,
         mainVars, sockVars, threadVars
  <2>5. CASE TestRecv
    BY <2>5 DEF TestRecv, InTest, Read, TestInv, mainVars, sockVars
  <2>6. CASE TestExit
    BY <2>6 DEF TestExit, InTest, Close, UseStalePcb, TestInv, TypeOK,
         mainVars, sockVars
  <2> QED
    BY <1>2, <2>1, <2>2, <2>3, <2>4, <2>5, <2>6 DEF TestStep
<1>3. CASE TestWaits
  <2>1. at' = at /\ step' = step
    BY <1>3 DEF TestWaits, InTest, mainVars
  <2>2. CASE Waiting
    BY <2>1, <2>2 DEF Waiting, ConnectClear, ConnectLoop, PollReturns, Polling,
         ReadWait, ReadReturn, TestInv, sockVars
  <2>3. CASE Lwip
    <3>1. UNCHANGED <<tcp_pcb, pc, sockmem>>
      BY <2>3 DEF Lwip, Receives, LwipConnected, LwipRecv, LwipRecvFin, LwipSent,
           LwipPoll, LwipErr, sockVars, threadVars
    <3> QED
      BY <2>1, <3>1 DEF TestInv
  <2> QED
    BY <1>3, <2>2, <2>3 DEF TestWaits
<1>4. CASE UNCHANGED clientVars
  BY <1>4 DEF clientVars, mainVars, vars, sockVars, threadVars, TestInv
<1> QED
  BY <1>1, <1>2, <1>3, <1>4 DEF ClientNext

\* The invariant of the test function holds throughout.
LEMMA TestInvariant == ClientSpec => []TestInv
<1>1. ClientInit => TestInv
  BY DEF ClientInit, Init, MainInit, TestInv
<1>2. TypeOK /\ LifeInv /\ TestInv /\ [ClientNext]_clientVars => TestInv'
  BY TestInvStep
<1> QED
  BY <1>1, <1>2, ClientUsesSocket, BufferIsBounded, LifeInvariant, PTL DEF ClientSpec

\* Every variable of the client keeps its values, for every size.
THEOREM ClientTypes == ClientSpec => []ClientTypeOK
<1>1. TypeOK /\ MainInv /\ TestInv => ClientTypeOK
  BY DEF MainInv, JoinInv, TestInv, ClientTypeOK
<1> QED
  BY <1>1, ClientUsesSocket, BufferIsBounded, MainInvariant, TestInvariant, PTL

\* Whichever call fails, main() shuts the chip down without the lock, a live
\* socket or a pcb that has its callbacks, or leaves it up after a failed join.
THEOREM ShutdownIsClean == ClientSpec => []CleanShutdown
<1>1. LifeInv /\ MainInv /\ TestInv => CleanShutdown
  BY DEF LifeInv, MainInv, TestInv, CleanShutdown
<1> QED
  BY <1>1, ClientUsesSocket, LifeInvariant, MainInvariant, TestInvariant, PTL
-----------------------------------------------------------------------------
(* The answer.                                                             *)

\* The test asks recv once and for BuffSize bytes.
AnswerInv ==
  /\ at # "test" => step \in {"socket", "return"}
  /\ step \in {"socket", "address", "connect", "send", "recv"} =>
       /\ delivered = <<>>
       /\ pc \notin {"readLoop", "readPoll"}
  /\ pc \in {"readLoop", "readPoll"} => delivered = <<>> /\ want = BuffSize
  /\ pc \in {"start", "open", "connectStarted", "connectLoop", "connectPoll"}
       => delivered = <<>>
  /\ AnswerFits

\* recv returns no more bytes than it was asked for.
LEMMA ReadReturnFits ==
  ASSUME TypeOK, ReadReturn, delivered = <<>>
  PROVE  Len(delivered') <= want
<1> DEFINE k == IF want <= Len(buffer) THEN want ELSE Len(buffer)
<1>1. want \in Nat /\ buffer \in Seq(Nat) /\ Len(buffer) \in Nat
  BY LenProperties DEF TypeOK
<1>2. k \in 0 .. Len(buffer) /\ k <= want
  BY <1>1
<1>3. delivered' = delivered \o SubSeq(buffer, 1, k)
  BY DEF ReadReturn
<1> HIDE DEF k
<1>4. SubSeq(buffer, 1, k) \in Seq(Nat) /\ Len(SubSeq(buffer, 1, k)) = k
  BY <1>1, <1>2
<1>5. Len(delivered') = k
  BY <1>3, <1>4, ByteConcatProperties
<1> QED
  BY <1>2, <1>5

\* A step keeps the bound on the answer.
LEMMA AnswerInvStep ==
  ASSUME TypeOK, AnswerInv, [ClientNext]_clientVars
  PROVE  AnswerInv'
<1> USE DEF AnswerInv, AnswerFits
<1>1. CASE MainStep
  BY <1>1 DEF MainStep, Boot, Join, Joined, TestReturned, ArchDeinit, vars,
       threadVars, histVars
<1>2. CASE TestStep
  <2>1. CASE TestSocket
    BY <2>1 DEF TestSocket, InTest, Socket, mainVars, histVars
  <2>2. CASE TestAddress \/ TestConnected \/ TestMessage
    BY <2>2 DEF TestAddress, TestConnected, TestMessage, InTest, mainVars,
         vars, threadVars, histVars
  <2>3. CASE TestConnect
    BY <2>3 DEF TestConnect, InTest, Connect, ConnectNoPcb, ConnectRefused,
         ConnectStart, mainVars, histVars
  <2>4. CASE TestSend
    BY <2>4 DEF TestSend, InTest, Write, UseStalePcb, mainVars, threadVars, histVars
  <2>5. CASE TestRecv
    BY <2>5 DEF TestRecv, InTest, Read, mainVars, histVars
  <2>6. CASE TestExit
    BY <2>6 DEF TestExit, InTest, Close, UseStalePcb, mainVars, histVars
  <2> QED
    BY <1>2, <2>1, <2>2, <2>3, <2>4, <2>5, <2>6 DEF TestStep
<1>3. CASE TestWaits
  <2>1. at' = at /\ step' = step
    BY <1>3 DEF TestWaits, InTest, mainVars
  <2>2. CASE ReadReturn
    <3>1. Len(delivered') <= want /\ want = BuffSize
      BY <2>2, ReadReturnFits DEF ReadReturn
    <3> QED
      BY <2>1, <2>2, <3>1 DEF ReadReturn
  <2>3. CASE ConnectClear \/ ConnectLoop \/ PollReturns \/ ReadWait
    BY <2>1, <2>3 DEF ConnectClear, ConnectLoop, PollReturns, Polling, ReadWait,
         histVars
  <2>4. CASE Lwip
    <3>1. UNCHANGED <<pc, want, delivered>>
      BY <2>4 DEF Lwip, Receives, LwipConnected, LwipRecv, LwipRecvFin, LwipSent,
           LwipPoll, LwipErr, threadVars, histVars
    <3> QED
      BY <2>1, <3>1
  <2> QED
    BY <1>3, <2>2, <2>3, <2>4 DEF TestWaits, Waiting
<1>4. CASE UNCHANGED clientVars
  BY <1>4 DEF clientVars, mainVars, vars, threadVars, histVars
<1> QED
  BY <1>1, <1>2, <1>3, <1>4 DEF ClientNext

\* The invariant of the answer holds throughout.
LEMMA AnswerInvariant == ClientSpec => []AnswerInv
<1>1. ClientInit => AnswerInv
  <2>1. BuffSize \in Nat
    BY ClientAssumption, UseAssumption
  <2>2. Len(<<>>) <= BuffSize
    BY <2>1
  <2> QED
    BY <2>2 DEF ClientInit, Init, MainInit, AnswerInv, AnswerFits
<1>2. TypeOK /\ AnswerInv /\ [ClientNext]_clientVars => AnswerInv'
  BY AnswerInvStep
<1> QED
  BY <1>1, <1>2, ClientUsesSocket, BufferIsBounded, PTL DEF ClientSpec

\* recv never fills more than the buffer the test gave it, for every size.
THEOREM AnswerIsBounded == ClientSpec => []AnswerFits
<1>1. AnswerInv => AnswerFits
  BY DEF AnswerInv
<1> QED
  BY <1>1, AnswerInvariant, PTL

\* One hello is sent: the acknowledgements seen and still to come are at most
\* its length, so with a hello shorter than the buffer no run is ever counted.
HelloInv ==
  /\ run_count = 0
  /\ step \in {"socket", "address", "connect", "send"} => unacked = 0 /\ sent_len = 0
  /\ sent_len + unacked <= HelloLen

\* A step keeps the invariant of the hello and its answer.
LEMMA HelloInvStep ==
  ASSUME TypeOK, HelloInv, [ClientNext]_clientVars
  PROVE  HelloInv'
<1> USE DEF HelloInv
<1>0. /\ HelloLen \in Nat /\ HelloLen < BUF_SIZE /\ BUF_SIZE \in Nat /\ U16 \in Nat \ {0}
      /\ sent_len \in Nat /\ unacked \in Nat
  BY SizeAssumption, UseAssumption, ClientAssumption DEF TypeOK
<1>1. CASE MainStep
  BY <1>1 DEF MainStep, vars, sockVars, lwipVars
<1>2. CASE TestStep
  <2>1. CASE TestSocket \/ TestAddress \/ TestConnected \/ TestMessage
    BY <2>1 DEF TestSocket, Socket, TestAddress, TestConnected, TestMessage,
         InTest, vars, sockVars, lwipVars
  <2>2. CASE TestConnect
    BY <2>2 DEF TestConnect, Connect, ConnectNoPcb, ConnectRefused, ConnectStart,
         lwipVars
  <2>3. CASE TestSend
    <3>1. unacked = 0 /\ sent_len = 0
      BY <2>3 DEF TestSend, InTest
    <3>2. CASE Write(HelloLen) /\ step' = "recv"
      <4> DEFINE len == HelloLen % U16
      <4>1. len \in Nat /\ len <= HelloLen
        BY <1>0
      <4>2. sent_len' = 0 /\ run_count' = run_count
        BY <3>2 DEF Write
      <4>3. unacked' = 0 \/ unacked' = 0 + len
        BY <3>1, <3>2 DEF Write, TcpWriteOk, TcpWriteErr
      <4>4. step' = "recv"
        BY <3>2
      <4> HIDE DEF len
      <4>5. sent_len' + unacked' <= HelloLen
        BY <1>0, <4>1, <4>2, <4>3
      <4> QED
        BY <4>2, <4>4, <4>5
    <3>3. CASE UseStalePcb /\ step' = step
      BY <3>3 DEF UseStalePcb, sockVars, lwipVars
    <3> QED
      BY <2>3, <3>2, <3>3 DEF TestSend
  <2>4. CASE TestRecv \/ TestExit
    BY <2>4 DEF TestRecv, Read, TestExit, InTest, Close, UseStalePcb, sockVars,
         lwipVars
  <2> QED
    BY <1>2, <2>1, <2>2, <2>3, <2>4 DEF TestStep
<1>3. CASE TestWaits
  <2>1. step' = step
    BY <1>3 DEF TestWaits
  <2>2. CASE Waiting
    BY <2>1, <2>2 DEF Waiting, ConnectClear, ConnectLoop, PollReturns, ReadWait,
         ReadReturn, sockVars, lwipVars
  <2>3. ASSUME NEW n \in 1 .. SND_BUF, LwipSent(n) PROVE HelloInv'
    <3>1. /\ n \in Nat /\ n <= unacked /\ unacked' = unacked - n /\ n > 0
      BY <2>3, SizeAssumption DEF LwipSent
    <3>2. sent_len + n < BUF_SIZE
      BY <1>0, <3>1
    <3>3. sent_len' = sent_len + n /\ run_count' = run_count
      BY <2>3, <3>2 DEF LwipSent
    <3> QED
      BY <1>0, <2>1, <3>1, <3>3
  <2>4. ASSUME NEW err \in {"ERR_RST", "ERR_ABRT"}, LwipErr(err) PROVE HelloInv'
    BY <1>0, <2>1, <2>4 DEF LwipErr
  <2>5. CASE (\E err \in ConnectStatus : LwipConnected(err)) \/ Receives
             \/ LwipRecvFin \/ LwipPoll
    <3>1. UNCHANGED <<run_count, sent_len, unacked>>
      BY <2>5 DEF LwipConnected, Receives, LwipRecv, LwipRecvFin, LwipPoll,
           sockVars, lwipVars
    <3> QED
      BY <2>1, <3>1
  <2> QED
    BY <1>3, <2>2, <2>3, <2>4, <2>5 DEF TestWaits, Lwip
<1>4. CASE UNCHANGED clientVars
  BY <1>4 DEF clientVars, vars, sockVars, lwipVars
<1> QED
  BY <1>1, <1>2, <1>3, <1>4 DEF ClientNext

\* The bytes that arrive fill the buffer with the first of the stream, and find
\* it full from then on.
LEMMA AnswerArrives ==
  ASSUME TypeOK, BufferBound, delivered = <<>>, AnswerIntact,
         NEW n \in 1 .. MAX_PBUF, LwipRecv(n)
  PROVE  AnswerIntact'
<1>1. /\ buffer \in Seq(Nat) /\ handed \in Nat /\ n \in Nat /\ BUF_SIZE \in Nat
  BY SizeAssumption DEF TypeOK
<1>2. PICK k \in 0 .. n :
         /\ k = Smaller(n, BUF_SIZE - Len(buffer))
         /\ Bytes(handed, k) \in Seq(Nat)
         /\ buffer' = buffer \o Bytes(handed, k)
         /\ buffer' \in Seq(Nat)
  BY RecvAppends
<1>3. delivered' = <<>> /\ handed' = handed + n
  BY DEF LwipRecv
<1>4. delivered \o buffer = buffer /\ delivered' \o buffer' = buffer'
  BY <1>1, <1>2, <1>3, ConcatEmptySeq
<1>5. buffer = Bytes(0, Smaller(handed, BUF_SIZE))
  BY <1>4 DEF AnswerIntact
<1>6. Smaller(handed, BUF_SIZE) \in Nat
  BY <1>1 DEF Smaller
<1>7. Len(buffer) = Smaller(handed, BUF_SIZE)
  BY <1>5, <1>6, BytesProperties
<1>8. buffer' = Bytes(0, Smaller(handed + n, BUF_SIZE))
  <2>1. CASE handed <= BUF_SIZE
    <3>1. Smaller(handed, BUF_SIZE) = handed /\ k \in Nat
      BY <2>1 DEF Smaller
    <3>2. Bytes(0, handed) \o Bytes(handed, k) = Bytes(0, handed + k)
      BY <1>1, <3>1, BytesConcat
    <3>3. handed + k = Smaller(handed + n, BUF_SIZE)
      BY <1>1, <1>2, <1>7, <3>1 DEF Smaller
    <3> QED
      BY <1>2, <1>5, <3>1, <3>2, <3>3
  <2>2. CASE ~(handed <= BUF_SIZE)
    <3>1. Smaller(handed, BUF_SIZE) = BUF_SIZE /\ Smaller(handed + n, BUF_SIZE) = BUF_SIZE
      BY <1>1, <2>2 DEF Smaller
    <3>2. k = 0
      BY <1>1, <1>2, <1>7, <3>1 DEF Smaller
    <3>3. Bytes(handed, k) = <<>>
      BY <3>2 DEF Bytes
    <3>4. buffer \o <<>> = buffer
      BY <1>1, ConcatEmptySeq
    <3> QED
      BY <1>2, <1>5, <3>1, <3>3, <3>4
  <2> QED
    BY <2>1, <2>2
<1> QED
  BY <1>3, <1>4, <1>8 DEF AnswerIntact

\* A step keeps the answer as far as the buffer holds it.
LEMMA AnswerIntactStep ==
  ASSUME TypeOK, BufferBound, FreshInv, AnswerInv, HelloInv, HelloInv', AnswerIntact,
         [Next]_vars
  PROVE  AnswerIntact'
<1>1. CASE UNCHANGED <<handed, buffer, delivered, run_count, spilt>>
  BY <1>1 DEF AnswerIntact
<1>2. ASSUME NEW n \in 1 .. MAX_PBUF, LwipRecv(n) PROVE AnswerIntact'
  <2>1. delivered = <<>>
    BY <1>2 DEF LwipRecv, Polling, AnswerInv
  <2> QED
    BY <1>2, <2>1, AnswerArrives
<1>3. ASSUME UNCHANGED <<handed, run_count, spilt>>, NEW k \in 1 .. Len(buffer),
             delivered' = delivered \o SubSeq(buffer, 1, k),
             buffer' = SubSeq(buffer, k + 1, Len(buffer))
      PROVE  AnswerIntact'
  <2> DEFINE a == SubSeq(buffer, 1, k)
             b == SubSeq(buffer, k + 1, Len(buffer))
  <2>1. buffer \in Seq(Nat) /\ delivered \in Seq(Nat) /\ k \in 0 .. Len(buffer)
    BY LenProperties DEF TypeOK
  <2>2. a \in Seq(Nat) /\ b \in Seq(Nat) /\ a \o b = buffer
    BY <2>1, TakeConcat
  <2>3. delivered' = delivered \o a /\ buffer' = b /\ handed' = handed
    BY <1>3
  <2> HIDE DEF a, b
  <2>4. (delivered \o a) \o b = delivered \o (a \o b)
    BY <2>1, <2>2, ByteConcatAssociative
  <2> QED
    BY <2>2, <2>3, <2>4 DEF AnswerIntact
<1>4. CASE run_count' = run_count + 1
  BY <1>4 DEF HelloInv
<1> QED
  BY <1>1, <1>2, <1>3, <1>4, ByteSteps

\* The client keeps the first BUF_SIZE bytes of its answer, whatever the peer
\* sends in excess of them, and every byte of an answer that is no longer: the
\* acknowledgements of its one hello never empty the buffer, for every hello
\* shorter than the buffer, every window and every chopping into pbufs.
THEOREM AnswerIsIntact == ClientSpec => []AnswerIntact
<1>1. ClientInit => HelloInv
  BY ClientAssumption, UseAssumption DEF ClientInit, Init, HelloInv
<1>2. TypeOK /\ HelloInv /\ [ClientNext]_clientVars => HelloInv'
  BY HelloInvStep
<1>3. ClientInit => AnswerIntact
  <2>1. <<>> \o <<>> = <<>> /\ Bytes(0, 0) = <<>>
    BY EmptySeq, ConcatEmptySeq DEF Bytes
  <2>2. Smaller(0, BUF_SIZE) = 0
    BY SizeAssumption DEF Smaller
  <2> QED
    BY <2>1, <2>2 DEF ClientInit, Init, AnswerIntact
<1>4. TypeOK /\ BufferBound /\ FreshInv /\ AnswerInv /\ HelloInv /\ HelloInv'
        /\ AnswerIntact /\ [Next]_vars => AnswerIntact'
  BY AnswerIntactStep
<1>5. [ClientNext]_clientVars => [Next]_vars
  BY ClientSocketSteps
<1> QED
  BY <1>1, <1>2, <1>3, <1>4, <1>5, ClientUsesSocket, BufferIsBounded, FreshInvariant,
     AnswerInvariant, PTL DEF ClientSpec

-----------------------------------------------------------------------------
(* The order of the resources.                                             *)

Order == <<"chip", "link", "lock", "socket", "pcb">>

HasPcb == hooked /\ pcb # "released"

\* How much of the order the program holds.
Depth ==
  IF HasPcb THEN 5
  ELSE IF sockmem = "live" THEN 4
  ELSE IF lock > 0 THEN 3
  ELSE IF link THEN 2
  ELSE IF arch THEN 1 ELSE 0

\* What is held is the first Depth resources of the order.
LEMMA HeldIsPrefix ==
  ASSUME MainInv, LifeInv, TestInv
  PROVE  Depth \in 0 .. 5 /\ Held = SubSeq(Order, 1, Depth)
<1>1. HasPcb => sockmem = "live"
  BY DEF HasPcb, LifeInv
<1>2. sockmem = "live" => lock > 0
  BY DEF MainInv, TestInv
<1>3. (lock > 0 => link) /\ (link => arch)
  BY DEF MainInv
<1> QED
  BY <1>1, <1>2, <1>3, SMT DEF Held, HasPcb, Depth, Order

\* No step acquires two resources.
LEMMA DepthGrowsByOne ==
  ASSUME MainInv, LifeInv, TestInv, [ClientNext]_clientVars
  PROVE  Depth' <= Depth + 1
<1>1. CASE MainStep
  <2>1. HasPcb' = HasPcb /\ sockmem' = sockmem
    BY <1>1 DEF MainStep, HasPcb, vars, threadVars, lwipVars
  <2>2. CASE at \in {"test", "deinit"}
    <3>1. /\ lock' <= lock /\ (link' => link) /\ (arch' => arch)
          /\ lock \in {0, 1} /\ lock' \in {0, 1}
      BY <1>1, <2>2 DEF MainStep, TestReturned, ArchDeinit, Boot, Join, Joined,
           MainInv, wifiVars
    <3> QED
      BY <2>1, <3>1 DEF Depth, MainInv
  <2>3. CASE at \notin {"test", "deinit"}
    <3>1. ~HasPcb /\ sockmem # "live"
      BY <2>3 DEF MainInv, LifeInv, TestInv, HasPcb
    <3>2. \/ Boot /\ lock = 0 /\ ~link
          \/ Join /\ lock = 0 /\ arch
          \/ Joined /\ lock = 0 /\ arch /\ (at' = "test" => link)
      BY <1>1, <2>3 DEF MainStep, Boot, Join, Joined, TestReturned, ArchDeinit,
           MainInv, JoinInv, WifiResult
    <3> QED
      BY <2>1, <3>1, <3>2 DEF Depth, Boot, Join, Joined, MainInv, wifiVars
  <2> QED
    BY <2>2, <2>3
<1>2. CASE TestStep \/ TestWaits
  <2>1. at = "test" /\ UNCHANGED mainVars
    BY <1>2 DEF TestStep, TestSocket, TestAddress, TestConnect, TestConnected,
         TestSend, TestRecv, TestMessage, TestExit, TestWaits, InTest
  <2>2. lock = 1 /\ lock' = 1 /\ link /\ link' /\ arch /\ arch'
    BY <2>1 DEF MainInv, mainVars, wifiVars
  <2>3. CASE TestSocket
    <3>1. HasPcb' = HasPcb /\ ~HasPcb /\ sockmem # "live"
      BY <2>3 DEF TestSocket, InTest, Socket, TestInv, LifeInv, HasPcb, lwipVars
    <3> QED
      BY <2>2, <3>1 DEF Depth
  <2>4. CASE TestConnect
    <3>1. sockmem = "live" /\ sockmem' = sockmem
      BY <2>4 DEF TestConnect, Connect, ConnectNoPcb, ConnectRefused, ConnectStart,
           LifeInv
    <3> QED
      BY <2>2, <3>1 DEF Depth
  <2>5. CASE TestAddress \/ TestConnected \/ TestMessage
    <3>1. HasPcb' = HasPcb /\ sockmem' = sockmem
      BY <2>5 DEF TestAddress, TestConnected, TestMessage, HasPcb, vars, threadVars,
           lwipVars
    <3> QED
      BY <2>2, <3>1 DEF Depth
  <2>6. CASE TestSend \/ TestRecv \/ TestExit \/ TestWaits
    <3>1. (HasPcb' => HasPcb) /\ (sockmem' = "live" => sockmem = "live")
      <4>1. CASE TestSend \/ TestRecv \/ TestExit
        BY <4>1 DEF TestSend, Write, UseStalePcb, TestRecv, Read, TestExit, Close,
             HasPcb, threadVars, lwipVars
      <4>2. CASE TestWaits
        BY <4>2 DEF TestWaits, Waiting, ConnectClear, ConnectLoop, PollReturns,
             ReadWait, ReadReturn, Lwip, Receives, LwipConnected, LwipRecv, LwipRecvFin,
             LwipSent, LwipPoll, LwipErr, HasPcb, threadVars, lwipVars
      <4> QED
        BY <2>6, <4>1, <4>2
    <3> QED
      BY <2>2, <3>1 DEF Depth
  <2> QED
    BY <1>2, <2>3, <2>4, <2>5, <2>6 DEF TestStep
<1>3. CASE UNCHANGED clientVars
  BY <1>3 DEF clientVars, mainVars, wifiVars, vars, threadVars, lwipVars, Depth, HasPcb
<1> QED
  BY <1>1, <1>2, <1>3 DEF ClientNext

\* The program uses its resources as a stack: chip, link, lock, socket and pcb,
\* each acquired on top of those before it and given back from the top,
\* whichever call of the test fails and whatever lwIP reports.
THEOREM ClientResourcesNest == ClientSpec => ResourcesNest
<1>1. ClientInit => Resource!Init
  BY DEF ClientInit, Init, MainInit, WifiInit, Held, Resource!Init
<1>2. MainInv /\ LifeInv /\ TestInv
        => Depth \in 0 .. 5 /\ Held = SubSeq(Order, 1, Depth)
  BY HeldIsPrefix
<1>3. (MainInv /\ LifeInv /\ TestInv
        => Depth \in 0 .. 5 /\ Held = SubSeq(Order, 1, Depth))'
  BY <1>2, PTL
<1>4. MainInv /\ LifeInv /\ TestInv /\ MainInv' /\ LifeInv' /\ TestInv'
        /\ [ClientNext]_clientVars => [Resource!Next]_(Resource!nestVars)
  <2> SUFFICES ASSUME MainInv, LifeInv, TestInv, MainInv', LifeInv', TestInv',
                      [ClientNext]_clientVars
               PROVE  Resource!Next \/ Held' = Held
    BY DEF Resource!nestVars
  <2> DEFINE Names == {"chip", "link", "lock", "socket", "pcb"}
  <2>1. Order \in Seq(Names) /\ Len(Order) = 5
    BY DEF Order
  <2>2. Distinct(Order)
    BY <2>1 DEF Order, Distinct
  <2>3. Depth \in 0 .. Len(Order) /\ Held = SubSeq(Order, 1, Depth)
    BY <1>2, <2>1
  <2>4. Depth' \in 0 .. Len(Order) /\ Held' = SubSeq(Order, 1, Depth')
    BY <1>3, <2>1 DEF Order
  <2>5. Depth' <= Depth + 1
    BY DepthGrowsByOne
  <2> HIDE DEF Names
  <2>6. StacksUp(Held, Held', Names)
    BY <2>1, <2>2, <2>3, <2>4, <2>5, PrefixMoves
  <2> QED
    BY <2>6 DEF Names, StacksUp, Resource!Next, Resource!Release, Resource!Acquire,
         Resource!IsStrictPrefix, Resource!IsPrefix, Resource!ToSet
<1> QED
  BY <1>1, <1>4, MainInvariant, ClientUsesSocket, LifeInvariant, TestInvariant, PTL
     DEF ClientSpec, ResourcesNest, Resource!Spec
=============================================================================
