------------------------------- MODULE TcpClient -------------------------------
(***************************************************************************)
(* src/tcpClient_main.c: main() and tcpClient_test(), which sends one fake *)
(* client hello and reads one answer, on top of the socket of TcpSocket.   *)
(***************************************************************************)
EXTENDS TcpSocket, ClientMain

CONSTANTS
  HelloLen,   \* SIZE_OF_CLIENT_HELLO
  BuffSize    \* BUFF_SIZE, what one recv asks for

\* The client's own lengths are among those the socket is used with, and its
\* hello is shorter than the receive buffer (815 bytes and 8192).
ASSUME ClientAssumption ==
  HelloLen \in WriteLens /\ HelloLen < BUF_SIZE /\ BuffSize \in ReadLens

VARIABLE step   \* where tcpClient_test is

clientVars == <<vars, mainVars, step>>

ClientInit == Init /\ MainInit /\ step = "socket"

InTest(s) == at = "test" /\ step = s /\ UNCHANGED mainVars

\* sock = socket(): with no memory the function returns.
TestSocket ==
  /\ InTest("socket")
  /\ Socket
  /\ step' = IF pc' = "done" THEN "return" ELSE "address"

\* Faulty variant: a bad address returns at once.
TestAddressReturns ==
  /\ InTest("address")
  /\ step' \in {"connect", "return"}
  /\ UNCHANGED vars

\* inet_pton of the server's address.
TestAddress ==
  /\ InTest("address")
  /\ step' \in {"connect", "exit"}
  /\ UNCHANGED vars

TestConnect == InTest("connect") /\ Connect /\ UNCHANGED step

TestConnected ==
  /\ InTest("connect") /\ pc = "ready"
  /\ step' = IF connRet = "WOLF_SUCCESS" THEN "send" ELSE "exit"
  /\ UNCHANGED vars

\* send never returns a negative value, so the error branch is never taken.
TestSend ==
  /\ InTest("send")
  /\ \/ Write(HelloLen) /\ step' = "recv"
     \/ UseStalePcb /\ step' = step

TestRecv == InTest("recv") /\ Read(BuffSize) /\ step' = "message"

\* recv has returned: the message is printed.
TestMessage ==
  /\ InTest("message") /\ pc = "ready"
  /\ step' = "exit"
  /\ UNCHANGED vars

\* exit: close(sock)
TestExit ==
  /\ InTest("exit")
  /\ \/ Close /\ step' = "return"
     \/ UseStalePcb /\ step' = step

\* The thread waits inside connect or recv; lwIP runs the callbacks.
TestWaits == InTest(step) /\ (Waiting \/ Lwip) /\ UNCHANGED step

MainStep ==
  /\ Boot \/ Join \/ Joined \/ (step = "return" /\ TestReturned) \/ ArchDeinit
  /\ UNCHANGED <<vars, step>>

TestStep ==
  \/ TestSocket \/ TestAddress \/ TestConnect \/ TestConnected \/ TestSend
  \/ TestRecv \/ TestMessage \/ TestExit

ClientNext == MainStep \/ TestStep \/ TestWaits

(***************************************************************************)
(* The program runs on its own; lwIP is fair as in TcpSocket.              *)
(***************************************************************************)
ClientSpec ==
  /\ ClientInit /\ [][ClientNext]_clientVars
  /\ WF_clientVars(MainStep \/ TestStep \/ (InTest(step) /\ Waiting /\ UNCHANGED step))
  /\ SF_clientVars(InTest(step) /\ LwipConnected("ERR_OK") /\ UNCHANGED step)
  /\ SF_clientVars(InTest(step) /\ Receives /\ UNCHANGED step)

-----------------------------------------------------------------------------
(* Properties.                                                             *)

ClientTypeOK ==
  /\ TypeOK
  /\ at \in {"boot", "wifi", "test", "deinit", "exit"}
  /\ step \in {"socket", "address", "connect", "send", "recv", "message",
               "exit", "return"}
  /\ wifi \in {"idle", "loop", "sleep", "returned"}
  /\ arch \in BOOLEAN /\ lock \in 0 .. 1 /\ retry \in Nat

\* The chip is never shut down, and the program never left, with the lwIP
\* lock held, a live socket, or a pcb that has our callbacks, whichever call of
\* the test failed (main's lock pairing, the test's goto exit paths); it is
\* left up only by main's early return, after a join that failed.
CleanShutdown ==
  at \in {"deinit", "exit"} =>
    /\ lock = 0
    /\ sockmem # "live"
    /\ ~(hooked /\ Driven) /\ tcp_pcb = "NULL"
    /\ at = "exit" => (arch <=> wifiRet = "WOLF_FAIL")

\* The socket layer is entered only on a joined network with the lwIP lock
\* held, which lwIP's raw API requires of its callers.
LockedAndJoined == pc # "start" /\ at = "test" => link /\ arch /\ lock = 1

\* Of the answer the first BUF_SIZE bytes are kept, all of them if it is no
\* longer, and what is beyond them is lost: tcp_recved has opened the window
\* (11680 bytes) for more than the buffer (8192) holds.  The acknowledgements
\* of the hello, shorter than the buffer, never let the sent callback empty it.
AnswerIntact == delivered \o buffer = Bytes(0, Smaller(handed, BUF_SIZE))

\* recv never fills more than the BUFF_SIZE bytes of the test's buffer,
\* however much more of the answer is waiting.  It terminates nothing: the
\* printf of an answer relies on a zero byte in it.
AnswerFits == Len(delivered) <= BuffSize

\* What the program holds, in the order in which it acquires it.
Held ==
  (IF arch THEN <<"chip">> ELSE <<>>) \o (IF link THEN <<"link">> ELSE <<>>)
    \o (IF lock > 0 THEN <<"lock">> ELSE <<>>)
    \o (IF sockmem = "live" THEN <<"socket">> ELSE <<>>)
    \o (IF hooked /\ pcb # "released" THEN <<"pcb">> ELSE <<>>)

Resource == INSTANCE Nesting
              WITH held <- Held, lost <- {}, Losable <- {},
                   Resources <- {"chip", "link", "lock", "socket", "pcb"}

\* Every exit path gives back what it acquired from the top, the pcb with or
\* before its socket, the socket before the lock, the lock before the chip, and
\* none loses one.
ResourcesNest == Resource!Spec

\* The program ends unless connect or recv waits on a connection that will
\* bring nothing more, or it has run into a freed pcb.
Stuck == (ConnectWaits /\ pcb = "released") \/ (ReadWaits /\ PeerSilent) \/ pc = "fault"
Terminates == <>(at = "exit" \/ Stuck)
=============================================================================
