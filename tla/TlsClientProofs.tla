---------------------------- MODULE TlsClientProofs ----------------------------
(***************************************************************************)
(* Proofs about the TLS client, for every size, every number of join       *)
(* attempts and every length wolfSSL passes to its I/O callbacks.          *)
(***************************************************************************)
EXTENDS TlsClient, TcpSocketProofs, ClientMainProofs, SequenceLemmas

-----------------------------------------------------------------------------
(* What a step of the program can do to each group of its variables.       *)

\* What a step of the program is to main() and to the join.
LEMMA TlsMainSteps ==
  ASSUME [TlsNext]_allVars
  PROVE  Boot \/ Join \/ Joined \/ TestReturned \/ ArchDeinit \/ UNCHANGED mainVars
<1>1. CASE TlsStep
  BY <1>1 DEF TlsStep, LibInit, NewContext, LoadCA, NewSocket, ServerAddress,
       ConnectServer, Connected, NewSession, IOCallback, PhaseReturns, FreeSsl,
       FreeSock, FreeCtx, InTest
<1>2. CASE TlsWaits
  BY <1>2 DEF TlsWaits, InTest
<1>3. CASE TlsMain
  BY <1>3 DEF TlsMain
<1>4. CASE UNCHANGED allVars
  BY <1>4 DEF allVars
<1> QED
  BY <1>1, <1>2, <1>3, <1>4 DEF TlsNext

\* Only the free of the struct behind the socket's back and the removal of
\* the network interface are no steps of the socket.
LEMMA TlsSocketSteps ==
  ASSUME [TlsNext]_allVars
  PROVE  [Next]_vars \/ FreeSock \/ (ArchDeinit /\ InterfaceRemoved)
<1>1. CASE TlsStep
  <2>1. CASE NewSocket \/ ConnectServer \/ IOCallback
    BY <2>1 DEF NewSocket, ConnectServer, IOCallback, Next
  <2>2. CASE LibInit \/ NewContext \/ LoadCA \/ ServerAddress \/ Connected
    BY <2>2 DEF LibInit, NewContext, LoadCA, ServerAddress, Connected
  <2>3. CASE NewSession \/ PhaseReturns \/ FreeSsl \/ FreeCtx
    BY <2>3 DEF NewSession, PhaseReturns, FreeSsl, FreeCtx
  <2> QED
    BY <1>1, <2>1, <2>2, <2>3 DEF TlsStep
<1>2. CASE TlsWaits
  BY <1>2 DEF TlsWaits, Next
<1>3. CASE TlsMain
  BY <1>3 DEF TlsMain
<1>4. CASE UNCHANGED allVars
  BY <1>4 DEF allVars
<1> QED
  BY <1>1, <1>2, <1>3, <1>4 DEF TlsNext

\* main()'s invariant holds throughout.
LEMMA TlsMainInvariant == TlsSpec => []MainInv
<1>1. TlsInit => MainInv
  BY MainInitially DEF TlsInit
<1>2. MainInv /\ [TlsNext]_allVars => MainInv'
  BY TlsMainSteps, MainKeepsMainInv
<1> QED
  BY <1>1, <1>2, PTL DEF TlsSpec

\* The socket's types and the bound on its buffer hold throughout.
LEMMA TlsBufferInvariant == TlsSpec => [](TypeOK /\ BufferBound)
<1>1. TlsInit => TypeOK /\ BufferBound
  BY SocketInitially DEF TlsInit
<1>2. TypeOK /\ BufferBound /\ [TlsNext]_allVars => (TypeOK /\ BufferBound)'
  <2> SUFFICES ASSUME TypeOK, BufferBound, [TlsNext]_allVars
               PROVE  TypeOK' /\ BufferBound'
    OBVIOUS
  <2>1. CASE [Next]_vars
    BY <2>1, TypeStep
  <2>2. CASE FreeSock
    BY <2>2 DEF FreeSock, TypeOK, BufferBound, sockVars, lwipVars, histVars
  <2>3. CASE InterfaceRemoved
    <3>1. CASE UNCHANGED vars
      BY <3>1 DEF TypeOK, BufferBound, vars, sockVars, threadVars, lwipVars, histVars
    <3>2. CASE ~UNCHANGED vars
      BY <2>3, <3>2 DEF InterfaceRemoved, ErrCallback, TypeOK, BufferBound,
           PcbStates, threadVars, histVars
    <3> QED
      BY <3>1, <3>2
  <2> QED
    BY <2>1, <2>2, <2>3, TlsSocketSteps
<1> QED
  BY <1>1, <1>2, PTL DEF TlsSpec

-----------------------------------------------------------------------------
(* The life cycles: what exists at each place of tlsClient_test.           *)

Places == {"init", "ctx", "ca", "socket", "address", "connect", "session",
           "freeSsl", "freeSock", "freeCtx", "return"} \cup Phases

\* The library, the context and the session.
ObjectInv ==
  /\ step \in Places
  /\ lib \in BOOLEAN /\ ctx \in {"NULL", "live", "freed"} /\ ssl \in BOOLEAN
  /\ at \in {"boot", "wifi"} => step = "init"
  /\ at = "deinit" => step = "return"
  /\ at = "exit" => step \in {"init", "return"}
  /\ step = "init" => ~lib
  /\ step \notin {"init", "return"} => lib
  /\ step \in {"init", "ctx"} => ctx = "NULL"
  /\ step \notin {"init", "ctx", "return"} => ctx = "live"
  /\ step \in Phases => ssl
  /\ ssl => step \in Phases \cup {"freeSsl"}
  /\ step = "return" =>
       /\ ctx = "live" <=> sockptr = "NULL"
       /\ lib <=> ctx = "NULL" \/ sockptr = "NULL"

\* The struct, the pointer to it, and the thread inside the socket's calls.
SocketInv ==
  /\ sockptr \in {"garbage", "NULL", "sock"}
  /\ sockptr # "sock" => sockmem = "none"
  /\ sockptr = "NULL" => step = "return"
  /\ sockptr = "sock" /\ step \notin {"freeCtx", "return"} => sockmem = "live"
  /\ sockmem = "freed" => step \in {"freeCtx", "return"}
  /\ step \in {"freeCtx", "return"} => sockmem # "live"
  /\ step \in {"init", "ctx", "ca", "socket"} => sockptr = "garbage" /\ pc = "start"
  /\ step \in {"address", "connect", "session"} \cup Phases => sockptr = "sock"
  /\ step = "address" => pc = "open"
  /\ step = "connect" =>
       pc \in {"open", "connectStarted", "connectLoop", "connectPoll", "ready"}
  /\ step = "session" => pc = "ready"
  /\ step \in Phases => pc \in {"ready", "readLoop", "readPoll", "fault"}
  /\ step \in {"freeSsl", "freeSock"} => pc \in {"start", "open", "ready", "fault"}
  /\ step \in {"freeCtx", "return"} => pc \in {"start", "done"}
  /\ step = "session" \/ ssl => connRet = "WOLF_SUCCESS" /\ sockptr = "sock"

TlsInv == ObjectInv /\ SocketInv

\* The program starts in its invariant.
LEMMA TlsInitially == ASSUME TlsInit PROVE TlsInv
BY DEF TlsInit, Init, MainInit, TlsInv, ObjectInv, SocketInv, Places, Phases

\* lwIP runs, and the thread waits, only inside connect and wolfSSL's I/O.
LEMMA WaitsInside ==
  ASSUME TlsInv, TlsWaits
  PROVE  /\ step \in {"connect"} \cup Phases
         /\ UNCHANGED <<sockmem, step, lib, ctx, ssl, sockptr, at>>
         /\ connRet' = connRet \/ step = "connect"
         /\ \/ /\ pc \in {"connectStarted", "connectLoop", "connectPoll"}
               /\ pc' \in {"connectLoop", "connectPoll", "ready"}
            \/ /\ pc \in {"readLoop", "readPoll"}
               /\ pc' \in {"readLoop", "readPoll", "ready"}
<1>1. UNCHANGED <<step, lib, ctx, ssl, sockptr, at>> /\ step \in Places
  BY DEF TlsWaits, InTest, tlsVars, mainVars, TlsInv, ObjectInv
<1>2. CASE Waiting
  BY <1>1, <1>2 DEF Waiting, ConnectClear, ConnectLoop, PollReturns, Polling,
       ReadWait, ReadReturn, TlsInv, SocketInv, Places, Phases, histVars
<1>3. CASE Lwip
  <2>1. Polling
    BY <1>3 DEF Lwip, Receives, LwipConnected, LwipRecv, LwipRecvFin, LwipSent,
         LwipPoll, LwipErr
  <2>2. UNCHANGED <<pc, sockmem, connRet>>
    BY <1>3 DEF Lwip, Receives, LwipConnected, LwipRecv, LwipRecvFin, LwipSent,
         LwipPoll, LwipErr, threadVars, histVars
  <2> QED
    BY <1>1, <2>1, <2>2 DEF Polling, TlsInv, SocketInv, Places, Phases
<1> QED
  BY <1>2, <1>3 DEF TlsWaits

\* A step keeps the invariant of the program.
LEMMA TlsInvStep ==
  ASSUME TlsInv, [TlsNext]_allVars
  PROVE  TlsInv'
<1> USE DEF TlsInv, ObjectInv, SocketInv, Places, Phases
<1>1. CASE TlsStep
  <2>1. CASE LibInit
    BY <2>1 DEF LibInit, InTest, mainVars, vars, threadVars, histVars
  <2>2. CASE NewContext
    BY <2>2 DEF NewContext, InTest, mainVars, vars, threadVars, histVars
  <2>3. CASE LoadCA
    BY <2>3 DEF LoadCA, InTest, mainVars, vars, threadVars, histVars
  <2>4. CASE NewSocket
    BY <2>4 DEF NewSocket, Socket, InTest, mainVars, histVars
  <2>5. CASE ServerAddress
    BY <2>5 DEF ServerAddress, InTest, mainVars, vars, threadVars, histVars
  <2>6. CASE ConnectServer
    BY <2>6 DEF ConnectServer, Connect, ConnectNoPcb, ConnectRefused, ConnectStart,
         InTest, mainVars, tlsVars, histVars
  <2>7. CASE Connected
    BY <2>7 DEF Connected, InTest, mainVars, vars, threadVars, histVars
  <2>8. CASE NewSession
    BY <2>8 DEF NewSession, InTest, mainVars, vars, threadVars, histVars
  <2>9. CASE IOCallback
    <3>1. /\ UNCHANGED <<step, lib, ctx, ssl, sockptr, at>>
          /\ step \in Phases
      BY <2>9 DEF IOCallback, InTest, mainVars, tlsVars
    <3>2. /\ pc' \in {"ready", "readLoop", "fault"}
          /\ UNCHANGED <<sockmem, connRet>>
      BY <2>9 DEF IOCallback, Transfer, Write, Read, MayTransfer, UseStalePcb,
           threadVars, histVars
    <3> QED
      BY <3>1, <3>2
  <2>10. CASE PhaseReturns
    BY <2>10 DEF PhaseReturns, AfterPhase, InTest, mainVars, vars, threadVars, histVars
  <2>11. CASE FreeSsl
    BY <2>11 DEF FreeSsl, InTest, mainVars, vars, threadVars, histVars
  <2>12. CASE FreeSock
    BY <2>12 DEF FreeSock, InTest, mainVars, histVars
  <2>13. CASE FreeCtx
    BY <2>13 DEF FreeCtx, InTest, mainVars, vars, threadVars, histVars
  <2> QED
    BY <1>1, <2>1, <2>2, <2>3, <2>4, <2>5, <2>6, <2>7, <2>8, <2>9, <2>10, <2>11,
       <2>12, <2>13 DEF TlsStep
<1>2. CASE TlsWaits
  BY <1>2, WaitsInside
<1>3. CASE TlsMain
  <2>1. UNCHANGED <<pc, sockmem, connRet, step, lib, ctx, ssl, sockptr>>
    BY <1>3 DEF TlsMain, InterfaceRemoved, tlsVars, vars, threadVars, histVars
  <2>2. \/ at' \in {"boot", "wifi", "test"} /\ at \in {"boot", "wifi"}
        \/ at' = "exit" /\ at \in {"wifi", "deinit"}
        \/ at' = "deinit" /\ step = "return"
    BY <1>3 DEF TlsMain, Boot, Join, Joined, TestReturned, ArchDeinit
  <2> QED
    BY <2>1, <2>2
<1>4. CASE UNCHANGED allVars
  BY <1>4 DEF allVars, mainVars, tlsVars, vars, threadVars, histVars
<1> QED
  BY <1>1, <1>2, <1>3, <1>4 DEF TlsNext

\* The invariant of the program holds throughout.
LEMMA TlsInvariant == TlsSpec => []TlsInv
<1>1. TlsInit => TlsInv
  BY TlsInitially
<1>2. TlsInv /\ [TlsNext]_allVars => TlsInv'
  BY TlsInvStep
<1> QED
  BY <1>1, <1>2, PTL DEF TlsSpec

\* Every variable of the TLS client keeps its values, for every size.
THEOREM TlsTypes == TlsSpec => []TlsTypeOK
<1>1. TypeOK /\ MainInv /\ TlsInv => TlsTypeOK
  BY DEF MainInv, TlsInv, ObjectInv, SocketInv, Places, TlsTypeOK
<1> QED
  BY <1>1, TlsBufferInvariant, TlsMainInvariant, TlsInvariant, PTL

\* Whatever fails on the way to the exit and in whichever phase, a session has
\* its context, its library and its socket for as long as it exists, and it
\* exists whenever wolfSSL may run the I/O callbacks.
THEOREM SessionHasItsParts == TlsSpec => []SessionIsBacked
<1>1. TlsInv => SessionIsBacked
  BY DEF TlsInv, ObjectInv, SocketInv, Places, Phases, SessionIsBacked
<1> QED
  BY <1>1, TlsInvariant, PTL

\* A session is made only on a connection that was reported up, and lives only
\* with the network joined and the lwIP lock held.
THEOREM SessionHasItsConnection == TlsSpec => []HandshakeNeedsConnect
<1>1. MainInv /\ TlsInv => HandshakeNeedsConnect
  <2> SUFFICES ASSUME MainInv, TlsInv, ssl
               PROVE  connRet = "WOLF_SUCCESS" /\ link /\ lock = 1
    BY DEF HandshakeNeedsConnect
  <2>1. step \in Phases \cup {"freeSsl"} /\ connRet = "WOLF_SUCCESS"
    BY DEF TlsInv, ObjectInv, SocketInv
  <2>2. at = "test"
    BY <2>1 DEF MainInv, TlsInv, ObjectInv, Phases
  <2> QED
    BY <2>1, <2>2 DEF MainInv
<1> QED
  BY <1>1, TlsMainInvariant, TlsInvariant, PTL

\* connect's pcb keeps its callbacks: nothing in the program closes it.
HookInv == hooked <=> pcb # "none"

\* The callbacks are on the pcb from the moment there is one.
LEMMA HookInvariant == TlsSpec => []HookInv
<1>1. TlsInit => HookInv
  BY DEF TlsInit, Init, HookInv
<1>2. ASSUME HookInv, [TlsNext]_allVars PROVE HookInv'
  <2> USE DEF HookInv
  <2>1. CASE TlsStep
    <3>1. CASE ConnectServer
      BY <1>2, <3>1 DEF ConnectServer, Connect, ConnectNoPcb, ConnectRefused,
           ConnectStart, lwipVars
    <3>2. CASE NewSocket \/ IOCallback \/ FreeSock
      <4>1. UNCHANGED <<hooked, pcb>>
        BY <3>2 DEF NewSocket, Socket, IOCallback, Transfer, Write, Read, UseStalePcb,
             FreeSock, lwipVars
      <4> QED
        BY <1>2, <4>1
    <3>3. CASE \/ LibInit \/ NewContext \/ LoadCA \/ ServerAddress \/ Connected
               \/ NewSession \/ PhaseReturns \/ FreeSsl \/ FreeCtx
      <4>1. UNCHANGED <<hooked, pcb>>
        BY <3>3 DEF LibInit, NewContext, LoadCA, ServerAddress, Connected, NewSession,
             PhaseReturns, FreeSsl, FreeCtx, vars, lwipVars
      <4> QED
        BY <1>2, <4>1
    <3> QED
      BY <2>1, <3>1, <3>2, <3>3 DEF TlsStep
  <2>2. CASE TlsWaits
    <3>1. CASE Waiting
      BY <1>2, <3>1 DEF Waiting, ConnectClear, ConnectLoop, PollReturns, ReadWait,
           ReadReturn, lwipVars
    <3>2. CASE Lwip
      BY <1>2, <3>2 DEF Lwip, Receives, LwipConnected, LwipRecv, LwipRecvFin, LwipSent,
           LwipPoll, LwipErr, lwipVars
    <3> QED
      BY <2>2, <3>1, <3>2 DEF TlsWaits
  <2>3. CASE TlsMain
    BY <1>2, <2>3 DEF TlsMain, InterfaceRemoved, vars, lwipVars
  <2>4. CASE UNCHANGED allVars
    BY <1>2, <2>4 DEF allVars, vars, lwipVars
  <2> QED
    BY <1>2, <2>1, <2>2, <2>3, <2>4 DEF TlsNext
<1>3. HookInv /\ [TlsNext]_allVars => HookInv'
  BY <1>2
<1> QED
  BY <1>1, <1>3, PTL DEF TlsSpec

\* Until connect is called there is no pcb to register callbacks on.
BeforeConnect == step \in {"init", "ctx", "ca", "socket", "address"} => ~hooked

LEMMA BeforeConnectInvariant == TlsSpec => []BeforeConnect
<1>1. TlsInit => BeforeConnect
  BY DEF TlsInit, Init, BeforeConnect
<1>2. ASSUME BeforeConnect, [TlsNext]_allVars PROVE BeforeConnect'
  <2> USE DEF BeforeConnect
  <2>1. CASE TlsStep
    <3>1. CASE ConnectServer
      BY <3>1 DEF ConnectServer, InTest, tlsVars
    <3>2. CASE IOCallback
      BY <3>2 DEF IOCallback, tlsVars, Phases
    <3>3. CASE ~ConnectServer /\ ~IOCallback
      BY <1>2, <2>1, <3>3 DEF TlsStep, LibInit, NewContext, LoadCA, NewSocket, Socket,
           ServerAddress, Connected, NewSession, PhaseReturns, AfterPhase, FreeSsl,
           FreeSock, FreeCtx, InTest, Phases, vars, lwipVars
    <3> QED
      BY <3>1, <3>2, <3>3
  <2>2. CASE TlsWaits
    <3>1. UNCHANGED <<step, hooked>>
      BY <2>2 DEF TlsWaits, tlsVars, Waiting, ConnectClear, ConnectLoop, PollReturns,
           ReadWait, ReadReturn, Lwip, Receives, LwipConnected, LwipRecv, LwipRecvFin,
           LwipSent, LwipPoll, LwipErr, lwipVars
    <3> QED
      BY <1>2, <3>1
  <2>3. CASE TlsMain
    BY <1>2, <2>3 DEF TlsMain, InterfaceRemoved, tlsVars, vars, lwipVars
  <2>4. CASE UNCHANGED allVars
    BY <1>2, <2>4 DEF allVars, tlsVars, vars, lwipVars
  <2> QED
    BY <1>2, <2>1, <2>2, <2>3, <2>4 DEF TlsNext
<1>3. BeforeConnect /\ [TlsNext]_allVars => BeforeConnect'
  BY <1>2
<1> QED
  BY <1>1, <1>3, PTL DEF TlsSpec

\* What is left when the test returns, on every way out: the library and the
\* context after the returns for lack of memory and only then, and whatever pcb
\* connect made, with its callbacks.
THEOREM ReturnsLeave == TlsSpec => []LeftBehind
<1>1. TlsInv /\ HookInv => LeftBehind
  BY DEF TlsInv, ObjectInv, SocketInv, Phases, HookInv, LeftBehind
<1> QED
  BY <1>1, TlsInvariant, HookInvariant, PTL

\* The freed struct is not written to again: when it is freed no wait is left
\* to run a callback, and the one that cyw43_arch_deinit provokes, with the
\* pointer to the freed struct, ignores the ERR_ABRT it is given.
THEOREM FreedIsLeftAlone == TlsSpec => NoWriteAfterFree
<1> DEFINE Left == sockmem = "freed" => UNCHANGED <<sockVars, sockmem>>
<1>1. TlsInv /\ [TlsNext]_allVars => [Left]_allVars
  <2> SUFFICES ASSUME TlsInv, [TlsNext]_allVars, sockmem = "freed"
               PROVE  UNCHANGED <<sockVars, sockmem>>
    OBVIOUS
  <2>1. step \in {"freeCtx", "return"}
    BY DEF TlsInv, SocketInv
  <2>2. CASE TlsStep
    <3>1. FreeCtx
      BY <2>1, <2>2 DEF TlsStep, LibInit, NewContext, LoadCA, NewSocket,
           ServerAddress, ConnectServer, Connected, NewSession, IOCallback,
           PhaseReturns, FreeSsl, FreeSock, InTest, Phases
    <3> QED
      BY <3>1 DEF FreeCtx, vars, threadVars
  <2>3. CASE TlsWaits
    BY <2>1, <2>3, WaitsInside DEF Phases
  <2>4. CASE TlsMain
    BY <2>4 DEF TlsMain, InterfaceRemoved, ErrCallback, vars, sockVars, threadVars
  <2>5. CASE UNCHANGED allVars
    BY <2>5 DEF allVars, vars, threadVars
  <2> QED
    BY <2>2, <2>3, <2>4, <2>5 DEF TlsNext
<1> QED
  BY <1>1, TlsInvariant, PTL DEF TlsSpec, NoWriteAfterFree

-----------------------------------------------------------------------------
(* The order of the resources.                                             *)

\* The order of what is acquired, with and without a pcb to call back.
Order(callbacks) ==
  IF callbacks
  THEN <<"chip", "link", "lock", "lib", "ctx", "sock", "callbacks", "ssl">>
  ELSE <<"chip", "link", "lock", "lib", "ctx", "sock", "ssl">>

Names == {"chip", "link", "lock", "lib", "ctx", "sock", "callbacks", "ssl"}

\* The two orders are sequences without repetitions.
LEMMA OrderProperties ==
  ASSUME NEW c \in BOOLEAN
  PROVE  /\ Order(c) \in Seq(Names) /\ Distinct(Order(c))
         /\ Len(Order(c)) = IF c THEN 8 ELSE 7
<1>1. CASE c = TRUE
  <2> DEFINE full == <<"chip", "link", "lock", "lib", "ctx", "sock", "callbacks", "ssl">>
  <2>1. full \in Seq(Names) /\ Len(full) = 8
    BY DEF Names
  <2>2. Distinct(full)
    BY <2>1 DEF Distinct
  <2> QED
    BY <1>1, <2>1, <2>2 DEF Order
<1>2. CASE c = FALSE
  <2> DEFINE full == <<"chip", "link", "lock", "lib", "ctx", "sock", "ssl">>
  <2>1. full \in Seq(Names) /\ Len(full) = 7
    BY DEF Names
  <2>2. Distinct(full)
    BY <2>1 DEF Distinct
  <2> QED
    BY <1>2, <2>1, <2>2 DEF Order
<1> QED
  BY <1>1, <1>2

Extra == IF hooked THEN 1 ELSE 0

\* How much of the order the program holds.
Depth ==
  IF ssl THEN 7 + Extra
  ELSE IF sockmem = "live" THEN 6 + Extra
  ELSE IF ctx = "live" /\ step # "return" THEN 5
  ELSE IF lib /\ step # "return" THEN 4
  ELSE IF lock > 0 THEN 3
  ELSE IF link THEN 2
  ELSE IF arch THEN 1 ELSE 0

\* What each part of the stack stands on.
LEMMA Stacked ==
  ASSUME MainInv, TlsInv
  PROVE  /\ ssl => sockmem = "live"
         /\ sockmem = "live" => ctx = "live" /\ step # "return"
         /\ ctx = "live" /\ step # "return" => lib
         /\ lib /\ step # "return" => lock > 0
         /\ (lock > 0 => link) /\ (link => arch)
<1>1. /\ ssl => sockmem = "live"
      /\ sockmem = "live" => ctx = "live" /\ step # "return"
      /\ ctx = "live" /\ step # "return" => lib
  BY DEF TlsInv, ObjectInv, SocketInv, Places, Phases
<1>2. lib /\ step # "return" => lock > 0
  BY DEF MainInv, TlsInv, ObjectInv
<1>3. (lock > 0 => link) /\ (link => arch)
  BY DEF MainInv
<1> QED
  BY <1>1, <1>2, <1>3

\* What is held is the first Depth resources of the order.
LEMMA HeldIsPrefix ==
  ASSUME MainInv, TlsInv, hooked \in BOOLEAN
  PROVE  /\ Depth \in 0 .. Len(Order(hooked))
         /\ Held = SubSeq(Order(hooked), 1, Depth)
<1>1. CASE hooked
  BY <1>1, Stacked, SMT DEF Held, Depth, Extra, Order
<1>2. CASE ~hooked
  BY <1>2, Stacked, SMT DEF Held, Depth, Extra, Order
<1> QED
  BY <1>1, <1>2

\* Which of the resources that can get lost are held, by how many are.
LEMMA HeldMembers ==
  ASSUME MainInv, TlsInv, hooked \in BOOLEAN
  PROVE  /\ lib /\ step # "return" => "lib" \in Resource!ToSet(Held)
         /\ ctx = "live" /\ step # "return" => "ctx" \in Resource!ToSet(Held)
         /\ hooked /\ sockmem = "live" => "callbacks" \in Resource!ToSet(Held)
         /\ ~(lib /\ step # "return") => "lib" \notin Resource!ToSet(Held)
         /\ ~(ctx = "live" /\ step # "return") => "ctx" \notin Resource!ToSet(Held)
         /\ ~(hooked /\ sockmem = "live") => "callbacks" \notin Resource!ToSet(Held)
<1> DEFINE full == Order(hooked)
<1>1. full \in Seq(Names) /\ Depth \in 0 .. Len(full) /\ Held = SubSeq(full, 1, Depth)
  BY HeldIsPrefix, OrderProperties
<1>2. /\ Held \in Seq(Names) /\ Len(Held) = Depth
      /\ \A i \in 1 .. Depth : Held[i] = full[i]
  BY <1>1, PrefixProperties
<1>3. DOMAIN Held = 1 .. Depth
  BY <1>2, LenProperties
<1>4. /\ Depth >= 4 <=> lib /\ step # "return"
      /\ Depth >= 5 <=> ctx = "live" /\ step # "return"
      /\ hooked /\ Depth >= 7 <=> hooked /\ sockmem = "live"
  BY Stacked DEF Depth, Extra
<1>5. /\ full[4] = "lib" /\ full[5] = "ctx"
      /\ hooked => full[7] = "callbacks"
      /\ \A i \in 1 .. Len(full) :
           /\ full[i] = "lib" => i = 4
           /\ full[i] = "ctx" => i = 5
           /\ full[i] = "callbacks" => i = 7 /\ hooked
  <2>1. CASE hooked
    BY <2>1 DEF Order
  <2>2. CASE ~hooked
    BY <2>2 DEF Order
  <2> QED
    BY <2>1, <2>2
<1> HIDE DEF full
<1>6. Depth \in Nat /\ \A i \in 1 .. Depth : i \in 1 .. Len(full)
  BY <1>1, LenProperties
<1>7. \A r : r \in Resource!ToSet(Held) <=> \E i \in 1 .. Depth : full[i] = r
  BY <1>2, <1>3 DEF Resource!ToSet
<1>8. /\ "lib" \in Resource!ToSet(Held) <=> Depth >= 4
      /\ "ctx" \in Resource!ToSet(Held) <=> Depth >= 5
      /\ "callbacks" \in Resource!ToSet(Held) <=> hooked /\ Depth >= 7
  <2>1. /\ Depth >= 4 => 4 \in 1 .. Depth
        /\ Depth >= 5 => 5 \in 1 .. Depth
        /\ Depth >= 7 => 7 \in 1 .. Depth
    BY <1>6
  <2>2. "lib" \in Resource!ToSet(Held) <=> Depth >= 4
    BY <1>5, <1>6, <1>7, <2>1
  <2>3. "ctx" \in Resource!ToSet(Held) <=> Depth >= 5
    BY <1>5, <1>6, <1>7, <2>1
  <2>4. "callbacks" \in Resource!ToSet(Held) <=> hooked /\ Depth >= 7
    BY <1>5, <1>6, <1>7, <2>1
  <2> QED
    BY <2>2, <2>3, <2>4
<1> QED
  BY <1>4, <1>8

-----------------------------------------------------------------------------
(* What a step does to the stack and to what is lost.                      *)

\* What the stack and the losses depend on does not change.
Still == UNCHANGED <<step, lib, ctx, ssl, sockmem, hooked, lock, link, arch>>

\* The parts of what a step keeps, grows or cuts: it acquires at most one thing,
\* and only before anything was lost; what it loses it held; a step that leaves
\* the stack as high as it was loses nothing.
Moves ==
  /\ Depth' <= Depth + 1
  /\ Depth' > Depth => Lost = {} /\ Lost' = {}
  /\ Depth' = Depth => Lost' = Lost
  /\ Lost \subseteq Lost'
  /\ "lib" \in Lost' \ Lost => lib /\ step # "return"
  /\ "ctx" \in Lost' \ Lost => ctx = "live" /\ step # "return"
  /\ "callbacks" \in Lost' \ Lost => hooked /\ sockmem = "live"
  /\ hooked' = hooked \/ (hooked' /\ Depth = 6)

\* A step of the test function.
LEMMA TestMoves ==
  ASSUME MainInv, TlsInv, TlsInv', BeforeConnect, hooked \in BOOLEAN, TlsStep
  PROVE  Moves
<1>1. at = "test" /\ UNCHANGED mainVars
  BY DEF TlsStep, LibInit, NewContext, LoadCA, NewSocket, ServerAddress,
       ConnectServer, Connected, NewSession, IOCallback, PhaseReturns, FreeSsl,
       FreeSock, FreeCtx, InTest
<1>2. lock = 1 /\ link /\ arch /\ lock' = 1 /\ link' /\ arch'
  BY <1>1 DEF MainInv, mainVars, wifiVars
<1>3. /\ step # "return" /\ (step # "freeCtx" => Lost = {})
      /\ step = "freeCtx" => "lib" \notin Lost /\ "ctx" \notin Lost
  <2>1. step # "return"
    BY DEF TlsStep, LibInit, NewContext, LoadCA, NewSocket, ServerAddress,
         ConnectServer, Connected, NewSession, IOCallback, PhaseReturns, FreeSsl,
         FreeSock, FreeCtx, InTest, Phases
  <2> QED
    BY <2>1 DEF Lost, TlsInv, SocketInv
<1> USE DEF Moves, Depth, Extra
<1>4. CASE LibInit
  BY <1>2, <1>3, <1>4 DEF LibInit, InTest, Lost, vars, threadVars, lwipVars, TlsInv,
       ObjectInv, SocketInv, Phases
<1>5. CASE NewContext
  BY <1>2, <1>3, <1>5 DEF NewContext, InTest, Lost, vars, threadVars, lwipVars,
       TlsInv, ObjectInv, SocketInv, Phases
<1>6. CASE NewSocket
  BY <1>2, <1>3, <1>6 DEF NewSocket, Socket, InTest, Lost, lwipVars, BeforeConnect,
       TlsInv, ObjectInv, SocketInv, Phases
<1>7. CASE NewSession
  BY <1>2, <1>3, <1>7 DEF NewSession, InTest, Lost, vars, threadVars, lwipVars, TlsInv,
       ObjectInv, SocketInv, Phases
<1>8. CASE ConnectServer
  <2>1. /\ UNCHANGED <<step, lib, ctx, ssl, sockmem>>
        /\ hooked' = hooked \/ hooked' = TRUE
    BY <1>8 DEF ConnectServer, Connect, ConnectNoPcb, ConnectRefused, ConnectStart,
         tlsVars, lwipVars
  <2>2. step = "connect" /\ sockmem = "live" /\ ~ssl
    BY <1>8 DEF ConnectServer, InTest, TlsInv, ObjectInv, SocketInv, Phases
  <2>3. Lost = {} /\ Lost' = {}
    BY <1>3, <2>1, <2>2 DEF Lost
  <2>4. hooked' = hooked \/ (hooked' /\ Depth = 6)
    <3>1. CASE hooked = TRUE
      BY <2>1, <3>1
    <3>2. CASE hooked = FALSE
      <4>1. Depth = 6
        BY <2>2, <3>2
      <4> QED
        BY <2>1, <4>1
    <3> QED
      BY <3>1, <3>2
  <2>5. Depth' <= Depth + 1
    BY <2>1, <2>2
  <2> QED
    BY <2>3, <2>4, <2>5
<1>9. CASE IOCallback
  <2>1. Still
    BY <1>1, <1>9 DEF IOCallback, Transfer, Write, Read, UseStalePcb, tlsVars,
         threadVars, lwipVars, mainVars, wifiVars, Still
  <2> QED
    BY <2>1 DEF Still, Lost
<1>10. CASE LoadCA \/ ServerAddress \/ Connected \/ PhaseReturns
  <2>1. /\ UNCHANGED <<lib, ctx, ssl, sockmem, hooked>>
        /\ step # "return" /\ step' # "return"
    BY <1>10 DEF LoadCA, ServerAddress, Connected, PhaseReturns, AfterPhase,
         InTest, Phases, vars, threadVars, lwipVars
  <2> QED
    BY <1>2, <2>1 DEF Lost
<1>11. CASE FreeSsl
  BY <1>2, <1>3, <1>11 DEF FreeSsl, InTest, Lost, vars, threadVars, lwipVars, TlsInv,
       ObjectInv, SocketInv, Phases
<1>12. CASE FreeSock
  BY <1>2, <1>3, <1>12 DEF FreeSock, InTest, Lost, lwipVars, TlsInv,
       ObjectInv, SocketInv, Phases
<1>13. CASE FreeCtx
  BY <1>2, <1>3, <1>13 DEF FreeCtx, InTest, Lost, vars, threadVars, lwipVars, TlsInv,
       ObjectInv, SocketInv, Phases
<1> QED
  BY <1>4, <1>5, <1>6, <1>7, <1>8, <1>9, <1>10, <1>11, <1>12, <1>13 DEF TlsStep

\* A step of main().
LEMMA MainMoves ==
  ASSUME MainInv, TlsInv, MainInv', TlsMain
  PROVE  Moves
<1>1. UNCHANGED <<step, lib, ctx, ssl, sockmem, hooked>>
  BY DEF TlsMain, InterfaceRemoved, tlsVars, vars, threadVars, lwipVars
<1>2. Lost' = Lost
  BY <1>1 DEF Lost
<1> SUFFICES /\ Depth' <= Depth + 1
             /\ Depth' > Depth => Lost = {}
  BY <1>1, <1>2 DEF Moves
<1>3. CASE step # "return"
  <2>1. at \in {"boot", "wifi"}
    BY <1>3 DEF TlsMain, Boot, Join, Joined, ArchDeinit, TlsInv, ObjectInv
  <2>2. ~lib /\ ctx # "live" /\ ~ssl /\ sockmem = "none"
    BY <2>1 DEF TlsInv, ObjectInv, SocketInv, Phases
  <2>3. Lost = {}
    BY <2>2 DEF Lost
  <2>4. \/ Boot /\ lock = 0 /\ ~link
        \/ Join /\ lock = 0 /\ arch
        \/ Joined /\ lock = 0 /\ arch /\ (at' = "test" => link)
    BY <1>3, <2>1 DEF TlsMain, Boot, Join, Joined, ArchDeinit, MainInv, JoinInv,
         WifiResult
  <2> QED
    BY <1>1, <2>2, <2>3, <2>4 DEF Depth, Boot, Join, Joined, MainInv, wifiVars
<1>4. CASE step = "return"
  <2>1. at = "test" \/ at = "deinit"
    BY <1>4 DEF TlsMain, TestReturned, ArchDeinit, Boot, Join, Joined, TlsInv,
         ObjectInv
  <2>2. lock' <= lock /\ (link' => link) /\ (arch' => arch) /\ lock \in {0, 1}
    BY <2>1 DEF TlsMain, TestReturned, ArchDeinit, Boot, Join, Joined, MainInv,
         wifiVars
  <2>3. ~ssl /\ sockmem # "live"
    BY <1>4 DEF TlsInv, ObjectInv, SocketInv, Phases
  <2> QED
    BY <1>1, <1>4, <2>2, <2>3 DEF Depth, MainInv
<1> QED
  BY <1>3, <1>4

\* Any step.
LEMMA StepMoves ==
  ASSUME MainInv, TlsInv, MainInv', TlsInv', BeforeConnect, hooked \in BOOLEAN,
         [TlsNext]_allVars
  PROVE  Moves
<1>1. CASE TlsWaits
  <2>1. Still
    <3>1. UNCHANGED <<step, lib, ctx, ssl, sockmem, mainVars>>
      BY <1>1, WaitsInside DEF TlsWaits, InTest
    <3>2. UNCHANGED hooked
      BY <1>1 DEF TlsWaits, Waiting, ConnectClear, ConnectLoop, PollReturns, ReadWait,
           ReadReturn, Lwip, Receives, LwipConnected, LwipRecv, LwipRecvFin, LwipSent,
           LwipPoll, LwipErr, lwipVars
    <3> QED
      BY <3>1, <3>2 DEF Still, mainVars, wifiVars
  <2> QED
    BY <2>1 DEF Moves, Still, Depth, Extra, Lost
<1>2. CASE UNCHANGED allVars
  <2>1. Still
    BY <1>2 DEF allVars, mainVars, wifiVars, tlsVars, vars, threadVars, lwipVars, Still
  <2> QED
    BY <2>1 DEF Moves, Still, Depth, Extra, Lost
<1> QED
  BY <1>1, <1>2, TestMoves, MainMoves DEF TlsNext

\* The program uses its resources as a stack: chip, link, lock, library, context,
\* socket, callbacks, session, each acquired on top of all those before it and
\* given back from the top or, of library, context and callbacks, lost, on every
\* path to the exit.
THEOREM TlsResourcesNest == TlsSpec => ResourcesNest
<1> DEFINE Pre == MainInv /\ TlsInv /\ BeforeConnect /\ hooked \in BOOLEAN
           Prefix == /\ Depth \in 0 .. Len(Order(hooked))
                     /\ Held = SubSeq(Order(hooked), 1, Depth)
           Members ==
             /\ lib /\ step # "return" => "lib" \in Resource!ToSet(Held)
             /\ ctx = "live" /\ step # "return" => "ctx" \in Resource!ToSet(Held)
             /\ hooked /\ sockmem = "live" => "callbacks" \in Resource!ToSet(Held)
             /\ ~(lib /\ step # "return") => "lib" \notin Resource!ToSet(Held)
             /\ ~(ctx = "live" /\ step # "return")
                  => "ctx" \notin Resource!ToSet(Held)
             /\ ~(hooked /\ sockmem = "live")
                  => "callbacks" \notin Resource!ToSet(Held)
<1>1. TlsInit => Resource!Init
  BY DEF TlsInit, Init, MainInit, WifiInit, Held, Lost, Resource!Init
<1>2. Pre => Prefix /\ Members
  BY HeldIsPrefix, HeldMembers
<1>3. (Pre => Prefix /\ Members)'
  BY <1>2, PTL
<1>4. Pre /\ Pre' /\ [TlsNext]_allVars => [Resource!Next]_(Resource!nestVars)
  <2> SUFFICES ASSUME Pre, Pre', [TlsNext]_allVars
               PROVE  Resource!Next \/ (Held' = Held /\ Lost' = Lost)
    BY DEF Resource!nestVars
  <2>1. hooked \in BOOLEAN /\ hooked' \in BOOLEAN /\ Moves
    BY StepMoves
  <2>2. Prefix /\ Members /\ Prefix' /\ Members'
    BY <1>2, <1>3
  <2> DEFINE full == Order(hooked')
  <2>3. full \in Seq(Names) /\ Distinct(full) /\ Len(full) \in Nat
    BY <2>1, OrderProperties, LenProperties
  <2>4. Depth \in 0 .. Len(full) /\ Held = SubSeq(full, 1, Depth)
    <3>1. CASE hooked' = hooked
      BY <2>2, <3>1
    <3>2. CASE hooked' # hooked
      <4>1. hooked' = TRUE /\ hooked = FALSE /\ Depth = 6
        BY <2>1, <3>2 DEF Moves
      <4>2. full = Order(TRUE) /\ Len(full) = 8
        BY <4>1, OrderProperties
      <4>3. SubSeq(Order(FALSE), 1, 6) = SubSeq(Order(TRUE), 1, 6)
        BY DEF Order
      <4>4. Held = SubSeq(Order(FALSE), 1, 6)
        BY <2>2, <4>1
      <4> HIDE DEF full
      <4>5. Held = SubSeq(full, 1, 6)
        BY <4>2, <4>3, <4>4
      <4>6. Depth \in 0 .. Len(full)
        BY <4>1, <4>2, 6 \in 0 .. 8
      <4> QED
        BY <4>1, <4>5, <4>6
    <3> QED
      BY <3>1, <3>2
  <2>5. Depth' \in 0 .. Len(full) /\ Held' = SubSeq(full, 1, Depth')
    BY <2>2
  <2> HIDE DEF full
  <2>6. Depth \in Nat /\ Depth' \in Nat /\ Len(Held) = Depth /\ Len(Held') = Depth'
    <3>1. Depth \in Nat /\ Depth' \in Nat
      BY <2>3, <2>4, <2>5
    <3>2. Len(Held) = Depth
      BY <2>3, <2>4, PrefixProperties
    <3>3. Len(Held') = Depth'
      BY <2>3, <2>5, PrefixProperties
    <3> QED
      BY <3>1, <3>2, <3>3
  <2>7. Depth' <= Depth + 1
    BY <2>1 DEF Moves
  <2>8. StacksUp(Held, Held', Names)
    BY <2>3, <2>4, <2>5, <2>7, PrefixMoves
  <2>9. CASE Depth' = Depth
    BY <2>1, <2>4, <2>5, <2>9 DEF Moves
  <2>10. CASE Depth' > Depth
    <3>1. Lost = {} /\ Lost' = {}
      BY <2>1, <2>10 DEF Moves
    <3>2. PICK r \in Names : r \notin {Held[i] : i \in DOMAIN Held}
                               /\ Held' = Append(Held, r)
      <4>1. Held' # Held /\ ~(Len(Held') <= Len(Held))
        BY <2>6, <2>10
      <4> QED
        BY <2>8, <4>1 DEF StacksUp
    <3>3. Resource!Acquire(r)
      BY <3>1, <3>2 DEF Resource!Acquire, Resource!ToSet
    <3> QED
      BY <3>2, <3>3 DEF Names, Resource!Next
  <2>11. CASE Depth' < Depth
    <3>1. Resource!IsStrictPrefix(Held', Held)
      <4>1. Held' # Held
        BY <2>6, <2>11
      <4>2. ASSUME NEW r \in Names, Held' = Append(Held, r) PROVE FALSE
        <5>1. Held \in Seq(Names)
          BY <2>3, <2>4, PrefixProperties
        <5>2. Len(Held') = Len(Held) + 1
          BY <4>2, <5>1, AppendProperties
        <5> QED
          BY <2>6, <2>11, <5>2
      <4> QED
        BY <2>8, <4>1, <4>2 DEF StacksUp, Resource!IsStrictPrefix, Resource!IsPrefix
    <3>2. Lost \subseteq Lost'
      BY <2>1 DEF Moves
    <3>3. Lost' \ Lost \subseteq
            {"lib", "ctx", "callbacks"}
              \cap (Resource!ToSet(Held) \ Resource!ToSet(Held'))
      <4>1. Lost' \subseteq {"lib", "ctx", "callbacks"}
        BY DEF Lost
      <4>2. /\ "lib" \in Lost' => ~(lib' /\ step' # "return")
            /\ "ctx" \in Lost' => ~(ctx' = "live" /\ step' # "return")
            /\ "callbacks" \in Lost' => ~(hooked' /\ sockmem' = "live")
        BY DEF Lost
      <4> QED
        BY <2>1, <2>2, <4>1, <4>2 DEF Moves
    <3> QED
      BY <3>1, <3>2, <3>3 DEF Resource!Next, Resource!Release
  <2> QED
    BY <2>6, <2>9, <2>10, <2>11
<1>5. TlsInv /\ TypeOK => hooked \in BOOLEAN
  BY DEF TypeOK
<1> QED
  BY <1>1, <1>4, <1>5, TlsMainInvariant, TlsBufferInvariant, TlsInvariant,
     BeforeConnectInvariant, PTL DEF TlsSpec, ResourcesNest, Resource!Spec
=============================================================================
