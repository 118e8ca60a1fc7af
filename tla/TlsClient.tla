------------------------------- MODULE TlsClient -------------------------------
(***************************************************************************)
(* src/tlsClient_main.c: main() and tlsClient_test(), the life cycles of   *)
(* the wolfSSL library, context and session around the socket of           *)
(* TcpSocket, the I/O callbacks that lead from wolfSSL to the socket, and  *)
(* the shutdown of the Wi-Fi chip with whatever the test left behind.      *)
(***************************************************************************)
EXTENDS TcpSocket, ClientMain

VARIABLES
  step,        \* where tlsClient_test is
  lib,         \* wolfSSL_Init without its wolfSSL_Cleanup
  ctx,         \* the context: not made, made, or freed
  ssl,         \* whether the session is allocated
  sockptr      \* the local variable sock, which has no initialiser

tlsVars  == <<step, lib, ctx, ssl, sockptr>>
allVars  == <<vars, mainVars, tlsVars>>

TlsInit ==
  /\ Init /\ MainInit
  /\ step = "init" /\ lib = FALSE /\ ctx = "NULL" /\ ssl = FALSE
  /\ sockptr = "garbage"

InTest(s) == at = "test" /\ step = s /\ UNCHANGED mainVars

-----------------------------------------------------------------------------
(* tlsClient_test.                                                         *)

LibInit ==
  /\ InTest("init")
  /\ lib' = TRUE /\ step' = "ctx"
  /\ UNCHANGED <<vars, ctx, ssl, sockptr>>

\* No context: the function returns without wolfSSL_Cleanup.
NewContext ==
  /\ InTest("ctx")
  /\ \/ ctx' = "live" /\ step' = "ca"
     \/ ctx' = ctx /\ step' = "return"
  /\ UNCHANGED <<vars, lib, ssl, sockptr>>

\* Faulty variant: a certificate that does not load returns at once.
LoadCAReturns ==
  /\ InTest("ca")
  /\ step' \in {"socket", "return"}
  /\ UNCHANGED <<vars, lib, ctx, ssl, sockptr>>

LoadCA ==
  /\ InTest("ca")
  /\ step' \in {"socket", "freeSsl"}
  /\ UNCHANGED <<vars, lib, ctx, ssl, sockptr>>

\* No socket: the function returns without freeing the context.
NewSocket ==
  /\ InTest("socket")
  /\ Socket
  /\ IF pc' = "done"
     THEN sockptr' = "NULL" /\ step' = "return"
     ELSE sockptr' = "sock" /\ step' = "address"
  /\ UNCHANGED <<lib, ctx, ssl>>

ServerAddress ==
  /\ InTest("address")
  /\ step' \in {"connect", "freeSsl"}
  /\ UNCHANGED <<vars, lib, ctx, ssl, sockptr>>

ConnectServer == InTest("connect") /\ Connect /\ UNCHANGED tlsVars

\* Faulty variant: the result of connect is ignored.
ConnectedAnyway ==
  /\ InTest("connect") /\ pc = "ready"
  /\ step' = "session"
  /\ UNCHANGED <<vars, lib, ctx, ssl, sockptr>>

Connected ==
  /\ InTest("connect") /\ pc = "ready"
  /\ step' = IF connRet = "WOLF_SUCCESS" THEN "session" ELSE "freeSsl"
  /\ UNCHANGED <<vars, lib, ctx, ssl, sockptr>>

\* wolfSSL_new, which allocates against the context.
NewSession ==
  /\ InTest("session")
  /\ \/ ssl' = TRUE /\ step' = "handshake"
     \/ ssl' = FALSE /\ step' = "freeSsl"
  /\ UNCHANGED <<vars, lib, ctx, sockptr>>

(***************************************************************************)
(* wolfSSL_connect, wolfSSL_write and wolfSSL_read: wolfSSL calls the I/O  *)
(* callbacks as often as it likes and returns a success or a failure.      *)
(***************************************************************************)
Phases == {"handshake", "write", "read"}

AfterPhase(s) ==
  CASE s = "handshake" -> "write" [] s = "write" -> "read" [] OTHER -> "freeSsl"

\* wolf_cb_TCPwrite and wolf_cb_TCPread.
IOCallback ==
  /\ step \in Phases /\ InTest(step)
  /\ Transfer \/ UseStalePcb
  /\ UNCHANGED tlsVars

PhaseReturns ==
  /\ step \in Phases /\ InTest(step) /\ pc = "ready"
  /\ step' \in {AfterPhase(step), "freeSsl"}
  /\ UNCHANGED <<vars, lib, ctx, ssl, sockptr>>

-----------------------------------------------------------------------------
(* exit: ssl, sock, ctx and the library are released, in that order.       *)

\* Faulty variant: the socket is released before the session.
FreeSslAfterSock ==
  /\ InTest("freeSsl")
  /\ sockmem' = IF sockptr = "sock" THEN "freed" ELSE sockmem
  /\ pc' = IF sockptr = "sock" THEN "done" ELSE pc
  /\ step' = "freeSock"
  /\ UNCHANGED <<sockVars, want, lwipVars, histVars, lib, ctx, ssl, sockptr>>

FreeSsl ==
  /\ InTest("freeSsl")
  /\ ssl' = FALSE /\ step' = "freeSock"
  /\ UNCHANGED <<vars, lib, ctx, sockptr>>

\* free(sock): the memory only.  With no CA sock has no value: it may read
\* as NULL, or free gets a pointer that was never allocated.
FreeSock ==
  /\ InTest("freeSock")
  /\ \/ /\ sockptr = "sock"
        /\ sockmem' = "freed" /\ pc' = "done" /\ step' = "freeCtx"
     \/ /\ sockptr = "garbage"
        /\ UNCHANGED sockmem
        /\ \/ pc' = "done" /\ step' = "freeCtx"
           \/ pc' = "fault" /\ step' = step
  /\ UNCHANGED <<sockVars, want, lwipVars, histVars, lib, ctx, ssl, sockptr>>

\* wolfSSL_CTX_free and wolfSSL_Cleanup.
FreeCtx ==
  /\ InTest("freeCtx")
  /\ ctx' = "freed" /\ lib' = FALSE /\ step' = "return"
  /\ UNCHANGED <<vars, ssl, sockptr>>

TlsStep ==
  \/ LibInit \/ NewContext \/ LoadCA \/ NewSocket \/ ServerAddress
  \/ ConnectServer \/ Connected \/ NewSession \/ IOCallback \/ PhaseReturns
  \/ FreeSsl \/ FreeSock \/ FreeCtx

\* The thread waits inside connect or recv; lwIP runs the callbacks.
TlsWaits ==
  /\ pc # "fault" /\ InTest(step)
  /\ Waiting \/ Lwip
  /\ UNCHANGED tlsVars

-----------------------------------------------------------------------------
(* main().  cyw43_arch_deinit removes the network interface: lwIP aborts   *)
(* the connections on it and reports ERR_ABRT to the pcb's err callback,   *)
(* which the test has left registered with a pointer to the freed struct.  *)

InterfaceRemoved ==
  IF hooked /\ Driven
  THEN /\ pcb' = "released" /\ unacked' = 0
       /\ ErrCallback("ERR_ABRT")
       /\ UNCHANGED <<tcp_pcb, buffer, sent_len, run_count, connected,
                      threadVars, hooked, handed, fin, histVars>>
  ELSE UNCHANGED vars

TlsMain ==
  \/ /\ Boot \/ Join \/ Joined \/ (step = "return" /\ TestReturned)
     /\ UNCHANGED <<vars, tlsVars>>
  \/ ArchDeinit /\ InterfaceRemoved /\ UNCHANGED tlsVars

TlsNext == TlsStep \/ TlsWaits \/ TlsMain

TlsSpec == TlsInit /\ [][TlsNext]_allVars

(***************************************************************************)
(* The program runs on its own, wolfSSL's calls make as many I/O calls as  *)
(* the bounds on the streams allow, and lwIP is fair as in TcpSocket.      *)
(***************************************************************************)
TlsFairSpec ==
  /\ TlsSpec
  /\ WF_allVars(TlsStep \/ TlsMain \/ (InTest(step) /\ Waiting /\ UNCHANGED tlsVars))
  /\ SF_allVars(InTest(step) /\ LwipConnected("ERR_OK") /\ UNCHANGED tlsVars)
  /\ SF_allVars(InTest(step) /\ Receives /\ UNCHANGED tlsVars)

-----------------------------------------------------------------------------
(* Properties.                                                             *)

TlsTypeOK ==
  /\ TypeOK
  /\ at \in {"boot", "wifi", "test", "deinit", "exit"}
  /\ step \in {"init", "ctx", "ca", "socket", "address", "connect", "session",
               "freeSsl", "freeSock", "freeCtx", "return"} \cup Phases
  /\ lib \in BOOLEAN /\ ctx \in {"NULL", "live", "freed"} /\ ssl \in BOOLEAN
  /\ sockptr \in {"garbage", "NULL", "sock"}
  /\ arch \in BOOLEAN /\ lock \in 0 .. 1

\* The session has what it points to for as long as it exists: the context
\* it was made from, the socket its I/O contexts name, and the library; and
\* it exists whenever wolfSSL may run the I/O callbacks (order of the frees
\* at exit, and of the gotos that lead there).
SessionIsBacked ==
  /\ ssl => sockmem = "live" /\ ctx = "live" /\ lib
  /\ step \in Phases => ssl
  /\ ctx = "live" => lib

\* wolfSSL gets to the handshake only on a connection that was reported up,
\* and the thread is never inside wolfSSL's I/O without the lwIP lock.
HandshakeNeedsConnect ==
  ssl => connRet = "WOLF_SUCCESS" /\ link /\ lock = 1

\* What tlsClient_test leaves behind when it returns, on each way out: the
\* context when there was no memory for the socket, the library then and when
\* there was none for the context, the pcb and its callbacks whenever connect
\* made one; and after every goto exit nothing else.
LeftBehind ==
  step = "return" =>
    /\ ~ssl /\ sockmem # "live"
    /\ ctx = "live" <=> sockptr = "NULL"
    /\ lib <=> ctx = "NULL" \/ sockptr = "NULL"
    /\ hooked <=> pcb # "none"

\* Nothing is written through the freed socket, although its pcb and the
\* callbacks outlive it: the only callback still to come is the ERR_ABRT of
\* cyw43_arch_deinit, and lwip_cb_client_err ignores that error.
NoWriteAfterFree == [][sockmem = "freed" => UNCHANGED <<sockVars, sockmem>>]_allVars

\* What the program holds, in the order in which it acquires it, with the
\* callbacks connect registers on the pcb; the library and the context are
\* local to tlsClient_test, the callbacks belong to the socket.
Held ==
  (IF arch THEN <<"chip">> ELSE <<>>) \o (IF link THEN <<"link">> ELSE <<>>)
    \o (IF lock > 0 THEN <<"lock">> ELSE <<>>)
    \o (IF lib /\ step # "return" THEN <<"lib">> ELSE <<>>)
    \o (IF ctx = "live" /\ step # "return" THEN <<"ctx">> ELSE <<>>)
    \o (IF sockmem = "live" THEN <<"sock">> ELSE <<>>)
    \o (IF hooked /\ sockmem = "live" THEN <<"callbacks">> ELSE <<>>)
    \o (IF ssl THEN <<"ssl">> ELSE <<>>)

\* What was not given back and is out of reach: with the function's return its
\* local variables are gone, with the struct sock->tcp_pcb is.
Lost ==
  {r \in {"lib", "ctx", "callbacks"} :
     \/ r = "lib" /\ lib /\ step = "return"
     \/ r = "ctx" /\ ctx = "live" /\ step = "return"
     \/ r = "callbacks" /\ hooked /\ sockmem = "freed"}

Resource == INSTANCE Nesting
              WITH held <- Held, lost <- Lost,
                   Losable <- {"lib", "ctx", "callbacks"},
                   Resources <- {"chip", "link", "lock", "lib", "ctx", "sock",
                                 "callbacks", "ssl"}

\* Every path gives back what it acquired from the top.  Three things can get
\* lost on the way, the library, the context and the callbacks on the pcb:
\* LeftBehind says when; chip, link, lock, socket and session never are.
ResourcesNest == Resource!Spec

\* The program ends unless connect or a read inside wolfSSL waits on a
\* connection that will bring nothing more, or a pointer was wild.
Stuck == (ConnectWaits /\ pcb = "released") \/ (ReadWaits /\ PeerSilent) \/ pc = "fault"
TlsTerminates == <>(at = "exit" \/ Stuck)

\* tlsClient_test frees the socket with the comment "Close the connection to
\* the server": the connection should then be closed when the test returns.
TlsClosesConnection == step = "return" => ~(hooked /\ Driven)
=============================================================================
