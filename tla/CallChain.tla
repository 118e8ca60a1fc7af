------------------------------- MODULE CallChain -------------------------------
(***************************************************************************)
(* The straight-line programs: src/rsa.c, src/rsaKeydis_benchmark.c,       *)
(* src/blink.c, src/ecc.c and src/test_main.c.  Each makes its calls one   *)
(* after the other, prints their results at most, and goes on whatever     *)
(* they are; what is checked, if anything, is checked at the end.          *)
(*                                                                         *)
(* A program is its list of calls.  A call uses structs that an earlier    *)
(* call has to have initialised (on a raw struct it may fault or do        *)
(* anything else), needs data that an earlier call has to have produced    *)
(* (without it wolfCrypt returns an error), and makes what it makes when   *)
(* it succeeds.                                                            *)
(***************************************************************************)
EXTENDS Integers, Sequences, FiniteSets

CONSTANT WORD   \* 2^32: RSA's results are kept in a word32

VARIABLES
  program,       \* which of the programs runs
  at,            \* the number of the call it is about to make
  made,          \* the structs initialised and the data produced
  failed,        \* history: the calls that returned an error
  decryptedLen,  \* the result of the decryption, in rsa.c
  printed,       \* what the program printed of its outcome
  status         \* "running", an exit status, or "fault"

vars == <<program, at, made, failed, decryptedLen, printed, status>>

Call(name, uses, needs, makes) ==
  [name |-> name, uses |-> uses, needs |-> needs, makes |-> makes]

InitRng    == Call("wc_InitRng", {}, {}, {"rng"})
InitRsaKey == Call("wc_InitRsaKey", {}, {}, {"key"})
MakeRsaKey == Call("wc_MakeRsaKey", {"key", "rng"}, {}, {"public", "private"})
Encrypt    == Call("wc_RsaPublicEncrypt", {"key", "rng"}, {"public"}, {"ciphertext"})
Decrypt    == Call("wc_RsaPrivateDecrypt", {"key"}, {"private", "ciphertext"}, {"plain"})

Rsa == <<InitRsaKey, InitRng,
         Call("wc_RsaSetRNG", {"key", "rng"}, {}, {}),
         MakeRsaKey,
         Call("wc_RsaKeyToPublicDer", {"key"}, {"public"}, {"der"}),
         Encrypt, Decrypt>>

\* Faulty variant: the key is made before it is initialised.
RsaKeydisMakeFirst == <<InitRng, MakeRsaKey, InitRsaKey, Encrypt, Decrypt>>

RsaKeydis == <<InitRng, InitRsaKey, MakeRsaKey,
               Call("wc_RNG_GenerateBlock", {"rng"}, {}, {"aesKey"}),
               Encrypt, Decrypt>>

\* The key is decoded from pub_raw, which holds the public half alone.
Blink == <<InitRng, InitRsaKey,
           Call("wc_RsaPublicKeyDecode", {"key"}, {}, {"public"}),
           Encrypt, Decrypt>>

Ecc == <<InitRng,
         Call("wc_ecc_init", {}, {}, {"eccPriv"}),
         Call("wc_ecc_init", {}, {}, {"eccPeer"}),
         Call("wc_ecc_make_key", {"rng", "eccPriv"}, {}, {"private"}),
         Call("wc_ecc_export_x963", {"eccPriv"}, {"private"}, {"pubBuf"}),
         Call("wc_ecc_import_x963", {"eccPeer"}, {"pubBuf"}, {"public"}),
         Call("wc_ecc_shared_secret", {"eccPriv", "eccPeer"},
              {"private", "public"}, {"secret"})>>

TestMain == <<Call("wolfcrypt_test", {}, {}, {"passed"})>>

Chain == [rsa |-> Rsa, rsaKeydis_benchmark |-> RsaKeydis, blink |-> Blink,
          ecc |-> Ecc, test_main |-> TestMain]

\* Faulty variant: ecc forgets the peer's key.
FreesNoPeer == [rsa |-> {}, rsaKeydis_benchmark |-> {}, blink |-> {"key", "rng"},
                ecc |-> {"eccPriv", "rng"}, test_main |-> {}]

\* What the program frees before it returns.
Frees == [rsa |-> {}, rsaKeydis_benchmark |-> {}, blink |-> {"key", "rng"},
          ecc |-> {"eccPriv", "eccPeer", "rng"}, test_main |-> {}]

Init ==
  /\ program \in DOMAIN Chain
  /\ at = 1 /\ made = {} /\ failed = {} /\ decryptedLen = 0
  /\ printed = "nothing" /\ status = "running"

Outcomes(call) ==
  (IF call.uses \subseteq made THEN {} ELSE {"fault"})
    \cup (IF call.needs \subseteq made THEN {"ok", "error"} ELSE {"error"})

\* A result in a word32: a length, or a negative code that wraps round.
Word(r) == IF r = "ok" THEN 1 ELSE WORD - 1

NextCall ==
  /\ status = "running" /\ at <= Len(Chain[program])
  /\ LET call == Chain[program][at]
     IN  \E r \in Outcomes(call) :
           /\ made' = IF r = "ok" THEN made \cup call.makes ELSE made
           /\ failed' = IF r = "error" THEN failed \cup {call.name} ELSE failed
           /\ decryptedLen' = IF call = Decrypt THEN Word(r) ELSE decryptedLen
           /\ status' = IF r = "fault" THEN "fault" ELSE status
  /\ at' = at + 1
  /\ UNCHANGED <<program, printed>>

\* Faulty variant: the comparison with the plaintext is left out.
RsaPrintsOnLength == IF decryptedLen > 0 THEN "SUCCESS" ELSE "FAILED"

\* "decryptedLen > 0 && memcmp(plain, decrypted, ...) == 0", the second with
\* stack garbage, taken to differ from the plaintext, if nothing was decrypted.
RsaPrints == IF decryptedLen > 0 /\ "plain" \in made THEN "SUCCESS" ELSE "FAILED"

\* ecc and blink print their output buffer, garbage unless a call filled it.
Prints ==
  CASE program = "rsa"   -> RsaPrints
    [] program = "ecc"   -> IF "secret" \in made THEN "secret" ELSE "garbage"
    [] program = "blink" -> IF "plain" \in made THEN "plain" ELSE "garbage"
    [] OTHER             -> "nothing"

\* The outcome is printed and the structs freed, raw ones at the risk of a
\* fault; test_main returns what the test suite returned.
Finish ==
  /\ status = "running" /\ at = Len(Chain[program]) + 1
  /\ printed' = Prints
  /\ made' = made \ Frees[program]
  /\ status' \in
       {IF program = "test_main" /\ "passed" \notin made THEN "1" ELSE "0"}
         \cup (IF Frees[program] \subseteq made THEN {} ELSE {"fault"})
  /\ UNCHANGED <<program, at, failed, decryptedLen>>

Next == NextCall \/ Finish

-----------------------------------------------------------------------------
(* Properties.                                                             *)

TypeOK ==
  /\ program \in DOMAIN Chain /\ at \in 1 .. Len(Chain[program]) + 1
  /\ decryptedLen \in {0, 1, WORD - 1}
  /\ printed \in {"nothing", "SUCCESS", "FAILED", "secret", "plain", "garbage"}
  /\ status \in {"running", "0", "1", "fault"}

\* rsa.c prints SUCCESS for a round trip with a key that was made and a
\* plaintext that was encrypted, and for nothing else, although no result on
\* the way is tested and "decryptedLen > 0" is true of every error code.
SuccessIsRoundTrip ==
  program = "rsa" /\ printed # "nothing" =>
    (printed = "SUCCESS" <=> {"public", "private", "ciphertext", "plain"} \subseteq made)

\* blink.c and ecc.c end with every struct freed; rsa.c and
\* rsaKeydis_benchmark.c free nothing, so that each of their structs is left
\* whose initialisation did not fail.
KeptAtEnd ==
  status \in {"0", "1"} =>
    /\ program \in {"blink", "ecc"} => made \cap {"key", "rng", "eccPriv", "eccPeer"} = {}
    /\ program \in {"rsa", "rsaKeydis_benchmark"} =>
         /\ "key" \in made <=> "wc_InitRsaKey" \notin failed
         /\ "rng" \in made <=> "wc_InitRng" \notin failed

\* blink.c says "Print decrypted message": once there is a ciphertext, what
\* it prints should be the message.
PrintsMessage ==
  program = "blink" /\ printed # "nothing" /\ "ciphertext" \in made => printed = "plain"

\* A struct is used raw, at the risk of a fault, only after the call that
\* should have initialised it failed: each program initialises what it uses,
\* and frees what it initialised, in that order.
FaultNeedsFailedInit ==
  status = "fault" => failed \cap {"wc_InitRng", "wc_InitRsaKey", "wc_ecc_init"} # {}
=============================================================================
