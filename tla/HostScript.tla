------------------------------ MODULE HostScript ------------------------------
(***************************************************************************)
(* host.py, the PC's side of a key exchange over the serial line: it sends *)
(* its public RSA key and reads a length of two bytes and a ciphertext of  *)
(* that length.  A serial read returns what has come when its timeout      *)
(* expires, and the script looks at the length of neither result.          *)
(*                                                                         *)
(* The board's side is not in the repository: it answers a key with a      *)
(* length and as many bytes, at any pace, and may stop at any point.       *)
(***************************************************************************)
EXTENDS Integers, Sequences

CONSTANTS
  BASE,       \* 256, the values of a byte
  CipherLen   \* length of the ciphertext (256 for a 2048-bit key)

VARIABLES
  stage,     \* "length", "cipher", and "key" or "error" at the end
  line,      \* bytes that have arrived and were not read
  coming,    \* bytes the board has still to send
  enc_len,   \* what the first read was taken to say
  timeouts   \* history: reads that returned short

vars == <<stage, line, coming, enc_len, timeouts>>

\* Bytes of the ciphertext are numbers no byte of the length is.
Cipher == [n \in 1 .. CipherLen |-> BASE + n]

Init ==
  /\ stage = "length" /\ line = << >> /\ enc_len = 0 /\ timeouts = 0
  /\ coming = <<CipherLen \div BASE, CipherLen % BASE>> \o Cipher

Arrives ==
  /\ coming # << >>
  /\ line' = Append(line, Head(coming)) /\ coming' = Tail(coming)
  /\ UNCHANGED <<stage, enc_len, timeouts>>

\* Faulty variant: the bytes in the other order.
FromBytesLittle(bytes) ==
  CASE Len(bytes) = 0 -> 0
    [] Len(bytes) = 1 -> bytes[1]
    [] OTHER          -> bytes[1] + BASE * bytes[2]

\* int.from_bytes(enc_len_bytes, "big"), also of one byte or of none.
FromBytes(bytes) ==
  CASE Len(bytes) = 0 -> 0
    [] Len(bytes) = 1 -> bytes[1]
    [] OTHER          -> BASE * bytes[1] + bytes[2]

\* ser.read(n): the n bytes, or after the timeout those there are.
SerialRead(n) ==
  /\ \/ Len(line) >= n /\ timeouts' = timeouts
     \/ Len(line) < n /\ timeouts' = timeouts + 1
  /\ line' = SubSeq(line, n + 1, Len(line))
  /\ UNCHANGED coming

Taken(n) == SubSeq(line, 1, IF n <= Len(line) THEN n ELSE Len(line))

ReadLength ==
  /\ stage = "length"
  /\ SerialRead(2)
  /\ enc_len' = FromBytes(Taken(2)) /\ stage' = "cipher"

\* PKCS1_OAEP decrypts the ciphertext it was sent and raises on all else.
ReadCipher ==
  /\ stage = "cipher"
  /\ SerialRead(enc_len)
  /\ stage' = IF Taken(enc_len) = Cipher THEN "key" ELSE "error"
  /\ UNCHANGED enc_len

Next == Arrives \/ ReadLength \/ ReadCipher

-----------------------------------------------------------------------------
(* Properties.                                                             *)

TypeOK ==
  /\ stage \in {"length", "cipher", "key", "error"}
  /\ Len(line) + Len(coming) <= CipherLen + 2 /\ timeouts \in 0 .. 2

\* The script prints the board's key if neither read timed out, and raises
\* an error otherwise: half a length, whose other half is then taken for
\* ciphertext, never leads to a key.
KeyNeedsBothReads == /\ stage = "key" => timeouts = 0
                     /\ stage = "error" => timeouts > 0
=============================================================================
