------------------------------- MODULE StackHeap -------------------------------
(***************************************************************************)
(* src/stackheap.c, which measures and stresses the memory of the board,   *)
(* in the RAM that memmap_custom.ld lays out: the image, the heap that     *)
(* grows up from its end, and the stack that grows down from the top of    *)
(* RAM.  Addresses and sizes are bytes from the origin of RAM.             *)
(***************************************************************************)
EXTENDS Integers, Sequences, FiniteSetsExt

CONSTANTS
  RAM,         \* length of RAM
  STACK_SIZE,  \* size of the .stack_dummy section (PICO_STACK_SIZE)
  HEAP_SIZE,   \* size of the .heap section, the least heap there is
  Images,      \* ends of the images to check (__end__)
  KeySizes,    \* heap the RSA key and generator may keep
  RSA_STACK,   \* stack simulate_rsa_memory_usage takes, wolfCrypt included
  FRAME        \* stack one level of recursive_stack_test takes

\* The symbols of memmap_custom.ld.
HeapLimit   == RAM - 8192
StackLimit  == RAM
StackTop    == RAM

\* The linker refuses an image that leaves no room for the sections of heap
\* and stack; its ASSERT(__StackLimit >= __HeapLimit) refuses nothing.
Links(end) == end + HEAP_SIZE + STACK_SIZE <= RAM /\ StackLimit >= HeapLimit

VARIABLES
  image,  \* __end__, where the heap starts
  limit,  \* where the allocator stops: HeapLimit, or StackLimit in older SDKs
  step,   \* where main() is
  i,      \* index into the sizes of memory_stress_test
  block,  \* bytes of the block allocated for a test
  key,    \* bytes the RSA key keeps
  top,    \* the end of the heap, which never shrinks
  depth,  \* levels of recursive_stack_test
  sp      \* the stack pointer

vars == <<image, limit, step, i, block, key, top, depth, sp>>

Sizes     == <<1024, 2048, 4096, 8192, 16384, 32768, 65536>>
MAX_DEPTH == 5
MainFrame == 2048   \* big_array

Init ==
  /\ image \in {e \in Images : Links(e)}
  /\ limit \in {HeapLimit, StackLimit}
  /\ step = "check" /\ i = 1 /\ block = 0 /\ key = 0 /\ top = image
  /\ depth = 0 /\ sp = StackTop - MainFrame

\* Room for n more bytes, and the top of the heap with them.
Fits(n)  == image + block + key + n <= limit
Grown(n) == Max({top, image + block + key + n})

\* check_heap_usage: 16 bytes are allocated and freed, if they can be.  When
\* memory is out malloc returns NULL, or panics as the SDK's does by default.
CheckHeap(from, to) ==
  /\ step = from
  /\ IF Fits(16) THEN step' = to /\ top' = Grown(16)
                 ELSE step' \in {to, "panic"} /\ top' = top
  /\ UNCHANGED <<image, limit, i, block, key, depth, sp>>

\* memory_stress_test: each size is allocated, filled and freed, until one fails.
StressAlloc ==
  /\ step = "stress" /\ block = 0 /\ i <= Len(Sizes)
  /\ IF Fits(Sizes[i])
     THEN block' = Sizes[i] /\ top' = Grown(Sizes[i]) /\ step' = step
     ELSE UNCHANGED <<block, top>> /\ step' \in {"rsa", "panic"}
  /\ UNCHANGED <<image, limit, i, key, depth, sp>>

\* Faulty variant: the block is not freed.
StressForget ==
  /\ step = "stress" /\ block > 0
  /\ key' = key + block /\ block' = 0 /\ i' = i + 1
  /\ UNCHANGED <<image, limit, step, top, depth, sp>>

StressFree ==
  /\ step = "stress" /\ block > 0
  /\ block' = 0 /\ i' = i + 1
  /\ UNCHANGED <<image, limit, step, key, top, depth, sp>>

StressEnds ==
  /\ step = "stress" /\ block = 0 /\ i > Len(Sizes)
  /\ step' = "rsa"
  /\ UNCHANGED <<image, limit, i, block, key, top, depth, sp>>

\* simulate_rsa_memory_usage: the key is made, or not, and never freed.
MakeRsaKey ==
  /\ step = "rsa"
  /\ \E n \in {0} \cup {k \in KeySizes : Fits(k)} : key' = key + n /\ top' = Grown(n)
  /\ sp' = sp - RSA_STACK /\ step' = "rsaEnds"
  /\ UNCHANGED <<image, limit, i, block, depth>>

RsaReturns ==
  /\ step = "rsaEnds"
  /\ sp' = sp + RSA_STACK /\ step' = "recurse"
  /\ UNCHANGED <<image, limit, i, block, key, top, depth>>

\* Faulty variant: the depth is not compared.
RecurseAlways ==
  /\ step = "recurse"
  /\ depth' = depth + 1 /\ sp' = sp - FRAME /\ step' = step
  /\ UNCHANGED <<image, limit, i, block, key, top>>

\* recursive_stack_test(1, MAX_DEPTH) calls itself, then unwinds.
Recurse ==
  /\ step = "recurse"
  /\ depth' = depth + 1 /\ sp' = sp - FRAME
  /\ step' = IF depth' < MAX_DEPTH THEN step ELSE "unwind"
  /\ UNCHANGED <<image, limit, i, block, key, top>>

Unwind ==
  /\ step = "unwind"
  /\ depth' = depth - 1 /\ sp' = sp + FRAME
  /\ step' = IF depth' = 0 THEN "recheck" ELSE step
  /\ UNCHANGED <<image, limit, i, block, key, top>>

\* main() ends in an idle loop.
Next ==
  \/ CheckHeap("check", "stress") \/ StressAlloc \/ StressFree \/ StressEnds
  \/ MakeRsaKey \/ RsaReturns \/ Recurse \/ Unwind
  \/ CheckHeap("recheck", "idle")

-----------------------------------------------------------------------------
(* Properties.                                                             *)

Steps == {"check", "stress", "rsa", "rsaEnds", "recurse", "unwind", "recheck",
          "idle", "panic"}

TypeOK ==
  /\ image \in Images /\ limit \in {HeapLimit, StackLimit} /\ step \in Steps
  /\ i \in 1 .. Len(Sizes) + 1 /\ block \in {0} \cup {Sizes[n] : n \in 1 .. Len(Sizes)}
  /\ depth \in 0 .. MAX_DEPTH

\* How far heap and stack can come towards each other, for every image the
\* linker accepts: the heap to the end of the image and the largest demand
\* made of it, never past the allocator's limit, and the stack to the frames
\* of main, of the RSA calls, or of MAX_DEPTH levels of recursion.  Nothing
\* in the layout keeps the two apart: the limit lies inside the stack section
\* or at its top, and an image may end anywhere below the section.
LargestDemand == Max({Sizes[Len(Sizes)]} \cup {k + 16 : k \in KeySizes})

HeapAndStackBounded ==
  /\ top <= image + LargestDemand
  /\ top = image \/ top <= limit
  /\ StackTop - MainFrame - sp \in {RSA_STACK} \cup {d * FRAME : d \in 0 .. MAX_DEPTH}

\* At the end everything is given back but what the key holds: neither the
\* stress test nor a failed allocation leaves a block or a frame behind.
OnlyKeyIsKept ==
  step = "idle" => block = 0 /\ key \in {0} \cup KeySizes /\ sp = StackTop - MainFrame
=============================================================================
