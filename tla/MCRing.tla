------------------------------- MODULE MCRing -------------------------------
(***************************************************************************)
(* The ring buffer three times, one behaviour each: two threads as built   *)
(* (the constants of this module), two threads as the comments of          *)
(* ringbuf.c promise them, and one caller of every function.               *)
(***************************************************************************)
EXTENDS RingThreads

CONSTANTS ContractBytes, ApiSize, Byte, NoByte

VARIABLES side,
  cells, indices, places, temps, left, taken, stamps, returned, cleared,
  rb, copied

Contract == INSTANCE RingThreads
              WITH buf <- cells, idx <- indices, pc <- places, tmp <- temps, todo <- left,
                   got <- taken, written <- stamps, out <- returned, flushes <- cleared,
                   MaxBytes <- ContractBytes, MaxFlushes <- 0, Flushers <- {},
                   Interruptible <- FALSE, CallerChecks <- TRUE

Api == INSTANCE RingApi WITH out <- copied, Size <- ApiSize

ASSUME ApiAssumption == ApiSize \in Nat /\ ApiSize > 1 /\ NoByte \in Byte

contractVars == <<cells, indices, places, temps, left, taken, stamps, returned, cleared>>
apiVars == <<rb, copied>>

MCInit == side \in {"built", "contract", "api"} /\ Init /\ Contract!Init /\ Api!Init

BuiltNext    == side = "built" /\ Next /\ UNCHANGED <<side, contractVars, apiVars>>
ContractNext == side = "contract" /\ Contract!Next /\ UNCHANGED <<side, vars, apiVars>>
ApiNext      == side = "api" /\ Api!Next /\ UNCHANGED <<side, vars, contractVars>>

MCNext == BuiltNext \/ ContractNext \/ ApiNext

MCSpec == MCInit /\ [][MCNext]_<<side, vars, contractVars, apiVars>>

(* With uninterrupted updates and callers inside their contract the ring   *)
(* is a first-in first-out queue between the two threads (ringbuf.c 113).  *)
ContractFIFO == Contract!FIFO

(* The calls, within their contracts, are those of a bounded FIFO queue,   *)
(* and the queries agree on how much of it there is (ringbuf.c 220-590).   *)
CallsAreQueue == Api!FIFO /\ []Api!QueriesAgree
=============================================================================
