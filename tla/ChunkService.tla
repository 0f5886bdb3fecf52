---------------------------- MODULE ChunkService ----------------------------
(***************************************************************************)
(* What the chunk storage of a peer promises its clients, without a word   *)
(* of memory, disk, filter or locks: a chunk that has been acknowledged is *)
(* found and served whole by every call that begins later, until the       *)
(* process ends.  Module Storage is shown to implement this.               *)
(***************************************************************************)
CONSTANTS
  Calls,  \* the goroutines that may have a question in progress
  Keys    \* the chunks

VARIABLES
  up,     \* the process is running
  held,   \* the chunks that it has acknowledged
  asked   \* the question of each goroutine, and its answer

vars == <<up, held, asked>>

(* promised: the chunk was acknowledged when the question was asked. *)
NoQuestion == [state |-> "none", promised |-> FALSE]

Init ==
  /\ up = TRUE
  /\ held = {}
  /\ asked = [c \in Calls |-> NoQuestion]

(* UploadFile or ReceiveChunk returns. *)
Acknowledge(S) ==
  /\ up
  /\ held' = held \union S
  /\ UNCHANGED <<up, asked>>

(* HasChunk or DownloadChunk is called. *)
Ask(c, k) ==
  /\ up
  /\ asked[c] = NoQuestion
  /\ asked' = [asked EXCEPT ![c] = [state |-> "open", promised |-> k \in held]]
  /\ UNCHANGED <<up, held>>

(* It may deny a chunk only if that was not promised. *)
Answer(c, a) ==
  /\ up
  /\ asked[c].state = "open"
  /\ asked[c].promised => a = "found"
  /\ asked' = [asked EXCEPT ![c].state = a]
  /\ UNCHANGED <<up, held>>

Done(c) ==
  /\ up
  /\ asked[c].state \in {"found", "denied"}
  /\ asked' = [asked EXCEPT ![c] = NoQuestion]
  /\ UNCHANGED <<up, held>>

(* The process ends, and with it what it has promised. *)
End ==
  /\ up
  /\ up' = FALSE
  /\ held' = {}
  /\ asked' = [c \in Calls |-> NoQuestion]

Start ==
  /\ ~ up
  /\ up' = TRUE
  /\ UNCHANGED <<held, asked>>

Next ==
  \/ \E S \in SUBSET Keys : Acknowledge(S)
  \/ \E c \in Calls :
       \/ \E k \in Keys : Ask(c, k)
       \/ \E a \in {"found", "denied"} : Answer(c, a)
       \/ Done(c)
  \/ End
  \/ Start

Spec == Init /\ [][Next]_vars
=============================================================================
