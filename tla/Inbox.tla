------------------------------- MODULE Inbox -------------------------------
(***************************************************************************)
(* The buffers of received messages: receive allocates one, inbox_thread   *)
(* puts the pointer into the inbox, the main thread takes it out, and      *)
(* either frees the buffer or puts the pointer back behind the inbox.      *)
(***************************************************************************)
EXTENDS Integers, Sequences, FiniteSets, Functions

CONSTANTS
    Buffers,        \* the addresses that malloc returns
    NoBuffer,       \* NULL
    Garbage,        \* the value of msg before the first call of receive
    MaxQueued       \* bound: the pointers in the inbox

ASSUME BuffersAssumption ==
    IsFiniteSet(Buffers) /\ NoBuffer \notin Buffers /\ Garbage \notin Buffers
ASSUME MaxQueuedAssumption == MaxQueued \in Nat

VARIABLES
    msg,            \* msg of inbox_thread
    receiving,      \* inbox_thread is about to call receive
    allocated,      \* the buffers that are not free
    queued,         \* the inbox
    taken,          \* the pointers that the main thread works with
    skipped         \* history: the checksum of a header was wrong

inboxVars == <<msg, receiving, allocated, queued, taken, skipped>>

InboxInit ==
    /\ msg = Garbage /\ receiving = TRUE
    /\ allocated = {} /\ queued = <<>> /\ taken = {}
    /\ skipped = FALSE

\* receive gets a message for peers, both checksums right.
ReceiveMessage ==
    /\ receiving /\ Len(queued) < MaxQueued
    /\ \E b \in Buffers \ allocated :
         msg' = b /\ allocated' = allocated \cup {b}
    /\ receiving' = FALSE
    /\ UNCHANGED <<queued, taken, skipped>>

\* Mutant: *message is not cleared.
KeepMessage ==
    /\ receiving /\ Len(queued) < MaxQueued
    /\ receiving' = FALSE
    /\ UNCHANGED <<msg, allocated, queued, taken, skipped>>

\* There is no message, the checksum of the data is wrong, or the message is
\* not for peers.
ReceiveNothing ==
    /\ receiving /\ Len(queued) < MaxQueued
    /\ msg' = NoBuffer
    /\ receiving' = FALSE
    /\ UNCHANGED <<allocated, queued, taken, skipped>>

\* The checksum of the header is wrong: *message keeps its value.
SkipMessage ==
    /\ receiving /\ Len(queued) < MaxQueued
    /\ receiving' = FALSE
    /\ skipped' = TRUE
    /\ UNCHANGED <<msg, allocated, queued, taken>>

InboxPush ==
    /\ ~receiving
    /\ queued' = IF msg # NoBuffer THEN Append(queued, msg) ELSE queued
    /\ receiving' = TRUE
    /\ UNCHANGED <<msg, allocated, taken, skipped>>

\* A loop of the main thread takes the first message.  To read a buffer that
\* is free is undefined, and the model stops there.
InboxTake ==
    /\ queued # <<>> /\ Head(queued) \in allocated
    /\ taken' = taken \cup {Head(queued)}
    /\ queued' = Tail(queued)
    /\ UNCHANGED <<msg, receiving, allocated, skipped>>

InboxFree(b) ==
    /\ b \in taken
    /\ taken' = taken \ {b}
    /\ allocated' = allocated \ {b}
    /\ UNCHANGED <<msg, receiving, queued, skipped>>

\* place_back, or a request that is to be handled later.
InboxPutBack(b) ==
    /\ b \in taken
    /\ taken' = taken \ {b}
    /\ queued' = Append(queued, b)
    /\ UNCHANGED <<msg, receiving, allocated, skipped>>

InboxNext ==
    \/ ReceiveMessage \/ ReceiveNothing \/ SkipMessage \/ InboxPush
    \/ InboxTake
    \/ \E b \in Buffers : InboxFree(b) \/ InboxPutBack(b)
InboxSpec == InboxInit /\ [][InboxNext]_inboxVars

----------------------------------------------------------------------------
(* Properties *)

\* What inbox_thread hands over is a buffer that holds a message, each once,
\* so that the main thread neither reads nor frees one that is free already.
Owned ==
    /\ Range(queued) \cup taken \subseteq allocated
    /\ \A i, j \in DOMAIN queued : queued[i] = queued[j] => i = j
    /\ taken \cap Range(queued) = {}

\* Messages that are received, put back and freed by two threads, and messages
\* with wrong data (peer.c:92-112, application.cc:130-143) keep it so, as long
\* as no header is wrong.
OwnedUnlessSkipped == ~skipped => Owned

----------------------------------------------------------------------------
(* What a comment of the source says, and the code does not do *)

\* peer.c:105 "Skip the message": a message with a wrong header is dropped, and
\* what inbox_thread hands over is still a message that was received.
OwnedAlways == Owned
=============================================================================
