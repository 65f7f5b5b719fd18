------------------------------ MODULE MCLocal ------------------------------
(***************************************************************************)
(* What a peer does without the others, side by side: in every behaviour   *)
(* one of these parts runs and the rest stay where they are.               *)
(***************************************************************************)
EXTENDS MCCheckMajority, MCCrc, HashCash, TransactionReader, Inbox

CONSTANT TraceLines     \* the lines of the longest trace

Parts == {"checkMajority", "checksum", "proof of work", "reader", "inbox"}

VARIABLE part

SmallTraces == UNION {[1..n -> Line] : n \in 0..TraceLines}

NoCall == [i |-> 0, n_peers |-> 1, no_block |-> 0, messages |-> <<>>]

LocalInit ==
    /\ part \in Parts
    /\ IF part = "checkMajority" THEN Init
       ELSE /\ call = NoCall /\ largest = 0 /\ second_largest = 0
            /\ largest_block = 0 /\ it = 1 /\ pc = "start"
    /\ IF part = "checksum" THEN CrcInit
       ELSE /\ data = <<>> /\ crc = <<>> /\ flipped = FALSE /\ stage = "new"
            /\ bits = <<>> /\ at = 1
    /\ IF part = "proof of work" THEN PowInit
       ELSE /\ difficulty = 1 /\ key = <<0>> /\ tried = {} /\ tries = 0
            /\ hash = <<>> /\ zeroes = 0 /\ mask = {} /\ solving = "search"
    /\ IF part = "reader" THEN ReaderInit
       ELSE /\ trace = <<>> /\ text = <<>> /\ eof = FALSE /\ zero = TRUE
            /\ i = 0 /\ vec = 0 /\ reading = "file"
    /\ InboxInit

LocalNext ==
    /\ \/ part = "checkMajority" /\ Next
       \/ part # "checkMajority" /\ UNCHANGED vars
    /\ \/ part = "checksum" /\ CrcNext
       \/ part # "checksum" /\ UNCHANGED crcVars
    /\ \/ part = "proof of work" /\ PowNext
       \/ part # "proof of work" /\ UNCHANGED powVars
    /\ \/ part = "reader" /\ ReaderNext
       \/ part # "reader" /\ UNCHANGED readerVars
    /\ \/ part = "inbox" /\ InboxNext
       \/ part # "inbox" /\ UNCHANGED inboxVars
    /\ UNCHANGED part

LocalSpec == LocalInit /\ [][LocalNext]_<<part, vars, crcVars, powVars,
                                          readerVars, inboxVars>>
=============================================================================
