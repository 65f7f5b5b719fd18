------------------------- MODULE TransactionReader -------------------------
(***************************************************************************)
(* ReadFile: a trace is read into batches of at most N transactions.  A    *)
(* line of the trace is the number of digits of its sender and receiver;   *)
(* what is left of the file is the lengths of its tokens.  ID_TYPE is      *)
(* char, so that reading an id takes one character of a token; reading an  *)
(* amount takes the rest of one.  Every line ends with a newline, as       *)
(* transaction_generator.py:49 writes it.                                  *)
(***************************************************************************)
EXTENDS Integers, Sequences

CONSTANTS
    BatchSize,      \* N, MAX_TRANSACTIONS
    Traces,         \* the trace files
    AmountLength    \* the characters of an amount

ASSUME BatchSizeAssumption == BatchSize \in Nat \ {0}
ASSUME AmountLengthAssumption == AmountLength \in Nat /\ AmountLength > 2

Line == [sender: {1, 2}, receiver: {1, 2}]
ASSUME TracesAssumption == Traces \subseteq Seq(Line)

VARIABLES
    trace,
    text,           \* the tokens not yet read
    eof,
    zero,           \* whether sender, receiver and amount are all zero
    i,              \* the index in the batch
    vec,            \* the number of batches
    reading         \* "file", "batch" or "done"

readerVars == <<trace, text, eof, zero, i, vec, reading>>

\* Three tokens of every line.
Tokens(t) ==
    [k \in 1..(3 * Len(t)) |->
        LET line == t[((k - 1) \div 3) + 1]
        IN  <<line.sender, line.receiver, AmountLength>>[((k - 1) % 3) + 1]]

\* The three variables are not initialised.
ReaderInit ==
    /\ trace \in Traces
    /\ text = Tokens(trace)
    /\ eof = FALSE /\ zero \in BOOLEAN /\ i = 0 /\ vec = 0
    /\ reading = "file"

\* One character of the first token.
ReadId(s) ==
    IF s = <<>> THEN s
    ELSE IF s[1] > 1 THEN [s EXCEPT ![1] = @ - 1] ELSE Tail(s)

\* All that is left of the first token.
ReadAmount(s) == IF s = <<>> THEN s ELSE Tail(s)

StartBatch ==
    /\ reading = "file"
    /\ reading' = IF eof THEN "done" ELSE "batch"
    /\ i' = 0
    /\ UNCHANGED <<trace, text, eof, zero, vec>>

\* A transaction is read: ids of up to two digits never leave less than one
\* in a file, since an amount has more.  The assignments that should store it
\* go the other way and clear the variables.
ReadTransaction ==
    /\ reading = "batch" /\ i < BatchSize /\ ~eof /\ text # <<>>
    /\ text' = ReadAmount(ReadId(ReadId(text)))
    /\ zero' = TRUE
    /\ i' = i + 1
    /\ UNCHANGED <<trace, eof, vec, reading>>

\* Mutant: the end of the file counts as a transaction.
ReadEndAsTransaction ==
    /\ reading = "batch" /\ i < BatchSize /\ ~eof /\ text = <<>>
    /\ eof' = TRUE
    /\ i' = i + 1
    /\ UNCHANGED <<trace, text, zero, vec, reading>>

\* Nothing but white space is left: the variables keep their values.  If they
\* are zero, i is decremented, possibly to the largest unsigned number, and
\* incremented again.
ReadEnd ==
    /\ reading = "batch" /\ i < BatchSize /\ ~eof /\ text = <<>>
    /\ eof' = TRUE
    /\ IF zero THEN UNCHANGED <<i, zero>> ELSE i' = i + 1 /\ zero' = TRUE
    /\ UNCHANGED <<trace, text, vec, reading>>

EndBatch ==
    /\ reading = "batch" /\ (i >= BatchSize \/ eof)
    /\ vec' = IF i # 0 THEN vec + 1 ELSE vec
    /\ reading' = "file"
    /\ UNCHANGED <<trace, text, eof, zero, i>>

ReaderNext == StartBatch \/ ReadTransaction \/ ReadEnd \/ EndBatch
ReaderSpec == ReaderInit /\ [][ReaderNext]_readerVars

----------------------------------------------------------------------------
(* Properties *)

\* The tokens of the lines after line l.
Rest(l) == [k \in 1..(3 * (Len(trace) - l)) |-> Tokens(trace)[3 * l + k]]

OneDigit ==
    \A l \in DOMAIN trace : trace[l].sender = 1 /\ trace[l].receiver = 1

\* Every line that transaction_generator.py:49 wrote counts once, in the order
\* of the file, and the lines fill the batches up to the last, which is not
\* empty, also when the file ends with a full batch and the end is found by
\* another read (transaction_reader.h:42-66).  Only for a trace that is not
\* empty and whose ids have one digit: reading a longer id takes one character
\* of it (48).  It counts transactions and says nothing of their values, which
\* the batches do not hold (54-56).
BatchesFilled ==
    trace # <<>> /\ OneDigit =>
        /\ reading = "batch" => text = Rest(vec * BatchSize + i)
        /\ reading = "done" =>
               (vec - 1) * BatchSize < Len(trace) /\ Len(trace) <= vec * BatchSize
=============================================================================
