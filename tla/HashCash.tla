------------------------------ MODULE HashCash ------------------------------
(***************************************************************************)
(* The proof of work: SolveProblem tries one key after the other until the *)
(* hash of seed and key starts with enough zeros, which count_zeroes       *)
(* decides bit by bit.  A key is the sequence of its bytes, the first one  *)
(* counting fastest.  The hash of a key that was not tried is arbitrary.   *)
(***************************************************************************)
EXTENDS Integers, Sequences, FiniteSets

CONSTANTS
    Full,           \* the largest value of a byte of a key
    MaxKeySize,     \* the bytes of the longest key
    ByteBits,       \* the bits of a byte of the hash
    HashBytes,      \* the bytes of the hash
    Difficulties    \* the numbers of zeros that may be asked for

HashBits == HashBytes * ByteBits
Hash == [1..HashBits -> {0, 1}]

ASSUME KeysAssumption == Full \in Nat \ {0} /\ MaxKeySize \in Nat \ {0}
ASSUME HashesAssumption ==
    ByteBits \in Nat \ {0} /\ HashBytes \in Nat /\ Difficulties \subseteq 1..HashBits

VARIABLES
    difficulty,
    key,            \* the key last tried
    tried, tries,   \* history: the keys tried, and how many times any was
    hash,           \* the hash of seed and key
    zeroes,         \* the zeros found, and so the index of the next bit
    mask,           \* the bits that mask has set, 0 for the highest
    solving         \* "search", "count", "solved" or "given up"

powVars == <<difficulty, key, tried, tries, hash, zeroes, mask, solving>>

Zeroed(n) == [j \in 1..n |-> 0]

PowInit ==
    /\ difficulty \in Difficulties
    /\ key = Zeroed(1) /\ tried = {} /\ tries = 0
    /\ hash = Zeroed(HashBits) /\ zeroes = 0 /\ mask = {}
    /\ solving = "search"

\* Mutant: the other bytes keep their values.
GrowOnly(k) == IF k[Len(k)] = Full THEN Append(k, 0) ELSE k

\* A byte is added, and all start again from zero, once the last is full.
Grow(k) == IF k[Len(k)] = Full THEN Zeroed(Len(k) + 1) ELSE k

\* The first byte that is not full is incremented, those before it restart.
Increment(k) ==
    [j \in DOMAIN k |-> IF \E i \in 1..(j - 1) : k[i] # Full THEN k[j]
                        ELSE IF k[j] = Full THEN 0 ELSE k[j] + 1]

Exhausted(k) == k[Len(k)] = Full /\ Len(k) = MaxKeySize

Try ==
    /\ solving = "search" /\ ~Exhausted(key)
    /\ key' = Increment(Grow(key))
    /\ tried' = tried \cup {key'} /\ tries' = tries + 1
    /\ hash' \in Hash
    /\ zeroes' = 0 /\ mask' = {}
    /\ solving' = "count"
    /\ UNCHANGED difficulty

\* The last key is returned although it does not solve the problem.
GiveUp ==
    /\ solving = "search" /\ Exhausted(key)
    /\ solving' = "given up"
    /\ UNCHANGED <<difficulty, key, tried, tries, hash, zeroes, mask>>

\* Mutant: one zero too many is asked for.
MoreThanEnough(n) == n > difficulty

Enough(n) == n >= difficulty

\* The mask of the next bit.  It starts anew with every byte; as a signed
\* char it keeps its highest bit when it is shifted to the right.
NextMask ==
    IF zeroes % ByteBits = 0 THEN {0} ELSE {0} \cup {b + 1 : b \in mask}

\* The bits of the byte at hand that the next mask selects.
Masked == {hash[(zeroes \div ByteBits) * ByteBits + b + 1] : b \in NextMask}

CountZero ==
    /\ solving = "count" /\ zeroes < HashBits /\ Masked = {0}
    /\ zeroes' = zeroes + 1
    /\ mask' = NextMask
    /\ solving' = IF Enough(zeroes') THEN "solved" ELSE "count"
    /\ UNCHANGED <<difficulty, key, tried, tries, hash>>

TooFewZeroes ==
    /\ solving = "count" /\ (zeroes < HashBits => Masked # {0})
    /\ solving' = "search"
    /\ UNCHANGED <<difficulty, key, tried, tries, hash, zeroes, mask>>

PowNext == Try \/ GiveUp \/ CountZero \/ TooFewZeroes
PowSpec == PowInit /\ [][PowNext]_powVars

----------------------------------------------------------------------------
(* Properties *)

\* hashcash.h:27 "Count the number of leading zero bits of the string hash
\* and return true if it satisfies the difficulty requirement": the search
\* ends with a key exactly if the first difficulty bits of its hash are zero,
\* across the bytes and whatever sign the mask has (hashcash.cc:16-45).
LeadingZeroes ==
    /\ solving = "solved" => \A j \in 1..difficulty : hash[j] = 0
    /\ solving = "search" /\ tries > 0 => \E j \in 1..difficulty : hash[j] = 1

\* No key is tried twice, as it grows and carries (hashcash.cc:62-86), and a
\* search that gives up has tried all keys but those that are all zero, or
\* end in a full byte before which some byte is not zero.
Skipped(k) ==
    \/ \A j \in DOMAIN k : k[j] = 0
    \/ k[Len(k)] = Full /\ \E j \in 1..(Len(k) - 1) : k[j] # 0
Keys == UNION {[1..n -> 0..Full] : n \in 1..MaxKeySize}

KeysTriedOnce ==
    /\ tries = Cardinality(tried)
    /\ solving = "given up" => tried = {k \in Keys : ~Skipped(k)}
=============================================================================
