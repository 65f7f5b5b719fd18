----------------------------- MODULE LocalProofs -----------------------------
(***************************************************************************)
(* What a peer does without the others: the buffers of received messages,  *)
(* the proof of work, the reader of the trace and checkMajority.           *)
(***************************************************************************)
EXTENDS CrcProofs, CheckMajority, Inbox, HashCash, TransactionReader

----------------------------------------------------------------------------
(* The buffers of received messages *)

\* A buffer that inbox_thread is about to hand over belongs to it alone.
Handed ==
  ~receiving => \/ msg = NoBuffer
                \/ msg \in allocated /\ msg \notin Range(queued) \cup taken

InboxInv ==
  ~skipped =>
    /\ queued \in Seq(allocated) /\ taken \subseteq allocated
    /\ \A x, y \in DOMAIN queued : queued[x] = queued[y] => x = y
    /\ taken \cap Range(queued) = {}
    /\ Handed

LEMMA RangeOf ==
  ASSUME NEW S, NEW s \in Seq(S)
  PROVE  /\ Len(s) \in Nat /\ DOMAIN s = 1..Len(s)
         /\ Range(s) = {s[x] : x \in 1..Len(s)} /\ Range(s) \subseteq S
BY LenProperties, ElementOfSeq DEF Range

LEMMA OwnedFromInv ==
  ASSUME InboxInv
  PROVE  OwnedUnlessSkipped
BY RangeOf DEF InboxInv, OwnedUnlessSkipped, Owned

\* An element that is not in a sequence is appended.
LEMMA AppendNew ==
  ASSUME NEW S, NEW s \in Seq(S), NEW b \in S, b \notin Range(s),
         \A x, y \in DOMAIN s : s[x] = s[y] => x = y
  PROVE  /\ Append(s, b) \in Seq(S)
         /\ Range(Append(s, b)) = Range(s) \cup {b}
         /\ \A x, y \in DOMAIN Append(s, b) :
              Append(s, b)[x] = Append(s, b)[y] => x = y
<1> DEFINE t == Append(s, b)
<1>1. /\ t \in Seq(S) /\ Len(t) = Len(s) + 1 /\ Len(s) \in Nat
      /\ t[Len(s) + 1] = b /\ \A x \in 1..Len(s) : t[x] = s[x]
  BY AppendProperties, LenProperties
<1> HIDE DEF t
<1>2. DOMAIN s = 1..Len(s) /\ DOMAIN t = 1..(Len(s) + 1)
  BY <1>1, LenProperties
<1>3. Range(t) = Range(s) \cup {b}
  <2>1. ASSUME NEW z \in Range(t) PROVE z \in Range(s) \cup {b}
    <3>1. PICK x \in 1..(Len(s) + 1) : z = t[x]  BY <1>2 DEF Range
    <3>2. CASE x = Len(s) + 1  BY <1>1, <3>1, <3>2
    <3>3. CASE x # Len(s) + 1
      <4>1. x \in 1..Len(s)  BY <1>1, <3>3
      <4> QED  BY <1>1, <1>2, <3>1, <4>1 DEF Range
    <3> QED  BY <3>2, <3>3
  <2>2. ASSUME NEW z \in Range(s) PROVE z \in Range(t)
    <3>1. PICK x \in 1..Len(s) : z = s[x]  BY <1>2 DEF Range
    <3>2. x \in DOMAIN t /\ z = t[x]  BY <1>1, <1>2, <3>1
    <3> QED  BY <3>2 DEF Range
  <2>3. b \in Range(t)
    <3>1. Len(s) + 1 \in DOMAIN t  BY <1>1, <1>2
    <3> QED  BY <1>1, <3>1 DEF Range
  <2> QED  BY <2>1, <2>2, <2>3
<1>4. ASSUME NEW x \in DOMAIN t, NEW y \in DOMAIN t, t[x] = t[y]
      PROVE  x = y
  <2>1. \A z \in 1..Len(s) : t[z] # b  BY <1>1, <1>2 DEF Range
  <2>2. CASE x \in 1..Len(s) /\ y \in 1..Len(s)
    BY <1>1, <1>2, <1>4, <2>2
  <2>3. CASE x \notin 1..Len(s) \/ y \notin 1..Len(s)
    <3>1. \A z \in DOMAIN t : z \in 1..Len(s) \/ z = Len(s) + 1
      BY <1>1, <1>2
    <3> QED  BY <1>1, <1>4, <2>1, <2>3, <3>1
  <2> QED  BY <2>2, <2>3
<1> QED  BY <1>1, <1>3, <1>4 DEF t

LEMMA TailOf ==
  ASSUME NEW S, NEW s \in Seq(S), s # <<>>,
         \A x, y \in DOMAIN s : s[x] = s[y] => x = y
  PROVE  /\ Head(s) \in Range(s) /\ Tail(s) \in Seq(S)
         /\ Range(Tail(s)) = Range(s) \ {Head(s)}
         /\ \A x, y \in DOMAIN Tail(s) : Tail(s)[x] = Tail(s)[y] => x = y
<1> DEFINE t == Tail(s)
<1>1. /\ Head(s) = s[1] /\ t \in Seq(S) /\ Len(s) \in Nat \ {0}
      /\ Len(t) = Len(s) - 1 /\ \A x \in 1..Len(t) : t[x] = s[x + 1]
  BY HeadTailProperties, EmptySeq, LenProperties
<1> HIDE DEF t
<1>2. DOMAIN s = 1..Len(s) /\ DOMAIN t = 1..(Len(s) - 1)
  BY <1>1, LenProperties
<1>3. Head(s) \in Range(s)  BY <1>1, <1>2 DEF Range
<1>4. ASSUME NEW z PROVE z \in Range(t) <=> z \in Range(s) /\ z # Head(s)
  <2>1. ASSUME z \in Range(t) PROVE z \in Range(s) /\ z # Head(s)
    <3>1. PICK x \in DOMAIN t : z = t[x]  BY <2>1 DEF Range
    <3>2. x + 1 \in DOMAIN s /\ x + 1 # 1 /\ z = s[x + 1] /\ 1 \in DOMAIN s
      BY <1>1, <1>2, <3>1
    <3> QED  BY <1>1, <3>2 DEF Range
  <2>2. ASSUME z \in Range(s), z # Head(s) PROVE z \in Range(t)
    <3>1. PICK x \in DOMAIN s : z = s[x]  BY <2>2 DEF Range
    <3>2. x - 1 \in DOMAIN t /\ x = (x - 1) + 1
      BY <1>1, <1>2, <2>2, <3>1
    <3>3. t[x - 1] = s[x]  BY <1>1, <1>2, <3>2
    <3> QED  BY <3>1, <3>2, <3>3 DEF Range
  <2> QED  BY <2>1, <2>2
<1>5. ASSUME NEW x \in DOMAIN t, NEW y \in DOMAIN t, t[x] = t[y]
      PROVE  x = y
  <2>1. x + 1 \in DOMAIN s /\ y + 1 \in DOMAIN s /\ s[x + 1] = s[y + 1]
    BY <1>1, <1>2, <1>5
  <2>2. x + 1 = y + 1  BY <2>1
  <2> QED  BY <1>2, <2>2
<1>6. Range(t) = Range(s) \ {Head(s)}  BY <1>4
<1> QED  BY <1>1, <1>3, <1>5, <1>6 DEF t

LEMMA SeqMono ==
  ASSUME NEW S, NEW T, NEW s \in Seq(S), \A x \in Range(s) : x \in T
  PROVE  s \in Seq(T)
<1>1. Len(s) \in Nat /\ DOMAIN s = 1..Len(s)  BY LenProperties
<1>2. \A x \in 1..Len(s) : s[x] \in T  BY <1>1 DEF Range
<1>3. s = [x \in 1..Len(s) |-> s[x]]  BY LenProperties, Zenon
<1>4. s \in [1..Len(s) -> T]  BY <1>2, <1>3
<1> QED  BY <1>1, <1>4, SeqDef

LEMMA InboxInvNext ==
  ASSUME InboxInv, [InboxNext]_inboxVars
  PROVE  InboxInv'
<1> SUFFICES ASSUME ~skipped' PROVE
      /\ queued' \in Seq(allocated') /\ taken' \subseteq allocated'
      /\ \A x, y \in DOMAIN queued' : queued'[x] = queued'[y] => x = y
      /\ taken' \cap Range(queued') = {}
      /\ Handed'
  BY DEF InboxInv
<1>1. ~skipped
  BY DEF InboxNext, inboxVars, ReceiveMessage, ReceiveNothing, SkipMessage,
         InboxPush, InboxTake, InboxFree, InboxPutBack
<1>2. /\ queued \in Seq(allocated) /\ taken \subseteq allocated
      /\ \A x, y \in DOMAIN queued : queued[x] = queued[y] => x = y
      /\ taken \cap Range(queued) = {}
      /\ Handed
  BY <1>1 DEF InboxInv
<1>3. Range(queued) \subseteq allocated  BY <1>2, RangeOf
<1>4. CASE ReceiveMessage
  <2>1. PICK b \in Buffers \ allocated :
          /\ msg' = b /\ allocated' = allocated \cup {b}
          /\ queued' = queued /\ taken' = taken
    BY <1>4 DEF ReceiveMessage
  <2>2. queued' \in Seq(allocated')  BY <1>2, <1>3, <2>1, SeqMono
  <2>3. b \notin Range(queued) \cup taken  BY <1>2, <1>3
  <2> QED  BY <1>2, <2>1, <2>2, <2>3 DEF Handed
<1>5. CASE ReceiveNothing
  BY <1>2, <1>5 DEF ReceiveNothing, Handed
<1>6. CASE SkipMessage
  BY <1>6 DEF SkipMessage
<1>7. CASE InboxPush
  <2>1. /\ ~receiving /\ receiving' = TRUE
        /\ allocated' = allocated /\ taken' = taken
        /\ queued' = IF msg # NoBuffer THEN Append(queued, msg) ELSE queued
    BY <1>7 DEF InboxPush
  <2>2. CASE msg = NoBuffer  BY <1>2, <2>1, <2>2 DEF Handed
  <2>3. CASE msg # NoBuffer
    <3>1. msg \in allocated /\ msg \notin Range(queued) /\ msg \notin taken
      BY <1>2, <2>1, <2>3 DEF Handed
    <3>2. /\ Append(queued, msg) \in Seq(allocated)
          /\ Range(Append(queued, msg)) = Range(queued) \cup {msg}
          /\ \A x, y \in DOMAIN Append(queued, msg) :
               Append(queued, msg)[x] = Append(queued, msg)[y] => x = y
      BY <1>2, <3>1, AppendNew
    <3> QED  BY <1>2, <2>1, <2>3, <3>1, <3>2 DEF Handed
  <2> QED  BY <2>2, <2>3
<1>8. CASE InboxTake
  <2>1. /\ queued # <<>> /\ taken' = taken \cup {Head(queued)}
        /\ queued' = Tail(queued) /\ allocated' = allocated
        /\ msg' = msg /\ receiving' = receiving
    BY <1>8 DEF InboxTake
  <2>2. /\ Head(queued) \in Range(queued) /\ Tail(queued) \in Seq(allocated)
        /\ Range(Tail(queued)) = Range(queued) \ {Head(queued)}
        /\ \A x, y \in DOMAIN Tail(queued) :
             Tail(queued)[x] = Tail(queued)[y] => x = y
    BY <1>2, <2>1, TailOf
  <2> QED  BY <1>2, <1>3, <2>1, <2>2 DEF Handed
<1>9. ASSUME NEW b \in Buffers, InboxFree(b)
      PROVE  /\ queued' \in Seq(allocated') /\ taken' \subseteq allocated'
             /\ \A x, y \in DOMAIN queued' : queued'[x] = queued'[y] => x = y
             /\ taken' \cap Range(queued') = {}
             /\ Handed'
  <2>1. /\ b \in taken /\ taken' = taken \ {b} /\ queued' = queued
        /\ allocated' = allocated \ {b}
        /\ msg' = msg /\ receiving' = receiving
    BY <1>9 DEF InboxFree
  <2>2. queued' \in Seq(allocated')  BY <1>2, <1>3, <2>1, SeqMono
  <2> QED  BY <1>2, <2>1, <2>2 DEF Handed
<1>10. ASSUME NEW b \in Buffers, InboxPutBack(b)
       PROVE  /\ queued' \in Seq(allocated') /\ taken' \subseteq allocated'
              /\ \A x, y \in DOMAIN queued' : queued'[x] = queued'[y] => x = y
              /\ taken' \cap Range(queued') = {}
              /\ Handed'
  <2>1. /\ b \in taken /\ taken' = taken \ {b} /\ allocated' = allocated
        /\ queued' = Append(queued, b)
        /\ msg' = msg /\ receiving' = receiving
    BY <1>10 DEF InboxPutBack
  <2>2. b \in allocated /\ b \notin Range(queued)  BY <1>2, <2>1
  <2>3. /\ Append(queued, b) \in Seq(allocated)
        /\ Range(Append(queued, b)) = Range(queued) \cup {b}
        /\ \A x, y \in DOMAIN Append(queued, b) :
             Append(queued, b)[x] = Append(queued, b)[y] => x = y
    BY <1>2, <2>2, AppendNew
  <2> QED  BY <1>2, <2>1, <2>3 DEF Handed
<1>11. CASE UNCHANGED inboxVars  BY <1>2, <1>11 DEF inboxVars, Handed
<1> QED  BY <1>4, <1>5, <1>6, <1>7, <1>8, <1>9, <1>10, <1>11 DEF InboxNext

\* Whatever the order in which the two threads receive, hand over, put back
\* and free, the main thread never holds a buffer that is free or that is
\* queued, as long as no header is wrong (peer.c:92-112,
\* application.cc:130-143).
THEOREM InboxOwns == InboxSpec => []OwnedUnlessSkipped
<1>1. InboxInit => InboxInv
  BY EmptySeq DEF InboxInit, InboxInv, Handed, Range
<1>2. InboxInv /\ [InboxNext]_inboxVars => InboxInv'  BY InboxInvNext
<1>3. InboxInv => OwnedUnlessSkipped  BY OwnedFromInv
<1> QED  BY <1>1, <1>2, <1>3, PTL DEF InboxSpec

----------------------------------------------------------------------------
(* The zeros of a hash *)

PowTypes ==
  /\ difficulty \in 1..HashBits /\ hash \in Hash /\ zeroes \in 0..HashBits
  /\ tries \in Nat
  /\ solving \in {"search", "count", "solved", "given up"}

\* The bits before the next one are zero, and too few; the mask holds all
\* those of them that are in the byte of the last one.
Counting ==
  solving = "count" =>
    /\ zeroes < difficulty /\ tries > 0
    /\ \A j \in 1..zeroes : hash[j] = 0
    /\ zeroes % ByteBits # 0 => mask = 0..((zeroes - 1) % ByteBits)

ZeroesInv == PowTypes /\ Counting /\ LeadingZeroes

LEMMA HashNumbers ==
  /\ ByteBits \in Nat /\ ByteBits > 0 /\ HashBits \in Nat
  /\ Difficulties \subseteq 1..HashBits
BY HashesAssumption DEF HashBits

\* The mask of the next bit selects the byte up to that bit, so that the bit
\* is zero exactly if all that is selected is.
LEMMA MaskIs ==
  ASSUME PowTypes, Counting, solving = "count"
  PROVE  NextMask = 0..(zeroes % ByteBits)
<1> DEFINE n == ByteBits
           z == zeroes
<1>1. z \in Nat /\ n \in Nat /\ n > 0  BY HashNumbers DEF PowTypes
<1>2. z % n \in 0..(n - 1)  BY <1>1, DivModIs
<1>3. CASE z % n = 0  BY <1>3 DEF NextMask
<1>4. CASE z % n # 0
  <2>1. mask = 0..((z - 1) % n)  BY <1>4 DEF Counting
  <2>2. (z - 1) % n = (z % n) - 1
    <3> DEFINE q == z \div n
               r == z % n
    <3>1. q \in Nat /\ z = n * q + r  BY <1>1, DivModIs
    <3>2. r - 1 \in 0..(n - 1) /\ r \in Nat  BY <1>1, <1>2, <1>4
    <3> HIDE DEF q, r
    <3>3. n * q \in Nat  BY <1>1, <3>1, TimesGrows
    <3>4. z - 1 = n * q + (r - 1)  BY <3>1, <3>2, <3>3
    <3>5. (z - 1) % n = r - 1  BY <1>1, <3>1, <3>2, <3>4, DivMod
    <3> QED  BY <3>5 DEF r
  <2> DEFINE r == z % n
  <2>3. NextMask = {0} \cup {b + 1 : b \in 0..(r - 1)}
    BY <1>4, <2>1, <2>2 DEF NextMask
  <2>4. r \in Nat  BY <1>2
  <2> HIDE DEF r
  <2>5. {0} \cup {b + 1 : b \in 0..(r - 1)} = 0..r
    <3>1. ASSUME NEW x \in 0..r
          PROVE  x \in {0} \cup {b + 1 : b \in 0..(r - 1)}
      <4>1. CASE x = 0  BY <4>1
      <4>2. CASE x # 0
        <5>1. x - 1 \in 0..(r - 1) /\ x = (x - 1) + 1  BY <2>4, <4>2
        <5> QED  BY <5>1
      <4> QED  BY <4>1, <4>2
    <3>2. ASSUME NEW x \in {0} \cup {b + 1 : b \in 0..(r - 1)}
          PROVE  x \in 0..r
      BY <2>4
    <3> QED  BY <3>1, <3>2
  <2> QED  BY <2>3, <2>5 DEF r
<1> QED  BY <1>3, <1>4

LEMMA MaskedIs ==
  ASSUME PowTypes, Counting, solving = "count", zeroes < HashBits
  PROVE  /\ hash[zeroes + 1] = 0 => Masked = {0}
         /\ Masked = {0} => hash[zeroes + 1] = 0
<1> DEFINE n == ByteBits
           z == zeroes
           q == z \div n
           r == z % n
<1>1. z \in Nat /\ n \in Nat /\ n > 0  BY HashNumbers DEF PowTypes
<1>2. q \in Nat /\ r \in 0..(n - 1) /\ z = n * q + r  BY <1>1, DivModIs
<1>3. n * q \in Nat /\ n * q = q * n  BY <1>1, <1>2, TimesGrows
<1>4. Masked = {hash[q * n + b + 1] : b \in 0..r}
  BY MaskIs DEF Masked
<1>5. \A j \in 1..z : hash[j] = 0  BY DEF Counting
<1> DEFINE a == q * n
<1> HIDE DEF q, r, a
<1>6. a \in Nat /\ r \in Nat /\ z = a + r  BY <1>2, <1>3 DEF a
<1>7. Masked = {hash[a + b + 1] : b \in 0..r}  BY <1>4 DEF a
<1>8. \A b \in 0..r : a + b + 1 \in 1..z \/ a + b + 1 = z + 1
  BY <1>6
<1>9. 0 \in 0..r /\ r \in 0..r /\ a + r + 1 = z + 1  BY <1>6
<1>10. ASSUME hash[z + 1] = 0 PROVE Masked = {0}
  <2>1. \A b \in 0..r : hash[a + b + 1] = 0  BY <1>5, <1>8, <1>10
  <2> QED  BY <1>7, <1>9, <2>1
<1>11. ASSUME Masked = {0} PROVE hash[z + 1] = 0
  <2>1. hash[a + r + 1] \in Masked  BY <1>7, <1>9
  <2> QED  BY <1>9, <1>11, <2>1
<1> QED  BY <1>10, <1>11

LEMMA ZeroesInvNext ==
  ASSUME ZeroesInv, [PowNext]_powVars
  PROVE  ZeroesInv'
<1> USE DEF ZeroesInv
<1>1. CASE Try
  <2>1. /\ hash' \in Hash /\ zeroes' = 0 /\ solving' = "count"
        /\ tries' = tries + 1 /\ difficulty' = difficulty
    BY <1>1 DEF Try
  <2>2. tries \in Nat /\ difficulty \in 1..HashBits /\ HashBits \in Nat
    BY HashNumbers DEF PowTypes
  <2>3. PowTypes'
    <3>1. 0 \in 0..HashBits /\ tries + 1 \in Nat  BY <2>2
    <3> QED  BY <2>1, <2>2, <3>1, Zenon DEF PowTypes
  <2>4. 0 % ByteBits = 0  BY HashNumbers
  <2>5. Counting'  BY <2>1, <2>2, <2>4 DEF Counting
  <2> QED  BY <2>1, <2>3, <2>5 DEF LeadingZeroes
<1>2. CASE GiveUp
  BY <1>2 DEF GiveUp, PowTypes, Counting, LeadingZeroes
<1>3. CASE CountZero
  <2>1. /\ solving = "count" /\ zeroes < HashBits /\ Masked = {0}
        /\ zeroes' = zeroes + 1 /\ mask' = NextMask
        /\ solving' = IF zeroes' >= difficulty THEN "solved" ELSE "count"
        /\ hash' = hash /\ tries' = tries /\ difficulty' = difficulty
    BY <1>3 DEF CountZero, Enough
  <2>2. /\ zeroes \in Nat /\ zeroes < difficulty /\ difficulty \in Nat
        /\ difficulty <= HashBits /\ HashBits \in Nat /\ tries > 0
        /\ \A j \in 1..zeroes : hash[j] = 0
    BY <2>1, HashNumbers DEF PowTypes, Counting
  <2>3. hash[zeroes + 1] = 0  BY <2>1, MaskedIs
  <2>4. \A j \in 1..zeroes' : hash'[j] = 0
    <3>1. \A j \in 1..(zeroes + 1) : j \in 1..zeroes \/ j = zeroes + 1
      BY <2>2
    <3> QED  BY <2>1, <2>2, <2>3, <3>1
  <2>5. mask' = 0..((zeroes' - 1) % ByteBits)
    <3>1. zeroes' - 1 = zeroes  BY <2>1, <2>2
    <3> QED  BY <2>1, <3>1, MaskIs
  <2>6. PowTypes'  BY <2>1, <2>2 DEF PowTypes
  <2>7. Counting'  BY <2>1, <2>2, <2>4, <2>5 DEF Counting
  <2>8. LeadingZeroes'
    <3>1. solving' = "solved" => difficulty' <= zeroes'  BY <2>1, <2>2
    <3>2. \A j \in 1..difficulty' : difficulty' <= zeroes' => j \in 1..zeroes'
      BY <2>1, <2>2
    <3> QED  BY <2>1, <2>4, <3>1, <3>2 DEF LeadingZeroes
  <2> QED  BY <2>6, <2>7, <2>8
<1>4. CASE TooFewZeroes
  <2>1. /\ solving = "count" /\ (zeroes < HashBits => Masked # {0})
        /\ solving' = "search" /\ hash' = hash /\ tries' = tries
        /\ difficulty' = difficulty /\ zeroes' = zeroes
    BY <1>4 DEF TooFewZeroes
  <2>2. /\ zeroes \in Nat /\ zeroes < difficulty /\ difficulty \in Nat
        /\ difficulty <= HashBits /\ HashBits \in Nat
        /\ hash \in [1..HashBits -> {0, 1}]
    BY <2>1, HashNumbers DEF PowTypes, Counting, Hash
  <2>3. zeroes < HashBits /\ zeroes + 1 \in 1..difficulty
        /\ zeroes + 1 \in 1..HashBits
    BY <2>2
  <2>4. hash[zeroes + 1] = 1  BY <2>1, <2>2, <2>3, MaskedIs
  <2>5. LeadingZeroes'  BY <2>1, <2>3, <2>4 DEF LeadingZeroes
  <2> QED  BY <2>1, <2>5 DEF PowTypes, Counting
<1>5. CASE UNCHANGED powVars
  BY <1>5 DEF powVars, PowTypes, Counting, LeadingZeroes
<1> QED  BY <1>1, <1>2, <1>3, <1>4, <1>5 DEF PowNext

LEMMA ZeroesInvInit ==
  ASSUME PowInit
  PROVE  ZeroesInv
<1>1. hash \in Hash  BY HashNumbers DEF PowInit, Zeroed, Hash
<1> QED  BY <1>1, HashNumbers
         DEF PowInit, ZeroesInv, PowTypes, Counting, LeadingZeroes

\* The search ends with a key whose hash starts with enough zeros and passes
\* over no such key, for every width of a byte and every length of the hash
\* (hashcash.cc:16-45).
THEOREM ZeroesCounted == PowSpec => []LeadingZeroes
<1>1. PowInit => ZeroesInv  BY ZeroesInvInit
<1>2. ZeroesInv /\ [PowNext]_powVars => ZeroesInv'  BY ZeroesInvNext
<1>3. ZeroesInv => LeadingZeroes  BY DEF ZeroesInv
<1> QED  BY <1>1, <1>2, <1>3, PTL DEF PowSpec

----------------------------------------------------------------------------
(* The order in which keys are tried *)

\* Shorter keys first, and among keys of a length the last byte counts most.
Before(k, l) ==
  \/ Len(k) < Len(l)
  \/ /\ Len(k) = Len(l)
     /\ \E x \in 1..Len(k) : /\ k[x] < l[x]
                             /\ \A y \in (x + 1)..Len(k) : k[y] = l[y]

UpTo(k, l) == k = l \/ Before(k, l)

KeyOf(n) == [1..n -> 0..Full]

LEMMA KeyParts ==
  /\ Full \in Nat /\ Full > 0 /\ MaxKeySize \in Nat /\ MaxKeySize > 0
  /\ \A n \in Nat : \A k \in KeyOf(n) :
       /\ Len(k) = n /\ DOMAIN k = 1..n /\ \A x \in 1..n : k[x] \in 0..Full
  /\ \A k \in Keys : Len(k) \in 1..MaxKeySize /\ k \in KeyOf(Len(k))
<1>1. Full \in Nat /\ Full > 0 /\ MaxKeySize \in Nat /\ MaxKeySize > 0
  BY KeysAssumption
<1>2. ASSUME NEW n \in Nat, NEW k \in KeyOf(n)
      PROVE  /\ Len(k) = n /\ DOMAIN k = 1..n
             /\ \A x \in 1..n : k[x] \in 0..Full
  BY DEF KeyOf
<1>3. ASSUME NEW k \in Keys
      PROVE  Len(k) \in 1..MaxKeySize /\ k \in KeyOf(Len(k))
  <2>1. PICK n \in 1..MaxKeySize : k \in KeyOf(n)  BY DEF Keys, KeyOf
  <2>2. Len(k) = n  BY <1>1, <1>2, <2>1
  <2> QED  BY <2>1, <2>2
<1> QED  BY <1>1, <1>2, <1>3

\* The first byte that is not full.
LEMMA FirstNotFull ==
  ASSUME NEW n \in Nat, NEW g \in KeyOf(n), NEW l \in 1..n, g[l] # Full
  PROVE  \E m \in 1..n : g[m] # Full /\ \A y \in 1..(m - 1) : g[y] = Full
<1> DEFINE S == {x \in 1..n : g[x] # Full}
<1>1. S \in SUBSET Nat /\ l \in S  OBVIOUS
<1>2. PICK m \in S : \A x \in S : m <= x  BY <1>1, LeastOf
<1>3. ASSUME NEW y \in 1..(m - 1) PROVE g[y] = Full
  <2>1. y \in 1..n /\ ~(m <= y)  BY <1>2
  <2> QED  BY <1>2, <2>1
<1> QED  BY <1>2, <1>3

\* That byte is incremented and those before it restart.
LEMMA IncrementIs ==
  ASSUME NEW n \in Nat, NEW g \in KeyOf(n), NEW m \in 1..n, g[m] # Full,
         \A y \in 1..(m - 1) : g[y] = Full
  PROVE  /\ Increment(g) \in KeyOf(n)
         /\ Increment(g)[m] = g[m] + 1
         /\ \A y \in 1..(m - 1) : Increment(g)[y] = 0
         /\ \A y \in (m + 1)..n : Increment(g)[y] = g[y]
<1> DEFINE k == Increment(g)
<1>1. /\ DOMAIN g = 1..n /\ Full \in Nat
      /\ \A x \in 1..n : g[x] \in 0..Full
  BY KeyParts
<1>2. k = [x \in 1..n |-> IF \E y \in 1..(x - 1) : g[y] # Full THEN g[x]
                           ELSE IF g[x] = Full THEN 0 ELSE g[x] + 1]
  BY <1>1 DEF Increment
<1> HIDE DEF k
<1>3. k[m] = g[m] + 1  BY <1>2
<1>4. ASSUME NEW y \in 1..(m - 1) PROVE k[y] = 0
  <2>1. y \in 1..n /\ g[y] = Full  OBVIOUS
  <2>2. \A z \in 1..(y - 1) : g[z] = Full
    <3>1. \A z \in 1..(y - 1) : z \in 1..(m - 1)  OBVIOUS
    <3> QED  BY <3>1
  <2> QED  BY <1>2, <2>1, <2>2
<1>5. ASSUME NEW y \in (m + 1)..n PROVE k[y] = g[y]
  <2>1. y \in 1..n /\ m \in 1..(y - 1)  OBVIOUS
  <2> QED  BY <1>2, <2>1
<1>6. k \in KeyOf(n)
  <2>1. \A x \in 1..n : g[x] # Full => g[x] + 1 \in 0..Full  BY <1>1
  <2> QED  BY <1>1, <1>2, <2>1 DEF KeyOf
<1> QED  BY <1>3, <1>4, <1>5, <1>6 DEF k

\* Among the keys of its length the incremented key comes next.
LEMMA Successor ==
  ASSUME NEW n \in Nat, NEW g \in KeyOf(n), NEW l \in 1..n, g[l] # Full,
         NEW k \in KeyOf(n)
  PROVE  /\ UpTo(k, Increment(g)) <=> UpTo(k, g) \/ k = Increment(g)
         /\ ~UpTo(Increment(g), g)
<1>1. PICK m \in 1..n : g[m] # Full /\ \A y \in 1..(m - 1) : g[y] = Full
  BY FirstNotFull
<1> DEFINE h == Increment(g)
<1>2. /\ h \in KeyOf(n) /\ h[m] = g[m] + 1
      /\ \A y \in 1..(m - 1) : h[y] = 0
      /\ \A y \in (m + 1)..n : h[y] = g[y]
  BY <1>1, IncrementIs
<1> HIDE DEF h
<1>3. /\ Full \in Nat /\ Len(k) = n /\ Len(g) = n /\ Len(h) = n
      /\ DOMAIN k = 1..n /\ DOMAIN g = 1..n
      /\ \A x \in 1..n : g[x] \in 0..Full /\ k[x] \in 0..Full /\ h[x] \in 0..Full
  BY <1>2, KeyParts
<1>4. ASSUME UpTo(k, g) PROVE UpTo(k, h)
  <2>1. CASE k = g
    <3>1. g[m] < h[m]  BY <1>2, <1>3
    <3> QED  BY <1>2, <1>3, <2>1, <3>1 DEF UpTo, Before
  <2>2. CASE k # g
    <3>1. PICK x \in 1..n : k[x] < g[x] /\ \A y \in (x + 1)..n : k[y] = g[y]
      BY <1>3, <1>4, <2>2 DEF UpTo, Before
    <3>2. CASE x < m
      <4>1. k[m] = g[m] /\ \A y \in (m + 1)..n : k[y] = h[y]
        <5>1. m \in (x + 1)..n  BY <3>2
        <5>2. \A y \in (m + 1)..n : y \in (x + 1)..n  BY <3>2
        <5> QED  BY <1>2, <3>1, <5>1, <5>2
      <4>2. k[m] < h[m]  BY <1>2, <1>3, <4>1
      <4> QED  BY <1>3, <4>1, <4>2 DEF UpTo, Before
    <3>3. CASE x >= m
      <4>1. k[x] < h[x]
        <5>1. CASE x = m
          <6>1. k[m] < g[m] /\ h[m] = g[m] + 1  BY <1>2, <3>1, <5>1
          <6>2. k[m] \in Int /\ g[m] \in Int  BY <1>3
          <6> QED  BY <5>1, <6>1, <6>2
        <5>2. CASE x # m
          <6>1. x \in (m + 1)..n  BY <3>3, <5>2
          <6> QED  BY <1>2, <3>1, <6>1
        <5> QED  BY <5>1, <5>2
      <4>2. \A y \in (x + 1)..n : k[y] = h[y]
        <5>1. \A y \in (x + 1)..n : y \in (m + 1)..n  BY <3>3
        <5> QED  BY <1>2, <3>1, <5>1
      <4> QED  BY <1>3, <4>1, <4>2 DEF UpTo, Before
    <3> QED  BY <3>2, <3>3
  <2> QED  BY <2>1, <2>2
<1>5. ASSUME UpTo(k, h), k # h PROVE UpTo(k, g)
  <2>1. PICK x \in 1..n : k[x] < h[x] /\ \A y \in (x + 1)..n : k[y] = h[y]
    BY <1>3, <1>5 DEF UpTo, Before
  <2>2. CASE x > m
    <3>1. x \in (m + 1)..n /\ \A y \in (x + 1)..n : y \in (m + 1)..n
      BY <2>2
    <3>2. k[x] < g[x] /\ \A y \in (x + 1)..n : k[y] = g[y]
      BY <1>2, <2>1, <3>1
    <3> QED  BY <1>3, <3>2 DEF UpTo, Before
  <2>3. CASE x = m
    <3>1. \A y \in (m + 1)..n : k[y] = g[y]  BY <1>2, <2>1, <2>3
    <3>2. CASE k[m] < g[m]  BY <1>3, <3>1, <3>2 DEF UpTo, Before
    <3>3. CASE k[m] = g[m]
      <4> DEFINE D == {z \in 1..n : k[z] # g[z]}
      <4>1. CASE D = {}
        <5>1. \A z \in 1..n : k[z] = g[z]  BY <4>1
        <5>2. k = g  BY <5>1 DEF KeyOf
        <5> QED  BY <5>2 DEF UpTo
      <4>2. CASE D # {}
        <5>1. D \in SUBSET Nat /\ \A z \in D : z <= n  OBVIOUS
        <5>2. PICK d \in D : \A z \in D : z <= d
          BY <4>2, <5>1, GreatestOf
        <5>3. d \in 1..(m - 1)
          <6>1. d # m /\ d \notin (m + 1)..n  BY <3>1, <3>3
          <6> QED  BY <6>1
        <5>4. k[d] < g[d]  BY <1>1, <1>3, <5>2, <5>3
        <5>5. \A y \in (d + 1)..n : k[y] = g[y]
          <6>1. \A y \in (d + 1)..n : y \in 1..n /\ ~(y <= d)  BY <5>2
          <6> QED  BY <5>2, <6>1
        <5> QED  BY <1>3, <5>4, <5>5 DEF UpTo, Before
      <4> QED  BY <4>1, <4>2
    <3> QED  BY <1>2, <1>3, <2>1, <2>3, <3>2, <3>3
  <2>4. CASE x < m
    <3>1. h[x] = 0  BY <1>2, <2>4
    <3> QED  BY <1>3, <2>1, <3>1
  <2> QED  BY <2>2, <2>3, <2>4
<1>6. ~UpTo(h, g)
  <2> SUFFICES ASSUME UpTo(h, g) PROVE FALSE  OBVIOUS
  <2>1. h # g  BY <1>2, <1>3
  <2>2. PICK x \in 1..n : h[x] < g[x] /\ \A y \in (x + 1)..n : h[y] = g[y]
    BY <1>3, <2>1 DEF UpTo, Before
  <2>3. h[m] = g[m] + 1 /\ g[m] \in Nat
    BY <1>2, <1>3
  <2>4. CASE x < m
    <3>1. m \in (x + 1)..n  BY <2>4
    <3>2. h[m] = g[m]  BY <2>2, <3>1, Zenon
    <3> QED  BY <2>3, <3>2
  <2>5. CASE x = m  BY <2>2, <2>3, <2>5
  <2>6. CASE x > m
    <3>1. x \in (m + 1)..n  BY <2>6
    <3>2. h[x] = g[x]  BY <1>2, <3>1, Zenon
    <3>3. g[x] \in Nat  BY <1>3
    <3> QED  BY <2>2, <3>2, <3>3
  <2> QED  BY <2>4, <2>5, <2>6
<1>7. UpTo(h, h)  BY DEF UpTo
<1> QED  BY <1>4, <1>5, <1>6, <1>7 DEF h

\* What is skipped at the end of a length: all keys that are tried come before
\* the one that ends it.
LEMMA LastOfLength ==
  ASSUME NEW n \in Nat, n > 0, NEW k \in KeyOf(n), NEW g \in KeyOf(n),
         ~Skipped(k), ~Skipped(g), g[n] = Full
  PROVE  UpTo(k, g)
<1>1. /\ Full \in Nat /\ Len(k) = n /\ Len(g) = n /\ n \in 1..n
      /\ \A x \in 1..n : k[x] \in 0..Full /\ g[x] \in 0..Full
  BY KeyParts
<1>2. CASE k[n] = Full
  <2>1. \A x \in 1..(n - 1) : k[x] = 0 /\ g[x] = 0
    BY <1>1, <1>2 DEF Skipped
  <2>2. \A x \in 1..n : k[x] = g[x]
    <3>1. \A x \in 1..n : x = n \/ x \in 1..(n - 1)  OBVIOUS
    <3> QED  BY <1>2, <2>1, <3>1
  <2>3. k = g  BY <2>2 DEF KeyOf
  <2> QED  BY <2>3 DEF UpTo
<1>3. CASE k[n] # Full
  <2>1. k[n] < g[n]  BY <1>1, <1>3
  <2>2. \A y \in (n + 1)..n : k[y] = g[y]  OBVIOUS
  <2> QED  BY <1>1, <2>1, <2>2 DEF UpTo, Before
<1> QED  BY <1>2, <1>3

\* No key that is tried comes between a key and what it grows to.
LEMMA GrowIs ==
  ASSUME NEW g \in Keys, g = Zeroed(1) \/ ~Skipped(g), ~Exhausted(g)
  PROVE  \E n \in 1..MaxKeySize :
           /\ Grow(g) \in KeyOf(n) /\ Grow(g)[n] # Full
           /\ \A k \in Keys : ~Skipped(k) =>
                (UpTo(k, Grow(g)) <=> UpTo(k, g))
<1>1. /\ Full \in Nat /\ Full > 0 /\ MaxKeySize \in Nat /\ MaxKeySize > 0
      /\ Len(g) \in 1..MaxKeySize /\ g \in KeyOf(Len(g))
  BY KeyParts
<1>2. CASE g[Len(g)] # Full
  <2>1. Grow(g) = g  BY <1>2 DEF Grow
  <2> QED  BY <1>1, <1>2, <2>1
<1>3. CASE g[Len(g)] = Full
  <2> DEFINE n == Len(g)
             h == Zeroed(n + 1)
  <2>1. Grow(g) = h  BY <1>3 DEF Grow
  <2>2. n + 1 \in 1..MaxKeySize /\ n \in Nat /\ n > 0
    BY <1>1, <1>3 DEF Exhausted
  <2>3. h \in KeyOf(n + 1)  BY <1>1 DEF Zeroed, KeyOf
  <2>4. Len(h) = n + 1 /\ \A x \in 1..(n + 1) : h[x] = 0
    BY <1>1, <2>2, <2>3, KeyParts DEF Zeroed
  <2>5. ~Skipped(g)
    <3>1. ASSUME g = Zeroed(1) PROVE FALSE
      <4>1. Len(g) = 1 /\ g[1] = 0  BY <3>1 DEF Zeroed
      <4> QED  BY <1>1, <1>3, <4>1
    <3> QED  BY <3>1
  <2> HIDE DEF n, h
  <2>6. ASSUME NEW k \in Keys, ~Skipped(k)
        PROVE  UpTo(k, h) <=> UpTo(k, g)
    <3>1. Len(k) \in Nat /\ k \in KeyOf(Len(k)) /\ DOMAIN k = 1..Len(k)
          /\ \A x \in 1..Len(k) : k[x] \in 0..Full
      BY KeyParts
    <3>2. ASSUME UpTo(k, h) PROVE UpTo(k, g)
      <4>1. k # h
        <5> SUFFICES ASSUME k = h PROVE FALSE  OBVIOUS
        <5>1. \A x \in DOMAIN k : k[x] = 0  BY <2>4, <3>1
        <5> QED  BY <2>6, <5>1 DEF Skipped
      <4>2. Len(k) < n + 1
        <5> SUFFICES ASSUME ~(Len(k) < n + 1) PROVE FALSE  OBVIOUS
        <5>1. PICK x \in 1..Len(k) : Len(k) = n + 1 /\ k[x] < h[x]
          BY <2>4, <3>2, <4>1 DEF UpTo, Before
        <5>2. h[x] = 0 /\ k[x] \in 0..Full  BY <2>4, <3>1, <5>1
        <5> QED  BY <1>1, <5>1, <5>2
      <4>3. CASE Len(k) < n  BY <4>3 DEF UpTo, Before, n
      <4>4. CASE Len(k) = n
        <5>1. k \in KeyOf(n) /\ g \in KeyOf(n) /\ g[n] = Full
          BY <1>1, <1>3, <3>1, <4>4 DEF n
        <5> QED  BY <2>2, <2>5, <2>6, <5>1, LastOfLength
      <4>5. Len(k) < n \/ Len(k) = n
        <5>1. n \in Nat /\ Len(k) \in Nat  BY <2>2, <3>1
        <5> QED  BY <4>2, <5>1
      <4> QED  BY <4>3, <4>4, <4>5, Zenon
    <3>3. ASSUME UpTo(k, g) PROVE UpTo(k, h)
      <4>1. Len(k) <= n  BY <2>2, <3>1, <3>3 DEF UpTo, Before, n
      <4>2. Len(k) < Len(h)  BY <2>2, <2>4, <3>1, <4>1
      <4> QED  BY <4>2 DEF UpTo, Before
    <3> QED  BY <3>2, <3>3
  <2>7. h[n + 1] # Full  BY <1>1, <2>2, <2>4
  <2> QED  BY <2>1, <2>2, <2>3, <2>6, <2>7
<1> QED  BY <1>2, <1>3

\* The next key is one that is not skipped.
LEMMA NextNotSkipped ==
  ASSUME NEW n \in Nat, n > 0, NEW g \in KeyOf(n), g[n] # Full
  PROVE  Increment(g) \in KeyOf(n) /\ ~Skipped(Increment(g))
<1>1. n \in 1..n  OBVIOUS
<1>2. PICK m \in 1..n : g[m] # Full /\ \A y \in 1..(m - 1) : g[y] = Full
  BY <1>1, FirstNotFull
<1> DEFINE h == Increment(g)
<1>3. /\ h \in KeyOf(n) /\ h[m] = g[m] + 1
      /\ \A y \in 1..(m - 1) : h[y] = 0
      /\ \A y \in (m + 1)..n : h[y] = g[y]
  BY <1>2, IncrementIs
<1> HIDE DEF h
<1>4. Len(h) = n /\ DOMAIN h = 1..n /\ g[m] \in 0..Full /\ Full \in Nat
  BY <1>3, KeyParts
<1>5. h[m] # 0  BY <1>3, <1>4
<1>6. h[n] = Full => \A y \in 1..(n - 1) : h[y] = 0
  <2>1. CASE m = n  BY <1>3, <2>1
  <2>2. CASE m # n
    <3>1. n \in (m + 1)..n  BY <2>2
    <3> QED  BY <1>3, <3>1
  <2> QED  BY <2>1, <2>2
<1>7. ~Skipped(h)  BY <1>4, <1>5, <1>6 DEF Skipped
<1> QED  BY <1>3, <1>7 DEF h

\* The keys tried are those up to the last one that are not skipped.
KeysInv ==
  /\ key \in Keys /\ (key = Zeroed(1) \/ ~Skipped(key))
  /\ tried = {k \in Keys : ~Skipped(k) /\ UpTo(k, key)}
  /\ IsFiniteSet(tried) /\ tries = Cardinality(tried)
  /\ solving = "given up" => Exhausted(key)

LEMMA KeysInvInit ==
  ASSUME PowInit
  PROVE  KeysInv
<1>1. key = Zeroed(1) /\ tried = {} /\ tries = 0 /\ solving = "search"
  BY DEF PowInit
<1>2. 1 \in 1..MaxKeySize /\ Full \in Nat  BY KeyParts
<1>3. Zeroed(1) \in [1..1 -> 0..Full]  BY <1>2 DEF Zeroed
<1>4. key \in Keys  BY <1>1, <1>2, <1>3 DEF Keys
<1>5. ASSUME NEW k \in Keys, UpTo(k, key) PROVE Skipped(k)
  <2>1. /\ Len(k) \in 1..MaxKeySize /\ k \in KeyOf(Len(k))
        /\ MaxKeySize \in Nat /\ Full \in Nat
    BY KeyParts
  <2>2. /\ DOMAIN k = 1..Len(k)
        /\ \A x \in 1..Len(k) : k[x] \in 0..Full
    BY <2>1, KeyParts
  <2>3. Len(key) = 1 /\ key[1] = 0 /\ DOMAIN key = 1..1
    BY <1>1 DEF Zeroed
  <2>4. CASE k = key
    <3>1. \A x \in DOMAIN k : k[x] = 0  BY <2>3, <2>4
    <3> QED  BY <3>1 DEF Skipped
  <2>5. CASE Before(k, key)
    <3>1. ~(Len(k) < Len(key))  BY <2>1, <2>3
    <3>2. PICK x \in 1..Len(k) : Len(k) = 1 /\ k[x] < key[x]
      BY <2>3, <2>5, <3>1 DEF Before
    <3> QED  BY <2>2, <2>3, <3>2
  <2> QED  BY <1>5, <2>4, <2>5 DEF UpTo
<1>6. tried = {k \in Keys : ~Skipped(k) /\ UpTo(k, key)}  BY <1>1, <1>5
<1> QED  BY <1>1, <1>4, <1>6, FS_EmptySet DEF KeysInv

LEMMA KeysInvNext ==
  ASSUME KeysInv, [PowNext]_powVars
  PROVE  KeysInv'
<1>1. CASE Try
  <2>1. /\ ~Exhausted(key) /\ key' = Increment(Grow(key))
        /\ tried' = tried \cup {key'} /\ tries' = tries + 1
        /\ solving' = "count"
    BY <1>1 DEF Try
  <2>2. /\ key \in Keys /\ (key = Zeroed(1) \/ ~Skipped(key))
        /\ tried = {k \in Keys : ~Skipped(k) /\ UpTo(k, key)}
        /\ IsFiniteSet(tried) /\ tries = Cardinality(tried)
    BY DEF KeysInv
  <2>3. PICK n \in 1..MaxKeySize :
          /\ Grow(key) \in KeyOf(n) /\ Grow(key)[n] # Full
          /\ \A k \in Keys : ~Skipped(k) =>
               (UpTo(k, Grow(key)) <=> UpTo(k, key))
    BY <2>1, <2>2, GrowIs
  <2>4. n \in Nat /\ n > 0 /\ n \in 1..n  BY KeyParts
  <2> DEFINE g == Grow(key)
             h == Increment(g)
  <2>5. h \in KeyOf(n) /\ ~Skipped(h)  BY <2>3, <2>4, NextNotSkipped
  <2>6. h \in Keys  BY <2>5 DEF Keys, KeyOf
  <2>7. ASSUME NEW k \in Keys
        PROVE  UpTo(k, h) <=> UpTo(k, g) \/ k = h
    <3>1. Len(k) \in Nat /\ k \in KeyOf(Len(k))  BY KeyParts
    <3>2. Len(g) = n /\ Len(h) = n  BY <2>3, <2>4, <2>5, KeyParts
    <3>3. CASE Len(k) = n
      <4>1. k \in KeyOf(n)  BY <3>1, <3>3
      <4> QED  BY <2>3, <2>4, <4>1, Successor
    <3>4. CASE Len(k) # n
      <4>1. k # g /\ k # h  BY <3>2, <3>4
      <4> HIDE DEF g, h
      <4>2. UpTo(k, h) <=> Len(k) < n  BY <3>2, <3>4, <4>1 DEF UpTo, Before
      <4>3. UpTo(k, g) <=> Len(k) < n  BY <3>2, <3>4, <4>1 DEF UpTo, Before
      <4> QED  BY <4>1, <4>2, <4>3
    <3> QED  BY <3>3, <3>4
  <2>8. ~UpTo(h, g)  BY <2>3, <2>4, <2>5, Successor
  <2>9. \A k \in Keys : ~Skipped(k) => (UpTo(k, h) <=> UpTo(k, key) \/ k = h)
    BY <2>3, <2>7
  <2>10. ~UpTo(h, key)  BY <2>3, <2>5, <2>6, <2>8
  <2> HIDE DEF g, h
  <2>11. key' = h  BY <2>1 DEF g, h
  <2>12. tried' = {k \in Keys : ~Skipped(k) /\ UpTo(k, key')}
    BY <2>1, <2>2, <2>5, <2>6, <2>9, <2>11
  <2>13. h \notin tried  BY <2>2, <2>10
  <2>14. IsFiniteSet(tried') /\ tries' = Cardinality(tried')
    BY <2>1, <2>2, <2>11, <2>13, FS_AddElement
  <2> QED  BY <2>1, <2>5, <2>6, <2>11, <2>12, <2>14 DEF KeysInv
<1>2. CASE GiveUp
  <2>1. /\ Exhausted(key) /\ key' = key /\ tried' = tried /\ tries' = tries
    BY <1>2 DEF GiveUp
  <2> QED  BY <2>1 DEF KeysInv
<1>3. CASE CountZero
  <2>1. /\ key' = key /\ tried' = tried /\ tries' = tries
        /\ solving' \in {"solved", "count"}
    BY <1>3 DEF CountZero
  <2> QED  BY <2>1 DEF KeysInv
<1>4. CASE TooFewZeroes
  BY <1>4 DEF TooFewZeroes, KeysInv
<1>5. CASE UNCHANGED powVars
  BY <1>5 DEF powVars, KeysInv
<1> QED  BY <1>1, <1>2, <1>3, <1>4, <1>5 DEF PowNext

LEMMA KeysFromInv ==
  ASSUME KeysInv
  PROVE  KeysTriedOnce
<1>1. /\ key \in Keys /\ (key = Zeroed(1) \/ ~Skipped(key))
      /\ tried = {k \in Keys : ~Skipped(k) /\ UpTo(k, key)}
      /\ tries = Cardinality(tried)
      /\ solving = "given up" => Exhausted(key)
  BY DEF KeysInv
<1>2. ASSUME Exhausted(key), NEW k \in Keys, ~Skipped(k)
      PROVE  UpTo(k, key)
  <2>1. /\ Full \in Nat /\ Full > 0 /\ MaxKeySize \in Nat /\ MaxKeySize > 0
        /\ key \in KeyOf(Len(key)) /\ k \in KeyOf(Len(k))
        /\ Len(k) \in 1..MaxKeySize
    BY <1>1, KeyParts
  <2>2. key[Len(key)] = Full /\ Len(key) = MaxKeySize
    BY <1>2 DEF Exhausted
  <2>3. ~Skipped(key)
    <3>1. ASSUME key = Zeroed(1) PROVE FALSE
      <4>1. Len(key) = 1 /\ key[1] = 0  BY <3>1 DEF Zeroed
      <4> QED  BY <2>1, <2>2, <4>1
    <3> QED  BY <1>1, <3>1
  <2>4. CASE Len(k) = MaxKeySize
    <3>1. key \in KeyOf(MaxKeySize) /\ k \in KeyOf(MaxKeySize)
          /\ key[MaxKeySize] = Full
      BY <2>1, <2>2, <2>4
    <3> QED  BY <1>2, <2>1, <2>3, <3>1, LastOfLength
  <2>5. CASE Len(k) # MaxKeySize
    <3>1. Len(k) < Len(key)  BY <2>1, <2>2, <2>5
    <3> QED  BY <3>1 DEF UpTo, Before
  <2> QED  BY <2>4, <2>5
<1>3. solving = "given up" => tried = {k \in Keys : ~Skipped(k)}
  BY <1>1, <1>2
<1> QED  BY <1>1, <1>3 DEF KeysTriedOnce

\* No key is tried twice, and a search that gives up has tried all but those
\* that are skipped, for every size of a byte and every number of bytes
\* (hashcash.cc:62-86).
THEOREM KeysOnce == PowSpec => []KeysTriedOnce
<1>1. PowInit => KeysInv  BY KeysInvInit
<1>2. KeysInv /\ [PowNext]_powVars => KeysInv'  BY KeysInvNext
<1>3. KeysInv => KeysTriedOnce  BY KeysFromInv
<1> QED  BY <1>1, <1>2, <1>3, PTL DEF PowSpec

----------------------------------------------------------------------------
(* The trace *)

LEMMA LineParts ==
  ASSUME trace \in Seq(Line)
  PROVE  /\ Len(trace) \in Nat /\ AmountLength \in Nat /\ AmountLength > 2
         /\ BatchSize \in Nat /\ BatchSize > 0
         /\ \A l \in 1..Len(trace) :
              trace[l].sender \in {1, 2} /\ trace[l].receiver \in {1, 2}
<1>1. ASSUME NEW l \in 1..Len(trace)
      PROVE  trace[l].sender \in {1, 2} /\ trace[l].receiver \in {1, 2}
  <2>1. trace[l] \in Line  BY ElementOfSeq
  <2> QED  BY <2>1 DEF Line
<1> QED  BY <1>1, LenProperties, AmountLengthAssumption, BatchSizeAssumption

LEMMA TokenAt ==
  ASSUME trace \in Seq(Line), NEW l \in 0..(Len(trace) - 1)
  PROVE  /\ Tokens(trace)[3 * l + 1] = trace[l + 1].sender
         /\ Tokens(trace)[3 * l + 2] = trace[l + 1].receiver
         /\ Tokens(trace)[3 * l + 3] = AmountLength
<1>1. Len(trace) \in Nat  BY LineParts
<1>2. ASSUME NEW k \in {1, 2, 3}
      PROVE  Tokens(trace)[3 * l + k]
               = <<trace[l + 1].sender, trace[l + 1].receiver, AmountLength>>[k]
  <2> DEFINE x == 3 * l + k
  <2>1. x \in 1..(3 * Len(trace))  BY <1>1
  <2>2. ((x - 1) \div 3) + 1 = l + 1 /\ ((x - 1) % 3) + 1 = k  BY <1>1
  <2> HIDE DEF x
  <2>3. Tokens(trace)[x]
          = <<trace[l + 1].sender, trace[l + 1].receiver, AmountLength>>[k]
    BY <2>1, <2>2 DEF Tokens
  <2> QED  BY <2>3 DEF x
<1> QED  BY <1>2

LEMMA TokensType ==
  ASSUME trace \in Seq(Line), NEW k \in 1..(3 * Len(trace))
  PROVE  Tokens(trace)[k] \in Nat
<1>1. /\ Len(trace) \in Nat /\ AmountLength \in Nat
      /\ \A l \in 1..Len(trace) :
           trace[l].sender \in {1, 2} /\ trace[l].receiver \in {1, 2}
  BY LineParts
<1> DEFINE l == (k - 1) \div 3
           j == ((k - 1) % 3) + 1
<1>2. l \in 0..(Len(trace) - 1) /\ j \in {1, 2, 3} /\ k = 3 * l + j
  BY <1>1
<1> HIDE DEF l, j
<1>3. l + 1 \in 1..Len(trace)  BY <1>1, <1>2
<1>4. /\ Tokens(trace)[3 * l + 1] = trace[l + 1].sender
      /\ Tokens(trace)[3 * l + 2] = trace[l + 1].receiver
      /\ Tokens(trace)[3 * l + 3] = AmountLength
  BY <1>2, TokenAt
<1>5. Tokens(trace)[3 * l + j] \in Nat
  <2>1. CASE j = 1  BY <1>1, <1>3, <1>4, <2>1
  <2>2. CASE j = 2  BY <1>1, <1>3, <1>4, <2>2
  <2>3. CASE j = 3  BY <1>1, <1>4, <2>3
  <2> QED  BY <1>2, <2>1, <2>2, <2>3
<1> QED  BY <1>2, <1>5

LEMMA RestType ==
  ASSUME trace \in Seq(Line), NEW l \in 0..Len(trace)
  PROVE  /\ Rest(l) \in Seq(Nat) /\ Len(Rest(l)) = 3 * (Len(trace) - l)
         /\ \A k \in 1..(3 * (Len(trace) - l)) :
              Rest(l)[k] = Tokens(trace)[3 * l + k]
<1> DEFINE n == 3 * (Len(trace) - l)
<1>1. Len(trace) \in Nat /\ n \in Nat  BY LineParts
<1>2. \A k \in 1..n : 3 * l + k \in 1..(3 * Len(trace))  BY <1>1
<1>3. \A k \in 1..n : Tokens(trace)[3 * l + k] \in Nat
  BY <1>2, TokensType
<1>4. Rest(l) = [k \in 1..n |-> Tokens(trace)[3 * l + k]]  BY DEF Rest
<1> HIDE DEF n
<1>5. Rest(l) \in [1..n -> Nat]  BY <1>3, <1>4
<1>6. Rest(l) \in Seq(Nat) /\ Len(Rest(l)) = n  BY <1>1, <1>5
<1> QED  BY <1>4, <1>6 DEF n

LEMMA TailIs ==
  ASSUME NEW s \in Seq(Nat), Len(s) > 0
  PROVE  /\ Len(s) \in Nat /\ s # <<>> /\ Tail(s) \in Seq(Nat)
         /\ Len(Tail(s)) = Len(s) - 1
         /\ \A k \in 1..(Len(s) - 1) : Tail(s)[k] = s[k + 1]
<1>1. s # <<>> /\ Len(s) \in Nat  BY EmptySeq, LenProperties
<1> QED  BY <1>1, HeadTailProperties

\* After three tokens the next line is left.
LEMMA RestTail ==
  ASSUME trace \in Seq(Line), NEW l \in 0..(Len(trace) - 1)
  PROVE  /\ Len(Rest(l)) > 2
         /\ Rest(l)[1] = trace[l + 1].sender
         /\ Rest(l)[2] = trace[l + 1].receiver
         /\ Tail(Tail(Tail(Rest(l)))) = Rest(l + 1)
<1> DEFINE s == Rest(l)
           t == Tail(s)
           u == Tail(t)
           v == Tail(u)
           w == Rest(l + 1)
           n == Len(trace)
<1>1. n \in Nat /\ l \in 0..n /\ l + 1 \in 0..n  BY LineParts
<1>2. /\ s \in Seq(Nat) /\ Len(s) = 3 * (n - l) /\ Len(s) > 2
      /\ \A k \in 1..(3 * (n - l)) : s[k] = Tokens(trace)[3 * l + k]
  <2>1. /\ s \in Seq(Nat) /\ Len(s) = 3 * (n - l)
        /\ \A k \in 1..(3 * (n - l)) : s[k] = Tokens(trace)[3 * l + k]
    BY <1>1, RestType, Zenon
  <2>2. 3 * (n - l) > 2  BY <1>1
  <2> QED  BY <2>1, <2>2
<1>3. /\ w \in Seq(Nat) /\ Len(w) = 3 * (n - l) - 3
      /\ \A k \in 1..(3 * (n - l) - 3) : w[k] = Tokens(trace)[3 * l + 3 + k]
  <2>1. /\ w \in Seq(Nat) /\ Len(w) = 3 * (n - (l + 1))
        /\ \A k \in 1..(3 * (n - (l + 1))) :
             w[k] = Tokens(trace)[3 * (l + 1) + k]
    BY <1>1, RestType
  <2>2. 3 * (n - (l + 1)) = 3 * (n - l) - 3 /\ 3 * (l + 1) = 3 * l + 3
    BY <1>1
  <2> HIDE DEF w
  <2> QED  BY <2>1, <2>2
<1> HIDE DEF s, w
<1>4. /\ t \in Seq(Nat) /\ Len(t) = 3 * (n - l) - 1 /\ Len(t) > 1
      /\ \A k \in 1..(3 * (n - l) - 1) : t[k] = s[k + 1]
  BY <1>1, <1>2, TailIs
<1> HIDE DEF t
<1>5. /\ u \in Seq(Nat) /\ Len(u) = 3 * (n - l) - 2 /\ Len(u) > 0
      /\ \A k \in 1..(3 * (n - l) - 2) : u[k] = t[k + 1]
  BY <1>1, <1>4, TailIs
<1> HIDE DEF u
<1>6. /\ v \in Seq(Nat) /\ Len(v) = 3 * (n - l) - 3
      /\ \A k \in 1..(3 * (n - l) - 3) : v[k] = u[k + 1]
  BY <1>1, <1>5, TailIs
<1> HIDE DEF v
<1>7. \A k \in 1..Len(v) : v[k] = w[k]
  <2> SUFFICES ASSUME NEW k \in 1..Len(v) PROVE v[k] = w[k]  OBVIOUS
  <2>1. /\ v[k] = u[k + 1] /\ u[k + 1] = t[k + 2] /\ t[k + 2] = s[k + 3]
    <3>1. /\ k \in 1..(3 * (n - l) - 3) /\ k + 1 \in 1..(3 * (n - l) - 2)
          /\ k + 2 \in 1..(3 * (n - l) - 1)
      BY <1>1, <1>6
    <3>2. /\ v[k] = u[k + 1] /\ u[k + 1] = t[(k + 1) + 1]
          /\ t[k + 2] = s[(k + 2) + 1]
      BY <1>4, <1>5, <1>6, <3>1, Zenon
    <3>3. (k + 1) + 1 = k + 2 /\ (k + 2) + 1 = k + 3  OBVIOUS
    <3> QED  BY <3>2, <3>3
  <2>2. s[k + 3] = Tokens(trace)[3 * l + (k + 3)]
    <3>1. k + 3 \in 1..(3 * (n - l))  BY <1>1, <1>6
    <3> QED  BY <1>2, <3>1, Zenon
  <2>3. w[k] = Tokens(trace)[3 * l + 3 + k]  BY <1>3, <1>6
  <2>4. 3 * l + 3 + k = 3 * l + (k + 3)  BY <1>1
  <2> QED  BY <2>1, <2>2, <2>3, <2>4
<1>8. v = w  BY <1>3, <1>6, <1>7, SeqEqual
<1>9. s[1] = trace[l + 1].sender /\ s[2] = trace[l + 1].receiver
  <2>1. 1 \in 1..(3 * (n - l)) /\ 2 \in 1..(3 * (n - l))  BY <1>1
  <2>2. s[1] = Tokens(trace)[3 * l + 1] /\ s[2] = Tokens(trace)[3 * l + 2]
    BY <1>2, <2>1, Zenon
  <2>3. /\ Tokens(trace)[3 * l + 1] = trace[l + 1].sender
        /\ Tokens(trace)[3 * l + 2] = trace[l + 1].receiver
    BY TokenAt
  <2> QED  BY <2>2, <2>3, Zenon
<1> QED  BY <1>2, <1>8, <1>9 DEF s, t, u, v, w

\* What the two ids and the amount of a transaction leave.
Read(s) == ReadAmount(ReadId(ReadId(s)))

LEMMA ReadIdIs ==
  ASSUME NEW s \in Seq(Nat), Len(s) > 0, s[1] = 1
  PROVE  ReadId(s) = Tail(s)
<1>1. s # <<>> /\ ~(s[1] > 1)  BY EmptySeq, LenProperties
<1> QED  BY <1>1 DEF ReadId

\* A transaction takes a line with two ids of one digit.
LEMMA ReadLine ==
  ASSUME NEW s \in Seq(Nat), Len(s) > 2, s[1] = 1, s[2] = 1
  PROVE  Read(s) = Tail(Tail(Tail(s)))
<1> DEFINE t == Tail(s)
           u == Tail(t)
<1>1. /\ t \in Seq(Nat) /\ Len(t) = Len(s) - 1 /\ Len(s) \in Nat
      /\ \A k \in 1..(Len(s) - 1) : t[k] = s[k + 1]
  <2>1. Len(s) \in Nat /\ Len(s) > 0  BY LenProperties
  <2> QED  BY <2>1, TailIs
<1>2. 1 \in 1..(Len(s) - 1)  BY <1>1
<1>3. t[1] = 1 /\ Len(t) > 0  BY <1>1, <1>2
<1>4. ReadId(s) = t
  <2>1. Len(s) > 0  BY <1>1
  <2> QED  BY <2>1, ReadIdIs
<1> HIDE DEF t
<1>5. u \in Seq(Nat) /\ Len(u) = Len(t) - 1 /\ Len(u) > 0
  BY <1>1, <1>3, TailIs
<1>6. ReadId(t) = u  BY <1>1, <1>3, ReadIdIs
<1> HIDE DEF u
<1>7. u # <<>>  BY <1>5, EmptySeq
<1>8. ReadAmount(u) = Tail(u)  BY <1>7 DEF ReadAmount
<1> QED  BY <1>4, <1>6, <1>8 DEF Read, t, u

----------------------------------------------------------------------------
(* The batches *)

\* Full batches, and then one that is not empty.
Filled(n) == (vec - 1) * BatchSize < n /\ n <= vec * BatchSize

\* The batches when n lines have been read.
Batches(n) ==
  /\ n > 0 => zero
  /\ eof => text = <<>>
  /\ reading = "batch" => i <= BatchSize /\ n = vec * BatchSize + i
  /\ reading = "file" /\ ~eof => n = vec * BatchSize
  /\ reading = "file" /\ eof => Filled(n)
  /\ reading = "done" => eof /\ Filled(n)

ReaderInv ==
  /\ trace \in Seq(Line) /\ i \in Nat /\ vec \in Nat
  /\ eof \in BOOLEAN /\ zero \in BOOLEAN
  /\ reading \in {"file", "batch", "done"}
  /\ trace # <<>> /\ OneDigit =>
       \E n \in 0..Len(trace) : text = Rest(n) /\ Batches(n)

\* Once there is no text, every line was read.
LEMMA AllRead ==
  ASSUME trace \in Seq(Line), NEW n \in 0..Len(trace), text = Rest(n),
         text = <<>>
  PROVE  n = Len(trace)
<1>1. Len(trace) \in Nat /\ Len(text) = 0  BY LineParts, EmptySeq
<1>2. Len(Rest(n)) = 3 * (Len(trace) - n)  BY RestType
<1> QED  BY <1>1, <1>2

LEMMA TraceNotEmpty ==
  ASSUME trace \in Seq(Line), trace # <<>>
  PROVE  Len(trace) \in Nat /\ Len(trace) > 0
BY EmptySeq, LenProperties

LEMMA ReadReaches ==
  ASSUME trace \in Seq(Line), OneDigit, NEW n \in 0..Len(trace),
         text = Rest(n), text # <<>>
  PROVE  n + 1 \in 0..Len(trace) /\ Read(text) = Rest(n + 1)
<1>1. Len(trace) \in Nat  BY LineParts
<1>2. text \in Seq(Nat) /\ Len(text) = 3 * (Len(trace) - n)  BY RestType
<1>3. n \in 0..(Len(trace) - 1)
  <2>1. Len(text) # 0  BY <1>2, EmptySeq
  <2> QED  BY <1>1, <1>2, <2>1
<1>4. /\ Len(text) > 2
      /\ text[1] = trace[n + 1].sender /\ text[2] = trace[n + 1].receiver
      /\ Tail(Tail(Tail(text))) = Rest(n + 1)
  BY <1>3, RestTail
<1>5. text[1] = 1 /\ text[2] = 1
  <2>1. n + 1 \in 1..Len(trace) /\ DOMAIN trace = 1..Len(trace)
    BY <1>1, <1>3, LenProperties
  <2> QED  BY <1>4, <2>1 DEF OneDigit
<1>6. Read(text) = Tail(Tail(Tail(text)))  BY <1>2, <1>4, <1>5, ReadLine
<1>7. n + 1 \in 0..Len(trace)  BY <1>1, <1>3
<1> QED  BY <1>4, <1>6, <1>7

LEMMA BatchTimes ==
  ASSUME NEW v \in Nat, NEW b \in Nat
  PROVE  /\ v * b \in Nat /\ (v + 1) * b = v * b + b
         /\ (v - 1) * b = v * b - b
BY Z3

LEMMA ReaderInvInit ==
  ASSUME ReaderInit
  PROVE  ReaderInv
<1>1. /\ trace \in Seq(Line) /\ text = Tokens(trace)
      /\ eof = FALSE /\ zero \in BOOLEAN /\ i = 0 /\ vec = 0
      /\ reading = "file"
  BY TracesAssumption DEF ReaderInit
<1>2. Len(trace) \in Nat /\ BatchSize \in Nat  BY <1>1, LineParts
<1>3. text = Rest(0)
  <2>1. Len(trace) - 0 = Len(trace)  BY <1>2
  <2>2. \A k \in 1..(3 * Len(trace)) : 3 * 0 + k = k  BY <1>2
  <2>3. Rest(0) = [k \in 1..(3 * Len(trace)) |-> Tokens(trace)[k]]
    BY <2>1, <2>2 DEF Rest
  <2>4. Tokens(trace) = [k \in 1..(3 * Len(trace)) |-> Tokens(trace)[k]]
    BY DEF Tokens
  <2> QED  BY <1>1, <2>3, <2>4
<1>4. Batches(0)  BY <1>1, <1>2 DEF Batches
<1>5. 0 \in 0..Len(trace)  BY <1>2
<1> QED  BY <1>1, <1>3, <1>4, <1>5 DEF ReaderInv

LEMMA ReaderInvNext ==
  ASSUME ReaderInv, [ReaderNext]_readerVars
  PROVE  ReaderInv'
<1>1. /\ trace \in Seq(Line) /\ i \in Nat /\ vec \in Nat
      /\ eof \in BOOLEAN /\ zero \in BOOLEAN
      /\ reading \in {"file", "batch", "done"}
  BY DEF ReaderInv
<1>2. BatchSize \in Nat /\ BatchSize > 0  BY <1>1, LineParts
<1>3. trace' = trace
  BY DEF ReaderNext, readerVars, StartBatch, ReadTransaction, ReadEnd, EndBatch
<1>4. /\ i' \in Nat /\ vec' \in Nat /\ eof' \in BOOLEAN /\ zero' \in BOOLEAN
      /\ reading' \in {"file", "batch", "done"}
  <2>1. CASE StartBatch  BY <1>1, <2>1 DEF StartBatch
  <2>2. CASE ReadTransaction  BY <1>1, <2>2 DEF ReadTransaction
  <2>3. CASE ReadEnd
    <3>1. /\ eof' = TRUE /\ (zero' = zero \/ zero' = TRUE)
          /\ vec' = vec /\ reading' = reading /\ (i' = i \/ i' = i + 1)
      BY <2>3, Zenon DEF ReadEnd
    <3>2. i' \in Nat  BY <1>1, <3>1
    <3>3. zero' \in BOOLEAN /\ eof' \in BOOLEAN  BY <1>1, <3>1, Zenon
    <3> QED  BY <1>1, <3>1, <3>2, <3>3, Zenon
  <2>4. CASE EndBatch  BY <1>1, <2>4 DEF EndBatch
  <2>5. CASE UNCHANGED readerVars  BY <1>1, <2>5 DEF readerVars
  <2> QED  BY <2>1, <2>2, <2>3, <2>4, <2>5 DEF ReaderNext
<1>5. SUFFICES ASSUME trace # <<>>, OneDigit
      PROVE  \E m \in 0..Len(trace) : text' = Rest(m)' /\ Batches(m)'
  BY <1>1, <1>3, <1>4 DEF ReaderInv, OneDigit
<1>6. PICK n \in 0..Len(trace) : text = Rest(n) /\ Batches(n)
  BY <1>5 DEF ReaderInv
<1>7. Len(trace) \in Nat /\ Len(trace) > 0 /\ n \in Nat
  BY <1>1, <1>5, TraceNotEmpty
<1>8. \A m : Rest(m)' = Rest(m)  BY <1>3 DEF Rest
<1>9. /\ n > 0 => zero
      /\ eof => text = <<>>
      /\ reading = "batch" => i <= BatchSize /\ n = vec * BatchSize + i
      /\ reading = "file" /\ ~eof => n = vec * BatchSize
      /\ reading = "file" /\ eof => Filled(n)
      /\ reading = "done" => eof /\ Filled(n)
  BY <1>6 DEF Batches
<1> DEFINE p == vec * BatchSize
<1>10. p \in Nat  BY <1>1, <1>2, BatchTimes
<1>11. CASE StartBatch
  <2>1. /\ reading = "file" /\ reading' = IF eof THEN "done" ELSE "batch"
        /\ i' = 0 /\ text' = text /\ eof' = eof /\ zero' = zero /\ vec' = vec
    BY <1>11 DEF StartBatch
  <2>2. Batches(n)'
    <3>1. CASE eof
      BY <1>9, <2>1, <3>1 DEF Filled, Batches
    <3>2. CASE ~eof
      <4>1. n = p /\ p + 0 = p  BY <1>9, <1>10, <2>1, <3>2
      <4> QED  BY <1>2, <1>9, <2>1, <3>2, <4>1 DEF Batches
    <3> QED  BY <3>1, <3>2
  <2> QED  BY <1>6, <1>8, <2>1, <2>2
<1>12. CASE ReadTransaction
  <2>1. /\ reading = "batch" /\ i < BatchSize /\ ~eof /\ text # <<>>
        /\ text' = Read(text) /\ zero' = TRUE /\ i' = i + 1
        /\ eof' = eof /\ vec' = vec /\ reading' = reading
    BY <1>12 DEF ReadTransaction, Read
  <2>2. n + 1 \in 0..Len(trace) /\ text' = Rest(n + 1)'
    BY <1>1, <1>5, <1>6, <1>8, <2>1, ReadReaches
  <2>3. Batches(n + 1)'
    <3>1. n = p + i  BY <1>9, <2>1
    <3>2. n + 1 = p + (i + 1) /\ i + 1 <= BatchSize
      BY <1>1, <1>2, <1>10, <2>1, <3>1
    <3> QED  BY <2>1, <3>2 DEF Batches
  <2> QED  BY <2>2, <2>3
<1>13. CASE ReadEnd
  <2>1. /\ reading = "batch" /\ i < BatchSize /\ ~eof /\ text = <<>>
        /\ eof' = TRUE
        /\ IF zero THEN UNCHANGED <<i, zero>> ELSE i' = i + 1 /\ zero' = TRUE
        /\ text' = text /\ vec' = vec /\ reading' = reading
    BY <1>13 DEF ReadEnd
  <2>2. n > 0  BY <1>1, <1>6, <1>7, <2>1, AllRead
  <2>3. zero /\ i' = i /\ zero' = zero  BY <1>9, <2>1, <2>2
  <2>4. Batches(n)'  BY <1>9, <2>1, <2>3 DEF Batches
  <2> QED  BY <1>6, <1>8, <2>1, <2>4
<1>14. CASE EndBatch
  <2>1. /\ reading = "batch" /\ (i >= BatchSize \/ eof)
        /\ vec' = IF i # 0 THEN vec + 1 ELSE vec
        /\ reading' = "file" /\ text' = text /\ eof' = eof /\ zero' = zero
    BY <1>14 DEF EndBatch
  <2>2. n = p + i /\ i <= BatchSize  BY <1>9, <2>1
  <2>3. /\ (vec + 1) * BatchSize = p + BatchSize
        /\ (vec - 1) * BatchSize = p - BatchSize
        /\ (vec + 1) - 1 = vec
    BY <1>1, <1>2, BatchTimes
  <2>4. CASE i # 0
    <3>1. vec' = vec + 1 /\ vec' - 1 = vec  BY <1>1, <2>1, <2>4
    <3>2. p < n /\ n <= p + BatchSize /\ (~eof => n = p + BatchSize)
      BY <1>1, <1>2, <1>7, <1>10, <2>1, <2>2, <2>4
    <3>3. vec' * BatchSize = p + BatchSize /\ (vec' - 1) * BatchSize = p
      BY <2>3, <3>1
    <3> HIDE DEF p
    <3>4. Batches(n)'  BY <1>9, <2>1, <3>2, <3>3 DEF Batches, Filled
    <3> QED  BY <1>6, <1>8, <2>1, <3>4
  <2>5. CASE i = 0
    <3>1. vec' = vec /\ eof  BY <1>2, <2>1, <2>5
    <3>2. n = p /\ p - BatchSize < n  BY <1>2, <1>7, <1>10, <2>2, <2>5
    <3>3. vec' * BatchSize = p /\ (vec' - 1) * BatchSize = p - BatchSize
      BY <2>3, <3>1
    <3> HIDE DEF p
    <3>4. p <= p  BY <1>10
    <3>5. Batches(n)'  BY <1>9, <2>1, <3>1, <3>2, <3>3, <3>4 DEF Batches, Filled
    <3> QED  BY <1>6, <1>8, <2>1, <3>5
  <2> QED  BY <2>4, <2>5
<1>15. CASE UNCHANGED readerVars
  <2>1. text' = text /\ Batches(n)'
    BY <1>6, <1>15 DEF readerVars, Batches, Filled
  <2> QED  BY <1>6, <1>8, <2>1
<1> QED  BY <1>11, <1>12, <1>13, <1>14, <1>15 DEF ReaderNext

LEMMA FilledFromInv ==
  ASSUME ReaderInv
  PROVE  BatchesFilled
<1> SUFFICES ASSUME trace # <<>>, OneDigit
    PROVE  /\ reading = "batch" => text = Rest(vec * BatchSize + i)
           /\ reading = "done" => Filled(Len(trace))
  BY DEF BatchesFilled, Filled
<1>1. trace \in Seq(Line)  BY DEF ReaderInv
<1>2. PICK n \in 0..Len(trace) : text = Rest(n) /\ Batches(n)
  BY DEF ReaderInv
<1>3. reading = "batch" => n = vec * BatchSize + i  BY <1>2 DEF Batches
<1>4. reading = "done" => text = <<>> /\ Filled(n)  BY <1>2 DEF Batches
<1>5. reading = "done" => n = Len(trace)  BY <1>1, <1>2, <1>4, AllRead
<1> QED  BY <1>2, <1>3, <1>4, <1>5

\* Every line of a trace that is not empty and whose ids have one digit counts
\* once, in order, and only the last batch is not full, for every such trace
\* and every size of a batch; what the batches hold is not part of it
\* (transaction_reader.h:42-66).
THEOREM ReaderFills == ReaderSpec => []BatchesFilled
<1>1. ReaderInit => ReaderInv  BY ReaderInvInit
<1>2. ReaderInv /\ [ReaderNext]_readerVars => ReaderInv'  BY ReaderInvNext
<1>3. ReaderInv => BatchesFilled  BY FilledFromInv
<1> QED  BY <1>1, <1>2, <1>3, PTL DEF ReaderSpec

----------------------------------------------------------------------------
(* checkMajority *)

MajorityTypeInv ==
    /\ call \in Calls
    /\ largest \in Nat /\ second_largest \in Nat
    /\ largest_block \in Nat /\ it \in Nat
    /\ pc \in {"start", "loop", "true", "false"}

\* In the loop, among the replies before the iterator, largest is the count of
\* largest_block and second_largest the largest count of the others.
MajorityLoopInv ==
    pc \in {"start", "loop"} =>
        /\ pc = "start" => largest_block = 0
        /\ pc = "loop" =>
            /\ it <= Len(call.messages) + 1
            /\ largest_block < it
            /\ largest = Count(largest_block)
            /\ second_largest <= largest
            /\ \A j \in 0..(it - 1) :
                  j # largest_block => Count(j) <= second_largest
            /\ \E j \in 0..(it - 1) :
                  j # largest_block /\ Count(j) = second_largest

MajorityInv == MajorityTypeInv /\ MajorityLoopInv /\ MajorityIsFinal

\* Calls of checkMajority as the code makes them (application.cc:217).
LEMMA CallTyped ==
    ASSUME call \in Calls
    PROVE  /\ call.i \in Nat /\ call.n_peers \in Nat /\ call.no_block \in Nat
           /\ call.i <= call.n_peers
           /\ Len(call.messages) \in Nat
           /\ \A k \in 1..Len(call.messages) : call.messages[k] \in Nat
           /\ \A k \in 0..Len(call.messages) : Count(k) \in Nat
  <1>1. call.messages \in Seq(Nat \ {0})
    BY CallsAssumption
  <1>2. Len(call.messages) \in Nat
    BY <1>1
  <1>3. \A k \in 1..Len(call.messages) : call.messages[k] \in Nat
    BY <1>1
  <1>4. call.no_block \in Nat
    BY CallsAssumption
  <1>5. \A k \in 0..Len(call.messages) : Count(k) \in Nat
    BY <1>2, <1>3, <1>4 DEF Count
  <1> QED BY <1>2, <1>3, <1>4, <1>5, CallsAssumption

LEMMA MajorityInvInit == Init => MajorityInv
  BY DEF Init, MajorityInv, MajorityTypeInv, MajorityLoopInv, MajorityIsFinal

\* The first iteration (application.cc:231-246).
LEMMA MajorityInvFirst == MajorityInv /\ First => MajorityInv'
  <1> SUFFICES ASSUME MajorityInv, First PROVE MajorityInv'
    OBVIOUS
  <1> USE DEF First
  <1>1. call \in Calls /\ call' = call /\ pc' = "loop" /\ it' = 2
    BY DEF MajorityInv, MajorityTypeInv
  <1>2. /\ Len(call.messages) \in Nat /\ Len(call.messages) > 0
        /\ call.messages[1] \in Nat /\ call.no_block \in Nat
    <2>1. call.messages \in Seq(Nat \ {0}) /\ call.messages # <<>>
      BY <1>1, CallsAssumption
    <2> QED BY <2>1, <1>1, CallTyped
  <1>3. largest_block = 0
    BY DEF MajorityInv, MajorityLoopInv
  <1>4. MajorityTypeInv'
    BY <1>1, <1>2, <1>3 DEF MajorityInv, MajorityTypeInv
  <1>5. MajorityLoopInv'
    <2>1. Count(0)' = call.no_block /\ Count(1)' = call.messages[1]
      BY <1>1 DEF Count
    <2>2. \A j \in 0..(it' - 1) : j = 0 \/ j = 1
      BY <1>1
    <2>3. 0 \in 0..(it' - 1) /\ 1 \in 0..(it' - 1)
      BY <1>1
    <2>4. CASE call.messages[1] > call.no_block
      <3>1. /\ largest' = call.messages[1] /\ second_largest' = call.no_block
            /\ largest_block' = 1
        BY <2>4, <1>2
      <3> QED BY <3>1, <2>1, <2>2, <2>3, <2>4, <1>1, <1>2 DEF MajorityLoopInv
    <2>5. CASE call.messages[1] <= call.no_block
      <3>1. /\ largest' = call.no_block /\ second_largest' = call.messages[1]
            /\ largest_block' = 0
        BY <2>5, <1>2, <1>3
      <3> QED BY <3>1, <2>1, <2>2, <2>3, <2>5, <1>1, <1>2 DEF MajorityLoopInv
    <2> QED BY <2>4, <2>5, <1>2
  <1> QED BY <1>1, <1>4, <1>5 DEF MajorityInv, MajorityIsFinal

\* A following iteration (application.cc:247-255).
LEMMA MajorityInvFollowing == MajorityInv /\ Following => MajorityInv'
  <1> SUFFICES ASSUME MajorityInv, Following PROVE MajorityInv'
    OBVIOUS
  <1> DEFINE n == call.messages[it]
  <1>1. /\ call \in Calls /\ call' = call /\ pc = "loop" /\ pc' = "loop"
        /\ it' = it + 1 /\ it <= Len(call.messages)
        /\ it \in Nat /\ largest \in Nat /\ second_largest \in Nat
        /\ largest_block \in Nat
    BY DEF MajorityInv, MajorityTypeInv, Following
  <1>2. /\ largest_block < it /\ largest = Count(largest_block)
        /\ second_largest <= largest
        /\ \A j \in 0..(it - 1) :
              j # largest_block => Count(j) <= second_largest
    BY <1>1 DEF MajorityInv, MajorityLoopInv
  <1>3. PICK w \in 0..(it - 1) :
              w # largest_block /\ Count(w) = second_largest
    BY <1>1 DEF MajorityInv, MajorityLoopInv
  <1>4. /\ Len(call.messages) \in Nat /\ n \in Nat /\ it > 0
        /\ Count(it) = n
    <2>1. it > 0
      BY <1>1, <1>2
    <2> QED BY <2>1, <1>1, CallTyped DEF Count
  <1>5. \A j : Count(j)' = Count(j)
    BY <1>1 DEF Count
  <1>6. \A j \in 0..(it' - 1) : j \in 0..(it - 1) \/ j = it
    BY <1>1
  <1>7. it \in 0..(it' - 1) /\ \A j \in 0..(it - 1) : j \in 0..(it' - 1) /\ j # it
    BY <1>1
  <1>8. largest_block \in 0..(it - 1)
    BY <1>1, <1>2
  <1>9. \A j \in 0..(it - 1) : Count(j) \in Nat
    BY <1>1, <1>4, CallTyped
  <1>10. /\ largest' \in Nat /\ second_largest' \in Nat
         /\ largest_block' \in Nat
         /\ largest_block' < it' /\ largest' = Count(largest_block')
         /\ second_largest' <= largest'
         /\ \A j \in 0..(it' - 1) :
               j # largest_block' => Count(j) <= second_largest'
         /\ \E j \in 0..(it' - 1) :
               j # largest_block' /\ Count(j) = second_largest'
    <2>1. CASE n > largest
      <3>1. largest' = n /\ second_largest' = largest /\ largest_block' = it
        BY <2>1, <1>1, <1>2, <1>4 DEF Following
      <3>2. \A j \in 0..(it - 1) : Count(j) <= largest
        BY <1>1, <1>2, <1>9
      <3> QED BY <3>1, <3>2, <2>1, <1>1, <1>2, <1>4, <1>6, <1>7, <1>8
    <2>2. CASE n <= largest /\ n > second_largest
      <3>1. /\ largest' = largest /\ second_largest' = n
            /\ largest_block' = largest_block
        BY <2>2, <1>1, <1>2, <1>4 DEF Following
      <3>2. \A j \in 0..(it - 1) : j # largest_block => Count(j) <= n
        BY <2>2, <1>1, <1>2, <1>4, <1>9
      <3> QED BY <3>1, <3>2, <2>2, <1>1, <1>2, <1>4, <1>6, <1>7, <1>8
    <2>3. CASE n <= second_largest
      <3>1. /\ largest' = largest /\ second_largest' = second_largest
            /\ largest_block' = largest_block
        BY <2>3, <1>1, <1>2, <1>4 DEF Following
      <3> QED BY <3>1, <2>3, <1>1, <1>2, <1>3, <1>4, <1>6, <1>7, <1>8
    <2> QED BY <2>1, <2>2, <2>3, <1>1, <1>4
  <1>11. MajorityTypeInv'
    BY <1>1, <1>10 DEF MajorityTypeInv
  <1>12. MajorityLoopInv'
    BY <1>1, <1>4, <1>5, <1>10 DEF MajorityLoopInv
  <1> QED BY <1>1, <1>11, <1>12 DEF MajorityInv, MajorityIsFinal

\* The comparison behind the loop (application.cc:258-265).
LEMMA MajorityInvCompare == MajorityInv /\ Compare => MajorityInv'
  <1> SUFFICES ASSUME MajorityInv, Compare PROVE MajorityInv'
    OBVIOUS
  <1> DEFINE rest == call.n_peers - call.i
  <1>1. /\ call \in Calls /\ call' = call /\ pc = "loop"
        /\ it > Len(call.messages)
        /\ it \in Nat /\ largest \in Nat /\ second_largest \in Nat
        /\ largest_block \in Nat /\ largest_block' = largest_block
        /\ pc' = IF largest > second_largest + rest THEN "true" ELSE "false"
    BY DEF MajorityInv, MajorityTypeInv, Compare
  <1>2. /\ it <= Len(call.messages) + 1
        /\ largest_block < it /\ largest = Count(largest_block)
        /\ second_largest <= largest
        /\ \A j \in 0..(it - 1) :
              j # largest_block => Count(j) <= second_largest
    BY <1>1 DEF MajorityInv, MajorityLoopInv
  <1>3. PICK w \in 0..(it - 1) :
              w # largest_block /\ Count(w) = second_largest
    BY <1>1 DEF MajorityInv, MajorityLoopInv
  <1>4. Len(call.messages) \in Nat /\ rest \in Nat
    BY <1>1, CallTyped
  <1>5. it - 1 = Len(call.messages)
    BY <1>1, <1>2, <1>4
  <1>6. \A j \in Replies : Count(j) \in Nat
    BY <1>1, CallTyped DEF Replies
  <1>7. /\ largest_block \in Replies /\ w \in Replies
        /\ \A j \in Replies : j # largest_block => Count(j) <= second_largest
    BY <1>1, <1>2, <1>3, <1>5 DEF Replies
  <1>8. ASSUME largest > second_largest + rest
        PROVE  Leads(largest_block)
    BY <1>1, <1>2, <1>4, <1>6, <1>7, <1>8 DEF Leads
  <1>9. ASSUME ~(largest > second_largest + rest), NEW k \in Replies
        PROVE  ~Leads(k)
    <2>1. CASE k = largest_block
      <3>1. ~(Count(k) > Count(w) + rest)
        BY <2>1, <1>2, <1>3, <1>9
      <3> QED BY <3>1, <2>1, <1>3, <1>7 DEF Leads
    <2>2. CASE k # largest_block
      <3>1. ~(Count(k) > Count(largest_block) + rest)
        BY <2>2, <1>1, <1>2, <1>4, <1>6, <1>7
      <3> QED BY <3>1, <2>2, <1>7 DEF Leads
    <2> QED BY <2>1, <2>2
  <1>10. Replies' = Replies /\ \A k : Leads(k)' = Leads(k)
    BY <1>1 DEF Replies, Leads, Count
  <1>11. MajorityTypeInv'
    BY <1>1 DEF MajorityInv, MajorityTypeInv, Compare
  <1>12. MajorityLoopInv'
    BY <1>1 DEF MajorityLoopInv
  <1>13. MajorityIsFinal'
    BY <1>1, <1>7, <1>8, <1>9, <1>10 DEF MajorityIsFinal
  <1> QED BY <1>11, <1>12, <1>13 DEF MajorityInv

\* Every step keeps the invariant.
LEMMA MajorityInvNext == MajorityInv /\ [Next]_vars => MajorityInv'
  <1> SUFFICES ASSUME MajorityInv, [Next]_vars PROVE MajorityInv'
    OBVIOUS
  <1>1. CASE TooFew
    <2>1. call' = call /\ call \in Calls /\ pc' = "false"
          /\ call.i < call.n_peers \div 2
      BY <1>1 DEF TooFew, MajorityInv, MajorityTypeInv
    <2>2. ~(call'.i >= call'.n_peers \div 2)
      BY <2>1, CallTyped
    <2>3. MajorityTypeInv'
      BY <1>1 DEF TooFew, MajorityInv, MajorityTypeInv
    <2> QED BY <2>1, <2>2, <2>3 DEF MajorityInv, MajorityLoopInv, MajorityIsFinal
  <1>2. CASE NoMessages
    BY <1>2 DEF NoMessages, MajorityInv, MajorityTypeInv, MajorityLoopInv,
            MajorityIsFinal
  <1>3. CASE First
    BY <1>3, MajorityInvFirst
  <1>4. CASE Following
    BY <1>4, MajorityInvFollowing
  <1>5. CASE Compare
    BY <1>5, MajorityInvCompare
  <1>6. CASE UNCHANGED vars
    BY <1>6 DEF vars, MajorityInv, MajorityTypeInv, MajorityLoopInv,
            MajorityIsFinal, Leads, Replies, Count
  <1> QED BY <1>1, <1>2, <1>3, <1>4, <1>5, <1>6 DEF Next

\* With blocks found and half of the clients heard, checkMajority is true
\* exactly if some reply leads whatever the others will say, and it returns
\* that reply, for any replies (application.cc:217-273).
THEOREM MajorityFound == Spec => []MajorityIsFinal
  <1>1. Init => MajorityInv
    BY MajorityInvInit
  <1>2. MajorityInv /\ [Next]_vars => MajorityInv'
    BY MajorityInvNext
  <1>3. MajorityInv => MajorityIsFinal
    BY DEF MajorityInv
  <1> QED BY <1>1, <1>2, <1>3, PTL DEF Spec
=============================================================================
