# A TLA+ model of the DPS2 proof-of-work blockchain

This directory models the peer-to-peer blockchain of this repository: the peers
(`application/application.cc`), the tracker through which they find each other
(`application/p2p/tracker.c`, `queue.c`, `db.c`), the part of a peer that talks
to the tracker and receives messages (`application/p2p/peer.c`), their checksum
(`application/p2p/crc.c`), the search for a proof of work (`application/pow`) and
the reading of a trace (`application/transaction_reader.h`). The modules are checked with
TLC on small networks, and theorems about them are proved with TLAPS for all values of
the constants.
Paths below are relative to `src/application/`.

## 1. The system

A *tracker* keeps a table of the peers that are online. Each *peer* holds a copy
of the blockchain and a list of transaction batches it wants to add. The parts:

| Part | State | Operations | Talks to |
|---|---|---|---|
| Application (`application.cc`) | chain, transactions, candidates, inbox, the locals of its nested calls | `Run` and everything below it | other peers by UDP; its two helper threads |
| Blockchain, Block | vector of blocks, genesis first | `AddBlock`, `SneakPeekBlock`, `GetTopHash`, `Size` | called by Application |
| Inbox (`lock_vector.h`) | vector and mutex | push by the inbox thread, pop and put-back by the main thread | shared by the two threads |
| Peer library (`p2p/peer.c`) | `network_info`, `is_online`, `was_offline` | `tracker_communication` (a thread), `should_refresh`, `broadcast`, `respond`, `receive` | tracker and peers |
| Tracker (`p2p/tracker.c`) | socket, queue, `found`, handler threads | `handle_mailbox` (a thread), `handle_requests`, one thread per request | queue, database, peers |
| Queue (`p2p/queue.c`) | ring: `data`, `top`, `size` | `queue_enqueue`, `queue_dequeue`, scan by the mailbox | shared by mailbox and main thread |
| Database (`p2p/db.c`) | table PeerInfo: address (primary key), last heartbeat | exists, insert, update, count, select | shared by the handler threads |
| Checksum (`p2p/crc.c`, `common.c`) | none | `get_crc`, `check_crc` | every message |
| Proof of work (`pow/hashcash.cc`) | the key it tries | `SolveProblem`, `count_zeroes`, `CheckSolution` | called by Application |
| Transaction reader (`transaction_reader.h`) | the batches | `ReadFile` | called by Application at its start |
| SHA-256, SQLite, logger, entry and configuration, scripts | | | not modelled, see 8 |

How a block gets added. A peer with a transaction first brings its chain up to
date (`RequestBlockchain`): it broadcasts REQUESTBLOCK for the next index,
collects BLOCK and NOBLOCK replies until `checkMajority` finds that one reply
can no longer be overtaken, adds the block and goes on until a majority has no
further block. Then it builds a block on its top (`AddBlockToBlockchain`),
broadcasts ADDREQUEST and counts the VOTEs (`CheckVotesForBlock`). A peer that
receives an ADDREQUEST first brings its chain up to date as well, broadcasts its
own vote and counts those of the others. While a peer counts, a competing
ADDREQUEST for the same index with a smaller hash starts a *nested* vote.
Accepted blocks become candidates; at the end of the iteration
(`HandleAllBlockAdditionRequests`) the candidate with the smallest hash is added.

What is hard here, and what the properties are for:

- messages are lost, late, duplicated and reordered (UDP), and the loops read
  messages meant for other loops: each loop must answer, keep or drop every type;
- timeouts and retries: a vote times out at one peer and not at another;
- recursion: a vote inside a vote, each with its own counts and put-back list;
- the peer list changes under a running round or vote (tracker thread);
- replies of an earlier round end a later one, so that a refresh may stop early
  and must be repeated;
- buffers that two threads allocate, hand over, put back and free;
- `clients_seen`, `n_agrees`, `n_peers - i` are unsigned counts with early exits;
- in the tracker, check-then-act across SQL statements, a flag that outlives its
  message, a ring scanned while another thread empties it;
- the flag `was_offline`, shared by two threads without a lock;
- small sequential code at its limits: a mask that is a signed char, keys that
  grow and carry, the end of a file found by a read that fails.

`PROJECT.json` lists these hazards line by line with the property that covers
each, or why none does.

## 2. Modules

| Module | Models | Extends |
|---|---|---|
| `Application` | the peers and the network between them | |
| `SingleSource` | the deployment with one proposer, for which the chains agree | `Application` |
| `Ledger` | abstract: one append-only ledger, each peer holding a prefix | |
| `VoteHistory` | `Application` with the history of what was sent, which votes ended with true and whether one timed out | `Application` |
| `TwoProposers` | the deployment in which two peers compete | `VoteHistory` |
| `CheckMajority` | the loop of `checkMajority`, one step per iteration | |
| `Wire` | the datagrams between peers and tracker | |
| `Queue` | the ring buffer, as operators | |
| `Tracker` | mailbox thread, main thread, handler threads, database | `Wire`, `Queue` |
| `Fifo` | abstract: accepted requests are handled in order, once | |
| `Peer` | `tracker_communication`, the tracker thread of a peer | `Wire` |
| `Membership` | tracker and peers together | `Tracker`, `Peer` |
| `Crc` | the checksum, bit by bit | |
| `HashCash` | `SolveProblem` and `count_zeroes`, one step per key and per bit | |
| `TransactionReader` | `ReadFile`, one step per transaction | |
| `Inbox` | the buffers of received messages, as pointers | |
| `MCApplication`, `MCHistory`, `MCSource`, `MCCheckMajority`, `MCCrc`, `Scenarios` | constants of the runs | |
| `MCLocal` | the sequential parts side by side | `MCCheckMajority`, `MCCrc`, `HashCash`, `TransactionReader`, `Inbox` |
| `ApplicationProofs` | type correctness | `Application` |
| `SafetyProofs` | counts of votes and replies, candidates; transactions are kept | `ApplicationProofs` |
| `AgreementProofs` | agreement and refinement | `SingleSource`, `SafetyProofs` |
| `HistoryProofs` | candidates had a majority | `VoteHistory`, `SafetyProofs` |
| `ForkProofs` | the chains of two competing peers | `TwoProposers`, `HistoryProofs` |
| `MembershipProofs` | types, the scan and the ring; no second row | `Membership` |
| `CrcProofs` | the checksum of messages of even length | `Crc` |
| `LocalProofs` | the buffers, the count of zeros, the keys, the batches, the loop of `checkMajority` | `CrcProofs`, `Inbox`, `HashCash`, `TransactionReader`, `CheckMajority` |

### Application

State to code:

| Variable | Code |
|---|---|
| `bc` | `Application::bc` without genesis. A block is represented by the sequence of data of its chain up to itself, which stands for its hash: `Front` is the previous hash, `Last` the data |
| `transactions`, `candidates` | the members `transactions`, `addblock_candidates` |
| `pc`, `after` | where the main thread is, and to which caller `RequestBlockchain` returns |
| `held` | the ADDREQUEST of `Run` while it refreshes first (898-901) |
| `round` | `clients_seen`, `no_block_count`, `messages_received` of `RequestBlockchainBlock` |
| `votes` | the stack of activations of `CheckVotesForBlock`, innermost first |
| `aside` | `read_messages` of the running loop (those of votes are in `votes`) |
| `inbox`, `net` | the inbox, the datagrams in flight |
| `netinfo`, `online`, `wasOffline` | peer list and flags set by the tracker thread |
| `spent` | bound: how many idle refreshes, proposals and faults (timeouts and duplicates together) have occurred; an effort without a `Limit` is neither bounded nor counted |

One iteration of a loop - read one message, handle it, test the exit conditions,
put back what was set aside - is one action: `Conclude` and `LeaveRound` hold
what follows the switch in `RequestBlockchainBlock`, `CheckReturn` what follows
the loop of `CheckVotesForBlock` in itself and in its caller. Where a message may
arrive between the last look at the inbox and the put-back, the end of the loop is a
location and a step of its own: `AwaitTimeout` and `AwaitReturn`, `HandleAllBreak` and
`HandleAllFinish`, the `"timed out"` of a vote and `CheckReturn`. The other threads
of a peer are `Receive` (inbox thread) and `ReceiveNetinfo` (tracker thread),
interleaved with all of these.

Abstractions: SHA-256 does not collide. The block hash and proof-of-work checks
of `HandleBlockAdditionRequest` (533-545) succeed for every request that
`AddBlockToBlockchain` makes, and there are no other requests. `net` is a set:
two identical datagrams in flight are one, and a datagram may be delivered twice
(at the cost of a fault), late or never. The order of hashes is the constant `HashLeq`.
A timeout needs an empty inbox, as in the code, where only iterations that find
it empty count down. `should_refresh` reads and resets `was_offline` without a
lock: in `ReceiveNetinfo` the flag may therefore be lost while the main thread is
in `Run`.

### Tracker, Peer, Membership

`Tracker` has one action per critical section or SQL statement: `Mailbox` reads
a request and, for a heartbeat, scans the queue under its lock; `Push` enqueues
or discards it; `HandleRequest` dequeues and starts a thread; a heartbeat thread
does `Count`, `Select` (and sends the list), `Exists`, `Update`, an
acknowledgement thread `Registered`, then `Insert` or `Update`. `found` starts with
any value, since the code does not initialise it. A row is `absent`, `fresh`, or
`stale` once `TIMEOUT_THRESHOLD` has passed (`Expire`); stale rows exist but are not
listed. If the count and the selection disagree, entries without a row are
uninitialised (any peers), and rows beyond the array are not sent; beyond the
room malloc leaves (`MinRoom`, three entries with glibc) the tracker may abort.
A second `Insert` of one peer fails on the primary key and the tracker exits.

`Peer` has the two steps of the tracker thread: send a heartbeat; receive a list
and, if absent from it, acknowledge. A list that arrives garbled (`Lossy`) leaves
the list before it in place, and the peer looks itself up in that one (188-242).
`Membership` composes tracker and tracker threads. Its constant `Timely` names
the peers whose exchange with the tracker ends before their next heartbeat, five
seconds later: an assumption on the network, which the runs make or drop.

### Inbox

`Application` abstracts the inbox to a sequence of messages. `Inbox` keeps what that
abstraction hides: `receive` allocates a buffer and sets `msg` (83-112), the inbox
thread appends `msg` to the inbox unless it is NULL (`application.cc` 130-143), the
main thread takes a pointer, then frees the buffer or puts the pointer back.
`receive` sets `*message` to NULL where there is no message, where the data has a
wrong checksum and where the message is not for peers, but not where the
header has a wrong checksum: `SkipMessage` leaves `msg` as it is, and `msg` starts
uninitialised (`Garbage`). Behaviours end where the main thread would read a buffer
that is free.

### HashCash and TransactionReader

`HashCash` has one step for each key that `SolveProblem` tries (grow when the last
byte is full, then increment with carries from the first byte on) and one for each
bit that `count_zeroes` looks at. The hash of a key is arbitrary, so that
every sequence of successes and failures occurs. The mask is the set of bits that
a signed char has after its shifts to the right, which keep the sign: it selects
the bits above the current one too, all of them already found to be zero.
`CheckSolution` is one call of `count_zeroes`.

`TransactionReader` reads a trace as its tokens. Since `ID_TYPE` is char, reading an
id takes one character of a token and reading an amount takes the rest of one. Of
the three variables the model keeps whether all are zero, which decides whether the
end of the file counts as a transaction (54-57); at the start of an empty trace they
are uninitialised.

### Crc and CheckMajority

`Crc` follows `get_crc` on the buffer of two-byte blocks in little-endian order:
every 1 bit of all blocks but the last is removed by adding the shifted
polynomial. The shifts of the double-width polynomial are the index `at` of the
bit, and one iteration of the inner loop of `calc_crc` is one step (`Divide`). The
sender computes the sum (`StartSum`, `Sum`), a bit may be flipped on the way, and the
receiver divides once more, with the checksum appended (`StartCheck`, `Check`).
`CheckMajority` keeps the loop with its `largest`, `second_largest` and
`largest_block`; `Application` uses the closed form `MajorityForBlock`,
`MajorityForNoBlock`, and the theorem `MajorityFound` says that the loop computes it
where blocks have been found.

## 3. Properties

- `TypeOK` (one for the peers, one for the tracker).
- `VotesCounted`, `RepliesCounted`: counts add up, nobody counts twice, the
  unsigned difference never wraps - whatever is duplicated, late or nested.
- `CandidatesAreNext`: only blocks of the current index become candidates.
- `NoTransactionLost`: a transaction is dropped only when its data enters the chain.
- `Endorsed`: for every candidate a majority of the peers that were asked were in favour:
  other peers that sent such a vote, each once, and the peer itself only if it agreed,
  whatever peer lists arrived while the votes were counted (history).
- `Agreement`, `ImplementsLedger`: with one proposer chains are prefixes of each
  other, and every step appends the next entry of one ledger.
- `ForksNeedTimeouts`: the chains of two competing proposers fork only after one of them
  has given a vote up. Rounds that time out and datagrams that are lost, late or duplicated
  do not make them fork. It is stated for two peers that know each other and any silent
  peers; with a third connected peer it is false, see section 7.
- `CatchesUp`: a peer that joins holds the whole chain in the end, for good,
  although single refreshes may end early.
- `MajorityIsFinal`: the loop of `checkMajority` finds a final majority iff there is one.
- `OneHeartbeatQueued`, `ImplementsFifo`: the scan and the ring.
- `InsertsNewPeers`, `StaysOnline`: registration.
- `Accepts`, `Detects`: the checksum.
- `LeadingZeroes`: the bit-by-bit count, over bytes and signs, agrees with
  "the first `difficulty` bits are zero".
- `KeysTriedOnce`: no key is repeated while it grows and carries, and a search that
  gives up has tried exactly the keys that the scheme reaches.
- `BatchesFilled`: the transactions counted so far are the lines read so far, in the
  order of the file, and end up in full batches and a last one that is not empty. It is
  stated for ids of one digit, for which a line is a transaction, as the generator of the
  traces means it; for longer ones it is false, see section 7. It is about how many
  transactions are read: the code stores none of their values.
- `OwnedUnlessSkipped`: every pointer in the inbox or in the hands of the main thread
  is a buffer that is allocated, and is there once, unless a header was wrong.

## 4. Runs

| Run | Instance | Shows |
|---|---|---|
| Votes | `MCHistory`: two proposers that know each other, a third peer that is asked and stays silent; 1 idle refresh, 2 proposals, 1 fault | `TypeOK`, `VotesCounted`, `Endorsed`, `ForksNeedTimeouts`, `NoTransactionLost` |
| Partition | `MCSource`: one proposer with 2 blocks and a follower whose list loses the proposer and regains it; 2 proposals, 2 faults | `CandidatesAreNext`, `Agreement`, `ImplementsLedger` |
| Join | `MCSource`: a peer joins two with 2 blocks, and refreshes without a limit; 1 fault; fairness | `RepliesCounted`, `Agreement`, `CatchesUp` |
| Local | `MCLocal`: each sequential part by itself | `MajorityIsFinal`, `Accepts`, `Detects`, `LeadingZeroes`, `KeysTriedOnce`, `BatchesFilled`, `OwnedUnlessSkipped` |
| Order | `Membership`: 1 peer with overlapping requests, loss and garbled lists, 2 threads, ring of 2 | `OneHeartbeatQueued`, `ImplementsFifo` |
| Register | `Membership`: 2 timely peers, 1 expiry, 2 threads, fairness | `TypeOK`, `InsertsNewPeers`, `StaysOnline` |
| SetAside | `MCApplication`: two proposers, inbox of 2 | violation, see 7 |
| Early | as Join with a fourth peer | violation, see 7 |
| Race | as Order, without loss | violation, see 7 |
| Spurned | 2 peers with overlapping requests | violation, see 7 |
| Stale | `Inbox` with 3 buffers | violation, see 7 |
| OddCrc | messages of 1 and 3 bytes | violation, see 7 |

The parts of `Local`, one per behaviour: every call of `checkMajority` with up to 5
peers and 3 blocks; messages of 2 and 4 bytes from 3 byte values under the real
polynomial, with at most 1 flipped bit; keys of up to 3 bytes of 4 values, hashes of 2
bytes of 2 bits and every difficulty from 1 to 3; traces of up to 4 lines, ids of one or
two digits and batches of 2; 3 buffers with up to 2 queued.

Why the bounds are enough to be interesting. Two proposers already give nested
votes, competing candidates, votes that give way and requests handled late; a
third voter gives majorities that are not unanimous; two peers that answer a
joining one give rounds in which replies disagree in time. Two blocks make a
round follow a round, so that replies of the first arrive in the second. `Limit`
bounds only what could be repeated for ever. A fault is a timeout or a duplicate:
in Partition a behaviour may have both, in Votes and Join it has one or the other,
which the theorems of section 6 make up for, since they hold for every number of both,
and for every peer list. An inbox longer than `MaxInbox`
only delays a delivery, which the unordered network allows anyway. In the tracker a
ring of two wraps after two requests, two threads give every race of two handlers,
and one expiry is enough for a peer to be forgotten. Three bytes let a key grow
twice and carry over two bytes; a hash of two bytes lets the count pass from one
to the next; a batch of two lets a trace end inside, at and after a batch.

Deadlock is not checked (`CHECK_DEADLOCK FALSE`) since every instance really may
stop: when all efforts are spent and no message is in flight the model of the peers
has no step, while the program would go on polling; the sequential parts end; and a
tracker that has exited stops.

Every property of a passing run has a mutant in `PROJECT.json`: an operator, marked
`Mutant` in the modules, that stands for a plausible bug and makes TLC find the
property violated.

## 5. Fairness

`Join` assumes of every peer that its main thread keeps running, that its inbox thread
keeps receiving while messages are in flight to it, and that its tracker thread gets a
list (weak fairness of `Main`, of `Receive` and of `ReceiveNetinfo`; each thread is a loop
that polls). One datagram may be passed over for ever, but not all of them. Idle refreshes are not limited:
`Run` refreshes whenever it is idle and told to, and a single refresh may end early. Faults are
finite: a network in which every round times out lets no peer catch up. Only one
peer refreshes; two that lack the same block and refresh together request it
of each other, count each other as heard without a block (368), and may end each other's
rounds for ever.

`Register` assumes that every thread keeps running (weak fairness of its steps: each is a
loop that polls every second) and that the socket hands datagrams over in their
order of arrival, so that the mailbox does not pass one over for ever (strong
fairness of reading each request). Datagrams are not lost in this run and the
peers are timely. Rows expire at most `MaxExpiries` times: a row that expired
again before each answer would keep its peer offline for ever.

The other runs are about safety and assume no fairness.

## 6. Proofs

All theorems hold for every number of peers, all data, traces, peer lists,
orders of hashes and bounds that satisfy the named assumptions.

The peers:

- `ApplicationProofs`, `TypeCorrect`: `Spec => []TypeOK`. `TypeOK` is not inductive:
  `AddBlockToBlockchain` takes the head of `transactions`, so that the invariant
  `TypeInv` adds `TransactionAtHand`: on its way from `RunTransaction` to
  `AddBlockToBlockchain` a peer has a transaction. One lemma per group of actions.
- `SafetyProofs`, `VotesAddUp`, `RepliesAddUp`, `CandidatesNext`: from one inductive
  invariant, `SafeInv`. It says what every message in flight, in the inbox, set aside or
  held satisfies (`NetInv`, `MailInv`: it comes from another peer and carries a block
  of its own index), that every activation of a vote is counted correctly relative to the
  chain's size (`VotingInv`), that candidates are for the current index
  (`CandidateInv`), that votes and candidates exist only in the phase that collects
  them (`PhaseInv` - which is why the chain cannot grow under a vote) and
  that a round in progress is not full (`RoundInv`).
- `SafetyProofs`, `TransactionsKept`: `Spec => NoTransactionLost`.
  `TransactionInv` adds to `SafeInv` that an activation or a candidate marked as the
  peer's own has the block that the peer builds on its chain for its first
  transaction (`OwnBlock`). When that candidate is added, the data that enters the
  chain is therefore the head of the list.
- `AgreementProofs`, `Agrees` and `Implements`: `Spec => []Agreement` and
  `Spec => ImplementsLedger` for one proposer (the named assumption `SourceAssumption`).
  `Whole` is the source's chain with the one block that the source may have proposed and
  not yet added; it is always made of its first transaction. `LedgerInv` says that
  every chain, and every block in flight, in an inbox, set aside, voted on or a
  candidate, is a beginning of `Whole`, and that what a round has found continues the
  chain it is for. `Whole` only grows, so nothing that was sent earlier becomes wrong. The
  ledger of the refinement is the longest chain; a step that adds to another
  chain adds the ledger's next entry.
- `HistoryProofs`, `CandidatesEndorsed`: `HistorySpec => []Endorsed`. The majority is of
  the peers that the activation asked, not of those in the list now; `passed` therefore
  keeps how many those were and the peer's own vote, and no assumption on the lists is
  needed. `HistoryInv` says that a VOTE in flight or in an inbox is in the history
  (`Known`), that the agreements of an activation are no more than the supporters it has
  seen and its own vote, which adds nothing when it is against (`Backed`, `InFavour`), and
  that what passed had a majority of them.
- `ForkProofs`, `ChainsForkOnlyByTimeouts`: `HistorySpec => []ForksNeedTimeouts` under the
  assumption `ProposersAssumption` of the module `TwoProposers` (two peers are in each other's
  lists, all others stay silent and load no longer or other chain) and the hypothesis
  `HashOrder`: of two blocks one has the smaller hash. The code compares hashes as strings,
  so that this says that different blocks have different hashes; transitivity is not
  needed. `ForksNeedTimeouts` is far from inductive. The proof has three layers:
  1. *What a step does.* `NextEffect` reduces the actions to eight effects on chains,
     proposals and votes (`Acts`: a peer `Chats`, `Syncs`, `Proposes`, `Handles` or
     `Refuses` a request, `Tallies` a vote, `Returns` from one, `Finishes`), so that the
     layers above do not look into the actions.
  2. *`PairInv`, of every run, timeouts included.* A peer has one proposal for every
     length, made for the end of its chain (`ProposalPart`); an activation has counted
     its own vote and at most that of the other (`VotePart`); what was added was proposed
     (`ChainPart`), and what a round has found is on the other chain (`RoundPart`). The
     theorem `ProposalsOnly` states the parts of it that are of interest by themselves.
  3. *`Aligned`, of the runs without a timeout of a vote.* The order of the hashes makes at
     most one of the two proposals for a length *leading*. A leading block that one peer
     supports is supported by both: once the other has agreed to it, the other adds it
     (`Supported`); once its proposer has announced it, the proposer adds it (`Confirmed`);
     a vote against it comes too late or too early to matter (`Rejected`); and no other
     vote starts within the vote on it (`Undisturbed`). So of the candidates of one index
     the best is the leading one (`BestLeads`), both chains get it (`FrontAgrees`), and
     one of them is a beginning of the other (`Comparable`).

The tracker:

- `MembershipProofs`, `TypeCorrect`: `Spec => []TypeOK`; the invariant adds that only
  requests are in the ring and that a busy thread has one.
- `HeartbeatsOnce`: `Spec => []OneHeartbeatQueued`. `ScanHolds` is the argument: only the
  mailbox thread adds to the ring, so that what its scan has not found is not there
  when it pushes, although the main thread has dequeued in between.
- `ImplementsAccepted`: `Spec => ImplementsFifo`. The lemmas on the ring show what
  `Enqueue` and `Dequeue` do to its contents, wherever the slots wrap.
- `NewPeersInserted`: `Spec => []InsertsNewPeers` under the assumption
  `Timely = Peers`. `OneExchange` says that the exchange a peer has with the tracker stands
  at one place only: a datagram, the item the mailbox holds, the ring, a handler or
  an answer. So no second thread can insert the row that a first one found missing.
  Without the assumption the property is false (the run Race).

The sequential parts:

- `LocalProofs`, `MajorityFound`: from the loop invariant `MajorityLoopInv`: among the
  replies before the iterator, `largest` is the count of `largest_block` and
  `second_largest` the largest of the others.
- `CrcProofs`, `EvenAccepts` and `EvenDetects`: `CrcSpec => []Accepts` and
  `CrcSpec => []Detects`, for every polynomial that has a second term (`PolyAssumption`),
  under the assumption `EvenMessages`: all messages have an even length. For an odd
  length neither `get_crc` nor `check_crc` is wrong by itself, but they disagree about
  where the checksum is, and the run OddCrc violates `Accepts`. `CrcInv` does not say
  what the division computes for a message, which would need an induction over data. It
  says of the buffer that it is the message with shifted polynomials added, at places
  before `at`, and that it is zero before `at` (`Reduced`; `ReduceStep` is one step of
  it). So the message and its checksum are a sum of shifted polynomials (`SumOf`,
  `RemainderMakesSum`), but for one bit after a flip (`FlipMakesWrong`). The
  receiver's division of such a sum removes exactly those polynomials (`SamePlaces`) and
  leaves zero. If it left zero with one bit wrong, two sums of shifted
  polynomials would differ in one bit: impossible, since a polynomial with two
  terms leaves the first place of a sum and its last one apart (`OneWrongBit`).
- `InboxOwns`: `InboxSpec => []OwnedUnlessSkipped`. `InboxInv` adds that,
  as long as no header was wrong, `msg` of the inbox thread is NULL or a buffer that is
  neither queued nor in the hands of the main thread while it has not been pushed.
- `ZeroesCounted`: `PowSpec => []LeadingZeroes`. `ZeroesInv` says that the bits counted so
  far are zero and fewer than required, and that the mask holds all of them that are in
  the byte of the last one: so what the mask selects next is zero exactly if the next
  bit is (`MaskIs`).
- `KeysOnce`: `PowSpec => []KeysTriedOnce`. Keys are ordered by their length and then
  as numbers whose first byte is the lowest. `KeysInv` says that the tried keys are
  exactly those up to the current one that are not skipped; the next key is the first
  one after the current one that is not skipped (`Successor`), hence new.
- `ReaderFills`: `ReaderSpec => []BatchesFilled`. `ReaderInv` says that what is left of the
  text is the lines from some line on, and that full batches and `i` together are the
  number of the lines before it (`Batches`).

Every safety property of a passing run is stated by a theorem: for the deployments of
`SingleSource` and `TwoProposers` where the chains must not fork, for messages of even
length where the checksum must be accepted. Only model-checked, and out of the prover's
reach, are the liveness properties `CatchesUp` and `StaysOnline`.

## 7. Where the code differs from what it says

| Run | Text | Code |
|---|---|---|
| SetAside | `application.cc:639` messages of other types are queued | those set aside are lost when a nested vote was in favour (676) |
| Race | `p2p/tracker.c:72` insert if the peer does not exist | check and insert are two steps; the tracker exits (73-74) |
| Spurned | `p2p/tracker.c:212` push if no duplicate heartbeat | `found` of an earlier heartbeat discards an acknowledgement (214) |
| Early | `application.h:117` a refresh requests the whole blockchain until fully updated | a late reply of the round before counts its sender as heard without a block (`application.cc` 361-364), and `checkMajority` takes an empty map for a majority (228, 266-270) |
| Stale | `p2p/peer.c:105` skip the message | `*message` keeps its value (103-107): the last pointer, or an uninitialised one, is queued |
| OddCrc | `p2p/crc.h:3` the checksum of data can be checked | never right for odd lengths (`crc.c` 127-130) |

Further differences are behaviours of the model that no run singles out:

- `application.cc:387` says that messages that are not BLOCK or NOBLOCK are added
  to the queue; a VOTE or ADDREQUEST read while waiting for a block is freed (395;
  `AwaitFree`). Its sender times out and proposes again.
- `application.cc:302` says that a peer is done when a majority sent NOBLOCK; a round
  also ends with no block when half of the peers are heard and no block fits,
  whatever they sent (228, 266-270; `MajorityForNoBlock`).
- `application.h:127` says that `HandleBlockAdditionRequest` returns the majority's
  decision; it returns the peer's own vote (578), for which a competing vote gives
  way (675; `CheckReturn`).
- `p2p/db.c:286` says that all addresses are provided and `n_items` is their number; the
  number and the rows come from two statements (294, 309; `Count`, `Select`).
- `p2p/peer.c:202` says that a peer that has been offline refreshes; the reset may
  wipe out a flag that was set after the read (203-204; `ReceiveNetinfo`).

- `transaction_reader.h:51` checks for valid data; the assignments after it go the
  wrong way (54-56), so that every batch that is stored is zero (`ReadTransaction`).
  The generator writes one transaction in a line (`transaction_generator.py` 39-49);
  with an id of two digits, which more than ten peers have, the line is read as two
  (48), since `ID_TYPE` is char (`config.h:14`; `ReadId`). An empty trace may give a
  batch, since the variables are uninitialised (`ReadEnd`).
- A key that `SolveProblem` returns after it has given up is not a solution (`GiveUp`,
  66-68, 98), and `count_zeroes` asks for one zero even when the difficulty is 0
  (which `Difficulties` leaves out).

Chains of two proposers. `Agreement` fails with two proposers after a vote has timed out:
votes that time out at one peer only leave different candidates, and nothing merges forks.
Timeouts of votes are the only cause as long as no third peer is connected
(`ForksNeedTimeouts`, proved). With three connected peers the chains of two proposers fork
without any fault: a proposal that arrives during a round of `RequestBlockchainBlock` is
freed (395), so that one peer adds the smaller of two candidates and another, which never
saw that one, the other. Nothing in the repository promises that chains do not fork, so
that this is no finding.

## 8. Not modelled

- EXIT: handled by the tracker, sent by no program of the repository.
- Crashes and restarts of a peer: nothing is persisted, so that a restarted peer is a
  new peer with an empty chain. A restarted tracker (with its database).
- SHA-256 (third party): hashes of blocks do not collide, the hash of a key is arbitrary.
- SQLite: `application/sqlite3` is vendored and is 260000 of the repository's 265000
  lines of code, which is why the lines that the modules map are a small share of all
  lines; of `application.cc` they are more than four fifths.
- `Logger`, program entry and configuration, scripts and `data_analysis`: no decision of
  the protocol. The configured values are constants of the modules.
- Conversion of addresses and ports between representations, and timing other than the
  order of timeouts and messages.
- Liveness of proposals: `CheckVotesForBlock` and the polling loops give the network no
  guarantee that a vote beats a timeout, so that nothing says a transaction is ever added.

## 9. Plan

Done in this order: `Application` with its runs and first proofs, `CheckMajority`,
tracker and membership, `Crc`; then `Inbox`, `HashCash` and `TransactionReader`, the
liveness of a joining peer, and the theorems on transactions, agreement, endorsed
votes, the ring and registration; then those on the checksum, the buffers of the inbox,
the proof of work and the reader; last the one on the chains of two competing peers.
What is left:

1. Peers that leave and restart with an empty chain in `Application`; the tracker's
   restart with its database.
2. Three peers in competition and two proposers with equal batches, with larger budgets
   of faults than TLC explores in minutes.
3. The further differences of section 7 as properties of their own.
4. Proofs: the tracker's `InsertsNewPeers` for peers of which only some are timely; what
   is left of `ForksNeedTimeouts` for a third connected peer that only votes.
