# AWENET: models, checks and proofs

AWENET (crate `awep2p-core`, product `apps/awe-node`) is a peer-to-peer node: an
authenticated encrypted transport, a wallet for the coin ONECOIN with a finality
protocol, content-addressed storage with placement and repair, a messenger, an
app store. This directory holds TLA+ models of its core, the TLC configurations
that check them on small instances, and TLAPS proofs of the properties that
should hold for every size. `PROJECT.json` is the index: which definition models
which lines, which run checks which property, what was found.

    tlc -workers 2 -config ledger.cfg MCOnecoinLedger     # a run
    tlapm OnecoinLedgerProofs.tla                         # the proofs of a module

Paths below are relative to `src/`; a file without a directory is in `core/src`.

## 1. The system

| Component | State | Operations | Talks to |
|---|---|---|---|
| **Ledger** (`onecoin.rs`) | members, balances, nonces, issued total, fee account, received transfers, rewarded receipts, verifiers, price floor | genesis (with verifiers), join, ensure_member, authorize, reward, transfer, transfer with fee, receive, observe price | owned by the wallet and by the finalized state |
| **Wallet service** (`apps/awe-node/src/main.rs`) | one ledger behind a mutex, its JSON file | HTTP send handler, dispatcher's transfer branch, load or genesis at start | ledger, node inbox, file system |
| **Finality** (`onecoin_consensus.rs`, `onecoin_consensus_runtime.rs`) | finalized height, tip and ledger; pending proposals; votes | handle proposal, vote, certificate | ledger, durable state, other nodes |
| **Durable state** (`onecoin_store.rs`) | the state file | open, validate, save (temporary file and rename), finalize | finality |
| **Transport** (`network.rs`) | sessions, peer table, routing table, inbox | listen, handshake, handle, bootstrap, find_nodes, send | everything |
| **Admission and defense** (`limits.rs`, `defense.rs`) | token buckets per address and peer, strikes and quarantine per peer, connection permits | allow, check, strike | transport |
| **Inbox** (`network.rs`) | queue of payloads, byte counter | push by every connection task, take_inbox by the dispatcher | transport, dispatcher |
| **Replay guards** (`replay.rs`, `security.rs`) | per peer: highest number and a bitmap | accept | transport; onion packets |
| **Dispatcher** (`main.rs` 1861-2305) | none of its own | routes payloads by stream number | finality, wallet, messenger, storage |
| **Messenger** (`messenger.rs`, `main.rs`) | session counters, offline queue; groups, channels, message log, `community.json` | encrypt, decrypt, queue; create, subscribe, publish, send, signal | dispatcher, file system |
| **Storage** (`storage.rs`, `replication.rs`, `repair.rs`, `data_plane.rs`, `main.rs`) | objects in files, manifests, quota | put, get, place, repair | dispatcher, file system |
| **Supervisor** (`supervisor.rs`) | one task per endpoint, shared counters | connect, ping, back off | transport |
| **App store** (`store.rs`, `main.rs`) | packages, the installed record and its copy | publish, install, uninstall, roll back | file system |
| **Payments** (`onecoin_payment.rs`) | signed requests | settle | ledger |
| **ONEBANK** (`onebank.rs`, `main.rs`) | contribution, list of offers | classify, post | file system |
| **Federation** (`federation.rs`, `main.rs`) | joined centres and groups, endpoints, `awenet.json` | import, bootstrap, save | transport, file system |
| **Discovery** (`network.rs`) | routing table, table of peers | insert, evict, iterative lookup | transport |
| **Topology** (`network_topology.rs`) | centres with nodes and links, groups | add, connect, fail over, route | a library, used by no other part |
| **Directories, registry, relay node** (`awenet.rs`, `host*.rs`, `registry.rs`, `node.rs`) | records with sequence numbers | publish, merge | not used by the product |

The rest (identity, cryptography, encodings, reports, user interfaces, service
registration) keeps no protocol state of its own. `PROJECT.json` "components"
lists every part with its status.

### What is hard here, and what correct means

* **Concurrency.** One tokio task per inbound connection, the dispatcher, and the
  HTTP handlers share the inbox, two admission tables, the defense table and the
  ledger through separate mutexes. Correct: a rate limit that holds over all
  connections of a peer, strikes that escalate, an inbox that hands over each
  message once and in order.
* **Delivery.** A transfer is delivered by a confirmed round trip and, if that
  fails, again by a plain send: 0, 1 or 2 copies in any order. Consensus messages
  may come late, twice or never. Correct: no coin from nothing, every credit
  backed by a debit, no block without a quorum.
* **Waiting.** Sends hold a connection's mutex over writes without a timeout,
  heartbeats and sends share a cache of connections behind a lock, a lookup awaits answers,
  uploads and repairs await acknowledgements. Correct: every call returns, or the
  model says exactly when it does not.
* **Failure.** Writes fail or are cut short, processes stop between a debit in
  memory and the file, between the file and the delivery, between finalize and
  save. Correct: what was announced is on disk, every ledger accounts for
  its atoms, a restart gives the wallet back.
* **Read, await, write.** Imports, offers, manifests and repairs read a state,
  await something without a lock and write it back. Correct: what was answered is
  not undone by a request that began earlier.
* **Arithmetic.** u128 saturation, rounding of a quorum and of a dividend, a
  window shift at the width of the word.
* **Long sequences.** A ledger reached by any order of calls must still pass the
  checks of its own loader.

"hazards" in `PROJECT.json` lists each at its line with the properties that
would catch it.

## 2. Modules

`LedgerOps` holds the ledger's methods as operators; three state machines use
them, so the wallet and the finality protocol are checked with the same ledger
that the proofs are about.

    LedgerOps --+-- OnecoinLedger ---- MCOnecoinLedger
                +-- WalletNetwork
                |      +-- OnecoinLedgerProofs (of both, with LedgerOpsProofs)
                +-- OnecoinConsensus -- MCOnecoinConsensus
                       +-- OnecoinConsensusProofs (with LedgerOpsProofs)
    PeerGate --------------------------- MCPeerGate
    PeerTransport (implements PeerMailbox)
                +-- PeerProofs (of both)
    Community ----- CommunityProofs
    ShardNetwork -+-- MCShardNetwork
    LocalStore ---+-- MCLocalStore
                  +-- ShardNetworkProofs (of both)
    ReplayGuard, NodeInbox, AppStore, Federation, Sessions, Supervisor,
    CapacityPlan, Discovery, Onebank, Topology --- NodeParts -- NodePartsProofs
    SumTheorems: sums over finite sets and induction over sets of numbers, for
    the proof modules of the ledgers, the storage directory and the parts

**LedgerOps** (`onecoin.rs`). A ledger is a record with the fields of
`OnecoinLedger`. A method that returns `Result` is a guard `XxxOk` and an effect
`Xxx`; the two methods that write before they can fail keep what they wrote
(`AcceptedVerifiers`, and `EnsureMember` ahead of a refused send). Operators
whose comment starts with "Fault:" are the mistakes the properties are tried
against; no specification uses them.

**OnecoinLedger**. One ledger and every call sequence on it. `incoming`,
`incomingAtoms` and `applied` are history: the distinct replicated transfers it was
handed, and the transfers it accepted as debits. Payment requests are left out, as
their settlement never reaches the ledger (section 5).

**WalletNetwork** (`main.rs` 352-417, 1772-1790, 1895-1919). `mem[n]` is the
mutex-protected ledger, `disk[n]` its file, `inbox` the transfers on their way.
Handler and dispatcher hold the mutex over the file write, so each is one step;
inside it the write may fail or the process may die after truncation.
`Serializable` models serde_json: a map with `[u8; 32]` keys cannot be written
as JSON once it has an entry. A transaction that receive_transfer refuses has still
made its sender and recipient members, with the dividend that brings
(`ReceiveRefused`, 1899-1901). In the model correctly signed transactions come from
sends only, that is, their sender's ledger debited them. The dispatcher cannot tell:
1896-1914 credits whatever is signed correctly, so the properties of wallets are
about nodes that run this code.

**OnecoinConsensus** (`onecoin_consensus.rs`, `onecoin_consensus_runtime.rs`,
`onecoin_store.rs`). `state`, `disk`, `pending`, `votes` per node, and `net`, from
which messages are never removed. `SaveFails` is the step in which finalize has
moved memory and save returns an error. Nothing in the repository builds blocks
outside tests, so `Propose` is the caller the handlers are written for and is
marked external.

**ReplayGuard** (`replay.rs`). One action per branch of `accept`; a bitmap is the
set of its bits.

**PeerGate** (`network.rs` 866-1068, `limits.rs`, `defense.rs`). A connection is a
task in a phase: handshake, admitted, open, striking. Each locked call is a step
of its own, because the two mutexes are never held together. Two tables with
different eviction orders share the operator `Entered`.

**NodeInbox** (`network.rs` 956-990, 1257-1267). `Push` is one step under both
locks; `take_inbox` is two, `TakeQueue` and `ResetBytes`.

**LocalStore** (`storage.rs` 335-396, `main.rs` 885-945, 1035-1056). One step per
file operation of `put`, because the store has no lock and every HTTP request is
a task. Files are absent, empty or full; `handle` follows an open file through
the renames of other tasks. The manifest is written in two steps.

**PeerTransport** (`network.rs` 551-727, 866-1255) and **PeerMailbox**. One node
that sends and one that listens. A connection is two pipes of `Buffer` frames, a
mutex (`lock` says who holds it and why) and a heartbeat if bootstrap opened it;
`active` is the cache entry of the peer. The steps of a send are those between
its awaits: look into the cache, connect, insert, wait for the mutex, write. The table
of the cache is behind a tokio RwLock, where a writer that waits keeps later readers
out; `Readers` and `WriterWaits` read its state off the calls and heartbeats. In
edition 2021 the read guard of the `if let` at 1203 lives to the end of its else
branch, so a call that had to connect waits for the write lock at 1214 that its own
guard denies it (`caching`). PeerMailbox
is what the other modules assume of the transport: a message may be lost or
overtaken, arrives at most once and only after it was sent, and is confirmed only
if it arrived. `ImplementsMailbox` is the refinement; its mapping reads the
outcome of a call off the state of the send.

**Community** (`main.rs` 611-884, 1660-1679, 1920-2234). Groups, channels, direct
messages and call signals, with the envelopes of PeerMailbox in `wire`, and the
file that is rewritten every two seconds. Identifiers keep their two textual
forms, hex and uid, because the code compares them across. Every envelope in `wire`
was sent by one of the handlers. The dispatcher compares the owner an upsert names
with its sender, not with the owner of the copy it replaces (1971 and 1986, 2042 and
2055); an id is a hash over its owner, so no handler sends an upsert of another
node's group or channel, and what a modified node could send is outside the model.

**ShardNetwork** (`main.rs` 885-1320, 1363-1622, 1864-1894, 2238-2302,
`replication.rs`, `data_plane.rs`, `policy.rs`). Upload, push, download, health
and the repair cycle of one node, step by step between awaits; the dispatchers of
all nodes, with the two stream numbers as the code has them. A call of send_to_peer
inside an upload, a download or a repair may hang (`hung`), which it has no deadline
against. A manifest may be cut short or not written while the upload goes on to its
answer. `known` stands for closest_peers and for peers() alike: the tables differ in
the code, but both only limit whom a placement may name. With `Loses` FALSE the
network loses no frame.

**NodeParts** checks side by side ten parts that share no state. A behaviour runs
the part `focus` names; the others keep their initial states, so the states add
up and do not multiply. Its parts:

* **AppStore** (`store.rs`): one step per file operation of install and rollback;
  open files keep their identity over renames.
* **Federation** (`federation.rs`, `main.rs` 534-594, 1686-1712): an import changes
  memory under the lock, awaits bootstrap, and saves what it finds then. A save may
  fail before or after it truncated the file, and the import is answered all the same;
  `fedSaved` remembers whether the last save went through.
* **Sessions** (`messenger.rs`): one direction of a session and the offline queue.
* **Supervisor** (`supervisor.rs`): `link[e]` is the task of an endpoint, `streak`
  the history of its failures in a row.
* **CapacityPlan** (`replication.rs` 143-196, `repair.rs`): one shard per step; ties
  are broken in any order.
* **Discovery** (`network.rs` 750-811, 1076-1190, 1297-1366): the two tables with
  their different insertions and evictions, and a lookup in rounds. A list of
  addresses is its set and the number of its repeats, since the limit counts both.
* **Onebank** (`onebank.rs` 18-253, `main.rs` 321-339, 425-446): a contribution is the
  thresholds it reaches; files are written in two steps, either of which may fail,
  the contribution after memory has it.
* **Topology** (`network_topology.rs`): every call on centres, nodes (added alive or
  dead), links and groups, and routes by the search of the code with its queue and its
  map of predecessors; `flaws` remembers calls that the code accepts although they
  break what validate() checks.

### Abstractions common to all modules

* Hashes are injective and signatures cannot be forged: an identity stands for
  its key, a record for its hash, a signature is a Boolean.
* Times of blocks and limits of 4096 transactions or votes per block are left
  out: nothing compares the former, and the latter are far from small instances.
* The clock of PeerGate does not run backwards.

## 3. Runs

| Run | Shows | Distinct states |
|---|---|---|
| `ledger` | all call sequences on one ledger with u128::MAX (20500) in reach: conservation, consistent members, no transfer debits twice | 241,758 |
| `wallet` | two wallets, two sends each, lost and doubled deliveries, failing and torn writes, a crash: no inflation, every ledger accounts for its atoms | 307,700 |
| `consensus` | three validators, two heights, two blocks (one unsorted with a transfer to oneself, one that overspends in its second transaction), a crash and a failed write | 139,271 |
| `peer_gate` | two tasks, two peers, two addresses, tables of one, bans after two strikes, four clock values | 1,257,743 |
| `local_store` | three uploads of two files that share a shard, room for one shard, a crash and a failed operation: races on a temporary file heal, acknowledged shards keep their file, the quota overrun is bounded | 4,101,684 |
| `transport` | three messages (one confirmed) over two connections that break, are refused, replaced and jammed, and a table whose lock a call denies itself: the refinement of PeerMailbox, when calls return and dead connections leave the cache | 630,968 |
| `community` | two nodes, four operations, a restart from an old or torn file: bounded repetition, privacy of a group, subscriptions stick | 3,741,959 |
| `shards` | two shards on up to four nodes, an upload, a download, repair cycles, one crash, lost object, change of peers or policy, sends that hang, manifests cut short: no shard leaves, operations end, what is stored here reads back | 660,637 |
| `node_parts` | the ten parts of NodeParts at the limits of their tables | 361,151 |
| `wallet_restart`, `consensus_fork`, `shards_stored` | a violation each, section 5 | |

### Why the bounds are enough

* `ledger`: genesis allocation 10000 and a maximum of 20500 make two genesis
  members plus one dividend reach the limit; amount 20400 with fee 500 bps
  saturates amount plus fee, 9990 cannot pay its fee before something was received and
  50 can; 501 bps is over the fee limit; price 10000 enters the
  first band, 99 is below the first price. Two identities give a transfer to oneself
  and to another; two accepted transfers give a first use, its replay through either
  call, a successor and another transfer of the same nonce; one incoming transfer is
  received and received again; three receipts are one over the cap, one with
  an empty period and one forged.
* `wallet`: 203 atoms pay one send of 100 plus fee 1 and a second, not a third;
  the second send happens both before and after the node received something.
* `consensus`: with three validators the quorum is two, so a quorum can be
  missed, met and met by different pairs, and rounding down would make it one.
* `peer_gate`: capacity 3, refill 2, costs 2 and 4 give a message that fits, one
  that fits after a refill and one over the capacity (a second Hello). Tables of
  one for two peers evict at every change of peer. `MaxU32` is one above the ban
  so that strikes saturate. Tasks, peers and addresses are only compared, and the
  tie break by key order is left open, so they may be permuted.
* `local_store`: three requests are needed for a complete object to be replaced by
  an empty one (one has finished, one renames, one truncates in between); the
  shared shard makes requests for different files meet; three shards over a quota
  of one reach the bound on the overrun. Requests are only compared, so they may
  be permuted.
* `transport`: a buffer of one frame fills with the first unread acknowledgement,
  the second message jams it and the third waits for the mutex; two connections
  are an entry of the cache and its replacement; two strikes ban. A call that opens its
  connection, and later ones behind the table's lock, take two messages and leave one.
* `community`: four operations are a creation, a subscription, its snapshot and a
  publication, in every order of arrival; the restart may fall between any two.
* `shards`: the ranks put the second shard elsewhere when all four nodes are known
  and here when fewer are, so that placement with and without this node both
  occur; one shard rebuilds the file, so one loss is survived or not. `shards` lets
  the network lose frames, `shards_stored` does not, so that what it shows is not the
  network's doing.
* `node_parts`: three peers share a replay table of two, numbers to 4 with window 3
  jump inside, to and over its edge; inbox messages of 1 to 3 fill the limit of 4
  exactly or not and one of 5 never fits; two requests interleave over the files
  of the store, of the federation and of the bank; delays pass the clamp of the
  shift, of the product and the last delay; four shards of three replicas fill
  four nodes with room for three; three nodes compete for a routing table of two,
  one of them silent; advertisements come without an address or full of repeats of one;
  every combination of thresholds of classify_tier; five
  calls add two centres, link them, mark a node and fail over, and three nodes
  give a route a choice of lengths.

No run checks deadlock: each stops at its bounds, or because nobody has anything
to send, which the system may do. Waiting for each other is what `SendReturns`,
`OperationsEnd` and `LookupEnds` are about.

### Fairness

* **PeerTransport**: weak fairness of each heartbeat task, of each listener task
  and of the calls together: tokio polls a task that can go on, and timeouts
  (handshake, idle peer, pong) are steps of the task they wake. A task that waits for a
  lock it cannot get is not enabled, so fairness does not help it. Nothing forces a
  call, a discovery round or the network to break.
* **ShardNetwork**: weak fairness of the upload, of the download and of the repair
  cycle: each waits for answers in a loop with a deadline (`main.rs` 974-988,
  1230-1232, 1498-1500, 1585-1587). Their calls of send_to_peer have none (972, 1227,
  1492, 1579), and join_next (1018) waits for those of an upload: each call either
  returns or hangs, and a hanging one is never forced to go on. Peers and the network
  have no fairness, and no answer is needed.
* **Discovery**: weak fairness of the steps of a lookup: its tasks are polled, a
  connection is opened under a timeout, and a node that is not in `Silent`
  answers or fails.

No fairness is assumed of the finality protocol, and no liveness is stated: the
runtime has no timer, no retry and no way to ask for a missed block.

## 4. Proofs

| Theorem | Statement | Module |
|---|---|---|
| TypeCorrect | `Spec => []TypeOK` | OnecoinLedgerProofs |
| Membership | `Spec => [](MemberStateConsistent /\ VerifiersAreMembers)` | OnecoinLedgerProofs |
| Conservation | `Spec => []SupplyConserved` | OnecoinLedgerProofs |
| FloorLaw | `Spec => []FloorTracksBand` | OnecoinLedgerProofs |
| DebitTheorem | `Spec => TransferDebitsOnce` | OnecoinLedgerProofs |
| WalletsAccounted | `WalletSpec => []LedgersAccounted` | OnecoinLedgerProofs |
| NoCoinFromNothing | `WalletSpec => []NoInflation` | OnecoinLedgerProofs |
| WindowExact | `PartsSpec => [](TypeOK /\ HighestIsHighest /\ WindowIsExact)` | NodePartsProofs |
| RateLimit | `GateSpec => []RateBound` | PeerProofs |
| EscalationTheorem | `GateSpec => Escalation` | PeerProofs |
| TransportImplementsMailbox | `Spec => ImplementsMailbox` | PeerProofs |
| QuorumTheorem | `Spec => []FinalizedByQuorum` | OnecoinConsensusProofs |
| ForkTheorem | `Spec => []ForkNeedsDoubleVote` | OnecoinConsensusProofs |
| DurableTheorem | `Spec => []AnnouncedIsDurable` | OnecoinConsensusProofs |
| LoadTheorem | `Spec => []StateLoads` | OnecoinConsensusProofs |
| ReplayTheorem | `Spec => []LedgerIsReplay` | OnecoinConsensusProofs |
| FileTheorem | `Spec => FileOnlyGrows` | OnecoinConsensusProofs |
| InboxOrder, InboxBound | `PartsSpec => []EachTakenOnce`, `[]BytesBoundedTwice` | NodePartsProofs |
| FederationKeepsJoins | `PartsSpec => []JoinsSurvive` | NodePartsProofs |
| SessionShowsExactly | `PartsSpec => []ShownExactly` | NodePartsProofs |
| BankKeepsAnswers | `PartsSpec => []AnsweredIsKept` | NodePartsProofs |
| StoreKeepsVersion | `PartsSpec => []OneVersionSurvives` | NodePartsProofs |
| PlanIsCompleted | `PartsSpec => []PlanCompletes` | NodePartsProofs |
| EndpointTheorem | `PartsSpec => EndpointKept` | NodePartsProofs |
| DelaysDouble | `PartsSpec => []BackoffDoubles` | NodePartsProofs |
| TiersMonotone | `PartsSpec => []TierMonotone` | NodePartsProofs |
| TopologyTheorem | `PartsSpec => []TopologyHolds` | NodePartsProofs |
| ShownOnceTheorem | `Spec => []ReceivedOnce` | CommunityProofs |
| GroupPrivateTheorem | `Spec => []GroupPrivate` | CommunityProofs |
| AtMostTwiceTheorem | `Spec => []AtMostTwice` | CommunityProofs |
| SubscriptionTheorem | `Spec => SubscriptionSticks` | CommunityProofs |
| NothingLeaves | `Spec => []SharesNeverLeave` | ShardNetworkProofs |
| RepairIsIdle | `Spec => RepairWritesNothing` | ShardNetworkProofs |
| StoredReadsBack | `Spec => []StoredIsServed` | ShardNetworkProofs |
| RacesTheorem, AckTheorem | `DiskSpec => []RacesHeal`, `[]AckedIsStored` | ShardNetworkProofs |
| QuotaTheorem | `DiskSpec => []QuotaOverrun` | ShardNetworkProofs |

Every invariant and every action property that a passing run checks is stated by
one of them. They hold for all constants that satisfy the named assumptions: any
number of identities, any u128::MAX, any window, table size and capacity, any set
of validators, any number of messages and connections, of nodes and operations.
The assumptions say that bounds are numbers, that inputs are well-formed records,
that the sets of tasks, shards, endpoints, nodes and addresses are finite, and that
a model value such as `NoCopy`, `None` or `TornFile` is none of the data it is told
apart from. Four say more, and each is what the code checks or its callers give:

* `CapacityAssumption`: the shards fit into the nodes at all (`replication.rs` 149
  asks for at least as many nodes as that takes).
* `ConsensusInputs` and `WalletInputs`: the genesis of all nodes together stays below
  u128::MAX, at ten coins of 10^18 atoms each for up to 3 * 10^19 nodes.
* `SupervisorAssumption`: the largest delay is reached before the cap on attempts
  stops the doubling. It is for the default configuration (1 s, 60 s, 8 attempts);
  a configuration for which it is false waits a constant, shorter time.

**Sums.** (SumTheorems.) The sum of a function over a finite set is a fold that picks
its elements in some order. `SumSolved` shows that the fold is one recursive function
on all subsets, `SumSplit` that any element may be taken out first; from these
follow how a sum changes with one value or one element, and its bounds. The
induction is over the set of cardinalities for which the claim holds
(`NatSetInduction`), which rests on `<` being well founded.

**Ledger.** `TotalPut` and `TotalAddToAll` say how the sum of a map changes when
one entry, or every member's entry, changes. One lemma per
method then shows that it keeps types, members and the balance of atoms.
Conservation alone is not inductive: receive_transfer decides by its own list of
received transfers whether to pay, so `SupplyInv` adds that this list is the
history `incoming`; and genesis overwrites balances and the issued total, so it
adds that a ledger without members holds and has issued nothing. The condition
"below u128::MAX" is inductive because issued and incoming amounts only grow: a
step that ends below the limit began below it, and nothing in it saturated.

**Debits.** A step either takes nothing from anybody and moves no nonce (`Harmless`), or is
a transfer that takes from its sender alone and moves that nonce alone (`Debits`);
one lemma per method shows which. That the transfer is a new one needs `AppliedInv`: the
ledger's nonce of a sender is above the nonces of all its accepted transfers. A
transfer must carry exactly that nonce (`onecoin.rs` 464), so it is none of these,
nor has it the nonce of one. Genesis needs the other invariants: it overwrites
balances, which is harmless only because they belong to members and genesis runs
while there are none.

**Wallets.** `WalletInv` says of each ledger that a node works with or could load from
its file that it accounts for its atoms, has members, and was credited only with
transfers to that node. An empty or torn file needs nothing: the next start runs a
genesis of its own, which is accounted for. For `NoInflation` it is enough that both
states of a step satisfy WalletInv. A send takes amount and fee from the sender's own
balance and puts the amount on its way; a delivery moves it to the recipient, and one
that some wallet has credited before is worth nothing on its way (`Undelivered`), so
the second copy credits nothing and the sum stays. A lost message, and a debit whose
file was not written, only make the sum smaller. The bound on genesis is needed
because a balance that saturates would swallow part of a credit.

**Price floor.** `FloorTracksBand` is inductive as it stands: observe_price moves
floor and band together, also over several bands, and every other method leaves
both alone, which one lemma per method shows.

**Replay guard.** `WindowIsExact` needs `HighestIsHighest`: a jump shifts in zero
bits, which is right only if nothing above the old end was accepted before.

**Rate limit.** `RateBound` is not inductive: it forgets what the bucket still
holds. `RateInv` says for every bucket that what was spent plus the tokens left
is at most the capacity plus the refill up to the bucket's last refill. Eviction
is harmless for it because a bucket that comes back starts a new account, which
is also its limit: the bound holds from the making of a bucket, and a full table
evicts the bucket with the fewest tokens.

**Defense.** `DefenseInv`: no quarantine ends later than one quarantine from now. A
strike sets exactly that time, so it never shortens the one before, whichever of a
peer's connections reports first. An evicted record starts again at zero, which is
why Escalation speaks of records that stay.

**Transport.** `TransportInv` is what the refinement of PeerMailbox needs. A message
travels at no two places, and neither after it arrived nor before its frame was
written (`OneCopy`): a call writes once, on the one connection it holds. A
confirmed send has its connection to itself, so the acknowledgement that it reads
can only be for its own message (`AckMeansArrived`): this is what
send_to_peer_confirmed gains by not using the cache, where unread acknowledgements
of other messages wait.
One lemma per step of a call, of a listener task and of a heartbeat then shows
that it is a step of the mailbox or a stutter.

**Finality.** `ConsensusInv` speaks of memory and file alike (`StateOk`): the chain
behind the tip has the length of the height, each of its blocks was approved by a
quorum of votes that were really sent, its ledger is the replay of the chain and
passes the loader. The file is a prefix of memory (`FileBehind`), certificates are
sent by nodes whose file has the block (`MessageOk`). Messages are never removed
from `net`, so what was true of them stays true; this stands for late and repeated
delivery. `QuorumsMeet` is the arithmetic behind ForkTheorem: two sets of at least
66.66 % of the validators, rounded up, have a member in common. The execution of a
block and the replay of a chain are recursive functions; what they keep is shown
by an induction over the set of indices at which it holds.

**Inbox.** `InboxInv`: the counter falls behind the queue by at most what was pushed
between the two steps of one take_inbox, and that fitted into a counter that was
not reset yet.

**Federation, ONEBANK, store.** The same argument three times with different ends. A
federation import has its centres in memory before it waits and saves what it
finds after (`FedInv`), so overlapping imports are harmless, and the file has every
answered import whenever the last save went through: a later save makes good for one
that failed. A bank request and a
store operation save what they read at their start; `BankInv` and `StoreInv` say
what a request in progress will write, and hold only while no two are in progress and
no read or write failed (`disturbed`, `unsafe`). What survives even that is the end of
the list: a post appends its offer to whatever it read, so a list that is not cut
short ends with an answered offer. StoreInv goes through every point at which a crash can cut
an install or a rollback.

**Sessions.** `SessionInv` ties the receiver's counter to the last message shown.

**Placement.** `PlanInv`: after k shards every load is q or q + 1, and h of N nodes
have q + 1, where N q + h = k R. From this follows that R nodes with room exist as
long as the total fits, which least-loaded-first does not look for.

**Table of peers.** `KnownInv` bounds the length of every list of addresses, repeats
counted. From it follows that the merge of insert_peer_bounded has room for all old
addresses or fills the list to its limit, which is counting in finite sets.

**Supervisor.** `1u64 << shift` is a recursive function of the shift, so that it can be
reasoned about: `PowerOfTwoFacts` is its recursion, `PowerOfTwoGrows` that it grows.
`BackoffIs` shows that the three clamps of `backoff` and the saturating product come
to one formula. `SupervisorInv` ties `failures`, which the code keeps, to the history
`streak`, and the counters to the number of open sessions.

**Tiers.** `ClassifyTier` is the chain of tests of classify_tier, from the highest
tier down. `MoreRanksNoLower`: a test that a contribution passes is passed by the larger
one, so its answer stands no lower in the chain; `RightsGrow`: a right belongs to all
tiers from some rank on.

**Topology.** `RoutesAreShortest` needs only that peers are nodes of the network. The
search is a recursive function of the number of turns, with the queue and the map
of predecessors as its state. `IsSearch` counts rounds beside it: k rounds find exactly
what paths of at most k hops reach (`PathIsFound`). The queue holds nodes of two
successive rounds, in order (`QueueOK`), and `prev` leads each node to one of the round
before (`PrevOK`), so that the search is over after as many turns as there are nodes
(`SearchEnds`) and the way back from the destination takes one round per step
(`BackThroughRounds`). The rest rests on `TopologyInv`. All of it is stated on a network before
and one after a call: names and peers only grow (`NamesKept`, `PeersKept`), a new peer
is a node of the network (`PeersNamed`), links stay or both ends change together
(`LinkKept`). One lemma per call shows which of these it keeps. The calls in `flaws`
are exactly those that break one: a node that replaces one of its name forgets its
peers, a centre that replaces one forgets the links that others have to it, a list with
repetitions is longer than its set. A failover that meets a missing record
contradicts `Agree`, so a centre was replaced before.

**Community.** `LogInv`: a log shows as delivered exactly what another node sent, so
an id that is met again was delivered before. `GroupInv` and `ChannelInv` bound
what a copy shows plus what is on its way to it: a group message has two envelopes
for each member and an upsert carries none; a channel message has one event for
each subscriber and is at most once in a snapshot, because the owner's copy, which
every snapshot repeats, shows it once. All copies of the group, saved ones and
those on the way included, name the same members. `SubscriberInv`: a snapshot
without its addressee can only meet an addressee that never had a copy.

**Shards.** `LocalInv` is short because one comparison decides: the dispatcher drops
every frame of the data plane, whoever sent it. With it, `RepairInv` shows why a
repair cycle has no effect: bytes come from this node alone, which is then in the
placement and no target, and no other target ever acknowledges. `ServeInv` follows
the first upload: nothing can be read before its manifest is written, and if it
answers "stored", the manifest was cut or not written, or each of its shards that
belongs here is in the store or was lost from it.

**Storage directory.** (LocalStore.) `DiskInv`: whoever
opened a `.part` file last has it open still or has renamed it, and an empty file,
under either of its names, has a task that is about to fill it. A rename moves the
open files of the others along, so an empty object it creates is filled through a
handle that was opened under the other name. Crashes and errors break this, and
only this: that an acknowledged shard has a file does not depend on it. `QuotaInv`
adds to the bytes on disk what requests that passed the check may still write: a
request that passes sees what is on disk, not what the others promised, which is at
most one shard for each of them.

**Only model-checked.** Liveness (`OperationsEnd`, `SendReturns`, `DeadLeavesActive`,
`LookupEnds`): the prover has no rules for fairness and ENABLED here.

## 5. What the checks found

Each by a run that is expected to violate its property:

* **A wallet that received a transfer does not survive a restart**
  (`wallet_restart`). The ledger can no longer be serialized, the dispatcher
  writes `unwrap_or_default()`, an empty file, and the next start runs a new
  genesis. A torn write of the send handler (`fs::write`, `main.rs` 382) has the
  same effect; the `wallet` run includes it and shows what still holds.
* **Two proposers finalize conflicting spends** (`consensus_fork`). A validator
  votes for every proposal that extends its tip and remembers no vote.
  `ForkNeedsDoubleVote` shows that this is the only way: quorums overlap.
* **A stored file is on one node** (`shards_stored`). Storage and consensus share
  stream 200 and the dispatcher asks for consensus first, so no receiver ever
  stores a shard, and an upload counts a shard as placed when the wait for its
  acknowledgement runs out. In this run no frame is lost and the violation is in a
  state where every receiver has dispatched what it was sent. `SharesNeverLeave` says it of all operations,
  `StoredIsServed` what the answer is still worth, `RepairWritesNothing` that the
  repair cycle has no effect.

One more finding is of a run that passes: a block is final with 6666 bps of the
validators' votes (`onecoin_consensus.rs` 15), so 2 of 3, 66.666 %, are enough, and the
`consensus` run finalizes with them. `docs/AWENET-ARCHITECTURE.md` 88 asks for "at
least 66.67%", which takes all three (83 says the same of governance). Both numbers
make quorums overlap; FinalizedByQuorum states the one of the code.

Exact limits that the passing properties state:

* `BytesBoundedTwice`: a push between the two steps of take_inbox is forgotten by
  the byte counter (`network.rs` 1263), so the queue exceeds MAX_INBOX_BYTES, though
  it stays below twice that.
* `SendReturns`: send_to_peer blocks for good in two ways. With the connection's
  mutex, when the acknowledgements of earlier messages, which it never reads, have
  filled the pipe back. And on its own read guard, when it had to open a connection and
  the connection succeeded (`network.rs` 1203-1214): its message is never written, and
  every later send_to_peer of the node waits behind it, to whichever peer, as do the
  removal of a dead connection and the insert of bootstrap. The dispatcher itself calls send_to_peer
  (`main.rs` 1888, 2160, 2276, 2299), so it may be the one that stops. A call stuck so
  keeps its permit; after 256 of them (MAX_OUTBOUND_CONCURRENCY, `network.rs` 41, 1199,
  1242) confirmed sends wait too, which the model does not reach: in it they always
  return.
* `DeadLeavesActive`: a dead connection leaves the table, by its heartbeat or by the
  call that could not write to it, unless a call has the table stuck as above.
* `OperationsEnd`: an upload, a download and the repair cycle end unless one of their
  sends hangs; a hanging send of a repair ends all repair.
* `StoredIsServed`: "stored" does not say that the manifest was written: its write
  (`main.rs` 1053) may fail or be cut, and later downloads then err.
* `LookupEnds`: one silent peer stops the discovery loop (`network.rs` 1333).
* `OneVersionSurvives`, `AnsweredIsKept`, `JoinsSurvive`: concurrent requests on
  files written in place lose data in the store and in the offers, and a torn
  write loses them all; the federation survives overlap because it saves what it
  finds. An import is answered "imported" although its save failed (`main.rs` 589), and
  is then in memory only. A contribution is in memory before its write, which may
  fail (`main.rs` 338-346), and a list of offers that cannot be read or written after
  it was truncated (444) is lost with all its answered offers.
* `AtMostTwice`: a message is shown twice by design of the retries, never three
  times: the fallback that would be a third copy is compared in the wrong textual
  form and never accepted (`main.rs` 2191).
* `TopologyHolds`: replacing a centre leaves links that the other end does not
  have, on which failover_relay panics; a group accepts a list that names a centre
  twice and validate() then refuses the network.

Seen while reading: a reward is capped per receipt and not, as the architecture
document says, "per accounting period" (`onecoin.rs` 414: receipts are remembered
by hash). Manifests are written in place (`main.rs` 1053) although the document
says "atomic manifest writes"; `save_manifest` of `storage.rs` is atomic and not
called. No payment request can be settled, although the document (81) lists it:
settle passes the AWE-ID that `members` holds where `verify` expects a public key, and
compares a public key with the buyer's AWE-ID (`onecoin_payment.rs` 67, 96-107), so it
always errs. The dispatcher passes the
sender's AWE-ID to the consensus runtime, which expects a public key (`main.rs`
1871-1894, `onecoin_consensus_runtime.rs` 82-91); the models give the runtime the
sender it expects. An order below one coin costs nothing (`onebank.rs` 462).
plan_repairs does not look at MAX_SHARDS_PER_NODE (`repair.rs` 23). Contributions
are cast to u32 and u16 before they are validated (`main.rs` 326-334).

## 6. Not modelled

* Cryptography, key files and encodings: assumed ideal. Erasure coding is the fact
  that any `data_shards` shards rebuild a file.
* `security.rs`, `awenet.rs`, `host*.rs`, `registry.rs`, `namespace.rs`, `access.rs`,
  `governance.rs`, `onecoin_governance.rs`, `messenger_runtime.rs`, `recovery.rs`,
  `node.rs`, `routing.rs`, `discovery.rs`, `lan_mesh.rs`: libraries that the product
  does not compose into a protocol; most are a map with one check per insert.
* User interfaces, platform services, diagnostics and reports: no protocol state.
* Payment requests (`onecoin_payment.rs`): settle always errs before it changes
  anything.
* Of modelled parts: PersistentOnecoinLedger, clear_quarantine, CircuitBreaker,
  LocalNodeStore::remove and gc, exchange orders, none of which the product calls;
  the limits of 512 cached and 256 outbound connections; clocks that run backwards;
  envelopes and transactions that no handler of this code would send.
* Hazards that the properties leave open, each with a note in `PROJECT.json`: they name
  a limit of the code that a property states as its exception (the silent peer of a
  lookup, overlapping posts, a replaced centre), and a change of the code there would
  not be noticed.

## 7. Plan

Done: what decides about money (LedgerOps, OnecoinLedger,
WalletNetwork, OnecoinConsensus), what stands between the network and it
(ReplayGuard, PeerGate, NodeInbox), the transport and its abstract specification
(PeerTransport, PeerMailbox), what runs over it (Community, ShardNetwork,
Federation, Discovery, Supervisor), and the rest of the node (LocalStore, AppStore,
Sessions, CapacityPlan, Onebank, Topology).

Proved: every safety property of the passing runs, section 4.

Further modelling, where the product begins to use it: the second replay window
(`security.rs` 149-204), PersistentOnecoinLedger, the directories.
