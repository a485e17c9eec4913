--------------------------- MODULE WalletNetwork ---------------------------
(***************************************************************************)
(* The wallets of several awe-node processes (apps/awe-node/src/main.rs).  *)
(* Each node owns one OnecoinLedger behind a mutex, started with a genesis *)
(* of its own, and a copy of it on disk.  POST /api/onebank/wallet/send    *)
(* debits the local ledger, writes the file and then hands the transaction *)
(* to the network; the inbox dispatcher of the recipient credits it.       *)
(*                                                                         *)
(* Both handlers hold the ledger mutex from the check to the file write,   *)
(* so each is one step; what can still happen inside the step is a failed  *)
(* write, and a crash that leaves a truncated file behind, because         *)
(* fs::write truncates before it writes.                                   *)
(*                                                                         *)
(* The delivery that follows a successful send first tries a confirmed     *)
(* round trip and, when that fails, a plain send: the recipient's inbox    *)
(* gets the transaction 0, 1 or 2 times.                                   *)
(*                                                                         *)
(* Transactions with a valid signature come only from such sends, that is  *)
(* from ledgers that debited them.  The dispatcher does not know: it has   *)
(* no copy of the sender's ledger and credits what is signed correctly.    *)
(***************************************************************************)
EXTENDS LedgerOps, Functions

CONSTANTS
  SendAmounts,  \* amounts the users type in
  MaxSends,     \* bound: sends a node accepts
  MaxCrashes,   \* bound: crashes of the whole network
  IoFailures,   \* whether fs::write may report an error
  TornWrites    \* whether a crash may hit the middle of fs::write

\* The genesis of every node together is far below u128::MAX: the allocation is
\* 10^19 atoms, u128::MAX more than 10^38.
ASSUME WalletInputs ==
  /\ GenesisAllocation * MaxIds < MaxAtoms
  /\ SendAmounts \subseteq Atoms
  /\ MaxSends \in Nat /\ MaxCrashes \in Nat
  /\ IoFailures \in BOOLEAN /\ TornWrites \in BOOLEAN

WALLET_FEE_BPS == 100

\* A file that serde_json cannot parse: truncated or empty.
Corrupt == [kind |-> "corrupt"]
File(l) == [kind |-> "ledger", ledger |-> l]

\* saved is history: the ledger as of the last file write that reported success.
VARIABLES mem, disk, up, inbox, crashes, saved

walletVars == <<mem, disk, up, inbox, crashes, saved>>

Transaction(s, r, a, n) ==
  [sender |-> s, recipient |-> r, amount |-> a, nonce |-> n, valid |-> TRUE]

\* serde_json refuses a map whose keys are byte arrays, and that is what
\* received_transactions and rewarded_receipts are: the ledger can be
\* serialized only while both are empty.
Serializable(l) == l.received = {} /\ l.rewarded = {}

\* What fs::write can leave behind when it is asked to store file f over old:
\* on an error the old content, or nothing once the file was truncated.
WriteOutcomes(old, f) ==
  {[ok |-> TRUE, file |-> f]} \cup
  (IF IoFailures
   THEN {[ok |-> FALSE, file |-> old], [ok |-> FALSE, file |-> Corrupt]}
   ELSE {})

OwnGenesis(n) == InitializeGenesis(DefaultLedger, {n})

WalletInit ==
  /\ mem = [n \in Ids |-> OwnGenesis(n)]
  /\ disk = [n \in Ids |-> File(OwnGenesis(n))]
  /\ up = [n \in Ids |-> TRUE]
  /\ inbox = {}
  /\ crashes = 0
  /\ saved = mem

-----------------------------------------------------------------------------
(* POST /api/onebank/wallet/send                                           *)

SendTx(n, r, a) == Transaction(n, r, a, Get(mem[n].nonces, n))
SendLedger(n, r) == EnsureMember(mem[n], r)

SendAccepted(n, r, a) ==
  /\ up[n] /\ r # n /\ a # 0
  /\ Get(mem[n].nonces, n) < MaxSends
  /\ Get(mem[n].balances, n) >= a
  /\ ApplyTransferWithFeeOk(SendLedger(n, r), SendTx(n, r, a), n, WALLET_FEE_BPS)

SendResult(n, r, a) ==
  ApplyTransferWithFee(SendLedger(n, r), SendTx(n, r, a), n, WALLET_FEE_BPS)

\* The balance check or the ledger refuses: the recipient stays a member.
SendRefused(n, r, a) ==
  /\ up[n] /\ r # n /\ a # 0
  /\ ~ApplyTransferWithFeeOk(SendLedger(n, r), SendTx(n, r, a), n, WALLET_FEE_BPS)
  /\ mem' = [mem EXCEPT ![n] = SendLedger(n, r)]
  /\ UNCHANGED <<disk, up, inbox, crashes, saved>>

\* The ledger was debited in memory but cannot be serialized: the request is
\* answered with "rejected" and nothing is sent.
SendUnserializable(n, r, a) ==
  /\ SendAccepted(n, r, a)
  /\ ~Serializable(SendResult(n, r, a))
  /\ mem' = [mem EXCEPT ![n] = SendResult(n, r, a)]
  /\ UNCHANGED <<disk, up, inbox, crashes, saved>>

Send(n, r, a) ==
  /\ SendAccepted(n, r, a)
  /\ Serializable(SendResult(n, r, a))
  /\ mem' = [mem EXCEPT ![n] = SendResult(n, r, a)]
  /\ \E w \in WriteOutcomes(disk[n], File(SendResult(n, r, a))), copies \in 0..2 :
       /\ disk' = [disk EXCEPT ![n] = w.file]
       /\ saved' = IF w.ok THEN [saved EXCEPT ![n] = SendResult(n, r, a)] ELSE saved
       /\ ~w.ok => copies = 0
       /\ inbox' = inbox \cup {[tx |-> SendTx(n, r, a), copy |-> i] : i \in 1..copies}
  /\ UNCHANGED <<up, crashes>>

-----------------------------------------------------------------------------
(* The dispatcher's ONECOIN_TRANSFER_STREAM branch                         *)

\* ensure_member runs for both sides before the transaction is verified.
ReceiveLedger(n, sender) == EnsureMember(EnsureMember(mem[n], sender), n)

ReceiveResult(n, tx) == ReceiveTransfer(ReceiveLedger(n, tx.sender), tx, tx.sender, n)

\* A transaction that names sender and is not signed by it: nothing is credited
\* or written, but sender stays a member.
ReceiveRefused(n, sender) ==
  /\ up[n]
  /\ mem' = [mem EXCEPT ![n] = ReceiveLedger(n, sender)]
  /\ UNCHANGED <<disk, up, inbox, crashes, saved>>

\* unwrap_or_default(): a ledger that cannot be serialized is stored as an
\* empty file.  The error of fs::write is ignored.
WalletReceive(n, m) ==
  /\ up[n] /\ m.tx.recipient = n
  /\ ReceiveTransferOk(mem[n], m.tx, m.tx.sender, n)
  /\ mem' = [mem EXCEPT ![n] = ReceiveResult(n, m.tx)]
  /\ LET f == IF Serializable(ReceiveResult(n, m.tx))
              THEN File(ReceiveResult(n, m.tx)) ELSE Corrupt
     IN  \E w \in WriteOutcomes(disk[n], f) :
           /\ disk' = [disk EXCEPT ![n] = w.file]
           /\ saved' = IF w.ok THEN [saved EXCEPT ![n] = ReceiveResult(n, m.tx)] ELSE saved
  /\ inbox' = inbox \ {m}
  /\ UNCHANGED <<up, crashes>>

\* A message in flight, or in the recipient's volatile inbox, is lost.
Lose(m) ==
  /\ inbox' = inbox \ {m}
  /\ UNCHANGED <<mem, disk, up, crashes, saved>>

-----------------------------------------------------------------------------
(* Process failures                                                        *)

Crash(n) ==
  /\ up[n] /\ crashes < MaxCrashes
  /\ up' = [up EXCEPT ![n] = FALSE]
  /\ crashes' = crashes + 1
  /\ UNCHANGED <<mem, disk, inbox, saved>>

\* The process dies inside the fs::write of a send.
CrashInWrite(n, r, a) ==
  /\ TornWrites /\ crashes < MaxCrashes
  /\ SendAccepted(n, r, a)
  /\ Serializable(SendResult(n, r, a))
  /\ mem' = [mem EXCEPT ![n] = SendResult(n, r, a)]
  /\ disk' = [disk EXCEPT ![n] = Corrupt]
  /\ up' = [up EXCEPT ![n] = FALSE]
  /\ crashes' = crashes + 1
  /\ UNCHANGED <<inbox, saved>>

\* run_product: an unreadable file is replaced by a default ledger, and a
\* ledger without members gets a new genesis that is written at once.
Restart(n) ==
  /\ ~up[n]
  /\ LET loaded == IF disk[n].kind = "ledger" THEN disk[n].ledger ELSE DefaultLedger
         started == IF loaded.members = {} THEN InitializeGenesis(loaded, {n})
                    ELSE loaded
     IN  /\ mem' = [mem EXCEPT ![n] = started]
         /\ disk' = [disk EXCEPT ![n] = IF loaded.members = {} THEN File(started) ELSE @]
         /\ saved' = [saved EXCEPT ![n] = started]
  /\ up' = [up EXCEPT ![n] = TRUE]
  /\ UNCHANGED <<inbox, crashes>>

WalletNext ==
  \/ \E n, r \in Ids, a \in SendAmounts :
       \/ SendRefused(n, r, a)
       \/ SendUnserializable(n, r, a)
       \/ Send(n, r, a)
       \/ CrashInWrite(n, r, a)
  \/ \E m \in inbox : Lose(m) \/ \E n \in Ids : WalletReceive(n, m)
  \/ \E n \in Ids : Crash(n) \/ Restart(n) \/ \E sender \in Ids : ReceiveRefused(n, sender)

WalletSpec == WalletInit /\ [][WalletNext]_walletVars

-----------------------------------------------------------------------------
OwnBalance(n) == Get(mem[n].balances, n)

\* The atoms of a set of transactions.
Worth(txs) == SumFunctionOnSet([tx \in txs |-> tx.amount], txs)

Holdings == [n \in Ids |-> OwnBalance(n) + mem[n].fees]

\* No coin comes from nothing: what every wallet says it owns itself, plus all
\* collected fees and what is still on its way for the first time, never
\* exceeds the genesis allocations, with lost, repeated and reordered
\* deliveries and with failing file writes.  As long as no process had to start
\* from its file: RestartKeepsWallet says what happens then.
Undelivered == {m.tx : m \in inbox} \ UNION {mem[n].received : n \in Ids}

NoInflation ==
  crashes = 0 =>
    SumFunctionOnSet(Holdings, Ids) + Worth(Undelivered) <= GenesisAllocation * MaxIds

\* Whatever a crash, a torn file or a failed write leaves to restart from, the
\* ledger a node works with accounts for every atom in it, and so does the one
\* it would load after the next crash; as long as what it was given at genesis
\* and by others stays below u128::MAX, where its sums stop.
Accounted(l) ==
  l.issued + Worth(l.received) < MaxAtoms
    => Total(l.balances) + l.fees = l.issued + Worth(l.received)

LedgersAccounted ==
  \A n \in Ids :
    /\ Accounted(mem[n])
    /\ disk[n].kind = "ledger" => Accounted(disk[n].ledger)

\* A restart brings the wallet back: "persistent ONECOIN state is written
\* atomically and validated on reload" (docs/AWENET-ARCHITECTURE.md).  The
\* owner finds the balance of the last successful write or, when the process
\* died inside a write, the one it was about to store.  While a node is down
\* mem still holds what it had.
RestartKeepsWallet ==
  [][\A n \in Ids :
       (~up[n] /\ up'[n]) =>
         Get(mem'[n].balances, n)
           \in {Get(saved[n].balances, n), Get(mem[n].balances, n)}]_walletVars
=============================================================================
