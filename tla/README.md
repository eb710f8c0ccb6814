# Vayyl: a verification project

TLA+ models of the Vayyl contracts and services, the TLC runs that check them
on small instances, and proofs checked by TLAPS. Paths such as
`contracts/vayyl-pool/src/lib.rs` are relative to the repository's root.

Contents: the system, its parts and what makes each hard (1); the modules and
how they correspond to the code (2); the runs, their bounds and what they show
(3); fairness (4); the proofs (5); where the code and its text disagree (6);
what is not modelled (7); what is left to do (8).

## 1. The system

Vayyl keeps private notes in a pool on Stellar. A note is the opening of a
Poseidon commitment (amount, owner key, blinding); the pool keeps commitments
in a Merkle tree and spends them by nullifier under Groth16 proofs. On top of
the pool sit leveraged positions, whose counterparty is a vault funded by
liquidity providers, and two escrow applications. Off chain, an indexer mirrors
events for wallets, a relayer submits proofs and enrolls keys, an oracle adapter
publishes prices, and keepers liquidate positions whose owners fall silent.

| Component | State | Operations | What is hard about it |
| --- | --- | --- | --- |
| Pool (`contracts/vayyl-pool`) | tree, ring buffer of roots, commitment and nullifier maps, counters, settings, allowlist | `deposit_v2/v3`, `transfer_v2/v3`, `withdraw_v2/v3`, `withdraw_v3_batch`, `ragequit_v2`, `execute_settlement`, `pull_public_deposit`, admin | proofs are made against a state that has moved on when they land; dummy inputs; trusted settlement callers |
| ASP membership (`contracts/asp-membership`) | approval tree and its recent roots | `insert_leaf`, `is_known_root` | approvals race with deposits |
| ASP non-membership (`contracts/asp-non-membership`) | blocked nullifiers | `initialize`, `block_leaf`, `is_not_blocked` | absent, deployed and initialised are three different answers |
| Counterparty vault (`contracts/vayyl-counterparty-vault`) | shares, reservations, two running totals; its balance is the token's | deposit, withdraw, reserve, release, release_seized | totals that cannot be recomputed, rounding, LPs leaving under open positions |
| Position manager (`contracts/position-manager`) | positions, position nullifiers | open, attest_health, close; two calls for the engine | one call moves money in three contracts |
| Liquidation engine (`contracts/liquidation-engine`) | heartbeats, one claim per position, liquidated flags | register_heartbeat, initiate_liquidation, reveal_and_seize | two clocks, two-step claims, owners and keepers racing |
| Price feed (`scripts/push_price.mjs`, `contracts/vayyl-mock-oracle`, `backend/oracle-adapter`) | an anchor file, the last price and when | start, tick, rebase, set_price, lastprice, evaluate | overlapping ticks, outages, restarts that rescale, stale prices |
| Hidden orders, quests (`contracts/hidden-order-registry`, `contracts/agentic-settlement-hub`) | orders, quests and their escrow in the pool | commit, cancel, reveal; create, claim | alternatives for the same escrow |
| Indexer (`backend/indexer`) | cursor, tables of leaves, nullifiers, positions | poll, page, apply an event, restart | paging, retention, replays, partial failure |
| Relayer (`backend/relayer`) | withdrawal queue and timer; leaf mirror | enqueue, flush, simulate, submit, answer; enroll, verify | batches that fail together, answers later than timeouts |
| Keeper (`backend/keeper`) | claim secrets on disk, a backoff per position | tick: read, decide, claim, reveal | overlapping ticks, reads that are no snapshot, crashes between claim and reveal |
| Wallet (`frontend/src/dapp`) | notes, scan cursor, positions, orders in browser storage | deposit, pay, withdraw, scan, recover, reconcile, back up | lost updates across awaits, lost answers, stale trees, a superseded key |
| Circuits, proof worker, verifier (`circuits`, `frontend/src/dapp/lib`, `contracts/groth16-verifier`) | none of their own | prove, verify, derive a note, scan, quote | one value written out in five places that must agree; a proof is used later than it was made |
| Factory, proof bridge, arithmetic of hashes and curves, scripts, UI | | | not concurrent, or arithmetic |

How they interact. The pool calls both ASP contracts during a deposit or a
spend. The position manager calls the pool (`execute_settlement`), the vault
(`reserve`, `release`), the engine (`register_heartbeat`) and the oracle; the
engine calls the pool and, back in the manager, `liquidate_position` and
`release_seized_reservation`. All of one Soroban transaction commits or none
does, so a transaction is one step here, and interleaving is between
transactions. The services see the chain through RPC reads that are not one
snapshot and through events that are retained for about a week.

The hazards that follow from this are listed in `PROJECT.json` at the lines
where they bite, with the properties that watch them.

## 2. The modules

```
contracts   RootWindow -- AspMembership --+            Totals -- CounterpartyVault --+
            NoteValue ----+               +-- VayylPool          LiquidationEngine --+-- PositionManager
                          +-- ShieldedLedger --^ (refines)     (the vault's spec <-- refines, too)
            AspNonMembership -------------+-- Escrows (registry and hub)
services    LiquidationEngine -- KeeperService      Relayer      Enrollment      Indexer
            PriceFeed                               NoteSelection -- WalletNotes
data path   ShieldedTerms -- MerkleTree --+-- Circuits -- ProofWorker --+
                  |          Trading -----+                             +-- Calls
                  +---------------- Wire ----------- RootWindow --------+
```

Each service is modelled against the part of the chain it works on. The keeper
extends the engine's own module; the relayer, the enrollment service and the
wallet carry as much of the pool or of the membership contract as they can tell
apart.

**RootWindow** is the ring buffer of roots both trees keep. The tree is append-
only and its hash collision-free, so a root is named by the number of leaves it
covers. A root no contract produced is `ForgedRoot`; against it a Merkle path
opens on any leaf, which is what makes the known-root checks matter.

**AspMembership**, **AspNonMembership** are the two association-set contracts.
The blocklist may be absent (calls fail), deployed without `initialize` (answers
"clean" to everything) or initialised.

**NoteValue** defines a note and the value of a set of notes. The circuits
derive commitment and nullifier from a note's opening, so a note, its commitment
and its nullifier are one value. `Value` counts coins, as a cardinality, so the
proofs need no induction.

**ShieldedLedger** is the abstract specification: custody, live notes, spent
notes and what the settlement contracts hold, moved by Shield, Exchange, Exit,
Settle and Fund. It knows no trees, roots, proofs, lists or limits.

**VayylPool** is the contract. A call that returns an error changes nothing, so
each entry point is one action whose guards are the early returns; a Groth16
proof is the relation its circuit enforces (`DepositProof`, `SpendProof`,
`TransferProof`). `TransferV3` takes a real second input or a dummy one, as the
circuit does. `WithdrawAll` is what the three withdrawals share, and covers a
batch by computing the floor for every position in it. `v2Mode` is chosen
initially (`initialize` or `initialize_v2`). `held` is a ghost: the part of
custody that settlement contracts answer for (margins, escrows, fees).
`TrustedSettlement` states what the allowlist trusts an authority for; that the
position manager keeps to it is `MarginHeld` below, that the registry and the
hub do is Escrows. `UsersSpec` is the pool with nobody on the allowlist; `FullyBacked`
alone is about it, everything else about `Spec`.

**Escrows** composes the pool with the contracts that may settle in it. On a V1
pool these are the order registry and the settlement hub, with their own maps of
orders and quests; `pull_public_deposit` and `execute_settlement` are the pool's
own actions inside theirs, so one transaction is one step. On a V2 pool
`pull_public_deposit` is refused, so the two are left alone there and a third
contract spends and mints notes. The ghost `stranded` is what replaced quests
owed. What is locked and owed is a `Total`, so that the proofs can follow it.

**Totals** defines the sum of a function's values, again as a cardinality.
**CounterpartyVault** is the vault; `Receive` is any token transfer to its
address. `ReleaseAndReceive` is the pair of calls by which the manager and the
engine free a reservation and pay the vault from the pool in one transaction.

**LiquidationEngine** holds heartbeats and claims. Only differences of time are
compared, so a timestamp is an age that saturates one past the last value any
comparison tells apart; a missing heartbeat, read as timestamp 0, is the oldest.

**PositionManager** composes the manager, the vault, the engine, the oracle and
the pool's money. Of the pool it keeps the custody and the value owed to
unspent notes: which note is spent is VayylPool's business. A price has an age
and one older than `MAX_ORACLE_AGE` is no price. Position blindness is derived
from the position's id by the client, so id, tier, direction and entry price
determine the position's commitment and nullifier. `ReuseIds` and `RenewClaims`
are two choices of the environment: whether an id is opened again after it was
liquidated, and whether a keeper repeats a claim it already holds; the run
allows both.

**KeeperService** runs the keeper's ticks against the engine. A timer starts a
tick every fifteen seconds whether or not the last one has ended, so `Tick` is a
set of ticks under way, each between two awaits at any moment; they share the
secret store (`cache` in memory, `disk` in the file) and the backoff map (`wait`).
A view is four separate reads, each answered by the engine as it is or as it was
a moment before. A transaction that is not confirmed in thirty seconds is in
`late`: it may land at any time, or never. Owners attest and close, other
keepers claim and seize, the process crashes at any await.

**Relayer** has the queue, its timer and the submissions under way (`flight`).
Requests are simulated one by one against a chain that moves on, share one all-
or-nothing transaction, and are answered; calls that are not batched are
submitted beside them through the same account, whose sequence number makes the
one of two concurrent submissions wait or fail. A transaction that a client signed
itself (`Signed`) is only wrapped and paid for: it is simulated for its fee
(`FetchBaseFee`), sent once, and answered as soon as the network has it; the reply to
that one call may be lost, so that an error is answered and the transaction lands. The ghosts `paid`, `dropped` and
`unknown` record what became of a request; no guard reads them.

**Enrollment** is the mirror of the membership contract's leaves in either of its
two stores, chosen at the start: rows in memory and in a file (`mirror`, `file`), or
a table, whose statements read and write nothing else; the serial queue (`job` is where `enrollSerial` is with
its first request), the start-up check read by read, and what happens past it:
insertions that time out and land later, failed reads and writes, restarts, the
operator's script. The ghost `unrecorded` collects the leaves whose insertion the
service was not told of.

**Indexer** is the poll loop against a chain that grows and an RPC that forgets.
The ledgers, the RPC's pages and its retention are external and modelled as
`pollOnce` uses them: a page is the next `PageLimit` events or what the scan
window holds, and its cursor names the ledger and the event reached. `poll` holds
the loop's local variables; `Abort` (a failed request, a failed write of the
cursor, a restart) forgets them, and the next tick starts from the stored
ledger. The tables' statements are modelled with their conflict clauses, because
the same events are applied again after every failure. Opening and closing a position
put a leaf into the pool's tree in the middle of the others (`mints`), which no
handled event carries. The ghost `lost` collects events given up, at each of the three
places where the code gives one up.

**NoteSelection** is the choice of notes for a payment, a pure algorithm, with
its reference definition (`Tightest`): the sort puts each note at its rank, the loop is
a recursive function of its turns (`Turn`). **WalletNotes** is the browser's note store
against the chain. Each change of the store is a read of all of it, an await, and
a write of all of it, and two tasks make such changes: what the user started, with
the refresh it ends in, and the refresh of a page. They may overwrite each other;
the ghost `overwritten` records which notes a write removed. A note is its
commitment's place in the pool's log; the key it is stored under need not be the
one that opens it, which is what `NoteOpens` is about. `Listed` is what of the log the
indexer has: not what settlements spend and mint. The relayer answers a withdrawal it
left out of a batch with the hash of the batch (`Dropped`), and the wallet takes it for
its own; the ghost `misled` has the notes it then writes off. `ReadableFeed` is whether the
scan reads the feed as it is written, and the ghost `unread` has the payments in rows it
could not read: in the passing run all can be read, `wallet_unread` has the feed as it is,
and the theorems are about both. A scan whose transfer feed cannot be read ends
there; one whose deposit feed cannot be read goes on without deposits and moves its
cursor.

**PriceFeed** is the publisher with its anchor file, its timer and the ticks that
overlap while the market is slow, the oracle's one record, and the two readers of
it: the position manager's `read_price` and the adapter's `evaluate`. Faults are
counted (failed publications, time spent waiting for the market or down), so that
the age of the mark can be held against them.

The last group follows one call from a wallet's notes to the contract and back,
where the modules above take "a proof of this relation" for granted.

**ShieldedTerms** has the values that travel. A hash is the term it was made of,
so it is collision-free; a point is the set of scalars that multiply the
generator, so the one relation of the curve that the code uses, a(bG) = b(aG),
holds and no other. Keys, notes, the blindings a wallet derives again (each with its
tag) and the note for a payee are terms.

**MerkleTree** computes the tree the three ways the code does: `InsertLeaf` keeps
one node per level as the contracts do, `Nodes` rebuilds every level as the client
does, `MerkleProof` climbs a path as the circuit does.

**Trading** has a position's arithmetic three times as well: the contract's tiers
and settlement, the circuits' tier table and solvency inequality, and the tables,
quotes, price bounds and liquidation price of the wallet. Money is counted in a
unit of `StroopsPerUnit` stroops; sizes and ratios are the code's numbers.

**Circuits** gives the constraints of the ten deployed circuits and the order of
their public signals. A proof is the circuit and the signals it was made for;
`Verify` compares both. **ProofWorker** builds the inputs from note secrets and
served leaves, and finds notes again from rows. **Wire** is how a call travels:
arguments by position, through the wallet or the relayer, to named parameters; the
points of a proof as bytes; shielded addresses.

**Calls** composes them. A wallet reads what the indexer serves, any prefix of the
rows or the bundled snapshot (`FetchedLeaves`), keeps it if it rebuilds the pool's
root (`VerifiedLeaves`), proves, and has a call under way (`calls`). Until the call
lands others land and the price moves. `Accepts` is the check of every entry point,
with the public inputs rebuilt from the arguments and the contract's own state; an
accepted call inserts its leaves, marks its nullifiers and leaves the rows its events
become. The ghost `owed` remembers the outputs and whose they are.

`PROJECT.json` maps every definition to the lines it stands for.

## 3. The runs

Every property of a passing run also has a *mutant*, some have several: a
definition changed the way a plausible bug would change it (defined next to the
original, under a comment that starts "A mutant of"), under which the same run
must fail.

| Run | Question | Bounds and why they are enough |
| --- | --- | --- |
| `pool` | Do deposits, transfers, withdrawals, batches and rage-quits keep the pool exactly backed, the root window exact and the crowd count a lower bound, and is the rage-quit always open? | two owners, amounts 0..2 with denomination 1 (a V3 note below, at and above it), a tree of 4 so that it fills and two-leaf calls meet a single free slot, a window of 2 so that one two-leaf call evicts, one approval, one blocked nullifier, floors 0 and 2, a spent counter synchronised one too high; no settlement contract (`UsersSpec`). 11,904 states |
| `escrows` | Does the pool stay backed and implement the ledger whatever its settlement contracts do, is each escrow held until it is paid once, and do the approvals, the blocklist and the floor stop what they should, also with settlements in between? | a V1 pool with two orders, one quest and two agents, escrows and rewards up to 2 tokens, the registry and the hub on and off the allowlist; a V2 pool with notes of 0, 1 and 2, a tree of 3, one approval, one blocked nullifier, floor 2, and one contract that takes in, spends, mints and pays out, in every order. Both cases that the controls leave open occur in it: a blocked note spent by a settlement, and a crowd counted too large after a note was minted twice. One owner: two take part in `pool`. 353,268 states |
| `positions` | Do the books, the margin and the clocks of four contracts agree through every life of a position, can it always be settled, is seizure only in silence, is the vault's specification implemented, and does a share never lose value but to a paid win? | one position reopened at will, two LPs, prices 2, 3, 5 against margin 2, size 1, cap 4: total loss, part loss, break-even, part win, the cap and beyond it; 4 shares in a balance of 5, which reaches the rounding cases of both divisions. Several positions are left to the theorems of section 5, which need no bound |
| `keeper` | Can the keeper redeem what it claimed, does it wake in time, and is a position that was given up seized? | two overlapping ticks, one position, grace 2, claim time-out 1, backoff between 1 and 2 intervals, one fault (failed read, refused, late or lost transaction, crash), one rival that may claim and vanish. 169,270 states |
| `relayer` | What may a client conclude from a hash and from an error, and is it answered? | batches of 2 and five requests: two for one note, one with a bad proof, one in another pool, which is not on the allowlist, one that is not batched; two of them may come as a transaction the client signed itself; two submissions at once; one fault (failed call, lost reply, time-out, restart). 486,959 states |
| `enrollment` | Are rows where the contract has the leaves, are holes accounted for, do they heal, and is the service only enabled on a list that is right? | three leaves and a cap of 2, so that the cap is reached; three faults, which allow a time-out, a late landing and a restart in one behaviour; either store. 108,997 states |
| `indexer` | Does every retained event get into the tables, in order and once, whatever fails? | four ledgers, three events in any of them, pages of 2, windows of 2 ledgers, two pages in a tick, one fault: empty windows, a page that ends inside a ledger, the page cap, a clamp and a replay all occur |
| `indexer_settled` | (disagreement, section 6) | the same |
| `wallet` | Can every stored note be opened, is nothing written off but by a hash of a batch that left it out, is nothing lost, is what happened on chain noticed in the end, and does a payment choose the tightest notes? | two operations or chores begun by the user beside the pages' refreshes, three events of the pool after the two at the start, one fault (lost answer, withdrawal left out of its batch, failed scan, reload), a note of the superseded key; every wallet at rest is also given up to 2 notes of up to 3 for the selection. 422,021 states |
| `wallet_unread` | (disagreement, section 6) | one payment, a feed in hex |
| `calls` | Does what a wallet proves fit what the contracts check, whenever it arrives; is a proof good for one call; can a key derive its notes again from the rows; is what is quoted what is settled? | two wallets with two notes each of both kinds, a tree of 8 and a window of 2, so that one V3 transfer evicts a root; amounts above the margin of a tier by change worth nothing, by change equal to a payout (10), and an amount that only both notes cover (130 of 110 and 20); prices that lose, hold and win; two calls, in any order of proving and landing: prove and be overtaken, receive and spend, open and close. 56,216 states |
| `prices` | Does the mark age only by failed publications and by the time spent waiting for a read or down, do both readers agree, and do marks that come from readings keep to one anchor? | a limit of three intervals of two units, three market prices of which one rebases to nothing, two overlapping ticks, four faults, restarts in all three modes |

The bounds on tokens (`MaxBalance`, `MaxShares`, `MaxFund`) stand for the
asset's finite supply; they guard only actions that bring tokens or shares in,
never one that settles, pays or exits. `MaxFaults` bounds how often things go
wrong in one behaviour, `MaxLog`, `MaxOps`, `MaxEvents` and `MaxLedger` how much
happens. `CHECK_DEADLOCK FALSE` is set where a bounded instance does stop: a full
tree with every note spent, requests all answered, leaves all enrolled, ledgers
all closed. That is no error of the code.

What the properties say, and what each would catch:

- `RefinesLedger`, `Backed`, `FullyBacked`: value is neither created nor
  stranded by any mix of calls; dummy inputs, nullifier reuse, a commitment whose
  nullifier is already used, and forged or evicted roots are where it could be.
- `HistoryIsWindow`: a proof survives exactly `ROOT_HISTORY_SIZE - 1` concurrent
  insertions, whatever calls make them.
- `FullyBacked` also says that the counter used for the anonymity floor never
  overstates the crowd. `EscrowsHeld`: the tokens are what active orders lock, open
  quests owe and replaced quests left behind; `EscrowReturnable`: each is paid, once, to
  whoever comes first. `ControlsHold`: only approved keys enter; a blocked note or one that
  cannot be looked up leaves by its rage-quit or through a settlement, so by the rage-quit
  alone while no contract is on the allowlist (`execute_settlement` asks no blocklist,
  section 6); and each withdrawal of a batch leaves in a large enough crowd, unless a
  settlement minted a note that was in the tree already. `RageQuitOpen`: the public exit is
  never shut.
- `BooksAgree`, `MarginHeld`, `Settleable`, `ImplementsVault`: the vault's totals,
  the reserve of each position and the two contracts' clocks agree, and the money
  of a position is where its settlement will look for it, at every price.
  `Solvent`, `SharePriceHolds`: the vault's reserves and rounding.
- `SeizedOnlyInSilence`: an attestation between claim and reveal saves the
  position. `GivenUpIsSeized`: silence in the end is answered.
- `RedeemableClaims`: what the keeper claimed it can finish, whatever overlaps or
  crashes. `NeverOversleeps`: a backoff computed from old reads never outlasts the
  position's health.
- `AnswersHold` (`HashMeansSettled`, `ErrorMeansUnpaid`): a hash says that the
  request was settled, or that it was left out of the batch which the hash names, and the
  client cannot tell which (section 6); a retry after an error is safe unless the outcome was open. `BadProofsStayOut`,
  `AcceptedIsAnswered`: no caller can spoil a batch by a proof that was bad from
  the start, and no one waits in a queue that nothing flushes.
- `MirrorAgrees` (`RowsMatchChain`, `HolesAreAccounted`), `ServedOnPrefix`
  (`ServedListIsPrefix`, `EnabledOnlyOnPrefix`) and `HolesHeal`: what the enrollment mirror owes everyone who builds a path from it.
- `NothingSkipped`, `ServedTreeIsPrefix`, `ClosedStaysClosed`, `EventuallyIndexed`:
  what the tables owe the wallets, in the middle of a page, after a failure and
  when the RPC has forgotten what was to be read.
- `NotesAreTrue` (`NoteOpens`, `SpentOnlyIfSpent`), `NotesAreKept` (`ReceivedKept`,
  `LegacyKept`): a note in the store can be spent; it is not written off unless the wallet was
  given the hash of a batch that had left it out (`misled`); and it is not lost by the scan or
  by the adoption of the old key's notes, unless another write went over it (`overwritten`) or
  its row could not be read (`unread`). `SpendsRecorded`, `DepositsFound`: what the chain did
  without the wallet hearing of it is noticed again and again.
  `SelectionIsTightest`: the two-pointer search against its reference.
- `HonestCallsAccepted`: a call from a wallet's own note or position is accepted
  unless it was overtaken for a reason that is named: a swapped argument, a tree
  or a table that differs, a dummy that repeats or a stale list of leaves would break it.
  `ArgumentsAreBound`: with any argument changed to another value in sight, the
  contracts refuse the proof. `OutputsAreDerivable`: what the rows carry of each output of a
  call determines it under its owner's key (for a closed position together with the wallet's
  own record of its collateral), and no two notes coincide. That the running wallet
  makes the derivation is not said: it reads transfer rows in another base
  (`wallet_unread`) and no screen recovers position notes (section 6). `QuotesAgree`: what the
  wallet shows is what contract and circuit do, at every price.
- `StaleOnlyInSilence`: reads of the market that fail never let the mark go stale. One that
  hangs does, as it has no time-out: the wait is counted with the time the publisher is down.
  `MarkKeepsAnchor`: marks that come from readings differ as the market did, whatever
  restarted in between; a publisher that has read nothing yet publishes the
  starting price (section 6).

## 4. Fairness

No specification assumes anything of owners, users' choices, rivals, the market
or the chain's traffic. What is assumed is what a process's event loop or the
network does by itself:

- `indexer` (`EventuallyIndexed`): the poll loop (`while (this.running)` with a pause
  of five seconds) goes on; faults are finite (`MaxFaults`).
- `keeper` (`GivenUpIsSeized`): each tick under way goes on, as awaited calls return
  or time out after at most thirty seconds, and time passes, which also fires the
  timer that begins ticks.
- `relayer` (`AcceptedIsAnswered`): the batch timer fires once it is set, and each
  submission goes on; simulation and polling are bounded loops.
- `enrollment` (`HolesHeal`): the start-up check and the queue go on, the network
  lets a late insertion land or expire, and whoever lacks a path asks again; the
  property itself is conditional on the service staying enabled.
- `wallet` (`SpendsRecorded`, `DepositsFound`): the page's own steps are taken,
  submitted transactions land or fail, the indexer keeps up, and pages that
  refresh are opened again and again; that the user starts anything else is not assumed.

`pool`, `escrows`, `positions`, `prices` and `calls` check safety only.

## 5. The proofs

All theorems hold for every value of the constants that satisfies the named
assumptions (`NoteConstants`, `PoolConstants`, `VaultConstants`,
`PositionConstants`, `PriceConstants`, `UnitAssumption`, `KeeperConstants`,
`RelayerConstants`, `IndexerConstants`, `EnrollmentConstants`, `EscrowConstants`,
`SelectionConstants`, `WalletConstants`): any number of owners,
notes, leaves, orders, quests, positions, LPs, keepers, overlapping ticks, requests, batches and submissions, any tree, window and page
sizes, tiers, prices, intervals, units and bounds. The ids of orders and quests are
finitely many, as a sum over them needs; they are counters in the code. TLC evaluates each
assumption in the runs. One theorem about the wallet has a hypothesis besides, and the
run `wallet` has constants for which it holds: `StoreIsTrue` assumes that positions are
funded by the wallet's own key (`Funders`). The code does not guarantee it; section 6 says
what happens otherwise.

| Theorem | Statement |
| --- | --- |
| `LedgerCorrect` (VayylPool_proofs) | the abstract ledger is backed and spent notes stay spent |
| `PoolTypeOK`, `PoolHistoryIsWindow` | types and limits; the ring buffer is exactly the window |
| `PoolRefinesLedger`, `PoolBacked` | the pool implements the ledger, hence is backed |
| `PoolFullyBacked` | without settlement contracts (`UsersSpec`): the tokens are exactly the spendable notes', the crowd is never overstated |
| `PoolControlsHold` | settlements included (`Spec`): on every step tokens come in as a note only under an approved key, a blocked note is spent by its rage-quit or a settlement alone, and a withdrawal leaves a crowd below the floor only where a leaf is in the tree twice |
| `EscrowsAreHeld` | the tokens of a V1 pool are exactly what orders lock, quests owe and replaced quests left behind |
| `EscrowsRespectPool`, `EscrowsAreBacked` | every call of the registry and the hub is a step of the pool's specification, so with them the pool still implements the ledger and is backed |
| `VaultSolvency`, `VaultTotals`, `VaultSharePrice` (PositionManager_proofs) | reserves covered; totals exact; share price |
| `BooksBalance`, `SystemSolvent`, `MarginsAreHeld` | the composed system's records, reserves and margins agree |
| `AlwaysSettleable` | every open position can be settled at every price |
| `SystemImplementsVault`, `SeizureIsDue` | refinement of the vault; when a seizure may happen |
| `PayoutsAreQuoted`, `HealthIsQuotedExactly`, `BoundsAreExact` (PriceFeed_proofs) | the wallet's payout, liquidation price and price bounds are exact, for both tiers and directions, every price and every unit |
| `MarkIsAnchored`, `MarkAgesInSilence` | marks that come from readings keep to one anchor over all restarts; the mark's age is explained by failed publications and by waiting, hung reads included |
| `ClaimsAreRedeemable`, `DeadlinesAreKept` (KeeperService_proofs) | what the keeper claimed has its secret on disk; no backoff outlasts a position's health |
| `ToldIsTrue`, `OnlyGoodCallsAreFunded` (Relayer_proofs) | a hash is the request's own or of the batch that left it out, an error means unpaid or unknown; what goes out at the relayer's expense was checked |
| `NothingIsSkipped`, `TreeIsAPrefix`, `NoPositionReopens` (Indexer_proofs) | the tables lack nothing below the cursor that was not given up by name; the leaves served have no gap of the indexer's making; closed stays closed |
| `MirrorIsRight`, `PrefixIsServed` (Enrollment_proofs) | the enrollment mirror's rows are where the contract has them and its holes are accounted for; what is served is a prefix of the contract's leaves |
| `WalletAgrees` (WalletNotes_proofs) | the log, the store and what a task carries between a read and a write agree |
| `StoreIsTrue`, `SpentMarksHold` | every stored note names the key that opens it; a note is written off only if it is spent or the relayer had answered its withdrawal with the hash of a batch that left it out |
| `NothingGoesMissing`, `OldNotesAreKept` | no payment below the cursor is missing but by another write over the store or in a row that could not be read, and no note of the old key but by another write |
| `ChoiceIsRight`, `SelectionIsRight` | the notes chosen for a payment are the tightest, and the most that can be sent is what is shown, for the wallet's notes and for any list of amounts |

*The ledger.* `LedgerInv` is type, `Backed` and `SpentIsFinal`; each action moves
no more value into notes and holdings than leaves notes, holdings and the
depositor. The facts about `Value` (monotone, additive over disjoint sets, the
value of one note) are proved from cardinality alone, and so are those about
`Total`, which both PositionManager_proofs and VayylPool_proofs state.

*The pool.* Refinement is not provable from types. `PoolInv` adds `HistoryShape`
(the ring buffer holds the last roots in order, so a known root is never forged,
so a spend proof shows that the note is a leaf) and that every recorded commitment
is a leaf (so the rage-quit's look-up shows the same). Deposits and the outputs
of transfers map to Shield and Exchange, with the case that a new leaf's
nullifier is already used (the note is dead on arrival) treated explicitly; exits
and settlements follow from `PoolInv`; administration maps to a stutter.
`PoolBacked` is `PoolRefinesLedger` and `LedgerCorrect` (of the ledger's instance in
the pool) together.

*The escrows.* The theorem that both contracts deserve the allowlist's trust is
`EscrowsRespectPool`. A payout is a pool step only if the pool's settlement contracts
hold that much (`TrustedSettlement`), so it needs the books of the escrows, and these in
turn need the pool's steps: `EscrowInv` is `PoolInv`, the types, `EscrowsHeld` and
`AllHeld`, which says that a V1 pool, where no note is left to anybody, holds nothing
but for them. Each call changes the record of one order or quest, and the sum by what
that record changes (`OrderChanges`, `QuestChanges`), exactly as custody does
(`PullMoves`, `PayOutMoves`). A quest created again under its id overwrites what the
first one owed, which the sum loses and `stranded` keeps.

Exactness needs more than the refinement, and `UsersInv` has it: with nobody on the
allowlist each leaf was recorded when it came in and none came twice, so the tree's
length is the number of notes; a nullifier without a leaf is a dummy's or one blocked
beforehand, of no value; and `spentCount` is at least the nullifiers there are, whatever
was synchronised. Then the balance is the value of the live notes, by the additivity of
`Value`, and the count of unspent notes is at most their number, by cardinality.

The controls are proved with settlements taking part, from `CountsInv`, which is `PoolInv`
and that `spentCount` is at least the nullifiers there are. Every step that uses a nullifier
is a transfer or a withdrawal, which have asked the blocklist, a rage-quit, or a settlement
(`SettlementCases`, `BlocklistHolds`); a step that brings tokens and leaves the holdings
alone is a deposit (`DoorHolds`). For the floor (`FloorHolds`) the tree's length must be the
number of notes, which it is as long as no leaf is there twice (`InjectiveCounted`); that of
a batch needs that each of its withdrawals is compared with a count that the ones before
it have lowered.

*The vault.* `VaultInv` is type, `Solvent` and `TotalsAgree`; each needs the others:
withdrawals are solvent because free balance subtracts the running total, and a
release is because the total is at least the entry it frees. `SharePriceHolds`
rests on one lemma about floor division.

*The composed system.* The invariant is `BooksAgree` (types, `TotalsAgree`, that
each open position has its tier's reserve, and that the manager's and the
engine's clocks agree), `Solvent`, `MarginHeld` and the supply bound. `Settleable`
follows: a profit is capped at the tier's reserve, which the books say is set
aside and `Solvent` says is there; a loss is at most the margin, which
`MarginHeld` says the pool has. `SystemImplementsVault` maps every action to a
vault step or a stutter.

*The price feed.* `MarkKeepsAnchor` follows from `FeedTypes`, `OneAnchor` (the
process that publishes has the anchor of the file) and `Marks` (every reading on
its way and every published price is derived from that anchor). The age needs a
quantity that time does not disturb: `SilenceInv` says that the mark's age and
the time until the next tick together stay under `PRICE_INTERVAL` times the
failures, plus the time spent waiting; `Ahead` is that time when no tick is under
way, and `DownIsOff` that a process which is down has no timer. `ReadersAgree` is
the lemma that the adapter and the position manager judge one record alike.

*The quotes.* The three parts of `QuotesAgree` that speak of one position and one
price. Everything is linear once the tier's size is a number; the two facts needed are
what it means for a whole number to reach a quotient rounded up (`CeilDivReaches`) or
to be within one rounded down (`DivWithin`). `UnitAssumption` keeps the amounts of
the tiers apart in the chosen unit; with `StroopsPerUnit` 1 it is the code's own
money. Prices are naturals, as `i128` prices the contract accepts are positive.

*The keeper.* `RedeemableClaims` alone is not inductive: a claim that lands late must
find its secret on file. `PendingIsStored` says so of every submission under way in any
tick or given up by its tick, `SameStore` that the memory and the file agree between two
steps (a secret is flushed before the claim is sent), and `SeizedForGood` that a secret
is only thrown away when the engine's flag, which never clears, was read. The
deadline rests on `SightIsSound`: what a read says, less the time since it was made, is
never more than is left; the lag saturates where no delay is compared any more
(`LongestDelay`), and a position whose owner attests in between only gains time.

*The relayer.* `RelayerInv` follows each request: it is in the queue or in exactly one
flight and waits (`InOnePlace`), or it has been answered. `FlightsFit` says what a
flight carries at each stage (what no longer travels was left out of the batch and is in
`dropped`; a batch carries what simulated cleanly; contracts are checked before anything
is sent), and `Unattended` that what a time-out or a lost reply left in the network is good
and that its client was not told otherwise. `AnswersHold` and `BadProofsStayOut` are then read off.

*The indexer.* The chain's events are in the order of their ledgers, so whatever is
before a ledger is a prefix of them (`LedgersSplit`); an event is `Settled` when it is in
the tables or given up. `PollSound` says that a tick has settled a prefix, in terms of
the local variable that holds it at the moment (`Reached`: the start ledger, a cursor, a
position in a page), that cursors cut the chain between two ledgers or inside one and
never before what they name (`PageEnds`), and that the cursor stands still only when
the head seen by the request has been scanned. A tick may be forgotten at any point,
so the stored ledger must be justified when it is written, and is: by `PageEnds` at the
head, or at the page cap but for the rest of that ledger, which `lost` names. For the
prefix of the tree, `LeavesInOrder` says that a leaf is recorded after everything before
it was settled, and `LeavesCount` that leaf events number the tree's leaves as long
as no settlement has minted one.

*The enrollment mirror.* Rows that match the chain match it for good, because the
contract only appends (`RowsKnown`); rows nobody has compared yet came from a list, so
they have no hole. `CheckSound` follows the start-up check leaf by leaf: what it has
passed is where the contract has it, and what the contract has beyond the list came in
since the count was read, by a late insertion or the operator's script, and is in
`unrecorded`. When it ends the rows are the contract's first ones. From then on
`JobSound` says of the leaf being enrolled, once it is in the contract, that the mirror
has it, or that the service was not told of it, or that every row is before it; so a
mirror that lacks only that leaf is a prefix without it. `GetLeaves` drops the indexes,
which is right exactly because the n rows are then the first n (`StoredUpTo`,
`ServesPrefix`).

*The wallet.* Tasks overlap and each writes back a store it read before others wrote,
so nothing can be said of the store from the store alone. `WalletInv` rests on this: the
log only grows, and what a task carries is a claim about the log. A note to add has its
leaf there and its key; a mark names a note that is spent there; a cursor to be set is a
ledger up to which the payments are in the store, were written over, or are about to be
added (`TaskTrue`, `WriteTrue`, `Submission`, `Fits`). Such a claim stays true however
long the task is held up (`TaskStillTrue`, `TasksLater`), so a late write is stale and
never wrong, and what it goes over is in `overwritten`. The two things that do make it wrong
are named where they happen: a hash that spent nothing puts what it marks into `misled`, and
a row that cannot be read is in `unread` before the cursor passes it. The adoption of the old key's
notes needs in addition that what is deleted there was in what was written here
(`Adoption`), also for the copy a reload leaves in between. One flaw of the model came
out of this proof: two cases of `Write` overlapped, and which of them a write took was an
arbitrary choice; it is an IF now.

*The choice of notes.* The two pointers are proved of the function that computes them.
That it has values at all, and that its invariant holds after each turn, is induction,
done by hand from the least-number principle (`WFMin`): the least turn at which it failed
cannot be the first, and the turn before it did not (`RunsExist`, `BestPairIsSmallest`).
`LoopInv` says that a pair that is enough is between the pointers or no better than the
best so far; a turn drops the smaller note when even the larger one does not complete it,
or the larger one when every other partner costs more. `RanksFit` and `UsableSorts` say
that putting each note at its rank sorts. `ChoiceIsRight` then needs that the wallet's
amounts are naturals, which is not obvious of change: `AmountsOK`, a part of `WalletInv`,
holds because what was chosen covers what is paid (`PicksCover`), so the correctness of
the choice is part of the induction that shows it applies.

Checked by TLC only:

- the liveness properties (`EventuallyIndexed`, `GivenUpIsSeized`, `AcceptedIsAnswered`,
  `HolesHeal`, `SpendsRecorded`, `DepositsFound`) and `RageQuitOpen` and
  `EscrowReturnable`, which use ENABLED: out of the prover's reach;
- of `Calls` all but the quotes: `MerkleTree` and `ShieldedTerms` compute trees and terms
  level by level, again by folds.

## 6. Where the code and its text disagree

Shown by a run that TLC must find violated:

- `indexer_settled`: "The leaf set must be gap-free" (`backend/indexer/src/db.ts:129`),
  and the pool's Settlement event "lets the indexer / client note-scan pick up notes
  created by position close" (`contracts/vayyl-pool/src/lib.rs:99`). The event carries
  a count and no commitments, the decoder does not handle it (`decode.ts:121`), and the
  positions' own events insert no leaf. After the first opening or close the served
  leaves have a gap, and every wallet's `assertRootMatches` throws from then on.
- `wallet_unread`: "formatting differences can never cause a missed note"
  (`frontend/src/dapp/lib/transfer.ts:369`). The indexer writes ephemeral points in
  hex without a prefix; the scan reads them with `BigInt()`, as decimal, and skips what
  it cannot read, and the cursor moves past the payment.

Seen while modelling, and left without a run of their own.

In the contracts:

- "this never traps funds - `ragequit_v2` does not consult the blocklist"
  (`contracts/vayyl-pool/src/lib.rs:248`). The rage-quit pays and proves the fixed
  denomination, so a V3 note of another amount has no exit while the blocklist is
  on and does not answer.
- "a transfer output can never collide with an existing note" (`lib.rs:1140`).
  Settlement outputs are neither looked up nor recorded, so a later output may
  equal one and share its nullifier.
- `BlocklistEnabled` is "Whether spends consult the ASP blocklist" (`lib.rs:205-207`), which
  "denies an anonymous exit, not an exit" (`frontend/src/dapp/store/pool.ts:345`).
  `execute_settlement` (`lib.rs:1459`), which `open_position` calls with the nullifier of
  the note that pays the margin (`position-manager/src/lib.rs:506`), consults none. A note
  that is blocked after it was deposited can pay a margin, and its value goes on in
  notes that the blocklist does not name. `ControlsHold` names this exit, and the run
  `escrows` reaches it.
- A blocklist that is deployed but not initialised answers "clean", where
  `lib.rs:386-389` says that it refuses spends.
- `initiate_liquidation` lets the holder of a claim restart its clock, where
  `contracts/liquidation-engine/src/lib.rs:283-285` says a claim that is never
  revealed times out. `seconds_until_stale` is 0 one second before `is_stale` holds.
- `pull_public_deposit` requires a V1 pool (`lib.rs:1698`) while the factory and
  the deployment create V2 pools only: an order or a quest that escrows anything
  is refused there, and only empty ones work.
- "A keeper can only execute the order once the price has actually crossed the
  trigger" (`circuits/hidden_order_trigger.circom:10-11`): `reveal_and_execute` takes
  the price from its caller, so whoever knows the opening executes at will.
- `Liquidated(id)` is never cleared and `open_position` does not look at it, so a
  position opened under an id that was seized before can never be liquidated.
- `transfer_v3` asks of an ephemeral point only that it is on the curve, while the
  scan passes over points outside the subgroup: a payer can make a payment that the
  payee's wallet does not find.
- When every reserve has been paid out and the vault's balance is 0 with shares
  outstanding, the next deposit is priced one to one and shared with them.

In the services:

- Indexer: "Persists every recognised event" and "On error, do NOT advance the cursor"
  (`poller.ts:95` and `83`), but a database error on one event is logged and passed over
  (`poller.ts:320`), and the cursor moves on; the page cap, reached inside a ledger, skips the rest of that ledger
  (`poller.ts:175`); a position id that is opened again is taken for a replay
  (`db.ts:252-259`) and not listed.
- Keeper: "wait for the TTL and re-claim" (`keeper/src/index.ts:131-134`), but
  `decide` never claims again what this keeper holds, so a claim whose secret is
  lost is left to others. The model shows that the secret is not lost otherwise.
- Enrollment: `init` and `readLeafCount` can throw and then the relayer does not
  start, where `enrollment.ts:225-227` says that a reason is returned so that it
  can. `getLeaves` drops the indexes, so a hole in the mirror shifts every later
  leaf until it heals; `ServedListIsPrefix` is conditional on that.
- Price feed: a publisher restarted in market mode whose first tick cannot read the market
  publishes `START_PRICE` (`push_price.mjs:242`, `248-254`) over a mark that followed the
  market. The anchor is kept in a file so that the price does not "snap back to exactly
  1 XLM/unit" (lines 66-71), and the message says that the last known price is
  republished. `MarkKeepsAnchor` allows it: a mark that comes from no reading may be the
  starting price. Overlapping ticks may publish an older reading after a
  newer one; a republished price carries the ledger's new time, so the age shown is
  not the reading's, where the script says "the age is visible in the UI either
  way"; the anchor file stays in the synthetic and fixed modes, so the interface
  converts a price no market made; a market read has no time-out.
- Relayer: a withdrawal dropped from its batch is answered with the hash of the batch
  (`relayer/src/index.ts:278`), and the wallet marks its unspent note spent
  (`store/pool.ts:754-762`), where `tree-source.ts:184-187` says "the worst case is a note
  that looks spendable and is not - never the reverse". Nothing unmarks it. Relayer and
  WalletNotes both model this answer; the properties excuse it by name
  (`HashMeansSettled` by `dropped`, `SpentOnlyIfSpent` by `misled`), and any other way
  of writing off a note would be found.
- Relayer: one request that names a contract off the allowlist makes `withdrawV3Batch`
  throw for its whole batch (`relayer/src/relay.ts:130`), where lines 119-122 keep one
  request's bad proof from the others.

In the wallet:

- The payout note of a close is stored without the key that opens it
  (`positions.ts:535-555` against `storage.ts:59-65`). `Funders` is therefore the
  current key in the runs; with the old key in it `NoteOpens` fails.
- `recoverPositionNotes` is called by nothing (`positions.ts:155-160` says
  otherwise), so the change and payout notes of positions are not found again
  once a write has gone over them, and a V2 deposit that landed unheard is lost:
  its blinding was drawn at random. `DepositsFound` is about V3. It also needs the
  collateral from the browser's own record, where `position-notes.ts:22-25` speaks of
  a clean device; `OutputsAreDerivable` is given that record.
- A position funded by a note of the superseded key cannot be closed or attested once
  its local record is lost, as nothing else says which key it was opened with.
- The worker hashes three fields of a hidden or a sealed order as
  hash2(a, hash2(b, c)), the circuits with a three-input hash, so neither proof can be
  made; the screens of orders and quests (`store/escrow.ts`), which ask for the second,
  are a stub that calls no contract.
- `fetchDepositsFrom` answers an unreachable indexer with an empty list, so a recovery
  that found nothing and one that could not look are the same to its caller.
- `recoverOwnDeposits` tries the first 65 indexes only (`MaxIndex`), and a V3 note of
  exactly the fixed amount is found by the V2 scan and kept as a V2 note, which it
  can be spent as.
- `liquidation.ts` says that a short may have no liquidation price; by its code only a
  long may. The proofs show that its figures are right either way.
- Two overlapping read-modify-writes lose one of the updates; `clearV2Notes` does
  not move the scan cursor back, so the payments it removed are not scanned
  again; on import the file's record wins over a newer one. The first is what the
  ghost `overwritten` excuses, and `SpendsRecorded` shows what heals.

## 7. What is not modelled

- Arithmetic of hashes, curves and pairings, and the proof bridge: hashes are
  collision-free and proofs sound. What a circuit relates is modelled, how its
  gadgets do so is not. Of the proof worker, the proofs for hidden and sealed orders
  (the circuits themselves are in Escrows).
- In `Calls`: custody, the blocklist, the floor, clocks and faults of the services,
  which the other modules have; the ephemeral points are taken as read
  (`FeedInHex` is FALSE, section 6 says why that matters); the tree is not filled.
- Authorisation (`require_auth`): an action is taken by who may take it. Storage
  TTL and archival, contract upgrade, events, and rewiring of contract addresses.
- A payout to the pool's own address, and settlement payouts without a recipient.
- The pool factory: one map with one writer.
- The tree of VayylPool being full when a position closes (the guard reverts the
  close, and the position can only go stale), and an oracle outage longer than
  the grace period: both follow from one guard and are listed as hazards.
- Several positions in the run `positions`: the theorems cover any number.
- The indexer's heartbeats, the encoding of events and the HTTP interface.
- A torn write of the keeper's or the enrollment service's file, and the
  operator deleting the anchor file.
- The wallet's lists of positions and orders beyond the notes and the key they
  touch, activity, sealed storage's encryption, the chart, the market proxy, the
  user interface, and scripts run by hand for deployment and end-to-end checks:
  they keep no state that reaches the parts that are modelled.

The modules stand for about a sixth of the repository's lines of
implementation; most of the rest is interface, end-to-end and deployment scripts, and
arithmetic of proofs.

## 8. What is left to do

Every invariant and action property that does not use ENABLED is proved for every size,
but for the four of `Calls` (of `QuotesAgree`, the parts about one position and one price
are). What would add most next: the three ways
`MerkleTree` computes a root as recursive functions that lemmas can be proved of, as was
done for the choice of notes; in `Calls` larger instances (three calls, two positions of
one wallet), and position recovery once something calls it.
