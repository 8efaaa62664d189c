# A TLA+ model of raiden-common

raiden-common is the core of a Raiden node: a node that pays other nodes through
payment channels. Two nodes deposit tokens in a contract and then exchange signed
*balance proofs* off chain; a payment over several channels is made of one *lock*
per channel, which its payee can claim with a *secret*. The chain is needed to open
a channel, to withdraw, to register a secret when a partner does not answer, and to
close and settle.

This directory holds modules that model the system, configurations that check them
with TLC, and proofs that TLAPS checks. `PROJECT.json` lists the runs, the source
lines behind every definition, the hazards and the theorems. Paths below are
relative to `src/raiden_common/`.

```
tlc -workers 2 -config Transfers.cfg MCChannelPair     # a run
tlapm ChannelLemmas.tla                                # the proofs; also ChannelMoves,
                                                       # ChannelPairProofs, ChannelClaims
```

## 1. The system

Everything a node knows is one value, `ChainState`, and everything it does is a
function of that value and a *state change* (`transfer/architecture.py`). The
transition returns the new state and a list of *events*; the event handler turns
events into messages and transactions. State changes come from the user, from
messages, and from the chain.

| Part | State | Operations | Talks to |
|---|---|---|---|
| Netting channel (`transfer/channel.py`, `transfer/state.py`) | both participants' deposits, balance proofs, pending locks by what is known of their secrets, withdraws, nonces; close, update and settle transactions; cooperative settlement | lock, unlock, expire; withdraw request, confirmation, expiry; cooperative settlement; close; the contract's events; block | token network, payments |
| Initiator (`mediated_transfer/initiator.py`, `initiator_manager.py`) | routes tried, the transfer and its status | start, reroute, secret request, reveal, expiry | one channel, the target |
| Mediator (`mediated_transfer/mediator.py`) | pairs of payer's and payee's transfer with their status, a waiting transfer | mediate, reveal, unlock, register on chain, expire | two channels |
| Target (`mediated_transfer/target.py`) | the transfer, whether the secret is known | request the secret, reveal, register, expire | one channel, the initiator |
| Node (`transfer/node.py`, `token_network.py`) | channels, payment tasks, message queues, pending transactions | dispatch a state change, clear queues and transactions | all of the above |
| Chain synchronization (`raiden_service.py`, `blockchain/`, `tasks.py`) | last confirmed block, filters, batch size | poll, decode, apply a batch | node, write-ahead log |
| Write-ahead log (`storage/`) | state changes, events, snapshots | write, snapshot, replay | service |
| Event handler and proxies (`raiden_event_handler.py`, `network/proxies/`) | none; locks per transaction | send messages and transactions, decide what to unlock | transport, contracts |
| Transport (`network/transport/matrix/`) | a retry queue per partner, acknowledgements | send, retry, deliver | message handler |
| Message handler (`message_handler.py`) | none | validate, turn messages into state changes | service, contracts |
| Service and API (`raiden_service.py`, `api/`, `waiting.py`) | running tasks | user's actions and their preconditions | node |
| Fees, routing, pathfinding (`mediation_fee.py`, `routing.py`, `pathfinding.py`) | fee schedules | compute fees, ask for routes | initiator, mediator |
| Messages, serialization (`messages/`, `storage/serialization/`) | none | pack, sign, encode | transport, storage |

**What is hard.** Messages are retried until they are processed, so they arrive
twice, late and out of order; each node follows the chain at a distance of
`Confirmations` blocks and in batches of its own size, so the two nodes never
agree on the time; a secret can become public on the chain at any moment; a user
withdraws, closes or settles while transfers are on their way; expirations let a
node take back what its partner may still claim. The hazards in `PROJECT.json` give
the line for each of these.

**What must hold**, by part.

- *Channel*: both copies of a channel stay equal up to the messages on their way; a
  valid message is never refused for good; a claim that was made public in time is
  paid; no node spends what it withdrew; the contract is given the latest balance
  proof.
- *Mediator*: a mediator that has paid its payee can claim from its payer.
- *Initiator and target*: a payment ends; success is reported once and only when
  the target was paid; a secret is revealed only to a target whose lock is safe.
- *Node*: a message stays queued until it is acknowledged or pointless; a
  transaction stays pending until it has its effect or cannot have one.
- *Write-ahead log*: a restart has the state the crash interrupted, and sends what
  was not sent.
- *Synchronization*: no event is skipped and none is applied twice.

## 2. The modules

| Module | What it is |
|---|---|
| `NettingChannel` | `channel.py` as operators on a channel record |
| `ChannelPair` | two nodes with a channel, their messages, the chain, the contract; all properties |
| `MCChannelPair` | instances for TLC |
| `ChannelLemmas` | what each operator of `NettingChannel` does to a channel, proved |
| `ChannelMoves` | the inductive invariants of `ChannelPair`; every action of a node is a `NodeStep`, proved |
| `ChannelPairProofs` | types, agreement of the copies, settlement, proved |
| `ChannelClaims` | claims on public secrets, proved |

### NettingChannel

A function of `channel.py` is an operator with the same name, with the channel
record as an argument and the new channel, or a `TransitionResult` with channel and
events, as its value. A function that returns `(False, message)` is a predicate.

- `Optional[X]` is a set with at most one element.
- `secrethashes_to_lockedlocks`, `..._unlockedlocks` and `..._onchain_unlockedlocks`
  are sets of locks; `pending_locks` is a sequence, since its order is what the
  locksroot commits to. `compute_locksroot` is injective: the hash has no collisions.
- A secret is its own hash. Signatures are left out: a message is what its sender
  signed.
- `withdraws_pending` is a set that is walked in the order of the totals.
- The assertions of `sanity_check` are a predicate. A transition that fails it
  raises, and the atomic write-ahead log drops the transition: it does not happen.
- Amounts are integers; `UINT256_MAX` is kept where the code compares with it.

Definitions written in lower case next to an operation, such as
`receiver_threshold_too_late`, are mutations used to see that a property can fail.

### ChannelPair

`chan[n]` is node `n`'s copy of the channel. Its other variables are the messages
ever sent (`sent`), how far each node follows the chain (`block`, `batch`, `pos`,
`phase`), the chain (`height`, `log`, `revealed`, `contract`), the transactions sent
(`txs`) and one history variable, `hist`: what a node was committed to after each of
its nonces.

- *Messages.* `ReceiveMessage` takes any message ever sent, so loss followed by
  retry, duplication and reordering are all there. A node without a valid use for a
  message ignores it, as `channel.py` does.
- *Chain.* `StartBatch`, `ReceiveContractEvent`, `HandleBlock`, `ExpireWithdraw` and
  `ExpireLock` are the parts of one batch. The code applies a batch atomically; here
  its parts are steps, and the node does nothing else between them (`phase`). The
  partner may receive a message of a batch before the rest of the batch is done. It
  could as well receive it just after: the rest of the batch neither reads nor
  changes anything of the partner's, so no state of interest is added.
- *Payments.* Initiator, mediator and target appear through what they do to this
  channel: `SendLockedTransfer`, `LearnSecret`, `SendUnlock`, `ExpireLock` and the
  reaction to a registered secret. An initiator unlocks at once when the secret was
  registered in time; a mediator only when its payee already knew and its payer's
  lock is not about to expire, which depends on the other channel. Both outcomes
  are possible in `HandleSecretReveal`.
- *Contracts.* `setTotalWithdraw`, `cooperativeSettle`, `closeChannel` and the others
  are external: they have the preconditions that the proxies rely on. A transaction
  may be mined any time after it was sent, or never.
- Events are collected in a set. The second copy of the request that
  `events.extend(events)` (channel.py:2205) adds is a duplicate message, and any
  message may be delivered twice anyway.

## 3. What is checked

All runs use `MCChannelPair`. Deadlock is not checked: the height of the chain and
the nonces are bounded, and a settled channel is the end of its story.

| Run | Instance | Shows |
|---|---|---|
| `transfers` | A pays B under one secret, default and shortest lock timeout, the reveal timeout may change, nodes lag up to 2 blocks | `TypeOK`; copies agree (`ViewsAgree`); a payer never tells its payee to drop a public claim (`PayerRespectsClaims`); a claim that was public in time ends with a payment (`ClaimEndsWithPayment`); all that `sanity_check` asserts holds after every step, not only after those that call it (`SanityHolds`); a node that has caught up never refuses the next message (`NextMessageAcceptable`) |
| `both_ways` | A pays B and B pays A; B owns nothing but what A pays or what it deposits | `SanityHolds`, `NextMessageAcceptable` when each payment is covered by the other, or by a deposit the nodes notice at different times |
| `withdraw` | A withdraws 2 and 4, requests overlap, expire and are mined in every order | nothing the contract paid out is forgotten by either node (`WithdrawnAccounted`), `NextMessageAcceptable` |
| `coop_settle` | both may start a cooperative settlement while B pays A | it pays what both books say and forgets no lock (`CoopSettleIsFair`); the assertion "Only one party can initiate a coop settle" holds (`NoCompetingCoopSettle`) |
| `settlement` | both may close while a payment is under way; update, settle, unlock | the contract has the last balance proof its holder accepts (`HandedInIsLatest`) |
| `delivery` | one payment, with fairness | every message is accepted in the end, but for a transfer whose secret became public before it arrived (`EveryMessageAccepted`) |
| `settlement_liveness` | both may close, with fairness | a closed channel is settled (`ClosedIsSettled`) |

Five runs show that the code does something else than a comment or an assertion of
the code says. Each is a short trace TLC prints.

| Run | What the code says | What happens |
|---|---|---|
| `negative_balance` | channel.py:2817 "The balance can never be negative" | A withdraw is compared with the balance, which includes what is locked. The unlock that follows makes the balance negative, in both copies. |
| `expired_confirmation` | channel.py:1060 "The requesting node must accept an confirmation for an expired withdraw request" | `is_valid_withdraw_confirmation` compares the total with that of the pending withdraws only; the confirmation is refused. |
| `withdraw_order` | channel.py:1819 "only earlier withdraws can expire" | With a lower reveal timeout set between two requests the later one expires first and stays. |
| `coop_partner_total` | channel.py:2173 "The expected total withdraw of the partner doesn't match" | A deposit noticed during the negotiation makes an honest request fail the assertion. |
| `coop_zero_total` | channel.py:2809 "total_withdraw must be ordered" | A participant that owns nothing answers with a withdraw of 0, which fails the sanity check when the initiator's expiry arrives first. |

**Bounds.** Every bound is a constant of the configuration. `MaxHeight` lets the
longest lock of the run expire and be seen by both sides (block of the transfer,
plus twice the reveal timeout, plus the two confirmations the sender waits for).
`MaxNonce` counts messages per node and leaves room for lock, unlock or expiry, and
one more; actions ask for two free nonces because a block may make a node send an
expiry on top. `MaxLag` bounds how far a node falls behind; one block is already
enough for the two nodes to disagree on what has expired, and the withdraw runs have
no effective bound. One secret is enough per direction, because a lock is looked up
by its own secret hash only; the balance couples locks, which `both_ways` covers.

**Fairness.** Only in `FairSpec`: the transport retries the message a node waits
for (`_RetryQueue`), the alarm task polls the chain (`Sync`), the chain grows and
mines a transaction that stays possible. All are weak fairness of steps the code
loops over; nothing is assumed of users, of payments or of secrets.

## 4. What is proved

`ChannelPairProofs` and `ChannelClaims` prove four theorems for every set of
secrets, payers, amounts and users, and for every timeout, number of confirmations
and bound. The assumptions are that times are natural numbers and that a node waits for at least one
confirmation (`TimeoutAssumption`, `TimeAssumption`).

| Theorem | Statement |
|---|---|
| `Types` | `Spec => []TypeOK` |
| `CopiesAgree` | `Spec => []ViewsAgree` |
| `LatestIsHandedIn` | `Spec => []HandedInIsLatest` |
| `ClaimsEndWithPayment` | `Spec => ClaimEndsWithPayment` |

**The argument.** `ChannelLemmas` says, operator by operator, what happens to the
two commitments of a channel: it either leaves them alone (`Quiet`), or makes the
node's own commitment take the one step that the message it emits describes
(`OurStep`, `Applied`), or makes the copy of the partner take a step that one of the
partner's messages describes (`ViewStep`). `ChannelMoves` collects this into
`NodeStep(n, r)` and shows that every action of a node is such a step (`Moves`).
All invariants are then proved against `NodeStep`, once, instead of against thirty
operators.

- `ViewsAgree` is not inductive: nothing in it says what an undelivered message
  does. `HistoryInv` does. Every message ever sent, at nonce k, takes entry k-1 of
  its sender's history to entry k, and in every entry a secret has at most one lock.
  A receiver accepts only the nonce after its own, so its copy moves from one
  entry to the next. Uniqueness is needed because messages name locks by secret.
- `HandedInIsLatest` needs `HandInInv`: the same fact about the transactions that
  are not mined yet, and that the channel which sent one is no longer open, so that
  it takes no further balance proof.
- `ClaimEndsWithPayment` needs `SyncInv` and `RevealInv`. A payee drops a lock unpaid
  only when its block is `Confirmations` past the expiration and it does not know
  that the secret is public. If the secret was registered in time, and the payee
  does not know, the event is still ahead of it (`RevealInv`); but a node has
  processed every event up to its block (`SyncInv`), and that block is beyond the
  registration.

These invariants were model-checked before they were proved.

**Only model-checked.** `PayerRespectsClaims`, `SanityHolds`,
`NextMessageAcceptable`, `WithdrawnAccounted`, `CoopSettleIsFair`,
`NoCompetingCoopSettle` and both liveness properties. Liveness under fairness is
beyond the prover. `SanityHolds` and `NextMessageAcceptable` need sums over the
pending locks, that is induction over sequences, which is beyond it too. The others
are in the plan.

## 5. What is not modelled, and the plan

Not modelled because it is input and output: the Matrix client, web RTC, the RPC
client, the REST encoding, serialization, signatures, accounts. Not modelled yet:
everything below. `handle_refundtransfer` is not modelled.

Later modules, in this order. Each has its own variables and instance; the runs
that exist now are merged where one instance can carry several questions.

1. `Settlement`: an abstract ledger (who owns what) and the proof obligation that
   close, update, settle and unlock implement it: no participant gets less than
   what its last balance proof and the secrets registered in time are worth. Also
   the unlock decision of the event handler.
2. `Mediator`: one node between two channels, with the pair of transfers and their
   states, the danger zone, the waiting transfer, on-chain registration. Property:
   a mediator that paid is paid; a pair's two states never contradict each other.
   Composes two `NettingChannel`s.
3. `Payment`: initiator, initiator manager and target with routes, rerouting, secret
   request and reveal. Properties: success once, no secret for an unsafe lock,
   every payment ends. Also what target.py:272 (the lock is looked up among the
   node's own) means for the reported result.
4. `NodeQueues`: message queues, pending transactions and payment tasks of
   `node.py`, with acknowledgement and the transport's retry queue. Abstract
   specification: a reliable sender; refinement by queue and retry.
5. `WriteAheadLog`: write, snapshot, crash, replay, and sending the pending events
   again. Abstract specification: a state machine that does not crash; refinement.
6. `Synchronization`: polling, batch size, timeouts and filters of
   `blockchain/events.py`. Property: every event once and in order. It refines the
   batch of `ChannelPair`.
7. `Proxies` and `Service`: preconditions and failure diagnosis of transactions;
   the checks of the API; the waiting loops.
8. `MediationFee`: the piecewise linear fee functions over small integers, against
   a reference definition.

Theorems planned: `PayerRespectsClaims` (with `SyncInv` for the payer),
`WithdrawnAccounted`, the pair invariant of `Mediator`, the refinements of
`NodeQueues` and `WriteAheadLog`, that `Synchronization` skips no event.
