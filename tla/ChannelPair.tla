----------------------------- MODULE ChannelPair -----------------------------
(***************************************************************************)
(* A payment channel between two nodes.  Each node keeps its own copy of   *)
(* the channel (NettingChannel) and changes it when a payment, its user,   *)
(* a message of its partner or the chain tells it to.                      *)
(*                                                                         *)
(* Messages.  The transport retries a message until it is processed, and   *)
(* may duplicate, delay and reorder: any message ever sent can be          *)
(* delivered at any time, any number of times.                             *)
(*                                                                         *)
(* Chain.  The nodes follow it at a distance of Confirmations blocks.  A   *)
(* node processes a range of confirmed blocks in one atomic batch: first   *)
(* the contract events of the range, then the block itself, which expires  *)
(* withdraws and locks.  phase[n] tells where in a batch node n is; it     *)
(* does nothing else until the batch is over.  The contracts are external: *)
(* they do what the node's code relies on.                                 *)
(***************************************************************************)
EXTENDS NettingChannel

CONSTANTS
    Secrets,        \* the secrets (and secret hashes) of the payments
    PayerOf,        \* [Secrets -> Node], the payer: a payment crosses once
    WaitingPayments,\* the secrets a mediator may forward after a wait
    LockAmounts,    \* the amounts of the transfers
    LockTimeouts,   \* the optional lock timeouts a payment may ask for
    Withdrawers,    \* the nodes whose user may withdraw
    WithdrawTotals, \* the total withdraws a user may ask for
    CoopSettlers,   \* the nodes whose user may settle cooperatively
    Closers,        \* the nodes whose user may close the channel
    RevealTimeouts, \* the reveal timeouts a user may set
    DepositTotals,  \* the total deposits a user may make
    InitialDeposit, \* [Node -> Nat]
    InitialReveal,  \* the reveal timeout of both nodes
    MaxHeight,      \* bound: the last block of the chain
    MaxNonce,       \* bound: the last nonce of a node
    MaxLag          \* bound: how many confirmed blocks a node may be behind

ASSUME TimeAssumption ==
    /\ InitialReveal \in Nat
    /\ RevealTimeouts \subseteq Nat
    /\ LockTimeouts \subseteq SUBSET Nat

Node == {"A", "B"}

Other(n) == IF n = "A" THEN "B" ELSE "A"

VARIABLES
    chan,     \* [Node -> the node's channel state]
    sent,     \* [Node -> the messages it sent, with their nonces]
    hist,     \* [Node -> its commitments after each of its nonces] (history)
    block,    \* [Node -> the last confirmed block it processed]
    batch,    \* [Node -> the block its current batch ends with]
    pos,      \* [Node -> how many contract events it processed]
    phase,    \* [Node -> "idle", "events" or "expire"]
    height,   \* the latest block
    log,      \* the contract events, in order, with their blocks
    revealed, \* [Secrets -> the block a secret was registered in, or 0]
    contract, \* the channel in the token network contract
    txs       \* [Node -> its transactions that are not mined yet]

nodeVars == <<chan, sent, hist>>
syncVars == <<block, batch, pos, phase>>
chainVars == <<height, log, revealed, contract>>
vars == <<nodeVars, syncVars, chainVars, txs>>

-----------------------------------------------------------------------------
(***************************************************************************)
(* Committing a transition of node n.                                      *)
(***************************************************************************)

\* What a participant is committed to: its balance proof and its locks.
Committed(e) ==
    [balance_proof |-> e.balance_proof, pending_locks |-> e.pending_locks,
     locks |-> AllLocks(e)]

MessageTypes == {"LockedTransfer", "Unlock", "LockExpired", "WithdrawRequest",
                 "WithdrawConfirmation", "WithdrawExpired"}

EventSet(events) == {events[i] : i \in DOMAIN events}

Commit(n, r) ==
    /\ chan' = [chan EXCEPT ![n] = r.channel]
    /\ sent' = [sent EXCEPT ![n] = @ \cup {e \in EventSet(r.events) : e.type \in MessageTypes}]
    /\ txs'  = [txs EXCEPT ![n] = @ \cup {e \in EventSet(r.events) : e.type \notin MessageTypes}]
    /\ hist' = [hist EXCEPT ![n] =
                  [k \in 0 .. r.channel.our_state.nonce |->
                      IF k <= chan[n].our_state.nonce THEN @[k]
                      ELSE Committed(r.channel.our_state)]]

Silently(ch) == TransitionResult(ch, <<>>)

\* Node n can take a new state change: no batch is being processed, and the
\* channel was not removed.
Idle(n) == phase[n] = "idle" /\ ~ chan[n].removed

\* Bound: n may send two more messages.
NonceLeft(n) == chan[n].our_state.nonce + 2 <= MaxNonce

-----------------------------------------------------------------------------
(***************************************************************************)
(* Payments.  The payer is an initiator or a mediator, the payee a         *)
(* mediator or a target; both learn the secret from the rest of the route. *)
(***************************************************************************)

\* The payer locks amount for the secret, which must not be in use in this
\* channel.  The secret is unregistered in the latest block when a payment
\* starts; a mediator that retries a waiting transfer does not look again.
SendLockedTransfer(n, s, amount, lock_timeout) ==
    LET timeout    == IF lock_timeout = {} THEN 2 * chan[n].reveal_timeout
                      ELSE CHOOSE t \in lock_timeout : TRUE
        expiration == get_safe_initial_expiration(block[n], timeout)
        lock       == [secrethash |-> s, amount |-> amount, expiration |-> expiration]
    IN  /\ Idle(n) /\ NonceLeft(n)
        /\ is_channel_usable_for_new_transfer(chan[n], amount, lock_timeout)
        /\ revealed[s] = 0 \/ s \in WaitingPayments
        /\ ~ is_lock_pending(chan[n].our_state, s)
        /\ ~ is_lock_pending(chan[n].partner_state, s)
        /\ Commit(n, send_lockedtransfer(chan[n], lock))
        /\ UNCHANGED <<syncVars, chainVars>>

\* The payee has the payer's lock and knows its secret.
PayeeKnows(n, s) ==
    LET e == chan[Other(n)].partner_state
    IN  LocksFor(e.unlockedlocks \cup e.onchain_unlockedlocks, s) # {}

\* The payee learns the secret from the rest of the route; a mediating payer
\* learns it from the payee.
LearnSecret(n, s) ==
    /\ Idle(n)
    /\ \/ LocksFor(chan[n].partner_state.lockedlocks, s) # {}
       \/ LocksFor(chan[n].our_state.lockedlocks, s) # {} /\ PayeeKnows(n, s)
    /\ Commit(n, Silently(register_offchain_secret(chan[n], s)))
    /\ UNCHANGED <<syncVars, chainVars>>

\* The payee revealed the secret to the payer, which unlocks.
SendUnlock(n, lock) ==
    /\ Idle(n) /\ NonceLeft(n)
    /\ PayeeKnows(n, lock.secrethash)
    /\ CanSendUnlock(chan[n], lock, block[n])
    /\ Commit(n, send_unlock(chan[n], lock))
    /\ UNCHANGED <<syncVars, chainVars>>

\* The message handler drops a transfer whose secret is registered in the
\* latest block.
ReceiveLockedTransfer(n, m) ==
    /\ m.type = "LockedTransfer"
    /\ revealed[m.lock.secrethash] = 0
    /\ is_valid_lockedtransfer(chan[n], m)
    /\ Commit(n, Silently(handle_receive_lockedtransfer(chan[n], m)))

ReceiveUnlock(n, m) ==
    /\ m.type = "Unlock"
    /\ Commit(n, Silently(handle_unlock(chan[n], m)))

ReceiveLockExpired(n, m) ==
    /\ m.type = "LockExpired"
    /\ Commit(n, Silently(handle_receive_lock_expired(chan[n], m, block[n])))

-----------------------------------------------------------------------------
(***************************************************************************)
(* The user's actions and the withdraw messages.  They pass through        *)
(* channel.state_transition, which ends with sanity_check: a failing       *)
(* assertion rolls the transition back.                                    *)
(***************************************************************************)

Dispatch(n, r) == sanity_check(r.channel) /\ Commit(n, r)

ActionWithdraw(n, total) ==
    /\ Idle(n) /\ NonceLeft(n)
    /\ is_valid_total_withdraw(chan[n], total, FALSE)
    /\ Dispatch(n, _handle_action_withdraw(chan[n], total, block[n]))
    /\ UNCHANGED <<syncVars, chainVars>>

ActionCoopSettle(n) ==
    /\ Idle(n) /\ NonceLeft(n)
    /\ is_valid_action_coopsettle(chan[n],
           get_max_withdraw_amount(chan[n].our_state, chan[n].partner_state))
    /\ Dispatch(n, _handle_action_coop_settle(chan[n], block[n]))
    /\ UNCHANGED <<syncVars, chainVars>>

ActionSetRevealTimeout(n, reveal_timeout) ==
    /\ Idle(n)
    /\ Dispatch(n, Silently(_handle_action_set_reveal_timeout(chan[n], reveal_timeout)))
    /\ UNCHANGED <<syncVars, chainVars>>

ActionClose(n) ==
    /\ Idle(n)
    /\ Dispatch(n, events_for_close(chan[n]))
    /\ UNCHANGED <<syncVars, chainVars>>

ReceiveWithdrawRequest(n, m) ==
    /\ m.type = "WithdrawRequest"
    /\ NonceLeft(n)
    /\ ExpectedPartnerTotal(chan[n], m)
    /\ Dispatch(n, _handle_receive_withdraw_request(chan[n], m, block[n]))

ReceiveWithdrawConfirmation(n, m) ==
    /\ m.type = "WithdrawConfirmation"
    /\ OnlyOneCoopSettle(chan[n], m)
    /\ Dispatch(n, _handle_receive_withdraw_confirmation(chan[n], m, block[n]))

ReceiveWithdrawExpired(n, m) ==
    /\ m.type = "WithdrawExpired"
    /\ Dispatch(n, _handle_receive_withdraw_expired(chan[n], m, block[n]))

\* Any message of the partner, in any order; see the module's header.
ReceiveMessage(n, m) ==
    /\ Idle(n)
    /\ m \in sent[Other(n)]
    /\ \/ ReceiveLockedTransfer(n, m)
       \/ ReceiveUnlock(n, m)
       \/ ReceiveLockExpired(n, m)
       \/ ReceiveWithdrawRequest(n, m)
       \/ ReceiveWithdrawConfirmation(n, m)
       \/ ReceiveWithdrawExpired(n, m)
    /\ UNCHANGED <<syncVars, chainVars>>

-----------------------------------------------------------------------------
(***************************************************************************)
(* Following the chain.                                                    *)
(***************************************************************************)

\* The next batch ends with block b, which is confirmed.
StartBatch(n, b) ==
    /\ phase[n] = "idle"
    /\ block[n] < b
    /\ b <= height - Confirmations
    /\ batch' = [batch EXCEPT ![n] = b]
    /\ phase' = [phase EXCEPT ![n] = "events"]
    /\ UNCHANGED <<nodeVars, block, pos, chainVars, txs>>

\* The contract events of the batch that n did not process yet.
EventsLeft(n) == {i \in pos[n] + 1 .. Len(log) : log[i].block <= batch[n]}

\* An initiator unlocks at once if the registration was in time; a mediator
\* does so only if its payee already knew and its own payer's lock is not about
\* to expire, which this channel does not tell.
HandleSecretReveal(n, event) ==
    LET ch == register_onchain_secret(chan[n], event.secrethash, event.block)
    IN  \/ Commit(n, Silently(ch))
        \/ \E lock \in LocksFor(ch.our_state.onchain_unlockedlocks, event.secrethash) :
              /\ NonceLeft(n)
              /\ CanSendUnlock(ch, lock, block[n])
              /\ Commit(n, send_unlock(ch, lock))

HandleContractEvent(n, event) ==
    LET ours == event.participant = n
    IN  \/ event.type = "SecretRevealed" /\ HandleSecretReveal(n, event)
        \/ /\ event.type = "Deposit"
           /\ Dispatch(n, Silently(_handle_channel_deposit(chan[n], ours, event.total)))
        \/ /\ event.type = "Withdraw"
           /\ Dispatch(n, Silently(_handle_channel_withdraw(chan[n], ours, event.total)))
        \/ /\ event.type = "Closed"
           /\ Dispatch(n, _handle_channel_closed(chan[n], event.block, ours))
        \/ /\ event.type = "Updated"
           /\ Dispatch(n, Silently(_handle_channel_updated_transfer(chan[n])))
        \/ /\ event.type = "Settled"
           /\ Dispatch(n, _handle_channel_settled(
                              chan[n], event.amount[n], event.amount[Other(n)],
                              event.locksroot[n], event.locksroot[Other(n)]))
        \/ /\ event.type = "Unlocked"
           /\ Dispatch(n, Silently(_handle_channel_batch_unlock(chan[n], ours)))

\* The events of a channel that was removed are ignored.
ReceiveContractEvent(n) ==
    /\ phase[n] = "events"
    /\ EventsLeft(n) # {}
    /\ IF chan[n].removed THEN UNCHANGED <<nodeVars, txs>>
       ELSE HandleContractEvent(n, log[pos[n] + 1])
    /\ pos' = [pos EXCEPT ![n] = @ + 1]
    /\ UNCHANGED <<block, batch, phase, chainVars>>

\* The locks an initiator or a mediator removes when it handles a block.
ExpiredLocks(ch, b) ==
    {l \in ch.our_state.lockedlocks \cup ch.our_state.unlockedlocks :
        /\ get_status(ch) = "opened"
        /\ is_lock_expired(ch.our_state, l, b, get_sender_expiration_threshold(l.expiration))}

\* Where a node is after it expired some of what block b lets expire.
PhaseAt(ch, b) ==
    IF ~ ch.removed /\ (NextExpiredWithdraw(ch, b) # {} \/ ExpiredLocks(ch, b) # {})
    THEN "expire" ELSE "idle"

\* sanity_check runs when channel._handle_block is done with the withdraws.
BlockChecked(ch, b) == NextExpiredWithdraw(ch, b) = {} => sanity_check(ch)

HandleBlock(n) ==
    LET b == batch[n]
        r == IF chan[n].removed THEN Silently(chan[n]) ELSE _handle_block(chan[n], b)
    IN  /\ phase[n] = "events"
        /\ EventsLeft(n) = {}
        /\ BlockChecked(r.channel, b)
        /\ Commit(n, r)
        /\ block' = [block EXCEPT ![n] = b]
        /\ phase' = [phase EXCEPT ![n] = PhaseAt(r.channel, b)]
        /\ UNCHANGED <<batch, pos, chainVars>>

\* The payment tasks handle the block after the channels.
ExpireWithdraw(n) ==
    \E w \in NextExpiredWithdraw(chan[n], block[n]) :
        LET r == expire_withdraw(chan[n], w)
        IN  /\ phase[n] = "expire"
            /\ BlockChecked(r.channel, block[n])
            /\ Commit(n, r)
            /\ phase' = [phase EXCEPT ![n] = PhaseAt(r.channel, block[n])]
            /\ UNCHANGED <<block, batch, pos, chainVars>>

ExpireLock(n) ==
    \E lock \in ExpiredLocks(chan[n], block[n]) :
        LET r == send_lock_expired(chan[n], lock)
        IN  /\ phase[n] = "expire"
            /\ NextExpiredWithdraw(chan[n], block[n]) = {}
            /\ Commit(n, r)
            /\ phase' = [phase EXCEPT ![n] = PhaseAt(r.channel, block[n])]
            /\ UNCHANGED <<block, batch, pos, chainVars>>

-----------------------------------------------------------------------------
(***************************************************************************)
(* The contracts (external).  contract.balance_proof[n] is the balance     *)
(* proof of n that its partner handed in, contract.locksroot[n] what is    *)
(* left to unlock of n's locks.                                            *)
(***************************************************************************)

NewBlock ==
    /\ height < MaxHeight
    /\ \A n \in Node : height - Confirmations - block[n] < MaxLag
    /\ height' = height + 1
    /\ UNCHANGED <<nodeVars, syncVars, log, revealed, contract, txs>>

Emit(event) == log' = Append(log, event)

\* Somebody on the route of a payment registers its secret.
RegisterSecret(s) ==
    /\ revealed[s] = 0
    /\ revealed' = [revealed EXCEPT ![s] = height]
    /\ Emit([type |-> "SecretRevealed", block |-> height, participant |-> "",
             secrethash |-> s])
    /\ UNCHANGED <<nodeVars, syncVars, height, contract, txs>>

Deposit(n, total) ==
    /\ contract.state = "opened"
    /\ total > contract.deposit[n]
    /\ contract' = [contract EXCEPT !.deposit[n] = total]
    /\ Emit([type |-> "Deposit", block |-> height, participant |-> n, total |-> total])
    /\ UNCHANGED <<nodeVars, syncVars, height, revealed, txs>>

TotalDeposit == contract.deposit["A"] + contract.deposit["B"]

\* What settleChannel pays out to n at once.
SettleAmount(n) ==
    contract.deposit[n] - contract.withdrawn[n]
        - contract.balance_proof[n].transferred_amount
        + contract.balance_proof[Other(n)].transferred_amount
        - contract.balance_proof[n].locked_amount

setTotalWithdraw(n, tx) ==
    /\ tx.type = "ContractSendChannelWithdraw"
    /\ contract.state = "opened"
    /\ height < tx.expiration
    /\ tx.total_withdraw > contract.withdrawn[n]
    /\ tx.total_withdraw + contract.withdrawn[Other(n)] <= TotalDeposit
    /\ contract' = [contract EXCEPT !.withdrawn[n] = tx.total_withdraw]
    /\ Emit([type |-> "Withdraw", block |-> height, participant |-> n,
             total |-> tx.total_withdraw])

cooperativeSettle(n, tx) ==
    /\ tx.type = "ContractSendChannelCoopSettle"
    /\ contract.state = "opened"
    /\ height < tx.expiration
    /\ tx.our_total_withdraw + tx.partner_total_withdraw = TotalDeposit
    /\ contract' = [contract EXCEPT !.state = "settled"]
    /\ Emit([type |-> "Settled", block |-> height, participant |-> n,
             amount |-> [m \in Node |-> IF m = n THEN tx.our_total_withdraw
                                        ELSE tx.partner_total_withdraw],
             locksroot |-> [m \in Node |-> LOCKSROOT_OF_NO_LOCKS]])

closeChannel(n, tx) ==
    /\ tx.type = "ContractSendChannelClose"
    /\ contract.state = "opened"
    /\ contract' = [contract EXCEPT !.state = "closed", !.closer = n, !.closed_block = height,
                                    !.balance_proof[Other(n)] = tx.balance_proof]
    /\ Emit([type |-> "Closed", block |-> height, participant |-> n])

updateNonClosingBalanceProof(n, tx) ==
    /\ tx.type = "ContractSendChannelUpdateTransfer"
    /\ contract.state = "closed"
    /\ contract.closer # n
    /\ height <= contract.closed_block + SettleTimeout
    /\ tx.balance_proof.nonce > contract.balance_proof[Other(n)].nonce
    /\ contract' = [contract EXCEPT !.balance_proof[Other(n)] = tx.balance_proof]
    /\ Emit([type |-> "Updated", block |-> height, participant |-> n])

settleChannel(n, tx) ==
    LET locksroot == [m \in Node |-> contract.balance_proof[m].locksroot]
    IN  /\ tx.type = "ContractSendChannelSettle"
        /\ contract.state = "closed"
        /\ height > contract.closed_block + SettleTimeout
        /\ contract' = [contract EXCEPT !.state = "settled", !.locksroot = locksroot]
        /\ Emit([type |-> "Settled", block |-> height, participant |-> n,
                 amount |-> [m \in Node |-> SettleAmount(m)], locksroot |-> locksroot])

\* The event handler unlocks the partner's locks if one was revealed on chain,
\* and its own if one was not and its payment is still pending.
UnlockGains(n, m) ==
    \E l \in EventSet(contract.locksroot[m].keccak) :
        IF m = n THEN l \in chan[n].our_state.lockedlocks \cup chan[n].our_state.unlockedlocks
        ELSE l \in chan[n].partner_state.onchain_unlockedlocks

unlock(n, tx) ==
    /\ tx.type = "ContractSendChannelBatchUnlock"
    /\ contract.state = "settled"
    /\ \E m \in Node :
          /\ UnlockGains(n, m)
          /\ contract' = [contract EXCEPT !.locksroot[m] = LOCKSROOT_OF_NO_LOCKS]
          /\ Emit([type |-> "Unlocked", block |-> height, participant |-> m])

MineTransaction(n, tx) ==
    /\ tx \in txs[n]
    /\ \/ setTotalWithdraw(n, tx)
       \/ cooperativeSettle(n, tx)
       \/ closeChannel(n, tx)
       \/ updateNonClosingBalanceProof(n, tx)
       \/ settleChannel(n, tx)
       \/ unlock(n, tx)
    /\ UNCHANGED <<nodeVars, syncVars, height, revealed, txs>>

-----------------------------------------------------------------------------

InitialChannel(n) ==
    NettingChannelState(InitialDeposit[n], InitialDeposit[Other(n)], InitialReveal)

Init ==
    /\ chan = [n \in Node |-> InitialChannel(n)]
    /\ sent = [n \in Node |-> {}]
    /\ hist = [n \in Node |-> [k \in 0 .. 0 |-> Committed(InitialChannel(n).our_state)]]
    /\ block = [n \in Node |-> 0]
    /\ batch = [n \in Node |-> 0]
    /\ pos = [n \in Node |-> 0]
    /\ phase = [n \in Node |-> "idle"]
    /\ height = Confirmations
    /\ log = <<>>
    /\ revealed = [s \in Secrets |-> 0]
    /\ contract = [deposit |-> InitialDeposit, withdrawn |-> [n \in Node |-> 0],
                   state |-> "opened", closer |-> "", closed_block |-> 0,
                   balance_proof |-> [n \in Node |-> NoBalanceProof],
                   locksroot |-> [n \in Node |-> LOCKSROOT_OF_NO_LOCKS]]
    /\ txs = [n \in Node |-> {}]

Pay(n) ==
    \/ \E s \in Secrets, amount \in LockAmounts, t \in LockTimeouts :
          PayerOf[s] = n /\ SendLockedTransfer(n, s, amount, t)
    \/ \E s \in Secrets : LearnSecret(n, s)
    \/ \E lock \in AllLocks(chan[n].our_state) : SendUnlock(n, lock)

UserAction(n) ==
    \/ n \in Withdrawers /\ \E total \in WithdrawTotals : ActionWithdraw(n, total)
    \/ n \in CoopSettlers /\ ActionCoopSettle(n)
    \/ n \in Closers /\ ActionClose(n)
    \/ \E t \in RevealTimeouts : ActionSetRevealTimeout(n, t)

Sync(n) ==
    \/ \E b \in block[n] + 1 .. height - Confirmations : StartBatch(n, b)
    \/ ReceiveContractEvent(n)
    \/ HandleBlock(n)
    \/ ExpireWithdraw(n)
    \/ ExpireLock(n)

ChainStep ==
    \/ NewBlock
    \/ \E s \in Secrets : RegisterSecret(s)
    \/ \E n \in Node, total \in DepositTotals : Deposit(n, total)
    \/ \E n \in Node : \E tx \in txs[n] : MineTransaction(n, tx)

Next ==
    \/ \E n \in Node : Pay(n)
    \/ \E n \in Node : UserAction(n)
    \/ \E n \in Node : \E m \in sent[Other(n)] : ReceiveMessage(n, m)
    \/ \E n \in Node : Sync(n)
    \/ ChainStep

Spec == Init /\ [][Next]_vars

\* The next message of the partner, if it was sent.
NextMessages(n) ==
    {m \in sent[Other(n)] : m.nonce = get_next_nonce(chan[n].partner_state)}

\* The transport retries the message a node waits for until it is processed;
\* the alarm task polls the chain; the chain grows and mines what is sent.
Fairness ==
    /\ \A n \in Node :
          /\ WF_vars(\E m \in NextMessages(n) : ReceiveMessage(n, m))
          /\ WF_vars(Sync(n))
          /\ WF_vars(\E tx \in txs[n] : MineTransaction(n, tx))
    /\ WF_vars(NewBlock)

FairSpec == Spec /\ Fairness

-----------------------------------------------------------------------------
(***************************************************************************)
(* Properties.                                                             *)
(***************************************************************************)

Lock == [secrethash : Secrets, amount : LockAmounts, expiration : Int]

IsEndState(e) ==
    /\ DOMAIN e = DOMAIN NettingChannelEndState(0)
    /\ e.balance_proof.nonce \in Nat
    /\ AllLocks(e) \subseteq Lock
    /\ e.nonce \in Nat

TransactionStatus == {"none", "running", "success"}

IsChannel(ch) ==
    /\ DOMAIN ch = DOMAIN NettingChannelState(0, 0, 0)
    /\ IsEndState(ch.our_state)
    /\ IsEndState(ch.partner_state)
    /\ ch.reveal_timeout \in Nat
    /\ ch.close_transaction \in TransactionStatus
    /\ ch.settle_transaction \in TransactionStatus
    /\ ch.update_transaction \in TransactionStatus
    /\ ch.removed \in BOOLEAN

IsMessage(m) ==
    /\ m.type \in MessageTypes
    /\ m.nonce \in Nat
    /\ m.type = "LockedTransfer" => m.lock \in Lock
    /\ m.type \in {"LockedTransfer", "Unlock", "LockExpired"} => m.balance_proof.nonce = m.nonce

\* The types of the variables: the records have the fields the code gives
\* them, nonces and blocks are naturals, a balance proof carries the nonce of
\* its message.  (Sums of locked amounts are left untyped.)
TypeOK ==
    /\ DOMAIN chan = Node /\ DOMAIN sent = Node /\ DOMAIN hist = Node /\ DOMAIN txs = Node
    /\ \A n \in Node :
          /\ IsChannel(chan[n])
          /\ \A m \in sent[n] : IsMessage(m)
          /\ \A tx \in txs[n] : tx.type \notin MessageTypes
    /\ block \in [Node -> Nat]
    /\ batch \in [Node -> Nat]
    /\ pos \in [Node -> Nat]
    /\ phase \in [Node -> {"idle", "events", "expire"}]
    /\ height \in Nat
    /\ revealed \in [Secrets -> Nat]
    /\ DOMAIN contract = {"deposit", "withdrawn", "state", "closer", "closed_block",
                          "balance_proof", "locksroot"}
    /\ DOMAIN contract.balance_proof = Node

\* A node's copy of its partner is what the partner was committed to when it
\* sent the last message the node accepted: the same balance proof, the same
\* pending locks in the same order and the same locks, however messages were
\* duplicated, delayed or reordered (the nonce, locksroot and amount checks of
\* is_valid_lockedtransfer, is_valid_unlock and is_valid_lock_expired).
ViewsAgree ==
    \A n \in Node :
        LET view == chan[Other(n)].partner_state
        IN  /\ view.nonce <= chan[n].our_state.nonce
            /\ Committed(view) = hist[n][view.nonce]

\* The secret of the lock was registered on chain before the lock expired.
RegisteredInTime(l) == revealed[l.secrethash] # 0 /\ revealed[l.secrethash] <= l.expiration

\* A payee's claim on a lock whose secret was registered in time ends only
\* with an Unlock that pays it: the expiration checks of is_valid_lock_expired
\* never let a LockExpired message take it away, whatever part of the chain
\* the payee has seen.
ClaimEndsWithPayment ==
    [][\A n \in Node : \A l \in AllLocks(chan[n].partner_state) :
          RegisteredInTime(l) /\ l \notin AllLocks(chan'[n].partner_state)
            => chan'[n].partner_state.balance_proof.transferred_amount
                 = chan[n].partner_state.balance_proof.transferred_amount + l.amount]_vars

\* A payer never asks its payee to drop such a claim: the expiration threshold
\* of the sender leaves the time to see every registration that was in time.
\* The payee would refuse the message, and with it all later ones.
PayerRespectsClaims ==
    \A n \in Node :
        LET view == chan[Other(n)].partner_state
        IN  \A m \in {x \in sent[n] : x.type = "LockExpired" /\ x.nonce = view.nonce + 1} :
              \A l \in LocksFor(AllLocks(view), m.secrethash) : ~ RegisteredInTime(l)

\* Everything sanity_check asserts holds in both copies of the channel, after
\* every step and not only after the ones that run it: no balance is negative,
\* the deposits are accounted for, and locks, locksroot and locked amount match.
SanityHolds == \A n \in Node : sanity_check(chan[n])

\* Node n has processed every confirmed block and can take a message.
CaughtUp(n) == Idle(n) /\ block[n] = height - Confirmations

Acceptable(n, m) ==
    CASE m.type = "LockedTransfer" -> is_valid_lockedtransfer(chan[n], m)
      [] m.type = "Unlock" ->
           \E l \in AllLocks(chan[n].partner_state) : is_valid_unlock(chan[n], m, l)
      [] m.type = "LockExpired" ->
           \E l \in AllLocks(chan[n].partner_state) :
              is_valid_lock_expired(chan[n], m, l, block[n])
      [] m.type = "WithdrawRequest" -> is_valid_withdraw_request(chan[n], m)
      [] m.type = "WithdrawConfirmation" -> is_valid_withdraw_confirmation(chan[n], m)
      [] m.type = "WithdrawExpired" ->
           \E w \in WithdrawFor(chan[n].partner_state.withdraws_pending, m.total_withdraw) :
              is_valid_withdraw_expired(chan[n], m, w, block[n])

\* The two copies never drift so far apart that a node refuses its partner's
\* next message for good: a node that follows the chain finds the next balance
\* proof, expired lock, withdraw request and expired withdraw valid, although
\* the partner sent it from another view of the chain and of the channel.
\* (A transfer whose secret is registered before it arrives is dropped.)
NextMessageAcceptable ==
    \A n \in Node :
        CaughtUp(n) /\ get_status(chan[n]) = "opened"
          => \A m \in NextMessages(n) :
                m.type # "WithdrawConfirmation" => Acceptable(n, m)

\* channel.py:1060 "The requesting node must accept an confirmation for an
\* expired withdraw request.  This is necessary to clear the confirming node's
\* queue."
ExpiredConfirmationAccepted ==
    \A n \in Node : \A m \in NextMessages(n) :
        /\ m.type = "WithdrawConfirmation"
        /\ \E i \in DOMAIN chan[n].our_state.withdraws_expired :
              LET w == chan[n].our_state.withdraws_expired[i]
              IN  w.total_withdraw = m.total_withdraw /\ w.expiration = m.expiration
        => is_valid_withdraw_confirmation(chan[n], m)

\* channel.py:2817 "The balance can never be negative, that would be
\* equivalent to a loan or a double spend."
BalanceNeverNegative ==
    \A n \in Node :
        /\ get_balance(chan[n].our_state, chan[n].partner_state) >= 0
        /\ get_balance(chan[n].partner_state, chan[n].our_state) >= 0

\* "Only one party can initiate a coop settle": the assertion of
\* _handle_receive_withdraw_confirmation holds for every message of the partner,
\* although both users may start one before they hear of each other, and
\* although old confirmations are delivered again.
NoCompetingCoopSettle ==
    \A n \in Node : Idle(n) =>
        \A m \in sent[Other(n)] :
            m.type = "WithdrawConfirmation" => OnlyOneCoopSettle(chan[n], m)

\* What the contract paid out to a participant is never more than what both
\* nodes think it withdrew or is withdrawing, so that it cannot be spent again.
WithdrawnAccounted ==
    \A n \in Node :
        /\ contract.withdrawn[n] <= total_withdraw(chan[n].our_state)
        /\ contract.withdrawn[n] <= total_withdraw(chan[Other(n)].partner_state)

\* Whoever closes or updates hands in the last balance proof it accepted, and
\* accepts no other one afterwards, while messages still arrive: the contract
\* never settles on less than what the node was promised last.
HandedInIsLatest ==
    \A n \in Node :
        contract.closer = n \/ contract.balance_proof[Other(n)] # NoBalanceProof
          => contract.balance_proof[Other(n)] = chan[n].partner_state.balance_proof

\* A transfer of n that its payee will never take, because its secret was
\* registered before the transfer arrived (message_handler drops it).
TransferDropped(n) ==
    \E m \in NextMessages(Other(n)) :
        m.type = "LockedTransfer" /\ revealed[m.lock.secrethash] # 0

\* Every message a node sends is accepted in the end, if its partner keeps
\* receiving retries and following the chain: no order of duplicated and
\* delayed messages and no lag behind the chain blocks the channel.  (The
\* nonces are bounded, so the node runs out of messages to send.)
EveryMessageAccepted ==
    \A n \in Node : []<>(NextMessages(Other(n)) = {} \/ TransferDropped(n))

\* A closed channel is settled: each node's block handler sends the settlement
\* when the settlement window is over, whoever closed.  (Within the bound on
\* the height of the chain.)
ClosedIsSettled ==
    contract.state = "closed"
        /\ contract.closed_block + SettleTimeout + 1 + Confirmations <= MaxHeight
      ~> contract.state = "settled"

\* A cooperative settlement pays each participant what it owns by its own
\* books, and leaves no lock of either behind, although transfers may be on
\* their way while the two withdraws are negotiated.
CoopSettleIsFair ==
    \A i \in DOMAIN log : \A n \in Node :
        log[i].type = "Settled" /\ contract.closer = "" /\ ~ chan[n].removed
          => /\ log[i].amount[n] =
                   get_max_withdraw_amount(chan[n].our_state, chan[n].partner_state)
             /\ chan[n].our_state.pending_locks = <<>>
             /\ chan[n].partner_state.pending_locks = <<>>

\* channel.py:1819 "Break on the first non-expired withdraw as the list of
\* withdraws are ordered and only earlier withdraws can expire."
ExpiredWithdrawsRemoved ==
    \A n \in Node :
        Idle(n) /\ get_status(chan[n]) = "opened"
          => \A w \in chan[n].our_state.withdraws_pending :
                ~ is_withdraw_expired(block[n], get_sender_expiration_threshold(w.expiration))

\* channel.py:2173 "The expected total withdraw of the partner doesn't match the
\* withdraw-request"
PartnerTotalAsExpected ==
    \A n \in Node : Idle(n) =>
        \A m \in sent[Other(n)] :
            m.type = "WithdrawRequest" => ExpectedPartnerTotal(chan[n], m)

\* channel.py:2809 "total_withdraw must be ordered"
WithdrawsStayOrdered ==
    \A n \in Node : Idle(n) =>
        \A m \in sent[Other(n)] :
            m.type = "WithdrawExpired" =>
                WithdrawsOrdered(_handle_receive_withdraw_expired(chan[n], m, block[n]).channel)

=============================================================================
