--------------------------- MODULE NettingChannel ---------------------------
(***************************************************************************)
(* The netting channel state machine of raiden_common/transfer/channel.py  *)
(* as operators on a channel record.  A channel is one node's copy of the  *)
(* state of both participants: our_state and partner_state.                *)
(*                                                                         *)
(* An Optional of the code is a set with at most one element.  A           *)
(* dictionary from secret hashes to locks is the set of its locks.  The    *)
(* dictionary withdraws_pending is the set of its values; it is walked in  *)
(* the order of the totals, which is its insertion order, because a        *)
(* request never has a smaller total than the ones pending.                *)
(***************************************************************************)
EXTENDS Integers, Sequences, FiniteSets, FiniteSetsExt

CONSTANTS
    Confirmations,       \* DEFAULT_NUMBER_OF_BLOCK_CONFIRMATIONS
    SettleTimeout,       \* settle_timeout of the channel
    MinRevealTimeout,    \* the smallest reveal timeout a user may set
    MaxPendingTransfers, \* MAXIMUM_PENDING_TRANSFERS
    UINT256_MAX

ASSUME TimeoutAssumption ==
    /\ Confirmations \in Nat \ {0}
    /\ SettleTimeout \in Nat
    /\ MinRevealTimeout \in Nat

-----------------------------------------------------------------------------
(***************************************************************************)
(* Pending locks, locksroot and balance proof.                             *)
(***************************************************************************)

\* The hash of the pending locks, in order; it is collision free.
compute_locksroot(locks) == [keccak |-> locks]

LOCKSROOT_OF_NO_LOCKS == compute_locksroot(<<>>)

\* No balance proof (None in the code); a real one has a positive nonce.
NoBalanceProof ==
    [nonce |-> 0, transferred_amount |-> 0, locked_amount |-> 0,
     locksroot |-> LOCKSROOT_OF_NO_LOCKS]

IsPendingLock(locks, lock) == \E i \in DOMAIN locks : locks[i] = lock

compute_locks_with(locks, lock) == Append(locks, lock)

compute_locks_without(locks, lock) == SelectSeq(locks, LAMBDA l : l # lock)

-----------------------------------------------------------------------------
(***************************************************************************)
(* The state of one participant and of the channel.                        *)
(***************************************************************************)

NettingChannelEndState(contract_balance) ==
    [contract_balance       |-> contract_balance,
     onchain_total_withdraw |-> 0,
     withdraws_pending      |-> {},
     withdraws_expired      |-> <<>>,
     initiated_coop_settle  |-> {},
     lockedlocks            |-> {},
     unlockedlocks          |-> {},
     onchain_unlockedlocks  |-> {},
     balance_proof          |-> NoBalanceProof,
     pending_locks          |-> <<>>,
     onchain_locksroot      |-> LOCKSROOT_OF_NO_LOCKS,
     nonce                  |-> 0]

\* The transactions of a channel are absent, running or successful: no code
\* path records a failure.
NettingChannelState(our_balance, partner_balance, reveal_timeout) ==
    [our_state          |-> NettingChannelEndState(our_balance),
     partner_state      |-> NettingChannelEndState(partner_balance),
     reveal_timeout     |-> reveal_timeout,
     close_transaction  |-> "none",
     closed_block       |-> 0,
     settle_transaction |-> "none",
     update_transaction |-> "none",
     removed            |-> FALSE]

get_status(ch) ==
    CASE ch.settle_transaction = "success" -> "settled"
      [] ch.settle_transaction = "running" -> "settling"
      [] ch.settle_transaction = "none" /\ ch.close_transaction = "success" -> "closed"
      [] ch.settle_transaction = "none" /\ ch.close_transaction = "running" -> "closing"
      [] OTHER -> "opened"

PriorToClosed(ch) == get_status(ch) \in {"opened", "closing"}

\* A handler's new channel state and the events it emits, in order.
TransitionResult(ch, events) == [channel |-> ch, events |-> events]

-----------------------------------------------------------------------------
(***************************************************************************)
(* Amounts.                                                                *)
(***************************************************************************)

AllLocks(e) == e.lockedlocks \cup e.unlockedlocks \cup e.onchain_unlockedlocks

LocksFor(locks, secrethash) == {l \in locks : l.secrethash = secrethash}

is_lock_pending(e, secrethash) == LocksFor(AllLocks(e), secrethash) # {}

get_amount_locked(e) ==
    LET amount(l) == l.amount
    IN  MapThenSumSet(amount, e.lockedlocks) + MapThenSumSet(amount, e.unlockedlocks)
            + MapThenSumSet(amount, e.onchain_unlockedlocks)

get_number_of_pending_transfers(e) == Len(e.pending_locks)

offchain_total_withdraw(e) ==
    IF e.withdraws_pending = {} THEN 0 ELSE Max({w.total_withdraw : w \in e.withdraws_pending})

total_withdraw(e) == Max({offchain_total_withdraw(e), e.onchain_total_withdraw})

get_max_withdraw_amount(sender, receiver) ==
    sender.contract_balance - sender.balance_proof.transferred_amount
        + receiver.balance_proof.transferred_amount

get_balance(sender, receiver) ==
    get_max_withdraw_amount(sender, receiver) - total_withdraw(sender)

current_locked_amount(e) ==
    IF e.balance_proof = NoBalanceProof THEN 0 ELSE get_amount_locked(e)

get_distributable(sender, receiver) ==
    Min({get_balance(sender, receiver) - get_amount_locked(sender),
         Max({UINT256_MAX - sender.balance_proof.transferred_amount
                  - current_locked_amount(sender), 0})})

get_capacity(ch) ==
    ch.our_state.contract_balance + ch.partner_state.contract_balance
        - total_withdraw(ch.our_state) - total_withdraw(ch.partner_state)

-----------------------------------------------------------------------------
(***************************************************************************)
(* Expirations.                                                            *)
(***************************************************************************)

\* timeout is the lock timeout asked for, or twice the reveal timeout.
get_safe_initial_expiration(block, timeout) == block + timeout - 1

get_sender_expiration_threshold(expiration) == expiration + 2 * Confirmations

\* Mutant: the receiver waits longer than the sender.
receiver_threshold_too_late(expiration) == expiration + 3 * Confirmations

get_receiver_expiration_threshold(expiration) == expiration + Confirmations

is_lock_expired(e, lock, block, threshold) ==
    /\ LocksFor(e.onchain_unlockedlocks, lock.secrethash) = {}
    /\ block >= threshold

\* Mutant: the amount is not compared with what is distributable.
usable_without_amount(ch, amount, lock_timeout) ==
    /\ get_status(ch) = "opened"
    /\ SettleTimeout >= 2 * ch.reveal_timeout
    /\ get_number_of_pending_transfers(ch.our_state) < MaxPendingTransfers
    /\ \A t \in lock_timeout : t <= SettleTimeout /\ t > ch.reveal_timeout

\* lock_timeout is an optional value.
is_channel_usable_for_new_transfer(ch, amount, lock_timeout) ==
    /\ get_status(ch) = "opened"
    /\ SettleTimeout >= 2 * ch.reveal_timeout
    /\ get_number_of_pending_transfers(ch.our_state) < MaxPendingTransfers
    /\ amount <= get_distributable(ch.our_state, ch.partner_state)
    /\ ch.our_state.balance_proof.transferred_amount
           + current_locked_amount(ch.our_state) + amount <= UINT256_MAX
    /\ \A t \in lock_timeout : t <= SettleTimeout /\ t > ch.reveal_timeout

-----------------------------------------------------------------------------
(***************************************************************************)
(* Sending balance proofs.                                                 *)
(***************************************************************************)

\* Mutant: the nonce counts down.
nonce_counts_down(e) == e.nonce - 1

get_next_nonce(e) == e.nonce + 1

_del_unclaimed_lock(e, secrethash) ==
    [e EXCEPT !.lockedlocks = @ \ LocksFor(@, secrethash),
              !.unlockedlocks = @ \ LocksFor(@, secrethash)]

_del_lock(e, secrethash) ==
    [_del_unclaimed_lock(e, secrethash)
        EXCEPT !.onchain_unlockedlocks = @ \ LocksFor(@, secrethash)]

\* A participant's next balance proof, and the participant once it is stored.
NextBalanceProof(e, transferred_amount, locked_amount, locks) ==
    [nonce              |-> get_next_nonce(e),
     transferred_amount |-> transferred_amount,
     locked_amount      |-> locked_amount,
     locksroot          |-> compute_locksroot(locks)]

WithBalanceProof(e, bp, locks) ==
    [e EXCEPT !.balance_proof = bp, !.nonce = bp.nonce, !.pending_locks = locks]

\* dict[lock.secrethash] = lock
AddLockedLock(e, lock) ==
    [e EXCEPT !.lockedlocks = (@ \ LocksFor(@, lock.secrethash)) \cup {lock}]

send_lockedtransfer(ch, lock) ==
    LET e     == ch.our_state
        locks == compute_locks_with(e.pending_locks, lock)
        bp    == NextBalanceProof(e, e.balance_proof.transferred_amount,
                                  get_amount_locked(e) + lock.amount, locks)
    IN  TransitionResult(
            [ch EXCEPT !.our_state = AddLockedLock(WithBalanceProof(e, bp, locks), lock)],
            <<[type |-> "LockedTransfer", nonce |-> bp.nonce, balance_proof |-> bp,
               lock |-> lock]>>)

\* The assertions of send_unlock and create_unlock.
CanSendUnlock(ch, lock, block) ==
    /\ lock \in AllLocks(ch.our_state)
    /\ get_status(ch) = "opened"
    /\ ~ is_lock_expired(ch.our_state, lock, block, lock.expiration)

send_unlock(ch, lock) ==
    LET e     == ch.our_state
        locks == compute_locks_without(e.pending_locks, lock)
        bp    == NextBalanceProof(e, e.balance_proof.transferred_amount + lock.amount,
                                  get_amount_locked(e) - lock.amount, locks)
    IN  TransitionResult(
            [ch EXCEPT !.our_state = _del_lock(WithBalanceProof(e, bp, locks), lock.secrethash)],
            <<[type |-> "Unlock", nonce |-> bp.nonce, balance_proof |-> bp,
               secrethash |-> lock.secrethash]>>)

\* Mutant: the lock stays in the mappings.
lock_expired_keeps_lock(ch, lock) ==
    LET e     == ch.our_state
        locks == compute_locks_without(e.pending_locks, lock)
        bp    == NextBalanceProof(e, e.balance_proof.transferred_amount,
                                  get_amount_locked(e) - lock.amount, locks)
    IN  TransitionResult(
            [ch EXCEPT !.our_state = WithBalanceProof(e, bp, locks)],
            <<[type |-> "LockExpired", nonce |-> bp.nonce, balance_proof |-> bp,
               secrethash |-> lock.secrethash]>>)

send_lock_expired(ch, lock) ==
    LET e     == ch.our_state
        locks == compute_locks_without(e.pending_locks, lock)
        bp    == NextBalanceProof(e, e.balance_proof.transferred_amount,
                                  get_amount_locked(e) - lock.amount, locks)
    IN  TransitionResult(
            [ch EXCEPT !.our_state =
                _del_unclaimed_lock(WithBalanceProof(e, bp, locks), lock.secrethash)],
            <<[type |-> "LockExpired", nonce |-> bp.nonce, balance_proof |-> bp,
               secrethash |-> lock.secrethash]>>)

-----------------------------------------------------------------------------
(***************************************************************************)
(* Receiving balance proofs.  An invalid message changes nothing.          *)
(***************************************************************************)

\* Mutant: balance proofs are taken in any state of the channel.
usable_when_closed(ch, bp) ==
    /\ bp.transferred_amount + bp.locked_amount <= UINT256_MAX
    /\ bp.nonce = get_next_nonce(ch.partner_state)

\* Signatures and identifiers are those of an honest partner of this channel.
is_balance_proof_usable_onchain(ch, bp) ==
    /\ get_status(ch) = "opened"
    /\ bp.transferred_amount + bp.locked_amount <= UINT256_MAX
    /\ bp.nonce = get_next_nonce(ch.partner_state)

\* Mutant: what the sender received through the channel is not counted.
lockedtransfer_ignores_received(ch, m) ==
    LET sender == ch.partner_state
    IN  /\ is_balance_proof_usable_onchain(ch, m.balance_proof)
        /\ m.lock.amount <= sender.contract_balance - sender.balance_proof.transferred_amount
                              - get_amount_locked(sender)

is_valid_lockedtransfer(ch, m) ==
    LET sender == ch.partner_state
        locks  == compute_locks_with(sender.pending_locks, m.lock)
    IN  /\ is_balance_proof_usable_onchain(ch, m.balance_proof)
        /\ ~ IsPendingLock(sender.pending_locks, m.lock)
        /\ Len(locks) <= MaxPendingTransfers
        /\ m.balance_proof.locksroot = compute_locksroot(locks)
        /\ m.balance_proof.transferred_amount = sender.balance_proof.transferred_amount
        /\ m.balance_proof.locked_amount = current_locked_amount(sender) + m.lock.amount
        /\ m.lock.amount <= get_distributable(sender, ch.our_state)

handle_receive_lockedtransfer(ch, m) ==
    LET sender == ch.partner_state
        locks  == compute_locks_with(sender.pending_locks, m.lock)
    IN  IF is_valid_lockedtransfer(ch, m)
        THEN [ch EXCEPT !.partner_state =
                 AddLockedLock(WithBalanceProof(sender, m.balance_proof, locks), m.lock)]
        ELSE ch

is_valid_unlock(ch, m, lock) ==
    LET sender == ch.partner_state
    IN  /\ lock \in LocksFor(AllLocks(sender), m.secrethash)
        /\ IsPendingLock(sender.pending_locks, lock)
        /\ is_balance_proof_usable_onchain(ch, m.balance_proof)
        /\ m.balance_proof.locksroot =
               compute_locksroot(compute_locks_without(sender.pending_locks, lock))
        /\ m.balance_proof.transferred_amount =
               sender.balance_proof.transferred_amount + lock.amount
        /\ m.balance_proof.locked_amount = current_locked_amount(sender) - lock.amount

\* Mutant: a lock revealed on chain stays in its mapping.
unlock_keeps_onchain_lock(ch, m) ==
    LET sender == ch.partner_state
        valid  == {l \in AllLocks(sender) : is_valid_unlock(ch, m, l)}
        lock   == CHOOSE l \in valid : TRUE
    IN  IF valid = {} THEN ch
        ELSE [ch EXCEPT !.partner_state =
                 _del_unclaimed_lock(WithBalanceProof(sender, m.balance_proof,
                                         compute_locks_without(sender.pending_locks, lock)),
                                     m.secrethash)]

handle_unlock(ch, m) ==
    LET sender == ch.partner_state
        valid  == {l \in AllLocks(sender) : is_valid_unlock(ch, m, l)}
        lock   == CHOOSE l \in valid : TRUE
    IN  IF valid = {} THEN ch
        ELSE [ch EXCEPT !.partner_state =
                 _del_lock(WithBalanceProof(sender, m.balance_proof,
                               compute_locks_without(sender.pending_locks, lock)),
                           m.secrethash)]

is_valid_lock_expired(ch, m, lock, block) ==
    LET sender == ch.partner_state
    IN  /\ LocksFor(sender.onchain_unlockedlocks, m.secrethash) = {}
        /\ lock \in LocksFor(sender.lockedlocks \cup sender.unlockedlocks, m.secrethash)
        /\ is_balance_proof_usable_onchain(ch, m.balance_proof)
        /\ IsPendingLock(sender.pending_locks, lock)
        /\ is_lock_expired(ch.our_state, lock, block,
                           get_receiver_expiration_threshold(lock.expiration))
        /\ m.balance_proof.locksroot =
               compute_locksroot(compute_locks_without(sender.pending_locks, lock))
        /\ m.balance_proof.transferred_amount = sender.balance_proof.transferred_amount
        /\ m.balance_proof.locked_amount = current_locked_amount(sender) - lock.amount

handle_receive_lock_expired(ch, m, block) ==
    LET sender == ch.partner_state
        valid  == {l \in AllLocks(sender) : is_valid_lock_expired(ch, m, l, block)}
        lock   == CHOOSE l \in valid : TRUE
    IN  IF valid = {} THEN ch
        ELSE [ch EXCEPT !.partner_state =
                 _del_unclaimed_lock(WithBalanceProof(sender, m.balance_proof,
                                         compute_locks_without(sender.pending_locks, lock)),
                                     m.secrethash)]

-----------------------------------------------------------------------------
(***************************************************************************)
(* Secrets.                                                                *)
(***************************************************************************)

register_secret_endstate(e, secrethash) ==
    [e EXCEPT !.lockedlocks = @ \ LocksFor(@, secrethash),
              !.unlockedlocks = @ \cup LocksFor(e.lockedlocks, secrethash)]

register_offchain_secret(ch, secrethash) ==
    [ch EXCEPT !.our_state = register_secret_endstate(@, secrethash),
               !.partner_state = register_secret_endstate(@, secrethash)]

\* Mutant: a registration in the block of the expiration is too late.
onchain_secret_off_by_one(e, secrethash, reveal_block) ==
    LET locks == {l \in LocksFor(e.lockedlocks \cup e.unlockedlocks, secrethash) :
                    l.expiration > reveal_block}
    IN  IF locks = {} THEN e
        ELSE [_del_lock(e, secrethash) EXCEPT !.onchain_unlockedlocks = @ \cup locks]

\* A registration mined after the lock expired is ignored.
register_onchain_secret_endstate(e, secrethash, reveal_block) ==
    LET locks == {l \in LocksFor(e.lockedlocks \cup e.unlockedlocks, secrethash) :
                    l.expiration >= reveal_block}
    IN  IF locks = {} THEN e
        ELSE [_del_lock(e, secrethash) EXCEPT !.onchain_unlockedlocks = @ \cup locks]

register_onchain_secret(ch, secrethash, reveal_block) ==
    [ch EXCEPT
        !.our_state = register_onchain_secret_endstate(@, secrethash, reveal_block),
        !.partner_state = register_onchain_secret_endstate(@, secrethash, reveal_block)]

-----------------------------------------------------------------------------
(***************************************************************************)
(* Withdraws and cooperative settlement.                                   *)
(***************************************************************************)

\* dict[total_withdraw] = withdraw state
AddWithdraw(withdraws, w) ==
    {v \in withdraws : v.total_withdraw # w.total_withdraw} \cup {w}

\* dict.get(total)
WithdrawFor(withdraws, total) == {w \in withdraws : w.total_withdraw = total}

is_withdraw_expired(block, threshold) == block >= threshold

is_valid_channel_total_withdraw(total) == total <= UINT256_MAX

is_valid_total_withdraw(ch, total, allow_zero) ==
    LET amount == total - total_withdraw(ch.our_state)
    IN  /\ get_status(ch) = "opened"
        /\ amount >= 0
        /\ allow_zero \/ amount # 0
        /\ get_balance(ch.our_state, ch.partner_state) >= amount
        /\ is_valid_channel_total_withdraw(total + total_withdraw(ch.partner_state))

\* Mutant: the withdraws the partner has pending are not looked at.
coopsettle_ignores_partner(ch, total) ==
    /\ is_valid_total_withdraw(ch, total, TRUE)
    /\ get_number_of_pending_transfers(ch.our_state) = 0
    /\ get_number_of_pending_transfers(ch.partner_state) = 0

is_valid_action_coopsettle(ch, total) ==
    /\ is_valid_total_withdraw(ch, total, TRUE)
    /\ get_number_of_pending_transfers(ch.our_state) = 0
    /\ get_number_of_pending_transfers(ch.partner_state) = 0
    /\ offchain_total_withdraw(ch.our_state) = 0
    /\ offchain_total_withdraw(ch.partner_state) = 0

send_withdraw_request(ch, total, expiration, coop_settle) ==
    LET w == [total_withdraw |-> total, expiration |-> expiration,
              nonce |-> get_next_nonce(ch.our_state)]
    IN  IF ~ PriorToClosed(ch) THEN TransitionResult(ch, <<>>)
        ELSE TransitionResult(
                [ch EXCEPT !.our_state.nonce = w.nonce,
                           !.our_state.withdraws_pending = AddWithdraw(@, w)],
                <<[type |-> "WithdrawRequest", nonce |-> w.nonce, total_withdraw |-> total,
                   expiration |-> expiration, coop_settle |-> coop_settle]>>)

_handle_action_withdraw(ch, total, block) ==
    IF is_valid_total_withdraw(ch, total, FALSE)
    THEN send_withdraw_request(
             ch, total, get_safe_initial_expiration(block, 2 * ch.reveal_timeout), FALSE)
    ELSE TransitionResult(ch, <<>>)

\* The signatures are present or not.
CoopSettleState(initiator, partner, expiration, request) ==
    [total_withdraw_initiator |-> initiator, total_withdraw_partner |-> partner,
     expiration |-> expiration, partner_signature_request |-> request,
     partner_signature_confirmation |-> FALSE, transaction |-> "none"]

_handle_action_coop_settle(ch, block) ==
    LET total      == get_max_withdraw_amount(ch.our_state, ch.partner_state)
        partner    == get_max_withdraw_amount(ch.partner_state, ch.our_state)
        expiration == get_safe_initial_expiration(block, 2 * ch.reveal_timeout)
        coop       == CoopSettleState(total, partner, expiration, FALSE)
    IN  IF is_valid_action_coopsettle(ch, total)
        THEN send_withdraw_request([ch EXCEPT !.our_state.initiated_coop_settle = {coop}],
                                   total, expiration, TRUE)
        ELSE TransitionResult(ch, <<>>)

\* coop is the updated cooperative settlement this node initiated.
events_for_coop_settle(ch, coop, block) ==
    LET complete == /\ coop.partner_signature_request
                    /\ coop.partner_signature_confirmation
                    /\ coop.expiration >= block - ch.reveal_timeout
    IN  IF complete
        THEN TransitionResult(
                 [ch EXCEPT !.our_state.initiated_coop_settle =
                                {[coop EXCEPT !.transaction = "running"]}],
                 <<[type |-> "ContractSendChannelCoopSettle",
                    our_total_withdraw |-> coop.total_withdraw_initiator,
                    partner_total_withdraw |-> coop.total_withdraw_partner,
                    expiration |-> coop.expiration]>>)
        ELSE TransitionResult([ch EXCEPT !.our_state.initiated_coop_settle = {coop}], <<>>)

is_valid_withdraw_request(ch, m) ==
    LET amount == m.total_withdraw - total_withdraw(ch.partner_state)
    IN  /\ amount >= 0
        /\ get_balance(ch.partner_state, ch.our_state) >= amount
        /\ m.nonce = get_next_nonce(ch.partner_state)
        /\ is_valid_channel_total_withdraw(m.total_withdraw + total_withdraw(ch.our_state))

\* Mutant: the pending transfers are not looked at.
coop_settle_accepted_early(ch, m) ==
    LET ours == ch.our_state.initiated_coop_settle
    IN  /\ ours # {} \/ m.coop_settle
        /\ \/ get_max_withdraw_amount(ch.partner_state, ch.our_state) # m.total_withdraw
           \/ \E coop \in ours : coop.expiration # m.expiration

\* The request is part of a cooperative settlement that cannot go on.
CoopSettleRefused(ch, m) ==
    LET ours == ch.our_state.initiated_coop_settle
    IN  /\ ours # {} \/ m.coop_settle
        /\ \/ get_max_withdraw_amount(ch.partner_state, ch.our_state) # m.total_withdraw
           \/ get_number_of_pending_transfers(ch.partner_state) > 0
           \/ \E coop \in ours : coop.expiration # m.expiration
           \/ ours = {} /\ get_number_of_pending_transfers(ch.our_state) > 0

\* The assertion of _handle_receive_withdraw_request.
ExpectedPartnerTotal(ch, m) ==
    is_valid_withdraw_request(ch, m) /\ ~ CoopSettleRefused(ch, m)
        => \A coop \in ch.our_state.initiated_coop_settle :
              coop.total_withdraw_partner = m.total_withdraw

\* The cooperative settlement's part of the answer to a valid request.
CoopSettleAnswer(ch, m, block) ==
    LET ours == ch.our_state.initiated_coop_settle
        total == get_max_withdraw_amount(ch.our_state, ch.partner_state)
        theirs == CoopSettleState(m.total_withdraw, total, m.expiration, TRUE)
        reply == send_withdraw_request(
                     [ch EXCEPT !.partner_state.initiated_coop_settle = {theirs}],
                     total, m.expiration, FALSE)
    IN  CASE ours # {} ->
               LET coop == CHOOSE c \in ours : TRUE
               IN  events_for_coop_settle(
                       ch, [coop EXCEPT !.partner_signature_request = TRUE], block)
          [] ours = {} /\ m.coop_settle ->
               TransitionResult(reply.channel, reply.events \o reply.events)
          [] OTHER -> TransitionResult(ch, <<>>)

\* A refused cooperative settlement leaves the request recorded, unanswered.
_handle_receive_withdraw_request(ch, m, block) ==
    LET w        == [total_withdraw |-> m.total_withdraw, expiration |-> m.expiration,
                     nonce |-> m.nonce]
        recorded == [ch EXCEPT !.partner_state.withdraws_pending = AddWithdraw(@, w),
                               !.partner_state.nonce = m.nonce]
        r        == CoopSettleAnswer(recorded, m, block)
        nonce    == get_next_nonce(r.channel.our_state)
    IN  CASE ~ is_valid_withdraw_request(ch, m) -> TransitionResult(ch, <<>>)
          [] is_valid_withdraw_request(ch, m) /\ CoopSettleRefused(ch, m) ->
               TransitionResult(recorded, <<>>)
          [] OTHER ->
               TransitionResult(
                   [r.channel EXCEPT !.our_state.nonce = nonce],
                   Append(r.events, [type |-> "WithdrawConfirmation", nonce |-> nonce,
                                     total_withdraw |-> m.total_withdraw,
                                     expiration |-> m.expiration]))

\* The request a confirmation answers: a pending one, or the oldest expired.
ConfirmedWithdraw(e, total) ==
    LET pending == WithdrawFor(e.withdraws_pending, total)
        expired == {i \in DOMAIN e.withdraws_expired :
                      e.withdraws_expired[i].total_withdraw = total}
    IN  IF pending # {} THEN pending
        ELSE IF expired # {} THEN {e.withdraws_expired[Min(expired)]} ELSE {}

is_valid_withdraw_confirmation(ch, m) ==
    /\ ConfirmedWithdraw(ch.our_state, m.total_withdraw) # {}
    /\ m.total_withdraw = total_withdraw(ch.our_state)
    /\ m.nonce = get_next_nonce(ch.partner_state)
    /\ \A w \in ConfirmedWithdraw(ch.our_state, m.total_withdraw) : w.expiration = m.expiration
    /\ is_valid_channel_total_withdraw(m.total_withdraw + total_withdraw(ch.partner_state))

\* The assertion of _handle_receive_withdraw_confirmation.
OnlyOneCoopSettle(ch, m) ==
    is_valid_withdraw_confirmation(ch, m) /\ ch.our_state.initiated_coop_settle # {}
        => ch.partner_state.initiated_coop_settle = {}

_handle_receive_withdraw_confirmation(ch, m, block) ==
    LET ours     == ch.our_state.initiated_coop_settle
        accepted == [ch EXCEPT !.partner_state.nonce = m.nonce]
        withdraw == [type |-> "ContractSendChannelWithdraw",
                     total_withdraw |-> m.total_withdraw, expiration |-> m.expiration]
    IN  CASE ~ is_valid_withdraw_confirmation(ch, m) -> TransitionResult(ch, <<>>)
          [] is_valid_withdraw_confirmation(ch, m) /\ ours # {} ->
               LET coop == CHOOSE c \in ours : TRUE
               IN  events_for_coop_settle(
                       accepted, [coop EXCEPT !.partner_signature_confirmation = TRUE], block)
          [] OTHER ->
               TransitionResult(
                   accepted,
                   IF /\ ch.partner_state.initiated_coop_settle = {}
                      /\ m.expiration >= block - ch.reveal_timeout
                   THEN <<withdraw>> ELSE <<>>)

\* The cooperative settlement that expires together with one of its withdraws.
WithoutExpiredCoopSettle(e, w) ==
    [e EXCEPT !.initiated_coop_settle =
        {c \in @ : ~ (c.total_withdraw_initiator = w.total_withdraw
                        /\ c.expiration = w.expiration)}]

is_valid_withdraw_expired(ch, m, w, block) ==
    /\ is_withdraw_expired(block, get_receiver_expiration_threshold(w.expiration))
    /\ m.nonce = get_next_nonce(ch.partner_state)

_handle_receive_withdraw_expired(ch, m, block) ==
    LET pending == WithdrawFor(ch.partner_state.withdraws_pending, m.total_withdraw)
        w       == CHOOSE v \in pending : TRUE
        partner == [WithoutExpiredCoopSettle(ch.partner_state, w)
                      EXCEPT !.withdraws_pending = @ \ {w}, !.nonce = m.nonce]
    IN  TransitionResult(
            IF pending # {} /\ is_valid_withdraw_expired(ch, m, w, block)
            THEN [ch EXCEPT !.partner_state = partner] ELSE ch,
            <<>>)

\* events_for_expired_withdraws takes the pending withdraws in order and stops
\* at the first that has not expired: this is the one it takes next, if any.
NextExpiredWithdraw(ch, block) ==
    {w \in ch.our_state.withdraws_pending :
        /\ get_status(ch) = "opened"
        /\ \A v \in ch.our_state.withdraws_pending : w.total_withdraw <= v.total_withdraw
        /\ is_withdraw_expired(block, get_sender_expiration_threshold(w.expiration))}

\* One iteration of events_for_expired_withdraws.
expire_withdraw(ch, w) ==
    LET nonce == get_next_nonce(ch.our_state)
        e     == [WithoutExpiredCoopSettle(ch.our_state, w)
                    EXCEPT !.nonce = nonce,
                           !.withdraws_expired = Append(@, w),
                           !.withdraws_pending = @ \ {w}]
    IN  TransitionResult(
            [ch EXCEPT !.our_state = e],
            <<[type |-> "WithdrawExpired", nonce |-> nonce,
               total_withdraw |-> w.total_withdraw, expiration |-> w.expiration]>>)

_handle_action_set_reveal_timeout(ch, reveal_timeout) ==
    IF reveal_timeout >= MinRevealTimeout /\ SettleTimeout >= 2 * reveal_timeout
    THEN [ch EXCEPT !.reveal_timeout = reveal_timeout] ELSE ch

-----------------------------------------------------------------------------
(***************************************************************************)
(* Closing and settling, and what the node learns from the chain.          *)
(***************************************************************************)

events_for_close(ch) ==
    IF PriorToClosed(ch)
    THEN TransitionResult([ch EXCEPT !.close_transaction = "running"],
                          <<[type |-> "ContractSendChannelClose",
                             balance_proof |-> ch.partner_state.balance_proof]>>)
    ELSE TransitionResult(ch, <<>>)

\* Mutant: the settlement is sent in exactly one block.
settle_in_one_block(ch, block) ==
    IF get_status(ch) = "closed" /\ block = ch.closed_block + SettleTimeout + 1
    THEN TransitionResult([ch EXCEPT !.settle_transaction = "running"],
                          <<[type |-> "ContractSendChannelSettle"]>>)
    ELSE TransitionResult(ch, <<>>)

\* The settlement of _handle_block; withdraws expire in expire_withdraw.
_handle_block(ch, block) ==
    IF get_status(ch) = "closed" /\ block > ch.closed_block + SettleTimeout
    THEN TransitionResult([ch EXCEPT !.settle_transaction = "running"],
                          <<[type |-> "ContractSendChannelSettle"]>>)
    ELSE TransitionResult(ch, <<>>)

set_closed(ch, block) ==
    IF ch.close_transaction = "success" THEN ch
    ELSE [ch EXCEPT !.close_transaction = "success", !.closed_block = block]

\* by_us: the closing transaction is this node's.
_handle_channel_closed(ch, block, by_us) ==
    LET closed      == set_closed(ch, block)
        call_update == /\ ~ by_us
                       /\ ch.partner_state.balance_proof # NoBalanceProof
                       /\ ch.update_transaction = "none"
    IN  CASE ~ PriorToClosed(ch) -> TransitionResult(ch, <<>>)
          [] PriorToClosed(ch) /\ call_update ->
               TransitionResult([closed EXCEPT !.update_transaction = "running"],
                                <<[type |-> "ContractSendChannelUpdateTransfer",
                                   balance_proof |-> ch.partner_state.balance_proof]>>)
          [] OTHER -> TransitionResult(closed, <<>>)

_handle_channel_updated_transfer(ch) == [ch EXCEPT !.update_transaction = "success"]

set_coop_settled(e) ==
    [e EXCEPT !.initiated_coop_settle = {[c EXCEPT !.transaction = "success"] : c \in @}]

\* The settled amounts and locksroots are those of the settlement event.
_handle_channel_settled(ch, our_amount, partner_amount, our_locksroot, partner_locksroot) ==
    LET clear   == our_locksroot = LOCKSROOT_OF_NO_LOCKS
                     /\ partner_locksroot = LOCKSROOT_OF_NO_LOCKS
        settles(e, initiator, partner) ==
            clear /\ \E c \in e.initiated_coop_settle :
                        c.total_withdraw_initiator = initiator
                          /\ c.total_withdraw_partner = partner
        ours    == settles(ch.our_state, our_amount, partner_amount)
        theirs  == settles(ch.partner_state, partner_amount, our_amount)
        settled == [ch EXCEPT
            !.settle_transaction = "success",
            !.our_state = IF ours THEN set_coop_settled(@) ELSE @,
            !.partner_state = IF theirs THEN set_coop_settled(@) ELSE @,
            !.our_state.onchain_total_withdraw = IF ours \/ theirs THEN our_amount ELSE @,
            !.partner_state.onchain_total_withdraw =
                IF ours \/ theirs THEN partner_amount ELSE @]
    IN  IF clear THEN TransitionResult([settled EXCEPT !.removed = TRUE], <<>>)
        ELSE TransitionResult(
                 [settled EXCEPT !.our_state.onchain_locksroot = our_locksroot,
                                 !.partner_state.onchain_locksroot = partner_locksroot],
                 <<[type |-> "ContractSendChannelBatchUnlock"]>>)

update_contract_balance(e, contract_balance) ==
    IF contract_balance > e.contract_balance
    THEN [e EXCEPT !.contract_balance = contract_balance] ELSE e

\* ours: the participant of the event is this node.
_handle_channel_deposit(ch, ours, contract_balance) ==
    IF ours THEN [ch EXCEPT !.our_state = update_contract_balance(@, contract_balance)]
    ELSE [ch EXCEPT !.partner_state = update_contract_balance(@, contract_balance)]

\* Mutant: the withdraw is forgotten once it is mined.
onchain_withdraw_forgotten(e, total) ==
    [e EXCEPT !.withdraws_pending = @ \ WithdrawFor(@, total)]

onchain_withdraw(e, total) ==
    [e EXCEPT !.withdraws_pending = @ \ WithdrawFor(@, total), !.onchain_total_withdraw = total]

_handle_channel_withdraw(ch, ours, total) ==
    IF ours THEN [ch EXCEPT !.our_state = onchain_withdraw(@, total)]
    ELSE [ch EXCEPT !.partner_state = onchain_withdraw(@, total)]

\* ours: this node's locks were unlocked.
_handle_channel_batch_unlock(ch, ours) ==
    LET unlocked == IF ours
                    THEN [ch EXCEPT !.our_state.onchain_locksroot = LOCKSROOT_OF_NO_LOCKS]
                    ELSE [ch EXCEPT !.partner_state.onchain_locksroot = LOCKSROOT_OF_NO_LOCKS]
    IN  IF get_status(ch) # "settled" THEN ch
        ELSE [unlocked EXCEPT !.removed =
                 /\ unlocked.our_state.onchain_locksroot = LOCKSROOT_OF_NO_LOCKS
                 /\ unlocked.partner_state.onchain_locksroot = LOCKSROOT_OF_NO_LOCKS]

-----------------------------------------------------------------------------
(***************************************************************************)
(* The assertions of sanity_check.                                         *)
(***************************************************************************)

LockMappingsSynchronized(e) == \A l \in AllLocks(e) : IsPendingLock(e.pending_locks, l)

WithdrawsOrdered(ch) ==
    \/ ch.our_state.initiated_coop_settle # {}
    \/ ch.partner_state.initiated_coop_settle # {}
    \/ \A w \in ch.our_state.withdraws_pending : w.total_withdraw > 0

BalancesCovered(ch) ==
    LET our_balance     == get_balance(ch.our_state, ch.partner_state)
        partner_balance == get_balance(ch.partner_state, ch.our_state)
    IN  /\ our_balance >= 0
        /\ partner_balance >= 0
        /\ our_balance + partner_balance = get_capacity(ch)
        /\ get_distributable(ch.our_state, ch.partner_state)
               + get_amount_locked(ch.our_state) <= our_balance
        /\ get_distributable(ch.partner_state, ch.our_state)
               + get_amount_locked(ch.partner_state) <= partner_balance

LocksMatchBalanceProof(e) ==
    /\ get_amount_locked(e) = current_locked_amount(e)
    /\ e.balance_proof.locksroot = compute_locksroot(e.pending_locks)
    /\ LockMappingsSynchronized(e)

sanity_check(ch) ==
    ch.removed \/ /\ WithdrawsOrdered(ch)
                  /\ BalancesCovered(ch)
                  /\ LocksMatchBalanceProof(ch.our_state)
                  /\ LocksMatchBalanceProof(ch.partner_state)

=============================================================================
