---------------------------- MODULE ChannelLemmas ----------------------------
(***************************************************************************)
(* What the handlers of NettingChannel do to the two things a participant  *)
(* is committed to, its balance proof and its locks.  ChannelPairProofs    *)
(* composes these facts into invariants of ChannelPair.                    *)
(***************************************************************************)
EXTENDS ChannelPair, TLAPS

WithdrawMessages == {"WithdrawRequest", "WithdrawConfirmation", "WithdrawExpired"}

\* A participant has at most one lock for a secret hash.
UniqueLocks(locks) == \A k, l \in locks : k.secrethash = l.secrethash => k = l

\* Message m takes its sender from commitment c to commitment d.
Applied(m, c, d) ==
    /\ m.type = "LockedTransfer" =>
          /\ LocksFor(c.locks, m.lock.secrethash) = {}
          /\ d = [balance_proof |-> m.balance_proof,
                  pending_locks |-> compute_locks_with(c.pending_locks, m.lock),
                  locks |-> c.locks \cup {m.lock}]
    /\ m.type \in {"Unlock", "LockExpired"} =>
          d = [balance_proof |-> m.balance_proof,
               pending_locks |-> m.balance_proof.locksroot.keccak,
               locks |-> c.locks \ LocksFor(c.locks, m.secrethash)]
    /\ m.type = "Unlock" =>
          \E l \in LocksFor(c.locks, m.secrethash) :
              m.balance_proof.transferred_amount = c.balance_proof.transferred_amount + l.amount
    /\ m.type \in WithdrawMessages => d = c

\* The same balance proof, pending locks and locks in the same mappings.
SameCommitment(e, f) ==
    /\ f.balance_proof = e.balance_proof
    /\ f.pending_locks = e.pending_locks
    /\ f.lockedlocks = e.lockedlocks
    /\ f.unlockedlocks = e.unlockedlocks
    /\ f.onchain_unlockedlocks = e.onchain_unlockedlocks

\* A node's own state goes from e to f and the node sends msgs.
OurStep(e, f, msgs) ==
    /\ IsEndState(f)
    /\ UniqueLocks(AllLocks(f))
    /\ f.nonce >= e.nonce
    /\ f.nonce = e.nonce => Committed(f) = Committed(e)
    /\ \A m \in msgs :
          /\ IsMessage(m)
          /\ m.nonce \in e.nonce + 1 .. f.nonce
          /\ m.nonce = e.nonce + 1 \/ Committed(f) = Committed(e)
          /\ Applied(m, Committed(e), Committed(f))

\* A node's copy of its partner goes from v to w; msgs are the partner's.
ViewStep(v, w, msgs) ==
    /\ IsEndState(w)
    /\ \/ w.nonce = v.nonce /\ Committed(w) = Committed(v)
       \/ \E m \in msgs :
             /\ m.nonce = v.nonce + 1
             /\ w.nonce = m.nonce
             /\ Applied(m, Committed(v), Committed(w))

Messages(events) == {e \in EventSet(events) : e.type \in MessageTypes}

Unclaimed(e) == e.lockedlocks \cup e.unlockedlocks

\* The transactions of an opened channel that make it one that is not.
Opened(ch) == ch.close_transaction = "none" /\ ch.settle_transaction = "none"

-----------------------------------------------------------------------------

\* An opened channel was neither closed nor settled (get_status).
LEMMA OpenedStatus ==
    ASSUME NEW ch, IsChannel(ch)
    PROVE  get_status(ch) = "opened" <=> Opened(ch)
BY DEF get_status, IsChannel, TransactionStatus, Opened

\* What Committed records.
LEMMA CommittedSame ==
    ASSUME NEW e, NEW f, SameCommitment(e, f)
    PROVE  Committed(f) = Committed(e) /\ AllLocks(f) = AllLocks(e) /\ Unclaimed(f) = Unclaimed(e)
BY DEF SameCommitment, Committed, AllLocks, Unclaimed

\* A transition without events sends nothing.
LEMMA NoMessages == Messages(<<>>) = {} /\ EventSet(<<>>) = {}
BY DEF Messages, EventSet

\* A transition with one event sends it, if it is a message.
LEMMA OneMessage ==
    ASSUME NEW ev
    PROVE  EventSet(<<ev>>) = {ev} /\ Messages(<<ev>>) = {m \in {ev} : m.type \in MessageTypes}
BY DEF Messages, EventSet

-----------------------------------------------------------------------------
(***************************************************************************)
(* Sending balance proofs.                                                 *)
(***************************************************************************)

\* send_lockedtransfer adds the lock, which is the only one for its secret,
\* and announces exactly that.
LEMMA SendLockedTransferStep ==
    ASSUME NEW ch, NEW lock \in Lock, IsChannel(ch),
           UniqueLocks(AllLocks(ch.our_state)), ~ is_lock_pending(ch.our_state, lock.secrethash)
    PROVE  LET r == send_lockedtransfer(ch, lock)
           IN  /\ OurStep(ch.our_state, r.channel.our_state, Messages(r.events))
               /\ r.channel = [ch EXCEPT !.our_state = r.channel.our_state]
               /\ EventSet(r.events) = Messages(r.events)
<1> DEFINE e == ch.our_state
           locks == compute_locks_with(e.pending_locks, lock)
           bp == NextBalanceProof(e, e.balance_proof.transferred_amount,
                                  get_amount_locked(e) + lock.amount, locks)
           f == AddLockedLock(WithBalanceProof(e, bp, locks), lock)
           m == [type |-> "LockedTransfer", nonce |-> bp.nonce, balance_proof |-> bp, lock |-> lock]
           r == send_lockedtransfer(ch, lock)
<1>1. r.channel = [ch EXCEPT !.our_state = f] /\ r.events = <<m>>
  BY DEF send_lockedtransfer, TransitionResult
<1>2. IsEndState(e)
  BY DEF IsChannel
<1>3. bp.nonce = e.nonce + 1
  BY DEF NextBalanceProof, get_next_nonce
<1>4. LocksFor(AllLocks(e), lock.secrethash) = {} /\ LocksFor(e.lockedlocks, lock.secrethash) = {}
  BY DEF is_lock_pending, LocksFor, AllLocks
<1> HIDE DEF bp
<1>5. /\ DOMAIN f = DOMAIN e
      /\ f.balance_proof = bp /\ f.nonce = bp.nonce /\ f.pending_locks = locks
      /\ f.lockedlocks = e.lockedlocks \cup {lock}
      /\ f.unlockedlocks = e.unlockedlocks /\ f.onchain_unlockedlocks = e.onchain_unlockedlocks
  BY <1>2, <1>4 DEF IsEndState, NettingChannelEndState, AddLockedLock, WithBalanceProof
<1> HIDE DEF f
<1>6. AllLocks(f) = AllLocks(e) \cup {lock}
  BY <1>5 DEF AllLocks
<1>7. IsEndState(f)
  BY <1>2, <1>3, <1>5, <1>6 DEF IsEndState
<1>8. UniqueLocks(AllLocks(f))
  BY <1>4, <1>6 DEF UniqueLocks, LocksFor
<1>9. Messages(r.events) = {m} /\ EventSet(r.events) = {m}
  BY <1>1, OneMessage DEF MessageTypes
<1>10. IsMessage(m) /\ m.nonce = e.nonce + 1
  BY <1>2, <1>3 DEF IsMessage, MessageTypes, IsEndState
<1>11. Applied(m, Committed(e), Committed(f))
  BY <1>4, <1>5, <1>6 DEF Applied, Committed, WithdrawMessages
<1>12. OurStep(e, f, {m})
  BY <1>2, <1>3, <1>5, <1>7, <1>8, <1>10, <1>11 DEF OurStep, IsEndState
<1>13. r.channel.our_state = f
  BY <1>1 DEF IsChannel, NettingChannelState
<1> QED BY <1>1, <1>9, <1>12, <1>13

\* send_unlock removes the lock from whatever mapping it is in, and its message
\* carries the pending locks without it and the amount paid.
LEMMA SendUnlockStep ==
    ASSUME NEW ch, NEW lock \in AllLocks(ch.our_state), IsChannel(ch),
           UniqueLocks(AllLocks(ch.our_state))
    PROVE  LET r == send_unlock(ch, lock)
           IN  /\ OurStep(ch.our_state, r.channel.our_state, Messages(r.events))
               /\ r.channel = [ch EXCEPT !.our_state = r.channel.our_state]
               /\ EventSet(r.events) = Messages(r.events)
<1> DEFINE e == ch.our_state
           locks == compute_locks_without(e.pending_locks, lock)
           bp == NextBalanceProof(e, e.balance_proof.transferred_amount + lock.amount,
                                  get_amount_locked(e) - lock.amount, locks)
           f == _del_lock(WithBalanceProof(e, bp, locks), lock.secrethash)
           m == [type |-> "Unlock", nonce |-> bp.nonce, balance_proof |-> bp,
                 secrethash |-> lock.secrethash]
           r == send_unlock(ch, lock)
<1>1. r.channel = [ch EXCEPT !.our_state = f] /\ r.events = <<m>>
  BY DEF send_unlock, TransitionResult
<1>2. IsEndState(e)
  BY DEF IsChannel
<1>3. /\ bp.nonce = e.nonce + 1 /\ bp.locksroot.keccak = locks
      /\ bp.transferred_amount = e.balance_proof.transferred_amount + lock.amount
  BY DEF NextBalanceProof, get_next_nonce, compute_locksroot
<1> HIDE DEF bp, locks
<1>4. /\ DOMAIN f = DOMAIN e
      /\ f.balance_proof = bp /\ f.nonce = bp.nonce /\ f.pending_locks = locks
      /\ f.lockedlocks = e.lockedlocks \ LocksFor(e.lockedlocks, lock.secrethash)
      /\ f.unlockedlocks = e.unlockedlocks \ LocksFor(e.unlockedlocks, lock.secrethash)
      /\ f.onchain_unlockedlocks =
             e.onchain_unlockedlocks \ LocksFor(e.onchain_unlockedlocks, lock.secrethash)
  BY <1>2 DEF IsEndState, NettingChannelEndState, _del_lock, _del_unclaimed_lock, WithBalanceProof
<1> HIDE DEF f
<1>5. AllLocks(f) = AllLocks(e) \ LocksFor(AllLocks(e), lock.secrethash)
  BY <1>4 DEF AllLocks, LocksFor
<1>6. IsEndState(f)
  BY <1>2, <1>3, <1>4, <1>5 DEF IsEndState
<1>7. UniqueLocks(AllLocks(f))
  BY <1>5 DEF UniqueLocks
<1>8. Messages(r.events) = {m} /\ EventSet(r.events) = {m}
  BY <1>1, OneMessage DEF MessageTypes
<1>9. IsMessage(m) /\ m.nonce = e.nonce + 1
  BY <1>2, <1>3 DEF IsMessage, MessageTypes, IsEndState
<1>10. lock \in LocksFor(AllLocks(e), lock.secrethash)
  BY DEF LocksFor
<1>11. Applied(m, Committed(e), Committed(f))
  BY <1>3, <1>4, <1>5, <1>10, ZenonT(20) DEF Applied, Committed, WithdrawMessages
<1>12. OurStep(e, f, {m})
  BY <1>2, <1>3, <1>4, <1>6, <1>7, <1>9, <1>11 DEF OurStep, IsEndState
<1>13. r.channel.our_state = f
  BY <1>1 DEF IsChannel, NettingChannelState
<1> QED BY <1>1, <1>8, <1>12, <1>13

\* send_lock_expired removes a lock that was not registered on chain.
LEMMA SendLockExpiredStep ==
    ASSUME NEW ch, NEW lock \in Unclaimed(ch.our_state), IsChannel(ch),
           UniqueLocks(AllLocks(ch.our_state)),
           LocksFor(ch.our_state.onchain_unlockedlocks, lock.secrethash) = {}
    PROVE  LET r == send_lock_expired(ch, lock)
           IN  /\ OurStep(ch.our_state, r.channel.our_state, Messages(r.events))
               /\ r.channel = [ch EXCEPT !.our_state = r.channel.our_state]
               /\ EventSet(r.events) = Messages(r.events)
<1> DEFINE e == ch.our_state
           locks == compute_locks_without(e.pending_locks, lock)
           bp == NextBalanceProof(e, e.balance_proof.transferred_amount,
                                  get_amount_locked(e) - lock.amount, locks)
           f == _del_unclaimed_lock(WithBalanceProof(e, bp, locks), lock.secrethash)
           m == [type |-> "LockExpired", nonce |-> bp.nonce, balance_proof |-> bp,
                 secrethash |-> lock.secrethash]
           r == send_lock_expired(ch, lock)
<1>1. r.channel = [ch EXCEPT !.our_state = f] /\ r.events = <<m>>
  BY DEF send_lock_expired, TransitionResult
<1>2. IsEndState(e)
  BY DEF IsChannel
<1>3. bp.nonce = e.nonce + 1 /\ bp.locksroot.keccak = locks
  BY DEF NextBalanceProof, get_next_nonce, compute_locksroot
<1> HIDE DEF bp, locks
<1>4. /\ DOMAIN f = DOMAIN e
      /\ f.balance_proof = bp /\ f.nonce = bp.nonce /\ f.pending_locks = locks
      /\ f.lockedlocks = e.lockedlocks \ LocksFor(e.lockedlocks, lock.secrethash)
      /\ f.unlockedlocks = e.unlockedlocks \ LocksFor(e.unlockedlocks, lock.secrethash)
      /\ f.onchain_unlockedlocks = e.onchain_unlockedlocks
  BY <1>2 DEF IsEndState, NettingChannelEndState, _del_unclaimed_lock, WithBalanceProof
<1> HIDE DEF f
<1>5. AllLocks(f) = AllLocks(e) \ LocksFor(AllLocks(e), lock.secrethash)
  BY <1>4 DEF AllLocks, LocksFor
<1>6. IsEndState(f)
  BY <1>2, <1>3, <1>4, <1>5 DEF IsEndState
<1>7. UniqueLocks(AllLocks(f))
  BY <1>5 DEF UniqueLocks
<1>8. Messages(r.events) = {m} /\ EventSet(r.events) = {m}
  BY <1>1, OneMessage DEF MessageTypes
<1>9. IsMessage(m) /\ m.nonce = e.nonce + 1
  BY <1>2, <1>3 DEF IsMessage, MessageTypes, IsEndState
<1>10. Applied(m, Committed(e), Committed(f))
  BY <1>3, <1>4, <1>5, ZenonT(20) DEF Applied, Committed, WithdrawMessages
<1>11. OurStep(e, f, {m})
  BY <1>2, <1>3, <1>4, <1>6, <1>7, <1>9, <1>10 DEF OurStep, IsEndState
<1>12. r.channel.our_state = f
  BY <1>1 DEF IsChannel, NettingChannelState
<1> QED BY <1>1, <1>8, <1>11, <1>12

-----------------------------------------------------------------------------
(***************************************************************************)
(* Receiving balance proofs.                                               *)
(***************************************************************************)

\* An accepted LockedTransfer takes the copy to what the sender announced.
LEMMA ReceiveLockedTransferStep ==
    ASSUME NEW ch, NEW m, IsChannel(ch), IsMessage(m), m.type = "LockedTransfer",
           is_valid_lockedtransfer(ch, m),
           LocksFor(AllLocks(ch.partner_state), m.lock.secrethash) = {}
    PROVE  LET r == handle_receive_lockedtransfer(ch, m)
           IN  /\ ViewStep(ch.partner_state, r.partner_state, {m})
               /\ r = [ch EXCEPT !.partner_state = r.partner_state]
               /\ Opened(ch)
               /\ Unclaimed(r.partner_state) = Unclaimed(ch.partner_state) \cup {m.lock}
<1> DEFINE v == ch.partner_state
           locks == compute_locks_with(v.pending_locks, m.lock)
           w == AddLockedLock(WithBalanceProof(v, m.balance_proof, locks), m.lock)
           r == handle_receive_lockedtransfer(ch, m)
<1>1. r = [ch EXCEPT !.partner_state = w]
  BY DEF handle_receive_lockedtransfer
<1>2. IsEndState(v)
  BY DEF IsChannel
<1>3. m.balance_proof.nonce = m.nonce /\ m.nonce = v.nonce + 1 /\ get_status(ch) = "opened"
  BY DEF is_valid_lockedtransfer, is_balance_proof_usable_onchain, get_next_nonce, IsMessage
<1>4. /\ DOMAIN w = DOMAIN v
      /\ w.balance_proof = m.balance_proof /\ w.nonce = m.nonce /\ w.pending_locks = locks
      /\ w.lockedlocks = v.lockedlocks \cup {m.lock}
      /\ w.unlockedlocks = v.unlockedlocks /\ w.onchain_unlockedlocks = v.onchain_unlockedlocks
  <2>1. LocksFor(v.lockedlocks, m.lock.secrethash) = {}
    BY DEF LocksFor, AllLocks
  <2> QED BY <1>2, <1>3, <2>1
      DEF IsEndState, NettingChannelEndState, AddLockedLock, WithBalanceProof
<1> HIDE DEF w
<1>5. AllLocks(w) = AllLocks(v) \cup {m.lock}
  BY <1>4 DEF AllLocks
<1>6. IsEndState(w)
  BY <1>2, <1>3, <1>4, <1>5 DEF IsEndState, IsMessage
<1>7. Applied(m, Committed(v), Committed(w))
  BY <1>4, <1>5 DEF Applied, Committed, WithdrawMessages
<1>8. r.partner_state = w
  BY <1>1 DEF IsChannel, NettingChannelState
<1>9. Unclaimed(w) = Unclaimed(v) \cup {m.lock}
  BY <1>4 DEF Unclaimed
<1>10. ViewStep(v, w, {m})
  BY <1>3, <1>4, <1>6, <1>7 DEF ViewStep
<1> QED BY <1>1, <1>3, <1>8, <1>9, <1>10, OpenedStatus

\* An Unlock is refused, or it takes the copy to what the sender announced.
LEMMA ReceiveUnlockStep ==
    ASSUME NEW ch, NEW m, IsChannel(ch), IsMessage(m), m.type = "Unlock"
    PROVE  LET r == handle_unlock(ch, m)
           IN  \/ r = ch
               \/ /\ ViewStep(ch.partner_state, r.partner_state, {m})
                  /\ r = [ch EXCEPT !.partner_state = r.partner_state]
                  /\ Opened(ch)
                  /\ Unclaimed(r.partner_state) \subseteq Unclaimed(ch.partner_state)
<1> DEFINE v == ch.partner_state
           valid == {l \in AllLocks(v) : is_valid_unlock(ch, m, l)}
           lock == CHOOSE l \in valid : TRUE
           locks == compute_locks_without(v.pending_locks, lock)
           w == _del_lock(WithBalanceProof(v, m.balance_proof, locks), m.secrethash)
           r == handle_unlock(ch, m)
<1>1. CASE valid = {}
  BY <1>1 DEF handle_unlock
<1>2. CASE valid # {}
  <2>1. r = [ch EXCEPT !.partner_state = w]
    BY <1>2 DEF handle_unlock
  <2>2. lock \in valid
    BY <1>2
  <2>3. /\ m.balance_proof.nonce = m.nonce /\ m.nonce = v.nonce + 1 /\ get_status(ch) = "opened"
        /\ lock \in LocksFor(AllLocks(v), m.secrethash)
        /\ m.balance_proof.locksroot.keccak = locks
        /\ m.balance_proof.transferred_amount = v.balance_proof.transferred_amount + lock.amount
    <3> HIDE DEF lock
    <3> QED BY <2>2 DEF is_valid_unlock, is_balance_proof_usable_onchain, get_next_nonce,
                       IsMessage, compute_locksroot
  <2> HIDE DEF lock, locks, valid
  <2>4. IsEndState(v)
    BY DEF IsChannel
  <2>5. /\ DOMAIN w = DOMAIN v
        /\ w.balance_proof = m.balance_proof /\ w.nonce = m.nonce /\ w.pending_locks = locks
        /\ w.lockedlocks = v.lockedlocks \ LocksFor(v.lockedlocks, m.secrethash)
        /\ w.unlockedlocks = v.unlockedlocks \ LocksFor(v.unlockedlocks, m.secrethash)
        /\ w.onchain_unlockedlocks =
               v.onchain_unlockedlocks \ LocksFor(v.onchain_unlockedlocks, m.secrethash)
    BY <2>3, <2>4 DEF IsEndState, NettingChannelEndState, _del_lock, _del_unclaimed_lock,
                      WithBalanceProof
  <2> HIDE DEF w
  <2>6. AllLocks(w) = AllLocks(v) \ LocksFor(AllLocks(v), m.secrethash)
    BY <2>5 DEF AllLocks, LocksFor
  <2>7. IsEndState(w)
    BY <2>3, <2>4, <2>5, <2>6 DEF IsEndState, IsMessage
  <2>8. Applied(m, Committed(v), Committed(w))
    BY <2>3, <2>5, <2>6 DEF Applied, Committed, WithdrawMessages
  <2>9. r.partner_state = w
    BY <2>1 DEF IsChannel, NettingChannelState
  <2>10. Unclaimed(w) \subseteq Unclaimed(v)
    BY <2>5 DEF Unclaimed
  <2>11. ViewStep(v, w, {m})
    BY <2>3, <2>5, <2>7, <2>8 DEF ViewStep
  <2> QED BY <2>1, <2>3, <2>9, <2>10, <2>11, OpenedStatus
<1> QED BY <1>1, <1>2

\* A LockExpired is refused, or it takes the copy to what the sender announced
\* and the lock had expired at the receiver, unregistered as far as it knows.
LEMMA ReceiveLockExpiredStep ==
    ASSUME NEW ch, NEW m, NEW b, IsChannel(ch), IsMessage(m), m.type = "LockExpired",
           UniqueLocks(AllLocks(ch.partner_state))
    PROVE  LET r == handle_receive_lock_expired(ch, m, b)
               v == ch.partner_state
           IN  \/ r = ch
               \/ /\ ViewStep(v, r.partner_state, {m})
                  /\ r = [ch EXCEPT !.partner_state = r.partner_state]
                  /\ Opened(ch)
                  /\ Unclaimed(r.partner_state) \subseteq Unclaimed(v)
                  /\ \A l \in AllLocks(v) \ AllLocks(r.partner_state) :
                        l \in Unclaimed(v) /\ b >= l.expiration + Confirmations
<1> DEFINE v == ch.partner_state
           valid == {l \in AllLocks(v) : is_valid_lock_expired(ch, m, l, b)}
           lock == CHOOSE l \in valid : TRUE
           locks == compute_locks_without(v.pending_locks, lock)
           w == _del_unclaimed_lock(WithBalanceProof(v, m.balance_proof, locks), m.secrethash)
           r == handle_receive_lock_expired(ch, m, b)
<1>1. CASE valid = {}
  BY <1>1 DEF handle_receive_lock_expired
<1>2. CASE valid # {}
  <2>1. r = [ch EXCEPT !.partner_state = w]
    BY <1>2 DEF handle_receive_lock_expired
  <2>2. lock \in valid
    BY <1>2
  <2>3. /\ m.balance_proof.nonce = m.nonce /\ m.nonce = v.nonce + 1 /\ get_status(ch) = "opened"
        /\ lock \in AllLocks(v) /\ lock \in LocksFor(Unclaimed(v), m.secrethash)
        /\ LocksFor(v.onchain_unlockedlocks, m.secrethash) = {}
        /\ b >= lock.expiration + Confirmations
        /\ m.balance_proof.locksroot.keccak = locks
    <3> HIDE DEF lock
    <3> QED BY <2>2 DEF is_valid_lock_expired, is_balance_proof_usable_onchain, get_next_nonce,
                       IsMessage, compute_locksroot, is_lock_expired, Unclaimed,
                       get_receiver_expiration_threshold
  <2> HIDE DEF lock, locks, valid
  <2>4. IsEndState(v)
    BY DEF IsChannel
  <2>5. /\ DOMAIN w = DOMAIN v
        /\ w.balance_proof = m.balance_proof /\ w.nonce = m.nonce /\ w.pending_locks = locks
        /\ w.lockedlocks = v.lockedlocks \ LocksFor(v.lockedlocks, m.secrethash)
        /\ w.unlockedlocks = v.unlockedlocks \ LocksFor(v.unlockedlocks, m.secrethash)
        /\ w.onchain_unlockedlocks = v.onchain_unlockedlocks
    BY <2>3, <2>4 DEF IsEndState, NettingChannelEndState, _del_unclaimed_lock, WithBalanceProof
  <2> HIDE DEF w
  <2>6. AllLocks(w) = AllLocks(v) \ LocksFor(AllLocks(v), m.secrethash)
    BY <2>3, <2>5 DEF AllLocks, LocksFor
  <2>7. IsEndState(w)
    BY <2>3, <2>4, <2>5, <2>6 DEF IsEndState, IsMessage
  <2>8. Applied(m, Committed(v), Committed(w))
    BY <2>3, <2>5, <2>6 DEF Applied, Committed, WithdrawMessages
  <2>9. r.partner_state = w
    BY <2>1 DEF IsChannel, NettingChannelState
  <2>10. Unclaimed(w) \subseteq Unclaimed(v)
    BY <2>5 DEF Unclaimed
  <2>11. ViewStep(v, w, {m})
    BY <2>3, <2>5, <2>7, <2>8 DEF ViewStep
  <2>12. \A l \in AllLocks(v) \ AllLocks(w) : l = lock
    BY <2>3, <2>6 DEF LocksFor, UniqueLocks
  <2> QED BY <2>1, <2>3, <2>9, <2>10, <2>11, <2>12, OpenedStatus DEF LocksFor
<1> QED BY <1>1, <1>2

-----------------------------------------------------------------------------
(***************************************************************************)
(* Secrets.                                                                *)
(***************************************************************************)

\* The commitment stays; locks may move to the mapping of the claimed ones.
KeepsCommitment(e, f) ==
    /\ IsEndState(f)
    /\ f.nonce = e.nonce
    /\ Committed(f) = Committed(e)
    /\ Unclaimed(f) \subseteq Unclaimed(e)

\* Learning a secret moves locks between the mappings.
LEMMA RegisterSecretStep ==
    ASSUME NEW e, NEW s, IsEndState(e)
    PROVE  KeepsCommitment(e, register_secret_endstate(e, s))
<1> DEFINE f == register_secret_endstate(e, s)
<1>1. /\ DOMAIN f = DOMAIN e /\ f.nonce = e.nonce
      /\ f.balance_proof = e.balance_proof /\ f.pending_locks = e.pending_locks
      /\ f.lockedlocks = e.lockedlocks \ LocksFor(e.lockedlocks, s)
      /\ f.unlockedlocks = e.unlockedlocks \cup LocksFor(e.lockedlocks, s)
      /\ f.onchain_unlockedlocks = e.onchain_unlockedlocks
  BY DEF IsEndState, NettingChannelEndState, register_secret_endstate
<1> HIDE DEF f
<1>2. AllLocks(f) = AllLocks(e) /\ Unclaimed(f) = Unclaimed(e)
  BY <1>1 DEF AllLocks, LocksFor, Unclaimed
<1>3. KeepsCommitment(e, f)
  BY <1>1, <1>2 DEF KeepsCommitment, IsEndState, Committed
<1> QED BY <1>3 DEF f

\* A registration in time moves the lock of the secret out of the unclaimed
\* ones; a late one changes nothing.
LEMMA RegisterOnchainSecretStep ==
    ASSUME NEW e, NEW s, NEW b, IsEndState(e), UniqueLocks(AllLocks(e))
    PROVE  LET f == register_onchain_secret_endstate(e, s, b)
           IN  /\ KeepsCommitment(e, f)
               /\ \A l \in Unclaimed(f) : ~ (l.secrethash = s /\ l.expiration >= b)
<1> DEFINE f == register_onchain_secret_endstate(e, s, b)
           locks == {l \in LocksFor(e.lockedlocks \cup e.unlockedlocks, s) : l.expiration >= b}
<1>1. CASE locks = {}
  <2>1. f = e
    BY <1>1 DEF register_onchain_secret_endstate
  <2>2. \A l \in Unclaimed(e) : ~ (l.secrethash = s /\ l.expiration >= b)
    BY <1>1 DEF Unclaimed, LocksFor
  <2> QED BY <2>1, <2>2 DEF KeepsCommitment
<1>2. CASE locks # {}
  <2>1. /\ DOMAIN f = DOMAIN e /\ f.nonce = e.nonce
        /\ f.balance_proof = e.balance_proof /\ f.pending_locks = e.pending_locks
        /\ f.lockedlocks = e.lockedlocks \ LocksFor(e.lockedlocks, s)
        /\ f.unlockedlocks = e.unlockedlocks \ LocksFor(e.unlockedlocks, s)
        /\ f.onchain_unlockedlocks =
               (e.onchain_unlockedlocks \ LocksFor(e.onchain_unlockedlocks, s)) \cup locks
    <3>1. f = [_del_lock(e, s) EXCEPT !.onchain_unlockedlocks = @ \cup locks]
      BY <1>2, ZenonT(20) DEF register_onchain_secret_endstate
    <3> HIDE DEF locks, f
    <3> QED BY <3>1 DEF IsEndState, NettingChannelEndState, _del_lock, _del_unclaimed_lock
  <2> HIDE DEF f
  <2>2. LocksFor(AllLocks(e), s) = locks
    BY <1>2 DEF LocksFor, UniqueLocks, AllLocks
  <2>3. AllLocks(f) = AllLocks(e)
    <3> HIDE DEF locks
    <3> QED BY <2>1, <2>2 DEF AllLocks, LocksFor
  <2>4. \A l \in Unclaimed(f) : l \in Unclaimed(e) /\ l.secrethash # s
    BY <2>1 DEF Unclaimed, LocksFor
  <2>5. KeepsCommitment(e, f)
    BY <2>1, <2>3, <2>4 DEF KeepsCommitment, IsEndState, Committed
  <2> QED BY <2>4, <2>5 DEF f
<1> QED BY <1>1, <1>2

-----------------------------------------------------------------------------
(***************************************************************************)
(* Handlers that touch neither balance proofs nor locks: withdraws,        *)
(* cooperative settlement, closing, settling and what the chain reports.   *)
(***************************************************************************)

HandIns == {"ContractSendChannelClose", "ContractSendChannelUpdateTransfer"}

\* From ch to c: the commitments stay, and a channel that is no longer opened
\* stays that way.
Quiet(ch, c) ==
    /\ IsChannel(c)
    /\ SameCommitment(ch.our_state, c.our_state)
    /\ SameCommitment(ch.partner_state, c.partner_state)
    /\ Opened(c) => Opened(ch)

\* Only withdraw messages are sent, with new nonces; whatever balance proof is
\* handed in to the contract is the partner's last one, and the channel is not
\* open any more.
QuietStep(ch, r) ==
    /\ Quiet(ch, r.channel)
    /\ r.channel.our_state.nonce >= ch.our_state.nonce
    /\ \A m \in Messages(r.events) :
          /\ m.type \in WithdrawMessages
          /\ m.nonce \in ch.our_state.nonce + 1 .. r.channel.our_state.nonce
    /\ \A ev \in EventSet(r.events) :
          ev.type \in HandIns => /\ ev.balance_proof = ch.partner_state.balance_proof
                                 /\ ~ Opened(r.channel)

\* Doing nothing is quiet.
LEMMA QuietNothing ==
    ASSUME NEW ch, IsChannel(ch)
    PROVE  QuietStep(ch, TransitionResult(ch, <<>>))
BY NoMessages DEF QuietStep, Quiet, SameCommitment, TransitionResult, IsChannel, IsEndState

\* Two quiet changes in a row are quiet.
LEMMA QuietTransitive ==
    ASSUME NEW a, NEW b, NEW c, Quiet(a, b), Quiet(b, c)
    PROVE  Quiet(a, c)
BY DEF Quiet, SameCommitment

\* A quiet change without events is a quiet step.
LEMMA QuietSilent ==
    ASSUME NEW ch, NEW c, IsChannel(ch), Quiet(ch, c), c.our_state.nonce = ch.our_state.nonce
    PROVE  QuietStep(ch, TransitionResult(c, <<>>))
BY NoMessages DEF QuietStep, TransitionResult, IsChannel, IsEndState

\* A quiet change that sends one transaction.
LEMMA QuietTransaction ==
    ASSUME NEW ch, NEW c, NEW ev, IsChannel(ch), Quiet(ch, c),
           c.our_state.nonce = ch.our_state.nonce, ev.type \notin MessageTypes,
           ev.type \in HandIns => /\ ev.balance_proof = ch.partner_state.balance_proof
                                  /\ ~ Opened(c)
    PROVE  QuietStep(ch, TransitionResult(c, <<ev>>))
<1> DEFINE r == TransitionResult(c, <<ev>>)
<1>1. r.channel = c /\ r.events = <<ev>>
  BY DEF TransitionResult
<1>2. EventSet(<<ev>>) = {ev} /\ Messages(<<ev>>) = {}
  BY OneMessage
<1>3. ch.our_state.nonce \in Nat
  BY DEF IsChannel, IsEndState
<1> HIDE DEF r
<1>4. QuietStep(ch, r)
  BY <1>1, <1>2, <1>3 DEF QuietStep
<1> QED BY <1>4 DEF r

\* A quiet change of one participant.
LEMMA QuietOurs ==
    ASSUME NEW ch, NEW f, IsChannel(ch), IsEndState(f), SameCommitment(ch.our_state, f)
    PROVE  /\ Quiet(ch, [ch EXCEPT !.our_state = f])
           /\ [ch EXCEPT !.our_state = f].our_state = f
           /\ [ch EXCEPT !.our_state = f].partner_state = ch.partner_state
BY DEF Quiet, SameCommitment, IsChannel, NettingChannelState, Opened

\* The same for the other one.
LEMMA QuietPartner ==
    ASSUME NEW ch, NEW f, IsChannel(ch), IsEndState(f), SameCommitment(ch.partner_state, f)
    PROVE  /\ Quiet(ch, [ch EXCEPT !.partner_state = f])
           /\ [ch EXCEPT !.partner_state = f].our_state = ch.our_state
           /\ [ch EXCEPT !.partner_state = f].partner_state = f
BY DEF Quiet, SameCommitment, IsChannel, NettingChannelState, Opened

\* Recording the state of a cooperative settlement is quiet.
LEMMA QuietCoopSettle ==
    ASSUME NEW ch, NEW coop, IsChannel(ch)
    PROVE  /\ Quiet(ch, [ch EXCEPT !.our_state.initiated_coop_settle = coop])
           /\ [ch EXCEPT !.our_state.initiated_coop_settle = coop].our_state.nonce
                 = ch.our_state.nonce
           /\ [ch EXCEPT !.our_state.initiated_coop_settle = coop].partner_state = ch.partner_state
           /\ Quiet(ch, [ch EXCEPT !.partner_state.initiated_coop_settle = coop])
           /\ [ch EXCEPT !.partner_state.initiated_coop_settle = coop].our_state = ch.our_state
           /\ [ch EXCEPT !.partner_state.initiated_coop_settle = coop].partner_state.nonce
                 = ch.partner_state.nonce
BY DEF Quiet, SameCommitment, IsChannel, IsEndState, NettingChannelState,
       NettingChannelEndState, Opened, AllLocks

\* send_withdraw_request sends nothing, or one request with the next nonce.
LEMMA SendWithdrawRequestStep ==
    ASSUME NEW ch, NEW total, NEW expiration, NEW coop_settle, IsChannel(ch)
    PROVE  LET r == send_withdraw_request(ch, total, expiration, coop_settle)
           IN  /\ QuietStep(ch, r)
               /\ r.channel.partner_state = ch.partner_state
               /\ \/ r.events = <<>> /\ r.channel.our_state.nonce = ch.our_state.nonce
                  \/ \E m : /\ r.events = <<m>>
                            /\ m.type = "WithdrawRequest"
                            /\ m.nonce = ch.our_state.nonce + 1
                            /\ r.channel.our_state.nonce = ch.our_state.nonce + 1
<1> DEFINE w == [total_withdraw |-> total, expiration |-> expiration,
                 nonce |-> get_next_nonce(ch.our_state)]
           m == [type |-> "WithdrawRequest", nonce |-> w.nonce, total_withdraw |-> total,
                 expiration |-> expiration, coop_settle |-> coop_settle]
           c == [ch EXCEPT !.our_state.nonce = w.nonce,
                           !.our_state.withdraws_pending = AddWithdraw(@, w)]
           r == send_withdraw_request(ch, total, expiration, coop_settle)
<1>1. CASE ~ PriorToClosed(ch)
  <2>1. r = TransitionResult(ch, <<>>)
    BY <1>1 DEF send_withdraw_request
  <2> QED BY <2>1, QuietNothing DEF TransitionResult
<1>2. CASE PriorToClosed(ch)
  <2>1. r.channel = c /\ r.events = <<m>>
    BY <1>2 DEF send_withdraw_request, TransitionResult
  <2>2. w.nonce = ch.our_state.nonce + 1 /\ m.nonce = w.nonce /\ ch.our_state.nonce \in Nat
    BY DEF get_next_nonce, IsChannel, IsEndState
  <2> HIDE DEF w
  <2>3. Quiet(ch, c) /\ c.our_state.nonce = w.nonce /\ c.partner_state = ch.partner_state
    <3> DEFINE e == ch.our_state
               f == c.our_state
    <3>1. /\ DOMAIN c = DOMAIN ch /\ c.partner_state = ch.partner_state
          /\ c.reveal_timeout = ch.reveal_timeout /\ c.removed = ch.removed
          /\ c.close_transaction = ch.close_transaction
          /\ c.settle_transaction = ch.settle_transaction
          /\ c.update_transaction = ch.update_transaction
      BY DEF IsChannel, NettingChannelState
    <3>2. f.nonce = w.nonce /\ DOMAIN f = DOMAIN e /\ SameCommitment(e, f)
      BY ZenonT(20) DEF IsChannel, IsEndState, NettingChannelState, NettingChannelEndState, SameCommitment
    <3> HIDE DEF c
    <3>3. IsEndState(f)
      BY <2>2, <3>2 DEF IsChannel, IsEndState, SameCommitment, AllLocks
    <3> QED BY <3>1, <3>2, <3>3 DEF Quiet, IsChannel, Opened, SameCommitment
  <2>4. EventSet(r.events) = {m} /\ Messages(r.events) = {m}
    BY <2>1, OneMessage DEF MessageTypes
  <2>5. QuietStep(ch, r)
    BY <2>1, <2>2, <2>3, <2>4 DEF QuietStep, WithdrawMessages, HandIns
  <2> QED BY <2>1, <2>2, <2>3, <2>5
<1> QED BY <1>1, <1>2

\* A quiet step after a quiet change that leaves the nonce.
LEMMA QuietThenStep ==
    ASSUME NEW a, NEW b, NEW r, Quiet(a, b), b.our_state.nonce = a.our_state.nonce,
           QuietStep(b, r)
    PROVE  QuietStep(a, r)
<1>1. Quiet(a, r.channel)
  BY QuietTransitive DEF QuietStep
<1>2. b.partner_state.balance_proof = a.partner_state.balance_proof
  BY DEF Quiet, SameCommitment
<1> QED BY <1>1, <1>2 DEF QuietStep

\* The user's withdraw.
LEMMA ActionWithdrawStep ==
    ASSUME NEW ch, NEW total, NEW b, IsChannel(ch)
    PROVE  LET r == _handle_action_withdraw(ch, total, b)
           IN  QuietStep(ch, r) /\ r.channel.partner_state = ch.partner_state
<1> DEFINE expiration == get_safe_initial_expiration(b, 2 * ch.reveal_timeout)
           no == FALSE
           s == send_withdraw_request(ch, total, expiration, no)
           r == _handle_action_withdraw(ch, total, b)
<1>1. r = s \/ r = TransitionResult(ch, <<>>)
  BY ZenonT(20) DEF _handle_action_withdraw
<1> HIDE DEF expiration, no, r
<1>2. QuietStep(ch, s) /\ s.channel.partner_state = ch.partner_state
  BY SendWithdrawRequestStep
<1> HIDE DEF s
<1>3. QuietStep(ch, r) /\ r.channel.partner_state = ch.partner_state
  BY <1>1, <1>2, QuietNothing DEF TransitionResult
<1> QED BY <1>3 DEF r

\* The user's cooperative settlement.
LEMMA ActionCoopSettleStep ==
    ASSUME NEW ch, NEW b, IsChannel(ch)
    PROVE  LET r == _handle_action_coop_settle(ch, b)
           IN  QuietStep(ch, r) /\ r.channel.partner_state = ch.partner_state
<1> DEFINE total == get_max_withdraw_amount(ch.our_state, ch.partner_state)
           partner == get_max_withdraw_amount(ch.partner_state, ch.our_state)
           expiration == get_safe_initial_expiration(b, 2 * ch.reveal_timeout)
           coop == CoopSettleState(total, partner, expiration, FALSE)
           c == [ch EXCEPT !.our_state.initiated_coop_settle = {coop}]
           yes == TRUE
           s == send_withdraw_request(c, total, expiration, yes)
           r == _handle_action_coop_settle(ch, b)
<1>1. r = s \/ r = TransitionResult(ch, <<>>)
  BY ZenonT(20) DEF _handle_action_coop_settle
<1> HIDE DEF total, expiration, coop, yes
<1>2. Quiet(ch, c) /\ c.our_state.nonce = ch.our_state.nonce /\ c.partner_state = ch.partner_state
  BY QuietCoopSettle, ZenonT(20)
<1> HIDE DEF c
<1>3. IsChannel(c)
  BY <1>2 DEF Quiet
<1>4. QuietStep(c, s) /\ s.channel.partner_state = c.partner_state
  BY <1>3, SendWithdrawRequestStep
<1> HIDE DEF s
<1>5. QuietStep(ch, s) /\ s.channel.partner_state = ch.partner_state
  BY <1>2, <1>4, QuietThenStep, SMTT(20)
<1> QED BY <1>1, <1>5, QuietNothing DEF TransitionResult

\* The last step of a cooperative settlement.
LEMMA EventsForCoopSettleStep ==
    ASSUME NEW ch, NEW coop, NEW b, IsChannel(ch)
    PROVE  LET r == events_for_coop_settle(ch, coop, b)
           IN  /\ QuietStep(ch, r)
               /\ r.channel.partner_state = ch.partner_state
               /\ r.channel.our_state.nonce = ch.our_state.nonce
               /\ Messages(r.events) = {}
               /\ r.events = <<>> \/ \E ev : r.events = <<ev>>
<1> DEFINE ev == [type |-> "ContractSendChannelCoopSettle",
                  our_total_withdraw |-> coop.total_withdraw_initiator,
                  partner_total_withdraw |-> coop.total_withdraw_partner,
                  expiration |-> coop.expiration]
           c1 == [ch EXCEPT !.our_state.initiated_coop_settle =
                                {[coop EXCEPT !.transaction = "running"]}]
           c2 == [ch EXCEPT !.our_state.initiated_coop_settle = {coop}]
           r == events_for_coop_settle(ch, coop, b)
<1>1. r = TransitionResult(c1, <<ev>>) \/ r = TransitionResult(c2, <<>>)
  BY DEF events_for_coop_settle
<1>2. /\ Quiet(ch, c1) /\ c1.our_state.nonce = ch.our_state.nonce
      /\ c1.partner_state = ch.partner_state
      /\ Quiet(ch, c2) /\ c2.our_state.nonce = ch.our_state.nonce
      /\ c2.partner_state = ch.partner_state
  BY QuietCoopSettle, ZenonT(20)
<1> HIDE DEF c1, c2
<1>3. EventSet(<<ev>>) = {ev} /\ Messages(<<ev>>) = {}
  BY OneMessage DEF MessageTypes
<1>4. ch.our_state.nonce \in Nat /\ ev.type \notin HandIns
  BY DEF IsChannel, IsEndState, HandIns
<1> HIDE DEF ev
<1>5. QuietStep(ch, TransitionResult(c1, <<ev>>))
  BY <1>2, <1>3, <1>4 DEF QuietStep, TransitionResult
<1>6. QuietStep(ch, TransitionResult(c2, <<>>))
  BY <1>2, QuietSilent
<1> QED BY <1>1, <1>2, <1>3, <1>5, <1>6, NoMessages DEF TransitionResult

\* The user sets the reveal timeout.
LEMMA SetRevealTimeoutStep ==
    ASSUME NEW ch, NEW t \in Nat, IsChannel(ch)
    PROVE  LET c == _handle_action_set_reveal_timeout(ch, t)
           IN  /\ QuietStep(ch, Silently(c))
               /\ c.partner_state = ch.partner_state
<1> DEFINE c == [ch EXCEPT !.reveal_timeout = t]
<1>1. Quiet(ch, c) /\ c.our_state = ch.our_state /\ c.partner_state = ch.partner_state
  BY DEF Quiet, SameCommitment, IsChannel, NettingChannelState, Opened
<1> QED BY <1>1, QuietNothing, QuietSilent, ZenonT(20) DEF _handle_action_set_reveal_timeout, Silently

\* The user closes: the last balance proof of the partner is handed in.
LEMMA EventsForCloseStep ==
    ASSUME NEW ch, IsChannel(ch)
    PROVE  LET r == events_for_close(ch)
           IN  QuietStep(ch, r) /\ r.channel.partner_state = ch.partner_state
<1> DEFINE c == [ch EXCEPT !.close_transaction = "running"]
           ev == [type |-> "ContractSendChannelClose",
                  balance_proof |-> ch.partner_state.balance_proof]
           r == events_for_close(ch)
<1>1. r = TransitionResult(ch, <<>>) \/ r = TransitionResult(c, <<ev>>)
  BY DEF events_for_close
<1>2. /\ Quiet(ch, c) /\ c.our_state = ch.our_state /\ c.partner_state = ch.partner_state
      /\ ~ Opened(c)
  BY DEF Quiet, SameCommitment, IsChannel, NettingChannelState, Opened, TransactionStatus
<1>3. ev.type \notin MessageTypes /\ ev.balance_proof = ch.partner_state.balance_proof
  BY DEF MessageTypes
<1> HIDE DEF c, r, ev
<1>4. QuietStep(ch, TransitionResult(c, <<ev>>))
  BY <1>2, <1>3, QuietTransaction
<1>5. QuietStep(ch, r) /\ r.channel.partner_state = ch.partner_state
  BY <1>1, <1>2, <1>4, QuietNothing DEF TransitionResult
<1> QED BY <1>5 DEF r

\* The settlement is sent.
LEMMA HandleBlockStep ==
    ASSUME NEW ch, NEW b, IsChannel(ch)
    PROVE  LET r == _handle_block(ch, b)
           IN  /\ QuietStep(ch, r) /\ r.channel.partner_state = ch.partner_state
               /\ r.channel.removed = ch.removed
<1> DEFINE c == [ch EXCEPT !.settle_transaction = "running"]
           ev == [type |-> "ContractSendChannelSettle"]
           r == _handle_block(ch, b)
<1>1. r = TransitionResult(ch, <<>>) \/ r = TransitionResult(c, <<ev>>)
  BY DEF _handle_block
<1>2. /\ Quiet(ch, c) /\ c.our_state = ch.our_state /\ c.partner_state = ch.partner_state
      /\ c.removed = ch.removed
  BY DEF Quiet, SameCommitment, IsChannel, NettingChannelState, Opened, TransactionStatus
<1>3. ev.type \notin MessageTypes /\ ev.type \notin HandIns
  BY DEF MessageTypes, HandIns
<1> HIDE DEF c, r, ev
<1>4. QuietStep(ch, TransitionResult(c, <<ev>>))
  BY <1>2, <1>3, QuietTransaction
<1>5. QuietStep(ch, r) /\ r.channel.partner_state = ch.partner_state
      /\ r.channel.removed = ch.removed
  BY <1>1, <1>2, <1>4, QuietNothing DEF TransitionResult
<1> QED BY <1>5 DEF r

IsList(s) == \E S : s \in Seq(S)

\* The events of a list with one more element.
LEMMA EventSetAppend ==
    ASSUME NEW s, NEW ev, IsList(s)
    PROVE  EventSet(Append(s, ev)) = EventSet(s) \cup {ev}
<1>1. PICK S : s \in Seq(S)
  BY DEF IsList
<1>2. /\ DOMAIN s = 1 .. Len(s) /\ Len(s) \in Nat
      /\ DOMAIN Append(s, ev) = 1 .. Len(s) + 1
      /\ \A i \in 1 .. Len(s) : Append(s, ev)[i] = s[i]
      /\ Append(s, ev)[Len(s) + 1] = ev
  BY <1>1
<1>3. ASSUME NEW x PROVE x \in EventSet(Append(s, ev)) <=> x \in EventSet(s) \cup {ev}
  BY <1>2 DEF EventSet
<1> QED BY <1>3

\* Emitting a list twice emits the same events.
LEMMA EventSetTwice ==
    ASSUME NEW s, IsList(s)
    PROVE  IsList(s \o s) /\ EventSet(s \o s) = EventSet(s)
<1>1. PICK S : s \in Seq(S)
  BY DEF IsList
<1>2. /\ DOMAIN s = 1 .. Len(s) /\ Len(s) \in Nat
      /\ s \o s \in Seq(S)
      /\ DOMAIN (s \o s) = 1 .. Len(s) + Len(s)
      /\ \A i \in 1 .. Len(s) : (s \o s)[i] = s[i]
      /\ \A i \in Len(s) + 1 .. Len(s) + Len(s) : (s \o s)[i] = s[i - Len(s)]
  BY <1>1
<1>3. ASSUME NEW x PROVE x \in EventSet(s \o s) <=> x \in EventSet(s)
  <2>1. \A i \in 1 .. Len(s) + Len(s) :
           i \in 1 .. Len(s) \/ (i \in Len(s) + 1 .. Len(s) + Len(s) /\ i - Len(s) \in 1 .. Len(s))
    BY <1>2
  <2>2. \A i \in 1 .. Len(s) : i \in 1 .. Len(s) + Len(s)
    BY <1>2
  <2> QED BY <1>2, <2>1, <2>2 DEF EventSet
<1> QED BY <1>2, <1>3, ZenonT(20) DEF IsList

\* The short lists the handlers build.
LEMMA ShortLists == IsList(<<>>) /\ \A ev : IsList(<<ev>>)
<1>1. <<>> \in Seq({})
  OBVIOUS
<1>2. ASSUME NEW ev PROVE <<ev>> \in Seq({ev})
  OBVIOUS
<1> QED BY <1>1, <1>2, ZenonT(20) DEF IsList

\* The cooperative settlement's part of the answer to a withdraw request.
LEMMA CoopSettleAnswerStep ==
    ASSUME NEW ch, NEW m, NEW b, IsChannel(ch)
    PROVE  LET r == CoopSettleAnswer(ch, m, b)
           IN  /\ QuietStep(ch, r)
               /\ r.channel.partner_state.nonce = ch.partner_state.nonce
               /\ IsList(r.events)
<1> DEFINE ours == ch.our_state.initiated_coop_settle
           total == get_max_withdraw_amount(ch.our_state, ch.partner_state)
           theirs == {CoopSettleState(m.total_withdraw, total, m.expiration, TRUE)}
           c == [ch EXCEPT !.partner_state.initiated_coop_settle = theirs]
           no == FALSE
           expiration == m.expiration
           reply == send_withdraw_request(c, total, expiration, no)
           coop == [CHOOSE k \in ours : TRUE EXCEPT !.partner_signature_request = TRUE]
           r == CoopSettleAnswer(ch, m, b)
<1>1. \/ r = events_for_coop_settle(ch, coop, b)
      \/ r = TransitionResult(reply.channel, reply.events \o reply.events)
      \/ r = TransitionResult(ch, <<>>)
  BY ZenonT(20) DEF CoopSettleAnswer
<1> HIDE DEF r, coop, total, no, theirs, expiration
<1>2. CASE r = events_for_coop_settle(ch, coop, b)
  <2> DEFINE x == events_for_coop_settle(ch, coop, b)
  <2>1. /\ QuietStep(ch, x) /\ x.channel.partner_state = ch.partner_state
        /\ x.events = <<>> \/ \E ev : x.events = <<ev>>
    BY EventsForCoopSettleStep
  <2> HIDE DEF x
  <2>2. QuietStep(ch, x) /\ x.channel.partner_state = ch.partner_state /\ IsList(x.events)
    BY <2>1, ShortLists, ZenonT(20)
  <2>3. r = x
    BY <1>2 DEF x
  <2> QED BY <2>2, <2>3 DEF r
<1>3. CASE r = TransitionResult(reply.channel, reply.events \o reply.events)
  <2>1. /\ Quiet(ch, c) /\ c.our_state = ch.our_state
        /\ c.partner_state.nonce = ch.partner_state.nonce
    BY QuietCoopSettle, ZenonT(20)
  <2> HIDE DEF c
  <2>2. IsChannel(c)
    BY <2>1 DEF Quiet
  <2>3. /\ QuietStep(c, reply)
        /\ reply.channel.partner_state = c.partner_state
        /\ reply.events = <<>> \/ \E q : reply.events = <<q>>
    <3>1. /\ QuietStep(c, reply)
          /\ reply.channel.partner_state = c.partner_state
          /\ \/ reply.events = <<>> /\ reply.channel.our_state.nonce = c.our_state.nonce
             \/ \E q : /\ reply.events = <<q>>
                       /\ q.type = "WithdrawRequest"
                       /\ q.nonce = c.our_state.nonce + 1
                       /\ reply.channel.our_state.nonce = c.our_state.nonce + 1
      BY <2>2, SendWithdrawRequestStep
    <3> HIDE DEF reply
    <3> QED BY <3>1
  <2> HIDE DEF reply
  <2>4. QuietStep(ch, reply)
    BY <2>1, <2>3, QuietThenStep
  <2>5. r.channel = reply.channel /\ r.events = reply.events \o reply.events
    BY <1>3 DEF TransitionResult
  <2>6. EventSet(r.events) = EventSet(reply.events) /\ IsList(r.events)
    <3>1. IsList(reply.events)
      BY <2>3, ShortLists, ZenonT(20)
    <3> QED BY <2>5, <3>1, EventSetTwice
  <2>7. QuietStep(ch, r)
    BY <2>4, <2>5, <2>6 DEF QuietStep, Messages
  <2> QED BY <2>1, <2>3, <2>5, <2>6, <2>7 DEF r
<1>4. CASE r = TransitionResult(ch, <<>>)
  <2>1. QuietStep(ch, r) /\ r.channel = ch /\ r.events = <<>>
    BY <1>4, QuietNothing DEF TransitionResult
  <2> QED BY <2>1, ShortLists DEF r
<1> QED BY <1>1, <1>2, <1>3, <1>4

\* A withdraw message of the partner is refused, or it is the next one.
NextOrSame(v, w, m) == w.nonce = v.nonce \/ (w.nonce = m.nonce /\ m.nonce = v.nonce + 1)

\* Recording a participant's new nonce and pending withdraws is quiet.
LEMMA QuietEndState ==
    ASSUME NEW e, NEW f, IsEndState(e), DOMAIN f = DOMAIN e, SameCommitment(e, f), f.nonce \in Nat
    PROVE  IsEndState(f)
BY DEF IsEndState, SameCommitment, AllLocks

\* A withdraw request is refused, recorded, or recorded and confirmed.
LEMMA ReceiveWithdrawRequestStep ==
    ASSUME NEW ch, NEW m, NEW b, IsChannel(ch), IsMessage(m)
    PROVE  LET r == _handle_receive_withdraw_request(ch, m, b)
           IN  /\ QuietStep(ch, r)
               /\ NextOrSame(ch.partner_state, r.channel.partner_state, m)
<1> DEFINE q == [total_withdraw |-> m.total_withdraw, expiration |-> m.expiration,
                 nonce |-> m.nonce]
           c == [ch EXCEPT !.partner_state.withdraws_pending = AddWithdraw(@, q),
                           !.partner_state.nonce = m.nonce]
           a == CoopSettleAnswer(c, m, b)
           nonce == get_next_nonce(a.channel.our_state)
           ev == [type |-> "WithdrawConfirmation", nonce |-> nonce,
                  total_withdraw |-> m.total_withdraw, expiration |-> m.expiration]
           d == [a.channel EXCEPT !.our_state.nonce = nonce]
           answer == TransitionResult(d, Append(a.events, ev))
           r == _handle_receive_withdraw_request(ch, m, b)
<1>1. \/ r = TransitionResult(ch, <<>>)
      \/ is_valid_withdraw_request(ch, m) /\ r = TransitionResult(c, <<>>)
      \/ is_valid_withdraw_request(ch, m) /\ r = answer
  BY DEF _handle_receive_withdraw_request
<1>2. is_valid_withdraw_request(ch, m) => m.nonce = ch.partner_state.nonce + 1
  BY DEF is_valid_withdraw_request, get_next_nonce
<1>3. /\ Quiet(ch, c) /\ c.our_state = ch.our_state /\ c.partner_state.nonce = m.nonce
  <2> DEFINE v == ch.partner_state
             w == c.partner_state
  <2>1. /\ DOMAIN c = DOMAIN ch /\ c.our_state = ch.our_state
        /\ c.reveal_timeout = ch.reveal_timeout /\ c.removed = ch.removed
        /\ c.close_transaction = ch.close_transaction
        /\ c.settle_transaction = ch.settle_transaction
        /\ c.update_transaction = ch.update_transaction
    BY DEF IsChannel, NettingChannelState
  <2>2. w.nonce = m.nonce /\ DOMAIN w = DOMAIN v /\ SameCommitment(v, w)
    BY ZenonT(20) DEF IsChannel, IsEndState, NettingChannelState, NettingChannelEndState, SameCommitment
  <2> HIDE DEF c
  <2>3. IsEndState(w)
    BY <2>2, QuietEndState DEF IsChannel, IsMessage
  <2> QED BY <2>1, <2>2, <2>3 DEF Quiet, IsChannel, Opened, SameCommitment
<1> HIDE DEF c, r
<1>4. QuietStep(c, a) /\ a.channel.partner_state.nonce = m.nonce /\ IsList(a.events)
  <2>1. IsChannel(c)
    BY <1>3 DEF Quiet
  <2> QED BY <1>3, <2>1, CoopSettleAnswerStep
<1> HIDE DEF a
<1>5. QuietStep(ch, a)
  BY <1>3, <1>4, QuietThenStep, SMTT(20)
<1>6. nonce = a.channel.our_state.nonce + 1 /\ nonce \in Nat /\ a.channel.our_state.nonce \in Nat
      /\ ev.nonce = nonce /\ ev.type = "WithdrawConfirmation"
  <2>1. a.channel.our_state.nonce \in Nat
    BY <1>5 DEF QuietStep, Quiet, IsChannel, IsEndState
  <2>2. nonce = a.channel.our_state.nonce + 1
    BY DEF get_next_nonce
  <2>3. ev.nonce = nonce /\ ev.type = "WithdrawConfirmation"
    OBVIOUS
  <2> HIDE DEF ev, nonce
  <2> QED BY <2>1, <2>2, <2>3
<1> HIDE DEF nonce
<1>7. /\ Quiet(a.channel, d) /\ d.our_state.nonce = nonce
      /\ d.partner_state = a.channel.partner_state
  <2> DEFINE e == a.channel.our_state
             f == d.our_state
  <2>1. IsChannel(a.channel)
    BY <1>5 DEF QuietStep, Quiet
  <2>2. /\ DOMAIN d = DOMAIN a.channel /\ d.partner_state = a.channel.partner_state
        /\ d.reveal_timeout = a.channel.reveal_timeout /\ d.removed = a.channel.removed
        /\ d.close_transaction = a.channel.close_transaction
        /\ d.settle_transaction = a.channel.settle_transaction
        /\ d.update_transaction = a.channel.update_transaction
    BY <2>1 DEF IsChannel, NettingChannelState
  <2>3. f.nonce = nonce /\ DOMAIN f = DOMAIN e /\ SameCommitment(e, f)
    BY <2>1 DEF IsChannel, IsEndState, NettingChannelState, NettingChannelEndState, SameCommitment
  <2> HIDE DEF d
  <2>4. IsEndState(f)
    BY <1>6, <2>1, <2>3, QuietEndState DEF IsChannel
  <2> QED BY <2>1, <2>2, <2>3, <2>4, SMTT(20) DEF Quiet, IsChannel, Opened, SameCommitment
<1> HIDE DEF d, ev
<1>8. EventSet(Append(a.events, ev)) = EventSet(a.events) \cup {ev}
  BY <1>4, EventSetAppend, SMTT(20)
<1>9. QuietStep(ch, answer) /\ answer.channel.partner_state.nonce = m.nonce
  <2>1. answer.channel = d /\ EventSet(answer.events) = EventSet(a.events) \cup {ev}
    BY <1>8, SMTT(20) DEF TransitionResult
  <2> HIDE DEF answer
  <2>2. Quiet(ch, answer.channel)
    BY <1>5, <1>7, <2>1, QuietTransitive DEF QuietStep
  <2>3. ch.our_state.nonce \in Nat
    BY DEF IsChannel, IsEndState
  <2>4. \A x \in Messages(answer.events) : x \in Messages(a.events) \/ x = ev
    BY <2>1 DEF Messages
  <2>5. \A x \in Messages(answer.events) :
           /\ x.type \in WithdrawMessages
           /\ x.nonce \in ch.our_state.nonce + 1 .. answer.channel.our_state.nonce
    BY <1>5, <1>6, <1>7, <2>1, <2>3, <2>4, SMTT(20) DEF QuietStep, WithdrawMessages
  <2>6. \A x \in EventSet(answer.events) :
           x.type \in HandIns => /\ x.balance_proof = ch.partner_state.balance_proof
                                 /\ ~ Opened(answer.channel)
    BY <1>5, <1>6, <1>7, <2>1, SMTT(20) DEF QuietStep, HandIns, Quiet
  <2>7. answer.channel.our_state.nonce >= ch.our_state.nonce
    BY <1>5, <1>6, <1>7, <2>1, <2>3, SMTT(20) DEF QuietStep
  <2> QED BY <1>4, <1>7, <2>1, <2>2, <2>5, <2>6, <2>7 DEF QuietStep
<1> HIDE DEF answer
<1>10. QuietStep(ch, TransitionResult(c, <<>>))
  BY <1>3, QuietSilent
<1>11. QuietStep(ch, r) /\ NextOrSame(ch.partner_state, r.channel.partner_state, m)
  BY <1>1, <1>2, <1>3, <1>9, <1>10, QuietNothing DEF TransitionResult, NextOrSame
<1> QED BY <1>11, SMTT(20) DEF r

\* A confirmation is refused, or it lets the withdraw or the cooperative
\* settlement go on chain.
LEMMA ReceiveWithdrawConfirmationStep ==
    ASSUME NEW ch, NEW m, NEW b, IsChannel(ch), IsMessage(m)
    PROVE  LET r == _handle_receive_withdraw_confirmation(ch, m, b)
           IN  /\ QuietStep(ch, r)
               /\ NextOrSame(ch.partner_state, r.channel.partner_state, m)
<1> DEFINE ours == ch.our_state.initiated_coop_settle
           c == [ch EXCEPT !.partner_state.nonce = m.nonce]
           ev == [type |-> "ContractSendChannelWithdraw",
                  total_withdraw |-> m.total_withdraw, expiration |-> m.expiration]
           coop == [CHOOSE k \in ours : TRUE EXCEPT !.partner_signature_confirmation = TRUE]
           x == events_for_coop_settle(c, coop, b)
           r == _handle_receive_withdraw_confirmation(ch, m, b)
<1>1. \/ r = TransitionResult(ch, <<>>)
      \/ /\ is_valid_withdraw_confirmation(ch, m)
         /\ r = x \/ r = TransitionResult(c, <<>>) \/ r = TransitionResult(c, <<ev>>)
  BY DEF _handle_receive_withdraw_confirmation
<1>2. is_valid_withdraw_confirmation(ch, m) => m.nonce = ch.partner_state.nonce + 1
  BY DEF is_valid_withdraw_confirmation, get_next_nonce
<1> HIDE DEF r, coop
<1>3. Quiet(ch, c) /\ c.our_state = ch.our_state /\ c.partner_state.nonce = m.nonce
  <2> DEFINE v == ch.partner_state
             w == c.partner_state
  <2>1. /\ DOMAIN c = DOMAIN ch /\ c.our_state = ch.our_state
        /\ c.reveal_timeout = ch.reveal_timeout /\ c.removed = ch.removed
        /\ c.close_transaction = ch.close_transaction
        /\ c.settle_transaction = ch.settle_transaction
        /\ c.update_transaction = ch.update_transaction
    BY DEF IsChannel, NettingChannelState
  <2>2. w.nonce = m.nonce /\ DOMAIN w = DOMAIN v /\ SameCommitment(v, w)
    BY DEF IsChannel, IsEndState, NettingChannelState, NettingChannelEndState, SameCommitment
  <2> HIDE DEF c
  <2>3. IsEndState(w)
    BY <2>2, QuietEndState DEF IsChannel, IsMessage
  <2> QED BY <2>1, <2>2, <2>3 DEF Quiet, IsChannel, Opened, SameCommitment
<1> HIDE DEF c
<1>4. QuietStep(ch, x) /\ x.channel.partner_state.nonce = m.nonce
  <2>1. IsChannel(c)
    BY <1>3 DEF Quiet
  <2>2. QuietStep(c, x) /\ x.channel.partner_state = c.partner_state
    BY <2>1, EventsForCoopSettleStep
  <2> HIDE DEF x
  <2> QED BY <1>3, <2>2, QuietThenStep
<1> HIDE DEF x
<1>5. ev.type \notin MessageTypes /\ ev.type \notin HandIns
  BY DEF MessageTypes, HandIns
<1>6. QuietStep(ch, TransitionResult(c, <<ev>>))
  BY <1>3, <1>5, QuietTransaction
<1>7. QuietStep(ch, TransitionResult(c, <<>>))
  BY <1>3, QuietSilent, SMTT(20)
<1> HIDE DEF ev
<1>8. QuietStep(ch, r) /\ NextOrSame(ch.partner_state, r.channel.partner_state, m)
  BY <1>1, <1>2, <1>3, <1>4, <1>6, <1>7, QuietNothing DEF TransitionResult, NextOrSame
<1> QED BY <1>8 DEF r

\* An expired withdraw is refused, or removed.
LEMMA ReceiveWithdrawExpiredStep ==
    ASSUME NEW ch, NEW m, NEW b, IsChannel(ch), IsMessage(m)
    PROVE  LET r == _handle_receive_withdraw_expired(ch, m, b)
           IN  /\ QuietStep(ch, r)
               /\ NextOrSame(ch.partner_state, r.channel.partner_state, m)
<1> DEFINE v == ch.partner_state
           q == CHOOSE k \in WithdrawFor(v.withdraws_pending, m.total_withdraw) : TRUE
           w == [WithoutExpiredCoopSettle(v, q)
                    EXCEPT !.withdraws_pending = @ \ {q}, !.nonce = m.nonce]
           c == [ch EXCEPT !.partner_state = w]
           r == _handle_receive_withdraw_expired(ch, m, b)
<1>1. \/ r = TransitionResult(ch, <<>>)
      \/ is_valid_withdraw_expired(ch, m, q, b) /\ r = TransitionResult(c, <<>>)
  BY DEF _handle_receive_withdraw_expired
<1>2. is_valid_withdraw_expired(ch, m, q, b) => m.nonce = v.nonce + 1
  BY DEF is_valid_withdraw_expired, get_next_nonce
<1> HIDE DEF r, q
<1>3. w.nonce = m.nonce /\ DOMAIN w = DOMAIN v /\ SameCommitment(v, w)
  BY DEF IsChannel, IsEndState, NettingChannelEndState, SameCommitment, WithoutExpiredCoopSettle
<1> HIDE DEF w
<1>4. IsEndState(w)
  BY <1>3, QuietEndState DEF IsChannel, IsMessage
<1>5. Quiet(ch, c) /\ c.our_state = ch.our_state /\ c.partner_state = w
  BY <1>3, <1>4, QuietPartner
<1> HIDE DEF c
<1>6. QuietStep(ch, TransitionResult(c, <<>>))
  BY <1>5, QuietSilent
<1>7. QuietStep(ch, r) /\ NextOrSame(v, r.channel.partner_state, m)
  BY <1>1, <1>2, <1>3, <1>5, <1>6, QuietNothing DEF TransitionResult, NextOrSame
<1> QED BY <1>7 DEF r

\* The node expires a withdraw of its own.
LEMMA ExpireWithdrawStep ==
    ASSUME NEW ch, NEW q, IsChannel(ch)
    PROVE  LET r == expire_withdraw(ch, q)
           IN  /\ QuietStep(ch, r) /\ r.channel.partner_state = ch.partner_state
               /\ r.channel.removed = ch.removed
<1> DEFINE e == ch.our_state
           nonce == get_next_nonce(e)
           f == [WithoutExpiredCoopSettle(e, q) EXCEPT
                    !.nonce = nonce,
                    !.withdraws_expired = Append(@, q),
                    !.withdraws_pending = @ \ {q}]
           c == [ch EXCEPT !.our_state = f]
           m == [type |-> "WithdrawExpired", nonce |-> nonce,
                 total_withdraw |-> q.total_withdraw, expiration |-> q.expiration]
           r == expire_withdraw(ch, q)
<1>1. r = TransitionResult(c, <<m>>)
  BY DEF expire_withdraw
<1>2. nonce = e.nonce + 1 /\ e.nonce \in Nat /\ m.nonce = nonce /\ m.type = "WithdrawExpired"
  BY DEF get_next_nonce, IsChannel, IsEndState
<1> HIDE DEF nonce, r
<1>3. f.nonce = nonce /\ DOMAIN f = DOMAIN e /\ SameCommitment(e, f)
  BY DEF IsChannel, IsEndState, NettingChannelEndState, SameCommitment, WithoutExpiredCoopSettle
<1> HIDE DEF f, m
<1>4. IsEndState(f)
  BY <1>2, <1>3, QuietEndState DEF IsChannel
<1>5. c.removed = ch.removed
  BY DEF IsChannel, NettingChannelState
<1>6. Quiet(ch, c) /\ c.our_state = f /\ c.partner_state = ch.partner_state
  BY <1>3, <1>4, QuietOurs
<1> HIDE DEF c
<1>7. EventSet(<<m>>) = {m} /\ Messages(<<m>>) = {m}
  BY <1>2, OneMessage DEF MessageTypes
<1>8. QuietStep(ch, r) /\ r.channel.partner_state = ch.partner_state
      /\ r.channel.removed = ch.removed
  BY <1>1, <1>2, <1>3, <1>6, <1>7, <1>5 DEF QuietStep, TransitionResult, WithdrawMessages, HandIns
<1> QED BY <1>8 DEF r

\* The channel was closed: an update hands in the partner's last balance proof.
LEMMA ChannelClosedStep ==
    ASSUME NEW ch, NEW b, NEW by_us, IsChannel(ch)
    PROVE  LET r == _handle_channel_closed(ch, b, by_us)
           IN  QuietStep(ch, r) /\ r.channel.partner_state = ch.partner_state
<1> DEFINE c == set_closed(ch, b)
           d == [c EXCEPT !.update_transaction = "running"]
           ev == [type |-> "ContractSendChannelUpdateTransfer",
                  balance_proof |-> ch.partner_state.balance_proof]
           r == _handle_channel_closed(ch, b, by_us)
<1>1. r \in {TransitionResult(ch, <<>>), TransitionResult(c, <<>>), TransitionResult(d, <<ev>>)}
  BY DEF _handle_channel_closed
<1>2. /\ Quiet(ch, c) /\ c.our_state = ch.our_state /\ c.partner_state = ch.partner_state
      /\ ~ Opened(c)
  BY DEF set_closed, Quiet, SameCommitment, IsChannel, NettingChannelState, Opened,
         TransactionStatus
<1> HIDE DEF c, r
<1>3. Quiet(c, d) /\ d.our_state = c.our_state /\ d.partner_state = c.partner_state /\ ~ Opened(d)
  BY <1>2 DEF Quiet, SameCommitment, IsChannel, NettingChannelState, Opened, TransactionStatus
<1> HIDE DEF d
<1>4. Quiet(ch, d)
  BY <1>2, <1>3, QuietTransitive
<1>5. ev.type \notin MessageTypes /\ ev.balance_proof = ch.partner_state.balance_proof
  BY DEF MessageTypes
<1> HIDE DEF ev
<1>6. QuietStep(ch, TransitionResult(d, <<ev>>))
  BY <1>2, <1>3, <1>4, <1>5, QuietTransaction
<1>7. QuietStep(ch, TransitionResult(c, <<>>))
  BY <1>2, QuietSilent
<1>8. QuietStep(ch, r) /\ r.channel.partner_state = ch.partner_state
  BY <1>1, <1>2, <1>3, <1>6, <1>7, QuietNothing DEF TransitionResult
<1> QED BY <1>8 DEF r

\* The balance proof was updated.
LEMMA ChannelUpdatedStep ==
    ASSUME NEW ch, IsChannel(ch)
    PROVE  LET c == _handle_channel_updated_transfer(ch)
           IN  QuietStep(ch, Silently(c)) /\ c.partner_state = ch.partner_state
<1> DEFINE c == _handle_channel_updated_transfer(ch)
<1>1. Quiet(ch, c) /\ c.our_state = ch.our_state /\ c.partner_state = ch.partner_state
  BY DEF _handle_channel_updated_transfer, Quiet, SameCommitment, IsChannel,
         NettingChannelState, Opened, TransactionStatus
<1> HIDE DEF c
<1>2. QuietStep(ch, Silently(c))
  BY <1>1, QuietSilent DEF Silently
<1> QED BY <1>1, <1>2 DEF c

\* A participant's deposit and its withdraw on chain.
LEMMA DepositWithdrawStep ==
    ASSUME NEW ch, NEW ours, NEW total, IsChannel(ch)
    PROVE  LET c == _handle_channel_deposit(ch, ours, total)
               d == _handle_channel_withdraw(ch, ours, total)
           IN  /\ QuietStep(ch, Silently(c)) /\ c.partner_state.nonce = ch.partner_state.nonce
               /\ QuietStep(ch, Silently(d)) /\ d.partner_state.nonce = ch.partner_state.nonce
<1>1. ASSUME NEW e, IsEndState(e)
      PROVE  LET f == update_contract_balance(e, total)
                 g == onchain_withdraw(e, total)
             IN  /\ f.nonce = e.nonce /\ IsEndState(f) /\ SameCommitment(e, f)
                 /\ g.nonce = e.nonce /\ IsEndState(g) /\ SameCommitment(e, g)
  <2> DEFINE f == update_contract_balance(e, total)
             g == onchain_withdraw(e, total)
  <2>1. f.nonce = e.nonce /\ DOMAIN f = DOMAIN e /\ SameCommitment(e, f)
    BY <1>1 DEF update_contract_balance, IsEndState, NettingChannelEndState, SameCommitment
  <2>2. g.nonce = e.nonce /\ DOMAIN g = DOMAIN e /\ SameCommitment(e, g)
    BY <1>1 DEF onchain_withdraw, IsEndState, NettingChannelEndState, SameCommitment
  <2> HIDE DEF f, g
  <2>3. IsEndState(f) /\ IsEndState(g)
    BY <1>1, <2>1, <2>2, QuietEndState DEF IsEndState
  <2> QED BY <2>1, <2>2, <2>3 DEF f, g
<1> DEFINE f == update_contract_balance(ch.our_state, total)
           g == onchain_withdraw(ch.our_state, total)
           v == update_contract_balance(ch.partner_state, total)
           w == onchain_withdraw(ch.partner_state, total)
           cf == [ch EXCEPT !.our_state = f]
           cg == [ch EXCEPT !.our_state = g]
           cv == [ch EXCEPT !.partner_state = v]
           cw == [ch EXCEPT !.partner_state = w]
           c == _handle_channel_deposit(ch, ours, total)
           d == _handle_channel_withdraw(ch, ours, total)
<1>2. (c = cf \/ c = cv) /\ (d = cg \/ d = cw)
  BY SMTT(20) DEF _handle_channel_deposit, _handle_channel_withdraw
<1> HIDE DEF c, d
<1>3. /\ f.nonce = ch.our_state.nonce /\ IsEndState(f) /\ SameCommitment(ch.our_state, f)
      /\ g.nonce = ch.our_state.nonce /\ IsEndState(g) /\ SameCommitment(ch.our_state, g)
      /\ v.nonce = ch.partner_state.nonce /\ IsEndState(v) /\ SameCommitment(ch.partner_state, v)
      /\ w.nonce = ch.partner_state.nonce /\ IsEndState(w) /\ SameCommitment(ch.partner_state, w)
  BY <1>1 DEF IsChannel
<1> HIDE DEF f, g, v, w
<1>4. /\ Quiet(ch, cf) /\ cf.our_state = f /\ cf.partner_state = ch.partner_state
      /\ Quiet(ch, cg) /\ cg.our_state = g /\ cg.partner_state = ch.partner_state
  BY <1>3, QuietOurs
<1>5. /\ Quiet(ch, cv) /\ cv.our_state = ch.our_state /\ cv.partner_state = v
      /\ Quiet(ch, cw) /\ cw.our_state = ch.our_state /\ cw.partner_state = w
  BY <1>3, QuietPartner, SMTT(20)
<1> HIDE DEF cf, cg, cv, cw
<1>6. /\ QuietStep(ch, Silently(c)) /\ c.partner_state.nonce = ch.partner_state.nonce
      /\ QuietStep(ch, Silently(d)) /\ d.partner_state.nonce = ch.partner_state.nonce
  BY <1>2, <1>3, <1>4, <1>5, QuietSilent, ZenonT(20) DEF Silently
<1> QED BY <1>6 DEF c, d

\* The locks of a participant were unlocked on chain.
LEMMA BatchUnlockStep ==
    ASSUME NEW ch, NEW ours, IsChannel(ch)
    PROVE  LET c == _handle_channel_batch_unlock(ch, ours)
           IN  QuietStep(ch, Silently(c)) /\ c.partner_state.nonce = ch.partner_state.nonce
<1> DEFINE f == [ch.our_state EXCEPT !.onchain_locksroot = LOCKSROOT_OF_NO_LOCKS]
           w == [ch.partner_state EXCEPT !.onchain_locksroot = LOCKSROOT_OF_NO_LOCKS]
           u == IF ours THEN [ch EXCEPT !.our_state.onchain_locksroot = LOCKSROOT_OF_NO_LOCKS]
                ELSE [ch EXCEPT !.partner_state.onchain_locksroot = LOCKSROOT_OF_NO_LOCKS]
           removed == /\ u.our_state.onchain_locksroot = LOCKSROOT_OF_NO_LOCKS
                      /\ u.partner_state.onchain_locksroot = LOCKSROOT_OF_NO_LOCKS
           d == [u EXCEPT !.removed = removed]
           c == _handle_channel_batch_unlock(ch, ours)
<1>1. c = ch \/ c = d
  BY DEF _handle_channel_batch_unlock
<1>2. removed \in BOOLEAN
  OBVIOUS
<1> HIDE DEF c, removed
<1>3. /\ Quiet(ch, u) /\ u.our_state.nonce = ch.our_state.nonce
      /\ u.partner_state.nonce = ch.partner_state.nonce
  BY DEF Quiet, SameCommitment, IsChannel, IsEndState, NettingChannelState,
         NettingChannelEndState, Opened, AllLocks
<1> HIDE DEF u
<1>4. Quiet(u, d) /\ d.our_state = u.our_state /\ d.partner_state = u.partner_state
  BY <1>2, <1>3 DEF Quiet, SameCommitment, IsChannel, NettingChannelState, Opened
<1> HIDE DEF d
<1>5. QuietStep(ch, Silently(d))
  BY <1>3, <1>4, QuietTransitive, QuietSilent DEF Silently
<1>6. QuietStep(ch, Silently(c)) /\ c.partner_state.nonce = ch.partner_state.nonce
  BY <1>1, <1>3, <1>4, <1>5, QuietNothing DEF Silently
<1> QED BY <1>6 DEF c

\* The channel was settled.
LEMMA ChannelSettledStep ==
    ASSUME NEW ch, NEW our_amount, NEW partner_amount, NEW our_locksroot, NEW partner_locksroot,
           IsChannel(ch)
    PROVE  LET r == _handle_channel_settled(ch, our_amount, partner_amount, our_locksroot,
                                            partner_locksroot)
           IN  QuietStep(ch, r) /\ r.channel.partner_state.nonce = ch.partner_state.nonce
<1> DEFINE clear == our_locksroot = LOCKSROOT_OF_NO_LOCKS
                      /\ partner_locksroot = LOCKSROOT_OF_NO_LOCKS
           settles(e, initiator, partner) ==
               clear /\ \E c \in e.initiated_coop_settle :
                           c.total_withdraw_initiator = initiator
                             /\ c.total_withdraw_partner = partner
           ours == settles(ch.our_state, our_amount, partner_amount)
           theirs == settles(ch.partner_state, partner_amount, our_amount)
           s == [ch EXCEPT
               !.settle_transaction = "success",
               !.our_state = IF ours THEN set_coop_settled(@) ELSE @,
               !.partner_state = IF theirs THEN set_coop_settled(@) ELSE @,
               !.our_state.onchain_total_withdraw = IF ours \/ theirs THEN our_amount ELSE @,
               !.partner_state.onchain_total_withdraw =
                   IF ours \/ theirs THEN partner_amount ELSE @]
           c == [s EXCEPT !.removed = TRUE]
           d == [s EXCEPT !.our_state.onchain_locksroot = our_locksroot,
                          !.partner_state.onchain_locksroot = partner_locksroot]
           ev == [type |-> "ContractSendChannelBatchUnlock"]
           r == _handle_channel_settled(ch, our_amount, partner_amount, our_locksroot,
                                        partner_locksroot)
<1>1. r = TransitionResult(c, <<>>) \/ r = TransitionResult(d, <<ev>>)
  BY ZenonT(20) DEF _handle_channel_settled
<1> HIDE DEF r, ours, theirs
<1>2. /\ Quiet(ch, s) /\ s.our_state.nonce = ch.our_state.nonce
      /\ s.partner_state.nonce = ch.partner_state.nonce
  <2>1. /\ DOMAIN s = DOMAIN ch /\ s.settle_transaction = "success"
        /\ s.reveal_timeout = ch.reveal_timeout /\ s.removed = ch.removed
        /\ s.close_transaction = ch.close_transaction
        /\ s.update_transaction = ch.update_transaction
    BY DEF IsChannel, NettingChannelState
  <2>2. /\ s.our_state.nonce = ch.our_state.nonce /\ DOMAIN s.our_state = DOMAIN ch.our_state
        /\ SameCommitment(ch.our_state, s.our_state)
    BY ZenonT(20) DEF IsChannel, IsEndState, NettingChannelState, NettingChannelEndState, SameCommitment,
           set_coop_settled
  <2>3. /\ s.partner_state.nonce = ch.partner_state.nonce
        /\ DOMAIN s.partner_state = DOMAIN ch.partner_state
        /\ SameCommitment(ch.partner_state, s.partner_state)
    BY ZenonT(20) DEF IsChannel, IsEndState, NettingChannelState, NettingChannelEndState, SameCommitment,
           set_coop_settled
  <2> HIDE DEF s
  <2>4. IsEndState(s.our_state) /\ IsEndState(s.partner_state)
    BY <2>2, <2>3, QuietEndState DEF IsChannel, IsEndState
  <2> QED BY <2>1, <2>2, <2>3, <2>4 DEF Quiet, IsChannel, Opened, TransactionStatus
<1> HIDE DEF s
<1>3. Quiet(s, c) /\ c.our_state = s.our_state /\ c.partner_state = s.partner_state
  BY <1>2 DEF Quiet, SameCommitment, IsChannel, NettingChannelState, Opened
<1>4. /\ Quiet(s, d) /\ d.our_state.nonce = s.our_state.nonce
      /\ d.partner_state.nonce = s.partner_state.nonce
  BY <1>2 DEF Quiet, SameCommitment, IsChannel, IsEndState, NettingChannelState,
         NettingChannelEndState, Opened, AllLocks
<1> HIDE DEF c, d
<1>5. Quiet(ch, c) /\ Quiet(ch, d)
  BY <1>2, <1>3, <1>4, QuietTransitive
<1>6. ev.type \notin MessageTypes /\ ev.type \notin HandIns
  BY SMTT(20) DEF MessageTypes, HandIns
<1> HIDE DEF ev
<1>7. QuietStep(ch, TransitionResult(d, <<ev>>))
  BY <1>2, <1>4, <1>5, <1>6, QuietTransaction
<1>8. QuietStep(ch, TransitionResult(c, <<>>))
  BY <1>2, <1>3, <1>5, QuietSilent
<1>9. QuietStep(ch, r) /\ r.channel.partner_state.nonce = ch.partner_state.nonce
  BY <1>1, <1>2, <1>3, <1>4, <1>7, <1>8 DEF TransitionResult
<1> QED BY <1>9, SMTT(20) DEF r

=============================================================================
