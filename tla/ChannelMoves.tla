---------------------------- MODULE ChannelMoves -----------------------------
(***************************************************************************)
(* Every action of a node is a step of one kind, NodeStep: it announces    *)
(* what it does to its own commitment, and its copy of the partner follows *)
(* the partner's messages.  The invariants of ChannelPair that say so.     *)
(***************************************************************************)
EXTENDS ChannelLemmas

\* The history h of a participant in state e ends with what it is committed to
\* now; in every entry a secret has one lock; every message ever sent takes the
\* participant from one entry to the next; the partner's copy v is an entry.
HistoryOf(e, h, messages, v) ==
    /\ DOMAIN h = 0 .. e.nonce
    /\ h[e.nonce] = Committed(e)
    /\ \A k \in 0 .. e.nonce : UniqueLocks(h[k].locks)
    /\ \A m \in messages :
          /\ m.nonce \in 1 .. e.nonce
          /\ Applied(m, h[m.nonce - 1], h[m.nonce])
    /\ v.nonce \in 0 .. e.nonce
    /\ Committed(v) = h[v.nonce]

HistoryInv ==
    \A n \in Node :
        HistoryOf(chan[n].our_state, hist[n], sent[n], chan[Other(n)].partner_state)

\* What was handed in, or is about to be, is the partner's last balance proof,
\* and the channel does not take another one.
HandInInv ==
    \A n \in Node :
        /\ \A tx \in txs[n] :
              tx.type \in HandIns => /\ tx.balance_proof = chan[n].partner_state.balance_proof
                                     /\ ~ Opened(chan[n])
        /\ contract.closer = n \/ contract.balance_proof[Other(n)] # NoBalanceProof
             => /\ contract.balance_proof[Other(n)] = chan[n].partner_state.balance_proof
                /\ ~ Opened(chan[n])

\* A node follows the chain at a distance and has processed every event up to
\* its block.
SyncInv ==
    /\ IsList(log)
    /\ \A n \in Node :
          /\ block[n] <= height - Confirmations
          /\ batch[n] <= height - Confirmations
          /\ pos[n] <= Len(log)
          /\ \A i \in 1 .. Len(log) : log[i].block \in Nat /\ (log[i].block <= block[n] => i <= pos[n])

\* A lock that was registered in time and that its payee does not know to be
\* registered: the payee has yet to process the event.
RevealInv ==
    \A n \in Node : ~ chan[n].removed =>
        \A l \in Unclaimed(chan[n].partner_state) :
            RegisteredInTime(l) =>
                \E i \in 1 .. Len(log) :
                    /\ i > pos[n]
                    /\ log[i].type = "SecretRevealed"
                    /\ log[i].secrethash = l.secrethash
                    /\ log[i].block = revealed[l.secrethash]

-----------------------------------------------------------------------------
(***************************************************************************)
(* Every step of a node.                                                   *)
(***************************************************************************)

\* Node n commits r: whatever it does to its own commitment it announces, its
\* copy of the partner follows the partner's messages, a lock disappears from
\* the copy only when it is paid or has expired, and no lock whose secret is
\* registered becomes unclaimed.
NodeStep(n, r) ==
    LET ch == chan[n]
        v  == chan[n].partner_state
        w  == r.channel.partner_state
    IN  /\ IsChannel(r.channel)
        /\ OurStep(ch.our_state, r.channel.our_state, Messages(r.events))
        /\ ViewStep(v, w, sent[Other(n)])
        /\ Opened(r.channel) => Opened(ch)
        /\ w.balance_proof = v.balance_proof \/ Opened(ch)
        /\ \A ev \in EventSet(r.events) :
              ev.type \in HandIns => ev.balance_proof = w.balance_proof /\ ~ Opened(r.channel)
        /\ ch.removed => r.channel.removed
        /\ \A l \in AllLocks(v) \ AllLocks(w) :
              \/ w.balance_proof.transferred_amount = v.balance_proof.transferred_amount + l.amount
              \/ ~ ch.removed /\ l \in Unclaimed(v) /\ block[n] >= l.expiration + Confirmations
        /\ \A l \in Unclaimed(w) : l \in Unclaimed(v) \/ revealed[l.secrethash] = 0

\* The other node of the other node.
LEMMA OtherNode ==
    ASSUME NEW n \in Node
    PROVE  Other(n) \in Node /\ Other(n) # n /\ Other(Other(n)) = n
BY DEF Node, Other

\* In both participants' states of both nodes, a secret has one lock.
LEMMA UniqueInCopies ==
    ASSUME TypeOK, HistoryInv, NEW n \in Node
    PROVE  /\ IsChannel(chan[n])
           /\ UniqueLocks(AllLocks(chan[n].our_state))
           /\ UniqueLocks(AllLocks(chan[n].partner_state))
<1>1. IsChannel(chan[n])
  BY DEF TypeOK
<1>2. UniqueLocks(AllLocks(chan[n].our_state))
  <2>1. Committed(chan[n].our_state).locks = AllLocks(chan[n].our_state)
    BY DEF Committed
  <2>2. chan[n].our_state.nonce \in 0 .. chan[n].our_state.nonce
    BY <1>1 DEF IsChannel, IsEndState
  <2> QED BY <2>1, <2>2 DEF HistoryInv, HistoryOf
<1>3. UniqueLocks(AllLocks(chan[n].partner_state))
  <2>1. Committed(chan[n].partner_state).locks = AllLocks(chan[n].partner_state)
    BY DEF Committed
  <2>2. /\ chan[n].partner_state.nonce \in 0 .. chan[Other(n)].our_state.nonce
        /\ Committed(chan[n].partner_state) = hist[Other(n)][chan[n].partner_state.nonce]
        /\ \A k \in 0 .. chan[Other(n)].our_state.nonce : UniqueLocks(hist[Other(n)][k].locks)
    BY OtherNode DEF HistoryInv, HistoryOf
  <2> QED BY <2>1, <2>2
<1> QED BY <1>1, <1>2, <1>3

\* The partner's next message starts from the copy.
LEMMA NextMessageApplies ==
    ASSUME TypeOK, HistoryInv, NEW n \in Node, NEW m \in sent[Other(n)],
           m.nonce = chan[n].partner_state.nonce + 1
    PROVE  \E d : Applied(m, Committed(chan[n].partner_state), d)
<1>1. /\ Committed(chan[n].partner_state) = hist[Other(n)][chan[n].partner_state.nonce]
      /\ Applied(m, hist[Other(n)][m.nonce - 1], hist[Other(n)][m.nonce])
  BY OtherNode DEF HistoryInv, HistoryOf
<1>2. m.nonce - 1 = chan[n].partner_state.nonce
  BY DEF TypeOK, IsChannel, IsEndState
<1> QED BY <1>1, <1>2

\* A step that changes neither commitment.
LEMMA QuietNodeStep ==
    ASSUME TypeOK, HistoryInv, NEW n \in Node, NEW r, QuietStep(chan[n], r),
           \/ r.channel.partner_state.nonce = chan[n].partner_state.nonce
           \/ \E m \in sent[Other(n)] :
                 /\ m.type \in WithdrawMessages
                 /\ NextOrSame(chan[n].partner_state, r.channel.partner_state, m),
           chan[n].removed => r.channel.removed
    PROVE  NodeStep(n, r)
<1> DEFINE ch == chan[n]
           c == r.channel
<1>1. /\ IsChannel(ch) /\ UniqueLocks(AllLocks(ch.our_state))
      /\ ch.our_state.nonce \in Nat
  BY UniqueInCopies DEF IsChannel, IsEndState
<1>2. /\ IsChannel(c)
      /\ SameCommitment(ch.our_state, c.our_state)
      /\ SameCommitment(ch.partner_state, c.partner_state)
  BY DEF QuietStep, Quiet
<1>3. /\ Committed(c.our_state) = Committed(ch.our_state)
      /\ Committed(c.partner_state) = Committed(ch.partner_state)
      /\ AllLocks(c.our_state) = AllLocks(ch.our_state)
      /\ AllLocks(c.partner_state) = AllLocks(ch.partner_state)
      /\ Unclaimed(c.partner_state) = Unclaimed(ch.partner_state)
  BY <1>2, CommittedSame
<1>4. OurStep(ch.our_state, c.our_state, Messages(r.events))
  <2>1. IsEndState(c.our_state) /\ UniqueLocks(AllLocks(c.our_state))
    BY <1>1, <1>2, <1>3 DEF IsChannel
  <2>2. c.our_state.nonce >= ch.our_state.nonce /\ c.our_state.nonce \in Nat
    BY <1>2 DEF QuietStep, IsChannel, IsEndState
  <2>3. ASSUME NEW m \in Messages(r.events)
        PROVE  /\ m.type \in WithdrawMessages
               /\ m.nonce \in ch.our_state.nonce + 1 .. c.our_state.nonce
    BY <2>3 DEF QuietStep
  <2>4. ASSUME NEW m \in Messages(r.events)
        PROVE  IsMessage(m)
    BY <1>1, <2>2, <2>3, <2>4 DEF IsMessage, WithdrawMessages, MessageTypes
  <2>5. ASSUME NEW m \in Messages(r.events)
        PROVE  Applied(m, Committed(ch.our_state), Committed(c.our_state))
    BY <1>3, <2>3, <2>5 DEF Applied, WithdrawMessages
  <2> QED BY <1>3, <2>1, <2>2, <2>3, <2>4, <2>5 DEF OurStep
<1>5. ViewStep(ch.partner_state, c.partner_state, sent[Other(n)])
  <2>1. IsEndState(c.partner_state)
    BY <1>2 DEF IsChannel
  <2>2. ASSUME NEW m, m.type \in WithdrawMessages
        PROVE  Applied(m, Committed(ch.partner_state), Committed(c.partner_state))
    BY <1>3, <2>2 DEF Applied, WithdrawMessages
  <2> QED BY <1>3, <2>1, <2>2 DEF ViewStep, NextOrSame
<1>6. c.partner_state.balance_proof = ch.partner_state.balance_proof
  BY <1>2 DEF SameCommitment
<1> QED BY <1>2, <1>3, <1>4, <1>5, <1>6, SMTT(20) DEF NodeStep, QuietStep, Quiet

\* A node that keeps its own state announces nothing.
LEMMA OursUnchanged ==
    ASSUME TypeOK, HistoryInv, NEW n \in Node
    PROVE  OurStep(chan[n].our_state, chan[n].our_state, {})
BY UniqueInCopies DEF OurStep, IsChannel, IsEndState

\* A step that changes the node's own state only.
LEMMA OursNodeStep ==
    ASSUME TypeOK, HistoryInv, NEW n \in Node, NEW r,
           OurStep(chan[n].our_state, r.channel.our_state, Messages(r.events)),
           r.channel = [chan[n] EXCEPT !.our_state = r.channel.our_state],
           EventSet(r.events) = Messages(r.events)
    PROVE  NodeStep(n, r)
<1> DEFINE ch == chan[n]
           f == r.channel.our_state
           c == r.channel
<1>1. IsChannel(ch)
  BY UniqueInCopies
<1>2. IsEndState(f)
  BY DEF OurStep
<1>3. /\ DOMAIN c = DOMAIN ch /\ c.partner_state = ch.partner_state
      /\ c.reveal_timeout = ch.reveal_timeout /\ c.removed = ch.removed
      /\ c.close_transaction = ch.close_transaction
      /\ c.settle_transaction = ch.settle_transaction
      /\ c.update_transaction = ch.update_transaction
  BY <1>1 DEF IsChannel, NettingChannelState
<1>4. IsChannel(c) /\ (Opened(c) => Opened(ch))
  BY <1>1, <1>2, <1>3 DEF IsChannel, Opened
<1>5. ViewStep(ch.partner_state, c.partner_state, sent[Other(n)])
  BY <1>1, <1>3 DEF ViewStep, IsChannel
<1>6. \A ev \in EventSet(r.events) : ev.type \notin HandIns
  BY DEF Messages, MessageTypes, HandIns
<1> QED BY <1>3, <1>4, <1>5, <1>6 DEF NodeStep

\* A step that changes the copy of the partner only.
LEMMA PartnerNodeStep ==
    ASSUME TypeOK, HistoryInv, NEW n \in Node, NEW c, NEW m \in sent[Other(n)],
           ViewStep(chan[n].partner_state, c.partner_state, {m}),
           c = [chan[n] EXCEPT !.partner_state = c.partner_state],
           Opened(chan[n]),
           \A l \in Unclaimed(c.partner_state) :
              l \in Unclaimed(chan[n].partner_state) \/ revealed[l.secrethash] = 0,
           m.type = "LockExpired" =>
              \A l \in AllLocks(chan[n].partner_state) \ AllLocks(c.partner_state) :
                 /\ ~ chan[n].removed /\ l \in Unclaimed(chan[n].partner_state)
                 /\ block[n] >= l.expiration + Confirmations
    PROVE  NodeStep(n, Silently(c))
<1> DEFINE ch == chan[n]
           v == ch.partner_state
           w == c.partner_state
           r == Silently(c)
<1>1. IsChannel(ch) /\ UniqueLocks(AllLocks(v)) /\ IsMessage(m)
  BY UniqueInCopies, OtherNode DEF TypeOK
<1>2. IsEndState(w)
  BY DEF ViewStep
<1>3. /\ DOMAIN c = DOMAIN ch /\ c.our_state = ch.our_state
      /\ c.reveal_timeout = ch.reveal_timeout /\ c.removed = ch.removed
      /\ c.close_transaction = ch.close_transaction
      /\ c.settle_transaction = ch.settle_transaction
      /\ c.update_transaction = ch.update_transaction
  BY <1>1 DEF IsChannel, NettingChannelState
<1>4. IsChannel(c)
  BY <1>1, <1>2, <1>3 DEF IsChannel
<1>5. ViewStep(v, w, sent[Other(n)])
  BY DEF ViewStep
<1>6. r.channel = c /\ EventSet(r.events) = {} /\ Messages(r.events) = {}
  BY NoMessages DEF Silently, TransitionResult
<1>7. OurStep(ch.our_state, c.our_state, {})
  BY <1>3, OursUnchanged
<1>8. ASSUME NEW l \in AllLocks(v) \ AllLocks(w)
      PROVE  \/ w.balance_proof.transferred_amount = v.balance_proof.transferred_amount + l.amount
             \/ ~ ch.removed /\ l \in Unclaimed(v) /\ block[n] >= l.expiration + Confirmations
  <2>1. /\ Committed(v).locks = AllLocks(v) /\ Committed(w).locks = AllLocks(w)
        /\ Committed(v).balance_proof = v.balance_proof
        /\ Committed(w).balance_proof = w.balance_proof
    BY DEF Committed
  <2>2. Applied(m, Committed(v), Committed(w))
    BY <1>8, <2>1 DEF ViewStep
  <2>3. CASE m.type \in WithdrawMessages
    BY <1>8, <2>1, <2>2, <2>3 DEF Applied
  <2>4. CASE m.type = "LockedTransfer"
    <3>1. Committed(w).locks = Committed(v).locks \cup {m.lock}
      BY <2>2, <2>4 DEF Applied
    <3> QED BY <1>8, <2>1, <3>1
  <2>5. CASE m.type = "Unlock"
    <3>1. /\ Committed(w).locks = Committed(v).locks \ LocksFor(Committed(v).locks, m.secrethash)
          /\ Committed(w).balance_proof = m.balance_proof
      BY <2>2, <2>5 DEF Applied
    <3>2. PICK k \in LocksFor(Committed(v).locks, m.secrethash) :
             m.balance_proof.transferred_amount
               = Committed(v).balance_proof.transferred_amount + k.amount
      BY <2>2, <2>5 DEF Applied
    <3>3. l = k
      BY <1>1, <1>8, <2>1, <3>1, <3>2 DEF LocksFor, UniqueLocks
    <3> QED BY <2>1, <3>1, <3>2, <3>3
  <2>6. CASE m.type = "LockExpired"
    BY <1>8, <2>6
  <2> QED BY <1>1, <2>3, <2>4, <2>5, <2>6 DEF IsMessage, MessageTypes, WithdrawMessages
<1> HIDE DEF r
<1>9. NodeStep(n, r)
  BY <1>3, <1>4, <1>5, <1>6, <1>7, <1>8 DEF NodeStep, Opened
<1> QED BY <1>9 DEF r

\* A node that does nothing.
LEMMA IdleNodeStep ==
    ASSUME TypeOK, HistoryInv, NEW n \in Node
    PROVE  NodeStep(n, Silently(chan[n]))
<1>1. IsChannel(chan[n])
  BY UniqueInCopies
<1>2. QuietStep(chan[n], Silently(chan[n])) /\ Silently(chan[n]).channel = chan[n]
  BY <1>1, QuietNothing DEF Silently, TransitionResult
<1> DEFINE r == Silently(chan[n])
<1> HIDE DEF r
<1>3. QuietStep(chan[n], r) /\ r.channel = chan[n]
  BY <1>2 DEF r
<1>4. NodeStep(n, r)
  BY <1>3, QuietNodeStep
<1> QED BY <1>4 DEF r

Moves(n) == \E r : NodeStep(n, r) /\ Commit(n, r)

-----------------------------------------------------------------------------
(***************************************************************************)
(* The actions of a node, one by one.                                      *)
(***************************************************************************)

\* All of a channel but the participants' states.
SameRest(ch, c) ==
    /\ DOMAIN c = DOMAIN ch
    /\ c.reveal_timeout = ch.reveal_timeout /\ c.removed = ch.removed
    /\ c.close_transaction = ch.close_transaction
    /\ c.settle_transaction = ch.settle_transaction
    /\ c.update_transaction = ch.update_transaction

\* Learning a secret, and unlocking at once or not.
LEMMA SecretNodeStep ==
    ASSUME TypeOK, HistoryInv, NEW n \in Node, NEW f, NEW r,
           SameRest(chan[n], r.channel),
           KeepsCommitment(chan[n].our_state, f),
           KeepsCommitment(chan[n].partner_state, r.channel.partner_state),
           OurStep(f, r.channel.our_state, Messages(r.events)),
           EventSet(r.events) = Messages(r.events)
    PROVE  NodeStep(n, r)
<1> DEFINE ch == chan[n]
           c == r.channel
<1>1. IsChannel(ch)
  BY UniqueInCopies
<1>2. IsChannel(c) /\ (Opened(c) => Opened(ch)) /\ c.removed = ch.removed
  BY <1>1 DEF IsChannel, Opened, SameRest, KeepsCommitment, OurStep
<1>3. OurStep(ch.our_state, c.our_state, Messages(r.events))
  BY DEF KeepsCommitment, OurStep
<1>4. ViewStep(ch.partner_state, c.partner_state, sent[Other(n)])
  BY DEF KeepsCommitment, ViewStep
<1>5. /\ AllLocks(c.partner_state) = AllLocks(ch.partner_state)
      /\ c.partner_state.balance_proof = ch.partner_state.balance_proof
  BY DEF KeepsCommitment, Committed
<1>6. \A ev \in EventSet(r.events) : ev.type \notin HandIns
  BY DEF Messages, MessageTypes, HandIns
<1> QED BY <1>2, <1>3, <1>4, <1>5, <1>6 DEF NodeStep, KeepsCommitment

\* Sending a transfer.
LEMMA SendLockedTransferMoves ==
    ASSUME TypeOK, HistoryInv, NEW n \in Node, NEW s \in Secrets, NEW amount \in LockAmounts,
           NEW t \in LockTimeouts, SendLockedTransfer(n, s, amount, t)
    PROVE  Moves(n) /\ UNCHANGED <<syncVars, chainVars>>
<1> DEFINE timeout == IF t = {} THEN 2 * chan[n].reveal_timeout ELSE CHOOSE x \in t : TRUE
           expiration == get_safe_initial_expiration(block[n], timeout)
           lock == [secrethash |-> s, amount |-> amount, expiration |-> expiration]
           r == send_lockedtransfer(chan[n], lock)
<1>1. /\ Commit(n, r) /\ ~ is_lock_pending(chan[n].our_state, s)
      /\ UNCHANGED <<syncVars, chainVars>>
  BY DEF SendLockedTransfer
<1>2. IsChannel(chan[n]) /\ UniqueLocks(AllLocks(chan[n].our_state))
  BY UniqueInCopies
<1>3. timeout \in Int
  <2>1. t \in SUBSET Nat
    BY TimeAssumption
  <2>2. CASE t = {}
    <3>1. timeout = 2 * chan[n].reveal_timeout /\ chan[n].reveal_timeout \in Nat
      BY <1>2, <2>2 DEF IsChannel
    <3> HIDE DEF timeout
    <3> QED BY <3>1
  <2>3. CASE t # {}
    <3>1. timeout \in t
      BY <2>3
    <3> HIDE DEF timeout
    <3> QED BY <2>1, <3>1
  <2> QED BY <2>2, <2>3
<1> HIDE DEF timeout
<1>4. expiration \in Int
  BY <1>3 DEF get_safe_initial_expiration, TypeOK
<1> HIDE DEF expiration
<1>5. lock \in Lock /\ lock.secrethash = s
  BY <1>4 DEF Lock
<1> HIDE DEF lock
<1>6. /\ OurStep(chan[n].our_state, r.channel.our_state, Messages(r.events))
      /\ r.channel = [chan[n] EXCEPT !.our_state = r.channel.our_state]
      /\ EventSet(r.events) = Messages(r.events)
  BY <1>1, <1>2, <1>5, SendLockedTransferStep
<1> HIDE DEF r
<1>7. NodeStep(n, r)
  BY <1>6, OursNodeStep
<1> QED BY <1>1, <1>7 DEF Moves

\* Learning a secret off chain.
LEMMA LearnSecretMoves ==
    ASSUME TypeOK, HistoryInv, NEW n \in Node, NEW s, LearnSecret(n, s)
    PROVE  Moves(n) /\ UNCHANGED <<syncVars, chainVars>>
<1> DEFINE ch == chan[n]
           c == register_offchain_secret(ch, s)
           r == Silently(c)
<1>1. Commit(n, r) /\ UNCHANGED <<syncVars, chainVars>>
  BY DEF LearnSecret
<1>2. IsChannel(ch) /\ UniqueLocks(AllLocks(ch.our_state))
  BY UniqueInCopies
<1>3. /\ SameRest(ch, c)
      /\ c.our_state = register_secret_endstate(ch.our_state, s)
      /\ c.partner_state = register_secret_endstate(ch.partner_state, s)
  BY <1>2 DEF register_offchain_secret, SameRest, IsChannel, NettingChannelState
<1> HIDE DEF c
<1>4. KeepsCommitment(ch.our_state, c.our_state) /\ KeepsCommitment(ch.partner_state, c.partner_state)
  BY <1>2, <1>3, RegisterSecretStep DEF IsChannel
<1>5. r.channel = c /\ Messages(r.events) = {} /\ EventSet(r.events) = {}
  BY NoMessages, SMTT(20) DEF Silently, TransitionResult
<1>6. OurStep(c.our_state, c.our_state, {})
  BY <1>2, <1>4 DEF OurStep, KeepsCommitment, IsEndState, Committed
<1> HIDE DEF r
<1>7. NodeStep(n, r)
  BY <1>3, <1>4, <1>5, <1>6, SecretNodeStep
<1> QED BY <1>1, <1>7 DEF Moves

\* Unlocking.
LEMMA SendUnlockMoves ==
    ASSUME TypeOK, HistoryInv, NEW n \in Node, NEW lock, SendUnlock(n, lock)
    PROVE  Moves(n) /\ UNCHANGED <<syncVars, chainVars>>
<1> DEFINE r == send_unlock(chan[n], lock)
<1>1. /\ Commit(n, r) /\ lock \in AllLocks(chan[n].our_state)
      /\ UNCHANGED <<syncVars, chainVars>>
  BY DEF SendUnlock, CanSendUnlock
<1>2. IsChannel(chan[n]) /\ UniqueLocks(AllLocks(chan[n].our_state))
  BY UniqueInCopies
<1>3. /\ OurStep(chan[n].our_state, r.channel.our_state, Messages(r.events))
      /\ r.channel = [chan[n] EXCEPT !.our_state = r.channel.our_state]
      /\ EventSet(r.events) = Messages(r.events)
  BY <1>1, <1>2, SendUnlockStep
<1> HIDE DEF r
<1>4. NodeStep(n, r)
  BY <1>3, OursNodeStep
<1> QED BY <1>1, <1>4 DEF Moves

\* The user's actions.
LEMMA UserActionMoves ==
    ASSUME TypeOK, HistoryInv, NEW n \in Node, UserAction(n)
    PROVE  Moves(n) /\ UNCHANGED <<syncVars, chainVars>>
<1>1. IsChannel(chan[n])
  BY UniqueInCopies
<1>2. ASSUME NEW r, QuietStep(chan[n], r), r.channel.partner_state = chan[n].partner_state,
             Idle(n), Commit(n, r), UNCHANGED <<syncVars, chainVars>>
      PROVE  Moves(n) /\ UNCHANGED <<syncVars, chainVars>>
  <2>1. NodeStep(n, r)
    BY <1>2, QuietNodeStep DEF Idle
  <2> QED BY <1>2, <2>1 DEF Moves
<1>3. ASSUME NEW total, ActionWithdraw(n, total)
      PROVE  Moves(n) /\ UNCHANGED <<syncVars, chainVars>>
  <2> DEFINE r == _handle_action_withdraw(chan[n], total, block[n])
  <2>1. Idle(n) /\ Commit(n, r) /\ UNCHANGED <<syncVars, chainVars>>
    BY <1>3 DEF ActionWithdraw, Dispatch
  <2>2. QuietStep(chan[n], r) /\ r.channel.partner_state = chan[n].partner_state
    BY <1>1, ActionWithdrawStep
  <2> HIDE DEF r
  <2> QED BY <1>2, <2>1, <2>2
<1>4. ASSUME ActionCoopSettle(n)
      PROVE  Moves(n) /\ UNCHANGED <<syncVars, chainVars>>
  <2> DEFINE r == _handle_action_coop_settle(chan[n], block[n])
  <2>1. Idle(n) /\ Commit(n, r) /\ UNCHANGED <<syncVars, chainVars>>
    BY <1>4 DEF ActionCoopSettle, Dispatch
  <2>2. QuietStep(chan[n], r) /\ r.channel.partner_state = chan[n].partner_state
    BY <1>1, ActionCoopSettleStep
  <2> HIDE DEF r
  <2> QED BY <1>2, <2>1, <2>2
<1>5. ASSUME ActionClose(n)
      PROVE  Moves(n) /\ UNCHANGED <<syncVars, chainVars>>
  <2> DEFINE r == events_for_close(chan[n])
  <2>1. Idle(n) /\ Commit(n, r) /\ UNCHANGED <<syncVars, chainVars>>
    BY <1>5 DEF ActionClose, Dispatch
  <2>2. QuietStep(chan[n], r) /\ r.channel.partner_state = chan[n].partner_state
    BY <1>1, EventsForCloseStep
  <2> HIDE DEF r
  <2> QED BY <1>2, <2>1, <2>2
<1>6. ASSUME NEW t \in RevealTimeouts, ActionSetRevealTimeout(n, t)
      PROVE  Moves(n) /\ UNCHANGED <<syncVars, chainVars>>
  <2> DEFINE c == _handle_action_set_reveal_timeout(chan[n], t)
             r == Silently(c)
  <2>1. Idle(n) /\ Commit(n, r) /\ UNCHANGED <<syncVars, chainVars>>
    BY <1>6 DEF ActionSetRevealTimeout, Dispatch
  <2>2. QuietStep(chan[n], r) /\ c.partner_state = chan[n].partner_state
    BY <1>1, TimeAssumption, SetRevealTimeoutStep
  <2>3. r.channel = c
    BY DEF Silently, TransitionResult
  <2> HIDE DEF r, c
  <2> QED BY <1>2, <2>1, <2>2, <2>3
<1> QED BY <1>3, <1>4, <1>5, <1>6 DEF UserAction

\* The partner's messages.
LEMMA ReceiveMessageMoves ==
    ASSUME TypeOK, HistoryInv, NEW n \in Node, NEW m \in sent[Other(n)], ReceiveMessage(n, m)
    PROVE  Moves(n) /\ UNCHANGED <<syncVars, chainVars>>
<1> DEFINE ch == chan[n]
           v == ch.partner_state
<1>1. IsChannel(ch) /\ UniqueLocks(AllLocks(v)) /\ IsMessage(m)
  BY UniqueInCopies, OtherNode DEF TypeOK
<1>2. ~ ch.removed /\ UNCHANGED <<syncVars, chainVars>>
  BY DEF ReceiveMessage, Idle
<1>3. ASSUME NEW c, NodeStep(n, Silently(c)), Commit(n, Silently(c))
      PROVE  Moves(n)
  BY <1>3 DEF Moves
<1>4. ASSUME ReceiveLockedTransfer(n, m)
      PROVE  Moves(n)
  <2> DEFINE c == handle_receive_lockedtransfer(ch, m)
  <2>1. /\ m.type = "LockedTransfer" /\ revealed[m.lock.secrethash] = 0
        /\ is_valid_lockedtransfer(ch, m) /\ Commit(n, Silently(c))
    BY <1>4, SMTT(20) DEF ReceiveLockedTransfer
  <2>2. m.nonce = v.nonce + 1
    BY <1>1, <2>1, SMTT(20)
       DEF is_valid_lockedtransfer, is_balance_proof_usable_onchain, get_next_nonce, IsMessage
  <2>3. LocksFor(AllLocks(v), m.lock.secrethash) = {}
    <3>1. PICK d : Applied(m, Committed(v), d)
      BY <2>2, NextMessageApplies
    <3>2. Committed(v).locks = AllLocks(v)
      BY DEF Committed
    <3> QED BY <2>1, <3>1, <3>2 DEF Applied
  <2>4. /\ ViewStep(v, c.partner_state, {m})
        /\ c = [ch EXCEPT !.partner_state = c.partner_state]
        /\ Opened(ch)
        /\ Unclaimed(c.partner_state) = Unclaimed(v) \cup {m.lock}
    BY <1>1, <2>1, <2>3, ReceiveLockedTransferStep, ZenonT(20)
  <2> HIDE DEF c
  <2>5. NodeStep(n, Silently(c))
    BY <2>1, <2>4, PartnerNodeStep
  <2> QED BY <1>3, <2>1, <2>5
<1>5. ASSUME ReceiveUnlock(n, m)
      PROVE  Moves(n)
  <2> DEFINE c == handle_unlock(ch, m)
  <2>1. m.type = "Unlock" /\ Commit(n, Silently(c))
    BY <1>5 DEF ReceiveUnlock
  <2>2. \/ c = ch
        \/ /\ ViewStep(v, c.partner_state, {m})
           /\ c = [ch EXCEPT !.partner_state = c.partner_state]
           /\ Opened(ch)
           /\ Unclaimed(c.partner_state) \subseteq Unclaimed(v)
    BY <1>1, <2>1, ReceiveUnlockStep, SMTT(20)
  <2> HIDE DEF c
  <2>3. NodeStep(n, Silently(c))
    BY <2>1, <2>2, PartnerNodeStep, IdleNodeStep
  <2> QED BY <1>3, <2>1, <2>3
<1>6. ASSUME ReceiveLockExpired(n, m)
      PROVE  Moves(n)
  <2> DEFINE b == block[n]
             c == handle_receive_lock_expired(ch, m, b)
  <2>1. m.type = "LockExpired" /\ Commit(n, Silently(c))
    BY <1>6 DEF ReceiveLockExpired
  <2>2. \/ c = ch
        \/ /\ ViewStep(v, c.partner_state, {m})
           /\ c = [ch EXCEPT !.partner_state = c.partner_state]
           /\ Opened(ch)
           /\ Unclaimed(c.partner_state) \subseteq Unclaimed(v)
           /\ \A l \in AllLocks(v) \ AllLocks(c.partner_state) :
                 l \in Unclaimed(v) /\ b >= l.expiration + Confirmations
    BY <1>1, <2>1, ReceiveLockExpiredStep, ZenonT(20)
  <2> HIDE DEF c
  <2>3. NodeStep(n, Silently(c))
    BY <1>2, <2>1, <2>2, PartnerNodeStep, IdleNodeStep
  <2> QED BY <1>3, <2>1, <2>3
<1>7. ASSUME NEW r, m.type \in WithdrawMessages, QuietStep(ch, r),
             NextOrSame(v, r.channel.partner_state, m), Commit(n, r)
      PROVE  Moves(n)
  <2>1. NodeStep(n, r)
    BY <1>2, <1>7, QuietNodeStep
  <2> QED BY <1>7, <2>1 DEF Moves
<1>8. ASSUME ReceiveWithdrawRequest(n, m)
      PROVE  Moves(n)
  <2> DEFINE r == _handle_receive_withdraw_request(ch, m, block[n])
  <2>1. m.type \in WithdrawMessages /\ Commit(n, r)
    BY <1>8 DEF ReceiveWithdrawRequest, Dispatch, WithdrawMessages
  <2>2. QuietStep(ch, r) /\ NextOrSame(v, r.channel.partner_state, m)
    BY <1>1, ReceiveWithdrawRequestStep, SMTT(20)
  <2> HIDE DEF r
  <2> QED BY <1>7, <2>1, <2>2
<1>9. ASSUME ReceiveWithdrawConfirmation(n, m)
      PROVE  Moves(n)
  <2> DEFINE r == _handle_receive_withdraw_confirmation(ch, m, block[n])
  <2>1. m.type \in WithdrawMessages /\ Commit(n, r)
    BY <1>9 DEF ReceiveWithdrawConfirmation, Dispatch, WithdrawMessages
  <2>2. QuietStep(ch, r) /\ NextOrSame(v, r.channel.partner_state, m)
    BY <1>1, ReceiveWithdrawConfirmationStep
  <2> HIDE DEF r
  <2> QED BY <1>7, <2>1, <2>2
<1>10. ASSUME ReceiveWithdrawExpired(n, m)
       PROVE  Moves(n)
  <2> DEFINE r == _handle_receive_withdraw_expired(ch, m, block[n])
  <2>1. m.type \in WithdrawMessages /\ Commit(n, r)
    BY <1>10 DEF ReceiveWithdrawExpired, Dispatch, WithdrawMessages
  <2>2. QuietStep(ch, r) /\ NextOrSame(v, r.channel.partner_state, m)
    BY <1>1, ReceiveWithdrawExpiredStep
  <2> HIDE DEF r
  <2> QED BY <1>7, <2>1, <2>2
<1> QED BY <1>2, <1>4, <1>5, <1>6, <1>8, <1>9, <1>10, SMTT(20) DEF ReceiveMessage

\* After a registration the node has no unclaimed lock that it was in time for.
Claims(r, event) ==
    event.type = "SecretRevealed" =>
        \A l \in Unclaimed(r.channel.partner_state) :
            ~ (l.secrethash = event.secrethash /\ l.expiration >= event.block)

\* A registration of a secret.
LEMMA SecretRevealMoves ==
    ASSUME TypeOK, HistoryInv, NEW n \in Node, NEW event, HandleSecretReveal(n, event)
    PROVE  \E r : NodeStep(n, r) /\ Commit(n, r) /\ Claims(r, event)
<1> DEFINE ch == chan[n]
           s == event.secrethash
           b == event.block
           c == register_onchain_secret(ch, s, b)
<1>1. IsChannel(ch) /\ UniqueLocks(AllLocks(ch.our_state)) /\ UniqueLocks(AllLocks(ch.partner_state))
  BY UniqueInCopies
<1>2. \/ Commit(n, Silently(c))
      \/ \E lock : /\ CanSendUnlock(c, lock, block[n])
                   /\ Commit(n, send_unlock(c, lock))
  BY DEF HandleSecretReveal
<1>3. /\ SameRest(ch, c)
      /\ c.our_state = register_onchain_secret_endstate(ch.our_state, s, b)
      /\ c.partner_state = register_onchain_secret_endstate(ch.partner_state, s, b)
  BY <1>1, SMTT(20) DEF register_onchain_secret, SameRest, IsChannel, NettingChannelState
<1> HIDE DEF c
<1>4. /\ KeepsCommitment(ch.our_state, c.our_state)
      /\ KeepsCommitment(ch.partner_state, c.partner_state)
      /\ \A l \in Unclaimed(c.partner_state) : ~ (l.secrethash = s /\ l.expiration >= b)
  BY <1>1, <1>3, RegisterOnchainSecretStep, SMTT(20) DEF IsChannel
<1>5. UniqueLocks(AllLocks(c.our_state))
  BY <1>1, <1>4, ZenonT(20) DEF KeepsCommitment, Committed
<1>6. IsChannel(c)
  BY <1>1, <1>3, <1>4, ZenonT(20) DEF SameRest, IsChannel, KeepsCommitment
<1>7. CASE Commit(n, Silently(c))
  <2> DEFINE r == Silently(c)
  <2>1. r.channel = c /\ Messages(r.events) = {} /\ EventSet(r.events) = {}
    BY NoMessages DEF Silently, TransitionResult
  <2>2. OurStep(c.our_state, c.our_state, {})
    BY <1>4, <1>5 DEF OurStep, KeepsCommitment, IsEndState
  <2>3. Commit(n, r)
    BY <1>7, SMTT(20)
  <2> HIDE DEF r
  <2>4. NodeStep(n, r)
    BY <1>3, <1>4, <2>1, <2>2, SecretNodeStep, ZenonT(20)
  <2> QED BY <1>4, <2>1, <2>3, <2>4, SMTT(20) DEF Claims
<1>8. ASSUME NEW lock, CanSendUnlock(c, lock, block[n]), Commit(n, send_unlock(c, lock))
      PROVE  \E r : NodeStep(n, r) /\ Commit(n, r) /\ Claims(r, event)
  <2> DEFINE r == send_unlock(c, lock)
  <2>1. /\ OurStep(c.our_state, r.channel.our_state, Messages(r.events))
        /\ r.channel = [c EXCEPT !.our_state = r.channel.our_state]
        /\ EventSet(r.events) = Messages(r.events)
    BY <1>5, <1>6, <1>8, SendUnlockStep DEF CanSendUnlock
  <2>2. Commit(n, r)
    BY <1>8
  <2> HIDE DEF r
  <2>3. SameRest(ch, r.channel) /\ r.channel.partner_state = c.partner_state
    <3> DEFINE f == r.channel.our_state
    <3> HIDE DEF f
    <3>1. r.channel = [c EXCEPT !.our_state = f]
      BY <2>1 DEF f
    <3> QED BY <1>3, <1>6, <3>1 DEF SameRest, IsChannel, NettingChannelState
  <2>4. NodeStep(n, r)
    BY <1>4, <2>1, <2>3, SecretNodeStep, SMTT(20)
  <2> QED BY <1>4, <2>2, <2>3, <2>4 DEF Claims
<1> QED BY <1>2, <1>7, <1>8

\* The events of the contracts.
LEMMA ContractEventMoves ==
    ASSUME TypeOK, HistoryInv, NEW n \in Node, NEW event, ~ chan[n].removed,
           HandleContractEvent(n, event)
    PROVE  \E r : NodeStep(n, r) /\ Commit(n, r) /\ Claims(r, event)
<1> DEFINE ch == chan[n]
           ours == event.participant = n
<1> HIDE DEF ours
<1>1. IsChannel(ch)
  BY UniqueInCopies
<1>2. ASSUME NEW r, QuietStep(ch, r), r.channel.partner_state.nonce = ch.partner_state.nonce,
             Commit(n, r), event.type # "SecretRevealed"
      PROVE  \E x : NodeStep(n, x) /\ Commit(n, x) /\ Claims(x, event)
  <2>1. NodeStep(n, r)
    BY <1>2, QuietNodeStep
  <2> QED BY <1>2, <2>1 DEF Claims
<1>3. ASSUME NEW c, QuietStep(ch, Silently(c)), c.partner_state.nonce = ch.partner_state.nonce,
             Dispatch(n, Silently(c)), event.type # "SecretRevealed"
      PROVE  \E x : NodeStep(n, x) /\ Commit(n, x) /\ Claims(x, event)
  <2> DEFINE r == Silently(c)
  <2>1. QuietStep(ch, r) /\ Commit(n, r)
    BY <1>3 DEF Dispatch
  <2>2. r.channel = c
    BY DEF Silently, TransitionResult
  <2> HIDE DEF r
  <2> QED BY <1>2, <1>3, <2>1, <2>2
<1>4. CASE event.type = "SecretRevealed" /\ HandleSecretReveal(n, event)
  BY <1>4, SecretRevealMoves
<1>5. CASE /\ event.type = "Deposit"
           /\ Dispatch(n, Silently(_handle_channel_deposit(ch, ours, event.total)))
  <2> DEFINE c == _handle_channel_deposit(ch, ours, event.total)
  <2>1. QuietStep(ch, Silently(c)) /\ c.partner_state.nonce = ch.partner_state.nonce
    BY <1>1, DepositWithdrawStep
  <2>2. Dispatch(n, Silently(c)) /\ event.type # "SecretRevealed"
    BY <1>5
  <2> HIDE DEF c
  <2> QED BY <1>3, <2>1, <2>2
<1>6. CASE /\ event.type = "Withdraw"
           /\ Dispatch(n, Silently(_handle_channel_withdraw(ch, ours, event.total)))
  <2> DEFINE c == _handle_channel_withdraw(ch, ours, event.total)
  <2>1. QuietStep(ch, Silently(c)) /\ c.partner_state.nonce = ch.partner_state.nonce
    BY <1>1, DepositWithdrawStep
  <2>2. Dispatch(n, Silently(c)) /\ event.type # "SecretRevealed"
    BY <1>6
  <2> HIDE DEF c
  <2> QED BY <1>3, <2>1, <2>2
<1>7. CASE /\ event.type = "Closed"
           /\ Dispatch(n, _handle_channel_closed(ch, event.block, ours))
  <2> DEFINE r == _handle_channel_closed(ch, event.block, ours)
  <2>1. QuietStep(ch, r) /\ r.channel.partner_state = ch.partner_state
    BY <1>1, ChannelClosedStep
  <2>2. Commit(n, r) /\ event.type # "SecretRevealed"
    BY <1>7 DEF Dispatch
  <2> HIDE DEF r
  <2> QED BY <1>2, <2>1, <2>2
<1>8. CASE /\ event.type = "Updated"
           /\ Dispatch(n, Silently(_handle_channel_updated_transfer(ch)))
  <2> DEFINE c == _handle_channel_updated_transfer(ch)
  <2>1. QuietStep(ch, Silently(c)) /\ c.partner_state = ch.partner_state
    BY <1>1, ChannelUpdatedStep
  <2>2. Dispatch(n, Silently(c)) /\ event.type # "SecretRevealed"
    BY <1>8
  <2> HIDE DEF c
  <2> QED BY <1>3, <2>1, <2>2
<1>9. CASE /\ event.type = "Settled"
           /\ Dispatch(n, _handle_channel_settled(ch, event.amount[n], event.amount[Other(n)],
                              event.locksroot[n], event.locksroot[Other(n)]))
  <2> DEFINE r == _handle_channel_settled(ch, event.amount[n], event.amount[Other(n)],
                              event.locksroot[n], event.locksroot[Other(n)])
  <2>1. QuietStep(ch, r) /\ r.channel.partner_state.nonce = ch.partner_state.nonce
    BY <1>1, ChannelSettledStep
  <2>2. Commit(n, r) /\ event.type # "SecretRevealed"
    BY <1>9, SMTT(20) DEF Dispatch
  <2> HIDE DEF r
  <2> QED BY <1>2, <2>1, <2>2, SMTT(20)
<1>10. CASE /\ event.type = "Unlocked"
            /\ Dispatch(n, Silently(_handle_channel_batch_unlock(ch, ours)))
  <2> DEFINE c == _handle_channel_batch_unlock(ch, ours)
  <2>1. QuietStep(ch, Silently(c)) /\ c.partner_state.nonce = ch.partner_state.nonce
    BY <1>1, BatchUnlockStep
  <2>2. Dispatch(n, Silently(c)) /\ event.type # "SecretRevealed"
    BY <1>10
  <2> HIDE DEF c
  <2> QED BY <1>3, <2>1, <2>2
<1> QED BY <1>4, <1>5, <1>6, <1>7, <1>8, <1>9, <1>10, ZenonT(20) DEF HandleContractEvent, ours

\* Handling a block.
LEMMA HandleBlockMoves ==
    ASSUME TypeOK, HistoryInv, NEW n \in Node, HandleBlock(n)
    PROVE  Moves(n)
<1> DEFINE b == batch[n]
           r == IF chan[n].removed THEN Silently(chan[n]) ELSE _handle_block(chan[n], b)
<1>1. Commit(n, r)
  BY DEF HandleBlock
<1>2. CASE chan[n].removed
  <2>1. r = Silently(chan[n])
    BY <1>2
  <2> HIDE DEF r
  <2> QED BY <1>1, <2>1, IdleNodeStep DEF Moves
<1>3. CASE ~ chan[n].removed
  <2> DEFINE x == _handle_block(chan[n], b)
  <2>1. r = x
    BY <1>3
  <2> HIDE DEF r
  <2>2. QuietStep(chan[n], x) /\ x.channel.partner_state = chan[n].partner_state
    BY UniqueInCopies, HandleBlockStep
  <2> HIDE DEF x
  <2>3. NodeStep(n, x)
    BY <1>3, <2>2, QuietNodeStep
  <2> QED BY <1>1, <2>1, <2>3 DEF Moves
<1> QED BY <1>2, <1>3

\* Expiring a withdraw.
LEMMA ExpireWithdrawMoves ==
    ASSUME TypeOK, HistoryInv, NEW n \in Node, ExpireWithdraw(n)
    PROVE  Moves(n)
<1>1. PICK w : Commit(n, expire_withdraw(chan[n], w))
  BY DEF ExpireWithdraw
<1> DEFINE r == expire_withdraw(chan[n], w)
<1>2. /\ QuietStep(chan[n], r) /\ r.channel.partner_state = chan[n].partner_state
      /\ r.channel.removed = chan[n].removed
  BY UniqueInCopies, ExpireWithdrawStep
<1>3. Commit(n, r)
  BY <1>1
<1> HIDE DEF r
<1>4. NodeStep(n, r)
  BY <1>2, QuietNodeStep
<1> QED BY <1>3, <1>4 DEF Moves

\* Expiring a lock.
LEMMA ExpireLockMoves ==
    ASSUME TypeOK, HistoryInv, NEW n \in Node, ExpireLock(n)
    PROVE  Moves(n)
<1>1. PICK lock \in ExpiredLocks(chan[n], block[n]) : Commit(n, send_lock_expired(chan[n], lock))
  BY DEF ExpireLock
<1> DEFINE r == send_lock_expired(chan[n], lock)
<1>2. /\ lock \in Unclaimed(chan[n].our_state)
      /\ LocksFor(chan[n].our_state.onchain_unlockedlocks, lock.secrethash) = {}
  BY <1>1 DEF ExpiredLocks, Unclaimed, is_lock_expired
<1>3. /\ OurStep(chan[n].our_state, r.channel.our_state, Messages(r.events))
      /\ r.channel = [chan[n] EXCEPT !.our_state = r.channel.our_state]
      /\ EventSet(r.events) = Messages(r.events)
  BY <1>2, UniqueInCopies, SendLockExpiredStep
<1>4. Commit(n, r)
  BY <1>1
<1> HIDE DEF r
<1>5. NodeStep(n, r)
  BY <1>3, OursNodeStep
<1> QED BY <1>4, <1>5 DEF Moves

=============================================================================
