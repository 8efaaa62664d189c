---------------------------- MODULE ChannelClaims ----------------------------
(***************************************************************************)
(* Claims on public secrets in ChannelPair, proved for every value of its  *)
(* constants.                                                              *)
(***************************************************************************)
EXTENDS ChannelPairProofs

(***************************************************************************)
(* Claims: following the chain.                                            *)
(***************************************************************************)

\* The contracts emit events of the latest block, one at a time.
LEMMA ChainEmits ==
    ASSUME TypeOK, IsList(log), ChainStep
    PROVE  /\ IsList(log') /\ Len(log) \in Nat /\ Len(log') \in Nat
           /\ \A i \in 1 .. Len(log) : log'[i] = log[i]
           /\ \/ log' = log /\ height' >= height
              \/ /\ height' = height
                 /\ Len(log') = Len(log) + 1
                 /\ log'[Len(log) + 1].block = height
<1> DEFINE Goal == /\ IsList(log') /\ Len(log) \in Nat /\ Len(log') \in Nat
                   /\ \A i \in 1 .. Len(log) : log'[i] = log[i]
                   /\ \/ log' = log /\ height' >= height
                      \/ /\ height' = height
                         /\ Len(log') = Len(log) + 1
                         /\ log'[Len(log) + 1].block = height
<1>1. PICK S : log \in Seq(S)
  BY DEF IsList
<1>2. height \in Nat
  BY DEF TypeOK
<1>3. ASSUME log' = log, height' >= height
      PROVE  Goal
  BY <1>1, <1>3
<1>4. ASSUME NEW ev, ev.block = height, Emit(ev), height' = height
      PROVE  Goal
  <2>1. log \in Seq(S \cup {ev})
    BY <1>1
  <2>2. log' = Append(log, ev)
    BY <1>4 DEF Emit
  <2>3. /\ log' \in Seq(S \cup {ev})
        /\ Len(log) \in Nat /\ Len(log') = Len(log) + 1
        /\ \A i \in 1 .. Len(log) : log'[i] = log[i]
        /\ log'[Len(log) + 1] = ev
    BY <2>1, <2>2
  <2>4. IsList(log')
    BY <2>3 DEF IsList
  <2> QED BY <1>4, <2>3, <2>4
<1> HIDE DEF Goal
<1>5. ASSUME NewBlock
      PROVE  Goal
  BY <1>2, <1>3, <1>5 DEF NewBlock
<1>6. ASSUME NEW s, RegisterSecret(s)
      PROVE  Goal
  BY <1>4, <1>6, ZenonT(20) DEF RegisterSecret
<1>7. ASSUME NEW n, NEW total, Deposit(n, total)
      PROVE  Goal
  BY <1>4, <1>7 DEF Deposit
<1>8. ASSUME NEW n, NEW tx, MineTransaction(n, tx)
      PROVE  Goal
  <2>1. height' = height
    BY <1>8 DEF MineTransaction
  <2>2. \E ev : ev.block = height /\ Emit(ev)
    BY <1>8, ZenonT(20) DEF MineTransaction, setTotalWithdraw, cooperativeSettle, closeChannel,
           updateNonClosingBalanceProof, settleChannel, unlock
  <2> QED BY <1>4, <2>1, <2>2
<1>9. Goal
  BY <1>5, <1>6, <1>7, <1>8 DEF ChainStep
<1> QED BY <1>9 DEF Goal

\* A node is never ahead of the confirmed blocks, and its block never ahead of
\* the events it processed.
LEMMA NextSync == TypeOK /\ HistoryInv /\ SyncInv /\ [Next]_vars => SyncInv'
<1> SUFFICES ASSUME TypeOK, HistoryInv, SyncInv, [Next]_vars PROVE SyncInv'
  OBVIOUS
<1>1. /\ block \in [Node -> Nat] /\ batch \in [Node -> Nat] /\ pos \in [Node -> Nat]
      /\ height \in Nat /\ Confirmations \in Nat \ {0}
  BY TimeoutAssumption DEF TypeOK
<1>2. Len(log) \in Nat
  BY DEF SyncInv, IsList
<1>3. ASSUME UNCHANGED <<syncVars, chainVars>>
      PROVE  SyncInv'
  BY <1>3 DEF SyncInv, syncVars, chainVars
<1>4. ASSUME NEW n \in Node, Sync(n)
      PROVE  SyncInv'
  <2>1. log' = log /\ height' = height
    BY <1>4 DEF Sync, StartBatch, ReceiveContractEvent, HandleBlock, ExpireWithdraw, ExpireLock,
           chainVars
  <2>2. ASSUME NEW b \in block[n] + 1 .. height - Confirmations, StartBatch(n, b)
        PROVE  SyncInv'
    BY <1>1, <2>1, <2>2 DEF StartBatch, SyncInv
  <2>3. ASSUME ReceiveContractEvent(n)
        PROVE  SyncInv'
    <3>1. pos[n] + 1 <= Len(log)
      BY <1>1, <1>2, <2>3 DEF ReceiveContractEvent, EventsLeft
    <3>2. /\ UNCHANGED <<block, batch>>
          /\ pos' = [pos EXCEPT ![n] = pos[n] + 1]
      BY <2>3 DEF ReceiveContractEvent
    <3>3. \A m \in Node : pos[m] <= pos'[m] /\ pos'[m] <= Len(log) /\ pos'[m] \in Nat
      BY <1>1, <3>1, <3>2 DEF SyncInv
    <3> QED BY <1>1, <1>2, <2>1, <3>2, <3>3, SMTT(20) DEF SyncInv
  <2>4. ASSUME HandleBlock(n)
        PROVE  SyncInv'
    <3>1. /\ block' = [block EXCEPT ![n] = batch[n]]
          /\ UNCHANGED <<batch, pos>>
          /\ EventsLeft(n) = {}
      BY <2>4 DEF HandleBlock
    <3>2. \A i \in 1 .. Len(log) : log[i].block <= batch[n] => i <= pos[n]
      BY <1>1, <1>2, <3>1 DEF EventsLeft
    <3> QED BY <1>1, <2>1, <3>1, <3>2 DEF SyncInv
  <2>5. ASSUME ExpireWithdraw(n) \/ ExpireLock(n)
        PROVE  SyncInv'
    <3>1. UNCHANGED <<block, batch, pos>>
      BY <2>5 DEF ExpireWithdraw, ExpireLock
    <3> QED BY <2>1, <3>1 DEF SyncInv
  <2> QED BY <1>4, <2>2, <2>3, <2>4, <2>5, SMTT(20) DEF Sync
<1>5. ASSUME ChainStep
      PROVE  SyncInv'
  <2>1. UNCHANGED <<block, batch, pos>>
    BY <1>5, ChainLeavesNodes DEF syncVars
  <2>2. /\ IsList(log') /\ Len(log') \in Nat
        /\ \A i \in 1 .. Len(log) : log'[i] = log[i]
        /\ \/ log' = log /\ height' >= height
           \/ /\ height' = height
              /\ Len(log') = Len(log) + 1
              /\ log'[Len(log) + 1].block = height
    BY <1>5, ChainEmits DEF SyncInv
  <2>3. height' \in Nat /\ height' >= height
    <3>1. ChainTypeOK'
      BY PositionTypes
    <3> QED BY <1>1, <2>2, <3>1 DEF ChainTypeOK
  <2>4. \A n \in Node : /\ block[n] <= height' - Confirmations
                        /\ batch[n] <= height' - Confirmations
                        /\ pos[n] <= Len(log')
    BY <1>1, <1>2, <2>2, <2>3 DEF SyncInv
  <2>5. ASSUME NEW n \in Node, NEW i \in 1 .. Len(log')
        PROVE  log'[i].block \in Nat /\ (log'[i].block <= block[n] => i <= pos[n])
    <3>1. CASE i \in 1 .. Len(log)
      BY <2>2, <3>1 DEF SyncInv
    <3>2. CASE i \notin 1 .. Len(log)
      <4>1. log'[i].block = height
        BY <1>2, <2>2, <3>2
      <4>2. block[n] < height
        BY <1>1 DEF SyncInv
      <4> QED BY <1>1, <4>1, <4>2
    <3> QED BY <3>1, <3>2
  <2> QED BY <2>1, <2>2, <2>4, <2>5 DEF SyncInv
<1>6. ASSUME NEW n \in Node, ActsOffChain(n)
      PROVE  UNCHANGED <<syncVars, chainVars>>
  BY <1>6, OffChainMoves
<1>7. CASE UNCHANGED vars
  BY <1>3, <1>7 DEF vars
<1> QED BY <1>3, <1>4, <1>5, <1>6, <1>7 DEF Next, ActsOffChain

\* The event of a registration in time that node n has yet to process.
Ahead(n, l) ==
    \E i \in 1 .. Len(log) :
        /\ i > pos[n]
        /\ log[i].type = "SecretRevealed"
        /\ log[i].secrethash = l.secrethash
        /\ log[i].block = revealed[l.secrethash]

\* RevealInv for one node.
Awaits(n) ==
    ~ chan[n].removed =>
        \A l \in Unclaimed(chan[n].partner_state) : RegisteredInTime(l) => Ahead(n, l)

\* A step of a node that neither processes an event nor is one of the chain.
LEMMA MovesReveal ==
    ASSUME TypeOK, RevealInv, NEW n \in Node, Moves(n), UNCHANGED <<pos, chainVars>>
    PROVE  RevealInv'
<1>1. PICK r : NodeStep(n, r) /\ Commit(n, r)
  BY SMTT(20) DEF Moves
<1>2. chan'[n] = r.channel /\ \A o \in Node : o # n => chan'[o] = chan[o]
  BY <1>1, CommitEffect, ZenonT(20) DEF Commit
<1>3. /\ chan[n].removed => chan'[n].removed
      /\ \A l \in Unclaimed(chan'[n].partner_state) :
            l \in Unclaimed(chan[n].partner_state) \/ revealed[l.secrethash] = 0
  BY <1>1, <1>2 DEF NodeStep
<1>4. UNCHANGED <<pos, log, revealed>>
  BY DEF chainVars
<1> QED BY <1>2, <1>3, <1>4 DEF RevealInv, RegisteredInTime

\* Processing an event claims the locks it is about.
LEMMA EventReveal ==
    ASSUME TypeOK, HistoryInv, RevealInv, NEW n \in Node, ReceiveContractEvent(n)
    PROVE  RevealInv'
<1>1. UNCHANGED <<log, revealed>> /\ pos' = [pos EXCEPT ![n] = pos[n] + 1] /\ pos \in [Node -> Nat]
  BY DEF ReceiveContractEvent, chainVars, TypeOK
<1>2. \A o \in Node : Awaits(o)
  BY DEF RevealInv, Awaits, Ahead
<1>3. ASSUME NEW o \in Node, o # n, chan'[o] = chan[o]
      PROVE  Awaits(o)'
  BY <1>1, <1>2, <1>3 DEF Awaits, Ahead, RegisteredInTime
<1>4. CASE chan[n].removed
  <2>1. chan' = chan
    BY <1>4 DEF ReceiveContractEvent, nodeVars
  <2>2. \A o \in Node : Awaits(o)'
    BY <1>3, <1>4, <2>1 DEF Awaits
  <2> QED BY <2>2 DEF RevealInv, Awaits, Ahead
<1>5. CASE ~ chan[n].removed
  <2> DEFINE event == log[pos[n] + 1]
  <2>1. HandleContractEvent(n, event)
    BY <1>5 DEF ReceiveContractEvent
  <2>2. PICK r : NodeStep(n, r) /\ Commit(n, r) /\ Claims(r, event)
    <3> HIDE DEF event
    <3> QED BY <1>5, <2>1, ContractEventMoves, SMTT(20)
  <2>3. chan'[n] = r.channel /\ \A o \in Node : o # n => chan'[o] = chan[o]
    BY <2>2, CommitEffect, ZenonT(20) DEF Commit
  <2>4. \A l \in Unclaimed(chan'[n].partner_state) :
           l \in Unclaimed(chan[n].partner_state) \/ revealed[l.secrethash] = 0
    BY <2>2, <2>3 DEF NodeStep
  <2>5. ASSUME NEW l \in Unclaimed(chan'[n].partner_state), RegisteredInTime(l)
        PROVE  Ahead(n, l)'
    <3>1. l \in Unclaimed(chan[n].partner_state)
      BY <2>4, <2>5 DEF RegisteredInTime
    <3>2. PICK i \in 1 .. Len(log) : /\ i > pos[n]
                                     /\ log[i].type = "SecretRevealed"
                                     /\ log[i].secrethash = l.secrethash
                                     /\ log[i].block = revealed[l.secrethash]
      BY <1>2, <1>5, <2>5, <3>1, SMTT(20) DEF Awaits, Ahead
    <3>3. /\ l.expiration \in Int
          /\ revealed[l.secrethash] \in Nat
      BY <3>1 DEF TypeOK, IsChannel, IsEndState, Unclaimed, AllLocks, Lock
    <3>4. i # pos[n] + 1
      <4> SUFFICES ASSUME i = pos[n] + 1 PROVE FALSE
        OBVIOUS
      <4>1. /\ event.type = "SecretRevealed" /\ event.secrethash = l.secrethash
            /\ event.block = revealed[l.secrethash]
        BY <3>2
      <4>2. ~ (l.secrethash = event.secrethash /\ l.expiration >= event.block)
        BY <2>2, <2>3, <2>5, <4>1 DEF Claims
      <4> QED BY <2>5, <3>3, <4>1, <4>2 DEF RegisteredInTime
    <3>5. i > pos'[n]
      BY <1>1, <3>2, <3>4
    <3> QED BY <1>1, <3>2, <3>5 DEF Ahead
  <2>6. Awaits(n)'
    BY <1>1, <2>5 DEF Awaits, RegisteredInTime
  <2>7. \A o \in Node : Awaits(o)'
    BY <1>3, <2>3, <2>6
  <2> QED BY <2>7 DEF RevealInv, Awaits, Ahead
<1> QED BY <1>4, <1>5, SMTT(20)

\* A registration emits its event; nothing else registers a secret.
LEMMA ChainReveal ==
    ASSUME TypeOK, SyncInv, RevealInv, ChainStep
    PROVE  RevealInv'
<1>1. UNCHANGED <<chan, pos>> /\ pos \in [Node -> Nat]
  BY ChainLeavesNodes DEF nodeVars, syncVars, TypeOK
<1>2. /\ Len(log) \in Nat /\ Len(log') \in Nat /\ Len(log') >= Len(log)
      /\ \A i \in 1 .. Len(log) : log'[i] = log[i]
  BY ChainEmits DEF SyncInv
<1>3. \A o \in Node : Awaits(o)
  BY DEF RevealInv, Awaits, Ahead
<1>4. ASSUME revealed' = revealed
      PROVE  RevealInv'
  <2>1. ASSUME NEW n \in Node, NEW l, Ahead(n, l)
        PROVE  Ahead(n, l)'
    BY <1>1, <1>2, <1>4, <2>1 DEF Ahead
  <2>2. \A n \in Node : Awaits(n)'
    BY <1>1, <1>3, <1>4, <2>1 DEF Awaits, RegisteredInTime
  <2> QED BY <2>2 DEF RevealInv, Awaits, Ahead
<1>5. ASSUME NEW s \in Secrets, RegisterSecret(s)
      PROVE  RevealInv'
  <2> DEFINE ev == [type |-> "SecretRevealed", block |-> height, participant |-> "",
                    secrethash |-> s]
  <2>1. revealed' = [revealed EXCEPT ![s] = height] /\ revealed \in [Secrets -> Nat]
    BY <1>5, ZenonT(20) DEF RegisterSecret, TypeOK
  <2>2. log' = Append(log, ev)
    BY <1>5, ZenonT(20) DEF RegisterSecret, Emit
  <2>3. ev.type = "SecretRevealed" /\ ev.secrethash = s /\ ev.block = height
    OBVIOUS
  <2> HIDE DEF ev
  <2>4. Len(log') = Len(log) + 1 /\ log'[Len(log) + 1] = ev
    <3>1. PICK S : log \in Seq(S)
      BY DEF SyncInv, IsList
    <3>2. log \in Seq(S \cup {ev})
      BY <3>1
    <3> QED BY <2>2, <3>2
  <2>5. ASSUME NEW n \in Node, NEW l, l.secrethash = s
        PROVE  Ahead(n, l)'
    <3>1. Len(log) + 1 \in 1 .. Len(log') /\ Len(log) + 1 > pos'[n]
      <4>1. pos[n] <= Len(log) /\ pos'[n] = pos[n] /\ pos[n] \in Nat
        BY <1>1 DEF SyncInv
      <4> QED BY <1>2, <2>4, <4>1
    <3>2. /\ log'[Len(log) + 1].type = "SecretRevealed"
          /\ log'[Len(log) + 1].secrethash = l.secrethash
          /\ log'[Len(log) + 1].block = revealed'[l.secrethash]
      BY <2>1, <2>4, <2>5, <2>3
    <3> QED BY <3>1, <3>2 DEF Ahead
  <2>6. ASSUME NEW n \in Node, NEW l, l.secrethash \in Secrets \ {s}
        PROVE  revealed'[l.secrethash] = revealed[l.secrethash] /\ (Ahead(n, l) => Ahead(n, l)')
    <3>1. revealed'[l.secrethash] = revealed[l.secrethash]
      BY <2>1, <2>6, SMTT(20)
    <3> QED BY <1>1, <1>2, <3>1 DEF Ahead
  <2>7. ASSUME NEW n \in Node, NEW l \in Unclaimed(chan[n].partner_state)
        PROVE  l.secrethash \in Secrets
    BY DEF TypeOK, IsChannel, IsEndState, Unclaimed, AllLocks, Lock
  <2>8. \A n \in Node : Awaits(n)'
    BY <1>1, <1>3, <2>5, <2>6, <2>7 DEF Awaits, RegisteredInTime
  <2> QED BY <2>8 DEF RevealInv, Awaits, Ahead
<1>6. revealed' = revealed \/ \E s \in Secrets : RegisterSecret(s)
  BY ZenonT(20) DEF ChainStep, NewBlock, Deposit, MineTransaction
<1> QED BY <1>4, <1>5, <1>6

\* Every step leaves the event of a registration ahead of who waits for it.
LEMMA NextReveal == TypeOK /\ HistoryInv /\ SyncInv /\ RevealInv /\ [Next]_vars => RevealInv'
<1> SUFFICES ASSUME TypeOK, HistoryInv, SyncInv, RevealInv, [Next]_vars PROVE RevealInv'
  OBVIOUS
<1>1. ASSUME UNCHANGED <<nodeVars, pos, chainVars>>
      PROVE  RevealInv'
  BY <1>1 DEF RevealInv, nodeVars, chainVars, RegisteredInTime
<1>2. ASSUME NEW n \in Node, ActsOffChain(n)
      PROVE  RevealInv'
  BY <1>2, OffChainMoves, MovesReveal DEF syncVars
<1>3. ASSUME NEW n \in Node, Sync(n)
      PROVE  RevealInv'
  <2>1. CASE ReceiveContractEvent(n)
    BY <2>1, EventReveal
  <2>2. CASE ~ ReceiveContractEvent(n)
    <3>1. UNCHANGED <<pos, chainVars>>
      BY <1>3, <2>2 DEF Sync, StartBatch, HandleBlock, ExpireWithdraw, ExpireLock
    <3> QED BY <1>1, <1>3, <3>1, SyncMoves, MovesReveal, SMTT(20)
  <2> QED BY <2>1, <2>2
<1>4. CASE UNCHANGED vars
  BY <1>1, <1>4, SMTT(20) DEF vars, syncVars
<1> QED BY <1>2, <1>3, <1>4, ChainReveal DEF Next, ActsOffChain

\* A lock leaves a payee's copy of its payer when it is paid, or when the payee
\* has seen the whole time in which its secret could be registered.
LEMMA ClaimStep ==
    ASSUME TypeOK, HistoryInv, SyncInv, RevealInv, [Next]_vars,
           NEW n \in Node, NEW l \in AllLocks(chan[n].partner_state),
           RegisteredInTime(l), l \notin AllLocks(chan'[n].partner_state)
    PROVE  chan'[n].partner_state.balance_proof.transferred_amount
             = chan[n].partner_state.balance_proof.transferred_amount + l.amount
<1>1. chan' # chan
  OBVIOUS
<1>2. PICK m \in Node : Moves(m)
  BY <1>1, StepsOfNodes DEF nodeVars
<1>3. PICK r : NodeStep(m, r) /\ Commit(m, r)
  BY <1>2, SMTT(20) DEF Moves
<1>4. chan'[m] = r.channel /\ \A o \in Node : o # m => chan'[o] = chan[o]
  BY <1>3, CommitEffect, ZenonT(20) DEF Commit
<1>5. m = n
  BY <1>4, SMTT(20)
<1>6. \/ chan'[n].partner_state.balance_proof.transferred_amount
           = chan[n].partner_state.balance_proof.transferred_amount + l.amount
      \/ /\ ~ chan[n].removed
         /\ l \in Unclaimed(chan[n].partner_state)
         /\ block[n] >= l.expiration + Confirmations
  BY <1>3, <1>4, <1>5, ZenonT(20) DEF NodeStep
<1>7. ASSUME ~ chan[n].removed, l \in Unclaimed(chan[n].partner_state)
      PROVE  block[n] < l.expiration + Confirmations
  <2>1. PICK i \in 1 .. Len(log) : i > pos[n] /\ log[i].block = revealed[l.secrethash]
    BY <1>7 DEF RevealInv
  <2>2. log[i].block \in Nat /\ ~ (log[i].block <= block[n])
    BY <2>1, SMTT(20) DEF SyncInv, TypeOK, IsList
  <2>3. /\ l.expiration \in Int /\ block[n] \in Nat /\ Confirmations \in Nat
        /\ revealed[l.secrethash] <= l.expiration
    BY TimeoutAssumption, SMTT(20) DEF TypeOK, IsChannel, IsEndState, Lock, RegisteredInTime
  <2> QED BY <2>1, <2>2, <2>3
<1>8. l.expiration \in Int /\ block[n] \in Nat /\ Confirmations \in Nat
  BY TimeoutAssumption DEF TypeOK, IsChannel, IsEndState, Lock
<1> QED BY <1>6, <1>7, <1>8

\* A payee's claim on a lock whose secret was registered in time ends only with
\* a payment, wherever payee, payer and chain are with respect to each other:
\* is_valid_lock_expired waits until the payee has processed every block in
\* which the registration could be.
THEOREM ClaimsEndWithPayment == Spec => ClaimEndsWithPayment
<1>1. Init => SyncInv /\ RevealInv
  <2> SUFFICES ASSUME Init PROVE SyncInv /\ RevealInv
    BY SMTT(20)
  <2>1. /\ log = <<>> /\ height = Confirmations /\ Confirmations \in Nat
        /\ \A n \in Node : /\ block[n] = 0 /\ batch[n] = 0 /\ pos[n] = 0
                           /\ Unclaimed(chan[n].partner_state) = {}
    BY NewChannel, TimeoutAssumption, ZenonT(20) DEF Init
  <2>2. Len(log) = 0
    BY <2>1
  <2>3. SyncInv
    BY <2>1, <2>2, ShortLists DEF SyncInv
  <2> QED BY <2>1, <2>3 DEF RevealInv
<1> DEFINE IInv == TypeOK /\ HistoryInv /\ SyncInv /\ RevealInv
           Ends == \A n \in Node : \A l \in AllLocks(chan[n].partner_state) :
                      RegisteredInTime(l) /\ l \notin AllLocks(chan'[n].partner_state)
                        => chan'[n].partner_state.balance_proof.transferred_amount
                             = chan[n].partner_state.balance_proof.transferred_amount + l.amount
<1>2. Init => IInv
  BY <1>1, InitHistory
<1>3. IInv /\ [Next]_vars => IInv'
  BY NextHistory, NextSync, NextReveal
<1>4. IInv /\ [Next]_vars => [Ends]_vars
  <2> SUFFICES ASSUME IInv, [Next]_vars PROVE Ends
    OBVIOUS
  <2> QED BY ClaimStep
<1> HIDE DEF IInv, Ends
<1>5. Spec => [][Ends]_vars
  BY <1>2, <1>3, <1>4, PTL DEF Spec
<1> QED BY <1>5 DEF ClaimEndsWithPayment, Ends

=============================================================================
