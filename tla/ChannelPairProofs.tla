-------------------------- MODULE ChannelPairProofs --------------------------
(***************************************************************************)
(* Types, the agreement of the two copies of a channel, and the settlement *)
(* of ChannelPair, proved for every value of its constants.                *)
(***************************************************************************)
EXTENDS ChannelMoves

(***************************************************************************)
(* Committing a step.                                                      *)
(***************************************************************************)

NodeTypeOK ==
    /\ DOMAIN chan = Node /\ DOMAIN sent = Node /\ DOMAIN hist = Node /\ DOMAIN txs = Node
    /\ \A n \in Node :
          /\ IsChannel(chan[n])
          /\ \A m \in sent[n] : IsMessage(m)
          /\ \A tx \in txs[n] : tx.type \notin MessageTypes

SyncTypeOK ==
    /\ block \in [Node -> Nat]
    /\ batch \in [Node -> Nat]
    /\ pos \in [Node -> Nat]
    /\ phase \in [Node -> {"idle", "events", "expire"}]

ChainTypeOK ==
    /\ height \in Nat
    /\ revealed \in [Secrets -> Nat]
    /\ DOMAIN contract = {"deposit", "withdrawn", "state", "closer", "closed_block",
                          "balance_proof", "locksroot"}
    /\ DOMAIN contract.balance_proof = Node

\* The three parts of the type invariant.
LEMMA TypeOKParts == TypeOK <=> NodeTypeOK /\ SyncTypeOK /\ ChainTypeOK
BY DEF TypeOK, NodeTypeOK, SyncTypeOK, ChainTypeOK

\* What Commit changes.
LEMMA CommitEffect ==
    ASSUME TypeOK, NEW n \in Node, NEW r, Commit(n, r)
    PROVE  /\ DOMAIN chan' = Node /\ DOMAIN sent' = Node /\ DOMAIN hist' = Node /\ DOMAIN txs' = Node
           /\ chan'[n] = r.channel
           /\ sent'[n] = sent[n] \cup Messages(r.events)
           /\ txs'[n] = txs[n] \cup {ev \in EventSet(r.events) : ev.type \notin MessageTypes}
           /\ DOMAIN hist'[n] = 0 .. r.channel.our_state.nonce
           /\ \A k \in 0 .. r.channel.our_state.nonce :
                 hist'[n][k] = IF k <= chan[n].our_state.nonce THEN hist[n][k]
                               ELSE Committed(r.channel.our_state)
           /\ \A o \in Node \ {n} : /\ chan'[o] = chan[o] /\ sent'[o] = sent[o]
                                    /\ txs'[o] = txs[o] /\ hist'[o] = hist[o]
<1>1. DOMAIN chan = Node /\ DOMAIN sent = Node /\ DOMAIN hist = Node /\ DOMAIN txs = Node
  BY DEF TypeOK
<1>2. DOMAIN chan' = Node /\ chan'[n] = r.channel /\ \A o \in Node \ {n} : chan'[o] = chan[o]
  BY <1>1 DEF Commit
<1>3. /\ DOMAIN sent' = Node /\ sent'[n] = sent[n] \cup Messages(r.events)
      /\ \A o \in Node \ {n} : sent'[o] = sent[o]
  BY <1>1 DEF Commit, Messages
<1>4. /\ DOMAIN txs' = Node
      /\ txs'[n] = txs[n] \cup {ev \in EventSet(r.events) : ev.type \notin MessageTypes}
      /\ \A o \in Node \ {n} : txs'[o] = txs[o]
  BY <1>1 DEF Commit
<1>5. /\ DOMAIN hist' = Node
      /\ hist'[n] = [k \in 0 .. r.channel.our_state.nonce |->
                        IF k <= chan[n].our_state.nonce THEN hist[n][k]
                        ELSE Committed(r.channel.our_state)]
      /\ \A o \in Node \ {n} : hist'[o] = hist[o]
  BY <1>1 DEF Commit
<1> QED BY <1>2, <1>3, <1>4, <1>5

\* A node's step keeps the types of what the nodes own.
LEMMA MovesTypes ==
    ASSUME TypeOK, NEW n \in Node, NEW r, NodeStep(n, r), Commit(n, r)
    PROVE  NodeTypeOK'
<1>1. ASSUME NEW o \in Node
      PROVE  /\ IsChannel(chan'[o])
             /\ \A m \in sent'[o] : IsMessage(m)
             /\ \A tx \in txs'[o] : tx.type \notin MessageTypes
  <2>1. /\ IsChannel(chan[o])
        /\ \A m \in sent[o] : IsMessage(m)
        /\ \A tx \in txs[o] : tx.type \notin MessageTypes
    BY DEF TypeOK
  <2>2. CASE o = n
    BY <2>1, <2>2, CommitEffect DEF NodeStep, OurStep
  <2>3. CASE o # n
    BY <2>1, <2>3, CommitEffect
  <2> QED BY <2>2, <2>3
<1> QED BY <1>1, CommitEffect DEF NodeTypeOK

\* What a node does to its own commitment extends its history.
LEMMA HistoryExtends ==
    ASSUME NEW e, NEW f, NEW v, NEW h, NEW g, NEW old, NEW new,
           e.nonce \in Nat, f.nonce \in Nat, v.nonce \in Nat,
           HistoryOf(e, h, old, v), OurStep(e, f, new),
           DOMAIN g = 0 .. f.nonce,
           \A k \in 0 .. f.nonce : g[k] = IF k <= e.nonce THEN h[k] ELSE Committed(f)
    PROVE  HistoryOf(f, g, old \cup new, v)
<1>1. /\ h[e.nonce] = Committed(e)
      /\ \A k \in 0 .. e.nonce : UniqueLocks(h[k].locks)
      /\ \A m \in old : m.nonce \in 1 .. e.nonce /\ Applied(m, h[m.nonce - 1], h[m.nonce])
      /\ v.nonce \in 0 .. e.nonce
      /\ Committed(v) = h[v.nonce]
  BY DEF HistoryOf
<1>2. f.nonce >= e.nonce /\ (f.nonce = e.nonce => Committed(f) = Committed(e))
  BY DEF OurStep
<1>3. \A k \in 0 .. e.nonce : g[k] = h[k]
  BY <1>2
<1>4. g[f.nonce] = Committed(f)
  <2>1. CASE f.nonce = e.nonce
    BY <1>1, <1>2, <1>3, <2>1
  <2>2. CASE f.nonce # e.nonce
    <3>1. f.nonce \in 0 .. f.nonce /\ ~ (f.nonce <= e.nonce)
      BY <1>2, <2>2
    <3> QED BY <3>1
  <2> QED BY <2>1, <2>2
<1>5. \A k \in 0 .. f.nonce : UniqueLocks(g[k].locks)
  <2>1. UniqueLocks(Committed(f).locks)
    BY DEF OurStep, Committed
  <2> QED BY <1>1, <2>1
<1>6. ASSUME NEW m \in old
      PROVE  m.nonce \in 1 .. f.nonce /\ Applied(m, g[m.nonce - 1], g[m.nonce])
  <2>1. m.nonce \in 0 .. e.nonce /\ m.nonce - 1 \in 0 .. e.nonce /\ m.nonce \in 1 .. f.nonce
    BY <1>1, <1>2
  <2>2. g[m.nonce - 1] = h[m.nonce - 1] /\ g[m.nonce] = h[m.nonce]
    BY <1>3, <2>1
  <2> QED BY <1>1, <2>1, <2>2
<1>7. ASSUME NEW m \in new
      PROVE  m.nonce \in 1 .. f.nonce /\ Applied(m, g[m.nonce - 1], g[m.nonce])
  <2>1. /\ m.nonce \in e.nonce + 1 .. f.nonce
        /\ m.nonce = e.nonce + 1 \/ Committed(f) = Committed(e)
        /\ Applied(m, Committed(e), Committed(f))
    BY DEF OurStep
  <2>2. /\ m.nonce \in 1 .. f.nonce /\ m.nonce \in 0 .. f.nonce
        /\ m.nonce - 1 \in 0 .. f.nonce /\ ~ (m.nonce <= e.nonce)
    BY <2>1
  <2>3. g[m.nonce] = Committed(f)
    BY <2>2
  <2>4. g[m.nonce - 1] = Committed(e)
    <3>1. CASE m.nonce = e.nonce + 1
      <4>1. m.nonce - 1 = e.nonce /\ e.nonce \in 0 .. e.nonce
        BY <3>1
      <4> QED BY <1>1, <1>3, <4>1
    <3>2. CASE m.nonce # e.nonce + 1
      <4>1. ~ (m.nonce - 1 <= e.nonce)
        BY <2>1, <3>2
      <4> QED BY <2>1, <2>2, <3>2, <4>1
    <3> QED BY <3>1, <3>2
  <2> QED BY <2>1, <2>2, <2>3, <2>4
<1>8. v.nonce \in 0 .. f.nonce /\ Committed(v) = g[v.nonce]
  BY <1>1, <1>2, <1>3
<1> QED BY <1>4, <1>5, <1>6, <1>7, <1>8 DEF HistoryOf

\* The copy of a participant moves along its history.
LEMMA HistoryFollowed ==
    ASSUME NEW e, NEW h, NEW messages, NEW v, NEW w, e.nonce \in Nat, v.nonce \in Nat,
           HistoryOf(e, h, messages, v), ViewStep(v, w, messages),
           \A m \in messages : m.type \in MessageTypes
    PROVE  HistoryOf(e, h, messages, w)
<1>1. w.nonce \in 0 .. e.nonce /\ Committed(w) = h[w.nonce]
  <2>1. CASE w.nonce = v.nonce /\ Committed(w) = Committed(v)
    BY <2>1 DEF HistoryOf
  <2>2. CASE \E m \in messages : /\ m.nonce = v.nonce + 1
                                 /\ w.nonce = m.nonce
                                 /\ Applied(m, Committed(v), Committed(w))
    <3>1. PICK m \in messages : /\ m.nonce = v.nonce + 1
                                /\ w.nonce = m.nonce
                                /\ Applied(m, Committed(v), Committed(w))
      BY <2>2
    <3>2. /\ Applied(m, h[m.nonce - 1], h[m.nonce]) /\ m.nonce \in 1 .. e.nonce
          /\ Committed(v) = h[v.nonce]
      BY DEF HistoryOf
    <3>3. m.nonce - 1 = v.nonce /\ m.nonce \in 0 .. e.nonce
      BY <3>1, <3>2
    <3>4. Applied(m, Committed(v), h[m.nonce])
      BY <3>2, <3>3
    <3>5. Committed(w) = h[m.nonce]
      BY <3>1, <3>4, ZenonT(20) DEF Applied, MessageTypes, WithdrawMessages
    <3> QED BY <3>1, <3>3, <3>5
  <2> QED BY <2>1, <2>2 DEF ViewStep
<1> QED BY <1>1 DEF HistoryOf

\* A node's step extends its history, and the copies stay entries of the
\* histories.
LEMMA MovesHistory ==
    ASSUME TypeOK, HistoryInv, NEW n \in Node, NEW r, NodeStep(n, r), Commit(n, r)
    PROVE  HistoryInv'
<1>1. PICK p \in Node : p = Other(n) /\ p # n /\ Other(p) = n
  BY OtherNode
<1>2. /\ IsChannel(chan[n]) /\ IsChannel(chan[p]) /\ IsChannel(r.channel)
      /\ \A m \in sent[p] : m.type \in MessageTypes
  BY DEF TypeOK, NodeStep, IsMessage
<1>3. /\ chan[n].our_state.nonce \in Nat /\ chan[n].partner_state.nonce \in Nat
      /\ chan[p].our_state.nonce \in Nat /\ chan[p].partner_state.nonce \in Nat
      /\ r.channel.our_state.nonce \in Nat
  BY <1>2 DEF IsChannel, IsEndState
<1>4. /\ OurStep(chan[n].our_state, r.channel.our_state, Messages(r.events))
      /\ ViewStep(chan[n].partner_state, r.channel.partner_state, sent[p])
  BY <1>1 DEF NodeStep
<1>5. /\ HistoryOf(chan[n].our_state, hist[n], sent[n], chan[p].partner_state)
      /\ HistoryOf(chan[p].our_state, hist[p], sent[p], chan[n].partner_state)
  BY <1>1 DEF HistoryInv
<1>6. /\ chan'[n] = r.channel /\ chan'[p] = chan[p]
      /\ sent'[n] = sent[n] \cup Messages(r.events) /\ sent'[p] = sent[p]
      /\ DOMAIN hist'[n] = 0 .. r.channel.our_state.nonce
      /\ \A k \in 0 .. r.channel.our_state.nonce :
            hist'[n][k] = IF k <= chan[n].our_state.nonce THEN hist[n][k]
                          ELSE Committed(r.channel.our_state)
      /\ hist'[p] = hist[p]
  BY <1>1, CommitEffect, SMTT(20)
<1>7. HistoryOf(chan'[n].our_state, hist'[n], sent'[n], chan'[p].partner_state)
  BY <1>3, <1>4, <1>5, <1>6, HistoryExtends, SMTT(20)
<1>8. HistoryOf(chan'[p].our_state, hist'[p], sent'[p], chan'[n].partner_state)
  BY <1>2, <1>3, <1>4, <1>5, <1>6, HistoryFollowed
<1>9. \A o \in Node : o = n \/ o = p
  BY <1>1 DEF Node
<1>10. \A o \in Node : HistoryOf(chan'[o].our_state, hist'[o], sent'[o], chan'[Other(o)].partner_state)
  BY <1>1, <1>7, <1>8, <1>9
<1> QED BY <1>10 DEF HistoryInv

-----------------------------------------------------------------------------
(***************************************************************************)
(* The steps of the system.                                                *)
(***************************************************************************)

\* The steps in which a node does something else than follow the chain.
ActsOffChain(n) ==
    \/ Pay(n)
    \/ UserAction(n)
    \/ \E m \in sent[Other(n)] : ReceiveMessage(n, m)

\* They are steps of the node, and leave its position and the chain alone.
LEMMA OffChainMoves ==
    ASSUME TypeOK, HistoryInv, NEW n \in Node, ActsOffChain(n)
    PROVE  Moves(n) /\ UNCHANGED <<syncVars, chainVars>>
<1>1. ASSUME Pay(n)
      PROVE  Moves(n) /\ UNCHANGED <<syncVars, chainVars>>
  BY <1>1, SendLockedTransferMoves, LearnSecretMoves, SendUnlockMoves DEF Pay
<1>2. ASSUME NEW m \in sent[Other(n)], ReceiveMessage(n, m)
      PROVE  Moves(n) /\ UNCHANGED <<syncVars, chainVars>>
  BY <1>2, ReceiveMessageMoves
<1> QED BY <1>1, <1>2, UserActionMoves DEF ActsOffChain

\* Following the chain.
LEMMA SyncMoves ==
    ASSUME TypeOK, HistoryInv, NEW n \in Node, Sync(n)
    PROVE  Moves(n) \/ UNCHANGED <<nodeVars, txs>>
<1>1. ASSUME ReceiveContractEvent(n)
      PROVE  Moves(n) \/ UNCHANGED <<nodeVars, txs>>
  <2>1. CASE chan[n].removed
    BY <1>1, <2>1 DEF ReceiveContractEvent
  <2>2. CASE ~ chan[n].removed
    <3> DEFINE event == log[pos[n] + 1]
    <3>1. HandleContractEvent(n, event)
      BY <1>1, <2>2 DEF ReceiveContractEvent
    <3> HIDE DEF event
    <3> QED BY <2>2, <3>1, ContractEventMoves DEF Moves
  <2> QED BY <2>1, <2>2
<1>2. ASSUME NEW b, StartBatch(n, b)
      PROVE  UNCHANGED <<nodeVars, txs>>
  BY <1>2 DEF StartBatch
<1> QED BY <1>1, <1>2, HandleBlockMoves, ExpireWithdrawMoves, ExpireLockMoves DEF Sync

\* The contracts do not touch the nodes.
LEMMA ChainLeavesNodes ==
    ASSUME ChainStep
    PROVE  UNCHANGED <<nodeVars, syncVars, txs>>
BY ZenonT(20) DEF ChainStep, NewBlock, RegisterSecret, Deposit, MineTransaction, nodeVars, syncVars

\* Every step is one of a node, or leaves what the nodes own.
LEMMA StepsOfNodes ==
    ASSUME TypeOK, HistoryInv, [Next]_vars
    PROVE  (\E n \in Node : Moves(n)) \/ UNCHANGED <<nodeVars, txs>>
<1>1. CASE UNCHANGED vars
  BY <1>1 DEF vars
<1>2. ASSUME NEW n \in Node, ActsOffChain(n)
      PROVE  Moves(n)
  BY <1>2, OffChainMoves
<1>3. ASSUME NEW n \in Node, Sync(n)
      PROVE  Moves(n) \/ UNCHANGED <<nodeVars, txs>>
  BY <1>3, SyncMoves
<1>4. CASE ChainStep
  BY <1>4, ChainLeavesNodes
<1> QED BY <1>1, <1>2, <1>3, <1>4 DEF Next, ActsOffChain

\* The positions of the nodes and the chain keep their types.
LEMMA PositionTypes ==
    ASSUME TypeOK, HistoryInv, [Next]_vars
    PROVE  SyncTypeOK' /\ ChainTypeOK'
<1>1. SyncTypeOK /\ ChainTypeOK
  BY TypeOKParts
<1>2. ASSUME UNCHANGED <<syncVars, chainVars>>
      PROVE  SyncTypeOK' /\ ChainTypeOK'
  BY <1>1, <1>2 DEF SyncTypeOK, ChainTypeOK, syncVars, chainVars
<1>3. ASSUME UNCHANGED syncVars
      PROVE  SyncTypeOK'
  BY <1>1, <1>3 DEF SyncTypeOK, syncVars
<1>4. ASSUME UNCHANGED chainVars
      PROVE  ChainTypeOK'
  BY <1>1, <1>4 DEF ChainTypeOK, chainVars
<1>5. ASSUME NEW n \in Node, Sync(n)
      PROVE  SyncTypeOK' /\ ChainTypeOK'
  <2>1. UNCHANGED chainVars
    BY <1>5 DEF Sync, StartBatch, ReceiveContractEvent, HandleBlock, ExpireWithdraw, ExpireLock
  <2>2. ASSUME NEW b \in block[n] + 1 .. height - Confirmations, StartBatch(n, b)
        PROVE  SyncTypeOK'
    <3>1. b \in Nat
      BY <1>1 DEF SyncTypeOK
    <3> QED BY <1>1, <2>2, <3>1 DEF SyncTypeOK, StartBatch
  <2>3. ASSUME ReceiveContractEvent(n)
        PROVE  SyncTypeOK'
    <3>1. pos' = [pos EXCEPT ![n] = pos[n] + 1] /\ UNCHANGED <<block, batch, phase>>
      BY <2>3 DEF ReceiveContractEvent
    <3> QED BY <1>1, <3>1 DEF SyncTypeOK
  <2>4. \A c, b : PhaseAt(c, b) \in {"idle", "events", "expire"}
    BY DEF PhaseAt
  <2>5. ASSUME HandleBlock(n)
        PROVE  SyncTypeOK'
    <3>1. PICK x \in {"idle", "events", "expire"} : phase' = [phase EXCEPT ![n] = x]
      BY <2>4, <2>5, ZenonT(20) DEF HandleBlock
    <3>2. block' = [block EXCEPT ![n] = batch[n]] /\ UNCHANGED <<batch, pos>>
      BY <2>5 DEF HandleBlock
    <3> QED BY <1>1, <3>1, <3>2 DEF SyncTypeOK
  <2>6. ASSUME ExpireWithdraw(n) \/ ExpireLock(n)
        PROVE  SyncTypeOK'
    <3>1. PICK x \in {"idle", "events", "expire"} : phase' = [phase EXCEPT ![n] = x]
      BY <2>4, <2>6 DEF ExpireWithdraw, ExpireLock
    <3>2. UNCHANGED <<block, batch, pos>>
      BY <2>6 DEF ExpireWithdraw, ExpireLock
    <3> QED BY <1>1, <3>1, <3>2 DEF SyncTypeOK
  <2> QED BY <1>4, <1>5, <2>1, <2>2, <2>3, <2>5, <2>6, SMTT(20) DEF Sync
<1>6. ASSUME ChainStep
      PROVE  SyncTypeOK' /\ ChainTypeOK'
  <2>1. UNCHANGED syncVars
    BY <1>6, ChainLeavesNodes
  <2>2. ASSUME NewBlock
        PROVE  ChainTypeOK'
    BY <1>1, <2>2 DEF NewBlock, ChainTypeOK
  <2>3. ASSUME NEW s \in Secrets, RegisterSecret(s)
        PROVE  ChainTypeOK'
    BY <1>1, <2>3, ZenonT(20) DEF RegisterSecret, ChainTypeOK
  <2>4. ASSUME NEW n \in Node, NEW total, Deposit(n, total)
        PROVE  ChainTypeOK'
    BY <1>1, <2>4 DEF Deposit, ChainTypeOK
  <2>5. ASSUME NEW n \in Node, NEW tx, MineTransaction(n, tx)
        PROVE  ChainTypeOK'
    <3>1. height' = height /\ revealed' = revealed
      BY <2>5 DEF MineTransaction
    <3>2. DOMAIN contract' = DOMAIN contract /\ DOMAIN contract'.balance_proof = Node
      BY <1>1, <2>5, ZenonT(20) DEF MineTransaction, ChainTypeOK, setTotalWithdraw, cooperativeSettle,
             closeChannel, updateNonClosingBalanceProof, settleChannel, unlock
    <3> QED BY <1>1, <3>1, <3>2 DEF ChainTypeOK
  <2> QED BY <1>3, <1>6, <2>1, <2>2, <2>3, <2>4, <2>5 DEF ChainStep
<1>7. ASSUME NEW n \in Node, ActsOffChain(n)
      PROVE  UNCHANGED <<syncVars, chainVars>>
  BY <1>7, OffChainMoves
<1>8. CASE UNCHANGED vars
  BY <1>2, <1>8 DEF vars
<1> QED BY <1>2, <1>5, <1>6, <1>7, <1>8 DEF Next, ActsOffChain

-----------------------------------------------------------------------------
(***************************************************************************)
(* Types and histories.                                                    *)
(***************************************************************************)

\* A new channel is well formed and commits its participants to nothing.
LEMMA NewChannel ==
    ASSUME NEW n \in Node
    PROVE  /\ IsChannel(InitialChannel(n))
           /\ InitialChannel(n).our_state.nonce = 0
           /\ InitialChannel(n).partner_state.nonce = 0
           /\ Committed(InitialChannel(n).our_state)
                = [balance_proof |-> NoBalanceProof, pending_locks |-> <<>>, locks |-> {}]
           /\ Committed(InitialChannel(n).partner_state)
                = Committed(InitialChannel(n).our_state)
           /\ InitialChannel(n).partner_state.balance_proof = NoBalanceProof
           /\ Unclaimed(InitialChannel(n).partner_state) = {}
           /\ Opened(InitialChannel(n))
BY TimeAssumption, ZenonT(20)
   DEF InitialChannel, NettingChannelState, NettingChannelEndState, IsChannel, IsEndState,
       AllLocks, Committed, Unclaimed, Opened, TransactionStatus, NoBalanceProof

\* The initial states.
LEMMA InitHistory == Init => TypeOK /\ HistoryInv
<1> SUFFICES ASSUME Init PROVE TypeOK /\ HistoryInv
  OBVIOUS
<1>1. ASSUME NEW n \in Node
      PROVE  /\ chan[n] = InitialChannel(n) /\ sent[n] = {} /\ txs[n] = {}
             /\ hist[n] = [k \in 0 .. 0 |-> Committed(InitialChannel(n).our_state)]
  BY ZenonT(20) DEF Init
<1>2. NodeTypeOK
  BY <1>1, NewChannel, ZenonT(20) DEF Init, NodeTypeOK
<1>3. SyncTypeOK /\ ChainTypeOK
  BY TimeoutAssumption, ZenonT(20) DEF Init, SyncTypeOK, ChainTypeOK
<1>4. ASSUME NEW n \in Node
      PROVE  HistoryOf(chan[n].our_state, hist[n], sent[n], chan[Other(n)].partner_state)
  <2> DEFINE c == Committed(InitialChannel(n).our_state)
             e == chan[n].our_state
             v == chan[Other(n)].partner_state
  <2>1. e.nonce = 0 /\ Committed(e) = c /\ v.nonce = 0 /\ Committed(v) = c /\ c.locks = {}
    BY <1>1, NewChannel, OtherNode
  <2>2. sent[n] = {} /\ hist[n] = [k \in 0 .. 0 |-> c]
    BY <1>1, ZenonT(20)
  <2> HIDE DEF c, e, v
  <2>3. DOMAIN hist[n] = 0 .. 0 /\ hist[n][0] = c /\ 0 .. 0 = {0}
    BY <2>2
  <2>4. HistoryOf(e, hist[n], sent[n], v)
    BY <2>1, <2>2, <2>3 DEF HistoryOf, UniqueLocks
  <2> QED BY <2>4, SMTT(20) DEF e, v
<1> QED BY <1>2, <1>3, <1>4, TypeOKParts DEF HistoryInv

\* Every step keeps types and histories.
LEMMA NextHistory == TypeOK /\ HistoryInv /\ [Next]_vars => TypeOK' /\ HistoryInv'
<1> SUFFICES ASSUME TypeOK, HistoryInv, [Next]_vars PROVE TypeOK' /\ HistoryInv'
  OBVIOUS
<1>1. SyncTypeOK' /\ ChainTypeOK'
  BY PositionTypes
<1>2. NodeTypeOK' /\ HistoryInv'
  <2>1. ASSUME NEW n \in Node, Moves(n)
        PROVE  NodeTypeOK' /\ HistoryInv'
    BY <2>1, MovesTypes, MovesHistory, SMTT(20) DEF Moves
  <2>2. CASE UNCHANGED <<nodeVars, txs>>
    <3>1. NodeTypeOK
      BY TypeOKParts
    <3> QED BY <2>2, <3>1 DEF nodeVars, NodeTypeOK, HistoryInv
  <2> QED BY <2>1, <2>2, StepsOfNodes
<1>3. TypeOK' <=> NodeTypeOK' /\ SyncTypeOK' /\ ChainTypeOK'
  BY TypeOKParts, PTL
<1> QED BY <1>1, <1>2, <1>3

\* The records keep the fields the code gives them, nonces and blocks stay
\* natural numbers, and a balance proof carries the nonce of its message.
THEOREM Types == Spec => []TypeOK
<1>1. Spec => [](TypeOK /\ HistoryInv)
  BY InitHistory, NextHistory, PTL DEF Spec
<1> QED BY <1>1, PTL

\* Whatever the transport does, a node's copy of its partner is what the partner
\* was committed to when it sent the last message the node accepted: the nonce
\* of a balance proof fixes the whole commitment.
THEOREM CopiesAgree == Spec => []ViewsAgree
<1>1. Spec => [](TypeOK /\ HistoryInv)
  BY InitHistory, NextHistory, PTL DEF Spec
<1>2. TypeOK /\ HistoryInv => ViewsAgree
  <2> SUFFICES ASSUME TypeOK, HistoryInv, NEW n \in Node
               PROVE  /\ chan[Other(n)].partner_state.nonce <= chan[n].our_state.nonce
                      /\ Committed(chan[Other(n)].partner_state)
                           = hist[n][chan[Other(n)].partner_state.nonce]
    BY DEF ViewsAgree
  <2>1. HistoryOf(chan[n].our_state, hist[n], sent[n], chan[Other(n)].partner_state)
    BY SMTT(20) DEF HistoryInv
  <2>2. chan[n].our_state.nonce \in Nat
    BY SMTT(20) DEF TypeOK, IsChannel, IsEndState
  <2> QED BY <2>1, <2>2 DEF HistoryOf
<1> QED BY <1>1, <1>2, PTL

-----------------------------------------------------------------------------
(***************************************************************************)
(* Settlement: what the contract is given.                                 *)
(***************************************************************************)

\* Only the steps of the chain change the chain.
LEMMA NodesLeaveChain ==
    ASSUME TypeOK, HistoryInv, [Next]_vars
    PROVE  ChainStep \/ UNCHANGED chainVars
<1>1. ASSUME NEW n \in Node, Sync(n)
      PROVE  UNCHANGED chainVars
  BY <1>1 DEF Sync, StartBatch, ReceiveContractEvent, HandleBlock, ExpireWithdraw, ExpireLock
<1>2. ASSUME NEW n \in Node, ActsOffChain(n)
      PROVE  UNCHANGED chainVars
  BY <1>2, OffChainMoves
<1>3. CASE UNCHANGED vars
  BY <1>3 DEF vars
<1> QED BY <1>1, <1>2, <1>3, ZenonT(20) DEF Next, ActsOffChain

\* A transaction that closes or updates hands in its balance proof; no other
\* transaction touches what was handed in.
LEMMA MinedHandIn ==
    ASSUME TypeOK, NEW n \in Node, NEW tx \in txs[n], MineTransaction(n, tx)
    PROVE  \/ /\ contract'.closer = contract.closer
              /\ contract'.balance_proof = contract.balance_proof
           \/ /\ tx.type \in HandIns
              /\ contract'.closer \in {contract.closer, n}
              /\ contract'.balance_proof
                   = [contract.balance_proof EXCEPT ![Other(n)] = tx.balance_proof]
BY ZenonT(20) DEF TypeOK, MineTransaction, setTotalWithdraw, cooperativeSettle, closeChannel,
       updateNonClosingBalanceProof, settleChannel, unlock, HandIns

\* Every step keeps the latest balance proof in the transactions and the contract.
LEMMA NextHandIn == TypeOK /\ HistoryInv /\ HandInInv /\ [Next]_vars => HandInInv'
<1> SUFFICES ASSUME TypeOK, HistoryInv, HandInInv, [Next]_vars PROVE HandInInv'
  OBVIOUS
<1>1. ASSUME NEW n \in Node, Moves(n), UNCHANGED chainVars
      PROVE  HandInInv'
  <2>1. PICK r : NodeStep(n, r) /\ Commit(n, r)
    BY <1>1, SMTT(20) DEF Moves
  <2>2. /\ chan'[n] = r.channel
        /\ txs'[n] = txs[n] \cup {ev \in EventSet(r.events) : ev.type \notin MessageTypes}
    BY <2>1, CommitEffect, ZenonT(20)
  <2>3. ASSUME NEW o \in Node, o # n
        PROVE  chan'[o] = chan[o] /\ txs'[o] = txs[o]
    BY <2>1, <2>3, SMTT(20) DEF Commit
  <2>4. /\ Opened(chan'[n]) => Opened(chan[n])
        /\ chan'[n].partner_state.balance_proof = chan[n].partner_state.balance_proof
             \/ Opened(chan[n])
        /\ \A ev \in EventSet(r.events) :
              ev.type \in HandIns => /\ ev.balance_proof = chan'[n].partner_state.balance_proof
                                     /\ ~ Opened(chan'[n])
    BY <2>1, <2>2, ZenonT(20) DEF NodeStep
  <2>5. contract' = contract
    BY <1>1, SMTT(20) DEF chainVars
  <2> QED BY <2>2, <2>3, <2>4, <2>5 DEF HandInInv
<1>2. ASSUME UNCHANGED <<nodeVars, txs, chainVars>>
      PROVE  HandInInv'
  BY <1>2, ZenonT(20) DEF HandInInv, nodeVars, chainVars
<1>3. ASSUME ChainStep
      PROVE  HandInInv'
  <2>1. UNCHANGED <<chan, txs>>
    BY <1>3, ChainLeavesNodes, SMTT(20) DEF nodeVars
  <2>2. ASSUME contract'.closer = contract.closer,
               contract'.balance_proof = contract.balance_proof
        PROVE  HandInInv'
    BY <2>1, <2>2 DEF HandInInv
  <2>3. ASSUME NEW n \in Node, NEW tx \in txs[n], MineTransaction(n, tx)
        PROVE  HandInInv'
    <3>1. ASSUME tx.type \in HandIns, contract'.closer \in {contract.closer, n},
                 contract'.balance_proof
                   = [contract.balance_proof EXCEPT ![Other(n)] = tx.balance_proof]
          PROVE  HandInInv'
      <4>1. /\ tx.balance_proof = chan[n].partner_state.balance_proof
            /\ ~ Opened(chan[n])
        BY <3>1 DEF HandInInv
      <4>2. contract'.balance_proof[Other(n)] = tx.balance_proof
        BY <3>1, OtherNode, SMTT(20) DEF TypeOK
      <4>3. ASSUME NEW o \in Node, o # n
            PROVE  /\ contract'.balance_proof[Other(o)] = contract.balance_proof[Other(o)]
                   /\ contract'.closer = o => contract.closer = o
        <5>1. Other(o) # Other(n) /\ Other(o) \in Node
          BY <4>3, OtherNode
        <5> QED BY <3>1, <4>3, <5>1 DEF TypeOK
      <4> QED BY <2>1, <4>1, <4>2, <4>3 DEF HandInInv
    <3> QED BY <2>2, <2>3, <3>1, MinedHandIn, SMTT(20)
  <2>4. ASSUME NEW n \in Node, NEW total, Deposit(n, total)
        PROVE  HandInInv'
    BY <2>2, <2>4 DEF Deposit, TypeOK
  <2>5. ASSUME NEW s, NewBlock \/ RegisterSecret(s)
        PROVE  HandInInv'
    BY <2>2, <2>5, ZenonT(20) DEF NewBlock, RegisterSecret
  <2> QED BY <1>3, <2>3, <2>4, <2>5 DEF ChainStep
<1> QED BY <1>1, <1>2, <1>3, StepsOfNodes, NodesLeaveChain

\* The balance proof the contract settles on is the last one its holder was
\* given: what events_for_close and handle_channel_closed put into their
\* transactions never falls behind what the channel accepts.
THEOREM LatestIsHandedIn == Spec => []HandedInIsLatest
<1>1. Init => HandInInv
  <2> SUFFICES ASSUME Init, NEW n \in Node
               PROVE  /\ txs[n] = {}
                      /\ contract.closer # n
                      /\ contract.balance_proof[Other(n)] = NoBalanceProof
    BY DEF HandInInv
  <2>1. txs[n] = {}
    BY ZenonT(20) DEF Init
  <2>2. contract.closer = "" /\ n # ""
    BY ZenonT(20) DEF Init, Node
  <2>3. contract.balance_proof = [m \in Node |-> NoBalanceProof]
    BY ZenonT(20) DEF Init
  <2> QED BY <2>1, <2>2, <2>3, OtherNode, ZenonT(20)
<1>2. Spec => [](TypeOK /\ HistoryInv /\ HandInInv)
  BY <1>1, InitHistory, NextHistory, NextHandIn, PTL DEF Spec
<1>3. HandInInv => HandedInIsLatest
  BY ZenonT(20) DEF HandInInv, HandedInIsLatest
<1> QED BY <1>2, <1>3, PTL

=============================================================================
