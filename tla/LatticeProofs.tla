---------------------------- MODULE LatticeProofs ---------------------------
(***************************************************************************)
(* Proofs about the block lattice and about merging two of its ledgers,    *)
(* for every set of accounts and ledgers and every value of the limits.    *)
(***************************************************************************)
EXTENDS Partitions, SumsProofs, SequenceTheorems

-----------------------------------------------------------------------------
(* The inductive invariant.  Its parts say what the safety properties of Lattice take
   for granted: how an account's cached fields follow from its chain, what every signed
   block says about the block before it, and how a ledger's indices follow from its
   chains. *)

(* s is a run of a's blocks, numbered from 1, each on top of the one before. *)
Linked(s, a) ==
    \A i \in 1 .. Len(s) :
        /\ s[i].account = a
        /\ s[i].nonce = i
        /\ i = 1 => s[i].previous = NoHash
        /\ i > 1 => s[i].previous = s[i-1].hash

(* The cached balance and nonce are those of the last block of a linked chain
   of signed blocks. *)
AccountInv ==
    \A a \in Accounts :
        /\ nonce[a] = Len(chain[a])
        /\ balance[a] = TipBalance(chain[a])
        /\ Linked(chain[a], a)
        /\ \A i \in 1 .. Len(chain[a]) : chain[a][i] \in net

(* A hash is <<account, tick>>: it names one signed block. *)
HashInv ==
    /\ \A b \in net : /\ b.hash[1] = b.account
                      /\ b.hash[2] <= vclock[b.account]
    /\ \A b, c \in net : b.hash = c.hash => b = c

(* Block b, signed on top of block p, moves p's balance by what it says. *)
BalanceStep(N, p, b) ==
    \/ /\ b.kind = "Send"
       /\ b.amount > 0
       /\ b.destination \in Accounts \ {b.account}
       /\ p.balance = b.balance + b.amount
    \/ /\ b.kind = "Receive"
       /\ \E s \in N : /\ s.kind = "Send"
                       /\ s.hash = b.source_hash
                       /\ s.destination = b.account
                       /\ b.balance = p.balance + s.amount

(* Block b continues the balance of its predecessor, one nonce lower, or
   starts a chain: with an Open, or with a Receive of an account that was
   never opened. *)
Sound(N, b) ==
    /\ b.balance <= MaxPerAccount
    /\ b.kind = "Receive" => b.source_hash \in Hashes
    /\ b.kind = "Open" => b.nonce = 1 /\ b.amount = b.balance
    /\ b.previous = NoHash => b.nonce = 1 /\ b.kind # "Send"
    /\ b.previous # NoHash =>
         \E p \in N : /\ p.hash = b.previous
                      /\ p.account = b.account
                      /\ b.nonce = p.nonce + 1
                      /\ p.nonce > 0
                      /\ BalanceStep(N, p, b)

BlockInv == \A b \in net : Sound(net, b)

(* An account that never rolls back has signed nothing but its chain. *)
HonestInv ==
    \A b \in net : b.account \notin Forkers =>
        /\ b.nonce \in 1 .. Len(chain[b.account])
        /\ chain[b.account][b.nonce] = b

(* A ledger's chains are linked runs of signed blocks that start with an Open. *)
LedgerInv ==
    \A l \in Ledgers, a \in Accounts :
        /\ Linked(chains[l][a], a)
        /\ \A i \in 1 .. Len(chains[l][a]) : chains[l][a][i] \in net
        /\ chains[l][a] # <<>> => chains[l][a][1].kind = "Open"

(* Block b of some chain of c is the Send that the index entry s is about. *)
SendOf(c, s) ==
    \E d \in Accounts : \E k \in 1 .. Len(c[d]) :
        /\ c[d][k].kind = "Send"
        /\ c[d][k].hash = s.hash
        /\ c[d][k].destination = s.destination
        /\ c[d][k].amount = s.amount

(* send_index holds Sends of the chains; consumed_sends holds what the Receives
   of the chains name, all of it in send_index. *)
IndexInv ==
    \A l \in Ledgers :
        /\ \A s \in send_index[l] : SendOf(chains[l], s)
        /\ \A h \in consumed_sends[l] : \E s \in send_index[l] : s.hash = h
        /\ \A a \in Accounts : \A i \in 1 .. Len(chains[l][a]) :
             chains[l][a][i].kind = "Receive" =>
               /\ chains[l][a][i].source_hash \in consumed_sends[l]
               /\ \E s \in send_index[l] :
                    /\ s.hash = chains[l][a][i].source_hash
                    /\ s.destination = a

(* No two Receives of a ledger name the same Send. *)
ReceiveInv ==
    \A l \in Ledgers, a, c \in Accounts :
      \A i \in 1 .. Len(chains[l][a]), j \in 1 .. Len(chains[l][c]) :
        /\ chains[l][a][i].kind = "Receive"
        /\ chains[l][c][j].kind = "Receive"
        /\ chains[l][a][i].source_hash = chains[l][c][j].source_hash
        => a = c /\ i = j

(* The inductive invariant. *)
IndInv ==
    /\ TypeOK
    /\ AccountInv
    /\ HashInv
    /\ BlockInv
    /\ HonestInv
    /\ LedgerInv
    /\ IndexInv
    /\ ReceiveInv
    /\ SharedHistory

-----------------------------------------------------------------------------
(* What IndInv does not need and the sums and Convergence do. *)

FiniteInv == IsFiniteSet(net) /\ \A l \in Ledgers : IsFiniteSet(send_index[l])

(* Every accepted Send is in send_index. *)
SendsIndexed ==
    \A l \in Ledgers, a \in Accounts : \A i \in 1 .. Len(chains[l][a]) :
        chains[l][a][i].kind = "Send" =>
          \E s \in send_index[l] : s.hash = chains[l][a][i].hash

(* A Send is consumed by an accepted Receive only. *)
ConsumedReceived ==
    \A l \in Ledgers : \A h \in consumed_sends[l] :
        \E a \in Accounts : \E i \in 1 .. Len(chains[l][a]) :
          chains[l][a][i].kind = "Receive" /\ chains[l][a][i].source_hash = h

(* total_supply is what the first blocks of the chains, all of them Opens, say. *)
FirstBlocks(l) == {chains[l][a][1] : a \in {c \in Accounts : chains[l][c] # <<>>}}

SupplyInv ==
    \A l \in Ledgers :
        total_supply[l] = SumOver([b \in FirstBlocks(l) |-> b.amount], FirstBlocks(l))

RefersTo(b, p) ==
    \/ p.hash = b.previous
    \/ b.kind = "Receive" /\ p.hash = b.source_hash

(* The blocks that blocks refer to have been signed before them: among any of
   the signed blocks is one that refers to none of the others. *)
Grounded ==
    /\ \A b \in net : b.kind = "Receive" => \E s \in net : s.hash = b.source_hash
    /\ \A S \in SUBSET net : S # {} => \E b \in S : \A p \in S : ~RefersTo(b, p)

BooksInv ==
    /\ FiniteInv
    /\ SendsIndexed
    /\ ConsumedReceived
    /\ SupplyInv
    /\ Conservation
    /\ Grounded

(* An account that never rolls back remembers the Send of every Receive on its chain,
   and has received none of them twice. *)
Receives(s, i) == i \in 1 .. Len(s) /\ s[i].kind = "Receive"

RememberInv ==
    \A a \in Accounts \ Forkers :
        /\ \A i : Receives(chain[a], i) => chain[a][i].source_hash \in consumed_sources[a]
        /\ \A i, j : /\ Receives(chain[a], i) /\ Receives(chain[a], j)
                     /\ chain[a][i].source_hash = chain[a][j].source_hash
                     => i = j

-----------------------------------------------------------------------------
(* What most steps need of the bounds; the others are cited where they count. *)
LEMMA Bounds == Forkers \subseteq Accounts /\ MaxBlocks \in Nat
  BY AccountChainAssumption

USE BlocksAssumption, Bounds

-----------------------------------------------------------------------------
(* Chains of blocks. *)

(* The last block of a chain. *)
LEMMA TipFacts ==
  ASSUME NEW s \in Seq(Block), s # <<>>
  PROVE  /\ Len(s) \in Nat /\ Len(s) > 0
         /\ Last(s) = s[Len(s)]
         /\ Last(s) \in Block
         /\ TipHash(s) = Last(s).hash
         /\ TipHash(s) \in Hashes
         /\ TipBalance(s) = Last(s).balance
<1>1. Len(s) \in Nat /\ Len(s) > 0 /\ Last(s) = s[Len(s)]
  BY DEF Last
<1>2. Last(s) \in Block
  BY <1>1
<1>3. Last(s).hash \in Hashes
  BY <1>2 DEF Block
<1>4. QED
  BY <1>1, <1>2, <1>3 DEF TipHash, TipBalance

(* A chain after a push. *)
LEMMA PushFacts ==
  ASSUME NEW s \in Seq(Block), NEW b \in Block
  PROVE  /\ Append(s, b) \in Seq(Block)
         /\ Append(s, b) # <<>>
         /\ Len(Append(s, b)) = Len(s) + 1
         /\ Append(s, b)[Len(s) + 1] = b
         /\ \A i \in 1 .. Len(s) : Append(s, b)[i] = s[i]
         /\ Last(Append(s, b)) = b
         /\ TipBalance(Append(s, b)) = b.balance
<1>1. /\ Append(s, b) \in Seq(Block)
      /\ Append(s, b) # <<>>
      /\ Len(Append(s, b)) = Len(s) + 1
      /\ Append(s, b)[Len(s) + 1] = b
      /\ \A i \in 1 .. Len(s) : Append(s, b)[i] = s[i]
  BY AppendProperties
<1>2. Last(Append(s, b)) = b
  BY <1>1 DEF Last
<1>3. QED
  BY <1>1, <1>2 DEF TipBalance

(* A pushed block that continues a linked chain leaves it linked. *)
LEMMA LinkedAppend ==
  ASSUME NEW s \in Seq(Block), NEW a, NEW b \in Block, Linked(s, a),
         b.account = a, b.nonce = Len(s) + 1, b.previous = TipHash(s)
  PROVE  Linked(Append(s, b), a)
<1> DEFINE t == Append(s, b)
<1>1. /\ Len(s) \in Nat /\ Len(t) = Len(s) + 1 /\ t[Len(s) + 1] = b
      /\ \A i \in 1 .. Len(s) : t[i] = s[i]
  OBVIOUS
<1> HIDE DEF t
<1>2. ASSUME NEW i \in 1 .. Len(s)
      PROVE  /\ t[i].account = a
             /\ t[i].nonce = i
             /\ i = 1 => t[i].previous = NoHash
             /\ i > 1 => t[i].previous = t[i-1].hash
  <2>1. i > 1 => i - 1 \in 1 .. Len(s)
    BY <1>1
  <2>2. QED
    BY <1>1, <2>1 DEF Linked
<1>3. Len(s) + 1 = 1 => b.previous = NoHash
  BY <1>1 DEF TipHash
<1>4. Len(s) + 1 > 1 => b.previous = t[Len(s)].hash
  <2> SUFFICES ASSUME Len(s) > 0 PROVE b.previous = t[Len(s)].hash
    BY <1>1
  <2>1. s # <<>> /\ Len(s) \in 1 .. Len(s)
    BY <1>1
  <2>2. QED
    BY <2>1, <1>1, TipFacts
<1>5. \A i \in 1 .. Len(t) : i \in 1 .. Len(s) \/ i = Len(s) + 1
  BY <1>1
<1>6. QED
  BY <1>1, <1>2, <1>3, <1>4, <1>5 DEF Linked, t

(* The first blocks of a linked chain are linked. *)
LEMMA LinkedPrefix ==
  ASSUME NEW s \in Seq(Block), NEW a, Linked(s, a), NEW k \in 0 .. Len(s),
         NEW t, t = SubSeq(s, 1, k)
  PROVE  /\ t \in Seq(Block)
         /\ Len(t) = k
         /\ \A i \in 1 .. k : t[i] = s[i]
         /\ Linked(t, a)
<1>1. Len(s) \in Nat /\ k \in Nat /\ k <= Len(s)
  OBVIOUS
<1>2. /\ t \in Seq(Block)
      /\ Len(t) = IF 1 <= k THEN k - 1 + 1 ELSE 0
      /\ \A i \in 1 .. k - 1 + 1 : t[i] = s[1 + i - 1]
  <2>1. \A i \in 1 .. k : s[i] \in Block
    BY <1>1
  <2> QED
    BY <1>1, <2>1, SubSeqProperties
<1>3. Len(t) = k
  <2> DEFINE m == Len(t)
  <2>1. m = IF 1 <= k THEN k - 1 + 1 ELSE 0
    BY <1>2
  <2> HIDE DEF m
  <2>2. m = k
    BY <1>1, <2>1
  <2> QED
    BY <2>2 DEF m
<1>4. ASSUME NEW i \in 1 .. k PROVE t[i] = s[i]
  <2>1. i \in 1 .. k - 1 + 1 /\ 1 + i - 1 = i
    BY <1>1
  <2> QED
    BY <1>2, <2>1
<1>5. ASSUME NEW i \in 1 .. k
      PROVE  /\ t[i].account = a
             /\ t[i].nonce = i
             /\ i = 1 => t[i].previous = NoHash
             /\ i > 1 => t[i].previous = t[i-1].hash
  <2>1. i \in 1 .. Len(s) /\ (i > 1 => i - 1 \in 1 .. k)
    BY <1>1
  <2> QED
    BY <1>4, <2>1 DEF Linked
<1> QED
  BY <1>2, <1>3, <1>4, <1>5 DEF Linked

(* A block that is sound among some blocks is sound among more. *)
LEMMA SoundMono ==
  ASSUME NEW N, NEW M, N \subseteq M, NEW b, Sound(N, b)
  PROVE  Sound(M, b)
  BY DEF Sound, BalanceStep

-----------------------------------------------------------------------------
(* The initial state, before any block is signed. *)
LEMMA InitInv == Init => IndInv
  BY DEF Init, IndInv, TypeOK, AccountTypeOK, LedgerTypeOK, AccountInit, LedgerInit,
         AccountInv, HashInv, BlockInv, HonestInv, LedgerInv, IndexInv, ReceiveInv,
         SharedHistory, SharePast, TipBalance, Linked

-----------------------------------------------------------------------------
(* Signing a block, the common part of open, send and receive. *)

(* What SignBlock and Publish do to the account's chain and to the mesh. *)
LEMMA SignedBlock ==
  ASSUME TypeOK, NEW a \in Accounts, NEW kind \in BlockKinds, NEW amount \in Nat,
         NEW dest \in Accounts \cup {NoAccount}, NEW src \in Hashes \cup {NoHash},
         NEW bal \in 0 .. MaxPerAccount, NEW n \in Nat,
         SignBlock(a, kind, amount, dest, src, bal, n), Publish(a),
         NEW nb, nb = NewBlock(a, kind, amount, dest, src, bal, n)
  PROVE  /\ nb \in Block
         /\ chain' = [chain EXCEPT ![a] = Append(chain[a], nb)]
         /\ chain' \in [Accounts -> Seq(Block)]
         /\ chain'[a] = Append(chain[a], nb)
         /\ net' = net \cup {nb}
<1>1. chain[a] \in Seq(Block) /\ vclock[a] \in Nat /\ chain \in [Accounts -> Seq(Block)]
  BY DEF TypeOK, AccountTypeOK
<1>2. TipHash(chain[a]) \in Hashes \cup {NoHash}
  BY <1>1, TipFacts DEF TipHash
<1>3. nb \in Block
  BY <1>1, <1>2 DEF NewBlock, Block, Hashes
<1>4. chain' = [chain EXCEPT ![a] = Append(chain[a], nb)]
  BY <1>1 DEF SignBlock
<1>5. chain'[a] = Append(chain[a], nb)
  BY <1>1, <1>4
<1>6. net' = net \cup {nb}
  BY <1>1, <1>3, <1>5 DEF Publish, Last
<1>7. QED
  BY <1>1, <1>3, <1>4, <1>5, <1>6

(* A signature that continues the account's chain preserves the invariant. *)
LEMMA Signing ==
  ASSUME IndInv, NEW a \in Accounts, NEW kind \in BlockKinds, NEW amount \in Nat,
         NEW dest \in Accounts \cup {NoAccount}, NEW src \in Hashes \cup {NoHash},
         NEW bal \in 0 .. MaxPerAccount, NEW n \in Nat,
         SignBlock(a, kind, amount, dest, src, bal, n), Publish(a),
         UNCHANGED ledgerVars,
         consumed_sources' \in [Accounts -> SUBSET Hashes],
         n = Len(chain[a]) + 1,
         kind = "Open" => chain[a] = <<>> /\ amount = bal,
         kind = "Receive" => src \in Hashes,
         chain[a] = <<>> => kind # "Send",
         chain[a] # <<>> => BalanceStep(net, Last(chain[a]),
                              NewBlock(a, kind, amount, dest, src, bal, n))
  PROVE  IndInv'
<1>1. PICK nb : nb = NewBlock(a, kind, amount, dest, src, bal, n)
  OBVIOUS
<1>2. /\ nb \in Block
      /\ chain' = [chain EXCEPT ![a] = Append(chain[a], nb)]
      /\ chain' \in [Accounts -> Seq(Block)]
      /\ chain'[a] = Append(chain[a], nb)
      /\ net' = net \cup {nb}
  BY <1>1, SignedBlock DEF IndInv
<1>3. /\ nb.account = a /\ nb.kind = kind /\ nb.amount = amount
      /\ nb.destination = dest /\ nb.source_hash = src /\ nb.balance = bal
      /\ nb.nonce = n /\ nb.hash = <<a, vclock[a] + 1>>
      /\ nb.previous = TipHash(chain[a])
  BY <1>1 DEF NewBlock
<1>4. /\ chain \in [Accounts -> Seq(Block)] /\ vclock \in [Accounts -> 0 .. MaxBlocks]
      /\ balance \in [Accounts -> 0 .. MaxPerAccount] /\ nonce \in [Accounts -> Nat]
      /\ net \subseteq Block
      /\ chain[a] \in Seq(Block)
      /\ Len(chain[a]) \in Nat
  BY DEF IndInv, TypeOK, AccountTypeOK
<1>5. /\ vclock' = [vclock EXCEPT ![a] = vclock[a] + 1]
      /\ balance' = [balance EXCEPT ![a] = bal]
      /\ nonce' = [nonce EXCEPT ![a] = n]
      /\ vclock[a] < MaxBlocks
  <2>1. vclock[a] < Ticks[a] /\ Ticks[a] \in 0 .. MaxBlocks
    BY AccountChainAssumption DEF SignBlock
  <2>2. vclock[a] \in Nat
    BY <1>4
  <2>3. vclock[a] < MaxBlocks
    BY <2>1, <2>2
  <2> QED
    BY <2>3 DEF SignBlock
<1>6. /\ Len(chain'[a]) = Len(chain[a]) + 1
      /\ chain'[a][Len(chain[a]) + 1] = nb
      /\ \A i \in 1 .. Len(chain[a]) : chain'[a][i] = chain[a][i]
      /\ \A c \in Accounts \ {a} : chain'[c] = chain[c]
  BY <1>2, <1>4
<1>7. chain[a] = <<>> => Len(chain[a]) = 0 /\ TipHash(chain[a]) = NoHash
  BY DEF TipHash
<1>8. TypeOK'
  BY <1>2, <1>4, <1>5 DEF IndInv, TypeOK, AccountTypeOK, LedgerTypeOK, ledgerVars
<1>9. AccountInv'
  <2>1. ASSUME NEW c \in Accounts, c # a
        PROVE  /\ nonce'[c] = Len(chain'[c])
               /\ balance'[c] = TipBalance(chain'[c])
               /\ Linked(chain'[c], c)
               /\ \A i \in 1 .. Len(chain'[c]) : chain'[c][i] \in net'
    <3>1. chain'[c] = chain[c] /\ nonce'[c] = nonce[c] /\ balance'[c] = balance[c]
      BY <2>1, <1>4, <1>5, <1>6
    <3>2. QED
      BY <3>1, <1>2 DEF IndInv, AccountInv
  <2>2. nonce'[a] = Len(chain'[a])
    BY <1>4, <1>5, <1>6
  <2>3. balance'[a] = TipBalance(chain'[a])
    <3>1. TipBalance(chain'[a]) = nb.balance
      BY <1>2, <1>4, PushFacts
    <3>2. QED
      BY <3>1, <1>3, <1>4, <1>5
  <2>4. Linked(chain'[a], a)
    <3>1. Linked(chain[a], a)
      BY DEF IndInv, AccountInv
    <3>2. Linked(Append(chain[a], nb), a)
      BY <3>1, <1>2, <1>3, <1>4, LinkedAppend
    <3>3. QED
      BY <3>2, <1>2
  <2>5. \A i \in 1 .. Len(chain'[a]) : chain'[a][i] \in net'
    <3>1. \A i \in 1 .. Len(chain'[a]) : i \in 1 .. Len(chain[a]) \/ i = Len(chain[a]) + 1
      BY <1>4, <1>6
    <3>2. QED
      BY <3>1, <1>2, <1>6 DEF IndInv, AccountInv
  <2>6. QED
    BY <2>1, <2>2, <2>3, <2>4, <2>5 DEF AccountInv
<1>10. HashInv'
  <2>1. nb.hash[1] = a /\ nb.hash[2] = vclock[a] + 1
    BY <1>3
  <2>2. \A b \in net : b.account \in Accounts /\ b.hash[2] \in Nat
    BY <1>4 DEF Block, Hashes
  <2>3. \A b \in net : b.hash[1] = b.account /\ b.hash[2] <= vclock'[b.account]
    <3>1. \A c \in Accounts : /\ vclock[c] \in Nat /\ vclock'[c] \in Nat
                              /\ vclock[c] <= vclock'[c]
      BY <1>4, <1>5
    <3>2. \A b \in net : b.hash[1] = b.account /\ b.hash[2] <= vclock[b.account]
      BY DEF IndInv, HashInv
    <3>3. QED
      BY <2>2, <3>1, <3>2
  <2>4. nb.hash[2] <= vclock'[a]
    BY <2>1, <1>4, <1>5
  <2>5. \A b \in net : b.hash # nb.hash
    <3> SUFFICES ASSUME NEW b \in net, b.hash = nb.hash PROVE FALSE
      OBVIOUS
    <3>1. b.account = a /\ b.hash[2] <= vclock[a]
      BY <2>1 DEF IndInv, HashInv
    <3>2. vclock[a] \in Nat
      BY <1>4
    <3>3. QED
      BY <3>1, <3>2, <2>1
  <2>6. QED
    BY <2>1, <2>3, <2>4, <2>5, <1>2, <1>3 DEF IndInv, HashInv
<1>11. BlockInv'
  <2>1. \A b \in net : Sound(net', b)
    BY <1>2, SoundMono DEF IndInv, BlockInv
  <2>2. Sound(net', nb)
    <3>1. nb.kind = "Open" => nb.nonce = 1 /\ nb.amount = nb.balance
      BY <1>3, <1>7
    <3>2. nb.previous = NoHash => nb.nonce = 1 /\ nb.kind # "Send"
      <4>1. chain[a] # <<>> => TipHash(chain[a]) # NoHash
        BY <1>4, TipFacts
      <4>2. QED
        BY <4>1, <1>3, <1>7
    <3>3. ASSUME nb.previous # NoHash
          PROVE  \E p \in net' : /\ p.hash = nb.previous
                                 /\ p.account = nb.account
                                 /\ nb.nonce = p.nonce + 1
                                 /\ p.nonce > 0
                                 /\ BalanceStep(net', p, nb)
      <4>1. chain[a] # <<>>
        BY <3>3, <1>3, <1>7
      <4>2. PICK p : p = Last(chain[a])
        OBVIOUS
      <4>3. /\ p = chain[a][Len(chain[a])]
            /\ Len(chain[a]) \in 1 .. Len(chain[a])
            /\ p.hash = TipHash(chain[a])
        BY <4>1, <4>2, <1>4, TipFacts
      <4>4. p \in net /\ p.account = a /\ p.nonce = Len(chain[a])
        BY <4>3 DEF IndInv, AccountInv, Linked
      <4>5. BalanceStep(net', p, nb)
        <5>1. BalanceStep(net, p, nb)
          BY <4>1, <4>2, <1>1
        <5>2. QED
          BY <5>1, <1>2 DEF BalanceStep
      <4>6. QED
        <5>1. p \in net' /\ p.hash = nb.previous /\ p.account = nb.account
          BY <4>3, <4>4, <1>2, <1>3
        <5>2. nb.nonce = p.nonce + 1 /\ p.nonce > 0
          BY <4>3, <4>4, <1>3, <1>4
        <5>3. QED
          BY <5>1, <5>2, <4>5
    <3>4. nb.balance <= MaxPerAccount
      BY <1>3
    <3>5. nb.kind = "Receive" => nb.source_hash \in Hashes
      BY <1>3
    <3>6. QED
      BY <3>1, <3>2, <3>3, <3>4, <3>5 DEF Sound
  <2>3. QED
    BY <2>1, <2>2, <1>2 DEF BlockInv
<1>12. HonestInv'
  <2>1. ASSUME NEW b \in net, b.account \notin Forkers
        PROVE  b.nonce \in 1 .. Len(chain'[b.account]) /\ chain'[b.account][b.nonce] = b
    <3>1. b.account \in Accounts
      BY <1>4 DEF Block
    <3>2. b.nonce \in 1 .. Len(chain[b.account]) /\ chain[b.account][b.nonce] = b
      BY <2>1 DEF IndInv, HonestInv
    <3>3. CASE b.account = a
      <4>1. b.nonce \in 1 .. Len(chain[a]) /\ chain[a][b.nonce] = b
        BY <3>2, <3>3
      <4>2. Len(chain[a]) \in Nat /\ Len(chain'[a]) = Len(chain[a]) + 1
        BY <1>4, <1>6
      <4>3. b.nonce \in 1 .. Len(chain'[a])
        BY <4>1, <4>2
      <4>4. chain'[a][b.nonce] = b
        BY <4>1, <1>6
      <4>5. QED
        BY <4>3, <4>4, <3>3
    <3>4. CASE b.account # a
      BY <3>1, <3>2, <3>4, <1>6
    <3>5. QED
      BY <3>3, <3>4
  <2>2. n \in 1 .. Len(chain'[a]) /\ chain'[a][n] = nb
    BY <1>4, <1>6
  <2>3. QED
    BY <2>1, <2>2, <1>2, <1>3 DEF HonestInv
<1>13. LedgerInv' /\ IndexInv' /\ ReceiveInv' /\ SharedHistory'
  <2>1. /\ chains' = chains /\ send_index' = send_index /\ consumed_sends' = consumed_sends
        /\ net \subseteq net'
    BY <1>2 DEF ledgerVars
  <2>2. LedgerInv'
    BY <2>1 DEF IndInv, LedgerInv
  <2>3. IndexInv'
    BY <2>1 DEF IndInv, IndexInv
  <2>4. ReceiveInv'
    BY <2>1 DEF IndInv, ReceiveInv
  <2>5. SharedHistory'
    BY <2>1 DEF IndInv, SharedHistory
  <2>6. QED
    BY <2>2, <2>3, <2>4, <2>5
<1>14. QED
  BY <1>8, <1>9, <1>10, <1>11, <1>12, <1>13 DEF IndInv

-----------------------------------------------------------------------------
(* One lemma per action. *)

LEMMA OpenStep ==
  ASSUME IndInv, NEW a \in Accounts, NEW n \in Nat, OpenAccount(a, n)
  PROVE  IndInv'
<1>1. /\ n \in 0 .. MaxPerAccount
      /\ SignBlock(a, "Open", n, NoAccount, NoHash, n, 1)
      /\ Publish(a) /\ UNCHANGED ledgerVars
      /\ consumed_sources' = consumed_sources
      /\ chain[a] = <<>>
  BY DEF OpenAccount, Open
<1>2. consumed_sources' \in [Accounts -> SUBSET Hashes]
  BY <1>1 DEF IndInv, TypeOK, AccountTypeOK
<1>3. 1 = Len(chain[a]) + 1 /\ n \in Nat /\ "Open" \in BlockKinds
  BY <1>1 DEF BlockKinds
<1>4. QED
  BY <1>1, <1>2, <1>3, Signing

(* What the cached fields say of the chain. *)
LEMMA CachedFields ==
  ASSUME IndInv, NEW a \in Accounts
  PROVE  /\ chain[a] \in Seq(Block)
         /\ balance[a] \in 0 .. MaxPerAccount
         /\ nonce[a] \in Nat
         /\ nonce[a] + 1 = Len(chain[a]) + 1
         /\ chain[a] = <<>> => balance[a] = 0
         /\ chain[a] # <<>> => balance[a] = Last(chain[a]).balance
<1>1. /\ chain[a] \in Seq(Block) /\ balance[a] \in 0 .. MaxPerAccount
      /\ nonce[a] \in Nat
  BY DEF IndInv, TypeOK, AccountTypeOK
<1>2. nonce[a] = Len(chain[a]) /\ balance[a] = TipBalance(chain[a])
  BY DEF IndInv, AccountInv
<1>3. QED
  BY <1>1, <1>2 DEF TipBalance

LEMMA SendStep ==
  ASSUME IndInv, NEW a \in Accounts, NEW d \in Accounts, NEW n \in Nat,
         SendFunds(a, d, n)
  PROVE  IndInv'
<1> DEFINE bal == balance[a] - n
           nb  == NewBlock(a, "Send", n, d, NoHash, bal, nonce[a] + 1)
<1>1. /\ SignBlock(a, "Send", n, d, NoHash, bal, nonce[a] + 1)
      /\ Publish(a) /\ UNCHANGED ledgerVars
      /\ consumed_sources' = consumed_sources
      /\ d # a /\ balance[a] >= n /\ n > 0
  BY DEF SendFunds, Send
<1>2. consumed_sources' \in [Accounts -> SUBSET Hashes]
  BY <1>1 DEF IndInv, TypeOK, AccountTypeOK
<1>3. bal \in 0 .. MaxPerAccount /\ balance[a] = bal + n /\ n \in Nat
  BY <1>1, CachedFields
<1>4. chain[a] # <<>> => BalanceStep(net, Last(chain[a]), nb)
  <2>1. /\ nb.kind = "Send" /\ nb.amount = n /\ nb.destination = d
        /\ nb.account = a /\ nb.balance = bal
    BY DEF NewBlock
  <2>2. QED
    BY <2>1, <1>1, <1>3, CachedFields DEF BalanceStep
<1>5. chain[a] # <<>>
  BY <1>1, CachedFields
<1>6. "Send" \in BlockKinds
  BY DEF BlockKinds
<1> HIDE DEF bal
<1>7. QED
  BY <1>1, <1>2, <1>3, <1>4, <1>5, <1>6, CachedFields, Signing

LEMMA ReceiveStep ==
  ASSUME IndInv, NEW a \in Accounts, NEW b \in net, ReceiveFunds(a, b)
  PROVE  IndInv'
<1> DEFINE bal == balance[a] + b.amount
           nb  == NewBlock(a, "Receive", 0, NoAccount, b.hash, bal, nonce[a] + 1)
<1>1. /\ SignBlock(a, "Receive", 0, NoAccount, b.hash, bal, nonce[a] + 1)
      /\ Publish(a) /\ UNCHANGED ledgerVars
      /\ consumed_sources' = [consumed_sources EXCEPT ![a] = @ \cup {b.hash}]
      /\ b.kind = "Send" /\ b.destination = a
      /\ bal <= MaxPerAccount
  BY DEF ReceiveFunds, Receive
<1>2. b.hash \in Hashes /\ b.amount \in Nat
  BY DEF IndInv, TypeOK, Block
<1>3. consumed_sources' \in [Accounts -> SUBSET Hashes]
  BY <1>1, <1>2 DEF IndInv, TypeOK, AccountTypeOK
<1>4. bal \in 0 .. MaxPerAccount
  BY <1>1, <1>2, CachedFields
<1>5. chain[a] # <<>> => BalanceStep(net, Last(chain[a]), nb)
  <2>1. /\ nb.kind = "Receive" /\ nb.source_hash = b.hash
        /\ nb.account = a /\ nb.balance = balance[a] + b.amount
    BY DEF NewBlock
  <2>2. QED
    BY <2>1, <1>1, CachedFields DEF BalanceStep
<1>6. "Receive" \in BlockKinds /\ "Open" # "Receive" /\ "Send" # "Receive"
  BY DEF BlockKinds
<1>7. /\ nonce[a] + 1 \in Nat /\ nonce[a] + 1 = Len(chain[a]) + 1
      /\ 0 \in Nat /\ NoAccount \in Accounts \cup {NoAccount}
  BY CachedFields
<1> HIDE DEF bal
<1>8. QED
  BY <1>1, <1>2, <1>3, <1>4, <1>5, <1>6, <1>7, Signing

LEMMA RollBackStep ==
  ASSUME IndInv, NEW a \in Accounts, RollBack(a)
  PROVE  IndInv'
<1>1. PICK k, known :
        /\ k \in 0 .. Len(chain[a])
        /\ known \in SUBSET Received(SubSeq(chain[a], 1, k))
        /\ a \in Forkers
        /\ chain' = [chain EXCEPT ![a] = SubSeq(chain[a], 1, k)]
        /\ balance' = [balance EXCEPT ![a] = TipBalance(SubSeq(chain[a], 1, k))]
        /\ nonce' = [nonce EXCEPT ![a] = k]
        /\ consumed_sources' = [consumed_sources EXCEPT ![a] = known]
        /\ vclock' = vclock /\ UNCHANGED ledgerVars /\ net' = net
  BY DEF RollBack, Rewind
<1>2. PICK s, t : s = chain[a] /\ t = SubSeq(s, 1, k)
  OBVIOUS
<1>3. /\ chain \in [Accounts -> Seq(Block)] /\ net \subseteq Block
      /\ balance \in [Accounts -> 0 .. MaxPerAccount] /\ nonce \in [Accounts -> Nat]
      /\ consumed_sources \in [Accounts -> SUBSET Hashes]
      /\ s \in Seq(Block) /\ Len(s) \in Nat /\ k \in 0 .. Len(s) /\ k \in Nat
  <2>1. /\ chain \in [Accounts -> Seq(Block)] /\ net \subseteq Block
        /\ balance \in [Accounts -> 0 .. MaxPerAccount] /\ nonce \in [Accounts -> Nat]
        /\ consumed_sources \in [Accounts -> SUBSET Hashes]
    BY DEF IndInv, TypeOK, AccountTypeOK
  <2>2. s \in Seq(Block) /\ k \in 0 .. Len(s)
    BY <1>1, <1>2, <2>1
  <2>3. Len(s) \in Nat
    BY <2>2
  <2>4. k \in Nat
    BY <2>2, <2>3
  <2> QED
    BY <2>1, <2>2, <2>3, <2>4
<1>4. Linked(s, a) /\ \A i \in 1 .. Len(s) : s[i] \in net
  BY <1>2 DEF IndInv, AccountInv
<1>5. /\ t \in Seq(Block) /\ Len(t) = k /\ Linked(t, a)
      /\ \A i \in 1 .. k : t[i] = s[i]
  <2>1. s \in Seq(Block) /\ k \in 0 .. Len(s) /\ Linked(s, a)
    BY <1>3, <1>4
  <2>2. t = SubSeq(s, 1, k)
    BY <1>2
  <2>3. /\ SubSeq(s, 1, k) \in Seq(Block)
        /\ Len(SubSeq(s, 1, k)) = k
        /\ \A i \in 1 .. k : SubSeq(s, 1, k)[i] = s[i]
        /\ Linked(SubSeq(s, 1, k), a)
    BY <2>1, LinkedPrefix, Zenon
  <2> QED
    BY <2>2, <2>3, Zenon
<1>6. \A i \in 1 .. Len(t) : t[i] \in net
  <2> SUFFICES ASSUME NEW i \in 1 .. k PROVE t[i] \in net
    BY <1>5
  <2>1. i \in 1 .. Len(s)
    BY <1>3
  <2> QED
    BY <1>4, <1>5, <2>1
<1>7. /\ chain' = [chain EXCEPT ![a] = t]
      /\ balance' = [balance EXCEPT ![a] = TipBalance(t)]
      /\ nonce' = [nonce EXCEPT ![a] = k]
      /\ consumed_sources' = [consumed_sources EXCEPT ![a] = known]
      /\ known \subseteq Received(t)
  BY <1>1, <1>2
<1>8. TipBalance(t) \in 0 .. MaxPerAccount
  <2>1. CASE t = <<>>
    BY <2>1 DEF TipBalance
  <2>2. CASE t # <<>>
    <3>1. Last(t) \in net /\ TipBalance(t) = Last(t).balance
      BY <1>5, <1>6, <2>2, TipFacts
    <3>2. Last(t) \in Block /\ Sound(net, Last(t))
      BY <1>3, <3>1 DEF IndInv, BlockInv
    <3> QED
      BY <3>1, <3>2 DEF Block, Sound
  <2> QED
    BY <2>1, <2>2
(* What it remembers are hashes of Sends. *)
<1>9. known \subseteq Hashes
  <2> SUFFICES ASSUME NEW h \in known PROVE h \in Hashes
    OBVIOUS
  <2>1. PICK b \in ToSet(t) : b.kind = "Receive" /\ h = b.source_hash
    BY <1>7 DEF Received
  <2>2. b \in net
    BY <1>6, <2>1 DEF ToSet
  <2>3. Sound(net, b)
    BY <2>2 DEF IndInv, BlockInv
  <2> QED
    BY <2>1, <2>3 DEF Sound
<1>10. /\ chain'[a] = t /\ nonce'[a] = k /\ balance'[a] = TipBalance(t)
       /\ \A c \in Accounts \ {a} : /\ chain'[c] = chain[c]
                                    /\ balance'[c] = balance[c]
                                    /\ nonce'[c] = nonce[c]
  BY <1>3, <1>7
<1>11. TypeOK'
  <2>1. balance' \in [Accounts -> 0 .. MaxPerAccount] /\ nonce' \in [Accounts -> Nat]
    BY <1>3, <1>7, <1>8
  <2>2. chain' \in [Accounts -> Seq(Block)]
    BY <1>3, <1>5, <1>7
  <2>3. consumed_sources' \in [Accounts -> SUBSET Hashes]
    BY <1>3, <1>7, <1>9
  <2> QED
    BY <2>1, <2>2, <2>3, <1>1
       DEF IndInv, TypeOK, AccountTypeOK, LedgerTypeOK, ledgerVars
<1>12. AccountInv'
  <2> SUFFICES ASSUME NEW c \in Accounts
               PROVE  /\ nonce'[c] = Len(chain'[c])
                      /\ balance'[c] = TipBalance(chain'[c])
                      /\ Linked(chain'[c], c)
                      /\ \A i \in 1 .. Len(chain'[c]) : chain'[c][i] \in net'
    BY DEF AccountInv
  <2>1. CASE c # a
    <3>1. chain'[c] = chain[c] /\ nonce'[c] = nonce[c] /\ balance'[c] = balance[c]
      BY <2>1, <1>10
    <3>2. QED
      BY <3>1, <1>1 DEF IndInv, AccountInv
  <2>2. CASE c = a
    <3>1. nonce'[a] = Len(t) /\ chain'[a] = t /\ balance'[a] = TipBalance(t)
      BY <1>5, <1>10
    <3>2. \A i \in 1 .. Len(t) : t[i] \in net'
      BY <1>1, <1>6
    <3>3. Linked(t, a)
      BY <1>5
    <3> QED
      BY <2>2, <3>1, <3>2, <3>3
  <2> QED
    BY <2>1, <2>2
<1>13. HonestInv'
  <2> SUFFICES ASSUME NEW b \in net, b.account \notin Forkers
               PROVE  /\ b.nonce \in 1 .. Len(chain'[b.account])
                      /\ chain'[b.account][b.nonce] = b
    BY <1>1 DEF HonestInv
  <2>1. b.account \in Accounts \ {a}
    BY <1>1, <1>3 DEF Block
  <2>2. QED
    BY <2>1, <1>10 DEF IndInv, HonestInv
<1>14. HashInv' /\ BlockInv'
  BY <1>1 DEF IndInv, HashInv, BlockInv
<1>15. LedgerInv' /\ IndexInv' /\ ReceiveInv' /\ SharedHistory'
  BY <1>1 DEF IndInv, LedgerInv, IndexInv, ReceiveInv, SharedHistory, ledgerVars
<1>16. QED
  BY <1>11, <1>12, <1>13, <1>14, <1>15 DEF IndInv

(* A refused block changes nothing but the set of known accounts. *)
LEMMA RefuseStep ==
  ASSUME IndInv, NEW l \in Ledgers, NEW b \in net, Refuse(l, b)
  PROVE  IndInv'
<1>1. /\ chains' = chains /\ send_index' = send_index
      /\ consumed_sends' = consumed_sends /\ total_supply' = total_supply
      /\ UNCHANGED accountVars /\ net' = net
  BY DEF Refuse, RefuseBlock
<1>2. entries' \in [Ledgers -> SUBSET Accounts]
  <2>1. entries \in [Ledgers -> SUBSET Accounts] /\ b.account \in Accounts
    BY DEF IndInv, TypeOK, LedgerTypeOK, Block
  <2>2. \/ entries' = entries
        \/ entries' = [entries EXCEPT ![l] = @ \cup {b.account}]
    BY DEF Refuse, RefuseBlock, TouchEntry
  <2>3. QED
    BY <2>1, <2>2
<1>3. TypeOK'
  BY <1>1, <1>2 DEF IndInv, TypeOK, AccountTypeOK, LedgerTypeOK, accountVars
<1>4. AccountInv' /\ HashInv' /\ BlockInv' /\ HonestInv'
  BY <1>1 DEF IndInv, AccountInv, HashInv, BlockInv, HonestInv, accountVars
<1>5. LedgerInv' /\ IndexInv' /\ ReceiveInv' /\ SharedHistory'
  BY <1>1 DEF IndInv, LedgerInv, IndexInv, ReceiveInv, SharedHistory
<1>6. QED
  BY <1>3, <1>4, <1>5 DEF IndInv

(* Two chains that share their past still do when one of them grows: the new
   block's predecessor is determined by its hash. *)
LEMMA SharePastAppend ==
  ASSUME NEW N \in SUBSET Block, \A x, y \in N : x.hash = y.hash => x = y,
         NEW a, NEW s \in Seq(Block), NEW t \in Seq(Block), NEW b \in N,
         \A i \in 1 .. Len(t) : t[i] \in N,
         Linked(t, a), b.previous = TipHash(s), SharePast(s, t)
  PROVE  SharePast(Append(s, b), t)
<1> DEFINE u == Append(s, b)
<1>1. /\ Len(s) \in Nat /\ Len(t) \in Nat /\ Len(u) = Len(s) + 1
      /\ u[Len(s) + 1] = b
      /\ \A i \in 1 .. Len(s) : u[i] = s[i]
  BY PushFacts
<1> HIDE DEF u
<1> SUFFICES ASSUME NEW i \in 1 .. Len(u), i <= Len(t), u[i].hash = t[i].hash,
                    NEW k \in 1 .. i
             PROVE  u[k] = t[k]
  BY DEF SharePast, u
<1>2. CASE i \in 1 .. Len(s)
  <2>1. s[i].hash = t[i].hash /\ k \in 1 .. Len(s)
    BY <1>1, <1>2
  <2>2. QED
    BY <2>1, <1>1, <1>2 DEF SharePast
<1>3. CASE i = Len(s) + 1
  <2>1. t[i] \in N /\ t[i] = b
    BY <1>1, <1>3
  <2>2. CASE k = i
    BY <2>1, <2>2, <1>1, <1>3
  <2>3. CASE k # i
    <3>1. i > 1 /\ i - 1 = Len(s) /\ Len(s) \in 1 .. Len(s) /\ k \in 1 .. Len(s)
      BY <2>3, <1>1, <1>3
    <3>2. t[i].previous = t[i-1].hash
      BY <3>1, <1>1 DEF Linked
    <3>3. s # <<>> /\ TipHash(s) = s[Len(s)].hash
      BY <3>1, TipFacts
    <3>4. s[Len(s)].hash = t[Len(s)].hash /\ Len(s) <= Len(t)
      BY <3>1, <3>2, <3>3, <2>1, <1>1, <1>3
    <3>5. s[k] = t[k]
      BY <3>1, <3>4 DEF SharePast
    <3>6. QED
      BY <3>1, <3>5, <1>1
  <2>4. QED
    BY <2>2, <2>3
<1>4. QED
  BY <1>1, <1>2, <1>3

LEMMA SharePastSymmetric ==
  ASSUME NEW s \in Seq(Block), NEW t \in Seq(Block), SharePast(s, t)
  PROVE  SharePast(t, s)
<1>1. Len(s) \in Nat /\ Len(t) \in Nat
  OBVIOUS
<1> SUFFICES ASSUME NEW i \in 1 .. Len(t), i <= Len(s), t[i].hash = s[i].hash,
                    NEW k \in 1 .. i
             PROVE  t[k] = s[k]
  BY DEF SharePast
<1>2. i \in 1 .. Len(s) /\ i <= Len(t) /\ s[i].hash = t[i].hash
  BY <1>1
<1>3. QED
  BY <1>2 DEF SharePast

(* What AcceptBlock does to the chains: b is pushed on its account's chain in l,
   which it continues. *)
LEMMA AcceptedBlock ==
  ASSUME IndInv, NEW l \in Ledgers, NEW b \in net, AcceptBlock(l, b),
         NEW a, a = b.account, NEW s, s = chains[l][a]
  PROVE  /\ b \in Block /\ a \in Accounts
         /\ s \in Seq(Block)
         /\ b.nonce = Len(s) + 1
         /\ b.previous = TipHash(s)
         /\ (s = <<>>) <=> (b.kind = "Open")
         /\ chains' \in [Ledgers -> [Accounts -> Seq(Block)]]
         /\ chains'[l][a] = Append(s, b)
         /\ \A c \in Accounts \ {a} : chains'[l][c] = chains[l][c]
         /\ \A m \in Ledgers \ {l} : chains'[m] = chains[m]
<1>1. b \in Block /\ a \in Accounts /\ chains \in [Ledgers -> [Accounts -> Seq(Block)]]
  BY DEF IndInv, TypeOK, LedgerTypeOK, Block
<1>2. s \in Seq(Block) /\ Linked(s, a)
  BY <1>1 DEF IndInv, LedgerInv
<1>3. IF s = <<>>
      THEN b.nonce = 1 /\ b.kind = "Open" /\ b.previous = NoHash
      ELSE b.nonce = Last(s).nonce + 1 /\ b.previous = Last(s).hash
  BY DEF AcceptBlock, Acceptable, ContinuityOK
<1>4. s # <<>> => /\ Last(s).nonce = Len(s) /\ Len(s) > 0 /\ Len(s) \in Nat
                  /\ TipHash(s) = Last(s).hash
  BY <1>2, TipFacts DEF Linked
<1>5. /\ b.nonce = Len(s) + 1
      /\ b.previous = TipHash(s)
  BY <1>3, <1>4 DEF TipHash
<1>6. (s = <<>>) <=> (b.kind = "Open")
  <2>1. b.kind = "Open" => b.nonce = 1
    BY DEF IndInv, BlockInv, Sound
  <2>2. QED
    BY <2>1, <1>3, <1>4
<1>7. chains' = [chains EXCEPT ![l][a] = Append(s, b)]
  BY DEF AcceptBlock
<1>8. Append(s, b) \in Seq(Block)
  BY <1>1, <1>2
<1>9. /\ chains' \in [Ledgers -> [Accounts -> Seq(Block)]]
      /\ chains'[l][a] = Append(s, b)
      /\ \A c \in Accounts \ {a} : chains'[l][c] = chains[l][c]
      /\ \A m \in Ledgers \ {l} : chains'[m] = chains[m]
  BY <1>1, <1>7, <1>8
<1>10. QED
  BY <1>1, <1>2, <1>5, <1>6, <1>9

(* The chains of the ledger that accepts b, position by position. *)
LEMMA AcceptedPositions ==
  ASSUME IndInv, NEW l \in Ledgers, NEW b \in net, AcceptBlock(l, b),
         NEW a, a = b.account, NEW n, n = Len(chains[l][a]) + 1
  PROVE  /\ a \in Accounts /\ n \in Nat
         /\ Len(chains'[l][a]) = n /\ chains'[l][a][n] = b
         /\ n \in 1 .. Len(chains'[l][a])
         /\ \A c \in Accounts : \A i \in 1 .. Len(chains[l][c]) :
              i \in 1 .. Len(chains'[l][c]) /\ chains'[l][c][i] = chains[l][c][i]
         /\ \A c \in Accounts : \A i \in 1 .. Len(chains'[l][c]) :
              \/ i \in 1 .. Len(chains[l][c]) /\ chains'[l][c][i] = chains[l][c][i]
              \/ c = a /\ i = n /\ chains'[l][c][i] = b
<1>1. PICK s : s = chains[l][a]
  OBVIOUS
<1>2. /\ b \in Block /\ a \in Accounts /\ s \in Seq(Block)
      /\ chains'[l][a] = Append(s, b)
      /\ \A c \in Accounts \ {a} : chains'[l][c] = chains[l][c]
  BY <1>1, AcceptedBlock
<1>3. /\ Len(s) \in Nat /\ n = Len(s) + 1
      /\ Len(chains'[l][a]) = n /\ chains'[l][a][n] = b
      /\ \A i \in 1 .. Len(s) : chains'[l][a][i] = s[i]
  BY <1>1, <1>2, PushFacts
<1>4. /\ n \in Nat /\ n \in 1 .. n
      /\ \A i \in 1 .. n : i \in 1 .. Len(s) \/ i = n
      /\ \A i \in 1 .. Len(s) : i \in 1 .. n
  BY <1>3
<1>5. ASSUME NEW c \in Accounts, NEW i \in 1 .. Len(chains[l][c])
      PROVE  i \in 1 .. Len(chains'[l][c]) /\ chains'[l][c][i] = chains[l][c][i]
  <2>1. CASE c = a
    BY <2>1, <1>1, <1>3, <1>4
  <2>2. CASE c # a
    BY <2>2, <1>2
  <2>3. QED
    BY <2>1, <2>2
<1>6. ASSUME NEW c \in Accounts, NEW i \in 1 .. Len(chains'[l][c])
      PROVE  \/ i \in 1 .. Len(chains[l][c]) /\ chains'[l][c][i] = chains[l][c][i]
             \/ c = a /\ i = n /\ chains'[l][c][i] = b
  <2>1. CASE c = a
    BY <2>1, <1>1, <1>3, <1>4
  <2>2. CASE c # a
    BY <2>2, <1>2
  <2>3. QED
    BY <2>1, <2>2
<1>7. QED
  BY <1>2, <1>3, <1>4, <1>5, <1>6

(* An accepted block preserves the invariant. *)
LEMMA AcceptStep ==
  ASSUME IndInv, NEW l \in Ledgers, NEW b \in net, Accept(l, b)
  PROVE  IndInv'
<1>1. PICK a, s, n : a = b.account /\ s = chains[l][a] /\ n = Len(s) + 1
  OBVIOUS
<1>2. AcceptBlock(l, b) /\ UNCHANGED accountVars /\ net' = net
  BY DEF Accept
<1>3. /\ b \in Block /\ a \in Accounts /\ s \in Seq(Block)
      /\ b.nonce = Len(s) + 1
      /\ b.previous = TipHash(s)
      /\ (s = <<>>) <=> (b.kind = "Open")
      /\ chains' \in [Ledgers -> [Accounts -> Seq(Block)]]
      /\ chains'[l][a] = Append(s, b)
      /\ \A c \in Accounts \ {a} : chains'[l][c] = chains[l][c]
      /\ \A m \in Ledgers \ {l} : chains'[m] = chains[m]
  BY <1>1, <1>2, AcceptedBlock
<1>4. /\ n \in Nat
      /\ chains'[l][a][n] = b /\ n \in 1 .. Len(chains'[l][a])
      /\ \A c \in Accounts : \A i \in 1 .. Len(chains[l][c]) :
           i \in 1 .. Len(chains'[l][c]) /\ chains'[l][c][i] = chains[l][c][i]
      /\ \A c \in Accounts : \A i \in 1 .. Len(chains'[l][c]) :
           \/ i \in 1 .. Len(chains[l][c]) /\ chains'[l][c][i] = chains[l][c][i]
           \/ c = a /\ i = n /\ chains'[l][c][i] = b
  BY <1>1, <1>2, AcceptedPositions
<1>5. /\ SupplyOK(l, b) /\ SourceOK(l, b)
      /\ entries' = [entries EXCEPT ![l] = @ \cup {b.account}]
  BY <1>2 DEF AcceptBlock, Acceptable, TouchEntry
<1>6. /\ b.kind = "Send" => b.destination \in Accounts
      /\ b.hash \in Hashes /\ b.amount \in Nat
      /\ b.kind = "Receive" => b.source_hash \in Hashes
  <2>1. b.kind = "Send" => b.previous # NoHash
    BY DEF IndInv, BlockInv, Sound
  <2>2. b.kind = "Send" => b.destination \in Accounts
    BY <2>1 DEF IndInv, BlockInv, Sound, BalanceStep
  <2>3. b.kind = "Receive" => b.source_hash \in Hashes
    BY <1>5 DEF SourceOK, IndInv, TypeOK, LedgerTypeOK, SendInfo
  <2>4. QED
    BY <2>2, <2>3, <1>3 DEF Block
<1>7. PICK e : e = [hash |-> b.hash, destination |-> b.destination, amount |-> b.amount]
  OBVIOUS
<1>8. /\ send_index \in [Ledgers -> SUBSET SendInfo]
      /\ consumed_sends \in [Ledgers -> SUBSET Hashes]
      /\ total_supply \in [Ledgers -> 0 .. TotalSupply]
      /\ entries \in [Ledgers -> SUBSET Accounts]
      /\ b.kind = "Send" => e \in SendInfo
  BY <1>6, <1>7 DEF IndInv, TypeOK, LedgerTypeOK, SendInfo
<1>9. /\ send_index' = [send_index EXCEPT ![l] =
            IF b.kind = "Send" THEN @ \cup {e} ELSE @]
      /\ consumed_sends' = [consumed_sends EXCEPT ![l] =
            IF b.kind = "Receive" THEN @ \cup {b.source_hash} ELSE @]
      /\ total_supply' = [total_supply EXCEPT ![l] =
            IF b.kind = "Open" THEN @ + b.amount ELSE @]
  BY <1>2, <1>7 DEF AcceptBlock
<1>10. /\ send_index'[l] = (IF b.kind = "Send" THEN send_index[l] \cup {e}
                                               ELSE send_index[l])
       /\ consumed_sends'[l] = (IF b.kind = "Receive"
                                THEN consumed_sends[l] \cup {b.source_hash}
                                ELSE consumed_sends[l])
       /\ \A m \in Ledgers \ {l} : /\ send_index'[m] = send_index[m]
                                    /\ consumed_sends'[m] = consumed_sends[m]
  BY <1>8, <1>9
<1>11. TypeOK'
  <2>1. send_index' \in [Ledgers -> SUBSET SendInfo]
    BY <1>8, <1>9
  <2>2. consumed_sends' \in [Ledgers -> SUBSET Hashes]
    BY <1>6, <1>8, <1>9
  <2>3. total_supply' \in [Ledgers -> 0 .. TotalSupply]
    <3>1. b.kind = "Open" => total_supply[l] + b.amount \in 0 .. TotalSupply
      BY <1>5, <1>6, <1>8 DEF SupplyOK
    <3>2. QED
      BY <3>1, <1>8, <1>9
  <2>4. entries' \in [Ledgers -> SUBSET Accounts]
    BY <1>1, <1>3, <1>5, <1>8
  <2>5. QED
    BY <2>1, <2>2, <2>3, <2>4, <1>2, <1>3
       DEF IndInv, TypeOK, AccountTypeOK, LedgerTypeOK, accountVars
<1>12. AccountInv' /\ HashInv' /\ BlockInv' /\ HonestInv'
  BY <1>2 DEF IndInv, AccountInv, HashInv, BlockInv, HonestInv, accountVars
<1>13. LedgerInv'
  <2>1. ASSUME NEW m \in Ledgers, NEW c \in Accounts, m # l \/ c # a
        PROVE  /\ Linked(chains'[m][c], c)
               /\ \A i \in 1 .. Len(chains'[m][c]) : chains'[m][c][i] \in net'
               /\ chains'[m][c] # <<>> => chains'[m][c][1].kind = "Open"
    <3>1. chains'[m][c] = chains[m][c]
      BY <2>1, <1>3
    <3>2. QED
      BY <3>1, <1>2 DEF IndInv, LedgerInv
  <2>2. Linked(chains'[l][a], a)
    <3>1. Linked(s, a)
      BY <1>1, <1>3 DEF IndInv, LedgerInv
    <3>2. Linked(Append(s, b), a)
      BY <3>1, <1>1, <1>3, LinkedAppend
    <3>3. QED
      BY <3>2, <1>3
  <2>3. \A i \in 1 .. Len(chains'[l][a]) : chains'[l][a][i] \in net'
    BY <1>2, <1>3, <1>4 DEF IndInv, LedgerInv
  <2>4. chains'[l][a][1].kind = "Open"
    <3>1. CASE s = <<>>
      <4>1. n = 1 /\ b.kind = "Open"
        BY <3>1, <1>1, <1>3
      <4>2. QED
        BY <4>1, <1>4
    <3>2. CASE s # <<>>
      <4>1. 1 \in 1 .. Len(s) /\ s[1].kind = "Open"
        BY <3>2, <1>1, <1>3 DEF IndInv, LedgerInv
      <4>2. QED
        BY <4>1, <1>1, <1>3, <1>4
    <3>3. QED
      BY <3>1, <3>2
  <2>5. QED
    BY <2>1, <2>2, <2>3, <2>4 DEF LedgerInv
<1>14. IndexInv'
  <2>1. ASSUME NEW m \in Ledgers, m # l
        PROVE  chains'[m] = chains[m] /\ send_index'[m] = send_index[m]
               /\ consumed_sends'[m] = consumed_sends[m]
    BY <2>1, <1>3, <1>10
  <2>2. ASSUME NEW x \in send_index'[l] PROVE SendOf(chains'[l], x)
    <3>1. CASE x \in send_index[l]
      <4>1. PICK d \in Accounts : \E k \in 1 .. Len(chains[l][d]) :
                 /\ chains[l][d][k].kind = "Send"
                 /\ chains[l][d][k].hash = x.hash
                 /\ chains[l][d][k].destination = x.destination
                 /\ chains[l][d][k].amount = x.amount
        BY <3>1 DEF IndInv, IndexInv, SendOf
      <4>2. PICK k \in 1 .. Len(chains[l][d]) :
                 /\ chains[l][d][k].kind = "Send"
                 /\ chains[l][d][k].hash = x.hash
                 /\ chains[l][d][k].destination = x.destination
                 /\ chains[l][d][k].amount = x.amount
        BY <4>1
      <4>3. k \in 1 .. Len(chains'[l][d]) /\ chains'[l][d][k] = chains[l][d][k]
        BY <1>4
      <4>4. QED
        BY <4>2, <4>3 DEF SendOf
    <3>2. CASE x = e /\ b.kind = "Send"
      BY <3>2, <1>3, <1>4, <1>7 DEF SendOf
    <3>3. QED
      BY <3>1, <3>2, <1>10
  <2>3. send_index[l] \subseteq send_index'[l] /\ consumed_sends[l] \subseteq consumed_sends'[l]
    BY <1>10
  <2>4. b.kind = "Receive" =>
          /\ b.source_hash \in consumed_sends'[l]
          /\ \E x \in send_index'[l] : x.hash = b.source_hash /\ x.destination = a
    BY <2>3, <1>1, <1>5, <1>10 DEF SourceOK
  <2>5. ASSUME NEW h \in consumed_sends'[l] PROVE \E x \in send_index'[l] : x.hash = h
    <3>1. CASE h \in consumed_sends[l]
      BY <3>1, <2>3 DEF IndInv, IndexInv
    <3>2. CASE h = b.source_hash /\ b.kind = "Receive"
      BY <3>2, <2>4
    <3>3. QED
      BY <3>1, <3>2, <1>10
  <2>6. ASSUME NEW c \in Accounts, NEW i \in 1 .. Len(chains'[l][c]),
               chains'[l][c][i].kind = "Receive"
        PROVE  /\ chains'[l][c][i].source_hash \in consumed_sends'[l]
               /\ \E x \in send_index'[l] : /\ x.hash = chains'[l][c][i].source_hash
                                            /\ x.destination = c
    <3>1. CASE i \in 1 .. Len(chains[l][c]) /\ chains'[l][c][i] = chains[l][c][i]
      BY <3>1, <2>3, <2>6 DEF IndInv, IndexInv
    <3>2. CASE c = a /\ chains'[l][c][i] = b
      BY <3>2, <2>4, <2>6
    <3>3. QED
      BY <3>1, <3>2, <1>4
  <2>7. QED
    BY <2>1, <2>2, <2>5, <2>6 DEF IndInv, IndexInv
<1>15. ReceiveInv'
  <2>1. ASSUME NEW c \in Accounts, NEW i \in 1 .. Len(chains[l][c]),
               chains[l][c][i].kind = "Receive", b.kind = "Receive"
        PROVE  chains[l][c][i].source_hash # b.source_hash
    <3>1. chains[l][c][i].source_hash \in consumed_sends[l]
      BY <2>1 DEF IndInv, IndexInv
    <3>2. QED
      BY <3>1, <2>1, <1>5 DEF SourceOK
  <2>2. ASSUME NEW c \in Accounts, NEW d \in Accounts,
               NEW i \in 1 .. Len(chains'[l][c]), NEW j \in 1 .. Len(chains'[l][d]),
               chains'[l][c][i].kind = "Receive", chains'[l][d][j].kind = "Receive",
               chains'[l][c][i].source_hash = chains'[l][d][j].source_hash
        PROVE  c = d /\ i = j
    <3>1. CASE /\ i \in 1 .. Len(chains[l][c]) /\ chains'[l][c][i] = chains[l][c][i]
               /\ j \in 1 .. Len(chains[l][d]) /\ chains'[l][d][j] = chains[l][d][j]
      BY <3>1, <2>2 DEF IndInv, ReceiveInv
    <3>2. CASE /\ i \in 1 .. Len(chains[l][c]) /\ chains'[l][c][i] = chains[l][c][i]
               /\ chains'[l][d][j] = b
      BY <3>2, <2>1, <2>2
    <3>3. CASE /\ chains'[l][c][i] = b
               /\ j \in 1 .. Len(chains[l][d]) /\ chains'[l][d][j] = chains[l][d][j]
      BY <3>3, <2>1, <2>2
    <3>4. CASE c = a /\ i = n /\ d = a /\ j = n
      BY <3>4
    <3>5. QED
      BY <3>1, <3>2, <3>3, <3>4, <1>4
  <2>3. ASSUME NEW m \in Ledgers, m # l PROVE chains'[m] = chains[m]
    BY <2>3, <1>3
  <2>4. QED
    BY <2>2, <2>3 DEF IndInv, ReceiveInv
<1>16. SharedHistory'
  <2>1. ASSUME NEW m \in Ledgers, m # l
        PROVE  SharePast(Append(s, b), chains[m][a]) /\ SharePast(chains[m][a], Append(s, b))
    <3>1. PICK t : t = chains[m][a]
      OBVIOUS
    <3>2. /\ t \in Seq(Block) /\ Linked(t, a)
          /\ \A i \in 1 .. Len(t) : t[i] \in net
          /\ SharePast(s, t)
      BY <3>1, <1>1, <1>3
         DEF IndInv, TypeOK, LedgerTypeOK, LedgerInv, SharedHistory
    <3>3. net \in SUBSET Block /\ \A x, y \in net : x.hash = y.hash => x = y
      BY DEF IndInv, TypeOK, HashInv
    <3>4. SharePast(Append(s, b), t)
      BY <3>2, <3>3, <1>3, SharePastAppend
    <3>5. Append(s, b) \in Seq(Block)
      BY <1>3
    <3>6. QED
      BY <3>1, <3>2, <3>4, <3>5, SharePastSymmetric
  <2>2. SharePast(Append(s, b), Append(s, b))
    BY DEF SharePast
  <2>3. ASSUME NEW m \in Ledgers, NEW k \in Ledgers, NEW c \in Accounts
        PROVE  SharePast(chains'[m][c], chains'[k][c])
    <3>1. CASE c # a
      <4>1. chains'[m][c] = chains[m][c] /\ chains'[k][c] = chains[k][c]
        BY <3>1, <1>3
      <4>2. QED
        BY <4>1 DEF IndInv, SharedHistory
    <3>2. CASE c = a /\ m = l /\ k = l
      BY <3>2, <2>2, <1>3
    <3>3. CASE c = a /\ m = l /\ k # l
      BY <3>3, <2>1, <1>3
    <3>4. CASE c = a /\ m # l /\ k = l
      BY <3>4, <2>1, <1>3
    <3>5. CASE m # l /\ k # l
      BY <3>5, <1>3 DEF IndInv, SharedHistory
    <3>6. QED
      BY <3>1, <3>2, <3>3, <3>4, <3>5
  <2>4. QED
    BY <2>3 DEF SharedHistory
<1>17. QED
  BY <1>11, <1>12, <1>13, <1>14, <1>15, <1>16 DEF IndInv

-----------------------------------------------------------------------------
(* The invariant of the specification. *)

(* The steps, whatever each account may ask for. *)
LEMMA Steps ==
  Next =>
    \/ \E a \in Accounts, n \in Nat : OpenAccount(a, n)
    \/ \E a \in Accounts, d \in Accounts, n \in Nat : SendFunds(a, d, n)
    \/ \E a \in Accounts, b \in net : ReceiveFunds(a, b)
    \/ \E a \in Accounts : RollBack(a)
    \/ \E l \in Ledgers, b \in net : Accept(l, b) \/ Refuse(l, b)
<1>1. \A a \in Accounts : Grants[a] \subseteq Nat
  BY AccountChainAssumption
<1> QED
  BY <1>1, PaymentsAssumption DEF Next

LEMMA NextStep == IndInv /\ [Next]_vars => IndInv'
<1> SUFFICES ASSUME IndInv, [Next]_vars PROVE IndInv'
  OBVIOUS
<1>1. ASSUME NEW a \in Accounts, NEW n \in Nat, OpenAccount(a, n)
      PROVE  IndInv'
  BY <1>1, OpenStep
<1>2. ASSUME NEW a \in Accounts, NEW d \in Accounts, NEW n \in Nat, SendFunds(a, d, n)
      PROVE  IndInv'
  BY <1>2, SendStep
<1>3. ASSUME NEW a \in Accounts, NEW b \in net, ReceiveFunds(a, b)
      PROVE  IndInv'
  BY <1>3, ReceiveStep
<1>4. ASSUME NEW a \in Accounts, RollBack(a)
      PROVE  IndInv'
  BY <1>4, RollBackStep
<1>5. ASSUME NEW l \in Ledgers, NEW b \in net, Accept(l, b)
      PROVE  IndInv'
  BY <1>5, AcceptStep
<1>6. ASSUME NEW l \in Ledgers, NEW b \in net, Refuse(l, b)
      PROVE  IndInv'
  BY <1>6, RefuseStep
<1>7. CASE UNCHANGED vars
  <2>1. UNCHANGED <<chain, balance, nonce, consumed_sources, vclock, entries, chains,
                    send_index, consumed_sends, total_supply, net>>
    BY <1>7 DEF vars, accountVars, ledgerVars
  <2>2. TypeOK'
    BY <2>1 DEF IndInv, TypeOK, AccountTypeOK, LedgerTypeOK
  <2>3. AccountInv' /\ HashInv' /\ BlockInv' /\ HonestInv'
    BY <2>1 DEF IndInv, AccountInv, HashInv, BlockInv, HonestInv
  <2>4. LedgerInv' /\ IndexInv' /\ ReceiveInv' /\ SharedHistory'
    BY <2>1 DEF IndInv, LedgerInv, IndexInv, ReceiveInv, SharedHistory
  <2>5. QED
    BY <2>2, <2>3, <2>4 DEF IndInv
<1>8. QED
  BY <1>1, <1>2, <1>3, <1>4, <1>5, <1>6, <1>7, Steps

(* Every reachable state satisfies the inductive invariant, whatever the mesh
   delivers to which ledger in which order and whoever forks. *)
THEOREM Invariance == Spec => []IndInv
BY InitInv, NextStep, PTL DEF Spec

(* The fields of AccountChain and Ledger keep their types: no balance exceeds
   MAX_INITIAL_BALANCE_PER_ACCOUNT, no supply TOTAL_SUPPLY_MICRO_ARX, so the
   checked_add of open, receive and add_block never meets an overflow. *)
THEOREM TypeCorrect == Spec => []TypeOK
<1>1. IndInv => TypeOK
  BY DEF IndInv
<1>2. QED
  BY <1>1, Invariance, PTL

(* Ledger::add_block, one block at a time, keeps verify_chain_integrity true of
   every chain of every ledger. *)
THEOREM LedgersKeepIntegrity == Spec => []LedgerIntegrity
<1>1. ASSUME IndInv, NEW l \in Ledgers, NEW a \in Accounts
      PROVE  ChainIntegrity(chains[l][a])
  <2>1. PICK s : s = chains[l][a]
    OBVIOUS
  <2>2. /\ s \in Seq(Block) /\ Linked(s, a)
        /\ s # <<>> => s[1].kind = "Open"
    BY <1>1, <2>1 DEF IndInv, TypeOK, LedgerTypeOK, LedgerInv
  <2>3. s # <<>> => s[1].nonce = 1 /\ s[1].kind = "Open" /\ s[1].previous = NoHash
    BY <2>2 DEF Linked
  <2>4. ASSUME NEW i \in 2 .. Len(s)
        PROVE  s[i].nonce = s[i-1].nonce + 1 /\ s[i].previous = s[i-1].hash
    <3>1. i \in 1 .. Len(s) /\ i - 1 \in 1 .. Len(s) /\ i > 1 /\ i = (i - 1) + 1
      BY <2>2
    <3>2. QED
      BY <3>1, <2>2 DEF Linked
  <2>5. QED
    BY <2>1, <2>3, <2>4 DEF ChainIntegrity
<1>2. IndInv => LedgerIntegrity
  BY <1>1 DEF LedgerIntegrity
<1>3. QED
  BY <1>2, Invariance, PTL

(* send_index and consumed_sends together let a Send fund at most one Receive of
   a ledger, and only the one it was meant for. *)
THEOREM SendsCreditedOnce == Spec => []SingleCredit
<1>1. ASSUME IndInv, NEW l \in Ledgers, NEW a \in Accounts, NEW i \in 1 .. Len(chains[l][a]),
             chains[l][a][i].kind = "Receive"
      PROVE  \E d \in Accounts : \E k \in 1 .. Len(chains[l][d]) :
                  /\ chains[l][d][k].kind = "Send"
                  /\ chains[l][d][k].hash = chains[l][a][i].source_hash
                  /\ chains[l][d][k].destination = a
  <2>1. PICK x \in send_index[l] : /\ x.hash = chains[l][a][i].source_hash
                                   /\ x.destination = a
    BY <1>1 DEF IndInv, IndexInv
  <2>2. SendOf(chains[l], x)
    BY <1>1 DEF IndInv, IndexInv
  <2>3. QED
    BY <2>1, <2>2 DEF SendOf
<1>2. IndInv => SingleCredit
  <2> SUFFICES ASSUME IndInv, NEW l \in Ledgers, NEW a \in Accounts, NEW c \in Accounts,
                      NEW i \in 1 .. Len(chains[l][a]), NEW j \in 1 .. Len(chains[l][c]),
                      chains[l][a][i].kind = "Receive"
               PROVE  /\ /\ chains[l][c][j].kind = "Receive"
                         /\ chains[l][c][j].source_hash = chains[l][a][i].source_hash
                         => a = c /\ i = j
                      /\ \E d \in Accounts : \E k \in 1 .. Len(chains[l][d]) :
                           /\ chains[l][d][k].kind = "Send"
                           /\ chains[l][d][k].hash = chains[l][a][i].source_hash
                           /\ chains[l][d][k].destination = a
    BY DEF SingleCredit
  <2>1. /\ chains[l][c][j].kind = "Receive"
        /\ chains[l][c][j].source_hash = chains[l][a][i].source_hash
        => a = c /\ i = j
    BY DEF IndInv, ReceiveInv
  <2>2. QED
    BY <1>1, <2>1
<1>3. QED
  BY <1>2, Invariance, PTL

(* Whatever is lost, repeated or reordered on the way, a ledger holds a beginning
   of the chain of every account that does not fork. *)
THEOREM HonestChainsPrefix == Spec => []HonestPrefix
<1>1. ASSUME IndInv, NEW l \in Ledgers, NEW a \in Accounts \ Forkers
      PROVE  IsPrefix(chains[l][a], chain[a])
  <2>1. PICK s, t : s = chains[l][a] /\ t = chain[a]
    OBVIOUS
  <2>2. /\ s \in Seq(Block) /\ t \in Seq(Block) /\ Linked(s, a)
        /\ \A i \in 1 .. Len(s) : s[i] \in net
    BY <1>1, <2>1 DEF IndInv, TypeOK, AccountTypeOK, LedgerTypeOK, LedgerInv
  <2>3. \A i \in 1 .. Len(s) : i \in 1 .. Len(t) /\ t[i] = s[i]
    BY <1>1, <2>1, <2>2 DEF Linked, IndInv, HonestInv
  <2>4. Len(s) <= Len(t)
    <3>1. Len(s) \in Nat /\ Len(t) \in Nat
      BY <2>2
    <3>2. CASE Len(s) > 0
      <4>1. Len(s) \in 1 .. Len(s)
        BY <3>1, <3>2
      <4>2. QED
        BY <4>1, <2>3, <3>1
    <3>3. QED
      BY <3>1, <3>2
  <2>5. QED
    BY <2>1, <2>2, <2>3, <2>4 DEF IsPrefix
<1>2. IndInv => HonestPrefix
  BY <1>1 DEF HonestPrefix
<1>3. QED
  BY <1>2, Invariance, PTL

(* Where two ledgers hold the same block of an account, forked or not, they hold
   the same blocks below it. *)
THEOREM HistoriesShared == Spec => []SharedHistory
<1>1. IndInv => SharedHistory
  BY DEF IndInv
<1>2. QED
  BY <1>1, Invariance, PTL

-----------------------------------------------------------------------------
(* Each ledger implements the abstract TokenLedger. *)

(* An entry of send_index is about a Send that the ledger holds. *)
LEMMA IndexedSend ==
  ASSUME IndInv, NEW l \in Ledgers, NEW x \in send_index[l]
  PROVE  \E z \in net : /\ z.kind = "Send" /\ z.hash = x.hash
                         /\ z.destination = x.destination /\ z.amount = x.amount
                         /\ z.account \in Accounts
                         /\ z.nonce \in 1 .. Len(chains[l][z.account])
                         /\ chains[l][z.account][z.nonce] = z
<1>1. PICK d \in Accounts : \E k \in 1 .. Len(chains[l][d]) :
         /\ chains[l][d][k].kind = "Send"
         /\ chains[l][d][k].hash = x.hash
         /\ chains[l][d][k].destination = x.destination
         /\ chains[l][d][k].amount = x.amount
  BY DEF IndInv, IndexInv, SendOf
<1>2. PICK k \in 1 .. Len(chains[l][d]) :
         /\ chains[l][d][k].kind = "Send"
         /\ chains[l][d][k].hash = x.hash
         /\ chains[l][d][k].destination = x.destination
         /\ chains[l][d][k].amount = x.amount
  BY <1>1
<1>3. /\ chains[l][d][k] \in net
      /\ chains[l][d][k].account = d /\ chains[l][d][k].nonce = k
  BY DEF IndInv, LedgerInv, Linked
<1>4. QED
  BY <1>2, <1>3

(* Two entries of send_index are about two Sends. *)
LEMMA IndexedOnce ==
  ASSUME IndInv, NEW l \in Ledgers, NEW x \in send_index[l], NEW y \in send_index[l],
         x.hash = y.hash
  PROVE  x = y
<1>1. PICK z \in net : /\ z.hash = x.hash /\ z.destination = x.destination
                       /\ z.amount = x.amount
  BY IndexedSend
<1>2. PICK w \in net : /\ w.hash = y.hash /\ w.destination = y.destination
                       /\ w.amount = y.amount
  BY IndexedSend
<1>3. z = w
  BY <1>1, <1>2 DEF IndInv, HashInv
<1>4. x \in SendInfo /\ y \in SendInfo
  BY DEF IndInv, TypeOK, LedgerTypeOK
<1>5. QED
  BY <1>1, <1>2, <1>3, <1>4 DEF SendInfo

(* What AcceptBlock does to the indices. *)
LEMMA AcceptedIndices ==
  ASSUME IndInv, NEW l \in Ledgers, NEW b \in net, AcceptBlock(l, b),
         NEW e, e = [hash |-> b.hash, destination |-> b.destination, amount |-> b.amount]
  PROVE  /\ send_index'[l] = (IF b.kind = "Send" THEN send_index[l] \cup {e}
                                                 ELSE send_index[l])
         /\ consumed_sends'[l] = (IF b.kind = "Receive"
                                  THEN consumed_sends[l] \cup {b.source_hash}
                                  ELSE consumed_sends[l])
         /\ total_supply'[l] = (IF b.kind = "Open" THEN total_supply[l] + b.amount
                                                   ELSE total_supply[l])
         /\ \A m \in Ledgers \ {l} : /\ send_index'[m] = send_index[m]
                                      /\ consumed_sends'[m] = consumed_sends[m]
                                      /\ total_supply'[m] = total_supply[m]
<1>1. /\ send_index \in [Ledgers -> SUBSET SendInfo]
      /\ consumed_sends \in [Ledgers -> SUBSET Hashes]
      /\ total_supply \in [Ledgers -> 0 .. TotalSupply]
  BY DEF IndInv, TypeOK, LedgerTypeOK
<1>2. /\ send_index' = [send_index EXCEPT ![l] =
            IF b.kind = "Send" THEN @ \cup {e} ELSE @]
      /\ consumed_sends' = [consumed_sends EXCEPT ![l] =
            IF b.kind = "Receive" THEN @ \cup {b.source_hash} ELSE @]
      /\ total_supply' = [total_supply EXCEPT ![l] =
            IF b.kind = "Open" THEN @ + b.amount ELSE @]
  BY DEF AcceptBlock
<1>3. QED
  BY <1>1, <1>2

(* What an accepted block says of the balance before it, and of the Send it
   credits. *)
LEMMA AcceptedBalance ==
  ASSUME IndInv, NEW l \in Ledgers, NEW b \in net, AcceptBlock(l, b),
         NEW s, s = chains[l][b.account]
  PROVE  /\ b.kind = "Open" => b.amount = b.balance /\ b.amount \in 0 .. MaxPerAccount
         /\ b.kind = "Send" => /\ b.amount > 0
                               /\ b.destination \in Accounts \ {b.account}
                               /\ TipBalance(s) = b.balance + b.amount
         /\ b.kind = "Receive" =>
              \E x \in send_index[l] : /\ x.hash = b.source_hash
                                       /\ x.destination = b.account
                                       /\ x.hash \notin consumed_sends[l]
                                       /\ b.balance = TipBalance(s) + x.amount
<1>1. /\ b \in Block /\ b.account \in Accounts /\ s \in Seq(Block)
      /\ b.previous = TipHash(s)
      /\ (s = <<>>) <=> (b.kind = "Open")
  BY AcceptedBlock
<1>2. CASE b.kind = "Open"
  <2>1. b.amount = b.balance /\ b.balance <= MaxPerAccount
    BY <1>2 DEF IndInv, BlockInv, Sound
  <2>2. b.amount \in Nat
    BY <1>1 DEF Block
  <2>3. QED
    BY <1>2, <2>1, <2>2
<1>3. CASE b.kind # "Open"
  <2>1. s # <<>>
    BY <1>1, <1>3
  <2>2. /\ TipHash(s) = Last(s).hash /\ TipHash(s) \in Hashes
        /\ TipBalance(s) = Last(s).balance
        /\ Last(s) = s[Len(s)] /\ Len(s) \in 1 .. Len(s)
    BY <1>1, <2>1, TipFacts
  <2>3. Last(s) \in net
    BY <1>1, <2>2 DEF IndInv, LedgerInv
  <2>4. b.previous # NoHash
    BY <1>1, <2>2
  <2>5. PICK p \in net : p.hash = b.previous /\ BalanceStep(net, p, b)
    BY <2>4 DEF IndInv, BlockInv, Sound
  <2>6. p = Last(s)
    BY <1>1, <2>2, <2>3, <2>5 DEF IndInv, HashInv
  <2>7. CASE b.kind = "Send"
    BY <2>2, <2>5, <2>6, <2>7 DEF BalanceStep
  <2>8. CASE b.kind = "Receive"
    <3>1. PICK z \in net : /\ z.kind = "Send" /\ z.hash = b.source_hash
                           /\ z.destination = b.account
                           /\ b.balance = p.balance + z.amount
      BY <2>5, <2>8 DEF BalanceStep
    <3>2. PICK x \in send_index[l] : /\ x.hash = b.source_hash
                                     /\ x.destination = b.account
                                     /\ x.hash \notin consumed_sends[l]
      BY <2>8 DEF AcceptBlock, Acceptable, SourceOK
    <3>3. PICK w \in net : w.hash = x.hash /\ w.amount = x.amount
      BY IndexedSend
    <3>4. w = z
      BY <3>1, <3>2, <3>3 DEF IndInv, HashInv
    <3>5. QED
      BY <2>2, <2>6, <2>8, <3>1, <3>2, <3>3, <3>4
  <2>9. QED
    BY <1>1, <1>3, <2>7, <2>8 DEF Block, BlockKinds
<1>4. QED
  BY <1>2, <1>3

(* A Send that a ledger accepts is not in its indices yet. *)
LEMMA AcceptedSendIsNew ==
  ASSUME IndInv, NEW l \in Ledgers, NEW b \in net, AcceptBlock(l, b)
  PROVE  /\ \A x \in send_index[l] : x.hash # b.hash
         /\ b.hash \notin consumed_sends[l]
<1>1. ASSUME NEW x \in send_index[l], x.hash = b.hash PROVE FALSE
  <2>1. PICK z \in net : /\ z.hash = x.hash
                         /\ z.nonce \in 1 .. Len(chains[l][z.account])
    BY IndexedSend
  <2>2. z = b
    BY <1>1, <2>1 DEF IndInv, HashInv
  <2>3. b.nonce = Len(chains[l][b.account]) + 1 /\ chains[l][b.account] \in Seq(Block)
    BY AcceptedBlock
  <2>4. QED
    BY <2>1, <2>2, <2>3
<1>2. QED
  BY <1>1 DEF IndInv, IndexInv

(* A block that a ledger accepts is a step of its TokenLedger: an Open mints, a
   Send transfers, a Receive settles. *)
LEMMA AcceptIsTokenStep ==
  ASSUME IndInv, NEW l \in Ledgers, NEW b \in net, AcceptBlock(l, b)
  PROVE  Token(l)!TokenNext
<1>1. PICK a, s, e : /\ a = b.account /\ s = chains[l][a]
                     /\ e = [hash |-> b.hash, destination |-> b.destination,
                             amount |-> b.amount]
  OBVIOUS
<1>2. /\ b \in Block /\ a \in Accounts /\ s \in Seq(Block)
      /\ (s = <<>>) <=> (b.kind = "Open")
      /\ chains'[l][a] = Append(s, b)
      /\ \A c \in Accounts \ {a} : chains'[l][c] = chains[l][c]
  BY <1>1, AcceptedBlock
<1>3. Append(s, b) # <<>> /\ TipBalance(Append(s, b)) = b.balance
  BY <1>2, PushFacts
<1> DEFINE opened == {c \in Accounts : chains[l][c] # <<>>}
           funds  == [c \in Accounts |-> TipBalance(chains[l][c])]
           pending == PendingSends(l)
<1>4. opened' = opened \cup {a} /\ funds' = [funds EXCEPT ![a] = b.balance]
  BY <1>2, <1>3
<1>5. funds[a] = TipBalance(s) /\ (a \in opened <=> s # <<>>)
  BY <1>1, <1>2
<1>6. b.amount \in Nat /\ b.balance \in Nat /\ b.hash \in Hashes
  BY <1>2 DEF Block
<1>7. CASE b.kind = "Open"
  <2>1. /\ send_index'[l] = send_index[l] /\ consumed_sends'[l] = consumed_sends[l]
        /\ total_supply'[l] = total_supply[l] + b.amount
    BY <1>7, AcceptedIndices
  <2>2. total_supply[l] + b.amount <= TotalSupply
    BY <1>7 DEF AcceptBlock, Acceptable, SupplyOK
  <2>3. b.amount = b.balance /\ b.amount \in 0 .. TotalSupply
    BY <1>7, AcceptedBalance
  <2>4. pending' = pending
    BY <2>1 DEF PendingSends
  <2>5. Token(l)!Mint(a, b.amount)
    BY <1>2, <1>4, <1>5, <1>7, <2>1, <2>2, <2>3, <2>4 DEF Token!Mint
  <2>6. QED
    BY <1>2, <2>3, <2>5 DEF Token!TokenNext
<1>8. CASE b.kind = "Send"
  <2>1. /\ send_index'[l] = send_index[l] \cup {e}
        /\ consumed_sends'[l] = consumed_sends[l]
        /\ total_supply'[l] = total_supply[l]
    BY <1>1, <1>8, AcceptedIndices
  <2>2. /\ b.amount > 0 /\ b.destination \in Accounts \ {a}
        /\ TipBalance(s) = b.balance + b.amount
    BY <1>1, <1>8, AcceptedBalance
  <2>3. (\A q \in send_index[l] : q.hash # b.hash) /\ b.hash \notin consumed_sends[l]
    BY AcceptedSendIsNew
  <2>4. pending' = pending \cup {e} /\ \A q \in pending : q.hash # e.hash
    BY <1>1, <2>1, <2>3 DEF PendingSends
  <2>5. opened' = opened /\ a \in opened
    BY <1>2, <1>4, <1>5, <1>8
  <2>6. b.amount <= funds[a] /\ b.balance = funds[a] - b.amount
    BY <1>5, <1>6, <2>2
  <2>7. Token(l)!Transfer(a, e)
    BY <1>1, <1>4, <2>1, <2>2, <2>3, <2>4, <2>5, <2>6 DEF Token!Transfer
  <2>8. e \in [hash : Accounts \X (1 .. MaxBlocks), destination : Accounts,
               amount : 1 .. TotalSupply]
    <3>1. b.hash[2] <= vclock[b.account] /\ b.hash[1] = b.account
      BY DEF IndInv, HashInv
    <3>2. vclock[b.account] \in 0 .. MaxBlocks
      BY <1>1, <1>2 DEF IndInv, TypeOK, AccountTypeOK
    <3>3. b.hash \in Accounts \X (1 .. MaxBlocks)
      BY <1>6, <3>1, <3>2 DEF Hashes
    <3>4. TipBalance(s) <= MaxPerAccount
      <4>1. Last(s) = s[Len(s)] /\ Len(s) \in 1 .. Len(s) /\ TipBalance(s) = Last(s).balance
        BY <1>2, <1>8, TipFacts
      <4>2. Last(s) \in net
        BY <1>1, <1>2, <4>1 DEF IndInv, LedgerInv
      <4>3. QED
        BY <4>1, <4>2 DEF IndInv, BlockInv, Sound
    <3>5. b.amount \in 1 .. TotalSupply
      BY <1>6, <2>2, <3>4
    <3>6. QED
      BY <1>1, <2>2, <3>3, <3>5
  <2>9. QED
    BY <1>2, <2>7, <2>8 DEF Token!TokenNext
<1>9. CASE b.kind = "Receive"
  <2>1. /\ send_index'[l] = send_index[l]
        /\ consumed_sends'[l] = consumed_sends[l] \cup {b.source_hash}
        /\ total_supply'[l] = total_supply[l]
    BY <1>9, AcceptedIndices
  <2>2. PICK x \in send_index[l] : /\ x.hash = b.source_hash
                                   /\ x.destination = a
                                   /\ x.hash \notin consumed_sends[l]
                                   /\ b.balance = TipBalance(s) + x.amount
    BY <1>1, <1>9, AcceptedBalance
  <2>3. x \in pending /\ pending' = pending \ {x}
    <3>1. \A y \in send_index[l] : y.hash = x.hash => y = x
      BY IndexedOnce
    <3>2. QED
      BY <2>1, <2>2, <3>1 DEF PendingSends
  <2>4. opened' = opened /\ a \in opened
    BY <1>2, <1>4, <1>5, <1>9
  <2>5. Token(l)!Settle(x)
    BY <1>4, <1>5, <2>1, <2>2, <2>3, <2>4 DEF Token!Settle
  <2>6. QED
    BY <2>3, <2>5 DEF Token!TokenNext
<1>10. QED
  BY <1>2, <1>7, <1>8, <1>9 DEF Block, BlockKinds

(* The steps that change no ledger. *)
LEMMA OtherSteps ==
  ASSUME [Next]_vars, ~\E l \in Ledgers, b \in net : Accept(l, b)
  PROVE  UNCHANGED <<chains, send_index, consumed_sends, total_supply>>
<1>1. ASSUME NEW a \in Accounts, NEW n, OpenAccount(a, n)
      PROVE  UNCHANGED ledgerVars
  BY <1>1 DEF OpenAccount
<1>2. ASSUME NEW a \in Accounts, NEW d, NEW n, SendFunds(a, d, n)
      PROVE  UNCHANGED ledgerVars
  BY <1>2 DEF SendFunds
<1>3. ASSUME NEW a \in Accounts, NEW b, ReceiveFunds(a, b)
      PROVE  UNCHANGED ledgerVars
  BY <1>3 DEF ReceiveFunds
<1>4. ASSUME NEW a \in Accounts, RollBack(a)
      PROVE  UNCHANGED ledgerVars
  BY <1>4 DEF RollBack
<1>5. ASSUME NEW l \in Ledgers, NEW b \in net, Refuse(l, b)
      PROVE  UNCHANGED <<chains, send_index, consumed_sends, total_supply>>
  BY <1>5 DEF Refuse, RefuseBlock
<1>6. CASE UNCHANGED vars
  BY <1>6 DEF vars, ledgerVars
<1>7. QED
  BY <1>1, <1>2, <1>3, <1>4, <1>5, <1>6 DEF Next, ledgerVars

LEMMA TokenUnchanged ==
  ASSUME NEW m \in Ledgers, chains'[m] = chains[m], send_index'[m] = send_index[m],
         consumed_sends'[m] = consumed_sends[m], total_supply'[m] = total_supply[m]
  PROVE  /\ UNCHANGED Token(m)!tokenVars
         /\ Token(m)!MoneyConserved => Token(m)!MoneyConserved'
<1>1. PendingSends(m)' = PendingSends(m)
  BY DEF PendingSends
<1>2. [a \in Accounts |-> TipBalance(chains'[m][a])] = [a \in Accounts |-> TipBalance(chains[m][a])]
  OBVIOUS
<1>3. UNCHANGED Token(m)!tokenVars
  BY <1>1, <1>2 DEF Token!tokenVars
<1>4. QED
  BY <1>1, <1>2, <1>3 DEF Token!MoneyConserved

(* Every ledger implements TokenLedger: add_block creates money only by an Open
   under the supply ceiling, takes a Send out of a balance that covers it, and
   credits it once, to the account it was meant for. *)
THEOREM LedgersImplementTokenLedger == Spec => LedgersAreTokenLedgers
<1> DEFINE Step == \A l \in Ledgers : UNCHANGED Token(l)!tokenVars \/ Token(l)!TokenNext
<1>1. Init => \A l \in Ledgers : Token(l)!TokenInit
  BY DEF Init, LedgerInit, Token!TokenInit, TipBalance, PendingSends
<1>2. IndInv /\ [Next]_vars => [Step]_vars
  <2> SUFFICES ASSUME IndInv, [Next]_vars, NEW m \in Ledgers
               PROVE  UNCHANGED Token(m)!tokenVars \/ Token(m)!TokenNext
    OBVIOUS
  <2>1. CASE \E l \in Ledgers, b \in net : Accept(l, b)
    <3>1. PICK l \in Ledgers, b \in net : Accept(l, b)
      BY <2>1
    <3>2. AcceptBlock(l, b)
      BY <3>1 DEF Accept
    <3>3. CASE m = l
      BY <3>2, <3>3, AcceptIsTokenStep
    <3>4. CASE m # l
      <4>1. chains'[m] = chains[m]
        BY <3>2, <3>4, AcceptedBlock
      <4>2. /\ send_index'[m] = send_index[m] /\ consumed_sends'[m] = consumed_sends[m]
            /\ total_supply'[m] = total_supply[m]
        BY <3>2, <3>4, AcceptedIndices
      <4>3. QED
        BY <4>1, <4>2, TokenUnchanged
    <3>5. QED
      BY <3>3, <3>4
  <2>2. CASE ~\E l \in Ledgers, b \in net : Accept(l, b)
    BY <2>2, OtherSteps, TokenUnchanged
  <2>3. QED
    BY <2>1, <2>2
<1> HIDE DEF Step
<1>3. QED
  BY <1>1, <1>2, Invariance, PTL DEF Spec, LedgersAreTokenLedgers, Step

-----------------------------------------------------------------------------
(* Conservation. *)

(* The amounts of a set of records, with one more or one less of them. *)
LEMMA AmountAdded ==
  ASSUME NEW P, IsFiniteSet(P), \A p \in P : p.amount \in Nat,
         NEW q, q \notin P, q.amount \in Nat
  PROVE  /\ SumOver([p \in P |-> p.amount], P) \in Nat
         /\ SumOver([p \in P \cup {q} |-> p.amount], P \cup {q})
              = SumOver([p \in P |-> p.amount], P) + q.amount
<1> DEFINE f == [p \in P |-> p.amount]
           g == [p \in P \cup {q} |-> p.amount]
<1>1. /\ \A x \in P : f[x] \in Nat
      /\ \A x \in P \cup {q} : g[x] \in Int
      /\ \A x \in P : g[x] = f[x]
      /\ g[q] = q.amount
  OBVIOUS
<1> HIDE DEF f, g
<1>2. SumOver(f, P) \in Nat
  BY <1>1, SumNat
<1>3. SumOver(g, P \cup {q}) = g[q] + SumOver(g, P)
  BY <1>1, SumAdd
<1>4. SumOver(g, P) = SumOver(f, P)
  BY <1>1, SumAgree
<1>5. SumOver(g, P \cup {q}) = SumOver(f, P) + q.amount
  BY <1>1, <1>2, <1>3, <1>4
<1>6. QED
  BY <1>2, <1>5 DEF f, g

LEMMA AmountRemoved ==
  ASSUME NEW P, IsFiniteSet(P), \A p \in P : p.amount \in Nat, NEW q \in P
  PROVE  /\ SumOver([p \in P \ {q} |-> p.amount], P \ {q}) \in Nat
         /\ SumOver([p \in P |-> p.amount], P)
              = SumOver([p \in P \ {q} |-> p.amount], P \ {q}) + q.amount
<1>1. PICK R : R = P \ {q}
  OBVIOUS
<1>2. P = R \cup {q} /\ q \notin R
  BY <1>1
<1>3. IsFiniteSet(R)
  BY <1>1, FS_Subset
<1>4. /\ SumOver([p \in R |-> p.amount], R) \in Nat
      /\ SumOver([p \in R \cup {q} |-> p.amount], R \cup {q})
           = SumOver([p \in R |-> p.amount], R) + q.amount
  BY <1>2, <1>3, AmountAdded
<1>5. QED
  BY <1>1, <1>2, <1>4

(* The sum of the funds after one account's have changed. *)
LEMMA FundsChanged ==
  ASSUME NEW f \in [Accounts -> Nat], NEW a \in Accounts, NEW n \in Nat
  PROVE  SumOver([f EXCEPT ![a] = n], Accounts) = SumOver(f, Accounts) - f[a] + n
<1>1. PICK g : g = [f EXCEPT ![a] = n]
  OBVIOUS
<1>2. /\ g[a] = n /\ g[a] \in Int
      /\ \A x \in Accounts \ {a} : g[x] = f[x]
      /\ \A x \in Accounts : f[x] \in Int
  BY <1>1
<1>3. SumOver(g, Accounts) = SumOver(f, Accounts) - f[a] + g[a]
  BY <1>2, FiniteAccounts, SumChange
<1>4. QED
  BY <1>1, <1>2, <1>3

(* TokenLedger's sums are those of the lemmas about sums. *)
LEMMA TokenSum ==
  ASSUME NEW l, NEW f, NEW S
  PROVE  Token(l)!SumOver(f, S) = SumOver(f, S)
BY DEF Token!SumOver, Token!MapThenSumSet, Token!MapThenFoldSet,
       SumOver, MapThenSumSet, MapThenFoldSet

(* A step of a TokenLedger keeps the sum of the funds and the pending amounts
   equal to what was minted. *)
LEMMA TokenStepConserves ==
  ASSUME NEW l \in Ledgers, Token(l)!TokenNext, Token(l)!MoneyConserved,
         total_supply'[l] <= TotalSupply,
         \A a \in Accounts : TipBalance(chains[l][a]) \in Nat,
         IsFiniteSet(PendingSends(l)),
         \A p \in PendingSends(l) : p.amount \in Nat,
         total_supply[l] \in Nat
  PROVE  Token(l)!MoneyConserved'
<1> DEFINE opened == {c \in Accounts : chains[l][c] # <<>>}
           F == [c \in Accounts |-> TipBalance(chains[l][c])]
           G == [c \in Accounts |-> TipBalance(chains'[l][c])]
           P == PendingSends(l)
           Q == PendingSends(l)'
           Owed(R) == SumOver([p \in R |-> p.amount], R)
<1>1. total_supply[l] = SumOver(F, Accounts) + Owed(P)
  BY TokenSum DEF Token!MoneyConserved
<1>2. \A a \in Accounts : F[a] \in Nat
  OBVIOUS
<1>3. SumOver(F, Accounts) \in Nat
  BY <1>2, FiniteAccounts, SumNat
<1>4. Owed(P) \in Nat
  <2>1. \A p \in P : [x \in P |-> x.amount][p] \in Nat
    OBVIOUS
  <2>2. QED
    BY <2>1, SumNat
<1>5. SUFFICES total_supply'[l] = SumOver(G, Accounts) + Owed(Q)
  BY TokenSum DEF Token!MoneyConserved
<1>6. ASSUME NEW a \in Accounts, NEW n \in Nat, G = [F EXCEPT ![a] = n]
      PROVE  SumOver(G, Accounts) = SumOver(F, Accounts) - F[a] + n
  <2>1. F \in [Accounts -> Nat]
    OBVIOUS
  <2> HIDE DEF F, G
  <2>2. QED
    BY <1>6, <2>1, FundsChanged
<1>7. ASSUME NEW a \in Accounts, NEW n \in 0 .. TotalSupply, Token(l)!Mint(a, n)
      PROVE  total_supply'[l] = SumOver(G, Accounts) + Owed(Q)
  <2>1. /\ a \notin opened /\ G = [F EXCEPT ![a] = n] /\ Q = P
        /\ total_supply'[l] = total_supply[l] + n
    BY <1>7 DEF Token!Mint
  <2>2. F[a] = 0
    BY <2>1 DEF TipBalance
  <2> HIDE DEF F, G, P, Q
  <2>3. n \in Nat
    OBVIOUS
  <2>4. SumOver(G, Accounts) = SumOver(F, Accounts) - F[a] + n
    BY <1>6, <2>1, <2>3
  <2>5. QED
    BY <1>1, <1>3, <1>4, <2>1, <2>2, <2>3, <2>4
<1>8. ASSUME NEW a \in Accounts,
             NEW p \in [hash : Accounts \X (1 .. MaxBlocks), destination : Accounts,
                        amount : 1 .. TotalSupply],
             Token(l)!Transfer(a, p)
      PROVE  total_supply'[l] = SumOver(G, Accounts) + Owed(Q)
  <2>1. /\ G = [F EXCEPT ![a] = F[a] - p.amount] /\ p.amount <= F[a]
        /\ Q = P \cup {p} /\ \A q \in P : q.hash # p.hash
        /\ total_supply'[l] = total_supply[l]
    BY <1>8 DEF Token!Transfer
  <2>2. p.amount \in Nat
    OBVIOUS
  <2>3. p \notin P
    BY <2>1
  <2>4. F[a] \in Nat /\ F[a] - p.amount \in Nat
    BY <1>2, <2>1, <2>2
  <2>5. Owed(Q) = Owed(P) + p.amount
    <3> HIDE DEF P, Q
    <3>1. IsFiniteSet(P) /\ \A q \in P : q.amount \in Nat
      BY DEF P
    <3>2. QED
      BY <2>1, <2>2, <2>3, <3>1, AmountAdded
  <2> HIDE DEF F, G, P, Q
  <2>6. SumOver(G, Accounts) = SumOver(F, Accounts) - F[a] + (F[a] - p.amount)
    BY <1>6, <2>1, <2>4
  <2> HIDE DEF Owed
  <2>7. QED
    BY <1>1, <1>3, <1>4, <2>1, <2>2, <2>4, <2>5, <2>6
<1>9. ASSUME NEW p \in P, Token(l)!Settle(p)
      PROVE  total_supply'[l] = SumOver(G, Accounts) + Owed(Q)
  <2>1. /\ p.destination \in Accounts
        /\ G = [F EXCEPT ![p.destination] = F[p.destination] + p.amount]
        /\ Q = P \ {p} /\ total_supply'[l] = total_supply[l]
    BY <1>9 DEF Token!Settle
  <2>2. p.amount \in Nat
    OBVIOUS
  <2>3. F[p.destination] \in Nat /\ F[p.destination] + p.amount \in Nat
    BY <1>2, <2>1, <2>2
  <2>4. Owed(P) = Owed(Q) + p.amount /\ Owed(Q) \in Nat
    <3>1. IsFiniteSet(P) /\ \A q \in P : q.amount \in Nat
      OBVIOUS
    <3> HIDE DEF P, Q
    <3>2. QED
      BY <2>1, <3>1, AmountRemoved
  <2> HIDE DEF F, G, P, Q
  <2>5. SumOver(G, Accounts)
          = SumOver(F, Accounts) - F[p.destination] + (F[p.destination] + p.amount)
    BY <1>6, <2>1, <2>3
  <2> HIDE DEF Owed
  <2>6. QED
    BY <1>1, <1>3, <1>4, <2>1, <2>2, <2>3, <2>4, <2>5
<1>10. QED
  BY <1>7, <1>8, <1>9 DEF Token!TokenNext

-----------------------------------------------------------------------------
(* The books: what the sums and Convergence need beside IndInv. *)

(* A step signs at most one block, on top of blocks signed before. *)
LEMMA NetGrows ==
  ASSUME IndInv, [Next]_vars
  PROVE  \/ net' = net
         \/ \E nb \in Block :
              /\ net' = net \cup {nb}
              /\ nb.account \in Accounts
              /\ nb.hash = <<nb.account, vclock[nb.account] + 1>>
              /\ nb.previous = TipHash(chain[nb.account])
              /\ nb.kind = "Receive" => \E s \in net : s.hash = nb.source_hash
<1> DEFINE Signed(a, kind, amount, dest, src, bal, n) ==
             \E nb \in Block :
               /\ net' = net \cup {nb}
               /\ nb.account \in Accounts
               /\ nb.hash = <<nb.account, vclock[nb.account] + 1>>
               /\ nb.previous = TipHash(chain[nb.account])
               /\ nb.kind = "Receive" => \E s \in net : s.hash = nb.source_hash
<1>1. ASSUME NEW a \in Accounts, NEW kind \in BlockKinds, NEW amount \in Nat,
             NEW dest \in Accounts \cup {NoAccount}, NEW src \in Hashes \cup {NoHash},
             NEW bal \in 0 .. MaxPerAccount, NEW n \in Nat,
             SignBlock(a, kind, amount, dest, src, bal, n), Publish(a),
             kind = "Receive" => \E s \in net : s.hash = src
      PROVE  Signed(a, kind, amount, dest, src, bal, n)
  <2>1. PICK nb : nb = NewBlock(a, kind, amount, dest, src, bal, n)
    OBVIOUS
  <2>2. nb \in Block /\ net' = net \cup {nb}
    BY <1>1, <2>1, SignedBlock DEF IndInv
  <2>3. /\ nb.account = a /\ nb.hash = <<a, vclock[a] + 1>>
        /\ nb.previous = TipHash(chain[a]) /\ nb.kind = kind /\ nb.source_hash = src
    BY <2>1 DEF NewBlock
  <2>4. QED
    BY <1>1, <2>2, <2>3
<1> HIDE DEF Signed
<1>2. ASSUME NEW a \in Accounts, NEW n \in Nat, OpenAccount(a, n)
      PROVE  Signed(a, "Open", n, NoAccount, NoHash, n, 1)
  <2>1. /\ SignBlock(a, "Open", n, NoAccount, NoHash, n, 1) /\ Publish(a)
        /\ n \in 0 .. MaxPerAccount
    BY <1>2 DEF OpenAccount, Open
  <2>2. "Open" \in BlockKinds /\ n \in Nat
    BY DEF BlockKinds
  <2>3. QED
    BY <1>1, <2>1, <2>2
<1>3. ASSUME NEW a \in Accounts, NEW d \in Accounts, NEW n \in Nat, SendFunds(a, d, n)
      PROVE  Signed(a, "Send", n, d, NoHash, balance[a] - n, nonce[a] + 1)
  <2>1. /\ SignBlock(a, "Send", n, d, NoHash, balance[a] - n, nonce[a] + 1)
        /\ Publish(a) /\ balance[a] >= n
    BY <1>3 DEF SendFunds, Send
  <2>2. "Send" \in BlockKinds /\ n \in Nat
    BY DEF BlockKinds
  <2>3. balance[a] - n \in 0 .. MaxPerAccount /\ nonce[a] + 1 \in Nat
    BY <2>1, <2>2, CachedFields
  <2>4. QED
    BY <1>1, <2>1, <2>2, <2>3
<1>4. ASSUME NEW a \in Accounts, NEW b \in net, ReceiveFunds(a, b)
      PROVE  Signed(a, "Receive", 0, NoAccount, b.hash, balance[a] + b.amount, nonce[a] + 1)
  <2>1. /\ SignBlock(a, "Receive", 0, NoAccount, b.hash, balance[a] + b.amount, nonce[a] + 1)
        /\ Publish(a) /\ balance[a] + b.amount <= MaxPerAccount
    BY <1>4 DEF ReceiveFunds, Receive
  <2>2. "Receive" \in BlockKinds /\ b.hash \in Hashes /\ b.amount \in Nat
    BY DEF BlockKinds, IndInv, TypeOK, Block
  <2>3. balance[a] + b.amount \in 0 .. MaxPerAccount /\ nonce[a] + 1 \in Nat
    BY <2>1, <2>2, CachedFields
  <2>4. QED
    BY <1>1, <2>1, <2>2, <2>3
<1>5. ASSUME NEW a \in Accounts, RollBack(a) PROVE net' = net
  BY <1>5 DEF RollBack
<1>6. ASSUME NEW l \in Ledgers, NEW b \in net, Accept(l, b) \/ Refuse(l, b)
      PROVE  net' = net
  BY <1>6 DEF Accept, Refuse
<1>7. CASE UNCHANGED vars
  BY <1>7 DEF vars
<1>8. QED
  BY <1>2, <1>3, <1>4, <1>5, <1>6, <1>7, Steps DEF Signed

LEMMA GroundedStep ==
  ASSUME IndInv, Grounded, [Next]_vars
  PROVE  Grounded'
<1>1. CASE net' = net
  BY <1>1 DEF Grounded
<1>2. ASSUME NEW nb \in Block,
             net' = net \cup {nb},
             nb.account \in Accounts,
             nb.hash = <<nb.account, vclock[nb.account] + 1>>,
             nb.previous = TipHash(chain[nb.account]),
             nb.kind = "Receive" => \E s \in net : s.hash = nb.source_hash
      PROVE  Grounded'
  <2>1. \A p \in net : p.hash # nb.hash
    <3>1. ASSUME NEW p \in net, p.hash = nb.hash PROVE FALSE
      <4>1. p.hash[1] = p.account /\ p.hash[2] <= vclock[p.account]
        BY DEF IndInv, HashInv
      <4>2. p.account = nb.account /\ p.hash[2] = vclock[nb.account] + 1
        BY <1>2, <3>1, <4>1
      <4>3. vclock[nb.account] \in Nat
        BY <1>2 DEF IndInv, TypeOK, AccountTypeOK
      <4>4. QED
        BY <4>1, <4>2, <4>3
    <3>2. QED
      BY <3>1
  <2>2. nb.hash # NoHash
    BY DEF Block
  <2>3. ASSUME NEW c \in net PROVE ~RefersTo(c, nb)
    <3>1. c.previous # NoHash => \E p \in net : p.hash = c.previous
      BY DEF IndInv, BlockInv, Sound
    <3>2. c.kind = "Receive" => \E p \in net : p.hash = c.source_hash
      BY DEF Grounded
    <3>3. QED
      BY <2>1, <2>2, <3>1, <3>2 DEF RefersTo
  <2>4. ~RefersTo(nb, nb)
    <3>1. nb.hash # nb.previous
      <4>1. CASE chain[nb.account] = <<>>
        BY <1>2, <2>2, <4>1 DEF TipHash
      <4>2. CASE chain[nb.account] # <<>>
        <5>1. chain[nb.account] \in Seq(Block)
          BY <1>2 DEF IndInv, TypeOK, AccountTypeOK
        <5>2. Last(chain[nb.account]) \in net /\ nb.previous = Last(chain[nb.account]).hash
          BY <1>2, <4>2, <5>1, TipFacts DEF IndInv, AccountInv
        <5>3. QED
          BY <2>1, <5>2
      <4>3. QED
        BY <4>1, <4>2
    <3>2. QED
      BY <1>2, <2>1, <3>1 DEF RefersTo
  <2>5. \A b \in net' : b.kind = "Receive" => \E s \in net' : s.hash = b.source_hash
    BY <1>2 DEF Grounded
  <2>6. ASSUME NEW S \in SUBSET net', S # {}
        PROVE  \E b \in S : \A p \in S : ~RefersTo(b, p)
    <3>1. CASE S \ {nb} = {}
      BY <2>4, <2>6, <3>1
    <3>2. CASE S \ {nb} # {}
      <4>1. S \ {nb} \in SUBSET net
        BY <1>2
      <4>2. PICK b \in S \ {nb} : \A p \in S \ {nb} : ~RefersTo(b, p)
        BY <3>2, <4>1 DEF Grounded
      <4>3. ~RefersTo(b, nb)
        BY <2>3, <4>1
      <4>4. QED
        BY <4>2, <4>3
    <3>3. QED
      BY <3>1, <3>2
  <2>7. QED
    BY <2>5, <2>6 DEF Grounded, RefersTo
<1>3. QED
  BY <1>1, <1>2, NetGrows

(* The first blocks of a ledger's chains after it has accepted b. *)
LEMMA AcceptedFirst ==
  ASSUME IndInv, NEW l \in Ledgers, NEW b \in net, AcceptBlock(l, b)
  PROVE  /\ b.kind = "Open" => /\ FirstBlocks(l)' = FirstBlocks(l) \cup {b}
                               /\ b \notin FirstBlocks(l)
         /\ b.kind # "Open" => FirstBlocks(l)' = FirstBlocks(l)
<1>1. PICK a, s : a = b.account /\ s = chains[l][a]
  OBVIOUS
<1>2. /\ b \in Block /\ a \in Accounts /\ s \in Seq(Block)
      /\ (s = <<>>) <=> (b.kind = "Open")
      /\ chains'[l][a] = Append(s, b)
      /\ \A c \in Accounts \ {a} : chains'[l][c] = chains[l][c]
  BY <1>1, AcceptedBlock
<1>3. /\ Append(s, b) # <<>>
      /\ s = <<>> => Append(s, b)[1] = b
      /\ s # <<>> => Append(s, b)[1] = s[1]
  <2>1. /\ Append(s, b) # <<>>
        /\ Append(s, b)[Len(s) + 1] = b
        /\ \A i \in 1 .. Len(s) : Append(s, b)[i] = s[i]
    BY <1>2, PushFacts
  <2>2. s # <<>> => 1 \in 1 .. Len(s)
    BY <1>2
  <2>3. QED
    BY <2>1, <2>2
<1>4. ASSUME b.kind = "Open", b \in FirstBlocks(l) PROVE FALSE
  <2>1. PICK c \in Accounts : chains[l][c] # <<>> /\ chains[l][c][1] = b
    BY <1>4 DEF FirstBlocks
  <2>2. chains[l][c] \in Seq(Block)
    BY DEF IndInv, TypeOK, LedgerTypeOK
  <2>3. b.account = c
    BY <2>1, <2>2 DEF IndInv, LedgerInv, Linked
  <2>4. QED
    BY <1>1, <1>2, <1>4, <2>1, <2>3
<1>5. ASSUME b.kind = "Open" PROVE FirstBlocks(l)' = FirstBlocks(l) \cup {b}
  BY <1>1, <1>2, <1>3, <1>5 DEF FirstBlocks
<1>6. ASSUME b.kind # "Open" PROVE FirstBlocks(l)' = FirstBlocks(l)
  BY <1>1, <1>2, <1>3, <1>6 DEF FirstBlocks
<1>7. QED
  BY <1>4, <1>5, <1>6

(* The first blocks of a ledger's chains are Opens that were signed. *)
LEMMA FirstBlocksSigned ==
  ASSUME IndInv, NEW l \in Ledgers
  PROVE  FirstBlocks(l) \subseteq {b \in net : b.kind = "Open"}
<1> SUFFICES ASSUME NEW c \in Accounts, chains[l][c] # <<>>
             PROVE  chains[l][c][1] \in net /\ chains[l][c][1].kind = "Open"
  BY DEF FirstBlocks
<1>1. chains[l][c] \in Seq(Block)
  BY DEF IndInv, TypeOK, LedgerTypeOK
<1>2. 1 \in 1 .. Len(chains[l][c])
  BY <1>1
<1>3. QED
  BY <1>2 DEF IndInv, LedgerInv

LEMMA BooksAccept ==
  ASSUME IndInv, BooksInv, IndInv', NEW l \in Ledgers, NEW b \in net, Accept(l, b)
  PROVE  /\ FiniteInv' /\ SendsIndexed' /\ ConsumedReceived'
         /\ SupplyInv' /\ Conservation'
<1>1. PICK a, n, e : /\ a = b.account /\ n = Len(chains[l][a]) + 1
                     /\ e = [hash |-> b.hash, destination |-> b.destination,
                             amount |-> b.amount]
  OBVIOUS
<1>2. AcceptBlock(l, b) /\ net' = net
  BY DEF Accept
<1>3. \A m \in Ledgers \ {l} : chains'[m] = chains[m]
  BY <1>2, AcceptedBlock
<1>4. /\ send_index'[l] = (IF b.kind = "Send" THEN send_index[l] \cup {e}
                                              ELSE send_index[l])
      /\ total_supply'[l] = (IF b.kind = "Open" THEN total_supply[l] + b.amount
                                                ELSE total_supply[l])
      /\ \A m \in Ledgers \ {l} : /\ send_index'[m] = send_index[m]
                                   /\ consumed_sends'[m] = consumed_sends[m]
                                   /\ total_supply'[m] = total_supply[m]
  BY <1>1, <1>2, AcceptedIndices
<1>5. FiniteInv'
  <2>1. \A m \in Ledgers : IsFiniteSet(send_index[m])
    BY DEF BooksInv, FiniteInv
  <2>2. IsFiniteSet(send_index[l] \cup {e})
    BY <2>1, FS_AddElement
  <2>3. IsFiniteSet(send_index'[l])
    BY <1>4, <2>1, <2>2
  <2>4. \A m \in Ledgers : IsFiniteSet(send_index'[m])
    BY <1>4, <2>1, <2>3
  <2>5. QED
    BY <1>2, <2>4 DEF BooksInv, FiniteInv
<1>6. SendsIndexed'
  <2>1. ASSUME NEW c \in Accounts, NEW i \in 1 .. Len(chains'[l][c]),
               chains'[l][c][i].kind = "Send"
        PROVE  \E x \in send_index'[l] : x.hash = chains'[l][c][i].hash
    <3>1. \/ i \in 1 .. Len(chains[l][c]) /\ chains'[l][c][i] = chains[l][c][i]
          \/ chains'[l][c][i] = b
      BY <1>1, <1>2, AcceptedPositions
    <3>2. CASE i \in 1 .. Len(chains[l][c]) /\ chains'[l][c][i] = chains[l][c][i]
      <4>1. \E x \in send_index[l] : x.hash = chains[l][c][i].hash
        BY <2>1, <3>2 DEF BooksInv, SendsIndexed
      <4>2. QED
        BY <1>4, <3>2, <4>1
    <3>3. CASE chains'[l][c][i] = b
      BY <1>1, <1>4, <2>1, <3>3
    <3>4. QED
      BY <3>1, <3>2, <3>3
  <2>2. ASSUME NEW m \in Ledgers, m # l
        PROVE  chains'[m] = chains[m] /\ send_index'[m] = send_index[m]
    BY <1>3, <1>4, <2>2
  <2>3. QED
    BY <2>1, <2>2 DEF BooksInv, SendsIndexed
<1>7. SupplyInv'
  <2> SUFFICES ASSUME NEW m \in Ledgers
               PROVE  total_supply'[m] = SumOver([x \in FirstBlocks(m)' |-> x.amount],
                                                 FirstBlocks(m)')
    BY DEF SupplyInv
  <2>1. total_supply[m] = SumOver([x \in FirstBlocks(m) |-> x.amount], FirstBlocks(m))
    BY DEF BooksInv, SupplyInv
  <2>2. CASE m # l
    <3>1. FirstBlocks(m)' = FirstBlocks(m)
      BY <1>3, <2>2 DEF FirstBlocks
    <3>2. QED
      BY <1>4, <2>1, <2>2, <3>1
  <2>3. CASE m = l /\ b.kind # "Open"
    <3>1. FirstBlocks(l)' = FirstBlocks(l)
      BY <1>2, <2>3, AcceptedFirst
    <3>2. QED
      BY <1>4, <2>1, <2>3, <3>1
  <2>4. CASE m = l /\ b.kind = "Open"
    <3>1. PICK P : P = FirstBlocks(l)
      OBVIOUS
    <3>2. FirstBlocks(l)' = P \cup {b} /\ b \notin P
      BY <1>2, <2>4, <3>1, AcceptedFirst
    <3>3. P \subseteq net /\ IsFiniteSet(P)
      BY <3>1, FirstBlocksSigned, FS_Subset DEF BooksInv, FiniteInv
    <3>4. \A x \in net : x.amount \in Nat
      BY DEF IndInv, TypeOK, Block
    <3>5. SumOver([x \in P \cup {b} |-> x.amount], P \cup {b})
            = SumOver([x \in P |-> x.amount], P) + b.amount
      BY <3>2, <3>3, <3>4, AmountAdded
    <3>6. QED
      BY <1>4, <2>1, <2>4, <3>1, <3>2, <3>5
  <2>5. QED
    BY <2>2, <2>3, <2>4
<1>8. Conservation'
  <2> SUFFICES ASSUME NEW m \in Ledgers PROVE Token(m)!MoneyConserved'
    BY DEF Conservation
  <2>1. Token(m)!MoneyConserved
    BY DEF BooksInv, Conservation
  <2>2. CASE m # l
    BY <1>3, <1>4, <2>1, <2>2, TokenUnchanged
  <2>3. CASE m = l
    <3>1. Token(l)!TokenNext
      BY <1>2, AcceptIsTokenStep
    <3>2. total_supply[l] \in Nat /\ total_supply'[l] <= TotalSupply
      BY DEF IndInv, TypeOK, LedgerTypeOK
    <3>3. ASSUME NEW c \in Accounts PROVE TipBalance(chains[l][c]) \in Nat
      <4>1. chains[l][c] \in Seq(Block)
        BY DEF IndInv, TypeOK, LedgerTypeOK
      <4>2. chains[l][c] # <<>> => Last(chains[l][c]) \in Block
        BY <4>1, TipFacts
      <4>3. QED
        BY <4>2 DEF TipBalance, Block
    <3>4. PendingSends(l) \subseteq send_index[l] /\ IsFiniteSet(PendingSends(l))
      BY FS_Subset DEF BooksInv, FiniteInv, PendingSends
    <3>5. \A p \in PendingSends(l) : p.amount \in Nat
      BY <3>4 DEF IndInv, TypeOK, LedgerTypeOK, SendInfo
    <3>6. QED
      BY <2>1, <2>3, <3>1, <3>2, <3>3, <3>4, <3>5, TokenStepConserves
  <2>4. QED
    BY <2>2, <2>3
<1>9. ConsumedReceived'
  <2>1. consumed_sends'[l] = (IF b.kind = "Receive"
                              THEN consumed_sends[l] \cup {b.source_hash}
                              ELSE consumed_sends[l])
    BY <1>2, AcceptedIndices
  <2>2. /\ a \in Accounts /\ n \in 1 .. Len(chains'[l][a]) /\ chains'[l][a][n] = b
        /\ \A c \in Accounts : \A i \in 1 .. Len(chains[l][c]) :
             i \in 1 .. Len(chains'[l][c]) /\ chains'[l][c][i] = chains[l][c][i]
    BY <1>1, <1>2, AcceptedPositions
  <2>3. ASSUME NEW h \in consumed_sends'[l]
        PROVE  \E c \in Accounts : \E i \in 1 .. Len(chains'[l][c]) :
                 chains'[l][c][i].kind = "Receive" /\ chains'[l][c][i].source_hash = h
    <3>1. CASE h \in consumed_sends[l]
      <4>1. PICK c \in Accounts : \E i \in 1 .. Len(chains[l][c]) :
                 chains[l][c][i].kind = "Receive" /\ chains[l][c][i].source_hash = h
        BY <3>1 DEF BooksInv, ConsumedReceived
      <4>2. QED
        BY <2>2, <4>1
    <3>2. CASE b.kind = "Receive" /\ h = b.source_hash
      BY <2>2, <3>2
    <3>3. QED
      BY <2>1, <3>1, <3>2
  <2>4. ASSUME NEW m \in Ledgers, m # l
        PROVE  chains'[m] = chains[m] /\ consumed_sends'[m] = consumed_sends[m]
    BY <1>3, <1>4, <2>4
  <2>5. QED
    BY <2>3, <2>4 DEF BooksInv, ConsumedReceived
<1>10. QED
  BY <1>5, <1>6, <1>7, <1>8, <1>9

LEMMA BooksInit == Init => BooksInv
<1> SUFFICES ASSUME Init PROVE BooksInv
  OBVIOUS
<1>1. FiniteInv
  BY FS_EmptySet DEF Init, LedgerInit, FiniteInv
<1>2. SendsIndexed /\ ConsumedReceived
  BY DEF Init, LedgerInit, SendsIndexed, ConsumedReceived
<1>3. SupplyInv
  <2>1. \A l \in Ledgers : FirstBlocks(l) = {}
    BY DEF Init, LedgerInit, FirstBlocks
  <2>2. QED
    BY <2>1, SumEmpty DEF Init, LedgerInit, SupplyInv
<1>4. Conservation
  <2> SUFFICES ASSUME NEW l \in Ledgers PROVE Token(l)!MoneyConserved
    BY DEF Conservation
  <2>1. PICK f : f = [a \in Accounts |-> TipBalance(chains[l][a])]
    OBVIOUS
  <2>2. \A a \in Accounts : f[a] = 0
    BY <2>1 DEF Init, LedgerInit, TipBalance
  <2>3. SumOver(f, Accounts) = 0
    BY <2>2, FiniteAccounts, SumZero
  <2>4. PendingSends(l) = {}
    BY DEF Init, LedgerInit, PendingSends
  <2>5. SumOver([p \in PendingSends(l) |-> p.amount], PendingSends(l)) = 0
    BY <2>4, SumEmpty
  <2>6. total_supply[l] = 0
    BY DEF Init, LedgerInit
  <2>7. QED
    BY <2>1, <2>3, <2>5, <2>6, TokenSum DEF Token!MoneyConserved
<1>5. Grounded
  BY DEF Init, Grounded
<1>6. QED
  BY <1>1, <1>2, <1>3, <1>4, <1>5 DEF BooksInv

LEMMA BooksStep == IndInv /\ BooksInv /\ [Next]_vars => BooksInv'
<1> SUFFICES ASSUME IndInv, BooksInv, [Next]_vars PROVE BooksInv'
  OBVIOUS
<1>1. Grounded'
  BY GroundedStep DEF BooksInv
<1>2. CASE \E l \in Ledgers, b \in net : Accept(l, b)
  BY <1>1, <1>2, NextStep, BooksAccept DEF BooksInv
<1>3. CASE ~\E l \in Ledgers, b \in net : Accept(l, b)
  <2>1. UNCHANGED <<chains, send_index, consumed_sends, total_supply>>
    BY <1>3, OtherSteps
  <2>2. IsFiniteSet(net')
    BY NetGrows, FS_AddElement DEF BooksInv, FiniteInv
  <2>3. FiniteInv'
    BY <2>1, <2>2 DEF BooksInv, FiniteInv
  <2>4. SendsIndexed' /\ ConsumedReceived'
    BY <2>1 DEF BooksInv, SendsIndexed, ConsumedReceived
  <2>5. SupplyInv'
    <3>1. \A l \in Ledgers : FirstBlocks(l)' = FirstBlocks(l)
      BY <2>1 DEF FirstBlocks
    <3>2. QED
      BY <2>1, <3>1 DEF BooksInv, SupplyInv
  <2>6. Conservation'
    BY <2>1, TokenUnchanged DEF BooksInv, Conservation
  <2>7. QED
    BY <1>1, <2>3, <2>4, <2>5, <2>6 DEF BooksInv
<1>4. QED
  BY <1>2, <1>3

(* The indices and sums that add_block maintains agree with the chains in every
   reachable state. *)
THEOREM BooksBalance == Spec => []BooksInv
BY Invariance, BooksInit, BooksStep, PTL DEF Spec

(* total_supply is at every moment what the chains' last balances and the Sends
   that no Receive has credited add up to, in every ledger, for any number of
   accounts and whoever forks. *)
THEOREM MoneyIsConserved == Spec => []Conservation
<1>1. BooksInv => Conservation
  BY DEF BooksInv
<1>2. QED
  BY <1>1, BooksBalance, PTL

-----------------------------------------------------------------------------
(* Convergence. *)

(* Where two ledgers both hold an account's i-th block, it is the same block:
   of an honest account there is only one, and on the others they agree. *)
LEMMA SameBlocks ==
  ASSUME IndInv, NEW l \in Ledgers, NEW m \in Ledgers,
         \A a \in Forkers : chains[l][a] = chains[m][a],
         NEW a \in Accounts, NEW i \in 1 .. Len(chains[l][a]),
         i \in 1 .. Len(chains[m][a])
  PROVE  chains[l][a][i] = chains[m][a][i]
<1>1. CASE a \in Forkers
  BY <1>1
<1>2. CASE a \notin Forkers
  <2>1. /\ chains[l][a][i] \in net /\ chains[l][a][i].account = a /\ chains[l][a][i].nonce = i
        /\ chains[m][a][i] \in net /\ chains[m][a][i].account = a /\ chains[m][a][i].nonce = i
    BY DEF IndInv, LedgerInv, Linked
  <2>2. chain[a][i] = chains[l][a][i] /\ chain[a][i] = chains[m][a][i]
    BY <1>2, <2>1 DEF IndInv, HonestInv
  <2>3. QED
    BY <2>2
<1>3. QED
  BY <1>1, <1>2

(* The supply leaves room for an Open that the ledger does not hold. *)
LEMMA RoomForOpen ==
  ASSUME IndInv, BooksInv, SupplySuffices, NEW l \in Ledgers, NEW b \in net,
         b.kind = "Open", b \notin FirstBlocks(l)
  PROVE  SupplyOK(l, b)
<1>1. PICK P, O : P = FirstBlocks(l) /\ O = {x \in net : x.kind = "Open"}
  OBVIOUS
<1>2. P \cup {b} \subseteq O /\ O \subseteq net
  BY <1>1, FirstBlocksSigned
<1>3. IsFiniteSet(O) /\ IsFiniteSet(P)
  BY <1>2, FS_Subset DEF BooksInv, FiniteInv
<1>4. \A x \in net : x.amount \in Nat
  BY DEF IndInv, TypeOK, Block
<1>5. /\ SumOver([x \in P |-> x.amount], P) \in Nat
      /\ SumOver([x \in P \cup {b} |-> x.amount], P \cup {b})
           = SumOver([x \in P |-> x.amount], P) + b.amount
  BY <1>1, <1>2, <1>3, <1>4, AmountAdded
<1>6. total_supply[l] = SumOver([x \in P |-> x.amount], P)
  BY <1>1 DEF BooksInv, SupplyInv
<1>7. SumOver([x \in P \cup {b} |-> x.amount], P \cup {b})
        <= SumOver([x \in net |-> x.amount], O)
      /\ SumOver([x \in net |-> x.amount], O) \in Nat
  <2>1. PICK f, g, R : /\ f = [x \in P \cup {b} |-> x.amount]
                       /\ g = [x \in net |-> x.amount]
                       /\ R = P \cup {b}
    OBVIOUS
  <2>2. /\ R \in SUBSET O
        /\ \A x \in O : g[x] \in Nat
        /\ \A x \in R : f[x] \in Nat /\ f[x] <= g[x]
    BY <1>2, <1>4, <2>1
  <2>3. SumOver(f, R) <= SumOver(g, O) /\ SumOver(g, O) \in Nat
    BY <1>3, <2>2, SumMonotonic
  <2>4. QED
    BY <2>1, <2>3
<1>8. SumOver([x \in net |-> x.amount], O) <= TotalSupply
  BY <1>1 DEF SupplySuffices
<1>9. total_supply[l] + b.amount <= TotalSupply /\ total_supply[l] + b.amount \in Nat
  BY <1>4, <1>5, <1>6, <1>7, <1>8
<1>10. QED
  BY <1>9 DEF SupplyOK

(* A ledger that can accept no block lacks none that another one holds. *)
LEMMA NoneMissing ==
  ASSUME IndInv, BooksInv, SupplySuffices, NEW l \in Ledgers, NEW m \in Ledgers,
         Saturated(l), \A a \in Forkers : chains[l][a] = chains[m][a]
  PROVE  \A a \in Accounts : Len(chains[m][a]) <= Len(chains[l][a])
<1> DEFINE Missing == {b \in net : /\ b.nonce \in 1 .. Len(chains[m][b.account])
                                   /\ chains[m][b.account][b.nonce] = b
                                   /\ b.nonce > Len(chains[l][b.account])}
<1>0. \A a \in Accounts : /\ chains[l][a] \in Seq(Block) /\ Len(chains[l][a]) \in Nat
                          /\ chains[m][a] \in Seq(Block) /\ Len(chains[m][a]) \in Nat
                          /\ Linked(chains[l][a], a) /\ Linked(chains[m][a], a)
  BY DEF IndInv, TypeOK, LedgerTypeOK, LedgerInv
<1>1. SUFFICES ASSUME Missing # {} PROVE FALSE
  <2>1. ASSUME NEW a \in Accounts, Len(chains[m][a]) > Len(chains[l][a])
        PROVE  FALSE
    <3>1. PICK k : k = Len(chains[m][a])
      OBVIOUS
    <3>2. k \in 1 .. Len(chains[m][a]) /\ k > Len(chains[l][a])
      BY <1>0, <2>1, <3>1
    <3>3. /\ chains[m][a][k] \in net /\ chains[m][a][k].account = a
          /\ chains[m][a][k].nonce = k
      BY <1>0, <3>2 DEF IndInv, LedgerInv, Linked
    <3>4. chains[m][a][k] \in Missing
      BY <3>2, <3>3
    <3>5. QED
      BY <1>1, <3>4
  <2>2. QED
    BY <1>0, <2>1
<1>2. PICK b \in Missing : \A p \in Missing : ~RefersTo(b, p)
  BY <1>1 DEF BooksInv, Grounded
<1>3. PICK a, s, t, k : /\ a = b.account /\ k = b.nonce
                        /\ s = chains[l][a] /\ t = chains[m][a]
  OBVIOUS
<1>4. /\ a \in Accounts /\ k \in Nat /\ b \in Block
      /\ s \in Seq(Block) /\ Len(s) \in Nat /\ t \in Seq(Block) /\ Len(t) \in Nat
      /\ k \in 1 .. Len(t) /\ t[k] = b /\ k > Len(s)
      /\ Linked(s, a) /\ Linked(t, a)
  BY <1>0, <1>2, <1>3 DEF IndInv, TypeOK, Block
<1>5. k = Len(s) + 1
  <2>1. SUFFICES ASSUME k > Len(s) + 1 PROVE FALSE
    BY <1>4
  <2>2. k - 1 \in 1 .. Len(t) /\ k > 1 /\ k - 1 > Len(s)
    BY <1>4, <2>1
  <2>3. /\ t[k-1] \in net /\ t[k-1].account = a /\ t[k-1].nonce = k - 1
    BY <1>3, <1>4, <2>2 DEF IndInv, LedgerInv, Linked
  <2>4. t[k-1] \in Missing
    BY <1>3, <2>2, <2>3
  <2>5. b.previous = t[k-1].hash
    BY <1>4, <2>2 DEF Linked
  <2>6. QED
    BY <1>2, <2>4, <2>5 DEF RefersTo
<1>6. ContinuityOK(l, b)
  <2>1. CASE s = <<>>
    <3>1. k = 1 /\ t # <<>>
      BY <1>4, <1>5, <2>1
    <3>2. b.kind = "Open"
      BY <1>3, <1>4, <3>1 DEF IndInv, LedgerInv
    <3>3. b.previous = NoHash /\ b.nonce = 1
      BY <1>3, <1>4, <3>1 DEF Linked
    <3>4. QED
      BY <1>3, <2>1, <3>2, <3>3 DEF ContinuityOK
  <2>2. CASE s # <<>>
    <3>1. Last(s) = s[Len(s)] /\ Len(s) > 0 /\ Len(s) \in 1 .. Len(s)
      BY <1>4, <2>2, TipFacts
    <3>2. Len(s) \in 1 .. Len(t) /\ k > 1 /\ k - 1 = Len(s)
      BY <1>4, <1>5, <3>1
    <3>3. s[Len(s)] = t[Len(s)]
      <4>1. PICK i : i = Len(s)
        OBVIOUS
      <4>2. i \in 1 .. Len(chains[l][a]) /\ i \in 1 .. Len(chains[m][a])
        BY <1>3, <3>1, <3>2, <4>1
      <4>3. chains[l][a][i] = chains[m][a][i]
        BY <1>4, <4>2, SameBlocks
      <4>4. QED
        BY <1>3, <4>1, <4>3
    <3>4. b.previous = t[k-1].hash
      BY <1>4, <3>2 DEF Linked
    <3>5. Last(s).nonce = Len(s)
      BY <1>4, <3>1 DEF Linked
    <3>6. QED
      BY <1>3, <1>5, <2>2, <3>1, <3>2, <3>3, <3>4, <3>5 DEF ContinuityOK
  <2>3. QED
    BY <2>1, <2>2
<1>7. SupplyOK(l, b)
  <2>1. CASE b.kind = "Open"
    <3>1. b.nonce = 1
      BY <1>2, <2>1 DEF IndInv, BlockInv, Sound
    <3>2. s = <<>>
      BY <1>3, <1>4, <1>5, <3>1
    <3>3. ASSUME b \in FirstBlocks(l) PROVE FALSE
      <4>1. PICK c \in Accounts : chains[l][c] # <<>> /\ chains[l][c][1] = b
        BY <3>3 DEF FirstBlocks
      <4>2. b.account = c
        BY <1>0, <4>1 DEF Linked
      <4>3. QED
        BY <1>3, <3>2, <4>1, <4>2
    <3>4. QED
      BY <1>2, <2>1, <3>3, RoomForOpen
  <2>2. CASE b.kind # "Open"
    BY <2>2 DEF SupplyOK
  <2>3. QED
    BY <2>1, <2>2
<1>8. ASSUME b.kind = "Receive"
      PROVE  \E y \in send_index[l] : /\ y.hash = b.source_hash
                                       /\ y.destination = a
  <2>1. PICK x \in send_index[m] : x.hash = b.source_hash /\ x.destination = a
    BY <1>3, <1>4, <1>8 DEF IndInv, IndexInv
  <2>2. PICK z \in net : /\ z.kind = "Send" /\ z.hash = x.hash
                         /\ z.destination = x.destination
                         /\ z.account \in Accounts
                         /\ z.nonce \in 1 .. Len(chains[m][z.account])
                         /\ chains[m][z.account][z.nonce] = z
    BY IndexedSend
  <2>3. z \notin Missing
    BY <1>2, <1>8, <2>1, <2>2 DEF RefersTo
  <2>4. z.nonce \in 1 .. Len(chains[l][z.account])
    BY <1>0, <2>2, <2>3
  <2>5. chains[l][z.account][z.nonce] = z
    BY <2>2, <2>4, SameBlocks
  <2>6. PICK y \in send_index[l] : y.hash = z.hash
    BY <2>2, <2>4, <2>5 DEF BooksInv, SendsIndexed
  <2>7. PICK w \in net : w.hash = y.hash /\ w.destination = y.destination
    BY IndexedSend
  <2>8. w = z
    BY <2>6, <2>7 DEF IndInv, HashInv
  <2>9. QED
    BY <2>1, <2>2, <2>6, <2>7, <2>8
<1>9. ASSUME b.kind = "Receive", b.source_hash \in consumed_sends[l] PROVE FALSE
  <2>1. PICK c \in Accounts : \E i \in 1 .. Len(chains[l][c]) :
           /\ chains[l][c][i].kind = "Receive"
           /\ chains[l][c][i].source_hash = b.source_hash
    BY <1>9 DEF BooksInv, ConsumedReceived
  <2>2. PICK i \in 1 .. Len(chains[l][c]) :
           /\ chains[l][c][i].kind = "Receive"
           /\ chains[l][c][i].source_hash = b.source_hash
    BY <2>1
  <2>3. PICK x \in send_index[l] : x.hash = b.source_hash /\ x.destination = c
    BY <2>2 DEF IndInv, IndexInv
  <2>4. PICK y \in send_index[l] : y.hash = b.source_hash /\ y.destination = a
    BY <1>8, <1>9
  <2>5. c = a
    BY <2>3, <2>4, IndexedOnce
  <2>6. i \in 1 .. Len(s) /\ i \in 1 .. Len(t) /\ i # k
    BY <1>3, <1>4, <2>5
  <2>7. s[i] = t[i]
    BY <1>3, <1>4, <2>6, SameBlocks
  <2>8. QED
    BY <1>3, <1>4, <1>9, <2>2, <2>5, <2>6, <2>7 DEF IndInv, ReceiveInv
<1>10. SourceOK(l, b)
  BY <1>3, <1>8, <1>9 DEF SourceOK
<1>11. QED
  BY <1>2, <1>6, <1>7, <1>10 DEF Saturated, Acceptable

(* Two ledgers that can take no block of the mesh any more hold the same chains,
   in whatever order add_block was offered the blocks, as far as the supply
   suffices for the Opens and they agree on the accounts that fork. *)
THEOREM LedgersConverge == Spec => []Convergence
<1>1. ASSUME IndInv, BooksInv, SupplySuffices, NEW l \in Ledgers, NEW m \in Ledgers,
             Saturated(l), Saturated(m), \A a \in Forkers : chains[l][a] = chains[m][a]
      PROVE  chains[l] = chains[m]
  <2>1. chains[l] \in [Accounts -> Seq(Block)] /\ chains[m] \in [Accounts -> Seq(Block)]
    BY <1>1 DEF IndInv, TypeOK, LedgerTypeOK
  <2>2. /\ \A a \in Accounts : Len(chains[m][a]) <= Len(chains[l][a])
        /\ \A a \in Accounts : Len(chains[l][a]) <= Len(chains[m][a])
    BY <1>1, NoneMissing
  <2>3. ASSUME NEW a \in Accounts PROVE chains[l][a] = chains[m][a]
    <3>1. /\ chains[l][a] \in Seq(Block) /\ chains[m][a] \in Seq(Block)
          /\ Len(chains[l][a]) = Len(chains[m][a])
      BY <2>1, <2>2
    <3>2. \A i \in 1 .. Len(chains[l][a]) : chains[l][a][i] = chains[m][a][i]
      BY <1>1, <3>1, SameBlocks
    <3>3. QED
      BY <3>1, <3>2, SeqEqual
  <2>4. QED
    BY <2>1, <2>3
<1>2. IndInv /\ BooksInv => Convergence
  BY <1>1 DEF Convergence
<1>3. QED
  BY <1>2, Invariance, BooksBalance, PTL

-----------------------------------------------------------------------------
(* What a device that is never restored remembers. *)

LEMMA SignedRemembered ==
  ASSUME IndInv, RememberInv, NEW a \in Accounts, NEW kind \in BlockKinds,
         NEW amount \in Nat, NEW dest \in Accounts \cup {NoAccount},
         NEW src \in Hashes \cup {NoHash}, NEW bal \in 0 .. MaxPerAccount, NEW n \in Nat,
         SignBlock(a, kind, amount, dest, src, bal, n), Publish(a),
         \A c \in Accounts : consumed_sources[c] \subseteq consumed_sources'[c],
         kind = "Receive" => src \in consumed_sources'[a] \ consumed_sources[a]
  PROVE  RememberInv'
<1>1. PICK nb : nb = NewBlock(a, kind, amount, dest, src, bal, n)
  OBVIOUS
<1>2. nb \in Block /\ chain' = [chain EXCEPT ![a] = Append(chain[a], nb)]
  <2>1. TypeOK
    BY DEF IndInv
  <2> QED
    BY <1>1, <2>1, SignedBlock
<1>3. nb.kind = kind /\ nb.source_hash = src
  BY <1>1 DEF NewBlock
<1>4. chain \in [Accounts -> Seq(Block)]
  BY DEF IndInv, TypeOK, AccountTypeOK
<1>5. PICK s, t : s = chain[a] /\ t = chain'[a]
  OBVIOUS
<1>6. /\ Len(s) \in Nat /\ Len(t) = Len(s) + 1 /\ t[Len(s) + 1] = nb
      /\ \A i \in 1 .. Len(s) : t[i] = s[i]
      /\ \A c \in Accounts \ {a} : chain'[c] = chain[c]
  BY <1>2, <1>4, <1>5
<1>7. ASSUME NEW i, Receives(t, i)
      PROVE  \/ Receives(s, i) /\ t[i] = s[i]
             \/ i = Len(s) + 1 /\ t[i] = nb /\ kind = "Receive"
  BY <1>3, <1>6, <1>7 DEF Receives
<1>8. ASSUME NEW c \in Accounts \ Forkers
      PROVE  /\ \A i : Receives(chain'[c], i) => chain'[c][i].source_hash \in consumed_sources'[c]
             /\ \A i, j : /\ Receives(chain'[c], i) /\ Receives(chain'[c], j)
                          /\ chain'[c][i].source_hash = chain'[c][j].source_hash
                          => i = j
  <2>1. CASE c # a
    BY <1>6, <2>1 DEF RememberInv
  <2>2. CASE c = a
    <3>1. /\ \A i : Receives(s, i) => s[i].source_hash \in consumed_sources[a]
          /\ \A i, j : /\ Receives(s, i) /\ Receives(s, j)
                       /\ s[i].source_hash = s[j].source_hash
                       => i = j
      BY <1>5, <2>2 DEF RememberInv
    <3>2. \A i : Receives(t, i) => t[i].source_hash \in consumed_sources'[a]
      BY <1>3, <1>7, <3>1
    <3>3. ASSUME NEW i, NEW j, Receives(t, i), Receives(t, j),
                 t[i].source_hash = t[j].source_hash
          PROVE  i = j
      <4>1. \A k : Receives(s, k) /\ kind = "Receive" => s[k].source_hash # src
        BY <3>1
      <4>2. \/ Receives(s, i) /\ t[i] = s[i]
            \/ i = Len(s) + 1 /\ t[i] = nb /\ kind = "Receive"
        BY <1>7, <3>3
      <4>3. \/ Receives(s, j) /\ t[j] = s[j]
            \/ j = Len(s) + 1 /\ t[j] = nb /\ kind = "Receive"
        BY <1>7, <3>3
      <4>4. CASE Receives(s, i) /\ t[i] = s[i] /\ Receives(s, j) /\ t[j] = s[j]
        BY <3>1, <3>3, <4>4
      <4> QED
        BY <1>3, <3>3, <4>1, <4>2, <4>3, <4>4
    <3> QED
      BY <1>5, <2>2, <3>2, <3>3
  <2> QED
    BY <2>1, <2>2
<1> QED
  BY <1>8 DEF RememberInv

LEMMA RememberStep == IndInv /\ RememberInv /\ [Next]_vars => RememberInv'
<1> SUFFICES ASSUME IndInv, RememberInv, [Next]_vars PROVE RememberInv'
  OBVIOUS
<1>1. ASSUME NEW a \in Accounts, NEW n \in Nat, OpenAccount(a, n)
      PROVE  RememberInv'
  <2>1. /\ SignBlock(a, "Open", n, NoAccount, NoHash, n, 1) /\ Publish(a)
        /\ n \in 0 .. MaxPerAccount /\ consumed_sources' = consumed_sources
    BY <1>1 DEF OpenAccount, Open
  <2>2. 1 \in Nat /\ "Open" \in BlockKinds
    BY DEF BlockKinds
  <2> QED
    BY <2>1, <2>2, SignedRemembered
<1>2. ASSUME NEW a \in Accounts, NEW d \in Accounts, NEW n \in Nat, SendFunds(a, d, n)
      PROVE  RememberInv'
  <2>1. /\ SignBlock(a, "Send", n, d, NoHash, balance[a] - n, nonce[a] + 1)
        /\ Publish(a) /\ balance[a] >= n /\ consumed_sources' = consumed_sources
    BY <1>2 DEF SendFunds, Send
  <2>2. "Send" \in BlockKinds
    BY DEF BlockKinds
  <2>3. balance[a] - n \in 0 .. MaxPerAccount /\ nonce[a] + 1 \in Nat
    <3>1. balance[a] \in 0 .. MaxPerAccount /\ nonce[a] \in Nat
      BY CachedFields
    <3> QED
      BY <2>1, <3>1
  <2> QED
    BY <2>1, <2>2, <2>3, SignedRemembered
<1>3. ASSUME NEW a \in Accounts, NEW b \in net, ReceiveFunds(a, b)
      PROVE  RememberInv'
  <2>1. /\ SignBlock(a, "Receive", 0, NoAccount, b.hash, balance[a] + b.amount, nonce[a] + 1)
        /\ Publish(a) /\ balance[a] + b.amount <= MaxPerAccount
        /\ b.hash \notin consumed_sources[a]
        /\ consumed_sources' = [consumed_sources EXCEPT ![a] = @ \cup {b.hash}]
    BY <1>3 DEF ReceiveFunds, Receive
  <2>2. "Receive" \in BlockKinds /\ b.hash \in Hashes /\ b.amount \in Nat
    BY DEF BlockKinds, IndInv, TypeOK, Block
  <2>3. balance[a] + b.amount \in 0 .. MaxPerAccount /\ nonce[a] + 1 \in Nat
    BY <2>1, <2>2, CachedFields
  <2>4. /\ \A c \in Accounts : consumed_sources[c] \subseteq consumed_sources'[c]
        /\ b.hash \in consumed_sources'[a]
    <3>1. consumed_sources \in [Accounts -> SUBSET Hashes]
      BY DEF IndInv, TypeOK, AccountTypeOK
    <3> QED
      BY <2>1, <3>1
  <2> QED
    BY <2>1, <2>2, <2>3, <2>4, SignedRemembered
<1>4. ASSUME NEW a \in Accounts, RollBack(a) PROVE RememberInv'
  <2>1. PICK s, known : /\ a \in Forkers
                        /\ chain' = [chain EXCEPT ![a] = s]
                        /\ consumed_sources' = [consumed_sources EXCEPT ![a] = known]
    BY <1>4 DEF RollBack, Rewind
  <2>2. \A c \in Accounts \ Forkers : /\ chain'[c] = chain[c]
                                      /\ consumed_sources'[c] = consumed_sources[c]
    BY <2>1 DEF IndInv, TypeOK, AccountTypeOK
  <2> QED
    BY <2>2 DEF RememberInv
<1>5. ASSUME NEW l \in Ledgers, NEW b \in net, Accept(l, b) \/ Refuse(l, b)
      PROVE  RememberInv'
  <2>1. chain' = chain /\ consumed_sources' = consumed_sources
    BY <1>5 DEF Accept, Refuse, accountVars
  <2> QED
    BY <2>1 DEF RememberInv
<1>6. CASE UNCHANGED vars
  BY <1>6 DEF vars, accountVars, RememberInv
<1> QED
  BY <1>1, <1>2, <1>3, <1>4, <1>5, <1>6, Steps

LEMMA Remembered == Spec => []RememberInv
<1>1. Init => RememberInv
  BY DEF Init, AccountInit, RememberInv, Receives
<1> QED
  BY <1>1, Invariance, RememberStep, PTL DEF Spec

-----------------------------------------------------------------------------
(* An account that received before it was open. *)

(* receive works on a chain without an Open and open refuses one that is not empty, so
   whatever is delivered to it no ledger ever holds a block of such an account, and no
   Send to the account is ever credited. *)
THEOREM UnopenedAccountsStayOut == Spec => []UnopenedStaysOut
<1>1. ASSUME IndInv, ConsumedReceived, NEW a \in Accounts \ Forkers, NEW l \in Ledgers,
             chain[a][1].kind = "Receive"
      PROVE  chains[l][a] = <<>>
  <2> SUFFICES ASSUME chains[l][a] # <<>> PROVE FALSE
    OBVIOUS
  <2>1. PICK s : s = chains[l][a]
    OBVIOUS
  <2>2. /\ s \in Seq(Block) /\ s # <<>> /\ Linked(s, a)
        /\ s[1].kind = "Open" /\ \A i \in 1 .. Len(s) : s[i] \in net
    BY <1>1, <2>1 DEF IndInv, TypeOK, LedgerTypeOK, LedgerInv
  <2>3. 1 \in 1 .. Len(s)
    BY <2>2
  <2>4. s[1] \in net /\ s[1].account = a /\ s[1].nonce = 1
    BY <2>2, <2>3 DEF Linked
  <2>5. chain[a][1] = s[1]
    BY <1>1, <2>4 DEF IndInv, HonestInv
  <2> QED
    BY <1>1, <2>2, <2>5
<1>2. ASSUME IndInv, ConsumedReceived, NEW a \in Accounts, NEW l \in Ledgers,
             chains[l][a] = <<>>, NEW s \in send_index[l], s.destination = a
      PROVE  s.hash \notin consumed_sends[l]
  <2> SUFFICES ASSUME s.hash \in consumed_sends[l] PROVE FALSE
    OBVIOUS
  <2>1. PICK c \in Accounts : \E i \in 1 .. Len(chains[l][c]) :
               chains[l][c][i].kind = "Receive" /\ chains[l][c][i].source_hash = s.hash
    BY <1>2 DEF ConsumedReceived
  <2>2. PICK i \in 1 .. Len(chains[l][c]) :
               chains[l][c][i].kind = "Receive" /\ chains[l][c][i].source_hash = s.hash
    BY <2>1
  <2>3. PICK q \in send_index[l] : q.hash = s.hash /\ q.destination = c
    BY <1>2, <2>2 DEF IndInv, IndexInv
  <2>4. q = s
    BY <1>2, <2>3, IndexedOnce
  <2>5. Len(chains[l][a]) = 0 /\ c = a
    BY <1>2, <2>3, <2>4
  <2> QED
    BY <2>2, <2>5
<1>3. IndInv /\ BooksInv => UnopenedStaysOut
  <2> SUFFICES ASSUME IndInv, BooksInv PROVE UnopenedStaysOut
    OBVIOUS
  <2>1. ConsumedReceived
    BY DEF BooksInv
  <2> QED
    BY <1>1, <1>2, <2>1 DEF UnopenedStaysOut, PendingSends
<1> QED
  BY <1>3, Invariance, BooksBalance, PTL

-----------------------------------------------------------------------------
(* The blocks of a ledger. *)
LEMMA InPartition ==
  ASSUME IndInv, NEW l \in Ledgers, NEW b \in Partition(l)
  PROVE  /\ b \in net /\ b \in Block /\ b.account \in Accounts
         /\ b.nonce \in 1 .. Len(chains[l][b.account])
         /\ chains[l][b.account][b.nonce] = b
<1>1. PICK a \in Accounts : b \in ToSet(chains[l][a])
  BY DEF Partition
<1>2. PICK s : s = chains[l][a]
  OBVIOUS
<1>3. s \in Seq(Block) /\ Linked(s, a) /\ \A i \in 1 .. Len(s) : s[i] \in net
  BY <1>2 DEF IndInv, TypeOK, LedgerTypeOK, LedgerInv
<1>4. PICK i \in 1 .. Len(s) : b = s[i]
  BY <1>1, <1>2, <1>3 DEF ToSet
<1>5. b \in net /\ b.account = a /\ b.nonce = i
  BY <1>3, <1>4 DEF Linked
<1>6. b \in Block
  BY <1>5 DEF IndInv, TypeOK
<1> QED
  BY <1>2, <1>4, <1>5, <1>6

LEMMA OfPartition ==
  ASSUME IndInv, NEW l \in Ledgers, NEW a \in Accounts, NEW i \in 1 .. Len(chains[l][a])
  PROVE  /\ chains[l][a][i] \in Partition(l) /\ chains[l][a][i] \in net
         /\ chains[l][a][i].account = a /\ chains[l][a][i].nonce = i
<1>1. PICK s : s = chains[l][a]
  OBVIOUS
<1>2. s \in Seq(Block) /\ Linked(s, a) /\ s[i] \in net /\ i \in 1 .. Len(s)
  BY <1>1 DEF IndInv, TypeOK, LedgerTypeOK, LedgerInv
<1>3. s[i] \in ToSet(s)
  BY <1>2 DEF ToSet
<1>4. s[i].account = a /\ s[i].nonce = i
  BY <1>2 DEF Linked
<1> QED
  BY <1>1, <1>2, <1>3, <1>4 DEF Partition

(* Two ledgers together do not hold two Receives of a Send by an account that never
   rolls back: its device has signed one at most. *)
LEMMA ReceivedOnce ==
  ASSUME IndInv, RememberInv, NEW l \in Ledgers, NEW m \in Ledgers,
         NEW r \in Partition(l), NEW q \in Partition(m),
         r.kind = "Receive", q.kind = "Receive", r.account \notin Forkers,
         r.account = q.account, r.source_hash = q.source_hash
  PROVE  r = q
<1>1. PICK a, i, j : a = r.account /\ i = r.nonce /\ j = q.nonce
  OBVIOUS
<1>2. a \in Accounts \ Forkers /\ r \in net /\ q \in net
  BY <1>1, InPartition
<1>3. /\ i \in 1 .. Len(chain[a]) /\ chain[a][i] = r
      /\ j \in 1 .. Len(chain[a]) /\ chain[a][j] = q
  BY <1>1, <1>2 DEF IndInv, HonestInv
<1>4. i = j
  BY <1>2, <1>3 DEF RememberInv, Receives
<1> QED
  BY <1>3, <1>4

-----------------------------------------------------------------------------
(* What the blocks of two ledgers have to satisfy to be merged. *)
HashesDistinct(N) == \A x, y \in N : x.hash = y.hash => x = y

MergeOK(all) ==
    /\ all \subseteq Block /\ IsFiniteSet(all)
    /\ HashesDistinct(all)
    /\ \A b \in all :
         /\ b.hash[1] = b.account /\ b.hash[2] \in 1 .. MaxBlocks
         /\ b.kind # "Receive" => b.amount <= MaxPerAccount
         /\ b.kind = "Open" => b.nonce = 1

(* Counters do not reach the limit of i64 where a value saturates. *)
HistoriesFit == MaxBlocks * MaxPerAccount <= PN!MaxI64

LEMMA AmountBounded ==
  ASSUME IndInv, NEW b \in net, b.kind # "Receive"
  PROVE  b.amount <= MaxPerAccount
<1>1. Sound(net, b) /\ b \in Block
  BY DEF IndInv, BlockInv, TypeOK
<1>2. CASE b.kind = "Open"
  BY <1>1, <1>2 DEF Sound
<1>3. CASE b.kind = "Send"
  <2>1. PICK p \in net : BalanceStep(net, p, b)
    BY <1>1, <1>3 DEF Sound
  <2>2. p.balance = b.balance + b.amount
    BY <1>3, <2>1 DEF BalanceStep
  <2>3. p.balance <= MaxPerAccount /\ p.balance \in Nat /\ b.balance \in Nat /\ b.amount \in Nat
    BY <1>1 DEF IndInv, BlockInv, Sound, TypeOK, Block
  <2> QED
    BY <2>2, <2>3
<1>4. b.kind \in {"Open", "Send", "Receive"}
  BY <1>1 DEF Block, BlockKinds
<1> QED
  BY <1>2, <1>3, <1>4

LEMMA UnionOK ==
  ASSUME IndInv, FiniteInv, NEW l \in Ledgers, NEW m \in Ledgers
  PROVE  MergeOK(Union(l, m)) /\ Union(l, m) \subseteq net
<1> DEFINE all == Union(l, m)
<1>1. all \subseteq net
  BY InPartition DEF Union
<1>2. all \subseteq Block /\ IsFiniteSet(all)
  BY <1>1, FS_Subset DEF IndInv, TypeOK, FiniteInv
<1>3. HashesDistinct(all)
  BY <1>1 DEF HashesDistinct, IndInv, HashInv
<1>4. ASSUME NEW b \in all
      PROVE  /\ b.hash[1] = b.account /\ b.hash[2] \in 1 .. MaxBlocks
             /\ b.kind # "Receive" => b.amount <= MaxPerAccount
             /\ b.kind = "Open" => b.nonce = 1
  <2>1. b \in net /\ b \in Block
    BY <1>1, <1>2
  <2>2. b.hash[1] = b.account /\ b.hash[2] <= vclock[b.account] /\ b.account \in Accounts
    BY <2>1 DEF IndInv, HashInv, Block
  <2>3. vclock[b.account] \in 0 .. MaxBlocks /\ b.hash[2] \in Nat \ {0}
    BY <2>1, <2>2 DEF IndInv, TypeOK, AccountTypeOK, Block, Hashes
  <2>4. b.hash[2] \in 1 .. MaxBlocks
    BY <2>2, <2>3
  <2>5. b.kind = "Open" => b.nonce = 1
    BY <2>1 DEF IndInv, BlockInv, Sound
  <2> QED
    BY <2>1, <2>2, <2>4, <2>5, AmountBounded
<1> HIDE DEF all
<1>6. MergeOK(all)
  BY <1>2, <1>3, <1>4 DEF MergeOK
<1> QED
  BY <1>1, <1>6 DEF all

-----------------------------------------------------------------------------
(* Counters. *)

Src(all, b) == CHOOSE s \in Sources(all, b) : TRUE

LEMMA AppliedFacts ==
  ASSUME NEW all, MergeOK(all), NEW b \in Applied(all)
  PROVE  /\ b \in all /\ b \in Block /\ b \in Winners(all)
         /\ Credit(all, b) \in 0 .. MaxPerAccount /\ Debit(b) \in 0 .. MaxPerAccount
         /\ b.kind = "Open" => Credit(all, b) = b.amount /\ Debit(b) = 0
         /\ b.kind = "Send" => Credit(all, b) = 0 /\ Debit(b) = b.amount
         /\ b.kind = "Receive" =>
              /\ Credit(all, b) = Src(all, b).amount /\ Debit(b) = 0
              /\ Src(all, b) \in Sources(all, b)
              /\ \A s \in Sources(all, b) : s = Src(all, b)
         /\ b.kind \in {"Open", "Send", "Receive"}
<1>1. b \in all /\ b \in Block /\ b \in Winners(all)
  BY DEF Applied, Winners, MergeOK
<1>2. b.kind \in {"Open", "Send", "Receive"} /\ b.amount \in Nat
  BY <1>1 DEF Block, BlockKinds
<1>3. CASE b.kind = "Open"
  <2>1. Credit(all, b) = b.amount /\ Debit(b) = 0 /\ b.amount <= MaxPerAccount
    BY <1>1, <1>3 DEF Credit, Debit, MergeOK
  <2> QED
    BY <1>1, <1>2, <1>3, <2>1
<1>4. CASE b.kind = "Send"
  <2>1. Credit(all, b) = 0 /\ Debit(b) = b.amount /\ b.amount <= MaxPerAccount
    BY <1>1, <1>4 DEF Credit, Debit, MergeOK
  <2> QED
    BY <1>1, <1>2, <1>4, <2>1
<1>5. CASE b.kind = "Receive"
  <2>1. Sources(all, b) # {}
    BY <1>1, <1>5 DEF Applied, RejectedReceives
  <2>2. Src(all, b) \in Sources(all, b)
    BY <2>1 DEF Src
  <2>3. \A s \in Sources(all, b) : s \in all /\ s.hash = b.source_hash /\ s.kind = "Send"
    BY DEF Sources, AppliedSends, Winners
  <2>4. \A s \in Sources(all, b) : s = Src(all, b)
    BY <2>2, <2>3 DEF MergeOK, HashesDistinct
  <2>5. Credit(all, b) = Src(all, b).amount /\ Debit(b) = 0
    BY <1>5 DEF Credit, Debit, Src
  <2>6. Src(all, b).amount \in 0 .. MaxPerAccount
    <3>1. PICK s \in all : s = Src(all, b) /\ s.kind = "Send"
      BY <2>2, <2>3
    <3>2. s.amount \in Nat /\ s.amount <= MaxPerAccount
      BY <3>1 DEF MergeOK, Block
    <3> QED
      BY <3>1, <3>2
  <2> QED
    BY <1>1, <1>2, <1>5, <2>2, <2>4, <2>5, <2>6
<1> QED
  BY <1>2, <1>3, <1>4, <1>5

(* An account has signed at most MaxBlocks blocks. *)
LEMMA OwnBlocks ==
  ASSUME NEW all, MergeOK(all), NEW a, NEW S, S \subseteq all, \A b \in S : b.account = a
  PROVE  IsFiniteSet(S) /\ Cardinality(S) \in Nat /\ Cardinality(S) <= MaxBlocks
<1> DEFINE f == [b \in S |-> b.hash[2]]
<1>1. IsFiniteSet(S) /\ Cardinality(S) \in Nat
  BY FS_Subset, FS_CardinalityType DEF MergeOK
<1>2. f \in [S -> 1 .. MaxBlocks]
  BY DEF MergeOK
<1>3. ASSUME NEW b \in S, NEW c \in S, f[b] = f[c] PROVE b = c
  <2>1. b \in all /\ c \in all /\ b.account = a /\ c.account = a /\ b.hash[2] = c.hash[2]
    BY <1>3
  <2>2. b.hash[1] = c.hash[1] /\ b.hash \in Hashes /\ c.hash \in Hashes
    BY <2>1 DEF MergeOK, Block
  <2>3. b.hash = <<b.hash[1], b.hash[2]>> /\ c.hash = <<c.hash[1], c.hash[2]>>
    BY <2>2 DEF Hashes
  <2>4. b.hash = c.hash
    BY <2>1, <2>2, <2>3
  <2> QED
    BY <2>1, <2>4 DEF MergeOK, HashesDistinct
<1>4. f \in Injection(S, 1 .. MaxBlocks)
  BY <1>2, <1>3 DEF Injection, IsInjective
<1>5. IsFiniteSet(1 .. MaxBlocks) /\ Cardinality(1 .. MaxBlocks) = MaxBlocks
  BY FS_Interval
<1>6. Cardinality(S) <= Cardinality(1 .. MaxBlocks)
  <2> HIDE DEF f
  <2> QED
    BY <1>1, <1>4, <1>5, FS_Injection
<1> QED
  BY <1>1, <1>5, <1>6

-----------------------------------------------------------------------------
(* What an applied block does to its account's counter, and the applied blocks of an
   account. *)
Moved(all) == [b \in Applied(all) |-> Credit(all, b) - Debit(b)]

Own(all, a) == {b \in Applied(all) : b.account = a}

LEMMA TimesMonotonic ==
  ASSUME NEW c \in Nat, NEW n \in Nat, NEW k \in Nat, c <= n
  PROVE  c * k <= n * k
<1>1. PICK d \in Nat : n = c + d
  <2>1. n - c \in Nat /\ n = c + (n - c)
    OBVIOUS
  <2> QED
    BY <2>1
<1>2. d * k \in Nat /\ c * k \in Nat
  OBVIOUS
<1>3. n * k = c * k + d * k
  BY <1>1
<1> QED
  BY <1>2, <1>3

LEMMA CounterIs ==
  ASSUME NEW all, MergeOK(all), HistoriesFit, NEW a
  PROVE  /\ CounterOf(all, a) = SumOver(Moved(all), Own(all, a))
         /\ CounterOf(all, a) \in Int
<1> DEFINE S == Own(all, a)
           f == [b \in S |-> Credit(all, b)]
           g == [b \in S |-> Debit(b)]
           h == Moved(all)
           c == SumOver(f, S)
           d == SumOver(g, S)
<1>1. S \subseteq all /\ \A b \in S : b.account = a /\ b \in Applied(all)
  BY AppliedFacts DEF Own
<1>2. IsFiniteSet(S) /\ Cardinality(S) \in Nat /\ Cardinality(S) <= MaxBlocks
  <2> HIDE DEF S
  <2>1. S \subseteq all /\ \A b \in S : b.account = a
    BY <1>1
  <2> QED
    BY <2>1, OwnBlocks
<1> HIDE DEF S
<1>3. \A b \in S : f[b] \in 0 .. MaxPerAccount /\ g[b] \in 0 .. MaxPerAccount
  BY <1>1, AppliedFacts
<1>4. \A b \in S : h[b] = f[b] - g[b]
  BY <1>1 DEF Moved
<1>5. Cardinality(S) * MaxPerAccount <= MaxBlocks * MaxPerAccount
  BY <1>2, TimesMonotonic
<1> HIDE DEF f, g, h
<1>6. c \in Nat /\ d \in Nat
  <2>1. \A b \in S : f[b] \in Nat /\ g[b] \in Nat
    BY <1>3
  <2> QED
    BY <1>2, <2>1, SumNat
<1>7. c <= Cardinality(S) * MaxPerAccount /\ d <= Cardinality(S) * MaxPerAccount
  BY <1>2, <1>3, SumAtMost
<1>8. SumOver(h, S) = c - d
  <2>1. \A b \in S : f[b] \in Int /\ g[b] \in Int /\ h[b] = f[b] - g[b]
    BY <1>3, <1>4
  <2> QED
    BY <1>2, <2>1, SumDifference
<1>9. CounterOf(all, a) = PN!Value(c, d)
  BY DEF CounterOf, Own, S, f, g
<1> HIDE DEF c, d
<1>10. PN!MaxI64 \in Nat /\ PN!MaxI64 <= MaxU64
  BY DEF PN!MaxI64
<1>11. c <= PN!MaxI64 /\ d <= PN!MaxI64
  <2>1. Cardinality(S) * MaxPerAccount \in Nat /\ MaxBlocks * MaxPerAccount \in Nat
    BY <1>2
  <2> DEFINE x == Cardinality(S) * MaxPerAccount
             y == MaxBlocks * MaxPerAccount
  <2>2. x \in Nat /\ y \in Nat /\ x <= y /\ y <= PN!MaxI64 /\ c <= x /\ d <= x
    BY <1>5, <1>7, <2>1 DEF HistoriesFit
  <2> HIDE DEF x, y
  <2> QED
    BY <1>6, <1>10, <2>2
<1>12. PN!Saturated64(c) = c /\ PN!Saturated64(d) = d
  BY <1>6, <1>10, <1>11 DEF PN!Saturated64
<1>13. PN!Value(c, d) = c - d
  <2> DEFINE e == PN!MaxI64
  <2>1. PN!Value(c, d) = IF c - d > e THEN e ELSE IF c - d < -e - 1 THEN -e - 1 ELSE c - d
    BY <1>12 DEF PN!Value
  <2>2. e \in Nat /\ c <= e /\ d <= e
    BY <1>10, <1>11
  <2> HIDE DEF e
  <2> QED
    BY <1>6, <2>1, <2>2
<1> QED
  BY <1>6, <1>8, <1>9, <1>13 DEF h, S

(* The counters add up to what all the applied blocks have moved. *)
LEMMA CountersAddUp ==
  ASSUME NEW all, MergeOK(all), HistoriesFit
  PROVE  SumOver([a \in Counted(all) |-> CounterOf(all, a)], Counted(all))
           = SumOver(Moved(all), Applied(all))
<1> DEFINE A == Applied(all)
           K == Counted(all)
           F == [a \in K |-> Own(all, a)]
           v == Moved(all)
           h == [a \in K |-> CounterOf(all, a)]
<1>1. A \subseteq all /\ IsFiniteSet(A)
  <2>1. A \subseteq all
    BY AppliedFacts
  <2> QED
    BY <2>1, FS_Subset DEF MergeOK
<1>2. IsFiniteSet(K)
  <2> DEFINE g == [b \in A |-> b.account]
  <2>1. g \in Surjection(A, K)
    BY DEF Surjection, Counted
  <2> HIDE DEF g, A
  <2> QED
    BY <1>1, <2>1, FS_Surjection
<1>3. \A b \in A : v[b] \in Int
  <2> SUFFICES ASSUME NEW b \in A PROVE v[b] \in Int
    OBVIOUS
  <2>1. Credit(all, b) \in 0 .. MaxPerAccount /\ Debit(b) \in 0 .. MaxPerAccount
    BY AppliedFacts
  <2>2. v[b] = Credit(all, b) - Debit(b)
    BY DEF Moved
  <2> QED
    BY <2>1, <2>2
<1>4. /\ \A q \in K : F[q] \subseteq A
      /\ \A b \in A : \E q \in K : b \in F[q]
      /\ \A q, s \in K : q # s => F[q] \cap F[s] = {}
  BY DEF Own, Counted
<1>5. \A q \in K : h[q] = SumOver(v, F[q])
  BY CounterIs
<1> HIDE DEF A, K, F, v, h
<1>6. SumOver(v, A) = SumOver(h, K)
  BY <1>1, <1>2, <1>3, <1>4, <1>5, SumParts
<1> QED
  BY <1>6 DEF A, K, v, h

(* Of two winners of an account with the same nonce one is the other: hashes are in a
   total order. *)
LEMMA WinnerOnce ==
  ASSUME NEW all, MergeOK(all), NEW b \in Winners(all), NEW c \in Winners(all),
         b.account = c.account, b.nonce = c.nonce
  PROVE  b = c
<1>1. b \in all /\ c \in all /\ b \in Rivals(all, c) /\ c \in Rivals(all, b)
  BY DEF Winners, Rivals
<1>2. HashRank(b.hash) <= HashRank(c.hash) /\ HashRank(c.hash) <= HashRank(b.hash)
  BY <1>1 DEF Winners
<1>3. PICK a, i, j : a = b.account /\ i = b.hash[2] /\ j = c.hash[2]
  OBVIOUS
<1>4. /\ b.hash = <<a, i>> /\ c.hash = <<a, j>> /\ a \in Accounts
      /\ i \in 1 .. MaxBlocks /\ j \in 1 .. MaxBlocks
  <2>1. b \in Block /\ c \in Block /\ b.hash \in Hashes /\ c.hash \in Hashes
    BY <1>1 DEF MergeOK, Block
  <2>2. b.hash[1] = a /\ c.hash[1] = a /\ i \in 1 .. MaxBlocks /\ j \in 1 .. MaxBlocks
    BY <1>1, <1>3 DEF MergeOK
  <2>3. b.hash = <<b.hash[1], b.hash[2]>> /\ c.hash = <<c.hash[1], c.hash[2]>>
    BY <2>1 DEF Hashes
  <2> QED
    BY <1>3, <2>1, <2>2, <2>3 DEF Block
<1>5. PICK x, y : x = HashRank(<<a, i>>) /\ y = HashRank(<<a, j>>)
  OBVIOUS
<1>6. x \in Nat /\ y \in Nat /\ (x = y => i = j)
  BY <1>4, <1>5, HashRankAssumption
<1>7. x <= y /\ y <= x
  BY <1>2, <1>4, <1>5
<1>8. i = j
  BY <1>6, <1>7
<1> QED
  BY <1>1, <1>4, <1>8 DEF MergeOK, HashesDistinct

(* What the counters and the unclaimed Sends hold is what the Opens have minted and
   what has been received again. *)
LEMMA MergeConserves ==
  ASSUME NEW all, MergeOK(all)
  PROVE  SumOver([b \in all |-> b.amount], {b \in Applied(all) : b.kind = "Open"})
           + SumOver([b \in RepeatedReceives(all) |-> Credit(all, b)], RepeatedReceives(all))
           = SumOver(Moved(all), Applied(all))
             + SumOver([b \in all |-> b.amount], Unclaimed(all))
<1> DEFINE A == Applied(all)
           Opens == {b \in A : b.kind = "Open"}
           Sends == {b \in A : b.kind = "Send"}
           Receipts == {b \in A : b.kind = "Receive"}
           Again == RepeatedReceives(all)
           First == Receipts \ Again
           k == [b \in First |-> Src(all, b)]
           Claimed == {k[b] : b \in First}
           Free == Unclaimed(all)
           v == Moved(all)
           f == [b \in all |-> b.amount]
           g == [b \in Again |-> Credit(all, b)]
<1>1. A \subseteq all /\ IsFiniteSet(A) /\ IsFiniteSet(all)
  <2>1. A \subseteq all
    BY AppliedFacts
  <2> QED
    BY <2>1, FS_Subset DEF MergeOK
<1>a. /\ Again \subseteq Receipts
      /\ \A b \in Receipts : b \in Again <=> \E c \in Receipts : /\ c.account = b.account
                                                             /\ c.source_hash = b.source_hash
                                                             /\ c.nonce < b.nonce
  BY DEF RepeatedReceives
<1>2. /\ IsFiniteSet(Opens) /\ IsFiniteSet(Sends) /\ IsFiniteSet(Receipts)
      /\ A = (Opens \cup Receipts) \cup Sends
      /\ (Opens \cup Receipts) \cap Sends = {} /\ Opens \cap Receipts = {}
  BY <1>1, AppliedFacts, FS_Subset
<1>b. /\ IsFiniteSet(First) /\ IsFiniteSet(Again)
      /\ Receipts = First \cup Again /\ First \cap Again = {}
  <2> HIDE DEF Receipts, Again
  <2> QED
    BY <1>2, <1>a, FS_Subset
<1>3. \A b \in all : f[b] = b.amount /\ b.amount \in Nat
  BY DEF MergeOK, Block
<1>4. \A b \in A : v[b] = Credit(all, b) - Debit(b)
  BY DEF Moved
<1>5. Sends = AppliedSends(all)
  BY DEF AppliedSends, Applied, RejectedReceives, RejectedGenesis
<1>6. ASSUME NEW b \in Receipts
      PROVE  /\ Src(all, b) \in Sends /\ Src(all, b) \in all /\ v[b] = f[Src(all, b)]
             /\ Src(all, b) \in Sources(all, b) /\ \A s \in Sources(all, b) : s = Src(all, b)
             /\ v[b] = Credit(all, b)
  <2>1. /\ Credit(all, b) = Src(all, b).amount /\ Debit(b) = 0
        /\ Src(all, b) \in Sources(all, b) /\ \A s \in Sources(all, b) : s = Src(all, b)
        /\ Credit(all, b) \in Nat
    BY AppliedFacts
  <2>2. Src(all, b) \in Sends
    BY <1>5, <2>1 DEF Sources
  <2>3. Src(all, b) \in all
    BY <1>1, <2>2
  <2>4. v[b] = Credit(all, b)
    BY <1>4, <2>1
  <2> QED
    BY <1>3, <2>1, <2>2, <2>3, <2>4
<1>c. \A b \in First : k[b] = Src(all, b) /\ b \in Receipts /\ b \notin Again
  OBVIOUS
<1>d. ASSUME NEW b \in Receipts, NEW s \in Sources(all, b)
      PROVE  s.hash = b.source_hash /\ s.destination = b.account /\ b \in Winners(all)
  BY AppliedFacts DEF Sources
<1>e. \A b \in Receipts : b.nonce \in Nat
  BY AppliedFacts DEF Block
<1>7. k \in Bijection(First, Claimed)
  <2>1. ASSUME NEW b \in First, NEW c \in First, k[b] = k[c] PROVE b = c
    <3>1. b.source_hash = c.source_hash /\ b.account = c.account
          /\ b \in Winners(all) /\ c \in Winners(all)
      <4>1. Src(all, b) = Src(all, c) /\ Src(all, b) \in Sources(all, b) /\ Src(all, c) \in Sources(all, c)
        BY <1>6, <1>c, <2>1
      <4> QED
        BY <1>c, <1>d, <4>1
    <3>2. ~(b.nonce < c.nonce) /\ ~(c.nonce < b.nonce)
      BY <1>a, <1>c, <3>1
    <3>3. b.nonce = c.nonce
      BY <1>c, <1>e, <3>2
    <3> QED
      BY <3>1, <3>3, WinnerOnce
  <2> QED
    BY <2>1 DEF Bijection, Injection, Surjection, IsInjective
<1>8. Claimed \subseteq Sends /\ IsFiniteSet(Claimed)
  <2>1. \A b \in First : k[b] \in Sends
    BY <1>6, <1>c
  <2>2. Claimed \subseteq Sends
    <3> HIDE DEF k, Sends, First
    <3> QED
      BY <2>1
  <2> HIDE DEF Claimed, Sends
  <2> QED
    BY <1>2, <2>2, FS_Subset
(* The earliest Receive of a Send is not a repetition. *)
<1>9. Free \subseteq Sends /\ Sends = Claimed \cup Free /\ Claimed \cap Free = {}
  <2>1. ASSUME NEW s \in Claimed PROVE s \notin Free
    <3>1. PICK b \in First : s = k[b]
      OBVIOUS
    <3>2. b \in A /\ b.kind = "Receive" /\ s \in Sources(all, b)
      BY <1>6, <1>c, <3>1
    <3> QED
      BY <3>2 DEF Unclaimed
  <2>2. ASSUME NEW s \in Sends, s \notin Free PROVE s \in Claimed
    <3> DEFINE T == {b \in Receipts : s \in Sources(all, b)}
               N == {b.nonce : b \in T}
    <3>1. PICK d \in A : d.kind = "Receive" /\ s \in Sources(all, d)
      BY <1>5, <2>2 DEF Unclaimed
    <3>2. d \in T
      BY <3>1
    <3>3. N \in SUBSET Nat /\ N # {}
      <4>1. \A b \in T : b.nonce \in Nat
        BY <1>e
      <4> HIDE DEF T
      <4> QED
        BY <3>2, <4>1
    <3>4. PICK n \in N : \A o \in N : n <= o
      <4> HIDE DEF N
      <4> QED
        BY <3>3, LeastNatural
    <3>5. PICK b \in T : n = b.nonce
      OBVIOUS
    <3>6. \A c \in T : ~(c.nonce < b.nonce)
      <4>1. ASSUME NEW c \in T PROVE ~(c.nonce < b.nonce)
        <5>1. n <= c.nonce /\ c.nonce \in Nat /\ n \in Nat
          BY <1>e, <3>4, <3>5
        <5> QED
          BY <3>5, <5>1
      <4> QED
        BY <4>1
    <3>7. ASSUME NEW c \in Receipts, c.account = b.account, c.source_hash = b.source_hash
          PROVE  c \in T
      <4>1. s.hash = c.source_hash /\ s.destination = c.account
        BY <1>d, <3>5, <3>7
      <4>2. s \in all /\ s \in AppliedSends(all)
        BY <3>1 DEF Sources
      <4> QED
        BY <4>1, <4>2 DEF Sources
    <3>8. b \in First
      BY <1>a, <3>5, <3>6, <3>7
    <3>9. s = k[b]
      BY <1>6, <1>c, <3>5, <3>8
    <3> QED
      BY <3>8, <3>9
  <2>3. Free \subseteq Sends
    BY <1>5 DEF Unclaimed
  <2> HIDE DEF Claimed, Sends, Free
  <2> QED
    BY <1>8, <2>1, <2>2, <2>3
<1>10. IsFiniteSet(Free) /\ IsFiniteSet(Opens \cup Receipts) /\ Opens \subseteq all
       /\ Claimed \subseteq all /\ Free \subseteq all
  <2>1. Opens \subseteq all /\ Sends \subseteq all
    BY <1>1
  <2> HIDE DEF Free, Opens, Receipts, Sends, Claimed
  <2> QED
    BY <1>2, <1>8, <1>9, <2>1, FS_Subset, FS_Union
<1>11. \A b \in Opens : v[b] = f[b]
  <2> SUFFICES ASSUME NEW b \in Opens PROVE v[b] = f[b]
    OBVIOUS
  <2>1. Credit(all, b) = b.amount /\ Debit(b) = 0
    BY AppliedFacts
  <2>2. f[b] = b.amount /\ b.amount \in Nat
    BY <1>1, <1>3
  <2> QED
    BY <1>4, <2>1, <2>2
<1>12. \A b \in Sends : v[b] = 0 - f[b] /\ f[b] \in Nat
  <2> SUFFICES ASSUME NEW b \in Sends PROVE v[b] = 0 - f[b] /\ f[b] \in Nat
    OBVIOUS
  <2>1. Credit(all, b) = 0 /\ Debit(b) = b.amount
    BY AppliedFacts
  <2>2. f[b] = b.amount /\ b.amount \in Nat
    BY <1>1, <1>3
  <2> QED
    BY <1>4, <2>1, <2>2
<1>13. ASSUME NEW b \in Receipts PROVE v[b] \in Int /\ f[Src(all, b)] = v[b]
  <2> DEFINE s == Src(all, b)
  <2>1. v[b] = f[s] /\ s \in all
    BY <1>6
  <2> HIDE DEF s, v, f
  <2>2. f[s] \in Nat
    BY <1>3, <2>1
  <2> QED
    BY <2>1, <2>2 DEF s
<1>f. \A b \in First : v[b] \in Int /\ f[k[b]] = v[b]
  BY <1>13, <1>c
<1>g. \A b \in Again : g[b] = v[b] /\ v[b] \in Int
  BY <1>6, <1>13, <1>a
<1>14. \A b \in Opens : f[b] \in Int /\ v[b] \in Int
  <2>1. \A b \in Opens : b \in all
    BY <1>10
  <2> HIDE DEF v, f, Opens
  <2> QED
    BY <1>3, <1>11, <2>1
<1> HIDE DEF A, Opens, Sends, Receipts, Again, First, k, Claimed, Free, v, f, g
<1>15. SumOver(v, Opens) = SumOver(f, Opens)
  BY <1>2, <1>11, SumAgree
<1>16. SumOver(f, Claimed) = SumOver(v, First)
  BY <1>b, <1>7, <1>f, SumRenamed
<1>h. SumOver(g, Again) = SumOver(v, Again) /\ SumOver(v, Again) \in Int
  BY <1>b, <1>g, SumAgree, SumInt
<1>i. SumOver(v, Receipts) = SumOver(v, First) + SumOver(v, Again)
  <2>1. \A b \in First \cup Again : v[b] \in Int
    BY <1>f, <1>g
  <2> QED
    BY <1>b, <2>1, SumUnion
<1>17. SumOver(v, Sends) = 0 - SumOver(f, Sends)
  <2> DEFINE z == [b \in Sends |-> 0]
  <2>1. \A b \in Sends : z[b] \in Int /\ f[b] \in Int /\ v[b] = z[b] - f[b]
    BY <1>12
  <2>2. \A b \in Sends : z[b] = 0
    OBVIOUS
  <2> HIDE DEF z
  <2>3. SumOver(z, Sends) = 0
    BY <1>2, <2>2, SumZero
  <2>4. SumOver(v, Sends) = SumOver(z, Sends) - SumOver(f, Sends)
    BY <1>2, <2>1, SumDifference
  <2> QED
    BY <2>3, <2>4
<1>18. SumOver(f, Sends) = SumOver(f, Claimed) + SumOver(f, Free)
  <2>1. \A b \in Claimed \cup Free : f[b] \in Int
    BY <1>9, <1>12
  <2>2. SumOver(f, Claimed \cup Free) = SumOver(f, Claimed) + SumOver(f, Free)
    BY <1>8, <1>9, <1>10, <2>1, SumUnion
  <2> QED
    BY <1>9, <2>2
<1>19. SumOver(v, A) = SumOver(v, Opens) + SumOver(v, Receipts) + SumOver(v, Sends)
  <2>1. /\ \A b \in (Opens \cup Receipts) \cup Sends : v[b] \in Int
        /\ \A b \in Opens \cup Receipts : v[b] \in Int
    BY <1>12, <1>13, <1>14
  <2>2. SumOver(v, (Opens \cup Receipts) \cup Sends) = SumOver(v, Opens \cup Receipts) + SumOver(v, Sends)
    BY <1>2, <1>10, <2>1, SumUnion
  <2>3. SumOver(v, Opens \cup Receipts) = SumOver(v, Opens) + SumOver(v, Receipts)
    BY <1>2, <2>1, SumUnion
  <2> QED
    BY <1>2, <2>2, <2>3
<1>20. /\ SumOver(f, Opens) \in Int /\ SumOver(f, Claimed) \in Int /\ SumOver(f, Free) \in Int
  <2>1. /\ \A b \in Opens : f[b] \in Int
        /\ \A b \in Claimed : f[b] \in Int
        /\ \A b \in Free : f[b] \in Int
    BY <1>9, <1>12, <1>14
  <2> QED
    BY <1>2, <1>8, <1>10, <2>1, SumInt
<1>21. SumOver(f, Opens) + SumOver(g, Again) = SumOver(v, A) + SumOver(f, Free)
  BY <1>15, <1>16, <1>h, <1>i, <1>17, <1>18, <1>19, <1>20
<1> QED
  BY <1>21 DEF Opens, Again, v, A, f, g, Free

(* Merging two ledgers neither loses nor makes value, whoever has forked, except that
   an account which forks may be credited again with a Send it has already received: the
   winning Opens and those credits are what the counters of reconcile_partitions hold and
   what the winning Sends have sent that no winning Receive has credited. *)
THEOREM MergesConserveValue ==
  ASSUME HistoriesFit
  PROVE  Spec => []MergedConservation
<1>1. ASSUME IndInv, RememberInv, BooksInv PROVE MergedConservation
  <2>1. ASSUME NEW l \in Ledgers, NEW m \in Ledgers, NEW b \in RepeatedReceives(Union(l, m))
        PROVE  b.account \in Forkers
    <3> SUFFICES ASSUME b.account \notin Forkers PROVE FALSE
      OBVIOUS
    <3>1. MergeOK(Union(l, m))
      BY <1>1, UnionOK DEF BooksInv
    <3>2. PICK c \in Applied(Union(l, m)) :
                 /\ c.kind = "Receive" /\ c.account = b.account
                 /\ c.source_hash = b.source_hash /\ c.nonce < b.nonce
      BY DEF RepeatedReceives
    <3>3. b \in Applied(Union(l, m)) /\ b.kind = "Receive"
      BY DEF RepeatedReceives
    <3>4. b \in Union(l, m) /\ c \in Union(l, m) /\ b.nonce \in Nat
      BY <3>1, <3>2, <3>3, AppliedFacts DEF Block
    <3>5. b = c
      BY <1>1, <3>2, <3>3, <3>4, ReceivedOnce DEF Union
    <3> QED
      BY <3>2, <3>4, <3>5
  <2>2. ASSUME NEW l \in Ledgers, NEW m \in Ledgers, NEW all, all = Union(l, m)
        PROVE  SumOver([b \in all |-> b.amount], {b \in Applied(all) : b.kind = "Open"})
                 + SumOver([b \in RepeatedReceives(all) |-> Credit(all, b)], RepeatedReceives(all))
               = SumOver([a \in Counted(all) |-> CounterOf(all, a)], Counted(all))
                 + SumOver([b \in all |-> b.amount], Unclaimed(all))
    <3>1. MergeOK(all)
      BY <1>1, <2>2, UnionOK DEF BooksInv
    <3> QED
      BY <3>1, CountersAddUp, MergeConserves
  <2> SUFFICES ASSUME NEW all \in Merges
               PROVE  LET opens  == {b \in Applied(all) : b.kind = "Open"}
                          again  == RepeatedReceives(all)
                          amount == [b \in all |-> b.amount]
                      IN /\ SumOver(amount, opens)
                              + SumOver([b \in again |-> Credit(all, b)], again)
                            = SumOver([a \in Counted(all) |-> CounterOf(all, a)], Counted(all))
                              + SumOver(amount, Unclaimed(all))
                         /\ \A b \in again : b.account \in Forkers
    BY DEF MergedConservation
  <2>3. PICK l \in Ledgers, m \in Ledgers : all = Union(l, m)
    BY DEF Merges
  <2> QED
    BY <2>1, <2>2, <2>3
<1> QED
  BY <1>1, Invariance, Remembered, BooksBalance, PTL

-----------------------------------------------------------------------------
(* Partitions without a dispute. *)
Undisputed(all) == \A b \in all : Rivals(all, b) = {b}

LEMMA NothingRejected ==
  ASSUME IndInv, NEW l \in Ledgers, NEW m \in Ledgers,
         MergeOK(Union(l, m)), Undisputed(Union(l, m))
  PROVE  /\ Applied(Union(l, m)) = Union(l, m)
         /\ RejectedReceives(Union(l, m)) = {} /\ RejectedGenesis(Union(l, m)) = {}
         /\ ResolvedConflicts(Union(l, m)) = {}
<1> DEFINE all == Union(l, m)
<1>1. ASSUME NEW b \in all PROVE b \in Winners(all)
  <2>1. b.hash[1] = b.account /\ b.hash[2] \in 1 .. MaxBlocks /\ b \in Block
    BY DEF MergeOK
  <2>2. b.hash = <<b.account, b.hash[2]>> /\ b.account \in Accounts
    BY <2>1 DEF Block, Hashes
  <2> DEFINE h == b.hash
             n == h[2]
             r == HashRank(h)
  <2>3. r \in Nat
    <3>1. n \in 1 .. MaxBlocks /\ h = <<b.account, n>>
      BY <2>1, <2>2
    <3> HIDE DEF n, h
    <3>2. HashRank(<<b.account, n>>) \in Nat
      BY <2>2, <3>1, HashRankAssumption
    <3> QED
      BY <3>1, <3>2
  <2> HIDE DEF r
  <2>4. r <= r
    BY <2>3
  <2>5. \A c \in Rivals(all, b) : c = b
    BY DEF Undisputed
  <2>6. \A c \in Rivals(all, b) : HashRank(b.hash) <= HashRank(c.hash)
    BY <2>4, <2>5 DEF r
  <2> QED
    BY <2>6 DEF Winners
<1>2. Winners(all) = all
  BY <1>1 DEF Winners
<1>3. ASSUME NEW x \in Ledgers, NEW b \in Partition(x), b.kind = "Receive", Partition(x) \subseteq all
      PROVE  Sources(all, b) # {}
  <2>1. PICK a, i : a = b.account /\ i = b.nonce
    OBVIOUS
  <2>2. a \in Accounts /\ i \in 1 .. Len(chains[x][a]) /\ chains[x][a][i] = b
    BY <2>1, InPartition
  <2>3. PICK s \in send_index[x] : s.hash = b.source_hash /\ s.destination = a
    BY <1>3, <2>2 DEF IndInv, IndexInv
  <2>4. PICK z \in net : /\ z.kind = "Send" /\ z.hash = s.hash /\ z.destination = s.destination
                         /\ z.account \in Accounts /\ z.nonce \in 1 .. Len(chains[x][z.account])
                         /\ chains[x][z.account][z.nonce] = z
    BY IndexedSend
  <2>5. z \in Partition(x)
    BY <2>4, OfPartition
  <2>6. z \in Winners(all)
    BY <1>2, <1>3, <2>5
  <2>7. z \in AppliedSends(all) /\ z \in all
    BY <1>2, <2>4, <2>6 DEF AppliedSends
  <2>8. z.hash = b.source_hash /\ z.destination = b.account
    BY <2>1, <2>3, <2>4
  <2>9. z \in Sources(all, b)
    BY <2>7, <2>8 DEF Sources
  <2> QED
    BY <2>9
<1>4. RejectedReceives(all) = {}
  <2>1. Partition(l) \subseteq all /\ Partition(m) \subseteq all
        /\ \A b \in all : b \in Partition(l) \/ b \in Partition(m)
    BY DEF Union
  <2>2. \A b \in all : b.kind = "Receive" => Sources(all, b) # {}
    <3> HIDE DEF all
    <3> QED
      BY <1>3, <2>1
  <2> QED
    BY <1>2, <2>2 DEF RejectedReceives
<1>5. RejectedGenesis(all) = {}
  BY <1>2 DEF RejectedGenesis, MergeOK
<1>6. ResolvedConflicts(all) = {}
  <2>1. {w \in Winners(all) : Rivals(all, w) # {w}} = {}
    BY <1>2 DEF Undisputed
  <2> QED
    BY <2>1 DEF ResolvedConflicts
<1> QED
  BY <1>2, <1>4, <1>5, <1>6 DEF Applied

(* What the blocks of a ledger's chain move adds up to the balance each declares. *)
LEMMA ChainAddsUp ==
  ASSUME IndInv, NEW all, MergeOK(all), all \subseteq net, Applied(all) = all,
         NEW x \in Ledgers, NEW a \in Accounts, NEW u, u = chains[x][a],
         \A i \in 1 .. Len(u) : u[i] \in all,
         NEW n \in 1 .. Len(u)
  PROVE  SumOver(Moved(all), {u[k] : k \in 1 .. n}) = u[n].balance
<1> DEFINE Upto(j) == {u[k] : k \in 1 .. j}
           v == Moved(all)
           Good(j) == SumOver(v, Upto(j)) = u[j].balance
           D == {j \in 1 .. Len(u) : ~Good(j)}
<1>0. /\ u \in Seq(Block) /\ Linked(u, a) /\ Len(u) \in Nat
      /\ \A i \in 1 .. Len(u) : u[i] \in net
      /\ u # <<>> => u[1].kind = "Open"
  BY DEF IndInv, TypeOK, LedgerTypeOK, LedgerInv
<1>1. \A b \in all : v[b] = Credit(all, b) - Debit(b)
  BY DEF Moved
<1>2. ASSUME NEW i \in 1 .. Len(u)
      PROVE  u[i].nonce = i /\ u[i] \in all /\ u[i] \in Block /\ u[i].balance \in Nat
  <2>1. u[i].nonce = i
    BY <1>0 DEF Linked
  <2>2. u[i] \in all
    OBVIOUS
  <2>3. u[i] \in Block
    BY <1>0
  <2>4. u[i].balance \in Nat
    BY <2>3 DEF Block
  <2> QED
    BY <2>1, <2>2, <2>3, <2>4
<1>3. ASSUME NEW j \in 1 .. Len(u) PROVE v[u[j]] \in Int
  <2> DEFINE b == u[j]
  <2>1. b \in all
    BY <1>2
  <2> HIDE DEF b, v
  <2>2. Credit(all, b) \in 0 .. MaxPerAccount /\ Debit(b) \in 0 .. MaxPerAccount
    BY <2>1, AppliedFacts
  <2>3. v[b] = Credit(all, b) - Debit(b)
    BY <1>1, <2>1
  <2>4. v[b] \in Int
    BY <2>2, <2>3
  <2> QED
    BY <2>4 DEF b
<1>4. Len(u) >= 1 => Good(1)
  <2> SUFFICES ASSUME Len(u) >= 1 PROVE Good(1)
    OBVIOUS
  <2> DEFINE b == u[1]
  <2>1. 1 \in 1 .. Len(u) /\ u # <<>>
    BY <1>0
  <2>2. b \in all /\ b \in net /\ b.kind = "Open" /\ b \in Block
    BY <1>0, <1>2, <2>1
  <2>3. Upto(1) = {} \cup {b}
    <3>1. \A k : k \in 1 .. 1 <=> k = 1
      OBVIOUS
    <3> QED
      BY <3>1
  <2> HIDE DEF b, v
  <2>4. b.amount = b.balance
    BY <2>2 DEF IndInv, BlockInv, Sound
  <2>5. Credit(all, b) = b.amount /\ Debit(b) = 0
    BY <2>2, AppliedFacts
  <2>6. v[b] = b.balance /\ b.balance \in Nat
    <3>1. b.balance \in Nat
      BY <2>2 DEF Block
    <3> QED
      BY <1>1, <2>2, <2>4, <2>5, <3>1
  <2>7. SumOver(v, {} \cup {b}) = v[b] + SumOver(v, {})
    <3>1. IsFiniteSet({}) /\ b \notin {} /\ \A y \in {} \cup {b} : v[y] \in Int
      BY <2>6, FS_EmptySet
    <3> QED
      BY <3>1, SumAdd
  <2>8. SumOver(v, {}) = 0
    BY SumEmpty
  <2>9. SumOver(v, {} \cup {b}) = b.balance
    BY <2>6, <2>7, <2>8
  <2>10. SumOver(v, Upto(1)) = b.balance
    <3> HIDE DEF Upto
    <3> QED
      BY <2>3, <2>9
  <2> QED
    BY <2>10 DEF b
<1>5. ASSUME NEW j \in Nat, j >= 1, j + 1 <= Len(u), Good(j)
      PROVE  Good(j + 1)
  <2> DEFINE b == u[j + 1]
             p == u[j]
  <2>1. j \in 1 .. Len(u) /\ j + 1 \in 1 .. Len(u) /\ j + 1 > 1 /\ (j + 1) - 1 = j
    BY <1>0, <1>5
  <2>2. /\ b \in all /\ b \in net /\ b \in Block /\ b.nonce = j + 1 /\ b.balance \in Nat
        /\ p \in net /\ p.balance \in Nat /\ p \in Block
    BY <1>0, <1>2, <2>1
  <2>3. b.previous = p.hash
    BY <1>0, <2>1 DEF Linked
  <2>4. Upto(j + 1) = Upto(j) \cup {b}
    <3>1. \A k : k \in 1 .. j + 1 <=> (k \in 1 .. j \/ k = j + 1)
      OBVIOUS
    <3> QED
      BY <3>1
  <2>5. b \notin Upto(j)
    <3> SUFFICES ASSUME NEW k \in 1 .. j PROVE b # u[k]
      OBVIOUS
    <3>1. k \in 1 .. Len(u) /\ k # j + 1
      BY <1>0, <2>1
    <3>2. u[k].nonce = k
      BY <1>2, <3>1
    <3> QED
      BY <2>2, <3>1, <3>2
  <2>6. IsFiniteSet(Upto(j)) /\ \A y \in Upto(j) : y \in all
    <3>1. \A y \in Upto(j) : y \in all
      <4>1. \A k \in 1 .. j : k \in 1 .. Len(u)
        BY <1>0, <2>1
      <4> QED
        BY <1>2, <4>1
    <3>2. Upto(j) \subseteq all
      BY <3>1
    <3> HIDE DEF Upto
    <3> QED
      BY <3>1, <3>2, FS_Subset DEF MergeOK
  <2>7. \A y \in Upto(j) \cup {b} : v[y] \in Int
    <3>1. \A k \in 1 .. j : k \in 1 .. Len(u)
      BY <1>0, <2>1
    <3> QED
      BY <1>3, <2>1, <3>1
  <2>8. v[b] = b.balance - p.balance
    <3> HIDE DEF b, p, v, Upto
    <3>1. Sound(net, b)
      BY <2>2 DEF IndInv, BlockInv
    <3>2. b.previous # NoHash
      BY <2>2, <2>3 DEF Block
    <3>3. PICK o \in net : o.hash = b.previous /\ BalanceStep(net, o, b)
      BY <3>1, <3>2 DEF Sound
    <3>4. o = p
      BY <2>2, <2>3, <3>3 DEF IndInv, HashInv
    <3>5. v[b] = Credit(all, b) - Debit(b) /\ b \in Applied(all)
      BY <1>1, <2>2
    <3>6. CASE b.kind = "Send"
      <4>1. p.balance = b.balance + b.amount /\ b.amount \in Nat
        BY <2>2, <3>3, <3>4, <3>6 DEF BalanceStep, Block
      <4>2. Credit(all, b) = 0 /\ Debit(b) = b.amount
        BY <3>5, <3>6, AppliedFacts
      <4> QED
        BY <2>2, <3>5, <4>1, <4>2
    <3>7. CASE b.kind = "Receive"
      <4>1. PICK s \in net : s.hash = b.source_hash /\ b.balance = p.balance + s.amount
        BY <3>3, <3>4, <3>7 DEF BalanceStep
      <4> DEFINE z == Src(all, b)
      <4>2. Credit(all, b) = z.amount /\ Debit(b) = 0 /\ z \in Sources(all, b)
        BY <3>5, <3>7, AppliedFacts
      <4>3. z \in net /\ z.hash = b.source_hash
        BY <4>2 DEF Sources, AppliedSends, Winners
      <4> HIDE DEF z
      <4>4. z = s /\ s.amount \in Nat
        BY <4>1, <4>3 DEF IndInv, HashInv, TypeOK, Block
      <4> QED
        BY <2>2, <3>5, <4>1, <4>2, <4>4
    <3> QED
      BY <3>3, <3>6, <3>7 DEF BalanceStep
  <2> DEFINE S == Upto(j)
  <2>9. SumOver(v, S \cup {b}) = v[b] + SumOver(v, S)
    <3> HIDE DEF b, v, S, Upto
    <3>1. IsFiniteSet(S) /\ b \notin S /\ \A y \in S \cup {b} : v[y] \in Int
      BY <2>5, <2>6, <2>7 DEF S
    <3> QED
      BY <3>1, SumAdd
  <2>10. SumOver(v, S) = p.balance
    BY <1>5
  <2>11. SumOver(v, Upto(j + 1)) = SumOver(v, S \cup {b})
    BY <2>4
  <2>12. SumOver(v, Upto(j + 1)) = b.balance
    <3> HIDE DEF b, p, v, S, Upto
    <3> QED
      BY <2>2, <2>8, <2>9, <2>10, <2>11
  <2> QED
    BY <2>12
<1>6. ASSUME D # {} PROVE FALSE
  <2>1. PICK j \in D : \A i \in D : j <= i
    <3>1. D \in SUBSET Nat
      OBVIOUS
    <3> HIDE DEF D
    <3> QED
      BY <1>6, <3>1, LeastNatural
  <2>2. j \in 1 .. Len(u) /\ ~Good(j)
    BY <2>1
  <2>3. CASE j = 1
    <3>1. Len(u) >= 1
      BY <1>0, <2>2
    <3> HIDE DEF Good
    <3> QED
      BY <1>4, <2>2, <2>3, <3>1
  <2>4. CASE j # 1
    <3> DEFINE i == j - 1
    <3>1. i \in Nat /\ i >= 1 /\ i + 1 <= Len(u) /\ i + 1 = j /\ i \in 1 .. Len(u) /\ ~(j <= i)
      BY <1>0, <2>2, <2>4
    <3>2. i \notin D
      <4> HIDE DEF D, i
      <4> QED
        BY <2>1, <3>1
    <3>3. Good(i)
      BY <3>1, <3>2
    <3> HIDE DEF Good, i
    <3>4. Good(i + 1)
      BY <1>5, <3>1, <3>3
    <3> QED
      BY <2>2, <3>1, <3>4
  <2> QED
    BY <2>3, <2>4
<1> QED
  BY <1>6

(* Without a dispute two ledgers hold the longer of their chains of an account. *)
LEMMA LongerHolds ==
  ASSUME IndInv, NEW l \in Ledgers, NEW m \in Ledgers, Undisputed(Union(l, m)),
         NEW a \in Accounts
  PROVE  \E x \in {l, m} :
           /\ chains[x][a] = Longer(chains[l][a], chains[m][a])
           /\ \A i \in 1 .. Len(chains[x][a]) : chains[x][a][i] \in Union(l, m)
           /\ \A b : (b \in Union(l, m) /\ b.account = a)
                       <=> b \in {chains[x][a][k] : k \in 1 .. Len(chains[x][a])}
<1>1. Len(chains[l][a]) \in Nat /\ Len(chains[m][a]) \in Nat
  BY DEF IndInv, TypeOK, LedgerTypeOK
<1>2. PICK x \in {l, m} : /\ chains[x][a] = Longer(chains[l][a], chains[m][a])
                          /\ Len(chains[l][a]) <= Len(chains[x][a])
                          /\ Len(chains[m][a]) <= Len(chains[x][a])
  BY <1>1 DEF Longer
<1>3. PICK u : u = chains[x][a]
  OBVIOUS
<1>4. x \in Ledgers /\ Partition(x) \subseteq Union(l, m)
  BY DEF Union
<1>5. \A i \in 1 .. Len(u) : u[i] \in Union(l, m) /\ u[i].account = a /\ u[i].nonce = i
  <2> SUFFICES ASSUME NEW i \in 1 .. Len(u)
               PROVE  u[i] \in Union(l, m) /\ u[i].account = a /\ u[i].nonce = i
    OBVIOUS
  <2>1. i \in 1 .. Len(chains[x][a])
    BY <1>3
  <2>2. chains[x][a][i] \in Partition(x) /\ chains[x][a][i].account = a /\ chains[x][a][i].nonce = i
    BY <1>4, <2>1, OfPartition
  <2> QED
    BY <1>3, <1>4, <2>2
<1>6. ASSUME NEW b \in Union(l, m), b.account = a
      PROVE  b.nonce \in 1 .. Len(u) /\ u[b.nonce] = b
  <2>1. PICK y \in {l, m} : b \in Partition(y)
    BY DEF Union
  <2>2. b.nonce \in 1 .. Len(chains[y][a])
    BY <1>6, <2>1, InPartition
  <2>3. b.nonce \in 1 .. Len(u)
    BY <1>1, <1>2, <1>3, <2>2
  <2>4. u[b.nonce] \in Rivals(Union(l, m), b)
    BY <1>5, <1>6, <2>3 DEF Rivals
  <2> QED
    BY <2>3, <2>4 DEF Undisputed
<1>7. ASSUME NEW b
      PROVE  (b \in Union(l, m) /\ b.account = a) <=> b \in {u[k] : k \in 1 .. Len(u)}
  BY <1>5, <1>6
<1> QED
  BY <1>2, <1>3, <1>5, <1>7

(* Without a dispute an account's counter is the balance its longer chain declares. *)
LEMMA CounterIsTip ==
  ASSUME IndInv, HistoriesFit, NEW l \in Ledgers, NEW m \in Ledgers,
         MergeOK(Union(l, m)), Undisputed(Union(l, m)), Union(l, m) \subseteq net,
         NEW a \in Accounts, NEW c \in Union(l, m), c.account = a
  PROVE  /\ CounterOf(Union(l, m), a) = TipBalance(Longer(chains[l][a], chains[m][a]))
         /\ CounterOf(Union(l, m), a) \in Nat
<1>1. PICK all : all = Union(l, m)
  OBVIOUS
<1>2. PICK x \in {l, m} :
           /\ chains[x][a] = Longer(chains[l][a], chains[m][a])
           /\ \A i \in 1 .. Len(chains[x][a]) : chains[x][a][i] \in all
           /\ \A b : (b \in all /\ b.account = a)
                       <=> b \in {chains[x][a][k] : k \in 1 .. Len(chains[x][a])}
  BY <1>1, LongerHolds
<1>3. PICK u : u = chains[x][a]
  OBVIOUS
<1>4. Applied(all) = all
  BY <1>1, NothingRejected
<1>5. u \in Seq(Block) /\ x \in Ledgers
  BY <1>3 DEF IndInv, TypeOK, LedgerTypeOK
<1>6. PICK n : n = Len(u)
  OBVIOUS
<1>7. n \in 1 .. Len(u) /\ u # <<>>
  <2>1. c \in {u[k] : k \in 1 .. Len(u)}
    BY <1>1, <1>2, <1>3
  <2>2. Len(u) \in Nat /\ 1 .. Len(u) # {}
    BY <1>5, <2>1
  <2> QED
    BY <1>5, <1>6, <2>2
<1>8. MergeOK(all) /\ all \subseteq net /\ \A i \in 1 .. Len(u) : u[i] \in all
  BY <1>1, <1>2, <1>3
<1>9. SumOver(Moved(all), {u[k] : k \in 1 .. n}) = u[n].balance
  BY <1>3, <1>4, <1>5, <1>7, <1>8, ChainAddsUp
<1>10. Own(all, a) = {u[k] : k \in 1 .. n}
  <2>1. \A b : b \in Own(all, a) <=> (b \in all /\ b.account = a)
    BY <1>4 DEF Own
  <2> DEFINE U == {u[k] : k \in 1 .. n}
  <2>2. \A b : b \in U <=> (b \in all /\ b.account = a)
    BY <1>2, <1>3, <1>6
  <2> HIDE DEF U
  <2>3. Own(all, a) = U
    BY <2>1, <2>2
  <2> QED
    BY <2>3 DEF U
<1>11. CounterOf(all, a) = SumOver(Moved(all), Own(all, a))
  BY <1>8, CounterIs
<1>12. CounterOf(all, a) = u[n].balance
  <2> DEFINE U == {u[k] : k \in 1 .. n}
  <2>1. Own(all, a) = U /\ SumOver(Moved(all), U) = u[n].balance
    BY <1>9, <1>10
  <2> HIDE DEF U
  <2> QED
    BY <1>11, <2>1
<1>13. TipBalance(u) = u[n].balance
  BY <1>6, <1>7 DEF TipBalance, Last
<1>14. u[n].balance \in Nat
  <2>1. u[n] \in Block
    BY <1>5, <1>7
  <2> QED
    BY <2>1 DEF Block
<1> QED
  BY <1>1, <1>2, <1>3, <1>12, <1>13, <1>14

LEMMA NoOrders == SetToSeqs({}) = {<<>>}
<1>1. Cardinality({}) = 0
  BY FS_EmptySet
<1>2. 1 .. 0 = {}
  OBVIOUS
<1>3. ASSUME NEW f PROVE f \in [{} -> {}] <=> f = <<>>
  <2>1. <<>> \in Seq({}) /\ Len(<<>>) = 0
    BY EmptySeq
  <2>2. ASSUME f = <<>> PROVE f \in [{} -> {}]
    <3>1. <<>> \in [1 .. Len(<<>>) -> {}]
      BY <2>1, LenProperties
    <3> QED
      BY <1>2, <2>1, <2>2, <3>1
  <2>3. ASSUME f \in [{} -> {}] PROVE f = <<>>
    <3>1. DOMAIN f = {} /\ DOMAIN <<>> = {} /\ <<>> \in [{} -> {}]
      BY <2>2, <2>3
    <3> QED
      BY <2>2, <2>3, <3>1
  <2> QED
    BY <2>2, <2>3
<1>4. [{} -> {}] = {<<>>}
  BY <1>3
<1>5. SetToSeqs({}) = {f \in [{} -> {}] : \A i, j \in {} : i # j => f[i] # f[j]}
  BY <1>1, <1>2 DEF SetToSeqs
<1>6. {f \in [{} -> {}] : \A i, j \in {} : i # j => f[i] # f[j]} = [{} -> {}]
  OBVIOUS
<1> QED
  BY <1>4, <1>5, <1>6

(* Where no two blocks compete for a place, merging two ledgers gives every account the
   balance its longer chain declares, resolves nothing, and rejects nothing. *)
THEOREM MergesAgreeWithChains ==
  ASSUME HistoriesFit
  PROVE  Spec => []MergedBalances
<1>1. ASSUME IndInv, BooksInv PROVE MergedBalances
  <2> SUFFICES ASSUME NEW l \in Ledgers, NEW m \in Ledgers,
                      \A b \in Union(l, m) : Rivals(Union(l, m), b) = {b}
               PROVE  Reconcile(Partition(l), Partition(m)) =
                        {[ok |-> TRUE,
                          balances |-> [a \in {b.account : b \in Union(l, m)} |->
                                          TipBalance(Longer(chains[l][a], chains[m][a]))],
                          conflicts |-> <<>>,
                          rejected_receives |-> {},
                          rejected_genesis |-> {}]}
    BY DEF MergedBalances
  <2> DEFINE all == Union(l, m)
             K == {b.account : b \in all}
  <2>1. MergeOK(all) /\ all \subseteq net /\ Undisputed(all)
    BY <1>1, UnionOK DEF BooksInv, Undisputed
  <2>2. /\ Applied(all) = all
        /\ RejectedReceives(all) = {} /\ RejectedGenesis(all) = {}
        /\ ResolvedConflicts(all) = {}
    BY <1>1, <2>1, NothingRejected
  <2>3. Counted(all) = K
    BY <2>2 DEF Counted
  <2>4. ASSUME NEW a \in K
        PROVE  /\ CounterOf(all, a) = TipBalance(Longer(chains[l][a], chains[m][a]))
               /\ CounterOf(all, a) \in Nat
    <3>1. PICK c \in Union(l, m) : c.account = a
      OBVIOUS
    <3>2. a \in Accounts
      BY <2>1, <3>1 DEF MergeOK, Block
    <3> QED
      BY <1>1, <2>1, <3>1, <3>2, CounterIsTip
  <2>5. {a \in Counted(all) : CounterOf(all, a) < 0} = {}
    <3> SUFFICES ASSUME NEW a \in K PROVE ~(CounterOf(all, a) < 0)
      BY <2>3
    <3> HIDE DEF all, K
    <3> QED
      BY <2>4
  <2>6. [a \in Counted(all) |-> CounterOf(all, a)]
          = [a \in K |-> TipBalance(Longer(chains[l][a], chains[m][a]))]
    <3> HIDE DEF all, K
    <3> QED
      BY <2>3, <2>4
  <2>7. SetToSeqs(ResolvedConflicts(all)) = {<<>>}
    BY <2>2, NoOrders
  <2>8. Partition(l) \cup Partition(m) = all
    BY DEF Union
  <2>9. Reconcile(Partition(l), Partition(m)) =
          {[ok |-> TRUE,
            balances |-> [a \in Counted(all) |-> CounterOf(all, a)],
            conflicts |-> order,
            rejected_receives |-> RejectedReceives(all),
            rejected_genesis |-> RejectedGenesis(all)] :
              order \in SetToSeqs(ResolvedConflicts(all))}
    <3> HIDE DEF all, K
    <3> QED
      BY <2>5, <2>8 DEF Reconcile
  <2> DEFINE F == [a \in K |-> TipBalance(Longer(chains[l][a], chains[m][a]))]
             R(order) == [ok |-> TRUE, balances |-> F, conflicts |-> order,
                          rejected_receives |-> {}, rejected_genesis |-> {}]
  <2>10. Reconcile(Partition(l), Partition(m)) = {R(order) : order \in {<<>>}}
    <3> HIDE DEF F, K, all
    <3> QED
      BY <2>2, <2>6, <2>7, <2>9 DEF F
  <2>11. Reconcile(Partition(l), Partition(m)) = {R(<<>>)}
    <3> HIDE DEF R
    <3> QED
      BY <2>10
  <2> QED
    BY <2>11
<1> QED
  BY <1>1, Invariance, BooksBalance, PTL
=============================================================================
