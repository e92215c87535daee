------------------------ MODULE TransferImport_proofs ------------------------
(***************************************************************************)
(* Proofs about the import of transfers, for any chain, products, events,  *)
(* batches and failures, and any number of runs.                           *)
(***************************************************************************)
EXTENDS TransferImport, InductionLemmas, TLAPS

-----------------------------------------------------------------------------
(* The transfers of a chain. *)

MoveType == [product : Products, owner : Owners, block : Blocks, amount : Int, index : Nat]

AmountOf(moves) == MapThenSumSet(LAMBDA n : n.amount, moves)
DiffOf(rows) == MapThenSumSet(LAMBDA r : r.diff, rows)

LEMMA SolutionIsSum ==
    ASSUME NEW S, IsFiniteSet(S), NEW f, IntValued(f, S), NEW jt, SumSolution(f, jt, S)
    PROVE  jt[S] = SumOver(f, S)
<1>1. PICK it : SumsAre(f, it, S)
  BY SumOverSolves
<1>2. SumSolution(f, it, S) /\ SumOver(f, S) = it[S]
  BY <1>1 DEF SumsAre
<1>3. jt[S] = it[S]
  BY <1>2, SumSolutionsAgree
<1> QED
  BY <1>2, <1>3

LEMMA AmountIsSum ==
    ASSUME NEW S, IsFiniteSet(S), \A x \in S : x.amount \in Int
    PROVE  AmountOf(S) = SumOver([x \in S |-> x.amount], S)
<1> DEFINE f == [x \in S |-> x.amount]
           Solution(it) ==
              it = [s \in SUBSET S |->
                      IF s = {} THEN 0
                      ELSE (CHOOSE x \in s : TRUE).amount + it[s \ {CHOOSE x \in s : TRUE}]]
           jt == CHOOSE it : Solution(it)
<1>1. ASSUME NEW it
      PROVE  Solution(it) <=> SumSolution(f, it, S)
  <2>1. ASSUME NEW s \in SUBSET S, s # {}
        PROVE  (CHOOSE x \in s : TRUE).amount = f[CHOOSE x \in s : TRUE]
    <3> DEFINE e == CHOOSE x \in s : TRUE
    <3>1. e \in s
      BY <2>1
    <3> HIDE DEF e
    <3>2. e.amount = f[e]
      BY <3>1
    <3> QED
      BY <3>2 DEF e
  <2> HIDE DEF f
  <2> QED
    BY <2>1 DEF SumSolution
<1>2. AmountOf(S) = jt[S]
  BY DEF AmountOf, MapThenSumSet, MapThenFoldSet
<1>3. IntValued(f, S)
  BY DEF IntValued
<1> HIDE DEF f, Solution
<1>4. \E it : SumSolution(f, it, S)
  BY <1>3, SumOverSolves DEF SumsAre
<1>5. SumSolution(f, jt, S)
  <2>1. \E it : Solution(it)
    BY <1>1, <1>4
  <2>2. Solution(jt)
    BY <2>1
  <2> QED
    BY <1>1, <2>2
<1> HIDE DEF jt
<1>6. jt[S] = SumOver(f, S)
  BY <1>3, <1>5, SolutionIsSum
<1> QED
  BY <1>2, <1>6 DEF f

LEMMA DiffIsSum ==
    ASSUME NEW S, IsFiniteSet(S), \A x \in S : x.diff \in Int
    PROVE  DiffOf(S) = SumOver([x \in S |-> x.diff], S)
<1> DEFINE f == [x \in S |-> x.diff]
           Solution(it) ==
              it = [s \in SUBSET S |->
                      IF s = {} THEN 0
                      ELSE (CHOOSE x \in s : TRUE).diff + it[s \ {CHOOSE x \in s : TRUE}]]
           jt == CHOOSE it : Solution(it)
<1>1. ASSUME NEW it
      PROVE  Solution(it) <=> SumSolution(f, it, S)
  <2>1. ASSUME NEW s \in SUBSET S, s # {}
        PROVE  (CHOOSE x \in s : TRUE).diff = f[CHOOSE x \in s : TRUE]
    <3> DEFINE e == CHOOSE x \in s : TRUE
    <3>1. e \in s
      BY <2>1
    <3> HIDE DEF e
    <3>2. e.diff = f[e]
      BY <3>1
    <3> QED
      BY <3>2 DEF e
  <2> HIDE DEF f
  <2> QED
    BY <2>1 DEF SumSolution
<1>2. DiffOf(S) = jt[S]
  BY DEF DiffOf, MapThenSumSet, MapThenFoldSet
<1>3. IntValued(f, S)
  BY DEF IntValued
<1> HIDE DEF f, Solution
<1>4. \E it : SumSolution(f, it, S)
  BY <1>3, SumOverSolves DEF SumsAre
<1>5. SumSolution(f, jt, S)
  <2>1. \E it : Solution(it)
    BY <1>1, <1>4
  <2>2. Solution(jt)
    BY <2>1
  <2> QED
    BY <1>1, <2>2
<1> HIDE DEF jt
<1>6. jt[S] = SumOver(f, S)
  BY <1>3, <1>5, SolutionIsSum
<1> QED
  BY <1>2, <1>6 DEF f

(* Sums of amounts, and of changes, over disjoint sets. *)
LEMMA AmountOfParts ==
    ASSUME NEW S, IsFiniteSet(S), \A x \in S : x.amount \in Int
    PROVE  /\ AmountOf({}) = 0
           /\ \A T \in SUBSET S : AmountOf(T) \in Int
           /\ \A T, U \in SUBSET S :
                 T \cap U = {} => AmountOf(T \cup U) = AmountOf(T) + AmountOf(U)
<1> DEFINE f == [x \in S |-> x.amount]
<1>1. \A x \in S : f[x] \in Int
  OBVIOUS
<1>2. ASSUME NEW T \in SUBSET S
      PROVE  AmountOf(T) = SumOver(f, T)
  <2> DEFINE g == [x \in T |-> x.amount]
  <2>1. IsFiniteSet(T) /\ \A x \in T : x.amount \in Int
    BY FS_Subset
  <2>2. AmountOf(T) = SumOver(g, T)
    BY <2>1, AmountIsSum
  <2>3. \A x \in T : g[x] \in Int /\ g[x] = f[x]
    OBVIOUS
  <2> HIDE DEF f, g
  <2> QED
    BY <2>1, <2>2, <2>3, SumOverAgrees
<1> HIDE DEF f
<1>3. SumOver(f, {}) = 0 /\ \A T \in SUBSET S : SumOver(f, T) \in Int
  BY <1>1, SumOverElement
<1>4. \A T, U \in SUBSET S :
         T \cap U = {} => SumOver(f, T \cup U) = SumOver(f, T) + SumOver(f, U)
  BY <1>1, SumOverUnion
<1> QED
  BY <1>2, <1>3, <1>4

-----------------------------------------------------------------------------
(* What a log amounts to. *)
LEMMA LogTransfers ==
    ASSUME NEW l \in LogType
    PROVE  /\ IsFiniteSet(LogToTransfers(l))
           /\ \A m \in LogToTransfers(l) : /\ m \in MoveType
                                           /\ m.product = l.product
                                           /\ m.block = l.block
<1> DEFINE Of(owner, amount) == [product |-> l.product, owner |-> owner, block |-> l.block,
                                 amount |-> amount, index |-> l.index]
<1>1. \/ l.event = "Transfer" /\ LogToTransfers(l) = {Of(l.from, -l.amount), Of(l.to, l.amount)}
      \/ l.event = "Staked" /\ LogToTransfers(l) = {Of(l.from, l.amount)}
      \/ l.event = "Withdrawn" /\ LogToTransfers(l) = {Of(l.from, -l.amount)}
  BY DEF LogToTransfers, LogType, EventNames
<1>2. \A o \in Owners, n \in Int : /\ Of(o, n) \in MoveType
                                   /\ Of(o, n).product = l.product
                                   /\ Of(o, n).block = l.block
  BY DEF LogType, MoveType
<1>3. l.from \in Owners /\ l.to \in Owners /\ l.amount \in Int /\ -l.amount \in Int
  BY DEF LogType
<1> HIDE DEF Of
<1>4. PICK a, b \in MoveType : /\ LogToTransfers(l) = {a, b}
                               /\ a.product = l.product /\ a.block = l.block
                               /\ b.product = l.product /\ b.block = l.block
  <2>1. CASE l.event = "Transfer"
    BY <1>1, <1>2, <1>3, <2>1
  <2>2. CASE l.event = "Staked"
    <3>1. LogToTransfers(l) = {Of(l.from, l.amount), Of(l.from, l.amount)}
      BY <1>1, <2>2
    <3> QED
      BY <1>2, <1>3, <3>1
  <2>3. CASE l.event = "Withdrawn"
    <3>1. LogToTransfers(l) = {Of(l.from, -l.amount), Of(l.from, -l.amount)}
      BY <1>1, <2>3
    <3> QED
      BY <1>2, <1>3, <3>1
  <2> QED
    BY <1>1, <2>1, <2>2, <2>3
<1>5. IsFiniteSet(LogToTransfers(l))
  <2>1. LogToTransfers(l) = {a} \cup {b}
    BY <1>4
  <2>2. IsFiniteSet({a})
    BY FS_Singleton
  <2>3. IsFiniteSet({a} \cup {b})
    BY <2>2, FS_AddElement
  <2> QED
    BY <2>1, <2>3
<1> QED
  BY <1>4, <1>5

LEMMA MovesTyped ==
    ASSUME NEW kind, NEW logs \in SUBSET Logs
    PROVE  Moves(kind, logs) \subseteq MoveType
<1> SUFFICES ASSUME NEW m \in Moves(kind, logs)
             PROVE  m \in MoveType
  OBVIOUS
<1>1. PICK l \in logs : m \in LogToTransfers(l)
  BY DEF Moves
<1>2. l \in LogType
  BY TransferAssumption
<1> QED
  BY <1>1, <1>2, LogTransfers

LEMMA MovesFinite ==
    ASSUME NEW kind, NEW logs \in SUBSET Logs
    PROVE  IsFiniteSet(Moves(kind, logs))
<1> DEFINE good == {x \in logs : ~x.removed /\ OfProduct(kind, x)}
           Of(T) == UNION {LogToTransfers(l) : l \in T}
           P == {T \in SUBSET good : IsFiniteSet(Of(T))}
<1>1. IsFiniteSet(good) /\ good \subseteq LogType
  <2>1. IsFiniteSet(Logs) /\ Logs \subseteq LogType
    BY TransferAssumption
  <2> QED
    BY <2>1, FS_Subset
<1>2. {} \in P
  <2>1. Of({}) = {}
    OBVIOUS
  <2> QED
    BY <2>1, FS_EmptySet
<1>3. ASSUME NEW T \in P, NEW l \in good \ T
      PROVE  T \cup {l} \in P
  <2>1. Of(T \cup {l}) = Of(T) \cup LogToTransfers(l)
    OBVIOUS
  <2>2. IsFiniteSet(Of(T)) /\ IsFiniteSet(LogToTransfers(l))
    BY <1>1, LogTransfers
  <2>3. IsFiniteSet(Of(T \cup {l}))
    <3> HIDE DEF Of
    <3> QED
      BY <2>1, <2>2, FS_Union
  <2> QED
    BY <2>3
<1>4. P \in SUBSET SUBSET good
  OBVIOUS
<1> HIDE DEF P, good
<1>5. good \in P
  BY <1>1, <1>2, <1>3, <1>4, SetInduction
<1>6. IsFiniteSet(Of(good))
  BY <1>5 DEF P
<1> QED
  BY <1>6 DEF Moves, good

(* A query for some products and blocks has all their movements. *)
LEMMA MovesOfQuery ==
    ASSUME NEW kind, NEW logs \in SUBSET Logs, NEW m \in Moves(kind, Logs),
           \A l \in Logs : l.product = m.product /\ l.block = m.block => l \in logs
    PROVE  m \in Moves(kind, logs)
<1>1. Logs \subseteq LogType
  BY TransferAssumption
<1>2. PICK l \in Logs : m \in LogToTransfers(l) /\ ~l.removed /\ OfProduct(kind, l)
  BY DEF Moves
<1>3. l \in logs
  BY <1>1, <1>2, LogTransfers
<1> QED
  BY <1>2, <1>3 DEF Moves

LEMMA MovesMonotone ==
    ASSUME NEW kind, NEW logs \in SUBSET Logs
    PROVE  Moves(kind, logs) \subseteq Moves(kind, Logs)
BY DEF Moves

LEMMA NetDiffIsAmount ==
    ASSUME NEW m, NEW moves
    PROVE  NetDiff(m, moves) = AmountOf({n \in moves : SameGroup(m, n)})
BY DEF NetDiff, AmountOf

(* A net transfer: the sum of a group of movements, when it is not zero. *)
NetOf(m, moves) ==
    [product |-> m.product, owner |-> m.owner, block |-> m.block,
     diff |-> AmountOf({n \in moves : SameGroup(m, n)})]

LEMMA MergedTransfers ==
    ASSUME NEW moves, NEW t
    PROVE  t \in MergeErc20Transfers(moves) <=>
              \E m \in moves : t = NetOf(m, moves) /\ t.diff # 0
BY NetDiffIsAmount DEF MergeErc20Transfers, NetOf

LEMMA MergedTyped ==
    ASSUME NEW moves \in SUBSET MoveType, IsFiniteSet(moves)
    PROVE  MergeErc20Transfers(moves) \subseteq TransferType
<1> SUFFICES ASSUME NEW t \in MergeErc20Transfers(moves)
             PROVE  t \in TransferType
  OBVIOUS
<1>1. PICK m \in moves : t = NetOf(m, moves)
  BY MergedTransfers
<1>2. AmountOf({n \in moves : SameGroup(m, n)}) \in Int
  <2>1. \A x \in moves : x.amount \in Int
    BY DEF MoveType
  <2> QED
    BY <2>1, AmountOfParts
<1> QED
  BY <1>1, <1>2 DEF NetOf, MoveType, TransferType

(* There is one net transfer of an owner in a block. *)
LEMMA MergedOnce ==
    ASSUME NEW moves, NEW s \in MergeErc20Transfers(moves), NEW t \in MergeErc20Transfers(moves),
           s.product = t.product, s.owner = t.owner, s.block = t.block
    PROVE  s = t
<1>1. PICK m \in moves : s = NetOf(m, moves)
  BY MergedTransfers
<1>2. PICK n \in moves : t = NetOf(n, moves)
  BY MergedTransfers
<1>3. m.product = n.product /\ m.owner = n.owner /\ m.block = n.block
  BY <1>1, <1>2 DEF NetOf
<1>4. {x \in moves : SameGroup(m, x)} = {x \in moves : SameGroup(n, x)}
  BY <1>3 DEF SameGroup
<1> QED
  BY <1>1, <1>2, <1>3, <1>4 DEF NetOf

-----------------------------------------------------------------------------
(* What is in the blocks of the chain, and what a query returns of it. *)
Net == NetTransfers[chain.kind]

NetAt(p, blocks) == {t \in Net : t.product = p /\ t.block \in blocks}

LEMMA NetIsMerged ==
    ASSUME chain \in Chains
    PROVE  /\ chain.kind \in Kinds
           /\ Net = MergeErc20Transfers(Moves(chain.kind, Logs))
<1>1. chain \in ChainType
  BY TransferAssumption
<1>2. chain.kind \in Kinds
  BY <1>1 DEF ChainType
<1> QED
  BY <1>2 DEF Net, NetTransfers

LEMMA NetTyped ==
    ASSUME chain \in Chains
    PROVE  /\ Net \subseteq TransferType
           /\ \A s, t \in Net : s.product = t.product /\ s.owner = t.owner
                                   /\ s.block = t.block => s = t
<1>1. /\ Moves(chain.kind, Logs) \subseteq MoveType
      /\ IsFiniteSet(Moves(chain.kind, Logs))
  BY MovesTyped, MovesFinite
<1> QED
  BY <1>1, NetIsMerged, MergedTyped, MergedOnce

(* A query returns the net transfers of its products in their blocks. *)
LEMMA QueryIsExact ==
    ASSUME chain \in Chains,
           NEW objs \in SUBSET Products, NEW blocks \in [Products -> SUBSET Blocks],
           NEW p \in objs
    PROVE  {t \in QueryTransfers(objs, blocks) : t.product = p /\ t.block \in blocks[p]}
              = NetAt(p, blocks[p])
<1> DEFINE kind == chain.kind
           wanted == UNION {blocks[q] : q \in objs}
           covering == {b \in Blocks : \E f, t \in wanted : f <= b /\ b <= t}
           rawLogs == {l \in Logs : l.product \in objs /\ l.block \in covering}
           all == Moves(kind, Logs)
           part == {m \in Moves(kind, rawLogs) : m.block \in blocks[m.product]}
<1>1. QueryTransfers(objs, blocks) = MergeErc20Transfers(part)
  BY DEF QueryTransfers
<1>2. all \subseteq MoveType
  BY MovesTyped
<1>3. ASSUME NEW m, m.product = p, m.block \in blocks[p]
      PROVE  m \in part <=> m \in all
  <2>1. Moves(kind, rawLogs) \subseteq all
    BY MovesMonotone
  <2>2. ASSUME m \in all
        PROVE  m \in part
    <3>1. m.block \in covering
      <4>1. m.block \in wanted /\ m.block \in Blocks
        BY <1>3
      <4>2. m.block <= m.block
        BY <4>1, TransferAssumption DEF Blocks
      <4> QED
        BY <4>1, <4>2
    <3>2. \A l \in Logs : l.product = m.product /\ l.block = m.block => l \in rawLogs
      BY <1>3, <3>1
    <3> HIDE DEF rawLogs, covering, wanted, kind
    <3>3. rawLogs \in SUBSET Logs
      BY DEF rawLogs
    <3>4. m \in Moves(kind, rawLogs)
      BY <2>2, <3>2, <3>3, MovesOfQuery
    <3> QED
      BY <1>3, <3>4
  <2> QED
    BY <2>1, <2>2
<1> HIDE DEF part, all
<1>4. ASSUME NEW m, m.product = p, m.block \in blocks[p]
      PROVE  NetOf(m, part) = NetOf(m, all)
  <2>1. {n \in part : SameGroup(m, n)} = {n \in all : SameGroup(m, n)}
    BY <1>3, <1>4 DEF SameGroup
  <2> QED
    BY <2>1 DEF NetOf
<1>5. ASSUME NEW t, t.product = p, t.block \in blocks[p]
      PROVE  t \in MergeErc20Transfers(part) <=> t \in MergeErc20Transfers(all)
  <2>1. ASSUME NEW m, NEW moves, t = NetOf(m, moves)
        PROVE  m.product = p /\ m.block \in blocks[p]
    BY <1>5, <2>1 DEF NetOf
  <2> QED
    BY <1>3, <1>4, <2>1, MergedTransfers
<1>6. Net = MergeErc20Transfers(all)
  BY NetIsMerged DEF all
<1> QED
  BY <1>1, <1>5, <1>6 DEF NetAt

-----------------------------------------------------------------------------
(***************************************************************************)
(* Where the blocks of a run are: still to be queried, in one item of its  *)
(* pipeline with the transfers that are in them, or reported.              *)
(***************************************************************************)
PipeTyped ==
    /\ chain \in Chains
    /\ pc \in [Importers -> {"idle", "running"}]
    /\ planned \in [Importers -> [Products -> SUBSET Blocks]]
    /\ pending \in [Importers -> SUBSET Products]
    /\ queue \in [Importers -> SUBSET ItemType]
    /\ current \in [Importers -> SUBSET ItemType]
    /\ told \in [Importers -> [Products -> [Blocks -> Nat]]]

ItemsOf(i) == queue[i] \cup current[i]

ExactItem(i, item) ==
    /\ item.blocks # {}
    /\ item.blocks \subseteq planned[i][item.product]
    /\ item.product \notin pending[i]
    /\ item.transfers = NetAt(item.product, item.blocks)

ItemsApart(i) ==
    /\ queue[i] \cap current[i] = {}
    /\ \A x, y \in ItemsOf(i) :
          x.product = y.product /\ x.blocks \cap y.blocks # {} => x = y

InItem(i, p, b) == \E item \in ItemsOf(i) : item.product = p /\ b \in item.blocks

BlockPlaced(i, p, b) ==
    /\ told[i][p][b] \in {0, 1}
    /\ told[i][p][b] = 1 => b \in planned[i][p] /\ p \notin pending[i] /\ ~InItem(i, p, b)
    /\ b \in planned[i][p] => p \in pending[i] \/ told[i][p][b] = 1 \/ InItem(i, p, b)

IdleEmpty(i) ==
    pc[i] = "idle" => /\ planned[i] = NothingPlanned /\ pending[i] = {}
                      /\ queue[i] = {} /\ current[i] = {} /\ told[i] = NothingTold

PipeOf(i) ==
    /\ \A item \in ItemsOf(i) : ExactItem(i, item)
    /\ ItemsApart(i)
    /\ \A p \in Products, b \in Blocks : BlockPlaced(i, p, b)
    /\ IdleEmpty(i)

PipeInv == PipeTyped /\ \A i \in Importers : PipeOf(i)

LEMMA PipeInit == Init => PipeInv
<1> SUFFICES ASSUME Init PROVE PipeInv
  OBVIOUS
<1>1. /\ \A p \in Products : NothingPlanned[p] = {}
      /\ \A p \in Products, b \in Blocks : NothingTold[p][b] = 0
      /\ NothingPlanned \in [Products -> SUBSET Blocks]
      /\ NothingTold \in [Products -> [Blocks -> Nat]]
  BY DEF NothingPlanned, NothingTold
<1>2. PipeTyped
  BY <1>1 DEF Init, PipeTyped
<1>3. ASSUME NEW i \in Importers
      PROVE  /\ ItemsOf(i) = {} /\ planned[i] = NothingPlanned /\ told[i] = NothingTold
             /\ pending[i] = {} /\ queue[i] = {} /\ current[i] = {}
  BY DEF Init, ItemsOf
<1> QED
  BY <1>1, <1>2, <1>3 DEF PipeInv, PipeOf, ItemsApart, BlockPlaced, InItem, IdleEmpty

(* An importer whose pipeline does not move keeps what is said of it. *)
PipeUnchanged(i) ==
    /\ pc'[i] = pc[i] /\ planned'[i] = planned[i] /\ pending'[i] = pending[i]
    /\ queue'[i] = queue[i] /\ current'[i] = current[i] /\ told'[i] = told[i]

LEMMA PipeKept ==
    ASSUME NEW i \in Importers, PipeOf(i), PipeUnchanged(i), chain' = chain
    PROVE  PipeOf(i)'
<1>1. ItemsOf(i)' = ItemsOf(i)
  BY DEF PipeUnchanged, ItemsOf
<1>2. \A item : NetAt(item.product, item.blocks)' = NetAt(item.product, item.blocks)
  BY DEF NetAt, Net
<1>3. \A item \in ItemsOf(i) : ExactItem(i, item)'
  BY <1>2 DEF PipeOf, PipeUnchanged, ExactItem
<1>4. ItemsApart(i)'
  BY <1>1 DEF PipeOf, PipeUnchanged, ItemsApart
<1>5. ASSUME NEW p \in Products, NEW b \in Blocks
      PROVE  BlockPlaced(i, p, b)'
  BY <1>1 DEF PipeOf, PipeUnchanged, BlockPlaced, InItem
<1>6. IdleEmpty(i)'
  BY DEF PipeOf, PipeUnchanged, IdleEmpty, NothingPlanned, NothingTold
<1> QED
  BY <1>1, <1>3, <1>4, <1>5, <1>6 DEF PipeOf

LEMMA PipeStart ==
    ASSUME PipeInv, NEW i \in Importers, NEW plan \in [Products -> SUBSET Blocks],
           Start(i, plan)
    PROVE  PipeTyped' /\ PipeOf(i)' /\ \A j \in Importers \ {i} : PipeUnchanged(j)
<1>1. PipeTyped'
  BY DEF PipeInv, PipeTyped, Start
<1>2. \A j \in Importers \ {i} : PipeUnchanged(j)
  BY DEF PipeInv, PipeTyped, Start, PipeUnchanged
<1>3. /\ queue[i] = {} /\ current[i] = {} /\ told[i] = NothingTold
  BY DEF PipeInv, PipeOf, IdleEmpty, Start
<1>4. /\ queue'[i] = {} /\ current'[i] = {} /\ told'[i] = NothingTold
      /\ pc'[i] = "running" /\ planned'[i] = plan
      /\ pending'[i] = {p \in Products : plan[p] # {}}
  BY <1>3 DEF PipeInv, PipeTyped, Start
<1>5. \A p \in Products, b \in Blocks : BlockPlaced(i, p, b)'
  BY <1>4 DEF BlockPlaced, InItem, ItemsOf, NothingTold
<1> QED
  BY <1>1, <1>2, <1>4, <1>5 DEF PipeOf, ItemsOf, ItemsApart, IdleEmpty

(* Splitting an item keeps its blocks, and tells them apart. *)
LEMMA SplitItem ==
    ASSUME chain \in Chains, NEW p \in Products, NEW blocks \in SUBSET Blocks,
           NEW item, item = [product |-> p, blocks |-> blocks, transfers |-> NetAt(p, blocks)]
    PROVE  /\ \A x \in SplitByBlock(item) :
                 /\ x \in ItemType
                 /\ x.product = p /\ x.blocks # {} /\ x.blocks \subseteq blocks
                 /\ x.transfers = NetAt(p, x.blocks)
           /\ \A x, y \in SplitByBlock(item) : x.blocks \cap y.blocks # {} => x = y
           /\ \A b \in blocks : \E x \in SplitByBlock(item) : b \in x.blocks
<1> DEFINE busy == {t.block : t \in item.transfers}
           idle == item.blocks \ busy
           Part(some) == [product |-> p, blocks |-> some, transfers |-> NetAt(p, some)]
<1>1. Net \subseteq TransferType
  BY NetTyped
<1>2. busy \subseteq blocks /\ \A t \in NetAt(p, blocks) : t.block \in busy
  BY DEF NetAt
<1>3. ASSUME NEW some \in SUBSET blocks
      PROVE  PartOf(item, some) = Part(some)
  <2>1. {t \in item.transfers : t.block \in some} = NetAt(p, some)
    BY DEF NetAt
  <2> QED
    BY <2>1 DEF PartOf
<1>4. idle \subseteq blocks /\ idle \cap busy = {} /\ blocks \subseteq idle \cup busy
  OBVIOUS
<1>5. SplitByBlock(item) =
         {PartOf(item, {b}) : b \in busy} \cup (IF idle = {} THEN {} ELSE {PartOf(item, idle)})
  BY DEF SplitByBlock
<1> HIDE DEF busy, idle, Part
<1>6. \A b \in busy : PartOf(item, {b}) = Part({b})
  <2>1. \A b \in busy : {b} \in SUBSET blocks
    BY <1>2
  <2> QED
    BY <1>3, <2>1
<1>7. PartOf(item, idle) = Part(idle)
  BY <1>3, <1>4
<1>8. ASSUME NEW x \in SplitByBlock(item)
      PROVE  (\E b \in busy : x = Part({b})) \/ (x = Part(idle) /\ idle # {})
  BY <1>5, <1>6, <1>7
<1>9. ASSUME NEW some \in SUBSET blocks
      PROVE  /\ Part(some) \in ItemType /\ Part(some).product = p
             /\ Part(some).blocks = some /\ Part(some).transfers = NetAt(p, some)
  <2>1. NetAt(p, some) \in SUBSET TransferType
    BY <1>1 DEF NetAt
  <2> QED
    BY <2>1 DEF Part, ItemType
<1>10. ASSUME NEW x \in SplitByBlock(item)
       PROVE  \E some \in (SUBSET blocks) \ {{}} :
                 /\ x = Part(some)
                 /\ some = idle \/ \E b \in busy : some = {b}
  <2>1. CASE \E b \in busy : x = Part({b})
    BY <1>2, <2>1
  <2>2. CASE x = Part(idle) /\ idle # {}
    BY <1>4, <2>2
  <2> QED
    BY <1>8, <2>1, <2>2
<1>11. ASSUME NEW x \in SplitByBlock(item), NEW y \in SplitByBlock(item),
              x.blocks \cap y.blocks # {}
       PROVE  x = y
  <2>1. PICK s \in SUBSET blocks : x = Part(s) /\ (s = idle \/ \E b \in busy : s = {b})
    BY <1>10
  <2>2. PICK t \in SUBSET blocks : y = Part(t) /\ (t = idle \/ \E b \in busy : t = {b})
    BY <1>10
  <2>3. s \cap t # {}
    BY <1>9, <1>11, <2>1, <2>2
  <2>4. s = t
    BY <1>4, <2>1, <2>2, <2>3
  <2> QED
    BY <2>1, <2>2, <2>4
<1>12. ASSUME NEW b \in blocks
       PROVE  \E x \in SplitByBlock(item) : b \in x.blocks
  <2>1. CASE b \in busy
    <3>1. Part({b}) \in SplitByBlock(item)
      BY <1>5, <1>6, <2>1
    <3>2. Part({b}).blocks = {b}
      BY <1>9
    <3> QED
      BY <3>1, <3>2
  <2>2. CASE b \notin busy
    <3>1. b \in idle
      BY <1>4, <2>2
    <3>2. Part(idle) \in SplitByBlock(item)
      BY <1>5, <1>7, <3>1
    <3>3. Part(idle).blocks = idle
      BY <1>4, <1>9
    <3> QED
      BY <3>1, <3>2, <3>3
  <2> QED
    BY <2>1, <2>2
<1>13. ASSUME NEW x \in SplitByBlock(item)
       PROVE  /\ x \in ItemType
              /\ x.product = p /\ x.blocks # {} /\ x.blocks \subseteq blocks
              /\ x.transfers = NetAt(p, x.blocks)
  BY <1>9, <1>10
<1> QED
  BY <1>11, <1>12, <1>13

LEMMA PipeFetch ==
    ASSUME PipeInv, NEW i \in Importers, NEW objs \in SUBSET pending[i], FetchEvents(i, objs)
    PROVE  PipeTyped' /\ PipeOf(i)' /\ \A j \in Importers \ {i} : PipeUnchanged(j)
<1> DEFINE Item(p) == [product |-> p, blocks |-> planned[i][p],
                       transfers |-> NetAt(p, planned[i][p])]
           new == UNION {SplitByBlock(item) : item \in ProductTransfers(objs, planned[i])}
<1>1. /\ objs \in SUBSET Products /\ planned[i] \in [Products -> SUBSET Blocks]
      /\ chain \in Chains
  BY DEF PipeInv, PipeTyped
<1>2. ProductTransfers(objs, planned[i]) = {Item(p) : p \in objs}
  <2>1. \A p \in objs :
           {t \in QueryTransfers(objs, planned[i]) :
               t.product = p /\ t.block \in planned[i][p]} = NetAt(p, planned[i][p])
    BY <1>1, QueryIsExact
  <2> QED
    BY ONLY <2>1 DEF ProductTransfers
<1>3. ASSUME NEW x \in new
      PROVE  \E p \in objs : x \in SplitByBlock(Item(p))
  BY <1>2
<1>4. ASSUME NEW p \in objs, NEW x \in SplitByBlock(Item(p))
      PROVE  x \in new
  BY <1>2
<1>5. ASSUME NEW p \in objs
      PROVE  /\ \A x \in SplitByBlock(Item(p)) :
                   /\ x \in ItemType
                   /\ x.product = p /\ x.blocks # {} /\ x.blocks \subseteq planned[i][p]
                   /\ x.transfers = NetAt(p, x.blocks)
             /\ \A x, y \in SplitByBlock(Item(p)) : x.blocks \cap y.blocks # {} => x = y
             /\ \A b \in planned[i][p] : \E x \in SplitByBlock(Item(p)) : b \in x.blocks
  <2>1. p \in Products /\ planned[i][p] \in SUBSET Blocks
    BY <1>1
  <2> QED
    BY <1>1, <2>1, SplitItem
<1>6. /\ queue'[i] = queue[i] \cup new /\ pending'[i] = pending[i] \ objs
      /\ current'[i] = current[i] /\ told'[i] = told[i] /\ planned'[i] = planned[i]
      /\ pc'[i] = "running" /\ chain' = chain
  BY DEF FetchEvents, PipeInv, PipeTyped
<1> HIDE DEF Item
<1>7. new \in SUBSET ItemType
  BY <1>3, <1>5
<1>8. PipeTyped'
  <2>1. /\ pending' = [pending EXCEPT ![i] = pending[i] \ objs]
        /\ queue' = [queue EXCEPT ![i] = queue[i] \cup new]
        /\ UNCHANGED <<chain, pc, planned, current, told>>
    BY DEF FetchEvents
  <2> HIDE DEF new
  <2> QED
    BY <1>7, <2>1 DEF PipeInv, PipeTyped
<1> HIDE DEF new
<1>9. \A j \in Importers \ {i} : PipeUnchanged(j)
  BY DEF PipeInv, PipeTyped, FetchEvents, PipeUnchanged
<1>10. ItemsOf(i)' = ItemsOf(i) \cup new
  BY <1>6 DEF ItemsOf
<1>11. PipeOf(i)
  BY DEF PipeInv
<1>12. \A item \in ItemsOf(i) : item.product \notin objs
  BY <1>11 DEF PipeOf, ExactItem
<1>13. \A item : NetAt(item.product, item.blocks)' = NetAt(item.product, item.blocks)
  BY <1>6 DEF NetAt, Net
<1>14. ASSUME NEW item \in ItemsOf(i)'
       PROVE  ExactItem(i, item)'
  <2>1. CASE item \in ItemsOf(i)
    BY <1>6, <1>11, <1>13, <2>1 DEF PipeOf, ExactItem
  <2>2. CASE item \in new
    BY <1>3, <1>5, <1>6, <1>13, <2>2 DEF ExactItem
  <2> QED
    BY <1>10, <2>1, <2>2
<1>15. ItemsApart(i)'
  <2>1. ASSUME NEW x \in new
        PROVE  x \notin ItemsOf(i)
    BY <1>3, <1>5, <1>12
  <2>2. (queue[i] \cup new) \cap current[i] = {}
    BY <1>11, <2>1 DEF PipeOf, ItemsApart, ItemsOf
  <2>3. ASSUME NEW x \in ItemsOf(i) \cup new, NEW y \in ItemsOf(i) \cup new,
               x.product = y.product, x.blocks \cap y.blocks # {}
        PROVE  x = y
    <3>1. CASE x \in new /\ y \in new
      BY <1>3, <1>5, <2>3, <3>1
    <3>2. CASE x \in ItemsOf(i) /\ y \in ItemsOf(i)
      BY <1>11, <2>3, <3>2 DEF PipeOf, ItemsApart
    <3>3. CASE (x \in new /\ y \in ItemsOf(i)) \/ (x \in ItemsOf(i) /\ y \in new)
      BY <1>3, <1>5, <1>12, <2>3, <3>3
    <3> QED
      BY <3>1, <3>2, <3>3
  <2> QED
    BY <1>6, <1>10, <2>2, <2>3 DEF ItemsApart
<1>16. ASSUME NEW p \in Products, NEW b \in Blocks
       PROVE  BlockPlaced(i, p, b)'
  <2>1. BlockPlaced(i, p, b)
    BY <1>11 DEF PipeOf
  <2>2. InItem(i, p, b)' <=> InItem(i, p, b) \/ (p \in objs /\ b \in planned[i][p])
    <3>1. ASSUME NEW x \in new, x.product = p, b \in x.blocks
          PROVE  p \in objs /\ b \in planned[i][p]
      BY <1>3, <1>5, <3>1
    <3>2. ASSUME p \in objs, b \in planned[i][p]
          PROVE  \E x \in new : x.product = p /\ b \in x.blocks
      BY <1>4, <1>5, <3>2
    <3> QED
      BY <1>10, <3>1, <3>2 DEF InItem
  <2> QED
    BY <1>6, <2>1, <2>2 DEF BlockPlaced
<1> QED
  BY <1>6, <1>8, <1>9, <1>14, <1>15, <1>16 DEF PipeOf, IdleEmpty

LEMMA PipeBegin ==
    ASSUME PipeInv, NEW i \in Importers, Begin(i)
    PROVE  PipeTyped' /\ PipeOf(i)' /\ \A j \in Importers \ {i} : PipeUnchanged(j)
<1>1. /\ queue'[i] = {} /\ current'[i] = queue[i] /\ current[i] = {} /\ queue[i] # {}
      /\ UNCHANGED <<chain, pc, planned, pending, told>>
  BY DEF Begin, PipeInv, PipeTyped
<1>2. PipeTyped'
  BY <1>1 DEF Begin, PipeInv, PipeTyped
<1>3. \A j \in Importers \ {i} : PipeUnchanged(j)
  BY DEF PipeInv, PipeTyped, Begin, PipeUnchanged
<1>4. ItemsOf(i)' = ItemsOf(i)
  BY <1>1 DEF ItemsOf
<1>5. PipeOf(i)
  BY DEF PipeInv
<1>6. \A item : NetAt(item.product, item.blocks)' = NetAt(item.product, item.blocks)
  BY <1>1 DEF NetAt, Net
<1>7. \A item \in ItemsOf(i)' : ExactItem(i, item)'
  BY <1>1, <1>4, <1>5, <1>6 DEF PipeOf, ExactItem
<1>8. ItemsApart(i)'
  BY <1>1, <1>4, <1>5 DEF PipeOf, ItemsApart
<1>9. ASSUME NEW p \in Products, NEW b \in Blocks
      PROVE  BlockPlaced(i, p, b)'
  BY <1>1, <1>4, <1>5 DEF PipeOf, BlockPlaced, InItem
<1>10. IdleEmpty(i)'
  BY <1>1, <1>5 DEF PipeOf, IdleEmpty
<1> QED
  BY <1>2, <1>3, <1>7, <1>8, <1>9, <1>10 DEF PipeOf

LEMMA PipeStop ==
    ASSUME PipeInv, NEW i \in Importers, Stop(i)
    PROVE  PipeTyped' /\ PipeOf(i)' /\ \A j \in Importers \ {i} : PipeUnchanged(j)
<1>1. /\ pc'[i] = "idle" /\ planned'[i] = NothingPlanned /\ pending'[i] = {}
      /\ queue'[i] = {} /\ current'[i] = {} /\ told'[i] = NothingTold
  BY DEF Stop, PipeInv, PipeTyped
<1>2. /\ \A p \in Products : NothingPlanned[p] = {}
      /\ \A p \in Products, b \in Blocks : NothingTold[p][b] = 0
      /\ NothingPlanned \in [Products -> SUBSET Blocks]
      /\ NothingTold \in [Products -> [Blocks -> Nat]]
  BY DEF NothingPlanned, NothingTold
<1>3. PipeTyped'
  BY <1>2 DEF Stop, PipeInv, PipeTyped
<1>4. \A j \in Importers \ {i} : PipeUnchanged(j)
  BY DEF PipeInv, PipeTyped, Stop, PipeUnchanged
<1>5. \A p \in Products, b \in Blocks : BlockPlaced(i, p, b)'
  BY <1>1, <1>2 DEF BlockPlaced
<1>6. NothingPlanned' = NothingPlanned /\ NothingTold' = NothingTold
  BY DEF NothingPlanned, NothingTold
<1>7. IdleEmpty(i)'
  BY <1>1, <1>6 DEF IdleEmpty
<1> QED
  BY <1>1, <1>3, <1>4, <1>5, <1>7 DEF PipeOf, ItemsApart, ItemsOf

-----------------------------------------------------------------------------
(* What is reported is counted once, when nothing is reported twice. *)
ReportType == [product : Products, blocks : SUBSET Blocks, success : BOOLEAN]

ReportsApart(reports) ==
    /\ reports \subseteq ReportType
    /\ \A r, s \in reports : r.product = s.product /\ r.blocks \cap s.blocks # {} => r = s

InReport(reports, p, b) == \E r \in reports : r.product = p /\ b \in r.blocks

LEMMA ReportCounts ==
    ASSUME PipeTyped, NEW i \in Importers, NEW reports, ReportsApart(reports), Report(i, reports)
    PROVE  /\ told' \in [Importers -> [Products -> [Blocks -> Nat]]]
           /\ \A j \in Importers \ {i} : told'[j] = told[j]
           /\ \A p \in Products, b \in Blocks :
                 told'[i][p][b] = told[i][p][b] + (IF InReport(reports, p, b) THEN 1 ELSE 0)
<1> DEFINE count(p, b) == Cardinality({r \in reports : r.product = p /\ b \in r.blocks})
           new == [p \in Products |-> [b \in Blocks |-> told[i][p][b] + count(p, b)]]
<1>1. ASSUME NEW p \in Products, NEW b \in Blocks
      PROVE  count(p, b) = IF InReport(reports, p, b) THEN 1 ELSE 0
  <2> DEFINE found == {r \in reports : r.product = p /\ b \in r.blocks}
  <2>1. CASE InReport(reports, p, b)
    <3>1. PICK r \in reports : r.product = p /\ b \in r.blocks
      BY <2>1 DEF InReport
    <3>2. found = {r}
      BY <3>1 DEF ReportsApart
    <3> QED
      BY <2>1, <3>2, FS_Singleton
  <2>2. CASE ~InReport(reports, p, b)
    <3>1. found = {}
      BY <2>2 DEF InReport
    <3> QED
      BY <2>2, <3>1, FS_EmptySet
  <2> QED
    BY <2>1, <2>2
<1>2. told' = [told EXCEPT ![i] = new]
  BY DEF Report
<1> HIDE DEF count
<1>3. new \in [Products -> [Blocks -> Nat]]
  <2>1. ASSUME NEW p \in Products, NEW b \in Blocks
        PROVE  told[i][p][b] + count(p, b) \in Nat
    <3>1. told[i][p][b] \in Nat
      BY DEF PipeTyped
    <3> QED
      BY <1>1, <3>1
  <2> QED
    BY <2>1
<1>4. \A p \in Products, b \in Blocks : new[p][b] = told[i][p][b] + count(p, b)
  OBVIOUS
<1> HIDE DEF new
<1> QED
  BY <1>1, <1>2, <1>3, <1>4 DEF PipeTyped

LEMMA PipeFail ==
    ASSUME PipeInv, NEW i \in Importers, NEW objs \in SUBSET pending[i], FailEvents(i, objs)
    PROVE  PipeTyped' /\ PipeOf(i)' /\ \A j \in Importers \ {i} : PipeUnchanged(j)
<1> DEFINE reports == {[product |-> p, blocks |-> planned[i][p], success |-> FALSE] : p \in objs}
<1>1. objs \in SUBSET Products /\ PipeTyped /\ planned[i] \in [Products -> SUBSET Blocks]
  BY DEF PipeInv, PipeTyped
<1>2. Report(i, reports)
  BY DEF FailEvents
<1> DEFINE Told(p) == [product |-> p, blocks |-> planned[i][p], success |-> FALSE]
<1>t. ASSUME NEW p \in objs
      PROVE  /\ Told(p) \in ReportType
             /\ Told(p).product = p /\ Told(p).blocks = planned[i][p]
  BY <1>1 DEF ReportType
<1>r. reports = {Told(p) : p \in objs}
  OBVIOUS
<1> HIDE DEF reports, Told
<1>3. ReportsApart(reports)
  BY <1>t, <1>r DEF ReportsApart
<1>4. \A p \in Products, b \in Blocks :
         InReport(reports, p, b) <=> p \in objs /\ b \in planned[i][p]
  BY <1>t, <1>r DEF InReport
<1>5. /\ told' \in [Importers -> [Products -> [Blocks -> Nat]]]
      /\ \A j \in Importers \ {i} : told'[j] = told[j]
      /\ \A p \in Products, b \in Blocks :
            told'[i][p][b] = told[i][p][b] + (IF InReport(reports, p, b) THEN 1 ELSE 0)
  BY <1>1, <1>2, <1>3, ReportCounts
<1>6. /\ pending' = [pending EXCEPT ![i] = pending[i] \ objs] /\ pc[i] = "running"
      /\ UNCHANGED <<chain, pc, planned, queue, current>>
  BY DEF FailEvents
<1>7. PipeTyped'
  BY <1>1, <1>5, <1>6 DEF PipeTyped
<1>8. \A j \in Importers \ {i} : PipeUnchanged(j)
  BY <1>1, <1>5, <1>6 DEF PipeTyped, PipeUnchanged
<1>9. PipeOf(i) /\ pending'[i] = pending[i] \ objs
  BY <1>1, <1>6 DEF PipeInv, PipeTyped
<1>10. ItemsOf(i)' = ItemsOf(i) /\ \A p, b : InItem(i, p, b)' <=> InItem(i, p, b)
  BY <1>6 DEF ItemsOf, InItem
<1>11. \A item : NetAt(item.product, item.blocks)' = NetAt(item.product, item.blocks)
  BY <1>6 DEF NetAt, Net
<1>12. \A item \in ItemsOf(i)' : ExactItem(i, item)'
  BY <1>6, <1>9, <1>10, <1>11 DEF PipeOf, ExactItem
<1>13. ItemsApart(i)'
  BY <1>6, <1>9, <1>10 DEF PipeOf, ItemsApart
<1>14. ASSUME NEW p \in Products, NEW b \in Blocks
       PROVE  BlockPlaced(i, p, b)'
  <2>1. BlockPlaced(i, p, b)
    BY <1>9 DEF PipeOf
  <2>2. told'[i][p][b] = told[i][p][b] + (IF p \in objs /\ b \in planned[i][p] THEN 1 ELSE 0)
    BY <1>4, <1>5
  <2>3. p \in objs => ~InItem(i, p, b) /\ told[i][p][b] = 0
    BY <1>9, <2>1 DEF PipeOf, ExactItem, InItem, BlockPlaced
  <2> QED
    BY <1>6, <1>9, <1>10, <2>1, <2>2, <2>3 DEF BlockPlaced
<1>15. IdleEmpty(i)'
  BY <1>6 DEF IdleEmpty
<1> QED
  BY <1>7, <1>8, <1>12, <1>13, <1>14, <1>15 DEF PipeOf

LEMMA PipeFinish ==
    ASSUME PipeInv, NEW i \in Importers, Finish(i)
    PROVE  PipeTyped' /\ PipeOf(i)' /\ \A j \in Importers \ {i} : PipeUnchanged(j)
<1> DEFINE Told(item) == [product |-> item.product, blocks |-> item.blocks,
                          success |-> ~HasError(i, item)]
           reports == {Told(item) : item \in current[i]}
<1>1. PipeTyped /\ PipeOf(i) /\ current[i] \in SUBSET ItemType
  BY DEF PipeInv, PipeTyped
<1>2. Report(i, reports)
  BY DEF Finish
<1>t. ASSUME NEW item \in current[i]
      PROVE  /\ Told(item) \in ReportType
             /\ Told(item).product = item.product /\ Told(item).blocks = item.blocks
  BY <1>1 DEF ReportType, ItemType, HasError
<1>r. reports = {Told(item) : item \in current[i]}
  OBVIOUS
<1> HIDE DEF reports, Told
<1>3. ReportsApart(reports)
  <2>2. ASSUME NEW x \in current[i], NEW y \in current[i],
               Told(x).product = Told(y).product, Told(x).blocks \cap Told(y).blocks # {}
        PROVE  x = y
    BY <1>1, <1>t, <2>2 DEF PipeOf, ItemsApart, ItemsOf
  <2> QED
    BY <1>t, <1>r, <2>2 DEF ReportsApart
<1>4. \A p \in Products, b \in Blocks : InReport(reports, p, b) <=>
         \E item \in current[i] : item.product = p /\ b \in item.blocks
  BY <1>t, <1>r DEF InReport
<1>5. /\ told' \in [Importers -> [Products -> [Blocks -> Nat]]]
      /\ \A j \in Importers \ {i} : told'[j] = told[j]
      /\ \A p \in Products, b \in Blocks :
            told'[i][p][b] = told[i][p][b] + (IF InReport(reports, p, b) THEN 1 ELSE 0)
  BY <1>1, <1>2, <1>3, ReportCounts
<1>6. /\ current' = [current EXCEPT ![i] = {}] /\ current[i] # {}
      /\ UNCHANGED <<chain, pc, planned, pending, queue>>
  BY DEF Finish
<1>7. PipeTyped'
  BY <1>1, <1>5, <1>6 DEF PipeTyped
<1>8. \A j \in Importers \ {i} : PipeUnchanged(j)
  BY <1>1, <1>5, <1>6 DEF PipeTyped, PipeUnchanged
<1>9. ItemsOf(i)' = queue[i] /\ current'[i] = {}
  BY <1>1, <1>6 DEF ItemsOf, PipeTyped
<1>10. \A item : NetAt(item.product, item.blocks)' = NetAt(item.product, item.blocks)
  BY <1>6 DEF NetAt, Net
<1>11. \A item \in ItemsOf(i)' : ExactItem(i, item)'
  BY <1>1, <1>6, <1>9, <1>10 DEF PipeOf, ExactItem, ItemsOf
<1>12. ItemsApart(i)'
  BY <1>1, <1>6, <1>9 DEF PipeOf, ItemsApart, ItemsOf
<1>13. ASSUME NEW p \in Products, NEW b \in Blocks
       PROVE  BlockPlaced(i, p, b)'
  <2> DEFINE ended == \E item \in current[i] : item.product = p /\ b \in item.blocks
             waits == \E item \in queue[i] : item.product = p /\ b \in item.blocks
  <2>1. BlockPlaced(i, p, b)
    BY <1>1 DEF PipeOf
  <2>2. told'[i][p][b] = told[i][p][b] + (IF ended THEN 1 ELSE 0)
    BY <1>4, <1>5
  <2>3. InItem(i, p, b) <=> ended \/ waits
    BY DEF InItem, ItemsOf
  <2>4. InItem(i, p, b)' <=> waits
    BY <1>9 DEF InItem
  <2>5. ~(ended /\ waits)
    BY <1>1 DEF PipeOf, ItemsApart, ItemsOf
  <2>6. ended => b \in planned[i][p] /\ p \notin pending[i]
    BY <1>1 DEF PipeOf, ExactItem, ItemsOf
  <2> HIDE DEF ended, waits
  <2> QED
    BY <1>6, <2>1, <2>2, <2>3, <2>4, <2>5, <2>6 DEF BlockPlaced
<1>14. IdleEmpty(i)'
  BY <1>1, <1>6 DEF PipeOf, IdleEmpty
<1> QED
  BY <1>7, <1>8, <1>11, <1>12, <1>13, <1>14 DEF PipeOf

-----------------------------------------------------------------------------
(* The steps on transfers leave the items of the pipelines alone. *)
PipeFrame == UNCHANGED <<chain, pc, planned, pending, queue, current, told>>

LEMMA StepFrame ==
    ASSUME NEW i \in Importers,
           \/ Step(i)
           \/ \E stage \in Stages \ {"rows"} : \E batch \in Batches(i, stage) : FailRead(i, batch)
           \/ \E batch \in Batches(i, "rows") : FailRows(i, batch)
    PROVE  PipeFrame
<1>1. ASSUME Step(i) PROVE PipeFrame
  <2>1. Idle(i)
    BY <1>1 DEF Step, ReadData, RejectData, ReadSlow, LookUpDate, FetchDate, LookUpTime,
                InsertBlocks, StoreRows
  <2> QED
    BY <2>1 DEF Idle, PipeFrame
<1>2. ASSUME NEW batch, FailBatch(i, batch) PROVE PipeFrame
  BY <1>2 DEF FailBatch, PipeFrame
<1> QED
  BY <1>1, <1>2 DEF FailRead, FailRows

(* Only the importer that takes a step moves. *)
LEMMA PipeNext == PipeInv /\ [Next]_vars => PipeInv'
<1> SUFFICES ASSUME PipeInv, [Next]_vars PROVE PipeInv'
  OBVIOUS
<1>1. ASSUME NEW i \in Importers, PipeTyped', PipeOf(i)', chain' = chain,
             \A j \in Importers \ {i} : PipeUnchanged(j)
      PROVE  PipeInv'
  <2>1. ASSUME NEW j \in Importers \ {i}
        PROVE  PipeOf(j)'
    BY <1>1, PipeKept DEF PipeInv
  <2> QED
    BY <1>1, <2>1 DEF PipeInv
<1>2. ASSUME PipeFrame
      PROVE  PipeInv'
  <2>1. PipeTyped' /\ \A j \in Importers : PipeUnchanged(j)
    BY <1>2 DEF PipeFrame, PipeInv, PipeTyped, PipeUnchanged
  <2>2. chain' = chain
    BY <1>2 DEF PipeFrame
  <2>3. ASSUME NEW j \in Importers
        PROVE  PipeOf(j)'
    BY <2>1, <2>2, PipeKept DEF PipeInv
  <2> QED
    BY <2>1, <2>3 DEF PipeInv
<1>3. ASSUME NEW i \in Importers, NEW plan \in [Products -> SUBSET Blocks], Start(i, plan)
      PROVE  PipeInv'
  <2>1. chain' = chain
    BY <1>3 DEF Start
  <2> QED
    BY <1>1, <1>3, <2>1, PipeStart
<1>4. CASE StartHistorical
  <2>1. PICK found : Start("historical",
                 [p \in Products |->
                    IF state[p].created \/ p \in found
                    THEN (Created[p] .. MaxBlock) \ (state[p].covered \ state[p].toRetry)
                    ELSE {}])
    BY <1>4 DEF StartHistorical
  <2> DEFINE plan == [p \in Products |->
                        IF state[p].created \/ p \in found
                        THEN (Created[p] .. MaxBlock) \ (state[p].covered \ state[p].toRetry)
                        ELSE {}]
  <2>2. plan \in [Products -> SUBSET Blocks]
    <3>1. \A p \in Products : Created[p] .. MaxBlock \subseteq Blocks
      BY TransferAssumption DEF Blocks
    <3> QED
      BY <3>1
  <2> HIDE DEF plan
  <2> QED
    BY <1>3, <2>1, <2>2 DEF plan, Importers
<1>5. CASE StartRecent
  <2> DEFINE plan == [p \in Products |-> IF p \in DOMAIN chain.kind THEN RecentBlocks ELSE {}]
  <2>1. Start("recent", plan)
    BY <1>5 DEF StartRecent
  <2>2. plan \in [Products -> SUBSET Blocks]
    BY TransferAssumption
  <2> HIDE DEF plan
  <2> QED
    BY <1>3, <2>1, <2>2 DEF Importers
<1>6. ASSUME NEW i \in Importers, NEW objs \in SUBSET pending[i], FetchEvents(i, objs)
      PROVE  PipeInv'
  BY <1>1, <1>6, PipeFetch DEF FetchEvents
<1>7. ASSUME NEW i \in Importers, NEW objs \in SUBSET pending[i], FailEvents(i, objs)
      PROVE  PipeInv'
  BY <1>1, <1>7, PipeFail DEF FailEvents
<1>8. ASSUME NEW i \in Importers, Begin(i)
      PROVE  PipeInv'
  BY <1>1, <1>8, PipeBegin DEF Begin
<1>9. ASSUME NEW i \in Importers, Finish(i)
      PROVE  PipeInv'
  BY <1>1, <1>9, PipeFinish DEF Finish
<1>10. ASSUME NEW i \in Importers, End(i) \/ Crash(i)
       PROVE  PipeInv'
  <2>1. Stop(i)
    BY <1>10 DEF End, Crash
  <2>2. chain' = chain
    BY <2>1 DEF Stop
  <2> QED
    BY <1>1, <2>1, <2>2, PipeStop
<1>11. CASE UNCHANGED vars
  BY <1>2, <1>11 DEF vars, runVars, PipeFrame
<1>12. ASSUME NEW i \in Importers, Progress(i)
       PROVE  PipeInv'
  BY <1>2, <1>6, <1>8, <1>9, <1>10, <1>12, StepFrame DEF Progress
<1>13. ASSUME NEW i \in Importers, Failure(i)
       PROVE  PipeInv'
  BY <1>2, <1>7, <1>10, <1>13, StepFrame DEF Failure
<1> QED
  BY <1>4, <1>5, <1>11, <1>12, <1>13 DEF Next

LEMMA PipeTellsOnce == PipeInv => BlocksToldOnce
<1> SUFFICES ASSUME PipeInv, NEW i \in Importers, NEW p \in Products, NEW b \in Blocks
             PROVE  /\ told[i][p][b] <= 1
                    /\ told[i][p][b] = 1 => b \in planned[i][p]
                    /\ (Done(i) /\ b \in planned[i][p]) => told[i][p][b] = 1
  BY DEF BlocksToldOnce
<1>1. BlockPlaced(i, p, b)
  BY DEF PipeInv, PipeOf
<1> QED
  BY <1>1 DEF BlockPlaced, Done, InItem, ItemsOf

(***************************************************************************)
(* Whatever the queries, the batches and their failures, no run reports a  *)
(* block twice, nor one it had not planned, and a run that is done has     *)
(* reported all it had planned.                                            *)
(***************************************************************************)
THEOREM ReportsOnce == Spec => []BlocksToldOnce
<1> QED
  BY PipeInit, PipeNext, PipeTellsOnce, PTL DEF Spec

-----------------------------------------------------------------------------
(***************************************************************************)
(* What is in the tables: a row is that of a net transfer, with a time of  *)
(* its block, and a block has one time unless it is in blind.              *)
(***************************************************************************)
TablesTyped ==
    /\ blockTs \in [Blocks -> SUBSET Times]
    /\ investors \subseteq Owners
    /\ prices \subseteq [product : Products, block : Times, at : Times]
    /\ investments \subseteq RowType
    /\ cacheRows \subseteq RowType
    /\ blind \subseteq Blocks

OneTime == \A b \in Blocks \ blind : \A x, y \in blockTs[b] : x = y

SharesOf(t) == Shares[chain.kind][t.product][t.owner][t.block]

RightRow(r) ==
    /\ r.owner \notin Ignored
    /\ r.at \in blockTs[r.block]
    /\ \E t \in Net : /\ r.product = t.product /\ r.owner = t.owner /\ r.block = t.block
                      /\ r.diff = t.diff /\ r.balance = SharesOf(t)

TablesInv ==
    /\ TablesTyped
    /\ OneTime
    /\ \A r \in investments \cup cacheRows : RightRow(r)

(* Nothing is taken out of the tables. *)
Grow ==
    /\ \A b \in Blocks : blockTs[b] \subseteq blockTs'[b]
    /\ investors \subseteq investors'
    /\ prices \subseteq prices'
    /\ investments \subseteq investments'
    /\ cacheRows \subseteq cacheRows'

LEMMA SharesAreAmounts ==
    ASSUME chain \in Chains, NEW p \in Products, NEW o \in Owners,
           NEW b \in 0 .. MaxBlock + 1
    PROVE  /\ Shares[chain.kind][p][o][b] =
                 AmountOf({m \in Moves(chain.kind, Logs) :
                             m.product = p /\ m.owner = o /\ m.block <= b})
           /\ Shares[chain.kind][p][o][b] \in Int
<1> DEFINE all == Moves(chain.kind, Logs)
<1>1. chain.kind \in Kinds
  BY NetIsMerged
<1>2. Shares[chain.kind][p][o][b] =
         AmountOf({m \in all : m.product = p /\ m.owner = o /\ m.block <= b})
  BY <1>1 DEF Shares, AmountOf
<1>3. IsFiniteSet(all) /\ \A m \in all : m.amount \in Int
  BY MovesFinite, MovesTyped DEF MoveType
<1> HIDE DEF all
<1>4. AmountOf({m \in all : m.product = p /\ m.owner = o /\ m.block <= b}) \in Int
  BY <1>3, AmountOfParts
<1> QED
  BY <1>2, <1>4 DEF all

LEMMA BalanceIsShares ==
    ASSUME chain \in Chains, NEW t \in TransferType
    PROVE  BalanceRead(t) = SharesOf(t) /\ BalanceRead(t) \in Int
<1>1. t.block \in 0 .. MaxBlock + 1 /\ t.block \in Int
  BY TransferAssumption DEF TransferType, Blocks
<1>2. (IF chain.sameBlock THEN BlockTag(t.block) ELSE BlockTag(t.block) - 1) = t.block
  BY <1>1 DEF BlockTag
<1>3. BalanceRead(t) = SharesOf(t)
  BY <1>2 DEF BalanceRead, SharesOf
<1>4. t.product \in Products /\ t.owner \in Owners
  BY DEF TransferType
<1>5. SharesOf(t) \in Int
  BY <1>1, <1>4, SharesAreAmounts DEF SharesOf
<1> QED
  BY <1>3, <1>5

LEMMA FewElements ==
    ASSUME NEW S, IsFiniteSet(S), ~(Cardinality(S) > 1), NEW x \in S, NEW y \in S
    PROVE  x = y
<1> SUFFICES ASSUME x # y PROVE FALSE
  OBVIOUS
<1>1. IsFiniteSet({x}) /\ Cardinality({x}) = 1
  BY FS_Singleton
<1>2. Cardinality({x} \cup {y}) = 2
  BY <1>1, FS_AddElement
<1>3. {x} \cup {y} \in SUBSET S
  OBVIOUS
<1>4. Cardinality({x} \cup {y}) <= Cardinality(S) /\ Cardinality(S) \in Nat
  BY <1>3, FS_Subset, FS_CardinalityType
<1> QED
  BY <1>2, <1>4

(* Times found for blocks, by one that looked, or that are there already. *)
LEMMA TimesInserted ==
    ASSUME TablesInv, NEW rows \in SUBSET [block : Blocks, at : Times],
           NEW unknowing \in SUBSET Blocks, InsertTimes(rows, unknowing),
           \A r \in rows : r.block \in unknowing \/ r.at \in blockTs[r.block]
    PROVE  /\ blockTs' \in [Blocks -> SUBSET Times] /\ blind' \subseteq Blocks
           /\ OneTime'
           /\ \A b \in Blocks : blockTs[b] \subseteq blockTs'[b]
           /\ \A r \in rows : r.at \in blockTs'[r.block]
<1> DEFINE Found(b) == {r.at : r \in {x \in rows : x.block = b}}
<1>1. blockTs' = [b \in Blocks |-> blockTs[b] \cup Found(b)]
  BY DEF InsertTimes
<1>2. ASSUME NEW b \in Blocks
      PROVE  Found(b) \in SUBSET Times
  OBVIOUS
<1>3. blockTs' \in [Blocks -> SUBSET Times]
  <2> HIDE DEF Found
  <2> QED
    BY <1>1, <1>2 DEF TablesInv, TablesTyped
<1>4. \A b \in Blocks : blockTs'[b] = blockTs[b] \cup Found(b)
  BY <1>1
<1>5. blind' = blind \cup {b \in unknowing : Cardinality(blockTs'[b]) > 1}
  BY DEF InsertTimes
<1>6. ASSUME NEW b \in Blocks \ blind', NEW x \in blockTs'[b], NEW y \in blockTs'[b]
      PROVE  x = y
  <2>1. CASE b \in unknowing
    <3>1. ~(Cardinality(blockTs'[b]) > 1)
      BY <1>5, <2>1
    <3>2. IsFiniteSet(blockTs'[b])
      <4>1. IsFiniteSet(Times)
        BY TransferAssumption, FS_Interval DEF Times
      <4> QED
        BY <1>3, <4>1, FS_Subset
    <3> QED
      BY <3>1, <3>2, FewElements
  <2>2. CASE b \notin unknowing
    <3>1. Found(b) \subseteq blockTs[b]
      BY <2>2
    <3> HIDE DEF Found
    <3>2. x \in blockTs[b] /\ y \in blockTs[b]
      BY <1>4, <3>1
    <3>3. b \notin blind
      BY <1>5
    <3> QED
      BY <3>2, <3>3 DEF TablesInv, OneTime
  <2> QED
    BY <2>1, <2>2
<1>7. OneTime'
  BY <1>6 DEF OneTime
<1>8. \A r \in rows : r.at \in Found(r.block) /\ r.block \in Blocks
  OBVIOUS
<1>9. blind' \subseteq Blocks
  BY <1>5 DEF TablesInv, TablesTyped
<1> HIDE DEF Found
<1> QED
  BY <1>3, <1>4, <1>7, <1>8, <1>9

LEMMA StoredKept ==
    ASSUME TablesTyped, Grow, NEW t, Stored(t)
    PROVE  Stored(t)'
<1>1. PICK r \in investments \cap cacheRows :
        /\ r.product = t.product /\ r.owner = t.owner
        /\ r.block = t.block /\ r.diff = t.diff
        /\ r.at \in blockTs[r.block]
        /\ r.owner \in investors
        /\ \E s \in prices : s.product = r.product /\ s.at = r.at
  BY DEF Stored
<1>2. r.block \in Blocks
  BY DEF TablesTyped, RowType
<1>3. r \in investments' \cap cacheRows' /\ r.at \in blockTs'[r.block] /\ r.owner \in investors'
  BY <1>1, <1>2 DEF Grow
<1>4. PICK s \in prices : s.product = r.product /\ s.at = r.at
  BY <1>1
<1>5. s \in prices'
  BY <1>4 DEF Grow
<1> QED
  BY <1>1, <1>3, <1>4, <1>5 DEF Stored

LEMMA RowKept ==
    ASSUME TablesTyped, chain' = chain, \A b \in Blocks : blockTs[b] \subseteq blockTs'[b],
           NEW r \in RowType, RightRow(r)
    PROVE  RightRow(r)'
<1>1. r.at \in blockTs'[r.block]
  BY DEF RightRow, RowType
<1>2. Net' = Net /\ \A t : SharesOf(t)' = SharesOf(t)
  BY DEF Net, SharesOf
<1> QED
  BY <1>1, <1>2 DEF RightRow

-----------------------------------------------------------------------------
(***************************************************************************)
(* The transfers in the sub pipeline: those of its items, each as far as   *)
(* its stage says, given the times of its block and whether it is stored.  *)
(***************************************************************************)
RightWork(w, times, isStored) ==
    /\ w.stage = "slow" => w.slow
    /\ w.stage \in {"time", "block", "rows"} => w.at # None
    /\ (w.stage \in {"block", "rows"} /\ ~w.unseen) => w.at \in times
    /\ w.stage = "rows" => ~w.unseen
    /\ w.stage = "stored" => isStored

WorkTyped ==
    /\ DOMAIN work = Importers
    /\ \A i \in Importers : \A t \in DOMAIN work[i] : work[i][t] \in WorkType

WorkInv ==
    /\ WorkTyped
    /\ \A i \in Importers :
          /\ DOMAIN work[i] = UNION {TargetsOf(item) : item \in current[i]}
          /\ \A t \in DOMAIN work[i] : RightWork(work[i][t], blockTs[t.block], Stored(t))

LEMMA WorkIsNet ==
    ASSUME PipeInv, WorkInv, NEW i \in Importers, NEW t \in DOMAIN work[i]
    PROVE  t \in Net /\ t \in TransferType /\ t.owner \notin Ignored
<1>1. PICK item \in current[i] : t \in TargetsOf(item)
  BY DEF WorkInv
<1>2. item.transfers = NetAt(item.product, item.blocks)
  BY DEF PipeInv, PipeOf, ItemsOf, ExactItem
<1>3. t \in Net /\ t.owner \notin Ignored
  BY <1>1, <1>2 DEF TargetsOf, NetAt
<1> QED
  BY <1>3, NetTyped DEF PipeInv, PipeTyped

LEMMA RightWorkKept ==
    ASSUME TablesTyped, Grow, NEW t \in TransferType,
           NEW w, RightWork(w, blockTs[t.block], Stored(t))
    PROVE  RightWork(w, blockTs'[t.block], Stored(t)')
<1>1. blockTs[t.block] \subseteq blockTs'[t.block]
  BY DEF Grow, TransferType
<1> QED
  BY <1>1, StoredKept DEF RightWork

LEMMA ToTyped ==
    ASSUME NEW i, NEW t, work[i][t] \in WorkType,
           NEW stage \in Stages \cup {"stored", "failed"}
    PROVE  /\ To(i, t, stage) \in WorkType /\ To(i, t, stage).stage = stage
           /\ To(i, t, stage).at = work[i][t].at
           /\ To(i, t, stage).unseen = work[i][t].unseen
           /\ To(i, t, stage).slow = work[i][t].slow
BY DEF To, WorkType

(* A step on a batch: new is what becomes of the transfers of the batch. *)
MovedTo(i, batch, new) ==
    work' = [work EXCEPT ![i] = [t \in DOMAIN work[i] |->
                                   IF t \in batch THEN new[t] ELSE work[i][t]]]

LEMMA WorkMoved ==
    ASSUME PipeInv, WorkInv, TablesTyped, PipeFrame, Grow,
           NEW i \in Importers, NEW batch \in SUBSET DOMAIN work[i],
           NEW new, MovedTo(i, batch, new),
           \A t \in batch : /\ new[t] \in WorkType
                            /\ RightWork(new[t], blockTs'[t.block], Stored(t)')
    PROVE  WorkInv'
<1>1. /\ DOMAIN work' = Importers
      /\ \A j \in Importers \ {i} : work'[j] = work[j]
      /\ work'[i] = [t \in DOMAIN work[i] |-> IF t \in batch THEN new[t] ELSE work[i][t]]
  BY DEF MovedTo, WorkInv, WorkTyped
<1>2. /\ DOMAIN work'[i] = DOMAIN work[i]
      /\ \A t \in DOMAIN work[i] :
            work'[i][t] = IF t \in batch THEN new[t] ELSE work[i][t]
  BY <1>1
<1>3. \A j \in Importers : DOMAIN work'[j] = DOMAIN work[j]
  BY <1>1, <1>2
<1>4. ASSUME NEW j \in Importers, NEW t \in DOMAIN work[j]
      PROVE  /\ work'[j][t] \in WorkType
             /\ RightWork(work'[j][t], blockTs'[t.block], Stored(t)')
  <2>1. CASE j = i /\ t \in batch
    <3>1. work'[j][t] = new[t]
      BY <1>2, <2>1
    <3> QED
      BY <2>1, <3>1
  <2>2. CASE ~(j = i /\ t \in batch)
    <3>1. work'[j][t] = work[j][t]
      BY <1>1, <1>2, <2>2
    <3>2. t \in TransferType
      BY WorkIsNet
    <3>3. work[j][t] \in WorkType /\ RightWork(work[j][t], blockTs[t.block], Stored(t))
      BY DEF WorkInv, WorkTyped
    <3>4. RightWork(work[j][t], blockTs'[t.block], Stored(t)')
      BY <3>2, <3>3, RightWorkKept
    <3> QED
      BY <3>1, <3>3, <3>4
  <2> QED
    BY <2>1, <2>2
<1>5. \A j \in Importers :
         UNION {TargetsOf(item) : item \in current'[j]} = UNION {TargetsOf(item) : item \in current[j]}
  BY DEF PipeFrame
<1>6. WorkTyped'
  BY <1>1, <1>3, <1>4 DEF WorkTyped
<1>7. \A j \in Importers :
         /\ DOMAIN work'[j] = UNION {TargetsOf(item) : item \in current'[j]}
         /\ \A t \in DOMAIN work'[j] : RightWork(work'[j][t], blockTs'[t.block], Stored(t)')
  BY <1>3, <1>4, <1>5 DEF WorkInv
<1> QED
  BY <1>6, <1>7 DEF WorkInv, TargetsOf

-----------------------------------------------------------------------------
(* The rows of a batch. *)

(* Two rows with the same key are the same row: an upsert only adds rows. *)
LEMMA RowsAgree ==
    ASSUME chain \in Chains, NEW r \in RowType, RightRow(r), NEW s \in RowType, RightRow(s),
           SameKey(r, s)
    PROVE  r = s
<1>1. PICK t \in Net : /\ r.product = t.product /\ r.owner = t.owner /\ r.block = t.block
                       /\ r.diff = t.diff /\ r.balance = SharesOf(t)
  BY DEF RightRow
<1>2. PICK u \in Net : /\ s.product = u.product /\ s.owner = u.owner /\ s.block = u.block
                       /\ s.diff = u.diff /\ s.balance = SharesOf(u)
  BY DEF RightRow
<1>3. t = u
  BY <1>1, <1>2, NetTyped DEF SameKey
<1>4. /\ r.product = s.product /\ r.owner = s.owner /\ r.block = s.block
      /\ r.at = s.at /\ r.balance = s.balance /\ r.diff = s.diff
  BY <1>1, <1>2, <1>3 DEF SameKey
<1> QED
  BY <1>4 DEF RowType

LEMMA UpsertAdds ==
    ASSUME chain \in Chains, NEW rows \in SUBSET RowType, NEW new \in SUBSET RowType,
           \A r \in rows \cup new : RightRow(r)
    PROVE  Upsert(rows, new) = rows \cup new
<1>1. \A r \in rows, n \in new : SameKey(r, n) => r = n
  BY RowsAgree
<1> QED
  BY <1>1 DEF Upsert

LEMMA RowOfTransfer ==
    ASSUME PipeInv, WorkInv, TablesInv, NEW i \in Importers, NEW t \in DOMAIN work[i],
           work[i][t].stage = "rows"
    PROVE  /\ Row(i, t) \in RowType /\ RightRow(Row(i, t))
           /\ SharePrice(i, t) \in [product : Products, block : Times, at : Times]
<1>1. t \in Net /\ t \in TransferType /\ t.owner \notin Ignored /\ chain \in Chains
  BY WorkIsNet DEF PipeInv, PipeTyped
<1>2. /\ t.product \in Products /\ t.owner \in Owners /\ t.block \in Blocks /\ t.diff \in Int
  BY <1>1 DEF TransferType
<1>3. work[i][t] \in WorkType /\ RightWork(work[i][t], blockTs[t.block], Stored(t))
  BY DEF WorkInv, WorkTyped
<1>4. work[i][t].at \in Times /\ work[i][t].at \in blockTs[t.block]
  BY <1>3 DEF WorkType, RightWork
<1>5. BalanceRead(t) = SharesOf(t) /\ BalanceRead(t) \in Int
  BY <1>1, BalanceIsShares
<1>6. Row(i, t) \in RowType
  BY <1>2, <1>4, <1>5 DEF Row, RowType
<1>7. /\ Row(i, t).product = t.product /\ Row(i, t).owner = t.owner
      /\ Row(i, t).block = t.block /\ Row(i, t).diff = t.diff
      /\ Row(i, t).at = work[i][t].at /\ Row(i, t).balance = SharesOf(t)
  BY <1>5 DEF Row
<1>8. RightRow(Row(i, t))
  BY <1>1, <1>4, <1>7 DEF RightRow
<1>9. t.block \in Times
  BY <1>2, TransferAssumption DEF Blocks, Times
<1> QED
  BY <1>2, <1>4, <1>6, <1>8, <1>9 DEF SharePrice

LEMMA RowsInserted ==
    ASSUME PipeInv, WorkInv, TablesInv, NEW i \in Importers, NEW batch \in SUBSET DOMAIN work[i],
           \A t \in batch : work[i][t].stage = "rows",
           NEW done \in 0 .. 4, InsertRows(i, batch, done), chain' = chain
    PROVE  TablesInv' /\ Grow /\ (done = 4 => \A t \in batch : Stored(t)')
<1> DEFINE rows == {Row(i, t) : t \in batch}
           rates == {SharePrice(i, t) : t \in batch}
           owners == {t.owner : t \in batch}
<1>1. \A t \in batch : /\ Row(i, t) \in RowType /\ RightRow(Row(i, t))
                       /\ SharePrice(i, t) \in [product : Products, block : Times, at : Times]
  BY RowOfTransfer
<1>2. \A t \in batch : t \in TransferType
  BY WorkIsNet
<1>3. rows \in SUBSET RowType /\ \A r \in rows : RightRow(r)
  BY <1>1
<1>4. owners \subseteq Owners /\ rates \subseteq [product : Products, block : Times, at : Times]
  BY <1>1, <1>2 DEF TransferType
<1>5. chain \in Chains /\ TablesTyped /\ \A r \in investments \cup cacheRows : RightRow(r)
  BY DEF PipeInv, PipeTyped, TablesInv
<1>6. /\ investors' = IF 1 <= done THEN investors \cup owners ELSE investors
      /\ prices' = IF 2 <= done THEN prices \cup rates ELSE prices
      /\ investments' = IF 3 <= done THEN Upsert(investments, rows) ELSE investments
      /\ cacheRows' = IF 4 <= done THEN Upsert(cacheRows, rows) ELSE cacheRows
      /\ UNCHANGED <<blockTs, blind>>
  BY DEF InsertRows
<1> HIDE DEF rows, owners, rates
<1>7. /\ Upsert(investments, rows) = investments \cup rows
      /\ Upsert(cacheRows, rows) = cacheRows \cup rows
  BY <1>3, <1>5, UpsertAdds DEF TablesTyped
<1>8. Grow
  BY <1>6, <1>7 DEF Grow
<1>9. TablesTyped'
  BY <1>3, <1>4, <1>5, <1>6, <1>7 DEF TablesTyped
<1>10. OneTime'
  BY <1>6 DEF TablesInv, OneTime
<1>11. ASSUME NEW r \in (investments \cup cacheRows)'
       PROVE  RightRow(r)'
  <2>1. r \in RowType /\ RightRow(r)
    BY <1>3, <1>5, <1>6, <1>7 DEF TablesTyped
  <2>2. \A b \in Blocks : blockTs[b] \subseteq blockTs'[b]
    BY <1>8 DEF Grow
  <2> QED
    BY <1>5, <2>1, <2>2, RowKept
<1>12. ASSUME done = 4, NEW t \in batch
       PROVE  Stored(t)'
  <2>1. Row(i, t) \in rows /\ SharePrice(i, t) \in rates /\ t.owner \in owners
    BY DEF rows, rates, owners
  <2>2. Row(i, t) \in investments' \cap cacheRows' /\ SharePrice(i, t) \in prices'
        /\ t.owner \in investors' /\ blockTs' = blockTs
    BY <1>6, <1>7, <1>12, <2>1
  <2>3. /\ Row(i, t).product = t.product /\ Row(i, t).owner = t.owner
        /\ Row(i, t).block = t.block /\ Row(i, t).diff = t.diff
        /\ SharePrice(i, t).product = t.product /\ SharePrice(i, t).at = Row(i, t).at
    BY DEF Row, SharePrice
  <2>4. Row(i, t).at \in blockTs'[Row(i, t).block]
    BY <1>1, <2>2 DEF RightRow
  <2> QED
    BY <2>2, <2>3, <2>4 DEF Stored
<1> QED
  BY <1>8, <1>9, <1>10, <1>11, <1>12 DEF TablesInv

-----------------------------------------------------------------------------
(* The steps of the sub pipeline. *)

LEMMA TablesUnchanged ==
    ASSUME TablesInv, UNCHANGED <<tables, chain>>
    PROVE  TablesInv' /\ Grow
<1>1. Net' = Net /\ \A t : SharesOf(t)' = SharesOf(t)
  BY DEF Net, SharesOf
<1>2. UNCHANGED <<blockTs, investors, prices, investments, cacheRows, blind>>
  BY DEF tables
<1>3. \A r : RightRow(r)' <=> RightRow(r)
  BY <1>1, <1>2 DEF RightRow
<1> QED
  BY <1>2, <1>3 DEF TablesInv, TablesTyped, OneTime, Grow

LEMMA BatchWork ==
    ASSUME PipeInv, WorkInv, NEW i \in Importers, NEW stage,
           NEW batch \in Batches(i, stage)
    PROVE  /\ batch \in SUBSET DOMAIN work[i]
           /\ \A t \in batch :
                 /\ t \in TransferType /\ t.block \in Blocks /\ t.block \in Times
                 /\ BlockTag(t.block) \in Times
                 /\ work[i][t] \in WorkType /\ work[i][t].stage = stage
                 /\ RightWork(work[i][t], blockTs[t.block], Stored(t))
<1>1. batch \in SUBSET DOMAIN work[i] /\ \A t \in batch : work[i][t].stage = stage
  BY DEF Batches, Waiting
<1>2. ASSUME NEW t \in batch
      PROVE  t \in TransferType /\ t.block \in Blocks /\ t.block \in Times
             /\ BlockTag(t.block) \in Times
  <2>1. t \in TransferType /\ t.block \in Blocks
    BY <1>1, WorkIsNet DEF TransferType
  <2> QED
    BY <2>1, TransferAssumption DEF Blocks, Times, BlockTag
<1> QED
  BY <1>1, <1>2 DEF WorkInv, WorkTyped

(* A step that leaves the tables alone. *)
LEMMA QuietStep ==
    ASSUME PipeInv, WorkInv, TablesInv, PipeFrame, UNCHANGED tables,
           NEW i \in Importers, NEW batch \in SUBSET DOMAIN work[i],
           NEW new, MovedTo(i, batch, new),
           \A t \in batch : /\ new[t] \in WorkType
                            /\ RightWork(new[t], blockTs[t.block], Stored(t))
    PROVE  WorkInv' /\ TablesInv' /\ Grow
<1>1. TablesInv' /\ Grow
  BY TablesUnchanged DEF PipeFrame
<1>2. TablesTyped
  BY DEF TablesInv
<1>3. ASSUME NEW t \in batch
      PROVE  RightWork(new[t], blockTs'[t.block], Stored(t)')
  <2>1. t \in TransferType
    BY WorkIsNet
  <2> QED
    BY <1>1, <1>2, <2>1, RightWorkKept
<1> QED
  BY <1>1, <1>2, <1>3, WorkMoved

LEMMA StepReadData ==
    ASSUME PipeInv, WorkInv, TablesInv, PipeFrame, NEW i \in Importers,
           NEW batch \in Batches(i, "data"), ReadData(i, batch)
    PROVE  WorkInv' /\ TablesInv' /\ Grow
<1> DEFINE New(t) ==
              IF ~Multicall(batch) THEN [To(i, t, "slow") EXCEPT !.slow = TRUE]
              ELSE IF chain.timestamp THEN [To(i, t, "time") EXCEPT !.at = BlockTag(t.block)]
              ELSE To(i, t, "date")
           new == [t \in batch |-> New(t)]
<1>1. MovedTo(i, batch, new)
  BY DEF ReadData, Move, MovedTo
<1>2. ASSUME NEW t \in batch
      PROVE  new[t] \in WorkType /\ RightWork(new[t], blockTs[t.block], Stored(t))
  <2>1. BlockTag(t.block) \in Times /\ work[i][t] \in WorkType
    BY BatchWork
  <2>2. {"slow", "time", "date"} \subseteq Stages \cup {"stored", "failed"}
    BY DEF Stages
  <2>3. \A s \in {"slow", "time", "date"} : To(i, t, s) \in WorkType /\ To(i, t, s).stage = s
    BY <2>1, <2>2, ToTyped
  <2>4. BlockTag(t.block) # None
    BY <2>1, TransferAssumption DEF Times
  <2>5. [To(i, t, "slow") EXCEPT !.slow = TRUE] \in WorkType
        /\ [To(i, t, "slow") EXCEPT !.slow = TRUE].stage = "slow"
        /\ [To(i, t, "slow") EXCEPT !.slow = TRUE].slow
    BY <2>3 DEF WorkType
  <2>6. [To(i, t, "time") EXCEPT !.at = BlockTag(t.block)] \in WorkType
        /\ [To(i, t, "time") EXCEPT !.at = BlockTag(t.block)].stage = "time"
        /\ [To(i, t, "time") EXCEPT !.at = BlockTag(t.block)].at # None
    BY <2>1, <2>3, <2>4 DEF WorkType
  <2>7. new[t] = New(t)
    OBVIOUS
  <2>8. CASE ~Multicall(batch)
    BY <2>5, <2>7, <2>8 DEF RightWork
  <2>9. CASE Multicall(batch) /\ chain.timestamp
    BY <2>6, <2>7, <2>9 DEF RightWork
  <2>10. CASE Multicall(batch) /\ ~chain.timestamp
    BY <2>3, <2>7, <2>10 DEF RightWork
  <2> QED
    BY <2>8, <2>9, <2>10
<1>3. UNCHANGED tables
  BY DEF ReadData
<1> HIDE DEF new
<1> QED
  BY <1>1, <1>2, <1>3, BatchWork, QuietStep

(* All of a batch is in error. *)
LEMMA StepFailed ==
    ASSUME PipeInv, WorkInv, TablesInv, PipeFrame, UNCHANGED tables, NEW i \in Importers,
           NEW stage, NEW batch \in Batches(i, stage),
           Move(i, batch, LAMBDA t : To(i, t, "failed"))
    PROVE  WorkInv' /\ TablesInv' /\ Grow
<1> DEFINE new == [t \in batch |-> To(i, t, "failed")]
<1>1. MovedTo(i, batch, new)
  BY DEF Move, MovedTo
<1>2. ASSUME NEW t \in batch
      PROVE  new[t] \in WorkType /\ RightWork(new[t], blockTs[t.block], Stored(t))
  <2>1. To(i, t, "failed") \in WorkType /\ To(i, t, "failed").stage = "failed"
    <3>1. work[i][t] \in WorkType
      BY BatchWork
    <3> QED
      BY <3>1, ToTyped
  <2>2. new[t] = To(i, t, "failed")
    OBVIOUS
  <2> QED
    BY <2>1, <2>2 DEF RightWork
<1> HIDE DEF new
<1> QED
  BY <1>1, <1>2, BatchWork, QuietStep

LEMMA StepReadSlow ==
    ASSUME PipeInv, WorkInv, TablesInv, PipeFrame, NEW i \in Importers,
           NEW batch \in Batches(i, "slow"), ReadSlow(i, batch)
    PROVE  WorkInv' /\ TablesInv' /\ Grow
<1> DEFINE rates == {t \in batch : FetchesRate(t)}
           byMulticall == chain.timestamp /\ Multicall(rates)
           New(t) == IF t \in rates /\ byMulticall
                     THEN [To(i, t, AfterDate(i, t)) EXCEPT !.at = BlockTag(t.block)]
                     ELSE To(i, t, "date")
           new == [t \in batch |-> New(t)]
<1>1. MovedTo(i, batch, new) /\ UNCHANGED tables
  BY DEF ReadSlow, RateAlone, RateByMulticall, Move, MovedTo
<1>2. ASSUME NEW t \in batch
      PROVE  new[t] \in WorkType /\ RightWork(new[t], blockTs[t.block], Stored(t))
  <2>1. /\ BlockTag(t.block) \in Times /\ work[i][t] \in WorkType
        /\ work[i][t].slow
    BY BatchWork DEF RightWork
  <2>2. {"time", "date"} \subseteq Stages \cup {"stored", "failed"}
    BY DEF Stages
  <2>3. \A s \in {"time", "date"} : To(i, t, s) \in WorkType /\ To(i, t, s).stage = s
    BY <2>1, <2>2, ToTyped
  <2>4. BlockTag(t.block) # None
    BY <2>1, TransferAssumption DEF Times
  <2>6. [To(i, t, "time") EXCEPT !.at = BlockTag(t.block)] \in WorkType
        /\ [To(i, t, "time") EXCEPT !.at = BlockTag(t.block)].stage = "time"
        /\ [To(i, t, "time") EXCEPT !.at = BlockTag(t.block)].at # None
    BY <2>1, <2>3, <2>4 DEF WorkType
  <2>7. new[t] = New(t)
    OBVIOUS
  <2>8. CASE t \in rates /\ byMulticall
    <3>1. AfterDate(i, t) = "time"
      BY <2>1, <2>8 DEF AfterDate, Multicall
    <3> QED
      BY <2>6, <2>7, <2>8, <3>1 DEF RightWork
  <2>9. CASE ~(t \in rates /\ byMulticall)
    BY <2>3, <2>7, <2>9 DEF RightWork
  <2> QED
    BY <2>8, <2>9
<1> HIDE DEF new
<1> QED
  BY <1>1, <1>2, BatchWork, QuietStep

LEMMA DateStage ==
    ASSUME NEW i, NEW t
    PROVE  AfterDate(i, t) \in {"time", "block"}
           /\ AfterDate(i, t) \in Stages \cup {"stored", "failed"}
BY DEF AfterDate, Stages

(* A time of its block is known of a transfer. *)
LEMMA Dated ==
    ASSUME NEW i, NEW t, work[i][t] \in WorkType, NEW stage \in {"time", "block"},
           NEW times \in SUBSET Times, NEW at \in times, NEW isStored
    PROVE  /\ [To(i, t, stage) EXCEPT !.at = at] \in WorkType
           /\ RightWork([To(i, t, stage) EXCEPT !.at = at], times, isStored)
<1>1. To(i, t, stage) \in WorkType /\ To(i, t, stage).stage = stage
  BY ToTyped DEF Stages
<1>2. at \in Times /\ at # None
  BY TransferAssumption DEF Times
<1>3. /\ [To(i, t, stage) EXCEPT !.at = at] \in WorkType
      /\ [To(i, t, stage) EXCEPT !.at = at].stage = stage
      /\ [To(i, t, stage) EXCEPT !.at = at].at = at
  BY <1>1, <1>2 DEF WorkType
<1> HIDE DEF To
<1> QED
  BY <1>2, <1>3 DEF RightWork

LEMMA Found ==
    ASSUME NEW found \in Answers, NEW b \in Blocks, found[b] # None
    PROVE  found[b] \in blockTs[b]
BY DEF Answers

LEMMA StepLookUpDate ==
    ASSUME PipeInv, WorkInv, TablesInv, PipeFrame, NEW i \in Importers,
           NEW batch \in Batches(i, "date"), LookUpDate(i, batch)
    PROVE  WorkInv' /\ TablesInv' /\ Grow
<1>1. PICK found \in Answers :
          Move(i, batch, LAMBDA t :
              IF found[t.block] = None THEN To(i, t, "rpc")
              ELSE [To(i, t, AfterDate(i, t)) EXCEPT !.at = found[t.block]])
  BY DEF LookUpDate
<1> DEFINE New(t) == IF found[t.block] = None THEN To(i, t, "rpc")
                     ELSE [To(i, t, AfterDate(i, t)) EXCEPT !.at = found[t.block]]
           new == [t \in batch |-> New(t)]
<1>2. MovedTo(i, batch, new)
  BY <1>1 DEF Move, MovedTo
<1>3. ASSUME NEW t \in batch
      PROVE  new[t] \in WorkType /\ RightWork(new[t], blockTs[t.block], Stored(t))
  <2>1. t.block \in Blocks /\ work[i][t] \in WorkType
    BY BatchWork
  <2>2. new[t] = New(t)
    OBVIOUS
  <2>3. CASE found[t.block] = None
    <3>1. To(i, t, "rpc") \in WorkType /\ To(i, t, "rpc").stage = "rpc"
      BY <2>1, ToTyped DEF Stages
    <3> QED
      BY <2>2, <2>3, <3>1 DEF RightWork
  <2>4. CASE found[t.block] # None
    <3>1. found[t.block] \in blockTs[t.block]
      BY <2>1, <2>4, Found
    <3>2. blockTs[t.block] \in SUBSET Times
      BY <2>1 DEF TablesInv, TablesTyped
    <3>3. AfterDate(i, t) \in {"time", "block"}
      BY DateStage
    <3> QED
      BY <2>1, <2>2, <2>4, <3>1, <3>2, <3>3, Dated
  <2> QED
    BY <2>3, <2>4
<1>4. UNCHANGED tables
  BY DEF LookUpDate
<1> HIDE DEF new
<1> QED
  BY <1>2, <1>3, <1>4, BatchWork, QuietStep

LEMMA StepLookUpTime ==
    ASSUME PipeInv, WorkInv, TablesInv, PipeFrame, NEW i \in Importers,
           NEW batch \in Batches(i, "time"), LookUpTime(i, batch)
    PROVE  WorkInv' /\ TablesInv' /\ Grow
<1>1. PICK found \in Answers :
          Move(i, batch, LAMBDA t :
              IF found[t.block] = None THEN [To(i, t, "block") EXCEPT !.unseen = TRUE]
              ELSE [To(i, t, "block") EXCEPT !.at = found[t.block]])
  BY DEF LookUpTime
<1> DEFINE New(t) == IF found[t.block] = None THEN [To(i, t, "block") EXCEPT !.unseen = TRUE]
                     ELSE [To(i, t, "block") EXCEPT !.at = found[t.block]]
           new == [t \in batch |-> New(t)]
<1>2. MovedTo(i, batch, new)
  BY <1>1 DEF Move, MovedTo
<1>3. ASSUME NEW t \in batch
      PROVE  new[t] \in WorkType /\ RightWork(new[t], blockTs[t.block], Stored(t))
  <2>1. t.block \in Blocks /\ work[i][t] \in WorkType /\ work[i][t].at # None
    BY BatchWork DEF RightWork
  <2>2. new[t] = New(t)
    OBVIOUS
  <2>3. CASE found[t.block] = None
    <3>1. /\ To(i, t, "block") \in WorkType /\ To(i, t, "block").stage = "block"
          /\ To(i, t, "block").at # None
      BY <2>1, ToTyped DEF Stages
    <3>2. /\ [To(i, t, "block") EXCEPT !.unseen = TRUE] \in WorkType
          /\ [To(i, t, "block") EXCEPT !.unseen = TRUE].stage = "block"
          /\ [To(i, t, "block") EXCEPT !.unseen = TRUE].unseen
          /\ [To(i, t, "block") EXCEPT !.unseen = TRUE].at # None
      BY <3>1 DEF WorkType
    <3> QED
      BY <2>2, <2>3, <3>2 DEF RightWork
  <2>4. CASE found[t.block] # None
    <3>1. found[t.block] \in blockTs[t.block]
      BY <2>1, <2>4, Found
    <3>2. blockTs[t.block] \in SUBSET Times
      BY <2>1 DEF TablesInv, TablesTyped
    <3> QED
      BY <2>1, <2>2, <2>4, <3>1, <3>2, Dated
  <2> QED
    BY <2>3, <2>4
<1>4. UNCHANGED tables
  BY DEF LookUpTime
<1> HIDE DEF new
<1> QED
  BY <1>2, <1>3, <1>4, BatchWork, QuietStep

(* A step that stores the times of blocks. *)
LEMMA TimesStep ==
    ASSUME PipeInv, TablesInv, chain' = chain,
           NEW rows \in SUBSET [block : Blocks, at : Times],
           NEW unknowing \in SUBSET Blocks, InsertTimes(rows, unknowing),
           \A r \in rows : r.block \in unknowing \/ r.at \in blockTs[r.block],
           UNCHANGED <<investors, prices, investments, cacheRows>>
    PROVE  /\ TablesInv' /\ Grow
           /\ \A r \in rows : r.at \in blockTs'[r.block]
           /\ blockTs' \in [Blocks -> SUBSET Times]
<1>1. /\ blockTs' \in [Blocks -> SUBSET Times] /\ blind' \subseteq Blocks
      /\ OneTime'
      /\ \A b \in Blocks : blockTs[b] \subseteq blockTs'[b]
      /\ \A r \in rows : r.at \in blockTs'[r.block]
  BY TimesInserted
<1>2. TablesTyped'
  BY <1>1 DEF TablesInv, TablesTyped
<1>3. Grow
  BY <1>1 DEF Grow
<1>4. ASSUME NEW r \in (investments \cup cacheRows)'
      PROVE  RightRow(r)'
  <2>1. r \in RowType /\ RightRow(r) /\ TablesTyped
    BY <1>4 DEF TablesInv, TablesTyped
  <2> QED
    BY <1>1, <2>1, RowKept
<1> QED
  BY <1>1, <1>2, <1>3, <1>4 DEF TablesInv

LEMMA StepFetchDate ==
    ASSUME PipeInv, WorkInv, TablesInv, PipeFrame, NEW i \in Importers,
           NEW batch \in Batches(i, "rpc"), FetchDate(i, batch)
    PROVE  WorkInv' /\ TablesInv' /\ Grow
<1> DEFINE At(t) == [block |-> t.block, at |-> t.block]
           rows == {At(t) : t \in batch}
           unknowing == {t.block : t \in batch}
           new == [t \in batch |-> [To(i, t, AfterDate(i, t)) EXCEPT !.at = t.block]]
<1>1. \A t \in batch : /\ t.block \in Blocks /\ t.block \in Times
                       /\ work[i][t] \in WorkType
  BY BatchWork
<1>2. /\ \A t \in batch : At(t) \in [block : Blocks, at : Times]
      /\ \A t \in batch : At(t).block = t.block /\ At(t).at = t.block
  BY <1>1
<1>3. InsertTimes(rows, unknowing) /\ UNCHANGED <<investors, prices, investments, cacheRows>>
  BY DEF FetchDate
<1>4. MovedTo(i, batch, new)
  BY DEF FetchDate, Move, MovedTo
<1>5. chain' = chain /\ unknowing \in SUBSET Blocks /\ TablesTyped
  BY <1>1 DEF PipeFrame, TablesInv
<1> HIDE DEF At, new
<1>6. /\ rows \in SUBSET [block : Blocks, at : Times]
      /\ \A r \in rows : r.block \in unknowing
  BY <1>2
<1>7. \A t \in batch : At(t) \in rows
  OBVIOUS
<1> HIDE DEF rows, unknowing
<1>8. TablesInv' /\ Grow /\ (\A r \in rows : r.at \in blockTs'[r.block])
      /\ blockTs' \in [Blocks -> SUBSET Times]
  BY <1>3, <1>5, <1>6, TimesStep
<1>9. ASSUME NEW t \in batch
      PROVE  new[t] \in WorkType /\ RightWork(new[t], blockTs'[t.block], Stored(t)')
  <2>1. t.block \in blockTs'[t.block] /\ blockTs'[t.block] \in SUBSET Times
    BY <1>1, <1>2, <1>7, <1>8
  <2>2. new[t] = [To(i, t, AfterDate(i, t)) EXCEPT !.at = t.block]
    BY DEF new
  <2>3. AfterDate(i, t) \in {"time", "block"} /\ work[i][t] \in WorkType
    BY <1>1, DateStage
  <2> DEFINE times == blockTs'[t.block]
             stored == Stored(t)'
             stage == AfterDate(i, t)
  <2>4. times \in SUBSET Times /\ t.block \in times /\ stage \in {"time", "block"}
    BY <2>1, <2>3
  <2> HIDE DEF times, stored, stage
  <2>5. /\ [To(i, t, stage) EXCEPT !.at = t.block] \in WorkType
        /\ RightWork([To(i, t, stage) EXCEPT !.at = t.block], times, stored)
    BY <2>3, <2>4, Dated
  <2> QED
    BY <2>2, <2>5 DEF times, stored, stage
<1> QED
  BY <1>4, <1>5, <1>8, <1>9, BatchWork, WorkMoved

LEMMA StepInsertBlocks ==
    ASSUME PipeInv, WorkInv, TablesInv, PipeFrame, NEW i \in Importers,
           NEW batch \in Batches(i, "block"), InsertBlocks(i, batch)
    PROVE  WorkInv' /\ TablesInv' /\ Grow
<1> DEFINE At(t) == [block |-> t.block, at |-> work[i][t].at]
           rows == {At(t) : t \in batch}
           unknowing == {t.block : t \in {u \in batch : work[i][u].unseen}}
           new == [t \in batch |-> [To(i, t, "rows") EXCEPT !.unseen = FALSE, !.slow = FALSE]]
<1>1. \A t \in batch : /\ t.block \in Blocks
                       /\ work[i][t] \in WorkType /\ work[i][t].at \in Times
                       /\ ~work[i][t].unseen => work[i][t].at \in blockTs[t.block]
  BY BatchWork DEF RightWork, WorkType
<1>2. /\ \A t \in batch : At(t) \in [block : Blocks, at : Times]
      /\ \A t \in batch : At(t).block = t.block /\ At(t).at = work[i][t].at
  BY <1>1
<1>3. InsertTimes(rows, unknowing) /\ UNCHANGED <<investors, prices, investments, cacheRows>>
  BY DEF InsertBlocks
<1>4. MovedTo(i, batch, new)
  BY DEF InsertBlocks, Move, MovedTo
<1>5. chain' = chain /\ unknowing \in SUBSET Blocks /\ TablesTyped
  BY <1>1 DEF PipeFrame, TablesInv
<1>6. \A t \in batch : work[i][t].unseen => t.block \in unknowing
  OBVIOUS
<1> HIDE DEF At, new, unknowing
<1>7. /\ rows \in SUBSET [block : Blocks, at : Times]
      /\ \A r \in rows : r.block \in unknowing \/ r.at \in blockTs[r.block]
  BY <1>1, <1>2, <1>6
<1>8. \A t \in batch : At(t) \in rows
  OBVIOUS
<1> HIDE DEF rows
<1>9. TablesInv' /\ Grow /\ (\A r \in rows : r.at \in blockTs'[r.block])
  BY <1>3, <1>5, <1>7, TimesStep
<1>10. ASSUME NEW t \in batch
       PROVE  new[t] \in WorkType /\ RightWork(new[t], blockTs'[t.block], Stored(t)')
  <2>1. work[i][t].at \in blockTs'[t.block] /\ work[i][t].at \in Times
    BY <1>1, <1>2, <1>8, <1>9
  <2>2. new[t] = [To(i, t, "rows") EXCEPT !.unseen = FALSE, !.slow = FALSE]
    BY DEF new
  <2>3. /\ To(i, t, "rows") \in WorkType /\ To(i, t, "rows").stage = "rows"
        /\ To(i, t, "rows").at = work[i][t].at
    BY <1>1, ToTyped DEF Stages
  <2> DEFINE w == To(i, t, "rows")
             v == [w EXCEPT !.unseen = FALSE, !.slow = FALSE]
  <2> HIDE DEF w
  <2>4. w \in WorkType /\ w.stage = "rows" /\ w.at = work[i][t].at
    BY <2>3 DEF w
  <2>5. v \in WorkType /\ v.stage = "rows" /\ v.at = work[i][t].at /\ v.unseen = FALSE
    BY <2>4 DEF WorkType
  <2>6. new[t] = v
    BY <2>2 DEF w
  <2>7. work[i][t].at # None
    BY <2>1, TransferAssumption DEF Times
  <2> HIDE DEF v
  <2> QED
    BY <2>1, <2>5, <2>6, <2>7 DEF RightWork
<1> QED
  BY <1>4, <1>5, <1>9, <1>10, BatchWork, WorkMoved

(* The rows of a batch, all of them or those up to the one that failed. *)
LEMMA StepRows ==
    ASSUME PipeInv, WorkInv, TablesInv, PipeFrame, NEW i \in Importers,
           NEW batch \in Batches(i, "rows"), NEW done \in 0 .. 4, InsertRows(i, batch, done),
           NEW stage \in {"stored", "failed"}, stage = "stored" => done = 4,
           Move(i, batch, LAMBDA t : To(i, t, stage))
    PROVE  WorkInv' /\ TablesInv' /\ Grow
<1> DEFINE new == [t \in batch |-> To(i, t, stage)]
<1>1. MovedTo(i, batch, new)
  BY DEF Move, MovedTo
<1>2. /\ batch \in SUBSET DOMAIN work[i]
      /\ \A t \in batch : work[i][t].stage = "rows" /\ work[i][t] \in WorkType
  BY BatchWork
<1>3. chain' = chain /\ TablesTyped
  BY DEF PipeFrame, TablesInv
<1>4. TablesInv' /\ Grow /\ (done = 4 => \A t \in batch : Stored(t)')
  BY <1>2, <1>3, RowsInserted
<1>5. ASSUME NEW t \in batch
      PROVE  new[t] \in WorkType /\ RightWork(new[t], blockTs'[t.block], Stored(t)')
  <2>1. To(i, t, stage) \in WorkType /\ To(i, t, stage).stage = stage
    BY <1>2, ToTyped
  <2>2. new[t] = To(i, t, stage)
    OBVIOUS
  <2>3. stage = "stored" => Stored(t)'
    BY <1>4
  <2> HIDE DEF new
  <2>4. RightWork(To(i, t, stage), blockTs'[t.block], Stored(t)')
    <3> DEFINE w == To(i, t, stage)
               s == Stored(t)'
    <3>1. w.stage = stage /\ (stage = "stored" => s)
      BY <2>1, <2>3
    <3> HIDE DEF w, s
    <3>2. RightWork(w, blockTs'[t.block], s)
      BY <3>1 DEF RightWork
    <3> QED
      BY <3>2 DEF w, s
  <2> QED
    BY <2>1, <2>2, <2>4
<1> HIDE DEF new
<1> QED
  BY <1>1, <1>2, <1>3, <1>4, <1>5, WorkMoved

(* A step of the sub pipeline, or the failure of one. *)
SubStep(i) ==
    \/ Step(i)
    \/ \E stage \in Stages \ {"rows"} : \E batch \in Batches(i, stage) : FailRead(i, batch)
    \/ \E batch \in Batches(i, "rows") : FailRows(i, batch)

LEMMA SubStepKeeps ==
    ASSUME PipeInv, WorkInv, TablesInv, NEW i \in Importers, SubStep(i)
    PROVE  WorkInv' /\ TablesInv' /\ Grow /\ PipeFrame /\ state' = state
           /\ recentRuns' = recentRuns /\ faults' \in {faults, faults + 1}
<1>1. PipeFrame
  BY StepFrame DEF SubStep
<1>2. CASE Step(i)
  <2>1. Idle(i)
    BY <1>2 DEF Step, ReadData, RejectData, ReadSlow, LookUpDate, FetchDate, LookUpTime,
                InsertBlocks, StoreRows
  <2>2. ASSUME NEW batch \in Batches(i, "data"), ReadData(i, batch) \/ RejectData(i, batch)
        PROVE  WorkInv' /\ TablesInv' /\ Grow
    BY <1>1, <2>2, StepReadData, StepFailed DEF RejectData
  <2>3. ASSUME NEW batch \in Batches(i, "slow"), ReadSlow(i, batch)
        PROVE  WorkInv' /\ TablesInv' /\ Grow
    BY <1>1, <2>3, StepReadSlow
  <2>4. ASSUME NEW batch \in Batches(i, "date"), LookUpDate(i, batch)
        PROVE  WorkInv' /\ TablesInv' /\ Grow
    BY <1>1, <2>4, StepLookUpDate
  <2>5. ASSUME NEW batch \in Batches(i, "rpc"), FetchDate(i, batch)
        PROVE  WorkInv' /\ TablesInv' /\ Grow
    BY <1>1, <2>5, StepFetchDate
  <2>6. ASSUME NEW batch \in Batches(i, "time"), LookUpTime(i, batch)
        PROVE  WorkInv' /\ TablesInv' /\ Grow
    BY <1>1, <2>6, StepLookUpTime
  <2>7. ASSUME NEW batch \in Batches(i, "block"), InsertBlocks(i, batch)
        PROVE  WorkInv' /\ TablesInv' /\ Grow
    BY <1>1, <2>7, StepInsertBlocks
  <2>8. ASSUME NEW batch \in Batches(i, "rows"), StoreRows(i, batch)
        PROVE  WorkInv' /\ TablesInv' /\ Grow
    <3>1. Len(Tables) = 4
      BY DEF Tables
    <3>2. InsertRows(i, batch, 4) /\ Move(i, batch, LAMBDA t : To(i, t, "stored"))
      BY <2>8, <3>1 DEF StoreRows
    <3> DEFINE done == 4
               stage == "stored"
    <3>3. /\ InsertRows(i, batch, done) /\ Move(i, batch, LAMBDA t : To(i, t, stage))
          /\ done \in 0 .. 4 /\ stage \in {"stored", "failed"} /\ done = 4
      BY <3>2
    <3> HIDE DEF done, stage
    <3> QED
      BY <1>1, <3>3, StepRows
  <2>9. WorkInv' /\ TablesInv' /\ Grow
    BY <1>2, <2>2, <2>3, <2>4, <2>5, <2>6, <2>7, <2>8 DEF Step
  <2> QED
    BY <1>1, <2>1, <2>9 DEF Idle
<1>3. ASSUME NEW stage, NEW batch \in Batches(i, stage), FailRead(i, batch)
      PROVE  WorkInv' /\ TablesInv' /\ Grow /\ state' = state
             /\ recentRuns' = recentRuns /\ faults' = faults + 1
  BY <1>1, <1>3, StepFailed DEF FailRead, FailBatch
<1>4. ASSUME NEW batch \in Batches(i, "rows"), FailRows(i, batch)
      PROVE  WorkInv' /\ TablesInv' /\ Grow /\ state' = state
             /\ recentRuns' = recentRuns /\ faults' = faults + 1
  <2>1. Len(Tables) = 4
    BY DEF Tables
  <2>2. PICK done \in 0 .. 3 : InsertRows(i, batch, done)
    BY <1>4, <2>1 DEF FailRows
  <2>3. Move(i, batch, LAMBDA t : To(i, t, "failed")) /\ done \in 0 .. 4
    BY <1>4 DEF FailRows, FailBatch
  <2>4. WorkInv' /\ TablesInv' /\ Grow
    BY <1>1, <2>2, <2>3, StepRows
  <2> QED
    BY <1>4, <2>4 DEF FailRows, FailBatch
<1> QED
  BY <1>1, <1>2, <1>3, <1>4 DEF SubStep

-----------------------------------------------------------------------------
(* The steps of a run, and what becomes of the import states. *)

StateTyped ==
    state \in [Products -> [created : BOOLEAN, covered : SUBSET Blocks, toRetry : SUBSET Blocks]]

(* The transfers of an importer that does not take the step. *)
WorkOf(i) ==
    /\ DOMAIN work[i] = UNION {TargetsOf(item) : item \in current[i]}
    /\ \A t \in DOMAIN work[i] : /\ work[i][t] \in WorkType
                                 /\ RightWork(work[i][t], blockTs[t.block], Stored(t))

LEMMA WorkByImporter == WorkInv <=> DOMAIN work = Importers /\ \A i \in Importers : WorkOf(i)
BY DEF WorkInv, WorkTyped, WorkOf

LEMMA WorkKept ==
    ASSUME PipeInv, WorkInv, TablesTyped, Grow, NEW i \in Importers,
           work'[i] = work[i], current'[i] = current[i]
    PROVE  WorkOf(i)'
<1>1. WorkOf(i)
  BY WorkByImporter
<1>2. UNION {TargetsOf(item) : item \in current'[i]} = UNION {TargetsOf(item) : item \in current[i]}
  OBVIOUS
<1>3. ASSUME NEW t \in DOMAIN work[i]
      PROVE  RightWork(work[i][t], blockTs'[t.block], Stored(t)')
  <2>1. t \in TransferType
    BY WorkIsNet
  <2> QED
    BY <1>1, <2>1, RightWorkKept DEF WorkOf
<1> QED
  BY <1>1, <1>2, <1>3 DEF WorkOf, TargetsOf

LEMMA WorkAllKept ==
    ASSUME PipeInv, WorkInv, TablesTyped, Grow, work' = work, current' = current
    PROVE  WorkInv'
<1>1. \A i \in Importers : WorkOf(i)'
  BY WorkKept
<1>2. DOMAIN work' = Importers
  BY WorkByImporter
<1> QED
  BY <1>1, <1>2 DEF WorkInv, WorkTyped, WorkOf

LEMMA StartHistoricalKeeps ==
    ASSUME PipeInv, WorkInv, TablesInv, StateTyped, StartHistorical
    PROVE  WorkInv' /\ TablesInv' /\ Grow /\ StateTyped'
           /\ \A p \in Products : Imported(p)' = Imported(p)
<1>1. PICK found \in SUBSET {p \in DOMAIN chain.kind : ~state[p].created} :
        /\ state' = [p \in Products |-> [state[p] EXCEPT !.created = @ \/ p \in found]]
        /\ InsertTimes({[block |-> Created[p], at |-> Created[p]] : p \in found},
                       {Created[p] : p \in found})
        /\ UNCHANGED <<investors, prices, investments, cacheRows>>
        /\ UNCHANGED <<chain, current, work>>
  BY DEF StartHistorical, Creations, Start
<1> DEFINE At(p) == [block |-> Created[p], at |-> Created[p]]
           rows == {At(p) : p \in found}
           unknowing == {Created[p] : p \in found}
<1>2. found \subseteq Products
  <2>1. chain.kind \in Kinds
    BY NetIsMerged DEF PipeInv, PipeTyped
  <2> QED
    BY <2>1 DEF Kinds
<1>3. \A p \in found : Created[p] \in Blocks /\ Created[p] \in Times
  BY <1>2, TransferAssumption DEF Blocks, Times
<1>4. \A p \in found : At(p) \in [block : Blocks, at : Times] /\ At(p).block \in unknowing
  BY <1>3
<1>5. unknowing \in SUBSET Blocks
  BY <1>3
<1>6. InsertTimes(rows, unknowing)
  BY <1>1
<1> HIDE DEF At, unknowing
<1>7. rows \in SUBSET [block : Blocks, at : Times] /\ \A r \in rows : r.block \in unknowing
  BY <1>4
<1> HIDE DEF rows
<1>8. TablesInv' /\ Grow
  BY <1>1, <1>5, <1>6, <1>7, TimesStep
<1>9. WorkInv'
  BY <1>1, <1>8, WorkAllKept DEF TablesInv
<1>10. ASSUME NEW p \in Products
       PROVE  /\ state'[p] \in [created : BOOLEAN, covered : SUBSET Blocks, toRetry : SUBSET Blocks]
              /\ state'[p].covered = state[p].covered /\ state'[p].toRetry = state[p].toRetry
  <2>1. state'[p] = [state[p] EXCEPT !.created = state[p].created \/ p \in found]
    BY <1>1
  <2> DEFINE s == state[p]
             flag == state[p].created \/ p \in found
  <2>2. s \in [created : BOOLEAN, covered : SUBSET Blocks, toRetry : SUBSET Blocks]
        /\ flag \in BOOLEAN
    BY DEF StateTyped
  <2>3. state'[p] = [s EXCEPT !.created = flag]
    BY <2>1
  <2> HIDE DEF s, flag
  <2>4. /\ state'[p] \in [created : BOOLEAN, covered : SUBSET Blocks, toRetry : SUBSET Blocks]
        /\ state'[p].covered = s.covered /\ state'[p].toRetry = s.toRetry
    BY <2>2, <2>3
  <2> QED
    BY <2>4 DEF s
<1>11. StateTyped'
  <2>1. state' = [p \in Products |-> state'[p]]
    BY <1>1
  <2> QED
    BY <1>10, <2>1 DEF StateTyped
<1> QED
  BY <1>8, <1>9, <1>10, <1>11 DEF Imported

(* The step of an importer on its own items. *)
LEMMA WorkOfOne ==
    ASSUME PipeInv, WorkInv, TablesInv, UNCHANGED <<tables, chain>>, NEW i \in Importers,
           NEW mine, work' = [work EXCEPT ![i] = mine],
           NEW items, current' = [current EXCEPT ![i] = items],
           DOMAIN mine = UNION {TargetsOf(item) : item \in items},
           \A t \in DOMAIN mine : /\ mine[t] \in WorkType
                                  /\ RightWork(mine[t], blockTs[t.block], Stored(t))
    PROVE  WorkInv' /\ TablesInv' /\ Grow
<1>1. TablesInv' /\ Grow /\ TablesTyped
  BY TablesUnchanged DEF TablesInv
<1>2. /\ DOMAIN work' = Importers /\ work'[i] = mine /\ current'[i] = items
      /\ \A j \in Importers \ {i} : work'[j] = work[j] /\ current'[j] = current[j]
  BY DEF WorkInv, WorkTyped, PipeInv, PipeTyped
<1>3. \A j \in Importers \ {i} : WorkOf(j)'
  BY <1>1, <1>2, WorkKept
<1>4. \A t : Stored(t)' <=> Stored(t)
  BY DEF tables, Stored
<1>5. WorkOf(i)'
  BY <1>2, <1>4 DEF WorkOf, TargetsOf, tables
<1>6. \A j \in Importers : WorkOf(j)'
  BY <1>3, <1>5
<1>7. WorkInv'
  BY <1>2, <1>6 DEF WorkInv, WorkTyped, WorkOf
<1> QED
  BY <1>1, <1>7

LEMMA BeginKeeps ==
    ASSUME PipeInv, WorkInv, TablesInv, NEW i \in Importers, Begin(i)
    PROVE  WorkInv' /\ TablesInv' /\ Grow
<1> DEFINE mine == [t \in UNION {TargetsOf(item) : item \in queue[i]} |-> NewTransfer]
           items == queue[i]
<1>1. /\ UNCHANGED <<tables, chain>> /\ work' = [work EXCEPT ![i] = mine]
      /\ current' = [current EXCEPT ![i] = items]
  BY DEF Begin
<1>2. NewTransfer \in WorkType /\ NewTransfer.stage = "data"
  BY DEF NewTransfer, WorkType, Stages
<1>3. \A t \in DOMAIN mine : mine[t] \in WorkType /\ mine[t].stage = "data"
  BY <1>2
<1>4. DOMAIN mine = UNION {TargetsOf(item) : item \in items}
  OBVIOUS
<1> HIDE DEF mine, items
<1>5. \A t \in DOMAIN mine : RightWork(mine[t], blockTs[t.block], Stored(t))
  BY <1>3 DEF RightWork
<1> QED
  BY <1>1, <1>3, <1>4, <1>5, WorkOfOne

LEMMA EmptyKeeps ==
    ASSUME PipeInv, WorkInv, TablesInv, NEW i \in Importers, UNCHANGED <<tables, chain>>,
           work' = [work EXCEPT ![i] = <<>>], current' = [current EXCEPT ![i] = {}]
    PROVE  WorkInv' /\ TablesInv' /\ Grow
<1> DEFINE mine == <<>>
           items == {}
<1>1. DOMAIN mine = {}
  OBVIOUS
<1>2. DOMAIN mine = UNION {TargetsOf(item) : item \in items}
  BY <1>1
<1>3. work' = [work EXCEPT ![i] = mine] /\ current' = [current EXCEPT ![i] = items]
  OBVIOUS
<1> HIDE DEF mine, items
<1> QED
  BY <1>1, <1>2, <1>3, WorkOfOne

LEMMA ReportState ==
    ASSUME StateTyped, NEW i, NEW reports \in SUBSET ReportType, Report(i, reports)
    PROVE  /\ StateTyped'
           /\ \A p \in Products : \A b \in Imported(p)' :
                 \/ b \in Imported(p)
                 \/ \E r \in reports : r.product = p /\ r.success /\ b \in r.blocks
<1> DEFINE Of(p, ok) == UNION {r.blocks : r \in {x \in reports : x.product = p /\ x.success = ok}}
           New(p) == [created |-> TRUE,
                      covered |-> state[p].covered \cup Of(p, TRUE) \cup Of(p, FALSE),
                      toRetry |-> (state[p].toRetry \ Of(p, TRUE)) \cup Of(p, FALSE)]
<1>1. state' = [p \in Products |-> IF ~state[p].created THEN state[p] ELSE New(p)]
  BY DEF Report
<1>2. ASSUME NEW p \in Products
      PROVE  Of(p, TRUE) \in SUBSET Blocks /\ Of(p, FALSE) \in SUBSET Blocks
  BY DEF ReportType
<1>3. ASSUME NEW p \in Products, NEW b \in Of(p, TRUE)
      PROVE  \E r \in reports : r.product = p /\ r.success /\ b \in r.blocks
  OBVIOUS
<1> HIDE DEF Of
<1>4. \A p \in Products :
         state[p] \in [created : BOOLEAN, covered : SUBSET Blocks, toRetry : SUBSET Blocks]
  BY DEF StateTyped
<1>5. ASSUME NEW p \in Products
      PROVE  /\ New(p) \in [created : BOOLEAN, covered : SUBSET Blocks, toRetry : SUBSET Blocks]
             /\ New(p).covered = state[p].covered \cup Of(p, TRUE) \cup Of(p, FALSE)
             /\ New(p).toRetry = (state[p].toRetry \ Of(p, TRUE)) \cup Of(p, FALSE)
  BY <1>2, <1>4
<1> HIDE DEF New
<1>6. StateTyped'
  BY <1>1, <1>4, <1>5 DEF StateTyped
<1>7. ASSUME NEW p \in Products, NEW b \in Imported(p)'
      PROVE  \/ b \in Imported(p)
             \/ \E r \in reports : r.product = p /\ r.success /\ b \in r.blocks
  <2>1. state'[p] = IF ~state[p].created THEN state[p] ELSE New(p)
    BY <1>1
  <2>2. CASE ~state[p].created
    BY <2>1, <2>2 DEF Imported
  <2>3. CASE state[p].created
    <3>1. b \in Imported(p) \/ b \in Of(p, TRUE)
      BY <1>5, <2>1, <2>3 DEF Imported
    <3> QED
      BY <1>3, <3>1
  <2> QED
    BY <2>2, <2>3
<1> QED
  BY <1>6, <1>7

-----------------------------------------------------------------------------
(***************************************************************************)
(* Imported is stored: an item reported as a success has no transfer in    *)
(* error, thus all of them are stored, and they are all that its blocks    *)
(* have.                                                                   *)
(***************************************************************************)
ImportInv ==
    /\ PipeInv
    /\ WorkInv
    /\ TablesInv
    /\ StateTyped
    /\ ImportedIsStored
    /\ recentRuns \in Nat
    /\ faults \in Nat

LEMMA ImportedKept ==
    ASSUME ImportInv, Grow, chain' = chain,
           \A p \in Products : \A b \in Imported(p)' :
              b \in Imported(p) \/ \A t \in TransfersAt(p, b) : Stored(t)
    PROVE  ImportedIsStored'
<1>1. \A p \in Products : \A b : TransfersAt(p, b)' = TransfersAt(p, b)
  BY DEF TransfersAt, NetTransfers
<1>2. TablesTyped /\ ImportedIsStored
  BY DEF ImportInv, TablesInv
<1>3. ASSUME NEW p \in Products, NEW b \in Imported(p)', NEW t \in TransfersAt(p, b)
      PROVE  Stored(t)'
  <2>1. Stored(t)
    BY <1>2 DEF ImportedIsStored
  <2> QED
    BY <1>2, <2>1, StoredKept
<1> QED
  BY <1>1, <1>3 DEF ImportedIsStored

LEMMA FinishImports ==
    ASSUME ImportInv, NEW i \in Importers, Finish(i)
    PROVE  StateTyped' /\ ImportedIsStored'
<1> DEFINE Told(item) == [product |-> item.product, blocks |-> item.blocks,
                          success |-> ~HasError(i, item)]
           reports == {Told(item) : item \in current[i]}
<1>1. PipeInv /\ WorkInv /\ TablesInv /\ StateTyped
  BY DEF ImportInv
<1>2. current[i] \in SUBSET ItemType /\ chain \in Chains
  BY <1>1 DEF PipeInv, PipeTyped
<1>3. Report(i, reports)
  BY DEF Finish
<1>4. ASSUME NEW item \in current[i]
      PROVE  /\ Told(item) \in ReportType
             /\ Told(item).product = item.product /\ Told(item).blocks = item.blocks
             /\ Told(item).success = ~HasError(i, item)
  BY <1>2 DEF ReportType, ItemType, HasError
<1>5. reports = {Told(item) : item \in current[i]}
  OBVIOUS
<1> HIDE DEF reports, Told
<1>6. reports \in SUBSET ReportType
  BY <1>4, <1>5
<1>7. /\ StateTyped'
      /\ \A p \in Products : \A b \in Imported(p)' :
            \/ b \in Imported(p)
            \/ \E r \in reports : r.product = p /\ r.success /\ b \in r.blocks
  BY <1>1, <1>3, <1>6, ReportState
<1>8. ASSUME NEW p \in Products, NEW b, NEW r \in reports, r.product = p, r.success,
             b \in r.blocks, NEW t \in TransfersAt(p, b)
      PROVE  Stored(t)
  <2>1. PICK item \in current[i] : r = Told(item)
    BY <1>5
  <2>2. item.product = p /\ b \in item.blocks /\ ~HasError(i, item)
    BY <1>4, <1>8, <2>1
  <2>3. item.transfers = NetAt(item.product, item.blocks)
    BY <1>1 DEF PipeInv, PipeOf, ItemsOf, ExactItem
  <2>4. t \in TargetsOf(item)
    BY <2>2, <2>3 DEF TransfersAt, NetAt, Net, TargetsOf
  <2>5. t \in DOMAIN work[i] /\ RightWork(work[i][t], blockTs[t.block], Stored(t))
    BY <1>1, <2>4 DEF WorkInv
  <2>6. work[i][t].stage = "stored"
    BY <2>2, <2>4, <2>5 DEF HasError, Finish
  <2> QED
    BY <2>5, <2>6 DEF RightWork
<1>9. Grow /\ chain' = chain
  BY <1>1, TablesUnchanged DEF Finish
<1>10. \A p \in Products : \A b \in Imported(p)' :
          b \in Imported(p) \/ \A t \in TransfersAt(p, b) : Stored(t)
  BY <1>7, <1>8
<1> QED
  BY <1>7, <1>9, <1>10, ImportedKept

LEMMA FailEventsImports ==
    ASSUME ImportInv, NEW i \in Importers, NEW objs \in SUBSET pending[i], FailEvents(i, objs)
    PROVE  StateTyped' /\ ImportedIsStored'
<1> DEFINE Told(p) == [product |-> p, blocks |-> planned[i][p], success |-> FALSE]
           reports == {Told(p) : p \in objs}
<1>1. PipeInv /\ WorkInv /\ TablesInv /\ StateTyped
  BY DEF ImportInv
<1>2. objs \in SUBSET Products /\ planned[i] \in [Products -> SUBSET Blocks]
  BY <1>1 DEF PipeInv, PipeTyped
<1>3. Report(i, reports)
  BY DEF FailEvents
<1>4. \A p \in objs : Told(p) \in ReportType /\ ~Told(p).success
  BY <1>2 DEF ReportType
<1> HIDE DEF Told
<1>5. reports \in SUBSET ReportType /\ \A r \in reports : ~r.success
  BY <1>4
<1> HIDE DEF reports
<1>6. StateTyped' /\ \A p \in Products : \A b \in Imported(p)' : b \in Imported(p)
  BY <1>1, <1>3, <1>5, ReportState
<1>7. Grow /\ chain' = chain
  BY <1>1, TablesUnchanged DEF FailEvents
<1> QED
  BY <1>6, <1>7, ImportedKept

LEMMA ImportInit == Init => ImportInv
<1> SUFFICES ASSUME Init PROVE ImportInv
  OBVIOUS
<1>1. PipeInv
  BY PipeInit
<1>2. /\ DOMAIN work = Importers
      /\ \A i \in Importers : work[i] = <<>> /\ current[i] = {}
  BY DEF Init
<1>3. DOMAIN <<>> = {}
  OBVIOUS
<1>4. \A i \in Importers : DOMAIN work[i] = {}
  BY <1>2, <1>3
<1>5. WorkInv
  BY <1>2, <1>4 DEF WorkInv, WorkTyped
<1>6. TablesInv
  BY DEF Init, TablesInv, TablesTyped, OneTime
<1>7. /\ StateTyped
      /\ \A p \in Products : state[p].covered = {}
  BY DEF Init, StateTyped
<1>8. ImportedIsStored
  BY <1>7 DEF ImportedIsStored, Imported
<1> QED
  BY <1>1, <1>5, <1>6, <1>7, <1>8 DEF ImportInv, Init

LEMMA ImportNext == ImportInv /\ [Next]_vars => ImportInv' /\ Grow
<1> SUFFICES ASSUME ImportInv, [Next]_vars PROVE ImportInv' /\ Grow
  OBVIOUS
<1>1. PipeInv /\ WorkInv /\ TablesInv /\ StateTyped /\ TablesTyped
      /\ recentRuns \in Nat /\ faults \in Nat
  BY DEF ImportInv, TablesInv
<1>2. PipeInv'
  BY <1>1, PipeNext
<1>3. ASSUME WorkInv', TablesInv', Grow, chain' = chain, StateTyped',
             \A p \in Products : Imported(p)' = Imported(p),
             recentRuns' \in Nat, faults' \in Nat
      PROVE  ImportInv' /\ Grow
  <2>1. ImportedIsStored'
    BY <1>3, ImportedKept
  <2> QED
    BY <1>2, <1>3, <2>1 DEF ImportInv
<1>4. ASSUME state' = state
      PROVE  StateTyped' /\ \A p \in Products : Imported(p)' = Imported(p)
  BY <1>1, <1>4 DEF StateTyped, Imported
<1>5. ASSUME UNCHANGED <<tables, chain, work, current>>
      PROVE  WorkInv' /\ TablesInv' /\ Grow
  BY <1>1, <1>5, TablesUnchanged, WorkAllKept
<1>6. CASE StartHistorical
  <2>1. WorkInv' /\ TablesInv' /\ Grow /\ StateTyped'
        /\ \A p \in Products : Imported(p)' = Imported(p)
    BY <1>1, <1>6, StartHistoricalKeeps
  <2>2. chain' = chain /\ recentRuns' = recentRuns /\ faults' \in {faults, faults + 1}
    BY <1>6 DEF StartHistorical, Start
  <2> QED
    BY <1>1, <1>3, <2>1, <2>2
<1>7. CASE StartRecent
  <2>1. /\ UNCHANGED <<tables, chain, work, current>> /\ state' = state
        /\ recentRuns' = recentRuns + 1 /\ faults' = faults
    BY <1>7 DEF StartRecent, Start
  <2> QED
    BY <1>1, <1>3, <1>4, <1>5, <2>1
<1>8. ASSUME NEW i \in Importers, NEW objs \in SUBSET pending[i], FetchEvents(i, objs)
      PROVE  ImportInv' /\ Grow
  <2>1. /\ UNCHANGED <<tables, chain, work, current>> /\ state' = state
        /\ recentRuns' = recentRuns /\ faults' = faults
    BY <1>8 DEF FetchEvents
  <2> QED
    BY <1>1, <1>3, <1>4, <1>5, <2>1
<1>9. ASSUME NEW i \in Importers, NEW objs \in SUBSET pending[i], FailEvents(i, objs)
      PROVE  ImportInv' /\ Grow
  <2>1. /\ UNCHANGED <<tables, chain, work, current>>
        /\ recentRuns' = recentRuns /\ faults' = faults + 1
    BY <1>9 DEF FailEvents
  <2>2. StateTyped' /\ ImportedIsStored'
    BY <1>9, FailEventsImports
  <2> QED
    BY <1>1, <1>2, <1>5, <2>1, <2>2 DEF ImportInv
<1>10. ASSUME NEW i \in Importers, Begin(i)
       PROVE  ImportInv' /\ Grow
  <2>1. WorkInv' /\ TablesInv' /\ Grow
    BY <1>1, <1>10, BeginKeeps
  <2>2. chain' = chain /\ state' = state /\ recentRuns' = recentRuns /\ faults' = faults
    BY <1>10 DEF Begin
  <2> QED
    BY <1>1, <1>3, <1>4, <2>1, <2>2
<1>11. ASSUME NEW i \in Importers, Finish(i)
       PROVE  ImportInv' /\ Grow
  <2>1. /\ UNCHANGED <<tables, chain>> /\ recentRuns' = recentRuns /\ faults' = faults
        /\ work' = [work EXCEPT ![i] = <<>>] /\ current' = [current EXCEPT ![i] = {}]
    BY <1>11 DEF Finish
  <2>2. WorkInv' /\ TablesInv' /\ Grow
    BY <1>1, <2>1, EmptyKeeps
  <2>3. StateTyped' /\ ImportedIsStored'
    BY <1>11, FinishImports
  <2> QED
    BY <1>1, <1>2, <2>1, <2>2, <2>3 DEF ImportInv
<1>12. ASSUME NEW i \in Importers, End(i) \/ Crash(i)
       PROVE  ImportInv' /\ Grow
  <2>1. /\ UNCHANGED <<tables, chain>> /\ recentRuns' = recentRuns /\ state' = state
        /\ work' = [work EXCEPT ![i] = <<>>] /\ current' = [current EXCEPT ![i] = {}]
    BY <1>12 DEF End, Crash, Stop
  <2>2. faults' \in {faults, faults + 1}
    BY <1>12 DEF End, Crash
  <2>3. WorkInv' /\ TablesInv' /\ Grow
    BY <1>1, <2>1, EmptyKeeps
  <2> QED
    BY <1>1, <1>3, <1>4, <2>1, <2>2, <2>3
<1>13. ASSUME NEW i \in Importers, SubStep(i)
       PROVE  ImportInv' /\ Grow
  <2>1. WorkInv' /\ TablesInv' /\ Grow /\ PipeFrame /\ state' = state
        /\ recentRuns' = recentRuns /\ faults' \in {faults, faults + 1}
    BY <1>1, <1>13, SubStepKeeps
  <2>2. chain' = chain
    BY <2>1 DEF PipeFrame
  <2> QED
    BY <1>1, <1>3, <1>4, <2>1, <2>2
<1>14. CASE UNCHANGED vars
  <2>1. /\ UNCHANGED <<tables, chain, work, current>> /\ state' = state
        /\ recentRuns' = recentRuns /\ faults' = faults
    BY <1>14 DEF vars, runVars
  <2> QED
    BY <1>1, <1>3, <1>4, <1>5, <2>1
<1>15. ASSUME NEW i \in Importers, Progress(i)
       PROVE  ImportInv' /\ Grow
  BY <1>8, <1>10, <1>11, <1>12, <1>13, <1>15 DEF Progress, SubStep
<1>16. ASSUME NEW i \in Importers, Failure(i)
       PROVE  ImportInv' /\ Grow
  BY <1>9, <1>12, <1>13, <1>16 DEF Failure, SubStep
<1> QED
  BY <1>6, <1>7, <1>14, <1>15, <1>16 DEF Next

LEMMA ImportInductive == Spec => []ImportInv
<1> QED
  BY ImportInit, ImportNext, PTL DEF Spec

(***************************************************************************)
(* A block that is recorded as imported has all the rows of its transfers, *)
(* whatever query, batch or run failed, and however the transfers of two   *)
(* importers are interleaved.                                              *)
(***************************************************************************)
THEOREM ImportedHasRows == Spec => []ImportedIsStored
<1>1. ImportInv => ImportedIsStored
  BY DEF ImportInv
<1> QED
  BY <1>1, ImportInductive, PTL

(***************************************************************************)
(* A row that is stored is never changed, whatever is imported again: two  *)
(* rows with the same key are equal.                                       *)
(***************************************************************************)
THEOREM RowsAreFinal == Spec => RowsStay
<1>1. ImportInv /\ [Next]_vars => [investments \subseteq investments' /\ cacheRows \subseteq cacheRows']_vars
  BY ImportNext DEF Grow
<1> QED
  BY <1>1, ImportInductive, PTL DEF Spec, RowsStay

(* The variables keep their types. *)
THEOREM TypeCorrect == Spec => []TypeOK
<1>1. ImportInv => TypeOK
  <2> SUFFICES ASSUME ImportInv PROVE TypeOK
    OBVIOUS
  <2>1. \A i \in Importers : DOMAIN work[i] \subseteq TransferType
    BY WorkIsNet DEF ImportInv
  <2> QED
    BY <2>1 DEF ImportInv, PipeInv, PipeTyped, WorkInv, WorkTyped, TablesInv, TablesTyped,
                StateTyped, TypeOK
<1> QED
  BY <1>1, ImportInductive, PTL

-----------------------------------------------------------------------------
(* One time for a block, one row for an owner in it. *)
LEMMA DatesOfTables == ImportInv => DatesAgree
<1> SUFFICES ASSUME ImportInv PROVE DatesAgree
  OBVIOUS
<1>1. TablesTyped /\ OneTime /\ (\A r \in investments : RightRow(r)) /\ chain \in Chains
  BY DEF ImportInv, TablesInv, PipeInv, PipeTyped
<1>2. ASSUME NEW b \in Blocks \ blind
      PROVE  Cardinality(blockTs[b]) <= 1
  <2>1. CASE blockTs[b] = {}
    BY <2>1, FS_EmptySet
  <2>2. CASE blockTs[b] # {}
    <3>1. PICK x : x \in blockTs[b]
      BY <2>2
    <3>2. blockTs[b] = {x}
      BY <1>1, <3>1 DEF OneTime
    <3>3. Cardinality({x}) = 1
      BY FS_Singleton
    <3> QED
      BY <3>2, <3>3
  <2> QED
    BY <2>1, <2>2
<1>3. ASSUME NEW r \in investments, NEW s \in investments, r.product = s.product,
             r.owner = s.owner, r.block = s.block, r.block \notin blind
      PROVE  r = s
  <2>1. r \in RowType /\ s \in RowType /\ RightRow(r) /\ RightRow(s)
    BY <1>1 DEF TablesTyped
  <2>2. r.at \in blockTs[r.block] /\ s.at \in blockTs[r.block] /\ r.block \in Blocks \ blind
    BY <1>3, <2>1 DEF RightRow, RowType
  <2>3. SameKey(r, s)
    BY <1>1, <1>3, <2>2 DEF OneTime, SameKey
  <2> QED
    BY <1>1, <2>1, <2>3, RowsAgree
<1> QED
  BY <1>2, <1>3 DEF DatesAgree

(***************************************************************************)
(* A block whose times were all stored knowing of each other has one, and  *)
(* an owner one row in it for each product.                                *)
(***************************************************************************)
THEOREM OneRowPerBlock == Spec => []DatesAgree
<1> QED
  BY DatesOfTables, ImportInductive, PTL

(* The changes of rows add up over disjoint sets of them. *)
LEMMA DiffOfParts ==
    ASSUME NEW S, IsFiniteSet(S), \A x \in S : x.diff \in Int
    PROVE  /\ DiffOf({}) = 0
           /\ \A T \in SUBSET S : DiffOf(T) \in Int
           /\ \A T, U \in SUBSET S :
                 T \cap U = {} => DiffOf(T \cup U) = DiffOf(T) + DiffOf(U)
           /\ \A x \in S : DiffOf({x}) = x.diff
<1> DEFINE f == [x \in S |-> x.diff]
<1>1. \A x \in S : f[x] \in Int
  OBVIOUS
<1>2. ASSUME NEW T \in SUBSET S
      PROVE  DiffOf(T) = SumOver(f, T)
  <2> DEFINE g == [x \in T |-> x.diff]
  <2>1. IsFiniteSet(T) /\ \A x \in T : x.diff \in Int
    BY FS_Subset
  <2>2. DiffOf(T) = SumOver(g, T)
    BY <2>1, DiffIsSum
  <2>3. \A x \in T : g[x] \in Int /\ g[x] = f[x]
    OBVIOUS
  <2> HIDE DEF f, g
  <2> QED
    BY <2>1, <2>2, <2>3, SumOverAgrees
<1>3. \A x \in S : f[x] = x.diff
  OBVIOUS
<1> HIDE DEF f
<1>4. /\ SumOver(f, {}) = 0
      /\ \A T \in SUBSET S : SumOver(f, T) \in Int
      /\ \A T \in SUBSET S : \A x \in T : SumOver(f, T) = f[x] + SumOver(f, T \ {x})
  BY <1>1, SumOverElement
<1>5. \A T, U \in SUBSET S :
         T \cap U = {} => SumOver(f, T \cup U) = SumOver(f, T) + SumOver(f, U)
  BY <1>1, SumOverUnion
<1>7. ASSUME NEW x \in S
      PROVE  DiffOf({x}) = x.diff
  <2> DEFINE T == {x}
  <2>1. T \in SUBSET S /\ x \in T /\ T \ {x} = {}
    OBVIOUS
  <2>2. SumOver(f, T) = f[x] + SumOver(f, T \ {x})
    BY <1>4, <2>1
  <2>3. DiffOf(T) = f[x] + 0
    BY <1>2, <1>4, <2>1, <2>2
  <2> QED
    BY <1>1, <1>3, <2>3
<1> QED
  BY <1>2, <1>4, <1>5, <1>7

(* There are finitely many net transfers, and rows of them. *)
LEMMA FiniteImage ==
    ASSUME NEW S, IsFiniteSet(S), NEW f
    PROVE  IsFiniteSet({f[x] : x \in S})
<1> DEFINE T == {f[x] : x \in S}
           g == [x \in S |-> f[x]]
<1>1. g \in Surjection(S, T)
  BY DEF Surjection
<1> HIDE DEF T, g
<1>2. IsFiniteSet(T)
  BY <1>1, FS_Surjection
<1> QED
  BY <1>2 DEF T

LEMMA RowsFinite ==
    ASSUME ImportInv
    PROVE  IsFiniteSet(investments) /\ \A r \in investments : r.diff \in Int
<1> DEFINE all == Moves(chain.kind, Logs)
           net == [m \in all |-> NetOf(m, all)]
           nets == {net[m] : m \in all}
           row == [x \in nets \X Times |->
                     [product |-> x[1].product, owner |-> x[1].owner, block |-> x[1].block,
                      at |-> x[2], balance |-> SharesOf(x[1]), diff |-> x[1].diff]]
           rows == {row[x] : x \in nets \X Times}
<1>1. chain \in Chains /\ investments \subseteq RowType /\ \A r \in investments : RightRow(r)
  BY DEF ImportInv, PipeInv, PipeTyped, TablesInv, TablesTyped
<1>2. Net = MergeErc20Transfers(all)
  BY <1>1, NetIsMerged
<1>3. IsFiniteSet(all)
  BY MovesFinite
<1> HIDE DEF all
<1>4. Net \subseteq nets
  <2>1. ASSUME NEW t \in Net
        PROVE  t \in nets
    <3>1. PICK m \in all : t = NetOf(m, all)
      BY <1>2, MergedTransfers
    <3>2. net[m] = NetOf(m, all)
      OBVIOUS
    <3> QED
      BY <3>1, <3>2
  <2> QED
    BY <2>1
<1> HIDE DEF net
<1>5. IsFiniteSet(nets)
  BY <1>3, FiniteImage
<1> HIDE DEF nets
<1>6. IsFiniteSet(Times)
  BY TransferAssumption, FS_Interval DEF Times
<1>7. IsFiniteSet(nets \X Times)
  BY <1>5, <1>6, FS_Product
<1>8. investments \subseteq rows
  <2>1. ASSUME NEW r \in investments
        PROVE  r \in rows
    <3>1. PICK t \in Net : /\ r.product = t.product /\ r.owner = t.owner
                           /\ r.block = t.block /\ r.diff = t.diff
                           /\ r.balance = SharesOf(t)
      BY <1>1 DEF RightRow
    <3>2. r \in RowType /\ r.at \in Times
      BY <1>1 DEF RowType
    <3> DEFINE x == <<t, r.at>>
    <3>3. x \in nets \X Times /\ x[1] = t /\ x[2] = r.at
      BY <1>4, <3>2
    <3> HIDE DEF x
    <3>4. row[x] = [product |-> t.product, owner |-> t.owner, block |-> t.block,
                    at |-> r.at, balance |-> SharesOf(t), diff |-> t.diff]
      BY <3>3
    <3>5. r = [product |-> r.product, owner |-> r.owner, block |-> r.block,
               at |-> r.at, balance |-> r.balance, diff |-> r.diff]
      BY <3>2 DEF RowType
    <3>6. row[x] = r
      BY <3>1, <3>4, <3>5
    <3> HIDE DEF row
    <3> QED
      BY <3>3, <3>6
  <2> QED
    BY <2>1
<1> HIDE DEF row
<1>9. IsFiniteSet(rows)
  BY <1>7, FiniteImage
<1>10. IsFiniteSet(investments)
  BY <1>8, <1>9, FS_Subset
<1> QED
  BY <1>1, <1>10 DEF RowType

-----------------------------------------------------------------------------
(* What an owner holds, block by block. *)

OwnMoves(p, o, b) ==
    {m \in Moves(chain.kind, Logs) : m.product = p /\ m.owner = o /\ m.block = b}

HeldMoves(p, o, b) ==
    {m \in Moves(chain.kind, Logs) : m.product = p /\ m.owner = o /\ m.block <= b}

RowsIn(p, o, b) == {r \in investments : r.product = p /\ r.owner = o /\ r.block = b}

(* The movements of an owner in a block are a group of mergeErc20Transfers. *)
LEMMA GroupOf ==
    ASSUME NEW m \in Moves(chain.kind, Logs)
    PROVE  /\ NetOf(m, Moves(chain.kind, Logs)).product = m.product
           /\ NetOf(m, Moves(chain.kind, Logs)).owner = m.owner
           /\ NetOf(m, Moves(chain.kind, Logs)).block = m.block
           /\ NetOf(m, Moves(chain.kind, Logs)).diff =
                 AmountOf(OwnMoves(m.product, m.owner, m.block))
<1> DEFINE all == Moves(chain.kind, Logs)
<1>1. {n \in all : SameGroup(m, n)} = OwnMoves(m.product, m.owner, m.block)
  BY DEF SameGroup, OwnMoves
<1> HIDE DEF all
<1>2. NetOf(m, all).diff = AmountOf({n \in all : SameGroup(m, n)})
  BY DEF NetOf
<1>3. /\ NetOf(m, all).product = m.product /\ NetOf(m, all).owner = m.owner
      /\ NetOf(m, all).block = m.block
  BY DEF NetOf
<1> QED
  BY <1>1, <1>2, <1>3 DEF all

(* A movement is in a block after the creation of the contract. *)
LEMMA MoveAfterCreation ==
    ASSUME NEW kind, NEW m \in Moves(kind, Logs)
    PROVE  Created[m.product] <= m.block
<1>1. PICK l \in Logs : m \in LogToTransfers(l)
  BY DEF Moves
<1>2. l \in LogType /\ Created[l.product] <= l.block
  BY TransferAssumption
<1> QED
  BY <1>1, <1>2, LogTransfers

LEMMA BlockAddsUp ==
    ASSUME ImportInv, blind = {}, NEW p \in Products, NEW o \in Owners \ Ignored,
           NEW b \in Blocks, Created[p] <= b => b \in Imported(p)
    PROVE  DiffOf(RowsIn(p, o, b)) = AmountOf(OwnMoves(p, o, b))
<1> DEFINE all == Moves(chain.kind, Logs)
<1>1. /\ chain \in Chains /\ DatesAgree /\ ImportedIsStored
      /\ investments \subseteq RowType /\ \A r \in investments : RightRow(r)
  BY DatesOfTables DEF ImportInv, PipeInv, PipeTyped, TablesInv, TablesTyped
<1>2. Net = MergeErc20Transfers(all)
  BY <1>1, NetIsMerged
<1>3. AmountOf({}) = 0
  <2>1. IsFiniteSet(all) /\ \A m \in all : m.amount \in Int
    BY MovesFinite, MovesTyped DEF MoveType
  <2> HIDE DEF all
  <2> QED
    BY <2>1, AmountOfParts
<1>4. IsFiniteSet(investments) /\ \A r \in investments : r.diff \in Int
  BY RowsFinite
<1>5. DiffOf({}) = 0 /\ \A r \in investments : DiffOf({r}) = r.diff
  BY <1>4, DiffOfParts
<1>6. CASE AmountOf(OwnMoves(p, o, b)) = 0
  <2>1. ASSUME NEW r \in RowsIn(p, o, b)
        PROVE  FALSE
    <3>1. r \in investments /\ r.product = p /\ r.owner = o /\ r.block = b
      BY DEF RowsIn
    <3>2. PICK t \in Net : r.product = t.product /\ r.owner = t.owner /\ r.block = t.block
      BY <1>1, <3>1 DEF RightRow
    <3>3. PICK m \in all : t = NetOf(m, all) /\ t.diff # 0
      BY <1>2, <3>2, MergedTransfers
    <3>4. m.product = p /\ m.owner = o /\ m.block = b /\ t.diff = AmountOf(OwnMoves(p, o, b))
      BY <3>1, <3>2, <3>3, GroupOf
    <3> QED
      BY <1>6, <3>3, <3>4
  <2>2. RowsIn(p, o, b) = {}
    BY <2>1
  <2> QED
    BY <1>5, <1>6, <2>2
<1>7. CASE AmountOf(OwnMoves(p, o, b)) # 0
  <2>1. PICK m : m \in OwnMoves(p, o, b)
    BY <1>3, <1>7
  <2>2. m \in all /\ m.product = p /\ m.owner = o /\ m.block = b
    BY <2>1 DEF OwnMoves
  <2>3. b \in Imported(p)
    BY <2>2, MoveAfterCreation
  <2> DEFINE t == NetOf(m, all)
  <2>4. t.product = p /\ t.owner = o /\ t.block = b /\ t.diff = AmountOf(OwnMoves(p, o, b))
    BY <2>2, GroupOf
  <2>5. t \in Net
    BY <1>2, <1>7, <2>2, <2>4, MergedTransfers
  <2> HIDE DEF t
  <2>6. t \in TransfersAt(p, b)
    BY <2>4, <2>5 DEF TransfersAt, Net
  <2>7. Stored(t)
    BY <1>1, <2>3, <2>6 DEF ImportedIsStored
  <2>8. PICK r \in investments : /\ r.product = p /\ r.owner = o /\ r.block = b
                                 /\ r.diff = t.diff
    BY <2>4, <2>7 DEF Stored
  <2>9. \A s \in RowsIn(p, o, b) : s = r
    BY <1>1, <2>8 DEF RowsIn, DatesAgree
  <2>10. RowsIn(p, o, b) = {r}
    BY <2>8, <2>9 DEF RowsIn
  <2> QED
    BY <1>5, <2>4, <2>8, <2>10
<1> QED
  BY <1>6, <1>7

LEMMA HoldingsAddUp ==
    ASSUME ImportInv, blind = {}, NEW p \in Products, NEW o \in Owners \ Ignored,
           NEW last \in Blocks, Created[p] .. last \subseteq Imported(p), NEW b \in 0 .. last
    PROVE  DiffOf(RowsOf(p, o, b)) = AmountOf(HeldMoves(p, o, b))
<1> DEFINE all == Moves(chain.kind, Logs)
           Right(n) == DiffOf(RowsOf(p, o, n)) = AmountOf(HeldMoves(p, o, n))
           S == {n \in Nat : n <= last => Right(n)}
<1>1. /\ all \subseteq MoveType /\ IsFiniteSet(all) /\ \A m \in all : m.amount \in Int
      /\ \A m \in all : m.block \in Nat /\ 1 <= m.block
  <2>1. all \subseteq MoveType /\ IsFiniteSet(all)
    BY MovesTyped, MovesFinite
  <2>2. \A m \in all : m.amount \in Int /\ m.block \in Blocks
    BY <2>1 DEF MoveType
  <2> HIDE DEF all
  <2> QED
    BY <2>1, <2>2, TransferAssumption DEF Blocks
<1>2. /\ IsFiniteSet(investments) /\ \A r \in investments : r.diff \in Int
      /\ \A r \in investments : r.block \in Nat /\ 1 <= r.block
  <2>1. \A r \in investments : r.block \in Blocks
    BY DEF ImportInv, TablesInv, TablesTyped, RowType
  <2> QED
    BY <2>1, RowsFinite, TransferAssumption DEF Blocks
<1>3. /\ \A n : HeldMoves(p, o, n) \in SUBSET all
      /\ \A n : OwnMoves(p, o, n) \in SUBSET all
      /\ \A n : RowsOf(p, o, n) \in SUBSET investments
      /\ \A n : RowsIn(p, o, n) \in SUBSET investments
  BY DEF HeldMoves, OwnMoves, RowsOf, RowsIn
<1>4. ASSUME NEW n \in Nat
      PROVE  /\ HeldMoves(p, o, n + 1) = HeldMoves(p, o, n) \cup OwnMoves(p, o, n + 1)
             /\ HeldMoves(p, o, n) \cap OwnMoves(p, o, n + 1) = {}
             /\ RowsOf(p, o, n + 1) = RowsOf(p, o, n) \cup RowsIn(p, o, n + 1)
             /\ RowsOf(p, o, n) \cap RowsIn(p, o, n + 1) = {}
  <2>1. \A k \in Nat : /\ k <= n + 1 <=> k <= n \/ k = n + 1
                       /\ ~(k <= n /\ k = n + 1)
    OBVIOUS
  <2>2. \A m \in all : m.block \in Nat
    BY <1>1
  <2>3. \A r \in investments : r.block \in Nat
    BY <1>2
  <2> QED
    BY <2>1, <2>2, <2>3 DEF HeldMoves, OwnMoves, RowsOf, RowsIn
<1>5. \A T, U \in SUBSET all :
         T \cap U = {} => AmountOf(T \cup U) = AmountOf(T) + AmountOf(U)
  <2> HIDE DEF all
  <2> QED
    BY <1>1, AmountOfParts
<1>6. \A T, U \in SUBSET investments :
         T \cap U = {} => DiffOf(T \cup U) = DiffOf(T) + DiffOf(U)
  BY <1>2, DiffOfParts
<1>7. 0 \in S
  <2>1. HeldMoves(p, o, 0) = {} /\ RowsOf(p, o, 0) = {}
    BY <1>1, <1>2 DEF HeldMoves, RowsOf
  <2>2. AmountOf({}) = 0 /\ DiffOf({}) = 0
    <3> HIDE DEF all
    <3> QED
      BY <1>1, <1>2, AmountOfParts, DiffOfParts
  <2> QED
    BY <2>1, <2>2
<1>8. ASSUME NEW n \in Nat, n \in S
      PROVE  n + 1 \in S
  <2> SUFFICES ASSUME n + 1 <= last
               PROVE  Right(n + 1)
    OBVIOUS
  <2>1. last \in Nat /\ n + 1 \in Blocks
    BY TransferAssumption DEF Blocks
  <2>2. Right(n)
    BY <1>8, <2>1
  <2>3. Created[p] <= n + 1 => n + 1 \in Imported(p)
    BY <2>1, TransferAssumption DEF Blocks
  <2>4. DiffOf(RowsIn(p, o, n + 1)) = AmountOf(OwnMoves(p, o, n + 1))
    BY <2>1, <2>3, BlockAddsUp
  <2>5. AmountOf(HeldMoves(p, o, n + 1)) =
           AmountOf(HeldMoves(p, o, n)) + AmountOf(OwnMoves(p, o, n + 1))
    BY <1>3, <1>4, <1>5
  <2>6. DiffOf(RowsOf(p, o, n + 1)) =
           DiffOf(RowsOf(p, o, n)) + DiffOf(RowsIn(p, o, n + 1))
    BY <1>3, <1>4, <1>6
  <2> QED
    BY <2>2, <2>4, <2>5, <2>6
<1>9. Nat \subseteq S
  <2> HIDE DEF S
  <2> QED
    BY <1>7, <1>8, NumberInduction
<1>10. b \in Nat /\ b <= last
  BY TransferAssumption DEF Blocks
<1> QED
  BY <1>9, <1>10

LEMMA RowsAddUpOf == ImportInv => RowsAddUp
<1> SUFFICES ASSUME ImportInv, blind = {}, NEW p \in Products, NEW b \in Blocks,
                    NEW o \in Owners \ Ignored, Created[p] .. b \subseteq Imported(p)
             PROVE  /\ DiffOf(RowsOf(p, o, b)) = Shares[chain.kind][p][o][b]
                    /\ \A r \in RowsOf(p, o, b) : (\A s \in RowsOf(p, o, b) : s.block <= r.block)
                          => r.balance = Shares[chain.kind][p][o][b]
  BY DEF RowsAddUp, DiffOf
<1>1. /\ chain \in Chains /\ investments \subseteq RowType
      /\ \A r \in investments : RightRow(r)
  BY DEF ImportInv, PipeInv, PipeTyped, TablesInv, TablesTyped
<1>2. b \in 0 .. MaxBlock + 1 /\ b \in 0 .. b /\ b \in Nat
  BY TransferAssumption DEF Blocks
<1>3. \A n \in 0 .. MaxBlock + 1 : Shares[chain.kind][p][o][n] = AmountOf(HeldMoves(p, o, n))
  BY <1>1, SharesAreAmounts DEF HeldMoves
<1>4. \A n \in 0 .. b : DiffOf(RowsOf(p, o, n)) = AmountOf(HeldMoves(p, o, n))
  BY HoldingsAddUp
<1>5. DiffOf(RowsOf(p, o, b)) = Shares[chain.kind][p][o][b]
  BY <1>2, <1>3, <1>4
<1>6. ASSUME NEW r \in RowsOf(p, o, b), \A s \in RowsOf(p, o, b) : s.block <= r.block
      PROVE  r.balance = Shares[chain.kind][p][o][b]
  <2>1. r \in investments /\ r.product = p /\ r.owner = o /\ r.block <= b
    BY DEF RowsOf
  <2>2. r.block \in 0 .. b /\ r.block \in 0 .. MaxBlock + 1
    BY <1>1, <2>1, TransferAssumption DEF RowType, Blocks
  <2>3. RowsOf(p, o, r.block) = RowsOf(p, o, b)
    <3>1. \A s \in investments : s.block \in Nat
      BY <1>1, TransferAssumption DEF RowType, Blocks
    <3> QED
      BY <1>2, <1>6, <2>1, <2>2, <3>1 DEF RowsOf
  <2>4. PICK t \in Net : /\ r.product = t.product /\ r.owner = t.owner /\ r.block = t.block
                         /\ r.balance = SharesOf(t)
    BY <1>1, <2>1 DEF RightRow
  <2>5. r.balance = Shares[chain.kind][p][o][r.block]
    BY <2>1, <2>4 DEF SharesOf
  <2> QED
    BY <1>3, <1>4, <1>5, <2>2, <2>3, <2>5
<1> QED
  BY <1>5, <1>6

(***************************************************************************)
(* Once a product is imported up to a block, the changes of balance stored *)
(* for an owner add up to what it holds there, and its last row has that   *)
(* balance, provided each block was given one time.                        *)
(***************************************************************************)
THEOREM HoldingsAreRows == Spec => []RowsAddUp
<1> QED
  BY RowsAddUpOf, ImportInductive, PTL
=============================================================================
