----------------------- MODULE ProductCatalogue_proofs -----------------------
(***************************************************************************)
(* Proofs about the rows the products tasks write: for any importers,      *)
(* products, histories, edits, failures and kills, a product has its price *)
(* feeds and a boost a vault of the database.                              *)
(***************************************************************************)
EXTENDS ProductCatalogue, InductionLemmas, SequenceTheorems, TLAPS

USE CatalogueAssumption

-----------------------------------------------------------------------------
(* The inductive invariant. *)

IsFunctionOn(f, S) == f = [x \in S |-> f[x]]

Shapes ==
    /\ pc \in [Importers -> Stages]
    /\ IsFunctionOn(stream, Importers)
    /\ IsFunctionOn(vaultItems, Importers)
    /\ IsFunctionOn(products, Products)

Exists(q) == products[q] # NoProduct

(* The items that are still in the pipeline after a batch have its rows. *)
StreamFed ==
    \A p \in Importers : \A q \in DOMAIN stream[p] :
        pc[p][2] \in {"products", "ignore"} => FeedsOf(q) \subseteq feeds

StreamUpserted ==
    \A p \in Importers : \A q \in Products :
        pc[p][2] = "ignore" /\ q \in DOMAIN stream[p] => Exists(q)

VaultItemsUpserted ==
    \A p \in Importers : \A v \in Vaults : v \in DOMAIN vaultItems[p] => Exists(v)

IInv ==
    /\ Shapes
    /\ StreamFed
    /\ StreamUpserted
    /\ VaultItemsUpserted
    /\ ProductsHaveFeeds
    /\ BoostsHaveVaults

LEMMA IInvInit == Init => IInv
<1> SUFFICES ASSUME Init PROVE IInv
  OBVIOUS
<1>1. Shapes
  <2>1. StartOfRun \in Stages
    BY DEF StartOfRun, Stages, Files
  <2> QED
    BY <2>1 DEF Init, Shapes, IsFunctionOn
<1>2. \A q \in Products : ~Exists(q)
  BY DEF Init, Exists
<1>3. \A p \in Importers : pc[p] = StartOfRun /\ DOMAIN vaultItems[p] = {}
  BY DEF Init, NoItems
<1>4. \A p \in Importers : pc[p][2] = "clone"
  BY <1>3 DEF StartOfRun
<1>5. StreamFed /\ StreamUpserted /\ VaultItemsUpserted
  BY <1>3, <1>4 DEF StreamFed, StreamUpserted, VaultItemsUpserted
<1>6. ProductsHaveFeeds /\ BoostsHaveVaults
  BY <1>2 DEF ProductsHaveFeeds, BoostsHaveVaults, Exists, Products
<1> QED
  BY <1>1, <1>5, <1>6 DEF IInv

-----------------------------------------------------------------------------
(* What the steps of a task do to the rows and to its items. *)

(* The tables keep what they had, and each new product is fed and its own. *)
TablesGrow ==
    /\ IsFunctionOn(products', Products)
    /\ feeds \subseteq feeds'
    /\ \A q \in Products : Exists(q) => Exists(q)'
    /\ ProductsHaveFeeds'
    /\ BoostsHaveVaults'

LEMMA TablesKept ==
    ASSUME IInv, UNCHANGED products, feeds \subseteq feeds'
    PROVE  TablesGrow
BY DEF IInv, Shapes, TablesGrow, Exists, ProductsHaveFeeds, BoostsHaveVaults

(* Rows are written for items that are fed, boosts with a vault upserted. *)
LEMMA WriteGrows ==
    ASSUME IInv, NEW p \in Importers, NEW written \in SUBSET DOMAIN stream[p],
           pc[p][2] = "products", Write(p, written), UNCHANGED feeds
    PROVE  TablesGrow /\ \A q \in Products : q \in written => Exists(q)'
<1>1. PICK vaultOf \in [written -> Vaults] :
        /\ \A q \in written : vaultOf[q] \in VaultsOf(p, q)
        /\ products' = [q \in Products |->
             IF q \notin written THEN products[q]
             ELSE [closed |-> stream[p][q].closed,
                   dashboardEol |-> DashboardEol(stream[p][q].closed),
                   vault |-> {vaultOf[q]},
                   read |-> stream[p][q].read]]
  BY DEF Write
<1>2. \A q \in Products : q \notin written => products'[q] = products[q]
  BY <1>1
<1>3. ASSUME NEW q \in Products, q \in written
      PROVE  products'[q] # NoProduct /\ products'[q].vault = {vaultOf[q]}
  <2>1. products'[q] = [closed |-> stream[p][q].closed,
                        dashboardEol |-> DashboardEol(stream[p][q].closed),
                        vault |-> {vaultOf[q]},
                        read |-> stream[p][q].read]
    BY <1>1, <1>3
  <2>2. products'[q].vault = {vaultOf[q]}
    BY <2>1
  <2>3. NoProduct.vault = {}
    BY DEF NoProduct
  <2> QED
    BY <2>2, <2>3
<1>4. \A q \in Products : Exists(q) => Exists(q)'
  BY <1>2, <1>3 DEF Exists
<1>5. ProductsHaveFeeds'
  <2>1. \A q \in written : FeedsOf(q) \subseteq feeds
    BY DEF IInv, StreamFed
  <2> QED
    BY <1>2, <2>1 DEF IInv, ProductsHaveFeeds, FeedsOf
<1>6. BoostsHaveVaults'
  <2> SUFFICES ASSUME NEW b \in Boosts, products'[b] # NoProduct
               PROVE  \E v \in Vaults : /\ products'[b].vault = {v}
                                        /\ Id[v] = Pool[b]
                                        /\ products'[v] # NoProduct
    BY DEF BoostsHaveVaults
  <2>1. CASE b \in written
    <3>1. b \notin Vaults
      BY DEF CatalogueAssumption
    <3>2. /\ vaultOf[b] \in Vaults
          /\ vaultOf[b] \in DOMAIN vaultItems[p]
          /\ Id[vaultOf[b]] = Pool[b]
      BY <1>1, <2>1, <3>1 DEF VaultsOf
    <3>3. Exists(vaultOf[b])
      BY <3>2 DEF IInv, VaultItemsUpserted
    <3> QED
      BY <1>3, <1>4, <2>1, <3>2, <3>3 DEF Exists, Products
  <2>2. CASE b \notin written
    BY <1>2, <1>4, <2>2 DEF IInv, BoostsHaveVaults, Exists, Products
  <2> QED
    BY <2>1, <2>2
<1>7. IsFunctionOn(products', Products)
  BY <1>1 DEF IsFunctionOn
<1> QED
  BY <1>3, <1>4, <1>5, <1>6, <1>7 DEF TablesGrow, Exists

(* What is left to show of a step of p: where it leaves its own items. *)
OwnStep(p) ==
    /\ pc' \in [Importers -> Stages]
    /\ IsFunctionOn(stream', Importers)
    /\ IsFunctionOn(vaultItems', Importers)
    /\ \A o \in Importers \ {p} :
         pc'[o] = pc[o] /\ stream'[o] = stream[o] /\ vaultItems'[o] = vaultItems[o]
    /\ pc'[p][2] \in {"products", "ignore"} =>
         \A q \in DOMAIN stream'[p] : FeedsOf(q) \subseteq feeds'
    /\ pc'[p][2] = "ignore" =>
         \A q \in Products : q \in DOMAIN stream'[p] => Exists(q)'
    /\ \A v \in Vaults : v \in DOMAIN vaultItems'[p] => Exists(v)'

LEMMA StepKeepsIInv ==
    ASSUME IInv, NEW p \in Importers, TablesGrow, OwnStep(p)
    PROVE  IInv'
<1>1. Shapes'
  BY DEF Shapes, TablesGrow, OwnStep, IsFunctionOn
<1>2. StreamFed'
  <2> SUFFICES ASSUME NEW o \in Importers, NEW q \in DOMAIN stream'[o],
                      pc'[o][2] \in {"products", "ignore"}
               PROVE  FeedsOf(q) \subseteq feeds'
    BY DEF StreamFed, FeedsOf
  <2>1. CASE o = p
    BY <2>1 DEF OwnStep
  <2>2. CASE o # p
    BY <2>2 DEF OwnStep, IInv, StreamFed, TablesGrow
  <2> QED
    BY <2>1, <2>2
<1>3. StreamUpserted'
  BY DEF OwnStep, IInv, StreamUpserted, TablesGrow
<1>4. VaultItemsUpserted'
  BY DEF OwnStep, IInv, VaultItemsUpserted, TablesGrow, Products
<1> QED
  BY <1>1, <1>2, <1>3, <1>4 DEF IInv, TablesGrow

(* A run that ends leaves nothing. *)
LEMMA EndIsOwnStep ==
    ASSUME IInv, NEW p \in Importers, End(p)
    PROVE  OwnStep(p)
<1>1. StartOfRun \in Stages /\ StartOfRun[2] = "clone" /\ DOMAIN NoItems = {}
  BY DEF StartOfRun, Stages, Files, NoItems
<1>2. pc'[p] = StartOfRun /\ vaultItems'[p] = NoItems
  BY DEF End, IInv, Shapes, IsFunctionOn
<1>3. /\ pc' \in [Importers -> Stages]
      /\ IsFunctionOn(stream', Importers)
      /\ IsFunctionOn(vaultItems', Importers)
  BY <1>1 DEF End, IInv, Shapes, IsFunctionOn
<1>4. \A o \in Importers \ {p} :
        pc'[o] = pc[o] /\ stream'[o] = stream[o] /\ vaultItems'[o] = vaultItems[o]
  BY DEF End, IInv, Shapes, IsFunctionOn
<1> QED
  BY <1>1, <1>2, <1>3, <1>4 DEF OwnStep

(* A step to another stage that leaves the items as they are. *)
LEMMA NextStageIsOwnStep ==
    ASSUME IInv, TablesGrow, NEW p \in Importers, NEW file \in Files,
           NEW stage \in {"pull", "log", "read", "products", "ignore"},
           pc' = [pc EXCEPT ![p] = <<file, stage>>],
           UNCHANGED <<stream, vaultItems>>,
           stage \in {"products", "ignore"} =>
               \A q \in DOMAIN stream[p] : FeedsOf(q) \subseteq feeds',
           stage = "ignore" =>
               \A q \in Products : q \in DOMAIN stream[p] => Exists(q)'
    PROVE  OwnStep(p)
<1>1. <<file, stage>> \in Stages
  BY DEF Stages
<1>2. pc'[p] = <<file, stage>> /\ pc' \in [Importers -> Stages]
  BY <1>1 DEF IInv, Shapes
<1>3. pc'[p][2] = stage
  BY <1>2
<1>4. \A o \in Importers \ {p} : pc'[o] = pc[o]
  BY DEF IInv, Shapes
<1>5. \A v \in Vaults : v \in DOMAIN vaultItems[p] => Exists(v)'
  BY DEF IInv, VaultItemsUpserted, TablesGrow, Products
<1> QED
  BY <1>2, <1>3, <1>4, <1>5 DEF OwnStep, IInv, Shapes

-----------------------------------------------------------------------------
(* The actions of a task. *)

LEMMA GitKeeps ==
    ASSUME IInv, NEW p \in Importers, NEW file \in Files,
           Clone(p, file) \/ Pull(p, file) \/ Log(p, file)
    PROVE  IInv'
<1>1. UNCHANGED <<stream, vaultItems, tables>>
  BY DEF Clone, Pull, Log
<1>2. TablesGrow
  BY <1>1, TablesKept DEF tables
<1>3. PICK stage \in {"pull", "log", "read"} : pc' = [pc EXCEPT ![p] = <<file, stage>>]
  BY DEF Clone, Pull, Log
<1>4. OwnStep(p)
  BY <1>1, <1>2, <1>3, NextStageIsOwnStep
<1> QED
  BY <1>2, <1>4, StepKeepsIInv

LEMMA ReadKeeps ==
    ASSUME IInv, NEW p \in Importers, NEW file \in Files, Read(p, file)
    PROVE  IInv'
<1>1. TablesGrow
  BY TablesKept DEF Read, tables
<1>2. CASE End(p)
  BY <1>1, <1>2, EndIsOwnStep, StepKeepsIInv
<1>3. CASE ~End(p)
  <2>1. PICK items :
          /\ stream' = [stream EXCEPT ![p] = items]
          /\ pc' = [pc EXCEPT ![p] = <<file, "feeds">>]
          /\ UNCHANGED vaultItems
    BY <1>3 DEF Read
  <2>2. <<file, "feeds">> \in Stages /\ <<file, "feeds">>[2] = "feeds"
    BY DEF Stages
  <2>3. pc' \in [Importers -> Stages] /\ pc'[p][2] = "feeds"
    BY <2>1, <2>2 DEF IInv, Shapes
  <2>4. IsFunctionOn(stream', Importers) /\ IsFunctionOn(vaultItems', Importers)
    BY <2>1 DEF IInv, Shapes, IsFunctionOn
  <2>5. \A o \in Importers \ {p} :
          pc'[o] = pc[o] /\ stream'[o] = stream[o] /\ vaultItems'[o] = vaultItems[o]
    BY <2>1 DEF IInv, Shapes, IsFunctionOn
  <2>6. \A v \in Vaults : v \in DOMAIN vaultItems'[p] => Exists(v)'
    BY <1>1, <2>1 DEF IInv, VaultItemsUpserted, TablesGrow, Products
  <2>7. OwnStep(p)
    BY <2>3, <2>4, <2>5, <2>6 DEF OwnStep
  <2> QED
    BY <1>1, <2>7, StepKeepsIInv
<1> QED
  BY <1>2, <1>3

LEMMA UpsertFeedsKeeps ==
    ASSUME IInv, NEW p \in Importers, NEW file \in Files, UpsertFeeds(p, file)
    PROVE  IInv'
<1>1. TablesGrow
  BY TablesKept DEF UpsertFeeds
<1>2. \A q \in DOMAIN stream[p] : FeedsOf(q) \subseteq feeds'
  BY DEF UpsertFeeds
<1>3. OwnStep(p)
  BY <1>1, <1>2, NextStageIsOwnStep DEF UpsertFeeds
<1> QED
  BY <1>1, <1>3, StepKeepsIInv

LEMMA UpsertProductsKeeps ==
    ASSUME IInv, NEW p \in Importers, NEW file \in Files, UpsertProducts(p, file)
    PROVE  IInv'
<1>1. pc[p][2] = "products"
  BY DEF UpsertProducts
<1>2. TablesGrow /\ \A q \in Products : q \in DOMAIN stream[p] => Exists(q)'
  <2>1. DOMAIN stream[p] \in SUBSET DOMAIN stream[p]
    OBVIOUS
  <2> QED
    BY <1>1, <2>1, WriteGrows DEF UpsertProducts
<1>3. \A q \in DOMAIN stream[p] : FeedsOf(q) \subseteq feeds'
  BY <1>1 DEF UpsertProducts, IInv, StreamFed
<1>4. OwnStep(p)
  BY <1>2, <1>3, NextStageIsOwnStep DEF UpsertProducts
<1> QED
  BY <1>2, <1>4, StepKeepsIInv

LEMMA IgnoreAddressesKeeps ==
    ASSUME IInv, NEW p \in Importers, NEW file \in Files, IgnoreAddresses(p, file)
    PROVE  IInv'
<1>1. TablesGrow
  BY TablesKept DEF IgnoreAddresses
<1>2. CASE End(p)
  BY <1>1, <1>2, EndIsOwnStep, StepKeepsIInv
<1>3. CASE ~End(p)
  <2>1. /\ pc' = [pc EXCEPT ![p] = <<"boosts", "clone">>]
        /\ vaultItems' = [vaultItems EXCEPT ![p] = stream[p]]
        /\ stream' = [stream EXCEPT ![p] = NoItems]
    BY <1>3 DEF IgnoreAddresses
  <2>2. <<"boosts", "clone">> \in Stages /\ <<"boosts", "clone">>[2] = "clone"
    BY DEF Stages, Files
  <2>3. pc' \in [Importers -> Stages] /\ pc'[p][2] = "clone"
    BY <2>1, <2>2 DEF IInv, Shapes
  <2>4. IsFunctionOn(stream', Importers) /\ IsFunctionOn(vaultItems', Importers)
    BY <2>1 DEF IInv, Shapes, IsFunctionOn
  <2>5. \A o \in Importers \ {p} :
          pc'[o] = pc[o] /\ stream'[o] = stream[o] /\ vaultItems'[o] = vaultItems[o]
    BY <2>1 DEF IInv, Shapes, IsFunctionOn
  <2>6. \A v \in Vaults : v \in DOMAIN vaultItems'[p] => Exists(v)'
    <3>1. vaultItems'[p] = stream[p]
      BY <2>1 DEF IInv, Shapes, IsFunctionOn
    <3>2. pc[p][2] = "ignore"
      BY DEF IgnoreAddresses
    <3> QED
      BY <1>1, <3>1, <3>2 DEF IInv, StreamUpserted, TablesGrow, Products
  <2>7. OwnStep(p)
    BY <2>3, <2>4, <2>5, <2>6 DEF OwnStep
  <2> QED
    BY <1>1, <2>7, StepKeepsIInv
<1> QED
  BY <1>2, <1>3

(* The items of a batch that fails leave the pipeline, with or without rows. *)
LEMMA UpsertFailsKeeps ==
    ASSUME IInv, NEW p \in Importers, UpsertFails(p)
    PROVE  IInv'
<1>1. PICK lost \in SUBSET DOMAIN stream[p] :
        /\ \/ UNCHANGED products
           \/ /\ pc[p][2] = "products"
              /\ Write(p, {q \in lost : products[q] = NoProduct})
        /\ DropBatch(p, lost)
  BY DEF UpsertFails
<1>2. TablesGrow
  <2>1. CASE UNCHANGED products
    BY <2>1, TablesKept DEF UpsertFails
  <2>2. CASE /\ pc[p][2] = "products"
             /\ Write(p, {q \in lost : products[q] = NoProduct})
    <3>1. {q \in lost : products[q] = NoProduct} \in SUBSET DOMAIN stream[p]
      OBVIOUS
    <3> QED
      BY <2>2, <3>1, WriteGrows DEF UpsertFails
  <2> QED
    BY <1>1, <2>1, <2>2
<1>3. UNCHANGED <<pc, vaultItems, feeds>>
  BY <1>1 DEF UpsertFails, DropBatch
<1>4. stream' = [stream EXCEPT ![p] = [q \in DOMAIN @ \ lost |-> @[q]]]
  BY <1>1 DEF DropBatch
<1>5. /\ IsFunctionOn(stream', Importers)
      /\ \A o \in Importers \ {p} : stream'[o] = stream[o]
      /\ DOMAIN stream'[p] \subseteq DOMAIN stream[p]
  BY <1>4 DEF IInv, Shapes, IsFunctionOn
<1>6. pc'[p][2] \in {"products", "ignore"} =>
        \A q \in DOMAIN stream'[p] : FeedsOf(q) \subseteq feeds'
  BY <1>3, <1>5 DEF IInv, StreamFed
<1>7. /\ pc'[p][2] = "ignore" =>
           \A q \in Products : q \in DOMAIN stream'[p] => Exists(q)'
      /\ \A v \in Vaults : v \in DOMAIN vaultItems'[p] => Exists(v)'
  BY <1>2, <1>3, <1>5 DEF IInv, StreamUpserted, VaultItemsUpserted, TablesGrow, Products
<1>8. OwnStep(p)
  BY <1>3, <1>5, <1>6, <1>7 DEF OwnStep, IInv, Shapes
<1> QED
  BY <1>2, <1>8, StepKeepsIInv

LEMMA EndKeeps ==
    ASSUME IInv, NEW p \in Importers, End(p), UNCHANGED tables
    PROVE  IInv'
BY TablesKept, EndIsOwnStep, StepKeepsIInv DEF tables

-----------------------------------------------------------------------------

LEMMA IInvNext == IInv /\ [Next]_vars => IInv'
<1> SUFFICES ASSUME IInv, [Next]_vars PROVE IInv'
  OBVIOUS
<1>1. CASE UNCHANGED <<pc, stream, vaultItems, feeds, products>>
  BY <1>1 DEF IInv, Shapes, IsFunctionOn, StreamFed, FeedsOf, StreamUpserted,
              VaultItemsUpserted, Exists, ProductsHaveFeeds, BoostsHaveVaults
<1>2. CASE Tick
  BY <1>1, <1>2 DEF Tick, tables
<1>3. CASE CommitFile
  BY <1>1, <1>3 DEF CommitFile, tables
<1>4. ASSUME NEW p \in Importers, Step(p)
      PROVE  IInv'
  <2>1. PICK file \in Files :
          \/ Clone(p, file) \/ Pull(p, file) \/ Log(p, file) \/ Read(p, file)
          \/ UpsertFeeds(p, file) \/ UpsertProducts(p, file) \/ IgnoreAddresses(p, file)
    BY <1>4 DEF Step
  <2>2. CASE Clone(p, file) \/ Pull(p, file) \/ Log(p, file)
    BY <2>2, GitKeeps
  <2>3. CASE Read(p, file)
    BY <2>3, ReadKeeps
  <2>4. CASE UpsertFeeds(p, file)
    BY <2>4, UpsertFeedsKeeps
  <2>5. CASE UpsertProducts(p, file)
    BY <2>5, UpsertProductsKeeps
  <2>6. CASE IgnoreAddresses(p, file)
    BY <2>6, IgnoreAddressesKeeps
  <2> QED
    BY <2>1, <2>2, <2>3, <2>4, <2>5, <2>6
<1>5. ASSUME NEW p \in Importers, Fault(p)
      PROVE  IInv'
  <2>1. CASE Crash(p) \/ OtherChainFails(p) \/ GitFails(p)
    BY <2>1, EndKeeps DEF Crash, OtherChainFails, GitFails
  <2>2. CASE UpsertFails(p)
    BY <2>2, UpsertFailsKeeps
  <2>3. CASE ShowFails(p)
    BY <1>1, <2>3 DEF ShowFails, tables
  <2> QED
    BY <1>5, <2>1, <2>2, <2>3 DEF Fault
<1>6. CASE UNCHANGED vars
  BY <1>1, <1>6 DEF vars, tables
<1> QED
  BY <1>2, <1>3, <1>4, <1>5, <1>6 DEF Next

(***************************************************************************)
(* Nothing that fails, is killed or runs twice in the products tasks makes *)
(* a boost of the database point to a vault that is not in it, or to one   *)
(* of another id.                                                          *)
(***************************************************************************)
THEOREM CatalogueBoostsHaveVaults == Spec => []BoostsHaveVaults
<1>1. IInv => BoostsHaveVaults
  BY DEF IInv
<1> QED
  BY <1>1, IInvInit, IInvNext, PTL DEF Spec

(***************************************************************************)
(* Nor does it make a product of the database that lacks a price feed: an  *)
(* item whose feeds failed never reaches the table of the products.        *)
(***************************************************************************)
THEOREM CatalogueProductsHaveFeeds == Spec => []ProductsHaveFeeds
<1>1. IInv => ProductsHaveFeeds
  BY DEF IInv
<1> QED
  BY <1>1, IInvInit, IInvNext, PTL DEF Spec
-----------------------------------------------------------------------------
(***************************************************************************)
(* The end of life of a product.  The fold over the versions of a file     *)
(* gives, after each of them, the date of the first of those read so far   *)
(* from which on all of them close the product or no longer list it.       *)
(***************************************************************************)
Dates == Nat \ {0}

Starts(q, versions, k) ==
    {j \in 1 .. k : /\ \A i \in j .. k : ~Open(versions[i], q)
                    /\ \E i \in 1 .. j : Lists(versions[i], q)}

IsDated(acc, versions, k) ==
    /\ DOMAIN acc = {q \in Products : \E i \in 1 .. k : Lists(versions[i], q)}
    /\ \A q \in DOMAIN acc :
          /\ Starts(q, versions, k) = {} => acc[q] = 0
          /\ \A j \in Starts(q, versions, k) :
                (\A i \in Starts(q, versions, k) : j <= i) => acc[q] = versions[j].date

LEMMA StartsStep ==
    ASSUME NEW q, NEW versions, NEW k \in Nat, ~Open(versions[k + 1], q),
           \E i \in 1 .. k + 1 : Lists(versions[i], q)
    PROVE  Starts(q, versions, k + 1) = Starts(q, versions, k) \cup {k + 1}
<1>1. ASSUME NEW j \in 1 .. k
      PROVE  j \in Starts(q, versions, k + 1) <=> j \in Starts(q, versions, k)
  <2>1. \A i \in j .. k + 1 : i \in j .. k \/ i = k + 1
    OBVIOUS
  <2>2. j .. k \subseteq j .. k + 1 /\ j \in 1 .. k + 1
    OBVIOUS
  <2> QED
    BY <2>1, <2>2 DEF Starts
<1>2. k + 1 \in Starts(q, versions, k + 1)
  <2>1. \A i \in k + 1 .. k + 1 : i = k + 1
    OBVIOUS
  <2>2. k + 1 \in 1 .. k + 1
    OBVIOUS
  <2> QED
    BY <2>1, <2>2 DEF Starts
<1>3. /\ Starts(q, versions, k + 1) \subseteq 1 .. k + 1
      /\ Starts(q, versions, k) \subseteq 1 .. k
  BY DEF Starts
<1>4. \A j \in 1 .. k + 1 : j \in 1 .. k \/ j = k + 1
  OBVIOUS
<1> QED
  BY <1>1, <1>2, <1>3, <1>4

LEMMA DatedStep ==
    ASSUME NEW versions, NEW k \in Nat, NEW acc, IsDated(acc, versions, k),
           \A i \in 1 .. k + 1 : versions[i].date \in Dates
    PROVE  IsDated(ApplyVersion(acc, versions[k + 1]), versions, k + 1)
<1> DEFINE v == versions[k + 1]
           next == ApplyVersion(acc, v)
           Before(q) == IF q \in DOMAIN acc THEN acc[q] ELSE 0
<1>0. \A i \in 1 .. k + 1 : i \in 1 .. k \/ i = k + 1
  OBVIOUS
<1>a. 1 .. k \subseteq 1 .. k + 1 /\ k + 1 \in 1 .. k + 1
  OBVIOUS
<1>1. DOMAIN next = DOMAIN acc \cup {r \in Products : Lists(v, r)}
  BY DEF ApplyVersion
<1>2. DOMAIN next = {q \in Products : \E i \in 1 .. k + 1 : Lists(versions[i], q)}
  BY <1>0, <1>a, <1>1 DEF IsDated
<1>3. \A q \in DOMAIN next :
         next[q] = IF Open(v, q) THEN 0 ELSE IF Before(q) # 0 THEN Before(q) ELSE v.date
  BY DEF ApplyVersion
<1> HIDE DEF next
<1>4. ASSUME NEW q \in DOMAIN next
      PROVE  /\ Starts(q, versions, k + 1) = {} => next[q] = 0
             /\ \A j \in Starts(q, versions, k + 1) :
                   (\A i \in Starts(q, versions, k + 1) : j <= i)
                      => next[q] = versions[j].date
  <2>1. CASE Open(v, q)
    <3>1. next[q] = 0
      BY <1>3, <2>1
    <3>2. \A j \in 1 .. k + 1 : k + 1 \in j .. k + 1
      OBVIOUS
    <3>3. Starts(q, versions, k + 1) = {}
      BY <2>1, <3>2 DEF Starts
    <3> QED
      BY <3>1, <3>3
  <2>2. CASE ~Open(v, q)
    <3>1. Starts(q, versions, k + 1) = Starts(q, versions, k) \cup {k + 1}
      BY <1>2, <2>2, StartsStep
    <3>2. Starts(q, versions, k) \subseteq 1 .. k
      BY DEF Starts
    <3>3. CASE Starts(q, versions, k) = {}
      <4>1. Before(q) = 0
        BY <3>3 DEF IsDated
      <4>2. next[q] = v.date
        BY <1>3, <2>2, <4>1
      <4> QED
        BY <3>1, <3>3, <4>2
    <3>4. CASE Starts(q, versions, k) # {}
      <4>1. PICK m \in Starts(q, versions, k) : \A i \in Starts(q, versions, k) : m <= i
        <5>1. Starts(q, versions, k) \in SUBSET Nat
          BY <3>2
        <5> QED
          BY <3>4, <5>1, LeastElement
      <4>2. m \in 1 .. k /\ \E i \in 1 .. m : Lists(versions[i], q)
        BY DEF Starts
      <4>3. q \in DOMAIN acc
        <5>1. 1 .. m \subseteq 1 .. k
          BY <4>2
        <5>2. q \in Products
          BY <1>2
        <5> QED
          BY <4>2, <5>1, <5>2 DEF IsDated
      <4>4. acc[q] = versions[m].date /\ acc[q] # 0
        <5>1. acc[q] = versions[m].date
          BY <4>1, <4>3 DEF IsDated
        <5>2. m \in 1 .. k + 1
          BY <4>2
        <5>3. versions[m].date # 0
          BY <5>2 DEF Dates
        <5> QED
          BY <5>1, <5>3
      <4>5. next[q] = versions[m].date
        BY <1>3, <2>2, <4>3, <4>4
      <4>6. ASSUME NEW j \in Starts(q, versions, k + 1),
                   \A i \in Starts(q, versions, k + 1) : j <= i
            PROVE  j = m
        <5>1. j <= m /\ m \in 1 .. k
          BY <3>1, <4>2, <4>6
        <5>2. j \in Starts(q, versions, k)
          BY <3>1, <5>1
        <5>3. m <= j /\ j \in 1 .. k
          BY <3>2, <4>1, <5>2
        <5> QED
          BY <5>1, <5>3
      <4> QED
        BY <3>1, <4>5, <4>6
    <3> QED
      BY <3>3, <3>4
  <2> QED
    BY <2>1, <2>2
<1> QED
  BY <1>2, <1>4 DEF IsDated, next

(* The fold, as a function on the sets of versions. *)
Accumulates(it, versions) ==
    it = [s \in SUBSET DOMAIN versions |->
            IF s = {} THEN NoItems
            ELSE ApplyVersion(it[s \ {Max(s)}], versions[Max(s)])]

LEMMA AccumulationExists ==
    ASSUME NEW n \in Nat, NEW versions, DOMAIN versions = 1 .. n,
           \A i \in 1 .. n : versions[i].date \in Dates
    PROVE  \E it : Accumulates(it, versions)
<1> DEFINE V == UNION {[listed -> Nat] : listed \in SUBSET Products}
           step == [p \in V \X (1 .. n) |-> ApplyVersion(p[1], versions[p[2]])]
<1>1. NoItems \in V
  <2>1. NoItems \in [{} -> Nat]
    BY DEF NoItems
  <2> QED
    BY <2>1
<1>2. ASSUME NEW acc \in V, NEW i \in 1 .. n
      PROVE  ApplyVersion(acc, versions[i]) \in V
  <2> DEFINE v == versions[i]
             D == DOMAIN acc \cup {r \in Products : Lists(v, r)}
             Since(q) == LET before == IF q \in DOMAIN acc THEN acc[q] ELSE 0
                         IN  IF Open(v, q) THEN 0
                             ELSE IF before # 0 THEN before ELSE v.date
  <2>1. PICK listed \in SUBSET Products : acc \in [listed -> Nat]
    OBVIOUS
  <2>2. v.date \in Nat
    BY DEF Dates
  <2>3. D \in SUBSET Products
    BY <2>1
  <2>4. \A q \in D : Since(q) \in Nat
    BY <2>1, <2>2
  <2>5. ApplyVersion(acc, v) = [q \in D |-> Since(q)]
    BY DEF ApplyVersion
  <2> HIDE DEF D, Since, v
  <2>6. [q \in D |-> Since(q)] \in [D -> Nat]
    BY <2>4
  <2> QED
    BY <2>3, <2>5, <2>6 DEF v
<1>3. step \in [V \X (1 .. n) -> V]
  <2>1. \A p \in V \X (1 .. n) : ApplyVersion(p[1], versions[p[2]]) \in V
    BY <1>2
  <2> HIDE DEF V
  <2> QED
    BY <2>1
<1>4. \A acc \in V, i \in 1 .. n : step[<<acc, i>>] = ApplyVersion(acc, versions[i])
  OBVIOUS
<1> HIDE DEF V, step
<1>5. PICK it \in [SUBSET (1 .. n) -> V] : FoldSolution(step, NoItems, it, n)
  BY <1>1, <1>3, FoldSolutionExists
<1>6. ASSUME NEW s \in SUBSET (1 .. n), s # {}
      PROVE  it[s] = ApplyVersion(it[s \ {Max(s)}], versions[Max(s)])
  <2>1. it[s] = step[<<it[s \ {Max(s)}], Max(s)>>]
    BY <1>5, <1>6 DEF FoldSolution
  <2>2. Max(s) \in 1 .. n
    <3>1. IsFiniteSet(s) /\ s \in SUBSET Int
      <4>1. IsFiniteSet(1 .. n) /\ 1 .. n \subseteq Int
        BY FS_Interval
      <4> QED
        BY <4>1, FS_Subset
    <3> QED
      BY <1>6, <3>1, MaxIsElement
  <2>3. it[s \ {Max(s)}] \in V
    BY <1>5
  <2> QED
    BY <1>4, <2>1, <2>2, <2>3
<1>7. it[{}] = NoItems
  BY <1>5 DEF FoldSolution
<1>8. Accumulates(it, versions)
  BY <1>6, <1>7 DEF Accumulates
<1> QED
  BY <1>8

LEMMA ItemsAreDated ==
    ASSUME NEW n \in Nat, NEW versions, DOMAIN versions = 1 .. n,
           \A i \in 1 .. n : versions[i].date \in Dates
    PROVE  IsDated(ItemsOf(versions), versions, n)
<1> DEFINE it == CHOOSE sol : Accumulates(sol, versions)
<1>1. Accumulates(it, versions)
  BY AccumulationExists
<1>2. ItemsOf(versions) = it[1 .. n]
  BY DEF ItemsOf, FoldLeft, MapThenFoldSet, Accumulates
<1> HIDE DEF it
<1> DEFINE P == {k \in Nat : k <= n => IsDated(it[1 .. k], versions, k)}
<1>3. 0 \in P
  <2>1. 1 .. 0 = {} /\ it[{}] = NoItems
    BY <1>1 DEF Accumulates
  <2>2. DOMAIN NoItems = {}
    BY DEF NoItems
  <2> QED
    BY <2>1, <2>2 DEF IsDated
<1>4. ASSUME NEW k \in Nat, k \in P
      PROVE  k + 1 \in P
  <2> SUFFICES ASSUME k + 1 <= n PROVE IsDated(it[1 .. k + 1], versions, k + 1)
    OBVIOUS
  <2> DEFINE s == 1 .. k + 1
  <2>1. s \in SUBSET (1 .. n) /\ s # {} /\ s \ {k + 1} = 1 .. k
    <3>1. s \in SUBSET (1 .. n)
      OBVIOUS
    <3>2. k + 1 \in s
      OBVIOUS
    <3>3. s \ {k + 1} = 1 .. k
      OBVIOUS
    <3> QED
      BY <3>1, <3>2, <3>3
  <2>2. Max(s) = k + 1
    BY MaxOfInterval
  <2> HIDE DEF s
  <2>3. it[s] = ApplyVersion(it[1 .. k], versions[k + 1])
    BY <1>1, <2>1, <2>2 DEF Accumulates
  <2>4. IsDated(it[1 .. k], versions, k)
    BY <1>4
  <2>5. \A i \in 1 .. k + 1 : versions[i].date \in Dates
    OBVIOUS
  <2> QED
    BY <2>3, <2>4, <2>5, DatedStep DEF s
<1> HIDE DEF P
<1>5. n \in P
  BY <1>3, <1>4, NumberInduction
<1> QED
  BY <1>2, <1>5 DEF P

(* The dates of a file without a version that has none are those of EolDate. *)
LEMMA ItemsAreEolDates ==
    ASSUME NEW file \in Files, NEW versions \in Seq(Versions(file, Dates))
    PROVE  /\ DOMAIN ItemsOf(versions) \subseteq ProductsOf(file)
           /\ \A q \in DOMAIN ItemsOf(versions) :
                 ItemsOf(versions)[q] = EolDate(q, versions)
<1> DEFINE n == Len(versions)
           items == ItemsOf(versions)
<1>1. /\ n \in Nat /\ DOMAIN versions = 1 .. n
      /\ \A i \in 1 .. n : versions[i] \in Versions(file, Dates)
  OBVIOUS
<1>2. \A i \in 1 .. n : /\ versions[i].date \in Dates
                        /\ DOMAIN versions[i].content \subseteq ProductsOf(file)
  BY <1>1 DEF Versions, Contents
<1>3. IsDated(items, versions, n)
  BY <1>1, <1>2, ItemsAreDated
<1> HIDE DEF items
<1>4. DOMAIN items \subseteq ProductsOf(file)
  BY <1>2, <1>3 DEF IsDated, Lists
<1>5. ASSUME NEW q \in DOMAIN items
      PROVE  items[q] = EolDate(q, versions)
  <2> DEFINE starts == {k \in 1 .. Len(versions) :
                          /\ ClosedAllAlong(q, versions, k)
                          /\ \E i \in 1 .. k : Lists(versions[i], q)}
  <2>1. starts = Starts(q, versions, n)
    BY DEF Starts, ClosedAllAlong
  <2>2. EolDate(q, versions) = IF starts = {} THEN 0 ELSE versions[Min(starts)].date
    BY DEF EolDate
  <2>3. starts \in SUBSET Nat
    OBVIOUS
  <2> HIDE DEF starts
  <2>4. CASE starts = {}
    BY <1>3, <2>1, <2>2, <2>4 DEF IsDated
  <2>5. CASE starts # {}
    <3>1. \E m \in starts : \A i \in starts : m <= i
      BY <2>3, <2>5, LeastElement
    <3>2. Min(starts) \in starts /\ \A i \in starts : Min(starts) <= i
      BY <3>1 DEF Min
    <3> QED
      BY <1>3, <2>1, <2>2, <2>5, <3>2 DEF IsDated
  <2> QED
    BY <2>4, <2>5
<1> QED
  BY <1>4, <1>5 DEF items
-----------------------------------------------------------------------------
(* The versions read. *)

LEMMA SequenceOf ==
    ASSUME NEW S, NEW n \in Nat, NEW s, s = [i \in 1 .. n |-> s[i]],
           \A i \in 1 .. n : s[i] \in S
    PROVE  s \in Seq(S)
<1>1. s \in [1 .. n -> S]
  OBVIOUS
<1> QED
  BY <1>1, SeqDef

LEMMA SortedOf ==
    ASSUME NEW S, IsFiniteSet(S), NEW order, Orders(order, S)
    PROVE  Cardinality(S) \in Nat /\ Sorted(S, order) \in [1 .. Cardinality(S) -> S]
<1>1. \E s \in [1 .. Cardinality(S) -> S] :
         \A i, j \in 1 .. Cardinality(S) : i < j => <<s[i], s[j]>> \in order
  BY SortingExists DEF InOrder
<1> QED
  BY <1>1, FS_CardinalityType DEF Sorted

LEMMA V1Typed ==
    ASSUME NEW file \in Files, NEW positions \in SUBSET Reading(file, {}).v1
    PROVE  V1VersionsAt(positions) \in Seq(Versions(file, Dates))
<1> DEFINE order == {o \in positions \X positions : o[1] < o[2]}
           sorted == Sorted(positions, order)
           n == Cardinality(positions)
           S == Versions(file, Dates)
           s == V1VersionsAt(positions)
<1>1. DOMAIN V1Log = 1 .. Len(V1Log) /\ Len(V1Log) \in Nat
  OBVIOUS
<1>2. /\ positions \in SUBSET (1 .. Len(V1Log))
      /\ file # "vaults" => positions = {}
  BY <1>1 DEF Reading, V1Positions
<1>3. IsFiniteSet(positions)
  <2>1. IsFiniteSet(1 .. Len(V1Log))
    BY <1>1, FS_Interval
  <2> QED
    BY <1>2, <2>1, FS_Subset
<1>4. s = [k \in 1 .. n |-> V1Log[sorted[k]]]
  BY DEF V1VersionsAt
<1>5. Orders(order, positions)
  BY <1>2 DEF Orders
<1> HIDE DEF order
<1>6. n \in Nat /\ sorted \in [1 .. n -> positions]
  BY <1>3, <1>5, SortedOf
<1> HIDE DEF n, sorted, s
<1>7. \A i \in positions : V1Log[i] \in S
  <2> SUFFICES ASSUME NEW i \in positions PROVE V1Log[i] \in S
    OBVIOUS
  <2>1. V1Log[i] \in Versions("vaults", 1 .. MaxNow) /\ file = "vaults"
    BY <1>2
  <2>2. Versions("vaults", 1 .. MaxNow) \subseteq Versions("vaults", Dates)
    BY DEF Versions, Dates
  <2> QED
    BY <2>1, <2>2
<1>8. \A k \in 1 .. n : s[k] \in S
  BY <1>4, <1>6, <1>7
<1> HIDE DEF S
<1>9. s \in Seq(S)
  BY <1>4, <1>6, <1>8, SequenceOf
<1> QED
  BY <1>9 DEF s, S

LEMMA CommitFields ==
    ASSUME NEW dates, NEW c \in Commits(dates)
    PROVE  c.file \in Files /\ c.version \in Versions(c.file, dates)
BY DEF Commits

LEMMA ByDateOrders ==
    ASSUME TypeOK, NEW positions \in SUBSET (1 .. Len(commits))
    PROVE  /\ IsFiniteSet(positions)
           /\ Orders(ByDate(positions), positions)
<1>1. Len(commits) \in Nat
  BY DEF TypeOK
<1>2. IsFiniteSet(positions)
  <2>1. IsFiniteSet(1 .. Len(commits))
    BY <1>1, FS_Interval
  <2> QED
    BY <2>1, FS_Subset
<1>3. \A i \in positions : commits[i].version.date \in Int
  <2> SUFFICES ASSUME NEW i \in positions PROVE commits[i].version.date \in Int
    OBVIOUS
  <2>1. commits[i] \in Commits(1 .. now)
    BY DEF TypeOK
  <2>2. commits[i].version \in Versions(commits[i].file, 1 .. now)
    BY <2>1, CommitFields
  <2> QED
    BY <2>2 DEF Versions
<1>4. positions \subseteq Int
  BY <1>1
<1> DEFINE date == [i \in positions |-> commits[i].version.date]
<1>5. date \in [positions -> Int]
  BY <1>3
<1>6. ByDate(positions) =
        {o \in positions \X positions :
            date[o[1]] < date[o[2]] \/ (date[o[1]] = date[o[2]] /\ o[1] > o[2])}
  BY DEF ByDate
<1> HIDE DEF date
<1>7. \A x, y \in positions :
         <<x, y>> \in ByDate(positions) <=>
            date[x] < date[y] \/ (date[x] = date[y] /\ x > y)
  BY <1>6
<1>8. Orders(ByDate(positions), positions)
  <2>1. \A x \in positions : x \in Int /\ date[x] \in Int
    BY <1>4, <1>5
  <2>2. ASSUME NEW x \in positions, NEW y \in positions, x # y
        PROVE  <<x, y>> \in ByDate(positions) \/ <<y, x>> \in ByDate(positions)
    BY <1>7, <2>1, <2>2
  <2>3. ASSUME NEW x \in positions, NEW y \in positions, NEW z \in positions,
               <<x, y>> \in ByDate(positions), <<y, z>> \in ByDate(positions)
        PROVE  <<x, z>> \in ByDate(positions)
    <3>1. /\ date[x] < date[y] \/ (date[x] = date[y] /\ x > y)
          /\ date[y] < date[z] \/ (date[y] = date[z] /\ y > z)
      BY <1>7, <2>3
    <3>2. /\ x \in Int /\ y \in Int /\ z \in Int
          /\ date[x] \in Int /\ date[y] \in Int /\ date[z] \in Int
      BY <2>1
    <3>3. date[x] < date[z] \/ (date[x] = date[z] /\ x > z)
      BY <3>1, <3>2
    <3> QED
      BY <1>7, <3>3
  <2> QED
    BY <2>2, <2>3 DEF Orders
<1> QED
  BY <1>2, <1>8

LEMMA VersionsAtTyped ==
    ASSUME TypeOK, NEW file \in Files, NEW positions \in SUBSET InHistory(file)
    PROVE  VersionsAt(positions) \in Seq(Versions(file, Dates))
<1> DEFINE n == Cardinality(positions)
           sorted == SortedByDate(positions)
<1>1. positions \in SUBSET (1 .. Len(commits))
  BY DEF InHistory
<1>2. n \in Nat /\ sorted \in [1 .. n -> positions]
  BY <1>1, ByDateOrders, SortedOf DEF SortedByDate
<1>3. VersionsAt(positions) = [k \in 1 .. n |-> commits[sorted[k]].version]
  BY DEF VersionsAt
<1> HIDE DEF n, sorted
<1>4. \A i \in positions : commits[i].version \in Versions(file, Dates)
  <2> SUFFICES ASSUME NEW i \in positions PROVE commits[i].version \in Versions(file, Dates)
    OBVIOUS
  <2>1. commits[i] \in Commits(1 .. now) /\ commits[i].file = file
    BY <1>1 DEF TypeOK, InHistory
  <2>2. commits[i].version \in Versions(file, 1 .. now)
    BY <2>1, CommitFields
  <2>3. Versions(file, 1 .. now) \subseteq Versions(file, Dates)
    BY DEF Versions, Dates
  <2> QED
    BY <2>2, <2>3
<1> DEFINE s == VersionsAt(positions)
           S == Versions(file, Dates)
<1>5. s = [k \in 1 .. n |-> s[k]] /\ \A k \in 1 .. n : s[k] \in S
  BY <1>2, <1>3, <1>4
<1> HIDE DEF s, S
<1>6. s \in Seq(S)
  BY <1>2, <1>5, SequenceOf
<1> QED
  BY <1>6 DEF s, S

LEMMA VersionsReadTyped ==
    ASSUME TypeOK, NEW file \in Files, NEW read, IsReading(file, read)
    PROVE  VersionsRead(read) \in Seq(Versions(file, Dates))
<1>1. read.v1 \in SUBSET Reading(file, {}).v1 /\ read.v2 \in SUBSET InHistory(file)
  BY DEF IsReading
<1>2. /\ V1VersionsAt(read.v1) \in Seq(Versions(file, Dates))
      /\ VersionsAt(read.v2) \in Seq(Versions(file, Dates))
  BY <1>1, V1Typed, VersionsAtTyped
<1> QED
  BY <1>2, ConcatProperties DEF VersionsRead

(* Later commits do not change what was read. *)
LEMMA VersionsStay ==
    ASSUME TypeOK, NEW read, read.v2 \in SUBSET (1 .. Len(commits)),
           \A i \in read.v2 : commits'[i] = commits[i]
    PROVE  VersionsRead(read)' = VersionsRead(read)
<1> DEFINE positions == read.v2
           n == Cardinality(positions)
           sorted == SortedByDate(positions)
<1>1. ByDate(positions)' = ByDate(positions)
  BY DEF ByDate
<1>2. sorted' = sorted
  BY <1>1 DEF SortedByDate, Sorted
<1>3. n \in Nat /\ sorted \in [1 .. n -> positions]
  BY ByDateOrders, SortedOf DEF SortedByDate
<1>4. VersionsAt(positions)' = VersionsAt(positions)
  <2>1. VersionsAt(positions) = [k \in 1 .. n |-> commits[sorted[k]].version]
    BY DEF VersionsAt
  <2>2. VersionsAt(positions)' = [k \in 1 .. n |-> commits'[sorted'[k]].version]
    BY DEF VersionsAt
  <2> HIDE DEF n, sorted
  <2> QED
    BY <1>2, <1>3, <2>1, <2>2
<1> QED
  BY <1>4 DEF VersionsRead, V1VersionsAt, Sorted
-----------------------------------------------------------------------------
(***************************************************************************)
(* What is in the pipeline or in the table of products was read from       *)
(* versions that are in the history, and is closed since the date they     *)
(* say: commits are only added, and a step either reads anew or copies.    *)
(***************************************************************************)
ClosedRight(q, closed, read) ==
    /\ IsReading(FileOf(q), read)
    /\ closed = EolDate(q, VersionsRead(read))

RowRight(q, row) ==
    \A closed, read :
        row.closed = closed /\ row.read = read => ClosedRight(q, closed, read)

RowsRight ==
    /\ \A p \in Importers : \A q \in DOMAIN stream[p] : RowRight(q, stream[p][q])
    /\ \A q \in Products : products[q] # NoProduct => RowRight(q, products[q])

EolInv == IInv /\ TypeOK /\ now >= 2 /\ RowsRight /\ IsFunctionOn(log, Importers)

LEMMA EolInit == Init => EolInv
<1> SUFFICES ASSUME Init PROVE EolInv
  OBVIOUS
<1>1. IInv
  BY IInvInit
<1>2. History \in Seq(Commits(2 .. MaxNow)) /\ Len(History) \in Nat \ {0}
  OBVIOUS
<1>3. \A i \in 1 .. Len(History) : History[i].version.date \in 2 .. MaxNow
  <2> SUFFICES ASSUME NEW i \in 1 .. Len(History)
               PROVE  History[i].version.date \in 2 .. MaxNow
    OBVIOUS
  <2>1. History[i] \in Commits(2 .. MaxNow)
    BY <1>2
  <2>2. History[i].version \in Versions(History[i].file, 2 .. MaxNow)
    BY <2>1, CommitFields
  <2> QED
    BY <2>2 DEF Versions
<1> DEFINE n == Len(History)
           dates == {c.version.date : c \in ToSet(History)}
           date == [i \in 1 .. n |-> History[i].version.date]
<1>4. dates = {date[i] : i \in 1 .. n}
  BY <1>2 DEF ToSet
<1>5. date \in [1 .. n -> 2 .. MaxNow] /\ date \in [1 .. n -> Int]
  BY <1>3
<1>6. \A i \in 1 .. n : date[i] = History[i].version.date
  OBVIOUS
<1> HIDE DEF dates, date
<1>7. PICK last \in 1 .. n : \A i \in 1 .. n : date[i] <= date[last]
  <2>1. IsFiniteSet(1 .. n)
    BY <1>2, FS_Interval
  <2>2. 1 \in 1 .. n
    BY <1>2
  <2> QED
    BY <1>5, <2>1, <2>2, GreatestValue
<1>8. date[last] \in dates /\ \A d \in dates : date[last] >= d
  BY <1>4, <1>5, <1>7
<1>9. Max(dates) \in dates /\ \A d \in dates : Max(dates) >= d
  BY <1>8 DEF Max
<1>10. now \in 2 .. MaxNow /\ \A i \in 1 .. n : date[i] \in 2 .. now
  <2>1. now = Max(dates)
    BY DEF Init, dates
  <2>2. \A d \in dates : d \in 2 .. MaxNow
    BY <1>4, <1>5
  <2>3. \A i \in 1 .. n : date[i] \in dates
    BY <1>4
  <2> QED
    BY <1>9, <2>1, <2>2, <2>3
<1>11. commits \in Seq(Commits(1 .. now))
  <2>1. \A i \in 1 .. n : History[i] \in Commits(1 .. now)
    <3> SUFFICES ASSUME NEW i \in 1 .. n PROVE History[i] \in Commits(1 .. now)
      OBVIOUS
    <3>1. History[i] \in Commits(2 .. MaxNow) /\ History[i].version.date \in 1 .. now
      BY <1>2, <1>6, <1>10
    <3> QED
      BY <3>1 DEF Commits, Versions
  <2> DEFINE C == Commits(1 .. now)
  <2>2. \A i \in 1 .. n : History[i] \in C
    BY <2>1
  <2>3. History = [i \in 1 .. n |-> History[i]]
    BY <1>2
  <2> HIDE DEF C
  <2>4. History \in Seq(C)
    BY <1>2, <2>2, <2>3, SequenceOf
  <2> QED
    BY <2>4 DEF Init, C
<1>12. TypeOK
  <2>1. \A p \in Importers : DOMAIN stream[p] = {} /\ DOMAIN vaultItems[p] = {}
    BY DEF Init, NoItems
  <2>2. clone \in [state : {"none", "unusable", "ok"}, head : 0 .. Len(commits)]
    BY <1>2 DEF Init
  <2>3. \A p \in Importers : pc[p][2] # "read" /\ log[p] = Nothing
    BY DEF Init, StartOfRun
  <2> QED
    BY <1>1, <1>10, <1>11, <2>1, <2>2, <2>3 DEF Init, TypeOK, IInv, Shapes
<1>13. RowsRight
  <2>1. \A p \in Importers : DOMAIN stream[p] = {}
    BY DEF Init, NoItems
  <2>2. \A q \in Products : products[q] = NoProduct
    BY DEF Init
  <2> QED
    BY <2>1, <2>2 DEF RowsRight
<1>14. IsFunctionOn(log, Importers)
  BY DEF Init, IsFunctionOn
<1> QED
  BY <1>1, <1>10, <1>12, <1>13, <1>14 DEF EolInv

(***************************************************************************)
(* Where the items of a step come from.                                    *)
(***************************************************************************)
Copied(f, g) == \A q \in DOMAIN f : q \in DOMAIN g /\ f[q] = g[q]

ReadAnew(f) ==
    \E file \in Files : \E read :
        /\ IsReading(file, read)
        /\ \A q \in DOMAIN f :
              /\ q \in DOMAIN ItemsOf(VersionsRead(read))
              /\ f[q] = [closed |-> ItemsOf(VersionsRead(read))[q], read |-> read]

Sources(p) ==
    /\ Copied(stream'[p], stream[p]) \/ ReadAnew(stream'[p])
    /\ Copied(vaultItems'[p], vaultItems[p]) \/ Copied(vaultItems'[p], stream[p])

LEMMA NothingCopied == \A f : Copied(NoItems, f)
BY DEF Copied, NoItems

LEMMA EndSources ==
    ASSUME IInv, NEW p \in Importers, End(p)
    PROVE  \A o \in Importers : Sources(o)
<1>1. stream'[p] = NoItems /\ vaultItems'[p] = NoItems
  BY DEF End, IInv, Shapes, IsFunctionOn
<1>2. \A o \in Importers \ {p} : stream'[o] = stream[o] /\ vaultItems'[o] = vaultItems[o]
  BY DEF End, IInv, Shapes, IsFunctionOn
<1> QED
  BY <1>1, <1>2, NothingCopied DEF Sources, Copied

LEMMA SameSources ==
    ASSUME UNCHANGED <<stream, vaultItems>>
    PROVE  \A o \in Importers : Sources(o)
BY DEF Sources, Copied

LEMMA ReadSources ==
    ASSUME IInv, TypeOK, NEW p \in Importers, NEW file \in Files, Read(p, file)
    PROVE  \A o \in Importers : Sources(o)
<1>1. CASE End(p)
  BY <1>1, EndSources
<1>2. CASE ~End(p)
  <2> DEFINE read == log[p]
             since == ItemsOf(VersionsRead(read))
             items == [q \in DOMAIN since |-> [closed |-> since[q], read |-> read]]
             kept == ItemsToUpsert(p, file, items)
  <2>1. stream' = [stream EXCEPT ![p] = kept] /\ UNCHANGED vaultItems
    BY <1>2 DEF Read
  <2>2. \A q \in DOMAIN kept : q \in DOMAIN items /\ kept[q] = items[q]
    <3> HIDE DEF items
    <3> QED
      BY DEF ItemsToUpsert
  <2>3. \A q \in DOMAIN items : q \in DOMAIN since
                                /\ items[q] = [closed |-> since[q], read |-> read]
    OBVIOUS
  <2>4. stream'[p] = kept
    BY <2>1 DEF IInv, Shapes, IsFunctionOn
  <2>5. ReadAnew(stream'[p])
    <3>1. IsReading(file, read)
      <4>1. pc[p] = <<file, "read">>
        BY DEF Read
      <4>2. pc[p][1] = file /\ pc[p][2] = "read"
        BY <4>1
      <4> QED
        BY <4>2 DEF TypeOK
    <3> HIDE DEF items, kept
    <3>2. \A q \in DOMAIN kept : /\ q \in DOMAIN since
                                 /\ kept[q] = [closed |-> since[q], read |-> read]
      BY <2>2, <2>3
    <3> QED
      BY <2>4, <3>1, <3>2 DEF ReadAnew
  <2>6. \A o \in Importers \ {p} : stream'[o] = stream[o]
    BY <2>1 DEF IInv, Shapes, IsFunctionOn
  <2> QED
    BY <2>1, <2>5, <2>6 DEF Sources, Copied
<1> QED
  BY <1>1, <1>2

LEMMA IgnoreSources ==
    ASSUME IInv, NEW p \in Importers, NEW file \in Files, IgnoreAddresses(p, file)
    PROVE  \A o \in Importers : Sources(o)
<1>1. CASE End(p)
  BY <1>1, EndSources
<1>2. CASE ~End(p)
  <2>1. /\ vaultItems' = [vaultItems EXCEPT ![p] = stream[p]]
        /\ stream' = [stream EXCEPT ![p] = NoItems]
    BY <1>2 DEF IgnoreAddresses
  <2>2. vaultItems'[p] = stream[p] /\ stream'[p] = NoItems
    BY <2>1 DEF IInv, Shapes, IsFunctionOn
  <2>3. \A o \in Importers \ {p} : stream'[o] = stream[o] /\ vaultItems'[o] = vaultItems[o]
    BY <2>1 DEF IInv, Shapes, IsFunctionOn
  <2> QED
    BY <2>2, <2>3, NothingCopied DEF Sources, Copied
<1> QED
  BY <1>1, <1>2

LEMMA DropSources ==
    ASSUME IInv, NEW p \in Importers, NEW lost, DropBatch(p, lost), UNCHANGED vaultItems
    PROVE  \A o \in Importers : Sources(o)
<1>1. stream' = [stream EXCEPT ![p] = [q \in DOMAIN @ \ lost |-> @[q]]]
  BY DEF DropBatch
<1>2. /\ stream'[p] = [q \in DOMAIN stream[p] \ lost |-> stream[p][q]]
      /\ \A o \in Importers \ {p} : stream'[o] = stream[o]
  BY <1>1 DEF IInv, Shapes, IsFunctionOn
<1>3. Copied(stream'[p], stream[p])
  BY <1>2 DEF Copied
<1> QED
  BY <1>2, <1>3 DEF Sources, Copied

LEMMA SourcesNext ==
    ASSUME IInv, TypeOK, [Next]_vars
    PROVE  \A o \in Importers : Sources(o)
<1>1. ASSUME NEW p \in Importers, Step(p)
      PROVE  \A o \in Importers : Sources(o)
  <2>1. PICK file \in Files :
          \/ Clone(p, file) \/ Pull(p, file) \/ Log(p, file) \/ Read(p, file)
          \/ UpsertFeeds(p, file) \/ UpsertProducts(p, file) \/ IgnoreAddresses(p, file)
    BY <1>1 DEF Step
  <2>2. CASE \/ Clone(p, file) \/ Pull(p, file) \/ Log(p, file)
             \/ UpsertFeeds(p, file) \/ UpsertProducts(p, file)
    BY <2>2, SameSources DEF Clone, Pull, Log, UpsertFeeds, UpsertProducts
  <2> QED
    BY <2>1, <2>2, ReadSources, IgnoreSources
<1>2. ASSUME NEW p \in Importers, Fault(p)
      PROVE  \A o \in Importers : Sources(o)
  <2>1. CASE UpsertFails(p)
    BY <2>1, DropSources DEF UpsertFails
  <2>2. CASE Crash(p) \/ OtherChainFails(p) \/ GitFails(p)
    BY <2>2, EndSources DEF Crash, OtherChainFails, GitFails
  <2>3. CASE ShowFails(p)
    BY <2>3, SameSources DEF ShowFails
  <2> QED
    BY <1>2, <2>1, <2>2, <2>3 DEF Fault
<1>3. CASE Tick \/ CommitFile \/ UNCHANGED vars
  BY <1>3, SameSources DEF Tick, CommitFile, vars
<1> QED
  BY <1>1, <1>2, <1>3 DEF Next

(* A row that is written has what the item of a task says. *)
WrittenFrom(q) ==
    \E p \in Importers : /\ q \in DOMAIN stream[p]
                         /\ products'[q].closed = stream[p][q].closed
                         /\ products'[q].read = stream[p][q].read

LEMMA WriteSources ==
    ASSUME NEW p \in Importers, NEW written \in SUBSET DOMAIN stream[p], Write(p, written),
           NEW q \in Products
    PROVE  products'[q] = products[q] \/ WrittenFrom(q)
<1>1. PICK vaultOf : products' = [r \in Products |->
             IF r \notin written THEN products[r]
             ELSE [closed |-> stream[p][r].closed,
                   dashboardEol |-> DashboardEol(stream[p][r].closed),
                   vault |-> {vaultOf[r]},
                   read |-> stream[p][r].read]]
  BY DEF Write
<1>2. CASE q \notin written
  BY <1>1, <1>2
<1>3. CASE q \in written
  <2>1. products'[q] = [closed |-> stream[p][q].closed,
                        dashboardEol |-> DashboardEol(stream[p][q].closed),
                        vault |-> {vaultOf[q]},
                        read |-> stream[p][q].read]
    BY <1>1, <1>3
  <2>2. products'[q].closed = stream[p][q].closed /\ products'[q].read = stream[p][q].read
    BY <2>1
  <2> QED
    BY <1>3, <2>2 DEF WrittenFrom
<1> QED
  BY <1>2, <1>3

LEMMA ProductsNext ==
    ASSUME IInv, [Next]_vars, NEW q \in Products
    PROVE  products'[q] = products[q] \/ WrittenFrom(q)
<1>1. ASSUME NEW p \in Importers, NEW file \in Files, UpsertProducts(p, file)
      PROVE  products'[q] = products[q] \/ WrittenFrom(q)
  BY <1>1, WriteSources DEF UpsertProducts
<1>2. ASSUME NEW p \in Importers, UpsertFails(p)
      PROVE  products'[q] = products[q] \/ WrittenFrom(q)
  <2>1. PICK lost \in SUBSET DOMAIN stream[p] :
          \/ UNCHANGED products
          \/ Write(p, {r \in lost : products[r] = NoProduct})
    BY <1>2 DEF UpsertFails
  <2>2. {r \in lost : products[r] = NoProduct} \in SUBSET DOMAIN stream[p]
    OBVIOUS
  <2> QED
    BY <2>1, <2>2, WriteSources
<1>3. \/ UNCHANGED products
      \/ \E p \in Importers : UpsertFails(p) \/ \E file \in Files : UpsertProducts(p, file)
  BY DEF Next, Tick, CommitFile, Step, Clone, Pull, Log, Read, UpsertFeeds, IgnoreAddresses,
         Fault, Crash, OtherChainFails, GitFails, ShowFails, tables, vars
<1> QED
  BY <1>1, <1>2, <1>3

(* The history only grows. *)
LEMMA HistoryGrows ==
    ASSUME TypeOK, now >= 2, [Next]_vars
    PROVE  /\ now' \in 0 .. MaxNow /\ now' >= now
           /\ commits' \in Seq(Commits(1 .. now'))
           /\ Len(commits) <= Len(commits')
           /\ \A i \in 1 .. Len(commits) : commits'[i] = commits[i]
           /\ \A file : InHistory(file) \subseteq InHistory(file)'
<1>0. now \in 0 .. MaxNow /\ commits \in Seq(Commits(1 .. now)) /\ Len(commits) \in Nat
  BY DEF TypeOK
<1>1. CASE UNCHANGED <<now, commits>>
  BY <1>0, <1>1 DEF InHistory
<1>2. CASE Tick
  <2>1. now' = now + 1 /\ now' \in 0 .. MaxNow /\ commits' = commits
    BY <1>0, <1>2 DEF Tick
  <2>2. Commits(1 .. now) \subseteq Commits(1 .. now')
    BY <1>0, <2>1 DEF Commits, Versions
  <2>3. commits' \in Seq(Commits(1 .. now'))
    BY <1>0, <2>1, <2>2, SeqMonotonic
  <2> QED
    BY <1>0, <2>1, <2>3 DEF InHistory
<1>3. CASE CommitFile
  <2>a. PICK file \in Files :
          \E content \in Edits[file], date \in {now - 1, now} :
             commits' = Append(commits, [file |-> file,
                                         version |-> [date |-> date, content |-> content]])
    BY <1>3 DEF CommitFile
  <2>1. PICK content \in Edits[file], date \in {now - 1, now} :
          commits' = Append(commits, [file |-> file,
                                      version |-> [date |-> date, content |-> content]])
    BY <2>a
  <2>2. now' = now
    BY <1>3 DEF CommitFile
  <2> DEFINE C == Commits(1 .. now)
             c == [file |-> file, version |-> [date |-> date, content |-> content]]
  <2>3. date \in 1 .. now
    BY <1>0
  <2>4. content \in Contents(file)
    OBVIOUS
  <2>5. c \in C
    BY <2>3, <2>4 DEF Commits, Versions
  <2>6. commits \in Seq(C) /\ commits' = Append(commits, c)
    BY <1>0, <2>1
  <2> HIDE DEF C, c
  <2>7. /\ commits' \in Seq(C) /\ Len(commits') = Len(commits) + 1
        /\ \A i \in 1 .. Len(commits) : commits'[i] = commits[i]
    BY <2>5, <2>6, AppendProperties
  <2>8. \A f : InHistory(f) \subseteq InHistory(f)'
    BY <1>0, <2>7 DEF InHistory
  <2> QED
    BY <1>0, <2>2, <2>7, <2>8 DEF C
<1>4. Tick \/ CommitFile \/ UNCHANGED <<now, commits>>
  <2>1. ASSUME NEW p \in Importers, NEW file \in Files,
               \/ Clone(p, file) \/ Pull(p, file) \/ Log(p, file) \/ Read(p, file)
               \/ UpsertFeeds(p, file) \/ UpsertProducts(p, file) \/ IgnoreAddresses(p, file)
        PROVE  UNCHANGED <<now, commits>>
    BY <2>1 DEF Clone, Pull, Log, Read, UpsertFeeds, UpsertProducts, IgnoreAddresses, git
  <2>2. ASSUME NEW p \in Importers, Fault(p) PROVE UNCHANGED <<now, commits>>
    BY <2>2 DEF Fault, Crash, OtherChainFails, GitFails, ShowFails, UpsertFails, git
  <2> QED
    BY <2>1, <2>2 DEF Next, Step, git, vars
<1> QED
  BY <1>1, <1>2, <1>3, <1>4

LEMMA ReadingStays ==
    ASSUME NEW file \in Files, NEW read, IsReading(file, read),
           InHistory(file) \subseteq InHistory(file)'
    PROVE  IsReading(file, read)'
<1>1. /\ read \in [v1 : SUBSET Reading(file, {}).v1, v2 : SUBSET InHistory(file)]
      /\ SUBSET InHistory(file) \subseteq SUBSET InHistory(file)'
  BY DEF IsReading
<1>2. read \in [v1 : SUBSET Reading(file, {}).v1, v2 : SUBSET InHistory(file)']
  BY <1>1
<1> QED
  BY <1>2 DEF IsReading, Reading, V1Positions

(* What was right stays right, and what is read anew is right. *)
LEMMA RightStays ==
    ASSUME EolInv, [Next]_vars, NEW q \in Products, NEW closed, NEW read,
           ClosedRight(q, closed, read)
    PROVE  ClosedRight(q, closed, read)'
<1> DEFINE file == FileOf(q)
<1>1. /\ TypeOK /\ InHistory(file) \subseteq InHistory(file)'
      /\ \A i \in 1 .. Len(commits) : commits'[i] = commits[i]
  BY HistoryGrows DEF EolInv
<1>2. IsReading(file, read) /\ read.v2 \in SUBSET (1 .. Len(commits))
  BY DEF ClosedRight, IsReading, InHistory
<1>3. IsReading(file, read)'
  BY <1>1, <1>2, ReadingStays DEF FileOf, Files
<1> HIDE DEF file
<1>4. VersionsRead(read)' = VersionsRead(read)
  BY <1>1, <1>2, VersionsStay
<1> QED
  BY <1>3, <1>4 DEF ClosedRight, file, FileOf

LEMMA ReadIsRight ==
    ASSUME EolInv, NEW f, ReadAnew(f)
    PROVE  DOMAIN f \subseteq Products /\ \A q \in DOMAIN f : RowRight(q, f[q])
<1>0. PICK file \in Files : \E read :
        /\ IsReading(file, read)
        /\ \A q \in DOMAIN f :
              /\ q \in DOMAIN ItemsOf(VersionsRead(read))
              /\ f[q] = [closed |-> ItemsOf(VersionsRead(read))[q], read |-> read]
  BY DEF ReadAnew
<1>1. PICK read :
        /\ IsReading(file, read)
        /\ \A q \in DOMAIN f :
              /\ q \in DOMAIN ItemsOf(VersionsRead(read))
              /\ f[q] = [closed |-> ItemsOf(VersionsRead(read))[q], read |-> read]
  BY <1>0
<1>2. TypeOK
  BY DEF EolInv
<1> DEFINE versions == VersionsRead(read)
<1>4. versions \in Seq(Versions(file, Dates))
  BY <1>1, <1>2, VersionsReadTyped
<1> HIDE DEF versions
<1>5. /\ DOMAIN ItemsOf(versions) \subseteq ProductsOf(file)
      /\ \A q \in DOMAIN ItemsOf(versions) : ItemsOf(versions)[q] = EolDate(q, versions)
  BY <1>4, ItemsAreEolDates
<1>6. ASSUME NEW q \in DOMAIN f
      PROVE  q \in Products /\ RowRight(q, f[q])
  <2>1. /\ q \in DOMAIN ItemsOf(versions)
        /\ f[q] = [closed |-> ItemsOf(versions)[q], read |-> read]
    BY <1>1 DEF versions
  <2>2. q \in ProductsOf(file)
    BY <1>5, <2>1
  <2>3. q \in Products /\ FileOf(q) = file
    BY <2>2 DEF ProductsOf, Products, FileOf, Files
  <2>4. f[q].closed = EolDate(q, versions) /\ f[q].read = read
    BY <1>5, <2>1
  <2> QED
    BY <1>1, <2>3, <2>4 DEF RowRight, ClosedRight, versions
<1> QED
  BY <1>6

LEMMA RowsRightNext == EolInv /\ [Next]_vars => RowsRight'
<1> SUFFICES ASSUME EolInv, [Next]_vars PROVE RowsRight'
  OBVIOUS
<1>0. IInv /\ TypeOK
  BY DEF EolInv
<1>1. ASSUME NEW p \in Importers, NEW q \in DOMAIN stream'[p], NEW closed, NEW read,
             stream'[p][q].closed = closed, stream'[p][q].read = read
      PROVE  ClosedRight(q, closed, read)'
  <2>1. q \in Products /\ ClosedRight(q, closed, read)
    <3>1. CASE Copied(stream'[p], stream[p])
      <4>1. q \in DOMAIN stream[p] /\ stream'[p][q] = stream[p][q]
        BY <3>1 DEF Copied
      <4> QED
        BY <1>0, <1>1, <4>1 DEF EolInv, TypeOK, RowsRight, RowRight
    <3>2. CASE ReadAnew(stream'[p])
      <4>1. q \in Products /\ RowRight(q, stream'[p][q])
        BY <3>2, ReadIsRight
      <4> QED
        BY <1>1, <4>1 DEF RowRight
    <3> QED
      BY <1>0, <3>1, <3>2, SourcesNext DEF Sources
  <2> QED
    BY <2>1, RightStays
<1>2. ASSUME NEW q \in Products, products'[q] # NoProduct, NEW closed, NEW read,
             products'[q].closed = closed, products'[q].read = read
      PROVE  ClosedRight(q, closed, read)'
  <2>1. ClosedRight(q, closed, read)
    <3>1. CASE products'[q] = products[q]
      BY <1>2, <3>1 DEF EolInv, RowsRight, RowRight
    <3>2. CASE WrittenFrom(q)
      BY <1>2, <3>2 DEF WrittenFrom, EolInv, RowsRight, RowRight
    <3> QED
      BY <1>0, <3>1, <3>2, ProductsNext
  <2> QED
    BY <2>1, RightStays
<1>3. \A p \in Importers : \A q \in DOMAIN stream'[p] : RowRight(q, stream[p][q])'
  BY <1>1 DEF RowRight
<1>4. \A q \in Products : products'[q] # NoProduct => RowRight(q, products[q])'
  BY <1>2 DEF RowRight
<1> QED
  BY <1>3, <1>4 DEF RowsRight, NoProduct

(* What a task is reading of a file are versions of it, and only then. *)
LogFits(p) == IF pc[p][2] = "read" THEN IsReading(pc[p][1], log[p]) ELSE log[p] = Nothing

(* A step of one task fits for it, and leaves the others alone. *)
Fits(p) ==
    /\ LogFits(p)'
    /\ \A o \in Importers \ {p} : pc'[o] = pc[o] /\ log'[o] = log[o]

LEMMA EndFits ==
    ASSUME EolInv, NEW p \in Importers, End(p)
    PROVE  Fits(p)
<1>1. StartOfRun[2] = "clone"
  BY DEF StartOfRun
<1>2. pc'[p] = StartOfRun /\ log'[p] = Nothing
  BY DEF End, EolInv, IInv, Shapes, IsFunctionOn
<1>3. \A o \in Importers \ {p} : pc'[o] = pc[o] /\ log'[o] = log[o]
  BY DEF End, EolInv, IInv, Shapes, IsFunctionOn
<1> QED
  BY <1>1, <1>2, <1>3 DEF LogFits, Fits

(* A step from a stage other than "read" to another one such. *)
LEMMA StageFits ==
    ASSUME EolInv, NEW p \in Importers, NEW file \in Files, NEW from, NEW to,
           from # "read", to # "read", pc[p] = <<file, from>>,
           NEW next \in Files, pc' = [pc EXCEPT ![p] = <<next, to>>], UNCHANGED log
    PROVE  Fits(p)
<1>1. pc[p][2] = from /\ LogFits(p)
  BY DEF EolInv, TypeOK, LogFits
<1>2. log'[p] = Nothing
  BY <1>1 DEF LogFits
<1>3. pc'[p] = <<next, to>> /\ \A o \in Importers \ {p} : pc'[o] = pc[o]
  BY DEF EolInv, IInv, Shapes
<1>4. pc'[p][2] = to
  BY <1>3
<1> QED
  BY <1>2, <1>3, <1>4 DEF LogFits, Fits

LEMMA LogTakenFits ==
    ASSUME EolInv, NEW p \in Importers, NEW file \in Files, Log(p, file)
    PROVE  Fits(p)
<1>1. PICK positions \in {PositionsOf(file), {}} :
         log' = [log EXCEPT ![p] = Reading(file, positions)]
  BY DEF Log
<1>2. log'[p] = Reading(file, positions) /\ \A o \in Importers \ {p} : log'[o] = log[o]
  BY <1>1 DEF EolInv, IsFunctionOn
<1>3. pc'[p] = <<file, "read">> /\ \A o \in Importers \ {p} : pc'[o] = pc[o]
  BY DEF Log, EolInv, IInv, Shapes
<1>4. positions \subseteq InHistory(file) /\ commits' = commits
  <2>1. clone.head \in 0 .. Len(commits) /\ Len(commits) \in Nat
    BY DEF EolInv, TypeOK
  <2> QED
    BY <1>1, <2>1 DEF PositionsOf, InHistory, Log, git
<1>5. IsReading(file, Reading(file, positions))
  BY <1>4 DEF IsReading, Reading
<1>6. IsReading(file, log[p])'
  BY <1>2, <1>4, <1>5 DEF IsReading, InHistory, Reading, V1Positions
<1>7. pc'[p][1] = file /\ pc'[p][2] = "read"
  BY <1>3
<1> QED
  BY <1>2, <1>3, <1>6, <1>7 DEF LogFits, Fits

LEMMA ShowFailsFits ==
    ASSUME EolInv, NEW p \in Importers, ShowFails(p)
    PROVE  Fits(p)
<1>1. pc' = pc /\ commits' = commits /\ pc[p][2] = "read"
  BY DEF ShowFails, git
<1>2. IsReading(pc[p][1], log[p])
  BY <1>1 DEF EolInv, TypeOK
<1>3. \/ \E i : log' = [log EXCEPT ![p].v1 = @ \ {i}]
      \/ \E i : log' = [log EXCEPT ![p].v2 = @ \ {i}]
  BY DEF ShowFails
<1>4. \/ \E i : log'[p] = [log[p] EXCEPT !.v1 = @ \ {i}]
      \/ \E i : log'[p] = [log[p] EXCEPT !.v2 = @ \ {i}]
  BY <1>3 DEF EolInv, IsFunctionOn
<1>5. \A o \in Importers \ {p} : log'[o] = log[o]
  BY <1>3 DEF EolInv, IsFunctionOn
<1>6. IsReading(pc[p][1], log'[p])
  BY <1>2, <1>4 DEF IsReading
<1>7. IsReading(pc[p][1], log[p])'
  BY <1>1, <1>6 DEF IsReading, InHistory, Reading, V1Positions
<1> QED
  BY <1>1, <1>5, <1>7 DEF LogFits, Fits

LEMMA ReadFits ==
    ASSUME EolInv, NEW p \in Importers, NEW file \in Files, Read(p, file)
    PROVE  Fits(p)
<1>1. CASE End(p)
  BY <1>1, EndFits
<1>2. CASE ~End(p)
  <2>1. /\ pc' = [pc EXCEPT ![p] = <<file, "feeds">>]
        /\ log' = [log EXCEPT ![p] = Nothing]
    BY <1>2 DEF Read
  <2>2. pc'[p] = <<file, "feeds">> /\ log'[p] = Nothing
    BY <2>1 DEF EolInv, IInv, Shapes, IsFunctionOn
  <2>3. pc'[p][2] = "feeds"
    BY <2>2
  <2>4. \A o \in Importers \ {p} : pc'[o] = pc[o] /\ log'[o] = log[o]
    BY <2>1 DEF EolInv, IInv, Shapes, IsFunctionOn
  <2> QED
    BY <2>2, <2>3, <2>4 DEF LogFits, Fits
<1> QED
  BY <1>1, <1>2

LEMMA StepFits ==
    ASSUME EolInv, NEW p \in Importers, Step(p) \/ Fault(p)
    PROVE  Fits(p) \/ UNCHANGED <<pc, log>>
<1>1. ASSUME NEW file \in Files, Clone(p, file)
      PROVE  Fits(p)
  BY <1>1, StageFits DEF Clone
<1>2. ASSUME NEW file \in Files, Pull(p, file)
      PROVE  Fits(p)
  BY <1>2, StageFits DEF Pull
<1>3. ASSUME NEW file \in Files, UpsertFeeds(p, file)
      PROVE  Fits(p)
  BY <1>3, StageFits DEF UpsertFeeds
<1>4. ASSUME NEW file \in Files, UpsertProducts(p, file)
      PROVE  Fits(p)
  BY <1>4, StageFits DEF UpsertProducts
<1>5. ASSUME NEW file \in Files, IgnoreAddresses(p, file)
      PROVE  Fits(p)
  <2>1. CASE End(p)
    BY <2>1, EndFits
  <2>2. CASE ~End(p)
    <3>1. /\ pc[p] = <<file, "ignore">> /\ UNCHANGED log
          /\ pc' = [pc EXCEPT ![p] = <<"boosts", "clone">>]
      BY <1>5, <2>2 DEF IgnoreAddresses
    <3>2. "boosts" \in Files
      BY DEF Files
    <3> QED
      BY <3>1, <3>2, StageFits
  <2> QED
    BY <2>1, <2>2
<1>6. ASSUME NEW file \in Files, Log(p, file) \/ Read(p, file)
      PROVE  Fits(p)
  BY <1>6, LogTakenFits, ReadFits
<1>7. ASSUME Fault(p)
      PROVE  Fits(p) \/ UNCHANGED <<pc, log>>
  <2>1. CASE Crash(p) \/ OtherChainFails(p) \/ GitFails(p)
    BY <2>1, EndFits DEF Crash, OtherChainFails, GitFails
  <2>2. CASE ShowFails(p)
    BY <2>2, ShowFailsFits
  <2>3. CASE UpsertFails(p)
    BY <2>3 DEF UpsertFails, DropBatch
  <2> QED
    BY <1>7, <2>1, <2>2, <2>3 DEF Fault
<1> QED
  BY <1>1, <1>2, <1>3, <1>4, <1>5, <1>6, <1>7 DEF Step

LEMMA LogFitsNext ==
    ASSUME EolInv, [Next]_vars
    PROVE  \A o \in Importers : LogFits(o)'
<1>1. ASSUME NEW o \in Importers, pc'[o] = pc[o], log'[o] = log[o]
      PROVE  LogFits(o)'
  <2>1. LogFits(o) /\ (pc[o][2] = "read" => pc[o][1] \in Files)
    BY DEF EolInv, TypeOK, LogFits, Stages
  <2>2. InHistory(pc[o][1]) \subseteq InHistory(pc[o][1])'
    BY <1>1, HistoryGrows DEF EolInv
  <2>3. CASE pc[o][2] = "read"
    <3>1. IsReading(pc[o][1], log[o]) /\ pc[o][1] \in Files
      BY <2>1, <2>3 DEF LogFits
    <3>2. IsReading(pc[o][1], log[o])'
      BY <1>1, <2>2, <3>1 DEF IsReading, Reading, V1Positions
    <3> QED
      BY <1>1, <2>3, <3>2 DEF LogFits
  <2>4. CASE pc[o][2] # "read"
    BY <1>1, <2>1, <2>4 DEF LogFits
  <2> QED
    BY <2>3, <2>4
<1>2. \/ UNCHANGED <<pc, log>>
      \/ \E p \in Importers : Fits(p)
  <2>1. \/ Tick \/ CommitFile \/ UNCHANGED vars
        \/ \E p \in Importers : Step(p) \/ Fault(p)
    BY DEF Next
  <2>2. CASE Tick \/ CommitFile \/ UNCHANGED vars
    BY <2>2 DEF Tick, CommitFile, vars
  <2> QED
    BY <2>1, <2>2, StepFits
<1> QED
  BY <1>1, <1>2 DEF Fits

LEMMA LogShapeNext ==
    ASSUME EolInv, [Next]_vars
    PROVE  IsFunctionOn(log, Importers)'
<1> DEFINE Kept(p) == \/ UNCHANGED log
                      \/ \E f : log' = [log EXCEPT ![p] = f]
<1>1. ASSUME NEW p \in Importers, NEW file \in Files,
             \/ Clone(p, file) \/ Pull(p, file) \/ Log(p, file) \/ Read(p, file)
             \/ UpsertFeeds(p, file) \/ UpsertProducts(p, file) \/ IgnoreAddresses(p, file)
      PROVE  Kept(p)
  BY <1>1 DEF Clone, Pull, Log, Read, UpsertFeeds, UpsertProducts, IgnoreAddresses, End
<1>2. ASSUME NEW p \in Importers, Fault(p)
      PROVE  Kept(p)
  <2>1. CASE Crash(p) \/ OtherChainFails(p) \/ GitFails(p)
    BY <2>1 DEF Crash, OtherChainFails, GitFails, End
  <2>2. CASE ShowFails(p)
    BY <2>2 DEF ShowFails
  <2>3. CASE UpsertFails(p)
    BY <2>3 DEF UpsertFails
  <2> QED
    BY <1>2, <2>1, <2>2, <2>3 DEF Fault
<1>3. CASE Tick \/ CommitFile \/ UNCHANGED vars
  BY <1>3 DEF Tick, CommitFile, vars, EolInv, IsFunctionOn
<1>4. ASSUME NEW p \in Importers, Kept(p)
      PROVE  IsFunctionOn(log, Importers)'
  BY <1>4 DEF EolInv, IsFunctionOn
<1> QED
  BY <1>1, <1>2, <1>3, <1>4 DEF Next, Step

LEMMA CatalogueTypedNext == EolInv /\ [Next]_vars => TypeOK'
<1> SUFFICES ASSUME EolInv, [Next]_vars PROVE TypeOK'
  OBVIOUS
<1>0. IInv /\ TypeOK /\ IInv'
  BY IInvNext DEF EolInv
<1>1. /\ now' \in 0 .. MaxNow
      /\ commits' \in Seq(Commits(1 .. now'))
      /\ Len(commits) <= Len(commits') /\ Len(commits) \in Nat /\ Len(commits') \in Nat
  BY HistoryGrows DEF EolInv, TypeOK
<1>2. ASSUME NEW p \in Importers
      PROVE  DOMAIN stream'[p] \cup DOMAIN vaultItems'[p] \subseteq Products
  <2>1. DOMAIN stream[p] \subseteq Products /\ DOMAIN vaultItems[p] \subseteq Products
    BY <1>0 DEF TypeOK
  <2>2. Sources(p)
    BY <1>0, SourcesNext
  <2>3. DOMAIN stream'[p] \subseteq Products
    BY <2>1, <2>2, ReadIsRight DEF Sources, Copied
  <2>4. DOMAIN vaultItems'[p] \subseteq Products
    BY <2>1, <2>2 DEF Sources, Copied
  <2> QED
    BY <2>3, <2>4
<1>3. clone' \in [state : {"none", "unusable", "ok"}, head : 0 .. Len(commits')]
  <2>0. clone \in [state : {"none", "unusable", "ok"}, head : 0 .. Len(commits')]
    BY <1>0, <1>1 DEF TypeOK
  <2>1. ASSUME NEW p \in Importers, NEW file \in Files, Clone(p, file) \/ Pull(p, file)
        PROVE  clone' = Cloned \/ clone' = clone
    BY <2>1 DEF Clone, Pull
  <2>2. ASSUME NEW p \in Importers, Crash(p)
        PROVE  clone' = [clone EXCEPT !.state = "unusable"] \/ clone' = clone
    BY <2>2 DEF Crash
  <2>3. \/ UNCHANGED clone
        \/ \E p \in Importers :
              Crash(p) \/ \E file \in Files : Clone(p, file) \/ Pull(p, file)
    BY DEF Next, Tick, CommitFile, Step, Log, Read, UpsertFeeds, UpsertProducts, IgnoreAddresses,
           Fault, OtherChainFails, GitFails, ShowFails, UpsertFails, git, vars
  <2>4. Cloned \in [state : {"none", "unusable", "ok"}, head : 0 .. Len(commits')]
    BY <1>1 DEF Cloned
  <2>5. [clone EXCEPT !.state = "unusable"]
          \in [state : {"none", "unusable", "ok"}, head : 0 .. Len(commits')]
    BY <2>0
  <2> QED
    BY <2>0, <2>1, <2>2, <2>3, <2>4, <2>5
<1>4. ignored' \subseteq Products
  <2>1. \/ UNCHANGED ignored
        \/ \E p \in Importers : ignored' = ignored \cup DOMAIN stream[p]
    BY DEF Next, Tick, CommitFile, Step, Clone, Pull, Log, Read, UpsertFeeds, UpsertProducts,
           IgnoreAddresses, Fault, Crash, OtherChainFails, GitFails, ShowFails, UpsertFails,
           tables, vars
  <2> QED
    BY <1>0, <2>1 DEF TypeOK
<1>5. faults' \in 0 .. MaxFaults
  <2>1. UNCHANGED faults \/ Fails
    BY DEF Next, Tick, CommitFile, Step, Clone, Pull, Log, Read, UpsertFeeds, UpsertProducts,
           IgnoreAddresses, Fault, Crash, OtherChainFails, GitFails, ShowFails, UpsertFails, vars
  <2> QED
    BY <1>0, <2>1 DEF TypeOK, Fails
<1>6. \A p \in Importers : LogFits(p)'
  BY LogFitsNext
<1> QED
  BY <1>0, <1>1, <1>2, <1>3, <1>4, <1>5, <1>6 DEF TypeOK, IInv, Shapes, LogFits

LEMMA EolNext == EolInv /\ [Next]_vars => EolInv'
<1> SUFFICES ASSUME EolInv, [Next]_vars PROVE EolInv'
  OBVIOUS
<1>1. now >= 2 /\ now \in Int /\ now' \in Int /\ now' >= now
  BY HistoryGrows DEF EolInv, TypeOK
<1> QED
  BY <1>1, IInvNext, CatalogueTypedNext, RowsRightNext, LogShapeNext DEF EolInv

(***************************************************************************)
(* The variables of the products tasks keep their types: what is in the    *)
(* pipeline are products, and the clone never is ahead of the branch.      *)
(***************************************************************************)
THEOREM CatalogueTyped == Spec => []TypeOK
<1>1. EolInv => TypeOK
  BY DEF EolInv
<1> QED
  BY <1>1, EolInit, EolNext, PTL DEF Spec

(***************************************************************************)
(* The fold that finds the end of life of a product computes what it is    *)
(* meant to for any history, in whatever order the dates of its commits    *)
(* are, with versions git show could not get left out, and whoever pulled  *)
(* the clone or killed a task: a product is closed since the first of the  *)
(* last versions read that close it or no longer list it.                  *)
(***************************************************************************)
THEOREM CatalogueEolDates == Spec => []EolDatesRight
<1>1. EolInv => EolDatesRight
  BY DEF EolInv, RowsRight, RowRight, ClosedRight, EolDatesRight
<1> QED
  BY <1>1, EolInit, EolNext, PTL DEF Spec
=============================================================================
