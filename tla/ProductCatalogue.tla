-------------------------- MODULE ProductCatalogue --------------------------
(***************************************************************************)
(* Where the products come from: the "products" task reads every version   *)
(* of the vault and of the boost file of a chain from a git clone that the *)
(* processes of a host share, finds out since when each vault and boost is *)
(* closed, and upserts price feeds, products and ignored addresses.  The   *)
(* importers poll the products that are not closed for long.               *)
(*                                                                         *)
(* The files of one chain; what ends the run of all chains in the files of *)
(* another one is a fault.  Git, its remotes and the developers who commit *)
(* are external.  A version of a file has the author date of its commit,   *)
(* which a rebase keeps: versions are not always in the order of the dates.*)
(*                                                                         *)
(* Not modelled: bridged versions of a vault (they copy it), cowcentrated  *)
(* vaults (left out by the code), the active flag of the price feeds and   *)
(* the feeds of items that fail later, the removal of a whole file, and    *)
(* the wording of keys and ids.                                            *)
(***************************************************************************)
EXTENDS Integers, FiniteSets, SequencesExt

CONSTANTS
    Importers,      \* the processes that run the products task
    Vaults, Boosts, \* contract addresses
    GovVaults,      \* the vaults with rewards
    Id,             \* the id of a vault without -eol and -pause, by vault
    Pool,           \* the vault id a boost is for, by boost
    V1Log,          \* the versions of the v1 vault file, ordered by date
    Month,          \* the month of a date
    History,        \* the commits of the v2 repository at the start
    Edits,          \* the contents the developers may commit, by file
    MaxCommits, MaxNow, MaxFaults,  \* bounds
    EolAfter        \* behaviour.productIsDashboardEolAfter

Products == Vaults \cup Boosts
Files == {"vaults", "boosts"}
ProductsOf(file) == IF file = "vaults" THEN Vaults ELSE Boosts

(* The content of a file that is not JSON, else contracts and their status: *)
(* a file without any has them absent.                                      *)
Broken == [b \in {} |-> "absent"]
Contents(file) ==
    UNION {[listed -> {"active", "closed", "absent"}] : listed \in SUBSET ProductsOf(file)}

(***************************************************************************)
(* The versions of a file.  No date is 0, which stands for none: a commit  *)
(* may be dated a moment before the last of the history, at 2 or later.    *)
(***************************************************************************)
Versions(file, dates) == [date : dates, content : Contents(file)]
Commits(dates) == UNION {[file : {file}, version : Versions(file, dates)] : file \in Files}

(* An address has one contract, of a vault or of a boost. *)
ASSUME CatalogueAssumption ==
    /\ Vaults \cap Boosts = {}
    /\ {MaxCommits, MaxNow, MaxFaults} \subseteq Nat
    /\ V1Log \in Seq(Versions("vaults", 1 .. MaxNow))
    /\ History \in Seq(Commits(2 .. MaxNow)) \ {<<>>}
    /\ \A file \in Files : Edits[file] \subseteq Contents(file)

VARIABLES
    now,
    commits,    \* the history of the branch
    clone,      \* the local clone: its state and how much of the history it has
    pc,         \* what a products task is doing
    log,        \* the versions of a file it is reading
    stream,     \* the items in its pipeline: since when each product is closed
    vaultItems, \* the vaults it upserted, that boosts are looked up in
    feeds,      \* the price feeds of the database
    products,   \* the products of the database
    ignored,    \* the ignored addresses of the database
    faults

git == <<now, commits, clone>>
tables == <<feeds, products, ignored>>
vars == <<git, pc, log, stream, vaultItems, tables, faults>>

Stages == Files \X {"clone", "pull", "log", "read", "feeds", "products", "ignore"}
StartOfRun == <<"vaults", "clone">>

Nothing == [v1 |-> {}, v2 |-> {}]
NoItems == [q \in {} |-> 0]
NoProduct == [closed |-> 0, dashboardEol |-> FALSE, vault |-> {}, read |-> {}]

Init ==
    /\ now = Max({c.version.date : c \in ToSet(History)})
    /\ commits = History
    /\ clone = [state |-> "none", head |-> 0]
    /\ pc = [p \in Importers |-> StartOfRun]
    /\ log = [p \in Importers |-> Nothing]
    /\ stream = [p \in Importers |-> NoItems]
    /\ vaultItems = [p \in Importers |-> NoItems]
    /\ feeds = {}
    /\ products = [q \in Products |-> NoProduct]
    /\ ignored = {}
    /\ faults = 0

Fails == faults < MaxFaults /\ faults' = faults + 1

-----------------------------------------------------------------------------
(* The developers. *)

Tick ==
    /\ now < MaxNow
    /\ now' = now + 1
    /\ UNCHANGED <<commits, clone, pc, log, stream, vaultItems, tables, faults>>

(* A commit authored now, or authored a moment ago and rebased. *)
CommitFile ==
    /\ Len(commits) < Len(History) + MaxCommits
    /\ \E file \in Files : \E content \in Edits[file], date \in {now - 1, now} :
         commits' = Append(commits, [file |-> file,
                                     version |-> [date |-> date, content |-> content]])
    /\ UNCHANGED <<now, clone, pc, log, stream, vaultItems, tables, faults>>

-----------------------------------------------------------------------------
(* The versions of a file. *)

Sorted(S, order) ==
    CHOOSE s \in [1 .. Cardinality(S) -> S] :
        \A i, j \in 1 .. Cardinality(S) : i < j => <<s[i], s[j]>> \in order

(* git log gives the newest first; sortBy(date) keeps that order for ties. *)
ByDate(positions) ==
    LET Date(i) == commits[i].version.date
    IN  {o \in positions \X positions :
            Date(o[1]) < Date(o[2]) \/ (Date(o[1]) = Date(o[2]) /\ o[1] > o[2])}
SortedByDate(positions) == Sorted(positions, ByDate(positions))

(* gitStreamFileVersions: the versions of some commits, in order. *)
VersionsAt(positions) ==
    LET sorted == SortedByDate(positions)
    IN  [k \in 1 .. Cardinality(positions) |-> commits[sorted[k]].version]

(***************************************************************************)
(* The v1 repository does not change any more.  Of its versions, those     *)
(* that are the first of their month and can be parsed are kept.           *)
(***************************************************************************)
V1Positions ==
    LET MonthOf(k) == Month[V1Log[k].date]
    IN  {k \in DOMAIN V1Log : /\ \A i \in 1 .. (k - 1) : MonthOf(i) # MonthOf(k)
                             /\ V1Log[k].content # Broken}

V1VersionsAt(positions) ==
    LET sorted == Sorted(positions, {o \in positions \X positions : o[1] < o[2]})
    IN  [k \in 1 .. Cardinality(positions) |-> V1Log[sorted[k]]]

(* The versions of a file with these commits: v1 versions, then v2 versions. *)
Reading(file, positions) ==
    [v1 |-> IF file = "vaults" THEN V1Positions ELSE {}, v2 |-> positions]
VersionsRead(read) == V1VersionsAt(read.v1) \o VersionsAt(read.v2)

-----------------------------------------------------------------------------
(* Since when each product is closed, 0 when it is not. *)

Lists(version, q) ==
    q \in DOMAIN version.content /\ version.content[q] # "absent"

Open(version, q) == Lists(version, q) /\ version.content[q] = "active"

(* Mutant: a product that is listed again keeps the date it was removed at. *)
ApplyVersionKeepingDate(acc, version) ==
    [q \in DOMAIN acc \cup {r \in Products : Lists(version, r)} |->
        LET before == IF q \in DOMAIN acc THEN acc[q] ELSE 0
        IN  IF Open(version, q) \/ before # 0 THEN before ELSE version.date]

(***************************************************************************)
(* One version of the file: the products it closes, or no longer lists,    *)
(* are closed from its date on unless they already were; those it lists as *)
(* active are open (again).  A boost file that is not JSON lists nothing.  *)
(***************************************************************************)
ApplyVersion(acc, version) ==
    [q \in DOMAIN acc \cup {r \in Products : Lists(version, r)} |->
        LET before == IF q \in DOMAIN acc THEN acc[q] ELSE 0
        IN  IF Open(version, q) THEN 0
            ELSE IF before # 0 THEN before ELSE version.date]

ItemsOf(versions) == FoldLeft(ApplyVersion, NoItems, versions)

(* computeIsDashboardEOL *)
DashboardEol(closed) == closed # 0 /\ closed < now - EolAfter

-----------------------------------------------------------------------------
(* A products task. *)

(* The end of a run: the next one starts from nothing. *)
End(p) ==
    /\ pc' = [pc EXCEPT ![p] = StartOfRun]
    /\ log' = [log EXCEPT ![p] = Nothing]
    /\ stream' = [stream EXCEPT ![p] = NoItems]
    /\ vaultItems' = [vaultItems EXCEPT ![p] = NoItems]

Cloned == [state |-> "ok", head |-> Len(commits)]

(* Under the lock of the repository: clone it if there is no directory yet. *)
Clone(p, file) ==
    /\ pc[p] = <<file, "clone">>
    /\ clone' = IF clone.state = "none" THEN Cloned ELSE clone
    /\ pc' = [pc EXCEPT ![p] = <<file, "pull">>]
    /\ UNCHANGED <<now, commits, log, stream, vaultItems, tables, faults>>

(* Mutant: a clone that is there is used as it is. *)
PullOnce(p, file) ==
    /\ pc[p] = <<file, "pull">>
    /\ clone.state = "ok"
    /\ pc' = [pc EXCEPT ![p] = <<file, "log">>]
    /\ UNCHANGED <<git, log, stream, vaultItems, tables, faults>>

(* Under the lock again: check the branch out and pull. *)
Pull(p, file) ==
    /\ pc[p] = <<file, "pull">>
    /\ clone.state = "ok"
    /\ clone' = Cloned
    /\ pc' = [pc EXCEPT ![p] = <<file, "log">>]
    /\ UNCHANGED <<now, commits, log, stream, vaultItems, tables, faults>>

(* The lock, the clone or the pull fails; what a kill left always does. *)
GitFails(p) ==
    /\ \/ pc[p][2] = "pull" /\ clone.state = "unusable" /\ UNCHANGED faults
       \/ pc[p][2] \in {"clone", "pull"} /\ Fails
    /\ End(p)
    /\ UNCHANGED <<git, tables>>

-----------------------------------------------------------------------------
(* Reading a file, without the lock: another task may be pulling. *)

PositionsOf(file) == {i \in 1 .. clone.head : commits[i].file = file}

(* The pull of another task takes the file away before it writes it anew. *)
Rewritten(p, file) ==
    /\ \E o \in Importers \ {p} : pc[o][2] = "pull"
    /\ clone.state = "ok"
    /\ \E i \in (clone.head + 1) .. Len(commits) : commits[i].file = file

(***************************************************************************)
(* The log of the clone as it is now, whoever pulled it last.  A file that *)
(* is not there has no versions.                                           *)
(***************************************************************************)
Log(p, file) ==
    /\ pc[p] = <<file, "log">>
    /\ pc' = [pc EXCEPT ![p] = <<file, "read">>]
    /\ \E positions \in {PositionsOf(file), {}} :
         /\ positions = PositionsOf(file) \/ Rewritten(p, file)
         /\ log' = [log EXCEPT ![p] = Reading(file, positions)]
    /\ UNCHANGED <<git, stream, vaultItems, tables, faults>>

(* Boosts are only kept with a vault of this run, upserted and all. *)
ItemsToUpsert(p, file, items) ==
    IF file = "vaults" THEN items
    ELSE [b \in {c \in DOMAIN items : \E v \in DOMAIN vaultItems[p] : Id[v] = Pool[c]}
            |-> items[b]]

(* A version git show cannot get is skipped. *)
ShowFails(p) ==
    /\ pc[p][2] = "read"
    /\ \/ \E i \in log[p].v1 : log' = [log EXCEPT ![p].v1 = @ \ {i}]
       \/ \E i \in log[p].v2 : log' = [log EXCEPT ![p].v2 = @ \ {i}]
    /\ Fails
    /\ UNCHANGED <<git, pc, stream, vaultItems, tables>>

(***************************************************************************)
(* The contents, by hash: no pull changes them.  A v2 vault file that is   *)
(* not JSON ends the run.                                                  *)
(***************************************************************************)
Read(p, file) ==
    /\ pc[p] = <<file, "read">>
    /\ IF file = "vaults" /\ \E i \in log[p].v2 : commits[i].version.content = Broken
       THEN End(p)
       ELSE /\ pc' = [pc EXCEPT ![p] = <<file, "feeds">>]
            /\ log' = [log EXCEPT ![p] = Nothing]
            /\ \E versions \in {VersionsRead(log[p])} :
               \E since \in {ItemsOf(versions)} :
                 LET items == [q \in DOMAIN since |-> [closed |-> since[q], read |-> log[p]]]
                 IN  stream' = [stream EXCEPT ![p] = ItemsToUpsert(p, file, items)]
            /\ UNCHANGED vaultItems
    /\ UNCHANGED <<git, tables, faults>>

(***************************************************************************)
(* The price feeds: that of a vault is keyed by its id, hence shared with  *)
(* the vaults it replaced; a gov vault and a boost have one for rewards.   *)
(***************************************************************************)
VaultFeeds(v) ==
    {<<"vault", Id[v]>>} \cup {<<"reward", g>> : g \in GovVaults \cap {v}}
BoostFeeds(b) == {<<"vault", Pool[b]>>, <<"reward", b>>}
FeedsOf(q) == IF q \in Vaults THEN VaultFeeds(q) ELSE BoostFeeds(q)

UpsertFeeds(p, file) ==
    /\ pc[p] = <<file, "feeds">>
    /\ pc' = [pc EXCEPT ![p] = <<file, "products">>]
    /\ feeds' = feeds \cup UNION {FeedsOf(q) : q \in DOMAIN stream[p]}
    /\ UNCHANGED <<git, log, stream, vaultItems, products, ignored, faults>>

(* The rows of items; the order of the file says which vault a boost takes. *)
VaultsOf(p, q) ==
    IF q \in Vaults THEN {q} ELSE {v \in DOMAIN vaultItems[p] : Id[v] = Pool[q]}

Write(p, written) ==
    \E vaultOf \in [written -> Vaults] :
        /\ \A q \in written : vaultOf[q] \in VaultsOf(p, q)
        /\ products' = [q \in Products |->
             IF q \notin written THEN products[q]
             ELSE [closed |-> stream[p][q].closed,
                   dashboardEol |-> DashboardEol(stream[p][q].closed),
                   vault |-> {vaultOf[q]},
                   read |-> stream[p][q].read]]

UpsertProducts(p, file) ==
    /\ pc[p] = <<file, "products">>
    /\ pc' = [pc EXCEPT ![p] = <<file, "ignore">>]
    /\ Write(p, DOMAIN stream[p])
    /\ UNCHANGED <<git, log, stream, vaultItems, feeds, ignored, faults>>

(* The addresses of the products are ignored; after the vaults, the boosts. *)
IgnoreAddresses(p, file) ==
    /\ pc[p] = <<file, "ignore">>
    /\ ignored' = ignored \cup DOMAIN stream[p]
    /\ IF file = "vaults" /\ DOMAIN stream[p] # {}
       THEN /\ pc' = [pc EXCEPT ![p] = <<"boosts", "clone">>]
            /\ UNCHANGED log
            /\ vaultItems' = [vaultItems EXCEPT ![p] = stream[p]]
            /\ stream' = [stream EXCEPT ![p] = NoItems]
       ELSE End(p)
    /\ UNCHANGED <<git, feeds, products, faults>>

(* Mutant: the items go on without what the batch was to add to them. *)
DropBatchLater(p, lost) ==
    /\ pc' = [pc EXCEPT ![p] = CASE @[2] = "feeds" -> <<@[1], "products">>
                                 [] @[2] = "products" -> <<@[1], "ignore">>
                                 [] OTHER -> StartOfRun]
    /\ UNCHANGED stream

(* dbBatchCall$: the items of a batch that fails leave the pipeline. *)
DropBatch(p, lost) ==
    /\ stream' = [stream EXCEPT ![p] = [q \in DOMAIN @ \ lost |-> @[q]]]
    /\ UNCHANGED pc

(* The INSERT of the new products may be done when the UPDATE fails. *)
UpsertFails(p) ==
    /\ pc[p][2] \in {"feeds", "products", "ignore"}
    /\ Fails
    /\ \E lost \in SUBSET DOMAIN stream[p] :
         /\ lost # {}
         /\ \/ UNCHANGED products
            \/ /\ pc[p][2] = "products"
               /\ Write(p, {q \in lost : products[q] = NoProduct})
         /\ DropBatch(p, lost)
    /\ UNCHANGED <<git, log, vaultItems, feeds, ignored>>

(***************************************************************************)
(* All chains are in one pipeline: an error that ends it for another one   *)
(* (its vault file is not JSON, its pull fails) ends the run.              *)
(***************************************************************************)
OtherChainFails(p) ==
    /\ Fails
    /\ End(p)
    /\ UNCHANGED <<git, tables>>

(* A kill: git may leave half a clone, or the lock of its index. *)
Crash(p) ==
    /\ Fails
    /\ clone' \in {clone, [clone EXCEPT !.state = "unusable"]}
    /\ clone' # clone => <<pc[p][2], clone.state>> \in {<<"clone", "none">>, <<"pull", "ok">>}
    /\ End(p)
    /\ UNCHANGED <<now, commits, tables>>

-----------------------------------------------------------------------------
(* The products an importer finds at its next poll: none closed for long. *)
LiveProducts == {q \in Products : products[q] # NoProduct /\ ~products[q].dashboardEol}

-----------------------------------------------------------------------------

Step(p) ==
    \E file \in Files : \/ Clone(p, file)
                        \/ Pull(p, file)
                        \/ Log(p, file)
                        \/ Read(p, file)
                        \/ UpsertFeeds(p, file)
                        \/ UpsertProducts(p, file)
                        \/ IgnoreAddresses(p, file)

Fault(p) ==
    \/ Crash(p)
    \/ OtherChainFails(p)
    \/ GitFails(p)
    \/ ShowFails(p)
    \/ UpsertFails(p)

Next ==
    \/ Tick
    \/ CommitFile
    \/ \E p \in Importers : Step(p) \/ Fault(p)

Spec == Init /\ [][Next]_vars

(***************************************************************************)
(* The tasks loop, and one of them at least goes on; the other may be      *)
(* stopped anywhere.  Nothing makes the developers or the faults go on.    *)
(***************************************************************************)
FairSpec == Spec /\ WF_vars(\E p \in Importers : Step(p))

-----------------------------------------------------------------------------
(***************************************************************************)
(* A product has its price feeds: the database has foreign keys, and an    *)
(* item whose feeds failed must not reach the table of the products.       *)
(***************************************************************************)
ProductsHaveFeeds ==
    \A q \in Products : products[q] # NoProduct => FeedsOf(q) \subseteq feeds

(* The versions of a file in the history of the branch. *)
InHistory(file) == {i \in 1 .. Len(commits) : commits[i].file = file}

IsReading(file, read) ==
    read \in [v1 : SUBSET Reading(file, {}).v1, v2 : SUBSET InHistory(file)]

(* The types, and the foreign keys. *)
TypeOK ==
    /\ now \in 0 .. MaxNow
    /\ commits \in Seq(Commits(1 .. now))
    /\ clone \in [state : {"none", "unusable", "ok"}, head : 0 .. Len(commits)]
    /\ pc \in [Importers -> Stages]
    /\ \A p \in Importers : IF pc[p][2] = "read" THEN IsReading(pc[p][1], log[p])
                                              ELSE log[p] = Nothing
    /\ \A p \in Importers : DOMAIN stream[p] \cup DOMAIN vaultItems[p] \subseteq Products
    /\ ProductsHaveFeeds
    /\ ignored \subseteq Products
    /\ faults \in 0 .. MaxFaults

(***************************************************************************)
(* "mark the eol date if found": the date a product has been closed since  *)
(* is that of the first of the last versions, without exception, that      *)
(* close it or no longer list it, once it was listed.                      *)
(***************************************************************************)
FileOf(q) == IF q \in Vaults THEN "vaults" ELSE "boosts"

ClosedAllAlong(q, versions, k) == \A j \in k .. Len(versions) : ~Open(versions[j], q)

EolDate(q, versions) ==
    LET starts == {k \in 1 .. Len(versions) :
                     /\ ClosedAllAlong(q, versions, k)
                     /\ \E i \in 1 .. k : Lists(versions[i], q)}
    IN  IF starts = {} THEN 0 ELSE versions[Min(starts)].date

EolDatesRight ==
    \A q \in Products :
        products[q] # NoProduct =>
            products[q].closed = EolDate(q, VersionsRead(products[q].read))

(***************************************************************************)
(* A boost is for a vault of the database, whatever failed on the way.     *)
(***************************************************************************)
BoostsHaveVaults ==
    \A b \in Boosts :
        products[b] # NoProduct =>
            \E v \in Vaults : /\ products[b].vault = {v}
                              /\ Id[v] = Pool[b]
                              /\ products[v] # NoProduct

(***************************************************************************)
(* In the end the importers work on what the repositories say: the         *)
(* products the last versions list as active, and none that the versions   *)
(* have closed for longer than the dashboard waits; and no product is      *)
(* taken for an investor.  Unless a kill left the clone unusable, a vault  *)
(* file cannot be parsed, or the last version of a file is not the one     *)
(* with the last author date.                                              *)
(***************************************************************************)
LastOf(file) == Max(InHistory(file))

Orderly ==
    /\ clone.state # "unusable"
    /\ \A i \in InHistory("vaults") : commits[i].version.content # Broken
    /\ commits[LastOf("boosts")].version.content # Broken
    /\ \A file \in Files :
          LET last == LastOf(file)
          IN  \A i \in InHistory(file) \ {last} : commits[i].version.date < commits[last].version.date

FollowsGit(file) ==
    \E versions \in {VersionsRead(Reading(file, InHistory(file)))} :
    \A q \in ProductsOf(file) :
        LET boostOfNone == /\ q \in Boosts
                           /\ \A v \in Vaults : Id[v] = Pool[q] => products[v] = NoProduct
        IN  /\ Open(commits[LastOf(file)].version, q) /\ ~boostOfNone => q \in LiveProducts
            /\ q \in LiveProducts => ~DashboardEol(EolDate(q, versions))

ImportersFollowGit ==
    <>[](Orderly => /\ \A file \in Files : FollowsGit(file)
                    /\ LiveProducts \subseteq ignored)
=============================================================================
